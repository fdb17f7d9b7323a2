----------------------------- MODULE OrgMembers -----------------------------
(***************************************************************************)
(* Who belongs to an organization and in which role: the tenant's own      *)
(* calls (orgs.service.ts), the platform operator's (admin.service.ts) and *)
(* the invitations by which people join (invitations.service.ts).          *)
(*                                                                         *)
(* Every call is a few reads, each a statement of its own, followed by one *)
(* transaction that writes the membership or the invitation by its key.    *)
(* Nothing is locked between a read and the write it justifies, so other   *)
(* calls run in between: a call is a small process whose record keeps what *)
(* it has read.                                                            *)
(***************************************************************************)
EXTENDS Naturals, FiniteSets

CONSTANTS
    Users,      \* accounts
    Addresses,  \* accounts whose address is invited
    NoUser,     \* the target of no call
    Calls,      \* API calls that can be in flight at the same time
    MaxOffers   \* bound: times one address is invited

ASSUME OrgMembersAssumption ==
    /\ Addresses \subseteq Users
    /\ NoUser \notin Users
    /\ MaxOffers \in Nat

VARIABLES
    member,     \* role of each user in the organization, or "none"
    invite,     \* the one invitation row of each address
    call        \* the calls in flight

membersVars == <<member, invite, call>>

-----------------------------------------------------------------------------

Role == {"OWNER", "ADMIN", "MEMBER"}

\* Whose authority a call acts with: the caller's role or the operator's.
Authority == {"OWNER", "ADMIN", "platform"}

\* offers counts the upserts; by is the authority of the latest one and claims
\* how often it has been accepted.
Invite == [status : {"absent", "PENDING", "ACCEPTED", "REVOKED", "EXPIRED"},
           role : Role, by : Authority, stale : BOOLEAN, offers : Nat,
           claims : Nat]

NoInvite == [status |-> "absent", role |-> "MEMBER", by |-> "OWNER",
             stale |-> FALSE, offers |-> 0, claims |-> 0]

\* The row under another status.  What it offered is kept, but no call reads it
\* of a row that is not PENDING: it is forgotten here.
Closed(row, status) ==
    [row EXCEPT !.status = status, !.role = "MEMBER", !.by = "OWNER", !.stale = FALSE]

Op == {"none", "role", "remove", "addMember", "invite", "revoke", "accept"}

\* role: what the call gives; owners: who the owners were at its latest read.
Call == [at : {"idle", "look", "count", "write", "expire"}, op : Op,
         target : Users \cup {NoUser}, role : Role, by : Authority,
         owners : SUBSET Users]

NoCall == [at |-> "idle", op |-> "none", target |-> NoUser, role |-> "MEMBER",
           by |-> "OWNER", owners |-> {}]

Owners == {u \in Users : member[u] = "OWNER"}

MembersTypeOK ==
    /\ member \in [Users -> Role \cup {"none"}]
    /\ invite \in [Addresses -> Invite]
    /\ call \in [Calls -> Call]

\* A fresh organization has its creator as its owner and no one else.
MembersInit ==
    /\ \E founder \in Users :
          member = [u \in Users |-> IF u = founder THEN "OWNER" ELSE "none"]
    /\ invite = [u \in Addresses |-> NoInvite]
    /\ call = [c \in Calls |-> NoCall]

-----------------------------------------------------------------------------
(* A call begins: checkMembership reads the caller's own role, and the role *)
(* read is the authority of all that follows.                              *)

Over(c) == call' = [call EXCEPT ![c] = NoCall]

Start(c, op, u, role, by) ==
    /\ call[c].at = "idle"
    /\ call' = [call EXCEPT ![c] = [NoCall EXCEPT !.at = "look", !.op = op, !.target = u,
                                                  !.role = role, !.by = by]]
    /\ UNCHANGED <<member, invite>>

IsMember(role) == \E u \in Users : member[u] = role

TenantCalls(c, u) ==
    \E by \in {"OWNER", "ADMIN"} :
        /\ IsMember(by)
        /\ \/ \E role \in Role : Start(c, "role", u, role, by)
           \/ Start(c, "remove", u, "MEMBER", by)
           \/ u \in Addresses /\ Start(c, "revoke", u, "MEMBER", "OWNER")
           \* Only an owner may invite someone as an owner.
           \/ \E role \in Role :
                 /\ role = "OWNER" => by = "OWNER"
                 /\ u \in Addresses /\ invite[u].offers < MaxOffers
                 /\ Start(c, "invite", u, role, by)

OperatorCalls(c, u) ==
    \/ \E role \in Role, op \in {"role", "addMember"} : Start(c, op, u, role, "platform")
    \/ Start(c, "remove", u, "MEMBER", "platform")

-----------------------------------------------------------------------------
(* updateMemberRole, removeMember, and the operator's addMember.           *)

MemberOp(c) == call[c].op \in {"role", "remove", "addMember"}

\* Mutant of Forbidden: only granting the role is an owner's business.
ForbiddenToGrant(k, saw) == k.by = "ADMIN" /\ k.role = "OWNER"

\* Where an owner is concerned, an admin gets 403.
Forbidden(k, saw) == k.by = "ADMIN" /\ "OWNER" \in {saw, k.role}

\* Mutant of Unseats: the operator's addMember re-roles without a count.
UnseatsUnlessAdded(k, saw) ==
    saw = "OWNER" /\ k.op # "addMember" /\ (k.op = "remove" \/ k.role # "OWNER")

Unseats(k, saw) == saw = "OWNER" /\ (k.op = "remove" \/ k.role # "OWNER")

\* The target's membership is read: 404 without one, except that addMember
\* creates it; a tenant's change to the same role returns at once; a call that
\* unseats an owner counts the owners first.
LookAtTarget(c) ==
    LET k == call[c]
        saw == member[k.target]
    IN  /\ k.at = "look" /\ MemberOp(c)
        /\ IF \/ saw = "none" /\ k.op # "addMember"
              \/ Forbidden(k, saw)
              \/ k.by # "platform" /\ k.op = "role" /\ saw = k.role
           THEN Over(c)
           ELSE call' = [call EXCEPT ![c] = [@ EXCEPT
                           !.at = IF Unseats(k, saw) THEN "count" ELSE "write",
                           !.owners = Owners]]
        /\ UNCHANGED <<member, invite>>

\* assertNotLastOwner.
CountOwners(c) ==
    /\ call[c].at = "count"
    /\ IF Cardinality(Owners) <= 1
       THEN Over(c)
       ELSE call' = [call EXCEPT ![c] = [@ EXCEPT !.at = "write", !.owners = Owners]]
    /\ UNCHANGED <<member, invite>>

\* The update and the delete name the row by organization and user, and fail
\* if it is gone; the operator's upsert does not.
WriteMember(c) ==
    LET k == call[c]
    IN  /\ k.at = "write" /\ MemberOp(c)
        /\ IF member[k.target] = "none" /\ k.op # "addMember"
           THEN UNCHANGED member
           ELSE member' = [member EXCEPT ![k.target] =
                             IF k.op = "remove" THEN "none" ELSE k.role]
        /\ Over(c)
        /\ UNCHANGED invite

-----------------------------------------------------------------------------
(* Invitations.                                                            *)

\* create: 409 for a member, else go on to the upsert.
LookForMember(c) ==
    /\ call[c].at = "look" /\ call[c].op = "invite"
    /\ IF member[call[c].target] # "none"
       THEN Over(c)
       ELSE call' = [call EXCEPT ![c].at = "write"]
    /\ UNCHANGED <<member, invite>>

\* A fresh token, a fresh expiry and PENDING, whatever the row said before.
\* The bound MaxOffers refuses further ones.
WriteInvite(c) ==
    LET k == call[c]
    IN  /\ k.at = "write" /\ k.op = "invite"
        /\ IF invite[k.target].offers = MaxOffers
           THEN UNCHANGED invite
           ELSE invite' = [invite EXCEPT ![k.target] =
                  [status |-> "PENDING", role |-> k.role, by |-> k.by,
                   stale |-> FALSE, offers |-> @.offers + 1, claims |-> 0]]
        /\ Over(c)
        /\ UNCHANGED member

\* revoke reads PENDING and then writes by the row's id alone.
LookForPending(c) ==
    /\ call[c].at = "look" /\ call[c].op = "revoke"
    /\ IF invite[call[c].target].status # "PENDING"
       THEN Over(c)
       ELSE call' = [call EXCEPT ![c].at = "write"]
    /\ UNCHANGED <<member, invite>>

WriteRevoked(c) ==
    /\ call[c].at = "write" /\ call[c].op = "revoke"
    /\ invite' = [invite EXCEPT ![call[c].target] = Closed(@, "REVOKED")]
    /\ Over(c)
    /\ UNCHANGED member

\* accept finds the row by the token's hash and keeps the role it offers.  A
\* token that is not the row's latest finds nothing, and a row that is not
\* PENDING is refused: neither changes anything.
ReadOffer(c, u) ==
    /\ call[c].at = "idle"
    /\ u \in Addresses
    /\ invite[u].status = "PENDING"
    /\ call' = [call EXCEPT ![c] = [NoCall EXCEPT
                  !.at = IF invite[u].stale THEN "expire" ELSE "write",
                  !.op = "accept", !.target = u,
                  !.role = invite[u].role, !.by = invite[u].by]]
    /\ UNCHANGED <<member, invite>>

\* The write that marks a lapsed invitation: by id alone, its error swallowed.
WriteExpired(c) ==
    /\ call[c].at = "expire"
    /\ \/ invite' = [invite EXCEPT ![call[c].target] = Closed(@, "EXPIRED")]
       \/ UNCHANGED invite
    /\ Over(c)
    /\ UNCHANGED member

\* Who joins has the offered role; who is a member already keeps theirs.
Join(c) ==
    LET u == call[c].target
    IN  /\ member' = [member EXCEPT ![u] = IF @ = "none" THEN call[c].role ELSE @]
        /\ invite' = [invite EXCEPT ![u] = [Closed(invite[u], "ACCEPTED") EXCEPT !.claims = @ + 1]]

\* Mutant of ClaimOffer: the claim names the row by id alone.
ClaimAnyOffer(c) ==
    /\ call[c].at = "write" /\ call[c].op = "accept"
    /\ Join(c)
    /\ Over(c)

\* One transaction: PENDING -> ACCEPTED or nothing, then the membership.
ClaimOffer(c) ==
    /\ call[c].at = "write" /\ call[c].op = "accept"
    /\ IF invite[call[c].target].status = "PENDING"
       THEN Join(c)
       ELSE UNCHANGED <<member, invite>>
    /\ Over(c)

\* Seven days pass.
Lapse(u) ==
    /\ invite[u].status = "PENDING" /\ ~invite[u].stale
    /\ invite' = [invite EXCEPT ![u].stale = TRUE]
    /\ UNCHANGED <<member, call>>

-----------------------------------------------------------------------------

MembersNext ==
    \/ \E c \in Calls, u \in Users :
          TenantCalls(c, u) \/ OperatorCalls(c, u) \/ ReadOffer(c, u)
    \/ \E c \in Calls :
          \/ LookAtTarget(c) \/ CountOwners(c) \/ WriteMember(c)
          \/ LookForMember(c) \/ WriteInvite(c)
          \/ LookForPending(c) \/ WriteRevoked(c)
          \/ WriteExpired(c) \/ ClaimOffer(c)
    \/ \E u \in Addresses : Lapse(u)

MembersSpec == MembersInit /\ [][MembersNext]_membersVars

-----------------------------------------------------------------------------
(* Properties.                                                             *)

\* The call c writes its membership in this step.
Writes(c, u) ==
    /\ call[c].at = "write" /\ call'[c].at = "idle"
    /\ call[c].target = u

\* Becoming an owner, through whichever of the three ways, takes an owner's or
\* the operator's authority, however long ago the offer was made; and no one
\* else unseats a member they have seen to be an owner.
OwnersDecideOwnership ==
    [][\A u \in Users :
         /\ u \in Owners' \ Owners =>
              \E c \in Calls : Writes(c, u) /\ call[c].role = "OWNER" /\ call[c].by # "ADMIN"
         /\ u \in Owners \ Owners' =>
              \E c \in Calls : Writes(c, u) /\ (u \in call[c].owners => call[c].by # "ADMIN")]_membersVars

\* The organization loses its last owner only when another call has changed who
\* the owners are since the last read of the call that does it: one call alone
\* never empties the set (assertNotLastOwner on every path that unseats).
LastOwnerLostOnlyByRace ==
    [][Owners # {} /\ Owners' = {} =>
         \E c \in Calls, u \in Users : Writes(c, u) /\ call[c].owners # Owners]_membersVars

\* An invitation is for one use, with revokes, expiry writes, renewals and
\* other accepts of the same link between an accept's read and its claim.
OneJoinPerOffer == \A u \in Addresses : invite[u].claims <= 1

=============================================================================
