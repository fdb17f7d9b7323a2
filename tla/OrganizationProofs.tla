-------------------------- MODULE OrganizationProofs --------------------------
(***************************************************************************)
(* Proofs about an organization: its members (OrgMembers) for any users,   *)
(* invited addresses and calls in flight, and its stored assets            *)
(* (AssetStore) for any keys, any finite number of commits and any limits. *)
(* The two share nothing, and each has an invariant of its own.            *)
(***************************************************************************)
EXTENDS OrgMembers, AssetStore, FiniteSetTheorems, TLAPS

\* A step that names no prover is given a minute of each.
USE SMTT(60), ZenonT(60)

-----------------------------------------------------------------------------
(* MEMBERS.                                                                *)
(*                                                                         *)
(* The properties speak of the step that writes; what they need is what a  *)
(* call that is about to write has read and been allowed before, and what  *)
(* an invitation may offer.  MembersInv says so, and is inductive.         *)

-----------------------------------------------------------------------------
(* The inductive invariant.                                                *)

\* An invitation has been accepted at most once since it was last offered, and
\* one that can still be accepted has not been.
ClaimsOK ==
    \A u \in Addresses :
        /\ invite[u].claims <= 1
        /\ invite[u].status = "PENDING" => invite[u].claims = 0

\* An admin's invitation never offers ownership.
OffersOK ==
    \A u \in Addresses : invite[u].role = "OWNER" => invite[u].by # "ADMIN"

\* What a call under way has been allowed.
CallOK(k) ==
    /\ k.at # "idle" => k.target \in Users
    /\ k.at # "idle" /\ k.op \in {"invite", "revoke", "accept"} => k.target \in Addresses
    /\ k.at = "expire" => k.op = "accept"
    /\ k.op \in {"invite", "accept"} /\ k.role = "OWNER" => k.by # "ADMIN"
    /\ k.at = "count" => k.by # "ADMIN"
    /\ k.at = "write" /\ k.op \in {"role", "remove", "addMember"} =>
          /\ k.by = "ADMIN" => k.role # "OWNER" /\ k.target \notin k.owners
          /\ k.target \in k.owners /\ (k.op = "remove" \/ k.role # "OWNER") =>
                ~(Cardinality(k.owners) <= 1)

CallsOK == \A c \in Calls : CallOK(call[c])

MembersInv == MembersTypeOK /\ ClaimsOK /\ OffersOK /\ CallsOK

-----------------------------------------------------------------------------
(* Steps that touch a call and nothing else.                               *)

LEMMA Members == Owners \in SUBSET Users
BY DEF Owners

\* Replacing one call by a good one keeps the invariant.
LEMMA OneCallEdited ==
  ASSUME MembersInv, NEW c \in Calls, NEW k \in Call, CallOK(k),
         call' = [call EXCEPT ![c] = k]
  PROVE  /\ call' \in [Calls -> Call]
         /\ CallsOK'
BY DEF MembersInv, MembersTypeOK, CallsOK

LEMMA IdleCall == NoCall \in Call /\ CallOK(NoCall)
BY DEF NoCall, Call, CallOK, Op, Role, Authority

\* A call that ends, whatever it wrote.
LEMMA CallOver ==
  ASSUME MembersInv, NEW c \in Calls, Over(c)
  PROVE  /\ call' \in [Calls -> Call]
         /\ CallsOK'
BY OneCallEdited, IdleCall DEF Over

\* The tables of members and invitations are as they were.
LEMMA OnlyCalls ==
  ASSUME MembersInv, UNCHANGED <<member, invite>>, call' \in [Calls -> Call], CallsOK'
  PROVE  MembersInv'
BY DEF MembersInv, MembersTypeOK, ClaimsOK, OffersOK

LEMMA Begin ==
  ASSUME MembersInv, NEW c \in Calls, NEW op \in Op, NEW u \in Users, NEW role \in Role,
         NEW by \in Authority,
         op \in {"invite", "revoke", "accept"} => u \in Addresses,
         op \in {"invite", "accept"} /\ role = "OWNER" => by # "ADMIN",
         Start(c, op, u, role, by)
  PROVE  MembersInv'
<1> DEFINE k == [NoCall EXCEPT !.at = "look", !.op = op, !.target = u,
                               !.role = role, !.by = by]
<1>1. k \in Call
  BY DEF NoCall, Call
<1>2. CallOK(k)
  BY DEF NoCall, CallOK
<1>3. call' = [call EXCEPT ![c] = k] /\ UNCHANGED <<member, invite>>
  BY DEF Start
<1> HIDE DEF k
<1> QED  BY <1>1, <1>2, <1>3, OneCallEdited, OnlyCalls

LEMMA TenantStep ==
  ASSUME MembersInv, NEW c \in Calls, NEW u \in Users, TenantCalls(c, u)
  PROVE  MembersInv'
<1>1. PICK by \in {"OWNER", "ADMIN"} :
        \/ \E role \in Role : Start(c, "role", u, role, by)
        \/ Start(c, "remove", u, "MEMBER", by)
        \/ u \in Addresses /\ Start(c, "revoke", u, "MEMBER", "OWNER")
        \/ \E role \in Role :
              /\ role = "OWNER" => by = "OWNER"
              /\ u \in Addresses
              /\ Start(c, "invite", u, role, by)
  BY DEF TenantCalls
<1>2. /\ by \in Authority /\ "OWNER" \in Authority /\ "MEMBER" \in Role
      /\ {"role", "remove", "revoke", "invite"} \in SUBSET Op
  BY DEF Authority, Role, Op
<1>3. ASSUME NEW role \in Role, Start(c, "role", u, role, by)
      PROVE  MembersInv'
  BY <1>2, <1>3, Begin
<1>4. CASE Start(c, "remove", u, "MEMBER", by)
  BY <1>2, <1>4, Begin
<1>5. CASE u \in Addresses /\ Start(c, "revoke", u, "MEMBER", "OWNER")
  BY <1>2, <1>5, Begin
<1>6. ASSUME NEW role \in Role, role = "OWNER" => by = "OWNER", u \in Addresses,
             Start(c, "invite", u, role, by)
      PROVE  MembersInv'
  BY <1>2, <1>6, Begin
<1> QED  BY <1>1, <1>3, <1>4, <1>5, <1>6

LEMMA OperatorStep ==
  ASSUME MembersInv, NEW c \in Calls, NEW u \in Users, OperatorCalls(c, u)
  PROVE  MembersInv'
<1>1. /\ "platform" \in Authority /\ "MEMBER" \in Role
      /\ {"role", "remove", "addMember"} \in SUBSET Op
  BY DEF Authority, Role, Op
<1>2. ASSUME NEW role \in Role, NEW op \in {"role", "addMember"},
             Start(c, op, u, role, "platform")
      PROVE  MembersInv'
  BY <1>1, <1>2, Begin
<1>3. CASE Start(c, "remove", u, "MEMBER", "platform")
  BY <1>1, <1>3, Begin
<1> QED  BY <1>2, <1>3 DEF OperatorCalls

\* Reads: a call goes on to count or to write with what it has just seen.
LEMMA LookAtTargetStep ==
  ASSUME MembersInv, NEW c \in Calls, LookAtTarget(c)
  PROVE  MembersInv'
<1> DEFINE old == call[c]
           saw == member[old.target]
           k == [old EXCEPT !.at = IF Unseats(old, saw) THEN "count" ELSE "write",
                            !.owners = Owners]
<1>1. old \in Call /\ CallOK(old) /\ old.at = "look"
      /\ old.op \in {"role", "remove", "addMember"}
  BY DEF MembersInv, MembersTypeOK, CallsOK, LookAtTarget, MemberOp
<1>2. CASE Over(c)
  BY <1>2, CallOver, OnlyCalls DEF LookAtTarget
<1>3. CASE ~Forbidden(old, saw) /\ call' = [call EXCEPT ![c] = k]
  <2>1. k \in Call
    BY <1>1, Members DEF Call
  <2>2. old.target \in Owners <=> saw = "OWNER"
    BY <1>1 DEF Owners, CallOK
  <2>3. CallOK(k)
    BY <1>1, <1>3, <2>2 DEF CallOK, Call, Unseats, Forbidden
  <2> HIDE DEF k
  <2> QED  BY <1>3, <2>1, <2>3, OneCallEdited, OnlyCalls DEF LookAtTarget
<1> QED  BY <1>2, <1>3 DEF LookAtTarget

LEMMA CountOwnersStep ==
  ASSUME MembersInv, NEW c \in Calls, CountOwners(c)
  PROVE  MembersInv'
<1> DEFINE old == call[c]
           k == [old EXCEPT !.at = "write", !.owners = Owners]
<1>1. old \in Call /\ CallOK(old) /\ old.at = "count"
  BY DEF MembersInv, MembersTypeOK, CallsOK, CountOwners
<1>2. CASE Over(c)
  BY <1>2, CallOver, OnlyCalls DEF CountOwners
<1>3. CASE ~(Cardinality(Owners) <= 1) /\ call' = [call EXCEPT ![c] = k]
  <2>1. k \in Call
    BY <1>1, Members DEF Call
  <2>2. CallOK(k)
    BY <1>1, <1>3 DEF CallOK, Call
  <2> HIDE DEF k
  <2> QED  BY <1>3, <2>1, <2>2, OneCallEdited, OnlyCalls DEF CountOwners
<1> QED  BY <1>2, <1>3 DEF CountOwners

\* create and revoke go on to their write.
LEMMA LookForRowStep ==
  ASSUME MembersInv, NEW c \in Calls, LookForMember(c) \/ LookForPending(c)
  PROVE  MembersInv'
<1> DEFINE old == call[c]
           k == [old EXCEPT !.at = "write"]
<1>1. old \in Call /\ CallOK(old) /\ old.at = "look" /\ old.op \in {"invite", "revoke"}
  BY DEF MembersInv, MembersTypeOK, CallsOK, LookForMember, LookForPending
<1>2. CASE Over(c)
  BY <1>2, CallOver, OnlyCalls DEF LookForMember, LookForPending
<1>3. CASE call' = [call EXCEPT ![c] = k]
  <2>1. k \in Call
    BY <1>1 DEF Call
  <2>2. CallOK(k)
    BY <1>1 DEF CallOK, Call
  <2> HIDE DEF k
  <2> QED  BY <1>3, <2>1, <2>2, OneCallEdited, OnlyCalls DEF LookForMember, LookForPending
<1> QED  BY <1>2, <1>3 DEF LookForMember, LookForPending

\* accept takes its role and authority from the invitation it read.
LEMMA ReadOfferStep ==
  ASSUME MembersInv, NEW c \in Calls, NEW u \in Users, ReadOffer(c, u)
  PROVE  MembersInv'
<1> DEFINE k == [NoCall EXCEPT !.at = IF invite[u].stale THEN "expire" ELSE "write",
                               !.op = "accept", !.target = u,
                               !.role = invite[u].role, !.by = invite[u].by]
<1>1. u \in Addresses /\ invite[u] \in Invite
      /\ (invite[u].role = "OWNER" => invite[u].by # "ADMIN")
  BY DEF MembersInv, MembersTypeOK, OffersOK, ReadOffer
<1>2. k \in Call
  BY <1>1 DEF NoCall, Call, Invite, Op
<1>3. CallOK(k)
  BY <1>1 DEF NoCall, CallOK
<1>4. call' = [call EXCEPT ![c] = k] /\ UNCHANGED <<member, invite>>
  BY DEF ReadOffer
<1> HIDE DEF k
<1> QED  BY <1>2, <1>3, <1>4, OneCallEdited, OnlyCalls

-----------------------------------------------------------------------------
(* Steps that write.                                                       *)

\* One invitation is replaced by a good one.
LEMMA OneInviteEdited ==
  ASSUME MembersInv, NEW u \in Addresses, NEW new \in Invite,
         invite' = [invite EXCEPT ![u] = new],
         new.claims <= 1, new.status = "PENDING" => new.claims = 0,
         new.role = "OWNER" => new.by # "ADMIN",
         member' \in [Users -> Role \cup {"none"}],
         call' \in [Calls -> Call], CallsOK'
  PROVE  MembersInv'
BY DEF MembersInv, MembersTypeOK, ClaimsOK, OffersOK

LEMMA ClosedRow ==
  ASSUME NEW r \in Invite, NEW status \in {"REVOKED", "EXPIRED", "ACCEPTED"}
  PROVE  /\ Closed(r, status) \in Invite
         /\ Closed(r, status).claims = r.claims
         /\ Closed(r, status).status = status
         /\ Closed(r, status).role = "MEMBER"
BY DEF Closed, Invite, Role, Authority

LEMMA WriteMemberStep ==
  ASSUME MembersInv, NEW c \in Calls, WriteMember(c)
  PROVE  MembersInv'
<1>1. member' \in [Users -> Role \cup {"none"}]
  BY DEF MembersInv, MembersTypeOK, WriteMember, Call
<1>2. call' \in [Calls -> Call] /\ CallsOK'
  BY CallOver DEF WriteMember
<1> QED  BY <1>1, <1>2 DEF MembersInv, MembersTypeOK, ClaimsOK, OffersOK, WriteMember

LEMMA WriteInviteStep ==
  ASSUME MembersInv, NEW c \in Calls, WriteInvite(c)
  PROVE  MembersInv'
<1> DEFINE k == call[c]
           new == [status |-> "PENDING", role |-> k.role, by |-> k.by,
                   stale |-> FALSE, offers |-> invite[k.target].offers + 1, claims |-> 0]
<1>1. k \in Call /\ CallOK(k) /\ k.at = "write" /\ k.op = "invite"
  BY DEF MembersInv, MembersTypeOK, CallsOK, WriteInvite
<1>2. k.target \in Addresses /\ (k.role = "OWNER" => k.by # "ADMIN")
  BY <1>1 DEF CallOK
<1>3. call' \in [Calls -> Call] /\ CallsOK'
  BY CallOver DEF WriteInvite
<1>4. new \in Invite
  <2>1. invite[k.target].offers \in Nat
    BY <1>2 DEF MembersInv, MembersTypeOK, Invite
  <2> QED  BY <1>1, <2>1 DEF Call, Invite
<1>5. new.claims = 0 /\ new.role = k.role /\ new.by = k.by
  OBVIOUS
<1>6. member' \in [Users -> Role \cup {"none"}]
  BY DEF WriteInvite, MembersInv, MembersTypeOK
<1>7. CASE UNCHANGED invite
  BY <1>3, <1>7 DEF MembersInv, MembersTypeOK, ClaimsOK, OffersOK, WriteInvite
<1>8. CASE invite' = [invite EXCEPT ![k.target] = new]
  <2>1. new.claims <= 1 /\ (new.status = "PENDING" => new.claims = 0)
        /\ (new.role = "OWNER" => new.by # "ADMIN")
    BY <1>2, <1>5
  <2> HIDE DEF new
  <2> QED  BY <1>2, <1>3, <1>4, <1>6, <1>8, <2>1, OneInviteEdited
<1> QED  BY <1>7, <1>8 DEF WriteInvite

LEMMA CloseStep ==
  ASSUME MembersInv, NEW c \in Calls, WriteRevoked(c) \/ WriteExpired(c)
  PROVE  MembersInv'
<1> DEFINE u == call[c].target
<1>1. u \in Addresses
  BY DEF MembersInv, MembersTypeOK, CallsOK, CallOK, WriteRevoked, WriteExpired
<1>2. invite[u] \in Invite /\ invite[u].claims <= 1
  BY <1>1 DEF MembersInv, MembersTypeOK, ClaimsOK
<1>3. call' \in [Calls -> Call] /\ CallsOK'
  BY CallOver DEF WriteRevoked, WriteExpired
<1>4. ASSUME NEW status \in {"REVOKED", "EXPIRED"},
             invite' = [invite EXCEPT ![u] = Closed(invite[u], status)],
             UNCHANGED member
      PROVE  MembersInv'
  <2> DEFINE new == Closed(invite[u], status)
  <2>1. new \in Invite /\ new.claims <= 1 /\ new.status # "PENDING" /\ new.role # "OWNER"
    BY <1>2, ClosedRow
  <2>2. member' \in [Users -> Role \cup {"none"}]
    BY <1>4 DEF MembersInv, MembersTypeOK
  <2> HIDE DEF new
  <2> QED  BY <1>1, <1>3, <1>4, <2>1, <2>2, OneInviteEdited DEF new
<1>5. CASE UNCHANGED <<member, invite>>
  BY <1>3, <1>5, OnlyCalls
<1> QED  BY <1>4, <1>5 DEF WriteRevoked, WriteExpired

LEMMA ClaimOfferStep ==
  ASSUME MembersInv, NEW c \in Calls, ClaimOffer(c)
  PROVE  MembersInv'
<1> DEFINE u == call[c].target
<1>1. u \in Addresses /\ call[c] \in Call
  BY DEF MembersInv, MembersTypeOK, CallsOK, CallOK, ClaimOffer
<1>2. invite[u] \in Invite /\ (invite[u].status = "PENDING" => invite[u].claims = 0)
  BY <1>1 DEF MembersInv, MembersTypeOK, ClaimsOK
<1>3. call' \in [Calls -> Call] /\ CallsOK'
  BY CallOver DEF ClaimOffer
<1>4. CASE invite[u].status = "PENDING" /\ Join(c)
  <2> DEFINE closed == Closed(invite[u], "ACCEPTED")
             new == [closed EXCEPT !.claims = @ + 1]
  <2>1. closed \in Invite /\ closed.claims = 0 /\ closed.status = "ACCEPTED"
        /\ closed.role = "MEMBER"
    BY <1>2, <1>4, ClosedRow
  <2>2. new \in Invite /\ new.claims = 1 /\ new.status = "ACCEPTED" /\ new.role = "MEMBER"
    <3> HIDE DEF closed
    <3> QED  BY <2>1 DEF Invite
  <2>3. invite' = [invite EXCEPT ![u] = new]
    BY <1>4 DEF Join
  <2>4. member' \in [Users -> Role \cup {"none"}]
    BY <1>1, <1>4 DEF Join, MembersInv, MembersTypeOK, Call
  <2>5. new.claims <= 1 /\ (new.status = "PENDING" => new.claims = 0)
        /\ (new.role = "OWNER" => new.by # "ADMIN")
    <3> HIDE DEF new
    <3> QED  BY <2>2
  <2> HIDE DEF new
  <2> QED  BY <1>1, <1>3, <2>2, <2>3, <2>4, <2>5, OneInviteEdited
<1>5. CASE UNCHANGED <<member, invite>>
  BY <1>3, <1>5, OnlyCalls
<1> QED  BY <1>4, <1>5 DEF ClaimOffer

LEMMA LapseStep ==
  ASSUME MembersInv, NEW u \in Addresses, Lapse(u)
  PROVE  MembersInv'
BY ZenonT(60) DEF MembersInv, MembersTypeOK, ClaimsOK, OffersOK, CallsOK, Lapse, Invite

-----------------------------------------------------------------------------
(* The theorems.                                                           *)

LEMMA MembersInitInv == MembersInit => MembersInv
<1> SUFFICES ASSUME MembersInit PROVE MembersInv
  OBVIOUS
<1>1. member \in [Users -> Role \cup {"none"}]
  BY DEF MembersInit, Role
<1>2. NoInvite \in Invite /\ NoInvite.claims = 0 /\ NoInvite.role = "MEMBER"
  BY DEF NoInvite, Invite, Role, Authority
<1>3. (\A u \in Addresses : invite[u] = NoInvite) /\ invite \in [Addresses -> Invite]
  BY <1>2 DEF MembersInit
<1>4. call \in [Calls -> Call] /\ CallsOK
  BY IdleCall DEF MembersInit, CallsOK
<1> QED  BY <1>1, <1>2, <1>3, <1>4 DEF MembersInv, MembersTypeOK, ClaimsOK, OffersOK

LEMMA MembersNextInv == MembersInv /\ [MembersNext]_membersVars => MembersInv'
<1> SUFFICES ASSUME MembersInv, [MembersNext]_membersVars PROVE MembersInv'
  OBVIOUS
<1>1. CASE UNCHANGED membersVars
  BY <1>1 DEF membersVars, MembersInv, MembersTypeOK, ClaimsOK, OffersOK, CallsOK
<1>2. ASSUME NEW c \in Calls, NEW u \in Users,
             TenantCalls(c, u) \/ OperatorCalls(c, u) \/ ReadOffer(c, u)
      PROVE  MembersInv'
  BY <1>2, TenantStep, OperatorStep, ReadOfferStep
<1>3. ASSUME NEW c \in Calls,
             \/ LookAtTarget(c) \/ CountOwners(c) \/ WriteMember(c)
             \/ LookForMember(c) \/ WriteInvite(c)
             \/ LookForPending(c) \/ WriteRevoked(c)
             \/ WriteExpired(c) \/ ClaimOffer(c)
      PROVE  MembersInv'
  BY <1>3, LookAtTargetStep, CountOwnersStep, WriteMemberStep, LookForRowStep,
     WriteInviteStep, CloseStep, ClaimOfferStep
<1>4. ASSUME NEW u \in Addresses, Lapse(u) PROVE MembersInv'
  BY <1>4, LapseStep
<1> QED  BY <1>1, <1>2, <1>3, <1>4 DEF MembersNext

\* The invariant holds in every reachable state.
THEOREM MembersInvariant == MembersSpec => []MembersInv
BY MembersInitInv, MembersNextInv, PTL DEF MembersSpec

\* Members, invitations and calls keep their types.
THEOREM MembersTypeCorrect == MembersSpec => []MembersTypeOK
<1>1. MembersInv => MembersTypeOK
  BY DEF MembersInv
<1> QED  BY <1>1, MembersInvariant, PTL

\* An invitation admits one person once, however many accepts of its link,
\* revokes and renewals run at the same time (invitations.service.ts: the claim
\* names the row's id and PENDING).
THEOREM JoinedOncePerOffer == MembersSpec => []OneJoinPerOffer
<1>1. MembersInv => OneJoinPerOffer
  BY DEF MembersInv, ClaimsOK, OneJoinPerOffer
<1> QED  BY <1>1, MembersInvariant, PTL

\* What a write of the membership table does to the set of owners.
LEMMA OwnersChange ==
  ASSUME MembersInv, [MembersNext]_membersVars, Owners' # Owners
  PROVE  \E c \in Calls : WriteMember(c) \/ (ClaimOffer(c) /\ Join(c))
<1>1. member' # member
  BY DEF Owners
<1>2. ASSUME NEW c \in Calls, NEW u \in Users, TenantCalls(c, u) \/ OperatorCalls(c, u)
      PROVE  UNCHANGED member
  BY <1>2, ZenonT(60) DEF TenantCalls, OperatorCalls, Start
<1>3. ASSUME NEW c \in Calls, NEW u \in Users, ReadOffer(c, u)
      PROVE  UNCHANGED member
  BY <1>3 DEF ReadOffer
<1>4. ASSUME NEW c \in Calls,
             \/ LookAtTarget(c) \/ CountOwners(c) \/ LookForMember(c)
             \/ WriteInvite(c) \/ LookForPending(c) \/ WriteRevoked(c) \/ WriteExpired(c)
      PROVE  UNCHANGED member
  BY <1>4 DEF LookAtTarget, CountOwners, LookForMember, WriteInvite, LookForPending,
              WriteRevoked, WriteExpired
<1>5. ASSUME NEW c \in Calls, ClaimOffer(c)
      PROVE  UNCHANGED member \/ Join(c)
  BY <1>5 DEF ClaimOffer
<1>6. ASSUME NEW u \in Addresses, Lapse(u) PROVE UNCHANGED member
  BY <1>6 DEF Lapse
<1>7. CASE UNCHANGED membersVars
  BY <1>1, <1>7 DEF membersVars
<1> QED  BY <1>1, <1>2, <1>3, <1>4, <1>5, <1>6, <1>7 DEF MembersNext

\* A membership write changes the target alone.
LEMMA WriterTarget ==
  ASSUME MembersInv, NEW c \in Calls, WriteMember(c)
  PROVE  /\ call[c].target \in Users /\ Writes(c, call[c].target)
         /\ Owners \ Owners' \subseteq {call[c].target}
         /\ Owners' \ Owners \subseteq {call[c].target}
         /\ Owners' \ Owners # {} => call[c].role = "OWNER"
         /\ Owners \ Owners' # {} => call[c].op = "remove" \/ call[c].role # "OWNER"
<1>1. call[c].at = "write" /\ call[c] \in Call /\ CallOK(call[c])
  BY DEF WriteMember, MembersInv, MembersTypeOK, CallsOK
<1>2. call[c].target \in Users
  BY <1>1 DEF CallOK
<1>3. call'[c].at = "idle"
  BY DEF WriteMember, Over, NoCall, MembersInv, MembersTypeOK
<1>4. \/ member' = member
      \/ member' = [member EXCEPT ![call[c].target] =
                      IF call[c].op = "remove" THEN "none" ELSE call[c].role]
  BY DEF WriteMember
<1>5. member \in [Users -> Role \cup {"none"}]
  BY DEF MembersInv, MembersTypeOK
<1> QED  BY <1>1, <1>2, <1>3, <1>4, <1>5 DEF Writes, Owners

\* A join only adds the one who accepts.
LEMMA JoinerTarget ==
  ASSUME MembersInv, NEW c \in Calls, ClaimOffer(c), Join(c)
  PROVE  /\ Writes(c, call[c].target)
         /\ Owners \subseteq Owners'
         /\ Owners' \ Owners \subseteq {call[c].target}
         /\ Owners' \ Owners # {} => call[c].role = "OWNER"
<1>1. call[c].at = "write" /\ call'[c].at = "idle"
  BY DEF ClaimOffer, Over, NoCall, MembersInv, MembersTypeOK
<1>2. member' = [member EXCEPT ![call[c].target] = IF @ = "none" THEN call[c].role ELSE @]
      /\ member \in [Users -> Role \cup {"none"}]
  BY DEF Join, MembersInv, MembersTypeOK
<1> QED  BY <1>1, <1>2 DEF Writes, Owners

LEMMA OwnersDecideStep ==
  ASSUME MembersInv, [MembersNext]_membersVars, NEW u \in Users
  PROVE  /\ u \in Owners' \ Owners =>
              \E c \in Calls : Writes(c, u) /\ call[c].role = "OWNER" /\ call[c].by # "ADMIN"
         /\ u \in Owners \ Owners' =>
              \E c \in Calls : Writes(c, u) /\ (u \in call[c].owners => call[c].by # "ADMIN")
<1>1. CASE Owners' = Owners
  BY <1>1
<1>2. ASSUME NEW c \in Calls, WriteMember(c)
      PROVE  /\ u \in Owners' \ Owners =>
                  Writes(c, u) /\ call[c].role = "OWNER" /\ call[c].by # "ADMIN"
             /\ u \in Owners \ Owners' =>
                  Writes(c, u) /\ (u \in call[c].owners => call[c].by # "ADMIN")
  <2>1. CallOK(call[c]) /\ call[c].at = "write"
        /\ call[c].op \in {"role", "remove", "addMember"}
    BY <1>2 DEF WriteMember, MemberOp, MembersInv, CallsOK
  <2>2. call[c].by = "ADMIN" => call[c].role # "OWNER" /\ call[c].target \notin call[c].owners
    BY <2>1 DEF CallOK
  <2> QED  BY <1>2, <2>2, WriterTarget
<1>3. ASSUME NEW c \in Calls, ClaimOffer(c), Join(c)
      PROVE  /\ u \in Owners' \ Owners =>
                  Writes(c, u) /\ call[c].role = "OWNER" /\ call[c].by # "ADMIN"
             /\ u \notin Owners \ Owners'
  <2>1. CallOK(call[c]) /\ call[c].op = "accept"
    BY <1>3 DEF ClaimOffer, MembersInv, CallsOK
  <2>2. call[c].role = "OWNER" => call[c].by # "ADMIN"
    BY <2>1 DEF CallOK
  <2> QED  BY <1>3, <2>2, JoinerTarget
<1> QED  BY <1>1, <1>2, <1>3, OwnersChange

\* Ownership is given on an owner's or the operator's authority only, on all
\* three ways there are, and no admin unseats an owner they have seen
\* (orgs.service.ts, admin.service.ts, invitations.service.ts).
THEOREM OwnershipIsDecidedByOwners == MembersSpec => OwnersDecideOwnership
<1>1. MembersInv /\ [MembersNext]_membersVars =>
        [\A u \in Users :
           /\ u \in Owners' \ Owners =>
                \E c \in Calls : Writes(c, u) /\ call[c].role = "OWNER" /\ call[c].by # "ADMIN"
           /\ u \in Owners \ Owners' =>
                \E c \in Calls : Writes(c, u) /\ (u \in call[c].owners => call[c].by # "ADMIN")]_membersVars
  BY OwnersDecideStep
<1> QED  BY <1>1, MembersInvariant, PTL DEF MembersSpec, OwnersDecideOwnership

LEMMA LastOwnerStep ==
  ASSUME MembersInv, [MembersNext]_membersVars, Owners # {}, Owners' = {}
  PROVE  \E c \in Calls, u \in Users : Writes(c, u) /\ call[c].owners # Owners
<1>1. PICK c \in Calls : WriteMember(c)
  BY OwnersChange, JoinerTarget
<1> DEFINE u == call[c].target
<1>2. u \in Users /\ Writes(c, u) /\ Owners = {u}
      /\ (call[c].op = "remove" \/ call[c].role # "OWNER")
  BY <1>1, WriterTarget
<1>3. CallOK(call[c]) /\ call[c].at = "write"
      /\ call[c].op \in {"role", "remove", "addMember"}
  BY <1>1 DEF WriteMember, MemberOp, MembersInv, CallsOK
<1>4. u \in call[c].owners => ~(Cardinality(call[c].owners) <= 1)
  BY <1>2, <1>3 DEF CallOK
<1>5. Cardinality({u}) = 1
  BY FS_Singleton
<1>6. call[c].owners # Owners
  BY <1>2, <1>4, <1>5
<1> QED  BY <1>2, <1>6

\* One call alone never takes an organization's last owner away: another has
\* changed the owners since it counted them (orgs.service.ts: assertNotLastOwner).
THEOREM LastOwnerIsLostOnlyByRace == MembersSpec => LastOwnerLostOnlyByRace
<1>1. MembersInv /\ [MembersNext]_membersVars =>
        [Owners # {} /\ Owners' = {} =>
           \E c \in Calls, u \in Users : Writes(c, u) /\ call[c].owners # Owners]_membersVars
  BY LastOwnerStep
<1> QED  BY <1>1, MembersInvariant, PTL DEF MembersSpec, LastOwnerLostOnlyByRace

-----------------------------------------------------------------------------
(* STORED ASSETS.                                                          *)
(*                                                                         *)
(* A row without its object needs the window between a deletion's last     *)
(* check and its request, because the window opens only on a key without   *)
(* rows (WindowOK); the storage limit holds because a commit that has      *)
(* checked it is the one that holds the lock (LockOK, RoomOK).             *)

-----------------------------------------------------------------------------
(* The inductive invariant.                                                *)

\* The commit that has checked the limit is the one with the lock; before its
\* insert a commit has no row, and before its check it has seen no limit.
LockOK ==
    /\ \A a \in Assets : At(a, "checked") <=> lock = a
    /\ \A a \in Assets :
          asset[a].commit \in {"none", "headed", "gated", "free", "checked"} => ~asset[a].row
    /\ \A a \in Assets :
          asset[a].commit \in {"none", "headed", "gated", "free"} => asset[a].checked.limit = 0

\* The rows that went in under a limit.
UnderLimit == {b \in Rows : asset[b].checked.limit # 0}

\* What a commit has checked stays true until its insert.
RoomOK ==
    \A a \in Assets : At(a, "checked") /\ asset[a].checked.limit # 0 =>
        Cardinality(UnderLimit) + 1 + asset[a].checked.spilled <= asset[a].checked.limit

\* A row whose object is about to be removed went in after the check.
WindowOK == \A a \in Rows : InWindow(asset[a].key) => asset[a].raced

Inv == TypeOK /\ LockOK /\ RoomOK /\ WindowOK /\ DanglingOnlyInWindow /\ NothingLeaks

-----------------------------------------------------------------------------
(* What keeps each part.                                                   *)

\* One commit's record changes, and its key does not.
Only(a) ==
    /\ asset' \in [Assets -> Asset]
    /\ asset'[a].key = asset[a].key
    /\ \A b \in Assets : b # a => asset'[b] = asset[b]

\* b bears no more on the objects of its key than that they should be gone.
Settled(b) ==
    /\ ~asset[b].row /\ asset[b].commit # "rolledBack"
    /\ asset[b].delete = "none" \/ (asset[b].delete = "done" /\ asset[b].clean)

Cleared(b) == asset[b].delete = "done" /\ asset[b].clean

LEMMA LeaksRestated ==
  NothingLeaks <=> \A a \in Assets :
     Cleared(a) /\ (\A b \in Assets : asset[b].key = asset[a].key => Settled(b))
     => object[asset[a].key] = "none"
BY DEF NothingLeaks, Cleared, Settled

\* No deletion ends and no object appears.
LeaksFrame ==
    /\ \A k \in Keys : object[k] = "none" => object'[k] = "none"
    /\ \A b \in Assets : /\ asset'[b].key = asset[b].key
                         /\ Settled(b)' => Settled(b)
                         /\ Cleared(b)' => Cleared(b)

LEMMA LeaksKept ==
  ASSUME TypeOK, NothingLeaks, LeaksFrame
  PROVE  NothingLeaks'
<1>1. ASSUME NEW a \in Assets, Cleared(a)',
             \A b \in Assets : asset'[b].key = asset'[a].key => Settled(b)'
      PROVE  object'[asset'[a].key] = "none"
  <2>1. Cleared(a) /\ \A b \in Assets : asset[b].key = asset[a].key => Settled(b)
    BY <1>1 DEF Settled, Cleared, LeaksFrame
  <2>2. object[asset[a].key] = "none"
    BY <2>1, LeaksRestated
  <2> QED  BY <2>2 DEF Asset, LeaksFrame, TypeOK
<1> QED  BY <1>1 DEF NothingLeaks, Cleared, Settled

\* No row goes in, and no object is about to be removed that was not before.
WindowFrame ==
    /\ \A b \in Assets : /\ asset'[b].key = asset[b].key
                         /\ asset'[b].row => asset[b].row
                         /\ asset'[b].raced = asset[b].raced
                         /\ asset'[b].delete = "unreferenced" => asset[b].delete = "unreferenced"
    /\ sweep'.at = "rechecked" => sweep' = sweep

LEMMA WindowKept ==
  ASSUME WindowOK, WindowFrame
  PROVE  WindowOK'
BY DEF WindowOK, InWindow, Rows, WindowFrame

\* No commit ends, and no object is removed.
DanglingFrame ==
    /\ \A b \in Assets : /\ asset'[b].key = asset[b].key
                         /\ asset'[b].row => asset[b].row
                         /\ asset'[b].commit = "ok" => asset[b].commit = "ok"
                         /\ asset'[b].raced = asset[b].raced
                         /\ asset'[b].unsure = asset[b].unsure
    /\ \A k \in Keys : object'[k] = "none" => object[k] = "none"

LEMMA DanglingKept ==
  ASSUME TypeOK, DanglingOnlyInWindow, DanglingFrame
  PROVE  DanglingOnlyInWindow'
BY DEF DanglingOnlyInWindow, Rows, Asset, TypeOK, DanglingFrame

LEMMA RowsFinite ==
  ASSUME NEW S \in SUBSET Assets, NEW T \in SUBSET S
  PROVE  /\ IsFiniteSet(S) /\ Cardinality(S) \in Nat /\ Cardinality(T) \in Nat
         /\ Cardinality(T) <= Cardinality(S)
<1>1. IsFiniteSet(Assets)
  BY AssetStoreAssumption
<1>2. IsFiniteSet(S)
  BY <1>1, FS_Subset
<1>3. IsFiniteSet(T) /\ Cardinality(T) <= Cardinality(S)
  BY <1>2, FS_Subset
<1> QED  BY <1>2, <1>3, FS_CardinalityType

\* No commit passes the check, and no row goes in under a limit.
RoomFrame ==
    /\ UnderLimit' \subseteq UnderLimit
    /\ \A b \in Assets : asset'[b].commit = "checked" =>
          asset[b].commit = "checked" /\ asset'[b].checked = asset[b].checked

LEMMA RoomKept ==
  ASSUME TypeOK, RoomOK, RoomFrame
  PROVE  RoomOK'
<1>1. SUFFICES ASSUME NEW a \in Assets, At(a, "checked")', asset'[a].checked.limit # 0
               PROVE  Cardinality(UnderLimit') + 1 + asset'[a].checked.spilled
                        <= asset'[a].checked.limit
  BY DEF RoomOK
<1>2. /\ At(a, "checked") /\ asset'[a].checked = asset[a].checked
      /\ asset[a].checked.limit \in Nat /\ asset[a].checked.spilled \in Nat
  BY <1>1 DEF TypeOK, Asset, At, RoomFrame
<1>3. Cardinality(UnderLimit) + 1 + asset[a].checked.spilled <= asset[a].checked.limit
  BY <1>1, <1>2 DEF RoomOK
<1>4. /\ Cardinality(UnderLimit') <= Cardinality(UnderLimit)
      /\ Cardinality(UnderLimit) \in Nat /\ Cardinality(UnderLimit') \in Nat
  <2>1. UnderLimit \in SUBSET Assets
    BY DEF UnderLimit, Rows
  <2>2. \A T \in SUBSET UnderLimit : /\ Cardinality(T) <= Cardinality(UnderLimit)
                                     /\ Cardinality(UnderLimit) \in Nat /\ Cardinality(T) \in Nat
    BY <2>1, RowsFinite
  <2> QED  BY <2>2 DEF RoomFrame
<1> QED  BY <1>2, <1>3, <1>4

\* The parts of the invariant that a step of b alone could break, it keeps.
Keeps(b) ==
    /\ asset'[b].key = asset[b].key
    /\ asset'[b].row => asset[b].row
    /\ asset'[b].raced = asset[b].raced /\ asset'[b].unsure = asset[b].unsure
    /\ asset'[b].checked = asset[b].checked
    /\ asset'[b].delete \in {"unreferenced", "done"} => asset[b].delete = asset'[b].delete
    /\ asset'[b].commit \in {"ok", "checked"} => asset[b].commit = asset'[b].commit
    /\ Settled(b)' => Settled(b)
    /\ Cleared(b)' => Cleared(b)

LEMMA OthersKeep ==
  ASSUME NEW a \in Assets, Only(a), NEW b \in Assets, b # a
  PROVE  Keeps(b)
<1>1. asset'[b] = asset[b]
  BY DEF Only
<1> QED  BY <1>1 DEF Keeps, Settled, Cleared

\* A step that keeps them, removes no object and shows no new one.
LEMMA Kept ==
  ASSUME Inv, TypeOK', LockOK', \A b \in Assets : Keeps(b),
         \A k \in Keys : object'[k] = "none" <=> object[k] = "none",
         sweep'.at = "rechecked" => sweep' = sweep
  PROVE  Inv'
<1>1. /\ TypeOK /\ RoomOK /\ WindowOK /\ DanglingOnlyInWindow /\ NothingLeaks
  BY DEF Inv
<1>2. RoomFrame
  BY DEF RoomFrame, UnderLimit, Rows, Keeps
<1>3. WindowFrame
  BY DEF WindowFrame, Keeps
<1>4. DanglingFrame
  BY DEF DanglingFrame, Keeps
<1>5. LeaksFrame
  BY DEF LeaksFrame, Keeps, Settled, Cleared
<1> QED  BY <1>1, <1>2, <1>3, <1>4, <1>5, RoomKept, WindowKept, DanglingKept, LeaksKept DEF Inv

-----------------------------------------------------------------------------
(* The commits.                                                            *)

\* What the records are, of which a step changes one.
LEMMA Records ==
  ASSUME TypeOK
  PROVE  /\ asset \in [Assets -> Asset] /\ \A a \in Assets : asset[a] \in Asset
         /\ Nobody \notin Assets /\ gate.limit \in Nat /\ spilled \in Nat
<1>1. gate.limit \in Limits /\ Limits \in SUBSET Nat
  BY AssetStoreAssumption DEF TypeOK
<1>2. Nobody \notin Assets /\ MaxSpill \in Nat
  BY AssetStoreAssumption
<1>3. spilled \in Nat
  BY <1>2 DEF TypeOK
<1> QED  BY <1>1, <1>2, <1>3 DEF TypeOK

LEMMA StageTypes ==
  ASSUME TypeOK, NEW a \in Assets,
         NEW stage \in {"none", "headed", "gated", "free", "checked", "inserted",
                        "rollback", "rolledBack", "ok", "refused"},
         asset' = Commit(a, stage)
  PROVE  /\ Only(a) /\ asset'[a].commit = stage
         /\ asset'[a].row = asset[a].row /\ asset'[a].delete = asset[a].delete
         /\ asset'[a].checked = asset[a].checked /\ asset'[a].raced = asset[a].raced
         /\ asset'[a].unsure = asset[a].unsure /\ asset'[a].clean = asset[a].clean
<1> DEFINE new == [asset[a] EXCEPT !.commit = stage]
<1>1. asset[a] \in Asset
  BY Records
<1>2. /\ new \in Asset /\ new.commit = stage /\ new.key = asset[a].key /\ new.row = asset[a].row
      /\ new.delete = asset[a].delete /\ new.checked = asset[a].checked
      /\ new.raced = asset[a].raced /\ new.unsure = asset[a].unsure /\ new.clean = asset[a].clean
  BY <1>1 DEF Asset
<1>3. asset' = [asset EXCEPT ![a] = new]
  BY DEF Commit
<1> HIDE DEF new
<1>4. /\ asset' \in [Assets -> Asset] /\ asset'[a] = new
      /\ \A b \in Assets : b # a => asset'[b] = asset[b]
  BY <1>2, <1>3, Records
<1> QED  BY <1>2, <1>4 DEF Only

\* The steps that only move a commit on.
LEMMA StageInv ==
  ASSUME Inv, NEW a \in Assets, HeadObject(a) \/ ReadGate(a)
  PROVE  Inv'
<1>1. TypeOK /\ LockOK /\ UNCHANGED <<object, lock, gate, spilled, sweep>>
  BY DEF Inv, HeadObject, ReadGate
<1>2. PICK stage \in {"none", "headed", "gated", "free", "checked", "inserted",
                      "rollback", "rolledBack", "ok", "refused"} :
         /\ asset' = Commit(a, stage) /\ stage \in {"headed", "gated", "free", "refused"}
         /\ asset[a].commit \in {"none", "headed"}
  BY DEF HeadObject, ReadGate, At
<1>3. /\ Only(a) /\ asset'[a].commit = stage
      /\ asset'[a].row = asset[a].row /\ asset'[a].delete = asset[a].delete
      /\ asset'[a].checked = asset[a].checked /\ asset'[a].raced = asset[a].raced
      /\ asset'[a].unsure = asset[a].unsure /\ asset'[a].clean = asset[a].clean
  BY <1>1, <1>2, StageTypes
<1>4. Keeps(a)
  BY <1>2, <1>3 DEF Keeps, Settled, Cleared, Only
<1>5. \A b \in Assets : Keeps(b)
  BY <1>3, <1>4, OthersKeep
<1>6. TypeOK'
  BY <1>1, <1>3 DEF TypeOK, Only
<1>7. LockOK'
  BY <1>1, <1>2, <1>3 DEF LockOK, At, Only
<1> QED  BY <1>1, <1>5, <1>6, <1>7, Kept

\* A commit passes the check with the lock, or is refused.
LEMMA LockAndCheckInv ==
  ASSUME Inv, NEW a \in Assets, LockAndCheck(a)
  PROVE  Inv'
<1>1. /\ TypeOK /\ LockOK /\ UNCHANGED <<object, gate, spilled, sweep>>
      /\ asset[a].commit = "gated" /\ lock = Nobody /\ ~asset[a].row
      /\ asset[a] \in Asset /\ asset \in [Assets -> Asset] /\ Nobody \notin Assets
      /\ gate.limit \in Nat /\ spilled \in Nat
  BY Records DEF Inv, LockAndCheck, At, LockOK
<1>2. CASE ~Fits
  <2>1. asset' = Commit(a, "refused") /\ UNCHANGED lock
    BY <1>2 DEF LockAndCheck
  <2>2. /\ Only(a) /\ asset'[a].commit = "refused"
        /\ asset'[a].row = asset[a].row /\ asset'[a].delete = asset[a].delete
        /\ asset'[a].checked = asset[a].checked /\ asset'[a].raced = asset[a].raced
        /\ asset'[a].unsure = asset[a].unsure /\ asset'[a].clean = asset[a].clean
    BY <1>1, <2>1, StageTypes
  <2>3. Keeps(a)
    BY <1>1, <2>2 DEF Keeps, Settled, Cleared, Only
  <2>4. \A b \in Assets : Keeps(b)
    BY <2>2, <2>3, OthersKeep
  <2>5. TypeOK'
    BY <1>1, <2>1, <2>2 DEF TypeOK, Only
  <2>6. LockOK'
    BY <1>1, <2>1, <2>2 DEF LockOK, At, Only
  <2> QED  BY <1>1, <2>4, <2>5, <2>6, Kept
<1>3. CASE Fits
  <2> DEFINE new == [asset[a] EXCEPT !.commit = "checked",
                        !.checked = [limit |-> gate.limit, spilled |-> spilled]]
  <2>1. /\ new \in Asset /\ new.commit = "checked" /\ new.key = asset[a].key
        /\ new.row = asset[a].row /\ new.delete = asset[a].delete
        /\ new.checked.limit = gate.limit /\ new.checked.spilled = spilled
        /\ new.raced = asset[a].raced /\ new.unsure = asset[a].unsure /\ new.clean = asset[a].clean
    BY <1>1 DEF Asset
  <2>2. asset' = [asset EXCEPT ![a] = new] /\ lock' = a
    BY <1>3 DEF LockAndCheck
  <2> HIDE DEF new
  <2>3. /\ asset' \in [Assets -> Asset] /\ asset'[a] = new
        /\ \A b \in Assets : b # a => asset'[b] = asset[b]
    BY <1>1, <2>1, <2>2
  <2>4. TypeOK'
    BY <1>1, <2>2, <2>3 DEF TypeOK
  <2>5. LockOK'
    BY <1>1, <2>1, <2>2, <2>3 DEF LockOK, At
  <2>6. \A b \in Assets : b # a => asset'[b].commit # "checked"
    BY <1>1, <2>3 DEF LockOK, At
  <2>7. UnderLimit' \in SUBSET Rows /\ Rows \in SUBSET Assets
    BY <1>1, <2>1, <2>3 DEF UnderLimit, Rows
  <2>8. /\ Cardinality(UnderLimit') <= Cardinality(Rows)
        /\ Cardinality(UnderLimit') \in Nat /\ Cardinality(Rows) \in Nat
    <3>1. \A T \in SUBSET Rows : /\ Cardinality(T) <= Cardinality(Rows)
                                 /\ Cardinality(Rows) \in Nat /\ Cardinality(T) \in Nat
      BY <2>7, RowsFinite
    <3> QED  BY <2>7, <3>1
  <2>9. RoomOK'
    <3>1. SUFFICES ASSUME new.checked.limit # 0
                   PROVE  Cardinality(UnderLimit') + 1 + new.checked.spilled <= new.checked.limit
      BY <2>3, <2>6 DEF RoomOK, At
    <3>2. Cardinality(Rows) + spilled + 1 <= gate.limit
      BY <1>3, <2>1, <3>1 DEF Fits, AssetBytes
    <3> QED  BY <1>1, <2>1, <2>8, <3>2
  <2>10. WindowFrame
    BY <1>1, <2>1, <2>3 DEF WindowFrame
  <2>11. DanglingFrame
    BY <1>1, <2>1, <2>3 DEF DanglingFrame
  <2>12. LeaksFrame
    BY <1>1, <2>1, <2>3 DEF LeaksFrame, Settled, Cleared
  <2> QED  BY <2>4, <2>5, <2>9, <2>10, <2>11, <2>12, WindowKept, DanglingKept, LeaksKept DEF Inv
<1> QED  BY <1>2, <1>3

\* A row goes in; under a limit, it is that of the commit that holds the lock.
LEMMA InsertInv ==
  ASSUME Inv, NEW a \in Assets, Insert(a)
  PROVE  Inv'
<1> DEFINE new == [asset[a] EXCEPT !.commit = "inserted", !.row = TRUE,
                                   !.raced = InWindow(asset[a].key)]
<1>1. /\ TypeOK /\ LockOK /\ UNCHANGED <<object, gate, spilled, sweep>>
      /\ asset[a].commit \in {"free", "checked"} /\ ~asset[a].row
      /\ asset[a] \in Asset /\ asset \in [Assets -> Asset] /\ Nobody \notin Assets
      /\ lock' = IF lock = a THEN Nobody ELSE lock
  BY Records DEF Inv, Insert, At, LockOK
<1>2. /\ new \in Asset /\ new.commit = "inserted" /\ new.key = asset[a].key /\ new.row
      /\ new.delete = asset[a].delete /\ new.checked = asset[a].checked
      /\ new.raced <=> InWindow(asset[a].key)
      /\ new.unsure = asset[a].unsure /\ new.clean = asset[a].clean
  <2>1. InWindow(asset[a].key) \in BOOLEAN
    BY DEF InWindow
  <2> HIDE DEF InWindow
  <2> QED  BY <1>1, <2>1 DEF Asset
<1>3. asset' = [asset EXCEPT ![a] = new]
  BY DEF Insert
<1> HIDE DEF new
<1>4. /\ asset' \in [Assets -> Asset] /\ asset'[a] = new
      /\ \A b \in Assets : b # a => asset'[b] = asset[b]
  BY <1>1, <1>2, <1>3
<1>5. TypeOK'
  BY <1>1, <1>4 DEF TypeOK
<1>6. LockOK'
  BY <1>1, <1>2, <1>4 DEF LockOK, At
<1>7. RoomOK'
  <2>1. CASE asset[a].commit = "checked"
    BY <1>1, <1>2, <1>4, <2>1 DEF RoomOK, LockOK, At
  <2>2. CASE asset[a].commit = "free"
    <3>1. asset'[a].checked.limit = 0
      BY <1>1, <1>2, <1>4, <2>2 DEF LockOK
    <3>2. RoomFrame
      BY <1>2, <1>4, <3>1 DEF RoomFrame, UnderLimit, Rows
    <3> QED  BY <3>2, RoomKept DEF Inv
  <2> QED  BY <1>1, <2>1, <2>2
<1>8. \A k \in Keys : InWindow(k)' <=> InWindow(k)
  BY <1>1, <1>2, <1>4 DEF InWindow
<1>9. WindowOK'
  <2>1. ASSUME NEW b \in Assets, asset'[b].row, InWindow(asset[b].key)'
        PROVE  asset'[b].raced
    <3>1. PICK k \in Keys : k = asset[b].key /\ k = asset'[b].key
      BY <1>1, <1>2, <1>4 DEF Asset
    <3>2. InWindow(k)'
      BY <2>1, <3>1 DEF InWindow
    <3>3. InWindow(k)
      BY <1>1, <1>2, <1>4, <3>2 DEF InWindow
    <3>4. CASE b = a
      BY <1>2, <1>4, <3>1, <3>3, <3>4
    <3>5. CASE b # a
      BY <1>4, <2>1, <3>1, <3>3, <3>5 DEF Inv, WindowOK, Rows
    <3> QED  BY <3>4, <3>5
  <2> QED  BY <2>1 DEF WindowOK, Rows
<1>10. DanglingOnlyInWindow'
  BY <1>1, <1>2, <1>4 DEF Inv, DanglingOnlyInWindow, Rows
<1>11. LeaksFrame
  BY <1>1, <1>2, <1>4 DEF LeaksFrame, Settled, Cleared
<1> QED  BY <1>1, <1>5, <1>6, <1>7, <1>9, <1>10, <1>11, LeaksKept DEF Inv

\* The second look: a commit that ends without a doubt has seen the object.
LEMMA HeadAgainInv ==
  ASSUME Inv, NEW a \in Assets, HeadAgain(a)
  PROVE  Inv'
<1>1. /\ TypeOK /\ LockOK /\ UNCHANGED <<object, lock, gate, spilled, sweep>>
      /\ asset[a].commit = "inserted"
      /\ asset[a] \in Asset /\ asset \in [Assets -> Asset]
  BY Records DEF Inv, HeadAgain, At
<1>2. PICK new \in Asset :
         /\ asset' = [asset EXCEPT ![a] = new]
         /\ new.key = asset[a].key /\ new.row = asset[a].row /\ new.delete = asset[a].delete
         /\ new.checked = asset[a].checked /\ new.raced = asset[a].raced
         /\ new.clean = asset[a].clean
         /\ \/ new.commit = "rollback" /\ new.unsure = asset[a].unsure
            \/ new.commit = "ok" /\ object[asset[a].key] # "none" /\ new.unsure = asset[a].unsure
            \/ new.commit = "ok" /\ new.unsure
  <2>1. CASE asset' = Commit(a, IF object[asset[a].key] = "none" THEN "rollback" ELSE "ok")
    <3> DEFINE stage == IF object[asset[a].key] = "none" THEN "rollback" ELSE "ok"
    <3> DEFINE n == [asset[a] EXCEPT !.commit = stage]
    <3>1. /\ n \in Asset /\ n.commit = stage
          /\ n.key = asset[a].key /\ n.row = asset[a].row /\ n.delete = asset[a].delete
          /\ n.checked = asset[a].checked /\ n.raced = asset[a].raced
          /\ n.clean = asset[a].clean /\ n.unsure = asset[a].unsure
      BY <1>1 DEF Asset
    <3>2. asset' = [asset EXCEPT ![a] = n]
      BY <2>1 DEF Commit
    <3>3. \/ stage = "rollback"
          \/ stage = "ok" /\ object[asset[a].key] # "none"
      OBVIOUS
    <3> HIDE DEF n, stage
    <3> QED  BY <3>1, <3>2, <3>3
  <2>2. CASE asset' = [Commit(a, "ok") EXCEPT ![a].unsure = TRUE]
    <3> DEFINE n == [asset[a] EXCEPT !.commit = "ok", !.unsure = TRUE]
    <3>1. /\ n \in Asset /\ n.commit = "ok" /\ n.unsure
          /\ n.key = asset[a].key /\ n.row = asset[a].row /\ n.delete = asset[a].delete
          /\ n.checked = asset[a].checked /\ n.raced = asset[a].raced
          /\ n.clean = asset[a].clean
      BY <1>1 DEF Asset
    <3>2. asset' = [asset EXCEPT ![a] = n]
      BY <1>1, <2>2 DEF Commit
    <3> HIDE DEF n
    <3> QED  BY <3>1, <3>2
  <2> QED  BY <2>1, <2>2 DEF HeadAgain
<1>3. /\ asset' \in [Assets -> Asset] /\ asset'[a] = new
      /\ \A b \in Assets : b # a => asset'[b] = asset[b]
  BY <1>1, <1>2
<1>4. TypeOK'
  BY <1>1, <1>3 DEF TypeOK
<1>5. LockOK'
  BY <1>1, <1>2, <1>3 DEF LockOK, At
<1>6. RoomFrame
  BY <1>2, <1>3 DEF RoomFrame, UnderLimit, Rows
<1>7. WindowFrame
  BY <1>1, <1>2, <1>3 DEF WindowFrame
<1>8. LeaksFrame
  BY <1>1, <1>2, <1>3 DEF LeaksFrame, Settled, Cleared
<1>9. DanglingOnlyInWindow'
  BY <1>1, <1>2, <1>3 DEF Inv, DanglingOnlyInWindow, Rows
<1> QED  BY <1>4, <1>5, <1>6, <1>7, <1>8, <1>9, RoomKept, WindowKept, LeaksKept DEF Inv

\* A row goes: taken back by its commit, or deleted.
LEMMA RowGoesInv ==
  ASSUME Inv, NEW a \in Assets, RollBack(a) \/ DeleteRow(a)
  PROVE  Inv'
<1>1. /\ TypeOK /\ LockOK /\ UNCHANGED <<object, lock, gate, spilled, sweep>>
      /\ asset[a] \in Asset /\ asset \in [Assets -> Asset]
      /\ asset[a].commit # "checked"
  BY Records DEF Inv, RollBack, DeleteRow, At, LockOK
<1>2. PICK new \in Asset :
         /\ asset' = [asset EXCEPT ![a] = new]
         /\ new.key = asset[a].key /\ ~new.row
         /\ new.checked = asset[a].checked /\ new.raced = asset[a].raced
         /\ new.unsure = asset[a].unsure
         /\ \/ /\ new.commit = "rolledBack"
               /\ new.delete = asset[a].delete /\ new.clean = asset[a].clean
            \/ new.commit = asset[a].commit /\ new.delete = "rowGone"
  <2>1. CASE RollBack(a)
    <3> DEFINE n == [asset[a] EXCEPT !.commit = "rolledBack", !.row = FALSE]
    <3>1. /\ n \in Asset /\ n.key = asset[a].key /\ ~n.row
          /\ n.checked = asset[a].checked /\ n.raced = asset[a].raced
          /\ n.unsure = asset[a].unsure /\ n.commit = "rolledBack"
          /\ n.delete = asset[a].delete /\ n.clean = asset[a].clean
      BY <1>1 DEF Asset
    <3>2. asset' = [asset EXCEPT ![a] = n]
      BY <1>1, <2>1 DEF RollBack, Commit
    <3> HIDE DEF n
    <3> QED  BY <3>1, <3>2
  <2>2. CASE DeleteRow(a)
    <3> DEFINE n == [asset[a] EXCEPT !.row = FALSE, !.delete = "rowGone", !.clean = TRUE]
    <3>1. /\ n \in Asset /\ n.key = asset[a].key /\ ~n.row
          /\ n.checked = asset[a].checked /\ n.raced = asset[a].raced
          /\ n.unsure = asset[a].unsure /\ n.commit = asset[a].commit
          /\ n.delete = "rowGone"
      BY <1>1 DEF Asset
    <3>2. asset' = [asset EXCEPT ![a] = n]
      BY <2>2 DEF DeleteRow
    <3> HIDE DEF n
    <3> QED  BY <3>1, <3>2
  <2> QED  BY <2>1, <2>2
<1>3. /\ asset' \in [Assets -> Asset] /\ asset'[a] = new
      /\ \A b \in Assets : b # a => asset'[b] = asset[b]
  BY <1>1, <1>2
<1>4. Only(a)
  BY <1>2, <1>3 DEF Only
<1>5. Keeps(a)
  BY <1>2, <1>3 DEF Keeps, Settled, Cleared
<1>6. \A b \in Assets : Keeps(b)
  BY <1>4, <1>5, OthersKeep
<1>7. TypeOK'
  BY <1>1, <1>3 DEF TypeOK
<1>8. LockOK'
  BY <1>1, <1>2, <1>3 DEF LockOK, At
<1> QED  BY <1>1, <1>6, <1>7, <1>8, Kept

-----------------------------------------------------------------------------
(* The deletions.                                                          *)

\* What a deletion's later steps change is the deletion only.
LEMMA DeleteTypes ==
  ASSUME TypeOK, NEW a \in Assets, NEW stage \in {"unreferenced", "done"}, NEW sure \in BOOLEAN,
         asset' = [asset EXCEPT ![a] = [@ EXCEPT !.delete = stage, !.clean = sure]]
  PROVE  /\ Only(a) /\ asset'[a].delete = stage /\ asset'[a].clean = sure
         /\ asset'[a].row = asset[a].row /\ asset'[a].commit = asset[a].commit
         /\ asset'[a].checked = asset[a].checked /\ asset'[a].raced = asset[a].raced
         /\ asset'[a].unsure = asset[a].unsure
<1> DEFINE new == [asset[a] EXCEPT !.delete = stage, !.clean = sure]
<1>1. asset[a] \in Asset
  BY Records
<1>2. /\ new \in Asset /\ new.commit = asset[a].commit /\ new.key = asset[a].key
      /\ new.row = asset[a].row /\ new.delete = stage /\ new.checked = asset[a].checked
      /\ new.raced = asset[a].raced /\ new.unsure = asset[a].unsure /\ new.clean = sure
  BY <1>1 DEF Asset
<1>3. asset' = [asset EXCEPT ![a] = new]
  OBVIOUS
<1> HIDE DEF new
<1>4. /\ asset' \in [Assets -> Asset] /\ asset'[a] = new
      /\ \A b \in Assets : b # a => asset'[b] = asset[b]
  BY <1>2, <1>3, Records
<1> QED  BY <1>2, <1>4 DEF Only

\* The later steps leave the rows and the commits as they are.
LEMMA DeletionKeeps ==
  ASSUME Inv, NEW a \in Assets, Only(a), UNCHANGED <<lock, gate, spilled, sweep>>,
         asset'[a].row = asset[a].row, asset'[a].commit = asset[a].commit,
         asset'[a].checked = asset[a].checked, asset'[a].raced = asset[a].raced,
         asset'[a].unsure = asset[a].unsure
  PROVE  /\ LockOK' /\ RoomOK' /\ Rows' = Rows
         /\ \A b \in Assets : /\ asset'[b].key = asset[b].key /\ asset'[b].row = asset[b].row
                              /\ asset'[b].commit = asset[b].commit
                              /\ asset'[b].raced = asset[b].raced
                              /\ asset'[b].unsure = asset[b].unsure
         /\ (object' \in [Keys -> {"none", "fresh", "old"}]) => TypeOK'
<1>1. \A b \in Assets : /\ asset'[b].key = asset[b].key /\ asset'[b].row = asset[b].row
                        /\ asset'[b].commit = asset[b].commit
                        /\ asset'[b].checked = asset[b].checked
                        /\ asset'[b].raced = asset[b].raced
                        /\ asset'[b].unsure = asset[b].unsure
  BY DEF Only
<1>2. LockOK'
  BY <1>1 DEF Inv, LockOK, At
<1>3. RoomFrame
  BY <1>1 DEF RoomFrame, UnderLimit, Rows
<1>4. RoomOK'
  BY <1>3, RoomKept DEF Inv
<1>5. (object' \in [Keys -> {"none", "fresh", "old"}]) => TypeOK'
  BY DEF Inv, TypeOK, Only
<1> QED  BY <1>1, <1>2, <1>4, <1>5 DEF Rows

\* The window opens on a key without rows; it does not open on one with a row,
\* and then there is nothing to remove.
LEMMA CountReferencesInv ==
  ASSUME Inv, NEW a \in Assets, CountReferences(a)
  PROVE  Inv'
<1>1. /\ TypeOK /\ WindowOK /\ UNCHANGED <<object, lock, gate, spilled, sweep>>
      /\ asset[a] \in Asset /\ asset[a].delete = "rowGone"
      /\ asset \in [Assets -> Asset]
  BY Records DEF Inv, CountReferences
<1>2. PICK stage \in {"unreferenced", "done"} :
         /\ asset' = [asset EXCEPT ![a].delete = stage]
         /\ stage = "done" <=> Referenced(asset[a].key)
  <2>1. CASE Referenced(asset[a].key)
    BY <2>1 DEF CountReferences
  <2>2. CASE ~Referenced(asset[a].key)
    BY <2>2 DEF CountReferences
  <2> QED  BY <2>1, <2>2
<1>3. asset' = [asset EXCEPT ![a] = [@ EXCEPT !.delete = stage, !.clean = asset[a].clean]]
  <2>1. [asset[a] EXCEPT !.delete = stage]
          = [asset[a] EXCEPT !.delete = stage, !.clean = asset[a].clean]
    BY <1>1 DEF Asset
  <2> QED  BY <1>2, <2>1
<1>4. asset[a].clean \in BOOLEAN
  BY <1>1 DEF Asset
<1>5. /\ Only(a) /\ asset'[a].delete = stage /\ asset'[a].clean = asset[a].clean
      /\ asset'[a].row = asset[a].row /\ asset'[a].commit = asset[a].commit
      /\ asset'[a].checked = asset[a].checked /\ asset'[a].raced = asset[a].raced
      /\ asset'[a].unsure = asset[a].unsure
  BY <1>1, <1>3, <1>4, DeleteTypes
<1>6. /\ LockOK' /\ RoomOK' /\ TypeOK'
      /\ \A b \in Assets : /\ asset'[b].key = asset[b].key /\ asset'[b].row = asset[b].row
                           /\ asset'[b].commit = asset[b].commit
                           /\ asset'[b].raced = asset[b].raced
                           /\ asset'[b].unsure = asset[b].unsure
  <2>1. object' \in [Keys -> {"none", "fresh", "old"}]
    BY <1>1 DEF TypeOK
  <2> QED  BY <1>1, <1>5, <2>1, DeletionKeeps
<1>7. WindowOK'
  <2>1. SUFFICES ASSUME NEW b \in Assets, asset'[b].row, InWindow(asset[b].key)'
                 PROVE  asset'[b].raced
    BY DEF WindowOK, Rows
  <2>2. asset[b].row /\ asset'[b].key = asset[b].key /\ asset'[b].raced = asset[b].raced
    BY <1>6, <2>1
  <2>3. CASE InWindow(asset[b].key)
    BY <1>1, <2>2, <2>3 DEF WindowOK, Rows
  <2>4. CASE ~InWindow(asset[b].key)
    <3>1. stage = "unreferenced" /\ asset[a].key = asset[b].key
      BY <1>1, <1>5, <2>1, <2>2, <2>4 DEF InWindow, Only
    <3>2. Referenced(asset[a].key)
      BY <2>2, <3>1 DEF Referenced, Rows
    <3> QED  BY <1>2, <3>1, <3>2
  <2> QED  BY <2>3, <2>4
<1>8. DanglingOnlyInWindow'
  <2>1. DanglingFrame
    BY <1>1, <1>6 DEF DanglingFrame
  <2> QED  BY <1>1, <2>1, DanglingKept DEF Inv
<1>9. NothingLeaks'
  <2>1. SUFFICES ASSUME NEW c \in Assets, Cleared(c)',
                        \A b \in Assets : asset'[b].key = asset'[c].key => Settled(b)'
                 PROVE  object'[asset'[c].key] = "none"
    BY DEF NothingLeaks, Cleared, Settled
  <2>2. asset'[a].key # asset'[c].key
    <3>1. SUFFICES ASSUME asset'[a].key = asset'[c].key
                   PROVE  FALSE
      OBVIOUS
    <3>2. Settled(a)'
      BY <2>1, <3>1
    <3>3. asset'[a].delete \in {"none", "done"}
      BY <3>2 DEF Settled
    <3>4. stage = "done"
      BY <1>5, <3>3
    <3>5. Referenced(asset[a].key)
      BY <1>2, <3>4
    <3>6. PICK b \in Assets : asset[b].row /\ asset[b].key = asset[a].key
      BY <3>5 DEF Referenced, Rows
    <3>7. asset'[b].row /\ asset'[b].key = asset'[c].key
      BY <1>6, <3>1, <3>6
    <3>8. Settled(b)'
      BY <2>1, <3>7
    <3> QED  BY <3>7, <3>8 DEF Settled
  <2>3. Cleared(c) /\ \A b \in Assets : asset[b].key = asset[c].key => Settled(b)
    <3>1. c # a /\ asset'[c] = asset[c]
      BY <1>5, <2>2 DEF Only
    <3>2. ASSUME NEW b \in Assets, asset[b].key = asset[c].key
          PROVE  Settled(b)
      <4>1. asset'[b].key = asset'[c].key
        BY <1>6, <3>2
      <4>2. b # a /\ asset'[b] = asset[b]
        BY <1>5, <2>2, <4>1 DEF Only
      <4>3. Settled(b)'
        BY <2>1, <4>1
      <4> QED  BY <4>2, <4>3 DEF Settled
    <3> QED  BY <2>1, <3>1, <3>2 DEF Cleared
  <2>4. object[asset[c].key] = "none"
    BY <2>3, LeaksRestated DEF Inv
  <2> QED  BY <1>1, <1>6, <2>4
<1> QED  BY <1>6, <1>7, <1>8, <1>9 DEF Inv

\* The object goes: whoever has a row of the key went in after the check.
LEMMA DeleteObjectInv ==
  ASSUME Inv, NEW a \in Assets, DeleteObject(a)
  PROVE  Inv'
<1>1. /\ TypeOK /\ WindowOK /\ UNCHANGED <<lock, gate, spilled, sweep>>
      /\ asset[a] \in Asset /\ asset[a].delete = "unreferenced"
      /\ asset \in [Assets -> Asset] /\ asset[a].key \in Keys
      /\ object \in [Keys -> {"none", "fresh", "old"}]
  BY Records DEF Inv, DeleteObject, Asset, TypeOK
<1>2. /\ object' \in [Keys -> {"none", "fresh", "old"}] /\ object'[asset[a].key] = "none"
      /\ \A k \in Keys : k # asset[a].key => object'[k] = object[k]
  BY <1>1 DEF DeleteObject
<1>3. asset' = [asset EXCEPT ![a] = [@ EXCEPT !.delete = "done", !.clean = asset[a].clean]]
  <2>1. [asset[a] EXCEPT !.delete = "done"]
          = [asset[a] EXCEPT !.delete = "done", !.clean = asset[a].clean]
    BY <1>1 DEF Asset
  <2> QED  BY <2>1 DEF DeleteObject
<1>4. asset[a].clean \in BOOLEAN
  BY <1>1 DEF Asset
<1>5. /\ Only(a) /\ asset'[a].delete = "done" /\ asset'[a].clean = asset[a].clean
      /\ asset'[a].row = asset[a].row /\ asset'[a].commit = asset[a].commit
      /\ asset'[a].checked = asset[a].checked /\ asset'[a].raced = asset[a].raced
      /\ asset'[a].unsure = asset[a].unsure
  BY <1>1, <1>3, <1>4, DeleteTypes
<1>6. /\ LockOK' /\ RoomOK' /\ TypeOK'
      /\ \A b \in Assets : /\ asset'[b].key = asset[b].key /\ asset'[b].row = asset[b].row
                           /\ asset'[b].commit = asset[b].commit
                           /\ asset'[b].raced = asset[b].raced
                           /\ asset'[b].unsure = asset[b].unsure
  BY <1>1, <1>2, <1>5, DeletionKeeps
<1>7. WindowOK'
  <2>1. WindowFrame
    BY <1>1, <1>5, <1>6 DEF WindowFrame, Only
  <2> QED  BY <2>1, WindowKept DEF Inv
<1>8. DanglingOnlyInWindow'
  <2>1. SUFFICES ASSUME NEW b \in Assets, asset'[b].row, asset'[b].commit = "ok",
                        object'[asset'[b].key] = "none"
                 PROVE  asset'[b].raced \/ asset'[b].unsure
    BY DEF DanglingOnlyInWindow, Rows
  <2>2. /\ asset[b].row /\ asset[b].commit = "ok" /\ asset[b].key \in Keys
        /\ object'[asset[b].key] = "none"
    BY <1>1, <1>6, <2>1 DEF Asset
  <2>3. CASE asset[b].key = asset[a].key
    <3>1. InWindow(asset[b].key)
      BY <1>1, <2>3 DEF InWindow
    <3> QED  BY <1>1, <1>6, <2>2, <3>1 DEF WindowOK, Rows
  <2>4. CASE asset[b].key # asset[a].key
    BY <1>2, <1>6, <2>2, <2>4 DEF Inv, DanglingOnlyInWindow, Rows
  <2> QED  BY <2>3, <2>4
<1>9. NothingLeaks'
  <2>1. SUFFICES ASSUME NEW c \in Assets, asset[c].key # asset[a].key, Cleared(c)',
                        \A b \in Assets : asset'[b].key = asset'[c].key => Settled(b)'
                 PROVE  object'[asset'[c].key] = "none"
    BY <1>2, <1>6 DEF NothingLeaks, Cleared, Settled
  <2>2. Cleared(c) /\ \A b \in Assets : asset[b].key = asset[c].key => Settled(b)
    <3>1. asset'[c] = asset[c]
      BY <1>5, <2>1 DEF Only
    <3>2. ASSUME NEW b \in Assets, asset[b].key = asset[c].key
          PROVE  Settled(b)
      <4>1. Settled(b)' /\ asset'[b] = asset[b]
        BY <1>5, <1>6, <2>1, <3>2 DEF Only
      <4> QED  BY <4>1 DEF Settled
    <3> QED  BY <2>1, <3>1, <3>2 DEF Cleared
  <2>3. object[asset[c].key] = "none" /\ asset[c].key \in Keys
    BY <1>1, <2>2, LeaksRestated DEF Inv, Asset
  <2> QED  BY <1>2, <1>6, <2>1, <2>3
<1> QED  BY <1>6, <1>7, <1>8, <1>9 DEF Inv

\* A deletion that fails leaves the key to the sweep.
LEMMA DeleteFailsInv ==
  ASSUME Inv, NEW a \in Assets, DeleteFails(a)
  PROVE  Inv'
<1>1. TypeOK /\ WindowOK /\ UNCHANGED <<object, lock, gate, spilled, sweep>>
  BY DEF Inv, DeleteFails
<1>2. /\ Only(a) /\ asset'[a].delete = "done" /\ asset'[a].clean = FALSE
      /\ asset'[a].row = asset[a].row /\ asset'[a].commit = asset[a].commit
      /\ asset'[a].checked = asset[a].checked /\ asset'[a].raced = asset[a].raced
      /\ asset'[a].unsure = asset[a].unsure
  BY <1>1, DeleteTypes DEF DeleteFails
<1>3. /\ LockOK' /\ RoomOK' /\ TypeOK'
      /\ \A b \in Assets : /\ asset'[b].key = asset[b].key /\ asset'[b].row = asset[b].row
                           /\ asset'[b].commit = asset[b].commit
                           /\ asset'[b].raced = asset[b].raced
                           /\ asset'[b].unsure = asset[b].unsure
  <2>1. object' \in [Keys -> {"none", "fresh", "old"}]
    BY <1>1 DEF TypeOK
  <2> QED  BY <1>1, <1>2, <2>1, DeletionKeeps
<1>4. WindowFrame
  BY <1>1, <1>2, <1>3 DEF WindowFrame, Only
<1>5. DanglingFrame
  BY <1>1, <1>3 DEF DanglingFrame
<1>6. LeaksFrame
  <2>1. ASSUME NEW b \in Assets
        PROVE  (Settled(b)' => Settled(b)) /\ (Cleared(b)' => Cleared(b))
    <3>1. CASE b = a
      BY <1>2, <3>1 DEF Settled, Cleared
    <3>2. CASE b # a
      BY <1>2, <3>2 DEF Settled, Cleared, Only
    <3> QED  BY <3>1, <3>2
  <2> QED  BY <1>1, <1>3, <2>1 DEF LeaksFrame
<1> QED  BY <1>1, <1>3, <1>4, <1>5, <1>6, WindowKept, DanglingKept, LeaksKept DEF Inv

-----------------------------------------------------------------------------
(* The uploads, the sweep, and the rest of the organization's life.        *)

\* An upload makes every earlier deletion of its key one that promises nothing.
LEMMA UploadInv ==
  ASSUME Inv, NEW k \in Keys, Upload(k)
  PROVE  Inv'
<1>1. /\ TypeOK /\ LockOK /\ UNCHANGED <<lock, gate, spilled, sweep>>
      /\ asset \in [Assets -> Asset] /\ object \in [Keys -> {"none", "fresh", "old"}]
      /\ \A b \in Assets : asset[b] \in Asset
  BY Records DEF Inv, Upload, TypeOK
<1>2. /\ object' \in [Keys -> {"none", "fresh", "old"}]
      /\ \A j \in Keys : j # k => object'[j] = object[j]
      /\ \A j \in Keys : object'[j] = "none" => object[j] = "none"
  BY <1>1 DEF Upload
<1>3. ASSUME NEW b \in Assets
      PROVE  /\ asset'[b] \in Asset /\ asset'[b].key = asset[b].key
             /\ asset'[b].row = asset[b].row /\ asset'[b].commit = asset[b].commit
             /\ asset'[b].checked = asset[b].checked /\ asset'[b].raced = asset[b].raced
             /\ asset'[b].unsure = asset[b].unsure /\ asset'[b].delete = asset[b].delete
             /\ asset[b].key = k => ~asset'[b].clean
             /\ asset[b].key # k => asset'[b] = asset[b]
  <2>1. asset[b] \in Asset /\ asset'[b] = IF asset[b].key = k
                                          THEN [asset[b] EXCEPT !.clean = FALSE] ELSE asset[b]
    BY <1>1 DEF Upload
  <2>2. CASE asset[b].key = k
    <3>1. asset'[b] = [asset[b] EXCEPT !.clean = FALSE]
      BY <2>1, <2>2
    <3> QED  BY <2>1, <2>2, <3>1 DEF Asset
  <2>3. CASE asset[b].key # k
    BY <2>1, <2>3
  <2> QED  BY <2>2, <2>3
<1>4. TypeOK'
  <2>1. asset' = [b \in Assets |-> asset'[b]]
    BY DEF Upload
  <2>2. asset' \in [Assets -> Asset]
    BY <1>3, <2>1
  <2> QED  BY <1>1, <1>2, <2>2 DEF TypeOK
<1>5. LockOK'
  BY <1>1, <1>3 DEF LockOK, At
<1>6. RoomFrame
  BY <1>3 DEF RoomFrame, UnderLimit, Rows
<1>7. WindowFrame
  BY <1>1, <1>3 DEF WindowFrame
<1>8. DanglingFrame
  BY <1>2, <1>3 DEF DanglingFrame
<1>9. NothingLeaks'
  <2>1. SUFFICES ASSUME NEW c \in Assets, Cleared(c)',
                        \A b \in Assets : asset'[b].key = asset'[c].key => Settled(b)'
                 PROVE  object'[asset'[c].key] = "none"
    BY DEF NothingLeaks, Cleared, Settled
  <2>2. asset[c].key # k /\ asset'[c] = asset[c] /\ asset[c].key \in Keys
    BY <1>1, <1>3, <2>1 DEF Cleared, Asset
  <2>3. ASSUME NEW b \in Assets, asset[b].key = asset[c].key
        PROVE  Settled(b)
    <3>1. Settled(b)' /\ asset'[b] = asset[b]
      BY <1>3, <2>1, <2>2, <2>3
    <3> QED  BY <3>1 DEF Settled
  <2>4. object[asset[c].key] = "none"
    BY <2>1, <2>2, <2>3, LeaksRestated DEF Inv, Cleared
  <2> QED  BY <1>2, <2>2, <2>4
<1> QED  BY <1>1, <1>4, <1>5, <1>6, <1>7, <1>8, <1>9, RoomKept, WindowKept, DanglingKept DEF Inv

\* Where no commit and no deletion moves.
LEMMA QuietKeeps ==
  ASSUME UNCHANGED asset, NEW b \in Assets
  PROVE  Keeps(b)
BY DEF Keeps, Settled, Cleared

\* Where nothing is removed and the sweep does not reach its check.
LEMMA QuietInv ==
  ASSUME Inv,
         \/ \E k \in Keys : Age(k)
         \/ List \/ Decide \/ Spill \/ UNCHANGED vars
         \/ \E suspended \in BOOLEAN, limit \in Limits : SetGate(suspended, limit)
  PROVE  Inv'
<1>1. TypeOK /\ LockOK /\ UNCHANGED <<asset, lock>>
  BY DEF Inv, Age, List, Decide, Spill, SetGate, vars
<1>2. \A b \in Assets : Keeps(b)
  BY <1>1, QuietKeeps
<1>3. LockOK'
  BY <1>1 DEF LockOK, At
<1>4. TypeOK'
  <2>1. CASE \E k \in Keys : Age(k)
    BY <1>1, <2>1 DEF TypeOK, Age
  <2>2. CASE List
    BY <1>1, <2>2 DEF TypeOK, List
  <2>3. CASE Decide
    BY <1>1, <2>3 DEF TypeOK, Decide
  <2>4. CASE Spill
    <3>1. spilled \in 0..MaxSpill /\ MaxSpill \in Nat
      BY <1>1, AssetStoreAssumption DEF TypeOK
    <3>2. spilled' \in 0..MaxSpill
      BY <2>4, <3>1 DEF Spill
    <3> QED  BY <1>1, <2>4, <3>2 DEF TypeOK, Spill
  <2>5. CASE UNCHANGED vars
    BY <1>1, <2>5 DEF TypeOK, vars
  <2>6. CASE \E suspended \in BOOLEAN, limit \in Limits : SetGate(suspended, limit)
    BY <1>1, <2>6 DEF TypeOK, SetGate
  <2> QED  BY <2>1, <2>2, <2>3, <2>4, <2>5, <2>6
<1>5. \A k \in Keys : object'[k] = "none" <=> object[k] = "none"
  BY <1>1 DEF TypeOK, Age, List, Decide, Spill, SetGate, vars
<1>6. sweep'.at = "rechecked" => sweep' = sweep
  BY DEF Age, List, Decide, Spill, SetGate, vars
<1> QED  BY <1>2, <1>3, <1>4, <1>5, <1>6, Kept

\* The sweep's last check leaves it keys that have no row.
LEMMA RecheckInv ==
  ASSUME Inv, Recheck
  PROVE  Inv'
<1>1. TypeOK /\ LockOK /\ UNCHANGED <<object, asset, lock, gate, spilled>>
  BY DEF Inv, Recheck
<1>2. TypeOK'
  BY <1>1 DEF TypeOK, Recheck
<1>3. LockOK' /\ RoomOK'
  BY <1>1 DEF Inv, LockOK, RoomOK, UnderLimit, Rows, At
<1>4. WindowOK'
  <2>1. SUFFICES ASSUME NEW b \in Assets, asset[b].row, InWindow(asset[b].key)'
                 PROVE  asset[b].raced
    BY <1>1 DEF WindowOK, Rows
  <2>2. Referenced(asset[b].key)
    BY <2>1 DEF Referenced, Rows
  <2>3. asset[b].key \notin sweep'.keys
    BY <2>2 DEF Recheck
  <2>4. InWindow(asset[b].key)
    BY <1>1, <2>1, <2>3 DEF InWindow
  <2> QED  BY <2>1, <2>4 DEF Inv, WindowOK, Rows
<1>5. DanglingOnlyInWindow' /\ NothingLeaks'
  BY <1>1 DEF Inv, DanglingOnlyInWindow, NothingLeaks, Rows
<1> QED  BY <1>2, <1>3, <1>4, <1>5 DEF Inv

\* Its deletes reach only rows that went in after that check.
LEMMA DeleteBatchInv ==
  ASSUME Inv, DeleteBatch
  PROVE  Inv'
<1>1. /\ TypeOK /\ LockOK /\ UNCHANGED <<asset, lock, gate, spilled>>
      /\ sweep.at = "rechecked" /\ sweep' = [at |-> "idle", keys |-> {}]
  BY DEF Inv, DeleteBatch
<1>2. PICK failed \in SUBSET sweep.keys :
         object' = [k \in Keys |-> IF k \in sweep.keys \ failed THEN "none" ELSE object[k]]
  BY DEF DeleteBatch
<1>3. \A k \in Keys : \/ object'[k] = object[k]
                      \/ object'[k] = "none" /\ k \in sweep.keys
  BY <1>2
<1>4. TypeOK'
  <2>1. object' \in [Keys -> {"none", "fresh", "old"}]
    BY <1>1, <1>2 DEF TypeOK
  <2> QED  BY <1>1, <2>1 DEF TypeOK
<1>5. LockOK' /\ RoomOK'
  BY <1>1 DEF Inv, LockOK, RoomOK, UnderLimit, Rows, At
<1>6. WindowOK'
  <2>1. WindowFrame
    BY <1>1 DEF WindowFrame
  <2> QED  BY <2>1, WindowKept DEF Inv
<1>7. DanglingOnlyInWindow'
  <2>1. SUFFICES ASSUME NEW b \in Assets, asset[b].row, asset[b].commit = "ok",
                        object'[asset[b].key] = "none"
                 PROVE  asset[b].raced \/ asset[b].unsure
    BY <1>1 DEF DanglingOnlyInWindow, Rows
  <2>2. asset[b].key \in Keys
    BY <1>1, Records DEF Asset
  <2>3. CASE object'[asset[b].key] = object[asset[b].key]
    BY <2>1, <2>3 DEF Inv, DanglingOnlyInWindow, Rows
  <2>4. CASE asset[b].key \in sweep.keys
    BY <1>1, <2>1, <2>4 DEF Inv, WindowOK, InWindow, Rows
  <2> QED  BY <1>3, <2>2, <2>3, <2>4
<1>8. LeaksFrame
  BY <1>1, <1>3 DEF LeaksFrame, Settled, Cleared
<1> QED  BY <1>4, <1>5, <1>6, <1>7, <1>8, LeaksKept DEF Inv

-----------------------------------------------------------------------------
(* The theorems.                                                           *)

LEMMA InitInv ==
  ASSUME Init
  PROVE  Inv
<1>1. \A a \in Assets : \E k \in Keys : asset[a] = NoAsset(k)
  BY DEF Init
<1>2. ASSUME NEW a \in Assets
      PROVE  /\ asset[a].commit = "none" /\ ~asset[a].row
             /\ asset[a].delete = "none" /\ asset[a].checked.limit = 0
  <2>1. PICK k \in Keys : asset[a] = NoAsset(k)
    BY <1>1
  <2> QED  BY <2>1 DEF NoAsset
<1>3. TypeOK
  <2>1. \A k \in Keys : NoAsset(k) \in Asset
    BY DEF NoAsset, Asset
  <2>2. asset \in [Assets -> Asset]
    BY <2>1 DEF Init
  <2>3. 0 \in 0..MaxSpill
    BY AssetStoreAssumption
  <2> QED  BY <2>2, <2>3 DEF Init, TypeOK
<1>4. LockOK
  BY <1>2, AssetStoreAssumption DEF LockOK, At, Init
<1>5. RoomOK /\ WindowOK /\ DanglingOnlyInWindow /\ NothingLeaks
  BY <1>2 DEF RoomOK, At, WindowOK, DanglingOnlyInWindow, Rows, NothingLeaks
<1> QED  BY <1>3, <1>4, <1>5 DEF Inv

LEMMA NextInv ==
  ASSUME Inv, [Next]_vars
  PROVE  Inv'
<1>1. CASE \E k \in Keys : Upload(k)
  BY <1>1, UploadInv
<1>2. CASE \E a \in Assets :
             \/ HeadObject(a) \/ ReadGate(a) \/ LockAndCheck(a) \/ Insert(a)
             \/ HeadAgain(a) \/ RollBack(a)
             \/ DeleteRow(a) \/ CountReferences(a) \/ DeleteObject(a) \/ DeleteFails(a)
  BY <1>2, StageInv, LockAndCheckInv, InsertInv, HeadAgainInv, RowGoesInv,
     CountReferencesInv, DeleteObjectInv, DeleteFailsInv
<1>3. CASE Recheck \/ DeleteBatch
  BY <1>3, RecheckInv, DeleteBatchInv
<1>4. CASE \/ \E k \in Keys : Age(k)
           \/ List \/ Decide \/ Spill \/ UNCHANGED vars
           \/ \E suspended \in BOOLEAN, limit \in Limits : SetGate(suspended, limit)
  BY <1>4, QuietInv
<1> QED  BY <1>1, <1>2, <1>3, <1>4 DEF Next

\* The state stays of its type, and what the gate, the window and the lock
\* promise holds at every step of every commit, deletion and sweep.
THEOREM StorageInvariant == Spec => []Inv
<1>1. Init => Inv
  BY InitInv
<1>2. Inv /\ [Next]_vars => Inv'
  BY NextInv
<1> QED  BY <1>1, <1>2, PTL DEF Spec

\* A committed row without its object was inserted between a deletion's last
\* check and its request, or the commit's second look at the object failed:
\* for any number of commits, deletes and keys.
THEOREM RowsKeepTheirObjects == Spec => []DanglingOnlyInWindow
<1>1. Inv => DanglingOnlyInWindow
  BY DEF Inv
<1> QED  BY <1>1, StorageInvariant, PTL

\* When the last row of a key is deleted, by calls that overlap or not, and
\* nothing failed or was uploaded again, the object is gone.
THEOREM DeletesLeaveNothing == Spec => []NothingLeaks
<1>1. Inv => NothingLeaks
  BY DEF Inv
<1> QED  BY <1>1, StorageInvariant, PTL

\* Whatever the operator does to the limit meanwhile, commits that see a limit
\* never together take more room than the one that each of them read.
THEOREM LimitHolds == Spec => CommitsFit
<1> DEFINE Fitting == \A a \in Assets :
        At(a, "checked") /\ asset'[a].row /\ asset[a].checked.limit # 0 =>
          Cardinality({b \in Rows : asset[b].checked.limit # 0}) + 1
            + asset[a].checked.spilled <= asset[a].checked.limit
<1>1. Inv => Fitting
  BY DEF Inv, RoomOK, UnderLimit
<1>2. Inv /\ [Next]_vars => [Fitting]_vars
  BY <1>1
<1> QED  BY <1>2, StorageInvariant, PTL DEF CommitsFit, Spec

=============================================================================
