------------------------------ MODULE Sessions ------------------------------
(***************************************************************************)
(* A signed-in user: the refresh tokens the API keeps (auth.service.ts) and *)
(* the browser tabs that share one of them (web: client.ts, tokens.ts).     *)
(* A refresh token is used once: refreshing marks it used and issues its    *)
(* successor, and presenting a used one revokes its whole family.  A tab    *)
(* shares one refresh among all its requests that came back with a 401, and *)
(* hears of another tab's new token only by a storage event.  Every request *)
(* may be lost in both directions, and a page may be reloaded at any time.  *)
(***************************************************************************)
EXTENDS Naturals, Sequences

CONSTANTS
    Tabs,           \* the tabs of one browser
    Slots,          \* requests a tab may have under way
    MaxTokens,      \* bound: refresh tokens issued
    MaxCalls        \* bound: calls of the auth endpoints

ASSUME SessionsAssumption == MaxTokens \in Nat \ {0} /\ MaxCalls \in Nat

VARIABLES
    tokens,     \* the refresh_tokens rows, in the order of their issue
    calls,      \* the refresh and logout calls, in the order they were sent
    stored,     \* the token in localStorage; 0 is none
    mirror,     \* each tab's copy of it
    stale,      \* the tabs with an undelivered storage event
    refreshing, \* each tab's refresh under way; 0 is none
    request     \* each tab's requests

vars == <<tokens, calls, stored, mirror, stale, refreshing, request>>

client == <<stored, mirror, stale, refreshing, request>>

-----------------------------------------------------------------------------

TokenIds == 1..Len(tokens)

Token == [family : 1..MaxTokens, used : BOOLEAN, revoked : BOOLEAN]

\* passed: the checks of refresh succeeded; reuse: they found the token used.
\* lost: the tab no longer waits for the answer.
Call == [kind : {"refresh", "logout"}, tab : Tabs, token : 1..MaxTokens,
         at : {"sent", "passed", "reuse", "granted", "refused", "failed", "done"},
         lost : BOOLEAN]

\* existing: the token that was in the store when the 401 came.  Which access
\* token a request carries is left out: any of them may have expired by the time
\* the API looks at it.
Request == [at : {"idle", "sent", "waiting", "interpreting"}, retried : BOOLEAN,
            existing : 0..MaxTokens]

Idle == [at |-> "idle", retried |-> FALSE, existing |-> 0]

TypeOK ==
    /\ tokens \in Seq(Token) /\ Len(tokens) <= MaxTokens
    /\ calls \in Seq(Call) /\ Len(calls) <= MaxCalls
    /\ stored \in 0..MaxTokens
    /\ mirror \in [Tabs -> 0..MaxTokens]
    /\ stale \in SUBSET Tabs
    /\ refreshing \in [Tabs -> 0..MaxCalls]
    /\ request \in [Tabs \X Slots -> Request]

NewToken(family) ==
    [family |-> family, used |-> FALSE, revoked |-> FALSE]

\* The user has signed in, and every tab has opened since.
Init ==
    /\ tokens = <<NewToken(1)>>
    /\ calls = <<>>
    /\ stored = 1
    /\ mirror = [b \in Tabs |-> 1]
    /\ stale = {}
    /\ refreshing = [b \in Tabs |-> 0]
    /\ request = [r \in Tabs \X Slots |-> Idle]

-----------------------------------------------------------------------------
(* The server.                                                             *)

Answer(c, at) == [calls EXCEPT ![c].at = at]

RevokedFamily(family) ==
    [t \in TokenIds |-> IF tokens[t].family = family
                        THEN [tokens[t] EXCEPT !.revoked = TRUE] ELSE tokens[t]]

IsRefresh(c, at) == calls[c].kind = "refresh" /\ calls[c].at = at

\* refresh reads the row of the token it was given.
ReadRow(c) ==
    /\ IsRefresh(c, "sent")
    /\ LET row == tokens[calls[c].token]
       IN calls' = Answer(c, IF row.revoked THEN "refused"
                             ELSE IF row.used THEN "reuse" ELSE "passed")
    /\ UNCHANGED <<tokens, client>>

RevokeReused(c) ==
    /\ IsRefresh(c, "reuse")
    /\ tokens' = RevokedFamily(tokens[calls[c].token].family)
    /\ calls' = Answer(c, "refused")
    /\ UNCHANGED client

\* Mutant of Claim: the row is marked used without looking at it again.
ClaimAsRead(c) ==
    /\ IsRefresh(c, "passed") /\ Len(tokens) < MaxTokens
    /\ LET t == calls[c].token
       IN tokens' = Append([tokens EXCEPT ![t].used = TRUE], NewToken(tokens[t].family))
    /\ calls' = Answer(c, "granted")
    /\ UNCHANGED client

\* The transaction: mark the token used if it is not yet, and issue its successor.
Claim(c) ==
    /\ IsRefresh(c, "passed")
    /\ LET t == calls[c].token
       IN IF tokens[t].used
          THEN /\ calls' = Answer(c, "refused")
               /\ UNCHANGED tokens
          ELSE /\ Len(tokens) < MaxTokens
               /\ tokens' = Append([tokens EXCEPT ![t].used = TRUE],
                                   NewToken(tokens[t].family))
               /\ calls' = Answer(c, "granted")
    /\ UNCHANGED client

\* The call never arrives, or fails before its transaction commits.
CallFails(c) ==
    /\ calls[c].at \in {"sent", "passed"}
    /\ calls' = Answer(c, "failed")
    /\ UNCHANGED <<tokens, client>>

Logout(c) ==
    /\ calls[c].kind = "logout" /\ calls[c].at = "sent"
    /\ tokens' = RevokedFamily(tokens[calls[c].token].family)
    /\ calls' = Answer(c, "done")
    /\ UNCHANGED client

\* A password reset, a sign-out of every device, an operator.
RevokeAll ==
    /\ tokens' = [t \in TokenIds |-> [tokens[t] EXCEPT !.revoked = TRUE]]
    /\ UNCHANGED <<calls, client>>

-----------------------------------------------------------------------------
(* A tab: the token store, and requests that meet a 401.                   *)

\* A write to localStorage raises an event in every other tab.
Store(b, t) ==
    /\ stored' = t
    /\ mirror' = [mirror EXCEPT ![b] = t]
    /\ stale' = (stale \cup Tabs) \ {b}

\* endSession does nothing when there is none.
EndSession(b) ==
    IF mirror[b] = 0 THEN UNCHANGED <<stored, mirror, stale>> ELSE Store(b, 0)

StorageEvent(b) ==
    /\ b \in stale
    /\ mirror' = [mirror EXCEPT ![b] = stored]
    /\ stale' = stale \ {b}
    /\ UNCHANGED <<tokens, calls, stored, refreshing, request>>

\* Without a session a request throws before it is sent.
Sent(t, retried) ==
    IF t = 0 THEN Idle
    ELSE [at |-> "sent", retried |-> retried, existing |-> 0]

Send(r) ==
    /\ request[r].at = "idle" /\ mirror[r[1]] # 0
    /\ request' = [request EXCEPT ![r] = Sent(mirror[r[1]], FALSE)]
    /\ UNCHANGED <<tokens, calls, stored, mirror, stale, refreshing>>

\* A success, an error that is no 401, a timeout, or the caller's abort.
Respond(r) ==
    /\ request[r].at = "sent"
    /\ request' = [request EXCEPT ![r] = Idle]
    /\ UNCHANGED <<tokens, calls, stored, mirror, stale, refreshing>>

NewCall(kind, b, t) ==
    [kind |-> kind, tab |-> b, token |-> t, at |-> "sent", lost |-> FALSE]

\* Mutant of Unauthorized: every 401 starts a refresh of its own.
RefreshPer401(r) ==
    LET b == r[1] IN
    /\ request[r].at = "sent" /\ ~request[r].retried /\ mirror[b] # 0 /\ Len(calls) < MaxCalls
    /\ request' = [request EXCEPT ![r].at = "waiting", ![r].existing = mirror[b]]
    /\ calls' = Append(calls, NewCall("refresh", b, mirror[b]))
    /\ refreshing' = [refreshing EXCEPT ![b] = Len(calls) + 1]
    /\ UNCHANGED <<tokens, stored, mirror, stale>>

\* A first 401 waits for the tab's refresh, which it starts if there is none.
Unauthorized(r) ==
    LET b == r[1] IN
    /\ request[r].at = "sent"
    /\ IF request[r].retried \/ mirror[b] = 0
       THEN /\ request' = [request EXCEPT ![r] = [Idle EXCEPT !.at = "interpreting"]]
            /\ UNCHANGED <<calls, refreshing>>
       ELSE /\ request' = [request EXCEPT ![r].at = "waiting", ![r].existing = mirror[b]]
            /\ IF refreshing[b] # 0
               THEN UNCHANGED <<calls, refreshing>>
               ELSE /\ Len(calls) < MaxCalls
                    /\ calls' = Append(calls, NewCall("refresh", b, mirror[b]))
                    /\ refreshing' = [refreshing EXCEPT ![b] = Len(calls) + 1]
    /\ UNCHANGED <<tokens, stored, mirror, stale>>

\* interpret, once the body is read: this 401 ends the session.
Interpret(r) ==
    /\ request[r].at = "interpreting"
    /\ EndSession(r[1])
    /\ request' = [request EXCEPT ![r] = Idle]
    /\ UNCHANGED <<tokens, calls, refreshing>>

-----------------------------------------------------------------------------
(* The refresh of a tab settles, and all who wait for it go on.            *)

Waiting(b) == {r \in {b} \X Slots : request[r].at = "waiting"}

\* The waiting requests for which the store has not changed.
Unchanged(b) == {r \in Waiting(b) : request[r].existing = mirror[b]}

\* Those for which it has send their request again, with what is there now.
Resumed(b, t, rest) ==
    [r \in Tabs \X Slots |-> IF r \in Waiting(b) \ DOMAIN rest THEN Sent(t, TRUE)
                             ELSE IF r \in DOMAIN rest THEN rest[r] ELSE request[r]]

\* Mutant of Granted: the pair is written whatever the store holds.
GrantedAnyway(b, new) ==
    /\ Store(b, new)
    /\ request' = Resumed(b, new, [r \in {} |-> Idle])

\* The new pair replaces the one the refresh set out with.
Granted(b, new) ==
    /\ mirror[b] = calls[refreshing[b]].token
    /\ Store(b, new)
    /\ request' = Resumed(b, new, [r \in {} |-> Idle])

\* The first to find the store unchanged ends the session and reports its 401;
\* the next ones find it empty.
Refused(b) ==
    IF Unchanged(b) = {}
    THEN request' = Resumed(b, mirror[b], [r \in {} |-> Idle])
         /\ UNCHANGED <<stored, mirror, stale>>
    ELSE /\ EndSession(b)
         /\ \E first \in Unchanged(b) :
               request' = Resumed(b, mirror[b],
                   [r \in Unchanged(b) |-> IF r = first
                                           THEN [Idle EXCEPT !.at = "interpreting"]
                                           ELSE Idle])

\* Nobody judged the token: the session stays, the requests fail.
Unavailable(b) ==
    /\ request' = Resumed(b, mirror[b], [r \in Unchanged(b) |-> Idle])
    /\ UNCHANGED <<stored, mirror, stale>>

\* The successor a granted call was given.
Successor(c) == CHOOSE n \in TokenIds :
    /\ n > calls[c].token /\ tokens[n].family = tokens[calls[c].token].family
    /\ \A m \in (calls[c].token + 1)..(n - 1) : tokens[m].family # tokens[n].family

Settle(b) ==
    LET c == refreshing[b] IN
    /\ c # 0
    /\ \/ calls[c].at = "granted" /\ Granted(b, Successor(c))
       \/ calls[c].at = "granted" /\ mirror[b] # calls[c].token /\ Refused(b)
       \/ calls[c].at = "refused" /\ Refused(b)
       \/ calls[c].at = "failed" /\ Unavailable(b)
    /\ refreshing' = [refreshing EXCEPT ![b] = 0]
    /\ UNCHANGED <<tokens, calls>>

\* The tab's timeout ends the wait; the API may go on with the call.
TimeOut(b) ==
    /\ refreshing[b] # 0
    /\ Unavailable(b)
    /\ calls' = [calls EXCEPT ![refreshing[b]].lost = TRUE]
    /\ refreshing' = [refreshing EXCEPT ![b] = 0]
    /\ UNCHANGED tokens

-----------------------------------------------------------------------------
(* The user.                                                               *)

SignIn(b) ==
    /\ mirror[b] = 0 /\ Len(tokens) < MaxTokens
    /\ tokens' = Append(tokens, NewToken(Len(tokens) + 1))
    /\ Store(b, Len(tokens) + 1)
    /\ UNCHANGED <<calls, refreshing, request>>

\* The tab forgets the session first, then tells the API.
SignOut(b) ==
    /\ mirror[b] # 0 /\ Len(calls) < MaxCalls
    /\ EndSession(b)
    /\ calls' = Append(calls, NewCall("logout", b, mirror[b]))
    /\ UNCHANGED <<tokens, refreshing, request>>

Reload(b) ==
    /\ mirror' = [mirror EXCEPT ![b] = stored]
    /\ stale' = stale \ {b}
    /\ request' = [r \in Tabs \X Slots |-> IF r[1] = b THEN Idle ELSE request[r]]
    /\ calls' = [c \in DOMAIN calls |-> IF c = refreshing[b]
                                        THEN [calls[c] EXCEPT !.lost = TRUE] ELSE calls[c]]
    /\ refreshing' = [refreshing EXCEPT ![b] = 0]
    /\ UNCHANGED <<tokens, stored>>

Next ==
    \/ \E c \in DOMAIN calls :
          ReadRow(c) \/ RevokeReused(c) \/ Claim(c) \/ CallFails(c) \/ Logout(c)
    \/ RevokeAll
    \/ \E r \in Tabs \X Slots : Send(r) \/ Respond(r) \/ Unauthorized(r) \/ Interpret(r)
    \/ \E b \in Tabs :
          StorageEvent(b) \/ Settle(b) \/ TimeOut(b) \/ SignIn(b) \/ SignOut(b) \/ Reload(b)

Spec == Init /\ [][Next]_vars

-----------------------------------------------------------------------------
(* Properties.                                                             *)

Live(t) == ~tokens[t].used /\ ~tokens[t].revoked

\* A session has one live token, whatever calls rotate it at the same time.
OneLiveToken ==
    \A t, u \in TokenIds :
        Live(t) /\ Live(u) /\ tokens[t].family = tokens[u].family => t = u

\* The API takes a refresh for a reuse, and ends the session, only if two tabs
\* presented the same token, or a tab presented again a token whose refresh it
\* had given up on.  A tab alone, with any number of 401s, early or late, never
\* does it to itself.
ReuseHasCause ==
    \A c \in DOMAIN calls : IsRefresh(c, "reuse") =>
        \E d \in DOMAIN calls :
            /\ d # c /\ calls[d].kind = "refresh" /\ calls[d].token = calls[c].token
            /\ calls[d].tab # calls[c].tab \/ calls[d].lost \/ calls[c].lost

\* A sign-out is final: a refresh that was under way does not bring the session
\* back, unless it is of a tab the sign-out has not reached yet.
SignOutIsFinal ==
    [][stored = 0 /\ stored' # 0 =>
         \/ tokens' # tokens
         \/ \E b \in stale : mirror[b] # 0 /\ mirror'[b] = stored']_vars

=============================================================================
