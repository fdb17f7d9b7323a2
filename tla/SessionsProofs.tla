---------------------------- MODULE SessionsProofs ----------------------------
(***************************************************************************)
(* Proofs about Sessions for any number of tabs, requests, tokens and calls. *)
(* One live token per session follows from the rotation alone.  That no tab  *)
(* makes the API see a reuse by itself needs the browser as well: a token,   *)
(* once it has left localStorage, never comes back to it, whatever answers   *)
(* arrive late, because the successor of a token is stored by one tab, once. *)
(***************************************************************************)
EXTENDS Sessions, SequenceTheorems, TLAPS

\* A step that names no prover is given a minute of each.
USE SMTT(60), ZenonT(60)

-----------------------------------------------------------------------------
(* What the steps do to the rows and the calls.                            *)

Stages == {"sent", "passed", "reuse", "granted", "refused", "failed", "done"}

\* The token rows are the same, but for their revocation.
SameRows ==
    /\ tokens' \in Seq(Token) /\ Len(tokens') = Len(tokens)
    /\ \A t \in TokenIds : tokens'[t].family = tokens[t].family /\ tokens'[t].used = tokens[t].used

\* The calls are the same, but for their stage and whether they are waited for.
SameCalls ==
    /\ calls' \in Seq(Call) /\ Len(calls') = Len(calls) /\ DOMAIN calls' = DOMAIN calls
    /\ \A c \in DOMAIN calls :
          /\ calls'[c].kind = calls[c].kind /\ calls'[c].tab = calls[c].tab
          /\ calls'[c].token = calls[c].token

SameStage(c) == calls'[c].at = calls[c].at

SameWait(c) == calls'[c].lost = calls[c].lost

LEMMA CallTypes ==
  ASSUME TypeOK
  PROVE  /\ DOMAIN calls = 1..Len(calls) /\ Len(calls) \in Nat
         /\ \A c \in DOMAIN calls : calls[c] \in Call
         /\ Len(tokens) \in Nat
         /\ \A t \in TokenIds : tokens[t] \in Token
<1>1. calls \in Seq(Call) /\ tokens \in Seq(Token)
  BY DEF TypeOK
<1>2. DOMAIN calls = 1..Len(calls) /\ Len(calls) \in Nat /\ Len(tokens) \in Nat
  BY <1>1, LenProperties
<1>3. \A c \in DOMAIN calls : calls[c] \in Call
  BY <1>1, <1>2, ElementOfSeq
<1>4. \A t \in TokenIds : tokens[t] \in Token
  BY <1>1, ElementOfSeq DEF TokenIds
<1> QED  BY <1>2, <1>3, <1>4

\* A call is answered.
LEMMA Answered ==
  ASSUME TypeOK, NEW c \in DOMAIN calls, NEW at \in Stages, calls' = Answer(c, at)
  PROVE  /\ SameCalls /\ calls'[c].at = at
         /\ \A d \in DOMAIN calls : SameWait(d) /\ (d # c => SameStage(d))
<1> DEFINE new == [calls[c] EXCEPT !.at = at]
<1>1. calls \in Seq(Call) /\ c \in 1..Len(calls) /\ calls[c] \in Call
  BY CallTypes DEF TypeOK
<1>2. /\ new \in Call /\ new.at = at /\ new.kind = calls[c].kind /\ new.tab = calls[c].tab
      /\ new.token = calls[c].token /\ new.lost = calls[c].lost
  BY <1>1 DEF Call, Stages
<1>3. calls' = [calls EXCEPT ![c] = new]
  BY DEF Answer
<1> HIDE DEF new
<1>4. /\ calls' \in Seq(Call) /\ Len(calls') = Len(calls)
      /\ \A d \in 1..Len(calls) : calls'[d] = IF d = c THEN new ELSE calls[d]
  BY <1>1, <1>2, <1>3, ExceptSeq
<1>5. DOMAIN calls' = 1..Len(calls) /\ DOMAIN calls = 1..Len(calls)
  BY <1>1, <1>4, LenProperties
<1> QED  BY <1>2, <1>4, <1>5 DEF SameCalls, SameWait, SameStage

\* A call is not waited for any longer.
GiveUp(c) == [calls EXCEPT ![c].lost = TRUE]

LEMMA GivenUp ==
  ASSUME TypeOK, NEW c \in DOMAIN calls, calls' = GiveUp(c)
  PROVE  /\ SameCalls /\ calls'[c].lost
         /\ \A d \in DOMAIN calls : SameStage(d) /\ (d # c => SameWait(d))
<1> DEFINE new == [calls[c] EXCEPT !.lost = TRUE]
<1>1. calls \in Seq(Call) /\ c \in 1..Len(calls) /\ calls[c] \in Call
  BY CallTypes DEF TypeOK
<1>2. /\ new \in Call /\ new.at = calls[c].at /\ new.kind = calls[c].kind
      /\ new.tab = calls[c].tab /\ new.token = calls[c].token /\ new.lost
  BY <1>1 DEF Call
<1>3. calls' = [calls EXCEPT ![c] = new]
  BY DEF GiveUp
<1> HIDE DEF new
<1>4. /\ calls' \in Seq(Call) /\ Len(calls') = Len(calls)
      /\ \A d \in 1..Len(calls) : calls'[d] = IF d = c THEN new ELSE calls[d]
  BY <1>1, <1>2, <1>3, ExceptSeq
<1>5. DOMAIN calls' = 1..Len(calls) /\ DOMAIN calls = 1..Len(calls)
  BY <1>1, <1>4, LenProperties
<1> QED  BY <1>2, <1>4, <1>5 DEF SameCalls, SameWait, SameStage

\* A call is sent.
LEMMA NewCallSent ==
  ASSUME TypeOK, NEW b \in Tabs, NEW t \in 1..MaxTokens, NEW kind \in {"refresh", "logout"},
         Len(calls) < MaxCalls, calls' = Append(calls, NewCall(kind, b, t))
  PROVE  /\ calls' \in Seq(Call) /\ Len(calls') = Len(calls) + 1 /\ Len(calls') <= MaxCalls
         /\ DOMAIN calls' = 1..(Len(calls) + 1)
         /\ \A c \in DOMAIN calls : calls'[c] = calls[c]
         /\ calls'[Len(calls) + 1] = NewCall(kind, b, t)
<1>1. NewCall(kind, b, t) \in Call
  <2> DEFINE new == [kind |-> kind, tab |-> b, token |-> t, at |-> "sent", lost |-> FALSE]
  <2>1. kind \in {"refresh", "logout"} /\ "sent" \in Stages /\ FALSE \in BOOLEAN
    BY DEF Stages
  <2>2. new \in [kind : {"refresh", "logout"}, tab : Tabs, token : 1..MaxTokens,
                 at : Stages, lost : BOOLEAN]
    BY <2>1, ZenonT(60)
  <2> QED  BY <2>2 DEF NewCall, Call, Stages
<1>2. /\ calls \in Seq(Call) /\ DOMAIN calls = 1..Len(calls) /\ Len(calls) \in Nat
  BY CallTypes DEF TypeOK
<1>3. /\ calls' \in Seq(Call) /\ Len(calls') = Len(calls) + 1
      /\ \A c \in 1..Len(calls) : calls'[c] = calls[c]
      /\ calls'[Len(calls) + 1] = NewCall(kind, b, t)
  BY <1>1, <1>2, AppendProperties
<1>4. DOMAIN calls' = 1..Len(calls')
  BY <1>3, LenProperties
<1> QED  BY <1>2, <1>3, <1>4, SessionsAssumption

\* Rows are revoked.
LEMMA RowsRevoked ==
  ASSUME TypeOK, NEW S \in SUBSET TokenIds,
         tokens' = [t \in TokenIds |-> IF t \in S THEN [tokens[t] EXCEPT !.revoked = TRUE]
                                       ELSE tokens[t]]
  PROVE  SameRows
<1>1. /\ Len(tokens) \in Nat /\ \A t \in TokenIds : tokens[t] \in Token
  BY CallTypes
<1>2. ASSUME NEW t \in TokenIds
      PROVE  /\ tokens'[t] \in Token
             /\ tokens'[t].family = tokens[t].family /\ tokens'[t].used = tokens[t].used
  BY <1>1 DEF Token
<1>3. tokens' \in [1..Len(tokens) -> Token]
  BY <1>2 DEF TokenIds
<1>4. tokens' \in Seq(Token) /\ Len(tokens') = Len(tokens)
  BY <1>1, <1>3, SeqDef
<1> QED  BY <1>2, <1>4, ZenonT(60) DEF SameRows

\* A row is added, after one of them has been marked used or not.
LEMMA RowAdded ==
  ASSUME TypeOK, Len(tokens) < MaxTokens, NEW family \in 1..MaxTokens,
         NEW rows \in Seq(Token), Len(rows) = Len(tokens),
         tokens' = Append(rows, NewToken(family))
  PROVE  /\ tokens' \in Seq(Token) /\ Len(tokens') = Len(tokens) + 1
         /\ Len(tokens') <= MaxTokens
         /\ \A t \in TokenIds : tokens'[t] = rows[t]
         /\ tokens'[Len(tokens) + 1] = NewToken(family)
<1>1. NewToken(family) \in Token
  BY DEF NewToken, Token
<1>2. Len(tokens) \in Nat
  BY CallTypes
<1> QED  BY <1>1, <1>2, AppendProperties, SessionsAssumption DEF TokenIds

-----------------------------------------------------------------------------
(* Type correctness.                                                       *)

\* TypeOK on the browser, the server's rows and the calls apart.
ClientOK ==
    /\ stored \in 0..MaxTokens
    /\ mirror \in [Tabs -> 0..MaxTokens]
    /\ stale \in SUBSET Tabs
    /\ refreshing \in [Tabs -> 0..MaxCalls]
    /\ request \in [Tabs \X Slots -> Request]

ServerOK ==
    /\ tokens \in Seq(Token) /\ Len(tokens) <= MaxTokens
    /\ calls \in Seq(Call) /\ Len(calls) <= MaxCalls

LEMMA TypeSplit == TypeOK <=> ServerOK /\ ClientOK
BY DEF TypeOK, ServerOK, ClientOK

LEMMA RequestTypes ==
  ASSUME TypeOK, NEW b \in Tabs, NEW t \in 0..MaxTokens, NEW rest,
         \A r \in DOMAIN rest : rest[r] \in Request
  PROVE  /\ Idle \in Request /\ [Idle EXCEPT !.at = "interpreting"] \in Request
         /\ Sent(t, TRUE) \in Request /\ Sent(t, FALSE) \in Request
         /\ Resumed(b, t, rest) \in [Tabs \X Slots -> Request]
<1>1. /\ Idle \in Request /\ [Idle EXCEPT !.at = "interpreting"] \in Request
      /\ Sent(t, TRUE) \in Request /\ Sent(t, FALSE) \in Request
  <2>1. 0 \in 0..MaxTokens /\ TRUE \in BOOLEAN /\ FALSE \in BOOLEAN
    BY SessionsAssumption
  <2>2. Idle \in Request
    BY <2>1 DEF Idle, Request
  <2>3. [Idle EXCEPT !.at = "interpreting"] \in Request
    BY <2>1 DEF Idle, Request
  <2>4. ASSUME NEW retried \in BOOLEAN
        PROVE  [at |-> "sent", retried |-> retried, existing |-> 0] \in Request
    BY <2>1, <2>4 DEF Request
  <2> QED  BY <2>1, <2>2, <2>3, <2>4 DEF Sent
<1>2. \A r \in Tabs \X Slots : request[r] \in Request
  BY DEF TypeOK
<1>3. \A r \in Tabs \X Slots :
         (IF r \in Waiting(b) \ DOMAIN rest THEN Sent(t, TRUE)
          ELSE IF r \in DOMAIN rest THEN rest[r] ELSE request[r]) \in Request
  BY <1>1, <1>2
<1> QED  BY <1>1, <1>3 DEF Resumed

\* What a tab does to the store.
LEMMA StoreTypes ==
  ASSUME TypeOK, NEW b \in Tabs, NEW t \in 0..MaxTokens, Store(b, t)
  PROVE  /\ stored' = t /\ stored' \in 0..MaxTokens
         /\ mirror' \in [Tabs -> 0..MaxTokens] /\ stale' \in SUBSET Tabs
         /\ mirror'[b] = t /\ \A a \in Tabs \ {b} : mirror'[a] = mirror[a] /\ a \in stale'
BY DEF TypeOK, Store

LEMMA EndSessionTypes ==
  ASSUME TypeOK, NEW b \in Tabs, EndSession(b)
  PROVE  /\ stored' \in 0..MaxTokens
         /\ mirror' \in [Tabs -> 0..MaxTokens] /\ stale' \in SUBSET Tabs
<1>1. CASE mirror[b] = 0
  BY <1>1 DEF EndSession, TypeOK
<1>2. CASE mirror[b] # 0
  BY <1>2, StoreTypes, SessionsAssumption DEF EndSession
<1> QED  BY <1>1, <1>2

-----------------------------------------------------------------------------
(* The inductive invariant.                                                *)

\* n was issued when t was used.
IsNext(t, n) ==
    /\ n \in TokenIds /\ n > t
    /\ tokens[n].family = tokens[t].family
    /\ \A m \in (t + 1)..(n - 1) : tokens[m].family # tokens[n].family

\* Only the last row of a family is not used, and a call used every other.
RotationOK ==
    /\ \A t \in TokenIds : tokens[t].family <= t
    /\ \A t, u \in TokenIds : t < u /\ tokens[t].family = tokens[u].family => tokens[t].used
    /\ \A t \in TokenIds : tokens[t].used =>
          \E c \in DOMAIN calls : IsRefresh(c, "granted") /\ calls[c].token = t

\* A token is used by one call, which is given its successor.
GrantsOK ==
    /\ \A c \in DOMAIN calls : calls[c].token \in TokenIds
    /\ \A c \in DOMAIN calls : IsRefresh(c, "granted") =>
          tokens[calls[c].token].used /\ \E n \in TokenIds : IsNext(calls[c].token, n)
    /\ \A c, d \in DOMAIN calls :
          /\ IsRefresh(c, "granted") /\ IsRefresh(d, "granted")
          /\ calls[c].token = calls[d].token
          => c = d

\* A tab that differs from localStorage has an event to come, and waits for a
\* refresh of its own.
TabsOK ==
    /\ stored \in TokenIds \cup {0}
    /\ \A b \in Tabs : mirror[b] \in TokenIds \cup {0}
    /\ \A b \in Tabs : b \in stale \/ mirror[b] = stored
    /\ \A b \in Tabs : refreshing[b] # 0 =>
          /\ refreshing[b] \in DOMAIN calls
          /\ calls[refreshing[b]].kind = "refresh" /\ calls[refreshing[b]].tab = b
          /\ ~calls[refreshing[b]].lost

\* The tab of call c waits for it.
Awaited(c) == refreshing[calls[c].tab] = c

\* n is in an answer on its way to the tab that waits for it.
ComingUp(n) ==
    \E b \in Tabs : /\ refreshing[b] # 0 /\ IsRefresh(refreshing[b], "granted")
                    /\ IsNext(calls[refreshing[b]].token, n)

\* No tab has seen n.
Unknown(n) ==
    /\ stored # n /\ \A b \in Tabs : mirror[b] # n
    /\ \A c \in DOMAIN calls : calls[c].token # n

HandoverOK == \A n \in TokenIds : ComingUp(n) => Unknown(n)

\* The tab has dealt with the answer to its refresh.
Over(c) == calls[c].kind = "refresh" /\ ~calls[c].lost /\ ~Awaited(c)

\* A tab deals with the answer to its refresh once there is one.
Answers == {"granted", "refused", "failed"}

AnsweredWhenOver(c) == Over(c) => calls[c].at \in Answers

\* A token whose refresh has been dealt with is neither in localStorage nor with
\* the tab that refreshed it.
SpentWhenOver(c) ==
    Over(c) /\ calls[c].at = "granted" =>
        /\ stored # calls[c].token /\ mirror[calls[c].tab] # calls[c].token
        /\ refreshing[calls[c].tab] # 0 =>
              calls[refreshing[calls[c].tab]].token # calls[c].token

\* What a tab has lost while it waits for the successor it will not find again.
LostForGood(c) ==
    calls[c].kind = "refresh" /\ Awaited(c) /\ mirror[calls[c].tab] # calls[c].token
        => stored # calls[c].token

SpentOK ==
    \A c \in DOMAIN calls : AnsweredWhenOver(c) /\ SpentWhenOver(c) /\ LostForGood(c)

Inv ==
    TypeOK /\ RotationOK /\ GrantsOK /\ TabsOK /\ HandoverOK /\ SpentOK /\ ReuseHasCause

-----------------------------------------------------------------------------
(* The kinds of step, and that each keeps the types.                       *)

Stays == UNCHANGED <<stored, mirror, stale>>

\* Only requests change.
QuietStep == UNCHANGED <<tokens, calls, refreshing>> /\ Stays

\* The API answers, or takes a stage towards the answer, and issues nothing.
AnswerStep ==
    /\ SameRows /\ SameCalls /\ UNCHANGED client
    /\ \A c \in DOMAIN calls :
          /\ SameWait(c)
          /\ \/ SameStage(c)
             \/ /\ calls[c].at \in {"sent", "passed", "reuse"} /\ calls'[c].at # "granted"
                /\ calls'[c].at = "reuse" => calls[c].at = "sent" /\ tokens[calls[c].token].used

\* Row t is used and its successor added.
RowsRotate(t) ==
    /\ Len(tokens') = Len(tokens) + 1
    /\ \A u \in TokenIds : tokens'[u].family = tokens[u].family
    /\ \A u \in TokenIds : tokens'[u].used <=> tokens[u].used \/ u = t
    /\ tokens'[Len(tokens) + 1] = NewToken(tokens[t].family)

\* The API grants refresh c.
RotateStep(c) ==
    /\ IsRefresh(c, "passed") /\ ~tokens[calls[c].token].used
    /\ UNCHANGED client
    /\ SameCalls /\ calls'[c].at = "granted"
    /\ \A d \in DOMAIN calls : SameWait(d) /\ (d # c => SameStage(d))
    /\ RowsRotate(calls[c].token)

\* Tab b starts a refresh.
StartStep(b) ==
    /\ mirror[b] # 0 /\ refreshing[b] = 0
    /\ DOMAIN calls = 1..Len(calls) /\ Len(calls) \in Nat
    /\ DOMAIN calls' = 1..(Len(calls) + 1)
    /\ \A c \in DOMAIN calls : calls'[c] = calls[c]
    /\ calls'[Len(calls) + 1] = NewCall("refresh", b, mirror[b])
    /\ refreshing' = [refreshing EXCEPT ![b] = Len(calls) + 1]
    /\ tokens' = tokens /\ Stays

\* Tab b forgets the session, and may tell the API of it.
ForgetStep(b) ==
    /\ tokens' = tokens /\ refreshing' = refreshing
    /\ Stays \/ Store(b, 0)
    /\ \/ calls' = calls
       \/ /\ mirror[b] # 0
          /\ DOMAIN calls = 1..Len(calls) /\ Len(calls) \in Nat
          /\ DOMAIN calls' = 1..(Len(calls) + 1)
          /\ \A c \in DOMAIN calls : calls'[c] = calls[c]
          /\ calls'[Len(calls) + 1] = NewCall("logout", b, mirror[b])

\* Tab b deals with the answer to its refresh: it stores the successor, or not.
SettleStep(b) ==
    /\ refreshing[b] # 0 /\ refreshing' = [refreshing EXCEPT ![b] = 0]
    /\ UNCHANGED <<tokens, calls>>
    /\ calls[refreshing[b]].at \in {"granted", "refused", "failed"}
    /\ \/ /\ calls[refreshing[b]].at = "granted" => mirror[b] # calls[refreshing[b]].token
          /\ Stays \/ Store(b, 0)
       \/ /\ calls[refreshing[b]].at = "granted" /\ mirror[b] = calls[refreshing[b]].token
          /\ \E n \in TokenIds : IsNext(calls[refreshing[b]].token, n) /\ Store(b, n)

\* Tab b hears of the token in localStorage, and may give up its refresh.
CatchUpStep(b) ==
    /\ tokens' = tokens /\ stored' = stored
    /\ \/ mirror' = mirror /\ stale' = stale
       \/ mirror' = [mirror EXCEPT ![b] = stored] /\ stale' = stale \ {b}
    /\ \/ calls' = calls /\ refreshing' = refreshing
       \/ /\ refreshing[b] # 0 /\ refreshing' = [refreshing EXCEPT ![b] = 0]
          /\ calls' = GiveUp(refreshing[b])

\* The user signs in on tab b.
SignInStep(b) ==
    /\ UNCHANGED <<calls, refreshing>>
    /\ Len(tokens') = Len(tokens) + 1
    /\ \A t \in TokenIds : tokens'[t] = tokens[t]
    /\ tokens'[Len(tokens) + 1] = NewToken(Len(tokens) + 1)
    /\ Store(b, Len(tokens) + 1)

\* What the steps need of the invariant to keep the types.
Ground == TypeOK /\ GrantsOK /\ TabsOK

\* refresh reads, revokes or refuses, a call fails, a logout, a revocation.
LEMMA Answering ==
  ASSUME Ground, NEW c \in DOMAIN calls,
         ReadRow(c) \/ RevokeReused(c) \/ CallFails(c) \/ Logout(c)
           \/ (Claim(c) /\ tokens[calls[c].token].used)
  PROVE  TypeOK' /\ AnswerStep
<1>1. TypeOK /\ calls[c] \in Call /\ calls[c].token \in TokenIds
  BY CallTypes DEF Ground, GrantsOK
<1>2. /\ UNCHANGED client
      /\ \E at \in Stages :
            /\ calls' = Answer(c, at) /\ calls[c].at \in {"sent", "passed", "reuse"}
            /\ at # "granted"
            /\ at = "reuse" => calls[c].at = "sent" /\ tokens[calls[c].token].used
  <2>1. CASE ReadRow(c)
    BY <2>1 DEF ReadRow, IsRefresh, Stages
  <2>2. CASE RevokeReused(c)
    BY <2>2 DEF RevokeReused, IsRefresh, Stages
  <2>3. CASE CallFails(c)
    BY <2>3 DEF CallFails, Stages
  <2>4. CASE Logout(c)
    BY <2>4 DEF Logout, Stages
  <2>5. CASE Claim(c) /\ tokens[calls[c].token].used
    BY <2>5 DEF Claim, IsRefresh, Stages
  <2> QED  BY <2>1, <2>2, <2>3, <2>4, <2>5
<1>3. SameRows
  <2>1. CASE tokens' = tokens
    BY <1>1, <2>1, CallTypes DEF SameRows, TypeOK
  <2>2. CASE tokens' = RevokedFamily(tokens[calls[c].token].family)
    <3> DEFINE S == {t \in TokenIds : tokens[t].family = tokens[calls[c].token].family}
    <3>1. tokens' = [t \in TokenIds |-> IF t \in S THEN [tokens[t] EXCEPT !.revoked = TRUE]
                                        ELSE tokens[t]]
      BY <2>2 DEF RevokedFamily
    <3>2. S \in SUBSET TokenIds
      OBVIOUS
    <3> HIDE DEF S
    <3> QED  BY <1>1, <3>1, <3>2, RowsRevoked
  <2> QED  BY <2>1, <2>2 DEF ReadRow, RevokeReused, CallFails, Logout, Claim
<1>4. PICK at \in Stages :
            /\ calls' = Answer(c, at) /\ calls[c].at \in {"sent", "passed", "reuse"}
            /\ at # "granted"
            /\ at = "reuse" => calls[c].at = "sent" /\ tokens[calls[c].token].used
  BY <1>2
<1>5. /\ SameCalls /\ calls'[c].at = at
      /\ \A d \in DOMAIN calls : SameWait(d) /\ (d # c => SameStage(d))
  BY <1>1, <1>4, Answered
<1>6. AnswerStep
  BY <1>2, <1>3, <1>4, <1>5 DEF AnswerStep
<1>7. TypeOK'
  BY <1>1, <1>2, <1>3, <1>5 DEF TypeOK, SameRows, SameCalls, client
<1> QED  BY <1>6, <1>7

LEMMA Revoking ==
  ASSUME Ground, RevokeAll
  PROVE  TypeOK' /\ AnswerStep
<1>1. TypeOK
  BY DEF Ground
<1>2. tokens' = [t \in TokenIds |-> IF t \in TokenIds THEN [tokens[t] EXCEPT !.revoked = TRUE]
                                    ELSE tokens[t]]
  BY DEF RevokeAll
<1>3. SameRows
  BY <1>1, <1>2, RowsRevoked
<1>4. SameCalls /\ \A c \in DOMAIN calls : SameWait(c) /\ SameStage(c)
  BY <1>1 DEF RevokeAll, SameCalls, SameWait, SameStage, TypeOK
<1> QED  BY <1>1, <1>3, <1>4, ZenonT(60) DEF RevokeAll, AnswerStep, TypeOK, SameRows, client

LEMMA Rotating ==
  ASSUME Ground, NEW c \in DOMAIN calls, Claim(c), ~tokens[calls[c].token].used
  PROVE  TypeOK' /\ RotateStep(c)
<1> DEFINE t == calls[c].token
           row == [tokens[t] EXCEPT !.used = TRUE]
           rows == [tokens EXCEPT ![t] = row]
<1>1. TypeOK /\ calls[c] \in Call /\ t \in TokenIds /\ tokens \in Seq(Token)
      /\ Len(tokens) \in Nat /\ \A u \in TokenIds : tokens[u] \in Token
  BY CallTypes DEF Ground, GrantsOK, TypeOK
<1>2. /\ Len(tokens) < MaxTokens
      /\ tokens' = Append([tokens EXCEPT ![t].used = TRUE], NewToken(tokens[t].family))
      /\ calls' = Answer(c, "granted") /\ UNCHANGED client /\ IsRefresh(c, "passed")
  BY DEF Claim
<1>3. row \in Token /\ row.used /\ row.family = tokens[t].family
  BY <1>1 DEF Token
<1>4. [tokens EXCEPT ![t].used = TRUE] = rows /\ tokens[t].family \in 1..MaxTokens
  BY <1>1 DEF Token
<1> HIDE DEF row
<1>5. /\ rows \in Seq(Token) /\ Len(rows) = Len(tokens)
      /\ \A u \in TokenIds : rows[u] = IF u = t THEN row ELSE tokens[u]
  BY <1>1, <1>3, ExceptSeq DEF TokenIds
<1> HIDE DEF rows
<1>6. /\ tokens' \in Seq(Token) /\ Len(tokens') = Len(tokens) + 1 /\ Len(tokens') <= MaxTokens
      /\ \A u \in TokenIds : tokens'[u] = rows[u]
      /\ tokens'[Len(tokens) + 1] = NewToken(tokens[t].family)
  BY <1>1, <1>2, <1>4, <1>5, RowAdded
<1>7. /\ SameCalls /\ calls'[c].at = "granted"
      /\ \A d \in DOMAIN calls : SameWait(d) /\ (d # c => SameStage(d))
  BY <1>1, <1>2, Answered DEF Stages
<1>8. RowsRotate(t)
  <2>1. ASSUME NEW u \in TokenIds, u = t
        PROVE  tokens'[u].family = tokens[u].family /\ tokens'[u].used
    BY <1>3, <1>5, <1>6, <2>1
  <2>2. ASSUME NEW u \in TokenIds, u # t
        PROVE  tokens'[u] = tokens[u]
    BY <1>5, <1>6, <2>2
  <2> HIDE DEF t
  <2>3. \A u \in TokenIds : tokens'[u].used <=> tokens[u].used \/ u = t
    BY <2>1, <2>2, ZenonT(60)
  <2>4. \A u \in TokenIds : tokens'[u].family = tokens[u].family
    BY <2>1, <2>2
  <2> QED  BY <1>6, <2>3, <2>4, ZenonT(60) DEF RowsRotate
<1>9. RotateStep(c)
  BY <1>2, <1>7, <1>8 DEF RotateStep
<1>10. TypeOK'
  BY <1>1, <1>2, <1>6, <1>7 DEF TypeOK, SameCalls, client
<1> QED  BY <1>9, <1>10

\* The 401 of request r starts a refresh.
Starts(r) == ~request[r].retried /\ mirror[r[1]] # 0 /\ refreshing[r[1]] = 0

\* A request is sent, answered, or waits for a refresh that is under way.
LEMMA Quiet ==
  ASSUME Ground, NEW r \in Tabs \X Slots,
         Send(r) \/ Respond(r) \/ (Unauthorized(r) /\ ~Starts(r))
  PROVE  TypeOK' /\ QuietStep
<1>1. TypeOK /\ r[1] \in Tabs /\ request[r] \in Request /\ mirror[r[1]] \in 0..MaxTokens
  BY DEF Ground, TypeOK
<1>2. QuietStep
  BY DEF Send, Respond, Unauthorized, QuietStep, Stays, Starts
<1>3. /\ Idle \in Request /\ [Idle EXCEPT !.at = "interpreting"] \in Request
      /\ Sent(mirror[r[1]], FALSE) \in Request
  <2>1. \A x \in DOMAIN <<>> : <<>>[x] \in Request
    OBVIOUS
  <2> QED  BY <1>1, <2>1, RequestTypes
<1>4. [request[r] EXCEPT !.at = "waiting", !.existing = mirror[r[1]]] \in Request
  BY <1>1 DEF Request
<1>5. \E new \in Request : request' = [request EXCEPT ![r] = new]
  <2>1. CASE Send(r)
    BY <1>3, <2>1 DEF Send
  <2>2. CASE Respond(r)
    BY <1>3, <2>2 DEF Respond
  <2>3. CASE Unauthorized(r)
    <3>1. \/ request' = [request EXCEPT ![r] = [Idle EXCEPT !.at = "interpreting"]]
          \/ request' = [request EXCEPT ![r].at = "waiting", ![r].existing = mirror[r[1]]]
      BY <2>3, ZenonT(60) DEF Unauthorized
    <3>2. CASE request' = [request EXCEPT ![r] = [Idle EXCEPT !.at = "interpreting"]]
      BY <1>3, <3>2
    <3>3. CASE request' = [request EXCEPT ![r].at = "waiting", ![r].existing = mirror[r[1]]]
      BY <1>1, <1>4, <3>3 DEF TypeOK
    <3> QED  BY <3>1, <3>2, <3>3
  <2> QED  BY <2>1, <2>2, <2>3
<1>6. request' \in [Tabs \X Slots -> Request]
  BY <1>1, <1>5 DEF TypeOK
<1> QED  BY <1>1, <1>2, <1>6 DEF QuietStep, Stays, TypeOK

LEMMA Starting ==
  ASSUME Ground, NEW r \in Tabs \X Slots, Unauthorized(r), Starts(r)
  PROVE  TypeOK' /\ StartStep(r[1])
<1> DEFINE b == r[1]
<1>1. /\ TypeOK /\ b \in Tabs /\ request[r] \in Request /\ mirror[b] \in 0..MaxTokens
      /\ DOMAIN calls = 1..Len(calls) /\ Len(calls) \in Nat
  BY CallTypes DEF Ground, TypeOK
<1>2. /\ mirror[b] # 0 /\ refreshing[b] = 0 /\ Len(calls) < MaxCalls
      /\ request' = [request EXCEPT ![r].at = "waiting", ![r].existing = mirror[b]]
      /\ calls' = Append(calls, NewCall("refresh", b, mirror[b]))
      /\ refreshing' = [refreshing EXCEPT ![b] = Len(calls) + 1]
      /\ UNCHANGED <<tokens, stored, mirror, stale>>
  BY DEF Unauthorized, Starts
<1> HIDE DEF b
<1>3. mirror[b] \in 1..MaxTokens /\ "refresh" \in {"refresh", "logout"}
  BY <1>1, <1>2, SessionsAssumption
<1>4. /\ calls' \in Seq(Call) /\ Len(calls') = Len(calls) + 1 /\ Len(calls') <= MaxCalls
      /\ DOMAIN calls' = 1..(Len(calls) + 1)
      /\ \A c \in DOMAIN calls : calls'[c] = calls[c]
      /\ calls'[Len(calls) + 1] = NewCall("refresh", b, mirror[b])
  BY <1>1, <1>2, <1>3, NewCallSent
<1>5. [request[r] EXCEPT !.at = "waiting", !.existing = mirror[b]] \in Request
  BY <1>1 DEF Request
<1>6. request' \in [Tabs \X Slots -> Request]
  BY <1>1, <1>2, <1>5 DEF TypeOK
<1>7. refreshing' \in [Tabs -> 0..MaxCalls]
  BY <1>1, <1>2, SessionsAssumption DEF TypeOK
<1>8. StartStep(b)
  BY <1>1, <1>2, <1>4 DEF StartStep, Stays
<1>9. TypeOK'
  BY <1>1, <1>2, <1>4, <1>6, <1>7 DEF TypeOK
<1> QED  BY <1>8, <1>9 DEF b

LEMMA Forgetting ==
  ASSUME Ground, NEW r \in Tabs \X Slots, Interpret(r)
  PROVE  TypeOK' /\ ForgetStep(r[1])
<1>1. TypeOK /\ r[1] \in Tabs
  BY DEF Ground
<1>2. ForgetStep(r[1])
  BY DEF Interpret, EndSession, ForgetStep, Stays
<1>3. Idle \in Request
  BY SessionsAssumption DEF Idle, Request
<1>4. request' \in [Tabs \X Slots -> Request]
  BY <1>1, <1>3 DEF Interpret, TypeOK
<1>5. /\ stored' \in 0..MaxTokens
      /\ mirror' \in [Tabs -> 0..MaxTokens] /\ stale' \in SUBSET Tabs
  BY <1>1, EndSessionTypes DEF Interpret
<1> QED  BY <1>1, <1>2, <1>4, <1>5 DEF Interpret, TypeOK

LEMMA SigningOut ==
  ASSUME Ground, NEW b \in Tabs, SignOut(b)
  PROVE  TypeOK' /\ ForgetStep(b)
<1>1. /\ TypeOK /\ mirror[b] \in 0..MaxTokens
      /\ DOMAIN calls = 1..Len(calls) /\ Len(calls) \in Nat
  BY CallTypes DEF Ground, TypeOK
<1>2. /\ mirror[b] # 0 /\ Len(calls) < MaxCalls /\ EndSession(b)
      /\ calls' = Append(calls, NewCall("logout", b, mirror[b]))
      /\ UNCHANGED <<tokens, refreshing, request>>
  BY DEF SignOut
<1>3. mirror[b] \in 1..MaxTokens /\ "logout" \in {"refresh", "logout"}
  BY <1>1, <1>2, SessionsAssumption
<1>4. /\ calls' \in Seq(Call) /\ Len(calls') = Len(calls) + 1 /\ Len(calls') <= MaxCalls
      /\ DOMAIN calls' = 1..(Len(calls) + 1)
      /\ \A c \in DOMAIN calls : calls'[c] = calls[c]
      /\ calls'[Len(calls) + 1] = NewCall("logout", b, mirror[b])
  BY <1>1, <1>2, <1>3, NewCallSent
<1>5. /\ stored' \in 0..MaxTokens
      /\ mirror' \in [Tabs -> 0..MaxTokens] /\ stale' \in SUBSET Tabs
  BY <1>1, <1>2, EndSessionTypes
<1>6. ForgetStep(b)
  BY <1>1, <1>2, <1>4, ZenonT(60) DEF ForgetStep, Stays, EndSession
<1> QED  BY <1>1, <1>2, <1>4, <1>5, <1>6 DEF TypeOK

LEMMA CatchingUp ==
  ASSUME Ground, NEW b \in Tabs, StorageEvent(b) \/ TimeOut(b) \/ Reload(b)
  PROVE  TypeOK' /\ CatchUpStep(b)
<1>1. /\ TypeOK /\ stored \in 0..MaxTokens /\ mirror[b] \in 0..MaxTokens
      /\ refreshing[b] # 0 => refreshing[b] \in DOMAIN calls
      /\ DOMAIN calls = 1..Len(calls) /\ Len(calls) \in Nat
  BY CallTypes DEF Ground, TypeOK, TabsOK
<1>2. CASE StorageEvent(b)
  BY <1>1, <1>2 DEF StorageEvent, CatchUpStep, TypeOK
<1>3. CASE TimeOut(b)
  <2> DEFINE rest == [r \in Unchanged(b) |-> Idle]
  <2>1. /\ refreshing[b] # 0 /\ calls' = GiveUp(refreshing[b])
        /\ refreshing' = [refreshing EXCEPT ![b] = 0] /\ tokens' = tokens /\ Stays
        /\ request' = Resumed(b, mirror[b], rest)
    BY <1>3 DEF TimeOut, Unavailable, GiveUp, Stays
  <2>2. CatchUpStep(b)
    BY <2>1 DEF CatchUpStep, Stays
  <2>3. \A r \in DOMAIN rest : rest[r] \in Request
    BY SessionsAssumption DEF Idle, Request
  <2> HIDE DEF rest
  <2>4. request' \in [Tabs \X Slots -> Request]
    BY <1>1, <2>1, <2>3, RequestTypes
  <2>5. SameCalls
    BY <1>1, <2>1, GivenUp
  <2>6. refreshing' \in [Tabs -> 0..MaxCalls]
    BY <1>1, <2>1, SessionsAssumption DEF TypeOK
  <2> QED  BY <1>1, <2>1, <2>2, <2>4, <2>5, <2>6 DEF TypeOK, SameCalls, Stays
<1>4. CASE Reload(b)
  <2>1. /\ mirror' = [mirror EXCEPT ![b] = stored] /\ stale' = stale \ {b}
        /\ request' = [r \in Tabs \X Slots |-> IF r[1] = b THEN Idle ELSE request[r]]
        /\ refreshing' = [refreshing EXCEPT ![b] = 0]
        /\ UNCHANGED <<tokens, stored>>
    BY <1>4 DEF Reload
  <2>2. request' \in [Tabs \X Slots -> Request]
    <3>1. Idle \in Request
      BY SessionsAssumption DEF Idle, Request
    <3> QED  BY <1>1, <2>1, <3>1 DEF TypeOK
  <2>3. refreshing' \in [Tabs -> 0..MaxCalls]
    BY <1>1, <2>1, SessionsAssumption DEF TypeOK
  <2>4. CASE refreshing[b] = 0
    <3>1. calls' = calls
      BY <1>1, <1>4, <2>4 DEF Reload, TypeOK
    <3>2. refreshing' = refreshing
      BY <1>1, <2>1, <2>4 DEF TypeOK
    <3>3. CatchUpStep(b)
      BY <2>1, <3>1, <3>2 DEF CatchUpStep
    <3> QED  BY <1>1, <2>1, <2>2, <3>1, <3>2, <3>3 DEF TypeOK
  <2>5. CASE refreshing[b] # 0
    <3>1. calls' = GiveUp(refreshing[b])
      BY <1>1, <1>4, <2>5 DEF Reload, GiveUp, TypeOK
    <3>2. SameCalls
      BY <1>1, <2>5, <3>1, GivenUp
    <3>3. CatchUpStep(b)
      BY <2>1, <2>5, <3>1 DEF CatchUpStep
    <3> QED  BY <1>1, <2>1, <2>2, <2>3, <3>2, <3>3 DEF TypeOK, SameCalls
  <2> QED  BY <2>4, <2>5
<1> QED  BY <1>2, <1>3, <1>4

LEMMA SigningIn ==
  ASSUME Ground, NEW b \in Tabs, SignIn(b)
  PROVE  TypeOK' /\ SignInStep(b)
<1>1. TypeOK /\ tokens \in Seq(Token) /\ Len(tokens) \in Nat
  BY CallTypes DEF Ground, TypeOK
<1>2. /\ Len(tokens) < MaxTokens /\ Store(b, Len(tokens) + 1)
      /\ tokens' = Append(tokens, NewToken(Len(tokens) + 1))
      /\ UNCHANGED <<calls, refreshing, request>>
  BY DEF SignIn
<1>3. Len(tokens) + 1 \in 1..MaxTokens /\ Len(tokens) + 1 \in 0..MaxTokens
  BY <1>1, <1>2, SessionsAssumption
<1>4. /\ tokens' \in Seq(Token) /\ Len(tokens') = Len(tokens) + 1 /\ Len(tokens') <= MaxTokens
      /\ \A t \in TokenIds : tokens'[t] = tokens[t]
      /\ tokens'[Len(tokens) + 1] = NewToken(Len(tokens) + 1)
  BY <1>1, <1>2, <1>3, RowAdded
<1>5. /\ stored' \in 0..MaxTokens
      /\ mirror' \in [Tabs -> 0..MaxTokens] /\ stale' \in SUBSET Tabs
  BY <1>1, <1>2, <1>3, StoreTypes
<1>6. SignInStep(b)
  BY <1>2, <1>4 DEF SignInStep
<1> QED  BY <1>1, <1>2, <1>4, <1>5, <1>6 DEF TypeOK

\* A granted call has the token issued when its own was used.
LEMMA SuccessorIsNext ==
  ASSUME Ground, NEW c \in DOMAIN calls, IsRefresh(c, "granted")
  PROVE  Successor(c) \in TokenIds /\ IsNext(calls[c].token, Successor(c))
<1>1. \E n \in TokenIds :
         /\ n > calls[c].token /\ tokens[n].family = tokens[calls[c].token].family
         /\ \A m \in (calls[c].token + 1)..(n - 1) : tokens[m].family # tokens[n].family
  BY DEF Ground, GrantsOK, IsNext
<1> QED  BY <1>1 DEF Successor, IsNext

LEMMA Settling ==
  ASSUME Ground, NEW b \in Tabs, Settle(b)
  PROVE  TypeOK' /\ SettleStep(b)
<1> DEFINE c == refreshing[b]
           n == Successor(c)
<1>1. /\ TypeOK /\ c \in DOMAIN calls /\ calls[c].kind = "refresh" /\ c # 0
      /\ refreshing' = [refreshing EXCEPT ![b] = 0] /\ UNCHANGED <<tokens, calls>>
      /\ mirror[b] \in 0..MaxTokens /\ 0 \in 0..MaxTokens
  BY SessionsAssumption DEF Ground, TypeOK, TabsOK, Settle
<1>2. refreshing' \in [Tabs -> 0..MaxCalls]
  BY <1>1, SessionsAssumption DEF TypeOK
<1>3. Idle \in Request /\ [Idle EXCEPT !.at = "interpreting"] \in Request
  BY <1>1 DEF Idle, Request
<1>4. CASE calls[c].at = "granted" /\ Granted(b, n)
  <2>1. n \in TokenIds /\ IsNext(calls[c].token, n)
    BY <1>1, <1>4, SuccessorIsNext DEF IsRefresh
  <2> HIDE DEF n
  <2>2. n \in 0..MaxTokens
    BY <1>1, <2>1, SessionsAssumption, CallTypes DEF TypeOK, TokenIds
  <2>3. /\ mirror[b] = calls[c].token /\ Store(b, n)
        /\ request' = Resumed(b, n, [r \in {} |-> Idle])
    BY <1>4 DEF Granted
  <2> DEFINE rest == [r \in {} |-> Idle]
  <2>4. \A r \in DOMAIN rest : rest[r] \in Request
    OBVIOUS
  <2>5. request' = Resumed(b, n, rest)
    BY <2>3
  <2> HIDE DEF rest, c
  <2>6. request' \in [Tabs \X Slots -> Request]
    BY <1>1, <2>2, <2>4, <2>5, RequestTypes
  <2>7. /\ stored' \in 0..MaxTokens
        /\ mirror' \in [Tabs -> 0..MaxTokens] /\ stale' \in SUBSET Tabs
    BY <1>1, <2>2, <2>3, StoreTypes
  <2>8. TypeOK'
    BY <1>1, <1>2, <2>6, <2>7 DEF TypeOK
  <2>9. SettleStep(b)
    BY <1>1, <1>4, <2>1, <2>3 DEF SettleStep, c
  <2> QED  BY <2>8, <2>9
<1>5. CASE /\ calls[c].at \in {"granted", "refused"} /\ Refused(b)
           /\ calls[c].at = "granted" => mirror[b] # calls[c].token
  <2>1. \E rest : /\ \A r \in DOMAIN rest : rest[r] \in Request
                  /\ request' = Resumed(b, mirror[b], rest)
    <3>1. CASE Unchanged(b) = {}
      <4> DEFINE rest == [r \in {} |-> Idle]
      <4>1. request' = Resumed(b, mirror[b], rest) /\ \A r \in DOMAIN rest : rest[r] \in Request
        BY <1>5, <3>1 DEF Refused
      <4> QED  BY <4>1
    <3>2. CASE Unchanged(b) # {}
      <4>1. PICK first \in Unchanged(b) :
               request' = Resumed(b, mirror[b],
                   [r \in Unchanged(b) |-> IF r = first
                                           THEN [Idle EXCEPT !.at = "interpreting"]
                                           ELSE Idle])
        BY <1>5, <3>2 DEF Refused
      <4> DEFINE rest == [r \in Unchanged(b) |-> IF r = first
                                                 THEN [Idle EXCEPT !.at = "interpreting"]
                                                 ELSE Idle]
      <4>2. \A r \in DOMAIN rest : rest[r] \in Request
        BY <1>3
      <4> QED  BY <4>1, <4>2
    <3> QED  BY <3>1, <3>2
  <2>2. PICK rest : /\ \A r \in DOMAIN rest : rest[r] \in Request
                    /\ request' = Resumed(b, mirror[b], rest)
    BY <2>1
  <2>3. request' \in [Tabs \X Slots -> Request]
    BY <1>1, <2>2, RequestTypes
  <2>4. Stays \/ EndSession(b)
    BY <1>5 DEF Refused, Stays
  <2>5. /\ stored' \in 0..MaxTokens
        /\ mirror' \in [Tabs -> 0..MaxTokens] /\ stale' \in SUBSET Tabs
    BY <1>1, <2>4, EndSessionTypes DEF Stays, TypeOK
  <2>6. Stays \/ Store(b, 0)
    BY <2>4 DEF EndSession, Stays
  <2>7. TypeOK'
    BY <1>1, <1>2, <2>3, <2>5 DEF TypeOK
  <2>8. SettleStep(b)
    BY <1>1, <1>5, <2>6 DEF SettleStep
  <2> QED  BY <2>7, <2>8
<1>6. CASE calls[c].at = "failed" /\ Unavailable(b)
  <2> DEFINE rest == [r \in Unchanged(b) |-> Idle]
  <2>1. Stays /\ request' = Resumed(b, mirror[b], rest)
    BY <1>6 DEF Unavailable, Stays
  <2>2. \A r \in DOMAIN rest : rest[r] \in Request
    BY <1>3
  <2> HIDE DEF rest
  <2>3. request' \in [Tabs \X Slots -> Request]
    BY <1>1, <2>1, <2>2, RequestTypes
  <2>4. TypeOK'
    BY <1>1, <1>2, <2>1, <2>3 DEF TypeOK, Stays
  <2>5. SettleStep(b)
    BY <1>1, <1>6, <2>1 DEF SettleStep
  <2> QED  BY <2>4, <2>5
<1> QED  BY <1>4, <1>5, <1>6 DEF Settle

\* Every step is of one of these kinds.
LEMMA Kinds ==
  ASSUME Ground, Next
  PROVE  /\ TypeOK'
         /\ \/ AnswerStep \/ QuietStep
            \/ \E c \in DOMAIN calls : RotateStep(c)
            \/ \E b \in Tabs : \/ StartStep(b) \/ ForgetStep(b) \/ SettleStep(b)
                              \/ CatchUpStep(b) \/ SignInStep(b)
<1>1. ASSUME NEW c \in DOMAIN calls,
             ReadRow(c) \/ RevokeReused(c) \/ Claim(c) \/ CallFails(c) \/ Logout(c)
      PROVE  TypeOK' /\ (AnswerStep \/ RotateStep(c))
  BY <1>1, Answering, Rotating
<1>2. ASSUME RevokeAll
      PROVE  TypeOK' /\ AnswerStep
  BY <1>2, Revoking
<1>3. ASSUME NEW r \in Tabs \X Slots,
             Send(r) \/ Respond(r) \/ Unauthorized(r) \/ Interpret(r)
      PROVE  TypeOK' /\ (QuietStep \/ \E b \in Tabs : StartStep(b) \/ ForgetStep(b))
  <2>1. r[1] \in Tabs
    OBVIOUS
  <2> QED  BY <1>3, <2>1, Quiet, Starting, Forgetting
<1>4. ASSUME NEW b \in Tabs,
             StorageEvent(b) \/ Settle(b) \/ TimeOut(b) \/ SignIn(b) \/ SignOut(b) \/ Reload(b)
      PROVE  TypeOK' /\ (ForgetStep(b) \/ SettleStep(b) \/ CatchUpStep(b) \/ SignInStep(b))
  BY <1>4, Settling, SigningIn, SigningOut, CatchingUp
<1> QED  BY <1>1, <1>2, <1>3, <1>4, ZenonT(60) DEF Next

-----------------------------------------------------------------------------
(* The rows and the calls that used them.                                  *)

\* Rows stay in their families.
FamiliesKept ==
    /\ TokenIds \subseteq TokenIds'
    /\ \A t \in TokenIds : tokens'[t].family = tokens[t].family

\* No row is used, and none added but the first of a family.
RowsKept ==
    /\ FamiliesKept
    /\ \A t \in TokenIds : tokens'[t].used = tokens[t].used
    /\ \A t \in TokenIds' \ TokenIds : tokens'[t].family = t /\ ~tokens'[t].used

\* No call is granted.
GrantsKept ==
    /\ DOMAIN calls \subseteq DOMAIN calls'
    /\ \A c \in DOMAIN calls :
          /\ calls'[c].kind = calls[c].kind /\ calls'[c].tab = calls[c].tab
          /\ calls'[c].token = calls[c].token
          /\ (calls'[c].at = "granted") <=> (calls[c].at = "granted")
    /\ \A c \in DOMAIN calls' \ DOMAIN calls :
          calls'[c].token \in TokenIds /\ calls'[c].at # "granted"

LEMMA IdsAreNumbers ==
  ASSUME TypeOK
  PROVE  /\ TokenIds = 1..Len(tokens) /\ Len(tokens) \in Nat /\ TokenIds \subseteq Nat
         /\ \A t \in TokenIds : tokens[t].family \in Nat
         /\ \A c \in DOMAIN calls : calls[c].tab \in Tabs
BY CallTypes DEF TokenIds, Token, Call

LEMMA IdsStayNumbers ==
  ASSUME TypeOK'
  PROVE  TokenIds' = 1..Len(tokens') /\ Len(tokens') \in Nat /\ TokenIds' \subseteq Nat
<1>1. tokens' \in Seq(Token)
  BY DEF TypeOK
<1>2. Len(tokens') \in Nat
  BY <1>1, LenProperties
<1> QED  BY <1>2 DEF TokenIds

LEMMA NextKept ==
  ASSUME TypeOK, FamiliesKept, NEW t \in TokenIds, NEW n \in TokenIds
  PROVE  IsNext(t, n)' <=> IsNext(t, n)
<1>1. \A m \in (t + 1)..(n - 1) : m \in TokenIds
  BY IdsAreNumbers
<1>2. n \in TokenIds' /\ tokens'[n].family = tokens[n].family /\ tokens'[t].family = tokens[t].family
  BY DEF FamiliesKept
<1>3. \A m \in (t + 1)..(n - 1) : tokens'[m].family = tokens[m].family
  BY <1>1 DEF FamiliesKept
<1> QED  BY <1>2, <1>3 DEF IsNext

\* A token has one successor, and is the successor of one token.
LEMMA OneNext ==
  ASSUME TypeOK, NEW t \in TokenIds, NEW u \in TokenIds, NEW n, NEW m,
         IsNext(t, n), IsNext(u, m)
  PROVE  /\ t = u => n = m
         /\ n = m => t = u
<1>1. t \in Nat /\ u \in Nat /\ n \in Nat /\ m \in Nat
  BY IdsAreNumbers DEF IsNext
<1>2. t = u => n = m
  BY <1>1 DEF IsNext
<1>3. n = m => t = u
  BY <1>1 DEF IsNext
<1> QED  BY <1>2, <1>3

LEMMA RotationKept ==
  ASSUME TypeOK, TypeOK', RotationOK, GrantsOK, RowsKept, GrantsKept
  PROVE  RotationOK' /\ GrantsOK'
<1>1. /\ TokenIds \subseteq TokenIds' /\ TokenIds' \subseteq Nat
      /\ \A t \in TokenIds' : t \in TokenIds \/ (t \notin TokenIds /\ tokens'[t].family = t /\ ~tokens'[t].used)
      /\ \A t \in TokenIds : tokens'[t].family = tokens[t].family
                           /\ tokens'[t].used = tokens[t].used
      /\ \A t \in TokenIds, u \in TokenIds' \ TokenIds : t < u
      /\ TokenIds' = 1..Len(tokens')
  BY IdsAreNumbers, IdsStayNumbers DEF RowsKept, FamiliesKept
<1>2. \A t \in TokenIds' : tokens'[t].family <= t
  BY <1>1 DEF RotationOK
<1>3. ASSUME NEW t \in TokenIds', NEW u \in TokenIds', t < u, tokens'[t].family = tokens'[u].family
      PROVE  tokens'[t].used
  <2>1. CASE u \in TokenIds
    <3>1. t \in TokenIds
      BY <1>1, <1>3, <2>1
    <3> QED  BY <1>1, <1>3, <2>1, <3>1 DEF RotationOK
  <2>2. CASE u \notin TokenIds
    BY <1>1, <1>2, <1>3, <2>2
  <2> QED  BY <2>1, <2>2
<1>4. ASSUME NEW t \in TokenIds', tokens'[t].used
      PROVE  \E c \in DOMAIN calls' : IsRefresh(c, "granted")' /\ calls'[c].token = t
  <2>1. t \in TokenIds /\ tokens[t].used
    BY <1>1, <1>4
  <2> QED  BY <2>1 DEF RotationOK, GrantsKept, IsRefresh
<1>5. \A c \in DOMAIN calls' : calls'[c].token \in TokenIds'
  BY <1>1 DEF GrantsOK, GrantsKept
<1>6. \A c \in DOMAIN calls' : IsRefresh(c, "granted")' =>
         c \in DOMAIN calls /\ IsRefresh(c, "granted") /\ calls'[c].token = calls[c].token
  BY DEF GrantsKept, IsRefresh
<1>7. \A c \in DOMAIN calls' : IsRefresh(c, "granted")' =>
         tokens'[calls'[c].token].used /\ \E n \in TokenIds' : IsNext(calls[c].token, n)'
  <2>1. ASSUME NEW c \in DOMAIN calls', IsRefresh(c, "granted")'
        PROVE  tokens'[calls'[c].token].used /\ \E n \in TokenIds' : IsNext(calls[c].token, n)'
    <3>1. /\ c \in DOMAIN calls /\ calls'[c].token = calls[c].token /\ calls[c].token \in TokenIds
          /\ tokens[calls[c].token].used
      BY <1>6, <2>1 DEF GrantsOK
    <3>2. PICK n \in TokenIds : IsNext(calls[c].token, n)
      BY <1>6, <2>1, <3>1 DEF GrantsOK
    <3>3. IsNext(calls[c].token, n)'
      <4>1. PICK t \in TokenIds : t = calls[c].token /\ IsNext(t, n) /\ calls'[c].token = t
        BY <3>1, <3>2
      <4>2. IsNext(t, n)'
        BY <4>1, NextKept DEF RowsKept
      <4> QED  BY <4>1, <4>2 DEF IsNext
    <3> QED  BY <1>1, <3>1, <3>2, <3>3
  <2> QED  BY <2>1
<1>8. \A c, d \in DOMAIN calls' :
         IsRefresh(c, "granted")' /\ IsRefresh(d, "granted")' /\ calls'[c].token = calls'[d].token
         => c = d
  BY <1>6 DEF GrantsOK
<1> QED  BY <1>2, <1>3, <1>4, <1>5, <1>7, <1>8 DEF RotationOK, GrantsOK

\* A refresh that is granted uses the last row of a family, and adds the next.
LEMMA RotationGrows ==
  ASSUME Ground, TypeOK', RotationOK, NEW c \in DOMAIN calls, RotateStep(c)
  PROVE  /\ RotationOK' /\ GrantsOK'
         /\ FamiliesKept /\ Len(tokens) + 1 \in TokenIds'
         /\ TokenIds' = TokenIds \cup {Len(tokens) + 1}
         /\ \A u \in TokenIds : ~IsNext(calls[c].token, u)
<1>1. PICK t \in TokenIds : t = calls[c].token
  BY DEF Ground, GrantsOK
<1> DEFINE L == Len(tokens)
<1>2. /\ TypeOK /\ ~tokens[t].used /\ calls'[c].at = "granted" /\ calls[c].at = "passed"
      /\ calls[c].kind = "refresh" /\ SameCalls
      /\ \A d \in DOMAIN calls : d # c => calls'[d].at = calls[d].at
      /\ RowsRotate(t) /\ GrantsOK
  BY <1>1 DEF RotateStep, IsRefresh, SameStage, Ground
<1>3. /\ TokenIds = 1..L /\ TokenIds' = 1..(L + 1) /\ L \in Nat
      /\ \A u \in TokenIds : tokens[u].family \in Nat
  BY <1>2, IdsAreNumbers, IdsStayNumbers DEF RowsRotate
<1>4. /\ TokenIds' = TokenIds \cup {L + 1} /\ L + 1 \in TokenIds'
      /\ \A u \in TokenIds : u < L + 1 /\ u \in Nat
  BY <1>3
<1>5. /\ \A u \in TokenIds : tokens'[u].family = tokens[u].family
      /\ \A u \in TokenIds : tokens'[u].used <=> tokens[u].used \/ u = t
      /\ tokens'[L + 1].family = tokens[t].family /\ ~tokens'[L + 1].used
  BY <1>2 DEF RowsRotate, NewToken
<1>6. FamiliesKept
  BY <1>4, <1>5 DEF FamiliesKept
<1> HIDE DEF L
<1>7. \A u \in TokenIds : tokens[u].family = tokens[t].family => u <= t
  BY <1>2, <1>3, <1>4 DEF RotationOK
<1>8. ASSUME NEW u \in TokenIds
      PROVE  ~IsNext(t, u)
  BY <1>4, <1>7 DEF IsNext
<1>9. /\ \A d \in DOMAIN calls' : d \in DOMAIN calls /\ calls'[d].token = calls[d].token
                               /\ calls'[d].token \in TokenIds
      /\ \A d \in DOMAIN calls' : IsRefresh(d, "granted")' <=> d = c \/ IsRefresh(d, "granted")
      /\ c \in DOMAIN calls' /\ ~IsRefresh(c, "granted")
  BY <1>2 DEF SameCalls, IsRefresh, GrantsOK
<1>10. RotationOK'
  <2>1. \A u \in TokenIds' : tokens'[u].family <= u
    BY <1>3, <1>4, <1>5 DEF RotationOK
  <2>2. ASSUME NEW u \in TokenIds', NEW v \in TokenIds', u < v,
               tokens'[u].family = tokens'[v].family
        PROVE  tokens'[u].used
    <3>1. u \in TokenIds
      BY <1>3, <2>2
    <3>2. CASE v \in TokenIds
      BY <1>5, <2>2, <3>1, <3>2 DEF RotationOK
    <3>3. CASE v = L + 1
      <4>1. tokens[u].family = tokens[t].family
        BY <1>5, <2>2, <3>1, <3>3
      <4>2. u = t \/ u < t
        BY <1>4, <1>7, <3>1, <4>1
      <4>3. u = t \/ tokens[u].used
        BY <3>1, <4>1, <4>2 DEF RotationOK
      <4> QED  BY <1>5, <3>1, <4>3
    <3> QED  BY <1>4, <2>2, <3>2, <3>3
  <2>3. ASSUME NEW u \in TokenIds', tokens'[u].used
        PROVE  \E d \in DOMAIN calls' : IsRefresh(d, "granted")' /\ calls'[d].token = u
    <3>1. u \in TokenIds /\ (tokens[u].used \/ u = t)
      BY <1>4, <1>5, <2>3
    <3>2. CASE u = t
      BY <1>1, <1>9, <3>2
    <3>3. CASE tokens[u].used
      <4>1. PICK d \in DOMAIN calls : IsRefresh(d, "granted") /\ calls[d].token = u
        BY <3>1, <3>3 DEF RotationOK
      <4>2. d \in DOMAIN calls'
        BY <1>2 DEF SameCalls
      <4> QED  BY <1>9, <4>1, <4>2
    <3> QED  BY <3>1, <3>2, <3>3
  <2> QED  BY <2>1, <2>2, <2>3 DEF RotationOK
<1>11. \E n \in TokenIds' : IsNext(t, n)'
  <2>1. \A m \in (t + 1)..L : m \in TokenIds /\ tokens'[m].family # tokens[t].family
    BY <1>3, <1>4, <1>5, <1>7
  <2>2. (L + 1) - 1 = L /\ tokens'[t].family = tokens[t].family /\ L + 1 > t
    BY <1>3, <1>4, <1>5
  <2>3. /\ L + 1 \in TokenIds' /\ L + 1 > t
        /\ tokens'[L + 1].family = tokens'[t].family
        /\ \A m \in (t + 1)..((L + 1) - 1) : tokens'[m].family # tokens'[L + 1].family
    BY <1>4, <1>5, <2>1, <2>2
  <2>4. PICK n \in TokenIds' : n = L + 1
    BY <1>4
  <2>5. IsNext(t, n)'
    BY <2>3, <2>4 DEF IsNext
  <2> QED  BY <2>4, <2>5
<1>12. GrantsOK'
  <2>1. \A d \in DOMAIN calls' : calls'[d].token \in TokenIds'
    BY <1>4, <1>9
  <2>2. ASSUME NEW d \in DOMAIN calls', IsRefresh(d, "granted")'
        PROVE  tokens'[calls'[d].token].used /\ \E n \in TokenIds' : IsNext(calls[d].token, n)'
    <3>1. PICK u \in TokenIds : u = calls[d].token /\ u = calls'[d].token
      BY <1>9
    <3>2. CASE d = c
      <4>1. u = t /\ tokens'[u].used
        BY <1>1, <1>5, <3>1, <3>2
      <4>2. PICK n \in TokenIds' : IsNext(t, n)'
        BY <1>11
      <4>3. IsNext(u, n)'
        BY <4>1, <4>2
      <4>4. IsNext(calls[d].token, n)'
        BY <3>1, <4>3 DEF IsNext
      <4> QED  BY <3>1, <4>1, <4>4
    <3>3. CASE IsRefresh(d, "granted")
      <4>1. tokens[u].used
        BY <1>2, <1>9, <3>1, <3>3 DEF GrantsOK
      <4>2. PICK n \in TokenIds : IsNext(u, n)
        BY <1>2, <1>9, <3>1, <3>3 DEF GrantsOK
      <4>3. IsNext(u, n)' /\ n \in TokenIds'
        BY <1>2, <1>4, <1>6, <4>2, NextKept
      <4> QED  BY <1>5, <3>1, <4>1, <4>3 DEF IsNext
    <3> QED  BY <1>9, <2>2, <3>2, <3>3
  <2>3. \A d, e \in DOMAIN calls' :
           IsRefresh(d, "granted")' /\ IsRefresh(e, "granted")' /\ calls'[d].token = calls'[e].token
           => d = e
    <3>1. \A d \in DOMAIN calls' : IsRefresh(d, "granted") => calls[d].token # t
      BY <1>2, <1>9 DEF GrantsOK
    <3> QED  BY <1>1, <1>2, <1>9, <3>1 DEF GrantsOK
  <2> QED  BY <2>1, <2>2, <2>3 DEF GrantsOK
<1> QED  BY <1>1, <1>4, <1>6, <1>8, <1>10, <1>12 DEF L

-----------------------------------------------------------------------------
(* The tabs.                                                               *)

Tabwise == TabsOK /\ HandoverOK /\ SpentOK

\* A tab starts to wait only for a new call.
AwaitsKept ==
    \A b \in Tabs : refreshing'[b] # 0 =>
        refreshing'[b] = refreshing[b] \/ calls'[refreshing'[b]].at # "granted"

LEMMA ComingKept ==
  ASSUME Ground, TypeOK', RotationOK, RowsKept, GrantsKept, AwaitsKept,
         NEW n \in TokenIds', ComingUp(n)'
  PROVE  n \in TokenIds /\ ComingUp(n)
<1>1. PICK b \in Tabs : /\ refreshing'[b] # 0 /\ calls'[refreshing'[b]].at = "granted"
                       /\ calls'[refreshing'[b]].kind = "refresh"
                       /\ IsNext(calls[refreshing[b]].token, n)'
  BY DEF ComingUp, IsRefresh
<1>2. /\ refreshing'[b] = refreshing[b] /\ refreshing[b] # 0 /\ refreshing[b] \in DOMAIN calls
      /\ calls[refreshing[b]].at = "granted" /\ calls[refreshing[b]].kind = "refresh"
      /\ calls'[refreshing[b]].token = calls[refreshing[b]].token
  BY <1>1 DEF AwaitsKept, GrantsKept, Ground, TabsOK
<1>3. PICK t \in TokenIds : t = calls[refreshing[b]].token /\ t = calls'[refreshing'[b]].token
  BY <1>2 DEF Ground, GrantsOK
<1>4. IsNext(t, n)'
  BY <1>1, <1>3 DEF IsNext
<1>5. tokens'[n].family = tokens[t].family /\ n > t /\ t \in Nat
  <2>1. tokens'[n].family = tokens'[t].family /\ n > t
    BY <1>4 DEF IsNext
  <2> QED  BY <2>1, IdsAreNumbers DEF RowsKept, FamiliesKept, Ground
<1>6. n \in TokenIds
  <2>1. SUFFICES ASSUME n \notin TokenIds
                 PROVE  FALSE
    OBVIOUS
  <2>2. tokens'[n].family = n /\ tokens[t].family <= t
    BY <2>1 DEF RowsKept, RotationOK
  <2>3. n \in Nat
    BY IdsStayNumbers
  <2> QED  BY <1>5, <2>2, <2>3
<1>7. IsNext(t, n)
  BY <1>4, <1>6, NextKept DEF Ground, RowsKept
<1> QED  BY <1>2, <1>3, <1>6, <1>7 DEF ComingUp, IsRefresh

\* Nobody sees a token that is coming up, unless a tab stores it.
LEMMA HandoverKept ==
  ASSUME Ground, TypeOK', RotationOK, RowsKept, GrantsKept, AwaitsKept, HandoverOK,
         \A n \in TokenIds : Unknown(n) => Unknown(n)'
  PROVE  HandoverOK'
<1>1. ASSUME NEW n \in TokenIds', ComingUp(n)'
      PROVE  Unknown(n)'
  <2>1. n \in TokenIds /\ ComingUp(n)
    BY <1>1, ComingKept
  <2> QED  BY <2>1 DEF HandoverOK
<1> QED  BY <1>1 DEF HandoverOK

LEMMA AnswerKeepsTabs ==
  ASSUME Ground, TypeOK', RotationOK, Tabwise, AnswerStep
  PROVE  Tabwise' /\ RowsKept /\ GrantsKept
<1>1. /\ DOMAIN calls' = DOMAIN calls
      /\ UNCHANGED <<stored, mirror, stale, refreshing>>
      /\ \A c \in DOMAIN calls : /\ calls'[c].kind = calls[c].kind /\ calls'[c].tab = calls[c].tab
                               /\ calls'[c].token = calls[c].token /\ calls'[c].lost = calls[c].lost
      /\ \A c \in DOMAIN calls :
            \/ calls'[c].at = calls[c].at
            \/ calls[c].at \in {"sent", "passed", "reuse"} /\ calls'[c].at # "granted"
  BY DEF AnswerStep, SameCalls, SameWait, SameStage, client
<1>2. /\ TokenIds' = TokenIds
      /\ \A t \in TokenIds : tokens'[t].family = tokens[t].family /\ tokens'[t].used = tokens[t].used
  BY DEF AnswerStep, SameRows, TokenIds
<1>3. RowsKept
  BY <1>2 DEF RowsKept, FamiliesKept
<1>4. GrantsKept
  BY <1>1 DEF GrantsKept
<1>5. TabsOK'
  BY <1>1, <1>2 DEF Tabwise, TabsOK
<1>6. AwaitsKept
  BY <1>1 DEF AwaitsKept
<1>7. ASSUME NEW n \in TokenIds, Unknown(n)
      PROVE  Unknown(n)'
  BY <1>1, <1>7 DEF Unknown
<1>8. HandoverOK'
  BY <1>3, <1>4, <1>6, <1>7, HandoverKept DEF Tabwise
<1>9. \A c \in DOMAIN calls : (Over(c)' <=> Over(c)) /\ (Awaited(c)' <=> Awaited(c))
  BY <1>1 DEF Over, Awaited
<1>10. \A b \in Tabs : refreshing[b] # 0 => refreshing[b] \in DOMAIN calls
  BY DEF Tabwise, TabsOK
<1>11. \A c \in DOMAIN calls : calls[c].tab \in Tabs
  BY IdsAreNumbers DEF Ground
<1>12. SpentOK'
  BY <1>1, <1>9, <1>10, <1>11 DEF SpentOK, Tabwise, AnsweredWhenOver, SpentWhenOver,
                                  LostForGood, Answers
<1> QED  BY <1>3, <1>4, <1>5, <1>8, <1>12 DEF Tabwise

\* The rows are as they were, and so are the calls the tabs know of.
LEMMA NoNewRow ==
  ASSUME tokens' = tokens, \A c \in DOMAIN calls : c \in DOMAIN calls',
         \A c \in DOMAIN calls :
            /\ calls'[c].kind = calls[c].kind /\ calls'[c].tab = calls[c].tab
            /\ calls'[c].token = calls[c].token /\ calls'[c].at = calls[c].at,
         \A c \in DOMAIN calls' \ DOMAIN calls :
            calls'[c].token \in TokenIds /\ calls'[c].at # "granted"
  PROVE  RowsKept /\ GrantsKept /\ TokenIds' = TokenIds
BY DEF RowsKept, FamiliesKept, GrantsKept, TokenIds

LEMMA QuietKeepsTabs ==
  ASSUME Ground, TypeOK', RotationOK, Tabwise, QuietStep
  PROVE  Tabwise' /\ RowsKept /\ GrantsKept
<1>1. /\ tokens' = tokens /\ calls' = calls
      /\ UNCHANGED <<stored, mirror, stale, refreshing>>
  BY DEF QuietStep, Stays
<1>2. RowsKept /\ GrantsKept /\ TokenIds' = TokenIds
  BY <1>1, NoNewRow
<1>3. Tabwise'
  BY <1>1, <1>2 DEF Tabwise, TabsOK, HandoverOK, SpentOK, ComingUp, Unknown, Over, Awaited, IsNext,
                    IsRefresh, AnsweredWhenOver, SpentWhenOver, LostForGood
<1> QED  BY <1>2, <1>3

LEMMA StartKeepsTabs ==
  ASSUME Ground, TypeOK', RotationOK, Tabwise, NEW b \in Tabs, StartStep(b)
  PROVE  Tabwise' /\ RowsKept /\ GrantsKept
<1>1. PICK new : new = Len(calls) + 1
  OBVIOUS
<1>2. /\ mirror[b] # 0 /\ refreshing[b] = 0 /\ tokens' = tokens
      /\ UNCHANGED <<stored, mirror, stale>>
      /\ new # 0 /\ new \notin DOMAIN calls /\ DOMAIN calls' = DOMAIN calls \cup {new}
      /\ 0 \notin DOMAIN calls
      /\ \A c \in DOMAIN calls : calls'[c] = calls[c]
      /\ refreshing \in [Tabs -> 0..MaxCalls] /\ refreshing' = [refreshing EXCEPT ![b] = new]
  BY <1>1 DEF StartStep, Stays, Ground, TypeOK
<1>3. /\ calls'[new].kind = "refresh" /\ calls'[new].tab = b /\ calls'[new].token = mirror[b]
      /\ calls'[new].at = "sent" /\ ~calls'[new].lost
  BY <1>1 DEF StartStep, NewCall
<1>4. refreshing'[b] = new /\ \A a \in Tabs \ {b} : refreshing'[a] = refreshing[a]
  BY <1>2
<1>5. /\ mirror[b] \in TokenIds /\ \A a \in Tabs : refreshing[a] # 0 => refreshing[a] \in DOMAIN calls
      /\ \A c \in DOMAIN calls : calls[c].tab \in Tabs
  BY <1>2, IdsAreNumbers DEF Ground, TabsOK
<1>6. RowsKept /\ GrantsKept /\ TokenIds' = TokenIds
  <2>1. \A c \in DOMAIN calls' \ DOMAIN calls :
           calls'[c].token \in TokenIds /\ calls'[c].at # "granted"
    BY <1>2, <1>3, <1>5
  <2> QED  BY <1>2, <2>1, NoNewRow
<1>7. TabsOK'
  <2>1. \A a \in Tabs : refreshing'[a] # 0 =>
           /\ refreshing'[a] \in DOMAIN calls'
           /\ calls'[refreshing'[a]].kind = "refresh" /\ calls'[refreshing'[a]].tab = a
           /\ ~calls'[refreshing'[a]].lost
    BY <1>2, <1>3, <1>4 DEF Tabwise, TabsOK
  <2> QED  BY <1>2, <1>6, <2>1 DEF Tabwise, TabsOK
<1>8. AwaitsKept
  BY <1>3, <1>4 DEF AwaitsKept
<1>9. ASSUME NEW n \in TokenIds, Unknown(n)
      PROVE  Unknown(n)'
  BY <1>2, <1>3, <1>9 DEF Unknown
<1>10. HandoverOK'
  BY <1>6, <1>8, <1>9, HandoverKept DEF Tabwise
<1>12. Awaited(new)' /\ ~Over(new)'
  BY <1>1, <1>3, <1>4 DEF Awaited, Over
<1>13. ASSUME NEW c \in DOMAIN calls'
       PROVE  AnsweredWhenOver(c)' /\ SpentWhenOver(c)' /\ LostForGood(c)'
  <2>1. CASE c = new
    BY <1>2, <1>3, <1>12, <2>1 DEF AnsweredWhenOver, SpentWhenOver, LostForGood
  <2>2. CASE c \in DOMAIN calls
    <3>1. /\ calls'[c].kind = calls[c].kind /\ calls'[c].tab = calls[c].tab
          /\ calls'[c].token = calls[c].token /\ calls'[c].at = calls[c].at
          /\ calls[c].tab \in Tabs /\ stored' = stored /\ mirror' = mirror
      BY <1>2, <1>5, <2>2
    <3>2. AnsweredWhenOver(c) /\ SpentWhenOver(c) /\ LostForGood(c)
      BY <2>2 DEF Tabwise, SpentOK
    <3>3. (Awaited(c)' <=> Awaited(c)) /\ (Over(c)' <=> Over(c))
      BY <1>2, <1>4, <1>5, <2>2 DEF Awaited, Over
    <3>4. AnsweredWhenOver(c)'
      BY <3>1, <3>2, <3>3 DEF AnsweredWhenOver
    <3>5. LostForGood(c)'
      BY <3>1, <3>2, <3>3 DEF LostForGood
    <3>6. SpentWhenOver(c)'
      <4>1. SUFFICES ASSUME Over(c), calls[c].at = "granted"
                     PROVE  /\ stored # calls[c].token /\ mirror[calls[c].tab] # calls[c].token
                            /\ refreshing'[calls[c].tab] # 0 =>
                                  calls'[refreshing'[calls[c].tab]].token # calls[c].token
        BY <3>1, <3>3 DEF SpentWhenOver
      <4>2. /\ stored # calls[c].token /\ mirror[calls[c].tab] # calls[c].token
            /\ refreshing[calls[c].tab] # 0 =>
                  calls[refreshing[calls[c].tab]].token # calls[c].token
        BY <3>2, <4>1 DEF SpentWhenOver
      <4> QED  BY <1>2, <1>3, <1>4, <1>5, <3>1, <4>2
    <3> QED  BY <3>4, <3>5, <3>6
  <2> QED  BY <1>2, <2>1, <2>2
<1>14. SpentOK'
  BY <1>13 DEF SpentOK
<1> QED  BY <1>6, <1>7, <1>10, <1>14 DEF Tabwise

\* The first part of what Store does, tab by tab.
LEMMA Stored ==
  ASSUME TypeOK, NEW b \in Tabs, NEW t, Store(b, t)
  PROVE  /\ stored' = t /\ mirror'[b] = t
         /\ \A a \in Tabs : a # b => mirror'[a] = mirror[a] /\ a \in stale'
BY DEF TypeOK, Store

LEMMA ForgetKeepsTabs ==
  ASSUME Ground, TypeOK', RotationOK, Tabwise, NEW b \in Tabs, ForgetStep(b)
  PROVE  Tabwise' /\ RowsKept /\ GrantsKept
<1>1. /\ tokens' = tokens /\ refreshing' = refreshing /\ TypeOK
      /\ \/ stored' = stored /\ mirror' = mirror /\ stale' = stale
         \/ /\ stored' = 0 /\ mirror'[b] = 0
            /\ \A a \in Tabs : a # b => mirror'[a] = mirror[a] /\ a \in stale'
  BY Stored DEF ForgetStep, Stays, Ground
<1>2. /\ \A c \in DOMAIN calls : c \in DOMAIN calls' /\ calls'[c] = calls[c]
      /\ \A c \in DOMAIN calls' \ DOMAIN calls :
            /\ calls'[c].kind = "logout" /\ calls'[c].at = "sent"
            /\ calls'[c].token = mirror[b] /\ mirror[b] # 0
  BY DEF ForgetStep, NewCall
<1>3. /\ \A a \in Tabs : mirror[a] \in TokenIds \cup {0}
      /\ \A a \in Tabs : refreshing[a] # 0 => refreshing[a] \in DOMAIN calls
      /\ \A c \in DOMAIN calls : calls[c].tab \in Tabs /\ calls[c].token \in TokenIds
      /\ 0 \notin TokenIds
  BY <1>1, IdsAreNumbers DEF Ground, TabsOK, GrantsOK
<1>4. RowsKept /\ GrantsKept /\ TokenIds' = TokenIds
  <2>1. \A c \in DOMAIN calls' \ DOMAIN calls :
           calls'[c].token \in TokenIds /\ calls'[c].at # "granted"
    BY <1>2, <1>3
  <2> QED  BY <1>1, <1>2, <2>1, NoNewRow
<1>5. \A a \in Tabs : /\ mirror'[a] \in {mirror[a], 0}
                      /\ a \in stale' \/ mirror'[a] = stored'
  BY <1>1 DEF Tabwise, TabsOK
<1>6. stored' \in {stored, 0}
  BY <1>1
<1>7. TabsOK'
  BY <1>1, <1>2, <1>3, <1>4, <1>5, <1>6 DEF Tabwise, TabsOK
<1>8. AwaitsKept
  BY <1>1 DEF AwaitsKept
<1>9. ASSUME NEW n \in TokenIds, Unknown(n)
      PROVE  Unknown(n)'
  BY <1>2, <1>3, <1>5, <1>6, <1>9 DEF Unknown
<1>10. HandoverOK'
  BY <1>4, <1>8, <1>9, HandoverKept DEF Tabwise
<1>11. ASSUME NEW c \in DOMAIN calls'
       PROVE  AnsweredWhenOver(c)' /\ SpentWhenOver(c)' /\ LostForGood(c)'
  <2>1. CASE c \notin DOMAIN calls
    BY <1>2, <2>1 DEF AnsweredWhenOver, SpentWhenOver, LostForGood, Over
  <2>2. CASE c \in DOMAIN calls
    <3>1. /\ calls'[c].kind = calls[c].kind /\ calls'[c].tab = calls[c].tab
          /\ calls'[c].token = calls[c].token /\ calls'[c].at = calls[c].at
          /\ calls'[c].lost = calls[c].lost
          /\ calls[c].tab \in Tabs /\ calls[c].token # 0
      BY <1>2, <1>3, <2>2
    <3>2. AnsweredWhenOver(c) /\ SpentWhenOver(c) /\ LostForGood(c)
      BY <2>2 DEF Tabwise, SpentOK
    <3>3. (Awaited(c)' <=> Awaited(c)) /\ (Over(c)' <=> Over(c))
      BY <1>1, <3>1 DEF Awaited, Over
    <3>4. AnsweredWhenOver(c)'
      BY <3>1, <3>2, <3>3 DEF AnsweredWhenOver
    <3>5. LostForGood(c)'
      <4>1. (mirror' = mirror /\ stored' = stored) \/ stored' = 0
        BY <1>1
      <4> QED  BY <3>1, <3>2, <3>3, <4>1 DEF LostForGood
    <3>6. SpentWhenOver(c)'
      <4>1. SUFFICES ASSUME Over(c), calls[c].at = "granted"
                     PROVE  /\ stored' # calls[c].token /\ mirror'[calls[c].tab] # calls[c].token
                            /\ refreshing[calls[c].tab] # 0 =>
                                  calls'[refreshing[calls[c].tab]].token # calls[c].token
        BY <1>1, <3>1, <3>3 DEF SpentWhenOver
      <4>2. /\ stored # calls[c].token /\ mirror[calls[c].tab] # calls[c].token
            /\ refreshing[calls[c].tab] # 0 =>
                  calls[refreshing[calls[c].tab]].token # calls[c].token
        BY <3>2, <4>1 DEF SpentWhenOver
      <4> QED  BY <1>2, <1>3, <1>5, <1>6, <3>1, <4>2
    <3> QED  BY <3>4, <3>5, <3>6
  <2> QED  BY <2>1, <2>2
<1>12. SpentOK'
  BY <1>11 DEF SpentOK
<1> QED  BY <1>4, <1>7, <1>10, <1>12 DEF Tabwise

LEMMA CatchUpKeepsTabs ==
  ASSUME Ground, TypeOK', RotationOK, Tabwise, NEW b \in Tabs, CatchUpStep(b)
  PROVE  Tabwise' /\ RowsKept /\ GrantsKept
<1>1. /\ tokens' = tokens /\ TypeOK /\ stored' = stored
      /\ \A a \in Tabs : refreshing[a] # 0 => refreshing[a] \in DOMAIN calls
      /\ \A a \in Tabs : refreshing'[a] \in {0, refreshing[a]}
      /\ \A a \in Tabs : a # b => refreshing'[a] = refreshing[a]
  BY DEF CatchUpStep, Ground, TabsOK, TypeOK
<1>2. \/ mirror' = mirror /\ stale' = stale
      \/ /\ mirror'[b] = stored /\ stale' = stale \ {b}
         /\ \A a \in Tabs : a # b => mirror'[a] = mirror[a]
  BY DEF CatchUpStep, Ground, TypeOK
<1>3. /\ DOMAIN calls' = DOMAIN calls
      /\ \A c \in DOMAIN calls :
            /\ calls'[c].kind = calls[c].kind /\ calls'[c].tab = calls[c].tab
            /\ calls'[c].token = calls[c].token /\ calls'[c].at = calls[c].at
            /\ \/ /\ calls'[c].lost = calls[c].lost
                  /\ refreshing'[calls[c].tab] = c <=> refreshing[calls[c].tab] = c
               \/ calls'[c].lost /\ refreshing'[calls[c].tab] # c
  <2>1. \A c \in DOMAIN calls : calls[c].tab \in Tabs
    BY IdsAreNumbers DEF Ground
  <2>2. CASE calls' = calls /\ refreshing' = refreshing
    BY <2>2
  <2>3. CASE /\ refreshing[b] # 0 /\ refreshing' = [refreshing EXCEPT ![b] = 0]
             /\ calls' = GiveUp(refreshing[b])
    <3>1. PICK r \in DOMAIN calls : r = refreshing[b] /\ calls[r].tab = b
      BY <2>3 DEF Ground, TabsOK
    <3>2. /\ SameCalls /\ calls'[r].lost
          /\ \A d \in DOMAIN calls : SameStage(d) /\ (d # r => SameWait(d))
      BY <1>1, <2>3, <3>1, GivenUp
    <3>3. refreshing \in [Tabs -> 0..MaxCalls] /\ r # 0
      BY <1>1, <2>3, <3>1 DEF TypeOK
    <3>4. /\ refreshing'[b] = 0 /\ \A a \in Tabs : a # b => refreshing'[a] = refreshing[a]
      BY <2>3, <3>3
    <3>5. ASSUME NEW c \in DOMAIN calls
          PROVE  \/ /\ calls'[c].lost = calls[c].lost
                    /\ refreshing'[calls[c].tab] = c <=> refreshing[calls[c].tab] = c
                 \/ calls'[c].lost /\ refreshing'[calls[c].tab] # c
      <4>1. CASE c = r
        BY <3>1, <3>2, <3>3, <3>4, <4>1
      <4>2. CASE c # r
        <5>1. calls'[c].lost = calls[c].lost
          BY <3>2, <4>2 DEF SameWait
        <5>2. 0 \notin DOMAIN calls
          BY <1>1, CallTypes
        <5>3. refreshing'[calls[c].tab] = c <=> refreshing[calls[c].tab] = c
          BY <2>1, <3>1, <3>4, <4>2, <5>2
        <5> QED  BY <5>1, <5>3
      <4> QED  BY <4>1, <4>2
    <3> QED  BY <3>2, <3>5 DEF SameCalls, SameStage
  <2> QED  BY <2>2, <2>3 DEF CatchUpStep
<1>4. RowsKept /\ GrantsKept /\ TokenIds' = TokenIds
  BY <1>1, <1>3, NoNewRow
<1>5. \A a \in Tabs : refreshing'[a] # 0 => calls'[refreshing'[a]].lost = calls[refreshing'[a]].lost
  <2>1. ASSUME NEW a \in Tabs, refreshing'[a] # 0
        PROVE  calls'[refreshing'[a]].lost = calls[refreshing'[a]].lost
    <3>1. PICK r \in DOMAIN calls : r = refreshing'[a] /\ r = refreshing[a] /\ calls[r].tab = a
      BY <1>1, <2>1 DEF Ground, TabsOK
    <3>2. refreshing'[calls[r].tab] = r
      BY <3>1
    <3>3. calls'[r].lost = calls[r].lost
      BY <1>3, <3>2
    <3> QED  BY <3>1, <3>3
  <2> QED  BY <2>1
<1>6. \A a \in Tabs : /\ mirror'[a] \in {mirror[a], stored}
                      /\ a \in stale' \/ mirror'[a] = stored
  BY <1>2 DEF Tabwise, TabsOK
<1>7. TabsOK'
  BY <1>1, <1>3, <1>4, <1>5, <1>6 DEF Tabwise, TabsOK
<1>8. AwaitsKept
  BY <1>1 DEF AwaitsKept
<1>9. ASSUME NEW n \in TokenIds, Unknown(n)
      PROVE  Unknown(n)'
  BY <1>1, <1>3, <1>6, <1>9 DEF Unknown
<1>10. HandoverOK'
  BY <1>4, <1>8, <1>9, HandoverKept DEF Tabwise
<1>11. ASSUME NEW c \in DOMAIN calls
       PROVE  AnsweredWhenOver(c)' /\ SpentWhenOver(c)' /\ LostForGood(c)'
  <2>1. /\ calls'[c].kind = calls[c].kind /\ calls'[c].tab = calls[c].tab
        /\ calls'[c].token = calls[c].token /\ calls'[c].at = calls[c].at
        /\ calls[c].tab \in Tabs
    BY <1>3, IdsAreNumbers DEF Ground
  <2>2. AnsweredWhenOver(c) /\ SpentWhenOver(c) /\ LostForGood(c)
    BY DEF Tabwise, SpentOK
  <2>3. (Awaited(c)' => Awaited(c)) /\ (Over(c)' => Over(c))
    BY <1>3, <2>1 DEF Awaited, Over
  <2>4. AnsweredWhenOver(c)'
    BY <2>1, <2>2, <2>3 DEF AnsweredWhenOver
  <2>5. LostForGood(c)'
    BY <1>1, <1>6, <2>1, <2>2, <2>3 DEF LostForGood
  <2>6. SpentWhenOver(c)'
    <3>1. SUFFICES ASSUME Over(c), calls[c].at = "granted"
                   PROVE  /\ stored # calls[c].token /\ mirror'[calls[c].tab] # calls[c].token
                          /\ refreshing'[calls[c].tab] # 0 =>
                                calls'[refreshing'[calls[c].tab]].token # calls[c].token
      BY <1>1, <2>1, <2>3 DEF SpentWhenOver
    <3>2. /\ stored # calls[c].token /\ mirror[calls[c].tab] # calls[c].token
          /\ refreshing[calls[c].tab] # 0 =>
                calls[refreshing[calls[c].tab]].token # calls[c].token
      BY <2>2, <3>1 DEF SpentWhenOver
    <3> QED  BY <1>1, <1>3, <1>6, <2>1, <3>2
  <2> QED  BY <2>4, <2>5, <2>6
<1>12. SpentOK'
  BY <1>3, <1>11 DEF SpentOK
<1> QED  BY <1>4, <1>7, <1>10, <1>12 DEF Tabwise

\* The successor a tab stores is in no other answer, and in nobody's hands.
LEMMA SettleKeepsTabs ==
  ASSUME Ground, TypeOK', RotationOK, Tabwise, NEW b \in Tabs, SettleStep(b)
  PROVE  Tabwise' /\ RowsKept /\ GrantsKept
<1>1. /\ tokens' = tokens /\ calls' = calls /\ TypeOK
      /\ refreshing'[b] = 0 /\ \A a \in Tabs : a # b => refreshing'[a] = refreshing[a]
      /\ 0 \notin TokenIds
  BY IdsAreNumbers DEF SettleStep, Ground, TypeOK
<1>2. PICK r \in DOMAIN calls :
         /\ r = refreshing[b] /\ r # 0 /\ calls[r].kind = "refresh" /\ calls[r].tab = b
         /\ ~calls[r].lost /\ calls[r].at \in Answers
  BY DEF SettleStep, Ground, TabsOK, Answers
<1>3. RowsKept /\ GrantsKept /\ TokenIds' = TokenIds
  BY <1>1, NoNewRow
<1>4. /\ \A a \in Tabs : mirror[a] \in TokenIds \cup {0}
      /\ \A a \in Tabs : refreshing[a] # 0 =>
            /\ refreshing[a] \in DOMAIN calls /\ calls[refreshing[a]].kind = "refresh"
            /\ calls[refreshing[a]].tab = a /\ ~calls[refreshing[a]].lost
      /\ \A c \in DOMAIN calls : calls[c].tab \in Tabs /\ calls[c].token \in TokenIds
                               /\ calls[c].token # 0 /\ c # 0
  BY <1>1, IdsAreNumbers, CallTypes DEF Ground, TabsOK, GrantsOK
<1>5. PICK t \in TokenIds : t = calls[r].token
  BY <1>4
\* What the tab leaves in the store: what was there, nothing, or the successor.
<1>6. \/ /\ calls[r].at = "granted" => mirror[b] # t
         /\ stored' \in {stored, 0} /\ mirror'[b] \in {mirror[b], 0}
      \/ /\ calls[r].at = "granted" /\ mirror[b] = t
         /\ \E n \in TokenIds : IsNext(t, n) /\ stored' = n /\ mirror'[b] = n
  <2>1. CASE (calls[r].at = "granted" => mirror[b] # t) /\ (Stays \/ Store(b, 0))
    <3>1. stored' \in {stored, 0} /\ mirror'[b] \in {mirror[b], 0}
      BY <1>1, <2>1, Stored DEF Stays
    <3> QED  BY <2>1, <3>1
  <2>2. CASE /\ calls[r].at = "granted" /\ mirror[b] = t
             /\ \E n \in TokenIds : IsNext(t, n) /\ Store(b, n)
    <3>1. PICK n \in TokenIds : IsNext(t, n) /\ Store(b, n)
      BY <2>2
    <3>2. stored' = n /\ mirror'[b] = n
      BY <1>1, <3>1, Stored
    <3> QED  BY <2>2, <3>1, <3>2
  <2> QED  BY <1>2, <1>5, <2>1, <2>2 DEF SettleStep
<1>7. \A a \in Tabs : a # b => mirror'[a] = mirror[a] /\ (a \in stale' \/ mirror'[a] = stored')
  <2>1. ASSUME Stays
        PROVE  \A a \in Tabs : mirror'[a] = mirror[a] /\ (a \in stale' \/ mirror'[a] = stored')
    BY <2>1 DEF Stays, Tabwise, TabsOK
  <2> QED  BY <1>1, <2>1, Stored DEF SettleStep
<1>8. b \in stale' \/ mirror'[b] = stored'
  BY <1>1, Stored DEF SettleStep, Stays, Tabwise, TabsOK
<1>9. TabsOK'
  <2>1. stored \in TokenIds \cup {0}
    BY DEF Tabwise, TabsOK
  <2>2. stored' \in TokenIds \cup {0} /\ \A a \in Tabs : mirror'[a] \in TokenIds \cup {0}
    BY <1>4, <1>6, <1>7, <2>1
  <2>3. \A a \in Tabs : refreshing'[a] # 0 => a # b
    BY <1>1
  <2> QED  BY <1>1, <1>3, <1>4, <1>7, <1>8, <2>2, <2>3 DEF TabsOK
\* The successor was unknown.
<1>10. ASSUME NEW n \in TokenIds, IsNext(t, n), calls[r].at = "granted"
       PROVE  Unknown(n) /\ n # t
  <2>1. ComingUp(n)
    BY <1>2, <1>5, <1>10 DEF ComingUp, IsRefresh
  <2>2. n # t
    BY <1>1, <1>10, IdsAreNumbers DEF IsNext
  <2> QED  BY <2>1, <2>2 DEF Tabwise, HandoverOK
<1>11. AwaitsKept
  BY <1>1 DEF AwaitsKept
<1>12. ASSUME NEW m \in TokenIds', ComingUp(m)'
       PROVE  Unknown(m)'
  <2>1. m \in TokenIds /\ Unknown(m)
    BY <1>3, <1>11, <1>12, ComingKept DEF Tabwise, HandoverOK
  <2>2. PICK a \in Tabs : /\ refreshing'[a] # 0 /\ calls'[refreshing'[a]].at = "granted"
                         /\ calls'[refreshing'[a]].kind = "refresh"
                         /\ IsNext(calls[refreshing[a]].token, m)'
    BY <1>12 DEF ComingUp, IsRefresh
  <2>3. PICK d \in DOMAIN calls : /\ d = refreshing[a] /\ d = refreshing'[a] /\ a # b /\ d # r
                                 /\ IsRefresh(d, "granted")
    BY <1>1, <1>2, <1>4, <2>2 DEF IsRefresh
  <2>4. PICK u \in TokenIds : u = calls[d].token /\ IsNext(u, m)
    BY <1>1, <1>3, <1>4, <2>2, <2>3 DEF IsNext
  <2>5. stored' # m
    <3>1. SUFFICES ASSUME stored' = m
                   PROVE  FALSE
      OBVIOUS
    <3>2. calls[r].at = "granted" /\ IsNext(t, m)
      BY <1>1, <1>6, <2>1, <3>1 DEF Unknown
    <3>3. u = t
      BY <1>1, <2>4, <3>2, OneNext
    <3> QED  BY <1>2, <1>5, <2>3, <2>4, <3>2, <3>3 DEF Ground, GrantsOK, IsRefresh
  <2>6. mirror'[b] # m
    <3>1. CASE mirror'[b] \in {mirror[b], 0}
      BY <1>1, <2>1, <3>1 DEF Unknown
    <3>2. CASE mirror'[b] = stored'
      BY <2>5, <3>2
    <3> QED  BY <1>6, <3>1, <3>2
  <2> QED  BY <1>1, <1>7, <2>1, <2>5, <2>6 DEF Unknown
<1>13. HandoverOK'
  BY <1>12 DEF HandoverOK
<1>14. ASSUME NEW c \in DOMAIN calls
       PROVE  AnsweredWhenOver(c)' /\ SpentWhenOver(c)' /\ LostForGood(c)'
  <2>1. AnsweredWhenOver(c) /\ SpentWhenOver(c) /\ LostForGood(c)
    BY DEF Tabwise, SpentOK
  <2>2. CASE c = r
    <3>1. ~Awaited(c)' /\ Awaited(c)
      BY <1>1, <1>2, <2>2 DEF Awaited
    <3>2. AnsweredWhenOver(c)' /\ LostForGood(c)'
      BY <1>1, <1>2, <2>2, <3>1 DEF AnsweredWhenOver, LostForGood
    <3>3. SpentWhenOver(c)'
      <4>1. SUFFICES ASSUME calls[r].at = "granted"
                     PROVE  stored' # t /\ mirror'[b] # t
        BY <1>1, <1>2, <1>5, <2>2 DEF SpentWhenOver
      <4>2. CASE mirror[b] = t
        BY <1>6, <1>10, <4>1, <4>2
      <4>3. CASE mirror[b] # t
        <5>1. stored # t
          BY <1>2, <1>5, <2>1, <2>2, <3>1, <4>3 DEF LostForGood
        <5> QED  BY <1>1, <1>6, <4>1, <4>3, <5>1
      <4> QED  BY <4>2, <4>3
    <3> QED  BY <3>2, <3>3
  <2>3. CASE c # r
    <3>1. /\ Awaited(c)' <=> Awaited(c)
          /\ Over(c)' <=> Over(c)
          /\ Awaited(c) /\ calls[c].kind = "refresh" => calls[c].tab # b
      BY <1>1, <1>2, <1>4, <2>3 DEF Awaited, Over
    <3>2. AnsweredWhenOver(c)'
      BY <1>1, <2>1, <3>1 DEF AnsweredWhenOver
    <3>3. stored # calls[c].token => stored' # calls[c].token
      BY <1>1, <1>4, <1>6, <1>10 DEF Unknown
    <3>4. LostForGood(c)'
      BY <1>1, <1>4, <1>7, <2>1, <3>1, <3>3 DEF LostForGood
    <3>5. mirror[calls[c].tab] # calls[c].token => mirror'[calls[c].tab] # calls[c].token
      BY <1>1, <1>4, <1>6, <1>7, <1>10 DEF Unknown
    <3>6. SpentWhenOver(c)'
      <4>1. SUFFICES ASSUME Over(c), calls[c].at = "granted"
                     PROVE  /\ stored' # calls[c].token /\ mirror'[calls[c].tab] # calls[c].token
                            /\ refreshing'[calls[c].tab] # 0 =>
                                  calls[refreshing'[calls[c].tab]].token # calls[c].token
        BY <1>1, <3>1 DEF SpentWhenOver
      <4>2. /\ stored # calls[c].token /\ mirror[calls[c].tab] # calls[c].token
            /\ refreshing[calls[c].tab] # 0 =>
                  calls[refreshing[calls[c].tab]].token # calls[c].token
        BY <2>1, <4>1 DEF SpentWhenOver
      <4> QED  BY <1>1, <1>4, <3>3, <3>5, <4>2
    <3> QED  BY <3>2, <3>4, <3>6
  <2> QED  BY <2>2, <2>3
<1>15. SpentOK'
  BY <1>1, <1>14 DEF SpentOK
<1> QED  BY <1>3, <1>9, <1>13, <1>15 DEF Tabwise

\* The token of a sign-in is new to all, and starts a family of its own.
LEMMA SignInKeepsTabs ==
  ASSUME Ground, TypeOK', RotationOK, Tabwise, NEW b \in Tabs, SignInStep(b)
  PROVE  Tabwise' /\ RowsKept /\ GrantsKept
<1>1. PICK new : new = Len(tokens) + 1
  OBVIOUS
<1>2. /\ calls' = calls /\ refreshing' = refreshing /\ TypeOK
      /\ stored' = new /\ mirror'[b] = new
      /\ \A a \in Tabs : a # b => mirror'[a] = mirror[a] /\ a \in stale'
  BY <1>1, Stored DEF SignInStep, Ground
<1>3. /\ TokenIds' = TokenIds \cup {new} /\ new \notin TokenIds /\ 0 \notin TokenIds
      /\ \A t \in TokenIds : tokens'[t] = tokens[t]
      /\ tokens'[new].family = new /\ ~tokens'[new].used
  BY <1>1, <1>2, IdsAreNumbers, IdsStayNumbers DEF SignInStep, NewToken
<1>4. RowsKept
  BY <1>3 DEF RowsKept, FamiliesKept
<1>5. GrantsKept
  BY <1>2 DEF GrantsKept
<1>6. /\ \A a \in Tabs : mirror[a] \in TokenIds \cup {0}
      /\ \A a \in Tabs : refreshing[a] # 0 => refreshing[a] \in DOMAIN calls
      /\ \A c \in DOMAIN calls : calls[c].tab \in Tabs /\ calls[c].token \in TokenIds
  BY <1>2, IdsAreNumbers DEF Ground, TabsOK, GrantsOK
<1>7. TabsOK'
  <2>1. \A a \in Tabs : /\ mirror'[a] \in TokenIds' \cup {0}
                        /\ a \in stale' \/ mirror'[a] = stored'
    BY <1>2, <1>3, <1>6
  <2> QED  BY <1>2, <1>3, <2>1 DEF Tabwise, TabsOK
<1>8. AwaitsKept
  BY <1>2 DEF AwaitsKept
<1>9. ASSUME NEW n \in TokenIds, Unknown(n)
      PROVE  Unknown(n)'
  BY <1>2, <1>3, <1>9 DEF Unknown
<1>10. HandoverOK'
  BY <1>4, <1>5, <1>8, <1>9, HandoverKept DEF Tabwise
<1>11. ASSUME NEW c \in DOMAIN calls
       PROVE  AnsweredWhenOver(c)' /\ SpentWhenOver(c)' /\ LostForGood(c)'
  <2>1. AnsweredWhenOver(c) /\ SpentWhenOver(c) /\ LostForGood(c)
    BY DEF Tabwise, SpentOK
  <2>2. AnsweredWhenOver(c)'
    BY <1>2, <2>1 DEF AnsweredWhenOver, Over, Awaited
  <2>3. stored' # calls[c].token
    BY <1>2, <1>3, <1>6
  <2>4. LostForGood(c)'
    BY <1>2, <2>3 DEF LostForGood
  <2>5. mirror[calls[c].tab] # calls[c].token => mirror'[calls[c].tab] # calls[c].token
    BY <1>2, <1>3, <1>6
  <2>6. SpentWhenOver(c)'
    BY <1>2, <2>1, <2>3, <2>5 DEF SpentWhenOver, Over, Awaited
  <2> QED  BY <2>2, <2>4, <2>6
<1>12. SpentOK'
  BY <1>2, <1>11 DEF SpentOK
<1> QED  BY <1>4, <1>5, <1>7, <1>10, <1>12 DEF Tabwise

\* The row a refresh adds is new to all.
LEMMA RotateKeepsTabs ==
  ASSUME Ground, TypeOK', RotationOK, Tabwise, NEW c \in DOMAIN calls, RotateStep(c)
  PROVE  Tabwise'
<1>1. PICK new : new = Len(tokens) + 1
  OBVIOUS
<1>2. /\ UNCHANGED <<stored, mirror, stale, refreshing>> /\ TypeOK
      /\ calls[c].kind = "refresh" /\ calls[c].at = "passed" /\ calls'[c].at = "granted"
      /\ DOMAIN calls' = DOMAIN calls
      /\ \A d \in DOMAIN calls :
            /\ calls'[d].kind = calls[d].kind /\ calls'[d].tab = calls[d].tab
            /\ calls'[d].token = calls[d].token /\ calls'[d].lost = calls[d].lost
            /\ d # c => calls'[d].at = calls[d].at
  BY DEF RotateStep, Ground, client, IsRefresh, SameCalls, SameWait, SameStage
<1>3. /\ FamiliesKept /\ TokenIds' = TokenIds \cup {new} /\ GrantsOK /\ new \notin TokenIds
      /\ 0 \notin TokenIds /\ new # 0
      /\ \A u \in TokenIds : ~IsNext(calls[c].token, u)
  BY <1>1, <1>2, RotationGrows, IdsAreNumbers DEF Ground
<1>4. /\ stored \in TokenIds \cup {0} /\ \A a \in Tabs : mirror[a] \in TokenIds \cup {0}
      /\ \A a \in Tabs : refreshing[a] # 0 =>
            /\ refreshing[a] \in DOMAIN calls /\ calls[refreshing[a]].kind = "refresh"
            /\ calls[refreshing[a]].tab = a /\ ~calls[refreshing[a]].lost
      /\ \A d \in DOMAIN calls : calls[d].tab \in Tabs /\ calls[d].token \in TokenIds
  BY <1>2, IdsAreNumbers DEF Ground, TabsOK, GrantsOK
<1>5. TabsOK'
  BY <1>2, <1>3, <1>4 DEF Tabwise, TabsOK
<1>6. Unknown(new)'
  BY <1>2, <1>3, <1>4 DEF Unknown
<1>7. ASSUME NEW n \in TokenIds', ComingUp(n)'
      PROVE  Unknown(n)'
  <2>1. CASE n = new
    BY <1>6, <2>1 DEF Unknown
  <2>2. CASE n \in TokenIds
    <3>1. PICK a \in Tabs : /\ refreshing'[a] # 0 /\ calls'[refreshing'[a]].at = "granted"
                           /\ calls'[refreshing'[a]].kind = "refresh"
                           /\ IsNext(calls[refreshing[a]].token, n)'
      BY <1>7 DEF ComingUp, IsRefresh
    <3>2. PICK d \in DOMAIN calls : d = refreshing[a] /\ d = refreshing'[a]
      BY <1>2, <1>4, <3>1
    <3>3. PICK u \in TokenIds : u = calls[d].token /\ u = calls'[d].token
      BY <1>2, <1>4
    <3>4. IsNext(u, n)'
      BY <3>1, <3>2, <3>3 DEF IsNext
    <3>5. IsNext(u, n)
      BY <1>2, <1>3, <2>2, <3>4, NextKept
    <3>6. d # c
      BY <1>3, <2>2, <3>3, <3>5
    <3>7. ComingUp(n)
      BY <1>2, <3>1, <3>2, <3>3, <3>5, <3>6 DEF ComingUp, IsRefresh
    <3>8. Unknown(n)
      BY <2>2, <3>7 DEF Tabwise, HandoverOK
    <3> QED  BY <1>2, <3>8 DEF Unknown
  <2> QED  BY <1>3, <2>1, <2>2
<1>8. HandoverOK'
  BY <1>7 DEF HandoverOK
<1>9. ASSUME NEW d \in DOMAIN calls
      PROVE  AnsweredWhenOver(d)' /\ SpentWhenOver(d)' /\ LostForGood(d)'
  <2>1. AnsweredWhenOver(d) /\ SpentWhenOver(d) /\ LostForGood(d)
    BY DEF Tabwise, SpentOK
  <2>2. (Awaited(d)' <=> Awaited(d)) /\ (Over(d)' <=> Over(d))
    BY <1>2 DEF Awaited, Over
  <2>3. Over(d) => d # c
    <3>1. AnsweredWhenOver(c)
      BY DEF Tabwise, SpentOK
    <3>2. ~Over(c)
      BY <1>2, <3>1 DEF AnsweredWhenOver, Answers
    <3> QED  BY <3>2
  <2>4. AnsweredWhenOver(d)'
    BY <1>2, <2>1, <2>2, <2>3 DEF AnsweredWhenOver
  <2>5. LostForGood(d)'
    BY <1>2, <2>1, <2>2 DEF LostForGood
  <2>6. SpentWhenOver(d)'
    BY <1>2, <1>4, <2>1, <2>2, <2>3 DEF SpentWhenOver
  <2> QED  BY <2>4, <2>5, <2>6
<1>10. SpentOK'
  BY <1>2, <1>9 DEF SpentOK
<1> QED  BY <1>5, <1>8, <1>10 DEF Tabwise

-----------------------------------------------------------------------------
(* Why the API sees a reuse.                                               *)

\* Call d explains that c is taken for a reuse.
Explains(d, c) ==
    /\ d # c /\ calls[d].kind = "refresh" /\ calls[d].token = calls[c].token
    /\ calls[d].tab # calls[c].tab \/ calls[d].lost \/ calls[c].lost

\* A call that reads a used row was not the only one that its tab, or the
\* browser, made with that token.
LEMMA UsedRowExplained ==
  ASSUME Ground, RotationOK, Tabwise, NEW c \in DOMAIN calls, IsRefresh(c, "sent"),
         tokens[calls[c].token].used
  PROVE  \E d \in DOMAIN calls : Explains(d, c)
<1>1. calls[c].token \in TokenIds
  BY DEF Ground, GrantsOK
<1>2. PICK d \in DOMAIN calls : IsRefresh(d, "granted") /\ calls[d].token = calls[c].token
  BY <1>1 DEF RotationOK
<1>3. d # c /\ calls[d].kind = "refresh" /\ calls[d].at = "granted" /\ calls[c].at = "sent"
      /\ calls[c].kind = "refresh"
  BY <1>2 DEF IsRefresh
<1>4. SUFFICES ASSUME calls[d].tab = calls[c].tab, ~calls[d].lost, ~calls[c].lost
               PROVE  FALSE
  BY <1>2, <1>3 DEF Explains
<1>5. Awaited(c)
  <2>1. AnsweredWhenOver(c)
    BY DEF Tabwise, SpentOK
  <2> QED  BY <1>3, <1>4, <2>1 DEF AnsweredWhenOver, Over, Answers
<1>6. ~Awaited(d)
  BY <1>3, <1>4, <1>5 DEF Awaited
<1>7. SpentWhenOver(d)
  BY DEF Tabwise, SpentOK
<1>8. c # 0
  BY CallTypes DEF Ground
<1> QED  BY <1>2, <1>3, <1>4, <1>5, <1>6, <1>7, <1>8 DEF SpentWhenOver, Over, Awaited

\* What explains a reuse goes on explaining it.
LEMMA ExplanationKept ==
  ASSUME NEW c \in DOMAIN calls, NEW d \in DOMAIN calls, Explains(d, c),
         \A x \in DOMAIN calls :
            /\ calls'[x].kind = calls[x].kind /\ calls'[x].tab = calls[x].tab
            /\ calls'[x].token = calls[x].token /\ (calls[x].lost => calls'[x].lost)
  PROVE  Explains(d, c)'
BY DEF Explains

LEMMA ReuseStaysExplained ==
  ASSUME Ground, RotationOK, Tabwise, ReuseHasCause, Next
  PROVE  ReuseHasCause'
<1>1. SUFFICES ASSUME NEW c \in DOMAIN calls', calls'[c].kind = "refresh", calls'[c].at = "reuse"
               PROVE  \E d \in DOMAIN calls' : Explains(d, c)'
  BY DEF ReuseHasCause, Explains, IsRefresh
<1> DEFINE Row(x) == /\ calls'[x].kind = calls[x].kind /\ calls'[x].tab = calls[x].tab
                     /\ calls'[x].token = calls[x].token /\ (calls[x].lost => calls'[x].lost)
\* A call stays as it was sent, and only refresh's reading makes it a reuse.
<1>2. /\ \A x \in DOMAIN calls : x \in DOMAIN calls' /\ Row(x)
      /\ c \in DOMAIN calls
      /\ calls[c].at # "reuse" => calls[c].at = "sent" /\ tokens[calls[c].token].used
  <2>1. CASE AnswerStep
    BY <1>1, <2>1 DEF AnswerStep, SameCalls, SameWait, SameStage
  <2>2. CASE QuietStep
    BY <1>1, <2>2 DEF QuietStep
  <2>3. ASSUME NEW e \in DOMAIN calls, RotateStep(e)
        PROVE  /\ \A x \in DOMAIN calls : x \in DOMAIN calls' /\ Row(x)
               /\ c \in DOMAIN calls /\ calls[c].at = "reuse"
    BY <1>1, <2>3 DEF RotateStep, SameCalls, SameWait, SameStage
  <2>4. ASSUME NEW b \in Tabs, StartStep(b) \/ ForgetStep(b)
        PROVE  /\ \A x \in DOMAIN calls : x \in DOMAIN calls' /\ Row(x)
               /\ c \in DOMAIN calls /\ calls[c].at = "reuse"
    <3>1. /\ \A x \in DOMAIN calls : x \in DOMAIN calls' /\ calls'[x] = calls[x]
          /\ \A x \in DOMAIN calls' \ DOMAIN calls : calls'[x].at = "sent"
      BY <2>4 DEF StartStep, ForgetStep, NewCall
    <3> QED  BY <1>1, <3>1
  <2>5. ASSUME NEW b \in Tabs, SettleStep(b) \/ SignInStep(b)
        PROVE  calls' = calls
    BY <2>5 DEF SettleStep, SignInStep
  <2>6. ASSUME NEW b \in Tabs, CatchUpStep(b)
        PROVE  /\ \A x \in DOMAIN calls : x \in DOMAIN calls' /\ Row(x)
               /\ c \in DOMAIN calls /\ calls[c].at = "reuse"
    <3>1. CASE calls' = calls
      BY <1>1, <3>1
    <3>2. CASE refreshing[b] # 0 /\ calls' = GiveUp(refreshing[b])
      <4>1. PICK r \in DOMAIN calls : r = refreshing[b]
        BY <3>2 DEF Ground, TabsOK
      <4>2. /\ SameCalls /\ calls'[r].lost
            /\ \A x \in DOMAIN calls : SameStage(x) /\ (x # r => SameWait(x))
        BY <3>2, <4>1, GivenUp DEF Ground
      <4> QED  BY <1>1, <4>2 DEF SameCalls, SameStage, SameWait
    <3> QED  BY <2>6, <3>1, <3>2 DEF CatchUpStep
  <2>7. CASE calls' = calls
    BY <1>1, <2>7
  <2> QED  BY <2>1, <2>2, <2>3, <2>4, <2>5, <2>6, <2>7, Kinds
<1>3. PICK d \in DOMAIN calls : Explains(d, c)
  <2>1. CASE calls[c].at = "reuse"
    BY <1>1, <1>2, <2>1 DEF ReuseHasCause, Explains, IsRefresh
  <2>2. CASE calls[c].at # "reuse"
    BY <1>1, <1>2, <2>2, UsedRowExplained DEF IsRefresh
  <2> QED  BY <2>1, <2>2
<1>4. Explains(d, c)'
  BY <1>2, <1>3, ExplanationKept
<1> QED  BY <1>2, <1>4

-----------------------------------------------------------------------------
(* The theorems.                                                           *)

LEMMA InitInv == Init => Inv
<1> SUFFICES ASSUME Init
             PROVE  Inv
  OBVIOUS
<1>1. 1 \in 1..MaxTokens /\ 1 \in 0..MaxTokens /\ 0 \in 0..MaxTokens /\ 0 \in 0..MaxCalls
  BY SessionsAssumption
<1>2. NewToken(1) \in Token /\ NewToken(1).family = 1 /\ ~NewToken(1).used
  BY <1>1 DEF NewToken, Token
<1>3. /\ tokens \in Seq(Token) /\ Len(tokens) = 1 /\ TokenIds = {1} /\ tokens[1] = NewToken(1)
  BY <1>2 DEF Init, TokenIds
<1>4. calls \in Seq(Call) /\ Len(calls) = 0 /\ DOMAIN calls = {}
  BY DEF Init
<1>5. Idle \in Request
  BY <1>1 DEF Idle, Request
<1>6. TypeOK
  BY <1>1, <1>3, <1>4, <1>5, SessionsAssumption DEF TypeOK, Init
<1>7. RotationOK
  BY <1>2, <1>3 DEF RotationOK
<1>8. GrantsOK
  BY <1>4 DEF GrantsOK
<1>9. TabsOK
  BY <1>3 DEF TabsOK, Init
<1>10. HandoverOK
  BY DEF HandoverOK, ComingUp, Init
<1>11. SpentOK /\ ReuseHasCause
  BY <1>4 DEF SpentOK, ReuseHasCause
<1> QED  BY <1>6, <1>7, <1>8, <1>9, <1>10, <1>11 DEF Inv

LEMMA NextInv ==
  ASSUME Inv, Next
  PROVE  Inv'
<1>1. Ground /\ RotationOK /\ Tabwise /\ TypeOK /\ GrantsOK /\ ReuseHasCause
  BY DEF Inv, Ground, Tabwise
<1>2. TypeOK'
  BY <1>1, Kinds
<1>3. ReuseHasCause'
  BY <1>1, ReuseStaysExplained
<1>4. Tabwise' /\ ((RowsKept /\ GrantsKept) \/ (RotationOK' /\ GrantsOK'))
  <2>1. CASE AnswerStep
    BY <1>1, <1>2, <2>1, AnswerKeepsTabs
  <2>2. CASE QuietStep
    BY <1>1, <1>2, <2>2, QuietKeepsTabs
  <2>3. ASSUME NEW c \in DOMAIN calls, RotateStep(c)
        PROVE  Tabwise' /\ RotationOK' /\ GrantsOK'
    BY <1>1, <1>2, <2>3, RotateKeepsTabs, RotationGrows
  <2>4. ASSUME NEW b \in Tabs, StartStep(b) \/ ForgetStep(b) \/ SettleStep(b)
                                \/ CatchUpStep(b) \/ SignInStep(b)
        PROVE  Tabwise' /\ RowsKept /\ GrantsKept
    BY <1>1, <1>2, <2>4, StartKeepsTabs, ForgetKeepsTabs, SettleKeepsTabs, CatchUpKeepsTabs,
       SignInKeepsTabs
  <2> QED  BY <1>1, <2>1, <2>2, <2>3, <2>4, Kinds
<1>5. RotationOK' /\ GrantsOK'
  BY <1>1, <1>2, <1>4, RotationKept
<1> QED  BY <1>2, <1>3, <1>4, <1>5 DEF Inv, Tabwise

LEMMA StutterInv ==
  ASSUME Inv, UNCHANGED vars
  PROVE  Inv'
<1>1. UNCHANGED <<tokens, calls, stored, mirror, stale, refreshing, request>>
  BY DEF vars
<1>2. TypeOK'
  BY <1>1 DEF Inv, TypeOK
<1>3. RotationOK'
  BY <1>1 DEF Inv, RotationOK, IsNext, IsRefresh, TokenIds
<1>4. GrantsOK'
  BY <1>1 DEF Inv, GrantsOK, IsNext, IsRefresh, TokenIds
<1>5. TabsOK'
  BY <1>1 DEF Inv, TabsOK, TokenIds
<1>6. HandoverOK'
  BY <1>1 DEF Inv, HandoverOK, ComingUp, Unknown, Over, Awaited, IsNext, IsRefresh, TokenIds
<1>7. SpentOK'
  BY <1>1 DEF Inv, SpentOK, Over, Awaited, IsNext, IsRefresh, TokenIds,
              AnsweredWhenOver, SpentWhenOver, LostForGood
<1>8. ReuseHasCause'
  BY <1>1 DEF Inv, ReuseHasCause, IsRefresh
<1> QED  BY <1>2, <1>3, <1>4, <1>5, <1>6, <1>7, <1>8 DEF Inv

\* The inductive invariant: every row but the last of its family was used by one
\* granted call; a successor is with nobody until the tab that waits for it
\* stores it; and a token whose refresh a tab has dealt with is gone for good.
THEOREM Invariance == Spec => []Inv
<1>1. Inv /\ [Next]_vars => Inv'
  BY NextInv, StutterInv
<1> QED  BY InitInv, <1>1, PTL DEF Spec

\* A session never has two live tokens, however many calls rotate it at once and
\* whichever of them is lost (auth.service.ts, refresh).
THEOREM SessionHasOneToken == Spec => []OneLiveToken
<1>1. Inv => OneLiveToken
  <2>1. SUFFICES ASSUME Inv, NEW t \in TokenIds, NEW u \in TokenIds, Live(t), Live(u),
                        tokens[t].family = tokens[u].family
                 PROVE  t = u
    BY DEF OneLiveToken
  <2>2. TypeOK /\ RotationOK
    BY <2>1 DEF Inv
  <2>3. t \in Nat /\ u \in Nat /\ ~tokens[t].used /\ ~tokens[u].used
    BY <2>1, <2>2, IdsAreNumbers DEF Live
  <2>4. ~(t < u) /\ ~(u < t)
    BY <2>1, <2>2, <2>3 DEF RotationOK
  <2> QED  BY <2>3, <2>4
<1> QED  BY <1>1, Invariance, PTL

\* No tab makes the API revoke its session by itself: when a refresh is taken for
\* a reuse, another tab presented the same token, or a tab had given up waiting
\* for a refresh of it (client.ts, refreshSession; auth.service.ts, refresh).
THEOREM ReuseIsNotSelfMade == Spec => []ReuseHasCause
<1>1. Inv => ReuseHasCause
  BY DEF Inv
<1> QED  BY <1>1, Invariance, PTL

\* A session comes back after a sign-out only by signing in, or in a tab that the
\* sign-out has not reached (tokens.ts, client.ts).
THEOREM SignOutsAreFinal == Spec => SignOutIsFinal
<1> DEFINE Final == stored = 0 /\ stored' # 0 =>
                      \/ tokens' # tokens
                      \/ \E b \in stale : mirror[b] # 0 /\ mirror'[b] = stored'
<1>1. ASSUME Inv, Next
      PROVE  Final
  <2>1. SUFFICES ASSUME stored = 0, stored' # 0, tokens' = tokens
                 PROVE  \E b \in stale : mirror[b] # 0 /\ mirror'[b] = stored'
    OBVIOUS
  <2>2. Ground /\ TypeOK /\ 0 \notin TokenIds
    BY <1>1, IdsAreNumbers DEF Inv, Ground
  <2>3. PICK b \in Tabs : SettleStep(b)
    <3>1. \A c \in DOMAIN calls : ~RotateStep(c)
      BY <2>1, <2>2 DEF RotateStep, client
    <3>2. \A b \in Tabs : ~SignInStep(b)
      BY <2>1, <2>2, CallTypes DEF SignInStep
    <3>3. ~AnswerStep /\ ~QuietStep
      BY <2>1 DEF AnswerStep, QuietStep, client, Stays
    <3>4. \A b \in Tabs : ~StartStep(b) /\ ~ForgetStep(b) /\ ~CatchUpStep(b)
      BY <2>1 DEF StartStep, ForgetStep, CatchUpStep, Stays, Store
    <3> QED  BY <1>1, <2>2, <3>1, <3>2, <3>3, <3>4, Kinds
  <2>4. mirror[b] = calls[refreshing[b]].token /\ refreshing[b] \in DOMAIN calls
        /\ mirror'[b] = stored'
    BY <2>1, <2>2, <2>3, Stored DEF SettleStep, Stays, Store, Ground, TabsOK
  <2>5. mirror[b] \in TokenIds /\ mirror[b] # 0
    BY <2>2, <2>4 DEF Ground, GrantsOK
  <2>6. b \in stale
    BY <2>1, <2>2, <2>5 DEF Ground, TabsOK
  <2> QED  BY <2>4, <2>5, <2>6
<1>2. ASSUME Inv, UNCHANGED vars
      PROVE  Final
  BY <1>2 DEF vars
<1>3. Inv /\ [Next]_vars => [Final]_vars
  BY <1>1, <1>2
<1> QED  BY <1>3, Invariance, PTL DEF Spec, SignOutIsFinal

=============================================================================
