---------------------------- MODULE JobQueueProofs ----------------------------
(***************************************************************************)
(* Lemmas about the steps that layout and design jobs share: those of the   *)
(* API, the user, the reaper and time.  They keep the types, they take no   *)
(* row back, and each is one update of one row's status.                     *)
(***************************************************************************)
EXTENDS JobQueue, TLAPS

\* A step that names no prover is given a minute of each.
USE SMTT(60), ZenonT(60)

-----------------------------------------------------------------------------
(* Type correctness.                                                       *)

\* The edits of a row that a step of JobQueue makes leave a row.
LEMMA EditedRow ==
  ASSUME NEW old \in Row
  PROVE  /\ NewRow("QUEUED") \in Row
         /\ [old EXCEPT !.status = "FAILED", !.error = "enqueue"] \in Row
         /\ [old EXCEPT !.status = "FAILED", !.error = "reaper"] \in Row
         /\ [old EXCEPT !.status = "CANCELED", !.abort = TRUE] \in Row
         /\ [old EXCEPT !.abort = TRUE] \in Row
         /\ [old EXCEPT !.overran = TRUE] \in Row
<1>1. /\ {"QUEUED", "FAILED", "CANCELED"} \in SUBSET Status
      /\ {"none", "enqueue", "reaper"} \in SUBSET ErrorSource
  BY DEF Status, Live, Terminal, ErrorSource
<1>2. NewRow("QUEUED") \in Row
  BY <1>1 DEF NewRow, Row
<1>3. [old EXCEPT !.status = "FAILED", !.error = "enqueue"] \in Row
  BY <1>1 DEF Row
<1>4. [old EXCEPT !.status = "FAILED", !.error = "reaper"] \in Row
  BY <1>1 DEF Row
<1>5. [old EXCEPT !.status = "CANCELED", !.abort = TRUE] \in Row
  BY <1>1 DEF Row
<1>6. [old EXCEPT !.abort = TRUE] \in Row
  BY DEF Row
<1>7. [old EXCEPT !.overran = TRUE] \in Row
  BY DEF Row
<1> QED  BY <1>2, <1>3, <1>4, <1>5, <1>6, <1>7

\* Replacing one row by a row keeps the table of rows.
LEMMA OneRowEdited ==
  ASSUME row \in [Jobs -> Row], NEW j \in Jobs, NEW new \in Row,
         row' = [row EXCEPT ![j] = new]
  PROVE  row' \in [Jobs -> Row]
OBVIOUS

\* A step that edits the rows, the API's and the client's state and nothing else.
LEMMA OnlyRowsEdited ==
  ASSUME JobTypeOK, row' \in [Jobs -> Row],
         api' \in [Jobs -> {"idle", "adding", "refused", "done"}],
         canceller' \in [Jobs -> {"idle", "sawQueued", "sawRunning"}],
         UNCHANGED <<age, queueVars, reaper>>
  PROVE  JobTypeOK'
BY DEF JobTypeOK, queueVars

\* A step of the API, the client, the reaper or time keeps the types.
LEMMA JobStepType == ASSUME JobTypeOK, JobStep PROVE JobTypeOK'
<1> USE DEF JobTypeOK
<1>0. ASSUME NEW j \in Jobs PROVE row[j] \in Row
  BY <1>0
<1>1. ASSUME NEW j \in Jobs, Create(j) PROVE JobTypeOK'
  <2>1. row' \in [Jobs -> Row]
    BY <1>0, <1>1, EditedRow, OneRowEdited DEF Create
  <2>2. api' \in [Jobs -> {"idle", "adding", "refused", "done"}]
    BY <1>1 DEF Create
  <2> QED  BY <1>1, <2>1, <2>2, OnlyRowsEdited DEF Create
<1>2. ASSUME NEW j \in Jobs, AddSucceeds(j) PROVE JobTypeOK'
  <2>1. queueJob' \in [Jobs -> QueueState]
    BY <1>2 DEF AddSucceeds, QueueState
  <2>2. api' \in [Jobs -> {"idle", "adding", "refused", "done"}]
    BY <1>2 DEF AddSucceeds
  <2> QED  BY <1>2, <2>1, <2>2 DEF AddSucceeds
<1>3. ASSUME NEW j \in Jobs, AddThrows(j) PROVE JobTypeOK'
  <2>1. queueJob' \in [Jobs -> QueueState]
    <3>1. CASE queueJob' = [queueJob EXCEPT ![j] = "waiting"]
      BY <3>1 DEF QueueState
    <3>2. CASE UNCHANGED queueJob
      BY <3>2
    <3> QED  BY <1>3, <3>1, <3>2 DEF AddThrows
  <2>2. api' \in [Jobs -> {"idle", "adding", "refused", "done"}]
    BY <1>3 DEF AddThrows
  <2> QED  BY <1>3, <2>1, <2>2 DEF AddThrows
<1>4. ASSUME NEW j \in Jobs, FailRefused(j) PROVE JobTypeOK'
  <2>1. row' \in [Jobs -> Row]
    <3>1. CASE row' = [row EXCEPT ![j] = [@ EXCEPT !.status = "FAILED",
                                                  !.error = "enqueue"]]
      BY <1>0, <3>1, EditedRow, OneRowEdited
    <3>2. CASE UNCHANGED row
      BY <3>2
    <3> QED  BY <1>4, <3>1, <3>2 DEF FailRefused
  <2>2. api' \in [Jobs -> {"idle", "adding", "refused", "done"}]
    BY <1>4 DEF FailRefused
  <2> QED  BY <1>4, <2>1, <2>2, OnlyRowsEdited DEF FailRefused
<1>5. ASSUME NEW j \in Jobs, ApiCrash(j) PROVE JobTypeOK'
  BY <1>5 DEF ApiCrash, queueVars
<1>6. ASSUME NEW j \in Jobs, CancelRead(j) PROVE JobTypeOK'
  <2>1. canceller' \in [Jobs -> {"idle", "sawQueued", "sawRunning"}]
    BY <1>6 DEF CancelRead
  <2> QED  BY <1>6, <2>1, OnlyRowsEdited DEF CancelRead
<1>7. ASSUME NEW j \in Jobs, CancelQueued(j) \/ CancelRunning(j) PROVE JobTypeOK'
  <2>1. row' \in [Jobs -> Row]
    <3>1. CASE CancelQueued(j)
      BY <1>0, <3>1, EditedRow, OneRowEdited DEF CancelQueued
    <3>2. CASE CancelRunning(j)
      <4>1. row' = [row EXCEPT ![j] = [row[j] EXCEPT !.abort = TRUE]]
        BY <3>2 DEF CancelRunning
      <4> QED  BY <1>0, <4>1, EditedRow, OneRowEdited
    <3> QED  BY <1>7, <3>1, <3>2
  <2>2. canceller' \in [Jobs -> {"idle", "sawQueued", "sawRunning"}]
    BY <1>7 DEF CancelQueued, CancelRunning
  <2> QED  BY <1>7, <2>1, <2>2, OnlyRowsEdited DEF CancelQueued, CancelRunning
<1>8. ASSUME NEW j \in Jobs, CancelLost(j) PROVE JobTypeOK'
  BY <1>8 DEF CancelLost, queueVars
<1>9. ASSUME NEW j \in Jobs, Evict(j) PROVE JobTypeOK'
  <2>1. queueJob' \in [Jobs -> QueueState]
    BY <1>9 DEF Evict, QueueState
  <2> QED  BY <1>9, <2>1 DEF Evict
<1>10. ASSUME NEW j \in Jobs, Ages(j) PROVE JobTypeOK'
  <2>1. age' \in [Jobs -> 0..2]
    BY <1>10 DEF Ages
  <2> QED  BY <1>10, <2>1 DEF Ages, queueVars
<1>11. ASSUME NEW j \in Jobs, Overruns(j) PROVE JobTypeOK'
  <2>1. row' = [row EXCEPT ![j] = [row[j] EXCEPT !.overran = TRUE]]
    BY <1>11 DEF Overruns
  <2>2. row' \in [Jobs -> Row]
    BY <1>0, <2>1, EditedRow, OneRowEdited
  <2> QED  BY <1>11, <2>2, OnlyRowsEdited DEF Overruns
<1>12. ASSUME NEW r \in Reapers, SweepStart(r) PROVE JobTypeOK'
  <2>1. ASSUME NEW j \in Jobs PROVE Overdue(j) \in BOOLEAN
    <3>1. row[j].started \in BOOLEAN /\ row[j].overran \in BOOLEAN
      BY <1>0, <2>1 DEF Row
    <3> QED  BY <3>1 DEF Overdue
  <2>2. {[id |-> j, overdue |-> Overdue(j)] :
           j \in {i \in Jobs : row[i].status \in Live /\ age[i] >= 1}}
           \in SUBSET Sighting
    BY <2>1 DEF Sighting
  <2>3. reaper' \in [Reapers -> Sweep]
    BY <1>12, <2>2 DEF SweepStart, Sweep
  <2> QED  BY <1>12, <2>3 DEF SweepStart, queueVars
<1>13. ASSUME NEW r \in Reapers, NEW seen \in Sighting, SweepLook(r, seen)
       PROVE JobTypeOK'
  <2>1. reaper' \in [Reapers -> Sweep]
    <3>1. seen.id \in Jobs
      BY <1>13 DEF Sighting
    <3>2. reaper[r].todo \ {seen} \in SUBSET Sighting
      BY DEF Sweep
    <3>3. (IF ReapDecision(seen, queueJob[seen.id]) THEN {seen.id} ELSE {})
             \in SUBSET Jobs
      BY <3>1
    <3> QED  BY <1>13, <3>2, <3>3 DEF SweepLook, Sweep
  <2> QED  BY <1>13, <2>1 DEF SweepLook, queueVars
<1>14. ASSUME NEW r \in Reapers, SweepWrite(r) PROVE JobTypeOK'
  <2>1. reaper' \in [Reapers -> Sweep]
    BY <1>14, ZenonT(60) DEF SweepWrite, Sweep
  <2>2. ASSUME NEW j \in Jobs PROVE row'[j] \in Row
    <3>1. row[j] \in Row /\ [row[j] EXCEPT !.status = "FAILED", !.error = "reaper"] \in Row
      BY <1>0, EditedRow
    <3>2. row'[j] \in {row[j], [row[j] EXCEPT !.status = "FAILED", !.error = "reaper"]}
      BY <1>14 DEF SweepWrite
    <3> QED  BY <3>1, <3>2
  <2>3. row' = [j \in Jobs |-> row'[j]]
    BY <1>14 DEF SweepWrite
  <2>4. row' \in [Jobs -> Row]
    BY <2>2, <2>3
  <2> QED  BY <1>14, <2>1, <2>4 DEF SweepWrite, queueVars
<1>15. ASSUME NEW r \in Reapers, SweepSkip(r) PROVE JobTypeOK'
  <2>1. reaper' \in [Reapers -> Sweep]
    <3>1. CASE reaper' = [reaper EXCEPT ![r].doomed = {}]
      BY <3>1 DEF Sweep
    <3>2. ASSUME NEW seen \in reaper[r].todo,
                 reaper' = [reaper EXCEPT ![r].todo = @ \ {seen}]
          PROVE  reaper' \in [Reapers -> Sweep]
      BY <3>2 DEF Sweep
    <3> QED  BY <1>15, <3>1, <3>2 DEF SweepSkip
  <2> QED  BY <1>15, <2>1 DEF SweepSkip, queueVars
<1> QED
  BY <1>1, <1>2, <1>3, <1>4, <1>5, <1>6, <1>7, <1>8, <1>9, <1>10, <1>11,
     <1>12, <1>13, <1>14, <1>15 DEF JobStep

-----------------------------------------------------------------------------
(* What the steps do to a row.                                            *)

\* A row exists from the API's insert on, and whatever refers to it came later.
RowExists ==
    \A j \in Jobs :
        /\ api[j] = "idle" <=> row[j].status = "ABSENT"
        /\ canceller[j] # "idle" => api[j] # "idle"
        /\ queueJob[j] # "missing" => api[j] # "idle"

\* What no step does to an existing row: delete it, queue it again, take a
\* cancel back.
Grows(j) ==
    row[j].status # "ABSENT" =>
        /\ row'[j].status # "ABSENT"
        /\ row'[j].status = "QUEUED" => row[j].status = "QUEUED"
        /\ row[j].abort => row'[j].abort

\* The steps that leave every row as it is.
RowIdle(j) ==
    \/ AddSucceeds(j) \/ AddThrows(j) \/ ApiCrash(j) \/ CancelRead(j)
    \/ CancelLost(j) \/ Evict(j) \/ Ages(j)

SweepIdle(r) ==
    \/ SweepStart(r) \/ SweepSkip(r)
    \/ \E seen \in Sighting : SweepLook(r, seen)

\* The API, the client, the reaper and time let the rows grow.
LEMMA JobStepGrows ==
  ASSUME JobTypeOK, RowExists, JobStep, NEW i \in Jobs
  PROVE  Grows(i)
<1> USE DEF Grows
<1>0. row \in [Jobs -> Row] /\ row[i] \in Row
  BY DEF JobTypeOK
<1>1. ASSUME NEW j \in Jobs, Create(j) PROVE Grows(i)
  BY <1>0, <1>1 DEF Create, NewRow, RowExists
<1>2. ASSUME NEW j \in Jobs, FailRefused(j) PROVE Grows(i)
  BY <1>0, <1>2, ZenonT(60) DEF FailRefused, Row
<1>3. ASSUME NEW j \in Jobs, CancelQueued(j) PROVE Grows(i)
  BY <1>0, <1>3 DEF CancelQueued, Row
<1>4. ASSUME NEW j \in Jobs, CancelRunning(j) PROVE Grows(i)
  BY <1>0, <1>4 DEF CancelRunning, Row
<1>5. ASSUME NEW j \in Jobs, Overruns(j) PROVE Grows(i)
  BY <1>0, <1>5 DEF Overruns, Row
<1>6. ASSUME NEW r \in Reapers, SweepWrite(r) PROVE Grows(i)
  BY <1>0, <1>6 DEF SweepWrite, Row, Live
<1>7. CASE UNCHANGED row
  BY <1>0, <1>7
<1>8. ASSUME NEW j \in Jobs, RowIdle(j) PROVE UNCHANGED row
  BY <1>8 DEF RowIdle, AddSucceeds, AddThrows, ApiCrash, CancelRead, CancelLost, Evict, Ages
<1>9. ASSUME NEW r \in Reapers, SweepIdle(r) PROVE UNCHANGED row
  BY <1>9 DEF SweepIdle, SweepStart, SweepSkip, SweepLook
<1> QED
  BY <1>1, <1>2, <1>3, <1>4, <1>5, <1>6, <1>7, <1>8, <1>9 DEF JobStep, RowIdle, SweepIdle

\* ... and a row before whatever refers to it.
LEMMA JobStepExists == ASSUME JobTypeOK, RowExists, JobStep PROVE RowExists'
<1> USE DEF RowExists
<1>0. JobTypeOK /\ RowExists
  OBVIOUS
<1> USE DEF JobTypeOK, queueVars
<1>1. ASSUME NEW j \in Jobs, Create(j) PROVE RowExists'
  BY <1>0, <1>1 DEF Create, NewRow
<1>2. ASSUME NEW j \in Jobs, AddSucceeds(j) \/ AddThrows(j) PROVE RowExists'
  BY <1>0, <1>2 DEF AddSucceeds, AddThrows
<1>3. ASSUME NEW j \in Jobs, FailRefused(j) PROVE RowExists'
  <2>1. row[j] \in Row
    BY <1>0
  <2>2. \A i \in Jobs : row'[i].status = "ABSENT" <=> row[i].status = "ABSENT"
    <3>1. CASE UNCHANGED row
      BY <3>1
    <3>2. CASE /\ row[j].status = "QUEUED"
               /\ row' = [row EXCEPT ![j] = [@ EXCEPT !.status = "FAILED",
                                                     !.error = "enqueue"]]
      BY <1>0, <2>1, <3>2 DEF Row
    <3> QED  BY <1>3, <3>1, <3>2 DEF FailRefused
  <2> QED  BY <1>0, <1>3, <2>2 DEF FailRefused
<1>4. ASSUME NEW j \in Jobs, ApiCrash(j) PROVE RowExists'
  BY <1>0, <1>4 DEF ApiCrash
<1>5. ASSUME NEW j \in Jobs, CancelRead(j) PROVE RowExists'
  BY <1>0, <1>5 DEF CancelRead
<1>6. ASSUME NEW j \in Jobs, CancelQueued(j) \/ CancelRunning(j) PROVE RowExists'
  <2>1. row[j] \in Row
    BY <1>0
  <2>2. \A i \in Jobs : row'[i].status = "ABSENT" <=> row[i].status = "ABSENT"
    <3>1. row[j].status # "ABSENT"
      BY <1>0, <1>6 DEF CancelQueued, CancelRunning
    <3>2. row'[j].status # "ABSENT"
      <4>1. CASE CancelQueued(j)
        BY <1>0, <2>1, <4>1 DEF CancelQueued, Row
      <4>2. CASE CancelRunning(j)
        BY <1>0, <2>1, <3>1, <4>2 DEF CancelRunning, Row
      <4> QED  BY <1>6, <4>1, <4>2
    <3>3. \A i \in Jobs : i # j => row'[i] = row[i]
      BY <1>0, <1>6 DEF CancelQueued, CancelRunning
    <3> QED  BY <3>1, <3>2, <3>3
  <2> QED  BY <1>0, <1>6, <2>2 DEF CancelQueued, CancelRunning
<1>7. ASSUME NEW j \in Jobs, CancelLost(j) PROVE RowExists'
  BY <1>0, <1>7 DEF CancelLost
<1>8. ASSUME NEW j \in Jobs, Evict(j) PROVE RowExists'
  BY <1>0, <1>8 DEF Evict
<1>9. ASSUME NEW j \in Jobs, Ages(j) \/ Overruns(j) PROVE RowExists'
  <2>1. row[j] \in Row
    BY <1>0
  <2>2. \A i \in Jobs : row'[i].status = row[i].status
    <3>1. CASE Ages(j)
      BY <3>1 DEF Ages
    <3>2. CASE Overruns(j)
      <4>1. row' = [row EXCEPT ![j] = [row[j] EXCEPT !.overran = TRUE]]
        BY <3>2 DEF Overruns
      <4>2. [row[j] EXCEPT !.overran = TRUE].status = row[j].status
        BY <2>1 DEF Row
      <4>3. row \in [Jobs -> Row]
        BY <1>0
      <4> HIDE DEF JobTypeOK
      <4> QED  BY <4>1, <4>2, <4>3
    <3> QED  BY <1>9, <3>1, <3>2
  <2> QED  BY <1>0, <1>9, <2>2 DEF Ages, Overruns
<1>10. ASSUME NEW r \in Reapers, SweepWrite(r) PROVE RowExists'
  <2>1. \A i \in Jobs : row[i] \in Row
    BY <1>0
  <2>2. \A i \in Jobs : row'[i].status = "ABSENT" <=> row[i].status = "ABSENT"
    BY <1>0, <1>10, <2>1 DEF SweepWrite, Row, Live
  <2> QED  BY <1>0, <1>10, <2>2 DEF SweepWrite
<1>11. ASSUME NEW r \in Reapers,
              \/ SweepStart(r) \/ SweepSkip(r)
              \/ \E seen \in Sighting : SweepLook(r, seen)
       PROVE  RowExists'
  BY <1>0, <1>11 DEF SweepStart, SweepSkip, SweepLook
<1> QED
  BY <1>1, <1>2, <1>3, <1>4, <1>5, <1>6, <1>7, <1>8, <1>9, <1>10, <1>11
     DEF JobStep

-----------------------------------------------------------------------------
(* What the steps are in the life of a job.                                *)

\* A sweep writes one row at a time.
OneDoomed == \A r \in Reapers : \A i, j \in reaper[r].doomed : i = j

LEMMA JobStepOneDoomed ==
  ASSUME JobTypeOK, OneDoomed, JobStep
  PROVE  OneDoomed'
<1> USE DEF OneDoomed, JobTypeOK, Sweep
<1>1. ASSUME NEW r \in Reapers, SweepStart(r) PROVE OneDoomed'
  BY <1>1 DEF SweepStart
<1>2. ASSUME NEW r \in Reapers, NEW seen \in Sighting, SweepLook(r, seen)
      PROVE OneDoomed'
  BY <1>2 DEF SweepLook
<1>3. ASSUME NEW r \in Reapers, SweepWrite(r) PROVE OneDoomed'
  <2>1. \A q \in Reapers : reaper'[q].doomed \subseteq reaper[q].doomed
    <3>1. reaper' = [reaper EXCEPT ![r].doomed = {}]
      BY <1>3 DEF SweepWrite
    <3> QED  BY <3>1
  <2> QED  BY <2>1
<1>4. ASSUME NEW r \in Reapers, SweepSkip(r) PROVE OneDoomed'
  BY <1>4 DEF SweepSkip
<1>5. CASE UNCHANGED reaper
  BY <1>5
<1>6. ASSUME NEW j \in Jobs,
             \/ Create(j) \/ AddSucceeds(j) \/ AddThrows(j) \/ FailRefused(j)
             \/ ApiCrash(j) \/ CancelRead(j) \/ CancelQueued(j)
             \/ CancelRunning(j) \/ CancelLost(j) \/ Evict(j) \/ Ages(j)
             \/ Overruns(j)
      PROVE  UNCHANGED reaper
  BY <1>6 DEF Create, AddSucceeds, AddThrows, FailRefused, ApiCrash, CancelRead,
        CancelQueued, CancelRunning, CancelLost, Evict, Ages, Overruns
<1> QED
  BY <1>1, <1>2, <1>3, <1>4, <1>5, <1>6 DEF JobStep

\* What a step of the API, the client, the reaper or time may make of the status of j.
Moves(j, to) ==
    \/ row[j].status = "ABSENT" /\ to = "QUEUED"
    \/ row[j].status \in Live /\ to = "FAILED"
    \/ /\ row[j].status \in Live \/ (row[j].status \in Terminal /\ "CANCELED" \in StaleCancels(j))
       /\ to = "CANCELED"
    \/ row[j].status = to

\* One such step writes one row at most.
LEMMA JobStepUpdate ==
  ASSUME JobTypeOK, RowExists, OneDoomed, JobStep
  PROVE  \/ UNCHANGED row
         \/ \E j \in Jobs, new \in Row :
               row' = [row EXCEPT ![j] = new] /\ Moves(j, new.status)
<1> DEFINE Update(j, new) ==
             new \in Row /\ row' = [row EXCEPT ![j] = new] /\ Moves(j, new.status)
<1>0. /\ row \in [Jobs -> Row]
      /\ \A j \in Jobs : row[j] \in Row /\ row[j].status \in Live \cup Terminal \cup {"ABSENT"}
  BY DEF JobTypeOK, Row, Status
<1>1. ASSUME NEW j \in Jobs, Create(j) PROVE \E new : Update(j, new)
  <2>1. Update(j, NewRow("QUEUED"))
    BY <1>0, <1>1, EditedRow DEF Create, NewRow, RowExists, Moves
  <2> QED  BY <2>1
<1>2. ASSUME NEW j \in Jobs, FailRefused(j) PROVE UNCHANGED row \/ \E new : Update(j, new)
  <2> DEFINE new == [row[j] EXCEPT !.status = "FAILED", !.error = "enqueue"]
  <2>1. new.status = "FAILED" /\ new \in Row
    BY <1>0, EditedRow DEF Row
  <2>2. CASE row[j].status = "QUEUED" /\ row' = [row EXCEPT ![j] = new]
    <3> HIDE DEF new
    <3>1. Update(j, new)
      BY <2>1, <2>2 DEF Moves, Live
    <3> QED  BY <3>1
  <2> QED  BY <1>2, <2>2 DEF FailRefused
<1>3. ASSUME NEW j \in Jobs, CancelQueued(j) PROVE \E new : Update(j, new)
  <2> DEFINE new == [row[j] EXCEPT !.status = "CANCELED", !.abort = TRUE]
  <2>1. new.status = "CANCELED" /\ new \in Row /\ row' = [row EXCEPT ![j] = new]
    BY <1>0, <1>3, EditedRow DEF Row, CancelQueued
  <2>2. row[j].status \in Live \cup Terminal
    BY <1>0, <1>3 DEF CancelQueued, RowExists
  <2> HIDE DEF new
  <2>3. "CANCELED" \in StaleCancels(j)
    BY <1>3 DEF CancelQueued, StaleCancels
  <2>4. Update(j, new)
    BY <2>1, <2>2, <2>3 DEF Moves
  <2> QED  BY <2>4
<1>4. ASSUME NEW j \in Jobs, CancelRunning(j) PROVE \E new : Update(j, new)
  <2> DEFINE new == [row[j] EXCEPT !.abort = TRUE]
  <2>1. new.status = row[j].status /\ new \in Row /\ row' = [row EXCEPT ![j] = new]
    BY <1>0, <1>4, EditedRow DEF Row, CancelRunning
  <2> HIDE DEF new
  <2>2. Update(j, new)
    BY <2>1 DEF Moves
  <2> QED  BY <2>2
<1>5. ASSUME NEW j \in Jobs, Overruns(j) PROVE \E new : Update(j, new)
  <2> DEFINE new == [row[j] EXCEPT !.overran = TRUE]
  <2>1. new.status = row[j].status /\ new \in Row /\ row' = [row EXCEPT ![j] = new]
    BY <1>0, <1>5, EditedRow DEF Row, Overruns
  <2> HIDE DEF new
  <2>2. Update(j, new)
    BY <2>1 DEF Moves
  <2> QED  BY <2>2
<1>6. ASSUME NEW r \in Reapers, SweepWrite(r) PROVE \E j \in Jobs : \E new : Update(j, new)
  <2>1. PICK j \in Jobs : reaper[r].doomed = {j}
    <3>1. reaper[r] \in Sweep
      BY DEF JobTypeOK
    <3>2. reaper[r].doomed # {} /\ reaper[r].doomed \subseteq Jobs
      BY <1>6, <3>1 DEF SweepWrite, Sweep
    <3>3. \A i, k \in reaper[r].doomed : i = k
      BY DEF OneDoomed
    <3>4. PICK j \in reaper[r].doomed : TRUE
      BY <3>2
    <3>5. reaper[r].doomed = {j}
      BY <3>3, <3>4
    <3> QED  BY <3>2, <3>5
  <2> DEFINE new == IF row[j].status \in Live
                    THEN [row[j] EXCEPT !.status = "FAILED", !.error = "reaper"]
                    ELSE row[j]
  <2>2. row' = [row EXCEPT ![j] = new]
    BY <1>0, <1>6, <2>1 DEF SweepWrite
  <2>3. new.status = (IF row[j].status \in Live THEN "FAILED" ELSE row[j].status) /\ new \in Row
    BY <1>0, EditedRow DEF Row
  <2> HIDE DEF new
  <2>4. Update(j, new)
    BY <2>2, <2>3 DEF Moves
  <2> QED  BY <2>4
<1>7. ASSUME NEW j \in Jobs, RowIdle(j) PROVE UNCHANGED row
  BY <1>7 DEF RowIdle, AddSucceeds, AddThrows, ApiCrash, CancelRead, CancelLost, Evict, Ages
<1>8. ASSUME NEW r \in Reapers, SweepIdle(r) PROVE UNCHANGED row
  BY <1>8 DEF SweepIdle, SweepStart, SweepSkip, SweepLook
<1> HIDE DEF Update
<1>9. UNCHANGED row \/ \E j \in Jobs : \E new : Update(j, new)
  BY <1>1, <1>2, <1>3, <1>4, <1>5, <1>6, <1>7, <1>8 DEF JobStep, RowIdle, SweepIdle
<1> QED  BY <1>9 DEF Update

=============================================================================
