----------------------------- MODULE AssetStore -----------------------------
(***************************************************************************)
(* The model files of an organization: objects in S3, the Asset rows that  *)
(* refer to them, and what creates and removes the two.  A client uploads  *)
(* to a presigned URL and then commits the key (assets.service.ts); a      *)
(* commit passes the storage gate, whose check and insert run under an     *)
(* advisory lock (usage.service.ts); deleting an asset removes its row and  *)
(* then its object; the operator's sweep removes objects that no row       *)
(* refers to (admin-storage.service.ts).  Database and S3 share no         *)
(* transaction: each statement and each S3 request is a step.              *)
(***************************************************************************)
EXTENDS Naturals, FiniteSets

CONSTANTS
    Keys,       \* object keys handed out by presign
    Assets,     \* commit calls, each with the id of the row it may insert
    Nobody,     \* no commit holds the lock
    Limits,     \* storage limits the operator sets; 0 is none
    MaxSpill    \* bound: results spilled to S3

ASSUME AssetStoreAssumption ==
    /\ Nobody \notin Assets /\ IsFiniteSet(Assets)
    /\ Limits \in SUBSET Nat /\ 0 \in Limits
    /\ MaxSpill \in Nat

VARIABLES
    object,     \* the object under each key, and whether it is past the grace
    asset,      \* each commit, its row, and the call that deletes the row
    lock,       \* who holds the organization's storage lock
    gate,       \* the organization's suspension and storage limit
    spilled,    \* bytes of spilled results (a worker's, not an asset's)
    sweep       \* the operator's sweep

vars == <<object, asset, lock, gate, spilled, sweep>>

-----------------------------------------------------------------------------

\* checked: the limit, as read under the lock, and the spilled bytes beside it;
\* raced: the row went in while a deletion of its key was past its check;
\* unsure: the second look at the object failed; clean: the object has not been
\* uploaded again since the row's deletion, which ended without an error.
Asset == [key : Keys,
          commit : {"none", "headed", "gated", "free", "checked", "inserted",
                    "rollback", "rolledBack", "ok", "refused"},
          row : BOOLEAN,
          delete : {"none", "rowGone", "unreferenced", "done"},
          checked : [limit : Nat, spilled : Nat],
          raced : BOOLEAN, unsure : BOOLEAN, clean : BOOLEAN]

NoAsset(k) == [key |-> k, commit |-> "none", row |-> FALSE, delete |-> "none",
               checked |-> [limit |-> 0, spilled |-> 0],
               raced |-> FALSE, unsure |-> FALSE, clean |-> FALSE]

TypeOK ==
    /\ object \in [Keys -> {"none", "fresh", "old"}]
    /\ asset \in [Assets -> Asset]
    /\ lock \in Assets \cup {Nobody}
    /\ gate \in [suspended : BOOLEAN, limit : Limits]
    /\ spilled \in 0..MaxSpill
    /\ sweep \in [at : {"idle", "listed", "decided", "rechecked"}, keys : SUBSET Keys]

\* Which key a commit will name is its client's choice.
Init ==
    /\ object = [k \in Keys |-> "none"]
    /\ asset \in [Assets -> {NoAsset(k) : k \in Keys}]
    /\ lock = Nobody
    /\ gate \in [suspended : {FALSE}, limit : Limits]
    /\ spilled = 0
    /\ sweep = [at |-> "idle", keys |-> {}]

-----------------------------------------------------------------------------
(* What the gate and the deletions read.                                   *)

Rows == {a \in Assets : asset[a].row}

\* Every object has the size 1.
AssetBytes == Cardinality(Rows)

Referenced(k) == \E a \in Rows : asset[a].key = k

\* projected <= limit; no limit, no check.
Fits == gate.limit = 0 \/ AssetBytes + spilled + 1 <= gate.limit

\* A deletion of k has checked that nobody refers to it and not yet removed it.
InWindow(k) ==
    \/ sweep.at = "rechecked" /\ k \in sweep.keys
    \/ \E b \in Assets : asset[b].key = k /\ asset[b].delete = "unreferenced"

-----------------------------------------------------------------------------
(* Upload.  presignUpload refuses a suspended organization and one whose    *)
(* rows leave no room; the URL can be used as long as it is valid.         *)

Upload(k) ==
    /\ object[k] = "none"
    /\ ~gate.suspended /\ Fits
    /\ object' = [object EXCEPT ![k] = "fresh"]
    /\ asset' = [a \in Assets |-> IF asset[a].key = k
                                  THEN [asset[a] EXCEPT !.clean = FALSE]
                                  ELSE asset[a]]
    /\ UNCHANGED <<lock, gate, spilled, sweep>>

\* The object passes the sweep's cutoff (which an operator may set to zero days).
Age(k) ==
    /\ object[k] = "fresh"
    /\ object' = [object EXCEPT ![k] = "old"]
    /\ UNCHANGED <<asset, lock, gate, spilled, sweep>>

-----------------------------------------------------------------------------
(* commitAsset and createAssetGuarded.                                     *)

At(a, stage) == asset[a].commit = stage

Commit(a, stage) == [asset EXCEPT ![a].commit = stage]

\* The object must be there; its size is taken from S3.
HeadObject(a) ==
    /\ At(a, "none")
    /\ asset' = Commit(a, IF object[asset[a].key] = "none" THEN "refused" ELSE "headed")
    /\ UNCHANGED <<object, lock, gate, spilled, sweep>>

\* loadOrgGate, before the lock: suspension, and whether any limit is set.
ReadGate(a) ==
    /\ At(a, "headed")
    /\ asset' = Commit(a, IF gate.suspended THEN "refused"
                          ELSE IF gate.limit = 0 THEN "free" ELSE "gated")
    /\ UNCHANGED <<object, lock, gate, spilled, sweep>>

\* Mutant of LockAndCheck: the check runs without the lock.
CheckUnlocked(a) ==
    /\ At(a, "gated")
    /\ asset' = IF Fits
                THEN [asset EXCEPT ![a] = [@ EXCEPT !.commit = "checked",
                        !.checked = [limit |-> gate.limit, spilled |-> spilled]]]
                ELSE Commit(a, "refused")
    /\ UNCHANGED <<object, lock, gate, spilled, sweep>>

\* withOrgLock and assertStorageQuota: the limit is read again under the lock,
\* and a refusal rolls the transaction back, which gives the lock up.
LockAndCheck(a) ==
    /\ At(a, "gated") /\ lock = Nobody
    /\ IF Fits
       THEN /\ lock' = a
            /\ asset' = [asset EXCEPT ![a] = [@ EXCEPT !.commit = "checked",
                           !.checked = [limit |-> gate.limit, spilled |-> spilled]]]
       ELSE asset' = Commit(a, "refused") /\ UNCHANGED lock
    /\ UNCHANGED <<object, gate, spilled, sweep>>

\* The insert; with a limit, it commits the transaction and frees the lock.
Insert(a) ==
    /\ At(a, "free") \/ At(a, "checked")
    /\ asset' = [asset EXCEPT ![a] = [@ EXCEPT !.commit = "inserted", !.row = TRUE,
                                               !.raced = InWindow(asset[a].key)]]
    /\ lock' = IF lock = a THEN Nobody ELSE lock
    /\ UNCHANGED <<object, gate, spilled, sweep>>

\* Mutant of HeadAgain: the commit ends with its insert.
NoHeadAgain(a) ==
    /\ At(a, "inserted")
    /\ asset' = Commit(a, "ok")
    /\ UNCHANGED <<object, lock, gate, spilled, sweep>>

\* The object is looked at again.  Only a not-found rolls back; any other error
\* keeps the row.
HeadAgain(a) ==
    /\ At(a, "inserted")
    /\ \/ asset' = Commit(a, IF object[asset[a].key] = "none" THEN "rollback" ELSE "ok")
       \/ asset' = [Commit(a, "ok") EXCEPT ![a].unsure = TRUE]
    /\ UNCHANGED <<object, lock, gate, spilled, sweep>>

\* The row may be gone already, deleted by another call; that error is dropped.
RollBack(a) ==
    /\ At(a, "rollback")
    /\ asset' = [Commit(a, "rolledBack") EXCEPT ![a].row = FALSE]
    /\ UNCHANGED <<object, lock, gate, spilled, sweep>>

-----------------------------------------------------------------------------
(* deleteAsset, from the moment an administrator's call removes the row.   *)

DeleteRow(a) ==
    /\ asset[a].row /\ asset[a].delete = "none"
    /\ asset' = [asset EXCEPT ![a] = [@ EXCEPT !.row = FALSE, !.delete = "rowGone",
                                               !.clean = TRUE]]
    /\ UNCHANGED <<object, lock, gate, spilled, sweep>>

\* Mutant of CountReferences: the references are counted before the row is gone.
CountWithOwn(a) ==
    /\ asset[a].delete = "rowGone"
    /\ asset' = [asset EXCEPT ![a].delete =
                   IF \E b \in Rows \cup {a} : asset[b].key = asset[a].key
                   THEN "done" ELSE "unreferenced"]
    /\ UNCHANGED <<object, lock, gate, spilled, sweep>>

\* The object stays if another row has its key.
CountReferences(a) ==
    /\ asset[a].delete = "rowGone"
    /\ asset' = [asset EXCEPT ![a].delete =
                   IF Referenced(asset[a].key) THEN "done" ELSE "unreferenced"]
    /\ UNCHANGED <<object, lock, gate, spilled, sweep>>

DeleteObject(a) ==
    /\ asset[a].delete = "unreferenced"
    /\ object' = [object EXCEPT ![asset[a].key] = "none"]
    /\ asset' = [asset EXCEPT ![a].delete = "done"]
    /\ UNCHANGED <<lock, gate, spilled, sweep>>

\* The count or the S3 request fails: logged, and the delete has succeeded.
DeleteFails(a) ==
    /\ asset[a].delete \in {"rowGone", "unreferenced"}
    /\ asset' = [asset EXCEPT ![a] = [@ EXCEPT !.delete = "done", !.clean = FALSE]]
    /\ UNCHANGED <<object, lock, gate, spilled, sweep>>

-----------------------------------------------------------------------------
(* sweepOrphanModelAssets: list, decide, and per batch check again, delete. *)

List ==
    /\ sweep.at = "idle"
    /\ sweep' = [at |-> "listed", keys |-> {k \in Keys : object[k] = "old"}]
    /\ UNCHANGED <<object, asset, lock, gate, spilled>>

\* A sweep that only reports ends here.
Decide ==
    /\ sweep.at = "listed"
    /\ \/ sweep' = [at |-> "decided", keys |-> {k \in sweep.keys : ~Referenced(k)}]
       \/ sweep' = [at |-> "idle", keys |-> {}]
    /\ UNCHANGED <<object, asset, lock, gate, spilled>>

Recheck ==
    /\ sweep.at = "decided"
    /\ sweep' = [at |-> "rechecked", keys |-> {k \in sweep.keys : ~Referenced(k)}]
    /\ UNCHANGED <<object, asset, lock, gate, spilled>>

\* S3 answers with the keys it could not delete.
DeleteBatch ==
    /\ sweep.at = "rechecked"
    /\ \E failed \in SUBSET sweep.keys :
          object' = [k \in Keys |-> IF k \in sweep.keys \ failed THEN "none" ELSE object[k]]
    /\ sweep' = [at |-> "idle", keys |-> {}]
    /\ UNCHANGED <<asset, lock, gate, spilled>>

-----------------------------------------------------------------------------
(* The rest of the organization's life: the operator suspends, reinstates  *)
(* and sets the limit; a worker spills a result, outside every lock.       *)

SetGate(suspended, limit) ==
    /\ gate' = [suspended |-> suspended, limit |-> limit]
    /\ UNCHANGED <<object, asset, lock, spilled, sweep>>

Spill ==
    /\ spilled < MaxSpill
    /\ spilled' = spilled + 1
    /\ UNCHANGED <<object, asset, lock, gate, sweep>>

Next ==
    \/ \E k \in Keys : Upload(k) \/ Age(k)
    \/ \E a \in Assets :
          \/ HeadObject(a) \/ ReadGate(a) \/ LockAndCheck(a) \/ Insert(a)
          \/ HeadAgain(a) \/ RollBack(a)
          \/ DeleteRow(a) \/ CountReferences(a) \/ DeleteObject(a) \/ DeleteFails(a)
    \/ List \/ Decide \/ Recheck \/ DeleteBatch
    \/ \E suspended \in BOOLEAN, limit \in Limits : SetGate(suspended, limit)
    \/ Spill

Spec == Init /\ [][Next]_vars

-----------------------------------------------------------------------------
(* Properties.                                                             *)

\* A committed row whose object is gone was inserted inside the moment between
\* a deletion's last check and its request, or its second look at the object
\* failed: every other order of commits, deletes and sweeps is caught by the
\* commit's second look or by the deletion's check.
DanglingOnlyInWindow ==
    \A a \in Rows : asset[a].commit = "ok" /\ object[asset[a].key] = "none" =>
        asset[a].raced \/ asset[a].unsure

\* Deletes leave no object behind: when the last row of a key is deleted, by
\* calls that overlap or not, nothing failed, nothing was uploaded again and no
\* commit took its own row back, the object is gone.
NothingLeaks ==
    \A a \in Assets :
        /\ asset[a].delete = "done" /\ asset[a].clean
        /\ \A b \in Assets : asset[b].key = asset[a].key =>
              /\ ~asset[b].row /\ asset[b].commit # "rolledBack"
              /\ asset[b].delete = "none" \/ (asset[b].delete = "done" /\ asset[b].clean)
        => object[asset[a].key] = "none"

\* Two commits never both take the last room: when a row goes in under a limit,
\* the rows that went in under one, with the spilled results it saw, respect the
\* limit it read with the lock held.  A commit that read the gate when there was
\* no limit takes no lock, and its row may come on top.
CommitsFit ==
    [][\A a \in Assets : At(a, "checked") /\ asset'[a].row /\ asset[a].checked.limit # 0 =>
         Cardinality({b \in Rows : asset[b].checked.limit # 0}) + 1
           + asset[a].checked.spilled <= asset[a].checked.limit]_vars

=============================================================================
