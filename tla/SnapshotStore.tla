---------------------------- MODULE SnapshotStore ----------------------------
(***************************************************************************)
(* The content-addressed snapshot store (snapshot_store.rs,                *)
(* snapshot_store_durable.rs, snapshot_store_transaction.rs, the audit and *)
(* the inventory).  Processes publish archives through a temporary name,   *)
(* seal and rename it with RENAME_NOREPLACE, then cross the fsync          *)
(* barriers; a recovery pass removes crash-left temporary names under the  *)
(* exclusive form of the lock the publishers share; readers and writers    *)
(* cooperate through a flock on the store root.                            *)
(*                                                                         *)
(* A snapshot identity stands for the object name and for the archive it   *)
(* addresses; an inventory identity (a hash of the sorted records) stands  *)
(* for the set of identities it covers.  Signature and archive validation  *)
(* happen before any step modelled here and leave no state behind.         *)
(*                                                                         *)
(* The file system is seen twice: as processes see it (the page cache) and *)
(* as a power loss would leave it.  What was not fsynced may or may not    *)
(* survive, and a name whose data was not fsynced may survive torn.        *)
(***************************************************************************)
EXTENDS Naturals, FiniteSets

CONSTANTS
  Procs,       \* threads of the cooperating host programs
  Ids,         \* canonical snapshot identities
  TempNames,   \* the reserved names .tmp-<pid>-<counter>
  NoId, NoTemp, NoProc,
  MaxEntries,  \* the caller's max_entries, of audits and of recovery passes
  MaxCrashes,  \* bound: crashes and power losses in a behaviour
  Bypass       \* processes that publish outside the transaction layer

ASSUME StoreAssumption ==
  /\ NoId \notin Ids /\ NoTemp \notin TempNames /\ NoProc \notin Procs
  /\ MaxEntries \in Nat \ {0} /\ MaxCrashes \in Nat
  /\ Bypass \subseteq Procs

VARIABLES
  objs,      \* names present in objects/
  torn,      \* those of them whose bytes are not the archive's
  dataD,     \* objects whose bytes have crossed fsync
  nameD,     \* objects whose name has crossed fsync of objects/ and root
  temps,     \* temporary names present in objects/
  ghosts,    \* temporary names unlinked or renamed away, not yet durably
  ph,        \* where each process is in a put
  target,    \* the identity it is putting
  tempOf,    \* the temporary name it created
  ins,       \* `inserted' of its report
  guard,     \* {expected_inventory} of a guarded put, {} of a plain one
  rec,       \* holder of the exclusive recovery lock
  recPc,     \* where the recovery pass is
  cand,      \* `candidates' of the recovery pass not yet unlinked
  swept,     \* those this pass has unlinked
  readers,   \* holders of the shared flock on the store root
  writer,    \* holder of the exclusive flock on the store root
  saw,       \* history: inventories observed in the current transaction
  acked,     \* history: identities acknowledged as durable
  purged,    \* history: names reported as durably removed, not created since
  crashes    \* history: crashes so far

diskVars == <<objs, torn, dataD, nameD, temps, ghosts>>
putVars  == <<ph, target, tempOf, ins, guard>>
recVars  == <<rec, recPc, cand, swept>>
txnVars  == <<readers, writer, saw>>
storeVars == <<diskVars, putVars, recVars, txnVars, acked, purged, crashes>>

PutPhases == {"idle", "check", "lock", "guarded", "temp", "raced",
              "syncObject", "syncDirs", "ok", "conflict", "failed"}

(* The publication guard (the shared recovery lock) lives from before the  *)
(* temporary name is created until store() returns.                        *)
Guarded(p) == ph[p] \in {"guarded", "temp", "raced"}

StoreInit ==
  /\ objs \in SUBSET Ids /\ Cardinality(objs) <= 1
  /\ dataD = objs /\ nameD = objs
  /\ torn = {} /\ temps = {} /\ ghosts = {}
  /\ ph = [p \in Procs |-> "idle"]
  /\ target = [p \in Procs |-> NoId]
  /\ tempOf = [p \in Procs |-> NoTemp]
  /\ ins = [p \in Procs |-> FALSE]
  /\ guard = [p \in Procs |-> {}]
  /\ rec = NoProc /\ recPc = "none" /\ cand = {} /\ swept = {}
  /\ readers = {} /\ writer = NoProc
  /\ saw = [p \in Procs |-> {}]
  /\ acked = {} /\ purged = {} /\ crashes = 0

-----------------------------------------------------------------------------
(* Audit and inventory.  The audit rejects any name that is not canonical, *)
(* so a temporary name, live or stale, fails it; so does a torn object.    *)

FitsBudget(S) == Cardinality(S) <= MaxEntries

Auditable == temps = {} /\ torn = {} /\ FitsBudget(objs)

Inventory == objs

-----------------------------------------------------------------------------
(* A put: store(), then sync_committed_object() when the durable form was  *)
(* called.  Creating and filling the private temporary file is one step.   *)

Free(p) == ph[p] = "idle" /\ rec # p

Goto(p, phase) == ph' = [ph EXCEPT ![p] = phase]

EnterPut(p, id, expected) ==
  /\ Goto(p, "check")
  /\ target' = [target EXCEPT ![p] = id]
  /\ ins' = [ins EXCEPT ![p] = FALSE]
  /\ guard' = [guard EXCEPT ![p] = expected]
  /\ UNCHANGED <<diskVars, tempOf, recVars, txnVars, acked, purged, crashes>>

(* A direct call of the public put, or one made by the transaction's owner.*)
PutStart(p, id) ==
  /\ Free(p) /\ (p \in Bypass \/ writer = p)
  /\ EnterPut(p, id, {})

(* store_ed25519_durable_if_inventory: the audited inventory must equal    *)
(* the caller's; otherwise an error before anything is touched.            *)
PutIfInventory(p, id, expected) ==
  /\ Free(p) /\ writer = p
  /\ Auditable /\ Inventory = expected
  /\ EnterPut(p, id, {expected})

(* sync_object_durable: the barriers alone, for an object the caller has   *)
(* just audited.                                                           *)
SyncObjectDurable(p, id) ==
  /\ Free(p) /\ writer = p /\ id \in objs \ torn
  /\ Goto(p, "syncObject")
  /\ target' = [target EXCEPT ![p] = id]
  /\ ins' = [ins EXCEPT ![p] = FALSE]
  /\ UNCHANGED <<diskVars, tempOf, guard, recVars, txnVars, acked, purged, crashes>>

(* require_existing_matches on an object found under the final name.       *)
ExistingPhase(id) == IF id \in torn THEN "conflict" ELSE "syncObject"

PutCheck(p) ==
  /\ ph[p] = "check"
  /\ Goto(p, IF target[p] \in objs THEN ExistingPhase(target[p]) ELSE "lock")
  /\ UNCHANGED <<diskVars, target, tempOf, ins, guard, recVars, txnVars,
                 acked, purged, crashes>>

(* Fault: the publication guard is the flock on the store root itself.     *)
PutLockOnRoot(p) ==
  /\ ph[p] = "lock" /\ rec = NoProc /\ writer = NoProc
  /\ Goto(p, "guarded")
  /\ UNCHANGED <<diskVars, target, tempOf, ins, guard, recVars, txnVars,
                 acked, purged, crashes>>

PutLock(p) ==
  /\ ph[p] = "lock" /\ rec = NoProc
  /\ Goto(p, "guarded")
  /\ UNCHANGED <<diskVars, target, tempOf, ins, guard, recVars, txnVars,
                 acked, purged, crashes>>

(* The second look under the guard, then create_temp: O_EXCL on the next   *)
(* name of the process counter, retried while it exists.  When every       *)
(* name it tries (128 of them) exists the put fails.                       *)
PutRecheck(p) ==
  /\ ph[p] = "guarded"
  /\ \/ /\ target[p] \in objs
        /\ Goto(p, ExistingPhase(target[p]))
        /\ UNCHANGED <<temps, tempOf, purged>>
     \/ /\ target[p] \notin objs
        /\ \E n \in TempNames \ temps :
             /\ temps' = temps \union {n}
             /\ tempOf' = [tempOf EXCEPT ![p] = n]
             /\ purged' = purged \ {n}
        /\ Goto(p, "temp")
     \/ /\ target[p] \notin objs /\ TempNames \subseteq temps
        /\ Goto(p, "failed")
        /\ UNCHANGED <<temps, tempOf, purged>>
  /\ UNCHANGED <<objs, torn, dataD, nameD, ghosts, target, ins, guard, recVars,
                 txnVars, acked, crashes>>

(* renameat2(RENAME_NOREPLACE): the winner publishes, the loser goes on to *)
(* compare.  The rename is not preceded by an fsync of the data.           *)
PutRename(p) ==
  /\ ph[p] = "temp" /\ tempOf[p] \in temps
  /\ \/ /\ target[p] \notin objs
        /\ objs' = objs \union {target[p]}
        /\ temps' = temps \ {tempOf[p]}
        /\ ghosts' = ghosts \union {tempOf[p]}
        /\ ins' = [ins EXCEPT ![p] = TRUE]
        /\ tempOf' = [tempOf EXCEPT ![p] = NoTemp]
        /\ Goto(p, "syncObject")
     \/ /\ target[p] \in objs
        /\ Goto(p, "raced")
        /\ UNCHANGED <<objs, temps, ghosts, ins, tempOf>>
  /\ UNCHANGED <<torn, dataD, nameD, target, guard, recVars, txnVars,
                 acked, purged, crashes>>

DropTemp(p) ==
  /\ temps' = temps \ {tempOf[p]}
  /\ ghosts' = ghosts \union {tempOf[p]}

(* The loser of the race unlinks its own name and compares the winner's.   *)
PutRaced(p) ==
  /\ ph[p] = "raced"
  /\ DropTemp(p)
  /\ tempOf' = [tempOf EXCEPT ![p] = NoTemp]
  /\ Goto(p, IF target[p] \in objs THEN ExistingPhase(target[p]) ELSE "failed")
  /\ UNCHANGED <<objs, torn, dataD, nameD, target, ins, guard, recVars, txnVars,
                 acked, purged, crashes>>

(* Any system call of the put fails.  cleanup_after_error unlinks the      *)
(* temporary name, and that may fail too and leave it behind.              *)
PutFail(p) ==
  /\ ph[p] \in {"check", "lock", "guarded", "temp", "raced", "syncObject",
               "syncDirs"}
  /\ IF ph[p] \in {"temp", "raced"}
       THEN DropTemp(p) \/ UNCHANGED <<temps, ghosts>>
       ELSE UNCHANGED <<temps, ghosts>>
  /\ tempOf' = [tempOf EXCEPT ![p] = NoTemp]
  /\ Goto(p, "failed")
  /\ UNCHANGED <<objs, torn, dataD, nameD, target, ins, guard, recVars, txnVars,
                 acked, purged, crashes>>

(* Fault: a deduplicated object is taken to be durable already.            *)
PutSyncObjectIfInserted(p) ==
  /\ ph[p] = "syncObject" /\ target[p] \in objs
  /\ dataD' = IF ins[p] THEN dataD \union {target[p]} ELSE dataD
  /\ Goto(p, "syncDirs")
  /\ UNCHANGED <<objs, torn, nameD, temps, ghosts, target, tempOf, ins, guard,
                 recVars, txnVars, acked, purged, crashes>>

(* The durable form's barriers: the object, then objects/ and the root.    *)
PutSyncObject(p) ==
  /\ ph[p] = "syncObject" /\ target[p] \in objs
  /\ dataD' = dataD \union {target[p]}
  /\ Goto(p, "syncDirs")
  /\ UNCHANGED <<objs, torn, nameD, temps, ghosts, target, tempOf, ins, guard,
                 recVars, txnVars, acked, purged, crashes>>

PutSyncDirs(p) ==
  /\ ph[p] = "syncDirs"
  /\ nameD' = objs /\ ghosts' = {}
  /\ acked' = acked \union {target[p]}
  /\ Goto(p, "ok")
  /\ UNCHANGED <<objs, torn, dataD, temps, target, tempOf, ins, guard, recVars,
                 txnVars, purged, crashes>>

LeavePut(p) ==
  /\ Goto(p, "idle")
  /\ target' = [target EXCEPT ![p] = NoId]
  /\ guard' = [guard EXCEPT ![p] = {}]
  /\ UNCHANGED <<diskVars, tempOf, ins, recVars, txnVars, acked, purged, crashes>>

PutReturn(p) == ph[p] \in {"ok", "conflict", "failed"} /\ LeavePut(p)

(* store_snapshot_archive_ed25519_atomic ends at the rename.               *)
PutAtomicReturn(p) == ph[p] = "syncObject" /\ p \in Bypass /\ LeavePut(p)

-----------------------------------------------------------------------------
(* Recovery of crash-left temporary names.                                 *)

(* Fault: the pass takes the shared form of the lock.                      *)
RecLockShared(p) ==
  /\ Free(p) /\ rec = NoProc
  /\ rec' = p /\ recPc' = "scan"
  /\ UNCHANGED <<diskVars, putVars, cand, swept, txnVars, acked, purged, crashes>>

RecLock(p) ==
  /\ Free(p) /\ rec = NoProc /\ \A q \in Procs : ~Guarded(q)
  /\ rec' = p /\ recPc' = "scan"
  /\ UNCHANGED <<diskVars, putVars, cand, swept, txnVars, acked, purged, crashes>>

RecRelease ==
  rec' = NoProc /\ recPc' = "none" /\ cand' = {} /\ swept' = {}

(* Fault: the pass starts over, with its lock, when over budget.           *)
RecScanRetries(p) ==
  /\ rec = p /\ recPc = "scan"
  /\ IF FitsBudget(objs \union temps)
       THEN /\ cand' = temps
            /\ recPc' = IF temps = {} THEN "done" ELSE "unlink"
       ELSE UNCHANGED <<cand, recPc>>
  /\ UNCHANGED <<diskVars, putVars, rec, swept, txnVars, acked, purged, crashes>>

(* The complete bounded preflight: over budget, nothing is deleted.        *)
RecScan(p) ==
  /\ rec = p /\ recPc = "scan"
  /\ IF FitsBudget(objs \union temps)
       THEN /\ cand' = temps
            /\ recPc' = IF temps = {} THEN "done" ELSE "unlink"
            /\ UNCHANGED <<rec, swept>>
       ELSE RecRelease
  /\ UNCHANGED <<diskVars, putVars, txnVars, acked, purged, crashes>>

RecUnlink(p) ==
  /\ rec = p /\ recPc = "unlink"
  /\ \E n \in cand :
       /\ temps' = temps \ {n}
       /\ ghosts' = ghosts \union {n}
       /\ cand' = cand \ {n}
       /\ swept' = swept \union {n}
       /\ recPc' = IF cand = {n} THEN "sync" ELSE "unlink"
  /\ UNCHANGED <<objs, torn, dataD, nameD, putVars, rec, txnVars, acked,
                 purged, crashes>>

(* Fault: success is reported without the fsync barriers.                  *)
RecSyncSkipped(p) ==
  /\ rec = p /\ recPc = "sync"
  /\ recPc' = "done"
  /\ UNCHANGED <<diskVars, putVars, rec, cand, swept, txnVars, acked, purged,
                 crashes>>

RecSync(p) ==
  /\ rec = p /\ recPc = "sync"
  /\ nameD' = objs /\ ghosts' = {}
  /\ recPc' = "done"
  /\ UNCHANGED <<objs, torn, dataD, temps, putVars, rec, cand, swept, txnVars,
                 acked, purged, crashes>>

RecReport(p) ==
  /\ rec = p /\ recPc = "done"
  /\ purged' = purged \union swept
  /\ RecRelease
  /\ UNCHANGED <<diskVars, putVars, txnVars, acked, crashes>>

(* A system call of the pass fails; what was unlinked stays unlinked.      *)
RecFail(p) ==
  /\ rec = p /\ recPc \in {"scan", "unlink", "sync"}
  /\ RecRelease
  /\ UNCHANGED <<diskVars, putVars, txnVars, acked, purged, crashes>>

-----------------------------------------------------------------------------
(* Cooperative transactions: flock on the store root.                      *)

InTxn(p) == p \in readers \/ writer = p

BeginRead(p) ==
  /\ Free(p) /\ ~InTxn(p) /\ writer = NoProc
  /\ readers' = readers \union {p}
  /\ saw' = [saw EXCEPT ![p] = {}]
  /\ UNCHANGED <<diskVars, putVars, recVars, writer, acked, purged, crashes>>

(* Fault: the writer takes LOCK_SH.                                        *)
BeginWriteShared(p) ==
  /\ Free(p) /\ ~InTxn(p)
  /\ writer' = p
  /\ saw' = [saw EXCEPT ![p] = {}]
  /\ UNCHANGED <<diskVars, putVars, recVars, readers, acked, purged, crashes>>

BeginWrite(p) ==
  /\ Free(p) /\ ~InTxn(p) /\ writer = NoProc /\ readers = {}
  /\ writer' = p
  /\ saw' = [saw EXCEPT ![p] = {}]
  /\ UNCHANGED <<diskVars, putVars, recVars, readers, acked, purged, crashes>>

(* audit / inventory_identity inside a transaction; an unauditable store   *)
(* is an error and shows the caller nothing.                               *)
ReadInventory(p) ==
  /\ Free(p) /\ InTxn(p) /\ Auditable
  /\ saw' = [saw EXCEPT ![p] = @ \union {Inventory}]
  /\ UNCHANGED <<diskVars, putVars, recVars, readers, writer, acked, purged,
                 crashes>>

EndTxn(p) ==
  /\ Free(p) /\ InTxn(p)
  /\ readers' = readers \ {p}
  /\ writer' = IF writer = p THEN NoProc ELSE writer
  /\ saw' = [saw EXCEPT ![p] = {}]
  /\ UNCHANGED <<diskVars, putVars, recVars, acked, purged, crashes>>

-----------------------------------------------------------------------------
(* Crashes.                                                                *)

(* The kernel closes the descriptors of a killed process: its locks go,    *)
(* its temporary name stays.                                               *)
StoreCrash(p) ==
  /\ Goto(p, "idle")
  /\ target' = [target EXCEPT ![p] = NoId]
  /\ tempOf' = [tempOf EXCEPT ![p] = NoTemp]
  /\ ins' = [ins EXCEPT ![p] = FALSE]
  /\ guard' = [guard EXCEPT ![p] = {}]
  /\ IF rec = p THEN RecRelease ELSE UNCHANGED recVars
  /\ readers' = readers \ {p}
  /\ writer' = IF writer = p THEN NoProc ELSE writer
  /\ saw' = [saw EXCEPT ![p] = {}]
  /\ crashes' = crashes + 1
  /\ UNCHANGED <<diskVars, acked, purged>>

Crash(p) ==
  /\ crashes < MaxCrashes
  /\ ph[p] # "idle" \/ rec = p \/ InTxn(p)
  /\ StoreCrash(p)

(* Everything not fsynced may be lost, names and data independently; what  *)
(* is found after the restart is on the medium.                            *)
StorePowerLoss ==
  /\ \E lost \in SUBSET (objs \ nameD) :
     \E bad \in SUBSET ((objs \ lost) \ dataD) :
       /\ objs' = objs \ lost
       /\ torn' = (torn \ lost) \union bad
       /\ dataD' = objs \ lost
       /\ nameD' = objs \ lost
  /\ temps' \in SUBSET (temps \union ghosts)
  /\ ghosts' = {}
  /\ ph' = [p \in Procs |-> "idle"]
  /\ target' = [p \in Procs |-> NoId]
  /\ tempOf' = [p \in Procs |-> NoTemp]
  /\ ins' = [p \in Procs |-> FALSE]
  /\ guard' = [p \in Procs |-> {}]
  /\ RecRelease
  /\ readers' = {} /\ writer' = NoProc
  /\ saw' = [p \in Procs |-> {}]
  /\ crashes' = crashes + 1
  /\ UNCHANGED <<acked, purged>>

PowerLoss == crashes < MaxCrashes /\ StorePowerLoss

-----------------------------------------------------------------------------
PutAdvance(p) ==
  \/ PutCheck(p) \/ PutLock(p) \/ PutRecheck(p) \/ PutRename(p) \/ PutRaced(p)
  \/ PutSyncObject(p) \/ PutSyncDirs(p)

PutStep(p) == PutAdvance(p) \/ PutFail(p)

RecAdvance(p) == RecScan(p) \/ RecUnlink(p) \/ RecSync(p) \/ RecReport(p)

RecStep(p) == RecAdvance(p) \/ RecFail(p)

TxnStep(p) ==
  BeginRead(p) \/ BeginWrite(p) \/ ReadInventory(p) \/ EndTxn(p)

StoreNext ==
  \/ \E p \in Procs :
       \/ \E id \in Ids : PutStart(p, id) \/ SyncObjectDurable(p, id)
       \/ \E id \in Ids, expected \in SUBSET Ids : PutIfInventory(p, id, expected)
       \/ PutStep(p) \/ PutReturn(p) \/ PutAtomicReturn(p)
       \/ RecLock(p) \/ RecStep(p) \/ TxnStep(p) \/ Crash(p)
  \/ PowerLoss

StoreSpec == StoreInit /\ [][StoreNext]_storeVars

(* A scheduled thread keeps running: every started put and every started   *)
(* recovery pass goes on unless it waits for a lock.  Nothing is assumed   *)
(* about callers starting operations, and nothing makes a call fail.       *)
StoreFairSpec ==
  /\ StoreSpec
  /\ \A p \in Procs : /\ WF_storeVars(PutAdvance(p) \/ PutReturn(p))
                      /\ WF_storeVars(RecAdvance(p))

-----------------------------------------------------------------------------
(* Properties.                                                             *)

(* Every variable keeps the shape the code gives it.                       *)
StoreTypeOK ==
  /\ objs \subseteq Ids /\ torn \subseteq objs
  /\ dataD \subseteq objs /\ nameD \subseteq objs
  /\ temps \subseteq TempNames /\ ghosts \subseteq TempNames
  /\ ph \in [Procs -> PutPhases]
  /\ target \in [Procs -> Ids \union {NoId}]
  /\ tempOf \in [Procs -> TempNames \union {NoTemp}]
  /\ ins \in [Procs -> BOOLEAN]
  /\ guard \in [Procs -> SUBSET SUBSET Ids]
  /\ rec \in Procs \union {NoProc}
  /\ recPc \in {"none", "scan", "unlink", "sync", "done"}
  /\ cand \subseteq TempNames /\ swept \subseteq TempNames
  /\ readers \subseteq Procs /\ writer \in Procs \union {NoProc}
  /\ saw \in [Procs -> SUBSET SUBSET Ids]
  /\ acked \subseteq Ids /\ purged \subseteq TempNames
  /\ crashes \in Nat

(* What store_snapshot_archive_ed25519_durable acknowledged is in the      *)
(* store, whole, and no later crash, power loss, failed publisher or       *)
(* recovery pass takes it away: also when the acknowledgement went to a    *)
(* caller whose archive another process had renamed but never synced.      *)
AckedDurable == acked \subseteq (objs \ torn) \intersect dataD \intersect nameD

(* A recovery pass never unlinks the temporary name of a live publisher,   *)
(* and no two publishers own the same name, even after names of dead       *)
(* processes came back: the rename of store() always finds its source.     *)
LiveTempSafe ==
  \A p \in Procs :
    ph[p] \in {"temp", "raced"} =>
      /\ tempOf[p] \in temps
      /\ \A q \in Procs \ {p} : tempOf[q] # tempOf[p]

(* A name that recover_snapshot_store_stale_temporary_objects reported as  *)
(* removed does not come back after a power loss.                          *)
PurgedStayGone == purged \intersect temps = {}

(* While a SnapshotStoreReadTransaction is live every audit or inventory   *)
(* it takes sees the one inventory, provided everybody publishes through   *)
(* write transactions (lock_store_root: LOCK_SH against LOCK_EX).          *)
Cooperative == \A p \in Procs : ph[p] # "idle" => writer = p

OneInventory == \A p \in readers : saw[p] \subseteq {Inventory}

ReadersSeeOneInventory == []Cooperative => []OneInventory

(* store_ed25519_durable_if_inventory is a compare-and-swap: from the      *)
(* comparison to the rename the inventory is the expected one.             *)
GuardStillHolds ==
  Bypass = {} =>
    \A p \in Procs :
      guard[p] # {} /\ ph[p] \in {"check", "lock", "guarded", "temp"} =>
        guard[p] = {Inventory}

(* A started put waits for ever only if recovery passes keep taking the    *)
(* lock for ever: publishers and transactions do not block one another.    *)
PutCompletes ==
  \A p \in Procs : (ph[p] # "idle" ~> ph[p] = "idle") \/ []<>(rec # NoProc)

(* Every started recovery pass ends and gives the lock back.               *)
RecoveryEnds == \A p \in Procs : rec = p ~> rec # p

(* snapshot_store_durable.rs: a caller interrupted after the rename can    *)
(* retry the same archive and the deduplication path converges, so a put   *)
(* of the authenticated archive is never refused as a conflict.            *)
RetryConverges == \A p \in Procs : ph[p] # "conflict"
=============================================================================
