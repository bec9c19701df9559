------------------------- MODULE SnapshotStoreProofs -------------------------
(***************************************************************************)
(* Proofs about the snapshot store, for any number of processes,           *)
(* identities, temporary names and crashes.                                *)
(***************************************************************************)
EXTENDS SnapshotStore, TLAPS

(* The parts of the inductive invariant.  A process inside a put has an    *)
(* identity; one about to cross a barrier has found or made a whole object;*)
(* one past the first barrier has made its bytes durable; one that was     *)
(* refused met an object with other bytes.                                 *)
PutInv ==
  \A p \in Procs :
    /\ ph[p] # "idle" => target[p] \in Ids
    /\ ph[p] \in {"syncObject", "syncDirs"} => target[p] \in objs \ torn
    /\ ph[p] = "syncDirs" => target[p] \in dataD
    /\ ph[p] = "conflict" => target[p] \in torn

(* Exactly the publishers between create_temp and the rename own a name.   *)
TempInv ==
  \A p \in Procs :
    /\ ph[p] \in {"temp", "raced"} => tempOf[p] \in temps
    /\ ph[p] \notin {"temp", "raced"} => tempOf[p] = NoTemp
    /\ \A q \in Procs \ {p} : tempOf[p] = NoTemp \/ tempOf[p] # tempOf[q]

(* The recovery lock excludes publishers; the pass knows only names that   *)
(* are still there, and what it removed stays removed while it runs.       *)
RecInv ==
  /\ rec # NoProc => \A q \in Procs : ~Guarded(q)
  /\ rec = NoProc => recPc = "none" /\ cand = {} /\ swept = {}
  /\ cand \subseteq temps
  /\ swept \intersect temps = {}
  /\ recPc = "scan" => swept = {}
  /\ recPc = "done" => swept \intersect ghosts = {}

PurgeInv == purged \intersect (temps \union ghosts) = {}

(* flock: a writer is alone; without bypassing publishers only the writer  *)
(* is inside a put.                                                        *)
TxnInv ==
  /\ writer # NoProc => readers = {}
  /\ \A p \in Procs : ph[p] # "idle" => p \in Bypass \/ writer = p

StoreIInv ==
  /\ StoreTypeOK /\ PutInv /\ AckedDurable /\ TempInv /\ RecInv /\ PurgeInv
  /\ TxnInv /\ GuardStillHolds

LEMMA StoreInitInv == StoreInit => StoreIInv
  BY StoreAssumption
  DEF StoreInit, StoreIInv, StoreTypeOK, PutPhases, PutInv, AckedDurable,
      TempInv, RecInv, PurgeInv, TxnInv, GuardStillHolds, Guarded, Inventory

(* A killed process or a power loss leaves the invariant: what is durable  *)
(* survives, every lock is free and no name reported as removed returns.   *)
LEMMA StorePowerLossInv == StoreIInv /\ StorePowerLoss => StoreIInv'
<1> SUFFICES ASSUME StoreIInv, StorePowerLoss PROVE StoreIInv'
  OBVIOUS
<1> USE StoreAssumption DEF StoreIInv, StorePowerLoss, RecRelease
<1>1. StoreTypeOK'
  BY DEF StoreTypeOK, PutPhases
<1>2. AckedDurable'
  BY DEF AckedDurable, StoreTypeOK
<1>3. PurgeInv'
  BY DEF PurgeInv
<1>4. (PutInv /\ TempInv /\ RecInv /\ TxnInv)'
  BY DEF PutInv, TempInv, RecInv, TxnInv, Guarded, StoreTypeOK
<1>5. GuardStillHolds'
  BY DEF GuardStillHolds
<1> QED BY <1>1, <1>2, <1>3, <1>4, <1>5

LEMMA StoreCrashInv ==
  ASSUME StoreIInv, NEW p \in Procs, StoreCrash(p) PROVE StoreIInv'
  BY StoreAssumption
  DEF StoreCrash, Goto, RecRelease, diskVars, recVars, StoreIInv, StoreTypeOK,
      PutPhases, PutInv, AckedDurable, TempInv, RecInv, Guarded, PurgeInv,
      TxnInv, GuardStillHolds, Inventory

(* Publication: the steps of store() and of the barriers.                  *)
LEMMA PutStepInv ==
  ASSUME StoreIInv, NEW p \in Procs,
         PutStep(p) \/ PutReturn(p) \/ PutAtomicReturn(p)
  PROVE  StoreIInv'
<1> USE StoreAssumption
    DEF StoreIInv, StoreTypeOK, PutPhases, PutInv, AckedDurable, TempInv,
        RecInv, Guarded, PurgeInv, TxnInv, Goto, diskVars, recVars, txnVars
<1>1. CASE PutCheck(p)
  BY <1>1 DEF PutCheck, ExistingPhase, GuardStillHolds, Inventory
<1>2. CASE PutLock(p)
  BY <1>2 DEF PutLock, GuardStillHolds, Inventory
<1>3. CASE PutRecheck(p)
  BY <1>3 DEF PutRecheck, ExistingPhase, GuardStillHolds, Inventory
<1>4. CASE PutRename(p)
  <2>1. rec = NoProc /\ tempOf[p] \in temps /\ tempOf[p] \notin purged
    BY <1>4 DEF PutRename
  <2>2. StoreTypeOK'
    <3>1. CASE target[p] \notin objs
      <4>1. target[p] \in Ids
        BY <1>4 DEF PutRename
      <4>2. /\ objs' = objs \union {target[p]} /\ torn' = torn
            /\ dataD' = dataD /\ nameD' = nameD
            /\ temps' = temps \ {tempOf[p]} /\ ghosts' = ghosts \union {tempOf[p]}
        BY <1>4, <3>1 DEF PutRename
      <4>3. (objs \subseteq Ids /\ torn \subseteq objs /\ dataD \subseteq objs
            /\ nameD \subseteq objs /\ temps \subseteq TempNames
            /\ ghosts \subseteq TempNames)'
        BY <2>1, <4>1, <4>2
      <4>4. ins' \in [Procs -> BOOLEAN]
        BY <1>4, <3>1, Zenon DEF PutRename
      <4> QED BY <1>4, <3>1, <4>3, <4>4 DEF PutRename
    <3>2. CASE target[p] \in objs
      BY <1>4, <3>2 DEF PutRename
    <3> QED BY <3>1, <3>2
  <2>3. (PutInv /\ AckedDurable /\ TxnInv)'
    BY <1>4 DEF PutRename
  <2>4. (TempInv /\ RecInv /\ PurgeInv)'
    BY <1>4, <2>1 DEF PutRename
  <2>5. GuardStillHolds'
    <3>1. Bypass = {} => writer = p /\ readers = {}
                         /\ \A q \in Procs \ {p} : ph[q] = "idle"
      BY <1>4 DEF PutRename
    <3> QED BY <1>4, <3>1
            DEF PutRename, GuardStillHolds, Inventory
  <2> QED BY <2>2, <2>3, <2>4, <2>5
<1>5. CASE PutRaced(p)
  BY <1>5 DEF PutRaced, DropTemp, ExistingPhase, GuardStillHolds, Inventory
<1>6. CASE PutFail(p)
  BY <1>6 DEF PutFail, DropTemp, GuardStillHolds,
              Inventory
<1>7. CASE PutSyncObject(p)
  BY <1>7 DEF PutSyncObject, GuardStillHolds, Inventory
<1>8. CASE PutSyncDirs(p)
  BY <1>8 DEF PutSyncDirs, GuardStillHolds, Inventory
<1>9. CASE PutReturn(p) \/ PutAtomicReturn(p)
  BY <1>9 DEF PutReturn, PutAtomicReturn, LeavePut, GuardStillHolds, Inventory
<1> QED BY <1>1, <1>2, <1>3, <1>4, <1>5, <1>6, <1>7, <1>8, <1>9
        DEF PutStep, PutAdvance

LEMMA EnterPutInv ==
  ASSUME StoreIInv, NEW p \in Procs, NEW id \in Ids,
         \/ PutStart(p, id)
         \/ SyncObjectDurable(p, id)
         \/ \E expected \in SUBSET Ids : PutIfInventory(p, id, expected)
  PROVE  StoreIInv'
<1> USE StoreAssumption
    DEF EnterPut, Free, Goto, diskVars, recVars, txnVars, StoreIInv, StoreTypeOK,
        PutPhases, PutInv, AckedDurable, TempInv, RecInv, Guarded, PurgeInv,
        TxnInv, GuardStillHolds, Inventory
<1>1. CASE PutStart(p, id)
  BY <1>1 DEF PutStart
<1>2. ASSUME NEW expected \in SUBSET Ids, PutIfInventory(p, id, expected)
      PROVE  StoreIInv'
  BY <1>2 DEF PutIfInventory
<1>3. CASE SyncObjectDurable(p, id)
  BY <1>3 DEF SyncObjectDurable
<1> QED BY <1>1, <1>2, <1>3

(* The recovery pass: its lock keeps every publisher out of the window in  *)
(* which a temporary name is owned.                                        *)
LEMMA RecStepInv ==
  ASSUME StoreIInv, NEW p \in Procs, RecLock(p) \/ RecStep(p)
  PROVE  StoreIInv'
<1> USE StoreAssumption
    DEF StoreIInv, StoreTypeOK, PutInv, AckedDurable, TempInv, RecInv, Guarded,
        PurgeInv, TxnInv, GuardStillHolds, Inventory,
        RecRelease, diskVars, putVars, txnVars
<1>1. CASE RecLock(p)
  BY <1>1 DEF RecLock, Free
<1>2. CASE RecScan(p)
  <2>1. CASE FitsBudget(objs \union temps)
    <3>1. CASE temps = {}
      BY <1>2, <2>1, <3>1 DEF RecScan
    <3>2. CASE temps # {}
      BY <1>2, <2>1, <3>2 DEF RecScan
    <3> QED BY <3>1, <3>2
  <2>2. CASE ~FitsBudget(objs \union temps)
    BY <1>2, <2>2 DEF RecScan
  <2> QED BY <2>1, <2>2
<1>3. CASE RecUnlink(p)
  BY <1>3 DEF RecUnlink
<1>4. CASE RecSync(p)
  BY <1>4 DEF RecSync
<1>5. CASE RecReport(p)
  BY <1>5 DEF RecReport
<1>6. CASE RecFail(p)
  BY <1>6 DEF RecFail
<1> QED BY <1>1, <1>2, <1>3, <1>4, <1>5, <1>6 DEF RecStep, RecAdvance

LEMMA TxnStepInv ==
  ASSUME StoreIInv, NEW p \in Procs, TxnStep(p)
  PROVE  StoreIInv'
<1> USE StoreAssumption
    DEF StoreIInv, StoreTypeOK, PutInv, AckedDurable, TempInv, RecInv, Guarded,
        PurgeInv, TxnInv, GuardStillHolds, Inventory,
        Free, InTxn, diskVars, putVars, recVars
<1>1. CASE BeginRead(p)
  BY <1>1 DEF BeginRead
<1>2. CASE BeginWrite(p)
  BY <1>2 DEF BeginWrite
<1>3. CASE ReadInventory(p)
  BY <1>3 DEF ReadInventory
<1>4. CASE EndTxn(p)
  BY <1>4 DEF EndTxn
<1> QED BY <1>1, <1>2, <1>3, <1>4 DEF TxnStep

LEMMA StoreStutterInv == StoreIInv /\ UNCHANGED storeVars => StoreIInv'
  BY DEF StoreIInv, StoreTypeOK, PutInv, AckedDurable, TempInv, RecInv, Guarded,
         PurgeInv, TxnInv, GuardStillHolds, Inventory,
         storeVars, diskVars, putVars, recVars, txnVars

LEMMA StoreStepInv == StoreIInv /\ [StoreNext]_storeVars => StoreIInv'
<1> SUFFICES ASSUME StoreIInv, StoreNext PROVE StoreIInv'
  BY StoreStutterInv
<1>1. CASE PowerLoss
  BY <1>1, StorePowerLossInv DEF PowerLoss
<1>2. ASSUME NEW p \in Procs, Crash(p) PROVE StoreIInv'
  BY <1>2, StoreCrashInv DEF Crash
<1> QED BY <1>1, <1>2, PutStepInv, EnterPutInv, RecStepInv, TxnStepInv
        DEF StoreNext

(* In every behaviour of the store the inductive invariant holds.          *)
THEOREM StoreInvariance == StoreSpec => []StoreIInv
  BY StoreInitInv, StoreStepInv, PTL DEF StoreSpec

(* Every variable keeps its type.                                          *)
THEOREM StoreTypeCorrect == StoreSpec => []StoreTypeOK
<1>1. StoreIInv => StoreTypeOK
  BY DEF StoreIInv
<1> QED BY <1>1, StoreInvariance, PTL

(* An acknowledged durable publication survives every later crash, power   *)
(* loss, failure and recovery pass, for any number of publishers.          *)
THEOREM AckedIsDurable == StoreSpec => []AckedDurable
<1>1. StoreIInv => AckedDurable
  BY DEF StoreIInv
<1> QED BY <1>1, StoreInvariance, PTL

(* No recovery pass unlinks the temporary name of a live publisher, and no *)
(* two publishers share one.                                               *)
THEOREM TempsAreSafe == StoreSpec => []LiveTempSafe
<1>1. StoreIInv => LiveTempSafe
  BY StoreAssumption DEF StoreIInv, StoreTypeOK, TempInv, LiveTempSafe
<1> QED BY <1>1, StoreInvariance, PTL

(* A name reported as removed never returns.                               *)
THEOREM RemovalIsDurable == StoreSpec => []PurgedStayGone
<1>1. StoreIInv => PurgedStayGone
  BY DEF StoreIInv, PurgeInv, PurgedStayGone
<1> QED BY <1>1, StoreInvariance, PTL

(* One step of a store whose publishers all hold the write transaction:    *)
(* the rename is the only step that adds to the inventory, and its process *)
(* excludes readers; a power loss ends every transaction.                  *)
LEMMA ReadersIsolated ==
  StoreIInv /\ Cooperative /\ OneInventory /\ [StoreNext]_storeVars => OneInventory'
<1> SUFFICES ASSUME StoreIInv, Cooperative, OneInventory, [StoreNext]_storeVars
             PROVE  OneInventory'
  OBVIOUS
<1>0. /\ readers \subseteq Procs /\ saw \in [Procs -> SUBSET SUBSET Ids]
      /\ (writer # NoProc => readers = {}) /\ NoProc \notin Procs
  BY StoreAssumption DEF StoreIInv, StoreTypeOK, TxnInv
<1> USE DEF OneInventory, Inventory
<1>1. CASE UNCHANGED <<objs, readers, saw>>
  BY <1>1
<1>2. ASSUME NEW p \in Procs, PutRename(p)
      PROVE  OneInventory'
  BY <1>0, <1>2 DEF PutRename, Cooperative, Goto, txnVars
<1>3. ASSUME NEW p \in Procs, TxnStep(p)
      PROVE  OneInventory'
  BY <1>0, <1>3 DEF TxnStep, BeginRead, BeginWrite, ReadInventory, EndTxn, diskVars
<1>4. ASSUME NEW p \in Procs, Crash(p)
      PROVE  OneInventory'
  BY <1>0, <1>4 DEF Crash, StoreCrash, diskVars
<1>5. CASE PowerLoss
  BY <1>5 DEF PowerLoss, StorePowerLoss
<1>6. ASSUME NEW p \in Procs,
             \/ \E id \in Ids : PutStart(p, id) \/ SyncObjectDurable(p, id)
             \/ \E id \in Ids, expected \in SUBSET Ids : PutIfInventory(p, id, expected)
             \/ PutReturn(p) \/ PutAtomicReturn(p) \/ RecLock(p)
      PROVE  UNCHANGED <<objs, readers, saw>>
  BY <1>6 DEF PutStart, PutIfInventory, EnterPut, SyncObjectDurable, PutReturn, PutAtomicReturn,
              LeavePut, RecLock, diskVars, txnVars
<1>7. ASSUME NEW p \in Procs, PutStep(p), ~PutRename(p)
      PROVE  UNCHANGED <<objs, readers, saw>>
  BY <1>7 DEF PutStep, PutAdvance, PutCheck, PutLock, PutRecheck, PutRaced, PutSyncObject,
              PutSyncDirs, PutFail, diskVars, txnVars
<1>8. ASSUME NEW p \in Procs, RecStep(p)
      PROVE  UNCHANGED <<objs, readers, saw>>
  BY <1>8 DEF RecStep, RecAdvance, RecScan, RecUnlink, RecSync, RecReport, RecFail, diskVars, txnVars
<1>9. CASE UNCHANGED storeVars
  BY <1>1, <1>9 DEF storeVars, diskVars, txnVars
<1> QED BY <1>1, <1>2, <1>3, <1>4, <1>5, <1>6, <1>7, <1>8, <1>9 DEF StoreNext

(* While everybody publishes through write transactions, a read            *)
(* transaction sees one inventory from its beginning to its end.           *)
THEOREM TransactionsIsolate == StoreSpec => ReadersSeeOneInventory
<1>1. StoreInit => OneInventory
  BY DEF StoreInit, OneInventory
<1>2. StoreIInv /\ Cooperative /\ OneInventory /\ [StoreNext]_storeVars => OneInventory'
  BY ReadersIsolated
<1> QED BY <1>1, <1>2, StoreInvariance, PTL DEF StoreSpec, ReadersSeeOneInventory

(* Without bypassing publishers a guarded publication is a                 *)
(* compare-and-swap on the whole inventory.                                *)
THEOREM GuardedPutIsSwap == StoreSpec => []GuardStillHolds
<1>1. StoreIInv => GuardStillHolds
  BY DEF StoreIInv
<1> QED BY <1>1, StoreInvariance, PTL
=============================================================================
