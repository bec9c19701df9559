------------------------------ MODULE HeadState ------------------------------
(***************************************************************************)
(* The authenticated store head (snapshot_store_head_state.rs): a second   *)
(* directory, the state root, holds the head (generation and inventory), a *)
(* journal of a pending single or batch publication, and the staged        *)
(* archives of a batch.  Operations take the state lock, then the store    *)
(* transaction of SnapshotStore, and publish through its puts.  A crash    *)
(* between any two steps is followed by recover_pending_publication.       *)
(*                                                                         *)
(* Records are authenticated with HMAC under a key that stays secret, so a *)
(* complete record is the one that was written; one cut short by a crash   *)
(* fails its length check and reads as an error.  Reading files that only  *)
(* holders of the exclusive state lock write is one step with taking the   *)
(* lock.  Everybody publishes through store transactions, but outsiders do *)
(* so without the head, and so make the store diverge from it.             *)
(***************************************************************************)
EXTENDS SnapshotStore, Sequences

CONSTANTS
  MaxBatch,  \* SNAPSHOT_STORE_HEAD_MAX_BATCH_ITEMS
  Ordered,   \* does the state root's file system keep the order of changes?
  Outsiders, \* processes that publish without the head state
  Sweepers,  \* processes that also recover temporary objects
  Foreign,   \* identities only outsiders publish
  MaxGen     \* bound: the generation that counts as exhausted (u64::MAX)

ASSUME HeadAssumption ==
  /\ MaxBatch \in Nat \ {0} /\ MaxGen \in Nat \ {0}
  /\ Ordered \in BOOLEAN /\ Bypass = {}
  /\ Outsiders \subseteq Procs /\ Sweepers \subseteq Procs
  /\ Foreign \subseteq Ids

VARIABLES
  root,       \* the state root: head, single and batch journals, stages
  past,       \* the contents the state root has had since its last fsync
  stReaders,  \* holders of the shared state lock
  stWriter,   \* holder of the exclusive state lock
  hpc,        \* where each process is in a head operation
  job,        \* its locals
  genesis,    \* history: the inventory initialization anchored
  promised    \* history: the newest head a caller was given

stateVars == <<root, past>>
jobVars   == <<hpc, job>>
headVars  == <<stateVars, stReaders, stWriter, jobVars, genesis, promised>>

-----------------------------------------------------------------------------
(* Records of the state root.                                              *)

HeadRec == [gen : Nat, inv : SUBSET Ids]
NoHead  == [gen |-> 0, inv |-> {}]

Elems(s) == {s[i] : i \in DOMAIN s}

(* Canonical identities in request order, none twice.                      *)
Batches ==
  {s \in UNION {[1..n -> Ids \ Foreign] : n \in 1..MaxBatch} :
     \A i, j \in DOMAIN s : s[i] = s[j] => i = j}

(* A journal file: absent, cut short, or an intent.  The intent's          *)
(* successor, the `preexisting' flags and the inventories after each       *)
(* member are functions of the predecessor and the ordered members.        *)
Absent  == [st |-> "absent", prev |-> NoHead, items |-> <<>>]
TornJ   == [st |-> "torn", prev |-> NoHead, items |-> <<>>]
Journal ==
  {j \in [st : {"absent", "torn", "intent"}, prev : HeadRec,
          items : Batches \union {<<>>}] : j.st = "absent" => j = Absent}
Intent(prev, items) == [st |-> "intent", prev |-> prev, items |-> items]

(* projected_snapshot_store_batch_inventory_identity.                      *)
After(prev, items, k) == prev.inv \union {items[i] : i \in 1..k}
Successor(prev, items) ==
  [gen |-> prev.gen + 1, inv |-> prev.inv \union Elems(items)]

Stages  == [1..MaxBatch -> Ids \union {"absent", "torn"}]
NoStage == [i \in 1..MaxBatch |-> "absent"]

NoJob == [op |-> "none", kind |-> "single", items |-> <<>>, prev |-> NoHead,
          next |-> NoHead, idx |-> 0, seen |-> 0]

HeadInit ==
  /\ StoreInit
  /\ root = [head |-> NoHead, single |-> Absent, batch |-> Absent, stage |-> NoStage]
  /\ past = {root}
  /\ stReaders = {} /\ stWriter = NoProc
  /\ hpc = [p \in Procs |-> "idle"]
  /\ job = [p \in Procs |-> NoJob]
  /\ genesis = {} /\ promised = NoHead

-----------------------------------------------------------------------------
(* Steps on the state root.  Every change is visible at once and durable   *)
(* only after fsync of the directory.                                      *)

SetRoot(r) == root' = r /\ past' = past \union {r}
SyncRoot   == past' = {root} /\ UNCHANGED root

To(p, pc) == hpc' = [hpc EXCEPT ![p] = pc]
Stay      == UNCHANGED <<stReaders, stWriter, genesis, promised>>
Idle(p)   == hpc[p] = "idle" /\ Free(p) /\ ~InTxn(p)

(* A move that touches neither the store nor the state root.               *)
Move(p, pc) == To(p, pc) /\ Stay /\ UNCHANGED <<storeVars, stateVars>>

(* The least index from k on that satisfies an index set, else the end.    *)
FirstFrom(S, k, items) ==
  IF \E i \in S : i >= k
    THEN CHOOSE i \in S : i >= k /\ \A j \in S : j >= k => i <= j
    ELSE Len(items) + 1

Preexisting(j) == {i \in DOMAIN j.items : j.items[i] \in j.prev.inv}
NewMembers(j)  == DOMAIN j.items \ Preexisting(j)

JournalOf(kind) == IF kind = "single" THEN root.single ELSE root.batch
SetJournal(kind, v) ==
  SetRoot(IF kind = "single" THEN [root EXCEPT !.single = v]
                             ELSE [root EXCEPT !.batch = v])

-----------------------------------------------------------------------------
(* Entering an operation: lock_state, then the reads under the lock.       *)

NoPending == root.single = Absent /\ root.batch = Absent

Enter(p, op, kind, items) ==
  /\ Idle(p)
  /\ hpc' = [hpc EXCEPT ![p] = "lock"]
  /\ job' = [job EXCEPT ![p] =
       [op |-> op, kind |-> kind, items |-> items, prev |-> root.head,
        next |-> root.head, idx |-> 0, seen |-> 0]]
  /\ UNCHANGED <<storeVars, stateVars, genesis, promised>>

LockExclusive(p) ==
  stWriter = NoProc /\ stReaders = {} /\ stWriter' = p /\ UNCHANGED stReaders
LockShared(p) ==
  stWriter = NoProc /\ stReaders' = stReaders \union {p} /\ UNCHANGED stWriter

(* Fault: an existing head is replaced.                                    *)
InitializeAgain(p) ==
  /\ LockExclusive(p) /\ NoPending
  /\ Enter(p, "init", "single", <<>>)

Initialize(p) ==
  /\ LockExclusive(p) /\ NoPending /\ root.head = NoHead
  /\ Enter(p, "init", "single", <<>>)

Verify(p) ==
  /\ LockShared(p) /\ NoPending /\ root.head # NoHead
  /\ Enter(p, "verify", "single", <<>>)

Store(p, id) ==
  /\ LockExclusive(p) /\ NoPending /\ root.head # NoHead
  /\ root.head.gen < MaxGen
  /\ Enter(p, "store", "single", <<id>>)

StoreBatch(p, items) ==
  /\ LockExclusive(p) /\ NoPending /\ root.head # NoHead
  /\ root.head.gen < MaxGen
  /\ Enter(p, "batch", "batch", items)

(* Fault: recovery, too, calls require_no_pending.                         *)
RecoverRefusesPending(p) ==
  /\ LockExclusive(p) /\ NoPending /\ root.head # NoHead
  /\ Enter(p, "recover", "single", <<>>)

(* recover() does not ask for the absence of a journal.                    *)
Recover(p) ==
  /\ LockExclusive(p) /\ root.head # NoHead
  /\ Enter(p, "recover", "single", <<>>)

Promise(h) == promised' = IF h.gen >= promised.gen THEN h ELSE promised

(* load() only reads, under the shared lock.                               *)
Load(p) ==
  /\ Idle(p) /\ stWriter = NoProc /\ NoPending /\ root.head # NoHead
  /\ Promise(root.head)
  /\ UNCHANGED <<storeVars, stateVars, stReaders, stWriter, jobVars, genesis>>

(* The second lock of the order: the store transaction.                    *)
LockStore(p) ==
  /\ hpc[p] = "lock"
  /\ IF job[p].op \in {"init", "verify"} THEN BeginRead(p) ELSE BeginWrite(p)
  /\ To(p, "inspect") /\ Stay /\ UNCHANGED <<stateVars, job>>

-----------------------------------------------------------------------------
(* What each operation does with the audited inventory.                    *)

InitializeInspect(p) ==
  /\ hpc[p] = "inspect" /\ job[p].op = "init"
  /\ IF Auditable
       THEN /\ To(p, "head")
            /\ job' = [job EXCEPT ![p].next = [gen |-> 1, inv |-> Inventory]]
            /\ genesis' = Inventory
            /\ UNCHANGED <<storeVars, stateVars, stReaders, stWriter, promised>>
       ELSE Move(p, "refused") /\ UNCHANGED job

VerifyInspect(p) ==
  /\ hpc[p] = "inspect" /\ job[p].op = "verify"
  /\ Move(p, IF Auditable /\ Inventory = job[p].prev.inv THEN "done" ELSE "refused")
  /\ UNCHANGED job

(* projected_..._identity: the successor must fit the inventory budget.    *)
Projectable(j) ==
  /\ Auditable /\ Inventory = j.prev.inv
  /\ FitsBudget(Successor(j.prev, j.items).inv)

(* store(): a known object is only deduplicated, a new one is journaled.   *)
StoreInspect(p) ==
  /\ hpc[p] = "inspect" /\ job[p].op = "store"
  /\ LET j == job[p] IN
       /\ Move(p, IF ~Projectable(j) THEN "refused"
                  ELSE IF j.items[1] \in Inventory THEN "confirm" ELSE "create")
       /\ job' = [job EXCEPT ![p].idx = 1]

(* store_batch(): the preexisting members are confirmed first.             *)
StoreBatchInspect(p) ==
  /\ hpc[p] = "inspect" /\ job[p].op = "batch"
  /\ LET j == job[p] IN
       /\ Move(p, IF Projectable(j) THEN "confirm" ELSE "refused")
       /\ job' = [job EXCEPT ![p].idx = FirstFrom(Preexisting(j), 1, j.items)]

(* A put of the member at idx; when none is left, on to the next stage.    *)
Confirm(p) ==
  /\ hpc[p] = "confirm"
  /\ LET j == job[p] IN
       \/ /\ j.idx <= Len(j.items)
          /\ PutStart(p, j.items[j.idx])
          /\ To(p, "confirming") /\ Stay /\ UNCHANGED <<stateVars, job>>
       \/ /\ j.idx > Len(j.items)
          /\ Move(p, IF NewMembers(j) = {} THEN "done" ELSE "create")
          /\ UNCHANGED job

(* The deduplicating put must not have inserted anything.                  *)
Confirmed(p) ==
  /\ hpc[p] = "confirming" /\ ph[p] = "ok" /\ PutReturn(p)
  /\ To(p, IF ins[p] THEN "refused" ELSE "confirm")
  /\ job' = [job EXCEPT ![p].idx =
               FirstFrom(Preexisting(job[p]), job[p].idx + 1, job[p].items)]
  /\ Stay /\ UNCHANGED stateVars

-----------------------------------------------------------------------------
(* The journal: O_EXCL create, write and fsync of the file, fsync of the   *)
(* state root.                                                             *)

CreatePending(p) ==
  /\ hpc[p] = "create" /\ JournalOf(job[p].kind) = Absent
  /\ SetJournal(job[p].kind, TornJ)
  /\ To(p, "fill") /\ Stay /\ UNCHANGED <<storeVars, job>>

FillPending(p) ==
  /\ hpc[p] = "fill"
  /\ SetJournal(job[p].kind, Intent(job[p].prev, job[p].items))
  /\ job' = [job EXCEPT ![p].next = Successor(job[p].prev, job[p].items)]
  /\ To(p, "syncIntent") /\ Stay /\ UNCHANGED storeVars

(* write_pending unlinks what it could not complete, without caring        *)
(* whether that works; write_batch_pending leaves it.                      *)
FillPendingFails(p) ==
  /\ hpc[p] = "fill" /\ job[p].kind = "single"
  /\ SetJournal("single", Absent)
  /\ To(p, "failed") /\ Stay /\ UNCHANGED <<storeVars, job>>

(* Fault: the members are published before the journal is durable.         *)
SyncPendingSkipped(p) ==
  /\ hpc[p] = "syncIntent"
  /\ To(p, IF job[p].kind = "single" THEN "put" ELSE "stage")
  /\ job' = [job EXCEPT ![p].idx = 1]
  /\ Stay /\ UNCHANGED <<storeVars, stateVars>>

SyncPending(p) ==
  /\ hpc[p] = "syncIntent" /\ SyncRoot
  /\ To(p, IF job[p].kind = "single" THEN "put" ELSE "stage")
  /\ job' = [job EXCEPT ![p].idx = 1]
  /\ Stay /\ UNCHANGED storeVars

(* write_batch_stages: O_EXCL, so a left-over stage is an error.           *)
CreateStage(p) ==
  /\ hpc[p] = "stage"
  /\ LET i == job[p].idx IN
       \/ /\ i <= Len(job[p].items) /\ root.stage[i] = "absent"
          /\ SetRoot([root EXCEPT !.stage[i] = "torn"])
          /\ To(p, "stageFill") /\ Stay /\ UNCHANGED <<storeVars, job>>
       \/ /\ i > Len(job[p].items)
          /\ SyncRoot /\ To(p, "put")
          /\ job' = [job EXCEPT ![p].idx =
                       FirstFrom(NewMembers(job[p]), 1, job[p].items)]
          /\ Stay /\ UNCHANGED storeVars

FillStage(p) ==
  /\ hpc[p] = "stageFill"
  /\ SetRoot([root EXCEPT !.stage[job[p].idx] = job[p].items[job[p].idx]])
  /\ job' = [job EXCEPT ![p].idx = @ + 1]
  /\ To(p, "stage") /\ Stay /\ UNCHANGED storeVars

-----------------------------------------------------------------------------
(* Publication of the members, also by the replay of recover_batch.        *)

PutMember(p) ==
  /\ hpc[p] = "put"
  /\ PutStart(p, job[p].items[job[p].idx])
  /\ To(p, "putting") /\ Stay /\ UNCHANGED <<stateVars, job>>

(* The audited inventory is exactly the journaled one after member i.      *)
AuditedAfter(j, i) == Auditable /\ Inventory = After(j.prev, j.items, i)

(* store(), store_batch(), and recover_single after its barriers.          *)
MemberDone(p) ==
  /\ hpc[p] = "putting" /\ ph[p] = "ok" /\ PutReturn(p)
  /\ job[p].op # "recover" \/ job[p].kind = "single"
  /\ LET j == job[p]
         n == FirstFrom(NewMembers(j), j.idx + 1, j.items)
     IN  /\ To(p, IF ~AuditedAfter(j, j.idx) THEN "refused"
                  ELSE IF n > Len(j.items) THEN "head" ELSE "put")
         /\ job' = [job EXCEPT ![p].idx = n]
  /\ Stay /\ UNCHANGED stateVars

(* Fault: the replay audits every member against its own journaled         *)
(* inventory, also those an interrupted publication had got past.          *)
ReplayDoneAuditsAll(p) ==
  /\ hpc[p] = "putting" /\ ph[p] = "ok" /\ PutReturn(p)
  /\ job[p].op = "recover" /\ job[p].kind = "batch"
  /\ LET j == job[p] IN
       /\ To(p, IF ~AuditedAfter(j, j.idx) THEN "refused"
                ELSE IF j.idx = Len(j.items) THEN "head" ELSE "put")
       /\ job' = [job EXCEPT ![p].idx = @ + 1]
  /\ Stay /\ UNCHANGED stateVars

(* The replay: members seen before must not be inserted again, later ones  *)
(* must lead to the journaled inventory, the last to the successor.        *)
ReplayDone(p) ==
  /\ hpc[p] = "putting" /\ ph[p] = "ok" /\ PutReturn(p)
  /\ job[p].op = "recover" /\ job[p].kind = "batch"
  /\ LET j == job[p]
         known == j.idx \in Preexisting(j) \/ j.idx <= j.seen
         good == IF known THEN ~ins[p] ELSE AuditedAfter(j, j.idx)
         last == j.idx = Len(j.items)
     IN  /\ To(p, IF ~good \/ (last /\ ~AuditedAfter(j, j.idx)) THEN "refused"
                  ELSE IF last THEN "head" ELSE "put")
         /\ job' = [job EXCEPT ![p].idx = @ + 1]
  /\ Stay /\ UNCHANGED stateVars

-----------------------------------------------------------------------------
(* write_state and the removal of the journal.                             *)

WriteState(p) ==
  /\ hpc[p] = "head"
  /\ SetRoot([root EXCEPT !.head = job[p].next])
  /\ To(p, "syncHead") /\ Stay /\ UNCHANGED <<storeVars, job>>

SyncState(p) ==
  /\ hpc[p] = "syncHead" /\ SyncRoot
  /\ To(p, IF job[p].op = "init" THEN "done"
           ELSE IF job[p].kind = "single" THEN "clear" ELSE "unstage")
  /\ job' = [job EXCEPT ![p].idx = 1]
  /\ Stay /\ UNCHANGED storeVars

(* clear_batch_recovery_files: the stages first, durably, then the journal.*)
ClearStage(p) ==
  /\ hpc[p] = "unstage"
  /\ \/ /\ job[p].idx <= Len(job[p].items)
        /\ SetRoot([root EXCEPT !.stage[job[p].idx] = "absent"])
        /\ job' = [job EXCEPT ![p].idx = @ + 1]
        /\ UNCHANGED hpc
     \/ /\ job[p].idx > Len(job[p].items)
        /\ SyncRoot /\ To(p, "clear") /\ UNCHANGED job
  /\ Stay /\ UNCHANGED storeVars

ClearPending(p) ==
  /\ hpc[p] = "clear"
  /\ SetJournal(job[p].kind, Absent)
  /\ To(p, "syncClear") /\ Stay /\ UNCHANGED <<storeVars, job>>

SyncCleared(p) ==
  /\ hpc[p] = "syncClear" /\ SyncRoot
  /\ To(p, "done") /\ Stay /\ UNCHANGED <<storeVars, job>>

-----------------------------------------------------------------------------
(* recover_pending_publication.                                            *)

(* Fault: without a journal the observed inventory becomes the head.       *)
RecoverNothingPromotes(p) ==
  /\ hpc[p] = "inspect" /\ job[p].op = "recover" /\ NoPending
  /\ Move(p, IF Auditable THEN "head" ELSE "refused")
  /\ job' = [job EXCEPT ![p].next = [gen |-> @.gen, inv |-> Inventory]]

RecoverNothing(p) ==
  /\ hpc[p] = "inspect" /\ job[p].op = "recover"
  /\ \/ /\ NoPending
        /\ Move(p, IF Auditable /\ Inventory = job[p].prev.inv
                     THEN "done" ELSE "refused")
     \/ /\ ~NoPending
        /\ \/ ~Auditable
           \/ root.single.st = "torn" \/ root.batch.st = "torn"
           \/ root.single # Absent /\ root.batch # Absent
        /\ Move(p, "refused")
  /\ UNCHANGED job

(* The combinations both forms clear: nothing published, or all done.      *)
Settled(j) ==
  \/ root.head = j.prev /\ Inventory = j.prev.inv
  \/ root.head = Successor(j.prev, j.items)
     /\ Inventory = Successor(j.prev, j.items).inv

Adopt(p, kind, j, i, k, next) ==
  job' = [job EXCEPT ![p] =
    [op |-> "recover", kind |-> kind, items |-> j.items, prev |-> j.prev,
     next |-> next, idx |-> i, seen |-> k]]

(* Fault: the observed successor is promoted without the barriers.         *)
RecoverSinglePromotes(p) ==
  /\ hpc[p] = "inspect" /\ job[p].op = "recover" /\ Auditable
  /\ root.single.st = "intent" /\ root.batch = Absent
  /\ LET j == root.single IN
       \/ /\ Settled(j)
          /\ Move(p, "clear") /\ Adopt(p, "single", j, 1, 0, root.head)
       \/ /\ ~Settled(j) /\ root.head = j.prev
          /\ Inventory = Successor(j.prev, j.items).inv
          /\ Move(p, "head")
          /\ Adopt(p, "single", j, 1, 1, Successor(j.prev, j.items))

RecoverSingle(p) ==
  /\ hpc[p] = "inspect" /\ job[p].op = "recover" /\ Auditable
  /\ root.single.st = "intent" /\ root.batch = Absent
  /\ LET j == root.single
         next == Successor(j.prev, j.items)
     IN  \/ /\ Settled(j)
            /\ Move(p, "clear") /\ Adopt(p, "single", j, 1, 0, root.head)
         \/ /\ ~Settled(j) /\ root.head = j.prev /\ Inventory = next.inv
            /\ SyncObjectDurable(p, j.items[1])
            /\ Adopt(p, "single", j, 1, 1, next)
            /\ To(p, "putting") /\ Stay /\ UNCHANGED stateVars
         \/ /\ ~Settled(j) /\ ~(root.head = j.prev /\ Inventory = next.inv)
            /\ Move(p, "refused") /\ UNCHANGED job

StagesValid(j) == \A i \in DOMAIN j.items : root.stage[i] = j.items[i]

(* The new members whose journaled inventory is the observed one.          *)
Observed(j) == {i \in NewMembers(j) : After(j.prev, j.items, i) = Inventory}

RecoverBatch(p) ==
  /\ hpc[p] = "inspect" /\ job[p].op = "recover" /\ Auditable
  /\ root.batch.st = "intent" /\ root.single = Absent
  /\ LET j == root.batch
         replay == root.head = j.prev /\ Observed(j) # {} /\ StagesValid(j)
     IN  \/ /\ Settled(j)
            /\ Move(p, "unstage") /\ Adopt(p, "batch", j, 1, 0, root.head)
         \/ /\ ~Settled(j) /\ replay
            /\ \E k \in Observed(j) :
                 Adopt(p, "batch", j, 1, k, Successor(j.prev, j.items))
            /\ Move(p, "put")
         \/ /\ ~Settled(j) /\ ~replay
            /\ Move(p, "refused") /\ UNCHANGED job

-----------------------------------------------------------------------------
(* Leaving an operation.  A failed system call is an error at once; the    *)
(* guards are dropped on every way out.                                    *)

HeadFail(p) ==
  /\ hpc[p] \notin {"idle", "done", "refused", "failed"} /\ ph[p] = "idle"
  /\ Move(p, "failed") /\ UNCHANGED job

PutFailed(p) ==
  /\ hpc[p] \in {"confirming", "putting"} /\ ph[p] \in {"failed", "conflict"}
  /\ PutReturn(p)
  /\ To(p, IF ph[p] = "failed" THEN "failed" ELSE "refused")
  /\ Stay /\ UNCHANGED <<stateVars, job>>

Return(p) ==
  /\ hpc[p] \in {"done", "refused", "failed"}
  /\ IF InTxn(p) THEN EndTxn(p) ELSE UNCHANGED storeVars
  /\ IF hpc[p] = "done" THEN Promise(job[p].next) ELSE UNCHANGED promised
  /\ stWriter' = IF stWriter = p THEN NoProc ELSE stWriter
  /\ stReaders' = stReaders \ {p}
  /\ To(p, "idle")
  /\ job' = [job EXCEPT ![p] = NoJob]
  /\ UNCHANGED <<stateVars, genesis>>

HeadCrash(p) ==
  /\ crashes < MaxCrashes /\ (hpc[p] # "idle" \/ rec = p \/ InTxn(p))
  /\ StoreCrash(p)
  /\ stWriter' = IF stWriter = p THEN NoProc ELSE stWriter
  /\ stReaders' = stReaders \ {p}
  /\ To(p, "idle")
  /\ job' = [job EXCEPT ![p] = NoJob]
  /\ UNCHANGED <<stateVars, genesis, promised>>

(* The state root comes back as it was at some moment since its last       *)
(* fsync; without ordering, file by file.                                  *)
Survivors ==
  IF Ordered THEN past
  ELSE {r \in [head : {q.head : q \in past}, single : {q.single : q \in past},
               batch : {q.batch : q \in past}, stage : Stages] :
          \A i \in 1..MaxBatch : \E q \in past : r.stage[i] = q.stage[i]}

HeadPowerLoss ==
  /\ crashes < MaxCrashes
  /\ StorePowerLoss
  /\ root' \in Survivors /\ past' = {root'}
  /\ stReaders' = {} /\ stWriter' = NoProc
  /\ hpc' = [p \in Procs |-> "idle"]
  /\ job' = [p \in Procs |-> NoJob]
  /\ UNCHANGED <<genesis, promised>>

-----------------------------------------------------------------------------
HeadOp(p) ==
  \/ Initialize(p) \/ Load(p) \/ Verify(p) \/ Recover(p)
  \/ \E id \in Ids \ Foreign : Store(p, id)
  \/ \E items \in Batches : StoreBatch(p, items)

HeadStep(p) ==
  \/ LockStore(p) \/ InitializeInspect(p) \/ VerifyInspect(p) \/ StoreInspect(p)
  \/ StoreBatchInspect(p) \/ Confirm(p) \/ Confirmed(p) \/ CreatePending(p)
  \/ FillPending(p) \/ SyncPending(p) \/ CreateStage(p) \/ FillStage(p)
  \/ PutMember(p) \/ MemberDone(p) \/ ReplayDone(p) \/ WriteState(p)
  \/ SyncState(p) \/ ClearStage(p) \/ ClearPending(p) \/ SyncCleared(p)
  \/ RecoverNothing(p) \/ RecoverSingle(p) \/ RecoverBatch(p) \/ PutFailed(p)
  \/ Return(p)

(* A temporary-object recovery pass runs beside the head operations.       *)
TempPass(p) == (Idle(p) /\ RecLock(p)) \/ RecStep(p)

(* A write transaction of a program that does not maintain the head.       *)
Outsider(p) ==
  \/ BeginWrite(p) \/ EndTxn(p) \/ PutReturn(p)
  \/ \E id \in Ids : PutStart(p, id)

HeadNext ==
  \/ \E p \in Procs \ Outsiders : HeadOp(p)
  \/ \E p \in Outsiders : Outsider(p) /\ UNCHANGED headVars
  \/ \E p \in Procs :
       \/ HeadStep(p) \/ HeadFail(p) \/ FillPendingFails(p)
       \/ HeadCrash(p)
       \/ PutStep(p) /\ UNCHANGED headVars
  \/ \E p \in Sweepers : TempPass(p) /\ UNCHANGED headVars
  \/ HeadPowerLoss

vars == <<storeVars, headVars>>

HeadSpec == HeadInit /\ [][HeadNext]_vars

(* For convergence: processes crash and power is lost a bounded number of  *)
(* times.  A failing call is a crash of its caller here, which is the same *)
(* for the disk and the locks, except where the code cleans up after it    *)
(* (FillPendingFails).  Running operations go on, and the host calls       *)
(* recovery of the head, and of temporary objects while there are any.     *)
(* Nobody is obliged to publish, and there are no outsiders.               *)
TempAdvance(p) == (Idle(p) /\ RecLock(p)) \/ RecAdvance(p)

CalmNext ==
  \/ \E p \in Procs :
       \/ HeadOp(p) \/ HeadStep(p) \/ FillPendingFails(p) \/ HeadCrash(p)
       \/ PutAdvance(p) /\ UNCHANGED headVars
  \/ \E p \in Sweepers : TempAdvance(p) /\ UNCHANGED headVars
  \/ HeadPowerLoss

HeadFairSpec ==
  /\ HeadInit /\ [][CalmNext]_vars
  /\ \A p \in Procs : /\ WF_vars(HeadStep(p))
                      /\ WF_vars(PutAdvance(p) /\ UNCHANGED headVars)
                      /\ WF_vars(RecAdvance(p) /\ UNCHANGED headVars)
  /\ WF_vars(\E p \in Procs : Recover(p))
  /\ WF_vars(\E p \in Sweepers : temps # {} /\ TempAdvance(p) /\ UNCHANGED headVars)

-----------------------------------------------------------------------------
(* Properties.                                                             *)

(* The head never names an object that could still be lost: whatever the   *)
(* state root may come back as, every object its head anchors beyond the   *)
(* initial inventory has crossed the durability barriers, also when the    *)
(* publisher died before them and recovery finished its work.              *)
HeadBacked ==
  \A r \in past : r.head.gen > 0 => r.head.inv \ genesis \subseteq acked

(* A crash can cut short a journal file, and a power loss an object that   *)
(* was renamed but not synced; recovery refuses both and repairs neither.  *)
TornJournal == root.single.st = "torn" \/ root.batch.st = "torn"
Damaged     == torn # {} \/ TornJournal

(* The combinations of head, journal, stages and store that                *)
(* recover_pending_publication confirms, clears or completes.              *)
Accepted ==
  \/ NoPending /\ Inventory = root.head.inv
  \/ /\ root.single.st = "intent" /\ root.batch = Absent
     /\ LET j == root.single IN
          \/ Settled(j)
          \/ root.head = j.prev /\ Inventory = Successor(j.prev, j.items).inv
  \/ /\ root.batch.st = "intent" /\ root.single = Absent
     /\ LET j == root.batch IN
          \/ Settled(j)
          \/ root.head = j.prev /\ Observed(j) # {} /\ StagesValid(j)

(* After a crash at any step of a publication, or of an earlier recovery,  *)
(* an undamaged pair of roots is in a combination that recovery accepts.   *)
(* A journal that was cut short, which recovery refuses, at least hides    *)
(* nothing: it is the only journal, and the store is still what the head   *)
(* says.  (Where every writer maintains the head.)                         *)
Recoverable ==
  root.head.gen > 0 =>
    /\ ~Damaged => Accepted
    /\ TornJournal => /\ root.single = Absent \/ root.batch = Absent
                      /\ Inventory = root.head.inv

(* Recovery gives up with a refusal, at its inspection or at any step of   *)
(* its replay, only over damage or a store that fails the audit (left      *)
(* temporary objects, too many entries).  (Where every writer maintains    *)
(* the head.)                                                              *)
RefusesOnlyDamage ==
  [][\A p \in Procs :
       job[p].op = "recover" /\ hpc[p] # "refused" /\ hpc'[p] = "refused" =>
         Damaged \/ ~Auditable]_vars

(* A head a caller was given, by publication, recovery, load or verify, is *)
(* never lost and never replaced: whatever the state root may come back    *)
(* as, it holds that head, a later one, or the journal that leads to it,   *)
(* with its members durable, so that recovery returns to it.  (The first   *)
(* generation is exempt: load may read it before initialization synced it.)*)
PromiseKept ==
  promised.gen > 1 =>
    /\ promised.inv \ genesis \subseteq acked
    /\ \A r \in past :
         \/ r.head.gen > promised.gen \/ r.head = promised
         \/ \E j \in {r.single, r.batch} :
              /\ j.st = "intent" /\ r.head = j.prev
              /\ Successor(j.prev, j.items) = promised

(* An undamaged pending publication does not stay pending: whatever step   *)
(* it was interrupted at, and however often recovery is interrupted too,   *)
(* repeated recovery completes or aborts it and removes the journal; the   *)
(* state lock, the store lock and the recovery lock never block each other *)
(* for ever, unless passes with nothing to remove keep taking the last.    *)
Converges ==
  \/ (~NoPending /\ ~Damaged) ~> (NoPending \/ Damaged)
  \/ []<>(rec # NoProc /\ temps = {} /\ swept = {})

(* README: predecessor head and predecessor inventory clear an intent that *)
(* preceded store mutation; recovery does not refuse that combination.     *)
PredecessorIsCleared ==
  \A p \in Procs :
    job[p].op = "recover" /\ hpc[p] = "refused" =>
      ~(Auditable /\ Inventory = root.head.inv)

(* "Arbitrary observed store inventories are never promoted to head        *)
(* state": an object that no head operation asked for enters the head only *)
(* through initialization, however outsiders' transactions fall between a  *)
(* crash, the operation's journal and its recovery.                        *)
NothingForeignPromoted ==
  \A r \in past : r.head.inv \intersect Foreign \subseteq genesis
=============================================================================
