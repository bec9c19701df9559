-------------------------- MODULE HeadStateProofs --------------------------
(***************************************************************************)
(* Proofs about the authenticated store head, for any number of processes, *)
(* identities, batch sizes, generations and crashes.                       *)
(*                                                                         *)
(* Part 1 holds for every file system and with outsiders publishing beside *)
(* the head: the locks, the locals of each operation, what the head names  *)
(* is durable, and nothing foreign is promoted.  Part 2 needs every writer *)
(* to maintain the head and a state root that keeps the order of changes:  *)
(* the disk is then always empty, quiet or publishing, which is what makes *)
(* every crash recoverable and every promised head permanent.              *)
(*                                                                         *)
(* Each action has an Effect lemma that says what it does to the variables *)
(* the invariants mention; the Step lemmas cite those and not the actions. *)
(***************************************************************************)
EXTENDS HeadState, SnapshotStoreProofs, WellFoundedInduction

(* Facts about the operators of the model.                                 *)

LEMMA NatMin ==
  ASSUME NEW S, S \subseteq Nat, S # {}
  PROVE  \E i \in S : \A j \in S : i <= j
<1>1. PICK x \in S : \A y \in S : ~(<<y, x>> \in OpToRel(<, Nat))
  BY NatLessThanWellFounded, WFMin, Zenon
<1>2. \A y \in S : ~(y < x)
  BY <1>1, Zenon DEF OpToRel
<1> QED BY <1>2

(* FirstFrom finds the least index that is not below k, or goes past the   *)
(* end when there is none.                                                 *)
LEMMA FirstFromIs ==
  ASSUME NEW items, Len(items) \in Nat, NEW S \in SUBSET (1..Len(items)), NEW k \in Nat
  PROVE  /\ FirstFrom(S, k, items) \in Nat
         /\ \/ FirstFrom(S, k, items) \in S /\ FirstFrom(S, k, items) >= k
            \/ FirstFrom(S, k, items) = Len(items) + 1
         /\ \A i \in S : i >= k => FirstFrom(S, k, items) <= i
<1>1. CASE \E i \in S : i >= k
  <2> DEFINE Q == {i \in S : i >= k}
  <2> DEFINE n == CHOOSE i \in S : i >= k /\ \A j \in S : j >= k => i <= j
  <2>1. Q \subseteq Nat /\ Q # {}
    <3>1. \A i \in 1..Len(items) : i \in Nat
      OBVIOUS
    <3> QED BY <1>1, <3>1
  <2> HIDE DEF Q
  <2>2. PICK m \in Q : \A j \in Q : m <= j
    BY <2>1, NatMin
  <2>3. \E i \in S : i >= k /\ \A j \in S : j >= k => i <= j
    BY <2>2 DEF Q
  <2>4. n \in S /\ n >= k /\ \A j \in S : j >= k => n <= j
    BY <2>3
  <2>5. FirstFrom(S, k, items) = n
    BY <1>1 DEF FirstFrom
  <2> HIDE DEF n
  <2> QED BY <2>4, <2>5
<1>2. CASE ~ \E i \in S : i >= k
  BY <1>2 DEF FirstFrom
<1> QED BY <1>1, <1>2

LEMMA BatchFacts ==
  ASSUME NEW s \in Batches
  PROVE  /\ Len(s) \in 1..MaxBatch /\ DOMAIN s = 1..Len(s)
         /\ \A i \in DOMAIN s : s[i] \in Ids \ Foreign
  BY HeadAssumption DEF Batches

LEMMA EmptyFacts == Len(<<>>) = 0 /\ DOMAIN <<>> = 1..0
  OBVIOUS

LEMMA SingletonBatch ==
  ASSUME NEW id \in Ids \ Foreign
  PROVE  <<id>> \in Batches /\ Len(<<id>>) = 1 /\ <<id>>[1] = id
  BY HeadAssumption DEF Batches

LEMMA ItemFacts ==
  ASSUME NEW s \in Batches \union {<<>>}
  PROVE  /\ Len(s) \in 0..MaxBatch /\ DOMAIN s = 1..Len(s)
         /\ \A i \in DOMAIN s : s[i] \in Ids \ Foreign
  BY BatchFacts, EmptyFacts, HeadAssumption

(* The records the code writes are records of the state root.              *)
LEMMA RecordTypes ==
  /\ NoHead \in HeadRec /\ Absent \in Journal /\ TornJ \in Journal
  /\ \A prev \in HeadRec : \A items \in Batches \union {<<>>} :
       Intent(prev, items) \in Journal /\ Successor(prev, items) \in HeadRec
<1>1. NoHead \in HeadRec
  BY DEF NoHead, HeadRec
<1>2. Absent \in Journal /\ TornJ \in Journal
  BY <1>1 DEF Absent, TornJ, Journal
<1>3. ASSUME NEW prev \in HeadRec, NEW items \in Batches \union {<<>>}
      PROVE  Intent(prev, items) \in Journal /\ Successor(prev, items) \in HeadRec
  BY ItemFacts DEF Intent, Journal, Successor, HeadRec, Elems
<1> QED BY <1>1, <1>2, <1>3

LEMMA MemberSets ==
  ASSUME NEW j, j.items \in Batches \union {<<>>}
  PROVE  /\ Preexisting(j) \in SUBSET (1..Len(j.items))
         /\ NewMembers(j) \in SUBSET (1..Len(j.items))
         /\ \A i \in 1..Len(j.items) : i \notin NewMembers(j) => j.items[i] \in j.prev.inv
  BY ItemFacts DEF Preexisting, NewMembers

(* What the steps of the store do to the variables the head relies on.     *)
LEMMA PutStepEffect ==
  ASSUME StoreIInv, NEW p \in Procs, PutStep(p)
  PROVE  /\ target' = target /\ acked \subseteq acked'
         /\ \A q \in Procs \ {p} : ph'[q] = ph[q]
         /\ ph[p] # "idle" /\ ph'[p] # "idle"
         /\ ph'[p] = "ok" => target[p] \in acked' /\ nameD' = objs'
         /\ \/ objs' = objs /\ nameD' \in {nameD, objs}
            \/ target[p] \notin objs /\ objs' = objs \union {target[p]} /\ nameD' = nameD
<1> USE DEF StoreIInv, StoreTypeOK, Goto, diskVars, recVars, txnVars, ExistingPhase
<1>1. CASE PutCheck(p) \/ PutLock(p) \/ PutRecheck(p) \/ PutRaced(p) \/ PutFail(p)
  BY <1>1 DEF PutCheck, PutLock, PutRecheck, PutRaced, PutFail, DropTemp
<1>2. CASE PutRename(p)
  BY <1>2 DEF PutRename
<1>3. CASE PutSyncObject(p) \/ PutSyncDirs(p)
  BY <1>3 DEF PutSyncObject, PutSyncDirs
<1> QED BY <1>1, <1>2, <1>3 DEF PutStep, PutAdvance

LEMMA TempPassEffect ==
  ASSUME NEW p \in Procs, TempPass(p)
  PROVE  /\ UNCHANGED <<ph, target, objs, acked, ins, writer, readers>>
         /\ nameD' \in {nameD, objs}
  BY DEF TempPass, RecLock, RecStep, RecAdvance, RecScan, RecUnlink, RecSync,
         RecReport, RecFail, RecRelease, diskVars, putVars, txnVars

LEMMA OutsiderEffect ==
  ASSUME StoreIInv, NEW p \in Procs, Outsider(p)
  PROVE  /\ UNCHANGED <<objs, nameD, acked>>
         /\ \A q \in Procs \ {p} : ph'[q] = ph[q] /\ target'[q] = target[q]
         /\ ph'[p] = "ok" => ph[p] = "ok" /\ target'[p] = target[p]
  BY DEF StoreIInv, StoreTypeOK, Outsider, BeginWrite, EndTxn, PutReturn, LeavePut,
         PutStart, EnterPut, Goto, diskVars, putVars, recVars, txnVars

LEMMA PowerLossEffect ==
  ASSUME StoreIInv, StorePowerLoss
  PROVE  /\ nameD \subseteq objs' /\ objs' \subseteq objs /\ nameD' = objs'
         /\ acked' = acked /\ ph' = [p \in Procs |-> "idle"]
  BY DEF StoreIInv, StoreTypeOK, StorePowerLoss

LEMMA StoreCrashEffect ==
  ASSUME StoreIInv, NEW p \in Procs, StoreCrash(p)
  PROVE  /\ UNCHANGED <<objs, nameD, acked>> /\ ph'[p] = "idle"
         /\ \A q \in Procs \ {p} : ph'[q] = ph[q] /\ target'[q] = target[q]
  BY DEF StoreIInv, StoreTypeOK, StoreCrash, Goto, diskVars

(***************************************************************************)
(* Part 1: every program and every file system.  Outsiders may publish     *)
(* beside the head, and the state root may lose unsynced files in any      *)
(* combination.                                                            *)
(***************************************************************************)

Ops == {"none", "init", "verify", "store", "batch", "recover"}

HeadPhases ==
  {"idle", "lock", "inspect", "confirm", "confirming", "create", "fill",
   "syncIntent", "stage", "stageFill", "put", "putting", "head", "syncHead",
   "unstage", "clear", "syncClear", "done", "refused", "failed"}

Root == [head : HeadRec, single : Journal, batch : Journal, stage : Stages]

JobRec ==
  [op : Ops, kind : {"single", "batch"}, items : Batches \union {<<>>},
   prev : HeadRec, next : HeadRec, idx : Nat, seen : Nat]

(* Every variable keeps the shape the code gives it.                       *)
HeadTypeOK ==
  /\ root \in past /\ past \subseteq Root
  /\ stReaders \subseteq Procs /\ stWriter \in Procs \union {NoProc}
  /\ hpc \in [Procs -> HeadPhases]
  /\ job \in [Procs -> JobRec]
  /\ genesis \subseteq Ids /\ promised \in HeadRec

Busy(p) == hpc[p] # "idle"

(* lock_state: one operation that may write, or any number that only read. *)
LockInv ==
  \A p \in Procs : Busy(p) =>
    IF job[p].op = "verify" THEN p \in stReaders /\ stWriter = NoProc
                            ELSE stWriter = p /\ stReaders = {}

(* The operation's program: where it may be, and what its locals hold.     *)
Writing == {"syncIntent", "stage", "stageFill", "put", "putting"}

FlowInv ==
  /\ \A r \in past : \A j \in {r.single, r.batch} :
       j.st = "intent" => j.items \in Batches
  /\ \A p \in Procs : Busy(p) =>
       /\ p \notin Outsiders /\ job[p].op # "none"
       /\ job[p].op = "verify" =>
            hpc[p] \in {"lock", "inspect", "done", "refused", "failed"}
       /\ job[p].op = "init" =>
            hpc[p] \in {"lock", "inspect", "head", "syncHead", "done", "refused", "failed"}
       /\ job[p].op \in {"store", "batch"} => job[p].items \in Batches
       /\ hpc[p] \in {"confirm", "confirming", "create", "fill", "syncIntent",
                      "stage", "stageFill"} =>
            job[p].op \in {"store", "batch"}
       /\ hpc[p] \in {"confirm", "stage", "stageFill"} => job[p].idx >= 1
       /\ hpc[p] = "stageFill" => job[p].idx <= Len(job[p].items)
       /\ hpc[p] \in {"create", "fill", "syncIntent", "stage", "stageFill"} =>
            NewMembers(job[p]) # {}
       /\ hpc[p] \in {"put", "putting"} =>
            job[p].items \in Batches /\ job[p].idx \in DOMAIN job[p].items
       /\ hpc[p] \in Writing \/ (hpc[p] = "head" /\ job[p].op # "init") =>
            job[p].next = Successor(job[p].prev, job[p].items)

(* While a process is inside a put of the store, it is at the member idx.  *)
LinkInv ==
  \A p \in Procs :
    /\ hpc[p] \in {"confirming", "putting"} =>
         ph[p] # "idle" /\ target[p] = job[p].items[job[p].idx]
    /\ p \notin Outsiders /\ ph[p] # "idle" => hpc[p] \in {"confirming", "putting"}

(* Only initialization works on an empty state root, and nothing but a     *)
(* power loss can make it empty again.                                     *)
EmptyInv ==
  /\ root.head = NoHead => past = {root}
  /\ \A p \in Procs : Busy(p) =>
       /\ job[p].op # "init" => root.head # NoHead
       /\ job[p].op = "init" => job[p].prev = NoHead
       /\ job[p].op = "init" /\ hpc[p] \in {"lock", "inspect", "head"} =>
            root.head = NoHead /\ NoPending
       /\ hpc[p] = "head" => job[p].next.gen > 0

(* What a head, or the predecessor in a journal, names has crossed the     *)
(* durability barriers or was there at initialization.                     *)
Anchored(h) == h.inv \ genesis \subseteq acked

BackInv ==
  /\ \A r \in past : Anchored(r.head) /\ Anchored(r.single.prev) /\ Anchored(r.batch.prev)
  /\ \A p \in Procs : ph[p] = "ok" => target[p] \in acked
  /\ \A p \in Procs : Busy(p) =>
       /\ Anchored(job[p].prev)
       /\ hpc[p] = "head" => Anchored(job[p].next)
       /\ hpc[p] \in {"put", "putting"} =>
            \A i \in DOMAIN job[p].items :
              i < job[p].idx => job[p].items[i] \in acked \union job[p].prev.inv

(* No head and no journal names what only outsiders publish, unless it was *)
(* there at initialization.                                                *)
Clean(h) == h.inv \intersect Foreign \subseteq genesis

ForeignInv ==
  /\ \A r \in past : Clean(r.head) /\ Clean(r.single.prev) /\ Clean(r.batch.prev)
  /\ \A p \in Procs : Busy(p) =>
       Clean(job[p].prev) /\ (hpc[p] = "head" => Clean(job[p].next))

HeadInv ==
  /\ StoreIInv /\ HeadTypeOK /\ LockInv /\ FlowInv /\ LinkInv /\ EmptyInv
  /\ BackInv /\ ForeignInv

(* The updates of an operation's locals.                                   *)
SameBut(g, f, p) ==
  /\ g \in [Procs -> JobRec] /\ \A q \in Procs \ {p} : g[q] = f[q]
  /\ g[p].op = f[p].op /\ g[p].kind = f[p].kind /\ g[p].items = f[p].items
  /\ g[p].prev = f[p].prev /\ g[p].seen = f[p].seen

LEMMA IdxUpdate ==
  ASSUME NEW f \in [Procs -> JobRec], NEW p \in Procs, NEW n \in Nat
  PROVE  LET g == [f EXCEPT ![p].idx = n]
         IN  SameBut(g, f, p) /\ g[p].idx = n /\ g[p].next = f[p].next
  BY DEF JobRec, SameBut

LEMMA NextUpdate ==
  ASSUME NEW f \in [Procs -> JobRec], NEW p \in Procs, NEW h \in HeadRec
  PROVE  LET g == [f EXCEPT ![p].next = h]
         IN  SameBut(g, f, p) /\ g[p].idx = f[p].idx /\ g[p].next = h
  BY DEF JobRec, SameBut

LEMMA RootUpdates ==
  ASSUME NEW r \in Root
  PROVE  /\ \A h \in HeadRec : [r EXCEPT !.head = h] \in Root
         /\ \A v \in Journal : [r EXCEPT !.single = v] \in Root /\ [r EXCEPT !.batch = v] \in Root
         /\ \A i \in Nat : \A v \in Ids \union {"absent", "torn"} :
              [r EXCEPT !.stage[i] = v] \in Root
  BY DEF Root, Stages

Goes(p, S) == hpc'[p] \in S /\ \A q \in Procs \ {p} : hpc'[q] = hpc[q]

Adopted(g, f, p, kind, j, k, next) ==
  /\ g \in [Procs -> JobRec] /\ \A q \in Procs \ {p} : g[q] = f[q]
  /\ g[p].op = "recover" /\ g[p].kind = kind /\ g[p].items = j.items
  /\ g[p].prev = j.prev /\ g[p].next = next /\ g[p].idx = 1 /\ g[p].seen = k

LEMMA AdoptJob ==
  ASSUME HeadTypeOK, NEW p \in Procs, NEW kind \in {"single", "batch"},
         NEW j \in Journal, NEW k \in Nat, NEW next \in HeadRec,
         Adopt(p, kind, j, 1, k, next)
  PROVE  Adopted(job', job, p, kind, j, k, next)
<1>1. j.prev \in HeadRec /\ j.items \in Batches \union {<<>>}
  BY DEF Journal
<1> QED BY <1>1 DEF HeadTypeOK, Adopt, JobRec, Ops, Adopted

LEMMA RecoverSingleEffect ==
  ASSUME HeadTypeOK, NEW p \in Procs, RecoverSingle(p)
  PROVE  LET j == root.single
             next == Successor(j.prev, j.items)
         IN  /\ Goes(p, {"refused", "clear", "putting"}) /\ Stay /\ UNCHANGED stateVars
             /\ hpc[p] = "inspect" /\ job[p].op = "recover"
             /\ j.st = "intent" /\ root.batch = Absent
             /\ \/ hpc'[p] = "refused" /\ job' = job /\ UNCHANGED storeVars
                \/ /\ hpc'[p] = "clear" /\ Settled(j) /\ UNCHANGED storeVars
                   /\ Adopted(job', job, p, "single", j, 0, root.head)
                \/ /\ hpc'[p] = "putting" /\ root.head = j.prev
                   /\ objs = next.inv /\ ~Settled(j)
                   /\ SyncObjectDurable(p, j.items[1])
                   /\ Adopted(job', job, p, "single", j, 1, next)
<1> DEFINE j == root.single
           next == Successor(j.prev, j.items)
<1>1. j \in Journal /\ root.head \in HeadRec /\ next \in HeadRec
  BY RecordTypes DEF HeadTypeOK, Root, Journal
<1>2. hpc[p] = "inspect" /\ job[p].op = "recover" /\ j.st = "intent" /\ root.batch = Absent
  BY DEF RecoverSingle
<1>3. CASE Settled(j) /\ Move(p, "clear") /\ Adopt(p, "single", j, 1, 0, root.head)
  <2>1. Adopted(job', job, p, "single", j, 0, root.head)
    BY <1>1, <1>3, AdoptJob
  <2> QED BY <1>2, <1>3, <2>1 DEF Move, To, Goes, HeadTypeOK
<1>4. CASE /\ ~Settled(j) /\ root.head = j.prev /\ Inventory = next.inv
           /\ SyncObjectDurable(p, j.items[1])
           /\ Adopt(p, "single", j, 1, 1, next)
           /\ To(p, "putting") /\ Stay /\ UNCHANGED stateVars
  <2>1. Adopted(job', job, p, "single", j, 1, next)
    BY <1>1, <1>4, AdoptJob
  <2> QED BY <1>2, <1>4, <2>1 DEF To, Goes, HeadTypeOK, Inventory
<1>5. CASE Move(p, "refused") /\ UNCHANGED job
  BY <1>2, <1>5 DEF Move, To, Goes, HeadTypeOK
<1> QED BY <1>3, <1>4, <1>5 DEF RecoverSingle

LEMMA RecoverBatchEffect ==
  ASSUME HeadTypeOK, NEW p \in Procs, RecoverBatch(p)
  PROVE  LET j == root.batch
         IN  /\ Goes(p, {"refused", "unstage", "put"}) /\ Stay
             /\ UNCHANGED <<storeVars, stateVars>>
             /\ hpc[p] = "inspect" /\ job[p].op = "recover"
             /\ j.st = "intent" /\ root.single = Absent
             /\ \/ hpc'[p] = "refused" /\ job' = job
                \/ /\ hpc'[p] = "unstage" /\ Settled(j)
                   /\ Adopted(job', job, p, "batch", j, 0, root.head)
                \/ /\ hpc'[p] = "put" /\ root.head = j.prev /\ StagesValid(j) /\ ~Settled(j)
                   /\ \E k \in Observed(j) :
                        Adopted(job', job, p, "batch", j, k, Successor(j.prev, j.items))
<1> DEFINE j == root.batch
           next == Successor(j.prev, j.items)
<1>1. j \in Journal /\ root.head \in HeadRec /\ next \in HeadRec
  BY RecordTypes DEF HeadTypeOK, Root, Journal
<1>2. hpc[p] = "inspect" /\ job[p].op = "recover" /\ j.st = "intent" /\ root.single = Absent
  BY DEF RecoverBatch
<1>3. CASE Settled(j) /\ Move(p, "unstage") /\ Adopt(p, "batch", j, 1, 0, root.head)
  <2>1. Adopted(job', job, p, "batch", j, 0, root.head)
    BY <1>1, <1>3, AdoptJob
  <2> QED BY <1>2, <1>3, <2>1 DEF Move, To, Goes, HeadTypeOK
<1>4. ASSUME ~Settled(j), root.head = j.prev, StagesValid(j), Move(p, "put"),
             NEW k \in Observed(j), Adopt(p, "batch", j, 1, k, next)
      PROVE  /\ hpc'[p] = "put" /\ Goes(p, {"refused", "unstage", "put"})
             /\ Stay /\ UNCHANGED <<storeVars, stateVars>>
             /\ Adopted(job', job, p, "batch", j, k, next)
  <2>1. k \in Nat
    BY <1>1, MemberSets, ItemFacts DEF Observed, Journal
  <2>2. Adopted(job', job, p, "batch", j, k, next)
    BY <1>1, <1>4, <2>1, AdoptJob
  <2> QED BY <1>4, <2>2 DEF Move, To, Goes, HeadTypeOK
<1>5. CASE Move(p, "refused") /\ UNCHANGED job
  BY <1>2, <1>5 DEF Move, To, Goes, HeadTypeOK
<1> QED BY <1>2, <1>3, <1>4, <1>5 DEF RecoverBatch

(* Every step of the head is a step of the store, or leaves it alone.      *)
LEMMA HeadStoreStep ==
  ASSUME HeadInv, [HeadNext]_vars
  PROVE  StoreIInv'
<1> USE HeadAssumption
<1>0. StoreIInv /\ FlowInv /\ HeadTypeOK
  BY DEF HeadInv
<1>1. ASSUME UNCHANGED storeVars PROVE StoreIInv'
  BY <1>0, <1>1, StoreStutterInv
<1>2. ASSUME NEW p \in Procs, TxnStep(p) PROVE StoreIInv'
  BY <1>0, <1>2, TxnStepInv
<1>3. ASSUME NEW p \in Procs, PutReturn(p) PROVE StoreIInv'
  BY <1>0, <1>3, PutStepInv
<1>4. ASSUME NEW p \in Procs, NEW id \in Ids, PutStart(p, id) \/ SyncObjectDurable(p, id)
      PROVE  StoreIInv'
  BY <1>0, <1>4, EnterPutInv
<1>5. ASSUME NEW p \in Procs \ Outsiders, HeadOp(p) PROVE StoreIInv'
  BY <1>1, <1>5 DEF HeadOp, Initialize, Load, Verify, Recover, Store, StoreBatch, Enter
<1>6. ASSUME NEW p \in Procs, HeadStep(p) PROVE StoreIInv'
  <2>1. CASE LockStore(p)
    BY <1>2, <2>1 DEF LockStore, TxnStep
  <2>2. CASE Confirm(p)
    <3>1. job[p].idx <= Len(job[p].items) => job[p].items[job[p].idx] \in Ids
      BY <1>0, <2>2, BatchFacts DEF Confirm, FlowInv, Busy, HeadTypeOK, JobRec
    <3> QED BY <1>1, <1>4, <2>2, <3>1 DEF Confirm, Move
  <2>3. CASE PutMember(p)
    <3>1. job[p].items[job[p].idx] \in Ids
      BY <1>0, <2>3, BatchFacts DEF PutMember, FlowInv, Busy
    <3> QED BY <1>4, <2>3, <3>1 DEF PutMember
  <2>4. CASE Confirmed(p) \/ MemberDone(p) \/ ReplayDone(p) \/ PutFailed(p)
    BY <1>3, <2>4 DEF Confirmed, MemberDone, ReplayDone, PutFailed
  <2>5. CASE RecoverSingle(p)
    <3>1. root.single.items[1] \in objs => root.single.items[1] \in Ids
      BY <1>0 DEF StoreIInv, StoreTypeOK
    <3> QED BY <1>1, <1>4, <2>5, <3>1 DEF RecoverSingle, Move, SyncObjectDurable
  <2>6. CASE Return(p)
    BY <1>1, <1>2, <2>6 DEF Return, TxnStep
  <2>7. CASE \/ InitializeInspect(p) \/ VerifyInspect(p) \/ StoreInspect(p)
             \/ StoreBatchInspect(p) \/ RecoverNothing(p) \/ RecoverBatch(p)
             \/ CreatePending(p) \/ FillPending(p) \/ SyncPending(p)
             \/ CreateStage(p) \/ FillStage(p) \/ WriteState(p) \/ SyncState(p)
             \/ ClearStage(p) \/ ClearPending(p) \/ SyncCleared(p)
    BY <1>1, <2>7
    DEF InitializeInspect, VerifyInspect, StoreInspect, StoreBatchInspect,
        RecoverNothing, RecoverBatch, CreatePending, FillPending, SyncPending,
        CreateStage, FillStage, WriteState, SyncState, ClearStage, ClearPending,
        SyncCleared, Move
  <2> QED BY <1>6, <2>1, <2>2, <2>3, <2>4, <2>5, <2>6, <2>7 DEF HeadStep
<1>7. ASSUME NEW p \in Procs, HeadFail(p) \/ FillPendingFails(p) PROVE StoreIInv'
  BY <1>1, <1>7 DEF HeadFail, FillPendingFails, Move
<1>8. ASSUME NEW p \in Procs, HeadCrash(p) PROVE StoreIInv'
  BY <1>0, <1>8, StoreCrashInv DEF HeadCrash
<1>9. ASSUME NEW p \in Procs, PutStep(p) PROVE StoreIInv'
  BY <1>0, <1>9, PutStepInv
<1>10. ASSUME NEW p \in Procs, Outsider(p) PROVE StoreIInv'
  BY <1>2, <1>3, <1>4, <1>10 DEF Outsider, TxnStep
<1>11. ASSUME NEW p \in Procs, TempPass(p) PROVE StoreIInv'
  BY <1>0, <1>11, RecStepInv DEF TempPass
<1>12. CASE HeadPowerLoss
  BY <1>0, <1>12, StorePowerLossInv DEF HeadPowerLoss
<1> QED BY <1>1, <1>5, <1>6, <1>7, <1>8, <1>9, <1>10, <1>11, <1>12 DEF HeadNext, vars

(* What each step does to its locals.                                      *)

LEMMA InitializeInspectJob ==
  ASSUME HeadTypeOK, StoreIInv, NEW p \in Procs, InitializeInspect(p)
  PROVE  \/ hpc'[p] = "refused" /\ job' = job
         \/ /\ SameBut(job', job, p) /\ job'[p].idx = job[p].idx
            /\ job'[p].next = [gen |-> 1, inv |-> objs]
<1>1. job \in [Procs -> JobRec] /\ [gen |-> 1, inv |-> objs] \in HeadRec
  BY DEF HeadTypeOK, HeadRec, StoreIInv, StoreTypeOK
<1>2. \/ hpc'[p] = "refused" /\ job' = job
      \/ job' = [job EXCEPT ![p].next = [gen |-> 1, inv |-> objs]]
  BY DEF InitializeInspect, Inventory, Move, To, HeadTypeOK
<1>3. CASE job' = [job EXCEPT ![p].next = [gen |-> 1, inv |-> objs]]
  BY <1>1, <1>3, NextUpdate
<1> QED BY <1>2, <1>3

LEMMA StoreInspectJob ==
  ASSUME HeadTypeOK, NEW p \in Procs, StoreInspect(p)
  PROVE  SameBut(job', job, p) /\ job'[p].next = job[p].next /\ job'[p].idx = 1
<1>1. job \in [Procs -> JobRec] /\ job[p].idx + 1 \in Nat /\ 1 \in Nat
  BY DEF HeadTypeOK, JobRec
<1>2. job' = [job EXCEPT ![p].idx = 1]
  BY DEF StoreInspect
<1> QED BY <1>1, <1>2, IdxUpdate

LEMMA StoreBatchInspectJob ==
  ASSUME HeadTypeOK, NEW p \in Procs, StoreBatchInspect(p)
  PROVE  /\ SameBut(job', job, p) /\ job'[p].next = job[p].next
         /\ LET n == job'[p].idx IN
            /\ \/ n \in Preexisting(job[p]) /\ n >= 1
               \/ n = Len(job[p].items) + 1
            /\ \A i \in Preexisting(job[p]) : i >= 1 => n <= i
<1> DEFINE n == FirstFrom(Preexisting(job[p]), 1, job[p].items)
<1>1. /\ job \in [Procs -> JobRec] /\ job[p].items \in Batches \union {<<>>}
      /\ 1 \in Nat
  BY DEF HeadTypeOK, JobRec
<1>2. /\ n \in Nat /\ ((n \in Preexisting(job[p]) /\ n >= 1) \/ n = Len(job[p].items) + 1)
      /\ \A i \in Preexisting(job[p]) : i >= 1 => n <= i
  BY <1>1, MemberSets, ItemFacts, FirstFromIs
<1>3. job' = [job EXCEPT ![p].idx = n]
  BY DEF StoreBatchInspect
<1> HIDE DEF n
<1>4. (SameBut(job', job, p) /\ job'[p].idx = n /\ job'[p].next = job[p].next)
  <2>1. CASE job' = [job EXCEPT ![p].idx = n]
    BY <1>1, <1>2, <2>1, IdxUpdate
  <2> QED BY <1>3, <2>1
<1> QED BY <1>2, <1>3, <1>4

LEMMA ConfirmedJob ==
  ASSUME HeadTypeOK, NEW p \in Procs, Confirmed(p)
  PROVE  /\ SameBut(job', job, p) /\ job'[p].next = job[p].next
         /\ LET n == job'[p].idx IN
            /\ \/ n \in Preexisting(job[p]) /\ n >= (job[p].idx + 1)
               \/ n = Len(job[p].items) + 1
            /\ \A i \in Preexisting(job[p]) : i >= (job[p].idx + 1) => n <= i
<1> DEFINE n == FirstFrom(Preexisting(job[p]), (job[p].idx + 1), job[p].items)
<1>1. /\ job \in [Procs -> JobRec] /\ job[p].items \in Batches \union {<<>>}
      /\ (job[p].idx + 1) \in Nat
  BY DEF HeadTypeOK, JobRec
<1>2. /\ n \in Nat /\ ((n \in Preexisting(job[p]) /\ n >= (job[p].idx + 1)) \/ n = Len(job[p].items) + 1)
      /\ \A i \in Preexisting(job[p]) : i >= (job[p].idx + 1) => n <= i
  BY <1>1, MemberSets, ItemFacts, FirstFromIs
<1>3. job' = [job EXCEPT ![p].idx = n]
  BY DEF Confirmed
<1> HIDE DEF n
<1>4. (SameBut(job', job, p) /\ job'[p].idx = n /\ job'[p].next = job[p].next)
  <2>1. CASE job' = [job EXCEPT ![p].idx = n]
    BY <1>1, <1>2, <2>1, IdxUpdate
  <2> QED BY <1>3, <2>1
<1> QED BY <1>2, <1>3, <1>4

LEMMA FillPendingJob ==
  ASSUME HeadTypeOK, NEW p \in Procs, FillPending(p)
  PROVE  /\ SameBut(job', job, p) /\ job'[p].idx = job[p].idx
         /\ job'[p].next = Successor(job[p].prev, job[p].items)
<1>1. job \in [Procs -> JobRec] /\ Successor(job[p].prev, job[p].items) \in HeadRec
  BY RecordTypes DEF HeadTypeOK, JobRec
<1>2. job' = [job EXCEPT ![p].next = Successor(job[p].prev, job[p].items)]
  BY DEF FillPending
<1> QED BY <1>1, <1>2, NextUpdate

LEMMA SyncPendingJob ==
  ASSUME HeadTypeOK, NEW p \in Procs, SyncPending(p)
  PROVE  SameBut(job', job, p) /\ job'[p].next = job[p].next /\ job'[p].idx = 1
<1>1. job \in [Procs -> JobRec] /\ job[p].idx + 1 \in Nat /\ 1 \in Nat
  BY DEF HeadTypeOK, JobRec
<1>2. job' = [job EXCEPT ![p].idx = 1]
  BY DEF SyncPending
<1> QED BY <1>1, <1>2, IdxUpdate

LEMMA CreateStageJob ==
  ASSUME HeadTypeOK, NEW p \in Procs, CreateStage(p)
  PROVE  \/ job' = job
         \/ /\ SameBut(job', job, p) /\ job'[p].next = job[p].next
            /\ LET n == job'[p].idx IN
               /\ \/ n \in NewMembers(job[p]) /\ n >= 1
                  \/ n = Len(job[p].items) + 1
               /\ \A i \in NewMembers(job[p]) : i >= 1 => n <= i
<1> DEFINE n == FirstFrom(NewMembers(job[p]), 1, job[p].items)
<1>1. /\ job \in [Procs -> JobRec] /\ job[p].items \in Batches \union {<<>>}
      /\ 1 \in Nat
  BY DEF HeadTypeOK, JobRec
<1>2. /\ n \in Nat /\ ((n \in NewMembers(job[p]) /\ n >= 1) \/ n = Len(job[p].items) + 1)
      /\ \A i \in NewMembers(job[p]) : i >= 1 => n <= i
  BY <1>1, MemberSets, ItemFacts, FirstFromIs
<1>3. job' = job \/ job' = [job EXCEPT ![p].idx = n]
  BY DEF CreateStage
<1> HIDE DEF n
<1>4. job' = job \/ (SameBut(job', job, p) /\ job'[p].idx = n /\ job'[p].next = job[p].next)
  <2>1. CASE job' = [job EXCEPT ![p].idx = n]
    BY <1>1, <1>2, <2>1, IdxUpdate
  <2> QED BY <1>3, <2>1
<1> QED BY <1>2, <1>3, <1>4

LEMMA FillStageJob ==
  ASSUME HeadTypeOK, NEW p \in Procs, FillStage(p)
  PROVE  SameBut(job', job, p) /\ job'[p].next = job[p].next /\ job'[p].idx = job[p].idx + 1
<1>1. job \in [Procs -> JobRec] /\ job[p].idx + 1 \in Nat /\ 1 \in Nat
  BY DEF HeadTypeOK, JobRec
<1>2. job' = [job EXCEPT ![p].idx = job[p].idx + 1]
  BY <1>1 DEF FillStage
<1> QED BY <1>1, <1>2, IdxUpdate

LEMMA MemberDoneJob ==
  ASSUME HeadTypeOK, NEW p \in Procs, MemberDone(p)
  PROVE  /\ SameBut(job', job, p) /\ job'[p].next = job[p].next
         /\ LET n == job'[p].idx IN
            /\ \/ n \in NewMembers(job[p]) /\ n >= (job[p].idx + 1)
               \/ n = Len(job[p].items) + 1
            /\ \A i \in NewMembers(job[p]) : i >= (job[p].idx + 1) => n <= i
<1> DEFINE n == FirstFrom(NewMembers(job[p]), (job[p].idx + 1), job[p].items)
<1>1. /\ job \in [Procs -> JobRec] /\ job[p].items \in Batches \union {<<>>}
      /\ (job[p].idx + 1) \in Nat
  BY DEF HeadTypeOK, JobRec
<1>2. /\ n \in Nat /\ ((n \in NewMembers(job[p]) /\ n >= (job[p].idx + 1)) \/ n = Len(job[p].items) + 1)
      /\ \A i \in NewMembers(job[p]) : i >= (job[p].idx + 1) => n <= i
  BY <1>1, MemberSets, ItemFacts, FirstFromIs
<1>3. job' = [job EXCEPT ![p].idx = n]
  BY DEF MemberDone
<1> HIDE DEF n
<1>4. (SameBut(job', job, p) /\ job'[p].idx = n /\ job'[p].next = job[p].next)
  <2>1. CASE job' = [job EXCEPT ![p].idx = n]
    BY <1>1, <1>2, <2>1, IdxUpdate
  <2> QED BY <1>3, <2>1
<1> QED BY <1>2, <1>3, <1>4

LEMMA ReplayDoneJob ==
  ASSUME HeadTypeOK, NEW p \in Procs, ReplayDone(p)
  PROVE  SameBut(job', job, p) /\ job'[p].next = job[p].next /\ job'[p].idx = job[p].idx + 1
<1>1. job \in [Procs -> JobRec] /\ job[p].idx + 1 \in Nat /\ 1 \in Nat
  BY DEF HeadTypeOK, JobRec
<1>2. job' = [job EXCEPT ![p].idx = job[p].idx + 1]
  BY <1>1 DEF ReplayDone
<1> QED BY <1>1, <1>2, IdxUpdate

LEMMA SyncStateJob ==
  ASSUME HeadTypeOK, NEW p \in Procs, SyncState(p)
  PROVE  SameBut(job', job, p) /\ job'[p].next = job[p].next /\ job'[p].idx = 1
<1>1. job \in [Procs -> JobRec] /\ job[p].idx + 1 \in Nat /\ 1 \in Nat
  BY DEF HeadTypeOK, JobRec
<1>2. job' = [job EXCEPT ![p].idx = 1]
  BY DEF SyncState
<1> QED BY <1>1, <1>2, IdxUpdate

LEMMA ClearStageJob ==
  ASSUME HeadTypeOK, NEW p \in Procs, ClearStage(p)
  PROVE  job' = job \/ (SameBut(job', job, p) /\ job'[p].next = job[p].next /\ job'[p].idx = job[p].idx + 1)
<1>1. job \in [Procs -> JobRec] /\ job[p].idx + 1 \in Nat /\ 1 \in Nat
  BY DEF HeadTypeOK, JobRec
<1>2. job' = job \/ job' = [job EXCEPT ![p].idx = job[p].idx + 1]
  BY <1>1 DEF ClearStage
<1>3. CASE job' = [job EXCEPT ![p].idx = job[p].idx + 1]
  BY <1>1, <1>3, IdxUpdate
<1> QED BY <1>2, <1>3

(* What the steps on the state root do to it.                              *)

LEMMA SetJournalEffect ==
  ASSUME HeadTypeOK, NEW kind \in {"single", "batch"}, NEW v, SetJournal(kind, v)
  PROVE  /\ past' = past \union {root'}
         /\ root'.head = root.head /\ root'.stage = root.stage
         /\ kind = "single" => root'.single = v /\ root'.batch = root.batch
         /\ kind = "batch" => root'.batch = v /\ root'.single = root.single
  BY DEF HeadTypeOK, Root, SetJournal, SetRoot

LEMMA SetStageEffect ==
  ASSUME HeadTypeOK, NEW i, NEW v, SetRoot([root EXCEPT !.stage[i] = v])
  PROVE  /\ past' = past \union {root'} /\ root'.head = root.head
         /\ root'.single = root.single /\ root'.batch = root.batch
         /\ \A k \in 1..MaxBatch : root'.stage[k] = IF k = i THEN v ELSE root.stage[k]
  BY DEF HeadTypeOK, Root, Stages, SetRoot

LEMMA KindFacts ==
  ASSUME HeadTypeOK, NEW p \in Procs
  PROVE  job[p].kind \in {"single", "batch"}
  BY DEF HeadTypeOK, JobRec

LEMMA CreatePendingEffect ==
  ASSUME HeadTypeOK, NEW p \in Procs, CreatePending(p)
  PROVE  /\ hpc[p] = "create" /\ Goes(p, {"fill"}) /\ Stay /\ UNCHANGED <<storeVars, job>>
         /\ past' = past \union {root'}
         /\ root'.head = root.head /\ root'.stage = root.stage
         /\ job[p].kind = "single" =>
              root.single = Absent /\ root'.single = TornJ /\ root'.batch = root.batch
         /\ job[p].kind = "batch" =>
              root.batch = Absent /\ root'.batch = TornJ /\ root'.single = root.single
<1>1. job[p].kind \in {"single", "batch"} /\ SetJournal(job[p].kind, TornJ)
  BY KindFacts DEF CreatePending
<1>2. /\ hpc[p] = "create" /\ Goes(p, {"fill"}) /\ Stay /\ UNCHANGED <<storeVars, job>>
      /\ JournalOf(job[p].kind) = Absent
  BY DEF CreatePending, Goes, To, HeadTypeOK
<1> QED BY <1>1, <1>2, SetJournalEffect DEF JournalOf

LEMMA FillPendingEffect ==
  ASSUME HeadTypeOK, NEW p \in Procs, FillPending(p)
  PROVE  /\ hpc[p] = "fill" /\ Goes(p, {"syncIntent"}) /\ Stay /\ UNCHANGED storeVars
         /\ past' = past \union {root'}
         /\ root'.head = root.head /\ root'.stage = root.stage
         /\ job[p].kind = "single" =>
              /\ root'.single = Intent(job[p].prev, job[p].items)
              /\ root'.batch = root.batch
         /\ job[p].kind = "batch" =>
              /\ root'.batch = Intent(job[p].prev, job[p].items)
              /\ root'.single = root.single
         /\ SameBut(job', job, p) /\ job'[p].idx = job[p].idx
         /\ job'[p].next = Successor(job[p].prev, job[p].items)
<1>1. /\ job[p].kind \in {"single", "batch"}
      /\ SetJournal(job[p].kind, Intent(job[p].prev, job[p].items))
  BY KindFacts DEF FillPending
<1>2. hpc[p] = "fill" /\ Goes(p, {"syncIntent"}) /\ Stay /\ UNCHANGED storeVars
  BY DEF FillPending, Goes, To, HeadTypeOK
<1>3. /\ SameBut(job', job, p) /\ job'[p].idx = job[p].idx
      /\ job'[p].next = Successor(job[p].prev, job[p].items)
  BY FillPendingJob
<1> QED BY <1>1, <1>2, <1>3, SetJournalEffect

LEMMA FillPendingFailsEffect ==
  ASSUME HeadTypeOK, NEW p \in Procs, FillPendingFails(p)
  PROVE  /\ hpc[p] = "fill" /\ Goes(p, {"failed"}) /\ Stay /\ UNCHANGED <<storeVars, job>>
         /\ past' = past \union {root'} /\ job[p].kind = "single"
         /\ root'.head = root.head /\ root'.stage = root.stage
         /\ root'.single = Absent /\ root'.batch = root.batch
<1>1. SetJournal("single", Absent)
  BY DEF FillPendingFails
<1>2. /\ hpc[p] = "fill" /\ Goes(p, {"failed"}) /\ Stay /\ UNCHANGED <<storeVars, job>>
      /\ job[p].kind = "single"
  BY DEF FillPendingFails, Goes, To, HeadTypeOK
<1> QED BY <1>1, <1>2, SetJournalEffect

LEMMA ClearPendingEffect ==
  ASSUME HeadTypeOK, NEW p \in Procs, ClearPending(p)
  PROVE  /\ hpc[p] = "clear" /\ Goes(p, {"syncClear"}) /\ Stay /\ UNCHANGED <<storeVars, job>>
         /\ past' = past \union {root'}
         /\ root'.head = root.head /\ root'.stage = root.stage
         /\ \/ root'.single = Absent /\ root'.batch = root.batch
            \/ root'.batch = Absent /\ root'.single = root.single
<1>1. job[p].kind \in {"single", "batch"} /\ SetJournal(job[p].kind, Absent)
  BY KindFacts DEF ClearPending
<1>2. hpc[p] = "clear" /\ Goes(p, {"syncClear"}) /\ Stay /\ UNCHANGED <<storeVars, job>>
  BY DEF ClearPending, Goes, To, HeadTypeOK
<1> QED BY <1>1, <1>2, SetJournalEffect

LEMMA CreateStageEffect ==
  ASSUME HeadTypeOK, NEW p \in Procs, CreateStage(p)
  PROVE  /\ hpc[p] = "stage" /\ Stay /\ UNCHANGED storeVars
         /\ root'.head = root.head /\ root'.single = root.single /\ root'.batch = root.batch
         /\ \/ /\ Goes(p, {"stageFill"}) /\ job' = job /\ past' = past \union {root'}
               /\ job[p].idx <= Len(job[p].items)
               /\ \A k \in 1..MaxBatch :
                    root'.stage[k] = IF k = job[p].idx THEN "torn" ELSE root.stage[k]
            \/ /\ Goes(p, {"put"}) /\ UNCHANGED root /\ past' = {root}
               /\ job[p].idx > Len(job[p].items)
               /\ SameBut(job', job, p) /\ job'[p].next = job[p].next
               /\ \/ job'[p].idx \in NewMembers(job[p]) /\ job'[p].idx >= 1
                  \/ job'[p].idx = Len(job[p].items) + 1
               /\ \A i \in NewMembers(job[p]) : i >= 1 => job'[p].idx <= i
<1>1. hpc[p] = "stage" /\ Stay /\ UNCHANGED storeVars
  BY DEF CreateStage
<1>2. CASE /\ job[p].idx <= Len(job[p].items)
           /\ SetRoot([root EXCEPT !.stage[job[p].idx] = "torn"])
           /\ To(p, "stageFill") /\ UNCHANGED job
  <2>1. Goes(p, {"stageFill"})
    BY <1>2 DEF Goes, To, HeadTypeOK
  <2>2. /\ past' = past \union {root'} /\ root'.head = root.head
        /\ root'.single = root.single /\ root'.batch = root.batch
        /\ \A k \in 1..MaxBatch :
                    root'.stage[k] = IF k = job[p].idx THEN "torn" ELSE root.stage[k]
    BY <1>2, SetStageEffect
  <2> QED BY <1>1, <1>2, <2>1, <2>2
<1>3. CASE /\ job[p].idx > Len(job[p].items) /\ SyncRoot /\ To(p, "put")
           /\ job' = [job EXCEPT ![p].idx = FirstFrom(NewMembers(job[p]), 1, job[p].items)]
  <2>1. Goes(p, {"put"}) /\ UNCHANGED root /\ past' = {root}
    BY <1>3 DEF Goes, To, HeadTypeOK, SyncRoot
  <2> DEFINE n == FirstFrom(NewMembers(job[p]), 1, job[p].items)
  <2>2. job \in [Procs -> JobRec] /\ job[p].items \in Batches \union {<<>>}
    BY DEF HeadTypeOK, JobRec
  <2>3. /\ n \in Nat /\ ((n \in NewMembers(job[p]) /\ n >= 1) \/ n = Len(job[p].items) + 1)
        /\ \A i \in NewMembers(job[p]) : i >= 1 => n <= i
    BY <2>2, MemberSets, ItemFacts, FirstFromIs
  <2>4. SameBut(job', job, p) /\ job'[p].idx = n /\ job'[p].next = job[p].next
    BY <1>3, <2>2, <2>3, IdxUpdate
  <2> HIDE DEF n
  <2> QED BY <1>1, <1>3, <2>1, <2>3, <2>4
<1> QED BY <1>2, <1>3 DEF CreateStage

LEMMA FillStageEffect ==
  ASSUME HeadTypeOK, NEW p \in Procs, FillStage(p)
  PROVE  /\ hpc[p] = "stageFill" /\ Goes(p, {"stage"}) /\ Stay /\ UNCHANGED storeVars
         /\ root'.head = root.head /\ root'.single = root.single /\ root'.batch = root.batch
         /\ past' = past \union {root'}
         /\ \A k \in 1..MaxBatch :
              root'.stage[k] = IF k = job[p].idx THEN job[p].items[k] ELSE root.stage[k]
         /\ SameBut(job', job, p) /\ job'[p].next = job[p].next
         /\ job'[p].idx = job[p].idx + 1
<1>1. SetRoot([root EXCEPT !.stage[job[p].idx] = job[p].items[job[p].idx]])
  BY DEF FillStage
<1>2. hpc[p] = "stageFill" /\ Goes(p, {"stage"}) /\ Stay /\ UNCHANGED storeVars
  BY DEF FillStage, Goes, To, HeadTypeOK
<1> QED BY <1>1, <1>2, SetStageEffect, FillStageJob, ZenonT(60)

LEMMA ClearStageEffect ==
  ASSUME HeadTypeOK, NEW p \in Procs, ClearStage(p)
  PROVE  /\ hpc[p] = "unstage" /\ Goes(p, {"unstage", "clear"}) /\ Stay
         /\ UNCHANGED storeVars
         /\ root'.head = root.head /\ root'.single = root.single /\ root'.batch = root.batch
         /\ \/ past' = past \union {root'} \/ past' = {root'}
         /\ SameBut(job', job, p) /\ job'[p].next = job[p].next
<1>0. SameBut(job, job, p)
  BY DEF HeadTypeOK, SameBut
<1>1. hpc[p] = "unstage" /\ Stay /\ UNCHANGED storeVars
  BY DEF ClearStage
<1>2. CASE /\ SetRoot([root EXCEPT !.stage[job[p].idx] = "absent"])
           /\ job' = [job EXCEPT ![p].idx = @ + 1] /\ UNCHANGED hpc
  <2>1. Goes(p, {"unstage", "clear"})
    BY <1>1, <1>2 DEF Goes, HeadTypeOK
  <2> QED BY <1>0, <1>1, <1>2, <2>1, SetStageEffect, ClearStageJob
<1>3. CASE SyncRoot /\ To(p, "clear") /\ UNCHANGED job
  <2>1. Goes(p, {"unstage", "clear"}) /\ root' = root /\ past' = {root'}
    BY <1>3 DEF Goes, To, HeadTypeOK, SyncRoot
  <2> QED BY <1>0, <1>1, <1>3, <2>1
<1> QED BY <1>2, <1>3 DEF ClearStage

LEMMA WriteStateEffect ==
  ASSUME HeadTypeOK, NEW p \in Procs, WriteState(p)
  PROVE  /\ hpc[p] = "head" /\ Goes(p, {"syncHead"}) /\ Stay /\ UNCHANGED <<storeVars, job>>
         /\ past' = past \union {root'} /\ root'.head = job[p].next
         /\ root'.stage = root.stage
         /\ root'.single = root.single /\ root'.batch = root.batch
  BY DEF HeadTypeOK, Root, WriteState, SetRoot, Goes, To

LEMMA SuccessorFacts ==
  ASSUME NEW prev \in HeadRec, NEW items \in Batches \union {<<>>}
  PROVE  /\ Successor(prev, items).gen = prev.gen + 1 /\ prev.gen \in Nat
         /\ Successor(prev, items).inv = prev.inv \union {items[i] : i \in DOMAIN items}
         /\ Successor(prev, items) # NoHead /\ Successor(prev, items) # prev
  BY DEF Successor, HeadRec, Elems, NoHead

(* An operation that writes is alone, and never initialization before its  *)
(* head.                                                                   *)
LEMMA WriterAlone ==
  ASSUME LockInv, FlowInv, NEW p \in Procs, Busy(p),
         job[p].op # "verify" \/ hpc[p] \notin {"lock", "inspect", "done", "refused", "failed"}
  PROVE  /\ job[p].op # "verify" /\ stWriter = p
         /\ \A q \in Procs \ {p} : ~Busy(q)
         /\ hpc[p] \notin {"lock", "inspect", "head", "syncHead", "done", "refused", "failed"} =>
              job[p].op # "init"
<1>1. job[p].op # "verify"
  BY DEF FlowInv
<1>2. stWriter = p /\ stReaders = {}
  BY <1>1 DEF LockInv
<1>3. \A q \in Procs \ {p} : ~Busy(q)
  BY <1>2, StoreAssumption DEF LockInv
<1> QED BY <1>1, <1>2, <1>3 DEF FlowInv

(* The steps that enter and leave a put of the store.                      *)

Others(p) == \A q \in Procs \ {p} : ph'[q] = ph[q] /\ target'[q] = target[q]

LEMMA PutReturnEffect ==
  ASSUME StoreIInv, NEW p \in Procs, PutReturn(p)
  PROVE  ph'[p] = "idle" /\ Others(p) /\ UNCHANGED <<objs, nameD, acked>>
  BY DEF StoreIInv, StoreTypeOK, PutReturn, LeavePut, Goto, diskVars, Others

LEMMA PutStartEffect ==
  ASSUME StoreIInv, NEW p \in Procs, NEW id \in Ids, PutStart(p, id)
  PROVE  /\ ph[p] = "idle" /\ ph'[p] = "check" /\ target'[p] = id /\ Others(p)
         /\ UNCHANGED <<objs, nameD, acked>>
  BY DEF StoreIInv, StoreTypeOK, PutStart, EnterPut, Free, Goto, diskVars, Others

LEMMA SyncObjectEffect ==
  ASSUME StoreIInv, NEW p \in Procs, NEW id, SyncObjectDurable(p, id)
  PROVE  /\ id \in objs /\ ph'[p] = "syncObject" /\ target'[p] = id /\ Others(p)
         /\ UNCHANGED <<objs, nameD, acked>>
  BY DEF StoreIInv, StoreTypeOK, SyncObjectDurable, Free, Goto, diskVars, Others

LEMMA ConfirmEffect ==
  ASSUME HeadTypeOK, StoreIInv, FlowInv, NEW p \in Procs, Confirm(p)
  PROVE  /\ hpc[p] = "confirm" /\ Stay /\ UNCHANGED <<stateVars, job, objs, nameD, acked>>
         /\ Others(p)
         /\ \/ /\ Goes(p, {"confirming"}) /\ job[p].idx <= Len(job[p].items)
               /\ job[p].idx \in DOMAIN job[p].items
               /\ ph'[p] = "check" /\ target'[p] = job[p].items[job[p].idx]
            \/ /\ Goes(p, {"done", "create"}) /\ UNCHANGED <<ph, target>>
               /\ hpc'[p] = "create" => NewMembers(job[p]) # {}
<1>1. hpc[p] = "confirm" /\ Busy(p)
  BY DEF Confirm, Busy
<1>2. CASE /\ job[p].idx <= Len(job[p].items) /\ PutStart(p, job[p].items[job[p].idx])
           /\ To(p, "confirming") /\ Stay /\ UNCHANGED <<stateVars, job>>
  <2>1. job[p].items[job[p].idx] \in Ids /\ job[p].idx \in DOMAIN job[p].items
    BY <1>1, <1>2, BatchFacts DEF FlowInv, HeadTypeOK, JobRec
  <2>2. Goes(p, {"confirming"})
    BY <1>2 DEF To, Goes, HeadTypeOK
  <2>3. /\ ph'[p] = "check" /\ target'[p] = job[p].items[job[p].idx] /\ Others(p)
        /\ UNCHANGED <<objs, nameD, acked>>
    BY <1>2, <2>1, PutStartEffect
  <2> QED BY <1>1, <1>2, <2>1, <2>2, <2>3
<1>3. CASE /\ Move(p, IF NewMembers(job[p]) = {} THEN "done" ELSE "create")
           /\ UNCHANGED job
  BY <1>1, <1>3 DEF Move, To, Goes, HeadTypeOK, Others, storeVars, diskVars, putVars
<1> QED BY <1>2, <1>3 DEF Confirm

LEMMA ConfirmedEffect ==
  ASSUME HeadTypeOK, StoreIInv, NEW p \in Procs, Confirmed(p)
  PROVE  /\ hpc[p] = "confirming" /\ Goes(p, {"refused", "confirm"}) /\ Stay
         /\ UNCHANGED <<stateVars, objs, nameD, acked>>
         /\ Others(p) /\ ph'[p] = "idle"
         /\ SameBut(job', job, p) /\ job'[p].next = job[p].next
         /\ \/ job'[p].idx \in Preexisting(job[p]) /\ job'[p].idx >= job[p].idx + 1
            \/ job'[p].idx = Len(job[p].items) + 1
<1>1. /\ hpc[p] = "confirming" /\ PutReturn(p) /\ Stay /\ UNCHANGED stateVars
      /\ Goes(p, {"refused", "confirm"})
  BY DEF Confirmed, To, Goes, HeadTypeOK
<1> QED BY <1>1, PutReturnEffect, ConfirmedJob

LEMMA SyncPendingEffect ==
  ASSUME HeadTypeOK, NEW p \in Procs, SyncPending(p)
  PROVE  /\ hpc[p] = "syncIntent" /\ Stay /\ UNCHANGED <<storeVars, root>> /\ past' = {root}
         /\ Goes(p, {IF job[p].kind = "single" THEN "put" ELSE "stage"})
         /\ SameBut(job', job, p) /\ job'[p].next = job[p].next /\ job'[p].idx = 1
<1>1. /\ hpc[p] = "syncIntent" /\ Stay /\ UNCHANGED <<storeVars, root>> /\ past' = {root}
      /\ Goes(p, {IF job[p].kind = "single" THEN "put" ELSE "stage"})
  BY DEF SyncPending, SyncRoot, To, Goes, HeadTypeOK
<1> QED BY <1>1, SyncPendingJob

LEMMA PutMemberEffect ==
  ASSUME HeadTypeOK, StoreIInv, FlowInv, NEW p \in Procs, PutMember(p)
  PROVE  /\ hpc[p] = "put" /\ Goes(p, {"putting"}) /\ Stay
         /\ UNCHANGED <<stateVars, job, objs, nameD, acked>> /\ Others(p)
         /\ ph'[p] = "check" /\ target'[p] = job[p].items[job[p].idx]
<1>1. /\ hpc[p] = "put" /\ Busy(p) /\ Goes(p, {"putting"}) /\ Stay /\ UNCHANGED <<stateVars, job>>
      /\ PutStart(p, job[p].items[job[p].idx])
  BY DEF PutMember, Busy, To, Goes, HeadTypeOK
<1>2. job[p].items[job[p].idx] \in Ids
  BY <1>1, BatchFacts DEF FlowInv
<1> QED BY <1>1, <1>2, PutStartEffect

LEMMA MemberDoneEffect ==
  ASSUME HeadTypeOK, StoreIInv, NEW p \in Procs, MemberDone(p)
  PROVE  /\ hpc[p] = "putting" /\ ph[p] = "ok" /\ Goes(p, {"refused", "head", "put"})
         /\ Stay /\ UNCHANGED <<stateVars, objs, nameD, acked>>
         /\ Others(p) /\ ph'[p] = "idle"
         /\ SameBut(job', job, p) /\ job'[p].next = job[p].next
         /\ LET n == job'[p].idx IN
            /\ \/ n \in NewMembers(job[p]) /\ n >= job[p].idx + 1
               \/ n = Len(job[p].items) + 1
            /\ \A i \in NewMembers(job[p]) : i >= job[p].idx + 1 => n <= i
            /\ hpc'[p] = "head" => n > Len(job[p].items)
            /\ hpc'[p] = "put" => ~(n > Len(job[p].items))
         /\ hpc'[p] # "refused" => objs = After(job[p].prev, job[p].items, job[p].idx)
<1> DEFINE n == FirstFrom(NewMembers(job[p]), job[p].idx + 1, job[p].items)
<1>1. /\ hpc[p] = "putting" /\ ph[p] = "ok" /\ PutReturn(p) /\ Stay /\ UNCHANGED stateVars
      /\ Goes(p, {"refused", "head", "put"})
      /\ hpc'[p] = "head" => n > Len(job[p].items)
      /\ hpc'[p] = "put" => ~(n > Len(job[p].items))
      /\ job' = [job EXCEPT ![p].idx = n]
      /\ hpc'[p] # "refused" => objs = After(job[p].prev, job[p].items, job[p].idx)
  BY DEF MemberDone, To, Goes, HeadTypeOK, AuditedAfter, Inventory
<1>2. job \in [Procs -> JobRec] /\ job[p].items \in Batches \union {<<>>} /\ (job[p].idx + 1) \in Nat
  BY DEF HeadTypeOK, JobRec
<1>3. n \in Nat
  <2>1. NewMembers(job[p]) \in SUBSET (1..Len(job[p].items)) /\ Len(job[p].items) \in Nat
    BY <1>2, MemberSets, ItemFacts
  <2> QED BY <1>2, <2>1, FirstFromIs
<1>4. job'[p].idx = n
  BY <1>1, <1>2, <1>3, IdxUpdate
<1> HIDE DEF n
<1> QED BY <1>1, <1>4, PutReturnEffect, MemberDoneJob

LEMMA ReplayDoneEffect ==
  ASSUME HeadTypeOK, StoreIInv, NEW p \in Procs, ReplayDone(p)
  PROVE  /\ hpc[p] = "putting" /\ ph[p] = "ok" /\ Goes(p, {"refused", "head", "put"})
         /\ job[p].op = "recover" /\ job[p].kind = "batch"
         /\ Stay /\ UNCHANGED <<stateVars, objs, nameD, acked>>
         /\ Others(p) /\ ph'[p] = "idle"
         /\ SameBut(job', job, p) /\ job'[p].next = job[p].next
         /\ job'[p].idx = job[p].idx + 1
         /\ hpc'[p] = "head" =>
              /\ job[p].idx = Len(job[p].items)
              /\ objs = After(job[p].prev, job[p].items, job[p].idx)
         /\ hpc'[p] = "put" =>
              /\ job[p].idx # Len(job[p].items)
              /\ \/ job[p].idx \in Preexisting(job[p]) \/ job[p].idx <= job[p].seen
                 \/ objs = After(job[p].prev, job[p].items, job[p].idx)
<1>1. /\ hpc[p] = "putting" /\ ph[p] = "ok" /\ PutReturn(p) /\ Stay /\ UNCHANGED stateVars
      /\ job[p].op = "recover" /\ job[p].kind = "batch"
      /\ Goes(p, {"refused", "head", "put"})
      /\ hpc'[p] = "head" =>
           /\ job[p].idx = Len(job[p].items)
           /\ objs = After(job[p].prev, job[p].items, job[p].idx)
      /\ hpc'[p] = "put" =>
           /\ job[p].idx # Len(job[p].items)
           /\ \/ job[p].idx \in Preexisting(job[p]) \/ job[p].idx <= job[p].seen
              \/ objs = After(job[p].prev, job[p].items, job[p].idx)
  BY DEF ReplayDone, To, Goes, HeadTypeOK, AuditedAfter, Inventory
<1> QED BY <1>1, PutReturnEffect, ReplayDoneJob

(* The remaining steps, which leave the disk alone or only sync it.        *)

LEMMA LockStoreEffect ==
  ASSUME HeadTypeOK, NEW p \in Procs, LockStore(p)
  PROVE  /\ hpc[p] = "lock" /\ Goes(p, {"inspect"}) /\ Stay
         /\ UNCHANGED <<stateVars, job, diskVars, putVars, recVars, acked>>
  BY DEF LockStore, BeginRead, BeginWrite, To, Goes, HeadTypeOK

LEMMA InitializeInspectEffect ==
  ASSUME HeadTypeOK, StoreIInv, NEW p \in Procs, InitializeInspect(p)
  PROVE  /\ hpc[p] = "inspect" /\ job[p].op = "init"
         /\ UNCHANGED <<storeVars, stateVars, stReaders, stWriter, promised>>
         /\ Goes(p, {"head", "refused"}) /\ SameBut(job', job, p)
         /\ job'[p].idx = job[p].idx
         /\ hpc'[p] = "refused" => genesis' = genesis /\ job' = job
         /\ hpc'[p] = "head" =>
              genesis' = objs /\ job'[p].next = [gen |-> 1, inv |-> objs]
<1>1. /\ hpc[p] = "inspect" /\ job[p].op = "init"
      /\ UNCHANGED <<storeVars, stateVars, stReaders, stWriter, promised>>
      /\ Goes(p, {"head", "refused"})
      /\ hpc'[p] = "refused" => genesis' = genesis /\ job' = job
      /\ hpc'[p] = "head" => genesis' = objs
  BY DEF InitializeInspect, Inventory, Move, To, Stay, Goes, HeadTypeOK
<1>2. SameBut(job, job, p)
  BY DEF HeadTypeOK, SameBut
<1> QED BY <1>1, <1>2, InitializeInspectJob DEF Goes

LEMMA VerifyInspectEffect ==
  ASSUME HeadTypeOK, NEW p \in Procs, VerifyInspect(p)
  PROVE  /\ hpc[p] = "inspect" /\ job[p].op = "verify" /\ Stay
         /\ UNCHANGED <<storeVars, stateVars, job>> /\ Goes(p, {"done", "refused"})
         /\ hpc'[p] = "done" => objs = job[p].prev.inv
  BY DEF VerifyInspect, Inventory, Move, To, Goes, HeadTypeOK

LEMMA StoreInspectEffect ==
  ASSUME HeadTypeOK, NEW p \in Procs, StoreInspect(p)
  PROVE  /\ hpc[p] = "inspect" /\ job[p].op = "store" /\ Stay
         /\ UNCHANGED <<storeVars, stateVars>> /\ Goes(p, {"refused", "confirm", "create"})
         /\ SameBut(job', job, p) /\ job'[p].next = job[p].next /\ job'[p].idx = 1
         /\ hpc'[p] \in {"confirm", "create"} => objs = job[p].prev.inv
         /\ hpc'[p] = "confirm" => job[p].items[1] \in objs
         /\ hpc'[p] = "create" => job[p].items[1] \notin objs
<1>1. /\ hpc[p] = "inspect" /\ job[p].op = "store" /\ Stay
      /\ UNCHANGED <<storeVars, stateVars>> /\ Goes(p, {"refused", "confirm", "create"})
      /\ hpc'[p] \in {"confirm", "create"} => objs = job[p].prev.inv
      /\ hpc'[p] = "confirm" => job[p].items[1] \in objs
      /\ hpc'[p] = "create" => job[p].items[1] \notin objs
  BY DEF StoreInspect, Projectable, Inventory, Move, To, Goes, HeadTypeOK
<1> QED BY <1>1, StoreInspectJob

LEMMA StoreBatchInspectEffect ==
  ASSUME HeadTypeOK, NEW p \in Procs, StoreBatchInspect(p)
  PROVE  /\ hpc[p] = "inspect" /\ job[p].op = "batch" /\ Stay
         /\ UNCHANGED <<storeVars, stateVars>> /\ Goes(p, {"refused", "confirm"})
         /\ SameBut(job', job, p) /\ job'[p].next = job[p].next
         /\ \/ job'[p].idx \in Preexisting(job[p]) /\ job'[p].idx >= 1
            \/ job'[p].idx = Len(job[p].items) + 1
         /\ hpc'[p] = "confirm" => objs = job[p].prev.inv
<1>1. /\ hpc[p] = "inspect" /\ job[p].op = "batch" /\ Stay
      /\ UNCHANGED <<storeVars, stateVars>> /\ Goes(p, {"refused", "confirm"})
      /\ hpc'[p] = "confirm" => objs = job[p].prev.inv
  BY DEF StoreBatchInspect, Projectable, Inventory, Move, To, Goes, HeadTypeOK
<1> QED BY <1>1, StoreBatchInspectJob

LEMMA SyncStateEffect ==
  ASSUME HeadTypeOK, NEW p \in Procs, SyncState(p)
  PROVE  /\ hpc[p] = "syncHead" /\ Stay /\ UNCHANGED <<storeVars, root>> /\ past' = {root}
         /\ Goes(p, {"done", "clear", "unstage"})
         /\ hpc'[p] = "done" <=> job[p].op = "init"
         /\ SameBut(job', job, p) /\ job'[p].next = job[p].next /\ job'[p].idx = 1
<1>1. /\ hpc[p] = "syncHead" /\ Stay /\ UNCHANGED <<storeVars, root>> /\ past' = {root}
      /\ Goes(p, {"done", "clear", "unstage"})
      /\ hpc'[p] = "done" <=> job[p].op = "init"
  BY DEF SyncState, SyncRoot, To, Goes, HeadTypeOK
<1> QED BY <1>1, SyncStateJob

LEMMA SyncClearedEffect ==
  ASSUME HeadTypeOK, NEW p \in Procs, SyncCleared(p)
  PROVE  /\ hpc[p] = "syncClear" /\ Stay /\ UNCHANGED <<storeVars, root, job>>
         /\ past' = {root} /\ Goes(p, {"done"})
  BY DEF SyncCleared, SyncRoot, To, Goes, HeadTypeOK

LEMMA RecoverNothingEffect ==
  ASSUME HeadTypeOK, NEW p \in Procs, RecoverNothing(p)
  PROVE  /\ hpc[p] = "inspect" /\ job[p].op = "recover" /\ Stay
         /\ UNCHANGED <<storeVars, stateVars, job>> /\ Goes(p, {"done", "refused"})
         /\ hpc'[p] = "done" => NoPending /\ objs = job[p].prev.inv
  BY DEF RecoverNothing, Inventory, Move, To, Goes, HeadTypeOK

LEMMA PutFailedEffect ==
  ASSUME HeadTypeOK, StoreIInv, NEW p \in Procs, PutFailed(p)
  PROVE  /\ hpc[p] \in {"confirming", "putting"} /\ Goes(p, {"failed", "refused"}) /\ Stay
         /\ UNCHANGED <<stateVars, job, objs, nameD, acked>>
         /\ Others(p) /\ ph'[p] = "idle"
<1>1. /\ hpc[p] \in {"confirming", "putting"} /\ Goes(p, {"failed", "refused"}) /\ Stay
      /\ PutReturn(p) /\ UNCHANGED <<stateVars, job>>
  BY DEF PutFailed, To, Goes, HeadTypeOK
<1> QED BY <1>1, PutReturnEffect

LEMMA HeadFailEffect ==
  ASSUME HeadTypeOK, NEW p \in Procs, HeadFail(p)
  PROVE  /\ Busy(p) /\ Goes(p, {"failed"}) /\ Stay /\ UNCHANGED <<storeVars, stateVars, job>>
         /\ ph[p] = "idle"
  BY DEF HeadFail, Move, To, Goes, HeadTypeOK, Busy

LEMMA ReturnEffect ==
  ASSUME HeadTypeOK, NEW p \in Procs, Return(p)
  PROVE  /\ hpc[p] \in {"done", "refused", "failed"} /\ Goes(p, {"idle"})
         /\ UNCHANGED <<stateVars, genesis, diskVars, putVars, recVars, acked>>
         /\ stReaders' = stReaders \ {p}
         /\ stWriter' = IF stWriter = p THEN NoProc ELSE stWriter
         /\ \A q \in Procs \ {p} : job'[q] = job[q]
         /\ \/ promised' = promised
            \/ hpc[p] = "done" /\ promised' = job[p].next /\ job[p].next.gen >= promised.gen
  BY DEF Return, EndTxn, Promise, To, Goes, HeadTypeOK, storeVars

LEMMA HeadCrashEffect ==
  ASSUME HeadTypeOK, StoreIInv, NEW p \in Procs, HeadCrash(p)
  PROVE  /\ Goes(p, {"idle"}) /\ UNCHANGED <<stateVars, genesis, promised>>
         /\ UNCHANGED <<objs, nameD, acked>> /\ ph'[p] = "idle" /\ Others(p)
         /\ stReaders' = stReaders \ {p}
         /\ stWriter' = IF stWriter = p THEN NoProc ELSE stWriter
         /\ \A q \in Procs \ {p} : job'[q] = job[q]
<1>1. /\ Goes(p, {"idle"}) /\ UNCHANGED <<stateVars, genesis, promised>>
      /\ stReaders' = stReaders \ {p}
      /\ stWriter' = IF stWriter = p THEN NoProc ELSE stWriter
      /\ \A q \in Procs \ {p} : job'[q] = job[q]
  BY DEF HeadCrash, To, Goes, HeadTypeOK
<1>2. StoreCrash(p)
  BY DEF HeadCrash
<1> QED BY <1>1, <1>2, StoreCrashEffect DEF Others

Entered(p, op, kind, items) ==
  /\ hpc[p] = "idle" /\ ph[p] = "idle" /\ Goes(p, {"lock"})
  /\ job' \in [Procs -> JobRec] /\ \A q \in Procs \ {p} : job'[q] = job[q]
  /\ job'[p].op = op /\ job'[p].kind = kind /\ job'[p].items = items
  /\ job'[p].prev = root.head /\ job'[p].next = root.head
  /\ job'[p].idx = 0 /\ job'[p].seen = 0
  /\ UNCHANGED <<storeVars, stateVars, genesis, promised>>

LEMMA EnterEffect ==
  ASSUME HeadTypeOK, NEW p \in Procs, NEW op \in Ops, NEW kind \in {"single", "batch"},
         NEW items \in Batches \union {<<>>}, Enter(p, op, kind, items)
  PROVE  Entered(p, op, kind, items)
<1>1. root.head \in HeadRec
  BY DEF HeadTypeOK, Root
<1> QED BY <1>1 DEF Enter, Entered, Idle, Free, Goes, HeadTypeOK, JobRec

LEMMA InitializeEffect ==
  ASSUME HeadTypeOK, NEW p \in Procs, Initialize(p)
  PROVE  LockExclusive(p) /\ NoPending /\ root.head = NoHead /\ Entered(p, "init", "single", <<>>)
  BY EnterEffect DEF Initialize, Ops

LEMMA VerifyEffect ==
  ASSUME HeadTypeOK, NEW p \in Procs, Verify(p)
  PROVE  LockShared(p) /\ NoPending /\ root.head # NoHead /\ Entered(p, "verify", "single", <<>>)
  BY EnterEffect DEF Verify, Ops

LEMMA RecoverEffect ==
  ASSUME HeadTypeOK, NEW p \in Procs, Recover(p)
  PROVE  LockExclusive(p) /\ root.head # NoHead /\ Entered(p, "recover", "single", <<>>)
  BY EnterEffect DEF Recover, Ops

LEMMA StoreEffect ==
  ASSUME HeadTypeOK, NEW p \in Procs, NEW id \in Ids \ Foreign, Store(p, id)
  PROVE  /\ LockExclusive(p) /\ NoPending /\ root.head # NoHead
         /\ \E items \in Batches : Len(items) = 1 /\ Entered(p, "store", "single", items)
  BY EnterEffect, SingletonBatch DEF Store, Ops

LEMMA StoreBatchEffect ==
  ASSUME HeadTypeOK, NEW p \in Procs, NEW items \in Batches, StoreBatch(p, items)
  PROVE  /\ LockExclusive(p) /\ NoPending /\ root.head # NoHead
         /\ Entered(p, "batch", "batch", items)
  BY EnterEffect DEF StoreBatch, Ops

LEMMA LoadEffect ==
  ASSUME NEW p \in Procs, Load(p)
  PROVE  /\ stWriter = NoProc /\ NoPending /\ root.head # NoHead
         /\ UNCHANGED <<storeVars, stateVars, stReaders, stWriter, jobVars, genesis>>
         /\ promised' = promised \/ (promised' = root.head /\ root.head.gen >= promised.gen)
  BY DEF Load, Promise

LEMMA SameMembers ==
  ASSUME NEW f, NEW g, NEW p, SameBut(g, f, p)
  PROVE  NewMembers(g[p]) = NewMembers(f[p]) /\ Preexisting(g[p]) = Preexisting(f[p])
  BY DEF SameBut, NewMembers, Preexisting

LEMMA SuccessorAnchors ==
  ASSUME NEW prev \in HeadRec, NEW items \in Batches
  PROVE  /\ Clean(prev) => Clean(Successor(prev, items))
         /\ Anchored(prev) /\ (\A i \in DOMAIN items : items[i] \in acked \union prev.inv) =>
              Anchored(Successor(prev, items))
  BY SuccessorFacts, BatchFacts DEF Clean, Anchored

LEMMA JournalFields ==
  /\ Absent.st = "absent" /\ Absent.prev = NoHead /\ TornJ.st = "torn" /\ TornJ.prev = NoHead
  /\ \A prev, items : /\ Intent(prev, items).st = "intent" /\ Intent(prev, items).prev = prev
                      /\ Intent(prev, items).items = items
  BY DEF Absent, TornJ, Intent

(* Filling a journal adds a state root whose journals are the old ones or  *)
(* the intent.                                                             *)
LEMMA FillPendingRoots ==
  ASSUME HeadTypeOK, NEW p \in Procs, FillPending(p)
  PROVE  /\ past' = past \union {root'} /\ root'.head = root.head
         /\ root'.single \in {root.single, Intent(job[p].prev, job[p].items)}
         /\ root'.batch \in {root.batch, Intent(job[p].prev, job[p].items)}
  BY FillPendingEffect, KindFacts

LEMMA TypeStep ==
  ASSUME HeadInv, [HeadNext]_vars
  PROVE  HeadTypeOK'
<1> USE StoreAssumption, HeadAssumption DEF stateVars, jobVars, headVars,
  storeVars, diskVars, putVars, recVars, txnVars, Busy, HeadTypeOK, JobRec,
  Root, Ops, HeadPhases, NoJob, SameBut
<1>0. HeadTypeOK /\ FlowInv /\ StoreIInv
  BY DEF HeadInv
<1>1. ASSUME NEW p \in Procs \ Outsiders, Initialize(p) PROVE HeadTypeOK'
  BY <1>0, <1>1, RecordTypes DEF Initialize, HeadTypeOK, LockExclusive, Enter,
    NoPending
<1>2. ASSUME NEW p \in Procs \ Outsiders, Load(p) PROVE HeadTypeOK'
  BY <1>0, <1>2, RecordTypes DEF Load, HeadTypeOK, Promise, NoPending
<1>3. ASSUME NEW p \in Procs \ Outsiders, Verify(p) PROVE HeadTypeOK'
  BY <1>0, <1>3, RecordTypes DEF Verify, HeadTypeOK, LockShared, Enter,
    NoPending
<1>4. ASSUME NEW p \in Procs \ Outsiders, Recover(p) PROVE HeadTypeOK'
  BY <1>0, <1>4, RecordTypes DEF Recover, HeadTypeOK, LockExclusive, Enter
<1>5. ASSUME NEW p \in Procs \ Outsiders, NEW id \in Ids \ Foreign, Store(p, id)
      PROVE HeadTypeOK'
  BY <1>0, <1>5, SingletonBatch, RecordTypes DEF Store, HeadTypeOK,
    LockExclusive, Enter, NoPending
<1>6. ASSUME NEW p \in Procs \ Outsiders, NEW items \in Batches, StoreBatch(p, items)
      PROVE HeadTypeOK'
  BY <1>0, <1>6, RecordTypes DEF StoreBatch, HeadTypeOK, LockExclusive, Enter,
    NoPending
<1>7. ASSUME NEW p \in Procs, LockStore(p) PROVE HeadTypeOK'
  BY <1>0, <1>7, RecordTypes DEF LockStore, HeadTypeOK, To, Stay, BeginRead,
    BeginWrite
<1>8. ASSUME NEW p \in Procs, InitializeInspect(p) PROVE HeadTypeOK'
  <2> HIDE DEF JobRec, Root, HeadPhases
  <2>1. job' \in [Procs -> JobRec]
    BY <1>0, <1>8, InitializeInspectJob DEF SameBut
  <2>2. root' \in past' /\ past' \subseteq Root
    BY <1>0, <1>8 DEF InitializeInspect, Move
  <2>3. hpc' \in [Procs -> HeadPhases]
    BY <1>0, <1>8 DEF InitializeInspect, To, HeadPhases, Move
  <2> QED BY <1>0, <1>8, <2>1, <2>2, <2>3 DEF InitializeInspect, Stay, Move, Inventory, StoreIInv, StoreTypeOK
<1>9. ASSUME NEW p \in Procs, VerifyInspect(p) PROVE HeadTypeOK'
  BY <1>0, <1>9, RecordTypes DEF VerifyInspect, HeadTypeOK, To, Move, Stay
<1>10. ASSUME NEW p \in Procs, StoreInspect(p) PROVE HeadTypeOK'
  BY <1>0, <1>10, StoreInspectJob, RecordTypes DEF StoreInspect, HeadTypeOK,
    To, Move, Stay
<1>11. ASSUME NEW p \in Procs, StoreBatchInspect(p) PROVE HeadTypeOK'
  BY <1>0, <1>11, StoreBatchInspectJob, RecordTypes DEF StoreBatchInspect,
    HeadTypeOK, To, Move, Stay
<1>12. ASSUME NEW p \in Procs, Confirm(p) PROVE HeadTypeOK'
  BY <1>0, <1>12, RecordTypes DEF Confirm, HeadTypeOK, To, Move, Stay,
    PutStart, EnterPut, Goto
<1>13. ASSUME NEW p \in Procs, Confirmed(p) PROVE HeadTypeOK'
  BY <1>0, <1>13, ConfirmedJob, RecordTypes DEF Confirmed, HeadTypeOK, To,
    Stay, PutReturn, LeavePut, Goto
<1>14. ASSUME NEW p \in Procs, CreatePending(p) PROVE HeadTypeOK'
  BY <1>0, <1>14, RecordTypes DEF CreatePending, To, Stay, SetJournal,
    SetRoot
<1>15. ASSUME NEW p \in Procs, FillPending(p) PROVE HeadTypeOK'
  <2> HIDE DEF JobRec, Root, HeadPhases
  <2>1. job' \in [Procs -> JobRec]
    BY <1>0, <1>15, FillPendingJob DEF SameBut
  <2>2. root' \in past' /\ past' \subseteq Root
    <3>1. Intent(job[p].prev, job[p].items) \in Journal
      BY <1>0, RecordTypes DEF JobRec
    <3> QED BY <1>0, <1>15, <3>1, RootUpdates DEF FillPending, SetJournal, SetRoot
  <2>3. hpc' \in [Procs -> HeadPhases]
    BY <1>0, <1>15 DEF FillPending, To, HeadPhases
  <2> QED BY <1>0, <1>15, <2>1, <2>2, <2>3 DEF FillPending, Stay
<1>16. ASSUME NEW p \in Procs, SyncPending(p) PROVE HeadTypeOK'
  <2> HIDE DEF JobRec, Root, HeadPhases
  <2>1. job' \in [Procs -> JobRec]
    BY <1>0, <1>16, SyncPendingJob DEF SameBut
  <2>2. root' \in past' /\ past' \subseteq Root
    BY <1>0, <1>16 DEF SyncPending, SyncRoot
  <2>3. hpc' \in [Procs -> HeadPhases]
    BY <1>0, <1>16 DEF SyncPending, To, HeadPhases
  <2> QED BY <1>0, <1>16, <2>1, <2>2, <2>3 DEF SyncPending, Stay
<1>17. ASSUME NEW p \in Procs, CreateStage(p) PROVE HeadTypeOK'
  <2> HIDE DEF JobRec, Root, HeadPhases
  <2>1. job' \in [Procs -> JobRec]
    BY <1>0, <1>17, CreateStageJob DEF SameBut
  <2>2. root' \in past' /\ past' \subseteq Root
    <3>1. job[p].idx \in Nat
      BY <1>0 DEF JobRec
    <3>2. [root EXCEPT !.stage[job[p].idx] = "torn"] \in Root
      BY <1>0, <3>1, RootUpdates
    <3> QED BY <1>0, <1>17, <3>2 DEF CreateStage, SetRoot, SyncRoot
  <2>3. hpc' \in [Procs -> HeadPhases]
    BY <1>0, <1>17 DEF CreateStage, To, HeadPhases
  <2> QED BY <1>0, <1>17, <2>1, <2>2, <2>3 DEF CreateStage, Stay
<1>18. ASSUME NEW p \in Procs, FillStage(p) PROVE HeadTypeOK'
  <2> HIDE DEF JobRec, Root, HeadPhases
  <2>1. job' \in [Procs -> JobRec]
    BY <1>0, <1>18, FillStageJob DEF SameBut
  <2>2. root' \in past' /\ past' \subseteq Root
    <3>1. job[p].idx \in Nat /\ job[p].items[job[p].idx] \in Ids
      BY <1>0, <1>18, BatchFacts DEF JobRec, FlowInv, FillStage
    <3> QED BY <1>0, <1>18, <3>1, RootUpdates DEF FillStage, SetRoot
  <2>3. hpc' \in [Procs -> HeadPhases]
    BY <1>0, <1>18 DEF FillStage, To, HeadPhases
  <2> QED BY <1>0, <1>18, <2>1, <2>2, <2>3 DEF FillStage, Stay
<1>19. ASSUME NEW p \in Procs, PutMember(p) PROVE HeadTypeOK'
  BY <1>0, <1>19, RecordTypes DEF PutMember, HeadTypeOK, To, Stay, PutStart,
    EnterPut, Goto
<1>20. ASSUME NEW p \in Procs, MemberDone(p) PROVE HeadTypeOK'
  BY <1>0, <1>20, MemberDoneJob, RecordTypes DEF MemberDone, HeadTypeOK, To,
    Stay, PutReturn, LeavePut, Goto
<1>21. ASSUME NEW p \in Procs, ReplayDone(p) PROVE HeadTypeOK'
  BY <1>0, <1>21, ReplayDoneJob, RecordTypes DEF ReplayDone, HeadTypeOK, To,
    Stay, PutReturn, LeavePut, Goto
<1>22. ASSUME NEW p \in Procs, WriteState(p) PROVE HeadTypeOK'
  BY <1>0, <1>22, RecordTypes DEF WriteState, To, Stay, SetRoot
<1>23. ASSUME NEW p \in Procs, SyncState(p) PROVE HeadTypeOK'
  <2> HIDE DEF JobRec, Root, HeadPhases
  <2>1. job' \in [Procs -> JobRec]
    BY <1>0, <1>23, SyncStateJob DEF SameBut
  <2>2. root' \in past' /\ past' \subseteq Root
    BY <1>0, <1>23 DEF SyncState, SyncRoot
  <2>3. hpc' \in [Procs -> HeadPhases]
    BY <1>0, <1>23 DEF SyncState, To, HeadPhases
  <2> QED BY <1>0, <1>23, <2>1, <2>2, <2>3 DEF SyncState, Stay
<1>24. ASSUME NEW p \in Procs, ClearStage(p) PROVE HeadTypeOK'
  <2> HIDE DEF JobRec, Root, HeadPhases
  <2>1. job' \in [Procs -> JobRec]
    BY <1>0, <1>24, ClearStageJob DEF SameBut
  <2>2. root' \in past' /\ past' \subseteq Root
    <3>1. job[p].idx \in Nat
      BY <1>0 DEF JobRec
    <3>2. [root EXCEPT !.stage[job[p].idx] = "absent"] \in Root
      BY <1>0, <3>1, RootUpdates
    <3> QED BY <1>0, <1>24, <3>2 DEF ClearStage, SetRoot, SyncRoot
  <2>3. hpc' \in [Procs -> HeadPhases]
    BY <1>0, <1>24 DEF ClearStage, To, HeadPhases
  <2> QED BY <1>0, <1>24, <2>1, <2>2, <2>3 DEF ClearStage, Stay
<1>25. ASSUME NEW p \in Procs, ClearPending(p) PROVE HeadTypeOK'
  BY <1>0, <1>25, RecordTypes DEF ClearPending, To, Stay, SetJournal, SetRoot
<1>26. ASSUME NEW p \in Procs, SyncCleared(p) PROVE HeadTypeOK'
  BY <1>0, <1>26, RecordTypes DEF SyncCleared, HeadTypeOK, To, Stay, SyncRoot
<1>27. ASSUME NEW p \in Procs, RecoverNothing(p) PROVE HeadTypeOK'
  BY <1>0, <1>27, RecordTypes DEF RecoverNothing, HeadTypeOK, To, Move, Stay
<1>28. ASSUME NEW p \in Procs, RecoverSingle(p) PROVE HeadTypeOK'
  <2>1. hpc' \in [Procs -> HeadPhases]
    BY <1>0, <1>28 DEF RecoverSingle, To, Move
  <2> HIDE DEF JobRec, Root, HeadPhases
  <2> QED BY <1>0, <1>28, <2>1, RecoverSingleEffect DEF Stay, Adopted
<1>29. ASSUME NEW p \in Procs, RecoverBatch(p) PROVE HeadTypeOK'
  <2>1. hpc' \in [Procs -> HeadPhases]
    BY <1>0, <1>29 DEF RecoverBatch, To, Move
  <2> HIDE DEF JobRec, Root, HeadPhases
  <2> QED BY <1>0, <1>29, <2>1, RecoverBatchEffect DEF Stay, Adopted
<1>30. ASSUME NEW p \in Procs, PutFailed(p) PROVE HeadTypeOK'
  BY <1>0, <1>30, RecordTypes DEF PutFailed, HeadTypeOK, To, Stay, PutReturn,
    LeavePut, Goto
<1>31. ASSUME NEW p \in Procs, Return(p) PROVE HeadTypeOK'
  BY <1>0, <1>31, RecordTypes DEF Return, HeadTypeOK, To, Promise, EndTxn
<1>32. ASSUME NEW p \in Procs, HeadFail(p) PROVE HeadTypeOK'
  BY <1>0, <1>32, RecordTypes DEF HeadFail, HeadTypeOK, To, Move, Stay
<1>33. ASSUME NEW p \in Procs, FillPendingFails(p) PROVE HeadTypeOK'
  BY <1>0, <1>33, RecordTypes DEF FillPendingFails, To, Stay, SetJournal,
    SetRoot
<1>34. ASSUME NEW p \in Procs, HeadCrash(p) PROVE HeadTypeOK'
  BY <1>0, <1>34, StoreCrashEffect, RecordTypes DEF HeadCrash, HeadTypeOK, To
<1>35. ASSUME NEW p \in Procs, PutStep(p) /\ UNCHANGED headVars
      PROVE HeadTypeOK'
  BY <1>0, <1>35, PutStepEffect, RecordTypes
<1>36. ASSUME NEW p \in Procs, p \in Outsiders /\ Outsider(p) /\ UNCHANGED headVars
      PROVE HeadTypeOK'
  BY <1>0, <1>36, OutsiderEffect, RecordTypes
<1>37. ASSUME NEW p \in Procs, TempPass(p) /\ UNCHANGED headVars
      PROVE HeadTypeOK'
  BY <1>0, <1>37, TempPassEffect, RecordTypes
<1>38. CASE HeadPowerLoss
  BY <1>0, <1>38, PowerLossEffect, RecordTypes DEF HeadPowerLoss, Survivors,
    HeadTypeOK
<1>39. CASE UNCHANGED vars
  BY <1>0, <1>39 DEF vars
<1> QED BY <1>1, <1>2, <1>3, <1>4, <1>5, <1>6, <1>7, <1>8, <1>9, <1>10, <1>11,
  <1>12, <1>13, <1>14, <1>15, <1>16, <1>17, <1>18, <1>19, <1>20, <1>21, <1>22,
  <1>23, <1>24, <1>25, <1>26, <1>27, <1>28, <1>29, <1>30, <1>31, <1>32, <1>33,
  <1>34, <1>35, <1>36, <1>37, <1>38, <1>39 DEF HeadNext, HeadOp, HeadStep

LEMMA LockStep ==
  ASSUME HeadInv, [HeadNext]_vars
  PROVE  LockInv'
<1> USE StoreAssumption, HeadAssumption DEF stateVars, jobVars, headVars,
  storeVars, diskVars, putVars, recVars, txnVars, Busy, LockInv
<1>0. HeadTypeOK /\ StoreIInv /\ LockInv /\ FlowInv
  BY DEF HeadInv
<1>1. ASSUME NEW p \in Procs \ Outsiders, Initialize(p) PROVE LockInv'
  BY <1>0, <1>1, InitializeEffect DEF Goes, Entered, LockExclusive
<1>2. ASSUME NEW p \in Procs \ Outsiders, Load(p) PROVE LockInv'
  BY <1>0, <1>2, LoadEffect
<1>3. ASSUME NEW p \in Procs \ Outsiders, Verify(p) PROVE LockInv'
  BY <1>0, <1>3, VerifyEffect DEF Goes, Entered, LockShared
<1>4. ASSUME NEW p \in Procs \ Outsiders, Recover(p) PROVE LockInv'
  BY <1>0, <1>4, RecoverEffect DEF Goes, Entered, LockExclusive
<1>5. ASSUME NEW p \in Procs \ Outsiders, NEW id \in Ids \ Foreign, Store(p, id)
      PROVE LockInv'
  BY <1>0, <1>5, StoreEffect DEF Goes, Entered, LockExclusive
<1>6. ASSUME NEW p \in Procs \ Outsiders, NEW items \in Batches, StoreBatch(p, items)
      PROVE LockInv'
  BY <1>0, <1>6, StoreBatchEffect DEF Goes, Entered, LockExclusive
<1>7. ASSUME NEW p \in Procs, LockStore(p) PROVE LockInv'
  BY <1>0, <1>7, LockStoreEffect DEF Goes, Stay
<1>8. ASSUME NEW p \in Procs, InitializeInspect(p) PROVE LockInv'
  BY <1>0, <1>8, InitializeInspectEffect DEF Goes, SameBut, Stay
<1>9. ASSUME NEW p \in Procs, VerifyInspect(p) PROVE LockInv'
  BY <1>0, <1>9, VerifyInspectEffect DEF Goes, Stay
<1>10. ASSUME NEW p \in Procs, StoreInspect(p) PROVE LockInv'
  BY <1>0, <1>10, StoreInspectEffect DEF Goes, SameBut, Stay
<1>11. ASSUME NEW p \in Procs, StoreBatchInspect(p) PROVE LockInv'
  BY <1>0, <1>11, StoreBatchInspectEffect DEF Goes, SameBut, Stay
<1>12. ASSUME NEW p \in Procs, Confirm(p) PROVE LockInv'
  BY <1>0, <1>12, ConfirmEffect DEF Goes, Others, Stay
<1>13. ASSUME NEW p \in Procs, Confirmed(p) PROVE LockInv'
  BY <1>0, <1>13, ConfirmedEffect DEF Goes, Others, SameBut, Stay
<1>14. ASSUME NEW p \in Procs, CreatePending(p) PROVE LockInv'
  BY <1>0, <1>14, CreatePendingEffect DEF Goes, Stay
<1>15. ASSUME NEW p \in Procs, FillPending(p) PROVE LockInv'
  BY <1>0, <1>15, FillPendingEffect DEF Goes, SameBut, Stay
<1>16. ASSUME NEW p \in Procs, SyncPending(p) PROVE LockInv'
  BY <1>0, <1>16, SyncPendingEffect DEF Goes, SameBut, Stay
<1>17. ASSUME NEW p \in Procs, CreateStage(p) PROVE LockInv'
  BY <1>0, <1>17, CreateStageEffect DEF Goes, SameBut, Stay
<1>18. ASSUME NEW p \in Procs, FillStage(p) PROVE LockInv'
  BY <1>0, <1>18, FillStageEffect DEF Goes, SameBut, Stay
<1>19. ASSUME NEW p \in Procs, PutMember(p) PROVE LockInv'
  BY <1>0, <1>19, PutMemberEffect DEF Goes, Others, Stay
<1>20. ASSUME NEW p \in Procs, MemberDone(p) PROVE LockInv'
  BY <1>0, <1>20, MemberDoneEffect DEF Goes, Others, SameBut, Stay
<1>21. ASSUME NEW p \in Procs, ReplayDone(p) PROVE LockInv'
  BY <1>0, <1>21, ReplayDoneEffect DEF Goes, Others, SameBut, Stay
<1>22. ASSUME NEW p \in Procs, WriteState(p) PROVE LockInv'
  BY <1>0, <1>22, WriteStateEffect DEF Goes, Stay
<1>23. ASSUME NEW p \in Procs, SyncState(p) PROVE LockInv'
  BY <1>0, <1>23, SyncStateEffect DEF Goes, SameBut, Stay
<1>24. ASSUME NEW p \in Procs, ClearStage(p) PROVE LockInv'
  BY <1>0, <1>24, ClearStageEffect DEF Goes, SameBut, Stay
<1>25. ASSUME NEW p \in Procs, ClearPending(p) PROVE LockInv'
  BY <1>0, <1>25, ClearPendingEffect DEF Goes, Stay
<1>26. ASSUME NEW p \in Procs, SyncCleared(p) PROVE LockInv'
  BY <1>0, <1>26, SyncClearedEffect DEF Goes, Stay
<1>27. ASSUME NEW p \in Procs, RecoverNothing(p) PROVE LockInv'
  BY <1>0, <1>27, RecoverNothingEffect DEF Goes, Stay
<1>28. ASSUME NEW p \in Procs, RecoverSingle(p) PROVE LockInv'
  BY <1>0, <1>28, RecoverSingleEffect, SyncObjectEffect DEF Goes, Adopted,
    Others, Stay
<1>29. ASSUME NEW p \in Procs, RecoverBatch(p) PROVE LockInv'
  BY <1>0, <1>29, RecoverBatchEffect DEF Goes, Adopted, Stay
<1>30. ASSUME NEW p \in Procs, PutFailed(p) PROVE LockInv'
  BY <1>0, <1>30, PutFailedEffect DEF Goes, Others, Stay
<1>31. ASSUME NEW p \in Procs, Return(p) PROVE LockInv'
  BY <1>0, <1>31, ReturnEffect DEF Goes
<1>32. ASSUME NEW p \in Procs, HeadFail(p) PROVE LockInv'
  BY <1>0, <1>32, HeadFailEffect DEF Goes, Stay
<1>33. ASSUME NEW p \in Procs, FillPendingFails(p) PROVE LockInv'
  BY <1>0, <1>33, FillPendingFailsEffect DEF Goes, Stay
<1>34. ASSUME NEW p \in Procs, HeadCrash(p) PROVE LockInv'
  BY <1>0, <1>34, HeadCrashEffect DEF Goes, Others
<1>35. ASSUME NEW p \in Procs, PutStep(p) /\ UNCHANGED headVars
      PROVE LockInv'
  BY <1>0, <1>35, PutStepEffect
<1>36. ASSUME NEW p \in Procs, p \in Outsiders /\ Outsider(p) /\ UNCHANGED headVars
      PROVE LockInv'
  BY <1>0, <1>36, OutsiderEffect
<1>37. ASSUME NEW p \in Procs, TempPass(p) /\ UNCHANGED headVars
      PROVE LockInv'
  BY <1>0, <1>37, TempPassEffect
<1>38. CASE HeadPowerLoss
  BY <1>0, <1>38, PowerLossEffect DEF HeadPowerLoss, Survivors, HeadTypeOK
<1>39. CASE UNCHANGED vars
  BY <1>0, <1>39 DEF vars
<1> QED BY <1>1, <1>2, <1>3, <1>4, <1>5, <1>6, <1>7, <1>8, <1>9, <1>10, <1>11,
  <1>12, <1>13, <1>14, <1>15, <1>16, <1>17, <1>18, <1>19, <1>20, <1>21, <1>22,
  <1>23, <1>24, <1>25, <1>26, <1>27, <1>28, <1>29, <1>30, <1>31, <1>32, <1>33,
  <1>34, <1>35, <1>36, <1>37, <1>38, <1>39 DEF HeadNext, HeadOp, HeadStep

LEMMA LinkStep ==
  ASSUME HeadInv, [HeadNext]_vars
  PROVE  LinkInv'
<1> USE StoreAssumption, HeadAssumption DEF stateVars, jobVars, headVars,
  storeVars, diskVars, putVars, recVars, txnVars, Busy, LinkInv
<1>0. HeadTypeOK /\ StoreIInv /\ LinkInv /\ FlowInv
  BY DEF HeadInv
<1>1. ASSUME NEW p \in Procs \ Outsiders, Initialize(p) PROVE LinkInv'
  BY <1>0, <1>1, InitializeEffect DEF Goes, Entered, LockExclusive
<1>2. ASSUME NEW p \in Procs \ Outsiders, Load(p) PROVE LinkInv'
  BY <1>0, <1>2, LoadEffect
<1>3. ASSUME NEW p \in Procs \ Outsiders, Verify(p) PROVE LinkInv'
  BY <1>0, <1>3, VerifyEffect DEF Goes, Entered, LockShared
<1>4. ASSUME NEW p \in Procs \ Outsiders, Recover(p) PROVE LinkInv'
  BY <1>0, <1>4, RecoverEffect DEF Goes, Entered, LockExclusive
<1>5. ASSUME NEW p \in Procs \ Outsiders, NEW id \in Ids \ Foreign, Store(p, id)
      PROVE LinkInv'
  BY <1>0, <1>5, StoreEffect DEF Goes, Entered, LockExclusive
<1>6. ASSUME NEW p \in Procs \ Outsiders, NEW items \in Batches, StoreBatch(p, items)
      PROVE LinkInv'
  BY <1>0, <1>6, StoreBatchEffect DEF Goes, Entered, LockExclusive
<1>7. ASSUME NEW p \in Procs, LockStore(p) PROVE LinkInv'
  BY <1>0, <1>7, LockStoreEffect DEF Goes, Stay
<1>8. ASSUME NEW p \in Procs, InitializeInspect(p) PROVE LinkInv'
  BY <1>0, <1>8, InitializeInspectEffect DEF Goes, SameBut, Stay
<1>9. ASSUME NEW p \in Procs, VerifyInspect(p) PROVE LinkInv'
  BY <1>0, <1>9, VerifyInspectEffect DEF Goes, Stay
<1>10. ASSUME NEW p \in Procs, StoreInspect(p) PROVE LinkInv'
  BY <1>0, <1>10, StoreInspectEffect DEF Goes, SameBut, Stay
<1>11. ASSUME NEW p \in Procs, StoreBatchInspect(p) PROVE LinkInv'
  BY <1>0, <1>11, StoreBatchInspectEffect DEF Goes, SameBut, Stay
<1>12. ASSUME NEW p \in Procs, Confirm(p) PROVE LinkInv'
  BY <1>0, <1>12, ConfirmEffect DEF Goes, Others, Stay
<1>13. ASSUME NEW p \in Procs, Confirmed(p) PROVE LinkInv'
  BY <1>0, <1>13, ConfirmedEffect DEF Goes, Others, SameBut, Stay
<1>14. ASSUME NEW p \in Procs, CreatePending(p) PROVE LinkInv'
  BY <1>0, <1>14, CreatePendingEffect DEF Goes, Stay
<1>15. ASSUME NEW p \in Procs, FillPending(p) PROVE LinkInv'
  BY <1>0, <1>15, FillPendingEffect DEF Goes, SameBut, Stay
<1>16. ASSUME NEW p \in Procs, SyncPending(p) PROVE LinkInv'
  BY <1>0, <1>16, SyncPendingEffect DEF Goes, SameBut, Stay
<1>17. ASSUME NEW p \in Procs, CreateStage(p) PROVE LinkInv'
  BY <1>0, <1>17, CreateStageEffect DEF Goes, SameBut, Stay
<1>18. ASSUME NEW p \in Procs, FillStage(p) PROVE LinkInv'
  BY <1>0, <1>18, FillStageEffect DEF Goes, SameBut, Stay
<1>19. ASSUME NEW p \in Procs, PutMember(p) PROVE LinkInv'
  BY <1>0, <1>19, PutMemberEffect DEF Goes, Others, Stay
<1>20. ASSUME NEW p \in Procs, MemberDone(p) PROVE LinkInv'
  BY <1>0, <1>20, MemberDoneEffect DEF Goes, Others, SameBut, Stay
<1>21. ASSUME NEW p \in Procs, ReplayDone(p) PROVE LinkInv'
  BY <1>0, <1>21, ReplayDoneEffect DEF Goes, Others, SameBut, Stay
<1>22. ASSUME NEW p \in Procs, WriteState(p) PROVE LinkInv'
  BY <1>0, <1>22, WriteStateEffect DEF Goes, Stay
<1>23. ASSUME NEW p \in Procs, SyncState(p) PROVE LinkInv'
  BY <1>0, <1>23, SyncStateEffect DEF Goes, SameBut, Stay
<1>24. ASSUME NEW p \in Procs, ClearStage(p) PROVE LinkInv'
  BY <1>0, <1>24, ClearStageEffect DEF Goes, SameBut, Stay
<1>25. ASSUME NEW p \in Procs, ClearPending(p) PROVE LinkInv'
  BY <1>0, <1>25, ClearPendingEffect DEF Goes, Stay
<1>26. ASSUME NEW p \in Procs, SyncCleared(p) PROVE LinkInv'
  BY <1>0, <1>26, SyncClearedEffect DEF Goes, Stay
<1>27. ASSUME NEW p \in Procs, RecoverNothing(p) PROVE LinkInv'
  BY <1>0, <1>27, RecoverNothingEffect DEF Goes, Stay
<1>28. ASSUME NEW p \in Procs, RecoverSingle(p) PROVE LinkInv'
  BY <1>0, <1>28, RecoverSingleEffect, SyncObjectEffect DEF Goes, Adopted,
    Others, Stay
<1>29. ASSUME NEW p \in Procs, RecoverBatch(p) PROVE LinkInv'
  BY <1>0, <1>29, RecoverBatchEffect DEF Goes, Adopted, Stay
<1>30. ASSUME NEW p \in Procs, PutFailed(p) PROVE LinkInv'
  BY <1>0, <1>30, PutFailedEffect DEF Goes, Others, Stay
<1>31. ASSUME NEW p \in Procs, Return(p) PROVE LinkInv'
  BY <1>0, <1>31, ReturnEffect DEF Goes
<1>32. ASSUME NEW p \in Procs, HeadFail(p) PROVE LinkInv'
  BY <1>0, <1>32, HeadFailEffect DEF Goes, Stay
<1>33. ASSUME NEW p \in Procs, FillPendingFails(p) PROVE LinkInv'
  BY <1>0, <1>33, FillPendingFailsEffect DEF Goes, Stay
<1>34. ASSUME NEW p \in Procs, HeadCrash(p) PROVE LinkInv'
  BY <1>0, <1>34, HeadCrashEffect DEF Goes, Others
<1>35. ASSUME NEW p \in Procs, PutStep(p) /\ UNCHANGED headVars
      PROVE LinkInv'
  BY <1>0, <1>35, PutStepEffect
<1>36. ASSUME NEW p \in Procs, p \in Outsiders /\ Outsider(p) /\ UNCHANGED headVars
      PROVE LinkInv'
  BY <1>0, <1>36, OutsiderEffect DEF FlowInv
<1>37. ASSUME NEW p \in Procs, TempPass(p) /\ UNCHANGED headVars
      PROVE LinkInv'
  BY <1>0, <1>37, TempPassEffect
<1>38. CASE HeadPowerLoss
  BY <1>0, <1>38, PowerLossEffect DEF HeadPowerLoss, Survivors, HeadTypeOK
<1>39. CASE UNCHANGED vars
  BY <1>0, <1>39 DEF vars
<1> QED BY <1>1, <1>2, <1>3, <1>4, <1>5, <1>6, <1>7, <1>8, <1>9, <1>10, <1>11,
  <1>12, <1>13, <1>14, <1>15, <1>16, <1>17, <1>18, <1>19, <1>20, <1>21, <1>22,
  <1>23, <1>24, <1>25, <1>26, <1>27, <1>28, <1>29, <1>30, <1>31, <1>32, <1>33,
  <1>34, <1>35, <1>36, <1>37, <1>38, <1>39 DEF HeadNext, HeadOp, HeadStep

LEMMA EmptyStep ==
  ASSUME HeadInv, [HeadNext]_vars
  PROVE  EmptyInv'
<1> USE StoreAssumption, HeadAssumption DEF stateVars, jobVars, headVars,
  storeVars, diskVars, putVars, recVars, txnVars, Busy, EmptyInv, NoPending
<1>0. root \in past /\ HeadTypeOK /\ StoreIInv /\ EmptyInv /\ FlowInv /\ LockInv
  BY DEF HeadInv, HeadTypeOK
<1>1. ASSUME NEW p \in Procs \ Outsiders, Initialize(p) PROVE EmptyInv'
  BY <1>0, <1>1, InitializeEffect DEF Goes, Entered, LockExclusive, LockInv
<1>2. ASSUME NEW p \in Procs \ Outsiders, Load(p) PROVE EmptyInv'
  BY <1>0, <1>2, LoadEffect
<1>3. ASSUME NEW p \in Procs \ Outsiders, Verify(p) PROVE EmptyInv'
  BY <1>0, <1>3, VerifyEffect DEF Goes, Entered, LockShared, LockInv
<1>4. ASSUME NEW p \in Procs \ Outsiders, Recover(p) PROVE EmptyInv'
  BY <1>0, <1>4, RecoverEffect DEF Goes, Entered, LockExclusive, LockInv
<1>5. ASSUME NEW p \in Procs \ Outsiders, NEW id \in Ids \ Foreign, Store(p, id)
      PROVE EmptyInv'
  BY <1>0, <1>5, StoreEffect DEF Goes, Entered, LockExclusive, LockInv
<1>6. ASSUME NEW p \in Procs \ Outsiders, NEW items \in Batches, StoreBatch(p, items)
      PROVE EmptyInv'
  BY <1>0, <1>6, StoreBatchEffect DEF Goes, Entered, LockExclusive, LockInv
<1>7. ASSUME NEW p \in Procs, LockStore(p) PROVE EmptyInv'
  BY <1>0, <1>7, LockStoreEffect DEF Goes, Stay
<1>8. ASSUME NEW p \in Procs, InitializeInspect(p) PROVE EmptyInv'
  BY <1>0, <1>8, InitializeInspectEffect, WriterAlone DEF Goes, SameBut, Stay
<1>9. ASSUME NEW p \in Procs, VerifyInspect(p) PROVE EmptyInv'
  BY <1>0, <1>9, VerifyInspectEffect DEF Goes, Stay
<1>10. ASSUME NEW p \in Procs, StoreInspect(p) PROVE EmptyInv'
  BY <1>0, <1>10, StoreInspectEffect, WriterAlone DEF Goes, SameBut, Stay
<1>11. ASSUME NEW p \in Procs, StoreBatchInspect(p) PROVE EmptyInv'
  BY <1>0, <1>11, StoreBatchInspectEffect, WriterAlone DEF Goes, SameBut, Stay
<1>12. ASSUME NEW p \in Procs, Confirm(p) PROVE EmptyInv'
  BY <1>0, <1>12, ConfirmEffect, WriterAlone DEF Goes, Others, Stay
<1>13. ASSUME NEW p \in Procs, Confirmed(p) PROVE EmptyInv'
  BY <1>0, <1>13, ConfirmedEffect, WriterAlone DEF Goes, Others, SameBut, Stay
<1>14. ASSUME NEW p \in Procs, CreatePending(p) PROVE EmptyInv'
  BY <1>0, <1>14, CreatePendingEffect, WriterAlone DEF Goes, Stay
<1>15. ASSUME NEW p \in Procs, FillPending(p) PROVE EmptyInv'
  BY <1>0, <1>15, FillPendingEffect, WriterAlone DEF Goes, SameBut, Stay
<1>16. ASSUME NEW p \in Procs, SyncPending(p) PROVE EmptyInv'
  BY <1>0, <1>16, SyncPendingEffect, WriterAlone DEF Goes, SameBut, Stay
<1>17. ASSUME NEW p \in Procs, CreateStage(p) PROVE EmptyInv'
  BY <1>0, <1>17, CreateStageEffect, WriterAlone DEF Goes, SameBut, Stay
<1>18. ASSUME NEW p \in Procs, FillStage(p) PROVE EmptyInv'
  BY <1>0, <1>18, FillStageEffect, WriterAlone DEF Goes, SameBut, Stay
<1>19. ASSUME NEW p \in Procs, PutMember(p) PROVE EmptyInv'
  BY <1>0, <1>19, PutMemberEffect, WriterAlone DEF Goes, Others, Stay
<1>20. ASSUME NEW p \in Procs, MemberDone(p) PROVE EmptyInv'
  <2>1. job[p].next.gen > 0
    <3>1. /\ job[p].next = Successor(job[p].prev, job[p].items)
          /\ job[p].prev \in HeadRec /\ job[p].items \in Batches
      BY <1>0, <1>20, MemberDoneEffect DEF FlowInv, Writing, HeadTypeOK, JobRec
    <3> QED BY <3>1, SuccessorFacts
  <2>2. Busy(p) /\ hpc[p] = "putting"
    BY <1>20, MemberDoneEffect, <1>0
  <2> QED BY <1>0, <1>20, <2>1, <2>2, MemberDoneEffect, WriterAlone DEF Goes, Stay, SameBut
<1>21. ASSUME NEW p \in Procs, ReplayDone(p) PROVE EmptyInv'
  <2>1. job[p].next.gen > 0
    <3>1. /\ job[p].next = Successor(job[p].prev, job[p].items)
          /\ job[p].prev \in HeadRec /\ job[p].items \in Batches
      BY <1>0, <1>21, ReplayDoneEffect DEF FlowInv, Writing, HeadTypeOK, JobRec
    <3> QED BY <3>1, SuccessorFacts
  <2>2. Busy(p) /\ hpc[p] = "putting"
    BY <1>21, ReplayDoneEffect, <1>0
  <2> QED BY <1>0, <1>21, <2>1, <2>2, ReplayDoneEffect, WriterAlone DEF Goes, Stay, SameBut
<1>22. ASSUME NEW p \in Procs, WriteState(p) PROVE EmptyInv'
  BY <1>0, <1>22, WriteStateEffect, WriterAlone DEF Goes, Stay, NoHead
<1>23. ASSUME NEW p \in Procs, SyncState(p) PROVE EmptyInv'
  BY <1>0, <1>23, SyncStateEffect, WriterAlone DEF Goes, SameBut, Stay
<1>24. ASSUME NEW p \in Procs, ClearStage(p) PROVE EmptyInv'
  BY <1>0, <1>24, ClearStageEffect, WriterAlone DEF Goes, SameBut, Stay
<1>25. ASSUME NEW p \in Procs, ClearPending(p) PROVE EmptyInv'
  BY <1>0, <1>25, ClearPendingEffect, WriterAlone DEF Goes, Stay
<1>26. ASSUME NEW p \in Procs, SyncCleared(p) PROVE EmptyInv'
  BY <1>0, <1>26, SyncClearedEffect, WriterAlone DEF Goes, Stay
<1>27. ASSUME NEW p \in Procs, RecoverNothing(p) PROVE EmptyInv'
  BY <1>0, <1>27, RecoverNothingEffect DEF Goes, Stay
<1>28. ASSUME NEW p \in Procs, RecoverSingle(p) PROVE EmptyInv'
  BY <1>0, <1>28, RecoverSingleEffect, SyncObjectEffect, WriterAlone DEF Goes,
    Adopted, Others, Stay
<1>29. ASSUME NEW p \in Procs, RecoverBatch(p) PROVE EmptyInv'
  BY <1>0, <1>29, RecoverBatchEffect, WriterAlone DEF Goes, Adopted, Stay
<1>30. ASSUME NEW p \in Procs, PutFailed(p) PROVE EmptyInv'
  BY <1>0, <1>30, PutFailedEffect DEF Goes, Others, Stay
<1>31. ASSUME NEW p \in Procs, Return(p) PROVE EmptyInv'
  BY <1>0, <1>31, ReturnEffect DEF Goes
<1>32. ASSUME NEW p \in Procs, HeadFail(p) PROVE EmptyInv'
  BY <1>0, <1>32, HeadFailEffect DEF Goes, Stay
<1>33. ASSUME NEW p \in Procs, FillPendingFails(p) PROVE EmptyInv'
  BY <1>0, <1>33, FillPendingFailsEffect, WriterAlone DEF Goes, Stay
<1>34. ASSUME NEW p \in Procs, HeadCrash(p) PROVE EmptyInv'
  BY <1>0, <1>34, HeadCrashEffect DEF Goes, Others
<1>35. ASSUME NEW p \in Procs, PutStep(p) /\ UNCHANGED headVars
      PROVE EmptyInv'
  BY <1>0, <1>35, PutStepEffect
<1>36. ASSUME NEW p \in Procs, p \in Outsiders /\ Outsider(p) /\ UNCHANGED headVars
      PROVE EmptyInv'
  BY <1>0, <1>36, OutsiderEffect
<1>37. ASSUME NEW p \in Procs, TempPass(p) /\ UNCHANGED headVars
      PROVE EmptyInv'
  BY <1>0, <1>37, TempPassEffect
<1>38. CASE HeadPowerLoss
  BY <1>0, <1>38, PowerLossEffect DEF HeadPowerLoss, Survivors, HeadTypeOK
<1>39. CASE UNCHANGED vars
  BY <1>0, <1>39 DEF vars
<1> QED BY <1>1, <1>2, <1>3, <1>4, <1>5, <1>6, <1>7, <1>8, <1>9, <1>10, <1>11,
  <1>12, <1>13, <1>14, <1>15, <1>16, <1>17, <1>18, <1>19, <1>20, <1>21, <1>22,
  <1>23, <1>24, <1>25, <1>26, <1>27, <1>28, <1>29, <1>30, <1>31, <1>32, <1>33,
  <1>34, <1>35, <1>36, <1>37, <1>38, <1>39 DEF HeadNext, HeadOp, HeadStep

LEMMA FlowStep ==
  ASSUME HeadInv, [HeadNext]_vars
  PROVE  FlowInv'
<1> USE StoreAssumption, HeadAssumption DEF stateVars, jobVars, headVars,
  storeVars, diskVars, putVars, recVars, txnVars, Busy, FlowInv, Writing
<1>0. root \in past /\ HeadTypeOK /\ StoreIInv /\ FlowInv /\ LockInv
  BY DEF HeadInv, HeadTypeOK
<1>1. ASSUME NEW p \in Procs \ Outsiders, Initialize(p) PROVE FlowInv'
  BY <1>0, <1>1, InitializeEffect DEF Goes, Entered, LockExclusive
<1>2. ASSUME NEW p \in Procs \ Outsiders, Load(p) PROVE FlowInv'
  BY <1>0, <1>2, LoadEffect
<1>3. ASSUME NEW p \in Procs \ Outsiders, Verify(p) PROVE FlowInv'
  BY <1>0, <1>3, VerifyEffect DEF Goes, Entered, LockShared
<1>4. ASSUME NEW p \in Procs \ Outsiders, Recover(p) PROVE FlowInv'
  BY <1>0, <1>4, RecoverEffect DEF Goes, Entered, LockExclusive
<1>5. ASSUME NEW p \in Procs \ Outsiders, NEW id \in Ids \ Foreign, Store(p, id)
      PROVE FlowInv'
  BY <1>0, <1>5, StoreEffect DEF Goes, Entered, LockExclusive
<1>6. ASSUME NEW p \in Procs \ Outsiders, NEW items \in Batches, StoreBatch(p, items)
      PROVE FlowInv'
  BY <1>0, <1>6, StoreBatchEffect DEF Goes, Entered, LockExclusive
<1>7. ASSUME NEW p \in Procs, LockStore(p) PROVE FlowInv'
  BY <1>0, <1>7, LockStoreEffect DEF Goes, Stay
<1>8. ASSUME NEW p \in Procs, InitializeInspect(p) PROVE FlowInv'
  BY <1>0, <1>8, InitializeInspectEffect, WriterAlone DEF Goes, SameBut, Stay
<1>9. ASSUME NEW p \in Procs, VerifyInspect(p) PROVE FlowInv'
  BY <1>0, <1>9, VerifyInspectEffect DEF Goes, Stay
<1>10. ASSUME NEW p \in Procs, StoreInspect(p) PROVE FlowInv'
  BY <1>0, <1>10, StoreInspectEffect, WriterAlone, BatchFacts, MemberSets,
    ItemFacts DEF Goes, SameBut, Stay, NewMembers, Preexisting
<1>11. ASSUME NEW p \in Procs, StoreBatchInspect(p) PROVE FlowInv'
  BY <1>0, <1>11, StoreBatchInspectEffect, WriterAlone, BatchFacts,
    MemberSets, ItemFacts DEF Goes, SameBut, Stay
<1>12. ASSUME NEW p \in Procs, Confirm(p) PROVE FlowInv'
  BY <1>0, <1>12, ConfirmEffect, WriterAlone DEF Goes, Others, Stay
<1>13. ASSUME NEW p \in Procs, Confirmed(p) PROVE FlowInv'
  BY <1>0, <1>13, ConfirmedEffect, WriterAlone, BatchFacts, MemberSets,
    ItemFacts DEF Goes, Others, SameBut, Stay, NewMembers, Preexisting
<1>14. ASSUME NEW p \in Procs, CreatePending(p) PROVE FlowInv'
  BY <1>0, <1>14, CreatePendingEffect, WriterAlone, KindFacts DEF Goes, Stay,
    TornJ
<1>15. ASSUME NEW p \in Procs, FillPending(p) PROVE FlowInv'
  <2>1. \A r \in past' : \A j \in {r.single, r.batch} : j.st = "intent" => j.items \in Batches
    <3>1. job[p].items \in Batches
      BY <1>0, <1>15, FillPendingEffect
    <3> QED BY <1>0, <1>15, <3>1, FillPendingRoots, JournalFields
  <2>2. hpc[p] = "fill" /\ Goes(p, {"syncIntent"}) /\ SameBut(job', job, p)
        /\ job'[p].next = Successor(job[p].prev, job[p].items)
    BY <1>0, <1>15, FillPendingEffect
  <2> QED BY <1>0, <2>1, <2>2, SameMembers DEF Goes, SameBut
<1>16. ASSUME NEW p \in Procs, SyncPending(p) PROVE FlowInv'
  BY <1>0, <1>16, SyncPendingEffect, WriterAlone, BatchFacts, MemberSets DEF
    Goes, SameBut, Stay, NewMembers, Preexisting
<1>17. ASSUME NEW p \in Procs, CreateStage(p) PROVE FlowInv'
  BY <1>0, <1>17, CreateStageEffect, SMTT(30), WriterAlone, BatchFacts, MemberSets,
    ItemFacts DEF Goes, SameBut, Stay, NewMembers, Preexisting
<1>18. ASSUME NEW p \in Procs, FillStage(p) PROVE FlowInv'
  <2>1. hpc[p] = "stageFill" /\ Goes(p, {"stage"}) /\ SameBut(job', job, p)
        /\ job'[p].next = job[p].next /\ job'[p].idx = job[p].idx + 1 /\ job[p].idx \in Nat
    BY <1>0, <1>18, FillStageEffect DEF HeadTypeOK, JobRec
  <2>2. \A r \in past' : \A j \in {r.single, r.batch} : j.st = "intent" => j.items \in Batches
    BY <1>0, <1>18, FillStageEffect
  <2>3. /\ Busy(p) /\ NewMembers(job'[p]) # {} /\ job'[p].idx >= 1
        /\ job[p].op \in {"store", "batch"}
    BY <1>0, <2>1, SameMembers
  <2> QED BY <1>0, <2>1, <2>2, <2>3 DEF Goes, SameBut
<1>19. ASSUME NEW p \in Procs, PutMember(p) PROVE FlowInv'
  BY <1>0, <1>19, PutMemberEffect, WriterAlone, BatchFacts, MemberSets DEF
    Goes, Others, Stay
<1>20. ASSUME NEW p \in Procs, MemberDone(p) PROVE FlowInv'
  <2>1. /\ hpc[p] = "putting" /\ Goes(p, {"refused", "head", "put"}) /\ UNCHANGED stateVars
        /\ SameBut(job', job, p) /\ job'[p].next = job[p].next
        /\ hpc'[p] = "put" => job'[p].idx \in NewMembers(job[p])
    BY <1>0, <1>20, MemberDoneEffect, ItemFacts DEF HeadTypeOK, JobRec
  <2>2. NewMembers(job[p]) \subseteq DOMAIN job[p].items
    BY DEF NewMembers
  <2> QED BY <1>0, <2>1, <2>2 DEF Goes, SameBut
<1>21. ASSUME NEW p \in Procs, ReplayDone(p) PROVE FlowInv'
  BY <1>0, <1>21, ReplayDoneEffect, WriterAlone, BatchFacts, MemberSets,
    ItemFacts DEF Goes, Others, SameBut, Stay
<1>22. ASSUME NEW p \in Procs, WriteState(p) PROVE FlowInv'
  BY <1>0, <1>22, WriteStateEffect, WriterAlone DEF Goes, Stay
<1>23. ASSUME NEW p \in Procs, SyncState(p) PROVE FlowInv'
  BY <1>0, <1>23, SyncStateEffect, WriterAlone DEF Goes, SameBut, Stay
<1>24. ASSUME NEW p \in Procs, ClearStage(p) PROVE FlowInv'
  BY <1>0, <1>24, ClearStageEffect, WriterAlone DEF Goes, SameBut, Stay
<1>25. ASSUME NEW p \in Procs, ClearPending(p) PROVE FlowInv'
  BY <1>0, <1>25, ClearPendingEffect, WriterAlone DEF Goes, Stay, Absent
<1>26. ASSUME NEW p \in Procs, SyncCleared(p) PROVE FlowInv'
  BY <1>0, <1>26, SyncClearedEffect, WriterAlone DEF Goes, Stay
<1>27. ASSUME NEW p \in Procs, RecoverNothing(p) PROVE FlowInv'
  BY <1>0, <1>27, RecoverNothingEffect, SMTT(30) DEF Goes, Stay
<1>28. ASSUME NEW p \in Procs, RecoverSingle(p) PROVE FlowInv'
  BY <1>0, <1>28, RecoverSingleEffect, SyncObjectEffect, WriterAlone,
    BatchFacts, MemberSets DEF Goes, Adopted, Others, Stay
<1>29. ASSUME NEW p \in Procs, RecoverBatch(p) PROVE FlowInv'
  BY <1>0, <1>29, RecoverBatchEffect, WriterAlone, BatchFacts, MemberSets DEF
    Goes, Adopted, Stay
<1>30. ASSUME NEW p \in Procs, PutFailed(p) PROVE FlowInv'
  BY <1>0, <1>30, PutFailedEffect DEF Goes, Others, Stay
<1>31. ASSUME NEW p \in Procs, Return(p) PROVE FlowInv'
  BY <1>0, <1>31, ReturnEffect DEF Goes
<1>32. ASSUME NEW p \in Procs, HeadFail(p) PROVE FlowInv'
  BY <1>0, <1>32, HeadFailEffect DEF Goes, Stay
<1>33. ASSUME NEW p \in Procs, FillPendingFails(p) PROVE FlowInv'
  BY <1>0, <1>33, FillPendingFailsEffect, WriterAlone DEF Goes, Stay, Absent
<1>34. ASSUME NEW p \in Procs, HeadCrash(p) PROVE FlowInv'
  BY <1>0, <1>34, HeadCrashEffect DEF Goes, Others
<1>35. ASSUME NEW p \in Procs, PutStep(p) /\ UNCHANGED headVars
      PROVE FlowInv'
  BY <1>0, <1>35, PutStepEffect
<1>36. ASSUME NEW p \in Procs, p \in Outsiders /\ Outsider(p) /\ UNCHANGED headVars
      PROVE FlowInv'
  BY <1>0, <1>36, OutsiderEffect
<1>37. ASSUME NEW p \in Procs, TempPass(p) /\ UNCHANGED headVars
      PROVE FlowInv'
  BY <1>0, <1>37, TempPassEffect
<1>38. CASE HeadPowerLoss
  BY <1>0, <1>38, PowerLossEffect DEF HeadPowerLoss, Survivors, HeadTypeOK
<1>39. CASE UNCHANGED vars
  BY <1>0, <1>39 DEF vars
<1> QED BY <1>1, <1>2, <1>3, <1>4, <1>5, <1>6, <1>7, <1>8, <1>9, <1>10, <1>11,
  <1>12, <1>13, <1>14, <1>15, <1>16, <1>17, <1>18, <1>19, <1>20, <1>21, <1>22,
  <1>23, <1>24, <1>25, <1>26, <1>27, <1>28, <1>29, <1>30, <1>31, <1>32, <1>33,
  <1>34, <1>35, <1>36, <1>37, <1>38, <1>39 DEF HeadNext, HeadOp, HeadStep

LEMMA ForeignStep ==
  ASSUME HeadInv, [HeadNext]_vars
  PROVE  ForeignInv'
<1> USE StoreAssumption, HeadAssumption DEF stateVars, jobVars, headVars,
  storeVars, diskVars, putVars, recVars, txnVars, Busy, ForeignInv, Clean
<1>0. root \in past /\ HeadTypeOK /\ StoreIInv /\ FlowInv /\ LockInv /\ EmptyInv /\ ForeignInv
  BY DEF HeadInv, HeadTypeOK
<1>1. ASSUME NEW p \in Procs \ Outsiders, Initialize(p) PROVE ForeignInv'
  BY <1>0, <1>1, InitializeEffect DEF Goes, Entered, LockExclusive
<1>2. ASSUME NEW p \in Procs \ Outsiders, Load(p) PROVE ForeignInv'
  BY <1>0, <1>2, LoadEffect
<1>3. ASSUME NEW p \in Procs \ Outsiders, Verify(p) PROVE ForeignInv'
  BY <1>0, <1>3, VerifyEffect DEF Goes, Entered, LockShared
<1>4. ASSUME NEW p \in Procs \ Outsiders, Recover(p) PROVE ForeignInv'
  BY <1>0, <1>4, RecoverEffect DEF Goes, Entered, LockExclusive
<1>5. ASSUME NEW p \in Procs \ Outsiders, NEW id \in Ids \ Foreign, Store(p, id)
      PROVE ForeignInv'
  BY <1>0, <1>5, StoreEffect DEF Goes, Entered, LockExclusive
<1>6. ASSUME NEW p \in Procs \ Outsiders, NEW items \in Batches, StoreBatch(p, items)
      PROVE ForeignInv'
  BY <1>0, <1>6, StoreBatchEffect DEF Goes, Entered, LockExclusive
<1>7. ASSUME NEW p \in Procs, LockStore(p) PROVE ForeignInv'
  BY <1>0, <1>7, LockStoreEffect DEF Goes, Stay
<1>8. ASSUME NEW p \in Procs, InitializeInspect(p) PROVE ForeignInv'
  BY <1>0, <1>8, InitializeInspectEffect, WriterAlone DEF Goes, SameBut, Stay,
    EmptyInv, NoPending, Absent, NoHead
<1>9. ASSUME NEW p \in Procs, VerifyInspect(p) PROVE ForeignInv'
  BY <1>0, <1>9, VerifyInspectEffect DEF Goes, Stay
<1>10. ASSUME NEW p \in Procs, StoreInspect(p) PROVE ForeignInv'
  BY <1>0, <1>10, StoreInspectEffect, WriterAlone DEF Goes, SameBut, Stay
<1>11. ASSUME NEW p \in Procs, StoreBatchInspect(p) PROVE ForeignInv'
  BY <1>0, <1>11, StoreBatchInspectEffect, WriterAlone DEF Goes, SameBut, Stay
<1>12. ASSUME NEW p \in Procs, Confirm(p) PROVE ForeignInv'
  BY <1>0, <1>12, ConfirmEffect, WriterAlone DEF Goes, Others, Stay
<1>13. ASSUME NEW p \in Procs, Confirmed(p) PROVE ForeignInv'
  BY <1>0, <1>13, ConfirmedEffect, WriterAlone DEF Goes, Others, SameBut, Stay
<1>14. ASSUME NEW p \in Procs, CreatePending(p) PROVE ForeignInv'
  BY <1>0, <1>14, CreatePendingEffect, WriterAlone, KindFacts DEF Goes, Stay,
    TornJ, NoHead
<1>15. ASSUME NEW p \in Procs, FillPending(p) PROVE ForeignInv'
  <2>1. \A r \in past' : Clean(r.head)' /\ Clean(r.single.prev)' /\ Clean(r.batch.prev)'
    BY <1>0, <1>15, FillPendingRoots, FillPendingEffect, JournalFields DEF Stay
  <2>2. hpc[p] = "fill" /\ Goes(p, {"syncIntent"}) /\ SameBut(job', job, p)
        /\ UNCHANGED <<genesis, acked, ph, target>>
    BY <1>0, <1>15, FillPendingEffect DEF Stay
  <2> QED BY <1>0, <2>1, <2>2 DEF Goes, SameBut
<1>16. ASSUME NEW p \in Procs, SyncPending(p) PROVE ForeignInv'
  BY <1>0, <1>16, SyncPendingEffect, WriterAlone DEF Goes, SameBut, Stay
<1>17. ASSUME NEW p \in Procs, CreateStage(p) PROVE ForeignInv'
  BY <1>0, <1>17, CreateStageEffect, WriterAlone DEF Goes, SameBut, Stay
<1>18. ASSUME NEW p \in Procs, FillStage(p) PROVE ForeignInv'
  BY <1>0, <1>18, FillStageEffect, WriterAlone DEF Goes, SameBut, Stay
<1>19. ASSUME NEW p \in Procs, PutMember(p) PROVE ForeignInv'
  BY <1>0, <1>19, PutMemberEffect, WriterAlone DEF Goes, Others, Stay
<1>20. ASSUME NEW p \in Procs, MemberDone(p) PROVE ForeignInv'
  <2>1. /\ job[p].next = Successor(job[p].prev, job[p].items)
        /\ job[p].prev \in HeadRec /\ job[p].items \in Batches
        /\ hpc[p] = "putting" /\ Busy(p) /\ ph[p] = "ok"
    BY <1>0, <1>20, MemberDoneEffect DEF FlowInv, Writing, HeadTypeOK, JobRec
  <2>2. Clean(job[p].next)
    BY <1>0, <2>1, SuccessorAnchors
  <2> QED BY <1>0, <1>20, <2>1, <2>2, MemberDoneEffect DEF Goes, Stay, SameBut
<1>21. ASSUME NEW p \in Procs, ReplayDone(p) PROVE ForeignInv'
  <2>1. /\ job[p].next = Successor(job[p].prev, job[p].items)
        /\ job[p].prev \in HeadRec /\ job[p].items \in Batches
        /\ hpc[p] = "putting" /\ Busy(p) /\ ph[p] = "ok"
    BY <1>0, <1>21, ReplayDoneEffect DEF FlowInv, Writing, HeadTypeOK, JobRec
  <2>2. Clean(job[p].next)
    BY <1>0, <2>1, SuccessorAnchors
  <2> QED BY <1>0, <1>21, <2>1, <2>2, ReplayDoneEffect DEF Goes, Stay, SameBut
<1>22. ASSUME NEW p \in Procs, WriteState(p) PROVE ForeignInv'
  BY <1>0, <1>22, WriteStateEffect, WriterAlone DEF Goes, Stay
<1>23. ASSUME NEW p \in Procs, SyncState(p) PROVE ForeignInv'
  BY <1>0, <1>23, SyncStateEffect, WriterAlone DEF Goes, SameBut, Stay
<1>24. ASSUME NEW p \in Procs, ClearStage(p) PROVE ForeignInv'
  BY <1>0, <1>24, ClearStageEffect, WriterAlone DEF Goes, SameBut, Stay
<1>25. ASSUME NEW p \in Procs, ClearPending(p) PROVE ForeignInv'
  BY <1>0, <1>25, ClearPendingEffect, WriterAlone DEF Goes, Stay, Absent,
    NoHead
<1>26. ASSUME NEW p \in Procs, SyncCleared(p) PROVE ForeignInv'
  BY <1>0, <1>26, SyncClearedEffect, WriterAlone DEF Goes, Stay
<1>27. ASSUME NEW p \in Procs, RecoverNothing(p) PROVE ForeignInv'
  BY <1>0, <1>27, RecoverNothingEffect DEF Goes, Stay
<1>28. ASSUME NEW p \in Procs, RecoverSingle(p) PROVE ForeignInv'
  BY <1>0, <1>28, RecoverSingleEffect, SyncObjectEffect, WriterAlone,
    SuccessorFacts, BatchFacts DEF Goes, Adopted, Others, Stay
<1>29. ASSUME NEW p \in Procs, RecoverBatch(p) PROVE ForeignInv'
  BY <1>0, <1>29, RecoverBatchEffect, WriterAlone, SuccessorFacts, BatchFacts
    DEF Goes, Adopted, Stay
<1>30. ASSUME NEW p \in Procs, PutFailed(p) PROVE ForeignInv'
  BY <1>0, <1>30, PutFailedEffect DEF Goes, Others, Stay
<1>31. ASSUME NEW p \in Procs, Return(p) PROVE ForeignInv'
  BY <1>0, <1>31, ReturnEffect DEF Goes
<1>32. ASSUME NEW p \in Procs, HeadFail(p) PROVE ForeignInv'
  BY <1>0, <1>32, HeadFailEffect DEF Goes, Stay
<1>33. ASSUME NEW p \in Procs, FillPendingFails(p) PROVE ForeignInv'
  BY <1>0, <1>33, FillPendingFailsEffect, WriterAlone DEF Goes, Stay, Absent,
    NoHead
<1>34. ASSUME NEW p \in Procs, HeadCrash(p) PROVE ForeignInv'
  BY <1>0, <1>34, HeadCrashEffect DEF Goes, Others
<1>35. ASSUME NEW p \in Procs, PutStep(p) /\ UNCHANGED headVars
      PROVE ForeignInv'
  BY <1>0, <1>35, PutStepEffect
<1>36. ASSUME NEW p \in Procs, p \in Outsiders /\ Outsider(p) /\ UNCHANGED headVars
      PROVE ForeignInv'
  BY <1>0, <1>36, OutsiderEffect
<1>37. ASSUME NEW p \in Procs, TempPass(p) /\ UNCHANGED headVars
      PROVE ForeignInv'
  BY <1>0, <1>37, TempPassEffect
<1>38. CASE HeadPowerLoss
  BY <1>0, <1>38, PowerLossEffect DEF HeadPowerLoss, Survivors, HeadTypeOK
<1>39. CASE UNCHANGED vars
  BY <1>0, <1>39 DEF vars
<1> QED BY <1>1, <1>2, <1>3, <1>4, <1>5, <1>6, <1>7, <1>8, <1>9, <1>10, <1>11,
  <1>12, <1>13, <1>14, <1>15, <1>16, <1>17, <1>18, <1>19, <1>20, <1>21, <1>22,
  <1>23, <1>24, <1>25, <1>26, <1>27, <1>28, <1>29, <1>30, <1>31, <1>32, <1>33,
  <1>34, <1>35, <1>36, <1>37, <1>38, <1>39 DEF HeadNext, HeadOp, HeadStep

LEMMA BackStep ==
  ASSUME HeadInv, [HeadNext]_vars
  PROVE  BackInv'
<1> USE StoreAssumption, HeadAssumption DEF stateVars, jobVars, headVars,
  storeVars, diskVars, putVars, recVars, txnVars, Busy, BackInv, Anchored
<1>0. root \in past /\ HeadTypeOK /\ StoreIInv /\ FlowInv /\ LockInv /\ LinkInv /\ EmptyInv /\ BackInv
  BY DEF HeadInv, HeadTypeOK
<1>1. ASSUME NEW p \in Procs \ Outsiders, Initialize(p) PROVE BackInv'
  BY <1>0, <1>1, InitializeEffect DEF Goes, Entered, LockExclusive
<1>2. ASSUME NEW p \in Procs \ Outsiders, Load(p) PROVE BackInv'
  BY <1>0, <1>2, LoadEffect
<1>3. ASSUME NEW p \in Procs \ Outsiders, Verify(p) PROVE BackInv'
  BY <1>0, <1>3, VerifyEffect DEF Goes, Entered, LockShared
<1>4. ASSUME NEW p \in Procs \ Outsiders, Recover(p) PROVE BackInv'
  BY <1>0, <1>4, RecoverEffect DEF Goes, Entered, LockExclusive
<1>5. ASSUME NEW p \in Procs \ Outsiders, NEW id \in Ids \ Foreign, Store(p, id)
      PROVE BackInv'
  BY <1>0, <1>5, StoreEffect DEF Goes, Entered, LockExclusive
<1>6. ASSUME NEW p \in Procs \ Outsiders, NEW items \in Batches, StoreBatch(p, items)
      PROVE BackInv'
  BY <1>0, <1>6, StoreBatchEffect DEF Goes, Entered, LockExclusive
<1>7. ASSUME NEW p \in Procs, LockStore(p) PROVE BackInv'
  BY <1>0, <1>7, LockStoreEffect DEF Goes, Stay
<1>8. ASSUME NEW p \in Procs, InitializeInspect(p) PROVE BackInv'
  BY <1>0, <1>8, InitializeInspectEffect, WriterAlone DEF Goes, SameBut, Stay,
    EmptyInv, NoPending, Absent, NoHead
<1>9. ASSUME NEW p \in Procs, VerifyInspect(p) PROVE BackInv'
  BY <1>0, <1>9, VerifyInspectEffect DEF Goes, Stay
<1>10. ASSUME NEW p \in Procs, StoreInspect(p) PROVE BackInv'
  BY <1>0, <1>10, StoreInspectEffect, WriterAlone DEF Goes, SameBut, Stay
<1>11. ASSUME NEW p \in Procs, StoreBatchInspect(p) PROVE BackInv'
  BY <1>0, <1>11, StoreBatchInspectEffect, WriterAlone DEF Goes, SameBut, Stay
<1>12. ASSUME NEW p \in Procs, Confirm(p) PROVE BackInv'
  BY <1>0, <1>12, ConfirmEffect, WriterAlone DEF Goes, Others, Stay
<1>13. ASSUME NEW p \in Procs, Confirmed(p) PROVE BackInv'
  BY <1>0, <1>13, ConfirmedEffect, WriterAlone DEF Goes, Others, SameBut, Stay
<1>14. ASSUME NEW p \in Procs, CreatePending(p) PROVE BackInv'
  BY <1>0, <1>14, CreatePendingEffect, WriterAlone, KindFacts DEF Goes, Stay,
    TornJ, NoHead
<1>15. ASSUME NEW p \in Procs, FillPending(p) PROVE BackInv'
  <2>1. \A r \in past' : Anchored(r.head)' /\ Anchored(r.single.prev)' /\ Anchored(r.batch.prev)'
    BY <1>0, <1>15, FillPendingRoots, FillPendingEffect, JournalFields DEF Stay
  <2>2. hpc[p] = "fill" /\ Goes(p, {"syncIntent"}) /\ SameBut(job', job, p)
        /\ UNCHANGED <<genesis, acked, ph, target>>
    BY <1>0, <1>15, FillPendingEffect DEF Stay
  <2> QED BY <1>0, <2>1, <2>2 DEF Goes, SameBut
<1>16. ASSUME NEW p \in Procs, SyncPending(p) PROVE BackInv'
  <2>1. job[p].items \in Batches \union {<<>>}
    BY <1>0 DEF HeadTypeOK, JobRec
  <2>2. \A i \in DOMAIN job[p].items : ~(i < 1)
    BY <2>1, ItemFacts
  <2> QED BY <1>0, <1>16, <2>2, SyncPendingEffect, WriterAlone DEF Goes, SameBut, Stay
<1>17. ASSUME NEW p \in Procs, CreateStage(p) PROVE BackInv'
  <2>1. job[p].items \in Batches \union {<<>>}
    BY <1>0 DEF HeadTypeOK, JobRec
  <2>2. CASE Goes(p, {"put"})
    <3>1. \A i \in DOMAIN job[p].items : i < job'[p].idx => job[p].items[i] \in job[p].prev.inv
      <4>1. /\ \A i \in NewMembers(job[p]) : i >= 1 => job'[p].idx <= i
            /\ job'[p].idx \in NewMembers(job[p]) \/ job'[p].idx = Len(job[p].items) + 1
        BY <1>0, <1>17, <2>2, CreateStageEffect DEF Goes
      <4>2. \A i \in DOMAIN job[p].items : i < job'[p].idx => i \notin NewMembers(job[p])
        BY <2>1, <4>1, ItemFacts, MemberSets
      <4> QED BY <2>1, <4>2, ItemFacts, MemberSets
    <3>2. /\ hpc[p] = "stage" /\ hpc'[p] = "put" /\ SameBut(job', job, p) /\ past' = {root}
          /\ Stay /\ UNCHANGED storeVars
      BY <1>0, <1>17, <2>2, CreateStageEffect DEF Goes
    <3> QED BY <1>0, <2>2, <3>1, <3>2 DEF Goes, SameBut, Stay
  <2>3. CASE ~Goes(p, {"put"})
    BY <1>0, <1>17, <2>3, CreateStageEffect DEF Goes, SameBut, Stay
  <2> QED BY <2>2, <2>3
<1>18. ASSUME NEW p \in Procs, FillStage(p) PROVE BackInv'
  BY <1>0, <1>18, FillStageEffect, WriterAlone DEF Goes, SameBut, Stay
<1>19. ASSUME NEW p \in Procs, PutMember(p) PROVE BackInv'
  BY <1>0, <1>19, PutMemberEffect, WriterAlone DEF Goes, Others, Stay
<1>20. ASSUME NEW p \in Procs, MemberDone(p) PROVE BackInv'
  <2>1. /\ job[p].next = Successor(job[p].prev, job[p].items)
        /\ job[p].prev \in HeadRec /\ job[p].items \in Batches
        /\ hpc[p] = "putting" /\ Busy(p) /\ ph[p] = "ok"
    BY <1>0, <1>20, MemberDoneEffect DEF FlowInv, Writing, HeadTypeOK, JobRec
  <2>2. job[p].items[job[p].idx] \in acked /\ job[p].idx \in DOMAIN job[p].items
    BY <1>0, <2>1 DEF LinkInv, FlowInv
  <2>3. \A i \in DOMAIN job[p].items :
          i < job'[p].idx => job[p].items[i] \in acked \union job[p].prev.inv
    <3>1. ASSUME NEW i \in DOMAIN job[p].items, i < job'[p].idx, i > job[p].idx
          PROVE  job[p].items[i] \in job[p].prev.inv
      <4>1. /\ \A k \in NewMembers(job[p]) : k >= job[p].idx + 1 => job'[p].idx <= k
            /\ job'[p].idx \in NewMembers(job[p]) \/ job'[p].idx = Len(job[p].items) + 1
        BY <1>0, <1>20, MemberDoneEffect
      <4>2. i \notin NewMembers(job[p])
        BY <2>1, <2>2, <3>1, <4>1, BatchFacts, MemberSets
      <4> QED BY <2>1, <4>2, BatchFacts, MemberSets
    <3>2. \A i \in DOMAIN job[p].items : i < job[p].idx \/ i = job[p].idx \/ i > job[p].idx
      BY <2>1, <2>2, BatchFacts
    <3> QED BY <1>0, <2>1, <2>2, <3>1, <3>2
  <2>4. hpc'[p] = "head" => Anchored(job[p].next)
    <3>1. hpc'[p] = "head" => job'[p].idx > Len(job[p].items)
      BY <1>0, <1>20, MemberDoneEffect
    <3>2. hpc'[p] = "head" => \A i \in DOMAIN job[p].items : i < job'[p].idx
      BY <1>0, <1>20, <2>1, <3>1, BatchFacts, MemberDoneEffect DEF SameBut, JobRec
    <3> QED BY <1>0, <2>1, <2>3, <3>2, SuccessorAnchors
  <2> QED BY <1>0, <1>20, <2>1, <2>3, <2>4, MemberDoneEffect DEF Goes, Stay, SameBut, Others
<1>21. ASSUME NEW p \in Procs, ReplayDone(p) PROVE BackInv'
  <2>1. /\ job[p].next = Successor(job[p].prev, job[p].items)
        /\ job[p].prev \in HeadRec /\ job[p].items \in Batches
        /\ hpc[p] = "putting" /\ Busy(p) /\ ph[p] = "ok"
    BY <1>0, <1>21, ReplayDoneEffect DEF FlowInv, Writing, HeadTypeOK, JobRec
  <2>2. job[p].items[job[p].idx] \in acked /\ job[p].idx \in DOMAIN job[p].items
    BY <1>0, <2>1 DEF LinkInv, FlowInv
  <2>3. /\ job'[p].idx = job[p].idx + 1
        /\ hpc'[p] = "head" => job[p].idx = Len(job[p].items)
    BY <1>0, <1>21, ReplayDoneEffect
  <2>4. \A i \in DOMAIN job[p].items :
          i < job'[p].idx => job[p].items[i] \in acked \union job[p].prev.inv
    <3>1. \A i \in DOMAIN job[p].items : i < job'[p].idx => i < job[p].idx \/ i = job[p].idx
      BY <2>1, <2>2, <2>3, BatchFacts
    <3> QED BY <1>0, <2>1, <2>2, <3>1
  <2>5. hpc'[p] = "head" => Anchored(job[p].next)
    <3>1. hpc'[p] = "head" => \A i \in DOMAIN job[p].items : i < job'[p].idx
      BY <2>1, <2>3, BatchFacts
    <3> QED BY <1>0, <2>1, <2>4, <3>1, SuccessorAnchors
  <2> QED BY <1>0, <1>21, <2>1, <2>4, <2>5, ReplayDoneEffect DEF Goes, Stay, SameBut, Others
<1>22. ASSUME NEW p \in Procs, WriteState(p) PROVE BackInv'
  BY <1>0, <1>22, WriteStateEffect, WriterAlone DEF Goes, Stay
<1>23. ASSUME NEW p \in Procs, SyncState(p) PROVE BackInv'
  BY <1>0, <1>23, SyncStateEffect, WriterAlone DEF Goes, SameBut, Stay
<1>24. ASSUME NEW p \in Procs, ClearStage(p) PROVE BackInv'
  BY <1>0, <1>24, ClearStageEffect, WriterAlone DEF Goes, SameBut, Stay
<1>25. ASSUME NEW p \in Procs, ClearPending(p) PROVE BackInv'
  BY <1>0, <1>25, ClearPendingEffect, WriterAlone DEF Goes, Stay, Absent,
    NoHead
<1>26. ASSUME NEW p \in Procs, SyncCleared(p) PROVE BackInv'
  BY <1>0, <1>26, SyncClearedEffect, WriterAlone DEF Goes, Stay
<1>27. ASSUME NEW p \in Procs, RecoverNothing(p) PROVE BackInv'
  BY <1>0, <1>27, RecoverNothingEffect DEF Goes, Stay
<1>28. ASSUME NEW p \in Procs, RecoverSingle(p) PROVE BackInv'
  <2>1. root.single.st = "intent" /\ root.single.items \in Batches /\ Anchored(root.single.prev)
    BY <1>0, <1>28, RecoverSingleEffect DEF FlowInv
  <2>2. \A i \in DOMAIN root.single.items : ~(i < 1)
    BY <2>1, BatchFacts
  <2>3. UNCHANGED <<stateVars, genesis, acked>> /\ Goes(p, {"refused", "clear", "putting"})
    BY <1>0, <1>28, RecoverSingleEffect, SyncObjectEffect DEF Stay
  <2>4. \A q \in Procs : ph'[q] = "ok" => target'[q] \in acked'
    BY <1>0, <1>28, RecoverSingleEffect, SyncObjectEffect DEF Others
  <2>5. /\ hpc[p] = "inspect" /\ job'[p].prev \in {job[p].prev, root.single.prev}
        /\ hpc'[p] \in {"put", "putting"} =>
             job'[p].idx = 1 /\ job'[p].items = root.single.items
        /\ \A q \in Procs \ {p} : job'[q] = job[q]
    BY <1>0, <1>28, RecoverSingleEffect DEF Adopted
  <2>6. Anchored(job'[p].prev)
    BY <1>0, <2>1, <2>5
  <2>7. hpc'[p] \in {"put", "putting"} =>
          \A i \in DOMAIN job'[p].items : ~(i < job'[p].idx)
    BY <2>2, <2>5
  <2>8. ASSUME NEW q \in Procs, Busy(q)'
        PROVE  /\ Anchored(job[q].prev)'
               /\ hpc'[q] = "head" => Anchored(job[q].next)'
               /\ hpc'[q] \in {"put", "putting"} =>
                    \A i \in DOMAIN job'[q].items :
                      i < job'[q].idx => job'[q].items[i] \in acked' \union job'[q].prev.inv
    <3>1. CASE q = p
      BY <2>3, <2>6, <2>7, <3>1 DEF Goes
    <3>2. CASE q # p
      BY <1>0, <2>3, <2>5, <2>8, <3>2 DEF Goes
    <3> QED BY <3>1, <3>2
  <2> QED BY <1>0, <2>3, <2>4, <2>8
<1>29. ASSUME NEW p \in Procs, RecoverBatch(p) PROVE BackInv'
  <2>1. root.batch.st = "intent" /\ root.batch.items \in Batches /\ Anchored(root.batch.prev)
    BY <1>0, <1>29, RecoverBatchEffect DEF FlowInv
  <2>2. \A i \in DOMAIN root.batch.items : ~(i < 1)
    BY <2>1, BatchFacts
  <2>3. UNCHANGED <<stateVars, genesis, acked>> /\ Goes(p, {"refused", "unstage", "put"})
    BY <1>0, <1>29, RecoverBatchEffect, SyncObjectEffect DEF Stay
  <2>4. \A q \in Procs : ph'[q] = "ok" => target'[q] \in acked'
    BY <1>0, <1>29, RecoverBatchEffect, SyncObjectEffect DEF Others
  <2>5. /\ hpc[p] = "inspect" /\ job'[p].prev \in {job[p].prev, root.batch.prev}
        /\ hpc'[p] \in {"put", "putting"} =>
             job'[p].idx = 1 /\ job'[p].items = root.batch.items
        /\ \A q \in Procs \ {p} : job'[q] = job[q]
    BY <1>0, <1>29, RecoverBatchEffect DEF Adopted
  <2>6. Anchored(job'[p].prev)
    BY <1>0, <2>1, <2>5
  <2>7. hpc'[p] \in {"put", "putting"} =>
          \A i \in DOMAIN job'[p].items : ~(i < job'[p].idx)
    BY <2>2, <2>5
  <2>8. ASSUME NEW q \in Procs, Busy(q)'
        PROVE  /\ Anchored(job[q].prev)'
               /\ hpc'[q] = "head" => Anchored(job[q].next)'
               /\ hpc'[q] \in {"put", "putting"} =>
                    \A i \in DOMAIN job'[q].items :
                      i < job'[q].idx => job'[q].items[i] \in acked' \union job'[q].prev.inv
    <3>1. CASE q = p
      BY <2>3, <2>6, <2>7, <3>1 DEF Goes
    <3>2. CASE q # p
      BY <1>0, <2>3, <2>5, <2>8, <3>2 DEF Goes
    <3> QED BY <3>1, <3>2
  <2> QED BY <1>0, <2>3, <2>4, <2>8
<1>30. ASSUME NEW p \in Procs, PutFailed(p) PROVE BackInv'
  BY <1>0, <1>30, PutFailedEffect DEF Goes, Others, Stay
<1>31. ASSUME NEW p \in Procs, Return(p) PROVE BackInv'
  BY <1>0, <1>31, ReturnEffect DEF Goes
<1>32. ASSUME NEW p \in Procs, HeadFail(p) PROVE BackInv'
  BY <1>0, <1>32, HeadFailEffect DEF Goes, Stay
<1>33. ASSUME NEW p \in Procs, FillPendingFails(p) PROVE BackInv'
  BY <1>0, <1>33, FillPendingFailsEffect, WriterAlone DEF Goes, Stay, Absent,
    NoHead
<1>34. ASSUME NEW p \in Procs, HeadCrash(p) PROVE BackInv'
  BY <1>0, <1>34, HeadCrashEffect DEF Goes, Others
<1>35. ASSUME NEW p \in Procs, PutStep(p) /\ UNCHANGED headVars
      PROVE BackInv'
  BY <1>0, <1>35, PutStepEffect
<1>36. ASSUME NEW p \in Procs, p \in Outsiders /\ Outsider(p) /\ UNCHANGED headVars
      PROVE BackInv'
  BY <1>0, <1>36, OutsiderEffect
<1>37. ASSUME NEW p \in Procs, TempPass(p) /\ UNCHANGED headVars
      PROVE BackInv'
  BY <1>0, <1>37, TempPassEffect
<1>38. CASE HeadPowerLoss
  BY <1>0, <1>38, PowerLossEffect DEF HeadPowerLoss, Survivors, HeadTypeOK
<1>39. CASE UNCHANGED vars
  BY <1>0, <1>39 DEF vars
<1> QED BY <1>1, <1>2, <1>3, <1>4, <1>5, <1>6, <1>7, <1>8, <1>9, <1>10, <1>11,
  <1>12, <1>13, <1>14, <1>15, <1>16, <1>17, <1>18, <1>19, <1>20, <1>21, <1>22,
  <1>23, <1>24, <1>25, <1>26, <1>27, <1>28, <1>29, <1>30, <1>31, <1>32, <1>33,
  <1>34, <1>35, <1>36, <1>37, <1>38, <1>39 DEF HeadNext, HeadOp, HeadStep

LEMMA HeadInitInv == HeadInit => HeadInv
<1> SUFFICES ASSUME HeadInit PROVE HeadInv
  OBVIOUS
<1>1. StoreIInv
  BY StoreInitInv DEF HeadInit
<1>2. HeadTypeOK
  <2>1. NoStage \in Stages /\ root \in Root
    BY RecordTypes, HeadAssumption DEF HeadInit, NoStage, Stages, Root
  <2>2. NoJob \in JobRec
    BY RecordTypes DEF NoJob, JobRec, Ops
  <2> QED BY <2>1, <2>2, RecordTypes DEF HeadInit, HeadTypeOK, HeadPhases
<1>3. LockInv /\ EmptyInv
  BY DEF HeadInit, LockInv, EmptyInv, Busy
<1>4. FlowInv
  BY JournalFields DEF HeadInit, FlowInv, Busy
<1>5. LinkInv
  BY DEF HeadInit, StoreInit, LinkInv
<1>6. BackInv /\ ForeignInv
  BY JournalFields
  DEF HeadInit, StoreInit, BackInv, ForeignInv, Anchored, Clean, NoHead, Busy
<1> QED BY <1>1, <1>2, <1>3, <1>4, <1>5, <1>6 DEF HeadInv

LEMMA HeadInvStep ==
  ASSUME HeadInv, [HeadNext]_vars
  PROVE  HeadInv'
  BY HeadStoreStep, TypeStep, LockStep, LinkStep, EmptyStep, FlowStep, ForeignStep,
     BackStep DEF HeadInv

(* Part 1 is an invariant of every head operation, put, crash, power loss, *)
(* temporary-object pass and outsider.                                     *)
THEOREM HeadInvariance == HeadSpec => []HeadInv
<1>1. HeadInv /\ [HeadNext]_vars => HeadInv'
  BY HeadInvStep
<1> QED BY <1>1, HeadInitInv, PTL DEF HeadSpec

(* The head never names an object that a power loss could still take: what *)
(* write_state writes, after a publication or after a recovery that        *)
(* re-issued the barriers, has been acknowledged or was there at           *)
(* initialization, for every state root a power loss may bring back.       *)
THEOREM HeadIsBacked == HeadSpec => []HeadBacked
<1>1. HeadInv => HeadBacked
  BY DEF HeadInv, BackInv, Anchored, HeadBacked
<1> QED BY <1>1, HeadInvariance, PTL

(* Recovery and publication never promote what only outsiders put into the *)
(* store.                                                                  *)
THEOREM NothingForeignIsPromoted == HeadSpec => []NothingForeignPromoted
<1>1. HeadInv => NothingForeignPromoted
  BY DEF HeadInv, ForeignInv, Clean, NothingForeignPromoted
<1> QED BY <1>1, HeadInvariance, PTL

(* The state lock is exclusive for every operation that writes: while one  *)
(* runs, no other head operation does.                                     *)
THEOREM HeadWriterIsAlone ==
  HeadSpec => [](\A p, q \in Procs :
    Busy(p) /\ Busy(q) /\ p # q => job[p].op = "verify" /\ job[q].op = "verify")
<1>1. HeadInv => \A p, q \in Procs :
        Busy(p) /\ Busy(q) /\ p # q => job[p].op = "verify" /\ job[q].op = "verify"
  BY StoreAssumption DEF HeadInv, LockInv
<1> QED BY <1>1, HeadInvariance, PTL

-----------------------------------------------------------------------------
(***************************************************************************)
(* Part 2: every writer maintains the head, and the state root keeps the   *)
(* order of its changes.                                                   *)
(***************************************************************************)

(* The one journal of a state root that may be an intent.                  *)
PendingOf(r) == IF r.single.st = "intent" THEN r.single ELSE r.batch

(* A state root as the code writes it: one journal at a time, of a         *)
(* publication that adds something, before or after its head was written.  *)
WellFormed(r) ==
  /\ r.single = Absent \/ r.batch = Absent
  /\ r.single.st = "intent" => Len(r.single.items) = 1
  /\ PendingOf(r).st = "intent" =>
       LET j == PendingOf(r) IN
         /\ j.items \in Batches /\ NewMembers(j) # {} /\ j.prev # NoHead
         /\ r.head = j.prev \/ r.head = Successor(j.prev, j.items)

(* One from which recovery can publish the rest: the intent, and for a     *)
(* batch every stage.                                                      *)
Ready(r) ==
  LET j == PendingOf(r) IN
  /\ j.st = "intent" /\ r.head = j.prev
  /\ r.single.st # "intent" => \A i \in DOMAIN j.items : r.stage[i] = j.items[i]

(* The disk is in one of three conditions, whoever is running: no head     *)
(* yet; the store is what the head says; members are being published.      *)
Empty == root.head = NoHead /\ past = {root} /\ NoPending /\ nameD = objs

Quiet ==
  /\ root.head # NoHead /\ objs = root.head.inv /\ nameD = objs
  /\ \A r \in past :
       /\ WellFormed(r)
       /\ \/ r.head = root.head
          \/ Ready(r) /\ Successor(PendingOf(r).prev, PendingOf(r).items) = root.head
          \/ r.head = NoHead /\ r.single = Absent /\ r.batch = Absent
             /\ root.head.gen = 1

Publishing ==
  LET j == PendingOf(root) IN
  /\ root.head # NoHead
  /\ \A r \in past : /\ WellFormed(r) /\ Ready(r)
                     /\ r.single = root.single /\ r.batch = root.batch
  /\ \E k \in 0..Len(j.items) : objs = After(j.prev, j.items, k)
  /\ \E k \in 0..Len(j.items) : nameD = After(j.prev, j.items, k)
  /\ \E x \in Ids : objs \subseteq nameD \union {x}

DiskInv == Empty \/ Quiet \/ Publishing

(* How far the publication of a job has come: recovery found the members   *)
(* up to seen, and those before idx have been put again.                   *)
Reached(j, k) == After(j.prev, j.items, IF j.seen >= k THEN j.seen ELSE k)

OwnJournal(p) ==
  /\ JournalOf(job[p].kind) = Intent(job[p].prev, job[p].items)
  /\ job[p].kind = "single" => root.batch = Absent
  /\ job[p].kind = "batch" => root.single = Absent

(* Where an operation is determines what it may rely on.                   *)
StartInv(p) ==
  /\ hpc[p] \in {"lock", "inspect", "confirm", "confirming", "create"} =>
       job[p].prev = root.head /\ job[p].next = root.head
       /\ (job[p].op # "recover" => NoPending)
  /\ hpc[p] \in {"confirm", "confirming"} =>
       job[p].idx \in Preexisting(job[p]) \/ job[p].idx > Len(job[p].items)
  /\ hpc[p] = "confirming" => job[p].idx \in Preexisting(job[p])
  /\ hpc[p] = "fill" =>
       /\ job[p].prev = root.head
       /\ ~ \E j \in {root.single, root.batch} : j.st = "intent"
       /\ job[p].kind = "single" => root.batch = Absent
       /\ job[p].kind = "batch" => root.single = Absent
  /\ job[p].op = "store" => job[p].kind = "single" /\ Len(job[p].items) = 1
  /\ job[p].op = "batch" => job[p].kind = "batch"
  /\ job[p].op # "recover" => job[p].seen = 0

StageInv(p) ==
  /\ hpc[p] \in {"syncIntent", "stage", "stageFill"} =>
       /\ job[p].op \in {"store", "batch"} /\ OwnJournal(p)
       /\ job[p].prev = root.head /\ Quiet
  /\ hpc[p] \in {"stage", "stageFill"} =>
       /\ job[p].kind = "batch" /\ job[p].idx \in 1..(Len(job[p].items) + 1)
       /\ \A i \in 1..(job[p].idx - 1) : root.stage[i] = job[p].items[i]
  /\ hpc[p] = "stageFill" => job[p].idx <= Len(job[p].items)

PublishInv(p) ==
  LET j == job[p] IN
  /\ hpc[p] \in {"put", "putting"} =>
       Publishing /\ OwnJournal(p) /\ j.seen <= Len(j.items)
  /\ hpc[p] = "put" =>
       objs = Reached(j, j.idx - 1) /\ (j.idx > j.seen => nameD = objs)
  /\ hpc[p] = "putting" =>
       /\ objs = Reached(j, j.idx - 1) \/ objs = Reached(j, j.idx)
       /\ j.idx > j.seen /\ target[p] \notin objs => nameD = objs
       /\ ph[p] = "ok" => nameD = objs

FinishInv(p) ==
  /\ hpc[p] = "head" =>
       IF job[p].op = "init"
         THEN Empty /\ job[p].next = [gen |-> 1, inv |-> objs]
         ELSE Publishing /\ OwnJournal(p) /\ nameD = objs /\ objs = job[p].next.inv
  /\ hpc[p] \in {"syncHead", "unstage", "clear", "syncClear", "done"} =>
       Quiet /\ job[p].next = root.head

At(p) == StartInv(p) /\ StageInv(p) /\ PublishInv(p) /\ FinishInv(p)

ProcInv == \A p \in Procs : Busy(p) => At(p)

(* A state root that has not lost the head h: it has it, a later one, or   *)
(* the journal that leads to it.                                           *)
Keeps(r, h) ==
  \/ r.head.gen > h.gen \/ r.head = h
  \/ \E j \in {r.single, r.batch} :
       j.st = "intent" /\ r.head = j.prev /\ Successor(j.prev, j.items) = h

PromiseInv ==
  promised.gen > 1 =>
    /\ promised.inv \subseteq nameD /\ Anchored(promised)
    /\ \A r \in past : Keeps(r, promised)

OrderedInv == HeadInv /\ DiskInv /\ ProcInv /\ PromiseInv

(* Inventories along a publication.                                        *)
LEMMA AfterFacts ==
  ASSUME NEW prev \in HeadRec, NEW items \in Batches
  PROVE  /\ After(prev, items, 0) = prev.inv
         /\ After(prev, items, Len(items)) = Successor(prev, items).inv
         /\ \A k \in Nat : \A l \in Nat :
              k <= l => After(prev, items, k) \subseteq After(prev, items, l)
         /\ \A k \in Nat : \A l \in Nat :
              k <= l /\ (\A i \in 1..l : i > k => items[i] \in prev.inv) =>
                After(prev, items, l) = After(prev, items, k)
  BY BatchFacts, SuccessorFacts DEF After

LEMMA ReachedFacts ==
  ASSUME NEW j, j.seen \in Nat, NEW k \in Nat
  PROVE  /\ k >= j.seen => Reached(j, k) = After(j.prev, j.items, k)
         /\ k <= j.seen => Reached(j, k) = After(j.prev, j.items, j.seen)
  BY DEF Reached

(* What two state roots with the same head and journals share.             *)
LEMMA SameRecords ==
  ASSUME NEW r, NEW s, r.head = s.head, r.single = s.single, r.batch = s.batch
  PROVE  /\ PendingOf(r) = PendingOf(s) /\ (WellFormed(r) <=> WellFormed(s))
         /\ \A h : Keeps(r, h) <=> Keeps(s, h)
  BY DEF PendingOf, WellFormed, Keeps

(* A state root without an intent, and one with an intent in one journal.  *)
LEMMA NoIntentWellFormed ==
  ASSUME NEW r, r.single.st # "intent", r.batch.st # "intent",
         r.single = Absent \/ r.batch = Absent
  PROVE  WellFormed(r) /\ PendingOf(r).st # "intent"
  BY DEF WellFormed, PendingOf

LEMMA DiskFrame ==
  ASSUME UNCHANGED <<root, past, objs, nameD>>
  PROVE  /\ Empty' <=> Empty
         /\ Quiet' <=> Quiet
         /\ Publishing' <=> Publishing
         /\ DiskInv' <=> DiskInv
  BY DEF Empty, Quiet, Publishing, DiskInv, NoPending

(* With a head and no intent the store is what the head says.              *)
LEMMA QuietWithoutIntent ==
  ASSUME HeadTypeOK, DiskInv, root.head # NoHead,
         root.single.st # "intent", root.batch.st # "intent"
  PROVE  Quiet
  BY DEF HeadTypeOK, DiskInv, Empty, Publishing, Ready, PendingOf

(* A publication of which nothing has reached the store.                   *)
LEMMA QuietBeforeFirst ==
  ASSUME HeadTypeOK, StoreIInv, Publishing, objs = PendingOf(root).prev.inv
  PROVE  Quiet
<1>1. root \in past /\ nameD \subseteq objs
  BY DEF HeadTypeOK, StoreIInv, StoreTypeOK
<1> DEFINE j == PendingOf(root)
<1>2. WellFormed(root) /\ Ready(root)
  BY <1>1 DEF Publishing
<1>3. \A r \in past : WellFormed(r) /\ r.head = root.head
  BY <1>1, <1>2 DEF Publishing, Ready, PendingOf
<1>4. nameD = objs
  BY <1>1 DEF Publishing, After
<1>5. objs = root.head.inv
  BY <1>2 DEF Ready
<1> QED BY <1>3, <1>4, <1>5 DEF Quiet, Publishing

(* A step of one process: the others rely on what did not change, or are   *)
(* not there.                                                              *)
LEMMA ProcFrame ==
  ASSUME OrderedInv, NEW p \in Procs,
         \A q \in Procs \ {p} : hpc'[q] = hpc[q] /\ job'[q] = job[q],
         \/ \A q \in Procs \ {p} : ~Busy(q)
         \/ /\ UNCHANGED <<root, past, objs, nameD>>
            /\ \A q \in Procs \ {p} : ph'[q] = ph[q] /\ target'[q] = target[q],
         Busy(p)' => At(p)'
  PROVE  ProcInv'
<1>1. ASSUME NEW q \in Procs \ {p}, Busy(q)' PROVE At(q)'
  <2>1. Busy(q)
    BY <1>1 DEF Busy
  <2>2. UNCHANGED <<root, past, objs, nameD>> /\ ph'[q] = ph[q] /\ target'[q] = target[q]
    BY <2>1
  <2>3. At(q)
    BY <2>1 DEF OrderedInv, ProcInv
  <2>4. (Empty' <=> Empty) /\ (Quiet' <=> Quiet) /\ (Publishing' <=> Publishing)
    BY <2>2, DiskFrame
  <2>5. hpc'[q] = hpc[q] /\ job'[q] = job[q]
    OBVIOUS
  <2>6. StartInv(q)'
    BY <2>2, <2>3, <2>5 DEF At, StartInv, NoPending
  <2>7. StageInv(q)'
    BY <2>2, <2>3, <2>4, <2>5 DEF At, StageInv, OwnJournal, JournalOf
  <2>8. PublishInv(q)'
    BY <2>2, <2>3, <2>4, <2>5 DEF At, PublishInv, OwnJournal, JournalOf
  <2>9. FinishInv(q)'
    BY <2>2, <2>3, <2>4, <2>5 DEF At, FinishInv, OwnJournal, JournalOf
  <2> QED BY <2>6, <2>7, <2>8, <2>9 DEF At
<1> QED BY <1>1 DEF ProcInv

LEMMA PromiseFrame ==
  ASSUME OrderedInv, promised' = promised, genesis' = genesis,
         nameD \subseteq nameD', acked \subseteq acked',
         \A r \in past' : r \in past \/ (PromiseInv /\ promised.gen > 1 => Keeps(r, promised))
  PROVE  PromiseInv'
<1>1. Anchored(promised) => Anchored(promised)'
  BY DEF Anchored
<1> QED BY <1>1 DEF OrderedInv, PromiseInv, Keeps

(* Quiet after a step that leaves head and store, and adds at most one     *)
(* well-formed state root with the same head.                              *)
LEMMA QuietStep ==
  ASSUME Quiet, HeadTypeOK, root'.head = root.head, UNCHANGED <<objs, nameD>>,
         past' \subseteq past \union {root'}, WellFormed(root')
  PROVE  Quiet'
<1>1. ASSUME NEW r \in past'
      PROVE  /\ WellFormed(r)
             /\ \/ r.head = root'.head
                \/ Ready(r) /\ Successor(PendingOf(r).prev, PendingOf(r).items) = root'.head
                \/ r.head = NoHead /\ r.single = Absent /\ r.batch = Absent /\ root'.head.gen = 1
  BY <1>1 DEF Quiet
<1> QED BY <1>1 DEF Quiet, WellFormed, PendingOf, Ready

DiskPart == DiskInv /\ ProcInv /\ PromiseInv

LEMMA FrameStep ==
  ASSUME OrderedInv, NEW p \in Procs,
         UNCHANGED <<root, past, objs, nameD, acked, genesis, promised>>,
         \A q \in Procs \ {p} :
           hpc'[q] = hpc[q] /\ job'[q] = job[q] /\ ph'[q] = ph[q] /\ target'[q] = target[q],
         Busy(p)' => At(p)'
  PROVE  DiskPart'
<1>1. ProcInv'
  BY ProcFrame
<1>2. PromiseInv'
  BY PromiseFrame
<1>3. DiskInv'
  BY DiskFrame DEF OrderedInv
<1> QED BY <1>1, <1>2, <1>3 DEF DiskPart

LEMMA Known ==
  ASSUME OrderedInv
  PROVE  /\ StoreIInv /\ HeadTypeOK /\ LockInv /\ FlowInv /\ LinkInv /\ EmptyInv /\ BackInv
         /\ root \in past /\ root \in Root /\ nameD \subseteq objs
         /\ DiskInv /\ ProcInv /\ PromiseInv
  BY DEF OrderedInv, HeadInv, HeadTypeOK, StoreIInv, StoreTypeOK

LEMMA ToEnd ==
  ASSUME NEW p, Busy(p), At(p), hpc'[p] \in {"refused", "failed"},
         job'[p].op = job[p].op, job'[p].kind = job[p].kind, job'[p].items = job[p].items,
         job'[p].seen = job[p].seen
  PROVE  At(p)'
  BY DEF At, StartInv, StageInv, PublishInv, FinishInv

LEMMA HeadExists ==
  ASSUME OrderedInv, NEW p \in Procs, Busy(p), job[p].op # "init"
  PROVE  root.head # NoHead /\ (NoPending => Quiet)
<1>1. root.head # NoHead
  BY Known DEF EmptyInv
<1> QED BY <1>1, Known, QuietWithoutIntent, JournalFields DEF NoPending

LEMMA EmptyRoot ==
  ASSUME OrderedInv, root.head = NoHead
  PROVE  Empty /\ ~(promised.gen > 1)
<1>1. Empty
  BY Known DEF DiskInv, Quiet, Publishing
<1>2. \A h : ~(h.gen > 1 /\ h.gen \in Nat /\ Keeps(root, h))
  BY <1>1, JournalFields DEF Keeps, Empty, NoPending, NoHead
<1>3. promised.gen \in Nat
  BY Known DEF HeadTypeOK, HeadRec
<1> QED BY <1>1, <1>2, <1>3, Known DEF PromiseInv

(* Operations that begin, and those that end without success.              *)
LEMMA EnteredStep ==
  ASSUME OrderedInv, NEW p \in Procs, NEW op \in Ops, NEW kind, NEW items,
         Entered(p, op, kind, items), op # "recover" => NoPending,
         op = "store" => kind = "single" /\ Len(items) = 1, op = "batch" => kind = "batch"
  PROVE  DiskPart'
<1>1. At(p)'
  BY DEF Entered, Goes, At, StartInv, StageInv, PublishInv, FinishInv, NoPending, stateVars
<1> QED BY <1>1, FrameStep
        DEF Entered, Goes, stateVars, storeVars, diskVars, putVars

LEMMA OpenStep ==
  ASSUME OrderedInv, NEW p \in Procs,
         \/ Initialize(p) \/ Verify(p) \/ Recover(p)
         \/ \E id \in Ids \ Foreign : Store(p, id)
         \/ \E items \in Batches : StoreBatch(p, items)
  PROVE  DiskPart'
<1> USE Known
<1>1. CASE Initialize(p)
  BY <1>1, InitializeEffect, EnteredStep DEF Ops
<1>2. CASE Verify(p)
  BY <1>2, VerifyEffect, EnteredStep DEF Ops
<1>3. CASE Recover(p)
  BY <1>3, RecoverEffect, EnteredStep DEF Ops
<1>4. ASSUME NEW id \in Ids \ Foreign, Store(p, id) PROVE DiskPart'
  BY <1>4, StoreEffect, EnteredStep DEF Ops
<1>5. ASSUME NEW items \in Batches, StoreBatch(p, items) PROVE DiskPart'
  BY <1>5, StoreBatchEffect, EnteredStep DEF Ops
<1> QED BY <1>1, <1>2, <1>3, <1>4, <1>5

LEMMA LockStoreStep ==
  ASSUME OrderedInv, NEW p \in Procs, LockStore(p)
  PROVE  DiskPart'
<1>1. /\ hpc[p] = "lock" /\ Goes(p, {"inspect"}) /\ Stay
      /\ UNCHANGED <<stateVars, job, diskVars, putVars, recVars, acked>>
  BY Known, LockStoreEffect
<1>2. Busy(p) /\ At(p)
  BY <1>1, Known DEF Busy, ProcInv
<1>3. At(p)'
  BY <1>1, <1>2
  DEF Goes, At, StartInv, StageInv, PublishInv, FinishInv, NoPending, stateVars
<1> QED BY <1>1, <1>3, FrameStep DEF Goes, Stay, stateVars, diskVars, putVars

LEMMA EndStep ==
  ASSUME OrderedInv, NEW p \in Procs, Goes(p, {"refused", "failed"}), Busy(p), Others(p),
         UNCHANGED <<root, past, job, objs, nameD, acked, genesis, promised>>
  PROVE  DiskPart'
<1>1. At(p)
  BY Known DEF ProcInv
<1>2. At(p)'
  BY <1>1, ToEnd DEF Goes
<1> QED BY <1>2, FrameStep DEF Goes, Others

LEMMA FailStep ==
  ASSUME OrderedInv, NEW p \in Procs, HeadFail(p) \/ PutFailed(p)
  PROVE  DiskPart'
<1>1. CASE HeadFail(p)
  BY <1>1, Known, HeadFailEffect, EndStep
  DEF Goes, Stay, Others, stateVars, storeVars, diskVars, putVars
<1>2. CASE PutFailed(p)
  <2>1. Busy(p)
    BY <1>2, Known, PutFailedEffect DEF Busy
  <2> QED BY <1>2, <2>1, Known, PutFailedEffect, EndStep DEF Goes, Stay, stateVars
<1> QED BY <1>1, <1>2

LEMMA CrashStep ==
  ASSUME OrderedInv, NEW p \in Procs, HeadCrash(p)
  PROVE  DiskPart'
  BY Known, HeadCrashEffect, FrameStep DEF Goes, Others, stateVars, Busy

(* What a caller is given is what the whole disk leads to.                 *)
LEMMA PromiseHead ==
  ASSUME OrderedInv, Quiet, promised' = root.head,
         UNCHANGED <<root, past, objs, nameD, acked, genesis>>
  PROVE  PromiseInv'
<1>1. Anchored(root.head)
  BY Known DEF BackInv
<1>2. (promised' = root.head /\ Anchored(root.head)) => Anchored(promised)'
  BY DEF Anchored
<1>3. ASSUME NEW r \in past, root.head.gen > 1 PROVE Keeps(r, root.head)
  BY <1>3 DEF Quiet, Keeps, Ready, PendingOf
<1>4. ASSUME NEW r \in past, Keeps(r, root.head) PROVE Keeps(r, promised')
  BY <1>4
<1> QED BY <1>1, <1>2, <1>3, <1>4 DEF PromiseInv, Quiet, Keeps

LEMMA LoadStep ==
  ASSUME OrderedInv, NEW p \in Procs, Load(p)
  PROVE  DiskPart'
<1>1. /\ NoPending /\ root.head # NoHead
      /\ UNCHANGED <<storeVars, stateVars, stReaders, stWriter, jobVars, genesis>>
      /\ promised' = promised \/ promised' = root.head
  BY LoadEffect
<1>2. Quiet
  BY <1>1, Known, QuietWithoutIntent, JournalFields DEF NoPending
<1>3. UNCHANGED <<root, past, objs, nameD, acked, genesis, hpc, job, ph, target>>
  BY <1>1 DEF storeVars, diskVars, putVars, stateVars, jobVars
<1>4. Busy(p)' => At(p)'
  <2>1. Busy(p)' => At(p)
    BY <1>3, Known DEF Busy, ProcInv
  <2>2. (Empty' <=> Empty) /\ (Quiet' <=> Quiet) /\ (Publishing' <=> Publishing)
    BY <1>3, DiskFrame
  <2> QED BY <1>3, <2>1, <2>2
          DEF At, StartInv, StageInv, PublishInv, FinishInv, OwnJournal, JournalOf, NoPending
<1>5. ProcInv'
  BY <1>3, <1>4, ProcFrame
<1>6. PromiseInv'
  BY <1>1, <1>2, <1>3, PromiseHead, PromiseFrame
<1> QED BY <1>3, <1>5, <1>6, DiskFrame, Known DEF DiskPart

LEMMA ReturnStep ==
  ASSUME OrderedInv, NEW p \in Procs, Return(p)
  PROVE  DiskPart'
<1>1. /\ hpc[p] \in {"done", "refused", "failed"} /\ Goes(p, {"idle"})
      /\ UNCHANGED <<root, past, objs, nameD, acked, genesis, ph, target>>
      /\ \A q \in Procs \ {p} : job'[q] = job[q]
      /\ promised' = promised \/ (hpc[p] = "done" /\ promised' = job[p].next)
  BY Known, ReturnEffect DEF stateVars, diskVars, putVars
<1>2. hpc[p] = "done" => Quiet /\ job[p].next = root.head
  BY <1>1, Known DEF Busy, ProcInv, At, FinishInv
<1>3. ProcInv'
  BY <1>1, ProcFrame DEF Goes, Busy
<1>4. PromiseInv'
  BY <1>1, <1>2, PromiseHead, PromiseFrame
<1> QED BY <1>1, <1>3, <1>4, DiskFrame, Known DEF DiskPart

(* Steps that read the store and the state root and decide.                *)
LEMMA InitializeInspectStep ==
  ASSUME OrderedInv, NEW p \in Procs, InitializeInspect(p)
  PROVE  DiskPart'
<1>1. /\ hpc[p] = "inspect" /\ job[p].op = "init" /\ Goes(p, {"head", "refused"})
      /\ UNCHANGED <<root, past, objs, nameD, acked, promised, ph, target>>
      /\ SameBut(job', job, p)
      /\ hpc'[p] = "refused" => genesis' = genesis
      /\ hpc'[p] = "head" => job'[p].next = [gen |-> 1, inv |-> objs]
  BY Known, InitializeInspectEffect DEF storeVars, stateVars, diskVars, putVars
<1>2. Busy(p) /\ At(p) /\ Empty /\ ~(promised.gen > 1)
  BY <1>1, Known, EmptyRoot DEF Busy, ProcInv, EmptyInv
<1>3. At(p)'
  <2>1. CASE hpc'[p] = "refused"
    BY <1>1, <1>2, <2>1, ToEnd DEF SameBut
  <2>2. CASE hpc'[p] = "head"
    <3>1. Empty'
      BY <1>1, <1>2, DiskFrame
    <3> QED BY <1>1, <1>2, <2>2, <3>1
            DEF At, StartInv, StageInv, PublishInv, FinishInv, SameBut
  <2> QED BY <1>1, <2>1, <2>2 DEF Goes
<1>4. ProcInv'
  BY <1>1, <1>3, ProcFrame DEF Goes, SameBut
<1>5. PromiseInv'
  BY <1>1, <1>2 DEF PromiseInv
<1> QED BY <1>1, <1>4, <1>5, DiskFrame, Known DEF DiskPart

LEMMA VerifyInspectStep ==
  ASSUME OrderedInv, NEW p \in Procs, VerifyInspect(p) \/ RecoverNothing(p)
  PROVE  DiskPart'
<1>1. /\ hpc[p] = "inspect" /\ job[p].op \in {"verify", "recover"}
      /\ Goes(p, {"done", "refused"})
      /\ UNCHANGED <<root, past, objs, nameD, acked, genesis, promised, job, ph, target>>
      /\ hpc'[p] = "done" /\ job[p].op = "recover" => NoPending
  BY Known, VerifyInspectEffect, RecoverNothingEffect
  DEF storeVars, stateVars, diskVars, putVars, Stay
<1>2. Busy(p) /\ At(p)
  BY <1>1, Known DEF Busy, ProcInv
<1>3. hpc'[p] = "done" => Quiet /\ job[p].next = root.head
  BY <1>1, <1>2, HeadExists DEF At, StartInv
<1>4. At(p)'
  <2>1. CASE hpc'[p] = "refused"
    BY <1>1, <1>2, <2>1, ToEnd
  <2>2. CASE hpc'[p] = "done"
    <3>1. Quiet'
      BY <1>1, <1>3, <2>2, DiskFrame
    <3> QED BY <1>1, <1>2, <1>3, <2>2, <3>1
            DEF At, StartInv, StageInv, PublishInv, FinishInv
  <2> QED BY <1>1, <2>1, <2>2 DEF Goes
<1> QED BY <1>1, <1>4, FrameStep DEF Goes

LEMMA StoreInspectStep ==
  ASSUME OrderedInv, NEW p \in Procs, StoreInspect(p) \/ StoreBatchInspect(p)
  PROVE  DiskPart'
<1>1. /\ hpc[p] = "inspect" /\ job[p].op \in {"store", "batch"}
      /\ Goes(p, {"refused", "confirm", "create"})
      /\ UNCHANGED <<root, past, objs, nameD, acked, genesis, promised, ph, target>>
      /\ SameBut(job', job, p) /\ job'[p].next = job[p].next
      /\ hpc'[p] = "confirm" =>
           \/ job[p].op = "store" /\ job'[p].idx = 1 /\ job[p].items[1] \in objs
                /\ objs = job[p].prev.inv
           \/ job'[p].idx \in Preexisting(job[p])
           \/ job'[p].idx = Len(job[p].items) + 1
  BY Known, StoreInspectEffect, StoreBatchInspectEffect
  DEF storeVars, stateVars, diskVars, putVars, Stay, Goes
<1>2. Busy(p) /\ At(p) /\ job[p].items \in Batches
  BY <1>1, Known DEF Busy, ProcInv, FlowInv
<1>3. hpc'[p] = "confirm" =>
        job'[p].idx \in Preexisting(job[p]) \/ job'[p].idx > Len(job[p].items)
  <2>1. Len(job[p].items) \in Nat /\ DOMAIN job[p].items = 1..Len(job[p].items)
        /\ Len(job[p].items) >= 1
    BY <1>2, BatchFacts
  <2> QED BY <1>1, <2>1 DEF Preexisting
<1>4. At(p)'
  <2>1. CASE hpc'[p] = "refused"
    BY <1>1, <1>2, <2>1, ToEnd DEF SameBut
  <2>2. CASE hpc'[p] \in {"confirm", "create"}
    <3>1. Preexisting(job'[p]) = Preexisting(job[p])
      BY <1>1, SameMembers
    <3> QED BY <1>1, <1>2, <1>3, <2>2, <3>1
            DEF At, StartInv, StageInv, PublishInv, FinishInv, SameBut, NoPending
  <2> QED BY <1>1, <2>1, <2>2 DEF Goes
<1> QED BY <1>1, <1>4, FrameStep DEF Goes, SameBut

LEMMA ConfirmStep ==
  ASSUME OrderedInv, NEW p \in Procs, Confirm(p)
  PROVE  DiskPart'
<1>1. /\ hpc[p] = "confirm" /\ Goes(p, {"confirming", "done", "create"})
      /\ UNCHANGED <<root, past, objs, nameD, acked, genesis, promised, job>> /\ Others(p)
      /\ hpc'[p] = "confirming" => job[p].idx \in DOMAIN job[p].items
      /\ hpc'[p] = "confirming" => job[p].idx <= Len(job[p].items)
  BY Known, ConfirmEffect DEF stateVars, Stay, Goes
<1>2. Busy(p) /\ At(p) /\ job[p].op \in {"store", "batch"}
  BY <1>1, Known DEF Busy, ProcInv, FlowInv
<1>3. Quiet /\ job[p].next = root.head /\ job[p].prev = root.head /\ NoPending
  BY <1>1, <1>2, HeadExists DEF At, StartInv
<1>4. hpc'[p] = "confirming" => job[p].idx \in Preexisting(job[p])
  <2>1. job[p].items \in Batches /\ job[p].idx \in Nat
    BY <1>1, <1>2, Known DEF FlowInv, HeadTypeOK, JobRec
  <2> QED BY <1>1, <1>2, <2>1, BatchFacts DEF At, StartInv
<1>5. At(p)'
  <2>1. Quiet'
    BY <1>1, <1>3, DiskFrame
  <2> QED BY <1>1, <1>2, <1>3, <1>4, <2>1
          DEF Goes, At, StartInv, StageInv, PublishInv, FinishInv, NoPending
<1> QED BY <1>1, <1>5, FrameStep DEF Goes, Others

LEMMA ConfirmedStep ==
  ASSUME OrderedInv, NEW p \in Procs, Confirmed(p)
  PROVE  DiskPart'
<1>1. /\ hpc[p] = "confirming" /\ Goes(p, {"refused", "confirm"})
      /\ UNCHANGED <<root, past, objs, nameD, acked, genesis, promised>> /\ Others(p)
      /\ SameBut(job', job, p) /\ job'[p].next = job[p].next
      /\ job'[p].idx \in Preexisting(job[p]) \/ job'[p].idx = Len(job[p].items) + 1
  BY Known, ConfirmedEffect DEF stateVars, Stay, Goes
<1>2. Busy(p) /\ At(p) /\ job[p].op \in {"store", "batch"} /\ job[p].items \in Batches
  BY <1>1, Known DEF Busy, ProcInv, FlowInv
<1>3. job'[p].idx \in Preexisting(job'[p]) \/ job'[p].idx > Len(job'[p].items)
  <2>1. Len(job[p].items) \in Nat
    BY <1>2, BatchFacts
  <2>2. Preexisting(job'[p]) = Preexisting(job[p]) /\ job'[p].items = job[p].items
    BY <1>1, SameMembers DEF SameBut
  <2> QED BY <1>1, <2>1, <2>2
<1>4. At(p)'
  BY <1>1, <1>2, <1>3
  DEF Goes, SameBut, At, StartInv, StageInv, PublishInv, FinishInv, NoPending
<1> QED BY <1>1, <1>4, FrameStep DEF Goes, Others, SameBut

(* The journal and the stages: the store stands still.                     *)
LEMMA Alone ==
  ASSUME OrderedInv, NEW p \in Procs, Busy(p),
         hpc[p] \notin {"lock", "inspect", "done", "refused", "failed"}
  PROVE  \A q \in Procs \ {p} : ~Busy(q)
  BY Known, WriterAlone

(* A new state root that still has the head it had without an intent.      *)
LEMMA KeepsHead ==
  ASSUME NEW r, NEW s, NEW h, Keeps(r, h), s.head = r.head,
         r.single.st # "intent", r.batch.st # "intent"
  PROVE  Keeps(s, h)
  BY DEF Keeps

LEMMA JournalStep ==
  ASSUME OrderedInv, NEW p \in Procs, Busy(p),
         hpc[p] \notin {"lock", "inspect", "done", "refused", "failed"},
         Goes(p, {hpc'[p]}), \A q \in Procs \ {p} : job'[q] = job[q],
         UNCHANGED <<objs, nameD, acked, genesis, promised>>,
         past' \subseteq past \union {root'}, root'.head = root.head,
         Quiet, WellFormed(root'), At(p)',
         \A h : h.gen > 1 /\ Keeps(root, h) /\ h.inv \subseteq nameD => Keeps(root', h)
  PROVE  DiskPart'
<1>1. Quiet'
  BY Known, QuietStep
<1>2. ProcInv'
  BY Alone, ProcFrame DEF Goes
<1>3. PromiseInv'
  <2>1. PromiseInv /\ promised.gen > 1 => Keeps(root', promised)
    BY Known DEF PromiseInv
  <2> QED BY <2>1, PromiseFrame
<1> QED BY <1>1, <1>2, <1>3 DEF DiskPart, DiskInv

LEMMA CreatePendingStep ==
  ASSUME OrderedInv, NEW p \in Procs, CreatePending(p)
  PROVE  DiskPart'
<1>1. /\ hpc[p] = "create" /\ Goes(p, {"fill"})
      /\ UNCHANGED <<objs, nameD, acked, genesis, promised, job>>
      /\ past' = past \union {root'} /\ root'.head = root.head
      /\ job[p].kind = "single" => root'.single = TornJ /\ root'.batch = root.batch
      /\ job[p].kind = "batch" => root'.batch = TornJ /\ root'.single = root.single
      /\ job[p].kind \in {"single", "batch"}
  BY Known, CreatePendingEffect, KindFacts DEF Stay, storeVars, diskVars
<1>2. Busy(p) /\ At(p) /\ job[p].op \in {"store", "batch"}
  BY <1>1, Known DEF Busy, ProcInv, FlowInv
<1>3. Quiet /\ job[p].prev = root.head /\ NoPending
  BY <1>1, <1>2, HeadExists DEF At, StartInv
<1>4. /\ root'.single.st # "intent" /\ root'.batch.st # "intent"
      /\ job[p].kind = "single" => root'.batch = Absent
      /\ job[p].kind = "batch" => root'.single = Absent
  BY <1>1, <1>3, JournalFields DEF NoPending
<1>5. WellFormed(root')
  BY <1>1, <1>4, NoIntentWellFormed
<1>6. At(p)'
  BY <1>1, <1>2, <1>3, <1>4 DEF Goes, At, StartInv, StageInv, PublishInv, FinishInv
<1>7. root.single.st # "intent" /\ root.batch.st # "intent"
  BY <1>3, JournalFields DEF NoPending
<1>8. \A h : Keeps(root, h) => Keeps(root', h)
  BY <1>1, <1>7, KeepsHead
<1> QED BY <1>1, <1>2, <1>3, <1>5, <1>6, <1>8, JournalStep DEF Goes

LEMMA FillPendingFailsStep ==
  ASSUME OrderedInv, NEW p \in Procs, FillPendingFails(p)
  PROVE  DiskPart'
<1>1. /\ hpc[p] = "fill" /\ Goes(p, {"failed"}) /\ job[p].kind = "single"
      /\ UNCHANGED <<objs, nameD, acked, genesis, promised, job>>
      /\ past' = past \union {root'} /\ root'.head = root.head
      /\ root'.single = Absent /\ root'.batch = root.batch
  BY Known, FillPendingFailsEffect DEF Stay, storeVars, diskVars
<1>2. Busy(p) /\ At(p) /\ job[p].op \in {"store", "batch"}
  BY <1>1, Known DEF Busy, ProcInv, FlowInv
<1>3. /\ root.single.st # "intent" /\ root.batch.st # "intent" /\ root.batch = Absent
  BY <1>1, <1>2 DEF At, StartInv
<1>4. Quiet
  BY <1>2, <1>3, Known, HeadExists, QuietWithoutIntent
<1>5. WellFormed(root')
  BY <1>1, <1>3, JournalFields, NoIntentWellFormed
<1>6. At(p)'
  BY <1>1, <1>2, ToEnd DEF Goes
<1>7. \A h : Keeps(root, h) => Keeps(root', h)
  BY <1>1, <1>3, KeepsHead
<1> QED BY <1>1, <1>2, <1>4, <1>5, <1>6, <1>7, JournalStep DEF Goes

LEMMA FillPendingStep ==
  ASSUME OrderedInv, NEW p \in Procs, FillPending(p)
  PROVE  DiskPart'
<1>1. /\ hpc[p] = "fill" /\ Goes(p, {"syncIntent"})
      /\ UNCHANGED <<objs, nameD, acked, genesis, promised>>
      /\ past' = past \union {root'} /\ root'.head = root.head
      /\ SameBut(job', job, p) /\ job[p].kind \in {"single", "batch"}
      /\ job[p].kind = "single" =>
           root'.single = Intent(job[p].prev, job[p].items) /\ root'.batch = root.batch
      /\ job[p].kind = "batch" =>
           root'.batch = Intent(job[p].prev, job[p].items) /\ root'.single = root.single
  BY Known, FillPendingEffect, KindFacts DEF Stay, storeVars, diskVars
<1>2. /\ Busy(p) /\ At(p) /\ job[p].op \in {"store", "batch"}
      /\ job[p].items \in Batches /\ NewMembers(job[p]) # {}
  BY <1>1, Known DEF Busy, ProcInv, FlowInv
<1>3. /\ root.single.st # "intent" /\ root.batch.st # "intent" /\ job[p].prev = root.head
      /\ job[p].kind = "single" => root.batch = Absent /\ Len(job[p].items) = 1
      /\ job[p].kind = "batch" => root.single = Absent
  BY <1>1, <1>2 DEF At, StartInv
<1>4. Quiet /\ root.head # NoHead
  BY <1>2, <1>3, Known, HeadExists, QuietWithoutIntent
<1> DEFINE j == Intent(job[p].prev, job[p].items)
<1>5. j.st = "intent" /\ j.prev = job[p].prev /\ j.items = job[p].items
  BY JournalFields
<1>6. NewMembers(j) # {}
  BY <1>2, <1>5 DEF NewMembers, Preexisting
<1> HIDE DEF j
<1>7. /\ PendingOf(root') = j
      /\ root'.single = Absent \/ root'.batch = Absent
      /\ root'.single.st = "intent" => Len(root'.single.items) = 1
  BY <1>1, <1>3, <1>5, JournalFields DEF PendingOf, j
<1>8. WellFormed(root')
  BY <1>1, <1>2, <1>3, <1>4, <1>5, <1>6, <1>7 DEF WellFormed
<1>9. \A h : Keeps(root, h) => Keeps(root', h)
  BY <1>1, <1>3, KeepsHead
<1>10. Quiet'
  BY <1>1, <1>4, <1>8, Known, QuietStep
<1>11. At(p)'
  <2>1. OwnJournal(p)'
    BY <1>1, <1>3 DEF OwnJournal, JournalOf, SameBut
  <2> QED BY <1>1, <1>2, <1>3, <1>10, <2>1
          DEF Goes, SameBut, At, StartInv, StageInv, PublishInv, FinishInv
<1> QED BY <1>1, <1>2, <1>4, <1>8, <1>9, <1>11, JournalStep DEF Goes, SameBut

(* Publication begins: the journal and the stages are durable.             *)
LEMMA OwnPending ==
  ASSUME NEW p, OwnJournal(p), job[p].kind \in {"single", "batch"}
  PROVE  LET j == PendingOf(root) IN
         /\ j.st = "intent" /\ j.prev = job[p].prev /\ j.items = job[p].items
         /\ NewMembers(j) = NewMembers(job[p])
         /\ root.single.st = "intent" <=> job[p].kind = "single"
<1>1. LET j == PendingOf(root) IN
      /\ j.st = "intent" /\ j.prev = job[p].prev /\ j.items = job[p].items
      /\ root.single.st = "intent" <=> job[p].kind = "single"
  BY JournalFields DEF OwnJournal, JournalOf, PendingOf
<1> QED BY <1>1 DEF NewMembers, Preexisting

LEMMA BeginPublishing ==
  ASSUME OrderedInv, NEW p \in Procs, Quiet, OwnJournal(p), job[p].prev = root.head,
         job[p].items \in Batches, job[p].kind \in {"single", "batch"},
         job[p].kind = "batch" => \A i \in DOMAIN job[p].items : root.stage[i] = job[p].items[i],
         UNCHANGED <<root, objs, nameD>>, past' = {root}
  PROVE  Publishing'
<1> DEFINE j == PendingOf(root)
<1>1. /\ j.st = "intent" /\ j.prev = job[p].prev /\ j.items = job[p].items
      /\ root.single.st = "intent" <=> job[p].kind = "single"
  BY OwnPending
<1>2. WellFormed(root) /\ objs = root.head.inv /\ nameD = objs /\ root.head # NoHead
  BY Known DEF Quiet
<1>3. Ready(root)
  BY <1>1 DEF Ready
<1>4. After(j.prev, j.items, 0) = objs /\ Len(j.items) \in Nat /\ j.items[1] \in Ids
  <2>1. root.head \in HeadRec
    BY Known DEF Root
  <2> QED BY <1>1, <1>2, <2>1, AfterFacts, BatchFacts
<1>5. 0 \in 0..Len(j.items)
  BY <1>4
<1>6. PendingOf(root') = j /\ Ready(root') /\ WellFormed(root')
  BY <1>2, <1>3
<1> HIDE DEF j
<1> QED BY <1>2, <1>4, <1>5, <1>6 DEF Publishing

LEMMA SyncPendingStep ==
  ASSUME OrderedInv, NEW p \in Procs, SyncPending(p)
  PROVE  DiskPart'
<1>1. /\ hpc[p] = "syncIntent" /\ Goes(p, {IF job[p].kind = "single" THEN "put" ELSE "stage"})
      /\ UNCHANGED <<root, objs, nameD, acked, genesis, promised>> /\ past' = {root}
      /\ SameBut(job', job, p) /\ job'[p].next = job[p].next /\ job'[p].idx = 1
      /\ job[p].kind \in {"single", "batch"}
  BY Known, SyncPendingEffect, KindFacts DEF Stay, storeVars, diskVars
<1>2. /\ Busy(p) /\ At(p) /\ job[p].op \in {"store", "batch"}
      /\ job[p].items \in Batches /\ NewMembers(job[p]) # {}
  BY <1>1, Known DEF Busy, ProcInv, FlowInv
<1>3. Quiet /\ OwnJournal(p) /\ job[p].prev = root.head /\ job[p].seen = 0
  BY <1>1, <1>2 DEF At, StageInv, StartInv
<1>4. /\ WellFormed(root) /\ objs = root.head.inv /\ nameD = objs
      /\ root \in past /\ root.head \in HeadRec
  BY <1>3, Known DEF Quiet, Root
<1>5. OwnJournal(p)'
  BY <1>1, <1>3 DEF OwnJournal, JournalOf, SameBut
<1>6. Len(job[p].items) \in Nat /\ Len(job[p].items) >= 1
  BY <1>2, BatchFacts
<1>7. ProcInv' /\ DiskInv'
  <2>1. CASE job[p].kind = "single"
    <3>1. Publishing'
      BY <1>1, <1>2, <1>3, <2>1, BeginPublishing
    <3>2. Reached(job'[p], 0) = objs
      <4>1. job'[p].seen = 0 /\ job'[p].prev = root.head /\ job'[p].items = job[p].items
        BY <1>1, <1>3 DEF SameBut
      <4> QED BY <1>2, <1>4, <4>1, ReachedFacts, AfterFacts
    <3>3. At(p)'
      BY <1>1, <1>2, <1>3, <1>4, <1>5, <1>6, <2>1, <3>1, <3>2
      DEF Goes, SameBut, At, StartInv, StageInv, PublishInv, FinishInv
    <3> QED BY <1>1, <1>2, <3>1, <3>3, Alone, ProcFrame DEF Goes, SameBut, DiskInv
  <2>2. CASE job[p].kind = "batch"
    <3>1. Quiet'
      BY <1>1, <1>3, <1>4, Known, QuietStep
    <3>2. At(p)'
      BY <1>1, <1>2, <1>3, <1>5, <1>6, <2>2, <3>1
      DEF Goes, SameBut, At, StartInv, StageInv, PublishInv, FinishInv
    <3> QED BY <1>1, <1>2, <3>1, <3>2, Alone, ProcFrame DEF Goes, SameBut, DiskInv
  <2> QED BY <1>1, <2>1, <2>2
<1>8. PromiseInv'
  BY <1>1, <1>4, PromiseFrame
<1> QED BY <1>7, <1>8 DEF DiskPart

LEMMA StageFacts ==
  ASSUME OrderedInv, NEW p \in Procs, hpc[p] \in {"stage", "stageFill"}
  PROVE  /\ Busy(p) /\ At(p) /\ job[p].op \in {"store", "batch"}
         /\ job[p].items \in Batches /\ NewMembers(job[p]) # {}
         /\ Quiet /\ OwnJournal(p) /\ job[p].prev = root.head /\ job[p].seen = 0
         /\ job[p].kind = "batch" /\ job[p].idx \in 1..(Len(job[p].items) + 1)
         /\ \A i \in 1..(job[p].idx - 1) : root.stage[i] = job[p].items[i]
         /\ hpc[p] = "stageFill" => job[p].idx <= Len(job[p].items)
         /\ Len(job[p].items) \in 1..MaxBatch /\ DOMAIN job[p].items = 1..Len(job[p].items)
         /\ WellFormed(root) /\ objs = root.head.inv /\ nameD = objs /\ root.head \in HeadRec
<1>1. /\ Busy(p) /\ At(p) /\ job[p].op \in {"store", "batch"}
      /\ job[p].items \in Batches /\ NewMembers(job[p]) # {}
  BY Known DEF Busy, ProcInv, FlowInv
<1>2. /\ Quiet /\ OwnJournal(p) /\ job[p].prev = root.head /\ job[p].seen = 0
      /\ job[p].kind = "batch" /\ job[p].idx \in 1..(Len(job[p].items) + 1)
      /\ \A i \in 1..(job[p].idx - 1) : root.stage[i] = job[p].items[i]
      /\ hpc[p] = "stageFill" => job[p].idx <= Len(job[p].items)
  BY <1>1 DEF At, StageInv, StartInv
<1>3. WellFormed(root) /\ objs = root.head.inv /\ nameD = objs /\ root.head \in HeadRec
  BY <1>2, Known DEF Quiet, Root
<1> QED BY <1>1, <1>2, <1>3, BatchFacts

(* Writing a stage changes neither head nor journal.                       *)
LEMMA StagedRoot ==
  ASSUME OrderedInv, NEW p \in Procs, Busy(p),
         hpc[p] \in {"stage", "stageFill", "unstage"},
         Goes(p, {hpc'[p]}), \A q \in Procs \ {p} : job'[q] = job[q],
         UNCHANGED <<objs, nameD, acked, genesis, promised>>,
         past' \subseteq past \union {root'}, root'.head = root.head,
         root'.single = root.single, root'.batch = root.batch, Quiet, Quiet' => At(p)'
  PROVE  DiskPart'
<1>1. WellFormed(root')
  BY Known, SameRecords DEF Quiet
<1>2. Quiet'
  BY <1>1, Known, QuietStep
<1>3. \A h : Keeps(root, h) => Keeps(root', h)
  BY SameRecords
<1> QED BY <1>1, <1>2, <1>3, JournalStep

LEMMA CreateStageStep ==
  ASSUME OrderedInv, NEW p \in Procs, CreateStage(p)
  PROVE  DiskPart'
<1>1. /\ hpc[p] = "stage" /\ UNCHANGED <<objs, nameD, acked, genesis, promised>>
      /\ root'.head = root.head /\ root'.single = root.single /\ root'.batch = root.batch
  BY Known, CreateStageEffect DEF Stay, storeVars, diskVars
<1>2. /\ Busy(p) /\ At(p) /\ job[p].op \in {"store", "batch"}
      /\ job[p].items \in Batches /\ NewMembers(job[p]) # {}
      /\ Quiet /\ OwnJournal(p) /\ job[p].prev = root.head /\ job[p].seen = 0
      /\ job[p].kind = "batch" /\ job[p].idx \in 1..(Len(job[p].items) + 1)
      /\ \A i \in 1..(job[p].idx - 1) : root.stage[i] = job[p].items[i]
      /\ Len(job[p].items) \in 1..MaxBatch /\ DOMAIN job[p].items = 1..Len(job[p].items)
      /\ WellFormed(root) /\ objs = root.head.inv /\ nameD = objs /\ root.head \in HeadRec
  BY <1>1, StageFacts
<1>3. CASE /\ Goes(p, {"stageFill"}) /\ job' = job /\ past' = past \union {root'}
           /\ job[p].idx <= Len(job[p].items)
           /\ \A k \in 1..MaxBatch :
                root'.stage[k] = IF k = job[p].idx THEN "torn" ELSE root.stage[k]
  <2>1. \A i \in 1..(job[p].idx - 1) : root'.stage[i] = job[p].items[i]
    BY <1>2, <1>3, HeadAssumption
  <2>2. OwnJournal(p)'
    BY <1>1, <1>2, <1>3 DEF OwnJournal, JournalOf
  <2>3. Quiet' => At(p)'
    BY <1>1, <1>2, <1>3, <2>1, <2>2
    DEF Goes, At, StartInv, StageInv, PublishInv, FinishInv
  <2> QED BY <1>1, <1>2, <1>3, <2>3, StagedRoot DEF Goes
<1>4. CASE /\ Goes(p, {"put"}) /\ UNCHANGED root /\ past' = {root}
           /\ job[p].idx > Len(job[p].items)
           /\ SameBut(job', job, p)
           /\ \/ job'[p].idx \in NewMembers(job[p]) /\ job'[p].idx >= 1
              \/ job'[p].idx = Len(job[p].items) + 1
           /\ \A i \in NewMembers(job[p]) : i >= 1 => job'[p].idx <= i
  <2>1. \A i \in DOMAIN job[p].items : root.stage[i] = job[p].items[i]
    BY <1>2, <1>4
  <2>2. Publishing'
    BY <1>1, <1>2, <1>4, <2>1, BeginPublishing
  <2>3. OwnJournal(p)'
    BY <1>2, <1>4 DEF OwnJournal, JournalOf, SameBut
  <2>4. Reached(job'[p], job'[p].idx - 1) = objs
    <3>1. /\ job'[p].seen = 0 /\ job'[p].prev = root.head /\ job'[p].items = job[p].items
          /\ job'[p].idx \in 1..(Len(job[p].items) + 1)
      BY <1>2, <1>4, MemberSets DEF SameBut
    <3>2. \A i \in 1..(job'[p].idx - 1) : job[p].items[i] \in job[p].prev.inv
      <4>1. \A i \in 1..(job'[p].idx - 1) : i \in 1..Len(job[p].items) /\ i \notin NewMembers(job[p])
        BY <1>2, <1>4, <3>1
      <4> QED BY <1>2, <4>1, MemberSets
    <3>3. job'[p].idx - 1 \in Nat /\ job'[p].idx - 1 >= 0
      BY <1>2, <3>1
    <3>4. After(root.head, job[p].items, job'[p].idx - 1) = After(root.head, job[p].items, 0)
      BY <1>2, <3>2, <3>3, AfterFacts
    <3> QED BY <1>2, <3>1, <3>3, <3>4, ReachedFacts, AfterFacts
  <2>5. At(p)'
    BY <1>1, <1>2, <1>4, <2>2, <2>3, <2>4
    DEF Goes, SameBut, At, StartInv, StageInv, PublishInv, FinishInv
  <2>6. ProcInv'
    BY <1>1, <1>2, <1>4, <2>5, Alone, ProcFrame DEF Goes, SameBut
  <2>7. PromiseInv'
    BY <1>1, <1>4, Known, PromiseFrame
  <2> QED BY <2>2, <2>6, <2>7 DEF DiskPart, DiskInv
<1> QED BY <1>3, <1>4, Known, CreateStageEffect

LEMMA FillStageStep ==
  ASSUME OrderedInv, NEW p \in Procs, FillStage(p)
  PROVE  DiskPart'
<1>1. /\ hpc[p] = "stageFill" /\ Goes(p, {"stage"})
      /\ UNCHANGED <<objs, nameD, acked, genesis, promised>>
      /\ root'.head = root.head /\ root'.single = root.single /\ root'.batch = root.batch
      /\ past' = past \union {root'}
      /\ \A k \in 1..MaxBatch :
           root'.stage[k] = IF k = job[p].idx THEN job[p].items[k] ELSE root.stage[k]
      /\ SameBut(job', job, p) /\ job'[p].next = job[p].next /\ job'[p].idx = job[p].idx + 1
  BY Known, FillStageEffect DEF Stay, storeVars, diskVars
<1>2. /\ Busy(p) /\ At(p) /\ job[p].op \in {"store", "batch"}
      /\ Quiet /\ OwnJournal(p) /\ job[p].prev = root.head
      /\ job[p].kind = "batch" /\ job[p].idx \in 1..(Len(job[p].items) + 1)
      /\ \A i \in 1..(job[p].idx - 1) : root.stage[i] = job[p].items[i]
      /\ job[p].idx <= Len(job[p].items) /\ Len(job[p].items) \in 1..MaxBatch
  BY <1>1, StageFacts
<1>3. \A i \in 1..job[p].idx : root'.stage[i] = job[p].items[i]
  BY <1>1, <1>2, HeadAssumption, SMTT(30)
<1>4. /\ job'[p].idx \in 1..(Len(job[p].items) + 1)
      /\ \A i \in 1..(job'[p].idx - 1) : root'.stage[i] = job[p].items[i]
  BY <1>1, <1>2, <1>3
<1>5. OwnJournal(p)'
  BY <1>1, <1>2 DEF OwnJournal, JournalOf, SameBut
<1>6. Quiet' => At(p)'
  BY <1>1, <1>2, <1>4, <1>5
  DEF Goes, SameBut, At, StartInv, StageInv, PublishInv, FinishInv
<1> QED BY <1>1, <1>2, <1>6, StagedRoot DEF Goes, SameBut

(* The head is written and the journal removed.                            *)
LEMMA WriteStateStep ==
  ASSUME OrderedInv, NEW p \in Procs, WriteState(p)
  PROVE  DiskPart'
<1>1. /\ hpc[p] = "head" /\ Goes(p, {"syncHead"})
      /\ UNCHANGED <<objs, nameD, acked, genesis, promised, job>>
      /\ past' = past \union {root'} /\ root'.head = job[p].next
      /\ root'.single = root.single /\ root'.batch = root.batch
  BY Known, WriteStateEffect DEF Stay, storeVars, diskVars
<1>2. Busy(p) /\ At(p) /\ job[p].kind \in {"single", "batch"}
  BY <1>1, Known, KindFacts DEF Busy, ProcInv
<1>3. At(p)' /\ Quiet' => ProcInv'
  BY <1>1, <1>2, Alone, ProcFrame DEF Goes
<1>4. Quiet' => At(p)'
  BY <1>1, <1>2 DEF Goes, At, StartInv, StageInv, PublishInv, FinishInv
<1>5. CASE job[p].op = "init"
  <2>1. Empty /\ job[p].next = [gen |-> 1, inv |-> objs]
    BY <1>1, <1>2, <1>5 DEF At, FinishInv
  <2>2. ~(promised.gen > 1)
    BY <2>1, EmptyRoot DEF Empty
  <2>3. /\ past' = {root, root'} /\ root'.head = [gen |-> 1, inv |-> objs]
        /\ root.single = Absent /\ root.batch = Absent /\ root.head = NoHead /\ nameD = objs
    BY <1>1, <2>1 DEF Empty, NoPending
  <2>4. WellFormed(root) /\ WellFormed(root')
    BY <1>1, <2>3, JournalFields, NoIntentWellFormed
  <2>5. root'.head # NoHead /\ root'.head.inv = objs /\ root'.head.gen = 1
    BY <2>3 DEF NoHead
  <2>6. Quiet'
    BY <1>1, <2>3, <2>4, <2>5 DEF Quiet
  <2>7. PromiseInv'
    BY <1>1, <2>2 DEF PromiseInv
  <2> QED BY <1>3, <1>4, <2>6, <2>7 DEF DiskPart, DiskInv
<1>6. CASE job[p].op # "init"
  <2>1. Publishing /\ OwnJournal(p) /\ nameD = objs /\ objs = job[p].next.inv
    BY <1>1, <1>2, <1>6 DEF At, FinishInv
  <2>2. job[p].next = Successor(job[p].prev, job[p].items)
    BY <1>1, <1>2, <1>6, Known DEF FlowInv
  <2> DEFINE j == PendingOf(root)
  <2>3. /\ j.st = "intent" /\ j.prev = job[p].prev /\ j.items = job[p].items
    BY <1>2, <2>1, OwnPending
  <2>4. /\ WellFormed(root) /\ Ready(root) /\ root.head = j.prev
        /\ \A r \in past : /\ WellFormed(r) /\ Ready(r) /\ PendingOf(r) = j
    BY <2>1, Known DEF Publishing, Ready, PendingOf
  <2>5. job[p].prev \in HeadRec /\ job[p].items \in Batches
    BY <2>3, <2>4, Known DEF WellFormed, HeadTypeOK, JobRec
  <2>6. PendingOf(root') = j
    BY <1>1 DEF PendingOf
  <2>7. root'.head # NoHead /\ root'.head.gen = root.head.gen + 1 /\ root.head.gen \in Nat
    BY <1>1, <2>2, <2>3, <2>4, <2>5, SuccessorFacts
  <2> HIDE DEF j
  <2>8. WellFormed(root')
    BY <1>1, <2>2, <2>3, <2>4, <2>6 DEF WellFormed, j
  <2>9. Quiet'
    <3>1. ASSUME NEW r \in past
          PROVE  WellFormed(r) /\ Ready(r) /\ Successor(PendingOf(r).prev, PendingOf(r).items) = root'.head
      BY <1>1, <2>2, <2>3, <2>4
    <3> QED BY <1>1, <2>1, <2>7, <2>8, <3>1 DEF Quiet
  <2>10. ASSUME promised.gen > 1 PROVE Keeps(root', promised)
    <3>1. Keeps(root, promised) /\ promised.gen \in Nat
      BY <2>10, Known DEF PromiseInv, HeadTypeOK, HeadRec
    <3>2. CASE root.head.gen > promised.gen \/ root.head = promised
      BY <2>7, <3>1, <3>2 DEF Keeps
    <3>3. ASSUME NEW i \in {root.single, root.batch}, i.st = "intent", root.head = i.prev,
                 Successor(i.prev, i.items) = promised
          PROVE  Keeps(root', promised)
      <4>1. i = j
        BY <2>4, <3>3, JournalFields DEF j, PendingOf, WellFormed
      <4> QED BY <1>1, <2>2, <2>3, <3>3, <4>1 DEF Keeps
    <3> QED BY <3>1, <3>2, <3>3 DEF Keeps
  <2>11. PromiseInv'
    BY <1>1, <2>10, PromiseFrame
  <2> QED BY <1>3, <1>4, <2>9, <2>11 DEF DiskPart, DiskInv
<1> QED BY <1>5, <1>6

LEMMA FinishFacts ==
  ASSUME OrderedInv, NEW p \in Procs, hpc[p] \in {"syncHead", "unstage", "clear", "syncClear"}
  PROVE  /\ Busy(p) /\ At(p) /\ Quiet /\ job[p].next = root.head
         /\ WellFormed(root) /\ objs = root.head.inv /\ nameD = objs
<1>1. Busy(p) /\ At(p)
  BY Known DEF Busy, ProcInv
<1>2. Quiet /\ job[p].next = root.head
  BY <1>1 DEF At, FinishInv
<1> QED BY <1>1, <1>2, Known DEF Quiet

LEMMA SyncFinishStep ==
  ASSUME OrderedInv, NEW p \in Procs, SyncState(p) \/ SyncCleared(p)
  PROVE  DiskPart'
<1>1. /\ hpc[p] \in {"syncHead", "syncClear"} /\ Goes(p, {"done", "clear", "unstage"})
      /\ UNCHANGED <<root, objs, nameD, acked, genesis, promised>> /\ past' = {root}
      /\ SameBut(job', job, p) /\ job'[p].next = job[p].next
  <2>1. CASE SyncState(p)
    BY <2>1, Known, SyncStateEffect DEF Stay, storeVars, diskVars
  <2>2. CASE SyncCleared(p)
    BY <2>2, Known, SyncClearedEffect DEF Stay, storeVars, diskVars, Goes, SameBut, HeadTypeOK
  <2> QED BY <2>1, <2>2
<1>2. Busy(p) /\ At(p) /\ Quiet /\ job[p].next = root.head /\ WellFormed(root)
  BY <1>1, FinishFacts
<1>3. Quiet'
  BY <1>1, <1>2, Known, QuietStep
<1>4. At(p)'
  BY <1>1, <1>2, <1>3 DEF Goes, SameBut, At, StartInv, StageInv, PublishInv, FinishInv
<1>5. \A h : Keeps(root, h) => Keeps(root', h)
  BY <1>1
<1> QED BY <1>1, <1>2, <1>4, <1>5, JournalStep DEF Goes, SameBut

LEMMA ClearStageStep ==
  ASSUME OrderedInv, NEW p \in Procs, ClearStage(p)
  PROVE  DiskPart'
<1>1. /\ hpc[p] = "unstage" /\ Goes(p, {"unstage", "clear"})
      /\ UNCHANGED <<objs, nameD, acked, genesis, promised>>
      /\ root'.head = root.head /\ root'.single = root.single /\ root'.batch = root.batch
      /\ past' \subseteq past \union {root'}
      /\ SameBut(job', job, p) /\ job'[p].next = job[p].next
  BY Known, ClearStageEffect DEF Stay, storeVars, diskVars
<1>2. Busy(p) /\ At(p) /\ Quiet /\ job[p].next = root.head
  BY <1>1, FinishFacts
<1>3. Quiet' => At(p)'
  BY <1>1, <1>2 DEF Goes, SameBut, At, StartInv, StageInv, PublishInv, FinishInv
<1> QED BY <1>1, <1>2, <1>3, StagedRoot DEF Goes, SameBut

(* A journal is removed only when the head it leads to is not promised:    *)
(* a promised head's members are in the store, and the journal had some    *)
(* that the head does not.                                                 *)
LEMMA ClearPendingStep ==
  ASSUME OrderedInv, NEW p \in Procs, ClearPending(p)
  PROVE  DiskPart'
<1>1. /\ hpc[p] = "clear" /\ Goes(p, {"syncClear"})
      /\ UNCHANGED <<objs, nameD, acked, genesis, promised, job>>
      /\ past' = past \union {root'} /\ root'.head = root.head
      /\ \/ root'.single = Absent /\ root'.batch = root.batch
         \/ root'.batch = Absent /\ root'.single = root.single
  BY Known, ClearPendingEffect DEF Stay, storeVars, diskVars
<1>2. /\ Busy(p) /\ At(p) /\ Quiet /\ job[p].next = root.head
      /\ WellFormed(root) /\ objs = root.head.inv /\ nameD = objs
  BY <1>1, FinishFacts
<1>3. \/ root'.single = root.single /\ root'.batch = root.batch
      \/ root'.single.st # "intent" /\ root'.batch.st # "intent"
  BY <1>1, <1>2, JournalFields DEF WellFormed
<1>4. WellFormed(root')
  BY <1>1, <1>2, <1>3, SameRecords, NoIntentWellFormed
<1>5. ASSUME NEW h, h.gen > 1, Keeps(root, h), h.inv \subseteq nameD PROVE Keeps(root', h)
  <2>1. CASE root.head.gen > h.gen \/ root.head = h
    BY <1>1, <2>1 DEF Keeps
  <2>2. ASSUME NEW j \in {root.single, root.batch}, j.st = "intent", root.head = j.prev,
               Successor(j.prev, j.items) = h
        PROVE  FALSE
    <3>1. j.items \in Batches /\ NewMembers(j) # {} /\ j.prev \in HeadRec
      BY <1>2, <2>2, JournalFields, Known DEF WellFormed, PendingOf, Root
    <3>2. PICK i \in NewMembers(j) : TRUE
      BY <3>1
    <3>3. i \in DOMAIN j.items /\ j.items[i] \notin j.prev.inv
      BY DEF NewMembers, Preexisting
    <3>4. j.items[i] \in h.inv
      BY <2>2, <3>1, <3>3, SuccessorFacts
    <3> QED BY <1>2, <1>5, <2>2, <3>3, <3>4
  <2> QED BY <1>5, <2>1, <2>2 DEF Keeps
<1>6. Quiet'
  BY <1>1, <1>2, <1>4, Known, QuietStep
<1>7. At(p)'
  BY <1>1, <1>2, <1>6 DEF Goes, At, StartInv, StageInv, PublishInv, FinishInv
<1> QED BY <1>1, <1>2, <1>4, <1>5, <1>7, JournalStep DEF Goes

(* The members are published, by the operation or by the replay.           *)
LEMMA PuttingFacts ==
  ASSUME OrderedInv, NEW p \in Procs, hpc[p] \in {"put", "putting"}
  PROVE  /\ Busy(p) /\ At(p) /\ Publishing /\ OwnJournal(p)
         /\ job[p].items \in Batches /\ job[p].prev \in HeadRec
         /\ job[p].idx \in 1..Len(job[p].items) /\ Len(job[p].items) \in Nat
         /\ DOMAIN job[p].items = 1..Len(job[p].items)
         /\ job[p].seen \in Nat /\ job[p].seen <= Len(job[p].items)
         /\ job[p].op \notin {"init", "verify"}
         /\ job[p].next = Successor(job[p].prev, job[p].items)
         /\ job[p].kind \in {"single", "batch"}
<1>1. Busy(p) /\ At(p) /\ job[p].kind \in {"single", "batch"}
  BY Known, KindFacts DEF Busy, ProcInv
<1>2. Publishing /\ OwnJournal(p) /\ job[p].seen <= Len(job[p].items)
  BY <1>1 DEF At, PublishInv
<1>3. /\ job[p].items \in Batches /\ job[p].idx \in DOMAIN job[p].items
      /\ job[p].op \notin {"init", "verify"}
      /\ job[p].next = Successor(job[p].prev, job[p].items)
  BY <1>1, Known DEF FlowInv, Writing
<1>4. job[p].prev \in HeadRec /\ job[p].seen \in Nat
  BY Known DEF HeadTypeOK, JobRec
<1> QED BY <1>1, <1>2, <1>3, <1>4, BatchFacts

LEMMA PutMemberStep ==
  ASSUME OrderedInv, NEW p \in Procs, PutMember(p)
  PROVE  DiskPart'
<1>1. /\ hpc[p] = "put" /\ Goes(p, {"putting"})
      /\ UNCHANGED <<root, past, objs, nameD, acked, genesis, promised, job>> /\ Others(p)
      /\ ph'[p] = "check"
  BY Known, PutMemberEffect DEF stateVars, Stay
<1>2. Busy(p) /\ At(p) /\ Publishing /\ OwnJournal(p)
  BY <1>1, PuttingFacts
<1>3. Publishing' /\ OwnJournal(p)'
  BY <1>1, <1>2, DiskFrame DEF OwnJournal, JournalOf
<1>4. At(p)'
  BY <1>1, <1>2, <1>3 DEF Goes, At, StartInv, StageInv, PublishInv, FinishInv, Reached
<1> QED BY <1>1, <1>4, FrameStep DEF Goes, Others

LEMMA MemberDoneStep ==
  ASSUME OrderedInv, NEW p \in Procs, MemberDone(p)
  PROVE  DiskPart'
<1>1. /\ hpc[p] = "putting" /\ ph[p] = "ok" /\ Goes(p, {"refused", "head", "put"})
      /\ UNCHANGED <<root, past, objs, nameD, acked, genesis, promised>> /\ Others(p)
      /\ SameBut(job', job, p) /\ job'[p].next = job[p].next
      /\ hpc'[p] # "refused" => objs = After(job[p].prev, job[p].items, job[p].idx)
  BY Known, MemberDoneEffect DEF stateVars, Stay
<1> DEFINE A(k) == After(job[p].prev, job[p].items, k)
           n == job'[p].idx
           i0 == job[p].idx
           L == Len(job[p].items)
           s == job[p].seen
<1>2. /\ (n \in NewMembers(job[p]) /\ n >= i0 + 1) \/ n = L + 1
      /\ \A i \in NewMembers(job[p]) : i >= i0 + 1 => n <= i
      /\ hpc'[p] = "head" => n > L
  BY Known, MemberDoneEffect
<1>3. /\ Busy(p) /\ At(p) /\ Publishing /\ OwnJournal(p)
      /\ job[p].items \in Batches /\ job[p].prev \in HeadRec
      /\ i0 \in 1..L /\ L \in Nat /\ DOMAIN job[p].items = 1..L /\ s \in Nat /\ s <= L
      /\ job[p].op \notin {"init", "verify"}
      /\ job[p].next = Successor(job[p].prev, job[p].items)
  BY <1>1, PuttingFacts
<1>4. /\ NewMembers(job[p]) \subseteq 1..L
      /\ \A i \in 1..L : i \notin NewMembers(job[p]) => job[p].items[i] \in job[p].prev.inv
  BY <1>3, MemberSets
<1>5. /\ A(L) = job[p].next.inv
      /\ \A k \in Nat : \A l \in Nat : k <= l => A(k) \subseteq A(l)
  BY <1>3, AfterFacts
<1>6. \A k \in Nat : \A l \in Nat :
        k <= l /\ (\A i \in 1..l : i > k => job[p].items[i] \in job[p].prev.inv) => A(l) = A(k)
  BY <1>3, AfterFacts
<1>7. \A k \in Nat : /\ k >= s => Reached(job[p], k) = A(k)
                     /\ k <= s => Reached(job[p], k) = A(s)
  BY <1>3, ReachedFacts
<1>8. nameD = objs /\ (objs = Reached(job[p], i0 - 1) \/ objs = Reached(job[p], i0))
  BY <1>1, <1>3 DEF At, PublishInv
<1>9. hpc'[p] # "refused" => objs = A(i0)
  BY <1>1
<1> HIDE DEF A, n, i0, L, s
<1>10. /\ n \in 1..(L + 1) /\ n - 1 \in Nat /\ i0 <= n - 1
      /\ n - 1 <= L /\ i0 \in Nat /\ i0 - 1 \in Nat
  BY <1>2, <1>3, <1>4
<1>11. \A i \in 1..(n - 1) : i > i0 => job[p].items[i] \in job[p].prev.inv
  <2>1. \A i \in 1..(n - 1) : i > i0 => i \in 1..L /\ i \notin NewMembers(job[p])
    BY <1>2, <1>3, <1>10
  <2> QED BY <1>4, <2>1
<1>12. A(n - 1) = A(i0)
  BY <1>6, <1>10, <1>11
<1>13. hpc'[p] # "refused" => objs = Reached(job[p], n - 1)
  <2>1. A(s) \subseteq objs
    <3>1. \A k \in Nat : A(s) \subseteq Reached(job[p], k)
      BY <1>5, <1>7, <1>3
    <3> QED BY <1>10, <1>8, <3>1
  <2>2. CASE s <= n - 1
    BY <1>9, <1>7, <1>10, <1>12, <2>2
  <2>3. CASE ~(s <= n - 1)
    <3>1. A(i0) \subseteq A(s)
      BY <1>5, <1>3, <1>10, <2>3
    <3>2. Reached(job[p], n - 1) = A(s)
      BY <1>7, <1>3, <1>10, <2>3
    <3>3. hpc'[p] # "refused" => A(s) \subseteq objs /\ objs \subseteq A(s)
      BY <1>9, <2>1, <3>1
    <3>4. A(s) \subseteq objs /\ objs \subseteq A(s) => objs = A(s)
      OBVIOUS
    <3> QED BY <3>2, <3>3, <3>4
  <2> QED BY <2>2, <2>3
<1>14. hpc'[p] = "head" => objs = job[p].next.inv
  <2>1. hpc'[p] = "head" => n - 1 = L
    BY <1>2, <1>3, <1>10
  <2> QED BY <1>5, <1>9, <1>12, <2>1
<1>15. Publishing' /\ OwnJournal(p)' /\ Reached(job'[p], n - 1) = Reached(job[p], n - 1)
  BY <1>1, <1>3, DiskFrame DEF OwnJournal, JournalOf, SameBut, Reached
<1>16. At(p)'
  <2>1. CASE hpc'[p] = "refused"
    BY <1>1, <1>3, <2>1, ToEnd DEF SameBut
  <2>2. CASE hpc'[p] = "put"
    BY <1>1, <1>3, <1>8, <1>13, <1>15, <2>2
    DEF SameBut, At, StartInv, StageInv, PublishInv, FinishInv, n
  <2>3. CASE hpc'[p] = "head"
    BY <1>1, <1>3, <1>8, <1>14, <1>15, <2>3
    DEF SameBut, At, StartInv, StageInv, PublishInv, FinishInv
  <2> QED BY <1>1, <2>1, <2>2, <2>3 DEF Goes
<1> QED BY <1>1, <1>16, FrameStep DEF Goes, Others, SameBut

LEMMA ReplayDoneStep ==
  ASSUME OrderedInv, NEW p \in Procs, ReplayDone(p)
  PROVE  DiskPart'
<1> DEFINE A(k) == After(job[p].prev, job[p].items, k)
<1>1. /\ hpc[p] = "putting" /\ ph[p] = "ok" /\ Goes(p, {"refused", "head", "put"})
      /\ UNCHANGED <<root, past, objs, nameD, acked, genesis, promised>> /\ Others(p)
      /\ SameBut(job', job, p) /\ job'[p].next = job[p].next /\ job'[p].idx = job[p].idx + 1
      /\ hpc'[p] = "head" => job[p].idx = Len(job[p].items) /\ objs = A(job[p].idx)
      /\ hpc'[p] = "put" =>
           \/ job[p].idx \in Preexisting(job[p]) \/ job[p].idx <= job[p].seen
           \/ objs = A(job[p].idx)
  BY Known, ReplayDoneEffect DEF stateVars, Stay
<1>2. /\ Busy(p) /\ At(p) /\ Publishing /\ OwnJournal(p)
      /\ job[p].items \in Batches /\ job[p].prev \in HeadRec
      /\ job[p].idx \in 1..Len(job[p].items) /\ Len(job[p].items) \in Nat
      /\ job[p].seen \in Nat /\ job[p].seen <= Len(job[p].items)
      /\ job[p].op \notin {"init", "verify"}
      /\ job[p].next = Successor(job[p].prev, job[p].items)
  BY <1>1, PuttingFacts
<1>3. nameD = objs /\ (objs = Reached(job[p], job[p].idx - 1) \/ objs = Reached(job[p], job[p].idx))
  BY <1>1, <1>2 DEF At, PublishInv
<1>4. job[p].idx \in Nat /\ job[p].idx - 1 \in Nat /\ job'[p].idx - 1 = job[p].idx
  BY <1>1, <1>2
<1>5. hpc'[p] = "put" => objs = Reached(job[p], job[p].idx)
  <2>1. CASE job[p].idx <= job[p].seen
    <3>1. Reached(job[p], job[p].idx) = A(job[p].seen) /\ Reached(job[p], job[p].idx - 1) = A(job[p].seen)
      BY <1>2, <1>4, <2>1, ReachedFacts
    <3> QED BY <1>3, <3>1
  <2>2. CASE ~(job[p].idx <= job[p].seen)
    <3>1. Reached(job[p], job[p].idx) = A(job[p].idx) /\ Reached(job[p], job[p].idx - 1) = A(job[p].idx - 1)
      BY <1>2, <1>4, <2>2, ReachedFacts
    <3>2. job[p].idx \in Preexisting(job[p]) => A(job[p].idx) = A(job[p].idx - 1)
      <4>1. job[p].idx \in Preexisting(job[p]) =>
              \A i \in 1..job[p].idx : i > job[p].idx - 1 => job[p].items[i] \in job[p].prev.inv
        BY <1>2 DEF Preexisting
      <4>2. job[p].idx - 1 <= job[p].idx
        BY <1>2
      <4> QED BY <1>2, <1>4, <4>1, <4>2, AfterFacts
    <3> QED BY <1>1, <1>3, <2>2, <3>1, <3>2
  <2> QED BY <2>1, <2>2
<1>6. hpc'[p] = "head" => objs = job[p].next.inv
  BY <1>1, <1>2, AfterFacts
<1>7. Publishing' /\ OwnJournal(p)' /\ Reached(job'[p], job[p].idx) = Reached(job[p], job[p].idx)
  BY <1>1, <1>2, DiskFrame DEF OwnJournal, JournalOf, SameBut, Reached
<1>8. At(p)'
  <2>1. CASE hpc'[p] = "refused"
    BY <1>1, <1>2, <2>1, ToEnd DEF SameBut
  <2>2. CASE hpc'[p] = "put"
    BY <1>1, <1>2, <1>3, <1>4, <1>5, <1>7, <2>2
    DEF SameBut, At, StartInv, StageInv, PublishInv, FinishInv
  <2>3. CASE hpc'[p] = "head"
    BY <1>1, <1>2, <1>3, <1>6, <1>7, <2>3
    DEF SameBut, At, StartInv, StageInv, PublishInv, FinishInv
  <2> QED BY <1>1, <2>1, <2>2, <2>3 DEF Goes
<1> QED BY <1>1, <1>8, FrameStep DEF Goes, Others, SameBut

(* A barrier makes names durable that were not; nobody relies on their     *)
(* being lost.                                                             *)
LEMMA Barrier ==
  ASSUME OrderedInv, nameD' \in {nameD, objs}, objs' = objs, UNCHANGED <<root, past>>
  PROVE  (Empty => Empty') /\ (Quiet => Quiet') /\ (Publishing => Publishing') /\ DiskInv'
<1>1. CASE nameD' = nameD
  BY <1>1, DiskFrame, Known
<1>2. CASE nameD' = objs
  <2>1. (Empty => Empty') /\ (Quiet => Quiet')
    BY <1>2 DEF Empty, Quiet, NoPending
  <2>2. ASSUME Publishing PROVE Publishing'
    <3>1. \E x \in Ids : objs \subseteq objs \union {x}
      BY <2>2 DEF Publishing
    <3> QED BY <1>2, <2>2, <3>1 DEF Publishing
  <2> QED BY <2>1, <2>2, Known DEF DiskInv
<1> QED BY <1>1, <1>2

LEMMA BarrierAt ==
  ASSUME OrderedInv, nameD' \in {nameD, objs}, objs' = objs, UNCHANGED <<root, past>>,
         NEW q \in Procs, Busy(q), hpc'[q] = hpc[q], job'[q] = job[q],
         target'[q] = target[q], ph'[q] = "ok" => ph[q] = "ok" \/ nameD' = objs
  PROVE  At(q)'
<1>1. At(q) /\ (nameD = objs => nameD' = objs')
  BY Known DEF ProcInv
<1>2. (Empty => Empty') /\ (Quiet => Quiet') /\ (Publishing => Publishing')
  BY Barrier
<1>3. StartInv(q)'
  BY <1>1 DEF At, StartInv, NoPending
<1>4. StageInv(q)'
  BY <1>1, <1>2 DEF At, StageInv, OwnJournal, JournalOf
<1>5. PublishInv(q)'
  BY <1>1, <1>2 DEF At, PublishInv, OwnJournal, JournalOf, Reached
<1>6. FinishInv(q)'
  BY <1>1, <1>2 DEF At, FinishInv, OwnJournal, JournalOf
<1> QED BY <1>3, <1>4, <1>5, <1>6 DEF At

LEMMA TempPassStep ==
  ASSUME OrderedInv, NEW p \in Procs, TempPass(p), UNCHANGED headVars
  PROVE  DiskPart'
<1>1. /\ nameD' \in {nameD, objs} /\ UNCHANGED <<objs, acked, ph, target>>
      /\ UNCHANGED <<root, past, hpc, job, genesis, promised>>
  BY TempPassEffect DEF headVars, stateVars, jobVars
<1>2. ProcInv'
  BY <1>1, BarrierAt DEF ProcInv, Busy
<1>3. PromiseInv'
  BY <1>1, Known, PromiseFrame
<1> QED BY <1>1, <1>2, <1>3, Barrier DEF DiskPart

(* A step inside a put of the store.  The confirming puts find their       *)
(* object; a publishing put adds the next member of the journal.           *)
LEMMA PutStepStep ==
  ASSUME OrderedInv, Outsiders = {}, NEW p \in Procs, PutStep(p), UNCHANGED headVars
  PROVE  DiskPart'
<1>1. UNCHANGED <<root, past, hpc, job, genesis, promised>>
  BY DEF headVars, stateVars, jobVars
<1>2. /\ target' = target /\ acked \subseteq acked' /\ ph[p] # "idle"
      /\ \A q \in Procs \ {p} : ph'[q] = ph[q]
      /\ ph'[p] = "ok" => nameD' = objs'
      /\ \/ objs' = objs /\ nameD' \in {nameD, objs}
         \/ target[p] \notin objs /\ objs' = objs \union {target[p]} /\ nameD' = nameD
  BY Known, PutStepEffect
<1>3. hpc[p] \in {"confirming", "putting"} /\ target[p] = job[p].items[job[p].idx]
  BY <1>2, Known DEF LinkInv
<1>4. Busy(p) /\ At(p) /\ \A q \in Procs \ {p} : ~Busy(q)
  BY <1>3, Known, Alone DEF Busy, ProcInv
<1>5. CASE objs' = objs /\ nameD' \in {nameD, objs}
  <2>1. At(p)'
    BY <1>1, <1>2, <1>4, <1>5, BarrierAt
  <2>2. ProcInv'
    BY <1>1, <1>4, <2>1, ProcFrame
  <2>3. PromiseInv'
    BY <1>1, <1>2, <1>5, Known, PromiseFrame
  <2> QED BY <1>1, <1>5, <2>2, <2>3, Barrier DEF DiskPart
<1>6. CASE target[p] \notin objs /\ objs' = objs \union {target[p]} /\ nameD' = nameD
  <2>1. hpc[p] = "putting"
    <3>1. ASSUME hpc[p] = "confirming" PROVE FALSE
      <4>1. job[p].op \in {"store", "batch"}
        BY <1>4, <3>1, Known DEF FlowInv
      <4>2. /\ job[p].prev = root.head /\ NoPending /\ job[p].idx \in Preexisting(job[p])
        BY <1>4, <3>1, <4>1 DEF At, StartInv
      <4>3. objs = root.head.inv
        BY <1>4, <4>1, <4>2, HeadExists DEF Quiet
      <4> QED BY <1>3, <1>6, <4>2, <4>3 DEF Preexisting
    <3> QED BY <1>3, <3>1
  <2> DEFINE A(k) == After(job[p].prev, job[p].items, k)
             i0 == job[p].idx
             s == job[p].seen
  <2>2. /\ Publishing /\ OwnJournal(p)
        /\ job[p].items \in Batches /\ job[p].prev \in HeadRec
        /\ i0 \in 1..Len(job[p].items) /\ Len(job[p].items) \in Nat
        /\ DOMAIN job[p].items = 1..Len(job[p].items)
        /\ s \in Nat /\ s <= Len(job[p].items) /\ job[p].kind \in {"single", "batch"}
    BY <2>1, PuttingFacts
  <2>3. \A k \in Nat : i0 <= k => target[p] \in A(k)
    BY <1>3, <2>2 DEF After
  <2>4. \A k \in Nat : (k >= s => Reached(job[p], k) = A(k)) /\ (k <= s => Reached(job[p], k) = A(s))
    BY <2>2, ReachedFacts
  <2>5. /\ objs = Reached(job[p], i0 - 1) \/ objs = Reached(job[p], i0)
        /\ i0 > s => nameD = objs
    BY <1>4, <1>6, <2>1 DEF At, PublishInv
  <2>6. A(i0) = A(i0 - 1) \union {target[p]}
    BY <1>3, <2>2 DEF After
  <2>7. PendingOf(root).prev = job[p].prev /\ PendingOf(root).items = job[p].items
    BY <2>2, OwnPending
  <2>8. target[p] \in Ids
    BY <1>3, <2>2, BatchFacts
  <2> HIDE DEF A, i0, s
  <2>9. i0 > s
    <3>1. ASSUME i0 <= s PROVE FALSE
      <4>1. Reached(job[p], i0 - 1) = A(s) /\ Reached(job[p], i0) = A(s)
        BY <2>2, <2>4, <3>1
      <4> QED BY <1>6, <2>2, <2>3, <2>5, <3>1, <4>1
    <3> QED BY <2>2, <3>1
  <2>10. Reached(job[p], i0) = A(i0) /\ Reached(job[p], i0 - 1) = A(i0 - 1)
    BY <2>2, <2>4, <2>9
  <2>11. objs = A(i0 - 1) /\ objs' = A(i0) /\ nameD = objs
    BY <1>6, <2>2, <2>3, <2>5, <2>6, <2>9, <2>10
  <2>12. Publishing'
    <3>1. /\ i0 \in 0..Len(job[p].items) /\ (i0 - 1) \in 0..Len(job[p].items)
      BY <2>2
    <3>2. \E k \in 0..Len(job[p].items) : objs' = After(job[p].prev, job[p].items, k)
      BY <2>11, <3>1 DEF A
    <3>3. \E k \in 0..Len(job[p].items) : nameD' = After(job[p].prev, job[p].items, k)
      BY <1>6, <2>11, <3>1 DEF A
    <3>4. objs' \subseteq nameD' \union {target[p]}
      BY <1>6, <2>11
    <3> QED BY <1>1, <2>2, <2>7, <2>8, <3>2, <3>3, <3>4 DEF Publishing
  <2>13. At(p)'
    <3>1. OwnJournal(p)'
      BY <1>1, <2>2 DEF OwnJournal, JournalOf
    <3>2. objs' = Reached(job'[p], job'[p].idx) /\ target'[p] \in objs'
      BY <1>1, <1>2, <1>6, <2>10, <2>11 DEF i0, Reached
    <3> QED BY <1>1, <1>2, <1>4, <2>1, <2>2, <2>12, <3>1, <3>2
            DEF At, StartInv, StageInv, PublishInv, FinishInv, s
  <2>14. ProcInv'
    BY <1>1, <1>4, <2>13, ProcFrame
  <2>15. PromiseInv'
    BY <1>1, <1>2, <1>6, PromiseFrame
  <2> QED BY <2>12, <2>14, <2>15 DEF DiskPart, DiskInv
<1> QED BY <1>2, <1>5, <1>6

(* Recovery of a single and of a batch journal.                            *)
LEMMA SettledQuiet ==
  ASSUME OrderedInv, root.head # NoHead, Settled(PendingOf(root)),
         PendingOf(root).st = "intent"
  PROVE  Quiet
<1> DEFINE j == PendingOf(root)
<1>1. CASE Publishing
  <2>1. root.head = j.prev /\ j.items \in Batches
    BY <1>1, Known DEF Publishing, Ready, WellFormed
  <2>2. Successor(j.prev, j.items) # root.head
    BY <2>1, Known, SuccessorFacts DEF Root
  <2>3. objs = j.prev.inv
    BY <2>2 DEF Settled, Inventory
  <2> QED BY <1>1, <2>3, Known, QuietBeforeFirst
<1> QED BY <1>1, Known DEF DiskInv, Empty

LEMMA UnsettledPublishing ==
  ASSUME OrderedInv, root.head # NoHead, ~Settled(PendingOf(root)),
         root.head = PendingOf(root).prev
  PROVE  Publishing
  BY Known DEF DiskInv, Empty, Quiet, Settled, Inventory

LEMMA AdoptedAt ==
  ASSUME OrderedInv, NEW p \in Procs, NEW kind \in {"single", "batch"}, NEW j, NEW k \in Nat,
         NEW next, Adopted(job', job, p, kind, j, k, next), UNCHANGED <<root, past, objs, nameD>>
  PROVE  /\ Quiet /\ next = root.head /\ hpc'[p] \in {"clear", "unstage"} => At(p)'
         /\ Publishing /\ OwnJournal(p)' /\ j.items \in Batches /\ k \in 1..Len(j.items)
            /\ objs = After(j.prev, j.items, k)
            /\ (hpc'[p] = "put" \/ (hpc'[p] = "putting" /\ ph'[p] # "ok" /\ k = 1
                                     /\ target'[p] \in objs)) => At(p)'
<1>1. (Quiet' <=> Quiet) /\ (Publishing' <=> Publishing)
  BY DiskFrame
<1>2. ASSUME Quiet, next = root.head, hpc'[p] \in {"clear", "unstage"} PROVE At(p)'
  BY <1>1, <1>2 DEF Adopted, At, StartInv, StageInv, PublishInv, FinishInv
<1>3. ASSUME Publishing, OwnJournal(p)', j.items \in Batches, k \in 1..Len(j.items),
             objs = After(j.prev, j.items, k),
             hpc'[p] = "put" \/ (hpc'[p] = "putting" /\ ph'[p] # "ok" /\ target'[p] \in objs)
      PROVE  At(p)'
  <2>1. /\ job'[p].seen = k /\ job'[p].idx = 1 /\ job'[p].op = "recover"
        /\ job'[p].prev = j.prev /\ job'[p].items = j.items
    BY DEF Adopted
  <2>2. Len(j.items) \in Nat
    BY <1>3, BatchFacts
  <2>3. /\ Reached(job'[p], 0) = objs /\ 0 = job'[p].idx - 1
        /\ ~(job'[p].idx > job'[p].seen) /\ job'[p].seen <= Len(job'[p].items)
    <3>1. 0 <= job'[p].seen /\ job'[p].seen \in Nat /\ 0 \in Nat
      BY <2>1
    <3>2. Reached(job'[p], 0) = After(j.prev, j.items, k)
      BY <2>1, <3>1, ReachedFacts
    <3> QED BY <1>3, <2>1, <2>2, <3>2
  <2> QED BY <1>1, <1>3, <2>1, <2>3 DEF At, StartInv, StageInv, PublishInv, FinishInv
<1> QED BY <1>2, <1>3

LEMMA RecoverSingleStep ==
  ASSUME OrderedInv, NEW p \in Procs, RecoverSingle(p)
  PROVE  DiskPart'
<1> DEFINE j == root.single
           next == Successor(j.prev, j.items)
<1>1. /\ Goes(p, {"refused", "clear", "putting"}) /\ Stay /\ UNCHANGED <<root, past>>
      /\ hpc[p] = "inspect" /\ job[p].op = "recover"
      /\ j.st = "intent" /\ root.batch = Absent
  BY Known, RecoverSingleEffect DEF stateVars
<1>2. Busy(p) /\ At(p) /\ root.head # NoHead /\ PendingOf(root) = j
  BY <1>1, Known, HeadExists DEF Busy, ProcInv, PendingOf
<1>3. CASE hpc'[p] = "refused" /\ job' = job /\ UNCHANGED storeVars
  BY <1>1, <1>2, <1>3, EndStep DEF storeVars, diskVars, putVars, Others, Stay, Goes
<1>4. CASE /\ hpc'[p] = "clear" /\ Settled(j) /\ UNCHANGED storeVars
           /\ Adopted(job', job, p, "single", j, 0, root.head)
  <2>1. Quiet /\ UNCHANGED <<objs, nameD, acked, ph, target>>
    BY <1>1, <1>2, <1>4, SettledQuiet DEF storeVars, diskVars, putVars
  <2>2. At(p)'
    BY <1>1, <1>4, <2>1, AdoptedAt
  <2> QED BY <1>1, <1>4, <2>1, <2>2, FrameStep DEF Goes, Adopted, Stay
<1>5. CASE /\ hpc'[p] = "putting" /\ root.head = j.prev
           /\ objs = next.inv /\ ~Settled(j)
           /\ SyncObjectDurable(p, j.items[1])
           /\ Adopted(job', job, p, "single", j, 1, next)
  <2>1. Publishing
    BY <1>2, <1>5, UnsettledPublishing
  <2>2. j.items \in Batches /\ Len(j.items) = 1 /\ j.prev \in HeadRec
    BY <1>1, <1>2, <1>5, <2>1, Known DEF Publishing, WellFormed, Root
  <2>3. objs = After(j.prev, j.items, 1) /\ 1 \in 1..Len(j.items)
    BY <1>5, <2>2, AfterFacts
  <2>4. /\ j.items[1] \in objs /\ ph'[p] = "syncObject" /\ target'[p] = j.items[1] /\ Others(p)
        /\ UNCHANGED <<objs, nameD, acked>>
    BY <1>5, Known, SyncObjectEffect
  <2>5. OwnJournal(p)'
    <3>1. root \in Root /\ j \in Journal
      BY Known DEF Root
    <3>2. j = Intent(j.prev, j.items)
      BY <1>1, <3>1 DEF Journal, Intent
    <3> QED BY <1>1, <1>5, <3>2 DEF OwnJournal, JournalOf, Adopted
  <2>6. At(p)'
    BY <1>1, <1>5, <2>1, <2>2, <2>3, <2>4, <2>5, AdoptedAt
  <2> QED BY <1>1, <1>5, <2>4, <2>6, FrameStep DEF Goes, Adopted, Stay, Others
<1> QED BY <1>3, <1>4, <1>5, Known, RecoverSingleEffect

LEMMA RecoverBatchStep ==
  ASSUME OrderedInv, NEW p \in Procs, RecoverBatch(p)
  PROVE  DiskPart'
<1> DEFINE j == root.batch
           next == Successor(j.prev, j.items)
<1>1. /\ Goes(p, {"refused", "unstage", "put"}) /\ Stay /\ UNCHANGED <<root, past>>
      /\ UNCHANGED <<objs, nameD, acked, ph, target>>
      /\ hpc[p] = "inspect" /\ job[p].op = "recover"
      /\ j.st = "intent" /\ root.single = Absent
  BY Known, RecoverBatchEffect DEF stateVars, storeVars, diskVars, putVars
<1>2. Busy(p) /\ At(p) /\ root.head # NoHead /\ PendingOf(root) = j
  BY <1>1, Known, HeadExists, JournalFields DEF Busy, ProcInv, PendingOf
<1>3. CASE hpc'[p] = "refused" /\ job' = job
  BY <1>1, <1>2, <1>3, EndStep DEF Others, Stay, Goes
<1>4. CASE hpc'[p] = "unstage" /\ Settled(j) /\ Adopted(job', job, p, "batch", j, 0, root.head)
  <2>1. Quiet
    BY <1>1, <1>2, <1>4, SettledQuiet
  <2>2. At(p)'
    BY <1>1, <1>4, <2>1, AdoptedAt
  <2> QED BY <1>1, <1>4, <2>2, FrameStep DEF Goes, Adopted, Stay
<1>5. ASSUME hpc'[p] = "put", root.head = j.prev, ~Settled(j), NEW k \in Observed(j),
             Adopted(job', job, p, "batch", j, k, next)
      PROVE  DiskPart'
  <2>1. Publishing
    BY <1>2, <1>5, UnsettledPublishing
  <2>2. j.items \in Batches
    BY <1>1, <1>2, <2>1, Known DEF Publishing, WellFormed
  <2>3. k \in 1..Len(j.items) /\ k \in Nat /\ objs = After(j.prev, j.items, k)
    BY <2>2, MemberSets, BatchFacts DEF Observed, Inventory
  <2>4. OwnJournal(p)'
    <3>1. root \in Root /\ j \in Journal
      BY Known DEF Root
    <3>2. j = Intent(j.prev, j.items)
      BY <1>1, <3>1 DEF Journal, Intent
    <3> QED BY <1>1, <1>5, <3>2 DEF OwnJournal, JournalOf, Adopted
  <2>5. At(p)'
    BY <1>1, <1>5, <2>1, <2>2, <2>3, <2>4, AdoptedAt
  <2> QED BY <1>1, <1>5, <2>5, FrameStep DEF Goes, Adopted, Stay
<1> QED BY <1>3, <1>4, <1>5, Known, RecoverBatchEffect

(* A power loss brings back the state root of some moment since its last   *)
(* fsync, and the store with or without the object in flight.              *)
LEMMA PowerLossStep ==
  ASSUME OrderedInv, Ordered, HeadPowerLoss
  PROVE  DiskPart'
<1>1. /\ root' \in past /\ past' = {root'} /\ UNCHANGED <<genesis, promised>>
      /\ hpc' = [p \in Procs |-> "idle"]
      /\ nameD \subseteq objs' /\ objs' \subseteq objs /\ nameD' = objs' /\ acked' = acked
  BY Known, PowerLossEffect DEF HeadPowerLoss, Survivors
<1>2. ProcInv'
  BY <1>1 DEF ProcInv, Busy
<1>3. PromiseInv'
  BY <1>1, PromiseFrame
<1>4. root' \in Root
  BY <1>1, Known DEF HeadTypeOK
<1>5. CASE Empty
  <2>1. root' = root /\ objs' = objs /\ nameD' = objs'
    BY <1>1, <1>5 DEF Empty
  <2>2. Empty'
    BY <1>1, <1>5, <2>1 DEF Empty, NoPending
  <2> QED BY <1>2, <1>3, <2>2 DEF DiskPart, DiskInv
<1>6. CASE Quiet
  <2>1. objs' = objs /\ nameD' = objs /\ objs = root.head.inv /\ root.head # NoHead
    BY <1>1, <1>6 DEF Quiet
  <2>2. WellFormed(root')
    BY <1>1, <1>6 DEF Quiet
  <2>3. CASE root'.head = root.head
    BY <1>1, <1>2, <1>3, <2>1, <2>2, <2>3 DEF Quiet, DiskPart, DiskInv
  <2>4. CASE /\ Ready(root')
             /\ Successor(PendingOf(root').prev, PendingOf(root').items) = root.head
    <3> DEFINE j == PendingOf(root')
    <3>1. j.st = "intent" /\ root'.head = j.prev /\ j.items \in Batches /\ j.prev # NoHead
      BY <2>2, <2>4 DEF Ready, WellFormed
    <3>2. j.prev \in HeadRec
      BY <1>4, <3>1 DEF Root
    <3>3. /\ objs = After(j.prev, j.items, Len(j.items)) /\ j.items[1] \in Ids
          /\ Len(j.items) \in 0..Len(j.items)
      BY <2>1, <2>4, <3>1, <3>2, AfterFacts, BatchFacts
    <3>4. Publishing'
      BY <1>1, <2>1, <2>2, <2>4, <3>1, <3>3 DEF Publishing
    <3> QED BY <1>2, <1>3, <3>4 DEF DiskPart, DiskInv
  <2>5. CASE root'.head = NoHead /\ root'.single = Absent /\ root'.batch = Absent
    BY <1>1, <1>2, <1>3, <2>1, <2>5 DEF Empty, NoPending, DiskPart, DiskInv
  <2> QED BY <1>1, <1>6, <2>3, <2>4, <2>5 DEF Quiet
<1>7. CASE Publishing
  <2>1. /\ WellFormed(root') /\ Ready(root') /\ PendingOf(root') = PendingOf(root)
        /\ root'.head = root.head /\ root.head # NoHead
    BY <1>1, <1>7, Known DEF Publishing, Ready, PendingOf
  <2>2. objs' = nameD \/ objs' = objs
    BY <1>1, <1>7 DEF Publishing
  <2>3. \E k \in 0..Len(PendingOf(root').items) :
           objs' = After(PendingOf(root').prev, PendingOf(root').items, k)
    BY <1>7, <2>1, <2>2 DEF Publishing
  <2>4. \E x \in Ids : objs' \subseteq nameD' \union {x}
    BY <1>1, <1>7 DEF Publishing
  <2>5. Publishing'
    BY <1>1, <2>1, <2>3, <2>4 DEF Publishing
  <2> QED BY <1>2, <1>3, <2>5 DEF DiskPart, DiskInv
<1> QED BY <1>5, <1>6, <1>7, Known DEF DiskInv

LEMMA StutterStep ==
  ASSUME OrderedInv, UNCHANGED vars
  PROVE  DiskPart'
<1>1. UNCHANGED <<root, past, objs, nameD, acked, genesis, promised, hpc, job, ph, target>>
  BY DEF vars, storeVars, headVars, stateVars, jobVars, diskVars, putVars
<1>2. ProcInv'
  BY <1>1, BarrierAt, Known DEF ProcInv, Busy
<1>3. PromiseInv'
  BY <1>1, PromiseFrame
<1> QED BY <1>1, <1>2, <1>3, DiskFrame, Known DEF DiskPart

LEMMA OrderedInitInv == HeadInit => OrderedInv
<1> SUFFICES ASSUME HeadInit PROVE OrderedInv
  OBVIOUS
<1>1. HeadInv
  BY HeadInitInv
<1>2. Empty
  BY DEF HeadInit, StoreInit, Empty, NoPending
<1>3. ProcInv
  BY DEF HeadInit, ProcInv, Busy
<1>4. PromiseInv
  BY DEF HeadInit, PromiseInv, NoHead
<1> QED BY <1>1, <1>2, <1>3, <1>4 DEF OrderedInv, DiskInv

LEMMA OrderedStep ==
  ASSUME Ordered, Outsiders = {}, OrderedInv, [HeadNext]_vars
  PROVE  OrderedInv'
<1>1. HeadInv'
  BY HeadInvStep DEF OrderedInv
<1>2. ASSUME NEW p \in Procs, HeadOp(p) PROVE DiskPart'
  BY <1>2, OpenStep, LoadStep DEF HeadOp
<1>3. ASSUME NEW p \in Procs, HeadStep(p) PROVE DiskPart'
  BY <1>3, LockStoreStep, InitializeInspectStep, VerifyInspectStep, StoreInspectStep,
     ConfirmStep, ConfirmedStep, CreatePendingStep, FillPendingStep, SyncPendingStep,
     CreateStageStep, FillStageStep, PutMemberStep, MemberDoneStep, ReplayDoneStep,
     WriteStateStep, SyncFinishStep, ClearStageStep, ClearPendingStep,
     RecoverSingleStep, RecoverBatchStep, FailStep, ReturnStep
  DEF HeadStep
<1>4. DiskPart'
  BY <1>2, <1>3, FailStep, FillPendingFailsStep, CrashStep, PutStepStep, TempPassStep,
     PowerLossStep, StutterStep, HeadAssumption
  DEF HeadNext
<1> QED BY <1>1, <1>4 DEF OrderedInv, DiskPart

(* Part 2 is an invariant wherever every writer maintains the head and the *)
(* state root's file system keeps the order of changes.                    *)
THEOREM OrderedInvariance ==
  ASSUME Ordered, Outsiders = {}
  PROVE  HeadSpec => []OrderedInv
<1>1. OrderedInv /\ [HeadNext]_vars => OrderedInv'
  BY OrderedStep
<1> QED BY <1>1, OrderedInitInv, PTL DEF HeadSpec

(* Some new member's journaled inventory is the one in the store, once     *)
(* something of a batch has been published.                                *)
LEMMA ObservedExists ==
  ASSUME NEW j, j.prev \in HeadRec, j.items \in Batches, NEW k \in 0..Len(j.items),
         objs = After(j.prev, j.items, k), objs # j.prev.inv
  PROVE  Observed(j) # {}
<1> DEFINE A(m) == After(j.prev, j.items, m)
           S == {m \in 0..Len(j.items) : A(m) = objs}
<1>1. Len(j.items) \in Nat /\ DOMAIN j.items = 1..Len(j.items)
  BY BatchFacts
<1>2. S \subseteq Nat /\ k \in S
  BY <1>1
<1>3. PICK m \in S : \A n \in S : m <= n
  <2> HIDE DEF S
  <2> QED BY <1>2, NatMin
<1>4. m \in 0..Len(j.items) /\ A(m) = objs /\ m # 0
  BY <1>3, AfterFacts
<1>5. m \in NewMembers(j)
  <2>1. SUFFICES ASSUME m \notin NewMembers(j) PROVE FALSE
    OBVIOUS
  <2>2. j.items[m] \in j.prev.inv
    BY <1>1, <1>4, <2>1, MemberSets
  <2>3. m - 1 \in Nat /\ m \in Nat /\ m - 1 <= m /\ m - 1 \in 0..Len(j.items)
    BY <1>1, <1>4
  <2>4. \A i \in 1..m : i > m - 1 => j.items[i] \in j.prev.inv
    BY <2>2, <2>3
  <2>5. A(m) = A(m - 1)
    BY <2>3, <2>4, AfterFacts
  <2>6. m - 1 \in S
    BY <1>4, <2>3, <2>5
  <2> QED BY <1>3, <2>3, <2>6
<1> QED BY <1>4, <1>5 DEF Observed, Inventory

(* A journal that is not an intent and was not cut short is absent.        *)
LEMMA WholeJournals ==
  ASSUME OrderedInv, ~TornJournal
  PROVE  /\ root.single.st = "intent" \/ root.single = Absent
         /\ root.batch.st = "intent" \/ root.batch = Absent
<1>1. root.single \in Journal /\ root.batch \in Journal
  BY Known DEF Root
<1> QED BY <1>1 DEF Journal, TornJournal

LEMMA OrderedRecoverable ==
  ASSUME OrderedInv, root.head # NoHead
  PROVE  /\ ~TornJournal => Accepted
         /\ root.single = Absent \/ root.batch = Absent
         /\ TornJournal => Inventory = root.head.inv
<1> DEFINE j == PendingOf(root)
<1>1. root.head # NoHead /\ root.head \in HeadRec
  BY Known DEF Root
<1>2. CASE Quiet
  <2>1. WellFormed(root) /\ Inventory = root.head.inv
    BY <1>2, Known DEF Quiet, Inventory
  <2>2. ASSUME ~TornJournal PROVE Accepted
    <3>1. CASE root.single.st = "intent"
      BY <2>1, <2>2, <3>1, WholeJournals, JournalFields
      DEF Accepted, WellFormed, PendingOf, Settled
    <3>2. CASE root.single = Absent /\ root.batch.st = "intent"
      BY <2>1, <3>2, JournalFields DEF Accepted, WellFormed, PendingOf, Settled
    <3>3. CASE NoPending
      BY <2>1, <3>3 DEF Accepted
    <3> QED BY <2>2, <3>1, <3>2, <3>3, WholeJournals DEF NoPending
  <2> QED BY <2>1, <2>2 DEF WellFormed
<1>3. CASE Publishing
  <2>1. WellFormed(root) /\ Ready(root)
    BY <1>3, Known DEF Publishing
  <2>2. /\ j.st = "intent" /\ root.head = j.prev /\ j.items \in Batches
        /\ j.prev \in HeadRec
    BY <1>1, <2>1 DEF WellFormed, Ready
  <2>3. PICK k \in 0..Len(j.items) : objs = After(j.prev, j.items, k)
    BY <1>3 DEF Publishing
  <2>4. objs = j.prev.inv => Settled(j)
    BY <2>2 DEF Settled, Inventory
  <2>5. objs # j.prev.inv => Observed(j) # {}
    BY <2>2, <2>3, ObservedExists
  <2>6. CASE root.single.st = "intent"
    <3>1. j = root.single /\ root.batch = Absent /\ Len(j.items) = 1
      BY <2>1, <2>6, JournalFields DEF WellFormed, PendingOf
    <3>2. objs # j.prev.inv => Inventory = Successor(j.prev, j.items).inv
      <4>1. k \in {0, 1} /\ 1 = Len(j.items)
        BY <3>1
      <4> QED BY <2>2, <2>3, <4>1, AfterFacts DEF Inventory
    <3>3. Accepted
      BY <2>2, <2>4, <2>6, <3>1, <3>2 DEF Accepted
    <3> QED BY <2>6, <3>1, <3>3, JournalFields DEF TornJournal
  <2>7. CASE root.single.st # "intent"
    <3>1. j = root.batch /\ root.single = Absent /\ StagesValid(j)
      BY <2>1, <2>2, <2>7, JournalFields DEF WellFormed, PendingOf, Ready, StagesValid
    <3>2. Accepted
      BY <2>2, <2>4, <2>5, <3>1 DEF Accepted
    <3> QED BY <2>2, <3>1, <3>2, JournalFields DEF TornJournal
  <2> QED BY <2>6, <2>7
<1> QED BY <1>1, <1>2, <1>3, Known DEF DiskInv, Empty

(* After a crash or a power loss at any step, of a publication or of an    *)
(* earlier recovery, undamaged head, journal, stages and store are in a    *)
(* combination that recover_pending_publication accepts, and a journal     *)
(* that was cut short stands beside a store nothing was published to.      *)
THEOREM AlwaysRecoverable ==
  ASSUME Ordered, Outsiders = {}
  PROVE  HeadSpec => []Recoverable
<1>1. OrderedInv => Recoverable
  BY OrderedRecoverable DEF Recoverable, Damaged, NoHead
<1> QED BY <1>1, OrderedInvariance, PTL

(* A step that moves a process is a step of its own operation, or leaves   *)
(* it outside or at the entrance of one, or failed.                        *)
LEMMA WhoMoves ==
  ASSUME HeadTypeOK, [HeadNext]_vars, NEW p \in Procs
  PROVE  \/ hpc'[p] = hpc[p] /\ job'[p] = job[p]
         \/ HeadStep(p)
         \/ hpc'[p] \in {"idle", "lock", "failed"}
<1> USE DEF To, HeadTypeOK
<1>1. ASSUME NEW q \in Procs, HeadOp(q)
      PROVE  (hpc'[p] = hpc[p] /\ job'[p] = job[p]) \/ hpc'[p] = "lock"
  BY <1>1 DEF HeadOp, Initialize, Load, Verify, Recover, Store, StoreBatch, Enter, jobVars
<1>2. ASSUME NEW q \in Procs, q # p, HeadStep(q) PROVE hpc'[p] = hpc[p] /\ job'[p] = job[p]
  <2>1. CASE \/ LockStore(q) \/ InitializeInspect(q) \/ VerifyInspect(q) \/ StoreInspect(q)
             \/ StoreBatchInspect(q) \/ Confirm(q) \/ Confirmed(q)
    BY <1>2, <2>1
    DEF LockStore, InitializeInspect, VerifyInspect, StoreInspect, StoreBatchInspect,
        Confirm, Confirmed, Move
  <2>2. CASE \/ CreatePending(q) \/ FillPending(q) \/ SyncPending(q) \/ CreateStage(q)
             \/ FillStage(q) \/ PutMember(q) \/ MemberDone(q) \/ ReplayDone(q)
    BY <1>2, <2>2
    DEF CreatePending, FillPending, SyncPending, CreateStage, FillStage, PutMember,
        MemberDone, ReplayDone
  <2>3. CASE \/ WriteState(q) \/ SyncState(q) \/ ClearStage(q) \/ ClearPending(q)
             \/ SyncCleared(q) \/ PutFailed(q) \/ Return(q)
    BY <1>2, <2>3
    DEF WriteState, SyncState, ClearStage, ClearPending, SyncCleared, PutFailed, Return
  <2>4. CASE RecoverNothing(q) \/ RecoverSingle(q) \/ RecoverBatch(q)
    BY <1>2, <2>4 DEF RecoverNothing, RecoverSingle, RecoverBatch, Adopt, Move
  <2> QED BY <1>2, <2>1, <2>2, <2>3, <2>4 DEF HeadStep
<1>3. ASSUME NEW q \in Procs, HeadFail(q) \/ FillPendingFails(q) \/ HeadCrash(q)
      PROVE  (hpc'[p] = hpc[p] /\ job'[p] = job[p]) \/ hpc'[p] \in {"idle", "failed"}
  BY <1>3 DEF HeadFail, FillPendingFails, HeadCrash, Move
<1>4. ASSUME UNCHANGED headVars \/ UNCHANGED vars PROVE hpc'[p] = hpc[p] /\ job'[p] = job[p]
  BY <1>4 DEF headVars, jobVars, vars
<1>5. CASE HeadPowerLoss
  BY <1>5 DEF HeadPowerLoss
<1> QED BY <1>1, <1>2, <1>3, <1>4, <1>5 DEF HeadNext

(* The steps that enter a put of a member, and the ones by which recovery  *)
(* refuses.                                                                *)
LEMMA HowItMoves ==
  ASSUME HeadInv, NEW p \in Procs, HeadStep(p)
  PROVE  /\ hpc'[p] = "putting" => PutMember(p) \/ RecoverSingle(p)
         /\ hpc'[p] = "refused" /\ hpc[p] # "refused" /\ job[p].op = "recover" =>
              \/ RecoverNothing(p) \/ RecoverSingle(p) \/ RecoverBatch(p)
              \/ MemberDone(p) \/ ReplayDone(p) \/ PutFailed(p)
<1>0. HeadTypeOK /\ StoreIInv /\ FlowInv
  BY DEF HeadInv
<1> USE DEF To, HeadTypeOK
<1>1. CASE LockStore(p) \/ InitializeInspect(p) \/ VerifyInspect(p)
  BY <1>0, <1>1 DEF LockStore, InitializeInspect, VerifyInspect, Move
<1>2. CASE StoreInspect(p) \/ StoreBatchInspect(p) \/ Confirm(p)
  BY <1>0, <1>2 DEF StoreInspect, StoreBatchInspect, Confirm, Move
<1>3. CASE Confirmed(p)
  BY <1>0, <1>3 DEF Confirmed, FlowInv, Busy
<1>4. CASE \/ CreatePending(p) \/ FillPending(p) \/ SyncPending(p) \/ CreateStage(p)
           \/ FillStage(p)
  BY <1>0, <1>4 DEF CreatePending, FillPending, SyncPending, CreateStage, FillStage
<1>5. CASE \/ WriteState(p) \/ SyncState(p) \/ ClearStage(p) \/ ClearPending(p)
           \/ SyncCleared(p) \/ Return(p)
  BY <1>0, <1>5
  DEF WriteState, SyncState, ClearStage, ClearPending, SyncCleared, Return
<1>6. CASE RecoverNothing(p) \/ RecoverBatch(p)
  BY <1>0, <1>6 DEF RecoverNothing, RecoverBatch, Move
<1>7. CASE MemberDone(p) \/ ReplayDone(p) \/ PutFailed(p)
  BY <1>0, <1>7 DEF MemberDone, ReplayDone, PutFailed
<1>8. CASE PutMember(p) \/ RecoverSingle(p)
  BY <1>0, <1>8 DEF PutMember
<1> QED BY <1>1, <1>2, <1>3, <1>4, <1>5, <1>6, <1>7, <1>8 DEF HeadStep

(* Whoever finds that a put has inserted its object was at the rename.     *)
LEMMA WhoInserts ==
  ASSUME HeadInv, [HeadNext]_vars, NEW p \in Procs, ins'[p]
  PROVE  ins[p] \/ target[p] \notin objs
<1> USE DEF putVars, StoreTypeOK
<1>0. StoreTypeOK
  BY DEF HeadInv, StoreIInv
<1>1. ASSUME UNCHANGED storeVars \/ UNCHANGED putVars PROVE ins[p]
  BY <1>1 DEF storeVars
<1>2. ASSUME NEW q \in Procs, PutReturn(q) PROVE ins[p]
  BY <1>2 DEF PutReturn, LeavePut
<1>3. ASSUME NEW q \in Procs, NEW id, PutStart(q, id) \/ SyncObjectDurable(q, id) PROVE ins[p]
  BY <1>0, <1>3 DEF PutStart, EnterPut, SyncObjectDurable
<1>4. ASSUME NEW q \in Procs, BeginRead(q) \/ BeginWrite(q) \/ EndTxn(q) PROVE ins[p]
  BY <1>1, <1>4 DEF BeginRead, BeginWrite, EndTxn
<1>5. ASSUME NEW q \in Procs, HeadStep(q) PROVE ins[p]
  <2>1. CASE LockStore(q) \/ Return(q)
    BY <1>1, <1>4, <2>1 DEF LockStore, Return
  <2>2. CASE Confirm(q) \/ PutMember(q)
    BY <1>1, <1>3, <2>2 DEF Confirm, PutMember, Move
  <2>3. CASE Confirmed(q) \/ MemberDone(q) \/ ReplayDone(q) \/ PutFailed(q)
    BY <1>2, <2>3 DEF Confirmed, MemberDone, ReplayDone, PutFailed
  <2>4. CASE RecoverSingle(q)
    BY <1>1, <1>3, <2>4 DEF RecoverSingle, Move
  <2>5. CASE \/ InitializeInspect(q) \/ VerifyInspect(q) \/ StoreInspect(q)
             \/ StoreBatchInspect(q) \/ RecoverNothing(q) \/ RecoverBatch(q)
             \/ CreatePending(q) \/ FillPending(q) \/ SyncPending(q)
             \/ CreateStage(q) \/ FillStage(q) \/ WriteState(q) \/ SyncState(q)
             \/ ClearStage(q) \/ ClearPending(q) \/ SyncCleared(q)
    BY <1>1, <2>5
    DEF InitializeInspect, VerifyInspect, StoreInspect, StoreBatchInspect,
        RecoverNothing, RecoverBatch, CreatePending, FillPending, SyncPending,
        CreateStage, FillStage, WriteState, SyncState, ClearStage, ClearPending,
        SyncCleared, Move
  <2> QED BY <1>5, <2>1, <2>2, <2>3, <2>4, <2>5 DEF HeadStep
<1>6. ASSUME NEW q \in Procs, HeadOp(q) \/ HeadFail(q) \/ FillPendingFails(q) PROVE ins[p]
  BY <1>1, <1>6
  DEF HeadOp, Initialize, Load, Verify, Recover, Store, StoreBatch, Enter, HeadFail,
      FillPendingFails, Move
<1>7. ASSUME NEW q \in Procs, HeadCrash(q) PROVE ins[p]
  BY <1>0, <1>7 DEF HeadCrash, StoreCrash
<1>8. ASSUME NEW q \in Procs, PutStep(q) PROVE ins[p] \/ target[p] \notin objs
  <2>1. CASE PutCheck(q) \/ PutLock(q) \/ PutRecheck(q) \/ PutRaced(q) \/ PutFail(q)
    BY <2>1 DEF PutCheck, PutLock, PutRecheck, PutRaced, PutFail
  <2>2. CASE PutRename(q)
    BY <1>0, <2>2 DEF PutRename
  <2>3. CASE PutSyncObject(q) \/ PutSyncDirs(q)
    BY <2>3 DEF PutSyncObject, PutSyncDirs
  <2> QED BY <1>8, <2>1, <2>2, <2>3 DEF PutStep, PutAdvance
<1>9. ASSUME NEW q \in Procs, Outsider(q) PROVE ins[p]
  BY <1>2, <1>3, <1>4, <1>9 DEF Outsider
<1>10. ASSUME NEW q \in Procs, TempPass(q) PROVE ins[p]
  BY <1>10, TempPassEffect
<1>11. CASE HeadPowerLoss
  BY <1>11 DEF HeadPowerLoss, StorePowerLoss
<1> QED BY <1>1, <1>5, <1>6, <1>7, <1>8, <1>9, <1>10, <1>11, HeadAssumption DEF HeadNext, vars

(* The replay never inserts a member it has seen in the store, or that was *)
(* there before the batch.                                                 *)
Seen(p) == job[p].idx \in Preexisting(job[p]) \/ job[p].idx <= job[p].seen

ReplayInv == \A p \in Procs : hpc[p] = "putting" /\ Seen(p) => ~ins[p]

(* What a process inside the put of a member knows of the store.           *)
LEMMA PuttingStore ==
  ASSUME OrderedInv, NEW p \in Procs, hpc[p] = "putting"
  PROVE  /\ Seen(p) => target[p] \in objs
         /\ target[p] \in objs => objs = Reached(job[p], job[p].idx)
<1> DEFINE A(k) == After(job[p].prev, job[p].items, k)
           i == job[p].idx
           s == job[p].seen
<1>1. /\ At(p) /\ Publishing /\ job[p].items \in Batches /\ job[p].prev \in HeadRec
      /\ i \in 1..Len(job[p].items) /\ Len(job[p].items) \in Nat /\ s \in Nat
      /\ DOMAIN job[p].items = 1..Len(job[p].items)
  BY PuttingFacts
<1>2. objs = Reached(job[p], i - 1) \/ objs = Reached(job[p], i)
  BY <1>1 DEF At, PublishInv
<1>3. target[p] = job[p].items[i]
  BY Known DEF LinkInv
<1>4. i \in Nat /\ i - 1 \in Nat /\ 0 \in Nat
  BY <1>1
<1>5. \A k \in Nat : /\ k >= s => Reached(job[p], k) = A(k)
                     /\ k <= s => Reached(job[p], k) = A(s)
  BY <1>1, ReachedFacts
<1>6. \A k \in Nat : job[p].prev.inv \subseteq A(k)
  BY DEF After
<1>7. \A k \in Nat : i <= k => job[p].items[i] \in A(k)
  BY <1>4, <1>1 DEF After
<1>8. A(i) = A(i - 1) \union {job[p].items[i]}
  <2>1. 1..i = 1..(i - 1) \union {i}
    BY <1>1
  <2> QED BY <2>1 DEF After
<1> HIDE DEF A
<1>9. Seen(p) => target[p] \in objs
  <2>1. CASE i \in Preexisting(job[p])
    <3>1. job[p].items[i] \in job[p].prev.inv
      BY <2>1 DEF Preexisting
    <3>2. \A k \in Nat : job[p].prev.inv \subseteq Reached(job[p], k)
      BY <1>1, <1>5, <1>6
    <3> QED BY <1>2, <1>3, <1>4, <3>1, <3>2
  <2>2. CASE i <= s
    <3>1. objs = A(s)
      BY <1>1, <1>2, <1>4, <1>5, <2>2
    <3> QED BY <1>1, <1>3, <1>7, <2>2, <3>1
  <2> QED BY <2>1, <2>2 DEF Seen
<1>10. ASSUME target[p] \in objs PROVE objs = Reached(job[p], i)
  <2>1. CASE i <= s
    BY <1>1, <1>2, <1>4, <1>5, <2>1
  <2>2. CASE ~(i <= s)
    <3>1. Reached(job[p], i) = A(i) /\ Reached(job[p], i - 1) = A(i - 1)
      BY <1>1, <1>4, <1>5, <2>2
    <3> QED BY <1>2, <1>3, <1>8, <1>10, <3>1
  <2> QED BY <2>1, <2>2
<1> QED BY <1>9, <1>10

LEMMA ReplayStep ==
  ASSUME OrderedInv, ReplayInv, [HeadNext]_vars
  PROVE  ReplayInv'
<1> SUFFICES ASSUME NEW p \in Procs, hpc'[p] = "putting", Seen(p)', ins'[p] PROVE FALSE
  BY DEF ReplayInv
<1>1. HeadInv /\ HeadTypeOK /\ StoreIInv
  BY DEF OrderedInv, HeadInv
<1>2. CASE hpc'[p] = hpc[p] /\ job'[p] = job[p]
  <2>1. hpc[p] = "putting" /\ Seen(p)
    BY <1>2 DEF Seen, Preexisting
  <2> QED BY <1>1, <2>1, WhoInserts, PuttingStore DEF ReplayInv
<1>3. CASE HeadStep(p)
  <2>1. CASE PutMember(p)
    BY <1>1, <2>1 DEF PutMember, PutStart, EnterPut, StoreIInv, StoreTypeOK
  <2>2. CASE RecoverSingle(p)
    BY <1>1, <2>2 DEF RecoverSingle, Move, To, HeadTypeOK, SyncObjectDurable, StoreIInv, StoreTypeOK
  <2> QED BY <1>1, <1>3, <2>1, <2>2, HowItMoves
<1> QED BY <1>1, <1>2, <1>3, WhoMoves

(* Recovery refuses, at its inspection or at any step of its replay, only  *)
(* what is damaged or fails the audit.                                     *)
THEOREM RecoveryRefusesOnlyDamage ==
  ASSUME Ordered, Outsiders = {}
  PROVE  HeadSpec => RefusesOnlyDamage
<1>1. HeadInit => ReplayInv
  BY DEF HeadInit, ReplayInv
<1>2. HeadSpec => []ReplayInv
  <2>1. OrderedInv /\ ReplayInv /\ [HeadNext]_vars => ReplayInv'
    BY ReplayStep
  <2> QED BY <1>1, <2>1, OrderedInvariance, PTL DEF HeadSpec
<1>3. ASSUME OrderedInv, ReplayInv, [HeadNext]_vars, NEW p \in Procs, job[p].op = "recover",
             hpc[p] # "refused", hpc'[p] = "refused", ~Damaged, Auditable
      PROVE  FALSE
  <2> DEFINE j == PendingOf(root)
  <2>1. /\ HeadInv /\ HeadTypeOK /\ StoreIInv /\ FlowInv /\ LinkInv
        /\ \A q \in Procs : ph[q] = "ok" => target[q] \in acked
    BY <1>3, Known DEF OrderedInv, BackInv
  <2>2. HeadStep(p)
    BY <1>3, <2>1, WhoMoves
  <2>3. ASSUME hpc[p] = "inspect" PROVE /\ Accepted /\ job[p].prev = root.head
                                        /\ (NoPending => Quiet)
                                        /\ root.single = Absent \/ root.batch = Absent
    <3>1. root.head # NoHead /\ (NoPending => Quiet) /\ Busy(p) /\ At(p)
      BY <1>3, <2>3, HeadExists, Known DEF Busy, ProcInv
    <3>2. ~TornJournal
      BY <1>3 DEF Damaged
    <3> QED BY <1>3, <2>3, <3>1, <3>2, OrderedRecoverable DEF At, StartInv
  <2>4. CASE RecoverNothing(p)
    BY <1>3, <2>1, <2>3, <2>4
    DEF RecoverNothing, Move, To, HeadTypeOK, Quiet, Inventory, Damaged, TornJournal
  <2>5. CASE RecoverSingle(p)
    <3>1. ~NoPending /\ root.batch.st # "intent" /\ hpc[p] = "inspect"
      BY <2>5, JournalFields DEF RecoverSingle, NoPending
    <3> QED BY <1>3, <2>1, <2>3, <2>5, <3>1
            DEF RecoverSingle, Move, To, HeadTypeOK, Accepted
  <2>6. CASE RecoverBatch(p)
    <3>1. ~NoPending /\ root.single.st # "intent" /\ hpc[p] = "inspect"
      BY <2>6, JournalFields DEF RecoverBatch, NoPending
    <3> QED BY <1>3, <2>1, <2>3, <2>6, <3>1
            DEF RecoverBatch, Move, To, HeadTypeOK, Accepted
  <2>7. ASSUME hpc[p] = "putting", ph[p] = "ok" PROVE objs = Reached(job[p], job[p].idx)
    <3>1. target[p] \in objs
      BY <2>1, <2>7 DEF StoreIInv, AckedDurable
    <3> QED BY <1>3, <2>7, <3>1, PuttingStore
  <2>8. CASE MemberDone(p)
    <3>1. hpc[p] = "putting" /\ ph[p] = "ok" /\ job[p].kind = "single"
      BY <1>3, <2>8 DEF MemberDone
    <3>2. /\ OwnJournal(p) /\ Publishing /\ job[p].idx \in 1..Len(job[p].items)
          /\ job[p].seen \in Nat /\ job[p].seen <= Len(job[p].items)
          /\ Len(job[p].items) \in Nat
      BY <1>3, <3>1, PuttingFacts
    <3>3. Len(job[p].items) = 1
      <4>1. root.single = Intent(job[p].prev, job[p].items)
        BY <3>1, <3>2 DEF OwnJournal, JournalOf
      <4> QED BY <1>3, <3>2, <4>1, Known, JournalFields DEF Publishing, WellFormed
    <3>4. job[p].idx >= job[p].seen /\ job[p].idx \in Nat
      BY <3>2, <3>3
    <3>5. objs = After(job[p].prev, job[p].items, job[p].idx)
      BY <2>7, <3>1, <3>2, <3>4, ReachedFacts
    <3> QED BY <1>3, <2>1, <2>8, <3>5
            DEF MemberDone, AuditedAfter, Inventory, To, HeadTypeOK
  <2>9. CASE ReplayDone(p)
    <3>1. hpc[p] = "putting" /\ ph[p] = "ok"
      BY <2>9 DEF ReplayDone
    <3>2. /\ job[p].idx \in 1..Len(job[p].items) /\ Len(job[p].items) \in Nat
          /\ job[p].seen \in Nat /\ job[p].seen <= Len(job[p].items)
      BY <1>3, <3>1, PuttingFacts
    <3>3. job[p].idx >= job[p].seen =>
            objs = After(job[p].prev, job[p].items, job[p].idx)
      BY <2>7, <3>1, <3>2, ReachedFacts
    <3>4. Seen(p) => ~ins[p]
      BY <1>3, <3>1 DEF ReplayInv
    <3> QED BY <1>3, <2>1, <2>9, <3>2, <3>3, <3>4
            DEF ReplayDone, AuditedAfter, Inventory, To, HeadTypeOK, Seen
  <2>10. CASE PutFailed(p)
    BY <1>3, <2>1, <2>10 DEF PutFailed, To, HeadTypeOK, StoreIInv, PutInv, Damaged
  <2> QED BY <1>3, <2>1, <2>2, <2>4, <2>5, <2>6, <2>8, <2>9, <2>10, HowItMoves
<1>4. OrderedInv /\ ReplayInv /\ [HeadNext]_vars =>
        [\A p \in Procs :
           job[p].op = "recover" /\ hpc[p] # "refused" /\ hpc'[p] = "refused" =>
             Damaged \/ ~Auditable]_vars
  BY <1>3
<1> QED BY <1>2, <1>4, OrderedInvariance, PTL DEF HeadSpec, RefusesOnlyDamage

(* A head a caller was given is never lost and never replaced, whatever    *)
(* state root a power loss brings back.                                    *)
THEOREM PromisesAreKept ==
  ASSUME Ordered, Outsiders = {}
  PROVE  HeadSpec => []PromiseKept
<1>1. OrderedInv => PromiseKept
  BY DEF OrderedInv, PromiseInv, Keeps, Anchored, PromiseKept
<1> QED BY <1>1, OrderedInvariance, PTL
=============================================================================
