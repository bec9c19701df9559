-------------------------- MODULE TrustStateProofs --------------------------
(***************************************************************************)
(* Proofs about TrustState for any processes, keys and policies.  The      *)
(* persisted policy only changes under the exclusive lock, and only to a   *)
(* policy that follows the one read under that lock; what the name may     *)
(* still hold after a power loss follows every acknowledged policy.        *)
(***************************************************************************)
EXTENDS TrustState, TLAPS

(* What a call knows of the state file and of its successor.               *)
CallInv ==
  \A p \in Procs :
    /\ pc[p] \in {"initLock", "initRead", "create"} => nxt[p] \in Policies
    /\ pc[p] \in {"rotateLock", "rotateRead", "replace"} =>
         /\ nxt[p] \in Policies /\ sup[p] \in Policies
         /\ Follows(nxt[p], sup[p])
    /\ pc[p] = "create" => state = NoPolicy
    /\ pc[p] = "replace" => state = sup[p]
    /\ pc[p] \in {"converge", "syncDir"} => nxt[p] \in Policies /\ state = nxt[p]

(* Of two acknowledged policies one follows the other.                     *)
Line == \A a, b \in acked : Follows(a, b) \/ Follows(b, a)

(* flock: an exclusive holder excludes every shared one.                   *)
Exclusive == writer # NoProc => readers = {}

TrustInv ==
  /\ TrustTypeOK
  /\ Exclusive
  /\ CallInv
  /\ Line
  /\ AckedNotRolledBack
  /\ RotationWaits

-----------------------------------------------------------------------------
(* The parts of a policy that SnapshotTrustPolicy::new guarantees.         *)
LEMMA PolicyParts ==
  ASSUME NEW P \in Policies
  PROVE  /\ P.gen \in Nat
         /\ P.active \cap P.revoked = {}
  BY TrustAssumption DEF Policies, Generations

(* To follow is transitive: revocations accumulate along generations.      *)
LEMMA FollowsTransitive ==
  ASSUME NEW a \in Policies, NEW b \in Policies, NEW c \in Policies,
         Follows(b, a), Follows(c, b)
  PROVE  Follows(c, a)
  BY PolicyParts DEF Follows

(* A rotation yields a policy that follows the one it rotates.             *)
LEMMA RotationFollows ==
  ASSUME NEW P \in Policies, NEW N \in Policies, NEW g, NEW add, NEW revoke,
         CanRotate(P, g, add, revoke), N = Rotated(P, g, add, revoke)
  PROVE  Follows(N, P)
  BY DEF Follows, Rotated, CanRotate

-----------------------------------------------------------------------------
LEMMA TrustInitInv == TrustInit => TrustInv
  BY TrustAssumption
  DEF TrustInit, TrustInv, TrustTypeOK, CallInv, Line, AckedNotRolledBack,
      RotationWaits, Exclusive, Phases, WriterPhases, ReaderPhases

(* The start of a call touches nothing another process reads.              *)
LEMMA CallsPreserve ==
  ASSUME TrustInv, NEW p \in Procs, NEW phase, NEW P, NEW N, NEW s,
         Call(p, phase, P, N, s),
         phase \in {"initLock", "rotateLock", "gateLock", "loadLock"},
         P \in Policies \cup {NoPolicy}, N \in Policies \cup {NoPolicy},
         s \in Keys \cup {NoKey},
         phase = "initLock" => N \in Policies,
         phase = "rotateLock" => N \in Policies /\ P \in Policies /\ Follows(N, P)
  PROVE  TrustInv'
<1> USE DEF TrustInv
<1>1. TrustTypeOK' /\ Exclusive'
  BY TrustAssumption
  DEF TrustTypeOK, Exclusive, Call, Idle, Phases, WriterPhases, ReaderPhases, diskVars, lockVars
<1>2. CallInv'
  BY DEF CallInv, Call, TrustTypeOK, diskVars, Follows
<1>3. Line' /\ AckedNotRolledBack'
  BY DEF Line, AckedNotRolledBack, Call, diskVars, Follows
<1>4. RotationWaits'
  BY DEF RotationWaits, Call, TrustTypeOK, diskVars, Resolves
<1> QED BY <1>1, <1>2, <1>3, <1>4

(* The return of a call that changes nothing on disk.                      *)
LEMMA LeavePreserves ==
  ASSUME TrustInv, NEW p \in Procs, Leave(p), UNCHANGED <<diskVars, acked>>,
         faults' \in 0 .. MaxFaults
  PROVE  TrustInv'
<1> USE DEF TrustInv
<1>1. TrustTypeOK' /\ Exclusive'
  BY TrustAssumption
  DEF TrustTypeOK, Exclusive, Leave, Phases, WriterPhases, ReaderPhases, diskVars
<1>2. CallInv'
  BY DEF CallInv, Leave, TrustTypeOK, diskVars, Follows
<1>3. Line' /\ AckedNotRolledBack'
  BY DEF Line, AckedNotRolledBack, diskVars, Follows
<1>4. RotationWaits'
  BY DEF RotationWaits, Leave, TrustTypeOK, diskVars, Resolves
<1> QED BY <1>1, <1>2, <1>3, <1>4

LEMMA LocksPreserve ==
  ASSUME TrustInv, NEW p \in Procs, LockExclusive(p) \/ LockShared(p)
  PROVE  TrustInv'
<1> USE DEF TrustInv
<1>1. TrustTypeOK' /\ Exclusive'
  <2>1. CASE LockExclusive(p)
    BY <2>1, TrustAssumption
    DEF TrustTypeOK, Exclusive, LockExclusive, Goto, Phases, WriterPhases, ReaderPhases, diskVars
  <2>2. CASE LockShared(p)
    BY <2>2, TrustAssumption
    DEF TrustTypeOK, Exclusive, LockShared, Goto, Phases, WriterPhases, ReaderPhases, diskVars
  <2> QED BY <2>1, <2>2
<1>2. CallInv'
  BY DEF CallInv, LockExclusive, LockShared, Goto, TrustTypeOK, diskVars, Follows
<1>3. Line' /\ AckedNotRolledBack'
  BY DEF Line, AckedNotRolledBack, LockExclusive, LockShared, diskVars, Follows
<1>4. RotationWaits'
  BY DEF RotationWaits, LockExclusive, LockShared, Goto, TrustTypeOK, diskVars, Resolves
<1> QED BY <1>1, <1>2, <1>3, <1>4

(* A step to a phase under the same lock, with what that phase knows.      *)
LEMMA ProceedPreserves ==
  ASSUME TrustInv, NEW p \in Procs, NEW phase, Proceed(p, phase),
         \/ phase \in WriterPhases /\ pc[p] \in WriterPhases
         \/ phase \in ReaderPhases /\ pc[p] \in ReaderPhases,
         phase \in {"create", "replace", "converge", "syncDir", "operate"},
         phase = "create" => nxt[p] \in Policies /\ state = NoPolicy,
         phase = "replace" =>
           /\ nxt[p] \in Policies /\ sup[p] \in Policies
           /\ Follows(nxt[p], sup[p]) /\ state = sup[p],
         phase \in {"converge", "syncDir"} => nxt[p] \in Policies /\ state = nxt[p],
         phase = "operate" => state = sup[p] /\ Resolves(state, signer[p])
  PROVE  TrustInv'
<1> USE DEF TrustInv
<1>1. TrustTypeOK' /\ Exclusive'
  BY TrustAssumption
  DEF TrustTypeOK, Exclusive, Proceed, Goto, Phases, WriterPhases, ReaderPhases, diskVars, lockVars
<1>2. CallInv'
  BY DEF CallInv, Proceed, Goto, TrustTypeOK, diskVars, Follows
<1>3. Line' /\ AckedNotRolledBack'
  BY DEF Line, AckedNotRolledBack, Proceed, diskVars, Follows
<1>4. RotationWaits'
  BY DEF RotationWaits, Proceed, Goto, TrustTypeOK, diskVars, Resolves
<1> QED BY <1>1, <1>2, <1>3, <1>4

(* The rename: the state read under the exclusive lock is still there, so  *)
(* the successor follows it and everything acknowledged before.            *)
LEMMA InstallPreserves ==
  ASSUME TrustInv, NEW p \in Procs, Install(p)
  PROVE  TrustInv'
<1> USE DEF TrustInv
<1>1. /\ nxt[p] \in Policies /\ pc[p] \in WriterPhases
      /\ state = NoPolicy \/ (state \in Policies /\ Follows(nxt[p], state))
  BY DEF Install, CallInv, WriterPhases
<1>2. TrustTypeOK' /\ Exclusive'
  BY <1>1, TrustAssumption
  DEF TrustTypeOK, Exclusive, Install, Goto, Phases, WriterPhases, ReaderPhases, lockVars
<1>3. CallInv'
  <2>1. \A q \in Procs : q # p => pc[q] \notin WriterPhases
    BY <1>1 DEF TrustTypeOK
  <2> QED BY <1>1, <2>1 DEF CallInv, Install, Goto, TrustTypeOK, WriterPhases, Follows
<1>4. \A a \in acked : Follows(nxt[p], a)
  <2> SUFFICES ASSUME NEW a \in acked PROVE Follows(nxt[p], a)
    OBVIOUS
  <2>1. a \in Policies /\ state \in past /\ Follows(state, a)
    BY DEF TrustTypeOK, AckedNotRolledBack
  <2>2. state # NoPolicy
    BY <2>1, TrustAssumption DEF Follows
  <2> QED BY <1>1, <2>1, <2>2, FollowsTransitive
<1>5. AckedNotRolledBack'
  <2> SUFFICES ASSUME NEW a \in acked, NEW r \in past \cup {nxt[p]}
               PROVE  Follows(r, a)
    BY DEF AckedNotRolledBack, Install, Follows
  <2> QED BY <1>4 DEF AckedNotRolledBack
<1>6. Line'
  BY DEF Line, Install, Follows
<1>7. RotationWaits'
  <2>1. \A q \in Procs : pc[q] # "operate"
    BY <1>1, TrustAssumption DEF TrustTypeOK, Exclusive, WriterPhases, ReaderPhases
  <2> QED BY <2>1 DEF RotationWaits, Install, Goto, TrustTypeOK
<1> QED BY <1>2, <1>3, <1>5, <1>6, <1>7

(* The fsync of the directory and the acknowledgement.                     *)
LEMMA SyncDirPreserves ==
  ASSUME TrustInv, NEW p \in Procs, SyncDir(p)
  PROVE  TrustInv'
<1> USE DEF TrustInv
<1>1. nxt[p] \in Policies /\ state = nxt[p] /\ state \in past
  BY DEF SyncDir, CallInv, TrustTypeOK
<1>2. TrustTypeOK' /\ Exclusive'
  BY <1>1, TrustAssumption
  DEF TrustTypeOK, Exclusive, SyncDir, Leave, Phases, WriterPhases, ReaderPhases
<1>3. CallInv'
  BY DEF CallInv, SyncDir, Leave, TrustTypeOK, Follows
<1>4. \A a \in acked : Follows(state, a)
  BY <1>1 DEF AckedNotRolledBack
<1>5. Follows(state, state)
  BY DEF Follows
<1>6. AckedNotRolledBack'
  <2> SUFFICES ASSUME NEW a \in acked \cup {nxt[p]} PROVE Follows(state, a)
    BY DEF AckedNotRolledBack, SyncDir, Follows
  <2> QED BY <1>1, <1>4, <1>5
<1>7. Line'
  <2> SUFFICES ASSUME NEW a \in acked \cup {state}, NEW b \in acked \cup {state}
               PROVE  Follows(a, b) \/ Follows(b, a)
    BY <1>1 DEF Line, SyncDir, Follows
  <2> QED BY <1>4, <1>5 DEF Line
<1>8. RotationWaits'
  BY DEF RotationWaits, SyncDir, Leave, TrustTypeOK, Resolves
<1> QED BY <1>2, <1>3, <1>6, <1>7, <1>8

LEMMA PowerLossPreserves ==
  ASSUME TrustInv, PowerLoss
  PROVE  TrustInv'
<1> USE DEF TrustInv
<1>1. PICK r \in past : state' = r /\ past' = {r}
  BY DEF PowerLoss
<1>2. TrustTypeOK' /\ Exclusive'
  BY <1>1, TrustAssumption
  DEF TrustTypeOK, Exclusive, PowerLoss, Strike, Phases, WriterPhases, ReaderPhases
<1>3. CallInv' /\ RotationWaits'
  BY DEF CallInv, RotationWaits, PowerLoss
<1>4. AckedNotRolledBack'
  BY <1>1 DEF AckedNotRolledBack, PowerLoss, Follows
<1>5. Line'
  BY DEF Line, PowerLoss, Follows
<1> QED BY <1>2, <1>3, <1>4, <1>5

-----------------------------------------------------------------------------
LEMMA StepsPreserve ==
  ASSUME TrustInv, NEW p \in Procs, Step(p)
  PROVE  TrustInv'
<1> USE DEF TrustInv
<1>0. faults \in 0 .. MaxFaults
  BY DEF TrustTypeOK
<1>r. ASSUME Refuse(p) PROVE TrustInv'
  BY <1>0, <1>r, LeavePreserves DEF Refuse
<1>1. CASE LockExclusive(p) \/ LockShared(p)
  BY <1>1, LocksPreserve
<1>2. CASE InitializeInspect(p)
  <2>1. pc[p] \in WriterPhases /\ nxt[p] \in Policies
    BY <1>2 DEF InitializeInspect, CallInv, WriterPhases
  <2>2. CASE state = NoPolicy /\ Proceed(p, "create")
    BY <2>1, <2>2, ProceedPreserves DEF WriterPhases
  <2>3. CASE state = nxt[p] /\ Proceed(p, "converge")
    BY <2>1, <2>3, ProceedPreserves DEF WriterPhases
  <2> QED BY <1>2, <1>r, <2>2, <2>3 DEF InitializeInspect
<1>3. CASE RotateInspect(p)
  <2>1. /\ pc[p] \in WriterPhases /\ nxt[p] \in Policies /\ sup[p] \in Policies
        /\ Follows(nxt[p], sup[p])
    BY <1>3 DEF RotateInspect, CallInv, WriterPhases
  <2>2. CASE state = nxt[p] /\ Proceed(p, "converge")
    BY <2>1, <2>2, ProceedPreserves DEF WriterPhases
  <2>3. CASE state = sup[p] /\ Proceed(p, "replace")
    BY <2>1, <2>3, ProceedPreserves DEF WriterPhases
  <2> QED BY <1>3, <1>r, <2>2, <2>3 DEF RotateInspect
<1>4. CASE Install(p)
  BY <1>4, InstallPreserves
<1>5. CASE Converge(p)
  <2>1. pc[p] \in WriterPhases /\ nxt[p] \in Policies /\ state = nxt[p]
    BY <1>5 DEF Converge, CallInv, WriterPhases
  <2> QED BY <1>5, <2>1, ProceedPreserves DEF Converge, WriterPhases
<1>6. CASE SyncDir(p)
  BY <1>6, SyncDirPreserves
<1>7. CASE Load(p) \/ Operated(p)
  BY <1>7, <1>r DEF Load, Operated
<1>8. CASE GateInspect(p)
  <2>1. pc[p] \in ReaderPhases
    BY <1>8 DEF GateInspect, ReaderPhases
  <2>2. CASE state = sup[p] /\ Resolves(sup[p], signer[p]) /\ Proceed(p, "operate")
    BY <2>1, <2>2, ProceedPreserves DEF ReaderPhases
  <2> QED BY <1>8, <1>r, <2>2 DEF GateInspect
<1> QED BY <1>1, <1>2, <1>3, <1>4, <1>5, <1>6, <1>7, <1>8 DEF Step

LEMMA NextPreserves ==
  ASSUME TrustInv, [TrustNext]_trustVars
  PROVE  TrustInv'
<1>1. CASE UNCHANGED trustVars
  BY <1>1 DEF TrustInv, trustVars, diskVars, callVars, lockVars, TrustTypeOK, Exclusive, CallInv,
              Line, AckedNotRolledBack, RotationWaits, Follows, Resolves
<1>2. CASE PowerLoss
  BY <1>2, PowerLossPreserves
<1>3. ASSUME NEW p \in Procs, Step(p) PROVE TrustInv'
  BY <1>3, StepsPreserve
<1>4. ASSUME NEW p \in Procs, Abandon(p) PROVE TrustInv'
  <2>1. faults' \in 0 .. MaxFaults
    BY <1>4, TrustAssumption DEF Abandon, Strike, TrustInv, TrustTypeOK
  <2> QED BY <1>4, <2>1, LeavePreserves DEF Abandon
<1>5. ASSUME NEW p \in Procs, Rotation(p) PROVE TrustInv'
  <2>1. PICK P \in Held, N \in Held : \E add \in SUBSET N.active, revoke \in SUBSET N.revoked :
          N = Rotated(P, N.gen, add, revoke) /\ RotateCall(p, P, N.gen, add, revoke)
    BY <1>5 DEF Rotation
  <2>2. PICK add \in SUBSET N.active, revoke \in SUBSET N.revoked :
          N = Rotated(P, N.gen, add, revoke) /\ RotateCall(p, P, N.gen, add, revoke)
    BY <2>1
  <2>3. P \in Policies /\ N \in Policies /\ CanRotate(P, N.gen, add, revoke)
    BY <2>2, TrustAssumption DEF RotateCall
  <2>4. Follows(N, P)
    BY <2>2, <2>3, RotationFollows
  <2>5. Call(p, "rotateLock", P, N, NoKey)
    BY <2>2 DEF RotateCall
  <2> QED BY <2>3, <2>4, <2>5, CallsPreserve
<1>6. ASSUME NEW p \in Procs, NEW P \in Held, InitializeCall(p, P) PROVE TrustInv'
  BY <1>6, CallsPreserve, TrustAssumption DEF InitializeCall
<1>7. ASSUME NEW p \in Procs, NEW P \in Held, NEW s \in Keys, GateCall(p, P, s)
      PROVE  TrustInv'
  BY <1>7, CallsPreserve, TrustAssumption DEF GateCall
<1>8. ASSUME NEW p \in Procs, LoadCall(p) PROVE TrustInv'
  BY <1>8, CallsPreserve DEF LoadCall
<1> QED BY <1>1, <1>2, <1>3, <1>4, <1>5, <1>6, <1>7, <1>8 DEF TrustNext

-----------------------------------------------------------------------------
(* The inductive invariant holds in every reachable state.                 *)
THEOREM TrustInvariance == TrustSpec => []TrustInv
  BY TrustInitInv, NextPreserves, PTL DEF TrustSpec

(* Every variable keeps its type, and locks and phases agree.              *)
THEOREM TrustTypeCorrect == TrustSpec => []TrustTypeOK
  BY TrustInvariance, PTL DEF TrustInv

(* What the rotation or the initialization acknowledged is never rolled    *)
(* back, by a power loss neither.                                          *)
THEOREM AcknowledgedStays == TrustSpec => []AckedNotRolledBack
  BY TrustInvariance, PTL DEF TrustInv

(* No rotation overtakes an operation that the gate has accepted.          *)
THEOREM GateHolds == TrustSpec => []RotationWaits
  BY TrustInvariance, PTL DEF TrustInv

(* No gated operation runs under a key an acknowledged policy revokes.     *)
THEOREM RevocationIsFinal == TrustSpec => []RevokedStayOut
<1>1. TrustInv => RevokedStayOut
  <2> SUFFICES ASSUME TrustInv, NEW p \in Procs, NEW a \in acked, pc[p] = "operate"
               PROVE  signer[p] \notin a.revoked
    BY DEF RevokedStayOut
  <2>1. state = sup[p] /\ signer[p] \in state.active
    BY DEF TrustInv, RotationWaits, Resolves
  <2>2. a \in Policies /\ Follows(state, a)
    BY DEF TrustInv, TrustTypeOK, AckedNotRolledBack
  <2>3. state \in Policies /\ a.revoked \subseteq state.revoked
    BY <2>2 DEF Follows
  <2> QED BY <2>1, <2>3, PolicyParts
<1> QED BY <1>1, TrustInvariance, PTL

(* Two acknowledged policies never share a generation.                     *)
THEOREM AcknowledgedInOneLine == TrustSpec => []OneLine
<1>1. TrustInv => OneLine
  <2> SUFFICES ASSUME TrustInv, NEW a \in acked, NEW b \in acked, a # b
               PROVE  a.gen # b.gen
    BY DEF OneLine
  <2>1. a \in Policies /\ b \in Policies
    BY DEF TrustInv, TrustTypeOK
  <2>2. a.gen \in Nat /\ b.gen \in Nat
    BY <2>1, PolicyParts
  <2> QED BY <2>2 DEF TrustInv, Line, Follows
<1> QED BY <1>1, TrustInvariance, PTL
=============================================================================
