------------------------------ MODULE TrustState ------------------------------
(***************************************************************************)
(* The persisted trust policy (snapshot_trust_state.rs) and the policy     *)
(* transitions it persists (snapshot_trust.rs).  A policy is a generation  *)
(* and the keys that are active and revoked under it; its identity, a hash *)
(* of all of that, stands for the policy.  The state root holds one        *)
(* identity, replaced by rename under the exclusive form of a flock that   *)
(* every gated store operation holds in its shared form until it returns.  *)
(*                                                                         *)
(* The temporary file is private to its writer and synced before the       *)
(* rename, so the state file is never torn; its name is left out.  The     *)
(* MAC is taken as ideal and the state key as the right one.               *)
(***************************************************************************)
EXTENDS Naturals, FiniteSets

CONSTANTS
  Procs,      \* threads of the host programs
  Keys,       \* Ed25519 public keys
  NoPolicy, NoProc, NoKey,
  MaxKeys,    \* SNAPSHOT_TRUST_MAX_KEYS
  MaxGen,     \* bound: generations callers ask for
  Held,       \* bound: the policies callers construct
  MaxFaults,  \* bound: errors, exits and power losses in a behaviour
  Retry,      \* processes that do nothing but repeat one rotation,
  From, To,   \* this one
  MaxCalls    \* bound: calls of the other processes, while there are any Retry

Generations == 1 .. MaxGen

(* SnapshotTrustPolicy::new: a generation other than zero and between one  *)
(* and MaxKeys different keys, each in one of two states.                  *)
Policies ==
  { P \in [gen : Generations, active : SUBSET Keys, revoked : SUBSET Keys] :
      /\ P.active \cap P.revoked = {}
      /\ Cardinality(P.active \cup P.revoked) \in 1 .. MaxKeys }

ASSUME TrustAssumption ==
  /\ NoPolicy \notin Policies /\ NoProc \notin Procs /\ NoKey \notin Keys
  /\ MaxKeys \in Nat \ {0} /\ MaxGen \in Nat \ {0}
  /\ MaxFaults \in Nat /\ MaxCalls \in Nat
  /\ Held \subseteq Policies /\ Retry \subseteq Procs

VARIABLES
  state,    \* the policy the state file names, as processes see it
  past,     \* what the name may hold after a power loss
  pc,       \* where each process is in its call
  sup,      \* the policy the caller supplied
  nxt,      \* the policy to persist
  signer,   \* the signer of a gated operation
  readers,  \* holders of the shared lock
  writer,   \* holder of the exclusive lock
  acked,    \* history: policies whose persistence was acknowledged
  faults, calls

diskVars == <<state, past>>
callVars == <<pc, sup, nxt, signer>>
lockVars == <<readers, writer>>
trustVars == <<diskVars, callVars, lockVars, acked, faults, calls>>

WriterPhases == {"initRead", "rotateRead", "create", "replace", "converge", "syncDir"}
ReaderPhases == {"gateRead", "loadRead", "operate"}
Phases == {"idle", "initLock", "rotateLock", "gateLock", "loadLock"}
            \cup WriterPhases \cup ReaderPhases

TrustInit ==
  /\ state \in Held \cup {NoPolicy} /\ past = {state}
  /\ pc = [p \in Procs |-> "idle"]
  /\ sup = [p \in Procs |-> NoPolicy]
  /\ nxt = [p \in Procs |-> NoPolicy]
  /\ signer = [p \in Procs |-> NoKey]
  /\ readers = {} /\ writer = NoProc
  /\ acked = {} /\ faults = 0 /\ calls = 0

-----------------------------------------------------------------------------
(* Transitions of policies.                                                *)

(* Revoking keeps the record of the key and changes its state.             *)
Rotated(P, g, add, revoke) ==
  [gen |-> g, active |-> (P.active \ revoke) \cup add,
   revoked |-> P.revoked \cup revoke]

(* rotate: a later generation; only known keys are revoked; a key that is  *)
(* known, active or revoked, cannot be added; and new must accept.         *)
CanRotate(P, g, add, revoke) ==
  /\ g > P.gen
  /\ revoke \subseteq P.active \cup P.revoked
  /\ add \cap (P.active \cup P.revoked) = {}
  /\ Cardinality(P.active \cup P.revoked \cup add) <= MaxKeys

Resolves(P, s) == s \in P.active

-----------------------------------------------------------------------------
(* Calls.  Each starts by opening the state root and the lock file.        *)

Idle(p) ==
  /\ pc[p] = "idle"
  /\ Retry # {} /\ p \notin Retry => calls < MaxCalls
  /\ calls' = IF Retry # {} /\ p \notin Retry THEN calls + 1 ELSE calls

Call(p, phase, P, N, s) ==
  /\ Idle(p)
  /\ pc' = [pc EXCEPT ![p] = phase]
  /\ sup' = [sup EXCEPT ![p] = P]
  /\ nxt' = [nxt EXCEPT ![p] = N]
  /\ signer' = [signer EXCEPT ![p] = s]
  /\ UNCHANGED <<diskVars, lockVars, acked, faults>>

InitializeCall(p, P) == Call(p, "initLock", P, P, NoKey)

(* The successor is computed, or refused, before anything is opened.       *)
RotateCall(p, P, g, add, revoke) ==
  /\ CanRotate(P, g, add, revoke)
  /\ Call(p, "rotateLock", P, Rotated(P, g, add, revoke), NoKey)

GateCall(p, P, s) == Call(p, "gateLock", P, NoPolicy, s)

LoadCall(p) == Call(p, "loadLock", NoPolicy, NoPolicy, NoKey)

Goto(p, phase) ==
  /\ pc' = [pc EXCEPT ![p] = phase]
  /\ UNCHANGED <<sup, nxt, signer, calls>>

LockExclusive(p) ==
  /\ pc[p] \in {"initLock", "rotateLock"}
  /\ writer = NoProc /\ readers = {}
  /\ writer' = p
  /\ Goto(p, IF pc[p] = "initLock" THEN "initRead" ELSE "rotateRead")
  /\ UNCHANGED <<diskVars, readers, acked, faults>>

LockShared(p) ==
  /\ pc[p] \in {"gateLock", "loadLock"}
  /\ writer = NoProc
  /\ readers' = readers \cup {p}
  /\ Goto(p, IF pc[p] = "gateLock" THEN "gateRead" ELSE "loadRead")
  /\ UNCHANGED <<diskVars, writer, acked, faults>>

(* The return of a call: the descriptors are dropped, the lock with them.  *)
Leave(p) ==
  /\ pc' = [pc EXCEPT ![p] = "idle"]
  /\ sup' = [sup EXCEPT ![p] = NoPolicy]
  /\ nxt' = [nxt EXCEPT ![p] = NoPolicy]
  /\ signer' = [signer EXCEPT ![p] = NoKey]
  /\ readers' = readers \ {p}
  /\ writer' = IF writer = p THEN NoProc ELSE writer
  /\ UNCHANGED calls

Refuse(p) == Leave(p) /\ UNCHANGED <<diskVars, acked, faults>>

Proceed(p, phase) == Goto(p, phase) /\ UNCHANGED <<diskVars, lockVars, acked, faults>>

-----------------------------------------------------------------------------
(* Initialization and rotation, under the exclusive lock.                  *)

InitializeInspect(p) ==
  /\ pc[p] = "initRead"
  /\ \/ state = NoPolicy /\ Proceed(p, "create")
     \/ state = nxt[p] /\ Proceed(p, "converge")
     \/ state \notin {NoPolicy, nxt[p]} /\ Refuse(p)

(* Fault: staleness is tested before convergence.                          *)
RotateInspectStaleFirst(p) ==
  /\ pc[p] = "rotateRead"
  /\ \/ state = sup[p] /\ Proceed(p, "replace")
     \/ state # sup[p] /\ Refuse(p)

(* Fault: any initialized state is replaced.                               *)
RotateInspectBlind(p) ==
  /\ pc[p] = "rotateRead"
  /\ \/ state = nxt[p] /\ Proceed(p, "converge")
     \/ state \notin {NoPolicy, nxt[p]} /\ Proceed(p, "replace")
     \/ state = NoPolicy /\ Refuse(p)

(* Fault: convergence compares generations, not identities.                *)
RotateInspectByGeneration(p) ==
  /\ pc[p] = "rotateRead"
  /\ \/ state # NoPolicy /\ state.gen = nxt[p].gen /\ Proceed(p, "converge")
     \/ state = sup[p] /\ Proceed(p, "replace")
     \/ (state = NoPolicy \/ state \notin {sup[p], nxt[p]}) /\ Refuse(p)

(* The exact retry converges; a state that is neither the caller's current *)
(* policy nor the successor is stale; no state is not initialized.         *)
RotateInspect(p) ==
  /\ pc[p] = "rotateRead"
  /\ \/ state = nxt[p] /\ Proceed(p, "converge")
     \/ state = sup[p] /\ Proceed(p, "replace")
     \/ state \notin {sup[p], nxt[p]} /\ Refuse(p)

(* install_temp: RENAME_NOREPLACE for the first state, rename later.       *)
Install(p) ==
  /\ pc[p] = "replace" \/ (pc[p] = "create" /\ state = NoPolicy)
  /\ state' = nxt[p]
  /\ past' = past \cup {nxt[p]}
  /\ Goto(p, "syncDir")
  /\ UNCHANGED <<lockVars, acked, faults>>

(* The fsync of the existing file; its data was synced before its rename.  *)
Converge(p) == pc[p] = "converge" /\ Proceed(p, "syncDir")

(* Fault: success is reported without the fsync of the directory.          *)
SyncDirSkipped(p) ==
  /\ pc[p] = "syncDir"
  /\ acked' = acked \cup {nxt[p]}
  /\ Leave(p)
  /\ UNCHANGED <<diskVars, faults>>

SyncDir(p) ==
  /\ pc[p] = "syncDir"
  /\ past' = {state}
  /\ acked' = acked \cup {nxt[p]}
  /\ Leave(p)
  /\ UNCHANGED <<state, faults>>

-----------------------------------------------------------------------------
(* Readers.                                                                *)

Load(p) == pc[p] = "loadRead" /\ Refuse(p)

(* lock_shared_and_validate, then resolve_active, then the store.          *)
GateInspect(p) ==
  /\ pc[p] = "gateRead"
  /\ \/ state = sup[p] /\ Resolves(sup[p], signer[p]) /\ Proceed(p, "operate")
     \/ state = sup[p] /\ ~Resolves(sup[p], signer[p]) /\ Refuse(p)
     \/ state # sup[p] /\ Refuse(p)

(* The durable put or the materialization returns, with success or not.    *)
Operated(p) == pc[p] = "operate" /\ Refuse(p)

-----------------------------------------------------------------------------
(* Faults.                                                                 *)

Strike == faults < MaxFaults /\ faults' = faults + 1

(* A system call of a writer or a reader fails, or its process ends: the   *)
(* lock goes, what was renamed stays.                                      *)
Abandon(p) ==
  /\ pc[p] # "idle" /\ Strike
  /\ Leave(p)
  /\ UNCHANGED <<diskVars, acked>>

PowerLoss ==
  /\ Strike
  /\ \E r \in past : state' = r /\ past' = {r}
  /\ pc' = [p \in Procs |-> "idle"]
  /\ sup' = [p \in Procs |-> NoPolicy]
  /\ nxt' = [p \in Procs |-> NoPolicy]
  /\ signer' = [p \in Procs |-> NoKey]
  /\ readers' = {} /\ writer' = NoProc
  /\ UNCHANGED <<acked, calls>>

-----------------------------------------------------------------------------
Step(p) ==
  \/ LockExclusive(p) \/ LockShared(p)
  \/ InitializeInspect(p) \/ RotateInspect(p)
  \/ Install(p) \/ Converge(p) \/ SyncDir(p)
  \/ Load(p) \/ GateInspect(p) \/ Operated(p)

Rotation(p) ==
  /\ pc[p] = "idle"
  /\ \E P, N \in Held : \E add \in SUBSET N.active, revoke \in SUBSET N.revoked :
       /\ N = Rotated(P, N.gen, add, revoke)
       /\ p \in Retry => P = From /\ N = To
       /\ RotateCall(p, P, N.gen, add, revoke)

TrustNext ==
  \/ \E p \in Procs :
       \/ Step(p) \/ Abandon(p) \/ Rotation(p)
       \/ /\ p \notin Retry
          /\ \/ \E P \in Held : InitializeCall(p, P)
             \/ \E P \in Held, s \in Keys : GateCall(p, P, s)
             \/ LoadCall(p)
  \/ PowerLoss

TrustSpec == TrustInit /\ [][TrustNext]_trustVars

(* A call in progress goes on, and the retrying callers call again.  flock *)
(* is not fair to a writer; MaxCalls keeps the shared holders finite.      *)
TrustLiveSpec ==
  /\ TrustSpec
  /\ \A p \in Procs : WF_trustVars(Step(p))
  /\ \A p \in Retry : WF_trustVars(Rotation(p))

-----------------------------------------------------------------------------
(* Every variable keeps its type; in particular a key is never active and  *)
(* revoked in one persisted policy, whatever sequence of rotations led to  *)
(* it, and the lock is held exactly by the calls in the phases under it.   *)
TrustTypeOK ==
  /\ state \in Policies \cup {NoPolicy}
  /\ past \subseteq Policies \cup {NoPolicy} /\ state \in past
  /\ pc \in [Procs -> Phases]
  /\ sup \in [Procs -> Policies \cup {NoPolicy}]
  /\ nxt \in [Procs -> Policies \cup {NoPolicy}]
  /\ signer \in [Procs -> Keys \cup {NoKey}]
  /\ readers = {p \in Procs : pc[p] \in ReaderPhases}
  /\ writer \in Procs \cup {NoProc}
  /\ \A p \in Procs : pc[p] \in WriterPhases <=> writer = p
  /\ acked \subseteq Policies
  /\ faults \in 0 .. MaxFaults /\ calls \in 0 .. MaxCalls

(* A rotation cannot overtake an operation the gate has accepted: until    *)
(* the operation returns, the persisted policy is the one it was accepted  *)
(* under (the doc of store_snapshot_archive_persisted_trust_...).          *)
RotationWaits ==
  \A p \in Procs : pc[p] = "operate" => state = sup[p] /\ Resolves(state, signer[p])

(* Once a rotation that revokes a key was acknowledged, no gated operation *)
(* runs under that key again: not with an older policy, not after further  *)
(* rotations by callers that never knew of the revocation, not after a     *)
(* power loss.                                                             *)
RevokedStayOut ==
  \A p \in Procs, a \in acked : pc[p] = "operate" => signer[p] \notin a.revoked

(* r is a or comes after it: a later generation that keeps a's revocations.*)
Follows(r, a) ==
  r = a \/ (r \in Policies /\ r.gen > a.gen /\ a.revoked \subseteq r.revoked)

(* What was acknowledged is not rolled back: whatever a power loss may     *)
(* leave under the state's name follows every acknowledged policy.         *)
AckedNotRolledBack == \A a \in acked, r \in past : Follows(r, a)

(* Acknowledged policies form one line: of two callers that rotate the     *)
(* same policy differently at most one is told it succeeded.               *)
OneLine == \A a, b \in acked : a # b => a.gen # b.gen

(* An exact retry of a rotation converges: while the persisted policy is   *)
(* its predecessor or already its successor, the caller that repeats it is *)
(* acknowledged in the end, although its calls fail, die half way or lose  *)
(* power, unless another rotation takes the state somewhere else.          *)
RetriedRotationConverges ==
  state \in {From, To} ~> (To \in acked \/ state \notin {From, To})
=============================================================================
