-------------------------- MODULE PidLifecycleProofs --------------------------
(***************************************************************************)
(* Supervision of a run, for every set of processes the target may fork,   *)
(* every bound and every combination of controls (PidLifecycle): nobody    *)
(* survives, the documented priority holds, and the outcome is the truth.  *)
(*                                                                         *)
(* PidInv is the inductive invariant.  Why the tree is empty when wait4    *)
(* says ECHILD is the heart of it: PID 1 only sees its own children, so it *)
(* needs that following parents from any process that is not reaped leads  *)
(* to PID 1, across forks, exits and reaping in any order.                 *)
(***************************************************************************)
EXTENDS PidLifecycle, TLAPS

(* The tree below PID 1, while PID 1 lives: the parent of a process that   *)
(* is not yet reaped is PID 1 or alive, and following parents leaves every *)
(* set of such processes (there is no cycle).                              *)
ParentAlive == \A q \in Tree : ~Gone(q) => parent[q] = Init \/ Alive(parent[q])

Rooted ==
  \A S \in SUBSET Tree :
    S # {} /\ (\A q \in S : ~Gone(q)) => \E q \in S : parent[q] \notin S

TreeInv ==
  /\ parent[Target] = Init
  /\ pc # "dead" => ParentAlive /\ Rooted

(* When the tree is known to be empty.                                     *)
EndInv ==
  /\ pc \in {"publish", "ready"} \/ record.ready \/ boot = "exit" => Empty
  /\ record.ready \/ boot = "exit" => pc = "dead"
  /\ host = "done" => boot = "exit"

(* Who may own the result, by the place of PID 1.                          *)
OwnerInv ==
  /\ pc \in {"fork", "close", "arm", "poll", "arbitrate"} => owner = "none" /\ ~record.ready
  /\ pc \in {"fork", "close", "arm"} => revents = {}
  /\ pc = "arbitrate" =>
       /\ "limit" \notin revents
       /\ early \/ "target" \in revents => life[Target] = "zombie"
  /\ pc = "kill" => owner # "natural"
  /\ pc \in {"publish", "ready"} \/ record.ready => owner # "none"
  /\ PriorityKept

(* An event that was seen has happened, and none is ever taken back.       *)
EventInv ==
  /\ "deadline" \in revents \/ owner = "deadline" => timer
  /\ "cancel" \in revents \/ owner = "cancel" => cancelled
  /\ "limit" \in revents \/ owner = "limit" => limited
  /\ limited => Exceeded

(* The target's wait status: its own, unless PID 1 killed it first.        *)
StatusInv ==
  /\ pc \in {"fork", "close", "arm", "poll", "arbitrate", "kill"} => doomed = {}
  /\ pc \in {"sweep", "reap", "publish", "ready"} => life[Target] = "gone"
  /\ life[Target] = "zombie" \/ pc \in {"sweep", "reap", "publish", "ready"} \/ record.ready =>
       status \in {"own", "kill"}
  /\ status = "kill" => Target \in doomed
  /\ owner = "natural" => Target \notin doomed
  /\ life[Target] = "failed" => launchErr
  /\ life[Target] = "live" => execd
  /\ status = "own" => launchErr \/ execd

(* The record, and what the host makes of it.                              *)
RecordInv ==
  /\ pc = "ready" \/ record.ready => record.flag = owner /\ record.status = status
  /\ outcome # "none" => host = "done"
  /\ outcome \notin {"none", "Error"} => record.ready
  /\ HonestOutcome

CountInv == pipe + observed <= written

PidInv ==
  PidTypeOK /\ CountInv /\ TreeInv /\ EndInv /\ OwnerInv /\ EventInv /\ StatusInv /\ RecordInv

-----------------------------------------------------------------------------
LEMMA DoomedInTree == PidInv => doomed \subseteq Tree
  BY DEF PidInv, PidTypeOK

(* A PID 1 without children has no descendants: kill_and_reap_remaining    *)
(* may stop at ECHILD.                                                     *)
LEMMA ChildlessIsEmpty ==
  ASSUME PidTypeOK, ParentAlive, Rooted, Children = {}
  PROVE  Empty
<1> DEFINE S == {q \in Tree : ~Gone(q)}
<1>1. CASE S = {}
  BY <1>1 DEF Empty
<1>2. CASE S # {}
  <2>1. PICK q \in S : parent[q] \notin S
    BY <1>2 DEF Rooted
  <2>2. parent[q] # Init
    BY <2>1 DEF Children
  <2>3. Alive(parent[q]) /\ parent[q] \in Tree
    BY <2>1, <2>2 DEF ParentAlive, PidTypeOK
  <2>4. QED
    BY <2>1, <2>3 DEF Alive, Gone
<1>3. QED
  BY <1>1, <1>2

LEMMA InvInit == PidInit => PidInv
<1> SUFFICES ASSUME PidInit PROVE PidInv
  OBVIOUS
<1> USE PidAssumption DEF PidInit, Tree
<1>1. PidTypeOK /\ CountInv
  <2>1. controls \subseteq Controls
    OBVIOUS
  <2>2. {execd, timer, cancelled, limited, armed, early, launchErr, readOk} \subseteq BOOLEAN
    OBVIOUS
  <2>3. host \in {"read", "wait", "done"}
    OBVIOUS
  <2>4. QED
    BY <2>1, <2>2, <2>3 DEF PidTypeOK, CountInv, Owners
<1>2. TreeInv /\ EndInv
  BY DEF TreeInv, ParentAlive, Rooted, EndInv, Gone, Empty
<1>3. OwnerInv /\ EventInv
  BY DEF OwnerInv, PriorityKept, EventInv
<1>4. StatusInv /\ RecordInv
  BY DEF StatusInv, RecordInv, HonestOutcome
<1>5. QED
  BY <1>1, <1>2, <1>3, <1>4 DEF PidInv

(* Types.  observed stays below MaxOutput because a read takes from the    *)
(* pipe only what was written (CountInv).                                  *)
LEMMA TypeStep ==
  ASSUME PidInv, [PidNext]_pidVars
  PROVE  PidTypeOK'
<1> USE PidAssumption DEF treeVars, eventVars, initVars, hostVars, pipeVars,
  Keeps, Goto, PidTypeOK, CountInv, Owners, Tree
<1>0. PidTypeOK /\ CountInv
  BY DEF PidInv
<1>1. CASE ForkTarget
  BY <1>0, <1>1 DEF ForkTarget
<1>2. CASE CloseInherited
  BY <1>0, <1>2 DEF CloseInherited, Supervised
<1>3. CASE Arm
  BY <1>0, <1>3 DEF Arm
<1>4. CASE Poll
  BY <1>0, <1>4 DEF Poll, Ready
<1>5. CASE Arbitrate
  BY <1>0, <1>5 DEF Arbitrate
<1>6. CASE Terminate
  BY <1>0, <1>6 DEF Terminate
<1>7. CASE WaitTarget
  BY <1>0, <1>7 DEF WaitTarget
<1>8. CASE Sweep
  BY <1>0, <1>8 DEF Sweep
<1>9. CASE ReapOne
  BY <1>0, <1>9 DEF ReapOne, ReapChild, Children
<1>10. CASE Converged
  BY <1>0, <1>10 DEF Converged, Children
<1>11. CASE Publish
  BY <1>0, <1>11, ZenonT(60) DEF Publish
<1>12. CASE PublishReady
  BY <1>0, <1>12, ZenonT(60) DEF PublishReady
<1>13. CASE BootClose
  BY <1>0, <1>13 DEF BootClose
<1>14. CASE BootExit
  BY <1>0, <1>14 DEF BootExit
<1>15. CASE HostRead
  BY <1>0, <1>15 DEF HostRead, Exceeded
<1>16. CASE HostEof
  BY <1>0, <1>16 DEF HostEof, Eof
<1>17. CASE HostDecide
  BY <1>0, <1>17 DEF HostDecide, Resolve
<1>18. CASE DeadlinePasses
  BY <1>0, <1>18 DEF DeadlinePasses
<1>19. CASE TargetExec
  BY <1>0, <1>19 DEF TargetExec
<1>20. CASE TargetSetupFails
  BY <1>0, <1>20 DEF TargetSetupFails
<1>21. CASE Cancel
  BY <1>0, <1>21 DEF Cancel
<1>22. CASE InitKilled
  BY <1>0, <1>22 DEF InitKilled
<1>23. CASE CloseFails
  BY <1>0, <1>23 DEF CloseFails
<1>24. CASE InitFails
  BY <1>0, <1>24 DEF InitFails
<1>25. CASE BootCloseFails
  BY <1>0, <1>25 DEF BootCloseFails
<1>26. CASE HostReadFails
  <2>1. readOk' \in BOOLEAN /\ host' \in {"read", "wait", "done"}
    BY <1>26 DEF HostReadFails
  <2>2. UNCHANGED <<controls, treeVars, eventVars, initVars, launchErr, boot, outcome, pipeVars>>
    BY <1>26 DEF HostReadFails
  <2>3. {execd, timer, cancelled, limited, armed, early, launchErr, readOk}' \subseteq BOOLEAN
    BY <1>0, <2>1, <2>2
  <2>4. QED
    BY <1>0, <2>1, <2>2, <2>3
<1>27. ASSUME NEW q \in Tree, Exit(q) PROVE PidTypeOK'
  <2> HIDE DEF Tree
  <2>1. life' \in [Tree -> {"unborn", "setup", "failed", "live", "zombie", "gone"}]
    BY <1>0, <1>27 DEF Exit
  <2>2. parent' \in [Tree -> Tree \cup {Init}]
    BY <1>0, <1>27 DEF Exit
  <2>3. status' \in {"none", "own", "kill"}
    BY <1>0, <1>27 DEF Exit
  <2>4. QED
    BY <1>0, <1>27, <2>1, <2>2, <2>3 DEF Exit
<1>28. ASSUME NEW q \in Tree, Zap(q) PROVE PidTypeOK'
  BY <1>0, <1>28 DEF Zap
<1>29. ASSUME NEW q \in Tree, Write(q) PROVE PidTypeOK'
  BY <1>0, <1>29 DEF Write
<1>30. ASSUME NEW q \in Tree, NEW c \in Tree, Fork(q, c) PROVE PidTypeOK'
  BY <1>0, <1>30 DEF Fork
<1>31. ASSUME NEW q \in Tree, NEW c \in Tree, Reap(q, c) PROVE PidTypeOK'
  BY <1>0, <1>31 DEF Reap
<1>32. CASE UNCHANGED pidVars
  BY <1>0, <1>32 DEF pidVars
<1>33. QED
  BY <1>1, <1>2, <1>3, <1>4, <1>5, <1>6, <1>7, <1>8, <1>9, <1>10, <1>11,
    <1>12, <1>13, <1>14, <1>15, <1>16, <1>17, <1>18, <1>19, <1>20, <1>21,
    <1>22, <1>23, <1>24, <1>25, <1>26, <1>27, <1>28, <1>29, <1>30, <1>31,
    <1>32, DoomedInTree DEF PidNext, InitStep, HostStep, KernelStep, Outside,
    Failure, InitExits

(* Nothing is read that was not written.                                   *)
LEMMA CountStep ==
  ASSUME PidInv, [PidNext]_pidVars
  PROVE  CountInv'
<1> USE PidAssumption DEF treeVars, eventVars, initVars, hostVars, pipeVars,
  Keeps, Goto, PidTypeOK, CountInv
<1>0. PidTypeOK /\ CountInv
  BY DEF PidInv
<1>1. CASE HostRead
  BY <1>0, <1>1 DEF HostRead, Exceeded
<1>2. ASSUME NEW q \in Tree, Write(q) PROVE CountInv'
  BY <1>0, <1>2 DEF Write
<1>3. ASSUME NEW q \in Tree, Exit(q) PROVE CountInv'
  BY <1>0, <1>3 DEF Exit
<1>4. ASSUME NEW q \in Tree, Zap(q) PROVE CountInv'
  BY <1>0, <1>4 DEF Zap
<1>5. ASSUME NEW q \in Tree, NEW c \in Tree, Fork(q, c) PROVE CountInv'
  BY <1>0, <1>5 DEF Fork
<1>6. ASSUME NEW q \in Tree, NEW c \in Tree, Reap(q, c) PROVE CountInv'
  BY <1>0, <1>6 DEF Reap
<1>7. CASE \/ BootClose \/ BootExit \/ HostEof \/ HostDecide \/ BootCloseFails
         \/ HostReadFails
  BY <1>0, <1>7 DEF BootClose, BootExit, HostEof, HostDecide, BootCloseFails,
    HostReadFails, Eof, Resolve
<1>8. CASE \/ ForkTarget \/ CloseInherited \/ Arm \/ Poll \/ Arbitrate
         \/ Terminate \/ WaitTarget \/ Sweep \/ ReapOne \/ Converged
         \/ Publish \/ PublishReady \/ DeadlinePasses \/ TargetExec \/ TargetSetupFails
         \/ Cancel \/ InitKilled \/ CloseFails \/ InitFails
  BY <1>0, <1>8 DEF ForkTarget, CloseInherited, Arm, Poll, Arbitrate,
    Terminate, WaitTarget, Sweep, ReapOne, Converged, Publish, PublishReady,
    DeadlinePasses, TargetExec, TargetSetupFails, Cancel, InitKilled,
    CloseFails, InitFails, Supervised, Ready, ReapChild, Children
<1>9. CASE UNCHANGED pidVars
  BY <1>0, <1>9 DEF pidVars
<1>10. QED
  BY <1>1, <1>2, <1>3, <1>4, <1>5, <1>6, <1>7, <1>8, <1>9, DoomedInTree DEF
    PidNext, InitStep, HostStep, KernelStep, Outside, Failure, InitExits

(* A fork hangs a new process below a live one and an exit hands children  *)
(* to PID 1, so neither closes a cycle; a reaped process had no children   *)
(* left, because it had exited.                                            *)
LEMMA TreeStep ==
  ASSUME PidInv, [PidNext]_pidVars
  PROVE  TreeInv'
<1> USE PidAssumption DEF treeVars, eventVars, initVars, hostVars, pipeVars,
  Keeps, Goto, PidTypeOK, TreeInv, ParentAlive, Rooted, Alive, Gone, Tree
<1>0. PidTypeOK /\ TreeInv
  BY DEF PidInv
<1>1. CASE ForkTarget
  BY <1>0, <1>1 DEF ForkTarget
<1>2. CASE Arbitrate
  BY <1>0, <1>2 DEF Arbitrate
<1>3. CASE WaitTarget
  BY <1>0, <1>3 DEF WaitTarget
<1>4. CASE ReapOne
  BY <1>0, <1>4 DEF ReapOne, ReapChild, Children
<1>5. CASE TargetExec
  BY <1>0, <1>5 DEF TargetExec
<1>6. CASE TargetSetupFails
  BY <1>0, <1>6 DEF TargetSetupFails
<1>7. ASSUME NEW q \in Tree, Exit(q) PROVE TreeInv'
  BY <1>0, <1>7 DEF Exit
<1>8. ASSUME NEW q \in Tree, Zap(q) PROVE TreeInv'
  BY <1>0, <1>8 DEF Zap
<1>9. ASSUME NEW q \in Tree, NEW c \in Tree, Fork(q, c) PROVE TreeInv'
  <2> HIDE DEF Tree
  <2>1. parent'[Target] = Init
    BY <1>0, <1>9 DEF Fork, Tree
  <2>2. /\ ParentAlive /\ Rooted
        /\ life[q] = "live" /\ life[c] = "unborn"
        /\ life' = [life EXCEPT ![c] = "live"] /\ parent' = [parent EXCEPT ![c] = q]
    BY <1>0, <1>9 DEF Fork
  <2>3. ParentAlive'
    BY <1>0, <2>2
  <2>4. ASSUME NEW S \in SUBSET Tree, S # {}, \A x \in S : ~Gone(x)'
        PROVE  \E x \in S : parent'[x] \notin S
    <3>1. CASE S = {c}
      BY <1>0, <2>2, <3>1
    <3>2. CASE S # {c}
      <4>1. S \ {c} \in SUBSET Tree /\ S \ {c} # {} /\ \A x \in S \ {c} : ~Gone(x)
        BY <1>0, <2>2, <2>4, <3>2
      <4>2. PICK x \in S \ {c} : parent[x] \notin S \ {c}
        BY <2>2, <4>1
      <4>3. parent[x] # c
        BY <1>0, <2>2, <4>1, <4>2
      <4>4. QED
        BY <1>0, <2>2, <4>2, <4>3
    <3>3. QED
      BY <3>1, <3>2
  <2>5. Rooted'
    BY <2>4
  <2>6. QED
    BY <2>1, <2>3, <2>5
<1>10. ASSUME NEW q \in Tree, NEW c \in Tree, Reap(q, c) PROVE TreeInv'
  BY <1>0, <1>10 DEF Reap
<1>11. ASSUME NEW q \in Tree, Write(q) PROVE TreeInv'
  BY <1>0, <1>11 DEF Write
<1>12. CASE \/ BootClose \/ BootExit \/ HostRead \/ HostEof \/ HostDecide
         \/ BootCloseFails \/ HostReadFails
  BY <1>0, <1>12 DEF BootClose, BootExit, HostRead, HostEof, HostDecide,
    BootCloseFails, HostReadFails, Exceeded, Eof, Resolve
<1>13. CASE \/ CloseInherited \/ Arm \/ Poll \/ Terminate \/ Sweep
         \/ Converged \/ Publish \/ PublishReady \/ DeadlinePasses \/ Cancel
         \/ InitKilled \/ CloseFails \/ InitFails
  BY <1>0, <1>13 DEF CloseInherited, Arm, Poll, Terminate, Sweep, Converged,
    Publish, PublishReady, DeadlinePasses, Cancel, InitKilled, CloseFails,
    InitFails, Supervised, Ready, Children
<1>14. CASE UNCHANGED pidVars
  BY <1>0, <1>14 DEF pidVars
<1>15. QED
  BY <1>1, <1>2, <1>3, <1>4, <1>5, <1>6, <1>7, <1>8, <1>9, <1>10, <1>11,
    <1>12, <1>13, <1>14, DoomedInTree DEF PidNext, InitStep, HostStep,
    KernelStep, Outside, Failure, InitExits

(* The tree is empty when wait4 finds no child (ChildlessIsEmpty), and no  *)
(* step brings a process into an empty tree again.                         *)
LEMMA EndStep ==
  ASSUME PidInv, [PidNext]_pidVars
  PROVE  EndInv'
<1> USE PidAssumption DEF treeVars, eventVars, initVars, hostVars, pipeVars,
  Keeps, Goto, PidTypeOK, EndInv, Empty, Alive, Gone
<1>0. PidTypeOK /\ TreeInv /\ EndInv
  BY DEF PidInv
<1>1. CASE ForkTarget
  BY <1>0, <1>1 DEF ForkTarget
<1>2. CASE Arbitrate
  BY <1>0, <1>2 DEF Arbitrate
<1>3. CASE WaitTarget
  BY <1>0, <1>3 DEF WaitTarget
<1>4. CASE ReapOne
  BY <1>0, <1>4 DEF ReapOne, ReapChild, Children
<1>5. CASE TargetExec
  BY <1>0, <1>5 DEF TargetExec
<1>6. CASE TargetSetupFails
  BY <1>0, <1>6 DEF TargetSetupFails
<1>7. ASSUME NEW q \in Tree, Exit(q) PROVE EndInv'
  BY <1>0, <1>7 DEF Exit
<1>8. ASSUME NEW q \in Tree, Zap(q) PROVE EndInv'
  BY <1>0, <1>8 DEF Zap
<1>9. ASSUME NEW q \in Tree, NEW c \in Tree, Fork(q, c) PROVE EndInv'
  BY <1>0, <1>9 DEF Fork
<1>10. ASSUME NEW q \in Tree, NEW c \in Tree, Reap(q, c) PROVE EndInv'
  BY <1>0, <1>10 DEF Reap
<1>11. CASE Converged
  <2>1. Empty
    BY <1>0, <1>11, ChildlessIsEmpty DEF Converged, TreeInv
  <2>2. QED
    BY <1>0, <1>11, <2>1 DEF Converged
<1>12. CASE Publish
  BY <1>0, <1>12 DEF Publish
<1>13. CASE PublishReady
  BY <1>0, <1>13 DEF PublishReady
<1>14. CASE InitFails
  BY <1>0, <1>14 DEF InitFails
<1>15. CASE InitKilled
  BY <1>0, <1>15 DEF InitKilled
<1>16. CASE BootExit
  BY <1>0, <1>16 DEF BootExit
<1>17. CASE HostDecide
  BY <1>0, <1>17 DEF HostDecide, Resolve
<1>18. ASSUME NEW q \in Tree, Write(q) PROVE EndInv'
  BY <1>0, <1>18 DEF Write
<1>19. CASE BootClose \/ HostRead \/ HostEof \/ BootCloseFails \/ HostReadFails
  BY <1>0, <1>19 DEF BootClose, HostRead, HostEof, BootCloseFails,
    HostReadFails, Exceeded, Eof
<1>20. CASE \/ CloseInherited \/ Arm \/ Poll \/ Terminate \/ Sweep
         \/ DeadlinePasses \/ Cancel \/ CloseFails
  BY <1>0, <1>20 DEF CloseInherited, Arm, Poll, Terminate, Sweep,
    DeadlinePasses, Cancel, CloseFails, Supervised, Ready
<1>21. CASE UNCHANGED pidVars
  BY <1>0, <1>21 DEF pidVars
<1>22. QED
  BY <1>1, <1>2, <1>3, <1>4, <1>5, <1>6, <1>7, <1>8, <1>9, <1>10, <1>11,
    <1>12, <1>13, <1>14, <1>15, <1>16, <1>17, <1>18, <1>19, <1>20, <1>21,
    DoomedInTree DEF PidNext, InitStep, HostStep, KernelStep, Outside,
    Failure, InitExits

(* Poll and Arbitrate decide on the owner from one set of revents; a       *)
(* target that was waitable at the poll still is, since only PID 1 waits   *)
(* for it (its parent is PID 1).                                           *)
LEMMA OwnerStep ==
  ASSUME PidInv, [PidNext]_pidVars
  PROVE  OwnerInv'
<1> USE PidAssumption DEF treeVars, eventVars, initVars, hostVars, pipeVars,
  Keeps, Goto, PidTypeOK, OwnerInv, PriorityKept, Owners, TreeInv
<1>0. PidTypeOK /\ OwnerInv /\ TreeInv
  BY DEF PidInv
<1>1. CASE ForkTarget
  BY <1>0, <1>1 DEF ForkTarget
<1>2. CASE ReapOne
  BY <1>0, <1>2 DEF ReapOne, ReapChild, Children
<1>3. CASE TargetExec
  BY <1>0, <1>3 DEF TargetExec
<1>4. CASE TargetSetupFails
  BY <1>0, <1>4 DEF TargetSetupFails
<1>5. CASE CloseInherited
  BY <1>0, <1>5 DEF CloseInherited, Supervised
<1>6. CASE CloseFails
  BY <1>0, <1>6 DEF CloseFails
<1>7. CASE Arm
  BY <1>0, <1>7 DEF Arm
<1>8. CASE Poll
  BY <1>0, <1>8 DEF Poll, Ready
<1>9. CASE Arbitrate
  BY <1>0, <1>9 DEF Arbitrate
<1>10. CASE Terminate
  BY <1>0, <1>10 DEF Terminate
<1>11. CASE WaitTarget
  BY <1>0, <1>11 DEF WaitTarget
<1>12. CASE Converged
  BY <1>0, <1>12 DEF Converged, Children
<1>13. CASE Publish
  BY <1>0, <1>13 DEF Publish
<1>14. CASE PublishReady
  BY <1>0, <1>14 DEF PublishReady
<1>15. ASSUME NEW q \in Tree, Exit(q) PROVE OwnerInv'
  BY <1>0, <1>15 DEF Exit
<1>16. ASSUME NEW q \in Tree, Zap(q) PROVE OwnerInv'
  BY <1>0, <1>16 DEF Zap
<1>17. ASSUME NEW q \in Tree, Write(q) PROVE OwnerInv'
  BY <1>0, <1>17 DEF Write
<1>18. ASSUME NEW q \in Tree, NEW c \in Tree, Fork(q, c) PROVE OwnerInv'
  BY <1>0, <1>18 DEF Fork
<1>19. ASSUME NEW q \in Tree, NEW c \in Tree, Reap(q, c) PROVE OwnerInv'
  BY <1>0, <1>19 DEF Reap
<1>20. CASE \/ BootClose \/ BootExit \/ HostRead \/ HostEof \/ HostDecide
         \/ BootCloseFails \/ HostReadFails
  BY <1>0, <1>20 DEF BootClose, BootExit, HostRead, HostEof, HostDecide,
    BootCloseFails, HostReadFails, Exceeded, Eof, Resolve
<1>21. CASE Sweep \/ DeadlinePasses \/ Cancel \/ InitKilled \/ InitFails
  BY <1>0, <1>21 DEF Sweep, DeadlinePasses, Cancel, InitKilled, InitFails
<1>22. CASE UNCHANGED pidVars
  BY <1>0, <1>22 DEF pidVars
<1>23. QED
  BY <1>1, <1>2, <1>3, <1>4, <1>5, <1>6, <1>7, <1>8, <1>9, <1>10, <1>11,
    <1>12, <1>13, <1>14, <1>15, <1>16, <1>17, <1>18, <1>19, <1>20, <1>21,
    <1>22, DoomedInTree DEF PidNext, InitStep, HostStep, KernelStep, Outside,
    Failure, InitExits

(* The three descriptors stay readable.                                    *)
LEMMA EventStep ==
  ASSUME PidInv, [PidNext]_pidVars
  PROVE  EventInv'
<1> USE PidAssumption DEF treeVars, eventVars, initVars, hostVars, pipeVars,
  Keeps, Goto, PidTypeOK, EventInv, OwnerInv, Exceeded
<1>0. PidTypeOK /\ EventInv /\ OwnerInv
  BY DEF PidInv
<1>1. CASE Poll
  BY <1>0, <1>1 DEF Poll, Ready
<1>2. CASE Arbitrate
  BY <1>0, <1>2 DEF Arbitrate
<1>3. CASE CloseInherited
  BY <1>0, <1>3 DEF CloseInherited, Supervised
<1>4. CASE HostRead
  BY <1>0, <1>4 DEF HostRead, Exceeded
<1>5. CASE DeadlinePasses
  BY <1>0, <1>5 DEF DeadlinePasses
<1>6. CASE Cancel
  BY <1>0, <1>6 DEF Cancel
<1>7. ASSUME NEW q \in Tree, Exit(q) PROVE EventInv'
  BY <1>0, <1>7 DEF Exit
<1>8. ASSUME NEW q \in Tree, Zap(q) PROVE EventInv'
  BY <1>0, <1>8 DEF Zap
<1>9. ASSUME NEW q \in Tree, Write(q) PROVE EventInv'
  BY <1>0, <1>9 DEF Write
<1>10. ASSUME NEW q \in Tree, NEW c \in Tree, Fork(q, c) PROVE EventInv'
  BY <1>0, <1>10 DEF Fork
<1>11. ASSUME NEW q \in Tree, NEW c \in Tree, Reap(q, c) PROVE EventInv'
  BY <1>0, <1>11 DEF Reap
<1>12. CASE \/ BootClose \/ BootExit \/ HostEof \/ HostDecide \/ BootCloseFails
         \/ HostReadFails
  BY <1>0, <1>12 DEF BootClose, BootExit, HostEof, HostDecide, BootCloseFails,
    HostReadFails, Eof, Resolve
<1>13. CASE \/ ForkTarget \/ Arm \/ Terminate \/ WaitTarget \/ Sweep
         \/ ReapOne \/ Converged \/ Publish \/ PublishReady \/ TargetExec
         \/ TargetSetupFails \/ InitKilled \/ CloseFails \/ InitFails
  BY <1>0, <1>13 DEF ForkTarget, Arm, Terminate, WaitTarget, Sweep, ReapOne,
    Converged, Publish, PublishReady, TargetExec, TargetSetupFails,
    InitKilled, CloseFails, InitFails, ReapChild, Children
<1>14. CASE UNCHANGED pidVars
  BY <1>0, <1>14 DEF pidVars
<1>15. QED
  BY <1>1, <1>2, <1>3, <1>4, <1>5, <1>6, <1>7, <1>8, <1>9, <1>10, <1>11,
    <1>12, <1>13, <1>14, DoomedInTree DEF PidNext, InitStep, HostStep,
    KernelStep, Outside, Failure, InitExits

(* Until PID 1 has decided it sends no signal, so a natural end is the     *)
(* target's own.                                                           *)
LEMMA StatusStep ==
  ASSUME PidInv, [PidNext]_pidVars
  PROVE  StatusInv'
<1> USE PidAssumption DEF treeVars, eventVars, initVars, hostVars, pipeVars,
  Keeps, Goto, PidTypeOK, TreeInv, EndInv, OwnerInv, StatusInv, Alive, Gone,
  Empty, Tree
<1>0. PidTypeOK /\ TreeInv /\ EndInv /\ OwnerInv /\ StatusInv
  BY DEF PidInv
<1>1. CASE ForkTarget
  BY <1>0, <1>1 DEF ForkTarget
<1>2. CASE Arbitrate
  BY <1>0, <1>2 DEF Arbitrate
<1>3. CASE WaitTarget
  BY <1>0, <1>3 DEF WaitTarget
<1>4. CASE ReapOne
  BY <1>0, <1>4 DEF ReapOne, ReapChild, Children
<1>5. CASE TargetExec
  BY <1>0, <1>5 DEF TargetExec
<1>6. CASE TargetSetupFails
  BY <1>0, <1>6 DEF TargetSetupFails
<1>7. ASSUME NEW q \in Tree, Exit(q) PROVE StatusInv'
  BY <1>0, <1>7 DEF Exit
<1>8. ASSUME NEW q \in Tree, Zap(q) PROVE StatusInv'
  BY <1>0, <1>8 DEF Zap
<1>9. ASSUME NEW q \in Tree, NEW c \in Tree, Fork(q, c) PROVE StatusInv'
  BY <1>0, <1>9 DEF Fork
<1>10. ASSUME NEW q \in Tree, NEW c \in Tree, Reap(q, c) PROVE StatusInv'
  BY <1>0, <1>10 DEF Reap
<1>11. CASE CloseInherited
  BY <1>0, <1>11 DEF CloseInherited, Supervised
<1>12. CASE CloseFails
  BY <1>0, <1>12 DEF CloseFails
<1>13. CASE Poll
  BY <1>0, <1>13 DEF Poll, Ready
<1>14. CASE Terminate
  BY <1>0, <1>14 DEF Terminate
<1>15. CASE Sweep
  BY <1>0, <1>15 DEF Sweep
<1>16. CASE Converged
  BY <1>0, <1>16 DEF Converged, Children
<1>17. CASE Publish
  BY <1>0, <1>17 DEF Publish
<1>18. CASE PublishReady
  BY <1>0, <1>18 DEF PublishReady
<1>19. ASSUME NEW q \in Tree, Write(q) PROVE StatusInv'
  BY <1>0, <1>19 DEF Write
<1>20. CASE \/ BootClose \/ BootExit \/ HostRead \/ HostEof \/ HostDecide
         \/ BootCloseFails \/ HostReadFails
  BY <1>0, <1>20 DEF BootClose, BootExit, HostRead, HostEof, HostDecide,
    BootCloseFails, HostReadFails, Exceeded, Eof, Resolve
<1>21. CASE Arm \/ DeadlinePasses \/ Cancel \/ InitKilled \/ InitFails
  BY <1>0, <1>21 DEF Arm, DeadlinePasses, Cancel, InitKilled, InitFails
<1>22. CASE UNCHANGED pidVars
  BY <1>0, <1>22 DEF pidVars
<1>23. QED
  BY <1>1, <1>2, <1>3, <1>4, <1>5, <1>6, <1>7, <1>8, <1>9, <1>10, <1>11,
    <1>12, <1>13, <1>14, <1>15, <1>16, <1>17, <1>18, <1>19, <1>20, <1>21,
    <1>22, DoomedInTree DEF PidNext, InitStep, HostStep, KernelStep, Outside,
    Failure, InitExits

(* The record is filled from what PID 1 knows, and read when PID 1 is dead.*)
LEMMA RecordStep ==
  ASSUME PidInv, [PidNext]_pidVars
  PROVE  RecordInv'
<1> USE PidAssumption DEF treeVars, eventVars, initVars, hostVars, pipeVars,
  Keeps, Goto, PidTypeOK, EndInv, OwnerInv, EventInv, StatusInv, RecordInv,
  HonestOutcome, Exceeded, Owners, Alive, Gone, Empty
<1>0. PidTypeOK /\ EndInv /\ OwnerInv /\ EventInv /\ StatusInv /\ RecordInv
  BY DEF PidInv
<1>1. ASSUME NEW q \in Tree, Exit(q) PROVE RecordInv'
  BY <1>0, <1>1 DEF Exit
<1>2. CASE CloseInherited
  BY <1>0, <1>2 DEF CloseInherited, Supervised
<1>3. CASE Poll
  BY <1>0, <1>3 DEF Poll, Ready
<1>4. CASE Arbitrate
  BY <1>0, <1>4 DEF Arbitrate
<1>5. CASE Converged
  BY <1>0, <1>5 DEF Converged, Children
<1>6. CASE Publish
  BY <1>0, <1>6 DEF Publish
<1>7. CASE PublishReady
  BY <1>0, <1>7 DEF PublishReady
<1>8. CASE TargetExec
  BY <1>0, <1>8 DEF TargetExec
<1>9. CASE HostRead
  BY <1>0, <1>9 DEF HostRead, Exceeded
<1>10. CASE HostDecide
  BY <1>0, <1>10 DEF HostDecide, Resolve
<1>11. CASE DeadlinePasses
  BY <1>0, <1>11 DEF DeadlinePasses
<1>12. CASE Cancel
  BY <1>0, <1>12 DEF Cancel
<1>13. ASSUME NEW q \in Tree, Zap(q) PROVE RecordInv'
  BY <1>0, <1>13 DEF Zap
<1>14. ASSUME NEW q \in Tree, Write(q) PROVE RecordInv'
  BY <1>0, <1>14 DEF Write
<1>15. ASSUME NEW q \in Tree, NEW c \in Tree, Fork(q, c) PROVE RecordInv'
  BY <1>0, <1>15 DEF Fork
<1>16. ASSUME NEW q \in Tree, NEW c \in Tree, Reap(q, c) PROVE RecordInv'
  BY <1>0, <1>16 DEF Reap
<1>17. CASE BootClose \/ BootExit \/ HostEof \/ BootCloseFails \/ HostReadFails
  BY <1>0, <1>17 DEF BootClose, BootExit, HostEof, BootCloseFails,
    HostReadFails, Eof
<1>18. CASE \/ ForkTarget \/ Arm \/ Terminate \/ WaitTarget \/ Sweep
         \/ ReapOne \/ TargetSetupFails \/ InitKilled \/ CloseFails \/ InitFails
  BY <1>0, <1>18 DEF ForkTarget, Arm, Terminate, WaitTarget, Sweep, ReapOne,
    TargetSetupFails, InitKilled, CloseFails, InitFails, ReapChild, Children
<1>19. CASE UNCHANGED pidVars
  BY <1>0, <1>19 DEF pidVars
<1>20. QED
  BY <1>1, <1>2, <1>3, <1>4, <1>5, <1>6, <1>7, <1>8, <1>9, <1>10, <1>11,
    <1>12, <1>13, <1>14, <1>15, <1>16, <1>17, <1>18, <1>19, DoomedInTree DEF
    PidNext, InitStep, HostStep, KernelStep, Outside, Failure, InitExits

-----------------------------------------------------------------------------
(* The inductive invariant holds in every state of a run (the code of      *)
(* linux_pid_lifecycle.rs and of the host around it).                      *)
THEOREM PidInvariance == PidSpec => []PidInv
<1>1. PidInit => PidInv
  BY InvInit
<1>2. PidInv /\ [PidNext]_pidVars => PidInv'
  BY TypeStep, CountStep, TreeStep, EndStep, OwnerStep, EventStep, StatusStep,
     RecordStep DEF PidInv
<1>3. QED
  BY <1>1, <1>2, PTL DEF PidSpec

(* Every variable of a run keeps its type.                                 *)
THEOREM PidTypeCorrect == PidSpec => []PidTypeOK
<1>1. PidInv => PidTypeOK
  BY DEF PidInv
<1>2. QED
  BY <1>1, PidInvariance, PTL

(* No process of the sandbox is left when the record is ready or           *)
(* run_report has returned (kill_and_reap_remaining, wait_for_child).      *)
THEOREM NobodySurvives == PidSpec => []NoSurvivors
<1>1. PidInv => NoSurvivors
  BY DEF PidInv, EndInv, NoSurvivors
<1>2. QED
  BY <1>1, PidInvariance, PTL

(* The owner of the result is the first in the documented order among what *)
(* had happened at the poll (wait_direct_target).                          *)
THEOREM PriorityIsKept == PidSpec => []PriorityKept
<1>1. PidInv => PriorityKept
  BY DEF PidInv, OwnerInv
<1>2. QED
  BY <1>1, PidInvariance, PTL

(* The outcome run_report returns is what happened                         *)
(* (resolve_lifecycle_outcome).                                            *)
THEOREM OutcomeIsHonest == PidSpec => []HonestOutcome
<1>1. PidInv => HonestOutcome
  BY DEF PidInv, RecordInv
<1>2. QED
  BY <1>1, PidInvariance, PTL
===============================================================================
