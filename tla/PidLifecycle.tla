----------------------------- MODULE PidLifecycle -----------------------------
(***************************************************************************)
(* Supervision of one sandboxed run (platform/linux_pid_lifecycle.rs, the  *)
(* host's side in platform/linux.rs, cancellation.rs).  The host forks a   *)
(* bootstrap process, which forks PID 1 of a new PID namespace, which      *)
(* forks the direct target.  PID 1 polls the target, a deadline timer, the *)
(* cancellation eventfd and the host's output-limit eventfd, decides who   *)
(* owns the result, kills and reaps everything, publishes a shared record  *)
(* and exits; the host reads the captured output, waits for the bootstrap  *)
(* process and reads the records.                                          *)
(*                                                                         *)
(* Output is counted in units of what one read returns.  The target and    *)
(* its descendants, the kernel's signals and the clock are the environment.*)
(***************************************************************************)
EXTENDS Naturals, FiniteSets

CONSTANTS
  Target,       \* the direct target, PID 2 of the namespace
  Descendants,  \* bound: the processes it and its children may fork
  Init,         \* PID 1, as a parent
  Limit,        \* stdout_total_bytes
  MaxOutput,    \* bound: units of output of the whole tree
  MaxLateForks, \* bound: forks that complete although SIGKILL was sent
  Offered       \* bound: the combinations of controls a policy may ask for

Tree == {Target} \cup Descendants

Controls == {"deadline", "cancel", "limit", "capture"}

ASSUME PidAssumption ==
  /\ Init \notin Tree /\ Target \notin Descendants
  /\ Limit \in Nat \ {0} /\ MaxOutput \in Nat /\ MaxLateForks \in Nat
  /\ Offered \subseteq { C \in SUBSET Controls : "limit" \in C => "capture" \in C }

VARIABLES
  controls,   \* which of deadline, cancel, limit and capture the run has
  life,       \* unborn, setup (the target before exec), failed (in it), live,
              \* zombie or gone
  parent,
  doomed,     \* processes with SIGKILL pending
  late,       \* late forks so far
  status,     \* wait status of the target
  execd,      \* history: the target got through its set-up
  timer, cancelled, limited, \* the three descriptors are readable
  armed,      \* the timer is set
  pc,         \* PID 1
  revents,    \* what its last poll returned
  early,      \* history: the target was waitable at that poll
  owner,      \* who owns the result
  record,     \* the shared TargetLifecycleRecord
  launchErr,  \* phase of the shared LaunchErrorRecord is set
  boot,       \* the bootstrap process
  host,       \* the host
  pipe, written, observed, \* captured output: in the pipe, ever, read
  readOk,     \* the capture has not failed
  outcome     \* what run_report returned

treeVars  == <<life, parent, doomed, late, status, execd>>
eventVars == <<timer, cancelled, limited, armed>>
initVars  == <<pc, revents, early, owner, record>>
hostVars  == <<boot, host, readOk, outcome>>
pipeVars  == <<pipe, written, observed>>
pidVars   == <<controls, treeVars, eventVars, initVars, launchErr, hostVars, pipeVars>>

Owners == {"none", "natural", "limit", "cancel", "deadline"}

(* stdout_total_bytes is only valid together with capture (policy.rs).     *)
PidInit ==
  /\ controls \in {C \in Offered : "limit" \in C => "capture" \in C}
  /\ life = [q \in Tree |-> "unborn"]
  /\ parent = [q \in Tree |-> Init]
  /\ doomed = {} /\ late = 0 /\ status = "none" /\ execd = FALSE
  /\ timer = FALSE /\ limited = FALSE /\ armed = FALSE
  /\ cancelled \in BOOLEAN /\ (cancelled => "cancel" \in controls)
  /\ pc = "fork" /\ revents = {} /\ early = FALSE /\ owner = "none"
  /\ record = [flag |-> "none", status |-> "none", ready |-> FALSE]
  /\ launchErr = FALSE
  /\ boot = "close" /\ readOk = TRUE /\ outcome = "none"
  /\ host = IF "capture" \in controls THEN "read" ELSE "wait"
  /\ pipe = 0 /\ written = 0 /\ observed = 0

Alive(q) == life[q] \in {"setup", "failed", "live"}
Gone(q)  == life[q] \in {"unborn", "gone"}
Empty    == \A q \in Tree : Gone(q)

-----------------------------------------------------------------------------
(* The sandboxed processes and the kernel.                                 *)

(* The target closes the control descriptors and goes through stdio,       *)
(* limits, capabilities, Landlock, seccomp and execveat.                   *)
TargetExec ==
  /\ life[Target] = "setup" /\ Target \notin doomed
  /\ life' = [life EXCEPT ![Target] = "live"]
  /\ execd' = TRUE
  /\ UNCHANGED <<controls, parent, doomed, late, status, eventVars, initVars,
                 launchErr, hostVars, pipeVars>>

(* child_fail: a set-up step failed; the phase is written before the exit. *)
TargetSetupFails ==
  /\ life[Target] = "setup"
  /\ life' = [life EXCEPT ![Target] = "failed"]
  /\ launchErr' = TRUE
  /\ UNCHANGED <<controls, parent, doomed, late, status, execd, eventVars, initVars,
                 hostVars, pipeVars>>

(* A process ends, by itself (with an exit code or by a signal of its own  *)
(* making) or by SIGKILL; its children pass to PID 1.                      *)
Exit(q) ==
  /\ Alive(q)
  /\ life' = [life EXCEPT ![q] = "zombie"]
  /\ parent' = [c \in Tree |-> IF parent[c] = q THEN Init ELSE parent[c]]
  /\ \/ q # Target /\ UNCHANGED status
     \/ q = Target /\ life[q] # "setup" /\ status' = "own"
     \/ q = Target /\ q \in doomed /\ status' = "kill"
  /\ UNCHANGED <<controls, doomed, late, execd, eventVars, initVars, launchErr,
                 hostVars, pipeVars>>

(* A process with SIGKILL pending completes at most MaxLateForks forks.    *)
Fork(q, c) ==
  /\ life[q] = "live" /\ life[c] = "unborn" /\ c # Target /\ pc # "dead"
  /\ q \in doomed => late < MaxLateForks
  /\ late' = IF q \in doomed THEN late + 1 ELSE late
  /\ life' = [life EXCEPT ![c] = "live"]
  /\ parent' = [parent EXCEPT ![c] = q]
  /\ UNCHANGED <<controls, doomed, status, execd, eventVars, initVars, launchErr,
                 hostVars, pipeVars>>

(* A process of the tree waits for one of its children.                    *)
Reap(q, c) ==
  /\ Alive(q) /\ life[c] = "zombie" /\ parent[c] = q
  /\ life' = [life EXCEPT ![c] = "gone"]
  /\ UNCHANGED <<controls, parent, doomed, late, status, execd, eventVars, initVars,
                 launchErr, hostVars, pipeVars>>

Write(q) ==
  /\ life[q] = "live" /\ host = "read" /\ written < MaxOutput
  /\ pipe' = pipe + 1 /\ written' = written + 1
  /\ UNCHANGED <<controls, treeVars, eventVars, initVars, launchErr, hostVars, observed>>

DeadlinePasses ==
  /\ armed /\ ~timer /\ timer' = TRUE
  /\ UNCHANGED <<controls, treeVars, cancelled, limited, armed, initVars, launchErr,
                 hostVars, pipeVars>>

(* CancellationToken::cancel: the eventfd is never drained.                *)
Cancel ==
  /\ "cancel" \in controls /\ ~cancelled /\ cancelled' = TRUE
  /\ UNCHANGED <<controls, treeVars, timer, limited, armed, initVars, launchErr,
                 hostVars, pipeVars>>

(* PID 1 is dead: the kernel kills the namespace and reaps its processes.  *)
Zap(q) ==
  /\ pc = "dead" /\ ~Gone(q)
  /\ life' = [life EXCEPT ![q] = "gone"]
  /\ UNCHANGED <<controls, parent, doomed, late, status, execd, eventVars, initVars,
                 launchErr, hostVars, pipeVars>>

(* Something outside the sandbox, the OOM killer for one, kills PID 1.     *)
InitKilled ==
  /\ pc # "dead" /\ pc' = "dead"
  /\ UNCHANGED <<controls, treeVars, eventVars, revents, early, owner, record, launchErr,
                 hostVars, pipeVars>>

-----------------------------------------------------------------------------
(* PID 1.                                                                  *)

Supervised == controls \cap {"deadline", "cancel", "limit"} # {}

Goto(phase) == pc' = phase

(* Locals and records stay as they are.                                    *)
Keeps == UNCHANGED <<controls, launchErr, hostVars, pipeVars>>

ForkTarget ==
  /\ pc = "fork" /\ Goto("close")
  /\ life' = [life EXCEPT ![Target] = "setup"]
  /\ Keeps
  /\ UNCHANGED <<parent, doomed, late, status, execd, eventVars, revents, early, owner, record>>

(* close_nonstdio_except, and the choice between plain wait and poll.      *)
CloseInherited ==
  /\ pc = "close" /\ Goto(IF Supervised THEN "arm" ELSE "wait")
  /\ owner' = IF Supervised THEN owner ELSE "natural"
  /\ Keeps /\ UNCHANGED <<treeVars, eventVars, revents, early, record>>

(* The descriptors could not be closed: the target is killed, the tree     *)
(* taken down, and no result has an owner.                                 *)
CloseFails ==
  /\ pc = "close" /\ Goto("wait")
  /\ doomed' = doomed \cup (IF Alive(Target) THEN {Target} ELSE {})
  /\ Keeps
  /\ UNCHANGED <<life, parent, late, status, execd, eventVars, revents, early, owner, record>>

(* pidfd_open, and the timer when there is a deadline.                     *)
Arm ==
  /\ pc = "arm" /\ Goto("poll")
  /\ armed' = ("deadline" \in controls)
  /\ Keeps /\ UNCHANGED <<treeVars, timer, cancelled, limited, revents, early, owner, record>>

Ready == (IF life[Target] = "zombie" THEN {"target"} ELSE {})
           \cup (IF timer THEN {"deadline"} ELSE {})
           \cup (IF cancelled THEN {"cancel"} ELSE {})
           \cup (IF limited THEN {"limit"} ELSE {})

(* Fault: the output limit is looked at after the target's exit.           *)
PollLimitLast ==
  /\ pc = "poll" /\ Ready # {}
  /\ revents' = Ready
  /\ early' = (life[Target] = "zombie")
  /\ IF "limit" \in Ready /\ "target" \notin Ready
       THEN owner' = "limit" /\ Goto("kill")
       ELSE Goto("arbitrate") /\ UNCHANGED owner
  /\ Keeps /\ UNCHANGED <<treeVars, eventVars, record>>

(* poll, and the output limit, which goes before the natural exit.         *)
Poll ==
  /\ pc = "poll" /\ Ready # {}
  /\ revents' = Ready
  /\ early' = (life[Target] = "zombie")
  /\ IF "limit" \in Ready
       THEN owner' = "limit" /\ Goto("kill")
       ELSE Goto("arbitrate") /\ UNCHANGED owner
  /\ Keeps /\ UNCHANGED <<treeVars, eventVars, record>>

(* wait4(WNOHANG) arbitrates; then cancellation goes before the deadline.  *)
Arbitrate ==
  /\ pc = "arbitrate"
  /\ \/ /\ life[Target] = "zombie"
        /\ life' = [life EXCEPT ![Target] = "gone"]
        /\ owner' = "natural" /\ Goto("sweep")
     \/ /\ life[Target] # "zombie"
        /\ \/ "cancel" \in revents /\ owner' = "cancel" /\ Goto("kill")
           \/ /\ "cancel" \notin revents /\ "deadline" \in revents
              /\ owner' = "deadline" /\ Goto("kill")
           \/ /\ revents \cap {"cancel", "deadline"} = {}
              /\ Goto("poll") /\ UNCHANGED owner
        /\ UNCHANGED life
  /\ Keeps
  /\ UNCHANGED <<parent, doomed, late, status, execd, eventVars, revents, early, record>>

(* terminate_direct_target: SIGKILL; ESRCH is not an error.                *)
Terminate ==
  /\ pc = "kill" /\ Goto("wait")
  /\ doomed' = doomed \cup (IF Alive(Target) THEN {Target} ELSE {})
  /\ Keeps
  /\ UNCHANGED <<life, parent, late, status, execd, eventVars, revents, early, owner, record>>

(* wait_specific of the target.                                            *)
WaitTarget ==
  /\ pc = "wait" /\ life[Target] = "zombie" /\ Goto("sweep")
  /\ life' = [life EXCEPT ![Target] = "gone"]
  /\ Keeps
  /\ UNCHANGED <<parent, doomed, late, status, execd, eventVars, revents, early, owner, record>>

(* kill_and_reap_remaining: kill(-1), then wait4(-1), until ECHILD.        *)
Sweep ==
  /\ pc = "sweep" /\ Goto("reap")
  /\ doomed' = doomed \cup {q \in Tree : Alive(q)}
  /\ Keeps
  /\ UNCHANGED <<life, parent, late, status, execd, eventVars, revents, early, owner, record>>

Children == {q \in Tree : parent[q] = Init /\ ~Gone(q)}

ReapChild(after) ==
  /\ pc = "reap"
  /\ \E q \in Children :
       /\ life[q] = "zombie"
       /\ life' = [life EXCEPT ![q] = "gone"]
  /\ Goto(after)
  /\ Keeps
  /\ UNCHANGED <<parent, doomed, late, status, execd, eventVars, revents, early, owner, record>>

(* Fault: the signal is not repeated after a child was reaped.             *)
ReapOnce == ReapChild("reap")

ReapOne == ReapChild("sweep")

(* Fault: with WNOHANG, no zombie is taken for no child.                   *)
ConvergedNoHang ==
  /\ pc = "reap" /\ owner # "none" /\ Goto("publish")
  /\ \A q \in Children : life[q] # "zombie"
  /\ Keeps /\ UNCHANGED <<treeVars, eventVars, revents, early, owner, record>>

(* ECHILD; then the usage, and the export of the copy-on-write diffs.      *)
Converged ==
  /\ pc = "reap" /\ Children = {} /\ owner # "none" /\ Goto("publish")
  /\ Keeps /\ UNCHANGED <<treeVars, eventVars, revents, early, owner, record>>

(* The fields of the record, readiness excepted.                           *)
Publish ==
  /\ pc = "publish" /\ Goto("ready")
  /\ record' = [record EXCEPT !.flag = owner, !.status = status]
  /\ Keeps /\ UNCHANGED <<treeVars, eventVars, revents, early, owner>>

PublishReady ==
  /\ pc = "ready" /\ Goto("dead")
  /\ record' = [record EXCEPT !.ready = TRUE]
  /\ Keeps /\ UNCHANGED <<treeVars, eventVars, revents, early, owner>>

(* fail_errno: a system call of PID 1 failed, with the phase written.      *)
InitFails ==
  /\ \/ pc \in {"fork", "arm", "poll", "arbitrate", "kill", "sweep", "reap", "publish"}
     \/ pc = "wait" /\ owner # "none"
  /\ launchErr' = TRUE /\ Goto("dead")
  /\ UNCHANGED <<controls, treeVars, eventVars, revents, early, owner, record,
                 hostVars, pipeVars>>

InitExits == pc = "reap" /\ Children = {} /\ owner = "none" /\ InitFails

-----------------------------------------------------------------------------
(* The bootstrap process: it closes everything, waits for PID 1 (which the *)
(* kernel lets go only when the namespace is empty) and exits.             *)

BootClose ==
  /\ boot = "close" /\ boot' = "wait"
  /\ UNCHANGED <<controls, treeVars, eventVars, initVars, launchErr, host, readOk, outcome,
                 pipeVars>>

BootCloseFails ==
  /\ boot = "close" /\ boot' = "failed" /\ Goto("dead")
  /\ UNCHANGED <<controls, treeVars, eventVars, revents, early, owner, record, launchErr,
                 host, readOk, outcome, pipeVars>>

BootExit ==
  /\ boot \in {"wait", "failed"} /\ pc = "dead" /\ Empty
  /\ boot' = "exit"
  /\ launchErr' = (launchErr \/ boot = "failed")
  /\ UNCHANGED <<controls, treeVars, eventVars, initVars, host, readOk, outcome, pipeVars>>

-----------------------------------------------------------------------------
(* The host.                                                               *)

(* No process holds the write end of the capture pipe.                     *)
Eof == /\ pipe = 0 /\ boot # "close" /\ pc \notin {"fork", "close"}
       /\ \A q \in Tree : ~Alive(q)

Exceeded == "limit" \in controls /\ observed > Limit

(* read_capture: the first read beyond the limit signals PID 1 and ends    *)
(* the capture, and with it the read end of the pipe.                      *)
HostRead ==
  /\ host = "read" /\ pipe > 0
  /\ observed' = observed + pipe /\ pipe' = 0
  /\ LET over == "limit" \in controls /\ observed' > Limit IN
       /\ limited' = over
       /\ host' = IF over THEN "wait" ELSE "read"
  /\ UNCHANGED <<controls, treeVars, timer, cancelled, armed, initVars, launchErr, boot, readOk,
                 outcome, written>>

HostEof ==
  /\ host = "read" /\ Eof /\ host' = "wait"
  /\ UNCHANGED <<controls, treeVars, eventVars, initVars, launchErr, boot, readOk, outcome,
                 pipeVars>>

(* A read, or the write to the eventfd, fails; the error is reported last. *)
HostReadFails ==
  /\ host = "read" /\ host' = "wait" /\ readOk' = FALSE
  /\ UNCHANGED <<controls, treeVars, eventVars, initVars, launchErr, boot, outcome, pipeVars>>

(* Fault: the flags of PID 1 alone decide.                                 *)
ResolveByFlags ==
  CASE record.flag = "limit"    -> "OutputLimitExceeded"
    [] record.flag = "deadline" -> "TimedOut"
    [] record.flag = "cancel"   -> "Cancelled"
    [] OTHER -> "Exited"

(* resolve_lifecycle_outcome: an observed excess turns a natural end into  *)
(* OutputLimitExceeded.  Exited stands for Signaled too.                   *)
Resolve ==
  CASE record.flag = "limit"    -> "OutputLimitExceeded"
    [] record.flag = "deadline" -> "TimedOut"
    [] record.flag = "cancel"   -> "Cancelled"
    [] OTHER -> IF Exceeded THEN "OutputLimitExceeded" ELSE "Exited"

(* After wait_for_child: launch error, readiness, capture, outcome.        *)
HostDecide ==
  /\ host = "wait" /\ boot = "exit" /\ host' = "done"
  /\ outcome' = IF launchErr \/ ~record.ready \/ ~readOk THEN "Error" ELSE Resolve
  /\ UNCHANGED <<controls, treeVars, eventVars, initVars, launchErr, boot, readOk, pipeVars>>

-----------------------------------------------------------------------------
InitStep ==
  \/ ForkTarget \/ CloseInherited \/ Arm \/ Poll \/ Arbitrate \/ Terminate
  \/ WaitTarget \/ Sweep \/ ReapOne \/ Converged \/ Publish \/ PublishReady \/ InitExits

HostStep == BootClose \/ BootExit \/ HostRead \/ HostEof \/ HostDecide

KernelStep ==
  \/ \E q \in doomed : Exit(q)
  \/ \E q \in Tree : Zap(q)
  \/ DeadlinePasses

Outside ==
  \/ TargetExec \/ TargetSetupFails
  \/ \E q \in Tree : Exit(q) \/ Write(q)
  \/ \E q, c \in Tree : Fork(q, c) \/ Reap(q, c)
  \/ Cancel \/ InitKilled

Failure == CloseFails \/ InitFails \/ BootCloseFails \/ HostReadFails

PidNext == InitStep \/ HostStep \/ KernelStep \/ Outside \/ Failure

PidSpec == PidInit /\ [][PidNext]_pidVars

(* PID 1, the bootstrap process and the host run on; the kernel delivers   *)
(* SIGKILL, empties a dead namespace and lets time pass.  Nothing is asked *)
(* of the target: it may run for ever.                                     *)
PidLiveSpec ==
  /\ PidSpec /\ WF_pidVars(InitStep) /\ WF_pidVars(HostStep)
  /\ \A q \in Tree : WF_pidVars(q \in doomed /\ Exit(q))
  /\ \A q \in Tree : WF_pidVars(Zap(q))
  /\ WF_pidVars(DeadlinePasses)

-----------------------------------------------------------------------------
PidTypeOK ==
  /\ controls \subseteq Controls
  /\ life \in [Tree -> {"unborn", "setup", "failed", "live", "zombie", "gone"}]
  /\ parent \in [Tree -> Tree \cup {Init}]
  /\ doomed \subseteq Tree /\ late \in 0 .. MaxLateForks
  /\ status \in {"none", "own", "kill"}
  /\ {execd, timer, cancelled, limited, armed, early, launchErr, readOk} \subseteq BOOLEAN
  /\ pc \in {"fork", "close", "arm", "poll", "arbitrate", "kill", "wait", "sweep", "reap",
             "publish", "ready", "dead"}
  /\ revents \subseteq {"target", "deadline", "cancel", "limit"}
  /\ owner \in Owners
  /\ record \in [flag : Owners, status : {"none", "own", "kill"}, ready : BOOLEAN]
  /\ boot \in {"close", "wait", "failed", "exit"} /\ host \in {"read", "wait", "done"}
  /\ pipe \in 0 .. MaxOutput /\ written \in 0 .. MaxOutput /\ observed \in 0 .. MaxOutput
  /\ outcome \in {"none", "Error", "Exited", "TimedOut", "Cancelled", "OutputLimitExceeded"}

(* No process of the sandbox is left when the record says ready, nor when  *)
(* run_report returns, whatever it returns: not a child forked between the *)
(* signal and the reaping, not after a failure or the death of PID 1.      *)
NoSurvivors == record.ready \/ host = "done" => Empty

(* The documented order: a readable output limit first, then an exit of    *)
(* the target that could be waited for when poll returned, then            *)
(* cancellation, then the deadline.                                        *)
PriorityKept ==
  CASE owner = "natural"  -> "limit" \notin revents
    [] owner = "cancel"   -> revents \cap {"limit", "target"} = {} /\ ~early
    [] owner = "deadline" -> revents \cap {"limit", "target", "cancel"} = {} /\ ~early
    [] OTHER -> TRUE

(* What the host reports is what happened: the owner PID 1 decided on, a   *)
(* complete record, no failed set-up passed off as the program's own exit, *)
(* and no natural end reported when more output was read than allowed.     *)
HonestOutcome ==
  /\ outcome = "TimedOut" => owner = "deadline" /\ timer
  /\ outcome = "Cancelled" => owner = "cancel" /\ cancelled
  /\ outcome = "OutputLimitExceeded" => Exceeded
  /\ outcome = "Exited" => owner = "natural" /\ status = "own" /\ execd /\ ~Exceeded
  /\ outcome \notin {"none", "Error"} => record.status = status

(* run_report returns: after a deadline, a cancellation, an excess of      *)
(* output, or the end of the target, whatever the other processes of the   *)
(* sandbox do.                                                             *)
RunEnds ==
  ("deadline" \in controls \/ cancelled \/ limited \/ life[Target] = "zombie")
    ~> host = "done"
=============================================================================
