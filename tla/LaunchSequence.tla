---------------------------- MODULE LaunchSequence ----------------------------
(***************************************************************************)
(* One launch (platform/linux.rs): run_report prepares and pins what the   *)
(* policy names, compiles the filter and forks; child_exec enters the      *)
(* namespaces, builds the root, becomes PID 1 and then the target, gives   *)
(* up its privileges and executes.  After each layer it has put in force   *)
(* it sets a bit of a record it shares with the host; the host turns the   *)
(* bits into the enforcement receipt, which the receipt gate               *)
(* (runtime_receipt_gate_main.rs) compares with the policy.                *)
(*                                                                         *)
(* The bootstrap process, PID 1 and the target run one after the other     *)
(* until the target is forked, and only the target writes bits after that. *)
(* Supervision by PID 1 is PidLifecycle's; here it ends the target, or     *)
(* fails, at any point.                                                    *)
(***************************************************************************)
EXTENDS SeccompFilter

CONSTANTS
  LaunchPolicies, \* bound: [time, procfs, cow, landlock, seccomp] records
  TargetCalls,    \* bound: calls the target may try
  FailCode        \* the exit status of a failed launch (127)

VARIABLES
  pol,
  filter,   \* the compiled program
  stage,    \* prepare, running (a step of the child), failing (child_fail),
            \* live (the target executes), ended, refused (nothing was forked)
  at,       \* the next step
  entered,  \* its system calls have succeeded, its bit is not yet set
  inForce,  \* the layers the kernel applies to the process
  bits, phase, lready, \* the shared records
  object,   \* what the pathnames of root and volume lead to on the host
  opened,   \* what the child opened by them
  execd,    \* history: the target executed
  tried,    \* the call a running target made, and the filter's verdict
  report    \* what run_report returned

procState  == <<stage, at, entered, inForce, execd>>
launchVars == <<pol, filter, procState, bits, phase, lready, object, opened, tried, report>>

NoReport == [kind |-> "none", receipt |-> {}]
NoCall   == [call |-> [nr |-> 0, arch |-> 1, args |-> [i \in Indexes |-> 0]], verdict |-> "none"]

Opt(wanted, step) == IF wanted THEN <<step>> ELSE <<>>

(* What each process does, in order.                                       *)
NamespaceSteps(p) ==
  <<"base_namespaces", "id_maps">> \o Opt(p.time, "time_namespace_offsets")
    \o <<"hostname", "loopback", "private_mounts">>

RootSteps(p) ==
  <<"open_root", "check_root", IF p.cow THEN "copy_on_write_root" ELSE "readonly_root">>

VolumeSteps == <<"open_volume", "check_volume", "mount_volume">>

ImageSteps == <<"sealed_images">>

BootstrapSteps(p) ==
  NamespaceSteps(p) \o RootSteps(p) \o VolumeSteps \o <<"scratch">> \o ImageSteps
    \o <<"stdout_redirect", "cwd_pin", "chroot", "cwd", "fd_sanitization", "fork_init">>

InitSteps(p) == Opt(p.procfs, "private_procfs") \o <<"cow_diff_controls", "fork_target">>

DescriptorSteps == <<"stdio", "handles">>

PrivilegeSteps == <<"rlimits", "capabilities_reduced">>

TargetSteps(p) ==
  <<"landlock_ruleset">> \o DescriptorSteps \o PrivilegeSteps \o <<"no_new_privs">>
    \o Opt(p.landlock, "landlock") \o <<"seccomp">>

Steps(p) == BootstrapSteps(p) \o InitSteps(p) \o TargetSteps(p) \o <<"execveat">>

(* The ENFORCEMENT_ bits.                                                  *)
Layers ==
  {"base_namespaces", "time_namespace_offsets", "hostname", "private_mounts", "readonly_root",
   "copy_on_write_root", "chroot", "fd_sanitization", "private_procfs", "rlimits",
   "capabilities_reduced", "no_new_privs", "landlock", "seccomp"}

Now    == Steps(pol)[at]
Forked == at > Len(BootstrapSteps(pol) \o InitSteps(pol))

ValidLaunchPolicies == {p \in LaunchPolicies : ValidSeccomp(p.seccomp)}

LaunchInit ==
  /\ pol \in ValidLaunchPolicies
  /\ filter = <<>> /\ stage = "prepare" /\ at = 1 /\ entered = FALSE /\ inForce = {} /\ execd = FALSE
  /\ bits = {} /\ phase = "none" /\ lready = FALSE
  /\ object = [o \in {"root", "volume"} |-> "pinned"]
  /\ opened = [o \in {"root", "volume"} |-> "none"]
  /\ tried = NoCall /\ report = NoReport

-----------------------------------------------------------------------------
(* The host, until it forks.                                               *)

(* PreparedLaunch::new pins the root, the executable and the volumes; it   *)
(* and the probes before it fail with nothing forked.                      *)
PrepareFails ==
  /\ stage = "prepare" /\ stage' = "refused"
  /\ report' = [kind |-> "setup_error", receipt |-> {}]
  /\ UNCHANGED <<pol, filter, at, entered, inForce, execd, bits, phase, lready, object, opened, tried>>

PrepareLaunch ==
  /\ stage = "prepare"
  /\ IF Compiles(pol.seccomp)
       THEN stage' = "running" /\ filter' = Compile(pol.seccomp) /\ UNCHANGED report
       ELSE /\ stage' = "refused" /\ UNCHANGED filter
            /\ report' = [kind |-> "policy_error", receipt |-> {}]
  /\ UNCHANGED <<pol, at, entered, inForce, execd, bits, phase, lready, object, opened, tried>>

(* Someone on the host puts another object under a pathname.               *)
ReplaceObject(o) ==
  /\ stage \in {"prepare", "running"} /\ object[o] = "pinned"
  /\ object' = [object EXCEPT ![o] = "other"]
  /\ UNCHANGED <<pol, filter, procState, bits, phase, lready, opened, tried, report>>

-----------------------------------------------------------------------------
(* child_exec                                                              *)

Pathname == CASE Now \in {"open_root", "check_root"} -> "root"
              [] Now \in {"open_volume", "check_volume"} -> "volume"

(* Fault: the identity of the object that was opened is not compared.      *)
AnyIdentity == TRUE

(* revalidate_fd_identity_or_fail                                          *)
SameIdentity == Now \in {"check_root", "check_volume"} => opened[Pathname] = "pinned"

LastStep == at = Len(Steps(pol))

(* The calls of one step succeed.                                          *)
Enter ==
  /\ stage = "running" /\ ~entered /\ ~LastStep /\ SameIdentity
  /\ entered' = (Now \in Layers)
  /\ inForce' = inForce \cup ({Now} \cap Layers)
  /\ at' = IF Now \in Layers THEN at ELSE at + 1
  /\ opened' = IF Now \in {"open_root", "open_volume"}
                 THEN [opened EXCEPT ![Pathname] = object[Pathname]] ELSE opened
  /\ UNCHANGED <<pol, filter, stage, execd, bits, phase, lready, object, tried, report>>

(* mark_enforcement, a process's next step after the layer it has entered. *)
MarkEnforcement ==
  /\ stage = "running" /\ entered /\ entered' = FALSE
  /\ bits' = bits \cup {Now}
  /\ at' = at + 1
  /\ UNCHANGED <<pol, filter, stage, inForce, execd, phase, lready, object, opened, tried, report>>

(* A call of the step fails: errno and phase are written.                  *)
ChildFail ==
  /\ stage = "running" /\ ~entered /\ stage' = "failing"
  /\ phase' = Now
  /\ UNCHANGED <<pol, filter, at, entered, inForce, execd, bits, lready, object, opened, tried, report>>

Under(call) == IF "seccomp" \in inForce THEN Verdict(filter, call) ELSE "allow"

ExecCall == [nr |-> Number["execveat"], arch |-> 1,
             args |-> [i \in Indexes |-> IF i = 0 THEN BootstrapFd
                                         ELSE IF i = 4 THEN EmptyPath ELSE 0]]

ExitCall == [nr |-> Number[ErrorExit(pol.seccomp)], arch |-> 1,
             args |-> [i \in Indexes |-> IF i = 0 THEN FailCode ELSE 0]]

Execveat ==
  /\ stage = "running" /\ LastStep /\ Under(ExecCall) = "allow"
  /\ stage' = "live" /\ execd' = TRUE
  /\ UNCHANGED <<pol, filter, at, entered, inForce, bits, phase, lready, object, opened, tried, report>>

(* child_fail repeats its exit call until it gets through.                 *)
FailedExit ==
  /\ stage = "failing" /\ Under(ExitCall) = "allow"
  /\ stage' = "ended" /\ lready' = Forked
  /\ UNCHANGED <<pol, filter, at, entered, inForce, execd, bits, phase, object, opened, tried, report>>

-----------------------------------------------------------------------------
(* The target and those who end it.                                        *)

(* A filter has no memory: one call of a target shows what any would.      *)
TargetCall(c) ==
  /\ stage = "live" /\ tried = NoCall
  /\ tried' = [call |-> c, verdict |-> Under(c)]
  /\ UNCHANGED <<pol, filter, procState, bits, phase, lready, object, opened, report>>

(* The target exits, or PID 1 ends it on a deadline, a cancellation or an  *)
(* output limit, at whatever step it is; PID 1 publishes the lifecycle.    *)
TargetEnds ==
  /\ stage \in {"running", "failing", "live"} /\ Forked
  /\ stage' = "ended" /\ tried' = NoCall /\ lready' = TRUE
  /\ UNCHANGED <<pol, filter, at, entered, inForce, execd, bits, phase, object, opened, report>>

(* PID 1 fails in its supervision, and everything ends with it.            *)
SupervisionFails ==
  /\ stage \in {"running", "failing", "live"} /\ Forked
  /\ stage' = "ended" /\ tried' = NoCall /\ phase' = "supervision"
  /\ UNCHANGED <<pol, filter, at, entered, inForce, execd, bits, lready, object, opened, report>>

(* The bootstrap process or PID 1 is killed from outside.                  *)
LauncherKilled ==
  /\ stage \in {"running", "failing", "live"} /\ stage' = "ended" /\ tried' = NoCall
  /\ UNCHANGED <<pol, filter, at, entered, inForce, execd, bits, phase, lready, object, opened, report>>

-----------------------------------------------------------------------------
(* run_report after the wait, and the receipt.                             *)

(* <<later, earlier>>: no bit without its predecessor.                     *)
Predecessors ==
  { <<"hostname", "base_namespaces">>, <<"private_mounts", "hostname">>,
    <<"readonly_root", "private_mounts">>, <<"copy_on_write_root", "private_mounts">>,
    <<"fd_sanitization", "chroot">>, <<"private_procfs", "fd_sanitization">>,
    <<"rlimits", "fd_sanitization">>, <<"capabilities_reduced", "rlimits">>,
    <<"no_new_privs", "capabilities_reduced">>, <<"landlock", "no_new_privs">>,
    <<"seccomp", "no_new_privs">> }

(* Fault: a requested layer is demanded of every receipt, of a launch that *)
(* was ended before it came to the layer too.                              *)
AsRequestedAtOnce(b, wanted, layer, follower) == (layer \in b) = wanted

(* A requested layer is there once the bit that follows it is, and an      *)
(* unrequested one never.                                                  *)
AsRequested(b, wanted, layer, follower) ==
  IF wanted THEN follower \in b => layer \in b ELSE layer \notin b

EnforcementReceiptFromBits(b, p) ==
  /\ b \subseteq Layers
  /\ \A r \in Predecessors : r[1] \in b => r[2] \in b
  /\ ~ {"readonly_root", "copy_on_write_root"} \subseteq b
  /\ "copy_on_write_root" \in b => p.cow
  /\ "readonly_root" \in b => ~p.cow
  /\ "chroot" \in b => (IF p.cow THEN "copy_on_write_root" ELSE "readonly_root") \in b
  /\ AsRequested(b, p.time, "time_namespace_offsets", "hostname")
  /\ AsRequested(b, p.procfs, "private_procfs", "rlimits")
  /\ AsRequested(b, p.landlock, "landlock", "seccomp")

Outcome ==
  CASE phase # "none"                     -> [kind |-> "launch_error", receipt |-> {}]
    [] phase = "none" /\ ~lready          -> [kind |-> "no_status", receipt |-> {}]
    [] phase = "none" /\ lready /\ ~EnforcementReceiptFromBits(bits, pol)
                                          -> [kind |-> "bad_receipt", receipt |-> {}]
    [] OTHER                              -> [kind |-> "ok", receipt |-> bits]

RunReport ==
  /\ stage = "ended" /\ report = NoReport /\ report' = Outcome
  /\ UNCHANGED <<pol, filter, procState, bits, phase, lready, object, opened, tried>>

(* assess of the receipt gate: what the policy requires, nothing beside it.*)
Required(p) ==
  Layers \ ( (IF p.time THEN {} ELSE {"time_namespace_offsets"})
        \cup (IF p.procfs THEN {} ELSE {"private_procfs"})
        \cup (IF p.landlock THEN {} ELSE {"landlock"})
        \cup {IF p.cow THEN "readonly_root" ELSE "copy_on_write_root"} )

GateExit(p, receipt) ==
  CASE ~ (receipt \subseteq Required(p)) -> 8
    [] receipt \subseteq Required(p) /\ receipt # Required(p) -> 7
    [] receipt = Required(p) -> 0

-----------------------------------------------------------------------------
ChildStep == Enter \/ MarkEnforcement \/ ChildFail \/ Execveat \/ FailedExit

LaunchNext ==
  \/ PrepareFails \/ PrepareLaunch \/ RunReport
  \/ ChildStep
  \/ \E o \in {"root", "volume"} : ReplaceObject(o)
  \/ \E c \in TargetCalls : TargetCall(c)
  \/ TargetEnds \/ SupervisionFails \/ LauncherKilled

(* The processes of the launch run, and the host waits for their end.      *)
LaunchFairness == WF_launchVars(ChildStep) /\ WF_launchVars(RunReport)

LaunchSpec == LaunchInit /\ [][LaunchNext]_launchVars /\ LaunchFairness

-----------------------------------------------------------------------------
(* The target executes only behind every layer its policy asks for, and on *)
(* the root and the volume the host pinned, whatever was renamed over      *)
(* their pathnames meanwhile (child_exec, revalidate_fd_identity_or_fail). *)
ConfinedBeforeExec ==
  execd => /\ inForce = Required(pol)
           /\ \A o \in DOMAIN opened : opened[o] = "pinned"

(* Wherever a launch was ended, the host accepts the bits it finds (they   *)
(* are never taken for an impossible progression), the receipt claims only *)
(* layers that were in force, and a target that executed is not reported   *)
(* incomplete (mark_enforcement, enforcement_receipt_from_bits_for_policy, *)
(* assess).                                                                *)
ReceiptFaithful ==
  /\ report.kind # "bad_receipt"
  /\ report.kind = "ok" => report.receipt \subseteq inForce
  /\ report.kind = "ok" /\ execd => GateExit(pol, report.receipt) = 0

(* For every call of the target the program decides word by word what the  *)
(* rules say of whole arguments: no jump lands in another rule's checks,   *)
(* no carry between the words is lost (compile_seccomp).                   *)
FilterExact ==
  tried # NoCall => tried.verdict = Promised(pol.seccomp, tried.call)

(* A launch that fails ends and is reported, even when the filter is       *)
(* already installed: child_fail does not repeat a refused exit for ever.  *)
FailedLaunchEnds == stage = "failing" ~> report # NoReport
==============================================================================
