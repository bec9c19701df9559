------------------------------ MODULE SandboxHost ------------------------------
(***************************************************************************)
(* The host's side of a sandbox, next to each other: the gate in front of  *)
(* its policy (AuthorityDelta), its launch (LaunchSequence) and what is    *)
(* published of it afterwards (TreePublish).  They meet only in what one   *)
(* hands to the next, a policy, then an upper directory, and each takes    *)
(* every value of that as its input; so a behaviour is about one of them   *)
(* and the others rest in an initial state.                                *)
(***************************************************************************)
EXTENDS AuthorityDelta, LaunchSequence, TreePublish

VARIABLE part

hostVars == <<part, deltaVars, launchVars, pubVars>>

CONSTANTS
  RestPolicy,   \* a member of LaunchPolicies
  RestScenario  \* a scenario with one base and one upper directory

DeltaRests  == varied = (CHOOSE g \in DOMAIN Groups : TRUE) /\ deployed = Default
LaunchRests == pol = RestPolicy /\ LaunchInit
PubRests    == sc = RestScenario /\ PubInit

HostInit ==
  \/ part = "gate" /\ DeltaInit /\ LaunchRests /\ PubRests
  \/ part = "launch" /\ DeltaRests /\ LaunchInit /\ PubRests
  \/ part = "publish" /\ DeltaRests /\ LaunchRests /\ PubInit

HostNext ==
  \/ part = "gate" /\ DeltaNext /\ UNCHANGED <<part, launchVars, pubVars>>
  \/ part = "launch" /\ LaunchNext /\ UNCHANGED <<part, deltaVars, pubVars>>
  \/ part = "publish" /\ PubNext /\ UNCHANGED <<part, deltaVars, launchVars>>

(* The processes of a launch do not stop for ever while they may run.      *)
HostFairness ==
  /\ WF_launchVars(part = "launch" /\ ChildStep /\ UNCHANGED <<part, deltaVars, pubVars>>)
  /\ WF_launchVars(part = "launch" /\ RunReport /\ UNCHANGED <<part, deltaVars, pubVars>>)

HostSpec == HostInit /\ [][HostNext]_hostVars /\ HostFairness
================================================================================
