---------------------------- MODULE AuthorityDelta ----------------------------
(***************************************************************************)
(* security-lab-authority-delta (authority_delta.rs) as the gate in front  *)
(* of a deployed policy: a candidate replaces it when the comparison ends  *)
(* with exit code 0, that is, unchanged or reduced.  Beside the comparison *)
(* stands what the launch code makes of a policy (Authority): the calls    *)
(* its filter lets through, the accesses its Landlock ruleset leaves, the  *)
(* descriptors, mounts and budgets it hands out.                           *)
(*                                                                         *)
(* A policy is a record; an Option is a set of at most one element.  A     *)
(* field stands for all the fields of policy.rs compared in its way (root  *)
(* for hostname, executable, arguments, environment, working directory,    *)
(* procfs and time offsets; cpu for the four resource limits; and so on).  *)
(***************************************************************************)
EXTENDS SeccompFilter, TLC

CONSTANTS
  Default,   \* a policy
  Groups,    \* bound: by name, sets of partial policies; the policies of a
             \* behaviour differ in the fields of one group
  Calls,     \* the calls that are tried against a filter
  Places,    \* the paths and ports Landlock rules may name
  Digests, Peers, \* contents of an executable, credentials of a peer
  MaxBudget  \* bound: the largest budget

VARIABLES
  varied,    \* the group
  deployed   \* the policy in use

deltaVars == <<varied, deployed>>

(* validate() of policy.rs, the parts that tie two of the fields together. *)
MutableIsWritable(p) ==
  p.fileMutate # {} => p.scratch # {} \/ p.volumes # {} \/ DOMAIN p.cowVolumes # {}

TopologyIsMutable(p) == p.topology \subseteq p.fileMutate

OutputAgrees(p) ==
  /\ (p.redirect # {}) = (p.stdout = "redirect")
  /\ (p.capture # {}) = (p.stdout = "capture")
  /\ p.total # {} => p.stdout = "capture"
  /\ p.redirect # {} => p.scratch # {}
  /\ \A kept \in p.capture, most \in p.total : kept <= most

ValidPolicy(p) ==
  /\ ValidSeccomp(p.seccomp) /\ MutableIsWritable(p) /\ TopologyIsMutable(p) /\ OutputAgrees(p)
  /\ p.peer # {} => p.endpoint # {}
  /\ p.cowDiff # {} => p.cowRoot # {}
  /\ DOMAIN p.cowVolumeDiff \subseteq DOMAIN p.cowVolumes
  /\ DOMAIN p.cowVolumeBase \subseteq DOMAIN p.cowVolumeDiff

Candidates ==
  [ g \in DOMAIN Groups |-> { p \in { x @@ Default : x \in Groups[g] } : ValidPolicy(p) } ]

(* At most one number.                                                     *)
OptionalNumber(option) == option \subseteq Nat /\ \A x, y \in option : x = y

TypedPolicy(p) ==
  /\ p.cpu \in Nat /\ p.scoped \in BOOLEAN /\ p.loopback \in BOOLEAN
  /\ \A option \in {p.cowRoot, p.cowDiff, p.capture, p.total, p.wallClock} : OptionalNumber(option)
  /\ (\A x \in p.scratch : x.bytes \in Nat) /\ (\A x, y \in p.scratch : x = y)
  /\ \A map \in {p.cowVolumes, p.cowVolumeDiff} : \A k \in DOMAIN map : map[k] \in Nat
  /\ \A k \in DOMAIN p.cowVolumeBase : \A i \in {1, 2} : p.cowVolumeBase[k][i] \in Nat

ASSUME PolicyAssumption ==
  /\ \A g \in DOMAIN Groups : \A x \in Groups[g] : TypedPolicy(x @@ Default)
  /\ MaxBudget \in Nat

-----------------------------------------------------------------------------
(* The comparators: a class of change for a baseline and a candidate.      *)

SubsetRelation(shrunk, grown, addedIsWidening) ==
  CASE shrunk /\ grown   -> "unchanged"
    [] shrunk /\ ~grown  -> IF addedIsWidening THEN "widened" ELSE "reduced"
    [] ~shrunk /\ grown  -> IF addedIsWidening THEN "reduced" ELSE "widened"
    [] ~shrunk /\ ~grown -> "incomparable"

Opposite(class) ==
  CASE class = "widened" -> "reduced" [] class = "reduced" -> "widened" [] OTHER -> class

ClassifyAllowance(b, c) == SubsetRelation(b <= c, c <= b, TRUE)

ExactIncomparable(b, c) == IF b = c THEN "unchanged" ELSE "incomparable"

PositiveAllowlist(b, c) == SubsetRelation(b \subseteq c, c \subseteq b, TRUE)

CapabilitySet(b, c) == PositiveAllowlist(b, c)

(* An empty list means that the restriction is not installed.              *)
RestrictionAllowlist(b, c) ==
  CASE b = c  -> "unchanged"
    [] b = {} /\ b # c -> "reduced"
    [] c = {} /\ b # c -> "widened"
    [] OTHER  -> PositiveAllowlist(b, c)

OptionalCapability(b, c) ==
  CASE b = c  -> "unchanged"
    [] b = {} /\ b # c -> "widened"
    [] c = {} /\ b # c -> "reduced"
    [] OTHER  -> "incomparable"

OptionalRestriction(b, c) == Opposite(OptionalCapability(b, c))

ExactSetRestriction(b, c) == OptionalRestriction(b, c)

Of(option) == CHOOSE x \in option : TRUE

OptionalCeiling(b, c) ==
  IF b = {} \/ c = {} THEN OptionalRestriction(b, c) ELSE ClassifyAllowance(Of(b), Of(c))

(* compare_copy_on_write_root and _diff: present or absent, then by size.  *)
OptionalBudget(b, c) ==
  IF b = {} \/ c = {} THEN OptionalCapability(b, c) ELSE ClassifyAllowance(Of(b), Of(c))

CompareScratch(b, c) ==
  IF b = {} \/ c = {} THEN OptionalCapability(b, c)
  ELSE IF Of(b).path # Of(c).path THEN "incomparable"
  ELSE ClassifyAllowance(Of(b).bytes, Of(c).bytes)

PositiveBool(b, c)    == SubsetRelation(b => c, c => b, TRUE)
RestrictiveBool(b, c) == SubsetRelation(b => c, c => b, FALSE)

CompareStdio(b, c) ==
  CASE b = c -> "unchanged"
    [] b = "closed" /\ b # c -> "widened"
    [] c = "closed" /\ b # c -> "reduced"
    [] OTHER -> "incomparable"

(* compare_bounded_cow_volume_*: every binding has one as large.           *)
Covers(big, small) ==
  \A k \in DOMAIN small : k \in DOMAIN big /\ big[k] >= small[k]

BoundedVolumes(b, c) == SubsetRelation(Covers(c, b), Covers(b, c), TRUE)

(* The two limits of an identity export, of which both have to cover.      *)
BoundedIdentities(b, c) ==
  LET covers(big, small) == \A k \in DOMAIN small :
        k \in DOMAIN big /\ \A i \in {1, 2} : big[k][i] >= small[k][i]
  IN  SubsetRelation(covers(c, b), covers(b, c), TRUE)

MapIsSubset(f, g) == \A k \in DOMAIN f : k \in DOMAIN g /\ g[k] = f[k]

SelectedHandles(b, c) == SubsetRelation(MapIsSubset(b, c), MapIsSubset(c, b), TRUE)

-----------------------------------------------------------------------------
(* compare_seccomp                                                         *)

(* Fault: a rule that is added is taken for one more permission.           *)
RuleMapAsGrant(b, c) == SubsetRelation(MapIsSubset(b, c), MapIsSubset(c, b), TRUE)

(* More rules narrow a syscall.                                            *)
RuleMap(b, c) == SubsetRelation(MapIsSubset(b, c), MapIsSubset(c, b), FALSE)

Combined(classes) ==
  LET real == classes \ {"unchanged"}
  IN  IF real = {} THEN "unchanged"
      ELSE IF Cardinality(real) = 1 THEN Of(real) ELSE "incomparable"

RulesFor(rules, name) == [d \in {e \in DOMAIN rules : e[1] = name} |-> rules[d]]

(* Rules are compared for the syscalls that both policies allow.           *)
CompareRules(b, c, kind) ==
  Combined({ RuleMap(RulesFor(b[kind], n), RulesFor(c[kind], n)) : n \in b.allow \cap c.allow })

CompareSeccomp(b, c) ==
  {PositiveAllowlist(b.allow, c.allow)}
    \cup {CompareRules(b, c, kind) : kind \in {"masked", "range", "deny"}}

-----------------------------------------------------------------------------
(* compare and exit_code                                                   *)

CompareExecution(b, c) ==
  { ExactIncomparable(b.root, c.root),
    OptionalRestriction(b.pin, c.pin),
    ExactSetRestriction(b.needed, c.needed) }

CompareFilesystem(b, c) ==
  { OptionalBudget(b.cowRoot, c.cowRoot),
    OptionalBudget(b.cowDiff, c.cowDiff),
    CompareScratch(b.scratch, c.scratch),
    CapabilitySet(b.volumes, c.volumes),
    BoundedVolumes(b.cowVolumes, c.cowVolumes),
    BoundedVolumes(b.cowVolumeDiff, c.cowVolumeDiff),
    BoundedIdentities(b.cowVolumeBase, c.cowVolumeBase) }

CompareChannels(b, c) ==
  { PositiveBool(b.loopback, c.loopback),
    OptionalCapability(b.endpoint, c.endpoint),
    OptionalRestriction(b.peer, c.peer),
    CompareStdio(b.stdout, c.stdout),
    SelectedHandles(b.handles, c.handles) }
  \cup (IF b.stdout = "redirect" /\ c.stdout = "redirect"
          THEN {ExactIncomparable(b.redirect, c.redirect)} ELSE {})
  \cup (IF b.stdout = "capture" /\ c.stdout = "capture"
          THEN {ClassifyAllowance(Of(b.capture), Of(c.capture))} ELSE {})

CompareLandlock(b, c) ==
  { RestrictionAllowlist(b.readExecute, c.readExecute),
    RestrictionAllowlist(b.fileMutate, c.fileMutate),
    PositiveAllowlist(b.topology, c.topology),
    RestrictionAllowlist(b.ports, c.ports),
    RestrictiveBool(b.scoped, c.scoped) }

CompareControls(b, c) ==
  { ClassifyAllowance(b.cpu, c.cpu),
    OptionalCeiling(b.wallClock, c.wallClock),
    OptionalCeiling(b.total, c.total) }

Status(b, c) ==
  Combined(CompareExecution(b, c) \cup CompareFilesystem(b, c) \cup CompareChannels(b, c)
             \cup CompareLandlock(b, c) \cup CompareControls(b, c)
             \cup CompareSeccomp(b.seccomp, c.seccomp))

ExitCode(b, c) ==
  CASE Status(b, c) \in {"unchanged", "reduced"} -> 0
    [] Status(b, c) = "widened"                  -> 5
    [] Status(b, c) = "incomparable"             -> 6

-----------------------------------------------------------------------------
DeltaInit ==
  /\ varied \in DOMAIN Groups
  /\ deployed \in Candidates[varied]

Deploy(c) ==
  /\ ExitCode(deployed, c) = 0
  /\ deployed' = c
  /\ UNCHANGED varied

DeltaNext == \E c \in Candidates[varied] : Deploy(c)

DeltaSpec == DeltaInit /\ [][DeltaNext]_deltaVars

-----------------------------------------------------------------------------
(* What a launch under the policy leaves to the target.                    *)

(* prepare_landlock_ruleset_or_fail: a right is handled only when its list *)
(* is not empty, and the rules grant it on the places of the list.         *)
LandlockRuleset(p) ==
  LET list == [readExecute |-> p.readExecute, fileMutate |-> p.fileMutate,
               topology |-> p.topology, ports |-> p.ports]
      handled == {r \in DOMAIN list : list[r] # {}}
  IN  [handled |-> handled, rules |-> UNION {{r} \X (list[r] \cap Places) : r \in handled}]

(* The kernel's check of an access (an unhandled right is not restricted). *)
LandlockAllows(ruleset, right, place) ==
  right \in ruleset.handled => <<right, place>> \in ruleset.rules

Upto(option) == {n \in 1 .. MaxBudget : \A most \in option : n <= most}
Granted(option) == {n \in 1 .. MaxBudget : \E most \in option : n <= most}

Sized(map) == UNION { {k} \X (1 .. map[k]) : k \in DOMAIN map }

Authority(p) ==
  [ calls   |-> {c \in Calls : Promised(p.seccomp, c) = "allow"},
    access  |-> {a \in {"readExecute", "fileMutate", "topology", "ports"} \X Places :
                   LandlockAllows(LandlockRuleset(p), a[1], a[2])},
    signal  |-> {s \in {"outside"} : ~p.scoped},
    root    |-> {p.root},
    images  |-> {d \in Digests : p.pin = {} \/ d \in p.pin}
                  \X {n \in SUBSET Digests : p.needed = {} \/ n = p.needed},
    cow     |-> Granted(p.cowRoot),
    export  |-> Granted(p.cowDiff),
    scratch |-> UNION { {x.path} \X (1 .. x.bytes) : x \in p.scratch },
    volumes |-> p.volumes,
    overlay |-> Sized(p.cowVolumes),
    diffs   |-> Sized(p.cowVolumeDiff),
    bases   |-> UNION { {k} \X (1 .. p.cowVolumeBase[k][1]) \X (1 .. p.cowVolumeBase[k][2])
                          : k \in DOMAIN p.cowVolumeBase },
    network |-> {n \in {"loopback"} : p.loopback},
    peers   |-> p.endpoint \X {w \in Peers : p.peer = {} \/ w \in p.peer},
    handles |-> {<<h, p.handles[h]>> : h \in DOMAIN p.handles},
    output  |-> ({"inherit", "redirect", "capture"} \cap {p.stdout})
                  \X {d \in Places : p.redirect = {} \/ d \in p.redirect} \X Upto(p.capture),
    cpu     |-> 1 .. p.cpu,
    time    |-> Upto(p.wallClock),
    total   |-> {n \in Upto(p.total) : p.stdout = "capture"} ]

Within(a, b) == \A area \in DOMAIN a : a[area] \subseteq b[area]

(* A policy the gate let through gives a target nothing that the policy it *)
(* replaces withheld, however its filter, its Landlock rules, its mounts   *)
(* and its budgets are made from the fields the gate compared one by one.  *)
ApprovedNeverWidens ==
  [][deployed' # deployed => Within(Authority(deployed'), Authority(deployed))]_deltaVars
==============================================================================
