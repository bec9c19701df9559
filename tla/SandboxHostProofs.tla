--------------------------- MODULE SandboxHostProofs ---------------------------
(***************************************************************************)
(* Proofs about the host's side of a sandbox: the gate in front of its     *)
(* policy, its launch, and the two together with what is published of it   *)
(* (TreePublishProofs).                                                    *)
(***************************************************************************)
EXTENDS SandboxHost, TreePublishProofs

(***************************************************************************)
(* AuthorityDelta.  Every comparator says something about the two values   *)
(* it compares when its class is harmless; the gate lets a policy through  *)
(* only when every class is; and each area of what a launch leaves to the  *)
(* target is monotone in those facts.                                      *)
(***************************************************************************)
Classes  == {"unchanged", "reduced", "widened", "incomparable"}
Harmless == {"unchanged", "reduced"}

-----------------------------------------------------------------------------
(* What a comparator says.                                                 *)

LEMMA SubsetRelationMeans ==
  ASSUME NEW shrunk \in BOOLEAN, NEW grown \in BOOLEAN
  PROVE  /\ SubsetRelation(shrunk, grown, TRUE) \in Classes
         /\ SubsetRelation(shrunk, grown, FALSE) \in Classes
         /\ SubsetRelation(shrunk, grown, TRUE) \in Harmless => grown
         /\ SubsetRelation(shrunk, grown, FALSE) \in Harmless => shrunk
  BY DEF SubsetRelation, Classes, Harmless

LEMMA AllowanceMeans ==
  ASSUME NEW b \in Nat, NEW c \in Nat
  PROVE  /\ ClassifyAllowance(b, c) \in Classes
         /\ ClassifyAllowance(b, c) \in Harmless => c <= b
  BY DEF ClassifyAllowance, SubsetRelation, Classes, Harmless

LEMMA ExactMeans ==
  ASSUME NEW b, NEW c
  PROVE  /\ ExactIncomparable(b, c) \in Classes
         /\ ExactIncomparable(b, c) \in Harmless => b = c
  BY DEF ExactIncomparable, Classes, Harmless

LEMMA AllowlistMeans ==
  ASSUME NEW b, NEW c
  PROVE  /\ PositiveAllowlist(b, c) \in Classes
         /\ PositiveAllowlist(b, c) \in Harmless => c \subseteq b
  BY DEF PositiveAllowlist, SubsetRelation, Classes, Harmless

LEMMA RestrictionMeans ==
  ASSUME NEW b, NEW c
  PROVE  /\ RestrictionAllowlist(b, c) \in Classes
         /\ RestrictionAllowlist(b, c) \in Harmless => b = {} \/ (c # {} /\ c \subseteq b)
  BY AllowlistMeans DEF RestrictionAllowlist, Classes, Harmless

LEMMA CapabilityMeans ==
  ASSUME NEW b, NEW c
  PROVE  /\ OptionalCapability(b, c) \in Classes
         /\ OptionalCapability(b, c) \in Harmless => c = b \/ c = {}
         /\ OptionalRestriction(b, c) \in Classes
         /\ OptionalRestriction(b, c) \in Harmless => c = b \/ b = {}
  BY DEF OptionalCapability, OptionalRestriction, Opposite, Classes, Harmless

LEMMA OfOption ==
  ASSUME NEW S, S # {}
  PROVE  Of(S) \in S
  BY DEF Of

LEMMA CeilingMeans ==
  ASSUME NEW b, NEW c, OptionalNumber(b), OptionalNumber(c)
  PROVE  /\ OptionalCeiling(b, c) \in Classes
         /\ OptionalCeiling(b, c) \in Harmless =>
              \A x \in b : \E y \in c : y <= x
  <1>1. CASE b = {} \/ c = {}
    BY <1>1, CapabilityMeans DEF OptionalCeiling, OptionalNumber
  <1>2. CASE b # {} /\ c # {}
    <2>1. Of(b) \in b /\ Of(c) \in c /\ Of(b) \in Nat /\ Of(c) \in Nat
      BY <1>2, OfOption DEF OptionalNumber
    <2>2. \A x \in b : x = Of(b)
      BY <2>1 DEF OptionalNumber
    <2>3. OptionalCeiling(b, c) = ClassifyAllowance(Of(b), Of(c))
      BY <1>2 DEF OptionalCeiling
    <2> QED BY <2>1, <2>2, <2>3, AllowanceMeans
  <1> QED BY <1>1, <1>2

LEMMA BudgetMeans ==
  ASSUME NEW b, NEW c, OptionalNumber(b), OptionalNumber(c)
  PROVE  /\ OptionalBudget(b, c) \in Classes
         /\ OptionalBudget(b, c) \in Harmless =>
              \A y \in c : \E x \in b : y <= x
  <1>1. CASE b = {} \/ c = {}
    BY <1>1, CapabilityMeans DEF OptionalBudget, OptionalNumber
  <1>2. CASE b # {} /\ c # {}
    <2>1. Of(b) \in b /\ Of(c) \in c /\ Of(b) \in Nat /\ Of(c) \in Nat
      BY <1>2, OfOption DEF OptionalNumber
    <2>2. \A y \in c : y = Of(c)
      BY <2>1 DEF OptionalNumber
    <2>3. OptionalBudget(b, c) = ClassifyAllowance(Of(b), Of(c))
      BY <1>2 DEF OptionalBudget
    <2> QED BY <2>1, <2>2, <2>3, AllowanceMeans
  <1> QED BY <1>1, <1>2

LEMMA ScratchMeans ==
  ASSUME NEW b, NEW c,
         \A x \in b \cup c : x.bytes \in Nat, \A x, y \in b : x = y, \A x, y \in c : x = y
  PROVE  /\ CompareScratch(b, c) \in Classes
         /\ CompareScratch(b, c) \in Harmless =>
              \A y \in c : \E x \in b : x.path = y.path /\ y.bytes <= x.bytes
  <1>1. CASE b = {} \/ c = {}
    BY <1>1, CapabilityMeans DEF CompareScratch
  <1>2. CASE b # {} /\ c # {}
    <2>1. Of(b) \in b /\ Of(c) \in c /\ Of(b).bytes \in Nat /\ Of(c).bytes \in Nat
      BY <1>2, OfOption
    <2>2. \A y \in c : y = Of(c)
      BY <2>1
    <2>3. CASE Of(b).path # Of(c).path
      BY <1>2, <2>3 DEF CompareScratch, Classes, Harmless
    <2>4. CASE Of(b).path = Of(c).path
      <3>1. CompareScratch(b, c) = ClassifyAllowance(Of(b).bytes, Of(c).bytes)
        BY <1>2, <2>4 DEF CompareScratch
      <3> QED BY <2>1, <2>2, <2>4, <3>1, AllowanceMeans
    <2> QED BY <2>3, <2>4
  <1> QED BY <1>1, <1>2

LEMMA BoolMeans ==
  ASSUME NEW b \in BOOLEAN, NEW c \in BOOLEAN
  PROVE  /\ PositiveBool(b, c) \in Classes
         /\ PositiveBool(b, c) \in Harmless => (c => b)
         /\ RestrictiveBool(b, c) \in Classes
         /\ RestrictiveBool(b, c) \in Harmless => (b => c)
  BY DEF PositiveBool, RestrictiveBool, SubsetRelation, Classes, Harmless

LEMMA StdioMeans ==
  ASSUME NEW b, NEW c
  PROVE  /\ CompareStdio(b, c) \in Classes
         /\ CompareStdio(b, c) \in Harmless => c = b \/ c = "closed"
  BY DEF CompareStdio, Classes, Harmless

LEMMA VolumesMean ==
  ASSUME NEW b, NEW c
  PROVE  /\ BoundedVolumes(b, c) \in Classes
         /\ BoundedVolumes(b, c) \in Harmless => Covers(b, c)
  BY DEF BoundedVolumes, SubsetRelation, Classes, Harmless

LEMMA IdentitiesMean ==
  ASSUME NEW b, NEW c
  PROVE  /\ BoundedIdentities(b, c) \in Classes
         /\ BoundedIdentities(b, c) \in Harmless =>
              \A k \in DOMAIN c : k \in DOMAIN b /\ \A i \in {1, 2} : b[k][i] >= c[k][i]
  BY DEF BoundedIdentities, SubsetRelation, Classes, Harmless

LEMMA HandlesMean ==
  ASSUME NEW b, NEW c
  PROVE  /\ SelectedHandles(b, c) \in Classes
         /\ SelectedHandles(b, c) \in Harmless => MapIsSubset(c, b)
         /\ RuleMap(b, c) \in Classes
         /\ RuleMap(b, c) \in Harmless => MapIsSubset(b, c)
  BY DEF SelectedHandles, RuleMap, SubsetRelation, Classes, Harmless

(* A comparison as a whole is harmless only when every part of it is.      *)
LEMMA CombinedMeans ==
  ASSUME NEW classes \in SUBSET Classes
  PROVE  /\ Combined(classes) \in Classes
         /\ Combined(classes) \in Harmless => classes \subseteq Harmless
  <1> DEFINE real == classes \ {"unchanged"}
  <1>1. IsFiniteSet(real)
    <2>1. IsFiniteSet({"unchanged"})
      BY FS_Singleton
    <2>2. IsFiniteSet({"unchanged"} \cup {"reduced"})
      BY <2>1, FS_AddElement
    <2>3. IsFiniteSet(({"unchanged"} \cup {"reduced"}) \cup {"widened"})
      BY <2>2, FS_AddElement
    <2>4. IsFiniteSet((({"unchanged"} \cup {"reduced"}) \cup {"widened"}) \cup {"incomparable"})
      BY <2>3, FS_AddElement
    <2>5. real \subseteq (({"unchanged"} \cup {"reduced"}) \cup {"widened"}) \cup {"incomparable"}
      BY DEF Classes
    <2> QED BY <2>4, <2>5, FS_Subset
  <1>2. CASE real = {}
    BY <1>2 DEF Combined, Classes, Harmless
  <1>3. CASE real # {} /\ Cardinality(real) = 1
    <2>1. Combined(classes) = Of(real) /\ Of(real) \in real
      BY <1>3, OfOption DEF Combined
    <2>2. PICK x : real = {x}
      BY <1>1, <1>3, FS_Singleton
    <2> QED BY <2>1, <2>2 DEF Classes, Harmless
  <1>4. CASE real # {} /\ Cardinality(real) # 1
    BY <1>4 DEF Combined, Classes, Harmless
  <1> QED BY <1>2, <1>3, <1>4

-----------------------------------------------------------------------------
(* The filter.                                                             *)

LEMMA RulesMean ==
  ASSUME NEW b, NEW c, NEW kind
  PROVE  /\ CompareRules(b, c, kind) \in Classes
         /\ CompareRules(b, c, kind) \in Harmless =>
              \A n \in b.allow \cap c.allow :
                 MapIsSubset(RulesFor(b[kind], n), RulesFor(c[kind], n))
  <1> DEFINE Parts == { RuleMap(RulesFor(b[kind], n), RulesFor(c[kind], n)) : n \in b.allow \cap c.allow }
  <1>1. Parts \subseteq Classes
    BY HandlesMean
  <1>2. CompareRules(b, c, kind) = Combined(Parts)
    BY DEF CompareRules
  <1>3. \A n \in b.allow \cap c.allow :
          RuleMap(RulesFor(b[kind], n), RulesFor(c[kind], n)) \in Parts
    OBVIOUS
  <1> HIDE DEF Parts
  <1>4. /\ Combined(Parts) \in Classes
        /\ Combined(Parts) \in Harmless => Parts \subseteq Harmless
    BY <1>1, CombinedMeans
  <1> QED BY <1>2, <1>3, <1>4, HandlesMean

LEMMA RuleKept ==
  ASSUME NEW f, NEW g, NEW name, NEW i, MapIsSubset(RulesFor(f, name), RulesFor(g, name)),
         <<name, i>> \in DOMAIN f
  PROVE  <<name, i>> \in DOMAIN g /\ g[<<name, i>>] = f[<<name, i>>]
  <1>1. <<name, i>> \in DOMAIN RulesFor(f, name)
    BY DEF RulesFor
  <1>2. /\ <<name, i>> \in DOMAIN RulesFor(g, name)
        /\ RulesFor(g, name)[<<name, i>>] = RulesFor(f, name)[<<name, i>>]
    BY <1>1 DEF MapIsSubset
  <1> QED BY <1>1, <1>2 DEF RulesFor

(* A call that the narrower rules let through meets the wider ones.        *)
LEMMA MeetsFewer ==
  ASSUME NEW b, NEW c, NEW name, NEW args,
         \A kind \in {"masked", "range", "deny"} :
           MapIsSubset(RulesFor(b[kind], name), RulesFor(c[kind], name)),
         MeetsRules(c, name, args)
  PROVE  MeetsRules(b, name, args)
  <1>1. /\ MapIsSubset(RulesFor(b.masked, name), RulesFor(c.masked, name))
        /\ MapIsSubset(RulesFor(b.range, name), RulesFor(c.range, name))
        /\ MapIsSubset(RulesFor(b.deny, name), RulesFor(c.deny, name))
    OBVIOUS
  <1>2. ASSUME NEW i \in Indexes, <<name, i>> \in DOMAIN b.masked
        PROVE  args[i] & b.masked[<<name, i>>][1] = b.masked[<<name, i>>][2]
    <2>1. <<name, i>> \in DOMAIN c.masked /\ c.masked[<<name, i>>] = b.masked[<<name, i>>]
      BY <1>1, <1>2, RuleKept
    <2> QED BY <2>1 DEF MeetsRules
  <1>3. ASSUME NEW i \in Indexes, <<name, i>> \in DOMAIN b.range
        PROVE  args[i] \in b.range[<<name, i>>][1] .. b.range[<<name, i>>][2]
    <2>1. <<name, i>> \in DOMAIN c.range /\ c.range[<<name, i>>] = b.range[<<name, i>>]
      BY <1>1, <1>3, RuleKept
    <2> QED BY <2>1 DEF MeetsRules
  <1>4. ASSUME NEW i \in Indexes, <<name, i>> \in DOMAIN b.deny
        PROVE  args[i] & b.deny[<<name, i>>][1] # b.deny[<<name, i>>][2]
    <2>1. <<name, i>> \in DOMAIN c.deny /\ c.deny[<<name, i>>] = b.deny[<<name, i>>]
      BY <1>1, <1>4, RuleKept
    <2> QED BY <2>1 DEF MeetsRules
  <1> QED BY <1>2, <1>3, <1>4 DEF MeetsRules

(* The rules of a valid policy leave the launcher's own calls alone.       *)
LEMMA BootstrapUnruled ==
  ASSUME NEW b, ValidSeccomp(b), NEW args
  PROVE  MeetsRules(b, "execveat", args)
  <1>1. \A rules \in {b.masked, b.range, b.deny} : \A d \in DOMAIN rules : d[1] # "execveat"
    BY DEF ValidSeccomp, ValidRules, Critical
  <1>2. \A rules \in {b.masked, b.range, b.deny} : \A i : <<"execveat", i>> \notin DOMAIN rules
    BY <1>1
  <1> QED BY <1>2 DEF MeetsRules

LEMMA CallsNeverWiden ==
  ASSUME NEW b, NEW c, ValidSeccomp(b), CompareSeccomp(b, c) \subseteq Harmless,
         NEW call, Promised(c, call) = "allow"
  PROVE  Promised(b, call) = "allow"
  <1>1. c.allow \subseteq b.allow
    BY AllowlistMeans DEF CompareSeccomp
  <1>2. \A kind \in {"masked", "range", "deny"} : CompareRules(b, c, kind) \in Harmless
    BY DEF CompareSeccomp
  <1>3. \A kind \in {"masked", "range", "deny"} : \A n \in b.allow \cap c.allow :
          MapIsSubset(RulesFor(b[kind], n), RulesFor(c[kind], n))
    BY <1>2, RulesMean
  <1>4. call.arch = 1
    BY DEF Promised
  <1>5. \/ \E name \in c.allow : Number[name] = call.nr /\ MeetsRules(c, name, call.args)
        \/ "execveat" \notin c.allow /\ Bootstrap(call)
    BY <1>4 DEF Promised
  <1>6. CASE \E name \in c.allow : Number[name] = call.nr /\ MeetsRules(c, name, call.args)
    <2>1. PICK name \in c.allow : Number[name] = call.nr /\ MeetsRules(c, name, call.args)
      BY <1>6
    <2>2. name \in b.allow /\ MeetsRules(b, name, call.args)
      BY <1>1, <1>3, <2>1, MeetsFewer
    <2> QED BY <1>4, <2>1, <2>2 DEF Promised
  <1>7. CASE "execveat" \notin c.allow /\ Bootstrap(call)
    <2>1. CASE "execveat" \in b.allow
      <3>1. MeetsRules(b, "execveat", call.args)
        BY BootstrapUnruled
      <3>2. Number["execveat"] = call.nr
        BY <1>7 DEF Bootstrap
      <3> QED BY <1>4, <2>1, <3>1, <3>2 DEF Promised
    <2>2. CASE "execveat" \notin b.allow
      BY <1>4, <1>7, <2>2 DEF Promised
    <2> QED BY <2>1, <2>2
  <1> QED BY <1>5, <1>6, <1>7

-----------------------------------------------------------------------------
(* The gate: what exit code 0 says of every comparison it is made of.      *)

Comparisons(b, c) ==
  CompareExecution(b, c) \cup CompareFilesystem(b, c) \cup CompareChannels(b, c)
    \cup CompareLandlock(b, c) \cup CompareControls(b, c) \cup CompareSeccomp(b.seccomp, c.seccomp)

(* Two policies, and what the last part of the proof assumes of them.      *)
Comparable(b, c) ==
  TypedPolicy(b) /\ TypedPolicy(c) /\ ValidPolicy(b) /\ ValidPolicy(c)

LEMMA ComparisonsAreClasses ==
  ASSUME NEW b, NEW c, Comparable(b, c)
  PROVE  Comparisons(b, c) \subseteq Classes
  <1>1. CompareExecution(b, c) \subseteq Classes
    BY ExactMeans, CapabilityMeans DEF CompareExecution, ExactSetRestriction
  <1>2. CompareFilesystem(b, c) \subseteq Classes
    <2>1. OptionalBudget(b.cowRoot, c.cowRoot) \in Classes /\ OptionalBudget(b.cowDiff, c.cowDiff) \in Classes
      BY BudgetMeans DEF Comparable, TypedPolicy
    <2>2. CompareScratch(b.scratch, c.scratch) \in Classes
      BY ScratchMeans DEF Comparable, TypedPolicy
    <2>3. CapabilitySet(b.volumes, c.volumes) \in Classes
      BY AllowlistMeans DEF CapabilitySet
    <2>4. /\ BoundedVolumes(b.cowVolumes, c.cowVolumes) \in Classes
          /\ BoundedVolumes(b.cowVolumeDiff, c.cowVolumeDiff) \in Classes
          /\ BoundedIdentities(b.cowVolumeBase, c.cowVolumeBase) \in Classes
      BY VolumesMean, IdentitiesMean
    <2> QED BY <2>1, <2>2, <2>3, <2>4 DEF CompareFilesystem
  <1>3. CompareChannels(b, c) \subseteq Classes
    <2>1. PositiveBool(b.loopback, c.loopback) \in Classes
      BY BoolMeans DEF Comparable, TypedPolicy
    <2>2. /\ OptionalCapability(b.endpoint, c.endpoint) \in Classes
          /\ OptionalRestriction(b.peer, c.peer) \in Classes
          /\ CompareStdio(b.stdout, c.stdout) \in Classes
          /\ SelectedHandles(b.handles, c.handles) \in Classes
          /\ ExactIncomparable(b.redirect, c.redirect) \in Classes
      BY CapabilityMeans, StdioMeans, HandlesMean, ExactMeans
    <2>3. b.stdout = "capture" /\ c.stdout = "capture" =>
            ClassifyAllowance(Of(b.capture), Of(c.capture)) \in Classes
      <3>1. SUFFICES ASSUME b.stdout = "capture", c.stdout = "capture"
                     PROVE  ClassifyAllowance(Of(b.capture), Of(c.capture)) \in Classes
        OBVIOUS
      <3>2. b.capture # {} /\ c.capture # {}
        BY <3>1 DEF Comparable, ValidPolicy, OutputAgrees
      <3>3. b.capture \subseteq Nat /\ c.capture \subseteq Nat
        BY DEF Comparable, TypedPolicy, OptionalNumber
      <3>4. Of(b.capture) \in Nat /\ Of(c.capture) \in Nat
        BY <3>2, <3>3, OfOption
      <3> QED BY <3>4, AllowanceMeans
    <2> QED BY <2>1, <2>2, <2>3 DEF CompareChannels
  <1>4. CompareLandlock(b, c) \subseteq Classes
    <2>1. RestrictiveBool(b.scoped, c.scoped) \in Classes
      BY BoolMeans DEF Comparable, TypedPolicy
    <2> QED BY <2>1, RestrictionMeans, AllowlistMeans DEF CompareLandlock
  <1>5. CompareControls(b, c) \subseteq Classes
    <2>1. ClassifyAllowance(b.cpu, c.cpu) \in Classes
      BY AllowanceMeans DEF Comparable, TypedPolicy
    <2>2. OptionalCeiling(b.wallClock, c.wallClock) \in Classes /\ OptionalCeiling(b.total, c.total) \in Classes
      BY CeilingMeans DEF Comparable, TypedPolicy
    <2> QED BY <2>1, <2>2 DEF CompareControls
  <1>6. CompareSeccomp(b.seccomp, c.seccomp) \subseteq Classes
    BY AllowlistMeans, RulesMean DEF CompareSeccomp
  <1> QED BY <1>1, <1>2, <1>3, <1>4, <1>5, <1>6 DEF Comparisons

LEMMA ApprovedIsHarmless ==
  ASSUME NEW b, NEW c, Comparable(b, c), ExitCode(b, c) = 0
  PROVE  Comparisons(b, c) \subseteq Harmless
  <1>1. Status(b, c) = Combined(Comparisons(b, c))
    BY DEF Status, Comparisons
  <1>2. /\ Combined(Comparisons(b, c)) \in Classes
        /\ Combined(Comparisons(b, c)) \in Harmless => Comparisons(b, c) \subseteq Harmless
    BY ComparisonsAreClasses, CombinedMeans
  <1>3. Status(b, c) \in Harmless
    <2>1. Status(b, c) \in Classes
      BY <1>1, <1>2
    <2> QED BY <2>1 DEF ExitCode, Classes, Harmless
  <1> QED BY <1>1, <1>2, <1>3

-----------------------------------------------------------------------------
(* What a launch under an approved policy leaves, area by area.            *)

Approved(b, c) ==
  /\ Comparable(b, c)
  /\ Comparisons(b, c) \subseteq Harmless
  /\ b.topology # {} => c.topology # {}

LEMMA UptoSmaller ==
  ASSUME NEW b, NEW c, OptionalNumber(b), OptionalNumber(c), \A x \in b : \E y \in c : y <= x
  PROVE  Upto(c) \subseteq Upto(b)
  <1>1. SUFFICES ASSUME NEW n \in Upto(c), NEW x \in b PROVE n \in 1 .. MaxBudget /\ n <= x
    BY DEF Upto
  <1>2. PICK y \in c : y <= x
    OBVIOUS
  <1>3. n \in 1 .. MaxBudget /\ n <= y /\ y \in Nat /\ x \in Nat
    BY <1>2 DEF Upto, OptionalNumber
  <1> QED BY <1>2, <1>3, PolicyAssumption

LEMMA GrantedSmaller ==
  ASSUME NEW b, NEW c, OptionalNumber(b), OptionalNumber(c), \A y \in c : \E x \in b : y <= x
  PROVE  Granted(c) \subseteq Granted(b)
  <1>1. SUFFICES ASSUME NEW n \in Granted(c) PROVE n \in 1 .. MaxBudget /\ \E x \in b : n <= x
    BY DEF Granted
  <1>2. PICK y \in c : n \in 1 .. MaxBudget /\ n <= y
    BY DEF Granted
  <1>3. PICK x \in b : y <= x
    BY <1>2
  <1>4. y \in Nat /\ x \in Nat
    BY <1>2, <1>3 DEF OptionalNumber
  <1> QED BY <1>2, <1>3, <1>4, PolicyAssumption

LEMMA SizedSmaller ==
  ASSUME NEW b, NEW c, Covers(b, c), \A k \in DOMAIN b : b[k] \in Nat, \A k \in DOMAIN c : c[k] \in Nat
  PROVE  Sized(c) \subseteq Sized(b)
  <1>1. SUFFICES ASSUME NEW x \in Sized(c) PROVE x \in Sized(b)
    OBVIOUS
  <1>2. PICK k \in DOMAIN c : x \in {k} \X (1 .. c[k])
    BY DEF Sized
  <1>3. k \in DOMAIN b /\ b[k] >= c[k] /\ b[k] \in Nat /\ c[k] \in Nat
    BY <1>2 DEF Covers
  <1>4. 1 .. c[k] \subseteq 1 .. b[k]
    BY <1>3
  <1>5. x \in {k} \X (1 .. b[k])
    BY <1>2, <1>4
  <1> QED BY <1>3, <1>5 DEF Sized

(* The calls.                                                              *)
LEMMA CallsWithin ==
  ASSUME NEW b, NEW c, Approved(b, c)
  PROVE  Authority(c).calls \subseteq Authority(b).calls
  <1>1. CompareSeccomp(b.seccomp, c.seccomp) \subseteq Harmless /\ ValidSeccomp(b.seccomp)
    BY DEF Approved, Comparisons, Comparable, ValidPolicy
  <1>2. \A call : Promised(c.seccomp, call) = "allow" => Promised(b.seccomp, call) = "allow"
    BY <1>1, CallsNeverWiden
  <1> QED BY <1>2 DEF Authority

(* The accesses: emptying a list un-restricts it.                          *)
LEMMA AccessWithin ==
  ASSUME NEW b, NEW c, Approved(b, c)
  PROVE  Authority(c).access \subseteq Authority(b).access
  <1> DEFINE Rights == {"readExecute", "fileMutate", "topology", "ports"}
             List(p) == [readExecute |-> p.readExecute, fileMutate |-> p.fileMutate,
                         topology |-> p.topology, ports |-> p.ports]
  <1>1. CompareLandlock(b, c) \subseteq Harmless
    BY DEF Approved, Comparisons
  <1>2. /\ b.readExecute = {} \/ (c.readExecute # {} /\ c.readExecute \subseteq b.readExecute)
        /\ b.fileMutate = {} \/ (c.fileMutate # {} /\ c.fileMutate \subseteq b.fileMutate)
        /\ b.ports = {} \/ (c.ports # {} /\ c.ports \subseteq b.ports)
    BY <1>1, RestrictionMeans DEF CompareLandlock
  <1>3. b.topology = {} \/ (c.topology # {} /\ c.topology \subseteq b.topology)
    BY <1>1, AllowlistMeans DEF CompareLandlock, Approved
  <1>4. \A r \in Rights : List(b)[r] = {} \/ (List(c)[r] # {} /\ List(c)[r] \subseteq List(b)[r])
    <2>1. \A p : /\ List(p)["readExecute"] = p.readExecute /\ List(p)["fileMutate"] = p.fileMutate
                 /\ List(p)["topology"] = p.topology /\ List(p)["ports"] = p.ports
      OBVIOUS
    <2> HIDE DEF List
    <2> QED BY <1>2, <1>3, <2>1
  <1>5. \A p : \A r \in Rights : \A q \in Places :
          LandlockAllows(LandlockRuleset(p), r, q) <=> (List(p)[r] # {} => q \in List(p)[r])
    <2>1. SUFFICES ASSUME NEW p, NEW r \in Rights, NEW q \in Places
                   PROVE  LandlockAllows(LandlockRuleset(p), r, q) <=> (List(p)[r] # {} => q \in List(p)[r])
      OBVIOUS
    <2>2. /\ LandlockRuleset(p).handled = {s \in DOMAIN List(p) : List(p)[s] # {}}
          /\ LandlockRuleset(p).rules =
               UNION {{s} \X (List(p)[s] \cap Places) : s \in {t \in DOMAIN List(p) : List(p)[t] # {}}}
      BY DEF LandlockRuleset
    <2>3. DOMAIN List(p) = Rights
      OBVIOUS
    <2> HIDE DEF List, Rights
    <2>4. r \in LandlockRuleset(p).handled <=> List(p)[r] # {}
      BY <2>2, <2>3
    <2>5. <<r, q>> \in LandlockRuleset(p).rules <=> List(p)[r] # {} /\ q \in List(p)[r]
      BY <2>2, <2>3
    <2> QED BY <2>4, <2>5 DEF LandlockAllows
  <1>6. \A p : Authority(p).access = {a \in Rights \X Places : LandlockAllows(LandlockRuleset(p), a[1], a[2])}
    BY DEF Authority
  <1> HIDE DEF List, Rights
  <1>7. ASSUME NEW a \in Authority(c).access PROVE a \in Authority(b).access
    <2>1. a \in Rights \X Places /\ LandlockAllows(LandlockRuleset(c), a[1], a[2])
      BY <1>6
    <2>2. a[1] \in Rights /\ a[2] \in Places
      BY <2>1
    <2>3. LandlockAllows(LandlockRuleset(b), a[1], a[2])
      BY <1>4, <1>5, <2>1, <2>2
    <2> QED BY <1>6, <2>1, <2>3
  <1> QED BY <1>7

(* Identity, images and signals.                                           *)
LEMMA ExecutionWithin ==
  ASSUME NEW b, NEW c, Approved(b, c)
  PROVE  /\ Authority(c).root \subseteq Authority(b).root
         /\ Authority(c).images \subseteq Authority(b).images
         /\ Authority(c).signal \subseteq Authority(b).signal
  <1>1. CompareExecution(b, c) \subseteq Harmless /\ CompareLandlock(b, c) \subseteq Harmless
    BY DEF Approved, Comparisons
  <1>2. c.root = b.root
    BY <1>1, ExactMeans DEF CompareExecution
  <1>3. (c.pin = b.pin \/ b.pin = {}) /\ (c.needed = b.needed \/ b.needed = {})
    BY <1>1, CapabilityMeans DEF CompareExecution, ExactSetRestriction
  <1>4. b.scoped => c.scoped
    BY <1>1, BoolMeans DEF CompareLandlock, Approved, Comparable, TypedPolicy
  <1>5. Authority(c).root \subseteq Authority(b).root
    BY <1>2 DEF Authority
  <1>6. Authority(c).images \subseteq Authority(b).images
    <2>1. \A p : Authority(p).images = {d \in Digests : p.pin = {} \/ d \in p.pin}
                                        \X {n \in SUBSET Digests : p.needed = {} \/ n = p.needed}
      BY DEF Authority
    <2>2. {d \in Digests : c.pin = {} \/ d \in c.pin} \subseteq {d \in Digests : b.pin = {} \/ d \in b.pin}
      BY <1>3
    <2>3. {n \in SUBSET Digests : c.needed = {} \/ n = c.needed}
             \subseteq {n \in SUBSET Digests : b.needed = {} \/ n = b.needed}
      BY <1>3
    <2> QED BY <2>1, <2>2, <2>3
  <1>7. Authority(c).signal \subseteq Authority(b).signal
    BY <1>4 DEF Authority
  <1> QED BY <1>5, <1>6, <1>7

(* Mounts and their budgets.                                               *)
LEMMA MountsWithin ==
  ASSUME NEW b, NEW c, Approved(b, c)
  PROVE  /\ Authority(c).cow \subseteq Authority(b).cow
         /\ Authority(c).export \subseteq Authority(b).export
         /\ Authority(c).scratch \subseteq Authority(b).scratch
         /\ Authority(c).volumes \subseteq Authority(b).volumes
         /\ Authority(c).overlay \subseteq Authority(b).overlay
         /\ Authority(c).diffs \subseteq Authority(b).diffs
         /\ Authority(c).bases \subseteq Authority(b).bases
  <1>1. CompareFilesystem(b, c) \subseteq Harmless /\ TypedPolicy(b) /\ TypedPolicy(c)
    BY DEF Approved, Comparisons, Comparable
  <1>2. /\ OptionalNumber(b.cowRoot) /\ OptionalNumber(c.cowRoot)
        /\ OptionalNumber(b.cowDiff) /\ OptionalNumber(c.cowDiff)
    BY <1>1 DEF TypedPolicy
  <1>3. Authority(c).cow \subseteq Authority(b).cow
    <2>1. \A y \in c.cowRoot : \E x \in b.cowRoot : y <= x
      BY <1>1, <1>2, BudgetMeans DEF CompareFilesystem
    <2>2. Granted(c.cowRoot) \subseteq Granted(b.cowRoot)
      BY <1>2, <2>1, GrantedSmaller
    <2> QED BY <2>2 DEF Authority
  <1>4. Authority(c).export \subseteq Authority(b).export
    <2>1. \A y \in c.cowDiff : \E x \in b.cowDiff : y <= x
      BY <1>1, <1>2, BudgetMeans DEF CompareFilesystem
    <2>2. Granted(c.cowDiff) \subseteq Granted(b.cowDiff)
      BY <1>2, <2>1, GrantedSmaller
    <2> QED BY <2>2 DEF Authority
  <1>5. Authority(c).scratch \subseteq Authority(b).scratch
    <2>1. \A x \in b.scratch \cup c.scratch : x.bytes \in Nat
      BY <1>1 DEF TypedPolicy
    <2>2. \A y \in c.scratch : \E x \in b.scratch : x.path = y.path /\ y.bytes <= x.bytes
      <3>1. CompareScratch(b.scratch, c.scratch) \in Harmless
        BY <1>1 DEF CompareFilesystem
      <3>2. (\A x, y \in b.scratch : x = y) /\ (\A x, y \in c.scratch : x = y)
        BY <1>1 DEF TypedPolicy
      <3> QED BY <2>1, <3>1, <3>2, ScratchMeans
    <2>3. \A p : Authority(p).scratch = UNION { {x.path} \X (1 .. x.bytes) : x \in p.scratch }
      BY DEF Authority
    <2>4. ASSUME NEW e \in Authority(c).scratch PROVE e \in Authority(b).scratch
      <3>1. PICK y \in c.scratch : e \in {y.path} \X (1 .. y.bytes)
        BY <2>3
      <3>2. PICK x \in b.scratch : x.path = y.path /\ y.bytes <= x.bytes
        BY <2>2
      <3>3. 1 .. y.bytes \subseteq 1 .. x.bytes
        BY <2>1, <3>2
      <3>4. e \in {x.path} \X (1 .. x.bytes)
        BY <3>1, <3>2, <3>3
      <3> QED BY <2>3, <3>4
    <2> QED BY <2>4
  <1>6. Authority(c).volumes \subseteq Authority(b).volumes
    <2>1. c.volumes \subseteq b.volumes
      BY <1>1, AllowlistMeans DEF CompareFilesystem, CapabilitySet
    <2> QED BY <2>1 DEF Authority
  <1>7. /\ \A k \in DOMAIN b.cowVolumes : b.cowVolumes[k] \in Nat
        /\ \A k \in DOMAIN c.cowVolumes : c.cowVolumes[k] \in Nat
        /\ \A k \in DOMAIN b.cowVolumeDiff : b.cowVolumeDiff[k] \in Nat
        /\ \A k \in DOMAIN c.cowVolumeDiff : c.cowVolumeDiff[k] \in Nat
    BY <1>1 DEF TypedPolicy
  <1>8. Authority(c).overlay \subseteq Authority(b).overlay
    <2>1. Covers(b.cowVolumes, c.cowVolumes)
      BY <1>1, VolumesMean DEF CompareFilesystem
    <2>2. Sized(c.cowVolumes) \subseteq Sized(b.cowVolumes)
      BY <1>7, <2>1, SizedSmaller
    <2> QED BY <2>2 DEF Authority
  <1>9. Authority(c).diffs \subseteq Authority(b).diffs
    <2>1. Covers(b.cowVolumeDiff, c.cowVolumeDiff)
      BY <1>1, VolumesMean DEF CompareFilesystem
    <2>2. Sized(c.cowVolumeDiff) \subseteq Sized(b.cowVolumeDiff)
      BY <1>7, <2>1, SizedSmaller
    <2> QED BY <2>2 DEF Authority
  <1>10. Authority(c).bases \subseteq Authority(b).bases
    <2>1. \A k \in DOMAIN c.cowVolumeBase : /\ k \in DOMAIN b.cowVolumeBase
            /\ b.cowVolumeBase[k][1] >= c.cowVolumeBase[k][1]
            /\ b.cowVolumeBase[k][2] >= c.cowVolumeBase[k][2]
      BY <1>1, IdentitiesMean DEF CompareFilesystem
    <2>2. /\ \A k \in DOMAIN b.cowVolumeBase : b.cowVolumeBase[k][1] \in Nat /\ b.cowVolumeBase[k][2] \in Nat
          /\ \A k \in DOMAIN c.cowVolumeBase : c.cowVolumeBase[k][1] \in Nat /\ c.cowVolumeBase[k][2] \in Nat
      BY <1>1 DEF TypedPolicy
    <2>3. \A p : Authority(p).bases =
                 UNION { {k} \X (1 .. p.cowVolumeBase[k][1]) \X (1 .. p.cowVolumeBase[k][2])
                           : k \in DOMAIN p.cowVolumeBase }
      BY DEF Authority
    <2>4. ASSUME NEW e \in Authority(c).bases PROVE e \in Authority(b).bases
      <3>1. PICK k \in DOMAIN c.cowVolumeBase :
              e \in {k} \X (1 .. c.cowVolumeBase[k][1]) \X (1 .. c.cowVolumeBase[k][2])
        BY <2>3
      <3>2. /\ 1 .. c.cowVolumeBase[k][1] \subseteq 1 .. b.cowVolumeBase[k][1]
            /\ 1 .. c.cowVolumeBase[k][2] \subseteq 1 .. b.cowVolumeBase[k][2]
        BY <2>1, <2>2
      <3>3. e \in {k} \X (1 .. b.cowVolumeBase[k][1]) \X (1 .. b.cowVolumeBase[k][2])
        BY <3>1, <3>2
      <3> QED BY <2>1, <2>3, <3>3
    <2> QED BY <2>4
  <1> QED BY <1>3, <1>4, <1>5, <1>6, <1>8, <1>9, <1>10

(* Network, descriptors and output.                                        *)
LEMMA ChannelsWithin ==
  ASSUME NEW b, NEW c, Approved(b, c)
  PROVE  /\ Authority(c).network \subseteq Authority(b).network
         /\ Authority(c).peers \subseteq Authority(b).peers
         /\ Authority(c).handles \subseteq Authority(b).handles
         /\ Authority(c).output \subseteq Authority(b).output
  <1>1. CompareChannels(b, c) \subseteq Harmless /\ Comparable(b, c)
    BY DEF Approved, Comparisons
  <1>2. Authority(c).network \subseteq Authority(b).network
    <2>1. c.loopback => b.loopback
      BY <1>1, BoolMeans DEF CompareChannels, Comparable, TypedPolicy
    <2> QED BY <2>1 DEF Authority
  <1>3. Authority(c).peers \subseteq Authority(b).peers
    <2>1. c.endpoint = b.endpoint \/ c.endpoint = {}
      BY <1>1, CapabilityMeans DEF CompareChannels
    <2>2. c.peer = b.peer \/ b.peer = {}
      BY <1>1, CapabilityMeans DEF CompareChannels
    <2>3. {w \in Peers : c.peer = {} \/ w \in c.peer} \subseteq {w \in Peers : b.peer = {} \/ w \in b.peer}
      BY <2>2
    <2>4. \A p : Authority(p).peers = p.endpoint \X {w \in Peers : p.peer = {} \/ w \in p.peer}
      BY DEF Authority
    <2> QED BY <2>1, <2>3, <2>4
  <1>4. Authority(c).handles \subseteq Authority(b).handles
    <2>1. MapIsSubset(c.handles, b.handles)
      BY <1>1, HandlesMean DEF CompareChannels
    <2>2. \A p : Authority(p).handles = {<<h, p.handles[h]>> : h \in DOMAIN p.handles}
      BY DEF Authority
    <2> QED BY <2>1, <2>2 DEF MapIsSubset
  <1>5. Authority(c).output \subseteq Authority(b).output
    <2> DEFINE Ways(p)  == {"inherit", "redirect", "capture"} \cap {p.stdout}
               Files(p) == {d \in Places : p.redirect = {} \/ d \in p.redirect}
    <2>1. c.stdout = b.stdout \/ c.stdout = "closed"
      BY <1>1, StdioMeans DEF CompareChannels
    <2>2. \A p : Authority(p).output = Ways(p) \X Files(p) \X Upto(p.capture)
      BY DEF Authority
    <2>3. CASE c.stdout = "closed"
      <3>1. Ways(c) = {}
        BY <2>3
      <3> HIDE DEF Ways, Files
      <3> QED BY <2>2, <3>1
    <2>4. CASE c.stdout = b.stdout
      <3>1. /\ OptionalNumber(b.capture) /\ OptionalNumber(c.capture)
            /\ OutputAgrees(b) /\ OutputAgrees(c)
        BY <1>1 DEF Comparable, TypedPolicy, ValidPolicy
      <3>2. Ways(c) = Ways(b)
        BY <2>4
      <3>3. c.redirect = b.redirect
        <4>1. CASE c.stdout = "redirect"
          <5>1. ExactIncomparable(b.redirect, c.redirect) \in Harmless
            BY <1>1, <2>4, <4>1 DEF CompareChannels
          <5> QED BY <5>1, ExactMeans
        <4>2. CASE c.stdout # "redirect"
          BY <2>4, <3>1, <4>2 DEF OutputAgrees
        <4> QED BY <4>1, <4>2
      <3>4. Upto(c.capture) \subseteq Upto(b.capture)
        <4>1. CASE c.stdout = "capture"
          <5>1. ClassifyAllowance(Of(b.capture), Of(c.capture)) \in Harmless
            BY <1>1, <2>4, <4>1 DEF CompareChannels
          <5>2. b.capture # {} /\ c.capture # {}
            BY <2>4, <3>1, <4>1 DEF OutputAgrees
          <5>3. /\ Of(b.capture) \in b.capture /\ Of(c.capture) \in c.capture
                /\ Of(b.capture) \in Nat /\ Of(c.capture) \in Nat
            BY <3>1, <5>2, OfOption DEF OptionalNumber
          <5>4. Of(c.capture) <= Of(b.capture)
            BY <5>1, <5>3, AllowanceMeans
          <5>5. \A x \in b.capture : \E y \in c.capture : y <= x
            BY <3>1, <5>3, <5>4 DEF OptionalNumber
          <5> QED BY <3>1, <5>5, UptoSmaller
        <4>2. CASE c.stdout # "capture"
          <5>1. b.capture = {} /\ c.capture = {}
            BY <2>4, <3>1, <4>2 DEF OutputAgrees
          <5> QED BY <5>1
        <4> QED BY <4>1, <4>2
      <3>5. Files(c) = Files(b)
        BY <3>3
      <3> HIDE DEF Ways, Files
      <3> QED BY <2>2, <3>2, <3>4, <3>5
    <2> QED BY <2>1, <2>3, <2>4
  <1> QED BY <1>2, <1>3, <1>4, <1>5

(* Time, processor and the total of captured output.                       *)
LEMMA ControlsWithin ==
  ASSUME NEW b, NEW c, Approved(b, c)
  PROVE  /\ Authority(c).cpu \subseteq Authority(b).cpu
         /\ Authority(c).time \subseteq Authority(b).time
         /\ Authority(c).total \subseteq Authority(b).total
  <1>1. /\ CompareControls(b, c) \subseteq Harmless /\ CompareChannels(b, c) \subseteq Harmless
        /\ TypedPolicy(b) /\ TypedPolicy(c)
    BY DEF Approved, Comparisons, Comparable
  <1>2. /\ OptionalNumber(b.wallClock) /\ OptionalNumber(c.wallClock)
        /\ OptionalNumber(b.total) /\ OptionalNumber(c.total) /\ b.cpu \in Nat /\ c.cpu \in Nat
    BY <1>1 DEF TypedPolicy
  <1>3. Authority(c).cpu \subseteq Authority(b).cpu
    <2>1. c.cpu <= b.cpu
      BY <1>1, <1>2, AllowanceMeans DEF CompareControls
    <2>2. 1 .. c.cpu \subseteq 1 .. b.cpu
      BY <1>2, <2>1
    <2> QED BY <2>2 DEF Authority
  <1>4. Upto(c.wallClock) \subseteq Upto(b.wallClock)
    <2>1. \A x \in b.wallClock : \E y \in c.wallClock : y <= x
      BY <1>1, <1>2, CeilingMeans DEF CompareControls
    <2> QED BY <1>2, <2>1, UptoSmaller
  <1>5. Upto(c.total) \subseteq Upto(b.total)
    <2>1. \A x \in b.total : \E y \in c.total : y <= x
      BY <1>1, <1>2, CeilingMeans DEF CompareControls
    <2> QED BY <1>2, <2>1, UptoSmaller
  <1>6. c.stdout = "capture" => b.stdout = "capture"
    BY <1>1, StdioMeans DEF CompareChannels
  <1>7. Authority(c).time \subseteq Authority(b).time
    BY <1>4 DEF Authority
  <1>8. Authority(c).total \subseteq Authority(b).total
    BY <1>5, <1>6 DEF Authority
  <1> QED BY <1>3, <1>7, <1>8

LEMMA ApprovedIsWithin ==
  ASSUME NEW b, NEW c, Approved(b, c)
  PROVE  Within(Authority(c), Authority(b))
  <1> DEFINE Areas == {"calls", "access", "signal", "root", "images", "cow", "export", "scratch",
                       "volumes", "overlay", "diffs", "bases", "network", "peers", "handles",
                       "output", "cpu", "time", "total"}
  <1>1. DOMAIN Authority(c) = Areas
    BY DEF Authority
  <1>2. \A area \in Areas : Authority(c)[area] \subseteq Authority(b)[area]
    BY CallsWithin, AccessWithin, ExecutionWithin, MountsWithin, ChannelsWithin, ControlsWithin
  <1> QED BY <1>1, <1>2 DEF Within

-----------------------------------------------------------------------------
(* Topology lists that are not emptied.  Without it the theorem is false:  *)
(* an empty list leaves the right unhandled, and the comparison reads it   *)
(* as fewer permissions.                                                   *)
TopologyKept ==
  \A g \in DOMAIN Groups : \A b, c \in Candidates[g] : b.topology # {} => c.topology # {}

PolicyInv == varied \in DOMAIN Groups /\ deployed \in Candidates[varied]

LEMMA CandidatesAreSound ==
  ASSUME NEW g \in DOMAIN Groups, NEW p \in Candidates[g]
  PROVE  TypedPolicy(p) /\ ValidPolicy(p)
  <1>1. PICK x \in Groups[g] : p = x @@ Default /\ ValidPolicy(p)
    BY DEF Candidates
  <1> QED BY <1>1, PolicyAssumption

LEMMA DeployNarrows ==
  ASSUME TopologyKept, PolicyInv, NEW c \in Candidates[varied], Deploy(c)
  PROVE  Within(Authority(deployed'), Authority(deployed))
  <1>1. Comparable(deployed, c)
    BY CandidatesAreSound DEF PolicyInv, Comparable
  <1>2. Approved(deployed, c)
    BY <1>1, ApprovedIsHarmless DEF TopologyKept, PolicyInv, Deploy, Approved
  <1> QED BY <1>2, ApprovedIsWithin DEF Deploy

(* Whatever policies are compared, the gate lets one through only if what  *)
(* the launch code makes of it is within what it made of the one before.   *)
THEOREM ApprovedPoliciesNeverWiden ==
  ASSUME TopologyKept
  PROVE  DeltaSpec => ApprovedNeverWidens
  <1>1. DeltaInit => PolicyInv
    BY DEF DeltaInit, PolicyInv
  <1>2. PolicyInv /\ [DeltaNext]_deltaVars => PolicyInv'
    BY DEF PolicyInv, DeltaNext, Deploy, deltaVars, Candidates
  <1>3. PolicyInv /\ [DeltaNext]_deltaVars =>
          [deployed' # deployed => Within(Authority(deployed'), Authority(deployed))]_deltaVars
    BY DeployNarrows DEF DeltaNext, deltaVars
  <1> QED BY <1>1, <1>2, <1>3, PTL DEF DeltaSpec, ApprovedNeverWidens

-----------------------------------------------------------------------------
(***************************************************************************)
(* LaunchSequence.  The steps of a policy are a subsequence of one fixed   *)
(* order, so a step has a rank in every launch that has it; what is in     *)
(* force, what the receipt says and what is over are the same set.         *)
(***************************************************************************)
StepNames ==
  {"base_namespaces", "id_maps", "time_namespace_offsets", "hostname", "loopback",
   "private_mounts", "open_root", "check_root", "copy_on_write_root", "readonly_root",
   "open_volume", "check_volume", "mount_volume", "scratch", "sealed_images", "stdout_redirect",
   "cwd_pin", "chroot", "cwd", "fd_sanitization", "fork_init", "private_procfs",
   "cow_diff_controls", "fork_target", "landlock_ruleset", "stdio", "handles", "rlimits",
   "capabilities_reduced", "no_new_privs", "landlock", "seccomp", "execveat"}

(* Where a step is among all steps a launch may have.                      *)
Rank(step) ==
  CASE step = "base_namespaces" -> 1 [] step = "id_maps" -> 2
    [] step = "time_namespace_offsets" -> 3 [] step = "hostname" -> 4
    [] step = "loopback" -> 5 [] step = "private_mounts" -> 6
    [] step = "open_root" -> 7 [] step = "check_root" -> 8
    [] step \in {"copy_on_write_root", "readonly_root"} -> 9
    [] step = "open_volume" -> 10 [] step = "check_volume" -> 11
    [] step = "mount_volume" -> 12 [] step = "scratch" -> 13
    [] step = "sealed_images" -> 14 [] step = "stdout_redirect" -> 15
    [] step = "cwd_pin" -> 16 [] step = "chroot" -> 17 [] step = "cwd" -> 18
    [] step = "fd_sanitization" -> 19 [] step = "fork_init" -> 20
    [] step = "private_procfs" -> 21 [] step = "cow_diff_controls" -> 22
    [] step = "fork_target" -> 23 [] step = "landlock_ruleset" -> 24
    [] step = "stdio" -> 25 [] step = "handles" -> 26 [] step = "rlimits" -> 27
    [] step = "capabilities_reduced" -> 28 [] step = "no_new_privs" -> 29
    [] step = "landlock" -> 30 [] step = "seccomp" -> 31 [] step = "execveat" -> 32

(* The steps come in the order of their ranks, which lie between two.      *)
Chain(s, from, to) ==
  /\ s \in Seq(StepNames)
  /\ \A i \in DOMAIN s : Rank(s[i]) \in from..to
  /\ \A i, j \in DOMAIN s : i < j => Rank(s[i]) < Rank(s[j])

LEMMA Ranks ==
  /\ Rank("base_namespaces") = 1 /\ Rank("id_maps") = 2
  /\ Rank("time_namespace_offsets") = 3 /\ Rank("hostname") = 4
  /\ Rank("loopback") = 5 /\ Rank("private_mounts") = 6
  /\ Rank("open_root") = 7 /\ Rank("check_root") = 8
  /\ Rank("copy_on_write_root") = 9 /\ Rank("readonly_root") = 9
  /\ Rank("open_volume") = 10 /\ Rank("check_volume") = 11
  /\ Rank("mount_volume") = 12 /\ Rank("scratch") = 13
  /\ Rank("sealed_images") = 14 /\ Rank("stdout_redirect") = 15
  /\ Rank("cwd_pin") = 16 /\ Rank("chroot") = 17
  /\ Rank("cwd") = 18 /\ Rank("fd_sanitization") = 19
  /\ Rank("fork_init") = 20 /\ Rank("private_procfs") = 21
  /\ Rank("cow_diff_controls") = 22 /\ Rank("fork_target") = 23
  /\ Rank("landlock_ruleset") = 24 /\ Rank("stdio") = 25
  /\ Rank("handles") = 26 /\ Rank("rlimits") = 27
  /\ Rank("capabilities_reduced") = 28 /\ Rank("no_new_privs") = 29
  /\ Rank("landlock") = 30 /\ Rank("seccomp") = 31
  /\ Rank("execveat") = 32
  BY DEF Rank

LEMMA Known ==
  /\ "base_namespaces" \in StepNames /\ "id_maps" \in StepNames
  /\ "time_namespace_offsets" \in StepNames /\ "hostname" \in StepNames
  /\ "loopback" \in StepNames /\ "private_mounts" \in StepNames
  /\ "open_root" \in StepNames /\ "check_root" \in StepNames
  /\ "copy_on_write_root" \in StepNames /\ "readonly_root" \in StepNames
  /\ "open_volume" \in StepNames /\ "check_volume" \in StepNames
  /\ "mount_volume" \in StepNames /\ "scratch" \in StepNames
  /\ "sealed_images" \in StepNames /\ "stdout_redirect" \in StepNames
  /\ "cwd_pin" \in StepNames /\ "chroot" \in StepNames
  /\ "cwd" \in StepNames /\ "fd_sanitization" \in StepNames
  /\ "fork_init" \in StepNames /\ "private_procfs" \in StepNames
  /\ "cow_diff_controls" \in StepNames /\ "fork_target" \in StepNames
  /\ "landlock_ruleset" \in StepNames /\ "stdio" \in StepNames
  /\ "handles" \in StepNames /\ "rlimits" \in StepNames
  /\ "capabilities_reduced" \in StepNames /\ "no_new_privs" \in StepNames
  /\ "landlock" \in StepNames /\ "seccomp" \in StepNames
  /\ "execveat" \in StepNames
  BY DEF StepNames

LEMMA ConcatElements ==
  ASSUME NEW S, NEW s \in Seq(S), NEW t \in Seq(S)
  PROVE  /\ s \o t \in Seq(S) /\ Len(s) \in Nat /\ Len(s \o t) = Len(s) + Len(t)
         /\ DOMAIN (s \o t) = 1..(Len(s) + Len(t))
         /\ \A i \in DOMAIN s : i \in DOMAIN (s \o t) /\ (s \o t)[i] = s[i]
         /\ \A i \in DOMAIN t : Len(s) + i \in DOMAIN (s \o t) /\ (s \o t)[Len(s) + i] = t[i]
         /\ \A i \in DOMAIN (s \o t) :
              (i \in DOMAIN s \/ i - Len(s) \in DOMAIN t) /\ (i <= Len(s) <=> i \in DOMAIN s)
  <1>1. Len(s) \in Nat /\ Len(t) \in Nat /\ DOMAIN s = 1..Len(s) /\ DOMAIN t = 1..Len(t)
    OBVIOUS
  <1>2. s \o t \in Seq(S) /\ Len(s \o t) = Len(s) + Len(t)
    OBVIOUS
  <1>3. DOMAIN (s \o t) = 1..(Len(s) + Len(t))
    BY <1>2
  <1>4. \A i \in 1..(Len(s) + Len(t)) :
          (s \o t)[i] = IF i <= Len(s) THEN s[i] ELSE t[i - Len(s)]
    OBVIOUS
  <1>5. ASSUME NEW i \in DOMAIN t
        PROVE  Len(s) + i \in DOMAIN (s \o t) /\ (s \o t)[Len(s) + i] = t[i]
    <2>1. Len(s) + i \in 1..(Len(s) + Len(t)) /\ ~(Len(s) + i <= Len(s)) /\ (Len(s) + i) - Len(s) = i
      BY <1>1
    <2> QED BY <1>3, <1>4, <2>1
  <1> QED BY <1>1, <1>2, <1>3, <1>4, <1>5

LEMMA RangeOfConcat ==
  ASSUME NEW S, NEW s \in Seq(S), NEW t \in Seq(S)
  PROVE  Range(s \o t) = Range(s) \cup Range(t)
  <1>1. Range(s \o t) \subseteq Range(s) \cup Range(t)
    <2> SUFFICES ASSUME NEW i \in DOMAIN (s \o t)
                 PROVE  (s \o t)[i] \in Range(s) \cup Range(t)
      BY DEF Range
    <2>1. CASE i \in DOMAIN s
      BY <2>1, ConcatElements DEF Range
    <2>2. CASE i - Len(s) \in DOMAIN t
      <3>1. i = Len(s) + (i - Len(s))
        BY ConcatElements
      <3> QED BY <2>2, <3>1, ConcatElements DEF Range
    <2> QED BY <2>1, <2>2, ConcatElements
  <1>2. Range(s) \subseteq Range(s \o t)
    BY ConcatElements DEF Range
  <1>3. Range(t) \subseteq Range(s \o t)
    <2> SUFFICES ASSUME NEW i \in DOMAIN t PROVE t[i] \in Range(s \o t)
      BY DEF Range
    <2>1. Len(s) + i \in DOMAIN (s \o t) /\ (s \o t)[Len(s) + i] = t[i]
      BY ConcatElements
    <2> QED BY <2>1 DEF Range
  <1> QED BY <1>1, <1>2, <1>3

LEMMA ChainOfConcat ==
  ASSUME NEW s, NEW t, NEW from \in Nat, NEW mid \in Nat, NEW to \in Nat, from <= mid, mid <= to,
         Chain(s, from, mid), Chain(t, mid + 1, to)
  PROVE  Chain(s \o t, from, to)
  <1>1. s \in Seq(StepNames) /\ t \in Seq(StepNames)
    BY DEF Chain
  <1>2. ASSUME NEW i \in DOMAIN (s \o t)
        PROVE  \/ i \in DOMAIN s /\ i <= Len(s) /\ (s \o t)[i] = s[i] /\ Rank(s[i]) \in from..mid
               \/ /\ i - Len(s) \in DOMAIN t /\ i > Len(s)
                  /\ (s \o t)[i] = t[i - Len(s)] /\ Rank(t[i - Len(s)]) \in (mid + 1)..to
    <2>1. CASE i \in DOMAIN s
      BY <1>1, <2>1, ConcatElements DEF Chain
    <2>2. CASE i \notin DOMAIN s
      <3>1. i - Len(s) \in DOMAIN t /\ i > Len(s) /\ i \in Nat /\ i = Len(s) + (i - Len(s))
        BY <1>1, <2>2, ConcatElements
      <3> QED BY <1>1, <2>2, <3>1, ConcatElements DEF Chain
    <2> QED BY <2>1, <2>2
  <1>5. s \o t \in Seq(StepNames)
    BY <1>1, ConcatElements
  <1> DEFINE c == s \o t
  <1>6. /\ c \in Seq(StepNames) /\ Len(s) \in Nat /\ \A i \in DOMAIN c : i \in Nat
        /\ \A i \in DOMAIN c :
             \/ i \in DOMAIN s /\ i <= Len(s) /\ c[i] = s[i] /\ Rank(s[i]) \in from..mid
             \/ /\ i - Len(s) \in DOMAIN t /\ i > Len(s)
                /\ c[i] = t[i - Len(s)] /\ Rank(t[i - Len(s)]) \in (mid + 1)..to
    BY <1>1, <1>2, <1>5
  <1> HIDE DEF c
  <1>3. ASSUME NEW i \in DOMAIN c PROVE Rank(c[i]) \in from..to
    BY <1>6
  <1>4. ASSUME NEW i \in DOMAIN c, NEW j \in DOMAIN c, i < j
        PROVE  Rank(c[i]) < Rank(c[j])
    <2>1. i \in Nat /\ j \in Nat /\ Len(s) \in Nat
      BY <1>6
    <2>2. CASE j <= Len(s)
      <3>1. i <= Len(s)
        BY <1>4, <2>1, <2>2
      <3>2. i \in DOMAIN s /\ j \in DOMAIN s /\ c[i] = s[i] /\ c[j] = s[j]
        BY <1>6, <2>1, <2>2, <3>1
      <3> QED BY <1>4, <3>2 DEF Chain
    <2>3. CASE i <= Len(s) /\ j > Len(s)
      <3>1. ~(i > Len(s)) /\ ~(j <= Len(s))
        BY <2>1, <2>3
      <3>2. c[i] = s[i] /\ Rank(s[i]) \in from..mid
        BY <1>6, <3>1
      <3>3. c[j] = t[j - Len(s)] /\ Rank(t[j - Len(s)]) \in (mid + 1)..to
        BY <1>6, <3>1
      <3>4. Rank(c[i]) \in from..mid /\ Rank(c[j]) \in (mid + 1)..to
        BY <3>2, <3>3
      <3> QED BY <3>4
    <2>4. CASE i > Len(s)
      <3>1. j > Len(s) /\ i - Len(s) < j - Len(s)
        BY <1>4, <2>1, <2>4
      <3>2. i - Len(s) \in DOMAIN t /\ j - Len(s) \in DOMAIN t
        BY <1>6, <2>1, <2>4, <3>1
      <3>3. Rank(t[i - Len(s)]) < Rank(t[j - Len(s)])
        BY <3>1, <3>2 DEF Chain
      <3>4. c[i] = t[i - Len(s)] /\ c[j] = t[j - Len(s)]
        BY <1>6, <2>1, <2>4, <3>1
      <3> QED BY <3>3, <3>4
    <2> QED BY <2>1, <2>2, <2>3, <2>4
  <1>7. Chain(c, from, to)
    BY <1>3, <1>4, <1>6 DEF Chain
  <1> QED BY <1>7 DEF c

LEMMA ChainsJoin ==
  ASSUME NEW s, NEW t, NEW from \in Nat, NEW mid \in Nat, NEW to \in Nat, from <= mid, mid <= to,
         Chain(s, from, mid), Chain(t, mid + 1, to)
  PROVE  Chain(s \o t, from, to) /\ Range(s \o t) = Range(s) \cup Range(t)
  <1>1. Chain(s \o t, from, to)
    BY ChainOfConcat
  <1>2. s \in Seq(StepNames) /\ t \in Seq(StepNames)
    BY DEF Chain
  <1>3. Range(s \o t) = Range(s) \cup Range(t)
    BY <1>2, RangeOfConcat
  <1> QED BY <1>1, <1>3

LEMMA OneStepChain ==
  ASSUME NEW a \in StepNames, NEW from \in Nat, NEW to \in Nat, Rank(a) \in from..to
  PROVE  Chain(<<a>>, from, to) /\ Range(<<a>>) = {a}
  <1>1. <<a>> \in Seq(StepNames) /\ DOMAIN <<a>> = {1} /\ <<a>>[1] = a
    OBVIOUS
  <1> QED BY <1>1 DEF Chain, Range

LEMMA Two ==
  ASSUME NEW a \in StepNames, NEW b \in StepNames, NEW from \in Nat, NEW to \in Nat,
         Rank(a) \in from..to, Rank(b) \in from..to, Rank(a) < Rank(b)
  PROVE  Chain(<<a, b>>, from, to) /\ Range(<<a, b>>) = {a, b}
  <1> DEFINE s == <<a, b>>
  <1>1. s \in Seq(StepNames) /\ DOMAIN s = {1, 2} /\ s[1] = a /\ s[2] = b
    OBVIOUS
  <1> HIDE DEF s
  <1> QED BY <1>1 DEF Chain, Range

LEMMA Three ==
  ASSUME NEW a \in StepNames, NEW b \in StepNames, NEW c \in StepNames,
         NEW from \in Nat, NEW to \in Nat,
         Rank(a) \in from..to, Rank(b) \in from..to, Rank(c) \in from..to,
         Rank(a) < Rank(b), Rank(b) < Rank(c)
  PROVE  Chain(<<a, b, c>>, from, to) /\ Range(<<a, b, c>>) = {a, b, c}
  <1> DEFINE s == <<a, b, c>>
  <1>1. s \in Seq(StepNames) /\ DOMAIN s = {1, 2, 3} /\ s[1] = a /\ s[2] = b /\ s[3] = c
    OBVIOUS
  <1> HIDE DEF s
  <1> QED BY <1>1 DEF Chain, Range

LEMMA Optional ==
  ASSUME NEW a \in StepNames, NEW from \in Nat, NEW to \in Nat, Rank(a) \in from..to,
         NEW wanted
  PROVE  /\ Chain(Opt(wanted, a), from, to)
         /\ Range(Opt(wanted, a)) = IF wanted THEN {a} ELSE {}
  <1>1. CASE wanted
    BY <1>1, OneStepChain DEF Opt
  <1>2. CASE ~wanted
    BY <1>2 DEF Opt, Chain, Range
  <1> QED BY <1>1, <1>2

-----------------------------------------------------------------------------
(* The steps of each process.                                              *)
LEMMA NamespaceChain ==
  ASSUME NEW p
  PROVE  /\ Chain(NamespaceSteps(p), 1, 6)
         /\ Range(NamespaceSteps(p)) =
              {"base_namespaces", "id_maps", "hostname", "loopback", "private_mounts"}
                \cup (IF p.time THEN {"time_namespace_offsets"} ELSE {})
  <1> DEFINE first == <<"base_namespaces", "id_maps">>
             times == Opt(p.time, "time_namespace_offsets")
             last == <<"hostname", "loopback", "private_mounts">>
  <1>1. Chain(first, 1, 2) /\ Range(first) = {"base_namespaces", "id_maps"}
    BY Two, Ranks, Known
  <1>2. Chain(times, 3, 3) /\ Range(times) = IF p.time THEN {"time_namespace_offsets"} ELSE {}
    <2>1. "time_namespace_offsets" \in StepNames /\ Rank("time_namespace_offsets") = 3
      BY Ranks, Known
    <2>2. Rank("time_namespace_offsets") \in 3..3
      BY <2>1
    <2> QED BY <2>1, <2>2, Optional
  <1>3. Chain(last, 4, 6) /\ Range(last) = {"hostname", "loopback", "private_mounts"}
    BY Three, Ranks, Known
  <1>4. NamespaceSteps(p) = (first \o times) \o last
    BY DEF NamespaceSteps
  <1> HIDE DEF first, times, last
  <1>5. Chain(first \o times, 1, 3) /\ Range(first \o times) = Range(first) \cup Range(times)
    BY <1>1, <1>2, ChainsJoin
  <1>6. /\ Chain((first \o times) \o last, 1, 6)
        /\ Range((first \o times) \o last) = (Range(first) \cup Range(times)) \cup Range(last)
    BY <1>3, <1>5, ChainsJoin
  <1> QED BY <1>1, <1>2, <1>3, <1>4, <1>6

LEMMA RootChain ==
  ASSUME NEW p
  PROVE  /\ Chain(RootSteps(p), 7, 9)
         /\ Range(RootSteps(p)) = {"open_root", "check_root"}
              \cup (IF p.cow THEN {"copy_on_write_root"} ELSE {"readonly_root"})
  <1> DEFINE root == IF p.cow THEN "copy_on_write_root" ELSE "readonly_root"
  <1>1. /\ "open_root" \in StepNames /\ "check_root" \in StepNames /\ root \in StepNames
        /\ Rank("open_root") = 7 /\ Rank("check_root") = 8 /\ Rank(root) = 9
    BY Ranks, Known
  <1>2. RootSteps(p) = <<"open_root", "check_root", root>>
    BY DEF RootSteps
  <1>3. {root} = IF p.cow THEN {"copy_on_write_root"} ELSE {"readonly_root"}
    OBVIOUS
  <1> HIDE DEF root
  <1>4. /\ Chain(<<"open_root", "check_root", root>>, 7, 9)
        /\ Range(<<"open_root", "check_root", root>>) = {"open_root", "check_root", root}
    BY <1>1, Three
  <1> QED BY <1>2, <1>3, <1>4

LEMMA BootstrapChain ==
  ASSUME NEW p
  PROVE  /\ Chain(BootstrapSteps(p), 1, 20)
         /\ Range(BootstrapSteps(p)) =
              Range(NamespaceSteps(p)) \cup Range(RootSteps(p))
                \cup {"open_volume", "check_volume", "mount_volume", "scratch", "sealed_images",
                      "stdout_redirect", "cwd_pin", "chroot", "cwd", "fd_sanitization", "fork_init"}
  <1> DEFINE a == NamespaceSteps(p)
             b == RootSteps(p)
             c == VolumeSteps
             d == <<"scratch">>
             e == ImageSteps
             f == <<"stdout_redirect", "cwd_pin", "chroot", "cwd", "fd_sanitization", "fork_init">>
  <1>1. Chain(a, 1, 6) /\ Chain(b, 7, 9)
    BY NamespaceChain, RootChain
  <1>2. Chain(c, 10, 12) /\ Range(c) = {"open_volume", "check_volume", "mount_volume"}
    BY Three, Ranks, Known DEF VolumeSteps
  <1>3. Chain(d, 13, 13) /\ Range(d) = {"scratch"}
    BY OneStepChain, Ranks, Known
  <1>4. Chain(e, 14, 14) /\ Range(e) = {"sealed_images"}
    BY OneStepChain, Ranks, Known DEF ImageSteps
  <1>5. BootstrapSteps(p) = ((((a \o b) \o c) \o d) \o e) \o f
    BY DEF BootstrapSteps
  <1> HIDE DEF a, b, c, d, e, f
  <1>6. /\ Chain(f, 15, 20)
        /\ Range(f) = {"stdout_redirect", "cwd_pin", "chroot", "cwd", "fd_sanitization", "fork_init"}
    <2>1. f = <<"stdout_redirect", "cwd_pin", "chroot">> \o <<"cwd", "fd_sanitization", "fork_init">>
      BY DEF f
    <2>2. /\ Chain(<<"stdout_redirect", "cwd_pin", "chroot">>, 15, 17)
          /\ Range(<<"stdout_redirect", "cwd_pin", "chroot">>) = {"stdout_redirect", "cwd_pin", "chroot"}
      BY Three, Ranks, Known
    <2>3. /\ Chain(<<"cwd", "fd_sanitization", "fork_init">>, 18, 20)
          /\ Range(<<"cwd", "fd_sanitization", "fork_init">>) = {"cwd", "fd_sanitization", "fork_init"}
      BY Three, Ranks, Known
    <2>4. /\ Chain(f, 15, 20)
          /\ Range(f) = {"stdout_redirect", "cwd_pin", "chroot"} \cup {"cwd", "fd_sanitization", "fork_init"}
      BY <2>1, <2>2, <2>3, ChainsJoin
    <2> QED BY <2>4
  <1>7. Chain(a \o b, 1, 9) /\ Range(a \o b) = Range(a) \cup Range(b)
    BY <1>1, ChainsJoin
  <1>8. Chain((a \o b) \o c, 1, 12) /\ Range((a \o b) \o c) = Range(a \o b) \cup Range(c)
    BY <1>2, <1>7, ChainsJoin
  <1>9. /\ Chain(((a \o b) \o c) \o d, 1, 13)
        /\ Range(((a \o b) \o c) \o d) = Range((a \o b) \o c) \cup Range(d)
    BY <1>3, <1>8, ChainsJoin
  <1>10. /\ Chain((((a \o b) \o c) \o d) \o e, 1, 14)
         /\ Range((((a \o b) \o c) \o d) \o e) = Range(((a \o b) \o c) \o d) \cup Range(e)
    BY <1>4, <1>9, ChainsJoin
  <1>11. /\ Chain(BootstrapSteps(p), 1, 20)
         /\ Range(BootstrapSteps(p)) = Range((((a \o b) \o c) \o d) \o e) \cup Range(f)
    BY <1>5, <1>6, <1>10, ChainsJoin
  <1>12. Range(BootstrapSteps(p)) =
           ((((Range(a) \cup Range(b)) \cup Range(c)) \cup Range(d)) \cup Range(e)) \cup Range(f)
    BY <1>7, <1>8, <1>9, <1>10, <1>11
  <1> QED BY <1>2, <1>3, <1>4, <1>6, <1>11, <1>12 DEF a, b

LEMMA InitChain ==
  ASSUME NEW p
  PROVE  /\ Chain(InitSteps(p), 21, 23)
         /\ Range(InitSteps(p)) = {"cow_diff_controls", "fork_target"}
              \cup (IF p.procfs THEN {"private_procfs"} ELSE {})
  <1> DEFINE a == Opt(p.procfs, "private_procfs")
             b == <<"cow_diff_controls", "fork_target">>
  <1>1. Chain(a, 21, 21) /\ Range(a) = IF p.procfs THEN {"private_procfs"} ELSE {}
    <2>1. "private_procfs" \in StepNames /\ Rank("private_procfs") \in 21..21
      BY Ranks, Known
    <2> QED BY <2>1, Optional
  <1>2. Chain(b, 22, 23) /\ Range(b) = {"cow_diff_controls", "fork_target"}
    BY Two, Ranks, Known
  <1>3. InitSteps(p) = a \o b
    BY DEF InitSteps
  <1> HIDE DEF a, b
  <1>4. Chain(a \o b, 21, 23) /\ Range(a \o b) = Range(a) \cup Range(b)
    BY <1>1, <1>2, ChainsJoin
  <1> QED BY <1>1, <1>2, <1>3, <1>4

LEMMA TargetChain ==
  ASSUME NEW p
  PROVE  /\ Chain(TargetSteps(p), 24, 31)
         /\ Range(TargetSteps(p)) =
              {"landlock_ruleset", "stdio", "handles", "rlimits", "capabilities_reduced",
               "no_new_privs", "seccomp"}
              \cup (IF p.landlock THEN {"landlock"} ELSE {})
  <1> DEFINE a == <<"landlock_ruleset">>
             b == DescriptorSteps
             c == PrivilegeSteps
             d == <<"no_new_privs">>
             e == Opt(p.landlock, "landlock")
             f == <<"seccomp">>
  <1>1. Chain(a, 24, 24) /\ Range(a) = {"landlock_ruleset"}
    BY OneStepChain, Ranks, Known
  <1>2. Chain(b, 25, 26) /\ Range(b) = {"stdio", "handles"}
    BY Two, Ranks, Known DEF DescriptorSteps
  <1>3. Chain(c, 27, 28) /\ Range(c) = {"rlimits", "capabilities_reduced"}
    BY Two, Ranks, Known DEF PrivilegeSteps
  <1>4. Chain(d, 29, 29) /\ Range(d) = {"no_new_privs"}
    BY OneStepChain, Ranks, Known
  <1>5. Chain(e, 30, 30) /\ Range(e) = IF p.landlock THEN {"landlock"} ELSE {}
    <2>1. "landlock" \in StepNames /\ Rank("landlock") \in 30..30
      BY Ranks, Known
    <2> QED BY <2>1, Optional
  <1>6. Chain(f, 31, 31) /\ Range(f) = {"seccomp"}
    BY OneStepChain, Ranks, Known
  <1>7. TargetSteps(p) = ((((a \o b) \o c) \o d) \o e) \o f
    BY DEF TargetSteps
  <1> HIDE DEF a, b, c, d, e, f
  <1>8. Chain(a \o b, 24, 26) /\ Range(a \o b) = Range(a) \cup Range(b)
    BY <1>1, <1>2, ChainsJoin
  <1>9. Chain((a \o b) \o c, 24, 28) /\ Range((a \o b) \o c) = Range(a \o b) \cup Range(c)
    BY <1>3, <1>8, ChainsJoin
  <1>10. /\ Chain(((a \o b) \o c) \o d, 24, 29)
         /\ Range(((a \o b) \o c) \o d) = Range((a \o b) \o c) \cup Range(d)
    BY <1>4, <1>9, ChainsJoin
  <1>11. /\ Chain((((a \o b) \o c) \o d) \o e, 24, 30)
         /\ Range((((a \o b) \o c) \o d) \o e) = Range(((a \o b) \o c) \o d) \cup Range(e)
    BY <1>5, <1>10, ChainsJoin
  <1>12. /\ Chain(TargetSteps(p), 24, 31)
         /\ Range(TargetSteps(p)) = Range((((a \o b) \o c) \o d) \o e) \cup Range(f)
    BY <1>6, <1>7, <1>11, ChainsJoin
  <1>13. Range(TargetSteps(p)) =
           ((((Range(a) \cup Range(b)) \cup Range(c)) \cup Range(d)) \cup Range(e)) \cup Range(f)
    BY <1>8, <1>9, <1>10, <1>11, <1>12
  <1> QED BY <1>1, <1>2, <1>3, <1>4, <1>5, <1>6, <1>12, <1>13

(* A launch goes through the steps of its policy in the order of their     *)
(* ranks, and ends in execveat.                                            *)
LEMMA StepsChain ==
  ASSUME NEW p
  PROVE  /\ Chain(Steps(p), 1, 32)
         /\ Range(Steps(p)) =
              StepNames \ ( (IF p.time THEN {} ELSE {"time_namespace_offsets"})
                        \cup (IF p.procfs THEN {} ELSE {"private_procfs"})
                        \cup (IF p.landlock THEN {} ELSE {"landlock"})
                        \cup {IF p.cow THEN "readonly_root" ELSE "copy_on_write_root"} )
         /\ Len(Steps(p)) \in Nat \ {0} /\ Steps(p)[Len(Steps(p))] = "execveat"
  <1> DEFINE a == BootstrapSteps(p)
             b == InitSteps(p)
             c == TargetSteps(p)
             d == <<"execveat">>
  <1>1. Chain(a, 1, 20) /\ Chain(b, 21, 23) /\ Chain(c, 24, 31)
    BY BootstrapChain, InitChain, TargetChain
  <1>2. Chain(d, 32, 32) /\ Range(d) = {"execveat"}
    BY OneStepChain, Ranks, Known
  <1>3. Steps(p) = ((a \o b) \o c) \o d
    BY DEF Steps
  <1>4. d \in Seq(StepNames) /\ Len(d) = 1 /\ d[1] = "execveat"
    BY Known
  <1> HIDE DEF a, b, c, d
  <1>5. Chain(a \o b, 1, 23) /\ Range(a \o b) = Range(a) \cup Range(b)
    BY <1>1, ChainsJoin
  <1>6. Chain((a \o b) \o c, 1, 31) /\ Range((a \o b) \o c) = Range(a \o b) \cup Range(c)
    BY <1>1, <1>5, ChainsJoin
  <1>7. Chain(Steps(p), 1, 32) /\ Range(Steps(p)) = Range((a \o b) \o c) \cup Range(d)
    BY <1>2, <1>3, <1>6, ChainsJoin
  <1>8. Len(Steps(p)) \in Nat \ {0} /\ Steps(p)[Len(Steps(p))] = "execveat"
    <2> DEFINE s == (a \o b) \o c
    <2>1. s \in Seq(StepNames)
      BY <1>6 DEF Chain
    <2> HIDE DEF s
    <2>2. Len(s) \in Nat /\ Len(s \o d) = Len(s) + 1
      BY <1>4, <2>1, ConcatElements
    <2>3. 1 \in DOMAIN d
      BY <1>4
    <2>4. (s \o d)[Len(s) + 1] = d[1]
      BY <1>4, <2>1, <2>3, ConcatElements
    <2> QED BY <1>3, <1>4, <2>2, <2>4 DEF s
  <1>9. Range(Steps(p)) = ((Range(a) \cup Range(b)) \cup Range(c)) \cup {"execveat"}
    BY <1>2, <1>5, <1>6, <1>7
  <1>10. /\ Range(a) = Range(NamespaceSteps(p)) \cup Range(RootSteps(p))
              \cup {"open_volume", "check_volume", "mount_volume", "scratch", "sealed_images",
                    "stdout_redirect", "cwd_pin", "chroot", "cwd", "fd_sanitization", "fork_init"}
         /\ Range(NamespaceSteps(p)) =
              {"base_namespaces", "id_maps", "hostname", "loopback", "private_mounts"}
                \cup (IF p.time THEN {"time_namespace_offsets"} ELSE {})
         /\ Range(RootSteps(p)) = {"open_root", "check_root"}
              \cup (IF p.cow THEN {"copy_on_write_root"} ELSE {"readonly_root"})
    BY BootstrapChain, NamespaceChain, RootChain DEF a
  <1>11. /\ Range(b) = {"cow_diff_controls", "fork_target"}
              \cup (IF p.procfs THEN {"private_procfs"} ELSE {})
         /\ Range(c) = {"landlock_ruleset", "stdio", "handles", "rlimits", "capabilities_reduced",
                       "no_new_privs", "seccomp"}
              \cup (IF p.landlock THEN {"landlock"} ELSE {})
    BY InitChain, TargetChain DEF b, c
  <1> QED BY <1>7, <1>8, <1>9, <1>10, <1>11 DEF StepNames

(* Steps that no policy leaves out.                                        *)
LEMMA StepsOfEveryPolicy ==
  ASSUME NEW p
  PROVE  /\ {"base_namespaces", "hostname", "private_mounts", "chroot"} \subseteq Range(Steps(p))
         /\ {"fd_sanitization", "rlimits", "capabilities_reduced", "no_new_privs"} \subseteq Range(Steps(p))
         /\ {"check_root", "check_volume"} \subseteq Range(Steps(p))
  <1> DEFINE absent == (IF p.time THEN {} ELSE {"time_namespace_offsets"})
                    \cup (IF p.procfs THEN {} ELSE {"private_procfs"})
                    \cup (IF p.landlock THEN {} ELSE {"landlock"})
                    \cup {IF p.cow THEN "readonly_root" ELSE "copy_on_write_root"}
  <1>1. absent \subseteq {"time_namespace_offsets", "private_procfs", "landlock",
                        "readonly_root", "copy_on_write_root"}
    OBVIOUS
  <1> HIDE DEF absent
  <1>2. Range(Steps(p)) = StepNames \ absent
    BY StepsChain DEF absent
  <1> QED BY <1>1, <1>2 DEF StepNames

-----------------------------------------------------------------------------
(* The steps before the n-th of a policy's launch.                         *)
Before(p, n) == {Steps(p)[k] : k \in 1..(n - 1)}

(* The steps that are over are the layers in force and the bits that are   *)
(* set; between a layer and its bit there is the one step Now.             *)
ProgressInv ==
  /\ at \in 1..Len(Steps(pol))
  /\ entered \in BOOLEAN /\ (entered => Now \in Layers)
  /\ bits = Before(pol, at) \cap Layers
  /\ inForce = (Before(pol, at) \cup (IF entered THEN {Now} ELSE {})) \cap Layers
  /\ stage = "live" => execd
  /\ execd => stage \in {"live", "ended"} /\ ~entered /\ at = Len(Steps(pol))

(* What was checked is what was pinned, and nothing is opened again.       *)
OpenedInv ==
  /\ DOMAIN opened = {"root", "volume"}
  /\ "check_root" \in Before(pol, at) => opened["root"] = "pinned"
  /\ "check_volume" \in Before(pol, at) => opened["volume"] = "pinned"

ReportInv ==
  \/ report.kind \in {"none", "setup_error", "policy_error"}
  \/ stage = "ended" /\ report = Outcome

LaunchInv == ProgressInv /\ OpenedInv /\ ReportInv

-----------------------------------------------------------------------------
LEMMA StepsAreOrdered ==
  ASSUME NEW p, NEW i \in 1..Len(Steps(p)), NEW j \in 1..Len(Steps(p))
  PROVE  /\ Rank(Steps(p)[i]) \in Nat
         /\ i < j => Rank(Steps(p)[i]) < Rank(Steps(p)[j])
         /\ Steps(p)[i] \in Range(Steps(p))
         /\ Len(Steps(p)) \in Nat \ {0}
  <1>1. Chain(Steps(p), 1, 32) /\ Len(Steps(p)) \in Nat \ {0}
    BY StepsChain
  <1>2. DOMAIN Steps(p) = 1..Len(Steps(p))
    BY <1>1 DEF Chain
  <1> DEFINE r == Rank(Steps(p)[i])
  <1>3. r \in 1..32 /\ (i < j => r < Rank(Steps(p)[j]))
    BY <1>1, <1>2 DEF Chain
  <1>4. Steps(p)[i] \in Range(Steps(p))
    BY <1>2 DEF Range
  <1> HIDE DEF r
  <1>5. r \in Nat
    BY <1>3
  <1> QED BY <1>1, <1>3, <1>4, <1>5 DEF r

(* A step of the policy whose rank is less than that of one that is over   *)
(* is over.                                                                *)
LEMMA EarlierIsOver ==
  ASSUME NEW p, NEW n \in 1..Len(Steps(p)), NEW x \in Range(Steps(p)), NEW y \in Before(p, n),
         Rank(x) < Rank(y)
  PROVE  x \in Before(p, n)
  <1>1. Len(Steps(p)) \in Nat /\ DOMAIN Steps(p) = 1..Len(Steps(p))
    BY StepsChain DEF Chain
  <1>2. PICK j \in 1..(n - 1) : y = Steps(p)[j]
    BY DEF Before
  <1>3. PICK i \in 1..Len(Steps(p)) : x = Steps(p)[i]
    BY <1>1 DEF Range
  <1>4. j \in 1..Len(Steps(p)) /\ Rank(x) \in Nat /\ Rank(y) \in Nat
    BY <1>1, <1>2, <1>3, StepsAreOrdered
  <1>5. ~(j < i)
    BY <1>2, <1>3, <1>4, StepsAreOrdered
  <1>6. i # j
    BY <1>2, <1>3, <1>4
  <1>7. i \in 1..(n - 1)
    BY <1>1, <1>4, <1>5, <1>6
  <1> QED BY <1>3, <1>7 DEF Before

(* What is over has a smaller rank than what comes.                        *)
LEMMA NowIsLater ==
  ASSUME NEW p, NEW n \in 1..Len(Steps(p)), NEW x \in Before(p, n)
  PROVE  Rank(x) < Rank(Steps(p)[n])
  <1>1. Len(Steps(p)) \in Nat
    BY StepsChain
  <1>2. PICK j \in 1..(n - 1) : x = Steps(p)[j]
    BY DEF Before
  <1>3. j \in 1..Len(Steps(p)) /\ j < n
    BY <1>1, <1>2
  <1> QED BY <1>2, <1>3, StepsAreOrdered

LEMMA BeforeNext ==
  ASSUME NEW p, NEW n \in 1..Len(Steps(p)), n # Len(Steps(p))
  PROVE  n + 1 \in 1..Len(Steps(p)) /\ Before(p, n + 1) = Before(p, n) \cup {Steps(p)[n]}
  <1>1. Len(Steps(p)) \in Nat
    BY StepsChain
  <1>2. n + 1 \in 1..Len(Steps(p)) /\ (n + 1) - 1 = n /\ 1..n = 1..(n - 1) \cup {n}
    BY <1>1
  <1> QED BY <1>2 DEF Before

(* Before the last step everything but execveat is over.                   *)
LEMMA RangeIsBefore ==
  ASSUME NEW p
  PROVE  Range(Steps(p)) = Before(p, Len(Steps(p))) \cup {"execveat"}
  <1>1. /\ Len(Steps(p)) \in Nat \ {0} /\ Steps(p)[Len(Steps(p))] = "execveat"
        /\ DOMAIN Steps(p) = 1..Len(Steps(p))
    BY StepsChain DEF Chain
  <1>2. 1..Len(Steps(p)) = 1..(Len(Steps(p)) - 1) \cup {Len(Steps(p))}
    BY <1>1
  <1> QED BY <1>1, <1>2 DEF Range, Before

LEMMA AllIsOver ==
  ASSUME NEW p
  PROVE  Before(p, Len(Steps(p))) \cap Layers = Required(p)
  <1>1. "execveat" \notin Layers
    BY DEF Layers
  <1>2. Before(p, Len(Steps(p))) \cap Layers = Range(Steps(p)) \cap Layers
    BY <1>1, RangeIsBefore
  <1>3. Layers \subseteq StepNames
    BY DEF Layers, StepNames
  <1> QED BY <1>2, <1>3, StepsChain DEF Required

-----------------------------------------------------------------------------
(* The bits of a launch that was ended anywhere are never refused.         *)
LEMMA PredecessorsComeFirst ==
  ASSUME NEW p, NEW r \in Predecessors
  PROVE  r[2] \in Layers /\ r[2] \in Range(Steps(p)) /\ Rank(r[2]) < Rank(r[1])
  <1>1. r[2] \in {"base_namespaces", "hostname", "private_mounts", "chroot", "fd_sanitization",
                 "rlimits", "capabilities_reduced", "no_new_privs"}
    BY DEF Predecessors
  <1>2. Rank(r[2]) < Rank(r[1])
    BY Ranks DEF Predecessors
  <1>3. r[2] \in Range(Steps(p))
    BY <1>1, StepsOfEveryPolicy
  <1> QED BY <1>1, <1>2, <1>3 DEF Layers

LEMMA ReceiptAccepted ==
  ASSUME NEW p, NEW n \in 1..Len(Steps(p))
  PROVE  EnforcementReceiptFromBits(Before(p, n) \cap Layers, p)
  <1> DEFINE b == Before(p, n) \cap Layers
             asked == Range(Steps(p))
  <1>1. Before(p, n) \subseteq asked
    <2>1. Len(Steps(p)) \in Nat /\ DOMAIN Steps(p) = 1..Len(Steps(p))
      BY StepsChain DEF Chain
    <2>2. 1..(n - 1) \subseteq 1..Len(Steps(p))
      BY <2>1
    <2> QED BY <2>1, <2>2 DEF Before, Range
  <1>2. \A x \in asked \cap Layers, y \in b : Rank(x) < Rank(y) => x \in b
    BY EarlierIsOver
  <1>3. asked = StepNames \ ( (IF p.time THEN {} ELSE {"time_namespace_offsets"})
                        \cup (IF p.procfs THEN {} ELSE {"private_procfs"})
                        \cup (IF p.landlock THEN {} ELSE {"landlock"})
                        \cup {IF p.cow THEN "readonly_root" ELSE "copy_on_write_root"} )
    BY StepsChain
  <1>4. b \subseteq asked /\ b \subseteq Layers
    BY <1>1
  <1> HIDE DEF b, asked
  <1>5. \A r \in Predecessors : r[1] \in b => r[2] \in b
    BY <1>2, PredecessorsComeFirst DEF asked
  <1>6. /\ p.cow => "readonly_root" \notin asked /\ "copy_on_write_root" \in asked
        /\ ~p.cow => "copy_on_write_root" \notin asked /\ "readonly_root" \in asked
    BY <1>3 DEF StepNames
  <1>7. "chroot" \in b => (IF p.cow THEN "copy_on_write_root" ELSE "readonly_root") \in b
    <2>1. /\ Rank("copy_on_write_root") < Rank("chroot") /\ Rank("readonly_root") < Rank("chroot")
          /\ "copy_on_write_root" \in Layers /\ "readonly_root" \in Layers
      BY Ranks DEF Layers
    <2> QED BY <1>2, <1>6, <2>1
  <1>8. AsRequested(b, p.time, "time_namespace_offsets", "hostname")
    <2>1. /\ Rank("time_namespace_offsets") < Rank("hostname")
          /\ "time_namespace_offsets" \in Layers
      BY Ranks DEF Layers
    <2>2. IF p.time THEN "time_namespace_offsets" \in asked ELSE "time_namespace_offsets" \notin asked
      BY <1>3 DEF StepNames
    <2> QED BY <1>2, <1>4, <2>1, <2>2 DEF AsRequested
  <1>9. AsRequested(b, p.procfs, "private_procfs", "rlimits")
    <2>1. Rank("private_procfs") < Rank("rlimits") /\ "private_procfs" \in Layers
      BY Ranks DEF Layers
    <2>2. IF p.procfs THEN "private_procfs" \in asked ELSE "private_procfs" \notin asked
      BY <1>3 DEF StepNames
    <2> QED BY <1>2, <1>4, <2>1, <2>2 DEF AsRequested
  <1>10. AsRequested(b, p.landlock, "landlock", "seccomp")
    <2>1. Rank("landlock") < Rank("seccomp") /\ "landlock" \in Layers
      BY Ranks DEF Layers
    <2>2. IF p.landlock THEN "landlock" \in asked ELSE "landlock" \notin asked
      BY <1>3 DEF StepNames
    <2> QED BY <1>2, <1>4, <2>1, <2>2 DEF AsRequested
  <1>11. /\ ~ {"readonly_root", "copy_on_write_root"} \subseteq b
         /\ "copy_on_write_root" \in b => p.cow
         /\ "readonly_root" \in b => ~p.cow
    BY <1>4, <1>6
  <1> QED BY <1>4, <1>5, <1>7, <1>8, <1>9, <1>10, <1>11 DEF EnforcementReceiptFromBits, b

-----------------------------------------------------------------------------
LEMMA LaunchInitInv == LaunchInit => LaunchInv
  <1> SUFFICES ASSUME LaunchInit PROVE LaunchInv
    OBVIOUS
  <1>1. 1 \in 1..Len(Steps(pol)) /\ Before(pol, 1) = {}
    <2>1. Len(Steps(pol)) \in Nat \ {0}
      BY StepsChain
    <2>2. 1..(1 - 1) = {}
      OBVIOUS
    <2> QED BY <2>1, <2>2 DEF Before
  <1>2. ProgressInv
    BY <1>1 DEF LaunchInit, ProgressInv
  <1> QED BY <1>1, <1>2 DEF LaunchInit, LaunchInv, OpenedInv, ReportInv, NoReport

(* Steps outside the child leave its progress alone, or end it.            *)
LEMMA ProgressKept ==
  ASSUME LaunchInv, UNCHANGED <<pol, at, entered, inForce, execd, bits, opened>>,
         stage' = stage \/ (~execd /\ stage' # "live") \/ stage' = "ended"
  PROVE  ProgressInv' /\ OpenedInv'
  <1>1. UNCHANGED Now /\ UNCHANGED Before(pol, at)
    BY DEF Now
  <1> QED BY <1>1 DEF LaunchInv, ProgressInv, OpenedInv

LEMMA ReportKept ==
  ASSUME LaunchInv, UNCHANGED report, stage # "ended"
  PROVE  ReportInv'
  BY DEF LaunchInv, ReportInv

(* A launch that has entered a layer is not at its last step.              *)
LEMMA LayersComeBeforeExec ==
  ASSUME LaunchInv, Now \in Layers
  PROVE  at # Len(Steps(pol))
  <1>1. Now = Steps(pol)[at] /\ Steps(pol)[Len(Steps(pol))] = "execveat"
    BY StepsChain DEF Now
  <1> QED BY <1>1 DEF Layers

LEMMA EnterStep ==
  ASSUME LaunchInv, Enter
  PROVE  ProgressInv' /\ OpenedInv'
  <1>1. at \in 1..Len(Steps(pol)) /\ at # Len(Steps(pol)) /\ Len(Steps(pol)) \in Nat
    BY StepsChain DEF LaunchInv, ProgressInv, Enter, LastStep
  <1>2. Now = Steps(pol)[at] /\ Before(pol, at + 1) = Before(pol, at) \cup {Now}
    BY <1>1, BeforeNext DEF Now
  <1>3. ~execd /\ stage = "running"
    BY DEF LaunchInv, ProgressInv, Enter
  <1>4. ProgressInv'
    <2>1. CASE Now \in Layers
      <3>1. UNCHANGED <<pol, at, bits, execd, stage>> /\ entered' = TRUE /\ ~entered
            /\ inForce' = inForce \cup {Now} /\ Now' = Now
            /\ (Before(pol, at))' = Before(pol, at)
        BY <2>1 DEF Enter, Now
      <3> QED BY <1>1, <1>3, <2>1, <3>1 DEF LaunchInv, ProgressInv
    <2>2. CASE Now \notin Layers
      <3>1. UNCHANGED <<pol, bits, execd, stage, inForce>> /\ entered' = FALSE /\ ~entered /\ at' = at + 1
        <4>1. {Now} \cap Layers = {}
          BY <2>2
        <4>2. inForce' = inForce
          BY <4>1 DEF Enter
        <4>3. UNCHANGED <<pol, bits, execd, stage>> /\ ~entered
          BY DEF Enter
        <4>4. at' = at + 1
          BY <2>2 DEF Enter
        <4>5. entered' = FALSE
          <5>1. entered' = (Now \in Layers)
            BY DEF Enter
          <5>2. (Now \in Layers) = FALSE
            BY <2>2
          <5> QED BY <5>1, <5>2
        <4> QED BY <4>2, <4>3, <4>4, <4>5
      <3> (Before(pol, at))' = Before(pol, at + 1)
        BY <3>1
      <3>2. at' \in 1..Len(Steps(pol)')
        BY <1>1, <3>1
      <3> QED BY <1>2, <1>3, <2>2, <3>1, <3>2 DEF LaunchInv, ProgressInv
    <2> QED BY <2>1, <2>2
  <1>5. OpenedInv'
    <2>1. Before(pol, at)' \subseteq Before(pol, at) \cup {Now}
      BY <1>2 DEF Enter
    <2>2. CASE Now \in {"open_root", "open_volume"}
      <3> DEFINE o == IF Now = "open_root" THEN "root" ELSE "volume"
                 check == IF Now = "open_root" THEN "check_root" ELSE "check_volume"
      <3>1. o = Pathname /\ opened' = [opened EXCEPT ![o] = object[o]]
        BY <2>2 DEF Enter, Pathname
      <3>2. check \notin Before(pol, at)
        <4> SUFFICES ASSUME check \in Before(pol, at) PROVE FALSE
          OBVIOUS
        <4>1. Rank(check) < Rank(Now)
          BY <1>1, <1>2, NowIsLater
        <4>2. CASE Now = "open_root"
          BY <4>1, <4>2, Ranks
        <4>3. CASE Now = "open_volume"
          BY <4>1, <4>3, Ranks
        <4> QED BY <2>2, <4>2, <4>3
      <3>3. check # Now
        BY <2>2
      <3> QED BY <2>1, <2>2, <3>1, <3>2, <3>3 DEF LaunchInv, OpenedInv
    <2>3. CASE Now \notin {"open_root", "open_volume"}
      <3>1. opened' = opened
        BY <2>3 DEF Enter
      <3>2. Now = "check_root" => opened["root"] = "pinned"
        BY DEF Enter, SameIdentity, Pathname
      <3>3. Now = "check_volume" => opened["volume"] = "pinned"
        BY DEF Enter, SameIdentity, Pathname
      <3> QED BY <2>1, <3>1, <3>2, <3>3 DEF LaunchInv, OpenedInv
    <2> QED BY <2>2, <2>3
  <1> QED BY <1>4, <1>5

LEMMA MarkEnforcementStep ==
  ASSUME LaunchInv, MarkEnforcement
  PROVE  ProgressInv' /\ OpenedInv'
  <1>1. Now \in Layers /\ ~execd /\ stage = "running"
    BY DEF LaunchInv, ProgressInv, MarkEnforcement
  <1>2. at \in 1..Len(Steps(pol)) /\ at # Len(Steps(pol)) /\ Len(Steps(pol)) \in Nat
    BY <1>1, LayersComeBeforeExec, StepsChain DEF LaunchInv, ProgressInv
  <1>3. Now = Steps(pol)[at] /\ Before(pol, at + 1) = Before(pol, at) \cup {Now}
    BY <1>2, BeforeNext DEF Now
  <1>4. /\ UNCHANGED <<pol, stage, inForce, execd, opened>> /\ entered' = FALSE /\ entered
        /\ at' = at + 1 /\ bits' = bits \cup {Now}
        /\ Before(pol, at)' = Before(pol, at + 1)
    BY DEF MarkEnforcement, LaunchInv, ProgressInv
  <1>5. at' \in 1..Len(Steps(pol)')
    BY <1>2, <1>4
  <1>6. ProgressInv'
    BY <1>1, <1>3, <1>4, <1>5 DEF LaunchInv, ProgressInv
  <1>7. Now \notin {"check_root", "check_volume"}
    BY <1>1 DEF Layers
  <1>8. OpenedInv'
    BY <1>3, <1>4, <1>7 DEF LaunchInv, OpenedInv
  <1> QED BY <1>6, <1>8

LEMMA ExecveatStep ==
  ASSUME LaunchInv, Execveat
  PROVE  ProgressInv' /\ OpenedInv'
  <1>1. UNCHANGED Now /\ UNCHANGED Before(pol, at)
    BY DEF Now, Execveat
  <1>2. UNCHANGED <<pol, at, entered, inForce, bits, opened>> /\ stage' = "live" /\ execd' = TRUE
        /\ at = Len(Steps(pol)) /\ stage = "running"
    BY DEF Execveat, LastStep
  <1>3. ~entered
    <2>1. Now = "execveat"
      BY <1>2, StepsChain DEF Now
    <2> QED BY <2>1 DEF LaunchInv, ProgressInv, Layers
  <1> QED BY <1>1, <1>2, <1>3 DEF LaunchInv, ProgressInv, OpenedInv

LEMMA RunReportStep ==
  ASSUME LaunchInv, RunReport
  PROVE  LaunchInv'
  <1>1. UNCHANGED <<pol, procState, bits, phase, lready, opened>> /\ stage = "ended"
    BY DEF RunReport
  <1>2. UNCHANGED Outcome
    BY <1>1 DEF Outcome
  <1>3. ReportInv'
    BY <1>1, <1>2 DEF RunReport, ReportInv, procState
  <1> QED BY <1>1, <1>3, ProgressKept DEF LaunchInv, procState

LEMMA LaunchStep == LaunchInv /\ [LaunchNext]_launchVars => LaunchInv'
  <1> SUFFICES ASSUME LaunchInv, [LaunchNext]_launchVars
               PROVE  LaunchInv'
    OBVIOUS
  <1>1. CASE PrepareFails
    BY <1>1, ProgressKept DEF PrepareFails, LaunchInv, ReportInv, ProgressInv
  <1>2. CASE PrepareLaunch
    BY <1>2, ProgressKept DEF PrepareLaunch, LaunchInv, ReportInv, ProgressInv
  <1>3. CASE RunReport
    BY <1>3, RunReportStep
  <1>4. CASE Enter
    BY <1>4, EnterStep, ReportKept DEF Enter, LaunchInv
  <1>5. CASE MarkEnforcement
    BY <1>5, MarkEnforcementStep, ReportKept DEF MarkEnforcement, LaunchInv
  <1>6. CASE ChildFail
    BY <1>6, ProgressKept, ReportKept DEF ChildFail, LaunchInv, ProgressInv
  <1>7. CASE Execveat
    BY <1>7, ExecveatStep, ReportKept DEF Execveat, LaunchInv
  <1>8. CASE FailedExit
    BY <1>8, ProgressKept, ReportKept DEF FailedExit, LaunchInv
  <1>9. ASSUME NEW o \in {"root", "volume"}, ReplaceObject(o) PROVE LaunchInv'
    BY <1>9, ProgressKept, ReportKept DEF ReplaceObject, LaunchInv, procState
  <1>10. ASSUME NEW c \in TargetCalls, TargetCall(c) PROVE LaunchInv'
    BY <1>10, ProgressKept, ReportKept DEF TargetCall, LaunchInv, procState
  <1>11. CASE TargetEnds
    BY <1>11, ProgressKept, ReportKept DEF TargetEnds, LaunchInv
  <1>12. CASE SupervisionFails
    BY <1>12, ProgressKept, ReportKept DEF SupervisionFails, LaunchInv
  <1>13. CASE LauncherKilled
    BY <1>13, ProgressKept, ReportKept DEF LauncherKilled, LaunchInv
  <1>14. CASE UNCHANGED launchVars
    <2>1. UNCHANGED <<pol, procState, bits, phase, lready, opened, report>>
      BY <1>14 DEF launchVars
    <2>2. UNCHANGED Outcome /\ UNCHANGED stage
      BY <2>1 DEF Outcome, procState
    <2>3. ReportInv'
      BY <2>1, <2>2 DEF LaunchInv, ReportInv
    <2> QED BY <2>1, <2>2, <2>3, ProgressKept DEF LaunchInv, procState
  <1> QED
    BY <1>1, <1>2, <1>3, <1>4, <1>5, <1>6, <1>7, <1>8, <1>9, <1>10, <1>11, <1>12, <1>13, <1>14
    DEF LaunchNext, ChildStep

(* At every step of the launcher, its children and whoever exchanges the  *)
(* objects under its pathnames, the layers in force, the bits of the       *)
(* receipt and the steps that are over agree.                              *)
THEOREM LaunchInvariance == LaunchSpec => []LaunchInv
  BY LaunchInitInv, LaunchStep, PTL DEF LaunchSpec

LEMMA ExecIsConfined == LaunchInv => ConfinedBeforeExec
  <1> SUFFICES ASSUME LaunchInv, execd PROVE ConfinedBeforeExec
    BY DEF ConfinedBeforeExec
  <1>1. inForce = Before(pol, at) \cap Layers /\ at = Len(Steps(pol)) /\ Len(Steps(pol)) \in Nat \ {0}
    BY StepsChain DEF LaunchInv, ProgressInv
  <1>2. inForce = Required(pol)
    BY <1>1, AllIsOver
  <1>3. "check_root" \in Before(pol, at) /\ "check_volume" \in Before(pol, at)
    <2>1. Range(Steps(pol)) = Before(pol, at) \cup {"execveat"}
      BY <1>1, RangeIsBefore
    <2> QED BY <2>1, StepsOfEveryPolicy
  <1> QED BY <1>2, <1>3 DEF LaunchInv, OpenedInv, ConfinedBeforeExec

(* The target executes only behind every layer its policy asks for, and on *)
(* the root and the volume that were pinned, for every policy and however  *)
(* the objects under the pathnames are exchanged.                          *)
THEOREM TargetsAreConfined == LaunchSpec => []ConfinedBeforeExec
  BY LaunchInvariance, ExecIsConfined, PTL

LEMMA ReceiptIsFaithful == LaunchInv => ReceiptFaithful
  <1> SUFFICES ASSUME LaunchInv PROVE ReceiptFaithful
    OBVIOUS
  <1>1. bits = Before(pol, at) \cap Layers /\ at \in 1..Len(Steps(pol))
    BY DEF LaunchInv, ProgressInv
  <1>2. EnforcementReceiptFromBits(bits, pol)
    BY <1>1, ReceiptAccepted
  <1>3. Outcome.kind # "bad_receipt" /\ (Outcome.kind = "ok" => Outcome.receipt = bits)
    BY <1>2 DEF Outcome
  <1>4. report.kind # "bad_receipt" /\ (report.kind = "ok" => report.receipt = bits)
    BY <1>3 DEF LaunchInv, ReportInv
  <1>5. bits \subseteq inForce
    BY <1>1 DEF LaunchInv, ProgressInv
  <1>6. execd => bits = Required(pol)
    BY <1>1, AllIsOver DEF LaunchInv, ProgressInv
  <1> QED BY <1>4, <1>5, <1>6 DEF ReceiptFaithful, GateExit

(* The receipt of a launch, wherever it was ended, is accepted and claims  *)
(* no layer that was not in force, and all of them if the target executed. *)
THEOREM ReceiptsAreFaithful == LaunchSpec => []ReceiptFaithful
  BY LaunchInvariance, ReceiptIsFaithful, PTL

-----------------------------------------------------------------------------
(***************************************************************************)
(* SandboxHost.  Each part takes its own steps and rests in its variables  *)
(* while another runs; a policy at rest need not be a candidate.           *)
(***************************************************************************)
HostInv == LaunchInv /\ PubInv /\ ExactInv /\ (part = "gate" => PolicyInv)

LEMMA HostInitInv == HostInit => HostInv
  <1>1. HostInit => LaunchInit /\ PubInit /\ (part = "gate" => DeltaInit)
    BY DEF HostInit, LaunchRests, PubRests
  <1>2. DeltaInit => PolicyInv
    BY DEF DeltaInit, PolicyInv
  <1> QED BY <1>1, <1>2, LaunchInitInv, PubInitInv, ExactInit DEF HostInv

LEMMA HostStepsAreSteps ==
  ASSUME [HostNext]_hostVars
  PROVE  /\ [LaunchNext]_launchVars /\ [PubNext]_pubVars
         /\ (part = "gate" /\ DeltaNext) \/ UNCHANGED deltaVars
         /\ part' = part
  BY DEF HostNext, hostVars

LEMMA HostStep == HostInv /\ [HostNext]_hostVars => HostInv'
  <1> SUFFICES ASSUME HostInv, [HostNext]_hostVars PROVE HostInv'
    OBVIOUS
  <1>1. /\ [LaunchNext]_launchVars /\ [PubNext]_pubVars /\ part' = part
        /\ (part = "gate" /\ DeltaNext) \/ UNCHANGED deltaVars
    BY HostStepsAreSteps
  <1>2. LaunchInv'
    BY <1>1, LaunchStep DEF HostInv
  <1>3. PubInv' /\ ExactInv'
    BY <1>1, PubStep, ExactStep DEF HostInv
  <1>4. (part = "gate" => PolicyInv)'
    BY <1>1 DEF HostInv, PolicyInv, DeltaNext, Deploy, deltaVars, Candidates
  <1> QED BY <1>2, <1>3, <1>4 DEF HostInv

(* Beside each other the launch and the publication keep what each of them *)
(* promises: no target runs unconfined, no receipt claims what was not in  *)
(* force, no publication ends as something that it is not, and what is     *)
(* published is the promised tree.                                         *)
THEOREM HostIsSafe ==
  HostSpec => [](/\ ConfinedBeforeExec /\ ReceiptFaithful /\ HonestEnd
                 /\ PublishedExact /\ QuietReplaySucceeds)
  <1>1. HostInv => /\ ConfinedBeforeExec /\ ReceiptFaithful /\ HonestEnd
                   /\ PublishedExact /\ QuietReplaySucceeds
    BY ExecIsConfined, ReceiptIsFaithful, EndsAreHonest, PublishedIsExact, QuietIsUnrefused DEF HostInv
  <1> QED BY <1>1, HostInitInv, HostStep, PTL DEF HostSpec

(* The gate of the composed system narrows as the gate alone does.         *)
THEOREM HostNeverWidens ==
  ASSUME TopologyKept
  PROVE  HostSpec => ApprovedNeverWidens
  <1>1. HostInv /\ [HostNext]_hostVars =>
          [deployed' # deployed => Within(Authority(deployed'), Authority(deployed))]_deltaVars
    <2> SUFFICES ASSUME HostInv, [HostNext]_hostVars, deployed' # deployed
                 PROVE  Within(Authority(deployed'), Authority(deployed))
      OBVIOUS
    <2>1. PolicyInv /\ DeltaNext
      BY HostStepsAreSteps DEF HostInv, deltaVars
    <2> QED BY <2>1, DeployNarrows DEF DeltaNext
  <1> QED BY <1>1, HostInitInv, HostStep, PTL DEF HostSpec, ApprovedNeverWidens
================================================================================
