-------------------------------- MODULE MCHost --------------------------------
(* SandboxHost for TLC: words of two bits, so an argument is 0..15; every  *)
(* combination of the optional layers under one filter, and filters with   *)
(* every shape of rule; policies that differ in one group of fields.       *)
EXTENDS SandboxHost, MCTreePublish

MCNumber ==
  ("write" :> 1) @@ ("read" :> 2) @@ ("alias" :> 2) @@ ("exit" :> 3)
    @@ ("exit_group" :> 4) @@ ("execveat" :> 5)

NoRules == [d \in {} |-> <<>>]

Filter(allow, masked, range, deny) ==
  [allow |-> allow, masked |-> masked, range |-> range, deny |-> deny]

Plain(allow) == Filter(allow, NoRules, NoRules, NoRules)

At(i, a, b) == <<"read", i>> :> <<a, b>>

Basic == {"read", "write", "exit_group"}

(* Low word, high word or both, in part or in full.                        *)
Masks  == {<<1, 1>>, <<3, 2>>, <<4, 4>>, <<12, 8>>, <<5, 4>>, <<7, 5>>, <<13, 8>>, <<15, 6>>}
(* Within one high word, across two, across all; up to and from the ends.  *)
Ranges == {<<0, 5>>, <<3, 3>>, <<5, 6>>, <<2, 13>>, <<7, 8>>, <<6, 15>>, <<0, 0>>, <<4, 11>>}

MCFilters ==
  {Plain(Basic \cup extra) : extra \in SUBSET {"exit", "execveat", "alias"}}
  \cup {Plain({"read", "exit"}), Plain({"exit"}), Plain({"read", "write"})}
  \cup {Filter(Basic, At(0, m[1], m[2]), NoRules, NoRules) : m \in Masks}
  \cup {Filter(Basic, NoRules, NoRules, At(0, m[1], m[2])) : m \in Masks}
  \cup {Filter(Basic, NoRules, At(0, m[1], m[2]), NoRules) : m \in Ranges}
  \cup {Filter(Basic, At(0, 5, 4), At(4, 1, 2), At(0, 12, 4)),
        Filter(Basic, At(4, 3, 2), NoRules, At(0, 7, 5) @@ At(4, 15, 2)),
        Filter(Basic, NoRules, At(0, 2, 13) @@ At(4, 1, 2), NoRules)}

Policy(layers, s) ==
  [ time |-> "time" \in layers, procfs |-> "procfs" \in layers, cow |-> "cow" \in layers,
    landlock |-> "landlock" \in layers, seccomp |-> s ]

MCRestPolicy == Policy({}, Plain(Basic))

MCLaunchPolicies ==
  {Policy(layers, Plain(Basic)) : layers \in SUBSET {"time", "procfs", "cow", "landlock"}}
  \cup {Policy({"landlock"}, s) : s \in MCFilters}

Call(nr, arch, a, b) ==
  [nr |-> nr, arch |-> arch,
   args |-> [i \in Indexes |-> IF i = 0 THEN a ELSE IF i = 4 THEN b ELSE 0]]

MCTargetCalls ==
  {Call(nr, 1, a, b) : nr \in {2, 5}, a \in 0 .. 15, b \in {0, 2, 6}}
  \cup {Call(nr, arch, 0, 0) : nr \in {1, 3, 4, 6}, arch \in {0, 1}}

MCCalls == {Call(2, 1, a, 0) : a \in 0 .. 15} \cup {Call(nr, 1, 0, 0) : nr \in {1, 3, 4}}

-----------------------------------------------------------------------------
Empty == [k \in {} |-> 0]

MCDefault ==
  [ root |-> "r", pin |-> {}, needed |-> {}, cowRoot |-> {}, cowDiff |-> {},
    scratch |-> {[path |-> "q", bytes |-> 1]}, volumes |-> {"u"}, cowVolumes |-> Empty, cowVolumeDiff |-> Empty, cowVolumeBase |-> Empty,
    loopback |-> FALSE, endpoint |-> {}, peer |-> {}, stdout |-> "closed", redirect |-> {},
    capture |-> {}, total |-> {}, handles |-> Empty, readExecute |-> {}, fileMutate |-> {"q"},
    topology |-> {"q"}, ports |-> {}, scoped |-> FALSE, cpu |-> 1, wallClock |-> {},
    seccomp |-> Plain(Basic) ]

Options == {{}, {1}, {2}}

ExecutionGroup == [root : {"r", "s"}, pin : {{}, {"d"}}, needed : {{}, {"d"}, {"d", "e"}}]

RootGroup ==
  [cowRoot : Options, cowDiff : {{}, {1}, {2}},
   scratch : {{}, {[path |-> "p", bytes |-> 1]}}]
  \cup [cowRoot : {{}}, cowDiff : {{}},
        scratch : {{[path |-> "p", bytes |-> 2]}, {[path |-> "q", bytes |-> 1]}}]

V(n) == "v" :> n

VolumeGroup ==
  [volumes : {{}, {"u"}, {"u", "v"}}, cowVolumes : {Empty}, cowVolumeDiff : {Empty}, cowVolumeBase : {Empty}]
  \cup [volumes : {{}}, cowVolumes : {V(1), V(2), V(1) @@ ("w" :> 1)}, cowVolumeDiff : {Empty, V(1), V(2)},
        cowVolumeBase : {Empty, V(<<1, 2>>), V(<<2, 1>>)}]

ChannelGroup ==
  [loopback : BOOLEAN, endpoint : {{}, {"e"}}, peer : {{}, {"x"}}, handles : {Empty, "h" :> "f", "h" :> "g"}]

OutputGroup ==
  [stdout : {"closed", "inherit"}, redirect : {{}}, capture : {{}}, total : {{}}]
  \cup [stdout : {"redirect"}, redirect : {{"p"}, {"q"}}, capture : {{}}, total : {{}}]
  \cup [stdout : {"capture"}, redirect : {{}}, capture : {{1}, {2}}, total : Options]

LandlockGroup(topologies) ==
  [readExecute : {{}, {"p"}, {"p", "q"}}, fileMutate : {{"q"}, {"p", "q"}},
   topology : topologies, ports : {{}, {"p"}}, scoped : {FALSE}]
  \cup [scoped : BOOLEAN, readExecute : {{}}, fileMutate : {{"q"}}, topology : topologies, ports : {{}}]

MixedGroup ==
  [ seccomp : {Plain(Basic), Plain({"read", "exit_group"}), Filter(Basic, At(0, 3, 2), NoRules, NoRules)},
    pin : {{}, {"d"}}, cowRoot : {{}, {1}}, readExecute : {{}, {"p"}}, loopback : BOOLEAN,
    wallClock : {{}, {1}} ]

(* A list of topology rights is not emptied here: see MCTopologyGroups.    *)
MCGroups ==
  [ seccomp   |-> {[seccomp |-> s] : s \in MCFilters},
    execution |-> ExecutionGroup,
    root      |-> RootGroup,
    volumes   |-> VolumeGroup,
    channels  |-> ChannelGroup,
    output    |-> OutputGroup,
    landlock  |-> LandlockGroup({{"q"}, {"p", "q"}}),
    controls  |-> [cpu : {1, 2}, wallClock : Options],
    mixed     |-> MixedGroup ]

MCTopologyGroups == [topology |-> LandlockGroup({{}, {"q"}, {"p", "q"}})]

-----------------------------------------------------------------------------
MCRestScenarios == "rest" :> Scenario(Jobs2("off", "off"), {One}, {NoUpper}, 0, 0, 0)

MCHostScenarios == MCScenarios @@ MCRestScenarios

MCRestPolicies == {MCRestPolicy}
===============================================================================
