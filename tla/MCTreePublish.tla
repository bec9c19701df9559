---------------------------- MODULE MCTreePublish ----------------------------
(* TreePublish for TLC: a directory "a" with a file "a/a" in it and an     *)
(* entry "a." beside it, '.' being less than '/' and '/' less than 'a'.    *)
EXTENDS TreePublish, TLC

CONSTANTS p1, p2

A   == <<3>>
Aa  == <<3, 2, 3>>
Dot == <<3, 1>>

MCPaths == {<<>>, A, Aa, Dot}

F(v) == Node("file", v)

Tree(root, a, aa, dot) == (<<>> :> root) @@ (A :> a) @@ (Aa :> aa) @@ (Dot :> dot)

Link == Node("link", "t")

(* Every base whose files have content v1.                                 *)
AllBases ==
  {t \in {Tree(r, a, aa, d) :
            r \in {Dir("open"), Dir("ro")}, a \in {Nothing, F("v1"), Dir("open"), Dir("ro")},
            aa \in {Nothing, F("v1"), Dir("ro")}, d \in {Nothing, F("v1"), Dir("ro"), Dir("closed")}} :
     WellFormed(t)}

(* Every upper directory whose files have content v2.                      *)
AllUppers ==
  {u \in [nodes : {Tree(Dir("open"), a, aa, d) :
                     a \in {Nothing, F("v2"), Node("whiteout", "none"), Dir("open"), Dir("closed")},
                     aa \in {Nothing, F("v2"), Node("whiteout", "none"), Dir("closed")},
                     d \in {Nothing, Link, Dir("open")}},
          opaque : SUBSET {<<>>, A}] :
     /\ WellFormed(u.nodes) /\ \A p \in u.opaque : IsDir(u.nodes, p)}

NoUpper == [nodes |-> EmptyTree, opaque |-> {}]

One == Tree(Dir("open"), Dir("ro"), F("v1"), Nothing)
Two == Tree(Dir("open"), Dir("ro"), F("v3"), Nothing)
Bar == Tree(Dir("open"), Dir("closed"), Nothing, F("v1"))
Few == Tree(Dir("open"), F("v1"), Nothing, F("v1"))

SomeUpper ==
  [nodes |-> Tree(Dir("open"), Dir("closed"), Nothing, F("v2")), opaque |-> {A}]

Jobs2(j, k) == (p1 :> j) @@ (p2 :> k)

Scenario(jobs, bases, uppers, n, m, c) ==
  [jobs |-> jobs, bases |-> bases, uppers |-> uppers, swaps |-> n, faults |-> m, crashes |-> c]

MCScenarios ==
  [ merge   |-> Scenario(Jobs2("plain", "off"), AllBases, AllUppers, 0, 0, 0),
    archive |-> Scenario(Jobs2("archive", "off"), AllBases, {NoUpper}, 0, 1, 2),
    changing |-> Scenario(Jobs2("bound", "off"), {One, Two, Few}, {SomeUpper, NoUpper}, 2, 1, 0),
    racing  |-> Scenario(Jobs2("volume", "archive"), {One, Two, Bar}, {SomeUpper}, 1, 0, 1),
    failing |-> Scenario(Jobs2("bound", "plain"), {One}, {SomeUpper}, 0, 1, 1) ]

MCMeeting == [meeting |-> Scenario(Jobs2("archive", "archive"), {Bar}, {NoUpper}, 0, 0, 0)]

MCCapture == [capture |-> Scenario(Jobs2("archive", "off"), AllBases, {NoUpper}, 0, 0, 0)]
==============================================================================
