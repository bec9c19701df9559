--------------------------- MODULE TreePublishProofs ---------------------------
(***************************************************************************)
(* Proofs about SnapshotTree and TreePublish, for every finite set of      *)
(* paths, every base, upper directory and archive of them, and any number  *)
(* of publishers, changes of the base, failing calls and crashes.          *)
(*                                                                         *)
(* First paths and their order, sorting, and the exported diff; then what  *)
(* one step of copying, replaying, archiving, creating and restoring makes *)
(* of a staging tree.  PubInv says whose a staging tree is and what a call *)
(* leaves behind; ExactInv which part of the promised tree it holds.       *)
(***************************************************************************)
EXTENDS TreePublish, FiniteSetTheorems, WellFoundedInduction, TLAPS

(* Least and greatest numbers, which stand in for induction.               *)

LEMMA NatMin ==
  ASSUME NEW S, S \subseteq Nat, S # {}
  PROVE  \E i \in S : \A j \in S : i <= j
  <1>1. PICK x \in S : \A y \in S : ~(<<y, x>> \in OpToRel(<, Nat))
    BY NatLessThanWellFounded, WFMin, Zenon
  <1>2. \A y \in S : ~(y < x)
    BY <1>1, Zenon DEF OpToRel
  <1> QED BY <1>2

LEMMA NatMax ==
  ASSUME NEW S, S \subseteq Nat, S # {}, NEW b \in Nat, \A x \in S : x <= b
  PROVE  Max(S) \in S /\ \A y \in S : y <= Max(S)
  <1> DEFINE B == {n \in Nat : \A x \in S : x <= n}
  <1>1. B \subseteq Nat /\ B # {}
    BY b \in B
  <1> HIDE DEF B
  <1>2. PICK m \in B : \A n \in B : m <= n
    BY <1>1, NatMin
  <1>3. m \in Nat /\ \A x \in S : x <= m
    BY <1>2 DEF B
  <1>4. m \in S
    <2> SUFFICES ASSUME m \notin S PROVE FALSE
      OBVIOUS
    <2>1. \A x \in S : x \in Nat /\ x < m
      BY <1>3
    <2>2. m - 1 \in Nat
      <3>1. PICK x : x \in S
        OBVIOUS
      <3>2. x \in Nat /\ x < m
        BY <2>1, <3>1
      <3> QED BY <1>3, <3>2
    <2>3. \A x \in S : x <= m - 1
      BY <1>3, <2>1
    <2>4. m - 1 \in B
      BY <2>2, <2>3 DEF B
    <2> QED BY <1>2, <1>3, <2>4
  <1>5. \E x \in S : \A y \in S : x >= y
    BY <1>3, <1>4
  <1>6. Max(S) \in S /\ \A y \in S : Max(S) >= y
    BY <1>5 DEF Max
  <1> QED BY <1>6

-----------------------------------------------------------------------------
(* Paths.                                                                  *)

LEMMA SamePath ==
  ASSUME NEW p \in Seq(Nat), NEW q \in Seq(Nat), Len(p) = Len(q),
         \A i \in 1..Len(p) : p[i] = q[i]
  PROVE  p = q
  OBVIOUS

LEMMA SamePrefix ==
  ASSUME NEW p \in Seq(Nat), NEW q \in Seq(Nat), NEW n \in Nat, n <= Len(p), n <= Len(q)
  PROVE  SubSeq(p, 1, n) = SubSeq(q, 1, n) <=> \A i \in 1..n : p[i] = q[i]
  <1> DEFINE a == SubSeq(p, 1, n)
             b == SubSeq(q, 1, n)
  <1>1. a \in Seq(Nat) /\ b \in Seq(Nat) /\ Len(a) = n /\ Len(b) = n
        /\ (\A i \in 1..n : a[i] = p[i]) /\ (\A i \in 1..n : b[i] = q[i])
    <2>1. n \in 0..Len(p) /\ n \in 0..Len(q)
      OBVIOUS
    <2>2. a \in Seq(Nat) /\ Len(a) = n /\ \A i \in 1..n : a[i] = p[i]
      BY <2>1
    <2>3. b \in Seq(Nat) /\ Len(b) = n /\ \A i \in 1..n : b[i] = q[i]
      BY <2>1
    <2> QED BY <2>2, <2>3
  <1> HIDE DEF a, b
  <1>2. (\A i \in 1..n : p[i] = q[i]) => a = b
    BY <1>1, SamePath
  <1>3. a = b => \A i \in 1..n : p[i] = q[i]
    BY <1>1
  <1> QED BY <1>2, <1>3 DEF a, b

(* Below and RawLess, byte by byte.                                        *)
LEMMA BelowIs ==
  ASSUME NEW p \in Seq(Nat), NEW q \in Seq(Nat)
  PROVE  Below(p, q) <=>
           /\ Len(p) > Len(q)
           /\ q = Root \/ ((\A i \in 1..Len(q) : p[i] = q[i]) /\ p[Len(q) + 1] = Slash)
  <1> SUFFICES ASSUME Len(p) > Len(q)
               PROVE  SubSeq(p, 1, Len(q)) = q <=> \A i \in 1..Len(q) : p[i] = q[i]
    BY DEF Below
  <1>1. Len(q) \in Nat /\ Len(q) <= Len(p) /\ SubSeq(q, 1, Len(q)) = q
    OBVIOUS
  <1> QED BY <1>1, SamePrefix

LEMMA RawLessIs ==
  ASSUME NEW p \in Seq(Nat), NEW q \in Seq(Nat)
  PROVE  RawLess(p, q) <=>
           \E n \in Nat : /\ n <= Len(p) /\ n < Len(q) /\ \A i \in 1..n : p[i] = q[i]
                          /\ n = Len(p) \/ p[n + 1] < q[n + 1]
  <1>1. ASSUME NEW n \in Nat, n <= Len(p), n < Len(q)
        PROVE  SubSeq(p, 1, n) = SubSeq(q, 1, n) <=> \A i \in 1..n : p[i] = q[i]
    <2>1. n <= Len(q)
      BY <1>1
    <2> QED BY <1>1, <2>1, SamePrefix
  <1>2. \A n : n \in 0..Len(p) <=> n \in Nat /\ n <= Len(p)
    OBVIOUS
  <1> QED BY <1>1, <1>2 DEF RawLess

LEMMA RawLessIrreflexive ==
  ASSUME NEW p \in Seq(Nat)
  PROVE  ~RawLess(p, p)
  <1>1. \A n \in Nat : n < Len(p) => p[n + 1] \in Nat
    OBVIOUS
  <1> QED BY <1>1, RawLessIs

LEMMA RawLessTransitive ==
  ASSUME NEW p \in Seq(Nat), NEW q \in Seq(Nat), NEW s \in Seq(Nat), RawLess(p, q), RawLess(q, s)
  PROVE  RawLess(p, s)
  <1>1. PICK n \in Nat : /\ n <= Len(p) /\ n < Len(q) /\ \A i \in 1..n : p[i] = q[i]
                         /\ n = Len(p) \/ p[n + 1] < q[n + 1]
    BY RawLessIs
  <1>2. PICK m \in Nat : /\ m <= Len(q) /\ m < Len(s) /\ \A i \in 1..m : q[i] = s[i]
                         /\ m = Len(q) \/ q[m + 1] < s[m + 1]
    BY RawLessIs
  <1>3. /\ Len(p) \in Nat /\ Len(q) \in Nat /\ Len(s) \in Nat
        /\ (\A i \in 1..Len(p) : p[i] \in Nat) /\ (\A i \in 1..Len(q) : q[i] \in Nat)
        /\ (\A i \in 1..Len(s) : s[i] \in Nat)
    OBVIOUS
  <1>4. CASE n <= m
    <2>1. n <= Len(p) /\ n < Len(s) /\ \A i \in 1..n : p[i] = s[i]
      BY <1>1, <1>2, <1>3, <1>4
    <2>2. n = Len(p) \/ p[n + 1] < s[n + 1]
      <3> SUFFICES ASSUME n < Len(p) PROVE p[n + 1] < s[n + 1]
        BY <1>1, <1>3
      <3>1. p[n + 1] < q[n + 1] /\ n + 1 \in 1..Len(p) /\ n + 1 \in 1..Len(q) /\ n + 1 \in 1..Len(s)
        BY <1>1, <1>3, <2>1
      <3>3. p[n + 1] \in Nat /\ q[n + 1] \in Nat /\ s[n + 1] \in Nat
        BY <1>3, <3>1
      <3>4. \A a, b, c \in Nat : (a < b /\ b <= c => a < c) /\ (a < b => a <= b) /\ a <= a
        OBVIOUS
      <3>2. q[n + 1] <= s[n + 1]
        <4>1. CASE n = m
          <5>1. m # Len(q)
            BY <1>1, <1>3, <4>1
          <5>2. q[n + 1] < s[n + 1]
            BY <1>2, <4>1, <5>1
          <5> QED BY <3>3, <3>4, <5>2
        <4>2. CASE n < m
          <5>1. n + 1 \in 1..m
            BY <4>2
          <5>2. q[n + 1] = s[n + 1]
            BY <1>2, <5>1
          <5> QED BY <3>3, <3>4, <5>2
        <4> QED BY <1>4, <4>1, <4>2
      <3> QED BY <3>1, <3>2, <3>3, <3>4
    <2> QED BY <2>1, <2>2, RawLessIs
  <1>5. CASE m < n
    <2>1. m <= Len(p) /\ m < Len(s) /\ (\A i \in 1..m : p[i] = s[i]) /\ m < Len(q)
      <3>0. \A a, b, c \in Nat : a < b /\ (b <= c \/ b < c) => a <= c /\ a < c
        OBVIOUS
      <3>1. m <= Len(p) /\ m < Len(s) /\ m < Len(q)
        <4>1. n <= Len(p) /\ n < Len(q) /\ m < Len(s)
          BY <1>1, <1>2
        <4> QED BY <1>3, <1>5, <3>0, <4>1
      <3>2. ASSUME NEW i \in 1..m PROVE p[i] = s[i]
        <4>1. i \in 1..n
          BY <1>5
        <4> QED BY <1>1, <1>2, <4>1
      <3> QED BY <3>1, <3>2
    <2>2. q[m + 1] < s[m + 1] /\ p[m + 1] = q[m + 1]
      <3>1. m + 1 \in 1..n
        BY <1>5
      <3> QED BY <1>1, <1>2, <2>1, <3>1
    <2> QED BY <2>1, <2>2, RawLessIs
  <1> QED BY <1>4, <1>5

LEMMA RawLessTotal ==
  ASSUME NEW p \in Seq(Nat), NEW q \in Seq(Nat), p # q
  PROVE  RawLess(p, q) \/ RawLess(q, p)
  <1> DEFINE D == {i \in Nat \ {0} : i <= Len(p) /\ i <= Len(q) /\ p[i] # q[i]}
  <1>1. /\ Len(p) \in Nat /\ Len(q) \in Nat
        /\ (\A i \in 1..Len(p) : p[i] \in Nat) /\ (\A i \in 1..Len(q) : q[i] \in Nat)
    OBVIOUS
  <1>2. CASE D = {}
    <2>1. ASSUME Len(p) = Len(q) PROVE FALSE
      <3>1. ASSUME NEW i \in 1..Len(p) PROVE p[i] = q[i]
        <4>1. i \in Nat \ {0} /\ i <= Len(p)
          BY <1>1
        <4>2. i <= Len(q) /\ i \notin D
          BY <1>2, <2>1, <4>1
        <4> QED BY <4>1, <4>2
      <3> HIDE DEF D
      <3> QED BY <2>1, <3>1, SamePath
    <2>2. CASE Len(p) < Len(q)
      <3>1. ASSUME NEW i \in 1..Len(p) PROVE p[i] = q[i]
        <4>1. i \in Nat \ {0} /\ i <= Len(p) /\ i <= Len(q) /\ i \notin D
          BY <1>1, <1>2, <2>2
        <4> QED BY <4>1
      <3>2. Len(p) <= Len(p)
        BY <1>1
      <3> HIDE DEF D
      <3> QED BY <1>1, <2>2, <3>1, <3>2, RawLessIs
    <2>3. CASE Len(q) < Len(p)
      <3>1. ASSUME NEW i \in 1..Len(q) PROVE q[i] = p[i]
        <4>1. i \in Nat \ {0} /\ i <= Len(p) /\ i <= Len(q)
          BY <1>1, <2>3
        <4>2. i \notin D
          BY <1>2
        <4> QED BY <4>1, <4>2
      <3>2. Len(q) <= Len(q)
        BY <1>1
      <3> HIDE DEF D
      <3> QED BY <1>1, <2>3, <3>1, <3>2, RawLessIs
    <2> QED BY <1>1, <2>1, <2>2, <2>3
  <1>3. CASE D # {}
    <2> HIDE DEF D
    <2>1. PICK d \in D : \A i \in D : d <= i
      <3>1. D \subseteq Nat
        BY DEF D
      <3> QED BY <1>3, <3>1, NatMin
    <2>2. d \in Nat \ {0} /\ d <= Len(p) /\ d <= Len(q) /\ p[d] # q[d]
      BY <2>1 DEF D
    <2>3. ASSUME NEW i \in 1..(d - 1) PROVE p[i] = q[i]
      <3>1. i \in Nat \ {0} /\ i < d /\ i <= Len(p) /\ i <= Len(q)
        BY <2>2, <1>1
      <3>2. i \notin D
        BY <2>1, <2>2, <3>1
      <3> QED BY <3>1, <3>2 DEF D
    <2> DEFINE n == d - 1
    <2>4. /\ n \in Nat /\ n + 1 = d /\ n < Len(p) /\ n < Len(q) /\ n <= Len(p) /\ n <= Len(q)
          /\ \A i \in 1..n : p[i] = q[i] /\ q[i] = p[i]
      BY <1>1, <2>2, <2>3
    <2>5. p[n + 1] < q[n + 1] \/ q[n + 1] < p[n + 1]
      BY <1>1, <2>2, <2>4
    <2> HIDE DEF n
    <2>6. CASE p[n + 1] < q[n + 1]
      BY <2>4, <2>6, RawLessIs
    <2>7. CASE q[n + 1] < p[n + 1]
      BY <2>4, <2>7, RawLessIs
    <2> QED BY <2>5, <2>6, <2>7
  <1> QED BY <1>2, <1>3

LEMMA BelowIsLater ==
  ASSUME NEW p \in Seq(Nat), NEW q \in Seq(Nat), Below(p, q)
  PROVE  RawLess(q, p)
  <1>1. Len(p) > Len(q) /\ \A i \in 1..Len(q) : q[i] = p[i]
    BY BelowIs DEF Root
  <1>2. Len(q) \in Nat
    OBVIOUS
  <1> QED BY <1>1, <1>2, RawLessIs

LEMMA BelowTransitive ==
  ASSUME NEW p \in Seq(Nat), NEW q \in Seq(Nat), NEW s \in Seq(Nat), Below(p, q), Below(q, s)
  PROVE  Below(p, s)
  <1>1. Len(p) > Len(q) /\ \A i \in 1..Len(q) : p[i] = q[i]
    BY BelowIs DEF Root
  <1>2. Len(q) > Len(s) /\ (s = Root \/ ((\A i \in 1..Len(s) : q[i] = s[i]) /\ q[Len(s) + 1] = Slash))
    BY BelowIs
  <1>3. Len(p) \in Nat /\ Len(q) \in Nat /\ Len(s) \in Nat
    OBVIOUS
  <1>4. CASE s = Root
    BY <1>1, <1>2, <1>3, <1>4, BelowIs
  <1>5. CASE s # Root
    <2>1. \A i \in 1..Len(s) : i \in 1..Len(q)
      BY <1>2, <1>3
    <2>2. Len(s) + 1 \in 1..Len(q)
      BY <1>2, <1>3
    <2>3. (\A i \in 1..Len(s) : p[i] = s[i]) /\ p[Len(s) + 1] = Slash
      BY <1>1, <1>2, <1>5, <2>1, <2>2
    <2> QED BY <1>1, <1>2, <1>3, <2>3, BelowIs
  <1> QED BY <1>4, <1>5

-----------------------------------------------------------------------------
(* Parents and ancestors.                                                  *)

LEMMA PathsAreBytes ==
  ASSUME NEW p \in Paths
  PROVE  p \in Seq(Nat) /\ Len(p) \in Nat /\ (p # Root => Len(p) > 0 /\ Parent(p) \in Paths)
  <1>1. p \in Seq(Nat)
    BY PathAssumption
  <1>2. p # Root => Len(p) > 0
    BY <1>1 DEF Root
  <1> QED BY <1>1, <1>2, PathAssumption

(* Where the last separator is.                                            *)
LEMMA ParentIs ==
  ASSUME NEW p \in Seq(Nat)
  PROVE  \/ Parent(p) = Root /\ \A k \in 1..Len(p) : p[k] # Slash
         \/ \E m \in 1..Len(p) :
              /\ p[m] = Slash /\ Parent(p) = SubSeq(p, 1, m - 1)
              /\ \A k \in 1..Len(p) : p[k] = Slash => k <= m
  <1> DEFINE S == {k \in DOMAIN p : p[k] = Slash}
  <1>1. DOMAIN p = 1..Len(p) /\ Len(p) \in Nat
    OBVIOUS
  <1>2. CASE Slash \in Range(p)
    <2>1. S # {} /\ S \subseteq Nat /\ \A x \in S : x <= Len(p)
      BY <1>1, <1>2 DEF Range
    <2> HIDE DEF S
    <2>2. Max(S) \in S /\ \A y \in S : y <= Max(S)
      BY <1>1, <2>1, NatMax
    <2>3. Max(S) \in 1..Len(p) /\ p[Max(S)] = Slash /\ \A k \in 1..Len(p) : p[k] = Slash => k <= Max(S)
      BY <1>1, <2>2 DEF S
    <2>4. Parent(p) = SubSeq(p, 1, Max(S) - 1)
      BY <1>2 DEF Parent, S
    <2> QED BY <2>3, <2>4
  <1>3. CASE Slash \notin Range(p)
    BY <1>1, <1>3 DEF Parent, Range
  <1> QED BY <1>2, <1>3

LEMMA BelowParent ==
  ASSUME NEW p \in Seq(Nat), p # Root
  PROVE  Parent(p) \in Seq(Nat) /\ Below(p, Parent(p)) /\ Len(Parent(p)) < Len(p)
  <1>1. Len(p) \in Nat /\ Len(p) > 0 /\ Root \in Seq(Nat) /\ Len(Root) = 0
    BY DEF Root
  <1>2. CASE Parent(p) = Root
    BY <1>1, <1>2 DEF Below
  <1>3. ASSUME NEW m \in 1..Len(p), p[m] = Slash, Parent(p) = SubSeq(p, 1, m - 1)
        PROVE  Parent(p) \in Seq(Nat) /\ Below(p, Parent(p)) /\ Len(Parent(p)) < Len(p)
    <2>1. m - 1 \in 0..Len(p) /\ m - 1 < Len(p) /\ (m - 1) + 1 = m
      BY <1>1
    <2>2. Parent(p) \in Seq(Nat) /\ Len(Parent(p)) = m - 1
      BY <1>3, <2>1
    <2> QED BY <1>3, <2>1, <2>2 DEF Below
  <1> QED BY <1>2, <1>3, ParentIs

LEMMA AncestorsOfParent ==
  ASSUME NEW p \in Seq(Nat), p # Root, NEW q \in Seq(Nat), Below(p, q)
  PROVE  q = Parent(p) \/ Below(Parent(p), q)
  <1>0. Parent(p) \in Seq(Nat)
    BY BelowParent
  <1>1. CASE q = Root
    <2>1. Len(q) = 0 /\ (Parent(p) # Root => Len(Parent(p)) > 0)
      BY <1>0, <1>1 DEF Root
    <2> QED BY <1>1, <2>1 DEF Below
  <1>2. CASE q # Root
    <2>1. Len(p) > Len(q) /\ (\A i \in 1..Len(q) : p[i] = q[i]) /\ p[Len(q) + 1] = Slash
      BY <1>2, BelowIs
    <2>2. Len(q) \in Nat /\ Len(p) \in Nat /\ Len(q) + 1 \in 1..Len(p)
      BY <2>1
    <2>3. PICK m \in 1..Len(p) :
              /\ p[m] = Slash /\ Parent(p) = SubSeq(p, 1, m - 1)
              /\ \A k \in 1..Len(p) : p[k] = Slash => k <= m
      BY <2>1, <2>2, ParentIs
    <2>4. Len(q) + 1 <= m /\ m - 1 \in 0..Len(p)
      BY <2>1, <2>2, <2>3
    <2>5. Len(Parent(p)) = m - 1 /\ \A i \in 1..(m - 1) : Parent(p)[i] = p[i]
      BY <2>3, <2>4
    <2>6. CASE m = Len(q) + 1
      <3>1. Len(Parent(p)) = Len(q) /\ \A i \in 1..Len(q) : Parent(p)[i] = q[i]
        BY <2>1, <2>2, <2>5, <2>6
      <3> QED BY <1>0, <3>1, SamePath
    <2>7. CASE m > Len(q) + 1
      <3>1. Len(Parent(p)) > Len(q) /\ Len(q) + 1 \in 1..(m - 1) /\ \A i \in 1..Len(q) : i \in 1..(m - 1)
        BY <2>2, <2>5, <2>7
      <3>2. (\A i \in 1..Len(q) : Parent(p)[i] = q[i]) /\ Parent(p)[Len(q) + 1] = Slash
        BY <2>1, <2>5, <3>1
      <3> QED BY <1>0, <3>1, <3>2, BelowIs
    <2> QED BY <2>2, <2>3, <2>4, <2>6, <2>7
  <1> QED BY <1>1, <1>2

(* In a tree everything above a node is a directory.                       *)
LEMMA AboveIsDir ==
  ASSUME NEW t, WellFormed(t), NEW q \in Paths, NEW p \in Paths, Below(q, p), t[q].k # "none"
  PROVE  IsDir(t, p)
  <1> SUFFICES ASSUME ~IsDir(t, p) PROVE FALSE
    OBVIOUS
  <1> DEFINE Bad == {n \in Nat : \E x \in Paths : Len(x) = n /\ Below(x, p) /\ t[x].k # "none"}
  <1>1. Bad # {} /\ Bad \subseteq Nat
    BY PathsAreBytes
  <1> HIDE DEF Bad
  <1>2. PICK n \in Bad : \A m \in Bad : n <= m
    BY <1>1, NatMin
  <1>3. PICK x \in Paths : Len(x) = n /\ Below(x, p) /\ t[x].k # "none"
    BY <1>2 DEF Bad
  <1>4. x # Root
    <2>1. Len(x) > Len(p) /\ Len(p) \in Nat
      BY <1>3, PathsAreBytes DEF Below
    <2>2. Len(Root) = 0
      BY DEF Root
    <2> QED BY <2>1, <2>2
  <1>5. /\ x \in Seq(Nat) /\ p \in Seq(Nat) /\ Parent(x) \in Paths
        /\ Len(Parent(x)) \in Nat /\ n \in Nat /\ Len(Parent(x)) < n
    BY <1>3, <1>4, PathsAreBytes, BelowParent
  <1>6. IsDir(t, Parent(x))
    BY <1>3, <1>4 DEF WellFormed
  <1>7. Below(Parent(x), p)
    BY <1>3, <1>4, <1>5, <1>6, AncestorsOfParent
  <1>8. Len(Parent(x)) \in Bad
    BY <1>5, <1>6, <1>7 DEF Bad, IsDir
  <1> QED BY <1>2, <1>5, <1>8

LEMMA Smaller ==
  ASSUME NEW S, IsFiniteSet(S), NEW T, T \subseteq S, NEW x \in S, x \notin T
  PROVE  Cardinality(T) \in Nat /\ Cardinality(S) \in Nat /\ Cardinality(T) < Cardinality(S)
  <1>1. /\ IsFiniteSet(T) /\ Cardinality(T) <= Cardinality(S) /\ Cardinality(S) # Cardinality(T)
    BY FS_Subset
  <1>2. Cardinality(T) \in Nat /\ Cardinality(S) \in Nat
    BY <1>1, FS_CardinalityType
  <1> QED BY <1>1, <1>2

LEMMA Separators ==
  ASSUME NEW p \in Seq(Nat)
  PROVE  /\ IsFiniteSet({k \in DOMAIN p : p[k] = Slash})
         /\ Cardinality({k \in DOMAIN p : p[k] = Slash}) \in Nat
  <1> DEFINE S == {k \in DOMAIN p : p[k] = Slash}
  <1>1. 1 \in Int /\ Len(p) \in Int /\ S \in SUBSET (1..Len(p))
    OBVIOUS
  <1> HIDE DEF S
  <1>2. IsFiniteSet(1..Len(p))
    BY <1>1, FS_Interval
  <1>3. IsFiniteSet(S)
    BY <1>1, <1>2, FS_Subset
  <1>4. Cardinality(S) \in Nat
    BY <1>3, FS_CardinalityType
  <1> QED BY <1>3, <1>4 DEF S

LEMMA DepthIsNat ==
  ASSUME NEW p \in Seq(Nat)
  PROVE  PathDepth(p) \in Nat
  <1>1. Cardinality({k \in DOMAIN p : p[k] = Slash}) \in Nat
    BY Separators
  <1> QED BY <1>1 DEF PathDepth

LEMMA BelowIsDeeper ==
  ASSUME NEW p \in Seq(Nat), NEW q \in Seq(Nat), Below(p, q)
  PROVE  PathDepth(q) < PathDepth(p)
  <1> DEFINE S == {k \in DOMAIN p : p[k] = Slash}
             T == {k \in DOMAIN q : q[k] = Slash}
  <1>1. Len(p) > Len(q) /\ Len(q) \in Nat /\ Len(p) \in Nat
    BY DEF Below
  <1>2. p # Root
    BY <1>1 DEF Root
  <1>3. IsFiniteSet(S) /\ Cardinality(S) \in Nat
    BY Separators
  <1>4. CASE q = Root
    BY <1>2, <1>3, <1>4 DEF PathDepth
  <1>5. CASE q # Root
    <2>1. (\A i \in 1..Len(q) : p[i] = q[i]) /\ p[Len(q) + 1] = Slash
      BY <1>5, BelowIs
    <2>2. DOMAIN p = 1..Len(p) /\ DOMAIN q = 1..Len(q)
      OBVIOUS
    <2>3. Len(q) + 1 \in 1..Len(p) /\ Len(q) + 1 \notin 1..Len(q) /\ \A i \in 1..Len(q) : i \in 1..Len(p)
      BY <1>1
    <2>4. T \subseteq S /\ Len(q) + 1 \in S /\ Len(q) + 1 \notin T
      BY <2>1, <2>2, <2>3
    <2> HIDE DEF S, T
    <2>5. Cardinality(T) \in Nat /\ Cardinality(S) \in Nat /\ Cardinality(T) < Cardinality(S)
      BY <1>3, <2>4, Smaller
    <2> QED BY <1>2, <1>5, <2>5 DEF PathDepth, S, T
  <1> QED BY <1>4, <1>5

-----------------------------------------------------------------------------
(* Sorting.                                                                *)

StrictTotal(S, order) ==
  /\ \A x \in S : <<x, x>> \notin order
  /\ \A x, y, z \in S : <<x, y>> \in order /\ <<y, z>> \in order => <<x, z>> \in order
  /\ \A x, y \in S : x # y => <<x, y>> \in order \/ <<y, x>> \in order

(* What is left of the elements of S, taken in order.                      *)
Pending(todo, S, order) ==
  /\ todo \in Seq(S)
  /\ \A i, j \in 1..Len(todo) : i < j => <<todo[i], todo[j]>> \in order
  /\ \A x \in S : x \in Range(todo) \/ \A i \in 1..Len(todo) : <<x, todo[i]>> \in order

(* How many come before an element.                                        *)
Place(S, order, x) == Cardinality({y \in S : <<y, x>> \in order})

LEMMA RanksDiffer ==
  ASSUME NEW S, IsFiniteSet(S), NEW order, StrictTotal(S, order),
         NEW x \in S, NEW y \in S, <<x, y>> \in order
  PROVE  /\ Place(S, order, x) \in Nat /\ Place(S, order, y) \in Nat
         /\ Place(S, order, x) < Place(S, order, y)
  <1> DEFINE X == {z \in S : <<z, x>> \in order}
             Y == {z \in S : <<z, y>> \in order}
  <1>1. X \subseteq Y /\ x \in Y /\ x \notin X /\ Y \in SUBSET S
    BY DEF StrictTotal
  <1> HIDE DEF X, Y
  <1>2. IsFiniteSet(Y)
    BY <1>1, FS_Subset
  <1>3. Cardinality(X) \in Nat /\ Cardinality(Y) \in Nat /\ Cardinality(X) < Cardinality(Y)
    BY <1>1, <1>2, Smaller
  <1> QED BY <1>3 DEF X, Y, Place

(* Everything has a place, and the places are all taken.                   *)
LEMMA RanksAreDense ==
  ASSUME NEW S, IsFiniteSet(S), NEW order, StrictTotal(S, order)
  PROVE  /\ Cardinality(S) \in Nat
         /\ \A x \in S : Place(S, order, x) \in 0..(Cardinality(S) - 1)
         /\ \A n \in 0..(Cardinality(S) - 1) : \E x \in S : Place(S, order, x) = n
  <1> DEFINE N == Cardinality(S)
             Rank(x) == Place(S, order, x)
             T == 0..(N - 1)
             f == [x \in S |-> Rank(x)]
  <1>1. N \in Nat
    BY FS_CardinalityType
  <1>2. ASSUME NEW x \in S PROVE Rank(x) \in T
    <2> DEFINE X == {y \in S : <<y, x>> \in order}
    <2>1. X \subseteq S /\ x \notin X
      BY DEF StrictTotal
    <2> HIDE DEF X
    <2>2. Cardinality(X) \in Nat /\ Cardinality(X) < N
      BY <1>1, <2>1, Smaller
    <2>3. Cardinality(X) \in T
      BY <1>1, <2>2
    <2> QED BY <2>3 DEF X, Place
  <1>3. ASSUME NEW x \in S, NEW y \in S, x # y PROVE Rank(x) # Rank(y)
    <2>1. CASE <<x, y>> \in order
      BY <2>1, RanksDiffer
    <2>2. CASE <<y, x>> \in order
      BY <2>2, RanksDiffer
    <2> QED BY <1>3, <2>1, <2>2 DEF StrictTotal
  <1>4. N - 1 \in Int /\ 0 \in Int
    BY <1>1
  <1>5. IsFiniteSet(T) /\ Cardinality(T) = N
    BY <1>1, <1>4, FS_Interval
  <1> HIDE DEF N, T, Rank
  <1>6. f \in Injection(S, T)
    BY <1>2, <1>3 DEF Injection, IsInjective
  <1>7. f \in Surjection(S, T)
    <2>1. Cardinality(S) = Cardinality(T)
      BY <1>5 DEF N
    <2> HIDE DEF f
    <2> QED BY <1>5, <1>6, <2>1, FS_Injection
  <1>8. \A n \in T : \E x \in S : Rank(x) = n
    BY <1>7 DEF Surjection
  <1> QED BY <1>1, <1>2, <1>8 DEF N, T, Rank

LEMMA SortByIs ==
  ASSUME NEW S, IsFiniteSet(S), NEW order, StrictTotal(S, order)
  PROVE  /\ SortBy(S, order) \in Seq(S) /\ Len(SortBy(S, order)) = Cardinality(S)
         /\ Range(SortBy(S, order)) = S
         /\ Pending(SortBy(S, order), S, order)
  <1> DEFINE N == Cardinality(S)
             Rank(x) == Place(S, order, x)
             s == SortBy(S, order)
  <1>1. N \in Nat /\ (\A x \in S : Rank(x) \in 0..(N - 1)) /\ \A n \in 0..(N - 1) : \E x \in S : Rank(x) = n
    BY RanksAreDense
  <1>2. \A x, y \in S : <<x, y>> \in order => Rank(x) \in Nat /\ Rank(y) \in Nat /\ Rank(x) < Rank(y)
    BY RanksDiffer
  <1>3. s = [n \in 1..N |-> CHOOSE x \in S : Rank(x) = n - 1]
    BY DEF SortBy, Place
  <1> HIDE DEF N, Rank, s
  <1>4. ASSUME NEW n \in 1..N PROVE s[n] \in S /\ Rank(s[n]) = n - 1
    <2>1. n - 1 \in 0..(N - 1)
      BY <1>1
    <2>2. PICK x \in S : Rank(x) = n - 1
      BY <1>1, <2>1
    <2> QED BY <1>3, <2>2
  <1>5. s \in Seq(S) /\ Len(s) = N /\ DOMAIN s = 1..N
    <2>1. s \in [1..N -> S]
      BY <1>3, <1>4
    <2> QED BY <1>1, <2>1
  <1>6. ASSUME NEW x \in S PROVE \E n \in 1..N : s[n] = x
    <2> DEFINE n == Rank(x) + 1
    <2>1. n \in 1..N /\ n - 1 = Rank(x)
      BY <1>1
    <2> HIDE DEF n
    <2>2. s[n] \in S /\ Rank(s[n]) = Rank(x)
      BY <1>4, <2>1
    <2>3. s[n] = x
      <3> SUFFICES ASSUME s[n] # x PROVE FALSE
        OBVIOUS
      <3>1. <<s[n], x>> \in order \/ <<x, s[n]>> \in order
        BY <2>2 DEF StrictTotal
      <3> QED BY <1>2, <2>2, <3>1
    <2> QED BY <2>1, <2>3
  <1>7. Range(s) = S
    BY <1>4, <1>5, <1>6 DEF Range
  <1>8. ASSUME NEW i \in 1..N, NEW j \in 1..N, i < j PROVE <<s[i], s[j]>> \in order
    <2>1. s[i] \in S /\ s[j] \in S /\ Rank(s[i]) = i - 1 /\ Rank(s[j]) = j - 1
      BY <1>4
    <2>2. Rank(s[i]) < Rank(s[j])
      BY <1>8, <2>1
    <2>3. s[i] # s[j] /\ ~(<<s[j], s[i]>> \in order)
      BY <1>2, <2>1, <2>2
    <2> QED BY <2>1, <2>3 DEF StrictTotal
  <1>9. Pending(s, S, order)
    BY <1>5, <1>7, <1>8 DEF Pending
  <1> QED BY <1>5, <1>7, <1>9 DEF s, N

LEMMA PendingTail ==
  ASSUME NEW S, NEW order, StrictTotal(S, order), NEW todo, Pending(todo, S, order), todo # <<>>
  PROVE  /\ Head(todo) \in S /\ Head(todo) \notin Range(Tail(todo)) /\ Head(todo) \in Range(todo)
         /\ Range(Tail(todo)) = Range(todo) \ {Head(todo)}
         /\ Pending(Tail(todo), S, order)
         /\ \A x \in S : x \notin Range(todo) => <<x, Head(todo)>> \in order
         /\ \A x \in Range(Tail(todo)) : x \in S /\ <<Head(todo), x>> \in order
  <1> DEFINE h == Head(todo)
             t == Tail(todo)
  <1>1. /\ todo \in Seq(S) /\ Len(todo) \in Nat /\ Len(todo) > 0 /\ h = todo[1] /\ h \in S
        /\ t \in Seq(S) /\ Len(t) = Len(todo) - 1 /\ DOMAIN todo = 1..Len(todo) /\ DOMAIN t = 1..Len(t)
        /\ \A i \in 1..Len(t) : t[i] = todo[i + 1]
    BY DEF Pending
  <1> HIDE DEF h, t
  <1>2. ASSUME NEW i \in 1..Len(t) PROVE i + 1 \in 1..Len(todo) /\ <<h, t[i]>> \in order /\ t[i] \in S
    <2>1. i + 1 \in 1..Len(todo) /\ 1 \in 1..Len(todo) /\ 1 < i + 1
      BY <1>1
    <2> QED BY <1>1, <2>1 DEF Pending
  <1>3. h \notin Range(t)
    BY <1>1, <1>2 DEF Range, StrictTotal
  <1>4. Range(todo) = Range(t) \cup {h}
    <2>1. \A i \in 1..Len(todo) : todo[i] = h \/ \E j \in 1..Len(t) : t[j] = todo[i]
      <3> SUFFICES ASSUME NEW i \in 1..Len(todo), i # 1 PROVE \E j \in 1..Len(t) : t[j] = todo[i]
        BY <1>1
      <3>1. i - 1 \in 1..Len(t) /\ (i - 1) + 1 = i
        BY <1>1
      <3> QED BY <1>1, <3>1
    <2>2. \A j \in 1..Len(t) : t[j] \in Range(todo)
      BY <1>1, <1>2 DEF Range
    <2>3. h \in Range(todo)
      BY <1>1, 1 \in 1..Len(todo) DEF Range
    <2>4. Range(todo) \subseteq Range(t) \cup {h}
      <3> SUFFICES ASSUME NEW i \in 1..Len(todo) PROVE todo[i] \in Range(t) \cup {h}
        BY <1>1 DEF Range
      <3>1. \A j \in 1..Len(t) : t[j] \in Range(t)
        BY <1>1 DEF Range
      <3> QED BY <2>1, <3>1
    <2>5. Range(t) \subseteq Range(todo)
      BY <1>1, <2>2 DEF Range
    <2> QED BY <2>3, <2>4, <2>5
  <1>5. \A i, j \in 1..Len(t) : i < j => <<t[i], t[j]>> \in order
    <2> SUFFICES ASSUME NEW i \in 1..Len(t), NEW j \in 1..Len(t), i < j PROVE <<t[i], t[j]>> \in order
      OBVIOUS
    <2>1. i + 1 \in 1..Len(todo) /\ j + 1 \in 1..Len(todo) /\ i + 1 < j + 1
      BY <1>1
    <2> QED BY <1>1, <2>1 DEF Pending
  <1>6. \A x \in S : x \notin Range(todo) => <<x, h>> \in order
    BY <1>1, 1 \in 1..Len(todo) DEF Pending
  <1>7. \A x \in S : x \in Range(t) \/ \A i \in 1..Len(t) : <<x, t[i]>> \in order
    <2> SUFFICES ASSUME NEW x \in S, x \notin Range(t), NEW i \in 1..Len(t) PROVE <<x, t[i]>> \in order
      OBVIOUS
    <2>1. CASE x = h
      BY <1>2, <2>1
    <2>2. CASE x # h
      <3>1. x \notin Range(todo)
        BY <1>4, <2>2
      <3> QED BY <1>1, <1>2, <3>1 DEF Pending
    <2> QED BY <2>1, <2>2
  <1>8. Pending(t, S, order)
    BY <1>1, <1>5, <1>7 DEF Pending
  <1>9. \A x \in Range(t) : x \in S /\ <<h, x>> \in order
    BY <1>1, <1>2 DEF Range
  <1> QED BY <1>1, <1>3, <1>4, <1>6, <1>8, <1>9 DEF h, t

-----------------------------------------------------------------------------
(* The orders of the model.                                                *)

PathOrder(ps_) == {e \in ps_ \X ps_ : RawLess(e[1], e[2])}

DepthOrder(dirs) ==
  {e \in dirs \X dirs : \/ PathDepth(e[1]) > PathDepth(e[2])
                        \/ PathDepth(e[1]) = PathDepth(e[2]) /\ RawLess(e[1], e[2])}

EntryOrder(u) == {e \in ExportUpper(u) \X ExportUpper(u) : EntryLess(e[1], e[2])}

LEMMA SomePathsAreFinite ==
  ASSUME NEW S, S \subseteq Paths
  PROVE  IsFiniteSet(S) /\ S \subseteq Seq(Nat)
  <1>1. S \in SUBSET Paths
    OBVIOUS
  <1> QED BY <1>1, FS_Subset, PathAssumption

LEMMA SortedIs ==
  ASSUME NEW S, S \subseteq Paths
  PROVE  /\ Sorted(S) \in Seq(S) /\ Range(Sorted(S)) = S
         /\ \A i, j \in 1..Len(Sorted(S)) : i # j => Sorted(S)[i] # Sorted(S)[j]
  <1> DEFINE order == PathOrder(S)
  <1>1. IsFiniteSet(S) /\ S \subseteq Seq(Nat)
    BY SomePathsAreFinite
  <1>2. \A x, y : <<x, y>> \in order <=> x \in S /\ y \in S /\ RawLess(x, y)
    BY DEF PathOrder
  <1>3. Sorted(S) = SortBy(S, order)
    BY DEF Sorted, PathOrder
  <1> HIDE DEF order
  <1>4. StrictTotal(S, order)
    <2>1. \A x \in S : ~RawLess(x, x)
      BY <1>1, RawLessIrreflexive
    <2>2. \A x, y, z \in S : RawLess(x, y) /\ RawLess(y, z) => RawLess(x, z)
      BY <1>1, RawLessTransitive
    <2>3. \A x, y \in S : x # y => RawLess(x, y) \/ RawLess(y, x)
      BY <1>1, RawLessTotal
    <2> QED BY <1>2, <2>1, <2>2, <2>3 DEF StrictTotal
  <1>5. Sorted(S) \in Seq(S) /\ Range(Sorted(S)) = S /\ Pending(Sorted(S), S, order)
    BY <1>1, <1>3, <1>4, SortByIs
  <1>6. ASSUME NEW i \in 1..Len(Sorted(S)), NEW j \in 1..Len(Sorted(S)), i < j
        PROVE  Sorted(S)[i] # Sorted(S)[j]
    <2>1. <<Sorted(S)[i], Sorted(S)[j]>> \in order /\ Sorted(S)[i] \in S
      BY <1>5, <1>6 DEF Pending
    <2> QED BY <1>4, <2>1 DEF StrictTotal
  <1>7. ASSUME NEW i \in 1..Len(Sorted(S)), NEW j \in 1..Len(Sorted(S)), i # j
        PROVE  Sorted(S)[i] # Sorted(S)[j]
    <2>1. i < j \/ j < i
      BY <1>5, <1>7
    <2> QED BY <1>6, <2>1
  <1> QED BY <1>5, <1>7

LEMMA DepthOrderIs ==
  ASSUME NEW S, S \subseteq Paths
  PROVE  /\ StrictTotal(S, DepthOrder(S))
         /\ Pending(DeepestFirst(S), S, DepthOrder(S)) /\ Range(DeepestFirst(S)) = S
         /\ \A x, y \in S : Below(x, y) => <<x, y>> \in DepthOrder(S)
  <1> DEFINE order == DepthOrder(S)
             Less(x, y) == \/ PathDepth(x) > PathDepth(y)
                           \/ PathDepth(x) = PathDepth(y) /\ RawLess(x, y)
  <1>1. IsFiniteSet(S) /\ S \subseteq Seq(Nat)
    BY SomePathsAreFinite
  <1>2. \A x, y : <<x, y>> \in order <=> x \in S /\ y \in S /\ Less(x, y)
    BY DEF DepthOrder
  <1>3. DeepestFirst(S) = SortBy(S, order)
    BY DEF DeepestFirst, DepthOrder
  <1> HIDE DEF order
  <1>4. \A x \in S : PathDepth(x) \in Nat
    BY <1>1, DepthIsNat
  <1>5. StrictTotal(S, order)
    <2>1. \A x \in S : ~Less(x, x)
      BY <1>1, <1>4, RawLessIrreflexive
    <2>2. \A x, y, z \in S : Less(x, y) /\ Less(y, z) => Less(x, z)
      BY <1>1, <1>4, RawLessTransitive
    <2>3. \A x, y \in S : x # y => Less(x, y) \/ Less(y, x)
      BY <1>1, <1>4, RawLessTotal
    <2> HIDE DEF Less
    <2> QED BY <1>2, <2>1, <2>2, <2>3 DEF StrictTotal
  <1>6. Range(DeepestFirst(S)) = S /\ Pending(DeepestFirst(S), S, order)
    BY <1>1, <1>3, <1>5, SortByIs
  <1>7. ASSUME NEW x \in S, NEW y \in S, Below(x, y) PROVE <<x, y>> \in order
    <2>1. PathDepth(y) < PathDepth(x)
      BY <1>1, <1>7, BelowIsDeeper
    <2> QED BY <1>2, <1>4, <2>1
  <1> QED BY <1>5, <1>6, <1>7 DEF order

-----------------------------------------------------------------------------
(* The exported diff.                                                      *)

LEMMA UpperIs ==
  ASSUME NEW u, IsUpper(u)
  PROVE  /\ \A p \in Paths : u.nodes[p] = Nothing \/
              /\ u.nodes[p] = Node(u.nodes[p].k, u.nodes[p].v)
              /\ u.nodes[p].k \in {"dir", "file", "link", "whiteout"}
         /\ u.nodes[Root].k = "dir"
         /\ \A p \in Paths \ {Root} : u.nodes[p].k # "none" => u.nodes[Parent(p)].k = "dir"
         /\ \A p \in u.opaque : p \in Paths /\ u.nodes[p].k = "dir"
  BY DEF IsUpper, IsTree, WellFormed, IsDir

LEMMA ExportedIs ==
  ASSUME NEW u, IsUpper(u), NEW e \in ExportUpper(u)
  PROVE  /\ e = Entry(e.op, e.path, e.v) /\ e.path \in Paths
         /\ e.op \in {"OpaqueDirectory", "EnsureDirectory", "UpsertFile", "Symlink", "Remove"}
         /\ e.op = "OpaqueDirectory" => e.path \in u.opaque /\ e.v = "none"
         /\ e.op # "OpaqueDirectory" => e.path # Root
         /\ e.op = "EnsureDirectory" => u.nodes[e.path].k = "dir" /\ e.v = u.nodes[e.path].v
         /\ e.op = "UpsertFile" => u.nodes[e.path].k = "file" /\ e.v = u.nodes[e.path].v
         /\ e.op = "Symlink" => u.nodes[e.path].k = "link" /\ e.v = u.nodes[e.path].v
         /\ e.op = "Remove" => u.nodes[e.path].k = "whiteout" /\ e.v = "none"
  <1>1. CASE Root \in u.opaque /\ e = Entry("OpaqueDirectory", Root, "none")
    BY <1>1, PathAssumption DEF Entry
  <1>2. ASSUME NEW p \in Paths \ {Root}, e \in ExportEntry(u, p)
        PROVE  \/ p \in u.opaque /\ e = Entry("OpaqueDirectory", p, "none")
               \/ u.nodes[p].k = "dir" /\ e = Entry("EnsureDirectory", p, u.nodes[p].v)
               \/ u.nodes[p].k = "file" /\ e = Entry("UpsertFile", p, u.nodes[p].v)
               \/ u.nodes[p].k = "link" /\ e = Entry("Symlink", p, u.nodes[p].v)
               \/ u.nodes[p].k = "whiteout" /\ e = Entry("Remove", p, "none")
    BY <1>2 DEF ExportEntry
  <1>3. ASSUME NEW p \in Paths \ {Root}, e \in ExportEntry(u, p)
        PROVE  /\ e = Entry(e.op, e.path, e.v) /\ e.path = p
               /\ \/ e.op = "OpaqueDirectory" /\ p \in u.opaque /\ e.v = "none"
                  \/ e.op = "EnsureDirectory" /\ u.nodes[p].k = "dir" /\ e.v = u.nodes[p].v
                  \/ e.op = "UpsertFile" /\ u.nodes[p].k = "file" /\ e.v = u.nodes[p].v
                  \/ e.op = "Symlink" /\ u.nodes[p].k = "link" /\ e.v = u.nodes[p].v
                  \/ e.op = "Remove" /\ u.nodes[p].k = "whiteout" /\ e.v = "none"
    BY <1>2, <1>3 DEF Entry
  <1>4. (Root \in u.opaque /\ e = Entry("OpaqueDirectory", Root, "none"))
        \/ \E p \in Paths \ {Root} : e \in ExportEntry(u, p)
    BY DEF ExportUpper
  <1>5. CASE \E p \in Paths \ {Root} : e \in ExportEntry(u, p)
    <2>1. PICK p \in Paths \ {Root} : e \in ExportEntry(u, p)
      BY <1>5
    <2> QED BY <1>3, <2>1
  <1> QED BY <1>1, <1>4, <1>5, Zenon

LEMMA Exports ==
  ASSUME NEW u, IsUpper(u), NEW p \in Paths
  PROVE  /\ p \in u.opaque => Entry("OpaqueDirectory", p, "none") \in ExportUpper(u)
         /\ p # Root => /\ u.nodes[p].k = "dir" =>
                             Entry("EnsureDirectory", p, u.nodes[p].v) \in ExportUpper(u)
                        /\ u.nodes[p].k = "file" => Entry("UpsertFile", p, u.nodes[p].v) \in ExportUpper(u)
                        /\ u.nodes[p].k = "link" => Entry("Symlink", p, u.nodes[p].v) \in ExportUpper(u)
                        /\ u.nodes[p].k = "whiteout" => Entry("Remove", p, "none") \in ExportUpper(u)
  <1>1. p \in u.opaque => u.nodes[p].k = "dir"
    BY UpperIs
  <1>2. ASSUME p # Root
        PROVE  /\ p \in u.opaque => Entry("OpaqueDirectory", p, "none") \in ExportEntry(u, p)
               /\ u.nodes[p].k = "dir" => Entry("EnsureDirectory", p, u.nodes[p].v) \in ExportEntry(u, p)
               /\ u.nodes[p].k = "file" => Entry("UpsertFile", p, u.nodes[p].v) \in ExportEntry(u, p)
               /\ u.nodes[p].k = "link" => Entry("Symlink", p, u.nodes[p].v) \in ExportEntry(u, p)
               /\ u.nodes[p].k = "whiteout" => Entry("Remove", p, "none") \in ExportEntry(u, p)
    BY <1>1 DEF ExportEntry
  <1>3. p # Root => \A e : e \in ExportEntry(u, p) => e \in ExportUpper(u)
    BY DEF ExportUpper
  <1>4. p = Root /\ p \in u.opaque => Entry("OpaqueDirectory", p, "none") \in ExportUpper(u)
    BY DEF ExportUpper
  <1> QED BY <1>2, <1>3, <1>4

(* One entry for a path, or a directory and that it is opaque.             *)
LEMMA EntriesOfPath ==
  ASSUME NEW u, IsUpper(u), NEW d \in ExportUpper(u), NEW e \in ExportUpper(u),
         d.path = e.path, d # e
  PROVE  \/ d.op = "EnsureDirectory" /\ e.op = "OpaqueDirectory"
         \/ d.op = "OpaqueDirectory" /\ e.op = "EnsureDirectory"
  <1>1. /\ d = Entry(d.op, d.path, d.v) /\ e = Entry(e.op, e.path, e.v)
        /\ d.op \in {"OpaqueDirectory", "EnsureDirectory", "UpsertFile", "Symlink", "Remove"}
        /\ e.op \in {"OpaqueDirectory", "EnsureDirectory", "UpsertFile", "Symlink", "Remove"}
    BY ExportedIs
  <1>2. d.op = e.op => d.v = e.v
    BY ExportedIs
  <1>3. d.op # e.op
    BY <1>1, <1>2
  <1>4. d.op = "OpaqueDirectory" => u.nodes[d.path].k = "dir"
    BY ExportedIs, UpperIs
  <1>5. e.op = "OpaqueDirectory" => u.nodes[d.path].k = "dir"
    BY ExportedIs, UpperIs
  <1>6. /\ d.op = "EnsureDirectory" => u.nodes[d.path].k = "dir"
        /\ d.op = "UpsertFile" => u.nodes[d.path].k = "file"
        /\ d.op = "Symlink" => u.nodes[d.path].k = "link"
        /\ d.op = "Remove" => u.nodes[d.path].k = "whiteout"
    BY ExportedIs
  <1>7. /\ e.op = "EnsureDirectory" => u.nodes[d.path].k = "dir"
        /\ e.op = "UpsertFile" => u.nodes[d.path].k = "file"
        /\ e.op = "Symlink" => u.nodes[d.path].k = "link"
        /\ e.op = "Remove" => u.nodes[d.path].k = "whiteout"
    BY ExportedIs
  <1> QED BY <1>1, <1>3, <1>4, <1>5, <1>6, <1>7

LEMMA ExportIsFinite ==
  ASSUME NEW u, IsUpper(u)
  PROVE  IsFiniteSet(ExportUpper(u))
  <1> DEFINE O == {e \in ExportUpper(u) : e.op = "OpaqueDirectory"}
             N == {e \in ExportUpper(u) : e.op # "OpaqueDirectory"}
             f == [e \in O |-> e.path]
             g == [e \in N |-> e.path]
  <1>1. f \in Injection(O, Paths)
    BY ExportedIs, EntriesOfPath DEF Injection, IsInjective
  <1>2. g \in Injection(N, Paths)
    BY ExportedIs, EntriesOfPath DEF Injection, IsInjective
  <1>3. O \cup N = ExportUpper(u)
    OBVIOUS
  <1> HIDE DEF O, N, f, g
  <1>4. IsFiniteSet(O) /\ IsFiniteSet(N)
    BY <1>1, <1>2, FS_Injection, PathAssumption
  <1>5. IsFiniteSet(O \cup N)
    BY <1>4, FS_Union
  <1> QED BY <1>3, <1>5

LEMMA EntryOrderIs ==
  ASSUME NEW u, IsUpper(u)
  PROVE  /\ StrictTotal(ExportUpper(u), EntryOrder(u))
         /\ Pending(Snapshot(u), ExportUpper(u), EntryOrder(u)) /\ Range(Snapshot(u)) = ExportUpper(u)
         /\ \A d, e \in ExportUpper(u) : <<d, e>> \in EntryOrder(u) <=> EntryLess(d, e)
  <1> DEFINE S == ExportUpper(u)
             order == EntryOrder(u)
  <1>1. IsFiniteSet(S) /\ \A e \in S : e.path \in Seq(Nat)
    BY ExportIsFinite, ExportedIs, PathsAreBytes
  <1>2. \A x, y : <<x, y>> \in order <=> x \in S /\ y \in S /\ EntryLess(x, y)
    BY DEF EntryOrder
  <1>3. Snapshot(u) = SortBy(S, order)
    <2>1. {SortBy(T, {e \in T \X T : EntryLess(e[1], e[2])}) : T \in {S}} = {SortBy(S, order)}
      BY DEF EntryOrder
    <2> QED BY <2>1 DEF Snapshot
  <1>4. \A e \in S : EntryRank(e) \in Nat /\ (e.op = "EnsureDirectory" => EntryRank(e) = 0)
                     /\ (e.op = "OpaqueDirectory" => EntryRank(e) = 1)
    BY ExportedIs DEF EntryRank
  <1>5. \A d, e \in S : d.path = e.path /\ d # e => EntryRank(d) < EntryRank(e) \/ EntryRank(e) < EntryRank(d)
    BY <1>4, EntriesOfPath
  <1> HIDE DEF order, S
  <1>6. StrictTotal(S, order)
    <2>1. \A x \in S : ~EntryLess(x, x)
      BY <1>1, <1>4, RawLessIrreflexive DEF EntryLess
    <2>2. \A x, y, z \in S : EntryLess(x, y) /\ EntryLess(y, z) => EntryLess(x, z)
      BY <1>1, <1>4, RawLessTransitive DEF EntryLess
    <2>3. \A x, y \in S : x # y => EntryLess(x, y) \/ EntryLess(y, x)
      BY <1>1, <1>5, RawLessTotal DEF EntryLess
    <2> QED BY <1>2, <2>1, <2>2, <2>3 DEF StrictTotal
  <1>7. Range(Snapshot(u)) = S /\ Pending(Snapshot(u), S, order)
    BY <1>1, <1>3, <1>6, SortByIs
  <1> QED BY <1>2, <1>6, <1>7 DEF order, S

(* What the exporter sorted is canonical: SharedCowDiff::snapshot of any   *)
(* upper directory passes validate_diff.                                   *)
THEOREM SnapshotIsValid ==
  ASSUME NEW u, IsUpper(u)
  PROVE  ValidateDiff(Snapshot(u))
  <1> DEFINE s == Snapshot(u)
  <1>1. /\ s \in Seq(ExportUpper(u)) /\ DOMAIN s = 1..Len(s) /\ Len(s) \in Nat
        /\ \A i, j \in 1..Len(s) : i < j => <<s[i], s[j]>> \in EntryOrder(u)
    BY EntryOrderIs DEF Pending
  <1>2. \A i \in 1..Len(s) : s[i] \in ExportUpper(u)
    BY <1>1
  <1> HIDE DEF s
  <1>3. ASSUME NEW k \in 1..Len(s) PROVE s[k].path = Root => s[k].op = "OpaqueDirectory"
    BY <1>2, ExportedIs
  <1>4. ASSUME NEW k \in 1..Len(s), k > 1
        PROVE  \/ RawLess(s[k - 1].path, s[k].path)
               \/ s[k - 1].path = s[k].path /\ s[k - 1].op = "EnsureDirectory" /\ s[k].op = "OpaqueDirectory"
    <2>1. k - 1 \in 1..Len(s) /\ k - 1 < k
      BY <1>1, <1>4
    <2> DEFINE d == s[k - 1]
               e == s[k]
    <2>2. d \in ExportUpper(u) /\ e \in ExportUpper(u) /\ <<d, e>> \in EntryOrder(u)
      BY <1>1, <1>2, <2>1
    <2> HIDE DEF d, e
    <2>3. EntryLess(d, e) /\ d # e
      BY <2>2, EntryOrderIs DEF StrictTotal
    <2>4. CASE RawLess(d.path, e.path)
      BY <2>4 DEF d, e
    <2>5. CASE d.path = e.path /\ EntryRank(d) < EntryRank(e)
      <3>1. ~(d.op = "OpaqueDirectory" /\ e.op = "EnsureDirectory")
        BY <2>5 DEF EntryRank
      <3>2. d.op = "EnsureDirectory" /\ e.op = "OpaqueDirectory"
        BY <2>2, <2>3, <2>5, <3>1, EntriesOfPath
      <3> QED BY <2>5, <3>2 DEF d, e
    <2> QED BY <2>3, <2>4, <2>5 DEF EntryLess
  <1>5. ValidateDiff(s)
    BY <1>1, <1>3, <1>4 DEF ValidateDiff
  <1> QED BY <1>5 DEF s

-----------------------------------------------------------------------------
(* A staging tree, its modes, and what the two describe.                   *)

Kinds == {"dir", "file", "link"}

(* As Materialized.                                                        *)
Seen(tree, modes) ==
  [x \in Paths |-> IF x \in DOMAIN modes THEN Dir(modes[x]) ELSE tree[x]]

(* Its directories are those with a mode, and open until it is restored.   *)
Tidy(tree, modes) ==
  /\ tree = [x \in Paths |-> tree[x]] /\ DOMAIN modes \subseteq Paths
  /\ tree[Root] = Dir("open")
  /\ \A x \in DOMAIN modes : tree[x] = Dir("open")
  /\ \A x \in Paths \ {Root} : x \notin DOMAIN modes => tree[x] = Nothing \/ tree[x].k \notin {"none", "dir"}

(* The same as a tree of its own, with every directory's mode kept.        *)
Staging(tree, modes) == Tidy(tree, modes) /\ Root \in DOMAIN modes /\ WellFormed(tree)

LEMMA SeenKinds ==
  ASSUME NEW tree, NEW modes, Tidy(tree, modes), Root \in DOMAIN modes
  PROVE  /\ \A x \in Paths : Seen(tree, modes)[x].k = tree[x].k /\ (IsDir(tree, x) <=> x \in DOMAIN modes)
         /\ WellFormed(Seen(tree, modes)) <=> WellFormed(tree)
  <1>1. ASSUME NEW x \in Paths
        PROVE  Seen(tree, modes)[x].k = tree[x].k /\ (IsDir(tree, x) <=> x \in DOMAIN modes)
    BY DEF Seen, Tidy, Dir, Nothing, Node, IsDir
  <1> QED BY <1>1, PathAssumption DEF WellFormed, IsDir

LEMMA ResolvesIs ==
  ASSUME NEW tree, WellFormed(tree), NEW x \in Paths, IsDir(tree, x)
  PROVE  Resolves(tree, x)
  <1>1. tree[x].k # "none"
    BY DEF IsDir
  <1> QED BY <1>1, AboveIsDir DEF Resolves, Ancestors

LEMMA NotBelow ==
  ASSUME NEW p \in Paths
  PROVE  ~Below(Root, p) /\ ~Below(p, p)
  <1>1. Len(p) \in Nat /\ Len(Root) = 0
    BY PathsAreBytes DEF Root
  <1> QED BY <1>1 DEF Below

LEMMA StaysBelow ==
  ASSUME NEW p \in Paths, NEW q \in Paths, q # Root
  PROVE  /\ Parent(q) \in Paths
         /\ Parent(q) = p \/ Below(Parent(q), p) => Below(q, p)
  <1>1. p \in Seq(Nat) /\ q \in Seq(Nat) /\ Parent(q) \in Paths /\ Parent(q) \in Seq(Nat)
    BY PathsAreBytes
  <1>2. Below(q, Parent(q))
    BY <1>1, BelowParent
  <1> QED BY <1>1, <1>2, BelowTransitive

(* A directory is made, or is there already.                               *)
LEMMA EditDir ==
  ASSUME NEW tree, NEW modes, Staging(tree, modes), NEW p \in Paths, p # Root,
         IsDir(tree, Parent(p)), NEW v, NEW tree2, NEW modes2,
         tree2 = [x \in Paths |-> IF x = p THEN Dir("open") ELSE tree[x]],
         modes2 = SetMode(modes, p, v)
  PROVE  /\ Staging(tree2, modes2)
         /\ Seen(tree2, modes2) = [x \in Paths |-> IF x = p THEN Dir(v) ELSE Seen(tree, modes)[x]]
  <1>1. /\ DOMAIN modes2 = DOMAIN modes \cup {p} /\ modes2[p] = v
        /\ \A x \in DOMAIN modes : x # p => modes2[x] = modes[x]
    BY DEF SetMode
  <1>2. tree2[p] = Dir("open") /\ \A x \in Paths : x # p => tree2[x] = tree[x]
    OBVIOUS
  <1>3. Tidy(tree2, modes2) /\ Root \in DOMAIN modes2
    BY <1>1, <1>2 DEF Staging, Tidy
  <1>4. WellFormed(tree2)
    <2>1. IsDir(tree2, p) /\ \A x \in Paths : IsDir(tree, x) => IsDir(tree2, x)
      BY <1>2 DEF IsDir, Dir, Node
    <2> QED BY <1>2, <2>1, PathAssumption DEF WellFormed, Staging
  <1>5. Seen(tree2, modes2) = [x \in Paths |-> IF x = p THEN Dir(v) ELSE Seen(tree, modes)[x]]
    BY <1>1, <1>2 DEF Seen
  <1> QED BY <1>3, <1>4, <1>5 DEF Staging

(* What is below a path is removed, and the path itself set to something   *)
(* that is no directory when top says so.                                  *)
LEMMA EditCut ==
  ASSUME NEW tree, NEW modes, Staging(tree, modes), NEW p \in Paths, NEW top \in BOOLEAN,
         NEW n, n = Nothing \/ (n.k \notin {"none", "dir"} /\ IsDir(tree, Parent(p))),
         top => p # Root, NEW tree2, NEW modes2,
         tree2 = [x \in Paths |-> IF x = p /\ top THEN n ELSE IF Below(x, p) THEN Nothing ELSE tree[x]],
         modes2 = Restrict(modes, {x \in DOMAIN modes : ~(x = p /\ top) /\ ~Below(x, p)})
  PROVE  /\ Staging(tree2, modes2)
         /\ Seen(tree2, modes2) =
              [x \in Paths |-> IF x = p /\ top THEN n ELSE IF Below(x, p) THEN Nothing
                               ELSE Seen(tree, modes)[x]]
  <1>1. /\ \A x : x \in DOMAIN modes2 <=> x \in DOMAIN modes /\ ~(x = p /\ top) /\ ~Below(x, p)
        /\ \A x \in DOMAIN modes2 : modes2[x] = modes[x]
    BY DEF Restrict
  <1>2. ~Below(Root, p) /\ ~Below(p, p) /\ ~(Root = p /\ top)
    BY NotBelow
  <1>3. /\ top => tree2[p] = n
        /\ \A x \in Paths : ~(x = p /\ top) => tree2[x] = IF Below(x, p) THEN Nothing ELSE tree[x]
    OBVIOUS
  <1>4. Root \in Paths
    BY PathAssumption
  <1>5. Tidy(tree2, modes2) /\ Root \in DOMAIN modes2
    <2>1. Root \in DOMAIN modes2 /\ tree2[Root] = Dir("open")
      BY <1>1, <1>2, <1>3, <1>4 DEF Staging, Tidy
    <2>2. \A x \in DOMAIN modes2 : x \in Paths /\ tree2[x] = Dir("open")
      BY <1>1, <1>3 DEF Staging, Tidy
    <2>3. ASSUME NEW x \in Paths \ {Root}, x \notin DOMAIN modes2
          PROVE  tree2[x] = Nothing \/ tree2[x].k \notin {"none", "dir"}
      <3>1. CASE x = p /\ top
        BY <1>3, <3>1
      <3>2. CASE ~(x = p /\ top) /\ Below(x, p)
        BY <1>3, <3>2
      <3>3. CASE ~(x = p /\ top) /\ ~Below(x, p)
        BY <1>1, <1>3, <2>3, <3>3 DEF Staging, Tidy
      <3> QED BY <3>1, <3>2, <3>3
    <2>4. tree2 = [x \in Paths |-> tree2[x]]
      OBVIOUS
    <2> QED BY <2>1, <2>2, <2>3, <2>4 DEF Tidy
  <1>6. WellFormed(tree2)
    <2>1. IsDir(tree2, Root)
      BY <1>5 DEF Tidy, IsDir, Dir, Node
    <2>2. ASSUME NEW q \in Paths \ {Root}, tree2[q].k # "none" PROVE IsDir(tree2, Parent(q))
      <3>1. Parent(q) \in Paths /\ (Parent(q) = p \/ Below(Parent(q), p) => Below(q, p))
        BY StaysBelow
      <3>2. ~Below(q, p)
        BY <1>2, <1>3, <2>2 DEF Nothing, Node
      <3>3. IsDir(tree, Parent(q))
        <4>1. CASE q = p /\ top
          <5>1. n.k # "none"
            BY <1>3, <2>2, <4>1
          <5> QED BY <4>1, <5>1 DEF Nothing, Node
        <4>2. CASE ~(q = p /\ top)
          BY <1>3, <2>2, <3>2, <4>2 DEF Staging, WellFormed
        <4> QED BY <4>1, <4>2
      <3>4. tree2[Parent(q)] = tree[Parent(q)]
        BY <1>3, <3>1, <3>2
      <3> QED BY <3>3, <3>4 DEF IsDir
    <2> QED BY <2>1, <2>2 DEF WellFormed
  <1>7. ASSUME NEW x \in Paths
        PROVE  (IF x \in DOMAIN modes2 THEN Dir(modes2[x]) ELSE tree2[x]) =
                 IF x = p /\ top THEN n ELSE IF Below(x, p) THEN Nothing ELSE Seen(tree, modes)[x]
    <2>1. CASE (x = p /\ top) \/ Below(x, p)
      BY <1>1, <1>3, <2>1
    <2>2. CASE ~(x = p /\ top) /\ ~Below(x, p)
      BY <1>1, <1>3, <2>2 DEF Seen
    <2> QED BY <2>1, <2>2
  <1>8. Seen(tree2, modes2) =
              [x \in Paths |-> IF x = p /\ top THEN n ELSE IF Below(x, p) THEN Nothing
                               ELSE Seen(tree, modes)[x]]
    BY <1>7 DEF Seen
  <1> QED BY <1>5, <1>6, <1>8 DEF Staging

-----------------------------------------------------------------------------
(* A base over which some of the entries of an upper directory were        *)
(* replayed: an entry's own node, nothing below what hides the base, and   *)
(* the base elsewhere.                                                     *)
Owned(E, p)  == \E e \in E : e.path = p /\ e.op # "OpaqueDirectory"
Hidden(E, p) == \E e \in E : Below(p, e.path) /\ e.op # "EnsureDirectory"

UpperNode(u, p) == IF u.nodes[p].k = "whiteout" THEN Nothing ELSE u.nodes[p]

Partial(t, u, E) ==
  [p \in Paths |-> IF p = Root THEN t[Root] ELSE IF Owned(E, p) THEN UpperNode(u, p)
                   ELSE IF Hidden(E, p) THEN Nothing ELSE t[p]]

LEMMA NothingReplayed ==
  ASSUME NEW t, t = [p \in Paths |-> t[p]], NEW u
  PROVE  Partial(t, u, {}) = t
  BY DEF Partial, Owned, Hidden

LEMMA AllReplayed ==
  ASSUME NEW t, NEW u, IsUpper(u)
  PROVE  Partial(t, u, ExportUpper(u)) = Merged(t, u)
  <1> DEFINE E == ExportUpper(u)
  <1>1. ASSUME NEW p \in Paths, p # Root
        PROVE  Owned(E, p) <=> u.nodes[p].k # "none"
    <2>1. Owned(E, p) => u.nodes[p].k # "none"
      BY ExportedIs DEF Owned
    <2>2. u.nodes[p].k \in {"none", "dir", "file", "link", "whiteout"}
      <3>1. u.nodes[p] = Nothing \/ u.nodes[p].k \in {"dir", "file", "link", "whiteout"}
        BY UpperIs
      <3>2. Nothing.k = "none"
        BY DEF Nothing, Node
      <3> QED BY <3>1, <3>2
    <2>3. \A v : /\ Entry("EnsureDirectory", p, v).path = p /\ Entry("EnsureDirectory", p, v).op = "EnsureDirectory"
                 /\ Entry("UpsertFile", p, v).path = p /\ Entry("UpsertFile", p, v).op = "UpsertFile"
                 /\ Entry("Symlink", p, v).path = p /\ Entry("Symlink", p, v).op = "Symlink"
                 /\ Entry("Remove", p, v).path = p /\ Entry("Remove", p, v).op = "Remove"
      BY DEF Entry
    <2>4. ASSUME u.nodes[p].k # "none" PROVE Owned(E, p)
      <3>1. CASE u.nodes[p].k = "dir"
        BY <1>1, <2>3, <3>1, Exports DEF Owned
      <3>2. CASE u.nodes[p].k = "file"
        BY <1>1, <2>3, <3>2, Exports DEF Owned
      <3>3. CASE u.nodes[p].k = "link"
        BY <1>1, <2>3, <3>3, Exports DEF Owned
      <3>4. CASE u.nodes[p].k = "whiteout"
        BY <1>1, <2>3, <3>4, Exports DEF Owned
      <3> QED BY <2>2, <2>4, <3>1, <3>2, <3>3, <3>4
    <2> QED BY <2>1, <2>4
  <1>2. ASSUME NEW p \in Paths
        PROVE  Hidden(E, p) <=> \E q \in Ancestors(p) : q \in u.opaque \/ u.nodes[q].k \notin {"none", "dir"}
    <2>1. ASSUME NEW e \in E, Below(p, e.path), e.op # "EnsureDirectory"
          PROVE  e.path \in Ancestors(p) /\ (e.path \in u.opaque \/ u.nodes[e.path].k \notin {"none", "dir"})
      BY <2>1, ExportedIs DEF Ancestors
    <2>2. ASSUME NEW q \in Ancestors(p), q \in u.opaque
          PROVE  \E e \in E : Below(p, e.path) /\ e.op # "EnsureDirectory"
      <3> DEFINE e == Entry("OpaqueDirectory", q, "none")
      <3>1. e \in E
        BY <2>2, Exports DEF Ancestors
      <3>2. e.path = q /\ e.op = "OpaqueDirectory"
        BY DEF Entry
      <3> HIDE DEF e
      <3> QED BY <3>1, <3>2 DEF Ancestors
    <2>3. ASSUME NEW q \in Ancestors(p), u.nodes[q].k \notin {"none", "dir"}
          PROVE  \E e \in E : Below(p, e.path) /\ e.op # "EnsureDirectory"
      <3>1. q \in Paths /\ q # Root /\ Below(p, q)
        BY <2>3, UpperIs DEF Ancestors
      <3>2. PICK e \in E : e.path = q /\ e.op # "OpaqueDirectory"
        BY <1>1, <2>3, <3>1 DEF Owned
      <3>3. e.op # "EnsureDirectory"
        BY <2>3, <3>2, ExportedIs
      <3> QED BY <3>1, <3>2, <3>3
    <2> QED BY <2>1, <2>2, <2>3 DEF Hidden
  <1> HIDE DEF E
  <1>3. ASSUME NEW p \in Paths
        PROVE  Partial(t, u, E)[p] = Merged(t, u)[p]
    <2>1. CASE p = Root
      BY <2>1 DEF Partial, Merged
    <2>2. CASE p # Root /\ Owned(E, p)
      BY <1>1, <2>2 DEF Partial, Merged, UpperNode
    <2>3. CASE p # Root /\ ~Owned(E, p)
      <3>1. u.nodes[p].k = "none"
        BY <1>1, <2>3
      <3>2. Merged(t, u)[p] = IF \E q \in Ancestors(p) : q \in u.opaque \/ u.nodes[q].k \notin {"none", "dir"}
                              THEN Nothing ELSE t[p]
        BY <2>3, <3>1 DEF Merged
      <3>3. Partial(t, u, E)[p] = IF Hidden(E, p) THEN Nothing ELSE t[p]
        BY <2>3 DEF Partial
      <3> QED BY <1>2, <3>2, <3>3
    <2> QED BY <2>1, <2>2, <2>3
  <1>4. Partial(t, u, E) = [p \in Paths |-> Partial(t, u, E)[p]]
    BY DEF Partial
  <1>5. Merged(t, u) = [p \in Paths |-> Merged(t, u)[p]]
    BY DEF Merged
  <1>6. Partial(t, u, E) = Merged(t, u)
    BY <1>3, <1>4, <1>5
  <1> QED BY <1>6 DEF E

(* The next entry of a diff, in its order.                                 *)
Replaying(todo, u) == Pending(todo, ExportUpper(u), EntryOrder(u)) /\ todo # <<>>

Replayed(todo, u) == ExportUpper(u) \ Range(todo)

LEMMA NextEntry ==
  ASSUME NEW u, IsUpper(u), NEW todo, Replaying(todo, u)
  PROVE  /\ Head(todo) \in ExportUpper(u) /\ Pending(Tail(todo), ExportUpper(u), EntryOrder(u))
         /\ Replayed(Tail(todo), u) = Replayed(todo, u) \cup {Head(todo)}
         /\ \A d \in ExportUpper(u) : EntryLess(d, Head(todo)) => d \in Replayed(todo, u)
         /\ \A d \in Replayed(todo, u) : ~Below(d.path, Head(todo).path) /\ d # Head(todo)
  <1> DEFINE h == Head(todo)
  <1>1. /\ StrictTotal(ExportUpper(u), EntryOrder(u))
        /\ \A d, e \in ExportUpper(u) : <<d, e>> \in EntryOrder(u) <=> EntryLess(d, e)
    BY EntryOrderIs
  <1>2. /\ h \in ExportUpper(u) /\ h \notin Range(Tail(todo)) /\ h \in Range(todo)
        /\ Range(Tail(todo)) = Range(todo) \ {h}
        /\ Pending(Tail(todo), ExportUpper(u), EntryOrder(u))
        /\ \A x \in ExportUpper(u) : x \notin Range(todo) => <<x, h>> \in EntryOrder(u)
        /\ \A x \in Range(Tail(todo)) : x \in ExportUpper(u) /\ <<h, x>> \in EntryOrder(u)
    BY <1>1, PendingTail DEF Replaying
  <1> HIDE DEF h
  <1>3. Replayed(Tail(todo), u) = Replayed(todo, u) \cup {h}
    BY <1>2 DEF Replayed
  <1>4. ASSUME NEW d \in ExportUpper(u), EntryLess(d, h) PROVE d \in Replayed(todo, u)
    <2> SUFFICES ASSUME d \in Range(todo) PROVE FALSE
      BY DEF Replayed
    <2>1. <<d, h>> \in EntryOrder(u)
      BY <1>1, <1>2, <1>4
    <2>2. d # h
      BY <1>1, <1>2, <2>1 DEF StrictTotal
    <2>3. <<h, d>> \in EntryOrder(u)
      BY <1>2, <2>2
    <2> QED BY <1>1, <1>2, <2>1, <2>3 DEF StrictTotal
  <1>5. ASSUME NEW d \in Replayed(todo, u) PROVE ~Below(d.path, h.path) /\ d # h
    <2>1. d \in ExportUpper(u) /\ EntryLess(d, h)
      BY <1>1, <1>2 DEF Replayed
    <2>2. d.path \in Seq(Nat) /\ h.path \in Seq(Nat) /\ h.path \in Paths
      BY <1>2, <2>1, ExportedIs, PathsAreBytes
    <2>3. d # h
      BY <1>2 DEF Replayed
    <2>4. ASSUME Below(d.path, h.path) PROVE FALSE
      <3>1. RawLess(h.path, d.path)
        BY <2>2, <2>4, BelowIsLater
      <3>2. d.path # h.path
        BY <2>2, <2>4, NotBelow
      <3>3. RawLess(d.path, h.path)
        BY <2>1, <3>2 DEF EntryLess
      <3> QED BY <2>2, <3>1, <3>3, RawLessTransitive, RawLessIrreflexive
    <2> QED BY <2>3, <2>4
  <1> QED BY <1>2, <1>3, <1>4, <1>5 DEF h

(* Half a replay: the staging tree shows the entries that were replayed.   *)
Halfway(tree, modes, todo, t, u) ==
  /\ Staging(tree, modes) /\ Seen(tree, modes) = Partial(t, u, Replayed(todo, u))

(* Every directory an entry is resolved through exists by then.            *)
LEMMA EntryResolves ==
  ASSUME NEW u, IsUpper(u), NEW todo, Replaying(todo, u), NEW tree, NEW modes, NEW t,
         Halfway(tree, modes, todo, t, u)
  PROVE  /\ Head(todo).path \in Paths /\ OpenedBy(Head(todo)) \in Paths
         /\ IsDir(tree, OpenedBy(Head(todo))) /\ Resolves(tree, OpenedBy(Head(todo)))
  <1> DEFINE e == Head(todo)
             x == OpenedBy(e)
             E == Replayed(todo, u)
  <1>1. e \in ExportUpper(u) /\ \A d \in ExportUpper(u) : EntryLess(d, e) => d \in E
    BY NextEntry
  <1>2. e.path \in Paths /\ (e.op # "OpaqueDirectory" => e.path # Root)
    BY <1>1, ExportedIs
  <1> HIDE DEF e, E
  <1>3. x \in Paths
    BY <1>2, PathsAreBytes DEF OpenedBy
  <1>4. ASSUME x = Root PROVE IsDir(tree, x)
    BY <1>4 DEF Halfway, Staging, Tidy, IsDir, Dir, Node
  <1>5. ASSUME x # Root PROVE IsDir(tree, x)
    <2> DEFINE d == Entry("EnsureDirectory", x, u.nodes[x].v)
    <2>1. u.nodes[x].k = "dir"
      <3>1. CASE e.op = "OpaqueDirectory"
        <4>1. x = e.path /\ e.path \in u.opaque
          BY <1>1, <3>1, ExportedIs DEF OpenedBy
        <4> QED BY <4>1, UpperIs
      <3>2. CASE e.op # "OpaqueDirectory"
        <4>1. x = Parent(e.path) /\ u.nodes[e.path].k # "none"
          BY <1>1, <3>2, ExportedIs DEF OpenedBy
        <4> QED BY <1>2, <3>2, <4>1, UpperIs
      <3> QED BY <3>1, <3>2
    <2>2. d \in ExportUpper(u)
      BY <1>3, <1>5, <2>1, Exports
    <2>3. d.path = x /\ d.op = "EnsureDirectory"
      BY DEF Entry
    <2> HIDE DEF d
    <2>4. EntryLess(d, e)
      <3>1. CASE e.op = "OpaqueDirectory"
        <4>1. x = e.path
          BY <3>1 DEF OpenedBy
        <4>2. EntryRank(d) = 0 /\ EntryRank(e) = 1
          BY <2>3, <3>1 DEF EntryRank
        <4> QED BY <2>3, <4>1, <4>2 DEF EntryLess
      <3>2. CASE e.op # "OpaqueDirectory"
        <4>1. x = Parent(e.path) /\ e.path \in Seq(Nat) /\ x \in Seq(Nat) /\ e.path # Root
          BY <1>2, <1>3, <3>2, PathsAreBytes DEF OpenedBy
        <4>2. RawLess(x, e.path)
          BY <4>1, BelowParent, BelowIsLater
        <4> QED BY <2>3, <4>2 DEF EntryLess
      <3> QED BY <3>1, <3>2
    <2>5. Owned(E, x)
      BY <1>1, <2>2, <2>3, <2>4 DEF Owned
    <2>6. Seen(tree, modes)[x] = u.nodes[x]
      BY <1>3, <1>5, <2>1, <2>5 DEF Halfway, Partial, UpperNode, E
    <2>7. Seen(tree, modes)[x].k = tree[x].k
      BY <1>3, SeenKinds DEF Halfway, Staging
    <2> QED BY <2>1, <2>6, <2>7 DEF IsDir
  <1>6. IsDir(tree, x)
    BY <1>4, <1>5
  <1>7. Resolves(tree, x)
    BY <1>3, <1>6, ResolvesIs DEF Halfway, Staging
  <1> QED BY <1>2, <1>3, <1>6, <1>7 DEF e

(* What an entry does, by its kind.                                        *)
LEMMA EnsureDoes ==
  ASSUME NEW tree, NEW modes, Staging(tree, modes), NEW e, e.op = "EnsureDirectory",
         e.path \in Paths, e.path # Root
  PROVE  /\ ApplyEntry(tree, modes, e).tree = [x \in Paths |-> IF x = e.path THEN Dir("open") ELSE tree[x]]
         /\ ApplyEntry(tree, modes, e).modes = SetMode(modes, e.path, e.v)
  <1> DEFINE p == e.path
             a == ApplyEntry(tree, modes, e)
             new == [x \in Paths |-> IF x = p THEN Dir("open") ELSE tree[x]]
  <1>1. /\ a.tree = IF IsDir(tree, p) THEN tree ELSE PutNode(tree, p, Dir("open"))
        /\ a.modes = SetMode(modes, p, e.v)
    BY DEF ApplyEntry
  <1> HIDE DEF a
  <1>2. CASE IsDir(tree, p)
    <2>1. tree[p] = Dir("open") /\ tree = [x \in Paths |-> tree[x]]
      <3>1. p \in DOMAIN modes
        BY <1>2, SeenKinds DEF Staging
      <3> QED BY <3>1 DEF Staging, Tidy
    <2>2. tree = new
      BY <2>1
    <2> QED BY <1>1, <1>2, <2>2 DEF a
  <1>3. CASE ~IsDir(tree, p)
    <2>1. ASSUME NEW x \in Paths, Below(x, p) PROVE tree[x] = Nothing
      <3>1. tree[x].k = "none"
        BY <1>3, <2>1, AboveIsDir DEF Staging
      <3>2. x # Root
        BY <2>1, NotBelow
      <3>3. x \notin DOMAIN modes
        BY <3>1 DEF Staging, Tidy, Dir, Node
      <3> QED BY <3>1, <3>2, <3>3 DEF Staging, Tidy
    <2>2. PutNode(tree, p, Dir("open")) = new
      BY <2>1 DEF PutNode, RemoveAny
    <2> QED BY <1>1, <1>3, <2>2 DEF a
  <1> QED BY <1>2, <1>3

LEMMA CutDoes ==
  ASSUME NEW tree, NEW modes, NEW e, e.path \in Paths,
         e.op \in {"OpaqueDirectory", "UpsertFile", "Symlink", "Remove"}, NEW top, NEW n,
         top = (e.op # "OpaqueDirectory"),
         n = CASE e.op = "UpsertFile" -> Node("file", e.v)
               [] e.op = "Symlink" -> Node("link", e.v) [] OTHER -> Nothing
  PROVE  /\ ApplyEntry(tree, modes, e).tree =
              [x \in Paths |-> IF x = e.path /\ top THEN n ELSE IF Below(x, e.path) THEN Nothing ELSE tree[x]]
         /\ ApplyEntry(tree, modes, e).modes =
              Restrict(modes, {x \in DOMAIN modes : ~(x = e.path /\ top) /\ ~Below(x, e.path)})
  <1> DEFINE p == e.path
             a == ApplyEntry(tree, modes, e)
             new == [x \in Paths |-> IF x = p /\ top THEN n ELSE IF Below(x, p) THEN Nothing ELSE tree[x]]
             kept == {x \in DOMAIN modes : ~(x = p /\ top) /\ ~Below(x, p)}
  <1>0. ~Below(p, p)
    BY NotBelow
  <1>1. CASE e.op = "OpaqueDirectory"
    <2>1. a.tree = ClearDirectory(tree, p) /\ a.modes = RemoveModeDescendants(modes, p)
      BY <1>1 DEF ApplyEntry
    <2>2. top = FALSE
      BY <1>1
    <2>3. ClearDirectory(tree, p) = new
      BY <2>2 DEF ClearDirectory
    <2>4. {x \in DOMAIN modes : ~Below(x, p)} = kept
      BY <2>2
    <2>5. RemoveModeDescendants(modes, p) = Restrict(modes, kept)
      BY <2>4 DEF RemoveModeDescendants
    <2> QED BY <2>1, <2>3, <2>5
  <1>2. CASE e.op # "OpaqueDirectory"
    <2>1. top = TRUE
      BY <1>2
    <2>2. {x \in DOMAIN modes : x # p /\ ~Below(x, p)} = kept
      BY <2>1
    <2>3. RemoveModeSubtree(modes, p) = Restrict(modes, kept)
      BY <2>2 DEF RemoveModeSubtree
    <2>4. PutNode(tree, p, n) = new
      BY <2>1 DEF PutNode, RemoveAny
    <2>5. n = Nothing => RemoveAny(tree, p) = new
      BY <2>1 DEF RemoveAny
    <2>6. CASE e.op = "UpsertFile"
      <3>1. a.tree = PutNode(tree, p, n) /\ a.modes = RemoveModeSubtree(modes, p)
        BY <2>6 DEF ApplyEntry
      <3> QED BY <2>3, <2>4, <3>1
    <2>7. CASE e.op = "Symlink"
      <3>1. a.tree = PutNode(tree, p, n) /\ a.modes = RemoveModeSubtree(modes, p)
        BY <2>7 DEF ApplyEntry
      <3> QED BY <2>3, <2>4, <3>1
    <2>8. CASE e.op = "Remove"
      <3>1. a.tree = RemoveAny(tree, p) /\ a.modes = RemoveModeSubtree(modes, p) /\ n = Nothing
        BY <2>8 DEF ApplyEntry
      <3> QED BY <2>3, <2>5, <3>1
    <2> QED BY <1>2, <2>6, <2>7, <2>8
  <1> QED BY <1>1, <1>2

LEMMA OwnedNow ==
  ASSUME NEW E, NEW e, NEW p
  PROVE  /\ Owned(E \cup {e}, p) <=> Owned(E, p) \/ (e.path = p /\ e.op # "OpaqueDirectory")
         /\ Hidden(E \cup {e}, p) <=> Hidden(E, p) \/ (Below(p, e.path) /\ e.op # "EnsureDirectory")
  BY DEF Owned, Hidden

(* One more entry is replayed.                                             *)
LEMMA ReplaysEntry ==
  ASSUME NEW u, IsUpper(u), NEW todo, Replaying(todo, u), NEW tree, NEW modes, NEW t,
         Halfway(tree, modes, todo, t, u), NEW a, a = ApplyEntry(tree, modes, Head(todo))
  PROVE  Halfway(a.tree, a.modes, Tail(todo), t, u)
  <1> DEFINE e == Head(todo)
             p == e.path
             E == Replayed(todo, u)
             now == Seen(a.tree, a.modes)
  <1>1. /\ e \in ExportUpper(u) /\ Replayed(Tail(todo), u) = E \cup {e}
        /\ \A d \in E : ~Below(d.path, p) /\ d # e /\ d \in ExportUpper(u)
    BY NextEntry DEF Replayed
  <1>2. p \in Paths /\ IsDir(tree, OpenedBy(e))
    BY EntryResolves
  <1>3. /\ e.op \in {"OpaqueDirectory", "EnsureDirectory", "UpsertFile", "Symlink", "Remove"}
        /\ e.op # "OpaqueDirectory" => p # Root
        /\ e.op = "EnsureDirectory" => u.nodes[p].k = "dir" /\ e.v = u.nodes[p].v
        /\ e.op = "UpsertFile" => u.nodes[p].k = "file" /\ e.v = u.nodes[p].v
        /\ e.op = "Symlink" => u.nodes[p].k = "link" /\ e.v = u.nodes[p].v
        /\ e.op = "Remove" => u.nodes[p].k = "whiteout"
    BY <1>1, ExportedIs
  <1>4. u.nodes[p].k # "none" => u.nodes[p] = Node(u.nodes[p].k, u.nodes[p].v)
    <2>1. u.nodes[p] = Nothing \/ u.nodes[p] = Node(u.nodes[p].k, u.nodes[p].v)
      BY <1>2, UpperIs
    <2> QED BY <2>1 DEF Nothing, Node
  <1>5. e.op # "OpaqueDirectory" => IsDir(tree, Parent(p))
    BY <1>2 DEF OpenedBy
  <1>6. a = ApplyEntry(tree, modes, e)
    OBVIOUS
  <1>7. Staging(tree, modes) /\ Seen(tree, modes) = Partial(t, u, E)
    BY DEF Halfway
  <1> HIDE DEF e, E
  <1>8. ASSUME NEW x \in Paths, Below(x, p) PROVE x # Root /\ x # p /\ ~Owned(E, x)
    BY <1>1, <1>2, <1>8, NotBelow DEF Owned
  <1>9. CASE e.op = "EnsureDirectory"
    <2>1. /\ a.tree = [x \in Paths |-> IF x = p THEN Dir("open") ELSE tree[x]]
          /\ a.modes = SetMode(modes, p, e.v)
      BY <1>2, <1>3, <1>6, <1>7, <1>9, EnsureDoes
    <2>2. /\ Staging(a.tree, a.modes)
          /\ now = [x \in Paths |-> IF x = p THEN Dir(e.v) ELSE Seen(tree, modes)[x]]
      BY <1>2, <1>3, <1>5, <1>7, <1>9, <2>1, EditDir
    <2>3. Dir(e.v) = UpperNode(u, p)
      BY <1>3, <1>4, <1>9 DEF UpperNode, Dir
    <2>4. ASSUME NEW x \in Paths PROVE now[x] = Partial(t, u, E \cup {e})[x]
      <3>1. now[x] = IF x = p THEN UpperNode(u, p) ELSE Partial(t, u, E)[x]
        BY <1>7, <2>2, <2>3
      <3>2. /\ Owned(E \cup {e}, x) <=> Owned(E, x) \/ p = x
            /\ Hidden(E \cup {e}, x) <=> Hidden(E, x)
        BY <1>9, OwnedNow
      <3> HIDE DEF now
      <3> QED BY <1>3, <1>9, <3>1, <3>2 DEF Partial
    <2>5. now = Partial(t, u, E \cup {e})
      <3>1. Partial(t, u, E \cup {e}) = [x \in Paths |-> Partial(t, u, E \cup {e})[x]]
        BY DEF Partial
      <3>2. now = [x \in Paths |-> now[x]]
        BY DEF Seen
      <3> QED BY <2>4, <3>1, <3>2
    <2> QED BY <1>1, <2>2, <2>5 DEF Halfway
  <1>10. CASE e.op # "EnsureDirectory"
    <2> DEFINE top == (e.op # "OpaqueDirectory")
               n == CASE e.op = "UpsertFile" -> Node("file", e.v)
                      [] e.op = "Symlink" -> Node("link", e.v) [] OTHER -> Nothing
    <2>1. /\ a.tree =
               [x \in Paths |-> IF x = p /\ top THEN n ELSE IF Below(x, p) THEN Nothing ELSE tree[x]]
          /\ a.modes = Restrict(modes, {x \in DOMAIN modes : ~(x = p /\ top) /\ ~Below(x, p)})
      <3>1. e.op \in {"OpaqueDirectory", "UpsertFile", "Symlink", "Remove"}
        BY <1>3, <1>10
      <3> HIDE DEF top, n
      <3>2. top = (e.op # "OpaqueDirectory")
        BY DEF top
      <3>3. n = CASE e.op = "UpsertFile" -> Node("file", e.v)
                  [] e.op = "Symlink" -> Node("link", e.v) [] OTHER -> Nothing
        BY DEF n
      <3> QED BY <1>2, <1>6, <3>1, <3>2, <3>3, CutDoes
    <2>2. n = Nothing \/ (n.k \notin {"none", "dir"} /\ IsDir(tree, Parent(p)))
      BY <1>5 DEF Node
    <2>3. top => n = UpperNode(u, p)
      BY <1>3, <1>4, <1>10 DEF UpperNode
    <2>4. top \in BOOLEAN /\ (top => p # Root) /\ (top <=> e.op # "OpaqueDirectory")
      BY <1>3
    <2> HIDE DEF top, n
    <2>5. /\ Staging(a.tree, a.modes)
          /\ now = [x \in Paths |-> IF x = p /\ top THEN n ELSE IF Below(x, p) THEN Nothing
                                    ELSE Seen(tree, modes)[x]]
      <3> DEFINE tree2 == a.tree
                 modes2 == a.modes
      <3>1. p \in Paths /\ Staging(tree, modes) /\ top \in BOOLEAN /\ (top => p # Root)
        BY <1>2, <1>7, <2>4
      <3>2. /\ tree2 =
                 [x \in Paths |-> IF x = p /\ top THEN n ELSE IF Below(x, p) THEN Nothing ELSE tree[x]]
            /\ modes2 = Restrict(modes, {x \in DOMAIN modes : ~(x = p /\ top) /\ ~Below(x, p)})
        BY <2>1
      <3> HIDE DEF p, tree2, modes2
      <3>3. /\ Staging(tree2, modes2)
            /\ Seen(tree2, modes2) =
                 [x \in Paths |-> IF x = p /\ top THEN n ELSE IF Below(x, p) THEN Nothing
                                  ELSE Seen(tree, modes)[x]]
        BY <2>2, <3>1, <3>2, EditCut
      <3> QED BY <3>3 DEF tree2, modes2
    <2>6. ASSUME NEW x \in Paths PROVE now[x] = Partial(t, u, E \cup {e})[x]
      <3>1. now[x] = IF x = p /\ top THEN UpperNode(u, p) ELSE IF Below(x, p) THEN Nothing
                     ELSE Partial(t, u, E)[x]
        BY <1>7, <2>3, <2>5
      <3>2. /\ Owned(E \cup {e}, x) <=> Owned(E, x) \/ (p = x /\ top)
            /\ Hidden(E \cup {e}, x) <=> Hidden(E, x) \/ Below(x, p)
        BY <1>10, <2>4, OwnedNow
      <3> HIDE DEF now
      <3>3. CASE x = p /\ top
        BY <2>4, <3>1, <3>2, <3>3 DEF Partial
      <3>4. CASE ~(x = p /\ top) /\ Below(x, p)
        BY <1>8, <3>1, <3>2, <3>4 DEF Partial
      <3>5. CASE ~(x = p /\ top) /\ ~Below(x, p)
        BY <3>1, <3>2, <3>5 DEF Partial
      <3> QED BY <3>3, <3>4, <3>5
    <2>7. now = Partial(t, u, E \cup {e})
      <3>1. Partial(t, u, E \cup {e}) = [x \in Paths |-> Partial(t, u, E \cup {e})[x]]
        BY DEF Partial
      <3>2. now = [x \in Paths |-> now[x]]
        BY DEF Seen
      <3> QED BY <2>6, <3>1, <3>2
    <2> QED BY <1>1, <2>5, <2>7 DEF Halfway
  <1> QED BY <1>9, <1>10

-----------------------------------------------------------------------------
(* Walking a tree from its root: what waits, and what is done.             *)

Distinct(s) == \A i, j \in 1..Len(s) : i # j => s[i] # s[j]

LEMMA RangeOfTail ==
  ASSUME NEW S, NEW s \in Seq(S), s # <<>>
  PROVE  /\ Head(s) \in S /\ Tail(s) \in Seq(S) /\ Range(s) = {Head(s)} \cup Range(Tail(s))
         /\ Distinct(s) => Distinct(Tail(s)) /\ Head(s) \notin Range(Tail(s))
  <1> DEFINE h == Head(s)
             t == Tail(s)
  <1>1. /\ Len(s) \in Nat /\ Len(s) > 0 /\ h = s[1] /\ h \in S
        /\ t \in Seq(S) /\ Len(t) = Len(s) - 1 /\ DOMAIN s = 1..Len(s) /\ DOMAIN t = 1..Len(t)
        /\ \A i \in 1..Len(t) : t[i] = s[i + 1]
    OBVIOUS
  <1> HIDE DEF h, t
  <1>2. \A i \in 1..Len(t) : i + 1 \in 1..Len(s) /\ i + 1 # 1
    BY <1>1
  <1>3. Range(s) \subseteq {h} \cup Range(t)
    <2>1. ASSUME NEW i \in 1..Len(s), i # 1 PROVE \E j \in 1..Len(t) : t[j] = s[i]
      <3>1. i - 1 \in 1..Len(t) /\ (i - 1) + 1 = i
        BY <1>1, <2>1
      <3> QED BY <1>1, <3>1
    <2>2. ASSUME NEW i \in 1..Len(s) PROVE s[i] \in {h} \cup Range(t)
      BY <1>1, <2>1 DEF Range
    <2> QED BY <1>1, <2>2 DEF Range
  <1>4. {h} \cup Range(t) \subseteq Range(s)
    <2>1. 1 \in 1..Len(s)
      BY <1>1
    <2> QED BY <1>1, <1>2, <2>1 DEF Range
  <1>5. ASSUME Distinct(s) PROVE Distinct(t) /\ h \notin Range(t)
    <2>1. Distinct(t)
      <3> SUFFICES ASSUME NEW i \in 1..Len(t), NEW j \in 1..Len(t), i # j PROVE t[i] # t[j]
        BY DEF Distinct
      <3>1. i + 1 \in 1..Len(s) /\ j + 1 \in 1..Len(s) /\ i + 1 # j + 1
        BY <1>2
      <3> QED BY <1>1, <1>5, <3>1 DEF Distinct
    <2>2. h \notin Range(t)
      <3>1. 1 \in 1..Len(s)
        BY <1>1
      <3> QED BY <1>1, <1>2, <1>5, <3>1 DEF Distinct, Range
    <2> QED BY <2>1, <2>2
  <1> QED BY <1>1, <1>3, <1>4, <1>5 DEF h, t

LEMMA RangeOfJoin ==
  ASSUME NEW S, NEW a \in Seq(S), NEW b \in Seq(S)
  PROVE  /\ a \o b \in Seq(S) /\ Range(a \o b) = Range(a) \cup Range(b)
         /\ Distinct(a) /\ Distinct(b) /\ Range(a) \cap Range(b) = {} => Distinct(a \o b)
  <1> DEFINE c == a \o b
  <1>1. /\ Len(a) \in Nat /\ Len(b) \in Nat /\ c \in Seq(S) /\ Len(c) = Len(a) + Len(b)
        /\ DOMAIN a = 1..Len(a) /\ DOMAIN b = 1..Len(b) /\ DOMAIN c = 1..Len(c)
        /\ (\A i \in 1..Len(a) : c[i] = a[i])
        /\ \A i \in 1..Len(c) : i > Len(a) => c[i] = b[i - Len(a)]
    OBVIOUS
  <1> HIDE DEF c
  <1>2. /\ \A i \in 1..Len(a) : i \in 1..Len(c)
        /\ \A i \in 1..Len(b) : i + Len(a) \in 1..Len(c) /\ i + Len(a) > Len(a) /\ (i + Len(a)) - Len(a) = i
        /\ \A i \in 1..Len(c) : i \in 1..Len(a) \/ (i > Len(a) /\ i - Len(a) \in 1..Len(b))
    BY <1>1
  <1>3. Range(c) \subseteq Range(a) \cup Range(b)
    <2> SUFFICES ASSUME NEW i \in 1..Len(c) PROVE c[i] \in Range(a) \cup Range(b)
      BY <1>1 DEF Range
    <2>1. CASE i \in 1..Len(a)
      BY <1>1, <2>1 DEF Range
    <2>2. CASE i > Len(a) /\ i - Len(a) \in 1..Len(b)
      <3>1. c[i] = b[i - Len(a)]
        BY <1>1, <2>2
      <3> QED BY <1>1, <2>2, <3>1 DEF Range
    <2> QED BY <1>2, <2>1, <2>2
  <1>4. Range(a) \subseteq Range(c)
    BY <1>1, <1>2 DEF Range
  <1>5. Range(b) \subseteq Range(c)
    <2> SUFFICES ASSUME NEW i \in 1..Len(b) PROVE b[i] \in Range(c)
      BY <1>1 DEF Range
    <2>1. c[i + Len(a)] = b[i]
      BY <1>1, <1>2
    <2> QED BY <1>1, <1>2, <2>1 DEF Range
  <1>6. \A i \in 1..Len(a) : c[i] \in Range(a)
    BY <1>1 DEF Range
  <1>7. ASSUME NEW i \in 1..Len(c), i > Len(a) PROVE c[i] \in Range(b)
    <2>1. i - Len(a) \in 1..Len(b) /\ c[i] = b[i - Len(a)]
      BY <1>1, <1>7
    <2> QED BY <1>1, <2>1 DEF Range
  <1>8. ASSUME Distinct(a), Distinct(b), Range(a) \cap Range(b) = {} PROVE Distinct(c)
    <2> SUFFICES ASSUME NEW i \in 1..Len(c), NEW j \in 1..Len(c), i # j PROVE c[i] # c[j]
      BY DEF Distinct
    <2>1. CASE i \in 1..Len(a) /\ j \in 1..Len(a)
      BY <1>1, <1>8, <2>1 DEF Distinct
    <2>2. CASE i \in 1..Len(a) /\ j > Len(a)
      <3>1. c[i] \in Range(a) /\ c[j] \in Range(b)
        BY <1>6, <1>7, <2>2
      <3> QED BY <1>8, <3>1
    <2>3. CASE j \in 1..Len(a) /\ i > Len(a)
      <3>1. c[j] \in Range(a) /\ c[i] \in Range(b)
        BY <1>6, <1>7, <2>3
      <3> QED BY <1>8, <3>1
    <2>4. CASE i > Len(a) /\ j > Len(a)
      <3>1. i - Len(a) \in 1..Len(b) /\ j - Len(a) \in 1..Len(b) /\ i - Len(a) # j - Len(a)
        BY <1>1, <1>2, <2>4
      <3> QED BY <1>1, <1>8, <2>4, <3>1 DEF Distinct
    <2> QED BY <1>2, <2>1, <2>2, <2>3, <2>4
  <1> QED BY <1>1, <1>3, <1>4, <1>5, <1>8 DEF c

(* Of what exists, everything is done, or waits, or is in a directory that *)
(* is not done.                                                            *)
Walk(t, done, work) ==
  /\ \A x \in Range(work) : t[x].k # "none"
  /\ \A y \in Paths : t[y].k # "none" => y \in done \/ y \in Range(work) \/ (y # Root /\ Parent(y) \notin done)

LEMMA WalkEnds ==
  ASSUME NEW t, WellFormed(t), NEW done, Walk(t, done, <<>>), NEW y \in Paths, t[y].k # "none"
  PROVE  y \in done
  <1> SUFFICES ASSUME y \notin done PROVE FALSE
    OBVIOUS
  <1> DEFINE Bad == {n \in Nat : \E x \in Paths : Len(x) = n /\ t[x].k # "none" /\ x \notin done}
  <1>1. Bad # {} /\ Bad \subseteq Nat
    BY PathsAreBytes
  <1> HIDE DEF Bad
  <1>2. PICK n \in Bad : \A m \in Bad : n <= m
    BY <1>1, NatMin
  <1>3. PICK x \in Paths : Len(x) = n /\ t[x].k # "none" /\ x \notin done
    BY <1>2 DEF Bad
  <1>4. Range(<<>>) = {}
    BY DEF Range
  <1>5. x # Root /\ Parent(x) \notin done
    BY <1>3, <1>4 DEF Walk
  <1>6. /\ Parent(x) \in Paths /\ Len(Parent(x)) \in Nat /\ n \in Nat /\ Len(Parent(x)) < n
    BY <1>3, <1>5, PathsAreBytes, BelowParent
  <1>7. t[Parent(x)].k # "none"
    BY <1>3, <1>5 DEF WellFormed, IsDir
  <1>8. Len(Parent(x)) \in Bad
    BY <1>5, <1>6, <1>7 DEF Bad
  <1> QED BY <1>2, <1>6, <1>8

LEMMA WalkGoesOn ==
  ASSUME NEW t, WellFormed(t), NEW done, NEW work \in Seq(Paths), work # <<>>, Walk(t, done, work),
         NEW more \in Seq(Paths),
         IF IsDir(t, Head(work)) THEN Range(more) = Children(t, Head(work)) ELSE more = <<>>
  PROVE  Walk(t, done \cup {Head(work)}, more \o Tail(work))
  <1> DEFINE x == Head(work)
             next == more \o Tail(work)
  <1>1. Tail(work) \in Seq(Paths) /\ Range(work) = {x} \cup Range(Tail(work))
    BY RangeOfTail
  <1>2. Range(next) = Range(more) \cup Range(Tail(work))
    <2> DEFINE rest == Tail(work)
    <2>1. rest \in Seq(Paths)
      BY <1>1
    <2> HIDE DEF rest
    <2>2. Range(more \o rest) = Range(more) \cup Range(rest)
      BY <2>1, RangeOfJoin
    <2> QED BY <2>2 DEF rest
  <1> HIDE DEF x, next
  <1>3. \A y \in Range(more) : y \in Children(t, x) /\ IsDir(t, x)
    BY DEF Range, x
  <1>4. ASSUME NEW y \in Range(next) PROVE t[y].k # "none"
    BY <1>1, <1>2, <1>3 DEF Children, Walk
  <1>5. ASSUME NEW y \in Paths, t[y].k # "none"
        PROVE  y \in done \cup {x} \/ y \in Range(next) \/ (y # Root /\ Parent(y) \notin done \cup {x})
    <2>1. CASE y \in done \/ y \in Range(work)
      BY <1>1, <1>2, <2>1
    <2>2. CASE y # Root /\ Parent(y) \notin done
      <3>1. ASSUME Parent(y) = x PROVE y \in Range(next)
        <4>1. IsDir(t, x) /\ y \in Children(t, x)
          BY <1>5, <2>2, <3>1 DEF WellFormed, Children
        <4> QED BY <1>2, <4>1 DEF x
      <3> QED BY <2>2, <3>1
    <2> QED BY <1>5, <2>1, <2>2 DEF Walk
  <1>6. Walk(t, done \cup {x}, next)
    BY <1>4, <1>5 DEF Walk
  <1> QED BY <1>6 DEF x, next

-----------------------------------------------------------------------------
(* Copying a tree, which may change meanwhile.                             *)

Copied(tree, modes) == DOMAIN modes \cup {y \in Paths \ {Root} : tree[y].k # "none"}

(* Nothing is copied twice: a name is read once, when its directory is.    *)
Copying(tree, modes, work) ==
  /\ Tidy(tree, modes) /\ work \in Seq(Paths) /\ Distinct(work)
  /\ \A y \in Range(work) : y \notin Copied(tree, modes)
  /\ \A y \in Range(work) \cup Copied(tree, modes) : y = Root \/ Parent(y) \in DOMAIN modes
  /\ Root \in DOMAIN modes \/ work = <<Root>>

(* And of a tree that does not change nothing is missed.                   *)
CopyOf(t, tree, modes, work) ==
  /\ Walk(t, Copied(tree, modes), work)
  /\ \A y \in Copied(tree, modes) : Seen(tree, modes)[y] = t[y]

LEMMA BaseIs ==
  ASSUME NEW t, IsTree(t, Kinds)
  PROVE  /\ t = [p \in Paths |-> t[p]] /\ WellFormed(t) /\ t[Root].k = "dir"
         /\ \A p \in Paths : /\ t[p].k = "none" => t[p] = Nothing
                             /\ t[p].k # "none" => t[p] = Node(t[p].k, t[p].v) /\ t[p].k \in Kinds
  <1>1. Nothing.k = "none"
    BY DEF Nothing, Node
  <1>2. \A p \in Paths : t[p] = Nothing \/ (t[p] = Node(t[p].k, t[p].v) /\ t[p].k \in Kinds)
    BY DEF IsTree
  <1>3. \A k \in Kinds : k # "none"
    BY DEF Kinds
  <1>4. t = [p \in Paths |-> t[p]] /\ WellFormed(t) /\ t[Root].k = "dir"
    BY DEF IsTree, WellFormed, IsDir
  <1> QED BY <1>1, <1>2, <1>3, <1>4

LEMMA CopyStarts ==
  ASSUME NEW modes, DOMAIN modes = {}
  PROVE  /\ Copying(EmptyTree, modes, <<Root>>)
         /\ \A t : IsTree(t, Kinds) => CopyOf(t, EmptyTree, modes, <<Root>>)
  <1>1. Root \in Paths
    BY PathAssumption
  <1>2. /\ EmptyTree = [x \in Paths |-> EmptyTree[x]] /\ EmptyTree[Root] = Dir("open")
        /\ \A x \in Paths \ {Root} : EmptyTree[x] = Nothing
    BY <1>1 DEF EmptyTree
  <1>3. Nothing.k = "none"
    BY DEF Nothing, Node
  <1>4. Copied(EmptyTree, modes) = {}
    BY <1>2, <1>3 DEF Copied
  <1>5. Tidy(EmptyTree, modes)
    BY <1>2 DEF Tidy
  <1>6. <<Root>> \in Seq(Paths) /\ Len(<<Root>>) = 1 /\ <<Root>>[1] = Root
    BY <1>1
  <1>7. Range(<<Root>>) = {Root}
    BY <1>6 DEF Range
  <1>8. Distinct(<<Root>>)
    BY <1>6 DEF Distinct
  <1>9. Copying(EmptyTree, modes, <<Root>>)
    BY <1>4, <1>5, <1>6, <1>7, <1>8 DEF Copying
  <1>10. ASSUME NEW t, IsTree(t, Kinds) PROVE CopyOf(t, EmptyTree, modes, <<Root>>)
    <2>1. t[Root].k # "none"
      BY <1>10, BaseIs
    <2> QED BY <1>4, <1>7, <2>1 DEF CopyOf, Walk
  <1> QED BY <1>9, <1>10

(* A file or a link.                                                       *)
LEMMA CopiesLeaf ==
  ASSUME NEW tree, NEW modes, NEW work, Copying(tree, modes, work), work # <<>>,
         NEW t, IsTree(t, Kinds), NEW x, x = Head(work), t[x].k \notin {"none", "dir"},
         NEW tree2, tree2 = [tree EXCEPT ![x] = t[x]]
  PROVE  /\ Copying(tree2, modes, Tail(work))
         /\ CopyOf(t, tree, modes, work) => CopyOf(t, tree2, modes, Tail(work))
  <1>1. /\ work \in Seq(Paths) /\ x \in Paths /\ Tail(work) \in Seq(Paths)
        /\ Range(work) = {x} \cup Range(Tail(work))
        /\ Distinct(Tail(work)) /\ x \notin Range(Tail(work))
    BY RangeOfTail DEF Copying
  <1>2. x # Root /\ x \notin Copied(tree, modes) /\ x \notin DOMAIN modes
    BY <1>1, BaseIs DEF Copying, Copied
  <1>3. /\ tree2 = [y \in Paths |-> tree2[y]] /\ tree2[x] = t[x]
        /\ \A y \in Paths : y # x => tree2[y] = tree[y]
    <2>1. tree = [y \in Paths |-> tree[y]]
      BY DEF Copying, Tidy
    <2> QED BY <1>1, <2>1
  <1>4. Copied(tree2, modes) = Copied(tree, modes) \cup {x}
    BY <1>1, <1>2, <1>3 DEF Copied
  <1>5. Tidy(tree2, modes)
    <2>1. Tidy(tree, modes) /\ Root \in Paths
      BY PathAssumption DEF Copying
    <2> QED BY <1>1, <1>2, <1>3, <2>1 DEF Tidy
  <1>6. Root \in DOMAIN modes
    <2> SUFFICES ASSUME work = <<Root>> PROVE FALSE
      BY DEF Copying
    <2>1. Head(work) = Root
      OBVIOUS
    <2> QED BY <1>2, <2>1
  <1>7. Copying(tree2, modes, Tail(work))
    BY <1>1, <1>4, <1>5, <1>6 DEF Copying
  <1>8. ASSUME CopyOf(t, tree, modes, work) PROVE CopyOf(t, tree2, modes, Tail(work))
    <2>1. <<>> \in Seq(Paths) /\ <<>> \o Tail(work) = Tail(work)
      BY <1>1
    <2>2. Walk(t, Copied(tree, modes) \cup {x}, Tail(work))
      <3>1. ~IsDir(t, x) /\ WellFormed(t)
        BY BaseIs DEF IsDir
      <3>2. Walk(t, Copied(tree, modes) \cup {x}, <<>> \o Tail(work))
        BY <1>1, <1>8, <2>1, <3>1, WalkGoesOn DEF CopyOf
      <3> QED BY <2>1, <3>2
    <2>3. \A y \in Paths : Seen(tree2, modes)[y] = IF y = x THEN t[x] ELSE Seen(tree, modes)[y]
      BY <1>2, <1>3 DEF Seen
    <2>4. Copied(tree, modes) \subseteq Paths
      BY DEF Copying, Tidy, Copied
    <2> QED BY <1>1, <1>4, <1>8, <2>2, <2>3, <2>4 DEF CopyOf
  <1> QED BY <1>7, <1>8

LEMMA ChildrenAre ==
  ASSUME NEW t, NEW x
  PROVE  /\ Children(t, x) \subseteq Paths
         /\ \A y \in Children(t, x) : y # Root /\ Parent(y) = x /\ y # x
  <1>1. ASSUME NEW y \in Paths, y # Root PROVE Parent(y) # y
    <2>1. Below(y, Parent(y))
      BY <1>1, PathsAreBytes, BelowParent
    <2> QED BY <1>1, <2>1, NotBelow
  <1> QED BY <1>1 DEF Children

(* A directory, whose names are read with it.                              *)
LEMMA CopiesDirectory ==
  ASSUME NEW tree, NEW modes, NEW work, Copying(tree, modes, work), work # <<>>,
         NEW t, IsTree(t, Kinds), NEW x, x = Head(work), t[x].k = "dir",
         NEW tree2, tree2 = [tree EXCEPT ![x] = Dir("open")],
         NEW modes2, modes2 = SetMode(modes, x, t[x].v),
         NEW names, names = Sorted(Children(t, x))
  PROVE  /\ Copying(tree2, modes2, names \o Tail(work))
         /\ CopyOf(t, tree, modes, work) => CopyOf(t, tree2, modes2, names \o Tail(work))
  <1> DEFINE rest == Tail(work)
             next == names \o rest
  <1>1. /\ work \in Seq(Paths) /\ x \in Paths /\ rest \in Seq(Paths)
        /\ Range(work) = {x} \cup Range(rest) /\ Distinct(rest) /\ x \notin Range(rest)
    BY RangeOfTail DEF Copying
  <1>2. x \notin Copied(tree, modes) /\ x \notin DOMAIN modes
    BY <1>1 DEF Copying, Copied
  <1>3. /\ tree2 = [y \in Paths |-> tree2[y]] /\ tree2[x] = Dir("open")
        /\ \A y \in Paths : y # x => tree2[y] = tree[y]
    <2>1. tree = [y \in Paths |-> tree[y]]
      BY DEF Copying, Tidy
    <2> QED BY <1>1, <2>1
  <1>4. /\ DOMAIN modes2 = DOMAIN modes \cup {x} /\ modes2[x] = t[x].v
        /\ \A y \in DOMAIN modes : y # x => modes2[y] = modes[y]
    BY DEF SetMode
  <1>5. Copied(tree2, modes2) = Copied(tree, modes) \cup {x}
    BY <1>1, <1>2, <1>3, <1>4 DEF Copied
  <1>6. Tidy(tree2, modes2)
    <2>1. Tidy(tree, modes) /\ Root \in Paths
      BY PathAssumption DEF Copying
    <2> QED BY <1>1, <1>2, <1>3, <1>4, <2>1 DEF Tidy
  <1>7. Root \in DOMAIN modes2
    <2>1. CASE work = <<Root>>
      <3>1. Head(work) = Root
        BY <2>1
      <3> QED BY <1>4, <3>1
    <2> QED BY <1>4, <2>1 DEF Copying
  <1>8. /\ names \in Seq(Paths) /\ Range(names) = Children(t, x) /\ Distinct(names)
    <2>1. Children(t, x) \subseteq Paths
      BY ChildrenAre
    <2>2. names \in Seq(Children(t, x)) /\ Range(names) = Children(t, x)
          /\ \A i, j \in 1..Len(names) : i # j => names[i] # names[j]
      BY <2>1, SortedIs
    <2> QED BY <2>1, <2>2 DEF Distinct
  <1>9. ASSUME NEW y \in Children(t, x) PROVE y \notin Range(work) /\ y \notin Copied(tree, modes)
    <2>1. y # Root /\ Parent(y) = x
      BY ChildrenAre
    <2> QED BY <1>2, <2>1 DEF Copying
  <1> HIDE DEF rest
  <1>10. next \in Seq(Paths) /\ Range(next) = Children(t, x) \cup Range(rest) /\ Distinct(next)
    <2>1. Range(names) \cap Range(rest) = {}
      BY <1>1, <1>8, <1>9
    <2> QED BY <1>1, <1>8, <2>1, RangeOfJoin
  <1> HIDE DEF next
  <1>11. Copying(tree2, modes2, next)
    <2>1. \A y \in Range(next) : y \notin Copied(tree2, modes2)
      BY <1>1, <1>5, <1>9, <1>10, ChildrenAre DEF Copying
    <2>2. \A y \in Range(next) \cup Copied(tree2, modes2) : y = Root \/ Parent(y) \in DOMAIN modes2
      BY <1>1, <1>4, <1>5, <1>10, ChildrenAre DEF Copying
    <2> QED BY <1>6, <1>7, <1>10, <2>1, <2>2 DEF Copying
  <1>12. ASSUME CopyOf(t, tree, modes, work) PROVE CopyOf(t, tree2, modes2, next)
    <2>1. Walk(t, Copied(tree, modes) \cup {x}, next)
      <3>1. IsDir(t, x) /\ WellFormed(t)
        BY BaseIs DEF IsDir
      <3> QED BY <1>1, <1>8, <1>12, <3>1, WalkGoesOn DEF CopyOf, next, rest
    <2>2. Dir(t[x].v) = t[x]
      <3>1. t[x] = Node(t[x].k, t[x].v)
        BY <1>1, BaseIs
      <3> QED BY <3>1 DEF Dir
    <2>3. \A y \in Paths : Seen(tree2, modes2)[y] = IF y = x THEN t[x] ELSE Seen(tree, modes)[y]
      BY <1>2, <1>3, <1>4, <2>2 DEF Seen
    <2>4. Copied(tree, modes) \subseteq Paths
      BY DEF Copying, Tidy, Copied
    <2>5. \A y \in Copied(tree, modes) : Seen(tree, modes)[y] = t[y]
      BY <1>12 DEF CopyOf
    <2>6. ASSUME NEW y \in Copied(tree2, modes2) PROVE Seen(tree2, modes2)[y] = t[y]
      <3>1. CASE y = x
        BY <1>1, <2>3, <3>1
      <3>2. CASE y # x
        <4>1. y \in Copied(tree, modes) /\ y \in Paths
          BY <1>5, <2>4, <3>2
        <4> QED BY <2>3, <2>5, <3>2, <4>1
      <3> QED BY <3>1, <3>2
    <2>7. Walk(t, Copied(tree2, modes2), next)
      BY <1>5, <2>1
    <2> QED BY <2>6, <2>7 DEF CopyOf
  <1> QED BY <1>11, <1>12 DEF next, rest

LEMMA CopyEnds ==
  ASSUME NEW tree, NEW modes, Copying(tree, modes, <<>>)
  PROVE  /\ Tidy(tree, modes) /\ Root \in DOMAIN modes
         /\ \A t : IsTree(t, Kinds) /\ CopyOf(t, tree, modes, <<>>) => Seen(tree, modes) = t
  <1>1. Tidy(tree, modes) /\ Root \in DOMAIN modes
    <2>1. <<>> # <<Root>>
      OBVIOUS
    <2> QED BY <2>1 DEF Copying
  <1>2. ASSUME NEW t, IsTree(t, Kinds), CopyOf(t, tree, modes, <<>>) PROVE Seen(tree, modes) = t
    <2>1. t = [p \in Paths |-> t[p]] /\ WellFormed(t)
      BY <1>2, BaseIs
    <2>2. ASSUME NEW y \in Paths PROVE Seen(tree, modes)[y] = t[y]
      <3>1. CASE y \in Copied(tree, modes)
        BY <1>2, <3>1 DEF CopyOf
      <3>2. CASE y \notin Copied(tree, modes)
        <4>1. t[y].k = "none"
          BY <1>2, <2>1, <3>2, WalkEnds DEF CopyOf
        <4>2. t[y] = Nothing
          BY <1>2, <4>1, BaseIs
        <4>3. y # Root /\ y \notin DOMAIN modes /\ tree[y].k = "none"
          BY <1>1, <3>2 DEF Copied
        <4>4. tree[y] = Nothing
          BY <1>1, <4>3 DEF Tidy
        <4> QED BY <4>2, <4>3, <4>4 DEF Seen
      <3> QED BY <3>1, <3>2
    <2>3. Seen(tree, modes) = [p \in Paths |-> Seen(tree, modes)[p]]
      BY DEF Seen
    <2> QED BY <2>1, <2>2, <2>3
  <1> QED BY <1>1, <1>2

-----------------------------------------------------------------------------
(* Archives.                                                               *)

(* What a record can hold.                                                 *)
Records(bases) ==
  {rec \in {[path |-> x, node |-> t[x]] : x \in Paths, t \in bases} : rec.node.k # "none"}

LEMMA RecordIs ==
  ASSUME NEW bases, \A t \in bases : IsTree(t, Kinds), NEW rec \in Records(bases)
  PROVE  rec.path \in Paths /\ rec.node = Node(rec.node.k, rec.node.v) /\ rec.node.k \in Kinds
  <1>1. PICK x \in Paths, t \in bases : rec = [path |-> x, node |-> t[x]] /\ rec.node.k # "none"
    BY DEF Records
  <1>2. rec.path = x /\ rec.node = t[x]
    BY <1>1
  <1> QED BY <1>1, <1>2, BaseIs

LEMMA RecordsOf ==
  ASSUME NEW bases, NEW t \in bases, NEW x \in Paths, t[x].k # "none"
  PROVE  [path |-> x, node |-> t[x]] \in Records(bases)
  BY DEF Records

RecordPaths(recs) == {recs[i].path : i \in 1..Len(recs)}

(* The archive of a tree that does not change.                             *)
ArchiveOf(t, recs, work) ==
  /\ Walk(t, RecordPaths(recs), work)
  /\ \A i \in 1..Len(recs) : recs[i].node = t[recs[i].path]

LEMMA Archives ==
  ASSUME NEW S, NEW recs \in Seq(S), NEW work \in Seq(Paths), work # <<>>,
         NEW t, IsTree(t, Kinds), NEW x, x = Head(work),
         NEW more, more = IF t[x].k = "dir" THEN Sorted(Children(t, x)) ELSE <<>>,
         NEW rec \in S, rec.path = x, rec.node = t[x]
  PROVE  /\ x \in Paths /\ more \o Tail(work) \in Seq(Paths) /\ Append(recs, rec) \in Seq(S)
         /\ ArchiveOf(t, recs, work) => ArchiveOf(t, Append(recs, rec), more \o Tail(work))
  <1> DEFINE rest == Tail(work)
             recs2 == Append(recs, rec)
  <1>1. x \in Paths /\ rest \in Seq(Paths)
    BY RangeOfTail
  <1>2. more \in Seq(Paths) /\ IF IsDir(t, x) THEN Range(more) = Children(t, x) ELSE more = <<>>
    <2>1. CASE t[x].k = "dir"
      <3>1. Children(t, x) \subseteq Paths /\ more = Sorted(Children(t, x))
        BY <2>1, ChildrenAre
      <3>2. more \in Seq(Children(t, x)) /\ Range(more) = Children(t, x)
        BY <3>1, SortedIs
      <3> QED BY <2>1, <3>1, <3>2 DEF IsDir
    <2>2. CASE t[x].k # "dir"
      BY <2>2 DEF IsDir
    <2> QED BY <2>1, <2>2
  <1>3. /\ recs2 \in Seq(S) /\ Len(recs) \in Nat /\ Len(recs2) = Len(recs) + 1
        /\ recs2[Len(recs) + 1] = rec /\ \A i \in 1..Len(recs) : recs2[i] = recs[i]
    OBVIOUS
  <1>4. more \o rest \in Seq(Paths)
    BY <1>1, <1>2
  <1>5. ASSUME ArchiveOf(t, recs, work) PROVE ArchiveOf(t, recs2, more \o rest)
    <2> HIDE DEF recs2
    <2>1. RecordPaths(recs2) = RecordPaths(recs) \cup {x}
      <3>1. \A i \in 1..Len(recs2) : i \in 1..Len(recs) \/ i = Len(recs) + 1
        BY <1>3
      <3>2. \A i \in 1..Len(recs) : i \in 1..Len(recs2)
        BY <1>3
      <3>3. Len(recs) + 1 \in 1..Len(recs2)
        BY <1>3
      <3>4. RecordPaths(recs2) \subseteq RecordPaths(recs) \cup {x}
        BY <1>3, <3>1 DEF RecordPaths
      <3>5. RecordPaths(recs) \subseteq RecordPaths(recs2)
        BY <1>3, <3>2 DEF RecordPaths
      <3>6. x \in RecordPaths(recs2)
        BY <1>3, <3>3 DEF RecordPaths
      <3> QED BY <3>4, <3>5, <3>6
    <2>2. WellFormed(t)
      BY BaseIs
    <2>3. Walk(t, RecordPaths(recs) \cup {x}, more \o rest)
      BY <1>2, <1>5, <2>2, WalkGoesOn DEF ArchiveOf
    <2>4. \A i \in 1..Len(recs2) : recs2[i].node = t[recs2[i].path]
      <3> SUFFICES ASSUME NEW i \in 1..Len(recs2) PROVE recs2[i].node = t[recs2[i].path]
        OBVIOUS
      <3>1. i \in 1..Len(recs) \/ i = Len(recs) + 1
        BY <1>3
      <3> QED BY <1>3, <1>5, <3>1 DEF ArchiveOf
    <2> QED BY <2>1, <2>3, <2>4 DEF ArchiveOf
  <1> QED BY <1>1, <1>3, <1>4, <1>5

(* Records in the order of a parsed archive: every path once.              *)
LEMMA ParsedInOrder ==
  ASSUME NEW recs, Len(recs) \in Nat, \A i \in 1..Len(recs) : recs[i].path \in Paths, ParseArchive(recs),
         NEW i \in 1..Len(recs), NEW j \in 1..Len(recs), i < j
  PROVE  RawLess(recs[i].path, recs[j].path)
  <1> SUFFICES ASSUME ~RawLess(recs[i].path, recs[j].path) PROVE FALSE
    OBVIOUS
  <1> DEFINE Bad == {n \in Nat : n \in 1..Len(recs) /\ i < n /\ ~RawLess(recs[i].path, recs[n].path)}
  <1>1. Bad # {} /\ Bad \subseteq Nat
    <2>1. j \in Bad
      OBVIOUS
    <2> QED BY <2>1
  <1> HIDE DEF Bad
  <1>2. PICK n \in Bad : \A m \in Bad : n <= m
    BY <1>1, NatMin
  <1>3. n \in Nat /\ n \in 1..Len(recs) /\ i < n /\ ~RawLess(recs[i].path, recs[n].path)
    BY <1>2 DEF Bad
  <1>4. n \in 2..Len(recs) /\ n - 1 \in 1..Len(recs) /\ n - 1 \in Nat /\ i <= n - 1 /\ n - 1 < n
    BY <1>3
  <1>5. RawLess(recs[n - 1].path, recs[n].path)
    BY <1>4 DEF ParseArchive
  <1>6. CASE i = n - 1
    BY <1>3, <1>5, <1>6
  <1>7. CASE i < n - 1
    <2>1. n - 1 \notin Bad
      BY <1>2, <1>3, <1>4
    <2>2. RawLess(recs[i].path, recs[n - 1].path)
      BY <1>4, <1>7, <2>1 DEF Bad
    <2>3. recs[i].path \in Seq(Nat) /\ recs[n - 1].path \in Seq(Nat) /\ recs[n].path \in Seq(Nat)
      BY <1>3, <1>4, PathsAreBytes
    <2> QED BY <1>3, <1>5, <2>2, <2>3, RawLessTransitive
  <1> QED BY <1>4, <1>6, <1>7

RecordOrder(recs) == {e \in Range(recs) \X Range(recs) : RawLess(e[1].path, e[2].path)}

LEMMA ParsedIs ==
  ASSUME NEW S, NEW recs \in Seq(S), \A rec \in S : rec.path \in Paths, ParseArchive(recs)
  PROVE  /\ StrictTotal(Range(recs), RecordOrder(recs)) /\ Pending(recs, Range(recs), RecordOrder(recs))
         /\ \A a, b \in Range(recs) : a.path = b.path => a = b
         /\ \A rec \in Range(recs) : TreeOf(recs)[rec.path] = rec.node
         /\ recs # <<>> /\ Head(recs).path = Root /\ Head(recs).node.k = "dir"
         /\ \A rec \in Range(recs) : rec = Head(recs) \/
              \E up \in Range(recs) : /\ <<up, rec>> \in RecordOrder(recs)
                                      /\ up.path = Parent(rec.path) /\ up.node.k = "dir"
  <1> DEFINE R == Range(recs)
             order == RecordOrder(recs)
  <1>1. /\ Len(recs) \in Nat /\ DOMAIN recs = 1..Len(recs) /\ \A i \in 1..Len(recs) : recs[i] \in S /\ recs[i].path \in Paths
    OBVIOUS
  <1>2. R = {recs[i] : i \in 1..Len(recs)} /\ \A rec \in R : rec.path \in Seq(Nat) /\ rec.path \in Paths
    <2>1. R = {recs[i] : i \in 1..Len(recs)}
      BY <1>1 DEF Range
    <2> QED BY <1>1, <2>1, PathsAreBytes
  <1>3. \A a, b : <<a, b>> \in order <=> a \in R /\ b \in R /\ RawLess(a.path, b.path)
    BY DEF RecordOrder
  <1> HIDE DEF R, order
  <1>4. ASSUME NEW i \in 1..Len(recs), NEW j \in 1..Len(recs), i < j
        PROVE  RawLess(recs[i].path, recs[j].path)
    BY <1>1, <1>4, ParsedInOrder
  <1>5. ASSUME NEW i \in 1..Len(recs), NEW j \in 1..Len(recs), recs[i].path = recs[j].path
        PROVE  i = j
    <2>1. recs[i].path \in Seq(Nat)
      BY <1>1, PathsAreBytes
    <2>2. ~RawLess(recs[i].path, recs[j].path) /\ ~RawLess(recs[j].path, recs[i].path)
      BY <1>5, <2>1, RawLessIrreflexive
    <2> QED BY <1>1, <1>4, <2>2
  <1>6. ASSUME NEW a \in R, NEW b \in R, a.path = b.path PROVE a = b
    BY <1>2, <1>5, <1>6
  <1>7. StrictTotal(R, order)
    <2>1. \A x \in R : ~RawLess(x.path, x.path)
      BY <1>2, RawLessIrreflexive
    <2>2. \A x, y, z \in R : RawLess(x.path, y.path) /\ RawLess(y.path, z.path) => RawLess(x.path, z.path)
      BY <1>2, RawLessTransitive
    <2>3. \A x, y \in R : x # y => RawLess(x.path, y.path) \/ RawLess(y.path, x.path)
      BY <1>2, <1>6, RawLessTotal
    <2> QED BY <1>3, <2>1, <2>2, <2>3 DEF StrictTotal
  <1>8. Pending(recs, R, order)
    <2>1. \A i \in 1..Len(recs) : recs[i] \in R
      BY <1>2
    <2>2. recs \in Seq(R)
      BY <1>1, <2>1
    <2>3. \A i, j \in 1..Len(recs) : i < j => <<recs[i], recs[j]>> \in order
      BY <1>3, <1>4, <2>1
    <2>4. Range(recs) = R
      BY DEF R
    <2> QED BY <2>2, <2>3, <2>4 DEF Pending
  <1>9. ASSUME NEW rec \in R PROVE TreeOf(recs)[rec.path] = rec.node
    <2>1. PICK i \in 1..Len(recs) : rec = recs[i]
      BY <1>2
    <2> DEFINE k == CHOOSE k \in DOMAIN recs : recs[k].path = rec.path
    <2>2. k \in DOMAIN recs /\ recs[k].path = rec.path
      BY <1>1, <2>1
    <2>3. TreeOf(recs)[rec.path] = recs[k].node
      BY <1>1, <1>2, <2>1 DEF TreeOf
    <2> HIDE DEF k
    <2>4. k = i
      BY <1>1, <1>5, <2>1, <2>2
    <2> QED BY <2>1, <2>3, <2>4
  <1>10. recs # <<>> /\ Head(recs) = recs[1] /\ recs[1].path = Root /\ recs[1].node.k = "dir" /\ Len(recs) > 0
    BY <1>1 DEF ParseArchive
  <1>11. ASSUME NEW rec \in R, rec # Head(recs)
         PROVE  \E up \in R : <<up, rec>> \in order /\ up.path = Parent(rec.path) /\ up.node.k = "dir"
    <2>1. PICK k \in 1..Len(recs) : rec = recs[k]
      BY <1>2
    <2>2. k \in 2..Len(recs)
      BY <1>1, <1>10, <1>11, <2>1
    <2>3. PICK j \in 1..(k - 1) : recs[j].path = Parent(recs[k].path) /\ recs[j].node.k = "dir"
      BY <2>2 DEF ParseArchive
    <2>4. j \in 1..Len(recs) /\ j < k
      BY <1>1, <2>1, <2>3
    <2>5. recs[j] \in R /\ <<recs[j], rec>> \in order
      BY <1>2, <1>3, <1>4, <2>1, <2>4
    <2> QED BY <2>1, <2>3, <2>5
  <1> QED BY <1>6, <1>7, <1>8, <1>9, <1>10, <1>11 DEF R, order

(* The archive of a tree that did not change while it was walked describes *)
(* it, once parse_archive has accepted it.                                 *)
THEOREM ArchiveIsTree ==
  ASSUME NEW S, NEW recs \in Seq(S), \A rec \in S : rec.path \in Paths, ParseArchive(recs),
         NEW t, IsTree(t, Kinds), ArchiveOf(t, recs, <<>>)
  PROVE  TreeOf(recs) = t
  <1>1. t = [p \in Paths |-> t[p]] /\ WellFormed(t)
    BY BaseIs
  <1>2. \A i \in 1..Len(recs) : recs[i] \in Range(recs)
    BY DEF Range
  <1>3. ASSUME NEW y \in Paths PROVE TreeOf(recs)[y] = t[y]
    <2>1. CASE \E i \in 1..Len(recs) : recs[i].path = y
      <3>1. PICK i \in 1..Len(recs) : recs[i].path = y
        BY <2>1
      <3>2. TreeOf(recs)[y] = recs[i].node
        BY <1>2, <3>1, ParsedIs
      <3> QED BY <3>1, <3>2 DEF ArchiveOf
    <2>2. CASE ~\E i \in 1..Len(recs) : recs[i].path = y
      <3>1. y \notin RecordPaths(recs) /\ DOMAIN recs = 1..Len(recs)
        BY <2>2 DEF RecordPaths
      <3>2. t[y].k = "none"
        BY <1>1, <3>1, WalkEnds DEF ArchiveOf
      <3>3. TreeOf(recs)[y] = Nothing
        BY <2>2, <3>1 DEF TreeOf
      <3> QED BY <3>2, <3>3, BaseIs
    <2> QED BY <2>1, <2>2
  <1>4. TreeOf(recs) = [p \in Paths |-> TreeOf(recs)[p]]
    BY DEF TreeOf
  <1> QED BY <1>1, <1>3, <1>4

-----------------------------------------------------------------------------
(* Creating an archive's records.                                          *)

(* The tree of the records that were created.                              *)
PartOf(recs, todo) ==
  [p \in Paths |-> IF \E rec \in Range(recs) \ Range(todo) : rec.path = p THEN TreeOf(recs)[p]
                   ELSE Nothing]

Creating(tree, modes, todo, recs) ==
  /\ Staging(tree, modes) /\ Pending(todo, Range(recs), RecordOrder(recs))
  /\ Head(recs) \notin Range(todo) /\ Seen(tree, modes) = PartOf(recs, todo)

LEMMA CreatingStarts ==
  ASSUME NEW bases, \A t \in bases : IsTree(t, Kinds), NEW recs \in Seq(Records(bases)), ParseArchive(recs),
         NEW modes0, DOMAIN modes0 = {}, NEW modes, modes = SetMode(modes0, Root, recs[1].node.v)
  PROVE  Creating(EmptyTree, modes, Tail(recs), recs)
  <1> DEFINE h == Head(recs)
             R == Range(recs)
             order == RecordOrder(recs)
  <1>1. \A rec \in Records(bases) : rec.path \in Paths /\ rec.node = Node(rec.node.k, rec.node.v)
    BY RecordIs
  <1>2. /\ StrictTotal(R, order) /\ Pending(recs, R, order)
        /\ \A rec \in R : TreeOf(recs)[rec.path] = rec.node
        /\ recs # <<>> /\ h.path = Root /\ h.node.k = "dir"
    BY <1>1, ParsedIs
  <1>3. h = recs[1] /\ h \in R /\ h \in Records(bases)
    BY <1>2 DEF Range
  <1>4. /\ Range(Tail(recs)) = R \ {h} /\ Pending(Tail(recs), R, order)
    BY <1>2, PendingTail
  <1>5. Root \in Paths
    BY PathAssumption
  <1>6. /\ EmptyTree = [x \in Paths |-> EmptyTree[x]] /\ EmptyTree[Root] = Dir("open")
        /\ \A x \in Paths \ {Root} : EmptyTree[x] = Nothing
    BY <1>5 DEF EmptyTree
  <1>7. DOMAIN modes = {Root} /\ modes[Root] = h.node.v
    BY <1>3 DEF SetMode
  <1> HIDE DEF h, R, order
  <1>8. Staging(EmptyTree, modes)
    <2>1. Tidy(EmptyTree, modes)
      BY <1>5, <1>6, <1>7 DEF Tidy
    <2>2. IsDir(EmptyTree, Root) /\ \A x \in Paths \ {Root} : EmptyTree[x].k = "none"
      BY <1>6 DEF IsDir, Dir, Nothing, Node
    <2> QED BY <1>7, <2>1, <2>2 DEF Staging, WellFormed
  <1>9. Dir(h.node.v) = h.node
    BY <1>1, <1>2, <1>3 DEF Dir
  <1>10. R \ Range(Tail(recs)) = {h}
    BY <1>3, <1>4
  <1>11. ASSUME NEW p \in Paths PROVE Seen(EmptyTree, modes)[p] = PartOf(recs, Tail(recs))[p]
    <2>1. PartOf(recs, Tail(recs))[p] = IF p = Root THEN TreeOf(recs)[p] ELSE Nothing
      BY <1>2, <1>10 DEF PartOf, R
    <2>2. Seen(EmptyTree, modes)[p] = IF p = Root THEN h.node ELSE Nothing
      BY <1>6, <1>7, <1>9 DEF Seen
    <2> QED BY <1>2, <1>3, <2>1, <2>2
  <1>12. Seen(EmptyTree, modes) = PartOf(recs, Tail(recs))
    <2>1. Seen(EmptyTree, modes) = [p \in Paths |-> Seen(EmptyTree, modes)[p]]
      BY DEF Seen
    <2>2. PartOf(recs, Tail(recs)) = [p \in Paths |-> PartOf(recs, Tail(recs))[p]]
      BY DEF PartOf
    <2> QED BY <1>11, <2>1, <2>2
  <1>13. h \notin Range(Tail(recs))
    BY <1>4
  <1> QED BY <1>4, <1>8, <1>12, <1>13 DEF Creating, h, R, order

LEMMA EditLeaf ==
  ASSUME NEW tree, NEW modes, Staging(tree, modes), NEW p \in Paths, p # Root,
         IsDir(tree, Parent(p)), p \notin DOMAIN modes, tree[p].k = "none",
         NEW n, n.k \notin {"none", "dir"}, NEW tree2,
         tree2 = [x \in Paths |-> IF x = p THEN n ELSE tree[x]]
  PROVE  /\ Staging(tree2, modes)
         /\ Seen(tree2, modes) = [x \in Paths |-> IF x = p THEN n ELSE Seen(tree, modes)[x]]
  <1>1. tree2[p] = n /\ \A x \in Paths : x # p => tree2[x] = tree[x]
    OBVIOUS
  <1>2. Tidy(tree2, modes)
    <2>1. Tidy(tree, modes) /\ Root \in Paths
      BY PathAssumption DEF Staging
    <2> QED BY <1>1, <2>1 DEF Tidy
  <1>3. WellFormed(tree2)
    <2>1. \A x \in Paths : IsDir(tree, x) => IsDir(tree2, x)
      BY <1>1 DEF IsDir
    <2> QED BY <1>1, <2>1, PathAssumption DEF WellFormed, Staging
  <1>4. Seen(tree2, modes) = [x \in Paths |-> IF x = p THEN n ELSE Seen(tree, modes)[x]]
    BY <1>1 DEF Seen
  <1> QED BY <1>2, <1>3, <1>4 DEF Staging

LEMMA CreatesRecord ==
  ASSUME NEW bases, \A t \in bases : IsTree(t, Kinds), NEW recs \in Seq(Records(bases)), ParseArchive(recs),
         NEW tree, NEW modes, NEW todo, todo # <<>>, Creating(tree, modes, todo, recs),
         NEW x, x = Head(todo).path, NEW n, n = Head(todo).node
  PROVE  /\ x \in Paths /\ x # Root /\ Resolves(tree, Parent(x))
         /\ n.k = "dir" => Creating([tree EXCEPT ![x] = Dir("open")], SetMode(modes, x, n.v), Tail(todo), recs)
         /\ n.k # "dir" => Creating([tree EXCEPT ![x] = n], modes, Tail(todo), recs)
  <1> DEFINE h == Head(todo)
             R == Range(recs)
             order == RecordOrder(recs)
             done == R \ Range(todo)
  <1>1. \A rec \in Records(bases) : rec.path \in Paths /\ rec.node = Node(rec.node.k, rec.node.v) /\ rec.node.k \in Kinds
    BY RecordIs
  <1>2. /\ StrictTotal(R, order)
        /\ \A a, b \in R : a.path = b.path => a = b
        /\ \A rec \in R : TreeOf(recs)[rec.path] = rec.node
        /\ Head(recs).path = Root
        /\ \A rec \in R : rec = Head(recs) \/
              \E up \in R : <<up, rec>> \in order /\ up.path = Parent(rec.path) /\ up.node.k = "dir"
        /\ recs # <<>>
    <2> DEFINE S == Records(bases)
    <2>1. recs \in Seq(S) /\ \A rec \in S : rec.path \in Paths
      BY <1>1
    <2> HIDE DEF S, R, order
    <2>2. /\ StrictTotal(Range(recs), RecordOrder(recs))
          /\ \A a, b \in Range(recs) : a.path = b.path => a = b
          /\ \A rec \in Range(recs) : TreeOf(recs)[rec.path] = rec.node
          /\ recs # <<>> /\ Head(recs).path = Root
          /\ \A rec \in Range(recs) : rec = Head(recs) \/
               \E up \in Range(recs) : /\ <<up, rec>> \in RecordOrder(recs)
                                       /\ up.path = Parent(rec.path) /\ up.node.k = "dir"
      BY <2>1, ParsedIs
    <2> QED BY <2>2 DEF R, order
  <1>3. \A rec \in R : rec \in Records(bases)
    BY DEF Range
  <1>4. Pending(todo, R, order) /\ Head(recs) \notin Range(todo)
    BY DEF Creating
  <1>5. /\ h \in R /\ h \in Range(todo) /\ h \notin Range(Tail(todo)) /\ Range(Tail(todo)) = Range(todo) \ {h}
        /\ Pending(Tail(todo), R, order)
        /\ \A a \in Range(Tail(todo)) : a \in R /\ <<h, a>> \in order
    BY <1>2, <1>4, PendingTail
  <1>6. x = h.path /\ n = h.node
    OBVIOUS
  <1>7. Head(recs) \in R
    BY <1>2 DEF Range
  <1> HIDE DEF h, R, order
  <1>8. x \in Paths /\ n = Node(n.k, n.v) /\ n.k \in Kinds /\ h # Head(recs) /\ x # Root
    BY <1>1, <1>2, <1>3, <1>4, <1>5, <1>6, <1>7
  <1>9. PICK up \in R : <<up, h>> \in order /\ up.path = Parent(x) /\ up.node.k = "dir"
    BY <1>2, <1>5, <1>6, <1>8
  <1>10. up \in done
    <2> SUFFICES ASSUME up \in Range(todo) PROVE FALSE
      OBVIOUS
    <2>1. up # h
      BY <1>2, <1>5, <1>9 DEF StrictTotal
    <2>2. <<h, up>> \in order
      BY <1>5, <2>1
    <2> QED BY <1>2, <1>5, <1>9, <2>2 DEF StrictTotal
  <1>11. Staging(tree, modes) /\ \A p \in Paths :
           Seen(tree, modes)[p] = IF \E rec \in done : rec.path = p THEN TreeOf(recs)[p] ELSE Nothing
    BY DEF Creating, PartOf, R
  <1>12. Parent(x) \in Paths /\ IsDir(tree, Parent(x)) /\ Resolves(tree, Parent(x))
    <2>1. Parent(x) \in Paths
      BY <1>8, PathsAreBytes
    <2>2. Seen(tree, modes)[Parent(x)] = up.node
      BY <1>2, <1>9, <1>10, <1>11, <2>1
    <2>3. IsDir(tree, Parent(x))
      BY <1>9, <1>11, <2>1, <2>2, SeenKinds DEF IsDir, Staging
    <2> QED BY <1>11, <2>1, <2>3, ResolvesIs DEF Staging
  <1>13. tree[x].k = "none" /\ x \notin DOMAIN modes
    <2>1. ~\E rec \in done : rec.path = x
      BY <1>2, <1>5, <1>6
    <2>2. Seen(tree, modes)[x] = Nothing
      BY <1>8, <1>11, <2>1
    <2>3. tree[x].k = "none"
      BY <1>8, <1>11, <2>2, SeenKinds DEF Staging, Nothing, Node
    <2> QED BY <1>8, <1>11, <2>3, SeenKinds DEF Staging, IsDir
  <1>14. ASSUME NEW seen, seen = [p \in Paths |-> IF p = x THEN n ELSE Seen(tree, modes)[p]]
         PROVE  seen = PartOf(recs, Tail(todo))
    <2>1. R \ Range(Tail(todo)) = done \cup {h}
      BY <1>5
    <2>2. ASSUME NEW p \in Paths PROVE seen[p] = PartOf(recs, Tail(todo))[p]
      <3>1. PartOf(recs, Tail(todo))[p] =
              IF \E rec \in done \cup {h} : rec.path = p THEN TreeOf(recs)[p] ELSE Nothing
        BY <2>1 DEF PartOf, R
      <3>2. CASE p = x
        <4>1. TreeOf(recs)[x] = n
          BY <1>2, <1>5, <1>6
        <4> QED BY <1>6, <1>14, <3>1, <3>2, <4>1
      <3>3. CASE p # x
        <4>1. (\E rec \in done \cup {h} : rec.path = p) <=> \E rec \in done : rec.path = p
          BY <1>6, <3>3
        <4>2. seen[p] = Seen(tree, modes)[p]
          BY <1>14, <3>3
        <4> QED BY <1>11, <3>1, <4>1, <4>2
      <3> QED BY <3>2, <3>3
    <2>3. PartOf(recs, Tail(todo)) = [p \in Paths |-> PartOf(recs, Tail(todo))[p]]
      BY DEF PartOf
    <2>4. seen = [p \in Paths |-> seen[p]]
      BY <1>14
    <2> QED BY <2>2, <2>3, <2>4
  <1>15. tree = [p \in Paths |-> tree[p]]
    BY <1>11 DEF Staging, Tidy
  <1>16. Head(recs) \notin Range(Tail(todo))
    BY <1>4, <1>5
  <1>17. ASSUME n.k = "dir" PROVE Creating([tree EXCEPT ![x] = Dir("open")], SetMode(modes, x, n.v), Tail(todo), recs)
    <2> DEFINE tree2 == [tree EXCEPT ![x] = Dir("open")]
               modes2 == SetMode(modes, x, n.v)
    <2>1. tree2 = [p \in Paths |-> IF p = x THEN Dir("open") ELSE tree[p]]
      BY <1>15
    <2> HIDE DEF tree2, modes2
    <2>2. Staging(tree2, modes2) /\ Seen(tree2, modes2) = [p \in Paths |-> IF p = x THEN Dir(n.v) ELSE Seen(tree, modes)[p]]
      BY <1>8, <1>11, <1>12, <2>1, EditDir DEF modes2
    <2>3. Dir(n.v) = n
      BY <1>8, <1>17 DEF Dir
    <2>4. Seen(tree2, modes2) = PartOf(recs, Tail(todo))
      BY <1>14, <2>2, <2>3
    <2> QED BY <1>5, <1>16, <2>2, <2>4 DEF Creating, R, order, tree2, modes2
  <1>18. ASSUME n.k # "dir" PROVE Creating([tree EXCEPT ![x] = n], modes, Tail(todo), recs)
    <2> DEFINE tree2 == [tree EXCEPT ![x] = n]
    <2>1. tree2 = [p \in Paths |-> IF p = x THEN n ELSE tree[p]]
      BY <1>15
    <2> HIDE DEF tree2
    <2>2. n.k \notin {"none", "dir"}
      BY <1>8, <1>18 DEF Kinds
    <2>3. Staging(tree2, modes) /\ Seen(tree2, modes) = [p \in Paths |-> IF p = x THEN n ELSE Seen(tree, modes)[p]]
      BY <1>8, <1>11, <1>12, <1>13, <2>1, <2>2, EditLeaf
    <2>4. Seen(tree2, modes) = PartOf(recs, Tail(todo))
      BY <1>14, <2>3
    <2> QED BY <1>5, <1>16, <2>3, <2>4 DEF Creating, R, order, tree2
  <1> QED BY <1>8, <1>12, <1>17, <1>18

LEMMA AllCreated ==
  ASSUME NEW bases, \A t \in bases : IsTree(t, Kinds), NEW recs \in Seq(Records(bases)), ParseArchive(recs),
         NEW tree, NEW modes, Creating(tree, modes, <<>>, recs)
  PROVE  Staging(tree, modes) /\ Seen(tree, modes) = TreeOf(recs)
  <1>1. Range(<<>>) = {} /\ DOMAIN recs = 1..Len(recs)
    BY DEF Range
  <1>2. ASSUME NEW p \in Paths PROVE PartOf(recs, <<>>)[p] = TreeOf(recs)[p]
    <2>1. (\E rec \in Range(recs) : rec.path = p) <=> \E k \in DOMAIN recs : recs[k].path = p
      BY DEF Range
    <2>2. PartOf(recs, <<>>)[p] = IF \E rec \in Range(recs) : rec.path = p THEN TreeOf(recs)[p] ELSE Nothing
      BY <1>1 DEF PartOf
    <2>3. CASE \E rec \in Range(recs) : rec.path = p
      BY <2>2, <2>3
    <2>4. CASE ~\E rec \in Range(recs) : rec.path = p
      BY <2>1, <2>2, <2>4 DEF TreeOf
    <2> QED BY <2>3, <2>4
  <1>3. PartOf(recs, <<>>) = [p \in Paths |-> PartOf(recs, <<>>)[p]]
    BY DEF PartOf
  <1>4. TreeOf(recs) = [p \in Paths |-> TreeOf(recs)[p]]
    BY DEF TreeOf
  <1>5. PartOf(recs, <<>>) = TreeOf(recs)
    BY <1>2, <1>3, <1>4
  <1> QED BY <1>5 DEF Creating

-----------------------------------------------------------------------------
(* Restoring the modes of directories, the deepest first.                  *)

Restoring(tree, modes, todo) ==
  /\ tree = [x \in Paths |-> tree[x]] /\ DOMAIN modes \subseteq Paths /\ WellFormed(tree)
  /\ Pending(todo, DOMAIN modes, DepthOrder(DOMAIN modes))
  /\ \A x \in DOMAIN modes : tree[x] = Dir(IF x \in Range(todo) THEN "open" ELSE modes[x])
  /\ \A x \in Paths : IsDir(tree, x) => x \in DOMAIN modes

LEMMA RestoringStarts ==
  ASSUME NEW tree, NEW modes, Staging(tree, modes)
  PROVE  Restoring(tree, modes, DeepestFirst(DOMAIN modes))
  <1> DEFINE D == DOMAIN modes
  <1>1. D \subseteq Paths /\ tree = [x \in Paths |-> tree[x]] /\ WellFormed(tree)
    BY DEF Staging, Tidy
  <1>2. Pending(DeepestFirst(D), D, DepthOrder(D)) /\ Range(DeepestFirst(D)) = D
    BY <1>1, DepthOrderIs
  <1>3. \A x \in Paths : IsDir(tree, x) => x \in D
    BY SeenKinds DEF Staging
  <1>4. \A x \in D : tree[x] = Dir("open")
    BY DEF Staging, Tidy
  <1> QED BY <1>1, <1>2, <1>3, <1>4 DEF Restoring

LEMMA RestoresMode ==
  ASSUME NEW tree, NEW modes, NEW todo, Restoring(tree, modes, todo), todo # <<>>, NEW d, d = Head(todo)
  PROVE  d \in Paths /\ Reachable(tree, d) /\ Restoring([tree EXCEPT ![d] = Dir(modes[d])], modes, Tail(todo))
  <1> DEFINE D == DOMAIN modes
             order == DepthOrder(D)
             tree2 == [tree EXCEPT ![d] = Dir(modes[d])]
  <1>1. D \subseteq Paths /\ tree = [x \in Paths |-> tree[x]] /\ WellFormed(tree) /\ Pending(todo, D, order)
    BY DEF Restoring
  <1>2. StrictTotal(D, order) /\ \A x, y \in D : Below(x, y) => <<x, y>> \in order
    BY <1>1, DepthOrderIs
  <1>3. /\ d \in D /\ d \in Range(todo) /\ d \notin Range(Tail(todo)) /\ Range(Tail(todo)) = Range(todo) \ {d}
        /\ Pending(Tail(todo), D, order)
        /\ \A x \in D : x \notin Range(todo) => <<x, d>> \in order
    BY <1>1, <1>2, PendingTail
  <1>4. /\ \A x \in D : tree[x] = Dir(IF x \in Range(todo) THEN "open" ELSE modes[x])
        /\ \A x \in Paths : IsDir(tree, x) => x \in D
    BY DEF Restoring
  <1>5. \A m : Dir(m).k = "dir" /\ Dir(m).v = m
    BY DEF Dir, Node
  <1>6. Reachable(tree, d)
    <2>1. IsDir(tree, d)
      BY <1>3, <1>4, <1>5 DEF IsDir
    <2>2. Resolves(tree, d)
      BY <1>1, <1>3, <2>1, ResolvesIs
    <2>3. ASSUME NEW q \in Ancestors(d) \cup {d} PROVE tree[q].v # "closed"
      <3>1. q \in Paths /\ IsDir(tree, q) /\ (q = d \/ Below(d, q))
        BY <1>1, <1>3, <2>2 DEF Resolves, Ancestors
      <3>2. q \in D
        BY <1>4, <3>1
      <3>3. q \in Range(todo)
        <4> SUFFICES ASSUME q \notin Range(todo) PROVE FALSE
          OBVIOUS
        <4>1. <<q, d>> \in order
          BY <1>3, <3>2
        <4>2. <<d, q>> \in order
          BY <1>2, <1>3, <3>1, <3>2
        <4> QED BY <1>2, <1>3, <3>2, <4>1, <4>2 DEF StrictTotal
      <3>4. tree[q] = Dir("open")
        BY <1>4, <3>2, <3>3
      <3> QED BY <1>5, <3>4
    <2> QED BY <2>2, <2>3 DEF Reachable
  <1>7. /\ tree2 = [x \in Paths |-> tree2[x]] /\ tree2[d] = Dir(modes[d])
        /\ \A x \in Paths : x # d => tree2[x] = tree[x]
    BY <1>1, <1>3
  <1> HIDE DEF tree2, order
  <1>8. \A x \in Paths : tree2[x].k = tree[x].k
    BY <1>3, <1>4, <1>5, <1>7
  <1>9. WellFormed(tree2) /\ \A x \in Paths : IsDir(tree2, x) => x \in D
    BY <1>1, <1>4, <1>8, PathAssumption DEF WellFormed, IsDir
  <1>10. \A x \in D : tree2[x] = Dir(IF x \in Range(Tail(todo)) THEN "open" ELSE modes[x])
    BY <1>1, <1>3, <1>4, <1>7
  <1>11. Restoring(tree2, modes, Tail(todo))
    BY <1>1, <1>3, <1>7, <1>9, <1>10 DEF Restoring, order
  <1> QED BY <1>1, <1>3, <1>6, <1>11 DEF tree2

LEMMA Restored ==
  ASSUME NEW tree, NEW modes, Restoring(tree, modes, <<>>)
  PROVE  tree = Seen(tree, modes)
  <1>1. Range(<<>>) = {}
    BY DEF Range
  <1>2. \A x \in Paths : tree[x] = IF x \in DOMAIN modes THEN Dir(modes[x]) ELSE tree[x]
    BY <1>1 DEF Restoring
  <1>3. tree = [x \in Paths |-> tree[x]]
    BY DEF Restoring
  <1> QED BY <1>2, <1>3 DEF Seen

LEMMA RestoreKeepsSeen ==
  ASSUME NEW tree, NEW modes, NEW d \in DOMAIN modes, NEW n, tree = [x \in Paths |-> tree[x]]
  PROVE  Seen([tree EXCEPT ![d] = n], modes) = Seen(tree, modes)
  BY DEF Seen

-----------------------------------------------------------------------------
(***************************************************************************)
(* TreePublish.  A staging tree belongs to the call that made it, every    *)
(* directory of it has a mode to restore, and what a call leaves behind is *)
(* what its end says.                                                      *)
(***************************************************************************)
Fields == {"pc", "work", "recs", "tree", "modes", "todo", "nodes", "staged", "sig", "why"}

(* Before there is a staging tree, and while there is one.                 *)
Early  == {"off", "idle", "serialize", "inspect", "stage"}
Staged == {"copy", "apply", "create", "restore", "cleanup", "CleanupFailed"}

(* Every directory of the tree has a mode that will be restored.           *)
Moded(r) == \A d \in Paths : IsDir(r.tree, d) => d \in DOMAIN r.modes

(* What a publisher knows of itself.  Only an archive's directories are    *)
(* all created by the publisher.                                           *)
Own(r, job) ==
  /\ DOMAIN r = Fields
  /\ r.pc \in Early \cup Staged \cup {"ok", "failed"}
  /\ r.staged \in BOOLEAN /\ (r.staged <=> r.pc \in Staged)
  /\ r.pc \in Early => r.tree = EmptyTree
  /\ job = "archive" => r.pc \notin {"copy", "apply"}
  /\ job = "archive" /\ r.pc \in Staged => DOMAIN r.tree = Paths /\ Moded(r)

(* What is left of a publisher's attempts: one tree while it works on it,  *)
(* one for every crash.                                                    *)
LeftInv(p) ==
  /\ left[p] \in Nat
  /\ IF ps[p].staged THEN left[p] >= 1 /\ left[p] <= crashes + 1 ELSE left[p] <= crashes

PubInv ==
  /\ DOMAIN ps = Procs /\ DOMAIN left = Procs /\ faults \in Nat /\ crashes \in Nat
  /\ \A p \in Procs :
       /\ Own(ps[p], Job(p)) /\ LeftInv(p)
       /\ ps[p].pc = "ok" <=> dest.by = p
       /\ Job(p) = "archive" /\ ps[p].pc = "CleanupFailed" => faults > 0 \/ Barred(ps[p]) # {}

-----------------------------------------------------------------------------
LEMMA RootIsPath == Root \in Paths
  BY PathAssumption

LEMMA FreshIsOwn ==
  ASSUME NEW job, NEW r, DOMAIN r = Fields, r.pc \in {"off", "idle"}, r.tree = EmptyTree,
         r.staged = FALSE
  PROVE  Own(r, job)
  <1>1. r.pc \in Early /\ r.pc \notin Staged /\ r.pc \notin {"copy", "apply"}
    BY DEF Early, Staged
  <1> QED BY <1>1 DEF Own

LEMMA PubInitInv == PubInit => PubInv
  <1> SUFFICES ASSUME PubInit PROVE PubInv
    OBVIOUS
  <1>1. ASSUME NEW p \in Procs
        PROVE  /\ Own(ps[p], Job(p)) /\ ps[p].staged = FALSE /\ ps[p].pc \in {"off", "idle"}
               /\ left[p] = 0 /\ dest.by # p
    <2>1. ps[p] = IF Job(p) = "off" THEN [Fresh EXCEPT !.pc = "off"] ELSE Fresh
      BY DEF PubInit
    <2>2. /\ DOMAIN ps[p] = Fields /\ ps[p].pc \in {"off", "idle"}
          /\ ps[p].tree = EmptyTree /\ ps[p].staged = FALSE
      BY <2>1 DEF Fresh, Fields
    <2>3. left[p] = 0 /\ dest.by = Nobody
      BY DEF PubInit
    <2> QED BY <2>2, <2>3, FreshIsOwn, PublishAssumption
  <1>2. crashes = 0 /\ faults = 0 /\ DOMAIN ps = Procs /\ DOMAIN left = Procs
    BY DEF PubInit
  <1>3. ASSUME NEW p \in Procs PROVE LeftInv(p)
    <2>1. ~ps[p].staged /\ left[p] = 0
      BY <1>1
    <2> QED BY <1>2, <2>1 DEF LeftInv
  <1> QED BY <1>1, <1>2, <1>3 DEF PubInv

(* A publisher goes on without publishing, and keeps its staging tree or   *)
(* its lack of one.                                                        *)
LEMMA GoesOn ==
  ASSUME PubInv, NEW p \in Procs, NEW r, Goes(p, r), Own(r, Job(p)),
         r.staged = ps[p].staged, r.pc \notin {"ok", "CleanupFailed"}, ps[p].pc \notin Ended,
         UNCHANGED <<dest, left, sc, crashes>>, faults' \in Nat, faults' >= faults
  PROVE  PubInv'
  <1>1. DOMAIN ps' = Procs /\ ps'[p] = r /\ \A q \in Procs : q # p => ps'[q] = ps[q]
    BY DEF Goes, PubInv
  <1>2. ASSUME NEW q \in Procs PROVE Job(q)' = Job(q)
    BY DEF Job, This
  <1>3. ASSUME NEW q \in Procs
        PROVE  /\ Own(ps'[q], Job(q)) /\ (LeftInv(q))'
               /\ ps'[q].pc = "ok" <=> dest'.by = q
               /\ Job(q) = "archive" /\ ps'[q].pc = "CleanupFailed" =>
                    faults' > 0 \/ Barred(ps'[q]) # {}
    <2>1. CASE q = p
      BY <1>1, <2>1 DEF PubInv, LeftInv, Ended
    <2>2. CASE q # p
      BY <1>1, <2>2 DEF PubInv, LeftInv
    <2> QED BY <2>1, <2>2
  <1> QED BY <1>1, <1>2, <1>3 DEF PubInv

LEMMA FailedIsOwn ==
  ASSUME PubInv, NEW p \in Procs, NEW r, DOMAIN r = Fields,
         r.pc = IF ps[p].staged THEN "cleanup" ELSE "failed",
         r.tree = ps[p].tree, r.staged = ps[p].staged, r.modes = ps[p].modes
  PROVE  Own(r, Job(p)) /\ r.staged = ps[p].staged /\ r.pc \in {"cleanup", "failed"}
  <1>1. Own(ps[p], Job(p))
    BY DEF PubInv
  <1>2. CASE ps[p].staged
    <2>1. ps[p].pc \in Staged /\ r.pc = "cleanup"
      BY <1>1, <1>2 DEF Own
    <2>2. "cleanup" \in Staged /\ "cleanup" \notin Early
      BY DEF Staged, Early
    <2> QED BY <1>1, <2>1, <2>2 DEF Own, Moded
  <1>3. CASE ~ps[p].staged
    <2>1. ps[p].pc \notin Staged /\ r.pc = "failed"
      BY <1>1, <1>3 DEF Own
    <2>2. "failed" \notin Staged /\ "failed" \notin Early
      BY DEF Staged, Early
    <2> QED BY <1>1, <2>1, <2>2 DEF Own
  <1> QED BY <1>2, <1>3

LEMMA FailsStep ==
  ASSUME PubInv, NEW p \in Procs, ps[p].pc \notin Ended, NEW why, Fails(p, why),
         UNCHANGED <<dest, left, sc, crashes>>, faults' \in Nat, faults' >= faults
  PROVE  PubInv'
  <1> DEFINE r == [ps[p] EXCEPT !.pc = IF ps[p].staged THEN "cleanup" ELSE "failed", !.why = why]
  <1>1. Goes(p, r)
    BY DEF Fails, Goes
  <1>2. /\ DOMAIN r = Fields /\ r.pc = IF ps[p].staged THEN "cleanup" ELSE "failed"
        /\ r.tree = ps[p].tree /\ r.staged = ps[p].staged /\ r.modes = ps[p].modes
    <2>1. DOMAIN ps[p] = Fields
      BY DEF PubInv, Own
    <2> QED BY <2>1 DEF Fields
  <1> HIDE DEF r
  <1>3. Own(r, Job(p)) /\ r.staged = ps[p].staged /\ r.pc \in {"cleanup", "failed"}
    BY <1>2, FailedIsOwn
  <1>4. r.pc \notin {"ok", "CleanupFailed"}
    BY <1>3
  <1> QED BY <1>1, <1>3, <1>4, GoesOn

(* A step of a publisher that goes on or fails, as all but the last do.    *)
LEMMA GoesOrFails ==
  ASSUME PubInv, NEW p \in Procs, NEW r, Goes(p, r) \/ \E why : Fails(p, why),
         Own(r, Job(p)), r.staged = ps[p].staged, r.pc \notin {"ok", "CleanupFailed"},
         ps[p].pc \notin Ended, UNCHANGED <<dest, left, faults>>, Rest
  PROVE  PubInv'
  <1>1. faults' \in Nat /\ faults' >= faults /\ UNCHANGED <<dest, left, sc, crashes>>
    BY DEF PubInv, Rest
  <1>2. CASE Goes(p, r)
    BY <1>1, <1>2, GoesOn
  <1>3. ASSUME NEW why, Fails(p, why) PROVE PubInv'
    BY <1>1, <1>3, FailsStep
  <1> QED BY <1>2, <1>3

(* A call that fails ends the attempt it is part of.                       *)
LEMMA FailedCall ==
  ASSUME PubInv, NEW p \in Procs, ps[p].pc \notin Ended,
         CallFails /\ Fails(p, "io") /\ UNCHANGED <<dest, left>>, Rest
  PROVE  PubInv'
  <1>1. faults' \in Nat /\ faults' >= faults /\ UNCHANGED <<sc, crashes>>
    BY DEF PubInv, Rest, CallFails
  <1> QED BY <1>1, FailsStep

(* Of a record whose state changes, and nothing else that matters.         *)
LEMMA MovedIsOwn ==
  ASSUME PubInv, NEW p \in Procs, NEW r, DOMAIN r = Fields,
         r.tree = ps[p].tree, r.modes = ps[p].modes, r.staged = ps[p].staged,
         \/ ps[p].pc \in Early /\ r.pc \in Early
         \/ ps[p].pc \in Staged /\ r.pc \in Staged,
         Job(p) = "archive" => r.pc \notin {"copy", "apply"}
  PROVE  Own(r, Job(p))
  <1>1. Early \cap Staged = {}
    BY DEF Early, Staged
  <1>2. Own(ps[p], Job(p))
    BY DEF PubInv
  <1> QED BY <1>1, <1>2 DEF Own, Moded

-----------------------------------------------------------------------------
(* Until there is a staging tree.                                          *)

LEMMA BeginsStep ==
  ASSUME PubInv, NEW p \in Procs, ps[p].pc = "idle", Begins(p) \/ \E why : Fails(p, why),
         UNCHANGED <<dest, left, faults>>, Rest
  PROVE  PubInv'
  <1> DEFINE r == [ps[p] EXCEPT !.pc = "inspect", !.nodes = Len(Diff) + 1]
  <1>1. Goes(p, r) \/ \E why : Fails(p, why)
    BY DEF Begins
  <1>2. /\ DOMAIN r = Fields /\ r.tree = ps[p].tree /\ r.modes = ps[p].modes
        /\ r.staged = ps[p].staged /\ r.pc = "inspect"
    <2>1. DOMAIN ps[p] = Fields
      BY DEF PubInv, Own
    <2> QED BY <2>1 DEF Fields
  <1> HIDE DEF r
  <1>3. r.pc \in Early /\ ps[p].pc \in Early /\ ps[p].pc \notin Ended
    BY <1>2 DEF Early, Ended
  <1>4. Own(r, Job(p))
    BY <1>2, <1>3, MovedIsOwn
  <1> QED BY <1>1, <1>2, <1>3, <1>4, GoesOrFails

LEMMA ReplayBeginsStep ==
  ASSUME PubInv, NEW p \in Procs, ApplyCowDiff(p) \/ ApplyBound(p) \/ PublishCowVolume(p)
  PROVE  PubInv'
  <1>1. Begins(p) \/ \E why : Fails(p, why)
    BY DEF ApplyCowDiff, ApplyBound, PublishCowVolume, ApplyWithExpectedBase
  <1>2. ps[p].pc = "idle" /\ UNCHANGED <<dest, left, faults>> /\ Rest
    BY DEF ApplyCowDiff, ApplyBound, PublishCowVolume
  <1> QED BY <1>1, <1>2, BeginsStep

LEMMA InspectStep ==
  ASSUME PubInv, NEW p \in Procs, InspectDestination(p)
  PROVE  PubInv'
  <1> DEFINE r == [ps[p] EXCEPT !.pc = "stage"]
  <1>1. /\ Goes(p, r) \/ \E why : Fails(p, why)
        /\ ps[p].pc = "inspect" /\ UNCHANGED <<dest, left, faults>> /\ Rest
    BY DEF InspectDestination
  <1>2. /\ DOMAIN r = Fields /\ r.tree = ps[p].tree /\ r.modes = ps[p].modes
        /\ r.staged = ps[p].staged /\ r.pc = "stage"
    <2>1. DOMAIN ps[p] = Fields
      BY DEF PubInv, Own
    <2> QED BY <2>1 DEF Fields
  <1> HIDE DEF r
  <1>3. r.pc \in Early /\ ps[p].pc \in Early /\ ps[p].pc \notin Ended
    BY <1>1, <1>2 DEF Early, Ended
  <1>4. Own(r, Job(p))
    BY <1>2, <1>3, MovedIsOwn
  <1> QED BY <1>1, <1>2, <1>3, <1>4, GoesOrFails

LEMMA SerializeBeginsStep ==
  ASSUME PubInv, NEW p \in Procs, SerializeSnapshot(p)
  PROVE  PubInv'
  <1> DEFINE r == [ps[p] EXCEPT !.pc = "serialize", !.work = <<Root>>, !.nodes = 1]
  <1>1. /\ Goes(p, r) /\ ps[p].pc = "idle" /\ UNCHANGED <<dest, left, faults>> /\ Rest
    BY DEF SerializeSnapshot
  <1>2. /\ DOMAIN r = Fields /\ r.tree = ps[p].tree /\ r.modes = ps[p].modes
        /\ r.staged = ps[p].staged /\ r.pc = "serialize"
    <2>1. DOMAIN ps[p] = Fields
      BY DEF PubInv, Own
    <2> QED BY <2>1 DEF Fields
  <1> HIDE DEF r
  <1>3. r.pc \in Early /\ ps[p].pc \in Early /\ ps[p].pc \notin Ended
    BY <1>1, <1>2 DEF Early, Ended
  <1>4. Own(r, Job(p))
    BY <1>2, <1>3, MovedIsOwn
  <1> QED BY <1>1, <1>2, <1>3, <1>4, GoesOrFails

LEMMA MaterializeStep ==
  ASSUME PubInv, NEW p \in Procs, MaterializeArchive(p)
  PROVE  PubInv'
  <1>1. PICK sig \in {"none", "good", "bad"} :
          /\ Goes(p, [ps[p] EXCEPT !.pc = "inspect", !.sig = sig]) \/ \E why : Fails(p, why)
          /\ ps[p].pc = "serialize" /\ UNCHANGED <<dest, left, faults>> /\ Rest
    BY DEF MaterializeArchive
  <1> DEFINE r == [ps[p] EXCEPT !.pc = "inspect", !.sig = sig]
  <1>2. /\ DOMAIN r = Fields /\ r.tree = ps[p].tree /\ r.modes = ps[p].modes
        /\ r.staged = ps[p].staged /\ r.pc = "inspect"
    <2>1. DOMAIN ps[p] = Fields
      BY DEF PubInv, Own
    <2> QED BY <2>1 DEF Fields
  <1>3. Goes(p, r) \/ \E why : Fails(p, why)
    BY <1>1
  <1> HIDE DEF r
  <1>4. r.pc \in Early /\ ps[p].pc \in Early /\ ps[p].pc \notin Ended
    BY <1>1, <1>2 DEF Early, Ended
  <1>5. Own(r, Job(p))
    BY <1>2, <1>4, MovedIsOwn
  <1> QED BY <1>1, <1>2, <1>3, <1>4, <1>5, GoesOrFails

LEMMA SerializeStep ==
  ASSUME PubInv, NEW p \in Procs, SerializeNext(p)
  PROVE  PubInv'
  <1> DEFINE x == Head(ps[p].work)
             more == IF base[x].k = "dir" THEN Names(x) ELSE <<>>
             r == [ps[p] EXCEPT !.work = more \o Tail(@), !.nodes = @ + Len(more),
                                !.recs = Append(@, [path |-> x, node |-> base[x]])]
  <1>1. /\ ps[p].pc = "serialize" /\ Rest
        /\ \/ /\ Goes(p, r) \/ \E why : Fails(p, why)
              /\ UNCHANGED <<dest, left, faults>>
           \/ CallFails /\ Fails(p, "io") /\ UNCHANGED <<dest, left>>
    BY DEF SerializeNext, Attempt
  <1>2. /\ DOMAIN r = Fields /\ r.tree = ps[p].tree /\ r.modes = ps[p].modes
        /\ r.staged = ps[p].staged /\ r.pc = ps[p].pc
    <2> HIDE DEF x, more
    <2>1. DOMAIN ps[p] = Fields
      BY DEF PubInv, Own
    <2> QED BY <2>1 DEF Fields
  <1> HIDE DEF r
  <1>3. r.pc \in Early /\ ps[p].pc \in Early /\ ps[p].pc \notin Ended
    BY <1>1, <1>2 DEF Early, Ended
  <1>4. Own(r, Job(p)) /\ r.pc \notin {"ok", "CleanupFailed"}
    BY <1>1, <1>2, <1>3, MovedIsOwn
  <1> QED BY <1>1, <1>2, <1>3, <1>4, GoesOrFails, FailedCall

(* A staging tree is made, and nothing else changes but its number.        *)
LEMMA Stages ==
  ASSUME PubInv, NEW p \in Procs, NEW r, Goes(p, r), Own(r, Job(p)), r.staged = TRUE,
         ps[p].staged = FALSE, r.pc \notin {"ok", "CleanupFailed"}, ps[p].pc \notin Ended,
         left' = [left EXCEPT ![p] = @ + 1], UNCHANGED <<dest, faults>>, Rest
  PROVE  PubInv'
  <1>1. DOMAIN ps' = Procs /\ ps'[p] = r /\ \A q \in Procs : q # p => ps'[q] = ps[q]
    BY DEF Goes, PubInv
  <1>2. ASSUME NEW q \in Procs PROVE Job(q)' = Job(q)
    BY DEF Job, This, Rest
  <1>3. /\ DOMAIN left' = Procs /\ left'[p] = left[p] + 1
        /\ \A q \in Procs : q # p => left'[q] = left[q]
    BY DEF PubInv
  <1>4. left[p] \in Nat /\ left[p] <= crashes /\ crashes \in Nat /\ crashes' = crashes
    BY DEF PubInv, LeftInv, Rest
  <1>5. ASSUME NEW q \in Procs
        PROVE  /\ Own(ps'[q], Job(q)) /\ (LeftInv(q))'
               /\ ps'[q].pc = "ok" <=> dest'.by = q
               /\ Job(q) = "archive" /\ ps'[q].pc = "CleanupFailed" =>
                    faults' > 0 \/ Barred(ps'[q]) # {}
    <2>1. CASE q = p
      <3>1. (LeftInv(p))'
        BY <1>1, <1>3, <1>4 DEF LeftInv
      <3> QED BY <1>1, <2>1, <3>1 DEF PubInv, Ended
    <2>2. CASE q # p
      BY <1>1, <1>3, <1>4, <2>2 DEF PubInv, LeftInv
    <2> QED BY <2>1, <2>2
  <1> QED BY <1>1, <1>2, <1>3, <1>4, <1>5 DEF PubInv

LEMMA EmptyTreeIsModed ==
  /\ DOMAIN EmptyTree = Paths
  /\ \A d \in Paths : IsDir(EmptyTree, d) => d = Root
  BY DEF EmptyTree, IsDir, Nothing, Dir, Node

LEMMA StagingStep ==
  ASSUME PubInv, NEW p \in Procs, CreateStaging(p)
  PROVE  PubInv'
  <1> DEFINE created == [ps[p] EXCEPT !.staged = TRUE, !.pc = "create", !.todo = Tail(ps[p].recs),
                                      !.modes = SetMode(@, Root, ps[p].recs[1].node.v)]
             copied == [ps[p] EXCEPT !.staged = TRUE, !.pc = "copy", !.work = <<Root>>]
             r == IF Job(p) = "archive" THEN created ELSE copied
  <1>1. /\ ps[p].pc = "stage" /\ Rest
        /\ \/ Fails(p, "names") /\ UNCHANGED <<dest, left, faults>>
           \/ left' = [left EXCEPT ![p] = @ + 1] /\ UNCHANGED <<dest, faults>> /\ Goes(p, r)
           \/ CallFails /\ Fails(p, "io") /\ UNCHANGED <<dest, left>>
    BY DEF CreateStaging, Attempt
  <1>2. DOMAIN ps[p] = Fields /\ ps[p].tree = EmptyTree /\ ps[p].staged = FALSE /\ ps[p].pc \notin Ended
    BY <1>1 DEF PubInv, Own, Early, Staged, Ended
  <1>3. CASE Fails(p, "names") /\ UNCHANGED <<dest, left, faults>>
    <2>1. faults' \in Nat /\ faults' >= faults /\ UNCHANGED <<sc, crashes>>
      BY <1>1, <1>3 DEF PubInv, Rest
    <2> QED BY <1>2, <1>3, <2>1, FailsStep
  <1>4. CASE CallFails /\ Fails(p, "io") /\ UNCHANGED <<dest, left>>
    BY <1>1, <1>2, <1>4, FailedCall
  <1>5. CASE left' = [left EXCEPT ![p] = @ + 1] /\ UNCHANGED <<dest, faults>> /\ Goes(p, r)
    <2>1. /\ DOMAIN created = Fields /\ created.tree = EmptyTree /\ created.staged = TRUE
          /\ created.pc = "create" /\ created.modes = SetMode(ps[p].modes, Root, ps[p].recs[1].node.v)
      BY <1>2 DEF Fields
    <2>2. /\ DOMAIN copied = Fields /\ copied.tree = EmptyTree /\ copied.staged = TRUE
          /\ copied.pc = "copy"
      BY <1>2 DEF Fields
    <2> HIDE DEF created, copied
    <2>3. "create" \in Staged /\ "copy" \in Staged /\ "create" \notin Early /\ "copy" \notin Early
      BY DEF Staged, Early
    <2>4. CASE Job(p) = "archive"
      <3>1. Root \in DOMAIN created.modes
        BY <2>1 DEF SetMode
      <3>2. Moded(created)
        BY <2>1, <3>1, EmptyTreeIsModed DEF Moded
      <3>3. Own(created, Job(p))
        BY <2>1, <2>3, <3>2, EmptyTreeIsModed DEF Own
      <3>4. r = created
        BY <2>4
      <3> HIDE DEF r
      <3> QED BY <1>1, <1>2, <1>5, <2>1, <3>3, <3>4, Stages
    <2>5. CASE Job(p) # "archive"
      <3>1. Own(copied, Job(p))
        BY <2>2, <2>3, <2>5 DEF Own
      <3>2. r = copied
        BY <2>5
      <3> HIDE DEF r
      <3> QED BY <1>1, <1>2, <1>5, <2>2, <3>1, <3>2, Stages
    <2> QED BY <2>4, <2>5
  <1> QED BY <1>1, <1>3, <1>4, <1>5

-----------------------------------------------------------------------------
(* With a staging tree.                                                    *)

(* Replay never works on an archive, of whose trees alone more is known.   *)
LEMMA ReplayIsOwn ==
  ASSUME PubInv, NEW p \in Procs, ps[p].pc \in {"copy", "apply"},
         NEW r, DOMAIN r = Fields, r.staged = ps[p].staged, r.pc \in {"copy", "apply"}
  PROVE  Own(r, Job(p)) /\ ps[p].pc \notin Ended
  <1>1. Own(ps[p], Job(p)) /\ {"copy", "apply"} \subseteq Staged /\ {"copy", "apply"} \cap Early = {}
    BY DEF PubInv, Staged, Early
  <1> QED BY <1>1 DEF Own, Ended

LEMMA CopyStep ==
  ASSUME PubInv, NEW p \in Procs, CopyNext(p)
  PROVE  PubInv'
  <1> DEFINE x == Head(ps[p].work)
             n == base[x]
             leaf == [ps[p] EXCEPT !.work = Tail(@), !.tree[x] = n]
             dir == [ps[p] EXCEPT !.work = Names(x) \o Tail(@), !.tree[x] = Dir("open"),
                                  !.modes = SetMode(@, x, n.v), !.nodes = @ + Len(Names(x))]
             r == IF n.k # "dir" THEN leaf ELSE dir
  <1>1. /\ ps[p].pc = "copy" /\ Rest
        /\ \/ /\ Goes(p, r) \/ \E why : Fails(p, why)
              /\ UNCHANGED <<dest, left, faults>>
           \/ CallFails /\ Fails(p, "io") /\ UNCHANGED <<dest, left>>
    BY DEF CopyNext, Attempt
  <1>2. DOMAIN ps[p] = Fields
    BY DEF PubInv, Own
  <1> HIDE DEF x, n
  <1>3. DOMAIN leaf = Fields /\ leaf.staged = ps[p].staged /\ leaf.pc = ps[p].pc
    BY <1>2 DEF Fields
  <1>4. DOMAIN dir = Fields /\ dir.staged = ps[p].staged /\ dir.pc = ps[p].pc
    BY <1>2 DEF Fields
  <1> HIDE DEF leaf, dir
  <1>5. DOMAIN r = Fields /\ r.staged = ps[p].staged /\ r.pc = "copy"
    BY <1>1, <1>3, <1>4
  <1> HIDE DEF r
  <1>6. Own(r, Job(p)) /\ ps[p].pc \notin Ended
    BY <1>1, <1>5, ReplayIsOwn
  <1> QED BY <1>1, <1>5, <1>6, GoesOrFails, FailedCall

LEMMA FinishCopyStep ==
  ASSUME PubInv, NEW p \in Procs, FinishCopy(p)
  PROVE  PubInv'
  <1> DEFINE r == [ps[p] EXCEPT !.pc = "apply", !.todo = Diff]
  <1>1. /\ Goes(p, r) \/ \E why : Fails(p, why)
        /\ ps[p].pc = "copy" /\ UNCHANGED <<dest, left, faults>> /\ Rest
    BY DEF FinishCopy
  <1>2. DOMAIN r = Fields /\ r.staged = ps[p].staged /\ r.pc = "apply"
    <2>1. DOMAIN ps[p] = Fields
      BY DEF PubInv, Own
    <2> QED BY <2>1 DEF Fields
  <1> HIDE DEF r
  <1>3. Own(r, Job(p)) /\ ps[p].pc \notin Ended
    BY <1>1, <1>2, ReplayIsOwn
  <1> QED BY <1>1, <1>2, <1>3, GoesOrFails

LEMMA ApplyStep ==
  ASSUME PubInv, NEW p \in Procs, ApplyNext(p)
  PROVE  PubInv'
  <1> DEFINE a == ApplyEntry(ps[p].tree, ps[p].modes, Head(ps[p].todo))
             r == [ps[p] EXCEPT !.todo = Tail(@), !.tree = a.tree, !.modes = a.modes]
  <1>1. /\ ps[p].pc = "apply" /\ Rest
        /\ \/ /\ Goes(p, r) \/ \E why : Fails(p, why)
              /\ UNCHANGED <<dest, left, faults>>
           \/ CallFails /\ Fails(p, "io") /\ UNCHANGED <<dest, left>>
    BY DEF ApplyNext, Attempt
  <1> HIDE DEF a
  <1>2. DOMAIN r = Fields /\ r.staged = ps[p].staged /\ r.pc = "apply"
    <2>1. DOMAIN ps[p] = Fields
      BY DEF PubInv, Own
    <2> QED BY <1>1, <2>1 DEF Fields
  <1> HIDE DEF r
  <1>3. Own(r, Job(p)) /\ ps[p].pc \notin Ended
    BY <1>1, <1>2, ReplayIsOwn
  <1> QED BY <1>1, <1>2, <1>3, GoesOrFails, FailedCall

(* A directory that is created is given a mode to restore; nothing else    *)
(* becomes one.                                                            *)
LEMMA CreateStep ==
  ASSUME PubInv, NEW p \in Procs, CreateNext(p)
  PROVE  PubInv'
  <1> DEFINE x == Head(ps[p].todo).path
             n == Head(ps[p].todo).node
             dir == [ps[p] EXCEPT !.todo = Tail(@), !.tree[x] = Dir("open"), !.modes = SetMode(@, x, n.v)]
             leaf == [ps[p] EXCEPT !.todo = Tail(@), !.tree[x] = n]
             r == IF n.k = "dir" THEN dir ELSE leaf
  <1>1. /\ ps[p].pc = "create" /\ Rest
        /\ \/ /\ Goes(p, r) \/ \E why : Fails(p, why)
              /\ UNCHANGED <<dest, left, faults>>
           \/ CallFails /\ Fails(p, "io") /\ UNCHANGED <<dest, left>>
    BY DEF CreateNext, Attempt
  <1>2. DOMAIN ps[p] = Fields /\ Own(ps[p], Job(p)) /\ ps[p].pc \notin Ended
    BY <1>1 DEF PubInv, Own, Ended
  <1> HIDE DEF x, n
  <1>3. /\ DOMAIN dir = Fields /\ dir.staged = ps[p].staged /\ dir.pc = ps[p].pc
        /\ dir.tree = [ps[p].tree EXCEPT ![x] = Dir("open")] /\ dir.modes = SetMode(ps[p].modes, x, n.v)
    BY <1>2 DEF Fields
  <1>4. /\ DOMAIN leaf = Fields /\ leaf.staged = ps[p].staged /\ leaf.pc = ps[p].pc
        /\ leaf.tree = [ps[p].tree EXCEPT ![x] = n] /\ leaf.modes = ps[p].modes
    BY <1>2 DEF Fields
  <1> HIDE DEF leaf, dir
  <1>5. DOMAIN r = Fields /\ r.staged = ps[p].staged /\ r.pc = "create"
    BY <1>1, <1>3, <1>4
  <1>6. "create" \in Staged /\ "create" \notin Early
    BY DEF Staged, Early
  <1>7. ASSUME Job(p) = "archive" PROVE DOMAIN r.tree = Paths /\ Moded(r)
    <2>1. DOMAIN ps[p].tree = Paths /\ Moded(ps[p])
      BY <1>1, <1>2, <1>6, <1>7 DEF Own
    <2>2. CASE n.k = "dir"
      <3>1. r = dir
        BY <2>2
      <3>2. DOMAIN dir.modes = DOMAIN ps[p].modes \cup {x}
        BY <1>3 DEF SetMode
      <3> QED BY <1>3, <2>1, <3>1, <3>2 DEF Moded, IsDir
    <2>3. CASE n.k # "dir"
      <3>1. r = leaf
        BY <2>3
      <3> QED BY <1>4, <2>1, <2>3, <3>1 DEF Moded, IsDir
    <2> QED BY <2>2, <2>3
  <1> HIDE DEF r
  <1>8. Own(r, Job(p))
    BY <1>1, <1>2, <1>5, <1>6, <1>7 DEF Own
  <1> QED BY <1>1, <1>2, <1>5, <1>8, GoesOrFails, FailedCall

LEMMA StartRestoreStep ==
  ASSUME PubInv, NEW p \in Procs, StartRestore(p)
  PROVE  PubInv'
  <1> DEFINE r == [ps[p] EXCEPT !.pc = "restore", !.todo = DeepestFirst(DOMAIN ps[p].modes)]
  <1>1. /\ Goes(p, r) /\ ps[p].pc \in {"apply", "create"} /\ UNCHANGED <<dest, left, faults>> /\ Rest
    BY DEF StartRestore
  <1>2. /\ DOMAIN r = Fields /\ r.tree = ps[p].tree /\ r.modes = ps[p].modes
        /\ r.staged = ps[p].staged /\ r.pc = "restore"
    <2>1. DOMAIN ps[p] = Fields
      BY DEF PubInv, Own
    <2> QED BY <2>1 DEF Fields
  <1> HIDE DEF r
  <1>3. r.pc \in Staged /\ ps[p].pc \in Staged /\ ps[p].pc \notin Ended
    BY <1>1, <1>2 DEF Staged, Ended
  <1>4. Own(r, Job(p)) /\ r.pc \notin {"ok", "CleanupFailed"}
    BY <1>2, <1>3, MovedIsOwn
  <1> QED BY <1>1, <1>2, <1>3, <1>4, GoesOrFails

(* Only a directory of the tree is given its mode.                         *)
LEMMA RestoreStep ==
  ASSUME PubInv, NEW p \in Procs, RestoreNext(p)
  PROVE  PubInv'
  <1> DEFINE d == Head(ps[p].todo)
             r == [ps[p] EXCEPT !.todo = Tail(@), !.tree[d] = Dir(ps[p].modes[d])]
  <1>1. /\ ps[p].pc = "restore" /\ Rest
        /\ \/ /\ (Goes(p, r) /\ IsDir(ps[p].tree, d)) \/ \E why : Fails(p, why)
              /\ UNCHANGED <<dest, left, faults>>
           \/ CallFails /\ Fails(p, "io") /\ UNCHANGED <<dest, left>>
    BY DEF RestoreNext, Attempt, Reachable, Resolves
  <1>2. DOMAIN ps[p] = Fields /\ Own(ps[p], Job(p)) /\ ps[p].pc \notin Ended
    BY <1>1 DEF PubInv, Own, Ended
  <1> HIDE DEF d
  <1>3. /\ DOMAIN r = Fields /\ r.staged = ps[p].staged /\ r.pc = "restore"
        /\ r.tree = [ps[p].tree EXCEPT ![d] = Dir(ps[p].modes[d])] /\ r.modes = ps[p].modes
    BY <1>1, <1>2 DEF Fields
  <1>4. "restore" \in Staged /\ "restore" \notin Early
    BY DEF Staged, Early
  <1> HIDE DEF r
  <1>5. CASE Goes(p, r) /\ IsDir(ps[p].tree, d) /\ UNCHANGED <<dest, left, faults>>
    <2>1. ASSUME Job(p) = "archive" PROVE DOMAIN r.tree = Paths /\ Moded(r)
      <3>1. DOMAIN ps[p].tree = Paths /\ Moded(ps[p])
        BY <1>1, <1>2, <1>4, <2>1 DEF Own
      <3> QED BY <1>3, <1>5, <3>1 DEF Moded, IsDir
    <2>2. Own(r, Job(p))
      BY <1>1, <1>2, <1>3, <1>4, <2>1 DEF Own
    <2> QED BY <1>1, <1>2, <1>3, <1>5, <2>2, GoesOrFails
  <1>6. ASSUME NEW why, Fails(p, why), UNCHANGED <<dest, left, faults>> PROVE PubInv'
    <2>1. faults' \in Nat /\ faults' >= faults /\ UNCHANGED <<sc, crashes>>
      BY <1>1, <1>6 DEF PubInv, Rest
    <2> QED BY <1>2, <1>6, <2>1, FailsStep
  <1> QED BY <1>1, <1>2, <1>5, <1>6, FailedCall

-----------------------------------------------------------------------------
(* How a call ends.                                                        *)

(* Nobody else's call ends by what one publisher does.                     *)
LEMMA OthersKeep ==
  ASSUME PubInv, NEW p \in Procs, NEW r, Goes(p, r), UNCHANGED sc,
         Own(r, Job(p)), DOMAIN left' = Procs, (LeftInv(p))',
         \A q \in Procs : q # p => left'[q] = left[q] /\ (dest'.by = q <=> dest.by = q),
         r.pc = "ok" <=> dest'.by = p,
         Job(p) = "archive" /\ r.pc = "CleanupFailed" => faults' > 0 \/ Barred(r) # {},
         faults' \in Nat, faults' >= faults, crashes' \in Nat, crashes' >= crashes
  PROVE  PubInv'
  <1>1. DOMAIN ps' = Procs /\ ps'[p] = r /\ \A q \in Procs : q # p => ps'[q] = ps[q]
    BY DEF Goes, PubInv
  <1>2. ASSUME NEW q \in Procs PROVE Job(q)' = Job(q)
    BY DEF Job, This
  <1>3. ASSUME NEW q \in Procs, q # p
        PROVE  /\ Own(ps'[q], Job(q)) /\ (LeftInv(q))'
               /\ ps'[q].pc = "ok" <=> dest'.by = q
               /\ Job(q) = "archive" /\ ps'[q].pc = "CleanupFailed" =>
                    faults' > 0 \/ Barred(ps'[q]) # {}
    <2>1. Own(ps[q], Job(q)) /\ LeftInv(q) /\ ps'[q] = ps[q] /\ left'[q] = left[q]
      BY <1>1, <1>3 DEF PubInv
    <2>2. crashes \in Nat /\ faults \in Nat
      BY DEF PubInv
    <2>3. (LeftInv(q))'
      BY <2>1, <2>2 DEF LeftInv
    <2> QED BY <1>3, <2>1, <2>2, <2>3 DEF PubInv
  <1>4. ASSUME NEW q \in Procs
        PROVE  /\ Own(ps'[q], Job(q)) /\ (LeftInv(q))'
               /\ ps'[q].pc = "ok" <=> dest'.by = q
               /\ Job(q) = "archive" /\ ps'[q].pc = "CleanupFailed" =>
                    faults' > 0 \/ Barred(ps'[q]) # {}
    BY <1>1, <1>3
  <1> QED BY <1>1, <1>2, <1>4 DEF PubInv

LEMMA PublishStep ==
  ASSUME PubInv, NEW p \in Procs, AtomicPublish(p)
  PROVE  PubInv'
  <1> DEFINE r == [ps[p] EXCEPT !.pc = "ok", !.staged = FALSE]
  <1>1. /\ ps[p].pc = "restore" /\ Rest
        /\ \/ Fails(p, "appeared") /\ UNCHANGED <<dest, left, faults>>
           \/ /\ dest.by = Nobody /\ dest' = [tree |-> ps[p].tree, by |-> p]
              /\ left' = [left EXCEPT ![p] = @ - 1] /\ Goes(p, r) /\ UNCHANGED faults
           \/ CallFails /\ Fails(p, "io") /\ UNCHANGED <<dest, left>>
    BY DEF AtomicPublish, Attempt, RenameNoReplace
  <1>2. /\ DOMAIN ps[p] = Fields /\ ps[p].staged /\ ps[p].pc \notin Ended
        /\ faults \in Nat /\ crashes \in Nat /\ UNCHANGED <<sc, crashes>>
    BY <1>1 DEF PubInv, Own, Staged, Ended, Rest
  <1>3. DOMAIN r = Fields /\ r.pc = "ok" /\ r.staged = FALSE
    BY <1>2 DEF Fields
  <1> HIDE DEF r
  <1>4. CASE Fails(p, "appeared") /\ UNCHANGED <<dest, left, faults>>
    BY <1>2, <1>4, FailsStep
  <1>5. CASE CallFails /\ Fails(p, "io") /\ UNCHANGED <<dest, left>>
    BY <1>1, <1>2, <1>5, FailedCall
  <1>6. CASE /\ dest.by = Nobody /\ dest' = [tree |-> ps[p].tree, by |-> p]
             /\ left' = [left EXCEPT ![p] = @ - 1] /\ Goes(p, r) /\ UNCHANGED faults
    <2>1. Own(r, Job(p))
      <3>1. "ok" \notin Staged /\ "ok" \notin Early
        BY DEF Staged, Early
      <3> QED BY <1>3, <3>1 DEF Own
    <2>2. DOMAIN left' = Procs /\ left'[p] = left[p] - 1 /\ \A q \in Procs : q # p => left'[q] = left[q]
      BY <1>6 DEF PubInv
    <2>3. dest'.by = p /\ \A q \in Procs : q # p => dest'.by # q /\ dest.by # q
      BY <1>6, PublishAssumption
    <2>4. left[p] \in Nat /\ left[p] >= 1 /\ left[p] <= crashes + 1
      BY <1>2 DEF PubInv, LeftInv
    <2>5. ps'[p] = r
      BY <1>6 DEF Goes, PubInv
    <2>6. (LeftInv(p))'
      BY <1>2, <1>3, <2>2, <2>4, <2>5 DEF LeftInv
    <2> QED BY <1>2, <1>3, <1>6, <2>1, <2>2, <2>3, <2>6, OthersKeep
  <1> QED BY <1>1, <1>4, <1>5, <1>6

(* A tree whose directories are all open to their owner can be removed.     *)
LEMMA RehardenedIsRemovable ==
  ASSUME NEW r, DOMAIN r.tree = Paths, Moded(r)
  PROVE  Removable(RehardenDirectories(r))
  <1> SUFFICES ASSUME NEW d \in Paths, IsDir(RehardenDirectories(r), d)
               PROVE  RehardenDirectories(r)[d].v = "open"
    BY DEF Removable
  <1>1. RehardenDirectories(r)[d] = IF d \in DOMAIN r.modes THEN Dir("open") ELSE r.tree[d]
    BY DEF RehardenDirectories
  <1>2. d \in DOMAIN r.modes
    BY <1>1 DEF IsDir, Moded
  <1> QED BY <1>1, <1>2 DEF Dir, Node

LEMMA CleanupStep ==
  ASSUME PubInv, NEW p \in Procs, Cleanup(p)
  PROVE  PubInv'
  <1>1. /\ ps[p].pc = "cleanup" /\ (RemoveStaging(p) \/ CleanupFails(p))
        /\ UNCHANGED <<dest, sc, crashes>>
    BY DEF Cleanup, Rest
  <1>2. /\ DOMAIN ps[p] = Fields /\ Own(ps[p], Job(p)) /\ ps[p].staged
        /\ left[p] \in Nat /\ left[p] >= 1 /\ left[p] <= crashes + 1
        /\ faults \in Nat /\ crashes \in Nat /\ dest.by # p /\ DOMAIN left = Procs
    <2>1. Own(ps[p], Job(p)) /\ LeftInv(p) /\ (ps[p].pc = "ok" <=> dest.by = p)
      BY DEF PubInv
    <2>2. DOMAIN ps[p] = Fields /\ ps[p].staged
      BY <1>1, <2>1 DEF Own, Staged
    <2> QED BY <1>1, <2>1, <2>2 DEF PubInv, LeftInv
  <1>3. "failed" \notin Staged /\ "failed" \notin Early
    BY DEF Staged, Early
  <1>4. "CleanupFailed" \in Staged /\ "CleanupFailed" \notin Early /\ "cleanup" \in Staged
    BY DEF Staged, Early
  <1>5. CASE RemoveStaging(p)
    <2> DEFINE r == [ps[p] EXCEPT !.pc = "failed", !.staged = FALSE]
    <2>1. Goes(p, r) /\ left' = [left EXCEPT ![p] = @ - 1] /\ UNCHANGED faults
      BY <1>5 DEF RemoveStaging
    <2>2. DOMAIN r = Fields /\ r.pc = "failed" /\ r.staged = FALSE
      BY <1>2 DEF Fields
    <2> HIDE DEF r
    <2>3. Own(r, Job(p))
      BY <1>3, <2>2 DEF Own
    <2>4. DOMAIN left' = Procs /\ left'[p] = left[p] - 1 /\ \A q \in Procs : q # p => left'[q] = left[q]
      BY <1>2, <2>1
    <2>5. ps'[p] = r
      BY <2>1 DEF Goes, PubInv
    <2>6. (LeftInv(p))'
      BY <1>1, <1>2, <2>2, <2>4, <2>5 DEF LeftInv
    <2> QED BY <1>1, <1>2, <2>1, <2>2, <2>3, <2>4, <2>6, OthersKeep
  <1>6. CASE CleanupFails(p)
    <2> DEFINE r == [ps[p] EXCEPT !.pc = "CleanupFailed"]
    <2>1. /\ Goes(p, r) /\ UNCHANGED left /\ faults' \in Nat /\ faults' >= faults
          /\ faults' > 0 \/ ~CanRemove(p)
      BY <1>2, <1>6 DEF CleanupFails, CallFails
    <2>2. /\ DOMAIN r = Fields /\ r.pc = "CleanupFailed" /\ r.staged = ps[p].staged
          /\ r.tree = ps[p].tree /\ r.modes = ps[p].modes
      BY <1>2 DEF Fields
    <2> HIDE DEF r
    <2>3. Own(r, Job(p))
      BY <1>1, <1>2, <1>4, <2>2, MovedIsOwn
    <2>4. Job(p) = "archive" => faults' > 0 \/ Barred(r) # {}
      <3> SUFFICES ASSUME Job(p) = "archive", ~CanRemove(p) PROVE Barred(r) # {}
        BY <2>1
      <3>1. DOMAIN ps[p].tree = Paths /\ Moded(ps[p])
        BY <1>1, <1>2, <1>4 DEF Own
      <3>2. Barred(ps[p]) # {}
        BY <3>1, RehardenedIsRemovable DEF CanRemove
      <3> QED BY <2>2, <3>2 DEF Barred
    <2>5. ps'[p] = r
      BY <2>1 DEF Goes, PubInv
    <2>6. (LeftInv(p))'
      BY <1>1, <1>2, <2>1, <2>2, <2>5 DEF LeftInv
    <2> QED BY <1>1, <1>2, <2>1, <2>2, <2>3, <2>4, <2>6, OthersKeep
  <1> QED BY <1>1, <1>5, <1>6

LEMMA CrashStep ==
  ASSUME PubInv, NEW p \in Procs, Crash(p)
  PROVE  PubInv'
  <1>1. /\ ps[p].pc \notin Ended /\ crashes' = crashes + 1 /\ Goes(p, Fresh)
        /\ UNCHANGED <<sc, dest, left, faults>>
    BY DEF Crash
  <1>2. DOMAIN Fresh = Fields /\ Fresh.pc = "idle" /\ Fresh.tree = EmptyTree /\ Fresh.staged = FALSE
    BY DEF Fresh, Fields
  <1>3. Own(Fresh, Job(p))
    BY <1>2, FreshIsOwn
  <1>4. /\ left[p] \in Nat /\ left[p] <= crashes + 1 /\ crashes \in Nat /\ faults \in Nat
        /\ DOMAIN left = Procs /\ dest.by # p
    BY <1>1 DEF PubInv, LeftInv, Ended
  <1>5. ps'[p] = Fresh
    BY <1>1 DEF Goes, PubInv
  <1>6. (LeftInv(p))'
    BY <1>1, <1>2, <1>4, <1>5 DEF LeftInv
  <1> QED BY <1>1, <1>2, <1>3, <1>4, <1>6, OthersKeep

LEMMA UnchangedStep ==
  ASSUME PubInv, UNCHANGED <<sc, dest, ps, left, faults, crashes>>
  PROVE  PubInv'
  <1>1. ASSUME NEW q \in Procs PROVE Job(q)' = Job(q) /\ (LeftInv(q))' = LeftInv(q)
    BY DEF Job, This, LeftInv
  <1> QED BY <1>1 DEF PubInv

LEMMA PubStep == PubInv /\ [PubNext]_pubVars => PubInv'
  <1> SUFFICES ASSUME PubInv, [PubNext]_pubVars
               PROVE  PubInv'
    OBVIOUS
  <1>1. ASSUME NEW p \in Procs, Step(p) PROVE PubInv'
    BY <1>1, ReplayBeginsStep, InspectStep, StagingStep, CopyStep, FinishCopyStep, ApplyStep,
       SerializeBeginsStep, SerializeStep, MaterializeStep, CreateStep, StartRestoreStep,
       RestoreStep, PublishStep, CleanupStep
    DEF Step
  <1>2. ASSUME NEW p \in Procs, Crash(p) PROVE PubInv'
    BY <1>2, CrashStep
  <1>3. CASE BaseChanges
    BY <1>3, UnchangedStep DEF BaseChanges
  <1>4. CASE UNCHANGED pubVars
    BY <1>4, UnchangedStep DEF pubVars
  <1> QED BY <1>1, <1>2, <1>3, <1>4 DEF PubNext

(* A staging tree has one owner, and stays removable by its owner, through *)
(* every interleaving of publishers, failing calls and crashes.            *)
THEOREM PublishInvariance == PubSpec => []PubInv
  BY PubInitInv, PubStep, PTL DEF PubSpec

LEMMA EndsAreHonest == PubInv => HonestEnd
  BY DEF PubInv, LeftInv, Own, HonestEnd, Staged

(* How a call ended is the truth, for any number of publishers, trees,     *)
(* failing calls and crashes.                                              *)
THEOREM CallsEndHonestly == PubSpec => []HonestEnd
  BY PublishInvariance, EndsAreHonest, PTL

-----------------------------------------------------------------------------
(***************************************************************************)
(* What is published.  Sure says of which calls the tree is promised; a    *)
(* publisher knows in every state what its staging tree is a part of.      *)
(***************************************************************************)
Sure(job) == job # "plain" \/ swaps = 0

(* What never ends a call that nothing disturbs.                           *)
Unexpected == {"diff", "vanished", "mismatch", "stale", "entry", "blocked"}

(* An archive that was parsed and whose signature was not refused.         *)
Parsed(r) ==
  /\ r.recs \in Seq(Records(This.bases)) /\ ParseArchive(r.recs) /\ r.sig # "bad"
  /\ swaps = 0 => TreeOf(r.recs) = base

Owed(r, job, t) ==
  /\ job # "archive" /\ Sure(job) => t = Merged(expected, upper)
  /\ job = "archive" => t = TreeOf(r.recs)

(* What a publisher has done.                                              *)
Doing(r, job) ==
  /\ r.pc \in Early => DOMAIN r.modes = {}
  /\ r.pc = "idle" => r.recs = <<>>
  /\ r.pc \in {"serialize", "create"} => job = "archive"
  /\ r.pc = "serialize" =>
       /\ r.recs \in Seq(Records(This.bases)) /\ r.work \in Seq(Paths)
       /\ swaps = 0 => ArchiveOf(base, r.recs, r.work)
  /\ job = "archive" /\ r.pc \in {"inspect", "stage", "create", "restore", "ok"} => Parsed(r)
  /\ r.pc = "copy" =>
       Copying(r.tree, r.modes, r.work) /\ (swaps = 0 => CopyOf(base, r.tree, r.modes, r.work))
  /\ r.pc = "apply" /\ Sure(job) =>
       /\ Pending(r.todo, ExportUpper(upper), EntryOrder(upper))
       /\ Halfway(r.tree, r.modes, r.todo, expected, upper)
  /\ r.pc = "create" => Creating(r.tree, r.modes, r.todo, r.recs)
  /\ r.pc = "restore" /\ Sure(job) =>
       Restoring(r.tree, r.modes, r.todo) /\ Owed(r, job, Seen(r.tree, r.modes))
  /\ Undisturbed => r.why \notin Unexpected

(* What everybody works on.                                                *)
Ground ==
  /\ sc \in DOMAIN Scenarios /\ base \in This.bases /\ expected \in This.bases /\ upper \in This.uppers
  /\ swaps \in Nat /\ (swaps = 0 => base = expected)

ExactInv ==
  /\ Ground /\ dest.by \in Procs \cup {Nobody}
  /\ \A p \in Procs : Doing(ps[p], Job(p)) /\ (dest.by = p => Owed(ps[p], Job(p), dest.tree))

LEMMA GroundIs ==
  ASSUME Ground
  PROVE  /\ IsTree(base, Kinds) /\ IsTree(expected, Kinds) /\ IsUpper(upper)
         /\ \A t \in This.bases : IsTree(t, Kinds)
  <1>1. This \in Range(Scenarios)
    BY DEF Ground, This, Range
  <1> QED BY <1>1, PublishAssumption DEF Ground, Kinds

(* A publisher that has begun nothing.                                     *)
LEMMA DoesNothing ==
  ASSUME NEW job, NEW r, r.pc \in {"off", "idle"}, r.modes = <<>>, r.recs = <<>>, r.why = "none"
  PROVE  Doing(r, job)
  <1>1. DOMAIN r.modes = {} /\ r.why \notin Unexpected
    BY DEF Unexpected
  <1> QED BY <1>1 DEF Doing

LEMMA ExactInit == PubInit => ExactInv
  <1> SUFFICES ASSUME PubInit PROVE ExactInv
    OBVIOUS
  <1>1. Ground
    BY DEF PubInit, Ground
  <1>2. dest.by = Nobody
    BY DEF PubInit
  <1>3. ASSUME NEW p \in Procs PROVE Doing(ps[p], Job(p)) /\ dest.by # p
    <2>1. ps[p] = IF Job(p) = "off" THEN [Fresh EXCEPT !.pc = "off"] ELSE Fresh
      BY DEF PubInit
    <2>2. ps[p].pc \in {"off", "idle"} /\ ps[p].modes = <<>> /\ ps[p].recs = <<>> /\ ps[p].why = "none"
      BY <2>1 DEF Fresh
    <2> QED BY <1>2, <2>2, DoesNothing, PublishAssumption
  <1> QED BY <1>1, <1>2, <1>3 DEF ExactInv

(* What nobody touches stays true of the others.                           *)
Quietly == UNCHANGED <<sc, base, expected, upper, swaps>> /\ (Undisturbed' => Undisturbed)

LEMMA DoingKept ==
  ASSUME Quietly, NEW q \in Procs
  PROVE  /\ Job(q)' = Job(q)
         /\ Doing(ps'[q], Job(q)) => (Doing(ps[q], Job(q)))'
         /\ Owed(ps'[q], Job(q), dest'.tree) => (Owed(ps[q], Job(q), dest.tree))'
         /\ Ground => Ground'
  <1>1. Job(q)' = Job(q) /\ This' = This
    BY DEF Quietly, Job, This
  <1>2. (Ground => Ground') /\ \A job : (Sure(job))' = Sure(job)
    BY <1>1 DEF Quietly, Ground, Sure
  <1>3. Doing(ps'[q], Job(q)) => (Doing(ps[q], Job(q)))'
    BY <1>1, <1>2 DEF Quietly, Doing, Parsed, Owed, Sure
  <1>4. Owed(ps'[q], Job(q), dest'.tree) => (Owed(ps[q], Job(q), dest.tree))'
    BY <1>1, <1>2 DEF Quietly, Owed, Sure
  <1> QED BY <1>1, <1>2, <1>3, <1>4

LEMMA ExactGoes ==
  ASSUME PubInv, ExactInv, NEW p \in Procs, NEW r, Goes(p, r), Quietly, UNCHANGED dest,
         ps[p].pc # "ok", Doing(r, Job(p))
  PROVE  ExactInv'
  <1>1. DOMAIN ps' = Procs /\ ps'[p] = r /\ \A q \in Procs : q # p => ps'[q] = ps[q]
    BY DEF Goes, PubInv
  <1>2. Ground' /\ dest'.by \in Procs \cup {Nobody}
    BY DoingKept DEF ExactInv
  <1>3. dest.by # p
    BY DEF PubInv
  <1>4. ASSUME NEW q \in Procs
        PROVE  Doing(ps'[q], Job(q)) /\ (dest'.by = q => Owed(ps'[q], Job(q), dest'.tree))
    BY <1>1, <1>3 DEF ExactInv
  <1>5. ASSUME NEW q \in Procs
        PROVE  (Doing(ps[q], Job(q)))' /\ (dest'.by = q => (Owed(ps[q], Job(q), dest.tree))')
    BY <1>4, DoingKept
  <1> QED BY <1>2, <1>5 DEF ExactInv

LEMMA ExactFails ==
  ASSUME PubInv, ExactInv, NEW p \in Procs, NEW why, Fails(p, why), Quietly, UNCHANGED dest,
         ps[p].pc # "ok", Undisturbed => why \notin Unexpected
  PROVE  ExactInv'
  <1> DEFINE r == [ps[p] EXCEPT !.pc = IF ps[p].staged THEN "cleanup" ELSE "failed", !.why = why]
  <1>1. Goes(p, r)
    BY DEF Fails, Goes
  <1>2. r.pc \in {"cleanup", "failed"} /\ r.why = why
    <2>1. DOMAIN ps[p] = Fields
      BY DEF PubInv, Own
    <2> QED BY <2>1 DEF Fields
  <1> HIDE DEF r
  <1>3. r.pc \notin Early
    BY <1>2 DEF Early
  <1>4. Doing(r, Job(p))
    BY <1>2, <1>3 DEF Doing
  <1> QED BY <1>1, <1>4, ExactGoes

(* A failing call disturbs.                                                *)
LEMMA ExactFailedCall ==
  ASSUME PubInv, ExactInv, NEW p \in Procs, ps[p].pc # "ok", CallFails /\ Fails(p, "io"), Rest,
         UNCHANGED dest
  PROVE  ExactInv'
  <1>1. Quietly
    BY DEF Quietly, Rest, CallFails, Undisturbed, PubInv
  <1>2. "io" \notin Unexpected
    BY DEF Unexpected
  <1> QED BY <1>1, <1>2, ExactFails

LEMMA RestIsQuiet ==
  ASSUME Rest, UNCHANGED faults
  PROVE  Quietly
  BY DEF Rest, Quietly, Undisturbed

-----------------------------------------------------------------------------
(* Until there is a staging tree.                                          *)

LEMMA ExactBegins ==
  ASSUME PubInv, ExactInv, NEW p \in Procs, ps[p].pc = "idle", Job(p) # "archive",
         Begins(p) \/ \E why : Fails(p, why) /\ (Undisturbed => why \notin Unexpected),
         UNCHANGED <<dest, faults>>, Rest
  PROVE  ExactInv'
  <1> DEFINE r == [ps[p] EXCEPT !.pc = "inspect", !.nodes = Len(Diff) + 1]
  <1>0. Quietly
    BY RestIsQuiet
  <1>1. IsUpper(upper)
    BY GroundIs DEF ExactInv
  <1>2. ValidateDiff(Diff)
    BY <1>1, SnapshotIsValid DEF Diff
  <1>3. \/ Goes(p, r)
        \/ \E why : Fails(p, why) /\ (Undisturbed => why \notin Unexpected)
    BY <1>2 DEF Begins, Unexpected
  <1>4. /\ r.pc = "inspect" /\ r.modes = ps[p].modes /\ r.recs = ps[p].recs /\ r.why = ps[p].why
    <2>1. DOMAIN ps[p] = Fields
      BY DEF PubInv, Own
    <2> QED BY <2>1 DEF Fields
  <1> HIDE DEF r
  <1>5. Doing(r, Job(p))
    <2>1. Doing(ps[p], Job(p)) /\ "idle" \in Early
      BY DEF ExactInv, Early
    <2> QED BY <1>4, <2>1 DEF Doing
  <1>6. CASE Goes(p, r)
    BY <1>0, <1>5, <1>6, ExactGoes
  <1>7. ASSUME NEW why, Fails(p, why), Undisturbed => why \notin Unexpected PROVE ExactInv'
    BY <1>0, <1>7, ExactFails
  <1> QED BY <1>3, <1>6, <1>7

LEMMA ExactReplayBegins ==
  ASSUME PubInv, ExactInv, NEW p \in Procs, ApplyCowDiff(p) \/ ApplyBound(p) \/ PublishCowVolume(p)
  PROVE  ExactInv'
  <1>1. /\ ps[p].pc = "idle" /\ Job(p) # "archive" /\ UNCHANGED <<dest, faults>> /\ Rest
    BY DEF ApplyCowDiff, ApplyBound, PublishCowVolume
  <1>2. ~Undisturbed \/ ~(base # expected \/ swaps > 0)
    BY DEF ExactInv, Ground, Undisturbed
  <1>3. ASSUME ApplyWithExpectedBase(p)
        PROVE  Begins(p) \/ \E why : Fails(p, why) /\ (Undisturbed => why \notin Unexpected)
    BY <1>2, <1>3 DEF ApplyWithExpectedBase
  <1>4. Begins(p) \/ \E why : Fails(p, why) /\ (Undisturbed => why \notin Unexpected)
    <2>1. CASE ApplyCowDiff(p)
      BY <2>1 DEF ApplyCowDiff
    <2>2. CASE ApplyBound(p)
      BY <1>3, <2>2 DEF ApplyBound
    <2>3. CASE PublishCowVolume(p)
      <3>1. PICK binding \in {"complete", "none", "partial", "other source"} :
              IF binding = "complete" THEN ApplyWithExpectedBase(p) ELSE Fails(p, binding)
        BY <2>3 DEF PublishCowVolume
      <3>2. binding \notin Unexpected
        BY DEF Unexpected
      <3> QED BY <1>3, <3>1, <3>2
    <2> QED BY <2>1, <2>2, <2>3
  <1> QED BY <1>1, <1>4, ExactBegins

LEMMA ExactInspect ==
  ASSUME PubInv, ExactInv, NEW p \in Procs, InspectDestination(p)
  PROVE  ExactInv'
  <1> DEFINE r == [ps[p] EXCEPT !.pc = "stage"]
  <1>1. /\ Goes(p, r) \/ Fails(p, "exists")
        /\ ps[p].pc = "inspect" /\ UNCHANGED <<dest, left, faults>> /\ Rest
    BY DEF InspectDestination
  <1>2. Quietly /\ "exists" \notin Unexpected
    BY <1>1, RestIsQuiet DEF Unexpected
  <1>3. /\ r.pc = "stage" /\ r.modes = ps[p].modes /\ r.recs = ps[p].recs /\ r.why = ps[p].why
        /\ r.sig = ps[p].sig
    <2>1. DOMAIN ps[p] = Fields
      BY DEF PubInv, Own
    <2> QED BY <2>1 DEF Fields
  <1> HIDE DEF r
  <1>4. Doing(r, Job(p))
    <2>1. Doing(ps[p], Job(p)) /\ ps[p].pc \in Early
      BY <1>1 DEF ExactInv, Early
    <2> QED BY <1>1, <1>3, <2>1 DEF Doing, Parsed
  <1> QED BY <1>1, <1>2, <1>4, ExactGoes, ExactFails

LEMMA ExactSerializeBegins ==
  ASSUME PubInv, ExactInv, NEW p \in Procs, SerializeSnapshot(p)
  PROVE  ExactInv'
  <1> DEFINE r == [ps[p] EXCEPT !.pc = "serialize", !.work = <<Root>>, !.nodes = 1]
  <1>1. /\ Goes(p, r) /\ ps[p].pc = "idle" /\ Job(p) = "archive" /\ UNCHANGED <<dest, left, faults>> /\ Rest
    BY DEF SerializeSnapshot
  <1>2. /\ r.pc = "serialize" /\ r.modes = ps[p].modes /\ r.recs = ps[p].recs /\ r.why = ps[p].why
        /\ r.work = <<Root>>
    <2>1. DOMAIN ps[p] = Fields
      BY DEF PubInv, Own
    <2> QED BY <2>1 DEF Fields
  <1> HIDE DEF r
  <1>3. Doing(ps[p], Job(p)) /\ ps[p].pc \in Early /\ r.recs = <<>>
    BY <1>1, <1>2 DEF ExactInv, Early, Doing
  <1>4. r.work \in Seq(Paths) /\ Range(r.work) = {Root}
    <2>1. Root \in Paths
      BY PathAssumption
    <2>2. <<Root>> \in Seq(Paths) /\ DOMAIN <<Root>> = {1} /\ <<Root>>[1] = Root
      BY <2>1
    <2> QED BY <1>2, <2>2 DEF Range
  <1>5. ArchiveOf(base, r.recs, r.work)
    <2>1. base[Root].k # "none"
      BY GroundIs, BaseIs DEF ExactInv
    <2>2. RecordPaths(r.recs) = {} /\ Len(r.recs) = 0
      BY <1>3 DEF RecordPaths
    <2> QED BY <1>4, <2>1, <2>2 DEF ArchiveOf, Walk
  <1>6. r.recs \in Seq(Records(This.bases))
    BY <1>3
  <1>7. Doing(r, Job(p))
    BY <1>1, <1>2, <1>3, <1>4, <1>5, <1>6 DEF Doing
  <1> QED BY <1>1, <1>7, ExactGoes, RestIsQuiet

LEMMA ExactSerialize ==
  ASSUME PubInv, ExactInv, NEW p \in Procs, SerializeNext(p)
  PROVE  ExactInv'
  <1> DEFINE x == Head(ps[p].work)
             rec == [path |-> x, node |-> base[x]]
             more == IF base[x].k = "dir" THEN Sorted(Children(base, x)) ELSE <<>>
             r == [ps[p] EXCEPT !.work = more \o Tail(@), !.nodes = @ + Len(more),
                                !.recs = Append(@, rec)]
  <1>1. /\ ps[p].pc = "serialize" /\ ps[p].work # <<>> /\ Rest
        /\ \/ /\ \/ base[x].k = "none" /\ Fails(p, "vanished")
                 \/ Fails(p, "budget")
                 \/ base[x].k # "none" /\ Goes(p, r)
              /\ UNCHANGED <<dest, left, faults>>
           \/ CallFails /\ Fails(p, "io") /\ UNCHANGED <<dest, left>>
    BY DEF SerializeNext, Attempt, Names
  <1>2. /\ r.pc = "serialize" /\ r.modes = ps[p].modes /\ r.why = ps[p].why
        /\ r.work = more \o Tail(ps[p].work) /\ r.recs = Append(ps[p].recs, rec)
    <2> HIDE DEF x, more, rec
    <2>1. DOMAIN ps[p] = Fields
      BY DEF PubInv, Own
    <2> QED BY <1>1, <2>1 DEF Fields
  <1> HIDE DEF r
  <1>3. /\ Doing(ps[p], Job(p)) /\ ps[p].pc \in Early /\ Job(p) = "archive"
        /\ ps[p].recs \in Seq(Records(This.bases)) /\ ps[p].work \in Seq(Paths)
        /\ swaps = 0 => ArchiveOf(base, ps[p].recs, ps[p].work)
    <2>1. Doing(ps[p], Job(p)) /\ ps[p].pc \in Early
      BY <1>1 DEF ExactInv, Early
    <2> QED BY <1>1, <2>1 DEF Doing
  <1>4. IsTree(base, Kinds) /\ base \in This.bases
    BY GroundIs DEF ExactInv, Ground
  <1>5. x \in Paths /\ x \in Range(ps[p].work)
    BY <1>1, <1>3, RangeOfTail
  <1>6. Undisturbed => base[x].k # "none"
    BY <1>3, <1>5 DEF Undisturbed, ArchiveOf, Walk
  <1>7. ASSUME base[x].k # "none" PROVE Doing(r, Job(p))
    <2>1. rec \in Records(This.bases)
      <3> DEFINE bases == This.bases
      <3> HIDE DEF x, bases
      <3>1. base \in bases
        BY <1>4 DEF bases
      <3>2. rec \in Records(bases)
        BY <1>5, <1>7, <3>1, RecordsOf
      <3> QED BY <3>2 DEF bases
    <2>2. rec.path = x /\ rec.node = base[x]
      OBVIOUS
    <2> HIDE DEF rec
    <2> DEFINE S == Records(This.bases)
               recs == ps[p].recs
               w == ps[p].work
    <2>3. recs \in Seq(S) /\ w \in Seq(Paths) /\ w # <<>> /\ rec \in S
      BY <1>1, <1>3, <2>1
    <2>4. x = Head(w) /\ more = IF base[x].k = "dir" THEN Sorted(Children(base, x)) ELSE <<>>
      OBVIOUS
    <2>5. r.work = more \o Tail(w) /\ r.recs = Append(recs, rec)
      BY <1>2
    <2> HIDE DEF more, x, S, recs, w
    <2>6. /\ more \o Tail(w) \in Seq(Paths) /\ Append(recs, rec) \in Seq(S)
          /\ ArchiveOf(base, recs, w) => ArchiveOf(base, Append(recs, rec), more \o Tail(w))
      BY <1>4, <2>2, <2>3, <2>4, Archives
    <2>7. /\ r.work \in Seq(Paths) /\ r.recs \in Seq(Records(This.bases))
          /\ ArchiveOf(base, ps[p].recs, ps[p].work) => ArchiveOf(base, r.recs, r.work)
      BY <2>5, <2>6 DEF S, recs, w
    <2> QED BY <1>1, <1>2, <1>3, <2>7 DEF Doing
  <1>8. "budget" \notin Unexpected /\ ps[p].pc # "ok"
    BY <1>1 DEF Unexpected
  <1>9. CASE CallFails /\ Fails(p, "io") /\ UNCHANGED <<dest, left>>
    BY <1>1, <1>8, <1>9, ExactFailedCall
  <1>10. CASE /\ \/ base[x].k = "none" /\ Fails(p, "vanished")
                 \/ Fails(p, "budget")
                 \/ base[x].k # "none" /\ Goes(p, r)
              /\ UNCHANGED <<dest, left, faults>>
    <2>1. Quietly
      BY <1>1, <1>10, RestIsQuiet
    <2> QED BY <1>6, <1>7, <1>8, <1>10, <2>1, ExactFails, ExactGoes
  <1> QED BY <1>1, <1>9, <1>10

(* A step that may also be ended by a refusal or a failing call.           *)
Proceeds(p) == \E r : Goes(p, r) /\ Doing(r, Job(p))
Refused(p)  == \E why : Fails(p, why) /\ (Undisturbed => why \notin Unexpected)

LEMMA ExactAttempt ==
  ASSUME PubInv, ExactInv, NEW p \in Procs, ps[p].pc # "ok", Rest, UNCHANGED dest,
         \/ (Proceeds(p) \/ Refused(p)) /\ UNCHANGED faults
         \/ CallFails /\ Fails(p, "io")
  PROVE  ExactInv'
  <1>1. CASE CallFails /\ Fails(p, "io")
    BY <1>1, ExactFailedCall
  <1>2. CASE (Proceeds(p) \/ Refused(p)) /\ UNCHANGED faults
    <2>1. Quietly
      BY <1>2, RestIsQuiet
    <2> QED BY <1>2, <2>1, ExactGoes, ExactFails DEF Proceeds, Refused
  <1> QED BY <1>1, <1>2

LEMMA FieldsOf ==
  ASSUME PubInv, ExactInv, NEW p \in Procs
  PROVE  DOMAIN ps[p] = Fields /\ Own(ps[p], Job(p)) /\ Doing(ps[p], Job(p)) /\ Ground
  BY DEF PubInv, ExactInv, Own

LEMMA ExactMaterialize ==
  ASSUME PubInv, ExactInv, NEW p \in Procs, MaterializeArchive(p)
  PROVE  ExactInv'
  <1>1. PICK sig \in {"none", "good", "bad"} :
          IF ~ParseArchive(ps[p].recs) THEN Fails(p, "order")
          ELSE IF ~Verified(sig) THEN Fails(p, "signature")
          ELSE Goes(p, [ps[p] EXCEPT !.pc = "inspect", !.sig = sig])
    BY DEF MaterializeArchive
  <1> DEFINE r == [ps[p] EXCEPT !.pc = "inspect", !.sig = sig]
  <1>2. ps[p].pc = "serialize" /\ ps[p].work = <<>> /\ UNCHANGED <<dest, faults>> /\ Rest
    BY DEF MaterializeArchive
  <1>3. \/ Refused(p)
        \/ Goes(p, r) /\ ParseArchive(ps[p].recs) /\ sig # "bad"
    BY <1>1 DEF Verified, Refused, Unexpected
  <1>4. /\ r.pc = "inspect" /\ r.modes = ps[p].modes /\ r.recs = ps[p].recs /\ r.why = ps[p].why
        /\ r.sig = sig
    BY FieldsOf DEF Fields
  <1> HIDE DEF r
  <1>5. /\ Doing(ps[p], Job(p)) /\ ps[p].pc \in Early /\ Job(p) = "archive" /\ IsTree(base, Kinds)
        /\ \A rec \in Records(This.bases) : rec.path \in Paths
        /\ ps[p].recs \in Seq(Records(This.bases)) /\ (swaps = 0 => ArchiveOf(base, ps[p].recs, <<>>))
    <2>1. Doing(ps[p], Job(p)) /\ ps[p].pc \in Early
      BY <1>2, FieldsOf DEF Early
    <2>2. IsTree(base, Kinds) /\ \A rec \in Records(This.bases) : rec.path \in Paths
      BY GroundIs, RecordIs DEF ExactInv
    <2> QED BY <1>2, <2>1, <2>2 DEF Doing
  <1>6. ASSUME Goes(p, r), ParseArchive(ps[p].recs), sig # "bad" PROVE Doing(r, Job(p))
    <2>1. swaps = 0 => TreeOf(ps[p].recs) = base
      BY <1>5, <1>6, ArchiveIsTree
    <2>2. Parsed(r)
      BY <1>4, <1>5, <1>6, <2>1 DEF Parsed
    <2> QED BY <1>2, <1>4, <1>5, <2>2 DEF Doing
  <1>7. Proceeds(p) \/ Refused(p)
    BY <1>3, <1>6 DEF Proceeds
  <1> QED BY <1>2, <1>7, ExactAttempt

LEMMA ExactStaging ==
  ASSUME PubInv, ExactInv, NEW p \in Procs, CreateStaging(p)
  PROVE  ExactInv'
  <1> DEFINE made == [ps[p] EXCEPT !.staged = TRUE, !.pc = "create", !.todo = Tail(ps[p].recs),
                                   !.modes = SetMode(@, Root, ps[p].recs[1].node.v)]
             copy == [ps[p] EXCEPT !.staged = TRUE, !.pc = "copy", !.work = <<Root>>]
             r == IF Job(p) = "archive" THEN made ELSE copy
  <1>1. /\ ps[p].pc = "stage" /\ Rest /\ UNCHANGED dest
        /\ \/ (Goes(p, r) \/ Refused(p)) /\ UNCHANGED faults
           \/ CallFails /\ Fails(p, "io")
    <2>1. Fails(p, "names") => Refused(p)
      BY DEF Refused, Unexpected
    <2> QED BY <2>1 DEF CreateStaging, Attempt
  <1>2. DOMAIN ps[p] = Fields
    BY FieldsOf
  <1>3. /\ made.pc = "create" /\ made.todo = Tail(ps[p].recs) /\ made.why = ps[p].why /\ made.sig = ps[p].sig
        /\ made.modes = SetMode(ps[p].modes, Root, ps[p].recs[1].node.v)
        /\ made.recs = ps[p].recs /\ made.tree = ps[p].tree
    BY <1>2 DEF Fields
  <1>4. /\ copy.pc = "copy" /\ copy.work = <<Root>> /\ copy.modes = ps[p].modes
        /\ copy.tree = ps[p].tree /\ copy.why = ps[p].why
    BY <1>2 DEF Fields
  <1> HIDE DEF made, copy
  <1>5. ps[p].tree = EmptyTree /\ DOMAIN ps[p].modes = {} /\ Doing(ps[p], Job(p))
    <2>1. ps[p].pc \in Early
      BY <1>1 DEF Early
    <2> QED BY <2>1, FieldsOf DEF Own, Doing
  <1>6. IsTree(base, Kinds) /\ \A t \in This.bases : IsTree(t, Kinds)
    BY GroundIs DEF ExactInv
  <1>7. CASE Job(p) = "archive"
    <2>1. Parsed(ps[p])
      BY <1>1, <1>5, <1>7 DEF Doing
    <2>2. Creating(made.tree, made.modes, made.todo, made.recs)
      BY <1>3, <1>5, <1>6, <2>1, CreatingStarts DEF Parsed
    <2>3. made.pc \notin Early /\ Parsed(made)
      BY <1>3, <2>1 DEF Early, Parsed
    <2>4. Doing(made, Job(p))
      BY <1>3, <1>5, <1>7, <2>2, <2>3 DEF Doing
    <2> QED BY <1>1, <1>7, <2>4, ExactAttempt DEF Proceeds
  <1>8. CASE Job(p) # "archive"
    <2>1. Copying(copy.tree, copy.modes, copy.work) /\ CopyOf(base, copy.tree, copy.modes, copy.work)
      BY <1>4, <1>5, <1>6, CopyStarts
    <2>2. copy.pc \notin Early
      BY <1>4 DEF Early
    <2>3. Doing(copy, Job(p))
      BY <1>4, <1>5, <1>8, <2>1, <2>2 DEF Doing
    <2> QED BY <1>1, <1>8, <2>3, ExactAttempt DEF Proceeds
  <1> QED BY <1>7, <1>8

LEMMA ExactCopy ==
  ASSUME PubInv, ExactInv, NEW p \in Procs, CopyNext(p)
  PROVE  ExactInv'
  <1> DEFINE x == Head(ps[p].work)
             names == Sorted(Children(base, x))
             leaf == [ps[p] EXCEPT !.work = Tail(@), !.tree[x] = base[x]]
             dir == [ps[p] EXCEPT !.work = names \o Tail(@), !.tree[x] = Dir("open"),
                                  !.modes = SetMode(@, x, base[x].v), !.nodes = @ + Len(names)]
  <1>1. ps[p].pc = "copy" /\ ps[p].work # <<>> /\ Rest /\ UNCHANGED dest
    BY DEF CopyNext, Attempt
  <1>2. \/ /\ \/ base[x].k = "none" /\ Fails(p, "vanished")
              \/ Fails(p, "denied") \/ Fails(p, "budget")
              \/ base[x].k \notin {"none", "dir"} /\ Goes(p, leaf)
              \/ base[x].k = "dir" /\ Goes(p, dir)
           /\ UNCHANGED faults
        \/ CallFails /\ Fails(p, "io")
    BY DEF CopyNext, Attempt, Names
  <1>3. DOMAIN ps[p] = Fields
    BY FieldsOf
  <1>4. /\ leaf.pc = "copy" /\ leaf.work = Tail(ps[p].work) /\ leaf.why = ps[p].why
        /\ leaf.tree = [ps[p].tree EXCEPT ![x] = base[x]] /\ leaf.modes = ps[p].modes
    <2> HIDE DEF x
    <2> QED BY <1>1, <1>3 DEF Fields
  <1>5. /\ dir.pc = "copy" /\ dir.work = names \o Tail(ps[p].work) /\ dir.why = ps[p].why
        /\ dir.tree = [ps[p].tree EXCEPT ![x] = Dir("open")]
        /\ dir.modes = SetMode(ps[p].modes, x, base[x].v)
    <2> HIDE DEF x, names
    <2> QED BY <1>1, <1>3 DEF Fields
  <1> HIDE DEF leaf, dir
  <1>6. /\ Doing(ps[p], Job(p)) /\ Copying(ps[p].tree, ps[p].modes, ps[p].work)
        /\ swaps = 0 => CopyOf(base, ps[p].tree, ps[p].modes, ps[p].work)
    BY <1>1, FieldsOf DEF Doing
  <1>7. IsTree(base, Kinds) /\ "copy" \notin Early
    BY GroundIs DEF ExactInv, Early
  <1>8. x \in Range(ps[p].work)
    <2>1. ps[p].work \in Seq(Paths)
      BY <1>6 DEF Copying
    <2> QED BY <1>1, <2>1, RangeOfTail
  <1>9. Undisturbed => base[x].k # "none"
    BY <1>6, <1>8 DEF Undisturbed, CopyOf, Walk
  <1> HIDE DEF names, x
  <1>10. ASSUME base[x].k \notin {"none", "dir"} PROVE Doing(leaf, Job(p))
    <2>1. /\ Copying(leaf.tree, leaf.modes, leaf.work)
          /\ swaps = 0 => CopyOf(base, leaf.tree, leaf.modes, leaf.work)
      BY <1>1, <1>4, <1>6, <1>7, <1>10, CopiesLeaf DEF x
    <2> QED BY <1>4, <1>1, <1>6, <1>7, <2>1 DEF Doing
  <1>11. ASSUME base[x].k = "dir" PROVE Doing(dir, Job(p))
    <2>1. /\ Copying(dir.tree, dir.modes, dir.work)
          /\ swaps = 0 => CopyOf(base, dir.tree, dir.modes, dir.work)
      BY <1>1, <1>5, <1>6, <1>7, <1>11, CopiesDirectory DEF x, names
    <2> QED BY <1>5, <1>1, <1>6, <1>7, <2>1 DEF Doing
  <1>12. \A why \in {"denied", "budget"} : Fails(p, why) => Refused(p)
    BY DEF Refused, Unexpected
  <1>13. base[x].k = "none" /\ Fails(p, "vanished") => Refused(p)
    BY <1>9 DEF Refused
  <1>14. \/ (Proceeds(p) \/ Refused(p)) /\ UNCHANGED faults
         \/ CallFails /\ Fails(p, "io")
    BY <1>2, <1>10, <1>11, <1>12, <1>13 DEF Proceeds
  <1> QED BY <1>1, <1>14, ExactAttempt

(* The gate on what was copied, and the copy as the tree to replay over.   *)
LEMMA ExactFinishCopy ==
  ASSUME PubInv, ExactInv, NEW p \in Procs, FinishCopy(p)
  PROVE  ExactInv'
  <1> DEFINE r == [ps[p] EXCEPT !.pc = "apply", !.todo = Diff]
             tree == ps[p].tree
             modes == ps[p].modes
  <1>1. /\ ps[p].pc = "copy" /\ ps[p].work = <<>> /\ Rest /\ UNCHANGED <<dest, faults>>
        /\ \/ Job(p) # "plain" /\ Seen(tree, modes) # expected /\ Fails(p, "mismatch")
           \/ (Job(p) = "plain" \/ Seen(tree, modes) = expected) /\ Goes(p, r)
    BY DEF FinishCopy, MaterializedGate, Materialized, Seen
  <1>2. /\ r.pc = "apply" /\ r.todo = Diff /\ r.why = ps[p].why /\ r.tree = tree /\ r.modes = modes
    BY FieldsOf DEF Fields
  <1>3. /\ Doing(ps[p], Job(p)) /\ Copying(tree, modes, <<>>) /\ Job(p) # "archive"
        /\ swaps = 0 => CopyOf(base, tree, modes, <<>>)
    <2>1. Doing(ps[p], Job(p)) /\ Job(p) # "archive"
      BY <1>1, FieldsOf DEF Own
    <2> QED BY <1>1, <2>1 DEF Doing
  <1> HIDE DEF r, tree, modes
  <1>4. /\ IsTree(base, Kinds) /\ IsTree(expected, Kinds) /\ IsUpper(upper) /\ "apply" \notin Early
        /\ swaps = 0 => base = expected
    BY GroundIs DEF ExactInv, Early, Ground
  <1>5. Tidy(tree, modes) /\ Root \in DOMAIN modes /\ (swaps = 0 => Seen(tree, modes) = expected)
    BY <1>3, <1>4, CopyEnds
  <1>6. ASSUME Seen(tree, modes) = expected
        PROVE  Halfway(tree, modes, Diff, expected, upper)
    <2>1. expected = [y \in Paths |-> expected[y]] /\ WellFormed(expected)
      BY <1>4, BaseIs
    <2>2. Staging(tree, modes)
      BY <1>5, <1>6, <2>1, SeenKinds DEF Staging
    <2>3. Replayed(Diff, upper) = {}
      BY <1>4, EntryOrderIs DEF Replayed, Diff
    <2>4. Partial(expected, upper, {}) = expected
      BY <2>1, NothingReplayed
    <2> QED BY <1>6, <2>2, <2>3, <2>4 DEF Halfway
  <1>7. Pending(Diff, ExportUpper(upper), EntryOrder(upper))
    BY <1>4, EntryOrderIs DEF Diff
  <1>8. ASSUME Job(p) = "plain" \/ Seen(tree, modes) = expected PROVE Doing(r, Job(p))
    <2>1. Sure(Job(p)) => Seen(tree, modes) = expected
      BY <1>5, <1>8 DEF Sure
    <2>2. Undisturbed => r.why \notin Unexpected
      BY <1>2, <1>3 DEF Doing
    <2> QED BY <1>2, <1>3, <1>4, <1>6, <1>7, <2>1, <2>2 DEF Doing
  <1>9. Seen(tree, modes) # expected /\ Fails(p, "mismatch") => Refused(p)
    BY <1>5 DEF Refused, Undisturbed
  <1>10. Proceeds(p) \/ Refused(p)
    BY <1>1, <1>8, <1>9 DEF Proceeds
  <1> QED BY <1>1, <1>10, ExactAttempt

LEMMA ExactApply ==
  ASSUME PubInv, ExactInv, NEW p \in Procs, ApplyNext(p)
  PROVE  ExactInv'
  <1> DEFINE tree == ps[p].tree
             modes == ps[p].modes
             todo == ps[p].todo
             e == Head(todo)
             a == ApplyEntry(tree, modes, e)
             r == [ps[p] EXCEPT !.todo = Tail(@), !.tree = a.tree, !.modes = a.modes]
  <1>1. /\ ps[p].pc = "apply" /\ todo # <<>> /\ Rest /\ UNCHANGED dest
        /\ \/ /\ \/ ~Resolves(tree, OpenedBy(e)) /\ Fails(p, "entry")
                 \/ Goes(p, r)
              /\ UNCHANGED faults
           \/ CallFails /\ Fails(p, "io")
    BY DEF ApplyNext, Attempt
  <1>2. /\ r.pc = "apply" /\ r.todo = Tail(todo) /\ r.why = ps[p].why /\ r.tree = a.tree /\ r.modes = a.modes
    <2> HIDE DEF a
    <2> QED BY <1>1, FieldsOf DEF Fields
  <1>3. Doing(ps[p], Job(p)) /\ Job(p) # "archive" /\ IsUpper(upper) /\ "apply" \notin Early
    <2>1. Doing(ps[p], Job(p)) /\ Job(p) # "archive"
      BY <1>1, FieldsOf DEF Own
    <2> QED BY <2>1, GroundIs DEF ExactInv, Early
  <1>4. Sure(Job(p)) => /\ Pending(todo, ExportUpper(upper), EntryOrder(upper))
                        /\ Halfway(tree, modes, todo, expected, upper)
    BY <1>1, <1>3 DEF Doing
  <1>5. Undisturbed => Sure(Job(p)) /\ ps[p].why \notin Unexpected
    BY <1>3 DEF Undisturbed, Sure, Doing
  <1> HIDE DEF tree, modes, todo, a, r
  <1>6. ASSUME Sure(Job(p))
        PROVE  /\ Resolves(tree, OpenedBy(e)) /\ Pending(Tail(todo), ExportUpper(upper), EntryOrder(upper))
               /\ Halfway(a.tree, a.modes, Tail(todo), expected, upper)
    <2>1. Replaying(todo, upper) /\ Halfway(tree, modes, todo, expected, upper) /\ a = ApplyEntry(tree, modes, Head(todo))
      BY <1>1, <1>4, <1>6 DEF Replaying, a
    <2>2. Resolves(tree, OpenedBy(e))
      BY <1>3, <2>1, EntryResolves
    <2>3. Pending(Tail(todo), ExportUpper(upper), EntryOrder(upper))
      BY <1>3, <2>1, NextEntry
    <2>4. Halfway(a.tree, a.modes, Tail(todo), expected, upper)
      BY <1>3, <2>1, ReplaysEntry
    <2> QED BY <2>2, <2>3, <2>4
  <1>7. Doing(r, Job(p))
    BY <1>2, <1>3, <1>5, <1>6 DEF Doing
  <1>8. ~Resolves(tree, OpenedBy(e)) /\ Fails(p, "entry") => Refused(p)
    BY <1>5, <1>6 DEF Refused
  <1>9. \/ (Proceeds(p) \/ Refused(p)) /\ UNCHANGED faults
        \/ CallFails /\ Fails(p, "io")
    BY <1>1, <1>7, <1>8 DEF Proceeds
  <1> QED BY <1>1, <1>9, ExactAttempt

LEMMA ExactCreate ==
  ASSUME PubInv, ExactInv, NEW p \in Procs, CreateNext(p)
  PROVE  ExactInv'
  <1> DEFINE tree == ps[p].tree
             modes == ps[p].modes
             todo == ps[p].todo
             recs == ps[p].recs
             x == Head(todo).path
             n == Head(todo).node
             dir == [ps[p] EXCEPT !.todo = Tail(@), !.tree[x] = Dir("open"), !.modes = SetMode(@, x, n.v)]
             leaf == [ps[p] EXCEPT !.todo = Tail(@), !.tree[x] = n]
  <1>1. /\ ps[p].pc = "create" /\ todo # <<>> /\ Rest /\ UNCHANGED dest
        /\ \/ /\ \/ ~Resolves(tree, Parent(x)) /\ Fails(p, "entry")
                 \/ n.k = "dir" /\ Goes(p, dir)
                 \/ n.k # "dir" /\ Goes(p, leaf)
              /\ UNCHANGED faults
           \/ CallFails /\ Fails(p, "io")
    BY DEF CreateNext, Attempt
  <1>2. /\ dir.pc = "create" /\ dir.todo = Tail(todo) /\ dir.why = ps[p].why /\ dir.recs = recs
        /\ dir.sig = ps[p].sig /\ dir.tree = [tree EXCEPT ![x] = Dir("open")]
        /\ dir.modes = SetMode(modes, x, n.v)
    <2> HIDE DEF x, n
    <2> QED BY <1>1, FieldsOf DEF Fields
  <1>3. /\ leaf.pc = "create" /\ leaf.todo = Tail(todo) /\ leaf.why = ps[p].why /\ leaf.recs = recs
        /\ leaf.sig = ps[p].sig /\ leaf.tree = [tree EXCEPT ![x] = n] /\ leaf.modes = modes
    <2> HIDE DEF x, n
    <2> QED BY <1>1, FieldsOf DEF Fields
  <1> HIDE DEF dir, leaf
  <1>4. /\ Doing(ps[p], Job(p)) /\ Job(p) = "archive" /\ "create" \notin Early
        /\ \A t \in This.bases : IsTree(t, Kinds)
    <2>1. Doing(ps[p], Job(p)) /\ \A t \in This.bases : IsTree(t, Kinds)
      BY FieldsOf, GroundIs
    <2> QED BY <1>1, <2>1 DEF Doing, Early
  <1>5. Parsed(ps[p]) /\ Creating(tree, modes, todo, recs) /\ (Undisturbed => ps[p].why \notin Unexpected)
    BY <1>1, <1>4 DEF Doing
  <1>6. recs \in Seq(Records(This.bases)) /\ ParseArchive(recs)
    BY <1>5 DEF Parsed
  <1> DEFINE bases == This.bases
  <1>7. /\ \A t \in bases : IsTree(t, Kinds)
        /\ recs \in Seq(Records(bases))
    BY <1>4, <1>6
  <1>8. x = Head(todo).path /\ n = Head(todo).node
    OBVIOUS
  <1> HIDE DEF tree, modes, todo, recs, x, n, bases
  <1>9. /\ Resolves(tree, Parent(x))
        /\ n.k = "dir" => Creating([tree EXCEPT ![x] = Dir("open")], SetMode(modes, x, n.v), Tail(todo), recs)
        /\ n.k # "dir" => Creating([tree EXCEPT ![x] = n], modes, Tail(todo), recs)
    BY <1>1, <1>5, <1>6, <1>7, <1>8, CreatesRecord
  <1>10. Parsed(dir) /\ Parsed(leaf)
    BY <1>2, <1>3, <1>5 DEF Parsed, recs
  <1>11. n.k = "dir" => Doing(dir, Job(p))
    BY <1>2, <1>4, <1>5, <1>9, <1>10 DEF Doing
  <1>12. n.k # "dir" => Doing(leaf, Job(p))
    BY <1>3, <1>4, <1>5, <1>9, <1>10 DEF Doing
  <1>13. \/ Proceeds(p) /\ UNCHANGED faults
         \/ CallFails /\ Fails(p, "io")
    BY <1>1, <1>9, <1>11, <1>12 DEF Proceeds
  <1> QED BY <1>1, <1>13, ExactAttempt

(* All that was promised is there.                                         *)
LEMMA ExactStartRestore ==
  ASSUME PubInv, ExactInv, NEW p \in Procs, StartRestore(p)
  PROVE  ExactInv'
  <1> DEFINE tree == ps[p].tree
             modes == ps[p].modes
             recs == ps[p].recs
             r == [ps[p] EXCEPT !.pc = "restore", !.todo = DeepestFirst(DOMAIN ps[p].modes)]
  <1>1. /\ ps[p].pc \in {"apply", "create"} /\ ps[p].todo = <<>> /\ Rest /\ UNCHANGED <<dest, faults>>
        /\ Goes(p, r)
    BY DEF StartRestore
  <1>2. /\ r.pc = "restore" /\ r.todo = DeepestFirst(DOMAIN modes) /\ r.why = ps[p].why
        /\ r.tree = tree /\ r.modes = modes /\ r.recs = recs /\ r.sig = ps[p].sig
    BY FieldsOf DEF Fields
  <1> HIDE DEF r
  <1>3. /\ Doing(ps[p], Job(p)) /\ "restore" \notin Early /\ IsUpper(upper)
        /\ \A t \in This.bases : IsTree(t, Kinds)
    BY FieldsOf, GroundIs DEF Early
  <1>4. Undisturbed => r.why \notin Unexpected
    BY <1>2, <1>3 DEF Doing
  <1>5. CASE ps[p].pc = "apply"
    <2>1. Job(p) # "archive"
      BY <1>5, FieldsOf DEF Own
    <2>2. ASSUME Sure(Job(p)) PROVE Staging(tree, modes) /\ Seen(tree, modes) = Merged(expected, upper)
      <3>1. Halfway(tree, modes, <<>>, expected, upper)
        BY <1>1, <1>3, <1>5, <2>2 DEF Doing
      <3>2. Replayed(<<>>, upper) = ExportUpper(upper)
        BY DEF Replayed, Range
      <3>3. Partial(expected, upper, ExportUpper(upper)) = Merged(expected, upper)
        BY <1>3, AllReplayed
      <3> QED BY <3>1, <3>2, <3>3 DEF Halfway
    <2>3. Sure(Job(p)) => Restoring(r.tree, r.modes, r.todo) /\ Owed(r, Job(p), Seen(r.tree, r.modes))
      BY <1>2, <2>1, <2>2, RestoringStarts DEF Owed
    <2>4. Doing(r, Job(p))
      BY <1>2, <1>3, <1>4, <2>1, <2>3 DEF Doing
    <2> QED BY <1>1, <1>5, <2>4, ExactAttempt DEF Proceeds
  <1>6. CASE ps[p].pc = "create"
    <2>1. Job(p) = "archive"
      BY <1>3, <1>6 DEF Doing
    <2>2. Parsed(ps[p]) /\ Creating(tree, modes, <<>>, recs)
      BY <1>1, <1>3, <1>6, <2>1 DEF Doing
    <2>3. Staging(tree, modes) /\ Seen(tree, modes) = TreeOf(recs)
      BY <1>3, <2>2, AllCreated DEF Parsed
    <2>4. Parsed(r) /\ Owed(r, Job(p), Seen(r.tree, r.modes)) /\ Restoring(r.tree, r.modes, r.todo)
      BY <1>2, <2>1, <2>2, <2>3, RestoringStarts DEF Owed, Parsed
    <2>5. Doing(r, Job(p))
      BY <1>2, <1>3, <1>4, <2>1, <2>4 DEF Doing
    <2> QED BY <1>1, <1>6, <2>5, ExactAttempt DEF Proceeds
  <1> QED BY <1>1, <1>5, <1>6

LEMMA ExactRestore ==
  ASSUME PubInv, ExactInv, NEW p \in Procs, RestoreNext(p)
  PROVE  ExactInv'
  <1> DEFINE tree == ps[p].tree
             modes == ps[p].modes
             todo == ps[p].todo
             d == Head(todo)
             r == [ps[p] EXCEPT !.todo = Tail(@), !.tree[d] = Dir(modes[d])]
  <1>1. /\ ps[p].pc = "restore" /\ todo # <<>> /\ Rest /\ UNCHANGED dest
        /\ \/ /\ \/ ~Reachable(tree, d) /\ Fails(p, "blocked")
                 \/ Goes(p, r)
              /\ UNCHANGED faults
           \/ CallFails /\ Fails(p, "io")
    BY DEF RestoreNext, Attempt
  <1>2. /\ r.pc = "restore" /\ r.todo = Tail(todo) /\ r.why = ps[p].why /\ r.recs = ps[p].recs
        /\ r.sig = ps[p].sig /\ r.tree = [tree EXCEPT ![d] = Dir(modes[d])] /\ r.modes = modes
    <2> HIDE DEF d
    <2> QED BY <1>1, FieldsOf DEF Fields
  <1>3. Doing(ps[p], Job(p)) /\ "restore" \notin Early
    BY FieldsOf DEF Early
  <1>4. Sure(Job(p)) => Restoring(tree, modes, todo) /\ Owed(ps[p], Job(p), Seen(tree, modes))
    BY <1>1, <1>3 DEF Doing
  <1>5. Undisturbed => Sure(Job(p)) /\ ps[p].why \notin Unexpected
    BY <1>3 DEF Undisturbed, Sure, Doing
  <1>6. Job(p) = "archive" => Parsed(ps[p])
    BY <1>1, <1>3 DEF Doing
  <1> HIDE DEF tree, modes, todo, r
  <1>7. ASSUME Sure(Job(p))
        PROVE  /\ Reachable(tree, d) /\ Restoring(r.tree, r.modes, r.todo)
               /\ Seen(r.tree, r.modes) = Seen(tree, modes)
    <2>1. Reachable(tree, d) /\ Restoring([tree EXCEPT ![d] = Dir(modes[d])], modes, Tail(todo))
      BY <1>1, <1>4, <1>7, RestoresMode
    <2>2. tree = [x \in Paths |-> tree[x]] /\ todo \in Seq(DOMAIN modes)
      BY <1>4, <1>7 DEF Restoring, Pending
    <2>3. d \in DOMAIN modes
      BY <1>1, <2>2
    <2>4. Seen([tree EXCEPT ![d] = Dir(modes[d])], modes) = Seen(tree, modes)
      BY <2>2, <2>3, RestoreKeepsSeen
    <2> QED BY <1>2, <2>1, <2>4
  <1>8. Sure(Job(p)) => Owed(r, Job(p), Seen(r.tree, r.modes))
    BY <1>2, <1>4, <1>7 DEF Owed
  <1>9. Job(p) = "archive" => Parsed(r)
    BY <1>2, <1>6 DEF Parsed
  <1>10. Doing(r, Job(p))
    BY <1>2, <1>3, <1>5, <1>7, <1>8, <1>9 DEF Doing
  <1>11. ~Reachable(tree, d) /\ Fails(p, "blocked") => Refused(p)
    BY <1>5, <1>7 DEF Refused
  <1>12. \/ (Proceeds(p) \/ Refused(p)) /\ UNCHANGED faults
         \/ CallFails /\ Fails(p, "io")
    BY <1>1, <1>10, <1>11 DEF Proceeds
  <1> QED BY <1>1, <1>12, ExactAttempt

(* The rename is the moment the promise is kept.                           *)
LEMMA ExactPublish ==
  ASSUME PubInv, ExactInv, NEW p \in Procs, AtomicPublish(p)
  PROVE  ExactInv'
  <1> DEFINE r == [ps[p] EXCEPT !.pc = "ok", !.staged = FALSE]
  <1>1. /\ ps[p].pc = "restore" /\ ps[p].todo = <<>> /\ Rest
        /\ \/ Fails(p, "appeared") /\ UNCHANGED <<dest, faults>>
           \/ CallFails /\ Fails(p, "io") /\ UNCHANGED dest
           \/ dest.by = Nobody /\ dest' = [tree |-> ps[p].tree, by |-> p] /\ Goes(p, r) /\ UNCHANGED faults
    BY DEF AtomicPublish, Attempt, RenameNoReplace
  <1>2. /\ r.pc = "ok" /\ r.why = ps[p].why /\ r.recs = ps[p].recs /\ r.sig = ps[p].sig
    BY FieldsOf DEF Fields
  <1> HIDE DEF r
  <1>3. Doing(ps[p], Job(p)) /\ "ok" \notin Early /\ Nobody \notin Procs
    BY FieldsOf, PublishAssumption DEF Early
  <1>4. CASE CallFails /\ Fails(p, "io") /\ UNCHANGED dest
    BY <1>1, <1>4, ExactAttempt
  <1>5. CASE Fails(p, "appeared") /\ UNCHANGED <<dest, faults>>
    <2>1. Refused(p)
      BY <1>5 DEF Refused, Unexpected
    <2> QED BY <1>1, <1>5, <2>1, ExactAttempt
  <1>6. CASE dest.by = Nobody /\ dest' = [tree |-> ps[p].tree, by |-> p] /\ Goes(p, r) /\ UNCHANGED faults
    <2>1. Quietly
      BY <1>1, <1>6, RestIsQuiet
    <2>2. ps'[p] = r /\ \A q \in Procs : q # p => ps'[q] = ps[q]
      BY <1>6 DEF Goes, PubInv
    <2>3. dest'.by = p /\ dest'.tree = ps[p].tree
      BY <1>6
    <2>4. Ground' /\ dest'.by \in Procs \cup {Nobody}
      BY <2>1, <2>3, DoingKept DEF ExactInv
    <2>5. Job(p) = "archive" => Parsed(ps[p])
      BY <1>1, <1>3 DEF Doing
    <2>6. Job(p) = "archive" => Parsed(r)
      BY <1>2, <2>5 DEF Parsed
    <2>7. Doing(r, Job(p))
      BY <1>2, <1>3, <2>6 DEF Doing
    <2>8. Owed(r, Job(p), dest'.tree)
      <3>1. CASE Sure(Job(p))
        <4>1. Restoring(ps[p].tree, ps[p].modes, <<>>) /\ Owed(ps[p], Job(p), Seen(ps[p].tree, ps[p].modes))
          BY <1>1, <1>3, <3>1 DEF Doing
        <4>2. ps[p].tree = Seen(ps[p].tree, ps[p].modes)
          BY <4>1, Restored
        <4> QED BY <1>2, <2>3, <4>1, <4>2 DEF Owed
      <3>2. CASE ~Sure(Job(p))
        BY <3>2 DEF Sure, Owed
      <3> QED BY <3>1, <3>2
    <2>9. ASSUME NEW q \in Procs
          PROVE  Doing(ps'[q], Job(q)) /\ (dest'.by = q => Owed(ps'[q], Job(q), dest'.tree))
      BY <2>2, <2>3, <2>7, <2>8 DEF ExactInv
    <2>10. ASSUME NEW q \in Procs
           PROVE  (Doing(ps[q], Job(q)))' /\ (dest'.by = q => (Owed(ps[q], Job(q), dest.tree))')
      BY <2>1, <2>9, DoingKept
    <2> QED BY <2>4, <2>10 DEF ExactInv
  <1> QED BY <1>1, <1>4, <1>5, <1>6

LEMMA ExactCleanup ==
  ASSUME PubInv, ExactInv, NEW p \in Procs, Cleanup(p)
  PROVE  ExactInv'
  <1> DEFINE gone == [ps[p] EXCEPT !.pc = "failed", !.staged = FALSE]
             kept == [ps[p] EXCEPT !.pc = "CleanupFailed"]
  <1>1. /\ ps[p].pc = "cleanup" /\ Rest /\ UNCHANGED dest
        /\ Goes(p, gone) \/ Goes(p, kept)
        /\ UNCHANGED faults \/ faults' = faults + 1
    BY DEF Cleanup, RemoveStaging, CleanupFails, CallFails
  <1>2. gone.pc = "failed" /\ gone.why = ps[p].why /\ kept.pc = "CleanupFailed" /\ kept.why = ps[p].why
    BY FieldsOf DEF Fields
  <1> HIDE DEF gone, kept
  <1>3. Quietly
    BY <1>1 DEF Quietly, Rest, Undisturbed, PubInv
  <1>4. Doing(ps[p], Job(p)) /\ gone.pc \notin Early /\ kept.pc \notin Early
    BY <1>2, FieldsOf DEF Early
  <1>5. Doing(gone, Job(p)) /\ Doing(kept, Job(p))
    BY <1>2, <1>4 DEF Doing
  <1> QED BY <1>1, <1>3, <1>5, ExactGoes

LEMMA ExactCrash ==
  ASSUME PubInv, ExactInv, NEW p \in Procs, Crash(p)
  PROVE  ExactInv'
  <1>1. ps[p].pc # "ok" /\ Goes(p, Fresh) /\ crashes' = crashes + 1 /\ crashes \in Nat
    BY DEF Crash, Ended, PubInv
  <1>2. UNCHANGED <<sc, base, expected, upper, dest, swaps>>
    BY DEF Crash
  <1>3. Quietly
    BY <1>1, <1>2 DEF Quietly, Undisturbed
  <1>4. Fresh.pc = "idle" /\ Fresh.modes = <<>> /\ Fresh.recs = <<>> /\ Fresh.why = "none"
    BY DEF Fresh
  <1>5. Doing(Fresh, Job(p))
    BY <1>4, DoesNothing
  <1> QED BY <1>1, <1>2, <1>3, <1>5, ExactGoes

(* What is promised without an expected identity is promised of a base     *)
(* that does not change.                                                   *)
LEMMA ExactBaseChanges ==
  ASSUME PubInv, ExactInv, BaseChanges
  PROVE  ExactInv'
  <1>1. /\ swaps' = swaps + 1 /\ base' \in This.bases /\ swaps \in Nat
        /\ UNCHANGED <<sc, expected, upper, dest, ps>>
    BY DEF BaseChanges, ExactInv, Ground
  <1>2. swaps' \in Nat /\ swaps' # 0 /\ ~Undisturbed'
    BY <1>1 DEF Undisturbed
  <1>3. This' = This
    BY <1>1 DEF This
  <1>4. Ground'
    BY <1>1, <1>2, <1>3 DEF ExactInv, Ground
  <1>5. ASSUME NEW p \in Procs
        PROVE  (Doing(ps[p], Job(p)))' /\ (dest'.by = p => (Owed(ps[p], Job(p), dest.tree))')
    <2>1. Job(p)' = Job(p) /\ ps'[p] = ps[p] /\ dest' = dest
      BY <1>1, <1>3 DEF Job
    <2>2. \A job : (Sure(job))' => Sure(job)
      BY <1>2 DEF Sure
    <2>3. Doing(ps[p], Job(p)) /\ (dest.by = p => Owed(ps[p], Job(p), dest.tree))
      BY DEF ExactInv
    <2>4. Parsed(ps[p]) => (Parsed(ps[p]))'
      BY <1>1, <1>2, <1>3, <2>1 DEF Parsed
    <2>5. \A job, t : Owed(ps[p], job, t) => (Owed(ps[p], job, t))'
      BY <1>1, <2>1, <2>2 DEF Owed
    <2>6. (Doing(ps[p], Job(p)))'
      BY <1>1, <1>2, <1>3, <2>1, <2>2, <2>3, <2>4, <2>5 DEF Doing
    <2>7. dest'.by = p => (Owed(ps[p], Job(p), dest.tree))'
      BY <1>1, <2>1, <2>2, <2>3 DEF Owed
    <2> QED BY <2>6, <2>7
  <1> QED BY <1>1, <1>4, <1>5 DEF ExactInv

LEMMA ExactStutter ==
  ASSUME PubInv, ExactInv, UNCHANGED pubVars
  PROVE  ExactInv'
  <1>1. Quietly /\ UNCHANGED <<dest, ps>>
    BY DEF pubVars, Quietly, Undisturbed
  <1>2. Ground' /\ dest'.by \in Procs \cup {Nobody}
    <2>1. This' = This
      BY DEF This, pubVars
    <2> QED BY <2>1 DEF ExactInv, Ground, pubVars
  <1>3. ASSUME NEW q \in Procs
        PROVE  (Doing(ps[q], Job(q)))' /\ (dest'.by = q => (Owed(ps[q], Job(q), dest.tree))')
    BY <1>1, DoingKept DEF ExactInv
  <1> QED BY <1>2, <1>3 DEF ExactInv

LEMMA ExactStep == PubInv /\ ExactInv /\ [PubNext]_pubVars => ExactInv'
  <1> SUFFICES ASSUME PubInv, ExactInv, [PubNext]_pubVars
               PROVE  ExactInv'
    OBVIOUS
  <1>1. ASSUME NEW p \in Procs, Step(p) PROVE ExactInv'
    BY <1>1, ExactReplayBegins, ExactInspect, ExactStaging, ExactCopy, ExactFinishCopy, ExactApply,
       ExactSerializeBegins, ExactSerialize, ExactMaterialize, ExactCreate, ExactStartRestore,
       ExactRestore, ExactPublish, ExactCleanup
    DEF Step
  <1>2. ASSUME NEW p \in Procs, Crash(p) PROVE ExactInv'
    BY <1>2, ExactCrash
  <1> QED BY <1>1, <1>2, ExactBaseChanges, ExactStutter DEF PubNext

(* Through every interleaving each publisher's staging tree is the part of *)
(* the promised tree that its position in copy, replay or creation says.   *)
THEOREM StagingIsExact == PubSpec => [](PubInv /\ ExactInv)
  BY PubInitInv, ExactInit, PubStep, ExactStep, PTL DEF PubSpec

LEMMA PublishedIsExact == PubInv /\ ExactInv => PublishedExact
  <1> SUFFICES ASSUME PubInv, ExactInv, dest.by # Nobody
               PROVE  LET r == ps[dest.by] IN
                      /\ Job(dest.by) \in {"bound", "volume"} => dest.tree = Merged(expected, upper)
                      /\ Job(dest.by) = "plain" /\ swaps = 0 => dest.tree = Merged(base, upper)
                      /\ Job(dest.by) = "archive" =>
                           dest.tree = TreeOf(r.recs) /\ r.sig # "bad" /\ (swaps = 0 => dest.tree = base)
    BY DEF PublishedExact
  <1> DEFINE p == dest.by
  <1>1. p \in Procs
    BY DEF ExactInv
  <1>2. Owed(ps[p], Job(p), dest.tree) /\ Doing(ps[p], Job(p)) /\ ps[p].pc = "ok"
    BY <1>1 DEF ExactInv, PubInv
  <1>3. swaps = 0 => base = expected
    BY DEF ExactInv, Ground
  <1>4. Job(p) = "archive" => Parsed(ps[p])
    BY <1>2 DEF Doing
  <1> QED BY <1>2, <1>3, <1>4 DEF Owed, Parsed, Sure

LEMMA QuietIsUnrefused == ExactInv => QuietReplaySucceeds
  BY DEF ExactInv, Doing, QuietReplaySucceeds, Unexpected

(* What is published is exactly what was promised, for every base, upper   *)
(* directory and archive, every number of publishers, and however the base *)
(* changes, calls fail and processes crash meanwhile.                      *)
THEOREM PublishedTreesAreExact == PubSpec => []PublishedExact
  BY StagingIsExact, PublishedIsExact, PTL

(* Left alone, no replay and no archive is ever refused by its own steps:  *)
(* the exporter's order makes every parent exist in time, and restoring    *)
(* the deepest directories first never bars the way to another.            *)
THEOREM QuietReplayNeverFails == PubSpec => []QuietReplaySucceeds
  BY StagingIsExact, QuietIsUnrefused, PTL
================================================================================
