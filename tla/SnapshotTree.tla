----------------------------- MODULE SnapshotTree -----------------------------
(***************************************************************************)
(* Directory trees as the snapshot code sees them, and the pure parts of   *)
(* the code that moves them: the diff exported from an overlay's upper     *)
(* directory (linux_cow_diff.rs), what one entry of it does to a staging   *)
(* tree (cow_diff_apply.rs), and which archives are canonical              *)
(* (snapshot_archive.rs).                                                  *)
(*                                                                         *)
(* A path is the sequence of its bytes below the root, because the order   *)
(* of raw bytes decides what is canonical.  Of a node only its kind and    *)
(* one value are kept: the content of a file, the target of a link, the    *)
(* mode of a directory: "open" to its owner, "ro" (read and search only)   *)
(* or "closed".                                                            *)
(***************************************************************************)
EXTENDS Naturals, Sequences, FiniteSets, Functions, FiniteSetsExt, SequencesExt

CONSTANTS
  Paths,      \* the paths trees are made of; <<>> is the root
  Slash,      \* the byte that separates names
  MaxRecords  \* room for records in the exporter's shared memory

Root == <<>>

Parent(p) ==
  IF Slash \in Range(p) THEN SubSeq(p, 1, Max({k \in DOMAIN p : p[k] = Slash}) - 1) ELSE Root

PathDepth(p) == IF p = Root THEN 0 ELSE 1 + Cardinality({k \in DOMAIN p : p[k] = Slash})

(* same_or_descendant, the path itself excluded.                           *)
Below(p, prefix) ==
  /\ Len(p) > Len(prefix)
  /\ prefix = Root \/ (SubSeq(p, 1, Len(prefix)) = prefix /\ p[Len(prefix) + 1] = Slash)

Ancestors(p) == {q \in Paths : Below(p, q)}

(* The order of raw bytes.                                                 *)
RawLess(p, q) ==
  \E n \in 0..Len(p) :
    /\ n < Len(q) /\ SubSeq(p, 1, n) = SubSeq(q, 1, n)
    /\ n = Len(p) \/ p[n + 1] < q[n + 1]

(* The elements of a set in a strict total order, given as a relation: an  *)
(* element's place is the number of those before it.                       *)
SortBy(S, order) ==
  [n \in 1..Cardinality(S) |->
     CHOOSE x \in S : Cardinality({y \in S : <<y, x>> \in order}) = n - 1]

Sorted(ps) == SortBy(ps, {e \in ps \X ps : RawLess(e[1], e[2])})

ASSUME PathAssumption ==
  /\ Paths \subseteq Seq(Nat) /\ IsFiniteSet(Paths) /\ Slash \in Nat
  /\ Root \in Paths /\ (\A p \in Paths \ {Root} : Parent(p) \in Paths)
  /\ MaxRecords \in Nat

-----------------------------------------------------------------------------
Node(k, v) == [k |-> k, v |-> v]
Nothing    == Node("none", "none")
Dir(mode)  == Node("dir", mode)

EmptyTree == [p \in Paths |-> IF p = Root THEN Dir("open") ELSE Nothing]

IsDir(t, p) == t[p].k = "dir"

Children(t, d) == {p \in Paths \ {Root} : Parent(p) = d /\ t[p].k # "none"}

(* A tree has directories above every node.                                *)
WellFormed(t) ==
  IsDir(t, Root) /\ \A p \in Paths \ {Root} : t[p].k # "none" => IsDir(t, Parent(p))

(* Of nodes of these kinds only.                                           *)
IsTree(t, kinds) ==
  /\ t = [p \in Paths |-> t[p]] /\ WellFormed(t)
  /\ \A p \in Paths : t[p] = Nothing \/ (t[p] = Node(t[p].k, t[p].v) /\ t[p].k \in kinds)

(* open_relative_directory: every component must be a directory.           *)
Resolves(t, p) == IsDir(t, p) /\ \A q \in Ancestors(p) : IsDir(t, q)

(* The same with the permissions of an unprivileged owner.                 *)
Reachable(t, p) == Resolves(t, p) /\ \A q \in Ancestors(p) \cup {p} : t[q].v # "closed"

(* remove_any: each directory is opened, emptied and removed.              *)
Removable(t) ==
  \A d \in Paths :
    IsDir(t, d) => t[d].v # "closed" /\ (Children(t, d) # {} => t[d].v = "open")

-----------------------------------------------------------------------------
(* An upper directory has nodes, whiteouts among them, and opaque          *)
(* directories.                                                            *)
IsUpper(u) ==
  /\ IsTree(u.nodes, {"dir", "file", "link", "whiteout"})
  /\ u.opaque \subseteq {p \in Paths : IsDir(u.nodes, p)}

Entry(op, p, v) == [op |-> op, path |-> p, v |-> v]

(* export_entry: what one node of the upper directory is recorded as.      *)
ExportEntry(u, p) ==
  LET n == u.nodes[p] IN
  CASE n.k = "whiteout" -> {Entry("Remove", p, "none")}
    [] n.k = "dir"  -> {Entry("EnsureDirectory", p, n.v)} \cup
                       (IF p \in u.opaque THEN {Entry("OpaqueDirectory", p, "none")} ELSE {})
    [] n.k = "file" -> {Entry("UpsertFile", p, n.v)}
    [] n.k = "link" -> {Entry("Symlink", p, n.v)}
    [] OTHER -> {}

ExportUpper(u) ==
  (IF Root \in u.opaque THEN {Entry("OpaqueDirectory", Root, "none")} ELSE {})
  \cup UNION {ExportEntry(u, p) : p \in Paths \ {Root}}

EntryRank(e) ==
  CASE e.op = "EnsureDirectory" -> 0 [] e.op = "OpaqueDirectory" -> 1
    [] e.op = "UpsertFile" -> 2 [] e.op = "Symlink" -> 3 [] e.op = "Remove" -> 4

(* SharedCowDiff::snapshot sorts what the walk appended in any order.      *)
EntryLess(d, e) ==
  RawLess(d.path, e.path) \/ (d.path = e.path /\ EntryRank(d) < EntryRank(e))

ExportFits(u) == Cardinality(ExportUpper(u)) <= MaxRecords

(* (The set is bound by a quantifier so that TLC evaluates it once.)       *)
Snapshot(u) ==
  CHOOSE s \in {SortBy(S, {e \in S \X S : EntryLess(e[1], e[2])}) : S \in {ExportUpper(u)}} : TRUE

(* validate_diff: canonical order, a path twice only as directory and      *)
(* opaque directory, and the root only as opaque.                          *)
ValidateDiff(diff) ==
  \A k \in DOMAIN diff :
    LET e == diff[k] IN
    /\ e.path = Root => e.op = "OpaqueDirectory"
    /\ k > 1 => LET d == diff[k - 1] IN
                \/ RawLess(d.path, e.path)
                \/ d.path = e.path /\ d.op = "EnsureDirectory" /\ e.op = "OpaqueDirectory"

-----------------------------------------------------------------------------
(* apply_entries on a staging tree and the modes its directories will get. *)

RemoveAny(t, p) == [q \in Paths |-> IF q = p \/ Below(q, p) THEN Nothing ELSE t[q]]

ClearDirectory(t, p) == [q \in Paths |-> IF Below(q, p) THEN Nothing ELSE t[q]]

RemoveModeSubtree(modes, p) == Restrict(modes, {q \in DOMAIN modes : q # p /\ ~Below(q, p)})

RemoveModeDescendants(modes, p) == Restrict(modes, {q \in DOMAIN modes : ~Below(q, p)})

PutNode(t, p, n) == [RemoveAny(t, p) EXCEPT ![p] = n]

SetMode(modes, p, mode) == [q \in DOMAIN modes \cup {p} |-> IF q = p THEN mode ELSE modes[q]]

(* The directory an entry is resolved through.                             *)
OpenedBy(e) == IF e.op = "OpaqueDirectory" THEN e.path ELSE Parent(e.path)

ApplyEntry(t, modes, e) ==
  LET p == e.path IN
  CASE e.op = "EnsureDirectory" ->
         [tree  |-> IF IsDir(t, p) THEN t ELSE PutNode(t, p, Dir("open")),
          modes |-> SetMode(modes, p, e.v)]
    [] e.op = "OpaqueDirectory" ->
         [tree |-> ClearDirectory(t, p), modes |-> RemoveModeDescendants(modes, p)]
    [] e.op = "UpsertFile" ->
         [tree |-> PutNode(t, p, Node("file", e.v)), modes |-> RemoveModeSubtree(modes, p)]
    [] e.op = "Symlink" ->
         [tree |-> PutNode(t, p, Node("link", e.v)), modes |-> RemoveModeSubtree(modes, p)]
    [] e.op = "Remove" ->
         [tree |-> RemoveAny(t, p), modes |-> RemoveModeSubtree(modes, p)]

(* Fault: the directories nearest to the root first.                       *)
ShallowFirst(dirs) ==
  SortBy(dirs, {e \in dirs \X dirs : \/ PathDepth(e[1]) < PathDepth(e[2])
                                     \/ /\ PathDepth(e[1]) = PathDepth(e[2])
                                        /\ RawLess(e[1], e[2])})

(* restore_directory_modes: the deepest directories first.                 *)
DeepestFirst(dirs) ==
  SortBy(dirs, {e \in dirs \X dirs : \/ PathDepth(e[1]) > PathDepth(e[2])
                                     \/ /\ PathDepth(e[1]) = PathDepth(e[2])
                                        /\ RawLess(e[1], e[2])})

-----------------------------------------------------------------------------
(* What the sandbox saw: the kernel's merge of an upper directory and its  *)
(* base, the mode of the root excepted, which no record carries.           *)
Merged(t, u) ==
  [p \in Paths |->
     IF p = Root THEN t[Root]
     ELSE IF u.nodes[p].k = "whiteout" THEN Nothing
     ELSE IF u.nodes[p].k # "none" THEN u.nodes[p]
     ELSE IF \E q \in Ancestors(p) : q \in u.opaque \/ u.nodes[q].k \notin {"none", "dir"}
     THEN Nothing
     ELSE t[p]]

-----------------------------------------------------------------------------
(* Archives: records of a path and a node.                                 *)

(* parse_archive: the root first, then strictly increasing raw paths, each *)
(* below a directory already seen.                                         *)
ParseArchive(recs) ==
  /\ recs # <<>> /\ recs[1].path = Root /\ recs[1].node.k = "dir"
  /\ \A k \in 2..Len(recs) :
       /\ RawLess(recs[k - 1].path, recs[k].path)
       /\ \E j \in 1..(k - 1) : recs[j].path = Parent(recs[k].path) /\ recs[j].node.k = "dir"

TreeOf(recs) ==
  [p \in Paths |->
     IF \E k \in DOMAIN recs : recs[k].path = p
     THEN recs[CHOOSE k \in DOMAIN recs : recs[k].path = p].node ELSE Nothing]
===============================================================================
