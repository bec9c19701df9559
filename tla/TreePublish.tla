------------------------------ MODULE TreePublish ------------------------------
(***************************************************************************)
(* Publishing a tree at a path that does not exist yet: replay of a diff   *)
(* over a copy of its base (cow_diff_apply.rs), with or without an         *)
(* expected identity of the base, for a volume of a finished sandbox       *)
(* (cow_volume_publication.rs), and capture and materialization of an      *)
(* archive (snapshot_archive.rs).  Several publishers race for one         *)
(* destination, the base changes under them, calls fail, processes crash.  *)
(*                                                                         *)
(* SHA-256 identities are ideal: the identity of a tree is the tree.       *)
(***************************************************************************)
EXTENDS SnapshotTree

CONSTANTS
  Procs,
  Scenarios,   \* by name: what a behaviour starts from, and how much may go wrong
  MaxNodes,    \* max_nodes
  StagingTries,\* names create_staging tries (64)
  Nobody

(* jobs: of each publisher.  bases: trees the base is or changes to.       *)
Jobs == {"plain", "bound", "volume", "archive", "off"}

ASSUME PublishAssumption ==
  /\ Nobody \notin Procs
  /\ MaxNodes \in Nat \ {0} /\ StagingTries \in Nat \ {0}
  /\ \A s \in Range(Scenarios) :
       /\ s.jobs \in [Procs -> Jobs]
       /\ (\A t \in s.bases : IsTree(t, {"dir", "file", "link"})) /\ (\A u \in s.uppers : IsUpper(u))

VARIABLES
  sc,       \* the name of the scenario
  base, expected, upper, \* the source, its identity at launch, the overlay's upper directory
  dest,     \* what is at the destination, and who published it: Nobody, nothing
  ps,       \* the publishers
  left,     \* staging names of a publisher's process id in the parent directory
  swaps, faults, crashes

pubVars == <<sc, base, expected, upper, dest, ps, left, swaps, faults, crashes>>

(* work: paths still to copy.  recs: the archive.  modes: directory_modes. *)
(* todo: entries to apply, records to create or modes to restore.          *)
Fresh ==
  [pc |-> "idle", work |-> <<>>, recs |-> <<>>, tree |-> EmptyTree, modes |-> <<>>,
   todo |-> <<>>, nodes |-> 0, staged |-> FALSE, sig |-> "none", why |-> "none"]

This == Scenarios[sc]

Job(p) == This.jobs[p]

PubInit ==
  /\ sc \in DOMAIN Scenarios /\ base \in This.bases /\ upper \in This.uppers
  /\ expected = base /\ dest = [tree |-> EmptyTree, by |-> Nobody]
  /\ ps = [p \in Procs |-> IF Job(p) = "off" THEN [Fresh EXCEPT !.pc = "off"] ELSE Fresh]
  /\ left = [p \in Procs |-> 0]
  /\ swaps = 0 /\ faults = 0 /\ crashes = 0

Diff == Snapshot(upper)

(* One call of the system fails.                                           *)
CallFails == faults < This.faults /\ faults' = faults + 1

-----------------------------------------------------------------------------
(* Fault: no failure removes the staging tree.                             *)
FailsAtOnce(p, why) == ps' = [ps EXCEPT ![p].pc = "failed", ![p].why = why]

(* A failed attempt: nothing to remove before there is a staging tree.     *)
Fails(p, why) ==
  ps' = [ps EXCEPT ![p].pc = IF ps[p].staged THEN "cleanup" ELSE "failed", ![p].why = why]

Goes(p, r) == ps' = [ps EXCEPT ![p] = r]

(* A step that may also be ended by a failing call.                        *)
Attempt(p, step) ==
  \/ step /\ UNCHANGED faults
  \/ CallFails /\ Fails(p, "io") /\ UNCHANGED <<dest, left>>

Rest == UNCHANGED <<sc, base, expected, upper, swaps, crashes>>

(* The diff is validated and charged before anything is looked at.         *)
Begins(p) ==
  IF ~ExportFits(upper) THEN Fails(p, "capacity")
  ELSE IF ~ValidateDiff(Diff) THEN Fails(p, "diff")
  ELSE IF Len(Diff) + 1 > MaxNodes THEN Fails(p, "budget")
  ELSE Goes(p, [ps[p] EXCEPT !.pc = "inspect", !.nodes = Len(Diff) + 1])

ApplyCowDiff(p) ==
  /\ ps[p].pc = "idle" /\ Job(p) = "plain"
  /\ Begins(p) /\ UNCHANGED <<dest, left, faults>> /\ Rest

(* The early gate reads the base entry by entry: while it changes, the     *)
(* result can be either.                                                   *)
ApplyWithExpectedBase(p) ==
  \/ Begins(p)
  \/ (base # expected \/ swaps > 0) /\ Fails(p, "stale")

ApplyBound(p) ==
  /\ ps[p].pc = "idle" /\ Job(p) = "bound"
  /\ ApplyWithExpectedBase(p) /\ UNCHANGED <<dest, left, faults>> /\ Rest

(* A volume's diff must name this base and carry both its identity and the *)
(* limits that identity was taken with.                                    *)
PublishCowVolume(p) ==
  /\ ps[p].pc = "idle" /\ Job(p) = "volume"
  /\ \E binding \in {"complete", "none", "partial", "other source"} :
       IF binding = "complete" THEN ApplyWithExpectedBase(p) ELSE Fails(p, binding)
  /\ UNCHANGED <<dest, left, faults>> /\ Rest

-----------------------------------------------------------------------------
InspectDestination(p) ==
  /\ ps[p].pc = "inspect"
  /\ IF dest.by = Nobody THEN Goes(p, [ps[p] EXCEPT !.pc = "stage"]) ELSE Fails(p, "exists")
  /\ UNCHANGED <<dest, left, faults>> /\ Rest

(* mkdirat under the first name that is not taken.                         *)
CreateStaging(p) ==
  /\ ps[p].pc = "stage"
  /\ Attempt(p,
       IF left[p] >= StagingTries THEN Fails(p, "names") /\ UNCHANGED <<dest, left>>
       ELSE /\ left' = [left EXCEPT ![p] = @ + 1] /\ UNCHANGED dest
            /\ Goes(p, IF Job(p) = "archive"
                       THEN [ps[p] EXCEPT !.staged = TRUE, !.pc = "create", !.todo = Tail(ps[p].recs),
                                          !.modes = SetMode(@, Root, ps[p].recs[1].node.v)]
                       ELSE [ps[p] EXCEPT !.staged = TRUE, !.pc = "copy", !.work = <<Root>>]))
  /\ Rest

(* The next entry of the base, as it is now: a directory's names are read  *)
(* and charged when it is opened.                                          *)
Names(d) == Sorted(Children(base, d))

CopyNext(p) ==
  /\ ps[p].pc = "copy" /\ ps[p].work # <<>>
  /\ LET r == ps[p]
         x == Head(r.work)
         n == base[x] IN
     Attempt(p,
       /\ UNCHANGED <<dest, left>>
       /\ IF n.k = "none" THEN Fails(p, "vanished")
          ELSE IF n.k # "dir"
          THEN Goes(p, [r EXCEPT !.work = Tail(@), !.tree[x] = n])
          ELSE IF n.v = "closed" THEN Fails(p, "denied")
          ELSE IF r.nodes + Len(Names(x)) > MaxNodes THEN Fails(p, "budget")
          ELSE Goes(p, [r EXCEPT !.work = Names(x) \o Tail(@), !.tree[x] = Dir("open"),
                                 !.modes = SetMode(@, x, n.v), !.nodes = @ + Len(Names(x))]))
  /\ Rest

(* The identity of what was copied, from the modes, targets and bytes that *)
(* went into the staging tree.                                             *)
Materialized(r) ==
  [x \in Paths |-> IF x \in DOMAIN r.modes THEN Dir(r.modes[x]) ELSE r.tree[x]]

(* Fault: the base is read again instead of the copy.                      *)
SourceGate(r) == base

MaterializedGate(r) == Materialized(r)

FinishCopy(p) ==
  /\ ps[p].pc = "copy" /\ ps[p].work = <<>>
  /\ IF Job(p) # "plain" /\ MaterializedGate(ps[p]) # expected
     THEN Fails(p, "mismatch")
     ELSE Goes(p, [ps[p] EXCEPT !.pc = "apply", !.todo = Diff])
  /\ UNCHANGED <<dest, left, faults>> /\ Rest

ApplyNext(p) ==
  /\ ps[p].pc = "apply" /\ ps[p].todo # <<>>
  /\ LET r == ps[p]
         e == Head(r.todo)
         a == ApplyEntry(r.tree, r.modes, e) IN
     Attempt(p,
       /\ UNCHANGED <<dest, left>>
       /\ IF ~Resolves(r.tree, OpenedBy(e)) THEN Fails(p, "entry")
          ELSE Goes(p, [r EXCEPT !.todo = Tail(@), !.tree = a.tree, !.modes = a.modes]))
  /\ Rest

-----------------------------------------------------------------------------
(* The archive: captured entry by entry by a process that may read it all, *)
(* parsed as a whole, and created from its records by the publisher.       *)

SerializeSnapshot(p) ==
  /\ ps[p].pc = "idle" /\ Job(p) = "archive"
  /\ Goes(p, [ps[p] EXCEPT !.pc = "serialize", !.work = <<Root>>, !.nodes = 1])
  /\ UNCHANGED <<dest, left, faults>> /\ Rest

SerializeNext(p) ==
  /\ ps[p].pc = "serialize" /\ ps[p].work # <<>>
  /\ LET r == ps[p]
         x == Head(r.work)
         n == base[x] IN
     Attempt(p,
       /\ UNCHANGED <<dest, left>>
       /\ IF n.k = "none" THEN Fails(p, "vanished")
          ELSE LET more == IF n.k = "dir" THEN Names(x) ELSE <<>> IN
               IF r.nodes + Len(more) > MaxNodes THEN Fails(p, "budget")
               ELSE Goes(p, [r EXCEPT !.work = more \o Tail(@), !.nodes = @ + Len(more),
                                      !.recs = Append(@, [path |-> x, node |-> n])]))
  /\ Rest

(* The finished archive is parsed before it is returned, again before it   *)
(* is materialized, and a signature is verified before the destination is  *)
(* looked at.                                                              *)
Verified(sig) == sig # "bad"

MaterializeArchive(p) ==
  /\ ps[p].pc = "serialize" /\ ps[p].work = <<>>
  /\ \E sig \in {"none", "good", "bad"} :
       IF ~ParseArchive(ps[p].recs) THEN Fails(p, "order")
       ELSE IF ~Verified(sig) THEN Fails(p, "signature")
       ELSE Goes(p, [ps[p] EXCEPT !.pc = "inspect", !.sig = sig])
  /\ UNCHANGED <<dest, left, faults>> /\ Rest

CreateNext(p) ==
  /\ ps[p].pc = "create" /\ ps[p].todo # <<>>
  /\ LET r == ps[p]
         x == Head(r.todo).path
         n == Head(r.todo).node IN
     Attempt(p,
       /\ UNCHANGED <<dest, left>>
       /\ IF ~Resolves(r.tree, Parent(x)) THEN Fails(p, "entry")
          ELSE IF n.k = "dir"
          THEN Goes(p, [r EXCEPT !.todo = Tail(@), !.tree[x] = Dir("open"),
                                 !.modes = SetMode(@, x, n.v)])
          ELSE Goes(p, [r EXCEPT !.todo = Tail(@), !.tree[x] = n]))
  /\ Rest

-----------------------------------------------------------------------------
StartRestore(p) ==
  /\ ps[p].pc \in {"apply", "create"} /\ ps[p].todo = <<>>
  /\ Goes(p, [ps[p] EXCEPT !.pc = "restore", !.todo = DeepestFirst(DOMAIN ps[p].modes)])
  /\ UNCHANGED <<dest, left, faults>> /\ Rest

RestoreNext(p) ==
  /\ ps[p].pc = "restore" /\ ps[p].todo # <<>>
  /\ LET r == ps[p]
         d == Head(r.todo) IN
     Attempt(p,
       /\ UNCHANGED <<dest, left>>
       /\ IF ~Reachable(r.tree, d) THEN Fails(p, "blocked")
          ELSE Goes(p, [r EXCEPT !.todo = Tail(@), !.tree[d] = Dir(r.modes[d])]))
  /\ Rest

(* renameat2 with RENAME_NOREPLACE.                                        *)
RenameNoReplace(p) ==
  IF dest.by # Nobody THEN Fails(p, "appeared") /\ UNCHANGED <<dest, left>>
  ELSE /\ dest' = [tree |-> ps[p].tree, by |-> p]
       /\ left' = [left EXCEPT ![p] = @ - 1]
       /\ Goes(p, [ps[p] EXCEPT !.pc = "ok", !.staged = FALSE])

AtomicPublish(p) ==
  /\ ps[p].pc = "restore" /\ ps[p].todo = <<>>
  /\ Attempt(p, RenameNoReplace(p))
  /\ Rest

(* Before it removes a staging tree the archive code gives its directories *)
(* back to the owner; the replay code does not.  The root is held open,    *)
(* every other directory is opened for reading first, those nearest to the *)
(* root before those below them.                                           *)
RehardenDirectories(r) ==
  [x \in Paths |-> IF x \in DOMAIN r.modes THEN Dir("open") ELSE r.tree[x]]

(* Directories that already have the mode of the archive and bar the owner.*)
Barred(r) == {d \in DOMAIN r.modes \ {Root} : r.tree[d].v = "closed"}

CanRemove(p) ==
  IF Job(p) = "archive" THEN Barred(ps[p]) = {} /\ Removable(RehardenDirectories(ps[p]))
  ELSE Removable(ps[p].tree)

RemoveStaging(p) ==
  /\ CanRemove(p)
  /\ left' = [left EXCEPT ![p] = @ - 1]
  /\ Goes(p, [ps[p] EXCEPT !.pc = "failed", !.staged = FALSE])
  /\ UNCHANGED faults

(* What is left of the staging tree is not looked at again.                *)
CleanupFails(p) ==
  /\ CallFails \/ (~CanRemove(p) /\ UNCHANGED faults)
  /\ Goes(p, [ps[p] EXCEPT !.pc = "CleanupFailed"])
  /\ UNCHANGED left

Cleanup(p) ==
  /\ ps[p].pc = "cleanup" /\ (RemoveStaging(p) \/ CleanupFails(p))
  /\ UNCHANGED dest /\ Rest

-----------------------------------------------------------------------------
Ended == {"off", "ok", "failed", "CleanupFailed"}

(* The process dies and its successor, with the same process id, begins    *)
(* again.                                                                  *)
Crash(p) ==
  /\ ps[p].pc \notin Ended /\ crashes < This.crashes /\ crashes' = crashes + 1
  /\ Goes(p, Fresh)
  /\ UNCHANGED <<sc, base, expected, upper, dest, left, swaps, faults>>

(* Someone changes the source tree.                                        *)
BaseChanges ==
  /\ swaps < This.swaps /\ swaps' = swaps + 1
  /\ base' \in This.bases \ {base}
  /\ UNCHANGED <<sc, expected, upper, dest, ps, left, faults, crashes>>

Step(p) ==
  \/ ApplyCowDiff(p) \/ ApplyBound(p) \/ PublishCowVolume(p)
  \/ InspectDestination(p) \/ CreateStaging(p)
  \/ CopyNext(p) \/ FinishCopy(p) \/ ApplyNext(p)
  \/ SerializeSnapshot(p) \/ SerializeNext(p) \/ MaterializeArchive(p) \/ CreateNext(p)
  \/ StartRestore(p) \/ RestoreNext(p) \/ AtomicPublish(p) \/ Cleanup(p)

PubNext == (\E p \in Procs : Step(p) \/ Crash(p)) \/ BaseChanges

PubSpec == PubInit /\ [][PubNext]_pubVars

-----------------------------------------------------------------------------
(* What is published is exactly what was promised: the merge the sandbox   *)
(* saw over the base it was launched with, however the base changes while  *)
(* it is copied; over the base itself when nothing is expected and it does *)
(* not change; and for an archive the tree its records describe, never     *)
(* under a bad signature (apply_inner, materialize).                       *)
PublishedExact ==
  dest.by # Nobody =>
    LET r == ps[dest.by] IN
    /\ Job(dest.by) \in {"bound", "volume"} => dest.tree = Merged(expected, upper)
    /\ Job(dest.by) = "plain" /\ swaps = 0 => dest.tree = Merged(base, upper)
    /\ Job(dest.by) = "archive" =>
         dest.tree = TreeOf(r.recs) /\ r.sig # "bad" /\ (swaps = 0 => dest.tree = base)

(* How a call ended is the truth: success means its tree is the one at the *)
(* destination, which nobody replaced; a failure that does not report its  *)
(* cleanup has left no staging tree of its own, crashes of earlier         *)
(* processes excepted.  An archive's is removed whatever modes it was      *)
(* given already, unless a call fails or one of them bars the owner from a *)
(* directory that is to be opened again (reharden_directories).            *)
HonestEnd ==
  \A p \in Procs :
    /\ ps[p].pc = "ok" => dest.by = p
    /\ ps[p].pc = "failed" => dest.by # p /\ left[p] <= crashes
    /\ Job(p) = "archive" /\ ps[p].pc = "CleanupFailed" => faults > 0 \/ Barred(ps[p]) # {}

(* Left alone, replay of an exported diff never fails: every parent an     *)
(* entry is resolved through exists by then, and no restored mode bars the *)
(* way to another directory (Snapshot's order, restore_directory_modes).   *)
Undisturbed == swaps = 0 /\ faults = 0 /\ crashes = 0

QuietReplaySucceeds ==
  \A p \in Procs :
    Undisturbed => ps[p].why \notin {"diff", "vanished", "mismatch", "stale", "entry", "blocked"}

(* serialize_snapshot_archive: "Serialize one supported snapshot tree into *)
(* a deterministic, bounded binary artifact."  A tree of supported nodes   *)
(* within the limits, which nobody changes, is therefore never refused.    *)
SupportedTreeArchived == \A p \in Procs : Undisturbed => ps[p].why # "order"

(* ROADMAP: an archive materialized where there is a destination leaves no *)
(* published destination "or staging residue".  So, with no failing call   *)
(* and no crash, does one that meets it at the rename.                     *)
NoResidueAtDestination ==
  \A p \in Procs :
    /\ Job(p) = "archive" /\ faults = 0 /\ crashes = 0
    /\ ps[p].why \in {"exists", "appeared"} /\ ps[p].pc \in Ended
    => left[p] = 0
===============================================================================
