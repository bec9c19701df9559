# Verification of security-lab in TLA+

`security-lab` is a Rust library and a set of command-line tools. One half
launches a program in a Linux sandbox, supervises it, hands it capabilities while
it runs and publishes what it wrote; the other keeps authenticated snapshots of
directory trees in a content-addressed store. This directory holds TLA+ models of
the program's stateful parts and of its pure algorithms, TLC configurations that
check them on small instances, and TLAPS proofs for instances of any size.

Paths below are relative to the repository root (`src/` left out); line numbers
are in `PROJECT.json` (`map`).

## Inventory

### Snapshot storage

| Component | State it keeps | Operations |
|---|---|---|
| `snapshot_store.rs` | `objects/` under the store root: one read-only file per snapshot identity, temporary names `.tmp-<pid>-<counter>`, a recovery lock file | atomic put; removal of crash-left temporary names; materialization (reads only) |
| `snapshot_store_durable.rs` | none of its own | fsync of an object, of `objects/`, of the root, in that order |
| `snapshot_store_transaction.rs` | a flock on the store root, shared or exclusive | read transaction, write transaction, put guarded by an expected inventory |
| `snapshot_store_audit.rs`, `snapshot_store_inventory.rs` | none | walk of the store; identity of the set of objects; projected identity after one or several puts |
| `snapshot_store_head_state.rs` | a separate state root: the head (generation, inventory), a pending single or batch journal, staged archives, a state lock | initialize, load, verify, publish one, publish a batch, recover |
| `cow_diff_apply.rs`, `cow_volume_publication.rs`, `platform/linux_cow_diff.rs` | a private staging directory beside the destination | export of an overlay's upper directory; replay of a diff over a verified copy of its base; publication by one rename |
| `snapshot_archive.rs` | the same | serialization of a tree, parsing, verified materialization |

Processes share nothing but directories. They interact through flocks
(state lock, then store root, then recovery lock), through `O_EXCL` and
`RENAME_NOREPLACE`, and through what a crash of one leaves for the next. What is
hard: a crash or a power loss between any two system calls, also during
recovery; publishers that race for one identity or one destination; a recovery
pass beside live publishers; a source tree that changes while it is copied; a
system call that fails half way through a sequence, and a clean-up that fails too.

What makes it correct: what was acknowledged as durable stays; nothing of a live
process is scavenged; a transaction sees one inventory; the head and the store
never drift into a combination that recovery rejects; the head never names an
object that can still be lost, nor one nobody asked for; recovery ends; a
published tree is exactly the promised one, and a failed publication published
nothing and says what it left behind.

### Trust, launch and supervision

| Component | State it keeps | Operations |
|---|---|---|
| `snapshot_trust.rs` | a policy: generation, active and revoked keys (in memory) | new, rotate, resolve a signer |
| `snapshot_trust_state.rs` | a state root with the authenticated identity of one policy and a lock file | initialize, load, rotate, the gate around store operations |
| `policy.rs`, `authority_delta.rs` | none | validation; comparison of two policies as the gate in front of a deployment |
| `platform/linux.rs` (`run_report`, `child_exec`) | descriptors pinned by the host, a shared record of the layers in force, the compiled filter and Landlock ruleset | prepare, fork, put one layer after the other in force, exec, receipt |
| `runtime_receipt_gate_main.rs` | none | comparison of a receipt with its policy |
| `platform/linux_pid_lifecycle.rs` | PID 1's locals, two records shared with the host | fork of PID 1 and of the target, poll loop, termination, kill and reap, publication |
| `cancellation.rs` | an eventfd that is never drained | cancel |

Trust: callers hold policies of any age; the file and the lock decide whose is
current. Hard are a crash between rename and fsync, rival rotations, and a
rotation beside an operation that was already let through. Launch: host and
child share pathnames with the rest of the system and a record with each other;
hard are objects replaced under a pathname, a child that ends between a layer
and its bit, 64-bit rules compiled to 32-bit jumps, and a comparison field by
field of policies whose fields work together. Supervision: host, bootstrap
process, PID 1 and the sandboxed tree run concurrently and share memory,
eventfds and a pipe; hard are events that become ready together, forks during
the kill, and a failure of any of the four.

### Capabilities for a running target

`runtime_fd_broker.rs` keeps a listener, one-shot sessions, reconnect and router
controllers with counters per route, sealed copies of files, byte streams and
host streams that can be revoked, and controllers of request/response exchanges:
sequential (one or many rounds, with deadlines per call or for the session) and
correlated (plain, authenticated by a challenge, with an acknowledgment barrier).
The other end of each is the target, which may do anything. Hard are the order
of calls after a failure or a revocation, partial sends, timers that expire in
the poll cycle in which the peer becomes ready, identifiers that come back, and
a barrier that both ends wait behind. Correct means: nothing is granted that was
not asked for or goes beyond the prepared ceilings; budgets count what left;
what was revoked stays revoked; every request is answered once; a failed
exchange stays closed; conforming ends finish.

### Not modelled

| Component | Reason |
|---|---|
| `snapshot_identity.rs`, `snapshot_auth.rs`, `snapshot_signature.rs`, `cow_volume_signature.rs` | hash, HMAC, Ed25519: cryptography without state, taken as ideal where it is used |
| `policy_preflight*`, `host_capabilities.rs` | read-only host probes, one answer each, in a throwaway process |
| the parser and the single-value ranges of `policy.rs` | text to record without state |
| `authority_manifest.rs`, `report.rs`, `cli_json.rs`, the `main`s | rendering and argument parsing |
| `elf_*.rs` | parsing of bytes |
| mount, id-map and descriptor operations of `platform/linux.rs` beyond their success or failure | what they do is the kernel's; no property here depends on it |

## Modules

| Module | Content |
|---|---|
| `SnapshotStore` | store, barriers, transactions, recovery of temporary names |
| `HeadState` | the authenticated head, its journals and recovery; extends `SnapshotStore` and publishes through its puts |
| `TrustState` | policies, their persisted identity, the gate |
| `PidLifecycle` | one supervised run |
| `RpcLedger` | abstract: what every request/response exchange promises |
| `FdBroker` | listener, sessions, reconnect and router controllers, snapshots, revocable streams |
| `MessageExchange` | the sequential exchange and its timers |
| `CorrelatedExchange` | the three correlated exchanges |
| `RuntimeBroker` | composition of the three |
| `SnapshotTree` | trees, diffs and canonical archives as operators |
| `TreePublish` | replay, volume publication, capture and materialization |
| `SeccompFilter` | the filter compiler, and the machine that runs its program |
| `LaunchSequence` | one launch; extends `SeccompFilter` |
| `AuthorityDelta` | the comparison of policies; extends `SeccompFilter` |
| `SandboxHost` | composition of `AuthorityDelta`, `LaunchSequence` and `TreePublish` |
| `SnapshotStoreProofs`, `HeadStateProofs`, `TrustStateProofs`, `PidLifecycleProofs`, `CorrelatedExchangeProofs`, `TreePublishProofs` | theorems about the module they are named after |
| `RuntimeBrokerProofs`, `SandboxHostProofs` | theorems about a composition, and about those of its parts that have no proof module of their own (`FdBroker`, `MessageExchange`; `AuthorityDelta`, `LaunchSequence`) |
| `MCSnapshotStore`, `MCHeadState`, `MCTrustState`, `MCPidLifecycle`, `MCBroker`, `MCTreePublish`, `MCHost` | model values, chosen inputs and symmetry for TLC |

A definition whose comment begins with "Fault:" is not used by any
specification. It is the form a plausible bug would give the definition after
it, and serves to show that a property can fail (`mutants` in `PROJECT.json`).

### The file system

A snapshot identity stands for an object's name and for the archive it
addresses. The store is seen as processes see it (`objs`, `temps`) and as a
power loss may leave it: `dataD` and `nameD` are the objects whose bytes and
whose names have crossed fsync, `ghosts` the temporary names whose removal has
not. A power loss keeps what was synced, keeps or drops the rest independently,
and may leave a name with wrong bytes (`torn`) if its data was never synced. The
death of a process loses nothing but its locks and its memory.

The state root is one record (`root`) and the set `past` of the contents it has
had since its last fsync. A power loss brings back one of them (`Ordered`, a file
system that keeps the order of directory changes, as journaling ones do) or any
mixture of their files (`Ordered = FALSE`).

External behaviour is confined to `StoreCrash`, `StorePowerLoss`, `Survivors`,
`HeadPowerLoss` and the steps built from them; everything else translates code.

### SnapshotStore and the code

A put of process `p` is `ph[p]`: `check` (the first look, without a lock),
`lock` (waiting for the shared recovery lock), `guarded` (the second look, then
`create_temp`), `temp` (about to rename), `raced` (lost the rename),
`syncObject` and `syncDirs` (the barriers), and the outcome. `PutFail` is the
error return of any system call on the way, with the clean-up, which may itself
fail. The atomic form of the put returns before the barriers
(`PutAtomicReturn`); only processes in `Bypass` call it, or the durable form,
outside a transaction. A recovery pass is `recPc`: the bounded scan, one unlink
after the other, the barriers, the report. Creating and writing the temporary
file is one step: nobody reads it, and its data is not synced either way. Where
the code opens an object and compares its bytes, the model asks whether the
object is torn: signatures were verified before, and the hash is taken to be
free of collisions.

### HeadState and the code

`hpc[p]` is the place in the operation and `job[p]` its locals. One step is one
system call that another process or a crash could tell apart: taking the state
lock together with the reads only its holders can invalidate; taking the store
transaction; the audit with the decision taken on it; the create, the fill and
the directory fsync of a journal; each stage; the put (all the steps of
`SnapshotStore`); the rename of the head, its fsync; each unlink, its fsync. A
journal is absent, cut short or an intent. An intent holds the predecessor and
the ordered members; the successor, the flags of known members and the
intermediate inventories, which the code writes out, are functions of these.
`Outsiders` use the store transactions without maintaining the head.

### TrustState and the code

A policy is the record of its generation, active and revoked keys; its identity
is a hash of exactly that, so equality of identities is equality of records.
`pc[p]` is the place in a call; `sup`, `nxt` and `signer` are its arguments and
the computed successor. `state` is what the file names, `past` what a power loss
may leave there: only an fsync of the directory (`SyncDir`) empties it. Writing,
syncing and renaming the temporary file is one step, as nobody else reads that
file and the fsync precedes the rename. The gated operation, a put or a
materialization, is the phase `operate`; `SnapshotStore` has its inside.
`Abandon` is every error return and every exit of a process: for the disk and
the lock they are the same.

### PidLifecycle and the code

`life`, `parent` and `doomed` are the target and its descendants as the kernel
sees them; `pc` is PID 1, `boot` the bootstrap process, `host` the caller of
`run_report`. `Poll` is one return of `poll` with the test of the output limit,
`Arbitrate` the `wait4(WNOHANG)` with the tests after it; the kill is a step of
its own, since the target may end in between. `owner` is the triple of flags
`wait_direct_target` returns. The record is written in two steps, readiness
last. A set-up failure of the target is `TargetSetupFails`, a failed system call
of PID 1 `InitFails`. When PID 1 is dead the kernel empties the namespace
(`Zap`) before the bootstrap process can reap it. `MaxLateForks` lets a fork
complete although SIGKILL was sent: Linux does not allow it, but the comment in
`kill_and_reap_remaining` claims to be safe against it, and is checked.

### The broker modules and the code

In all three, a call that the code refuses without effect is a guard: its action
is simply not enabled. The target is the environment. It connects or others do,
writes any bytes, closes its end, asks, repeats itself or stays silent.

`FdBroker` is one session (`role` says which accept call was made, `kind` what is
granted). `chan` is `RuntimeFdSessionState`, or open and failed for a controller.
`grant_next` is three steps (read the request, connect and ask for the peer,
send), because the service behind a pathname may change in between. The copy of a
snapshot goes unit by unit while its source is overwritten, extended or cut.
`lease` is a revocable stream with what the controller counts (`sent`) and what
the kernel took (`piped`) kept apart.

`MessageExchange` has one step per turn of a poll loop: the poll (`revents`),
the look at what it returned in the order of the respective loop, the receive or
send. `session` and `timer` are timerfds that may expire between any two steps.
`ready` and `late` remember what held when a call began.

`CorrelatedExchange` keeps the controller's fields under their own names and the
two directions of the socket pair as queues of packets. `mode` chooses the
controller, `conduct` whether target and application conform or do anything. A
tag is the thing it covers: it can be repeated, and cannot be made without the
challenge. A target that holds the key and has the challenge can sign ahead: behind
the barrier it may acknowledge any response it can guess, read or not
(`Acknowledgeable`), as the repository's README allows; `guessed` remembers what
it signed for unread. `Earlier` is what it kept of an earlier session.

`RpcLedger` is the abstract specification of the exchanges: open, answer,
confirm, close. `RefinesLedger` maps `pending`, `seen \ pending`, `awaiting` and
`failed` to it; `RefinesSerialLedger` maps the rounds of the sequential exchange
to identifiers, with one request open at a time.

`RuntimeBroker` puts the three next to each other. An exchange owns its socket
pair and shares nothing with the channel it was granted over, so a behaviour of
the composition exercises one part while the others rest.

### SnapshotTree, TreePublish and the code

A tree maps the paths of a fixed set to nodes. Paths are sequences of bytes,
because the order of raw bytes decides which archive is canonical. `Snapshot` is
the exporter's walk of an upper directory with its whiteouts and opaque
directories; `ApplyEntry` what one entry of the diff does to a staging tree;
`Merged` is the reference, the view the overlay mount gave the sandbox, written
without the diff. `TreePublish` runs the publishers one system call at a time:
validation and budget, the early identity check, the look at the destination,
the staging directory, the copy entry by entry, the identity of the copy,
the entries, the modes deepest first, the rename, or the clean-up and its
failure. The archive's capture, parse and creation share the second half. The
source may change between any two steps, a call may fail, a process may die and
start again under the same process id. Clean-up of an archive opens every
directory but the root again before it gives it back to the owner, so it stops at
one that already has a mode without owner access (`Barred`).

### SeccompFilter, LaunchSequence, AuthorityDelta and the code

`SeccompFilter` compiles a policy's rules to the instructions the code emits, in
the same order and with the same relative jumps, and runs them (`Verdict`);
`Promised` says in terms of whole arguments what the verdict should be. A word is
`WordBits` wide; `&` is defined there, bit by bit.

`LaunchSequence` lists the steps of the bootstrap process, PID 1 and the target in
the order of `child_exec`. A step that puts a layer in force is two: its system
calls, then its bit in the shared record. `Predecessors` and `AsRequested` are the
host's validation of the bits. `ReplaceObject` puts another object under the
pathname of the root or the volume at any time before exec.

`AuthorityDelta` compares two policies with the comparators of the code; fields
compared alike share one field of the model. `Authority` is what the launch code
makes of a policy: allowed calls, accesses left by Landlock, descriptors, mounts,
budgets. `SandboxHost` puts gate, launch and publication next to each other; they
meet in what one hands to the next, and each takes every such value as input.

## Runs

All runs are over processes, identities and temporary names as model values. The
safety-only runs over interchangeable values use symmetry.

| Run | Checks | Shows |
|---|---|---|
| `store` | `AckedDurable`, `LiveTempSafe`, `PurgedStayGone`, `ReadersSeeOneInventory`, `PutCompletes`, `RecoveryEnds` | puts, races, failures, crashes and recovery passes, inside transactions and outside them; what was started ends |
| `head` | `HeadBacked`, `Recoverable`, `RefusesOnlyDamage`, `PromiseKept`, `Converges` | every operation on the head by two processes, crashes and power losses at every step; undamaged, what they leave is what recovery accepts, and recovery refuses nothing else; repeated, it completes or aborts what was pending |
| `head_outsider` | `NothingForeignPromoted` | a publisher that ignores the head; every call may fail; unsynced files of the state root are lost in any combination |
| `trust` | `RevokedStayOut`, `AckedNotRolledBack`, `OneLine`, `RetriedRotationConverges` | two callers with policies of two rival lines, faults at every step; a repeated rotation is acknowledged in the end |
| `pid` | `NoSurvivors`, `PriorityKept`, `HonestOutcome`, `RunEnds` | two descendants, none or two of the controls, every failure; a control, or the end of the target, ends the run |
| `broker`, grants | `GrantAskedFor`, `GrantWithinPolicy`, `SupplyExact`, `RevokedIsFinal` | every grant was asked for by the owner's process and is within what was prepared, though services and files change meanwhile; budgets count what left; revocation is final |
| `broker`, rounds | `DeadlinePrecedence`, `BoundedCallEnds`, `RefinesSerialLedger` | the session's lifetime is hard, a call's deadline soft, in all three poll loops; a bounded call ends; the exchange implements the ledger |
| `broker`, correlated | `ExactlyOnce`, `AckMeansRead`, `ConformingServed`, `Completes`, `RefinesLedger` | one response per request whatever was refused or failed; an acknowledgment is of what was read, or signed ahead for exactly what was sent; conforming ends never poison the exchange and finish it; it implements the ledger |
| `host`, publish | `PublishedExact`, `HonestEnd`, `QuietReplaySucceeds` | replay of an exported diff is the overlay's merged view for every pair of base and upper directory; a changed base is never published; failures publish nothing |
| `host`, launch | `ConfinedBeforeExec`, `ReceiptFaithful`, `FilterExact`, `FailedLaunchEnds` | the target runs behind every layer and on the pinned objects; a receipt never claims too much nor a wrong progression; the filter decides as its rules say; a failing launch gets out |
| `host`, gate | `ApprovedNeverWidens` | an approved candidate gives no new authority (but see `delta_topology`) |
| `store_retry`, `head_torn`, `archive_order`, `archive_residue`, `delta_topology` | one property each, violated | the divergences below |

### Bounds

`store`: two processes are a publisher and a rival for the same identity, or a
publisher and a recovery pass; one of them also publishes outside the transaction
layer (`Bypass`), so `ReadersSeeOneInventory` says: if everyone cooperates
throughout, readers see one inventory. Larger instances are covered by the proofs.
`MaxEntries` is the caller's budget, tight here so that passes over budget
happen. `head`: two processes, whose operations exclude each other under the
state lock, so that a second only waits, crashes, or runs a recovery pass; two
identities give a batch of a known and a new member in either order; two crashes
are one of an operation and one of the recovery after it. `MaxGen` is where the
generation counts as exhausted; 3 leaves room for two publications after
initialization. A failing call is a crash of its caller there, which does the same
to disk and locks, apart from the removal of a half-written journal, which is a
step of its own; `head_outsider` has the failing calls themselves. Temporary names
are reused as soon as they are free, which is the worst case of pid reuse.

In `trust`, two callers are a rotation and a rival, or a rotation and a gated
operation; stale readings need no third, since a caller may supply any policy
of `Held`. `Held` has two successors of one generation, one of which revokes the
first key, and policies after each. Two faults are a failed attempt and a power
loss; the caller in `Retry` calls without end and the other `MaxCalls` times. In
`pid`, two descendants are needed for one to fork the other while it is killed;
two units of output with a limit of one give an excess after an unsuspicious
read. `MCOffered` has no control, a plain capture and every two of deadline,
cancellation and output limit, so that each order of priority is met.

In `broker`, two routes, one pinned, with room for two and one connections: one
fills up while the other is open. Three identifiers with two in flight of three
requests reach each ceiling and let an identifier come back after its round;
queues of two packets fill up; a target of any conduct sends four packets, which
is a request, an answerable second, a repeated one and an acknowledgment out of
place, or two requests, the first acknowledged, and that acknowledgment repeated
for the second. One body and one exchange of an earlier session: a guess that is
wrong in the identifier is met here, one wrong in the body only in the proof. One
failing call at a time. Three rounds are a first, a middle and a last.

In `host`, an argument is two words of two bits, so carries between words, ends
of ranges and full and partial masks all occur in 0..15, and `BlockLimit` is in
reach; every combination of the optional layers under one filter, and every shape
of rule under one combination. The trees are a directory with a file in it and a
sibling whose name sorts between them, with every kind of node and mode there;
every base with every upper directory in the quiet scenario, few in the others,
where the base changes twice, a call fails, a process dies, or two race for the
destination, with an archive among them whose directory bars the owner. Policies differ in the fields of one group at a time, and in one
group of fields from every comparator; lists of topology rights are not emptied.

### Fairness

`StoreFairSpec`: every put and every pass that has started goes on unless it
waits for a lock, because a thread inside a system call returns. Nothing obliges
a caller to start anything. A flock gives no turn to a waiting publisher, so a put
may wait for ever if recovery passes never stop: `PutCompletes` says so.

`HeadFairSpec`: operations go on; some process calls recovery again while it can,
and the recovery of temporary names while there are any, since a left-over makes
every audit fail. Crashes are finite (`MaxCrashes`). `Converges` excepts damage
that the code never repairs (a torn object, a journal cut short) and passes that
take the recovery lock for ever with nothing to remove.

`TrustLiveSpec`: a call in progress goes on, and the retrying caller calls
again. flock prefers no writer, so an endless stream of gated operations could
keep a rotation waiting; `MaxCalls` leaves that out.

`PidLiveSpec`: PID 1, the bootstrap process and the host run on, the kernel
delivers SIGKILL, empties the namespace of a dead PID 1 and lets the timer
expire. Nothing is asked of the sandboxed processes.

`BrokerFairness`: a call in progress goes on and time passes, whatever the
target does. `Completes` is about conforming ends only, and these serve, read and
ask when they can.

`HostFairness`: the processes of a launch run on; nothing in them waits for anyone
but the host for the child.

## Proofs

Every theorem holds for all values of the constants that meet the module's named
assumption, which are the ceilings the code itself enforces. `*Invariance` is in
each module the inductive invariant the others follow from.

| Module | Theorems (property) |
|---|---|
| `SnapshotStoreProofs` | `StoreInvariance`, `StoreTypeCorrect`, `AckedIsDurable` (`AckedDurable`), `TempsAreSafe` (`LiveTempSafe`), `RemovalIsDurable` (`PurgedStayGone`), `TransactionsIsolate` (`ReadersSeeOneInventory`), `GuardedPutIsSwap` (`GuardStillHolds`) |
| `HeadStateProofs` | `HeadInvariance`, `HeadIsBacked` (`HeadBacked`), `NothingForeignIsPromoted` (`NothingForeignPromoted`), `HeadWriterIsAlone`; if `Ordered` and `Outsiders = {}` also `OrderedInvariance`, `AlwaysRecoverable` (`Recoverable`), `RecoveryRefusesOnlyDamage` (`RefusesOnlyDamage`), `PromisesAreKept` (`PromiseKept`) |
| `TrustStateProofs` | `TrustInvariance`, `TrustTypeCorrect`, `AcknowledgedStays` (`AckedNotRolledBack`), `GateHolds` (`RotationWaits`), `RevocationIsFinal` (`RevokedStayOut`), `AcknowledgedInOneLine` (`OneLine`) |
| `PidLifecycleProofs` | `PidInvariance`, `PidTypeCorrect`, `NobodySurvives` (`NoSurvivors`), `PriorityIsKept` (`PriorityKept`), `OutcomeIsHonest` (`HonestOutcome`) |
| `CorrelatedExchangeProofs` | `CxInvariance`, `CxTypeCorrect`, `AcknowledgedWasRead` (`AckMeansRead`), `EachRequestOnce` (`ExactlyOnce`), `ConformingEndsAreServed` (`ConformingServed`, if `QueueLimit >= MaxInFlight`), `ImplementsLedger` (`RefinesLedger`) |
| `RuntimeBrokerProofs` | of the grants `FdInvariance`, `FdTypeCorrect`, `GrantsWereAskedFor` (`GrantAskedFor`), `GrantsStayWithinPolicy` (`GrantWithinPolicy`), `SupplyIsExact` (`SupplyExact`), `RevocationHolds` (`RevokedIsFinal`); of the sequential exchange `MxInvariance`, `MxTypeCorrect`, `DeadlinesHold` (`DeadlinePrecedence`), `ImplementsSerialLedger` (`RefinesSerialLedger`); of the composition `BrokerIsItsParts`, `BrokerIsSafe`, `BrokerServesConformingEnds`, `BrokerKeepsLedgers` |
| `TreePublishProofs` | of publication `PublishInvariance`, `CallsEndHonestly` (`HonestEnd`), `StagingIsExact`, `PublishedTreesAreExact` (`PublishedExact`), `QuietReplayNeverFails` (`QuietReplaySucceeds`); of the algorithms `SnapshotIsValid` (an exported diff passes `validate_diff`) and `ArchiveIsTree` (a parsed archive of a tree that did not change describes it) |
| `SandboxHostProofs` | `LaunchInvariance`, `TargetsAreConfined` (`ConfinedBeforeExec`), `ReceiptsAreFaithful` (`ReceiptFaithful`), `ApprovedPoliciesNeverWiden` (`ApprovedNeverWidens`, if `TopologyKept`); of the composition `HostIsSafe` and `HostNeverWidens` |

The properties are not inductive; each invariant adds what they rest on.

*Store.* `AckedDurable` needs `PutInv`: a put that reaches the first barrier has
an object that is whole, and keeps it until the second, because no step removes
an object and only a power loss, which ends the put, tears one. `LiveTempSafe`
needs `TempInv` (exactly the publishers between create and rename own a name, each
its own) and `RecInv` (a pass and a guarded publisher exclude each other, and a
pass knows only names that still exist). `PurgedStayGone` needs `PurgeInv`: a name
reported as removed is neither present nor a ghost. The transaction properties
need `TxnInv`: without bypassing publishers, only the holder of the exclusive
flock is inside a put.

*Head.* The proof has two parts. `HeadInv` needs no hypothesis. It has who holds
the state lock, where each operation may be and what its locals then hold
(`FlowInv`), which member a put inside it is at (`LinkInv`), and two facts about
every content the state root may come back with and every local copy of a head:
what a head or a journal's predecessor names is acknowledged or was there at
initialization (`BackInv`), and so is what it names of outsiders' objects
(`ForeignInv`). A journal's predecessor matters because recovery makes a head of
it. `OrderedInv` adds that the disk is in one of three conditions whoever runs
(`Empty`; `Quiet`: the store is what the head says; `Publishing`: it is somewhere
between a journal's predecessor and successor, by at most one object ahead of
what is durable), what each place of an operation may rely on (`ProcInv`), and
that every older content of the state root keeps the promised head, has a later
one, or the journal that leads to it. The two hypotheses are needed: without
`Ordered` a power loss may keep the removal of a journal and lose the head
written before it, and a publisher that ignores the head makes the store differ
from it. `head` is checked under both; `head_outsider` under neither.

`Recoverable` lists the accepted combinations (`Accepted`) for roots without
damage. Damage is a torn object or a journal cut short, which recovery refuses and
nothing repairs; of the latter it still says that it stands alone and that the
store is what the head says: a journal is whole before the store is touched, so a
torn one is met in the condition `Quiet` only. That recovery itself never trips
over what it finds (`RefusesOnlyDamage`) needs `ReplayInv`: its replay inserts no
member that it saw in the store or that was there before the batch, so that after
each put the inventory is the one its audit expects.

*Trust.* `TrustInv` adds that the exclusive lock excludes readers (`Exclusive`),
what each call knows (`CallInv`: a successor follows the policy it was computed
from, and that policy is still the state when the rename is due) and that
acknowledged policies are ordered (`Line`). Following is transitive, the state
moves only to a policy that follows it, so everything in `past` follows what was
acknowledged; and a gated operation's policy is the state, whose revocations
include those of everything it follows.

*Supervision.* PID 1 sees only its own children, so `NoSurvivors` needs that no
process hides behind another: `TreeInv` says that the parent of an unreaped
process is PID 1 or alive, and that every set of unreaped processes has one whose
parent is outside it. A fork hangs a new process below a live one, an exit hands
children to PID 1, only exited processes are reaped; so a PID 1 without children
has no descendants (`ChildlessIsEmpty`). `OwnerInv` and `EventInv` tie the owner
to what one poll returned and to descriptors that stay readable, `StatusInv` says
that PID 1 sends no signal before it has decided, and `RecordInv` that the host
reads what PID 1 wrote.

*Grants.* `AskedInv` counts: readiness bytes read are at least the grants, bytes
written are those unread and those used up. For `GrantWithinPolicy` the counter of
a route is the number of grants on it, a grant that is being made already has its
route and its peer decided, and a copy never exceeds what is left of its ceilings.
`LeaseInv` ties the controller's
counter to the kernel's, `ChanInv` the states of channel, step and grants.

*Sequential exchange.* `ReadyInv` and `LateInv` carry what held when a call began
through its poll loop: a call that could be served at its start never reaches the
branch that reports a timeout, and a call that began after the session's end can
only see the session's timer. `RoundInv` ties the state to the rounds, which
gives the refinement.

*Correlated exchange.* `CounterInv` has the counters and ceilings, `ChannelInv`
the types of packets. `AckInv` says that an authentic acknowledgment under way is
of a response the target has read or guessed, because its tag covers the response
and the challenge; `SentInv` that the response behind the barrier has been read
or is, as it was sent, in the target's queue. The barrier opens only for an
acknowledgment equal to that response, so a guess that passes is of exactly what
the target was sent. `ExactlyOnce` rests on `OnceInv` (a response of an identifier is either
under way or read, and there is one) and `OrderInv` (what the host accepted,
followed by the requests in the queue, is what the target issued).
`ConformingServed` needs that the queue holds what may be in flight, because the
code sends with `MSG_DONTWAIT` and poisons the exchange when that fails: with a
smaller queue the property is false. The refinement maps each step to one step of
the ledger or to none.

*Launch.* The steps of a policy are a subsequence of one fixed order (`Rank`), so
what is over before a step is known from its rank. `ProgressInv` says that the
layers in force, the bits of the record and the layers that are over are the same
set, but for the one step between a layer and its bit; `OpenedInv` that what
passed a check is what was pinned. At the last step all layers a policy asks for
are over, and a set of bits closed downwards in the order is never refused.

*Publication.* A publisher has a staging tree exactly in the states that work on
one, the names in the parent directory are its crashes and at most one more
(`LeftInv`), it has ended in success exactly when it is the destination's
publisher, and every directory of an archive's staging tree has a recorded mode
(`Moded`), so that giving these back to the owner makes the whole tree removable;
only a directory that bars the owner already stops that, and `HonestEnd` names
this exception.

That it publishes the promised tree needs to know at every step which part of it
the staging tree is (`ExactInv`). A staging tree and its recorded modes describe a
tree (`Seen`), and each loop has its own relation to the promised one:

* the copy of a base that changes meanwhile only keeps directories above every
  node and one mode for each (`Copying`); while the base stands still nothing is
  missed (`CopyOf`: every node is copied, waits in `work`, or lies below a node
  that does). A call that expects an identity gets past the gate only with the
  expected tree, whatever the copy saw.
* replay has made of it the base with the entries done so far laid over it
  (`Halfway`, `Partial`). The diff is sorted, so what is left is always its upper
  end (`Pending`); nothing done lies below the path of the next entry, and the
  entry of its parent, unless that is the root, is done. With no entry left the
  result is the kernel's merge (`AllReplayed`).
* an archive's records done so far are a part of its tree closed upwards
  (`Creating`), because each record comes after its parent's.
* restoring keeps `Seen`, and never bars the way to a directory that is still due:
  those above the next one are not as deep, so they are still open (`Restoring`).

The order of raw bytes is shown total, transitive and extended by "below"; a
sort's result is pinned down by counting, since the number of elements before an
element is a bijection onto `0..n - 1`. Least and greatest numbers take the place
of induction. The assumptions are those of `PathAssumption` (paths are finitely many
byte sequences with their parents among them) and `PublishAssumption` (a base has
directories above every node and only supported kinds, an upper directory the same
with whiteouts, and only directories are opaque).

*Gate.* One lemma per comparator says what a harmless class means for the two
values; the status is harmless only if every class is (`CombinedMeans`); one lemma
per area of `Authority` shows it monotone in these facts. For calls that is the
filter's rules: more rules for a syscall leave fewer calls, and no valid policy
has rules for the syscalls the launcher itself needs, so the bootstrap exception
of a policy without `execveat` gives nothing new. `TopologyKept` (no candidate of
a group empties a topology list that another has) is needed: `delta_topology` is
the counterexample without it. `TypedPolicy` says of the policies what the types
of policy.rs say.

The compositions carry their parts' invariants, as every step of one is a step of
one part that leaves the variables of the others alone.

Only model-checked: the temporal properties under fairness (`PutCompletes`,
`RecoveryEnds`, `Converges`, `RetriedRotationConverges`, `RunEnds`,
`BoundedCallEnds`, `Completes`, `FailedLaunchEnds`), which are out of
the prover's reach; `FilterExact`, because the interpreter is a recursive function
whose argument only grows, so that nothing is known of it without an induction over
programs.

## Divergences from the documentation

* `store_retry`: the comment of the durable put says that a caller interrupted
  after the rename can retry and converge. After a power loss the renamed object
  may be torn; the retry is then refused as a conflict, and nothing removes it.
* `head_torn`: recovery is documented to clear an intent that preceded any
  mutation of the store. The journal is created under its final name and filled
  afterwards; cut short in between, it blocks every operation for ever.
* `archive_order`: any supported tree is documented to be archived. The writer
  walks depth first with siblings sorted by name, and its parser demands the order
  of raw paths. A sibling whose name continues a directory's name with a byte below
  `/` (`a` with a file in it, beside `a.b`) makes the two part, and the archive
  is refused.
* `archive_residue`: a failure over an existing destination is documented to leave
  no staging residue. When the destination appears after the first look, the rename
  fails with all modes restored, and a directory whose archived mode bars its owner
  cannot be opened for clean-up by a process without the capability to override
  modes: the call reports `CleanupFailed` and the staging tree stays.
* `delta_topology`: the comparison treats an emptied list of topology rights as a
  removed grant and approves. The launch handles these rights only while the list
  is not empty, so emptying it lifts the restriction.

## What the models leave out

Byte budgets of audits and archives; parsing of object names and record
encodings beyond complete or cut short; hash collisions and forged records;
non-blocking lock variants, which return where the others wait; programs that
write into the roots behind the library's back; left-over temporary files of the
state root, which nothing reads. Initialization may anchor objects that an atomic
put never synced; no text promises otherwise, so `HeadBacked` and `PromiseKept`
speak of what was published after it. A gated operation may run under a policy
whose rename is not yet durable, and a power loss can then bring the older policy
back; only acknowledged policies are promised to stay. A recovery pass of the
store that finds no temporary name reports without an fsync, so the retry of a
pass that died between its unlinks and its fsync does not make these removals
durable; `PurgedStayGone` speaks, as the repository's README does, of names that a
reporting pass removed itself. Recovery that finds the
successor head removes the journal without syncing the directory first; a file
system that may persist the unlink without the earlier rename could bring the old
head back with no journal. The repository's README leaves such file systems
out, so convergence is checked with `Ordered` only. The private temporary file of
a rotation and the usage numbers of a run are left out.

Of the broker: the unlinking of the listener's pathname on drop, and connections
that arrive after the one accepted; and a socket counts as writable when its queue
has room, where the kernel's POLLOUT threshold is stricter. Of the trees: extended
attributes, ownership, special files, and the bytes of files beyond a version; a
capture is taken to be able to read everything, so it has no EACCES path. Of the
supervision: a signal that kills the target during its set-up without anyone in the
model having sent it, and a kill of the bootstrap process from outside. Of
Landlock: a group of rights that is not handled counts as unrestricted as a whole,
though the kernel denies REFER under any ruleset; `delta_topology` rests on the
other rights of the group. Of the launch: what a
mount, an id map or a descriptor operation does, resource usage, and the
supervision of PID 1, which `PidLifecycle` has. Of the policies: the parser, and
ranges of single values.

## Plan

1. An abstract specification of the head (a register that moves from one
   anchored inventory to the next) refined by `HeadState`.
2. `TrustState` composed with `SnapshotStore`.
3. `FilterExact` for every policy, by an invariant on the compiler's jumps instead
   of an induction over the program.
