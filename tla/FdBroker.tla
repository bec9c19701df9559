------------------------------- MODULE FdBroker -------------------------------
(***************************************************************************)
(* Granting capabilities to a running target (runtime_fd_broker.rs): the   *)
(* listener that only serves its owner's process, the one-shot session,    *)
(* the reconnect and router controllers that connect to host services on   *)
(* the target's request, the sealed snapshot of a changing file, and the   *)
(* two capabilities the host can take back: a connected host stream and a  *)
(* bounded byte stream.                                                    *)
(*                                                                         *)
(* role says which of the accept calls the application makes and kind what *)
(* a session grants.  Calls refused without effect are guards.             *)
(***************************************************************************)
EXTENDS Naturals, Sequences, FiniteSets, SequencesExt

CONSTANTS
  Routes,       \* indices of a router's service paths, from 0
  Pinned,       \* the routes with an expected peer
  MaxPerRoute,  \* max_connections of each route
  ReadyByte,    \* the readiness byte agreed on
  MaxBytes,     \* max_bytes of a byte stream
  MaxSnapshot,  \* max_bytes of a snapshot
  MaxTotal,     \* max_total_bytes of a bundle of snapshots
  MaxWritten,   \* bound: bytes the target writes to its broker channel
  MaxUnread,    \* bound: bytes of them waiting to be read
  MaxSwaps,     \* bound: changes of a service, or of the copied file
  MaxConnects,  \* bound: connections to the listener
  MaxCalls      \* bound: failing calls

ASSUME FdAssumption ==
  /\ Cardinality(Routes) \in 2..4 /\ Routes = 0..(Cardinality(Routes) - 1)
  /\ Pinned \subseteq Routes
  /\ MaxPerRoute \in [Routes -> 1..8] /\ ReadyByte \in 0..255
  /\ MaxBytes \in Nat \ {0}
  /\ MaxSnapshot \in Nat \ {0} /\ MaxTotal \in Nat \ {0} /\ MaxUnread \in Nat
  /\ MaxWritten \in Nat /\ MaxSwaps \in Nat /\ MaxConnects \in Nat /\ MaxCalls \in Nat

VARIABLES
  role, kind,
  backlog,   \* connections waiting at the listener, by their credentials
  connects,
  chan,      \* RuntimeFdSessionState, or open and Failed for a controller
  chanPeer,  \* whose connection was accepted
  written,   \* bytes the target has written and the host not read
  writes, eof, \* how many it wrote, and that it closed the channel
  readies,   \* history: readiness bytes among them
  step,      \* progress of grant_next
  services, swaps, \* who answers at each path
  granted, total,  \* granted_connections, total_granted_connections
  held,      \* what the target was sent
  misses,    \* failing calls so far
  lease,     \* the revocable byte stream or host stream
  snap       \* the sealed snapshot

chanVars == <<backlog, connects, chan, chanPeer, written, writes, eof, readies>>
routeVars == <<step, services, swaps, granted, total>>
fdVars == <<role, kind, chanVars, routeVars, held, misses, lease, snap>>

Kinds == {"file", "seqpacket", "hoststream", "snapshot", "bundle", "bytes"}

NoStep == [at |-> "idle", route |-> 0, who |-> "none"]

(* state: of the controller.  sent: sent_bytes.  piped, drained: bytes the *)
(* kernel took and the target read.  left: rest of the current send_all.   *)
(* shut: writes, or both directions, are shut down.  io: bytes exchanged.  *)
PreparedLease ==
  [state |-> "Active", sent |-> 0, piped |-> 0, drained |-> 0, left |-> 0, shut |-> FALSE,
   io |-> 0, end |-> FALSE]

(* source: the file's content, each unit a version.  copy: the memfd being *)
(* filled.  items: the sealed snapshots.                                   *)
EmptySnap == [source |-> <<0>>, copy |-> <<>>, at |-> "copying", items |-> <<>>]

FdInit ==
  /\ role \in {"session", "router", "reconnect"}
  /\ kind \in IF role = "session" THEN Kinds ELSE {"hoststream"}
  /\ backlog = <<>> /\ connects = 0 /\ chan = "none" /\ chanPeer = "none"
  /\ written = <<>> /\ writes = 0 /\ eof = FALSE /\ readies = 0
  /\ step = NoStep /\ services = [r \in Routes |-> "expected"] /\ swaps = 0
  /\ granted = [r \in Routes |-> 0] /\ total = 0
  /\ held = <<>> /\ misses = 0
  /\ lease = PreparedLease /\ snap = EmptySnap

CallFails == misses < MaxCalls /\ misses' = misses + 1

-----------------------------------------------------------------------------
(* The listener.                                                           *)

(* The target connects, and others may; who comes after an accepted        *)
(* connection waits for another call and is left out.                      *)
Connect(who) ==
  /\ chan = "none" /\ connects < MaxConnects /\ connects' = connects + 1
  /\ backlog' = Append(backlog, who)
  /\ UNCHANGED <<role, kind, chan, chanPeer, written, writes, eof, readies, routeVars, held,
                 misses, lease, snap>>

AcceptTrustedStream(opened) ==
  /\ chan = "none" /\ backlog # <<>>
  /\ backlog' = Tail(backlog)
  /\ IF Head(backlog) = "owner"
     THEN chan' = opened /\ chanPeer' = Head(backlog)
     ELSE UNCHANGED <<chan, chanPeer>>
  /\ UNCHANGED <<role, kind, connects, written, writes, eof, readies, routeVars, held, misses,
                 lease, snap>>

Accept == role = "session" /\ AcceptTrustedStream("AwaitingReady")

AcceptRouter == role = "router" /\ AcceptTrustedStream("open")

AcceptReconnect == role = "reconnect" /\ AcceptTrustedStream("open")

-----------------------------------------------------------------------------
(* The target writes to its channel: the readiness byte, the index of a    *)
(* route, known or not, or anything else.                                  *)
Bytes == Routes \cup {ReadyByte, Cardinality(Routes)}

TargetWrites(b) ==
  /\ chan # "none" /\ ~eof /\ writes < MaxWritten /\ Len(written) < MaxUnread
  /\ written' = Append(written, b) /\ writes' = writes + 1
  /\ readies' = IF b = ReadyByte THEN readies + 1 ELSE readies
  /\ UNCHANGED <<role, kind, backlog, connects, chan, chanPeer, eof, routeVars, held, misses,
                 lease, snap>>

TargetCloses ==
  /\ chan # "none" /\ ~eof /\ eof' = TRUE
  /\ UNCHANGED <<role, kind, backlog, connects, chan, chanPeer, written, writes, readies,
                 routeVars, held, misses, lease, snap>>

(* read_exact of n bytes: all of them, or an error at the end of stream.   *)
ReadFails(n) == (CallFails \/ (eof /\ Len(written) < n /\ UNCHANGED misses)) /\ UNCHANGED written

ReadExact(n) ==
  Len(written) >= n /\ written' = SubSeq(written, n + 1, Len(written)) /\ UNCHANGED misses

-----------------------------------------------------------------------------
(* RuntimeFdSession.                                                       *)

(* Fault: any byte is taken for the readiness byte.                        *)
WaitForAnyByte ==
  /\ role = "session" /\ chan = "AwaitingReady"
  /\ \/ ReadFails(1) /\ chan' = "Failed"
     \/ ReadExact(1) /\ chan' = "Ready"
  /\ UNCHANGED <<role, kind, backlog, connects, chanPeer, writes, eof, readies, routeVars, held,
                 lease, snap>>

WaitForReady ==
  /\ role = "session" /\ chan = "AwaitingReady"
  /\ \/ ReadFails(1) /\ chan' = "Failed"
     \/ ReadExact(1) /\ chan' = IF Head(written) = ReadyByte THEN "Ready" ELSE "Failed"
  /\ UNCHANGED <<role, kind, backlog, connects, chanPeer, writes, eof, readies, routeVars, held,
                 lease, snap>>

(* Snapshots and bundles of them are granted once they are prepared.       *)
Prepared ==
  /\ kind = "snapshot" => snap.at = "sealed"
  /\ kind = "bundle" => snap.at = "bundled"

(* send_fds: one sendmsg with the payload byte and all the descriptors.    *)
Transferred(what) == ~eof /\ held' = Append(held, what) /\ UNCHANGED misses

TransferFails == (CallFails \/ (eof /\ UNCHANGED misses)) /\ UNCHANGED held

SendPreparedFds ==
  /\ role = "session" /\ chan = "Ready" /\ Prepared
  /\ \/ Transferred([what |-> kind, who |-> "none", route |-> 0]) /\ chan' = "GrantSent"
     \/ TransferFails /\ chan' = "Failed"
  /\ UNCHANGED <<role, kind, backlog, connects, chanPeer, written, writes, eof, readies,
                 routeVars, lease, snap>>

-----------------------------------------------------------------------------
(* The router and reconnect controllers: grant_next in three steps, with   *)
(* the services changing in between.                                       *)

ControllerFails == chan' = "Failed" /\ step' = NoStep

RouterComplete == \A r \in Routes : granted[r] = MaxPerRoute[r]

RouteOpen(r) == r \in Routes /\ granted[r] < MaxPerRoute[r]

RouteRequest ==
  /\ role = "router" /\ chan = "open" /\ step.at = "idle" /\ ~RouterComplete
  /\ \/ ReadFails(2) /\ ControllerFails
     \/ /\ ReadExact(2)
        /\ LET r == written[2] IN
           IF written[1] = ReadyByte /\ RouteOpen(r)
           THEN step' = [NoStep EXCEPT !.at = "connect", !.route = r] /\ UNCHANGED chan
           ELSE ControllerFails
  /\ UNCHANGED <<role, kind, backlog, connects, chanPeer, writes, eof, readies, services, swaps,
                 granted, total, held, lease, snap>>

ReconnectRequest ==
  /\ role = "reconnect" /\ chan = "open" /\ step.at = "idle" /\ granted[0] < MaxPerRoute[0]
  /\ \/ ReadFails(1) /\ ControllerFails
     \/ /\ ReadExact(1)
        /\ IF Head(written) = ReadyByte
           THEN step' = [NoStep EXCEPT !.at = "connect"] /\ UNCHANGED chan
           ELSE ControllerFails
  /\ UNCHANGED <<role, kind, backlog, connects, chanPeer, writes, eof, readies, services, swaps,
                 granted, total, held, lease, snap>>

(* Fault: the connected socket is not asked for its peer.                  *)
AnyPeer(r, who) == who # "absent"

(* expected_peer of a route, compared with the connected socket's peer.    *)
PeerMatches(r, who) == r \in Pinned => who = "expected"

(* Connect, then ask the connected socket who its peer is.                 *)
PrepareHostUnixStream ==
  /\ step.at = "connect"
  /\ LET who == services[step.route] IN
     \/ /\ who = "absent" \/ ~PeerMatches(step.route, who)
        /\ ControllerFails /\ UNCHANGED misses
     \/ CallFails /\ ControllerFails
     \/ /\ who # "absent" /\ PeerMatches(step.route, who)
        /\ step' = [step EXCEPT !.at = "send", !.who = who] /\ UNCHANGED <<chan, misses>>
  /\ UNCHANGED <<role, kind, backlog, connects, chanPeer, written, writes, eof, readies, services,
                 swaps, granted, total, held, lease, snap>>

SendRoute ==
  /\ step.at = "send"
  /\ \/ TransferFails /\ ControllerFails /\ UNCHANGED <<granted, total>>
     \/ /\ Transferred([what |-> "hoststream", who |-> step.who, route |-> step.route])
        /\ granted' = [granted EXCEPT ![step.route] = @ + 1]
        /\ total' = total + 1
        /\ step' = NoStep /\ UNCHANGED chan
  /\ UNCHANGED <<role, kind, backlog, connects, chanPeer, written, writes, eof, readies, services,
                 swaps, lease, snap>>

(* The service at a path goes away, comes back or is another one.          *)
ServiceChanges(r, who) ==
  /\ role # "session" /\ swaps < MaxSwaps /\ swaps' = swaps + 1
  /\ services' = [services EXCEPT ![r] = who]
  /\ UNCHANGED <<role, kind, chanVars, step, granted, total, held, misses, lease, snap>>

-----------------------------------------------------------------------------
(* A sealed snapshot: the file is copied unit by unit while it changes.    *)

CopyEnds(at) == snap' = [snap EXCEPT !.at = at]

CopySource ==
  /\ kind \in {"snapshot", "bundle"} /\ snap.at = "copying"
  /\ LET n == Len(snap.copy) + 1 IN
     \/ n <= Len(snap.source) /\ n > MaxSnapshot /\ CopyEnds("refused") /\ UNCHANGED misses
     \/ /\ n <= Len(snap.source) /\ n <= MaxSnapshot /\ UNCHANGED misses
        /\ snap' = [snap EXCEPT !.copy = Append(@, snap.source[n])]
     \/ CallFails /\ CopyEnds("refused")
     \/ n > Len(snap.source) /\ CopyEnds("copied") /\ UNCHANGED misses
  /\ UNCHANGED <<role, kind, chanVars, routeVars, held, lease>>

(* Mode, seals, their inspection, and the read-only reopen; the next item  *)
(* of a bundle is copied from the start.                                   *)
BundleItems == 2

SealCopy ==
  /\ snap.at = "copied"
  /\ \/ CallFails /\ CopyEnds("refused")
     \/ LET items == Append(snap.items, snap.copy)
            more  == kind = "bundle" /\ Len(items) < BundleItems
        IN  /\ snap' = [snap EXCEPT !.items = items, !.copy = <<>>,
                                    !.at = IF more THEN "copying" ELSE "sealed"]
            /\ UNCHANGED misses
  /\ UNCHANGED <<role, kind, chanVars, routeVars, held, lease>>

SizeOf(items) == FoldSeq(LAMBDA item, n : n + Len(item), 0, items)

PrepareBundle ==
  /\ kind = "bundle" /\ snap.at = "sealed"
  /\ CopyEnds(IF SizeOf(snap.items) > MaxTotal THEN "refused" ELSE "bundled")
  /\ UNCHANGED <<role, kind, chanVars, routeVars, held, misses, lease>>

(* Someone overwrites, extends or truncates the source.                    *)
SourceChanges ==
  /\ kind \in {"snapshot", "bundle"} /\ swaps < MaxSwaps /\ swaps' = swaps + 1
  /\ \E s \in {Append(snap.source, swaps + 1), <<>>} \cup
              {[snap.source EXCEPT ![k] = swaps + 1] : k \in DOMAIN snap.source} :
       snap' = [snap EXCEPT !.source = s]
  /\ UNCHANGED <<role, kind, chanVars, step, services, granted, total, held, misses, lease>>

-----------------------------------------------------------------------------
(* The revocable byte stream: the controller and the receive-only end.     *)

Streaming == kind = "bytes" /\ ~lease.end

SendAll(n) ==
  /\ Streaming /\ lease.state = "Active" /\ lease.left = 0
  /\ lease.sent + n <= MaxBytes
  /\ lease' = [lease EXCEPT !.left = n]
  /\ UNCHANGED <<role, kind, chanVars, routeVars, held, misses, snap>>

(* Fault: sent_bytes is advanced when the whole send is done.              *)
SendSomeUncounted(k) ==
  /\ Streaming /\ lease.left > 0
  /\ \/ /\ k <= lease.left /\ UNCHANGED misses
        /\ lease' = [lease EXCEPT !.left = @ - k, !.piped = @ + k,
                                  !.sent = IF k = lease.left THEN lease.piped + k ELSE @]
     \/ CallFails /\ lease' = [lease EXCEPT !.left = 0, !.state = "Failed"]
  /\ UNCHANGED <<role, kind, chanVars, routeVars, held, snap>>

(* One send of the loop: the kernel takes some of the rest, or fails.      *)
SendSome(k) ==
  /\ Streaming /\ lease.left > 0
  /\ \/ /\ k <= lease.left /\ UNCHANGED misses
        /\ lease' = [lease EXCEPT !.left = @ - k, !.sent = @ + k, !.piped = @ + k]
     \/ CallFails /\ lease' = [lease EXCEPT !.left = 0, !.state = "Failed"]
  /\ UNCHANGED <<role, kind, chanVars, routeVars, held, snap>>

RevokeBytes ==
  /\ Streaming /\ lease.state = "Active" /\ lease.left = 0
  /\ \/ lease' = [lease EXCEPT !.state = "Revoked", !.shut = TRUE] /\ UNCHANGED misses
     \/ CallFails /\ lease' = [lease EXCEPT !.state = "Failed"]
  /\ UNCHANGED <<role, kind, chanVars, routeVars, held, snap>>

(* The controller is dropped: its descriptor is closed.                    *)
DropBytes ==
  /\ Streaming /\ lease.left = 0
  /\ lease' = [lease EXCEPT !.end = TRUE, !.shut = TRUE]
  /\ UNCHANGED <<role, kind, chanVars, routeVars, held, misses, snap>>

TargetDrains ==
  /\ kind = "bytes" /\ held # <<>> /\ lease.drained < lease.piped
  /\ lease' = [lease EXCEPT !.drained = @ + 1]
  /\ UNCHANGED <<role, kind, chanVars, routeVars, held, misses, snap>>

-----------------------------------------------------------------------------
(* The revocable host stream: one socket shared by target and controller.  *)

Lent == kind = "hoststream" /\ role = "session" /\ held # <<>> /\ ~lease.end

TargetTalks ==
  /\ kind = "hoststream" /\ role = "session" /\ held # <<>> /\ ~lease.shut
  /\ lease.io < MaxBytes /\ lease' = [lease EXCEPT !.io = @ + 1]
  /\ UNCHANGED <<role, kind, chanVars, routeVars, held, misses, snap>>

(* Fault: the controller's state changes, the socket's does not.           *)
RevokeWithoutShutdown ==
  /\ Lent /\ lease.state = "Active"
  /\ lease' = [lease EXCEPT !.state = "Revoked"]
  /\ UNCHANGED <<role, kind, chanVars, routeVars, held, misses, snap>>

RevokeHostStream ==
  /\ Lent /\ lease.state = "Active"
  /\ \/ lease' = [lease EXCEPT !.state = "Revoked", !.shut = TRUE] /\ UNCHANGED misses
     \/ CallFails /\ lease' = [lease EXCEPT !.state = "Failed"]
  /\ UNCHANGED <<role, kind, chanVars, routeVars, held, snap>>

(* Dropped while active, it tries the same shutdown and cannot report.     *)
DropHostStream ==
  /\ Lent
  /\ \/ lease.state = "Active" /\ UNCHANGED misses
        /\ lease' = [lease EXCEPT !.end = TRUE, !.shut = TRUE]
     \/ lease.state = "Active" /\ CallFails /\ lease' = [lease EXCEPT !.end = TRUE]
     \/ lease.state # "Active" /\ UNCHANGED misses /\ lease' = [lease EXCEPT !.end = TRUE]
  /\ UNCHANGED <<role, kind, chanVars, routeVars, held, snap>>

-----------------------------------------------------------------------------
FdNext ==
  \/ \E who \in {"owner", "other"} : Connect(who)
  \/ Accept \/ AcceptRouter \/ AcceptReconnect
  \/ \E b \in Bytes : TargetWrites(b)
  \/ TargetCloses \/ WaitForReady \/ SendPreparedFds
  \/ RouteRequest \/ ReconnectRequest \/ PrepareHostUnixStream \/ SendRoute
  \/ \E r \in Routes, who \in {"expected", "other", "absent"} : ServiceChanges(r, who)
  \/ CopySource \/ SealCopy \/ PrepareBundle \/ SourceChanges
  \/ \E n \in 1..MaxBytes : SendAll(n) \/ SendSome(n)
  \/ RevokeBytes \/ DropBytes \/ TargetDrains
  \/ TargetTalks \/ RevokeHostStream \/ DropHostStream

FdSpec == FdInit /\ [][FdNext]_fdVars

-----------------------------------------------------------------------------
(* Types, and what the states of channel, step and lease say of each other *)
(* (the controller structs and their states).                              *)
FdTypeOK ==
  /\ chan \in {"none", "open", "AwaitingReady", "Ready", "GrantSent", "Failed"}
  /\ step.at \in {"idle", "connect", "send"} /\ (step.at # "idle" => chan = "open")
  /\ step.route \in Routes /\ granted \in [Routes -> Nat]
  /\ lease.state \in {"Active", "Revoked", "Failed"} /\ (lease.left > 0 => lease.state = "Active")
  /\ snap.at \in {"copying", "copied", "sealed", "bundled", "refused"}
  /\ chan = "GrantSent" <=> role = "session" /\ held # <<>>

(* Every capability the target holds was asked for by the owner's process: *)
(* one readiness byte, and for a router one more, is read for each grant   *)
(* and never serves a second one, however calls fail or are repeated       *)
(* (wait_for_ready, send_prepared_fds, grant_next).                        *)
GrantAskedFor ==
  held # <<>> =>
    /\ chanPeer = "owner" /\ Len(held) <= readies
    /\ Len(written) + (IF role = "router" THEN 2 ELSE 1) * Len(held) <= writes

(* The byte budget counts exactly what the kernel took, also when a send   *)
(* fails after part of the bytes went out (send_all).                      *)
SupplyExact ==
  /\ lease.sent = lease.piped /\ lease.piped + lease.left <= MaxBytes
  /\ lease.drained <= lease.piped

(* Nothing passes after a confirmed revocation, and no later call undoes   *)
(* it or a failure (revoke, send_all, Drop).                               *)
RevokedIsFinal ==
  [][lease.state # "Active" =>
       /\ lease'.state = lease.state /\ lease'.piped = lease.piped
       /\ lease.state = "Revoked" => lease'.io = lease.io]_fdVars

(* What the target holds is within what was prepared, although everything  *)
(* it is made from may change while a grant is being made.  The counters   *)
(* of a router count what the target holds, route by route, and no route   *)
(* goes beyond its ceiling (grant_next).  A connection on a route with an  *)
(* expected peer ends at that peer (prepare_host_unix_stream asks the      *)
(* connected socket).  A snapshot is within its ceilings though the file   *)
(* may grow under the copy (prepare_sealed_regular_file_snapshot, _bundle).*)
GrantWithinPolicy ==
  /\ role # "session" =>
       \A r \in Routes :
         /\ granted[r] = Cardinality({k \in DOMAIN held : held[k].route = r})
         /\ granted[r] <= MaxPerRoute[r]
  /\ role # "session" => total = Len(held)
  /\ \A k \in DOMAIN held :
       role # "session" /\ held[k].route \in Pinned => held[k].who = "expected"
  /\ held # <<>> =>
       /\ kind \in {"snapshot", "bundle"} =>
            Len(snap.items) = (IF kind = "bundle" THEN BundleItems ELSE 1)
       /\ \A k \in DOMAIN snap.items : Len(snap.items[k]) <= MaxSnapshot
       /\ kind = "bundle" => ~(SizeOf(snap.items) > MaxTotal)
===============================================================================
