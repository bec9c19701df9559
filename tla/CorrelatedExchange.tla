-------------------------- MODULE CorrelatedExchange --------------------------
(***************************************************************************)
(* The correlated request/response controllers of runtime_fd_broker.rs:    *)
(* plain, authenticated by a fresh challenge, and with an acknowledgment   *)
(* barrier after every response.  The launcher's application calls the     *)
(* controller; the target holds the other end of a SOCK_SEQPACKET pair.    *)
(* A call that is refused without effect (not yet challenged, a ceiling    *)
(* reached, an acknowledgment outstanding, the exchange failed) changes    *)
(* nothing and is a guard here.                                            *)
(*                                                                         *)
(* Both ends are "conforming" or "any".  Packets keep their boundaries and *)
(* their order.  HMAC and SHA-256 are ideal: a tag is what it covers, and  *)
(* the digest of a response is the response.                               *)
(***************************************************************************)
EXTENDS Naturals, Sequences, FiniteSets, Functions

CONSTANTS
  Ids,         \* request identifiers (bound: a few of the 2^64)
  Bodies,      \* contents of responses
  Earlier,     \* responses of an earlier session, whose packets the target kept
  MaxRequests, MaxInFlight,
  QueueLimit,  \* packets the target's receive queue holds
  MaxPackets,  \* bound: packets a target of any conduct sends
  MaxFaults,   \* bound: failing system calls
  NoAck

(* The ceilings every prepare function enforces.                           *)
ASSUME CxAssumption ==
  /\ MaxRequests \in 2..32
  /\ MaxInFlight \in 2..8 /\ MaxInFlight <= MaxRequests
  /\ QueueLimit \in Nat /\ MaxPackets \in Nat /\ MaxFaults \in Nat
  /\ Earlier \subseteq [id : Ids, body : Bodies]
  /\ NoAck \notin [id : Ids, body : Bodies]

VARIABLES
  mode,        \* which controller: plain, auth or acked
  conduct,     \* conforming or any
  toHost, toTarget, \* the two directions of the socket pair
  peer,        \* the target's end: open or shut
  faults,
  failed,      \* the controller's fields
  challenged, seen, pending, received, completed, awaiting, acknowledged,
  accepted,    \* history: identifiers receive_request returned
  issued,      \* history: identifiers of the requests the target sent
  packets,     \* packets it sent
  knows,       \* it has read the challenge
  got,         \* responses it has read
  owes,        \* responses it has read and not acknowledged
  guessed      \* history: responses it signed an acknowledgment of unread

ctlVars    == <<failed, challenged, seen, pending, received, completed, awaiting,
                acknowledged, accepted>>
targetVars == <<peer, issued, packets, knows, got, owes, guessed>>
cxVars     == <<mode, conduct, toHost, toTarget, faults, ctlVars, targetVars>>

Authenticated == mode \in {"auth", "acked"}

(* runtime_auth_mac binds session, direction, identifier and content.      *)
Tag(session, kind, id, body) == <<session, kind, id, body>>

Frame(kind, id, body, tag) == [kind |-> kind, id |-> id, body |-> body, tag |-> tag]

NoTag == <<>>

(* The challenge of this session and of one before it.                     *)
Fresh == "fresh"
Stale == "stale"

(* A packet without room for its framing or beyond the ceiling.            *)
BadFrame == Frame("bad", "none", "none", NoTag)

AuthVerify(f, kind) == f.tag = Tag(Fresh, kind, f.id, f.body)

-----------------------------------------------------------------------------
ControllerInit ==
  /\ failed = FALSE /\ challenged = FALSE
  /\ seen = {} /\ pending = {} /\ received = 0 /\ completed = 0
  /\ awaiting = NoAck /\ acknowledged = 0 /\ accepted = <<>>

PrepareCorrelated    == mode = "plain" /\ ControllerInit
PrepareAuthenticated == mode = "auth" /\ ControllerInit
PrepareAcknowledged  == mode = "acked" /\ ControllerInit

TargetInit ==
  /\ peer = "open" /\ issued = <<>> /\ packets = 0
  /\ knows = FALSE /\ got = {} /\ owes = {} /\ guessed = {}

CxInit ==
  /\ PrepareCorrelated \/ PrepareAuthenticated \/ PrepareAcknowledged
  /\ conduct \in {"conforming", "any"}
  /\ toHost = <<>> /\ toTarget = <<>> /\ faults = 0
  /\ TargetInit

-----------------------------------------------------------------------------
(* The controller.                                                         *)

Fail ==
  /\ failed' = TRUE
  /\ UNCHANGED <<challenged, seen, pending, received, completed, awaiting,
                 acknowledged, accepted>>

SysCallFails == faults < MaxFaults /\ faults' = faults + 1

(* recvmsg fails, or finds the peer gone: at once when it left packets     *)
(* unread (a reset), after the queued ones otherwise.                      *)
NoPacket ==
  /\ SysCallFails \/ (peer = "shut" /\ UNCHANGED faults)
  /\ UNCHANGED toHost

Dequeue == toHost # <<>> /\ toHost' = Tail(toHost) /\ UNCHANGED faults

Admit(i) ==
  /\ seen' = seen \cup {i}
  /\ pending' = pending \cup {i}
  /\ received' = received + 1
  /\ accepted' = Append(accepted, i)
  /\ UNCHANGED <<failed, challenged, completed, awaiting, acknowledged>>

BelowCeilings == received # MaxRequests /\ Cardinality(pending) # MaxInFlight

(* Fault: only the requests in flight are looked at.                       *)
NotInFlight(i) == i \notin pending

(* The identifiers of a session are never used again.                      *)
Unused(i) == i \notin seen

(* Fault: the ceilings are looked at after the packet is taken.            *)
ReceivePlainConsuming ==
  /\ mode = "plain" /\ ~failed /\ Dequeue
  /\ LET f == Head(toHost) IN
     \/ ~BelowCeilings /\ UNCHANGED ctlVars
     \/ BelowCeilings /\ IF f.kind = "Q" /\ Unused(f.id) THEN Admit(f.id) ELSE Fail
  /\ UNCHANGED <<mode, conduct, toTarget, targetVars>>

ReceivePlain ==
  /\ mode = "plain" /\ ~failed /\ BelowCeilings
  /\ \/ NoPacket /\ Fail
     \/ /\ Dequeue
        /\ LET f == Head(toHost) IN
           IF f.kind = "Q" /\ Unused(f.id) THEN Admit(f.id) ELSE Fail
  /\ UNCHANGED <<mode, conduct, toTarget, targetVars>>

(* Type and tag are checked before the identifier is recorded.             *)
ReceiveAuthenticated ==
  /\ Authenticated /\ ~failed /\ challenged /\ BelowCeilings
  /\ \/ NoPacket /\ Fail
     \/ /\ Dequeue
        /\ LET f == Head(toHost) IN
           IF f.kind = "Q" /\ AuthVerify(f, "Q") /\ Unused(f.id)
           THEN Admit(f.id) ELSE Fail
  /\ UNCHANGED <<mode, conduct, toTarget, targetVars>>

(* Fault: an outstanding acknowledgment is not looked for.                 *)
ReceiveDespiteBarrier == ReceiveAuthenticated

ReceiveAcknowledged == awaiting = NoAck /\ ReceiveAuthenticated

PublishChallenge ==
  /\ Authenticated /\ ~failed /\ ~challenged
  /\ \/ /\ SysCallFails \/ (peer = "shut" /\ UNCHANGED faults)
        /\ Fail /\ UNCHANGED toTarget
     \/ /\ peer = "open" /\ Len(toTarget) < QueueLimit
        /\ toTarget' = Append(toTarget, Frame("C", "none", Fresh, NoTag))
        /\ challenged' = TRUE
        /\ UNCHANGED <<faults, failed, seen, pending, received, completed, awaiting,
                       acknowledged, accepted>>
  /\ UNCHANGED <<mode, conduct, toHost, targetVars>>

(* An unknown or answered identifier, or an empty or oversized response.   *)
RejectResponse(i, size) ==
  /\ i \notin pending \/ size # "fits"
  /\ Fail /\ UNCHANGED <<toTarget, faults>>

(* One MSG_DONTWAIT send: a full queue is a failure like any other.        *)
SendFails ==
  /\ SysCallFails \/ ((peer = "shut" \/ Len(toTarget) >= QueueLimit) /\ UNCHANGED faults)
  /\ Fail /\ UNCHANGED toTarget

(* Fault: completed is not advanced.                                       *)
PublishUncounted(i, frame) ==
  /\ peer = "open" /\ Len(toTarget) < QueueLimit
  /\ toTarget' = Append(toTarget, frame)
  /\ pending' = pending \ {i}
  /\ UNCHANGED <<faults, failed, challenged, seen, received, completed, acknowledged, accepted>>

PublishResponse(i, frame) ==
  /\ peer = "open" /\ Len(toTarget) < QueueLimit
  /\ toTarget' = Append(toTarget, frame)
  /\ pending' = pending \ {i}
  /\ completed' = completed + 1
  /\ UNCHANGED <<faults, failed, challenged, seen, received, acknowledged, accepted>>

RespondPlain(i, body, size) ==
  /\ mode = "plain" /\ ~failed
  /\ \/ RejectResponse(i, size)
     \/ /\ i \in pending /\ size = "fits"
        /\ \/ SendFails
           \/ PublishResponse(i, Frame("S", i, body, NoTag)) /\ UNCHANGED awaiting
  /\ UNCHANGED <<mode, conduct, toHost, targetVars>>

TaggedResponse(i, body) == Frame("S", i, body, Tag(Fresh, "S", i, body))

RespondAuthenticated(i, body, size) ==
  /\ mode = "auth" /\ ~failed /\ challenged
  /\ \/ RejectResponse(i, size)
     \/ /\ i \in pending /\ size = "fits"
        /\ \/ SendFails
           \/ PublishResponse(i, TaggedResponse(i, body)) /\ UNCHANGED awaiting
  /\ UNCHANGED <<mode, conduct, toHost, targetVars>>

RespondAcknowledged(i, body, size) ==
  /\ mode = "acked" /\ ~failed /\ awaiting = NoAck /\ challenged
  /\ \/ RejectResponse(i, size)
     \/ /\ i \in pending /\ size = "fits"
        /\ \/ SendFails
           \/ /\ PublishResponse(i, TaggedResponse(i, body))
              /\ awaiting' = [id |-> i, body |-> body]
  /\ UNCHANGED <<mode, conduct, toHost, targetVars>>

(* Fault: an acknowledgment of any response of the session.                *)
AnyAcknowledgment(f) == f.kind = "A" /\ AuthVerify(f, "A")

(* The packet that answers the barrier: an acknowledgment of this session  *)
(* for exactly the response last published.                                *)
Expected(f) ==
  f.kind = "A" /\ AuthVerify(f, "A") /\ f.id = awaiting.id /\ f.body = awaiting.body

ReceiveAcknowledgment ==
  /\ mode = "acked" /\ ~failed /\ awaiting # NoAck
  /\ \/ NoPacket /\ Fail
     \/ /\ Dequeue
        /\ IF Expected(Head(toHost))
           THEN /\ awaiting' = NoAck /\ acknowledged' = acknowledged + 1
                /\ UNCHANGED <<failed, challenged, seen, pending, received, completed,
                               accepted>>
           ELSE Fail
  /\ UNCHANGED <<mode, conduct, toTarget, targetVars>>

IsComplete ==
  /\ ~failed /\ (Authenticated => challenged)
  /\ received = MaxRequests /\ completed = MaxRequests /\ pending = {}
  /\ mode = "acked" => acknowledged = MaxRequests /\ awaiting = NoAck

-----------------------------------------------------------------------------
(* The target's end, outside this code.                                    *)

Put(f) ==
  /\ peer = "open"
  /\ toHost' = Append(toHost, f) /\ packets' = packets + 1

Signed(session, kind, id, body) ==
  Frame(kind, id, body, IF Authenticated THEN Tag(session, kind, id, body) ELSE NoTag)

(* A conforming target keeps within the ceilings it was told, uses a new   *)
(* identifier each time, and behind the barrier has one request at a time. *)
Outstanding == Len(issued) - Cardinality(got)

MayAsk ==
  /\ Authenticated => knows
  /\ Len(issued) < MaxRequests
  /\ IF mode = "acked" THEN Outstanding = 0 /\ owes = {} ELSE Outstanding < MaxInFlight

Ask(i) ==
  /\ IF conduct = "conforming" THEN MayAsk /\ i \notin Range(issued)
     ELSE packets < MaxPackets /\ (Authenticated => knows)
  /\ Put(Signed(Fresh, "Q", i, "none"))
  /\ issued' = Append(issued, i)
  /\ UNCHANGED <<mode, conduct, toTarget, faults, ctlVars, peer, knows, got, owes,
                 guessed>>

(* What the target can sign an acknowledgment of: behind the barrier, once *)
(* it has the challenge, any response it can guess, read or not or not     *)
(* even sent, for it holds the key.  To a controller without the barrier   *)
(* it is a packet of the wrong type, as one of an earlier session is.      *)
Acknowledgeable ==
  IF mode = "acked" /\ knows THEN [id : Ids, body : Bodies] ELSE {}

(* Malformed packets, packets of an earlier session, reflected responses,  *)
(* and acknowledgments: repeated, of an earlier session, or signed ahead.  *)
Stray ==
  {BadFrame} \cup
  (IF Authenticated
   THEN {Signed(Stale, "Q", r.id, "none") : r \in Earlier}
        \cup {Signed(Fresh, "A", r.id, r.body) : r \in Acknowledgeable}
        \cup {Signed(Stale, "A", r.id, r.body) : r \in Earlier}
        \cup {Signed(Fresh, "S", r.id, r.body) : r \in got}
   ELSE {})

(* f acknowledges a response the target has not read.                      *)
Ahead(f) == f.kind = "A" /\ AuthVerify(f, "A") /\ [id |-> f.id, body |-> f.body] \notin got

Misbehave ==
  /\ conduct = "any" /\ packets < MaxPackets
  /\ \E f \in Stray :
       /\ Put(f)
       /\ guessed' = IF Ahead(f) THEN guessed \cup {[id |-> f.id, body |-> f.body]}
                                 ELSE guessed
  /\ UNCHANGED <<mode, conduct, toTarget, faults, ctlVars, peer, issued, knows, got, owes>>

Read ==
  /\ peer = "open" /\ toTarget # <<>>
  /\ toTarget' = Tail(toTarget)
  /\ LET f == Head(toTarget)
         r == [id |-> f.id, body |-> f.body] IN
     IF f.kind = "C" THEN knows' = TRUE /\ UNCHANGED <<got, owes>>
     ELSE /\ got' = got \cup {r}
          /\ owes' = IF mode = "acked" THEN owes \cup {r} ELSE owes
          /\ UNCHANGED knows
  /\ UNCHANGED <<mode, conduct, toHost, faults, ctlVars, peer, issued, packets, guessed>>

Acknowledge(r) ==
  /\ r \in owes /\ (conduct = "any" => packets < MaxPackets)
  /\ Put(Signed(Fresh, "A", r.id, r.body))
  /\ owes' = owes \ {r}
  /\ UNCHANGED <<mode, conduct, toTarget, faults, ctlVars, peer, issued, knows, got,
                 guessed>>

Shut ==
  /\ conduct = "any" /\ peer = "open" /\ peer' = "shut" /\ toTarget' = <<>>
  /\ UNCHANGED <<mode, conduct, toHost, faults, ctlVars, issued, packets, knows, got, owes,
                 guessed>>

-----------------------------------------------------------------------------
(* A conforming application answers what it was asked; any other may pass  *)
(* every identifier and every size.                                        *)
Respond(i, body, size) ==
  /\ conduct = "conforming" => i \in pending /\ size = "fits"
  /\ \/ RespondPlain(i, body, size)
     \/ RespondAuthenticated(i, body, size)
     \/ RespondAcknowledged(i, body, size)

Receive ==
  ReceivePlain \/ (mode = "auth" /\ ReceiveAuthenticated)
  \/ (mode = "acked" /\ ReceiveAcknowledged)

HostNext ==
  \/ PublishChallenge \/ Receive \/ ReceiveAcknowledgment
  \/ \E i \in Ids, b \in Bodies, s \in {"fits", "empty", "large"} : Respond(i, b, s)

TargetNext ==
  \/ \E i \in Ids : Ask(i)
  \/ Read \/ Misbehave \/ Shut
  \/ \E r \in owes : Acknowledge(r)

CxNext == HostNext \/ TargetNext

CxSpec == CxInit /\ [][CxNext]_cxVars

(* A conforming application serves, a conforming target reads and asks.    *)
CxFairness == WF_cxVars(HostNext) /\ WF_cxVars(TargetNext)

-----------------------------------------------------------------------------
(* Every field keeps its type, the counters count the sets they stand for, *)
(* and both ceilings hold (runtime_fd_broker.rs, the controller structs).  *)
CxTypeOK ==
  /\ pending \subseteq seen /\ seen \subseteq Ids
  /\ received = Cardinality(seen) /\ received <= MaxRequests
  /\ Cardinality(pending) <= MaxInFlight
  /\ completed = Cardinality(seen \ pending)
  /\ awaiting \in [id : Ids, body : Bodies] \cup {NoAck}
  /\ awaiting # NoAck => mode = "acked" /\ awaiting.id \in seen \ pending
  /\ mode = "acked" =>
       acknowledged = completed - (IF awaiting = NoAck THEN 0 ELSE 1)
  /\ failed \in BOOLEAN /\ challenged \in BOOLEAN

(* Responses to an identifier that the target was sent.                    *)
Responses(i) ==
  Cardinality({k \in DOMAIN toTarget : toTarget[k].kind = "S" /\ toTarget[k].id = i})
  + Cardinality({r \in got : r.id = i})

(* A packet that is a request of this session.                             *)
Asked(f) == f.kind = "Q" /\ (Authenticated => AuthVerify(f, "Q"))

(* Where the requests that wait for receive_request are queued.            *)
Queued == {k \in DOMAIN toHost : Asked(toHost[k])}

(* The target is sent one response for every identifier that was received  *)
(* and is no longer pending, and none for any other, whatever order the    *)
(* application answers in and whatever calls failed (send_response).  And  *)
(* while the exchange is alive no request is lost, repeated or overtaken:  *)
(* what receive_request returned, followed by what is queued, is what the  *)
(* target asked; a call refused at a ceiling or at the barrier has not     *)
(* consumed a packet.                                                      *)
ExactlyOnce ==
  /\ peer = "open" =>
       \A i \in Ids : Responses(i) = IF i \in seen \ pending THEN 1 ELSE 0
  /\ ~failed =>
       /\ Len(issued) = Len(accepted) + Cardinality(Queued)
       /\ \A n \in DOMAIN accepted : issued[n] = accepted[n]
       /\ \A k \in Queued :
            issued[Len(accepted) + Cardinality({j \in Queued : j <= k})] = toHost[k].id

(* A response the target has read, or one that a target which is not       *)
(* conforming signed for unread and that is, byte for byte, what it was    *)
(* sent and finds in its queue.                                            *)
Vouched(r) ==
  \/ r \in got
  \/ /\ conduct = "any" /\ r \in guessed
     /\ peer = "open" => TaggedResponse(r.id, r.body) \in Range(toTarget)

(* Behind the barrier a response counts as acknowledged only when the      *)
(* target has read it, or has itself signed ahead for exactly the bytes it *)
(* was sent (which only a target that is not conforming does): an old,     *)
(* repeated or foreign acknowledgment, or one guessed wrong, is never      *)
(* taken for it (receive_acknowledgment).                                  *)
AckMeansRead ==
  mode = "acked" =>
    \A i \in seen \ pending :
      \/ awaiting # NoAck /\ awaiting.id = i
      \/ \E r \in got \cup guessed : r.id = i /\ Vouched(r)

(* With both ends conforming, no failing call and a queue that holds what  *)
(* may be in flight, the exchange never poisons itself: no interleaving of *)
(* the two ends runs into a duplicate, a full queue or a wrong packet.     *)
ConformingServed == conduct = "conforming" /\ faults = 0 => ~failed

(* An exchange between conforming ends is completed unless a call fails.   *)
Completes == (conduct = "conforming") ~> (IsComplete \/ failed)

(* The three controllers implement the ledger of requests.                 *)
Ledger == INSTANCE RpcLedger WITH
  open <- pending, answered <- seen \ pending,
  unconfirmed <- IF awaiting = NoAck THEN {} ELSE {awaiting.id}, closed <- failed

RefinesLedger == Ledger!LedgerSpec
===============================================================================
