---------------------- MODULE CorrelatedExchangeProofs ----------------------
(***************************************************************************)
(* Proofs about CorrelatedExchange for any identifiers and contents, any   *)
(* ceilings a prepare function accepts and any queue: the three            *)
(* controllers keep their counters, implement the ledger of RpcLedger, and *)
(* count a response as acknowledged only when the target has read it or    *)
(* has itself signed ahead for exactly what it was sent.                   *)
(***************************************************************************)
EXTENDS CorrelatedExchange, FiniteSetTheorems, TLAPS

(* What a packet can be.  Only the launcher's and the target's own parts   *)
(* go into it, and a request carries an identifier.                        *)
Contents == Bodies \cup {"none", Fresh}
Names    == Ids \cup {"none"}
Shapes   == {"Q", "S", "A", "C", "bad"}
Tags     == {NoTag} \cup ({Fresh, Stale} \X Shapes \X Names \X Contents)

Packets ==
  {f \in [kind : Shapes, id : Names, body : Contents, tag : Tags] :
     f.kind = "Q" => f.id \in Ids}

Answers == [id : Names, body : Contents]

ChannelInv ==
  /\ toHost \in Seq(Packets) /\ toTarget \in Seq(Packets)
  /\ got \subseteq Answers /\ owes \subseteq got
  /\ guessed \subseteq Answers /\ (guessed # {} => conduct = "any")

(* The counters, and that the controller's sets are finite.                *)
CounterInv ==
  /\ CxTypeOK
  /\ IsFiniteSet(seen)
  /\ mode \in {"plain", "auth", "acked"}

(* An acknowledgment of this session that is under way is of a response    *)
(* the target has read or guessed: nobody else can make its tag.           *)
AckInv ==
  \A k \in 1..Len(toHost) :
    toHost[k].kind = "A" /\ AuthVerify(toHost[k], "A") =>
      [id |-> toHost[k].id, body |-> toHost[k].body] \in got \cup guessed

(* The target has read the response, or it is in its queue.                *)
Delivered(r) ==
  r \in got \/ (peer = "open" => TaggedResponse(r.id, r.body) \in Range(toTarget))

(* The response behind the barrier is the one that was sent.               *)
SentInv == awaiting # NoAck => Delivered(awaiting)

CxInv == CounterInv /\ ChannelInv /\ AckInv /\ SentInv /\ AckMeansRead

-----------------------------------------------------------------------------
(* Adding a packet to a queue and taking one from it.                      *)
LEMMA QueueFacts ==
  ASSUME NEW q \in Seq(Packets)
  PROVE  /\ \A f \in Packets :
              /\ Append(q, f) \in Seq(Packets)
              /\ Len(Append(q, f)) = Len(q) + 1
              /\ \A k \in 1..(Len(q) + 1) : Append(q, f)[k] = IF k <= Len(q) THEN q[k] ELSE f
         /\ q # <<>> =>
              /\ Head(q) = q[1] /\ 1 \in 1..Len(q) /\ q[1] \in Packets
              /\ Tail(q) \in Seq(Packets) /\ Len(Tail(q)) = Len(q) - 1
              /\ \A k \in 1..(Len(q) - 1) : Tail(q)[k] = q[k + 1] /\ k + 1 \in 1..Len(q)
  OBVIOUS

(* A packet of the target's is well formed.                                *)
LEMMA SignedIsPacket ==
  ASSUME NEW s \in {Fresh, Stale}, NEW k \in Shapes, NEW i \in Names, NEW b \in Contents,
         k = "Q" => i \in Ids
  PROVE  /\ Signed(s, k, i, b) \in Packets
         /\ Signed(s, k, i, b).kind = k
         /\ Signed(s, k, i, b).id = i
         /\ Signed(s, k, i, b).body = b
         /\ Authenticated => Signed(s, k, i, b).tag = <<s, k, i, b>>
  BY DEF Signed, Frame, Packets, Tag, Tags, NoTag

LEMMA BadIsPacket == BadFrame \in Packets /\ BadFrame.kind = "bad"
  BY DEF BadFrame, Frame, Packets, Shapes, Names, Contents, Tags, NoTag

-----------------------------------------------------------------------------
LEMMA CxInitInv == CxInit => CxInv
  <1> SUFFICES ASSUME CxInit PROVE CxInv
    OBVIOUS
  <1>1. CounterInv
    <2>1. /\ ControllerInit /\ mode \in {"plain", "auth", "acked"}
      BY DEF CxInit, PrepareCorrelated, PrepareAuthenticated, PrepareAcknowledged
    <2>2. seen \ pending = {} /\ seen = {} /\ pending = {}
      BY <2>1 DEF ControllerInit
    <2>3. /\ Cardinality(seen) = 0 /\ Cardinality(pending) = 0
          /\ Cardinality(seen \ pending) = 0 /\ IsFiniteSet(seen)
      BY <2>2, FS_EmptySet
    <2>4. 0 <= MaxRequests /\ 0 <= MaxInFlight
      BY CxAssumption
    <2>5. failed \in BOOLEAN /\ challenged \in BOOLEAN
      BY <2>1 DEF ControllerInit
    <2>6. received = 0 /\ completed = 0 /\ acknowledged = 0 /\ awaiting = NoAck
      BY <2>1 DEF ControllerInit
    <2>7. mode = "acked" => acknowledged = completed - (IF awaiting = NoAck THEN 0 ELSE 1)
      BY <2>6
    <2> QED
      BY <2>1, <2>2, <2>3, <2>4, <2>5, <2>6, <2>7 DEF CounterInv, CxTypeOK
  <1>2. ChannelInv /\ AckInv
    BY DEF CxInit, TargetInit, ChannelInv, AckInv
  <1>3. AckMeansRead /\ SentInv
    BY DEF CxInit, PrepareCorrelated, PrepareAuthenticated, PrepareAcknowledged,
           ControllerInit, AckMeansRead, SentInv
  <1> QED BY <1>1, <1>2, <1>3 DEF CxInv

-----------------------------------------------------------------------------
(* The counters follow the sets when a request is admitted ...             *)
LEMMA AdmitCounts ==
  ASSUME CounterInv, NEW i \in Ids, i \notin seen, BelowCeilings, Admit(i), UNCHANGED mode,
         awaiting = NoAck
  PROVE  CounterInv'
  <1>1. /\ IsFiniteSet(pending) /\ IsFiniteSet(seen)
        /\ Cardinality(pending) \in Nat /\ Cardinality(seen) \in Nat
    BY FS_Subset, FS_CardinalityType DEF CounterInv, CxTypeOK
  <1>2. /\ Cardinality(seen') = Cardinality(seen) + 1 /\ IsFiniteSet(seen')
        /\ Cardinality(pending') = Cardinality(pending) + 1
    BY <1>1, FS_AddElement DEF Admit, CounterInv, CxTypeOK
  <1>3. seen' \ pending' = seen \ pending
    BY DEF Admit, CounterInv, CxTypeOK
  <1>4. received' = Cardinality(seen') /\ received' <= MaxRequests
    BY <1>1, <1>2, CxAssumption DEF Admit, CounterInv, CxTypeOK, BelowCeilings
  <1>5. Cardinality(pending') <= MaxInFlight
    BY <1>1, <1>2, CxAssumption DEF CounterInv, CxTypeOK, BelowCeilings
  <1>6. pending' \subseteq seen' /\ seen' \subseteq Ids
    BY DEF Admit, CounterInv, CxTypeOK
  <1>7. UNCHANGED <<mode, failed, challenged, completed, awaiting, acknowledged>>
    BY DEF Admit
  <1> QED
    BY <1>2, <1>3, <1>4, <1>5, <1>6, <1>7 DEF CounterInv, CxTypeOK

(* ... and when a response is published.                                   *)
LEMMA PublishCounts ==
  ASSUME CounterInv, NEW i \in pending, NEW frame, PublishResponse(i, frame), UNCHANGED mode,
         NEW b \in Bodies,
         \/ mode # "acked" /\ UNCHANGED awaiting
         \/ mode = "acked" /\ awaiting = NoAck /\ awaiting' = [id |-> i, body |-> b]
  PROVE  CounterInv'
  <1>1. /\ IsFiniteSet(pending) /\ IsFiniteSet(seen \ pending)
        /\ Cardinality(pending) \in Nat /\ Cardinality(seen) \in Nat
        /\ Cardinality(seen \ pending) \in Nat
    BY FS_Subset, FS_CardinalityType DEF CounterInv, CxTypeOK
  <1>2. Cardinality(pending') = Cardinality(pending) - 1
    BY <1>1, FS_RemoveElement DEF PublishResponse
  <1>3. seen' \ pending' = (seen \ pending) \cup {i} /\ i \notin seen \ pending
    BY DEF PublishResponse, CounterInv, CxTypeOK
  <1>4. Cardinality(seen' \ pending') = Cardinality(seen \ pending) + 1
    BY <1>1, <1>3, FS_AddElement
  <1>5. awaiting' \in [id : Ids, body : Bodies] \cup {NoAck}
    BY DEF CounterInv, CxTypeOK
  <1>6. awaiting' # NoAck => mode' = "acked" /\ awaiting'.id \in seen' \ pending'
    BY <1>3 DEF CounterInv, CxTypeOK
  <1>7. mode' = "acked" => acknowledged' = completed' - (IF awaiting' = NoAck THEN 0 ELSE 1)
    <2>1. CASE mode # "acked"
      BY <2>1
    <2>2. CASE mode = "acked"
      <3>1. awaiting' # NoAck
        <4>1. [id |-> i, body |-> b] \in [id : Ids, body : Bodies]
          BY DEF CounterInv, CxTypeOK
        <4> QED BY <2>2, <4>1, CxAssumption
      <3>2. acknowledged = completed /\ completed \in Nat
        BY <2>2, <1>1 DEF CounterInv, CxTypeOK
      <3> QED BY <3>1, <3>2 DEF PublishResponse
    <2> QED BY <2>1, <2>2
  <1>8. /\ completed' = Cardinality(seen' \ pending')
        /\ Cardinality(pending') <= MaxInFlight
    BY <1>1, <1>2, <1>4, CxAssumption DEF PublishResponse, CounterInv, CxTypeOK
  <1>9. pending' \subseteq seen'
    BY DEF PublishResponse, CounterInv, CxTypeOK
  <1>10. UNCHANGED <<mode, failed, challenged, seen, received>>
    BY DEF PublishResponse
  <1> QED
    BY <1>5, <1>6, <1>7, <1>8, <1>9, <1>10 DEF CounterInv, CxTypeOK

(* A failure leaves the counters alone.                                    *)
LEMMA FailCounts ==
  ASSUME CounterInv, Fail, UNCHANGED mode
  PROVE  CounterInv'
  BY DEF Fail, CounterInv, CxTypeOK

-----------------------------------------------------------------------------
(* A packet taken from the target's requests.                              *)
LEMMA DequeueKeeps ==
  ASSUME ChannelInv, AckInv, Dequeue, UNCHANGED <<toTarget, got, owes, guessed, conduct>>
  PROVE  /\ ChannelInv' /\ AckInv'
         /\ Head(toHost) \in Packets
         /\ Head(toHost).kind = "A" /\ AuthVerify(Head(toHost), "A") =>
              [id |-> Head(toHost).id, body |-> Head(toHost).body] \in got \cup guessed
  <1>1. toHost # <<>> /\ toHost \in Seq(Packets) /\ toHost' = Tail(toHost)
    BY DEF Dequeue, ChannelInv
  <1>2. ChannelInv'
    BY <1>1, QueueFacts DEF ChannelInv
  <1>3. AckInv'
    <2> SUFFICES ASSUME NEW k \in 1..Len(toHost'),
                        toHost'[k].kind = "A", AuthVerify(toHost'[k], "A")
                 PROVE  [id |-> toHost'[k].id, body |-> toHost'[k].body] \in got \cup guessed
      BY DEF AckInv, AuthVerify
    <2>1. toHost'[k] = toHost[k + 1] /\ k + 1 \in 1..Len(toHost)
      BY <1>1, QueueFacts
    <2> QED BY <2>1 DEF AckInv
  <1>4. Head(toHost) = toHost[1] /\ 1 \in 1..Len(toHost) /\ toHost[1] \in Packets
    BY <1>1, QueueFacts
  <1> QED BY <1>2, <1>3, <1>4 DEF AckInv

(* A packet of the target's: if an acknowledgment, of what it has read or  *)
(* of what it now is known to have guessed.                                *)
LEMMA PutKeeps ==
  ASSUME ChannelInv, AckInv, NEW f \in Packets, Put(f), UNCHANGED <<toTarget, got, conduct>>,
         owes' \subseteq owes, guessed \subseteq guessed',
         guessed' \subseteq Answers, guessed' # {} => conduct = "any",
         f.kind = "A" /\ AuthVerify(f, "A") =>
           [id |-> f.id, body |-> f.body] \in got \cup guessed'
  PROVE  ChannelInv' /\ AckInv'
  <1>1. toHost \in Seq(Packets) /\ toHost' = Append(toHost, f)
    BY DEF Put, ChannelInv
  <1>2. ChannelInv'
    BY <1>1, QueueFacts DEF ChannelInv
  <1>3. AckInv'
    <2> SUFFICES ASSUME NEW k \in 1..Len(toHost'),
                        toHost'[k].kind = "A", AuthVerify(toHost'[k], "A")
                 PROVE  [id |-> toHost'[k].id, body |-> toHost'[k].body] \in got \cup guessed'
      BY DEF AckInv, AuthVerify
    <2>1. k \in 1..(Len(toHost) + 1)
          /\ toHost'[k] = IF k <= Len(toHost) THEN toHost[k] ELSE f
      BY <1>1, QueueFacts
    <2>2. CASE k <= Len(toHost)
      BY <1>1, <2>1, <2>2 DEF AckInv
    <2>3. CASE ~(k <= Len(toHost))
      BY <2>1, <2>3
    <2> QED BY <2>2, <2>3
  <1> QED BY <1>2, <1>3

(* A step that leaves the queues and what the target knows alone.          *)
LEMMA QueuesUnchanged ==
  ASSUME ChannelInv, AckInv, UNCHANGED <<toHost, toTarget, got, owes, guessed, conduct>>
  PROVE  ChannelInv' /\ AckInv'
  BY DEF ChannelInv, AckInv, AuthVerify

(* A response that was delivered stays so: a packet joins the queue ...    *)
LEMMA DeliveredAppended ==
  ASSUME ChannelInv, NEW f \in Packets, toTarget' = Append(toTarget, f),
         UNCHANGED <<peer, got>>
  PROVE  /\ \A r \in Answers : Delivered(r) => Delivered(r)'
         /\ f \in Range(toTarget')
  <1>1. /\ DOMAIN toTarget = 1..Len(toTarget) /\ DOMAIN toTarget' = 1..(Len(toTarget) + 1)
        /\ Len(toTarget) \in Nat
        /\ \A k \in 1..Len(toTarget) : toTarget'[k] = toTarget[k]
        /\ toTarget'[Len(toTarget) + 1] = f
    BY DEF ChannelInv
  <1>2. Range(toTarget) \subseteq Range(toTarget') /\ f \in Range(toTarget')
    BY <1>1 DEF Range
  <1> QED BY <1>2 DEF Delivered

(* ... or the target reads one.                                            *)
LEMMA DeliveredRead ==
  ASSUME ChannelInv, Read
  PROVE  \A r \in Answers : Delivered(r) => Delivered(r)'
  <1> SUFFICES ASSUME NEW r \in Answers, Delivered(r) PROVE Delivered(r)'
    OBVIOUS
  <1> DEFINE f == Head(toTarget)
             t == TaggedResponse(r.id, r.body)
  <1>1. /\ toTarget # <<>> /\ toTarget' = Tail(toTarget) /\ UNCHANGED peer
        /\ got \subseteq got'
        /\ f.kind = "S" => [id |-> f.id, body |-> f.body] \in got'
    BY DEF Read
  <1>2. t.kind = "S" /\ [id |-> t.id, body |-> t.body] = r
    BY DEF TaggedResponse, Frame, Answers
  <1> HIDE DEF t
  <1>3. CASE f = t
    BY <1>1, <1>2, <1>3 DEF Delivered
  <1>4. CASE f # t /\ t \in Range(toTarget)
    <2>1. PICK k \in 1..Len(toTarget) : toTarget[k] = t
      BY <1>4 DEF Range, ChannelInv
    <2>2. f = toTarget[1] /\ Len(toTarget) \in Nat
      BY <1>1 DEF ChannelInv
    <2>3. k - 1 \in 1..(Len(toTarget) - 1)
      BY <1>4, <2>1, <2>2
    <2>4. DOMAIN toTarget' = 1..(Len(toTarget) - 1) /\ toTarget'[k - 1] = toTarget[k]
      BY <1>1, <2>3 DEF ChannelInv
    <2>5. t \in Range(toTarget')
      BY <2>1, <2>3, <2>4 DEF Range
    <2> QED BY <2>5 DEF Delivered, t, TaggedResponse, Frame, Tag
  <1>5. CASE t \notin Range(toTarget)
    BY <1>1, <1>5 DEF Delivered, t
  <1> QED BY <1>3, <1>4, <1>5

(* What was vouched for stays so while deliveries last.                    *)
LEMMA VouchedKept ==
  ASSUME CounterInv, ChannelInv, SentInv, AckMeansRead,
         UNCHANGED <<mode, conduct, awaiting>>, seen' \ pending' = seen \ pending,
         got \subseteq got', guessed \subseteq guessed',
         \A r \in Answers : Delivered(r) => Delivered(r)'
  PROVE  SentInv' /\ AckMeansRead'
  <1>1. SentInv'
    <2>1. awaiting # NoAck => awaiting \in Answers
      BY DEF CounterInv, CxTypeOK, Answers, Names, Contents
    <2> QED BY <2>1 DEF SentInv, Delivered
  <1>2. \A r \in got \cup guessed : Vouched(r) => Vouched(r)'
    BY DEF ChannelInv, Vouched, Delivered
  <1> QED BY <1>1, <1>2 DEF AckMeansRead

LEMMA ReadUnchanged ==
  ASSUME CounterInv, ChannelInv, SentInv, AckMeansRead,
         UNCHANGED <<mode, conduct, seen, pending, awaiting, got, guessed, peer, toTarget>>
  PROVE  SentInv' /\ AckMeansRead'
  <1>1. \A r \in Answers : Delivered(r) => Delivered(r)'
    BY DEF Delivered
  <1> QED BY <1>1, VouchedKept

-----------------------------------------------------------------------------
(* receive_request of the three controllers.                               *)
LEMMA ReceiveStep ==
  ASSUME CxInv, Receive
  PROVE  /\ CxInv'
         /\ \/ Fail
            \/ \E i \in Ids : i \notin seen /\ BelowCeilings /\ Admit(i) /\ awaiting = NoAck
         /\ ~failed
  <1> USE DEF CxInv
  <1>1. /\ ~failed /\ BelowCeilings
        /\ UNCHANGED <<mode, conduct, toTarget, targetVars>>
        /\ \/ NoPacket /\ Fail
           \/ Dequeue /\ Fail
           \/ /\ Dequeue /\ Head(toHost).kind = "Q"
              /\ Head(toHost).id \notin seen /\ Admit(Head(toHost).id)
    BY DEF Receive, ReceivePlain, ReceiveAuthenticated, ReceiveAcknowledged, Unused
  <1>2. awaiting = NoAck
    BY DEF Receive, ReceivePlain, ReceiveAcknowledged, CounterInv, CxTypeOK
  <1>3. UNCHANGED <<got, owes, guessed, peer, conduct, mode, toTarget>>
    BY <1>1 DEF targetVars
  <1>4. CASE NoPacket /\ Fail
    <2>1. UNCHANGED toHost
      BY <1>4 DEF NoPacket
    <2>2. UNCHANGED <<seen, pending, awaiting>>
      BY <1>4 DEF Fail
    <2> QED BY <1>1, <1>3, <1>4, <2>1, <2>2, FailCounts, QueuesUnchanged, ReadUnchanged
  <1>5. CASE Dequeue /\ Fail
    <2>2. UNCHANGED <<seen, pending, awaiting>>
      BY <1>5 DEF Fail
    <2> QED BY <1>1, <1>3, <1>5, <2>2, FailCounts, DequeueKeeps, ReadUnchanged
  <1>6. CASE /\ Dequeue /\ Head(toHost).kind = "Q"
             /\ Head(toHost).id \notin seen /\ Admit(Head(toHost).id)
    <2> DEFINE i == Head(toHost).id
    <2>1. ChannelInv' /\ AckInv' /\ i \in Ids
      BY <1>3, <1>6, DequeueKeeps DEF Packets
    <2>2. CounterInv'
      BY <1>1, <1>2, <1>3, <1>6, <2>1, AdmitCounts
    <2>3. SentInv' /\ AckMeansRead'
      <3>1. seen' \ pending' = seen \ pending /\ awaiting' = awaiting
        BY <1>6 DEF Admit, CounterInv, CxTypeOK
      <3>2. \A r \in Answers : Delivered(r) => Delivered(r)'
        BY <1>3 DEF Delivered
      <3> QED BY <1>3, <3>1, <3>2, VouchedKept
    <2> QED BY <1>1, <1>2, <1>6, <2>1, <2>2, <2>3
  <1> QED BY <1>1, <1>4, <1>5, <1>6

(* publish_challenge.                                                      *)
LEMMA ChallengeStep ==
  ASSUME CxInv, PublishChallenge
  PROVE  /\ CxInv' /\ ~failed
         /\ Fail \/ UNCHANGED <<seen, pending, awaiting, failed>>
  <1> USE DEF CxInv
  <1>1. /\ UNCHANGED <<mode, toHost, got, owes, guessed, peer, conduct, seen, pending, awaiting>>
        /\ ~failed
    BY DEF PublishChallenge, targetVars, Fail
  <1>2. CASE Fail /\ UNCHANGED toTarget
    BY <1>1, <1>2, FailCounts, QueuesUnchanged, ReadUnchanged
  <1>3. CASE /\ toTarget' = Append(toTarget, Frame("C", "none", Fresh, NoTag))
             /\ challenged' = TRUE
             /\ UNCHANGED <<failed, received, completed, acknowledged>>
    <2>1. CounterInv'
      BY <1>1, <1>3 DEF CounterInv, CxTypeOK
    <2>2. Frame("C", "none", Fresh, NoTag) \in Packets
      BY DEF Frame, Packets, Shapes, Names, Contents, Tags
    <2>3. ChannelInv'
      BY <1>1, <1>3, <2>2, QueueFacts DEF ChannelInv
    <2>4. AckInv'
      BY <1>1 DEF AckInv, AuthVerify
    <2>5. SentInv' /\ AckMeansRead'
      BY <1>1, <1>3, <2>2, DeliveredAppended, VouchedKept
    <2> QED BY <1>1, <1>3, <2>1, <2>3, <2>4, <2>5
  <1> QED BY <1>2, <1>3 DEF PublishChallenge

(* send_response of the three controllers.                                 *)
LEMMA RespondStep ==
  ASSUME CxInv, NEW i \in Ids, NEW b \in Bodies, NEW s, Respond(i, b, s)
  PROVE  /\ CxInv' /\ ~failed
         /\ \/ Fail
            \/ /\ i \in pending /\ awaiting = NoAck
               /\ \E frame : PublishResponse(i, frame)
               /\ awaiting' \in {NoAck, [id |-> i, body |-> b]}
  <1> USE DEF CxInv
  <1>1. /\ ~failed /\ awaiting = NoAck
        /\ UNCHANGED <<mode, toHost, got, owes, guessed, peer, conduct>>
    BY DEF Respond, RespondPlain, RespondAuthenticated, RespondAcknowledged, targetVars,
           CounterInv, CxTypeOK
  <1>2. \/ Fail /\ UNCHANGED toTarget
        \/ /\ i \in pending
           /\ \E frame \in Packets :
                /\ PublishResponse(i, frame)
                /\ toTarget' = Append(toTarget, frame)
                /\ mode = "acked" => frame = TaggedResponse(i, b)
           /\ \/ mode # "acked" /\ UNCHANGED awaiting
              \/ mode = "acked" /\ awaiting' = [id |-> i, body |-> b]
    <2>1. Frame("S", i, b, NoTag) \in Packets /\ TaggedResponse(i, b) \in Packets
      BY DEF TaggedResponse, Frame, Packets, Shapes, Names, Contents, Tags, Tag
    <2>2. CASE RespondPlain(i, b, s)
      BY <2>1, <2>2 DEF RespondPlain, RejectResponse, SendFails, PublishResponse
    <2>3. CASE RespondAuthenticated(i, b, s)
      BY <2>1, <2>3 DEF RespondAuthenticated, RejectResponse, SendFails, PublishResponse
    <2>4. CASE RespondAcknowledged(i, b, s)
      BY <2>1, <2>4 DEF RespondAcknowledged, RejectResponse, SendFails, PublishResponse
    <2> QED BY <2>2, <2>3, <2>4 DEF Respond
  <1>3. CASE Fail /\ UNCHANGED toTarget
    <2>1. UNCHANGED <<seen, pending, awaiting>>
      BY <1>3 DEF Fail
    <2> QED BY <1>1, <1>3, <2>1, FailCounts, QueuesUnchanged, ReadUnchanged
  <1>4. ASSUME i \in pending, NEW frame \in Packets, PublishResponse(i, frame),
               toTarget' = Append(toTarget, frame),
               mode = "acked" => frame = TaggedResponse(i, b),
               \/ mode # "acked" /\ UNCHANGED awaiting
               \/ mode = "acked" /\ awaiting' = [id |-> i, body |-> b]
        PROVE  CxInv' /\ awaiting' \in {NoAck, [id |-> i, body |-> b]}
    <2>1. CounterInv'
      BY <1>1, <1>4, PublishCounts
    <2>2. ChannelInv' /\ AckInv'
      BY <1>1, <1>4, QueueFacts DEF ChannelInv, AckInv, AuthVerify
    <2>3. /\ \A r \in Answers : Delivered(r) => Delivered(r)'
          /\ frame \in Range(toTarget')
      BY <1>1, <1>4, DeliveredAppended
    <2>4. SentInv'
      <3>1. CASE mode # "acked"
        BY <1>1, <1>4, <3>1 DEF SentInv
      <3>2. CASE mode = "acked"
        <4>1. awaiting' = [id |-> i, body |-> b] /\ TaggedResponse(i, b) \in Range(toTarget')
          BY <1>4, <2>3, <3>2
        <4> QED BY <4>1 DEF SentInv, Delivered, TaggedResponse, Frame, Tag
      <3> QED BY <3>1, <3>2
    <2>5. AckMeansRead'
      <3> SUFFICES ASSUME mode = "acked", NEW j \in seen' \ pending'
                   PROVE  \/ awaiting' # NoAck /\ awaiting'.id = j
                          \/ \E r \in got' \cup guessed' : r.id = j /\ Vouched(r)'
        BY <1>1 DEF AckMeansRead
      <3>1. awaiting' = [id |-> i, body |-> b] /\ [id |-> i, body |-> b] # NoAck
        BY <1>4, CxAssumption
      <3>2. j = i \/ j \in seen \ pending
        BY <1>4 DEF PublishResponse
      <3>3. CASE j \in seen \ pending
        <4>1. PICK r \in got \cup guessed : r.id = j /\ Vouched(r)
          BY <1>1, <3>3 DEF AckMeansRead
        <4>2. Vouched(r)'
          BY <1>1, <2>3, <4>1 DEF ChannelInv, Vouched, Delivered
        <4> QED BY <1>1, <4>1, <4>2
      <3> QED BY <3>1, <3>2, <3>3
    <2> QED BY <1>1, <1>4, <2>1, <2>2, <2>4, <2>5
  <1> QED BY <1>1, <1>2, <1>3, <1>4

(* receive_acknowledgment.                                                 *)
LEMMA AcknowledgmentStep ==
  ASSUME CxInv, ReceiveAcknowledgment
  PROVE  /\ CxInv' /\ ~failed
         /\ \/ Fail
            \/ awaiting # NoAck /\ awaiting' = NoAck /\ UNCHANGED <<seen, pending, failed>>
  <1> USE DEF CxInv
  <1>1. /\ ~failed /\ mode = "acked" /\ awaiting # NoAck
        /\ UNCHANGED <<mode, toTarget, got, owes, guessed, peer, conduct>>
    BY DEF ReceiveAcknowledgment, targetVars
  <1>2. CASE NoPacket /\ Fail
    <2>1. UNCHANGED <<toHost, seen, pending, awaiting>>
      BY <1>2 DEF NoPacket, Fail
    <2> QED BY <1>1, <1>2, <2>1, FailCounts, QueuesUnchanged, ReadUnchanged
  <1>3. CASE Dequeue /\ Fail
    <2>1. UNCHANGED <<seen, pending, awaiting>>
      BY <1>3 DEF Fail
    <2> QED BY <1>1, <1>3, <2>1, FailCounts, DequeueKeeps, ReadUnchanged
  <1>4. CASE /\ Dequeue /\ Expected(Head(toHost))
             /\ awaiting' = NoAck /\ acknowledged' = acknowledged + 1
             /\ UNCHANGED <<failed, challenged, seen, pending, received, completed>>
    <2>1. /\ ChannelInv' /\ AckInv'
          /\ [id |-> Head(toHost).id, body |-> Head(toHost).body] \in got \cup guessed
          /\ Head(toHost).id = awaiting.id /\ Head(toHost).body = awaiting.body
      BY <1>1, <1>4, DequeueKeeps DEF Expected
    <2>2. CounterInv'
      <3>1. acknowledged = completed - 1 /\ completed \in Nat
        <4>1. Cardinality(seen \ pending) \in Nat
          BY FS_Subset, FS_CardinalityType DEF CounterInv, CxTypeOK
        <4> QED BY <1>1, <4>1 DEF CounterInv, CxTypeOK
      <3>2. acknowledged' = completed' - (IF awaiting' = NoAck THEN 0 ELSE 1)
        BY <1>4, <3>1
      <3> QED BY <1>1, <1>4, <3>2 DEF CounterInv, CxTypeOK
    <2>3. awaiting \in got \cup guessed
      <3>1. awaiting = [id |-> awaiting.id, body |-> awaiting.body]
        BY <1>1 DEF CounterInv, CxTypeOK
      <3> QED BY <2>1, <3>1
    <2>4. Vouched(awaiting)
      BY <1>1, <2>3 DEF SentInv, Delivered, Vouched, ChannelInv
    <2>5. \A r : Vouched(r)' <=> Vouched(r)
      BY <1>1 DEF Vouched
    <2>6. AckMeansRead' /\ SentInv'
      BY <1>1, <1>4, <2>3, <2>4, <2>5 DEF AckMeansRead, SentInv
    <2> QED BY <1>1, <1>4, <2>1, <2>2, <2>6
  <1> QED BY <1>2, <1>3, <1>4 DEF ReceiveAcknowledgment

-----------------------------------------------------------------------------
(* The target's steps leave the controller alone; an acknowledgment of     *)
(* this session is of a response it has read or is known to have guessed.  *)
LEMMA TargetStep ==
  ASSUME CxInv, TargetNext
  PROVE  CxInv' /\ UNCHANGED <<seen, pending, awaiting, failed>>
  <1> USE DEF CxInv
  <1>1. UNCHANGED <<mode, conduct, ctlVars>>
    BY DEF TargetNext, Ask, Read, Misbehave, Shut, Acknowledge
  <1>2. UNCHANGED <<failed, challenged, seen, pending, received, completed, awaiting,
                    acknowledged>>
    BY <1>1 DEF ctlVars
  <1>3. CounterInv'
    BY <1>1, <1>2 DEF CounterInv, CxTypeOK
  <1>4. ASSUME NEW i \in Ids, Ask(i)
        PROVE  CxInv'
    <2>1. /\ Put(Signed(Fresh, "Q", i, "none"))
          /\ UNCHANGED <<toTarget, got, owes, guessed, peer, conduct>>
      BY <1>4 DEF Ask
    <2>2. /\ Signed(Fresh, "Q", i, "none") \in Packets
          /\ Signed(Fresh, "Q", i, "none").kind = "Q"
      BY SignedIsPacket DEF Shapes, Names, Contents
    <2>3. ChannelInv' /\ AckInv'
      BY <2>1, <2>2, PutKeeps DEF ChannelInv
    <2> QED BY <1>1, <1>2, <1>3, <2>1, <2>3, ReadUnchanged
  <1>5. CASE Read
    <2>1. toTarget # <<>> /\ toTarget' = Tail(toTarget) /\ UNCHANGED toHost
      BY <1>5 DEF Read
    <2> DEFINE f == Head(toTarget)
               r == [id |-> f.id, body |-> f.body]
    <2>2. f \in Packets /\ Tail(toTarget) \in Seq(Packets)
      BY <2>1, QueueFacts DEF ChannelInv
    <2>3. r \in Answers
      BY <2>2 DEF Packets, Answers
    <2>4. /\ UNCHANGED guessed
          /\ \/ UNCHANGED <<got, owes>>
             \/ got' = got \cup {r} /\ owes' \in {owes, owes \cup {r}}
      BY <1>5 DEF Read
    <2>5. got \subseteq got'
      BY <2>4
    <2>6. ChannelInv'
      BY <1>1, <2>1, <2>2, <2>3, <2>4 DEF ChannelInv
    <2>7. AckInv'
      BY <2>1, <2>4, <2>5 DEF AckInv, AuthVerify
    <2>8. SentInv' /\ AckMeansRead'
      BY <1>1, <1>2, <1>5, <2>4, <2>5, DeliveredRead, VouchedKept
    <2> QED BY <1>2, <1>3, <2>6, <2>7, <2>8
  <1>6. CASE Misbehave
    <2>1. PICK f \in Stray :
            /\ Put(f)
            /\ guessed' = IF Ahead(f) THEN guessed \cup {[id |-> f.id, body |-> f.body]}
                                      ELSE guessed
      BY <1>6 DEF Misbehave
    <2>2. UNCHANGED <<toTarget, got, owes, peer, conduct>> /\ conduct = "any"
      BY <1>6 DEF Misbehave
    <2>3. f \in Packets
      <3>1. CASE f = BadFrame
        BY <3>1, BadIsPacket
      <3>2. ASSUME NEW r \in Earlier, f = Signed(Stale, "Q", r.id, "none")
            PROVE  f \in Packets
        BY <3>2, SignedIsPacket, CxAssumption DEF Shapes, Names, Contents
      <3>3. ASSUME NEW r \in Acknowledgeable \cup Earlier, NEW session \in {Fresh, Stale},
                   f = Signed(session, "A", r.id, r.body)
            PROVE  f \in Packets
        BY <3>3, SignedIsPacket, CxAssumption DEF Shapes, Names, Contents, Acknowledgeable
      <3>4. ASSUME NEW r \in got, f = Signed(Fresh, "S", r.id, r.body)
            PROVE  f \in Packets
        BY <3>4, SignedIsPacket DEF Shapes, ChannelInv, Answers
      <3> QED BY <3>1, <3>2, <3>3, <3>4 DEF Stray
    <2>4. /\ guessed \subseteq guessed' /\ guessed' \subseteq Answers
          /\ f.kind = "A" /\ AuthVerify(f, "A") =>
               [id |-> f.id, body |-> f.body] \in got \cup guessed'
      BY <2>1, <2>3 DEF Ahead, ChannelInv, Packets, Answers
    <2>5. ChannelInv' /\ AckInv'
      BY <2>1, <2>2, <2>3, <2>4, PutKeeps
    <2>6. \A r \in Answers : Delivered(r) => Delivered(r)'
      BY <2>2 DEF Delivered
    <2>7. SentInv' /\ AckMeansRead'
      BY <1>1, <1>2, <2>2, <2>4, <2>6, VouchedKept
    <2> QED BY <1>2, <1>3, <2>5, <2>7
  <1>7. CASE Shut
    <2>1. toTarget' = <<>> /\ peer' = "shut" /\ UNCHANGED <<toHost, got, owes, guessed, conduct>>
      BY <1>7 DEF Shut
    <2>2. ChannelInv' /\ AckInv'
      BY <2>1 DEF ChannelInv, AckInv, AuthVerify
    <2>3. \A r \in Answers : Delivered(r) => Delivered(r)'
      BY <2>1 DEF Delivered
    <2> QED BY <1>1, <1>2, <1>3, <2>1, <2>2, <2>3, VouchedKept
  <1>8. ASSUME NEW r \in owes, Acknowledge(r)
        PROVE  CxInv'
    <2>1. /\ Put(Signed(Fresh, "A", r.id, r.body)) /\ owes' = owes \ {r}
          /\ UNCHANGED <<toTarget, got, guessed, peer, conduct>>
      BY <1>8 DEF Acknowledge
    <2>2. r \in got /\ r \in Answers /\ r = [id |-> r.id, body |-> r.body]
      BY DEF ChannelInv, Answers
    <2>3. /\ Signed(Fresh, "A", r.id, r.body) \in Packets
          /\ Signed(Fresh, "A", r.id, r.body).id = r.id
          /\ Signed(Fresh, "A", r.id, r.body).body = r.body
      BY <2>2, SignedIsPacket DEF Shapes, Answers
    <2>4. ChannelInv' /\ AckInv'
      BY <2>1, <2>2, <2>3, PutKeeps DEF ChannelInv
    <2> QED BY <1>1, <1>2, <1>3, <2>1, <2>4, ReadUnchanged
  <1> QED BY <1>2, <1>4, <1>5, <1>6, <1>7, <1>8 DEF TargetNext

-----------------------------------------------------------------------------
LEMMA CxNextInv == CxInv /\ [CxNext]_cxVars => CxInv'
  <1> SUFFICES ASSUME CxInv, [CxNext]_cxVars PROVE CxInv'
    OBVIOUS
  <1>1. CASE HostNext
    BY <1>1, ReceiveStep, ChallengeStep, RespondStep, AcknowledgmentStep DEF HostNext
  <1>2. CASE TargetNext
    BY <1>2, TargetStep
  <1>3. CASE UNCHANGED cxVars
    <2>1. UNCHANGED <<mode, failed, challenged, seen, pending, received, completed, awaiting,
                      acknowledged, toHost, toTarget, got, owes, guessed, peer, conduct>>
      BY <1>3 DEF cxVars, ctlVars, targetVars
    <2>2. CounterInv'
      BY <2>1 DEF CxInv, CounterInv, CxTypeOK
    <2> QED BY <2>1, <2>2, QueuesUnchanged, ReadUnchanged DEF CxInv
  <1> QED BY <1>1, <1>2, <1>3 DEF CxNext

(* The inductive invariant of the correlated exchanges.                    *)
THEOREM CxInvariance == CxSpec => []CxInv
  BY CxInitInv, CxNextInv, PTL DEF CxSpec

(* The counters of the three controllers count their sets, and both        *)
(* ceilings hold for every ceiling prepare accepts.                        *)
THEOREM CxTypeCorrect == CxSpec => []CxTypeOK
  <1>1. CxInv => CxTypeOK
    BY DEF CxInv, CounterInv
  <1> QED BY <1>1, CxInvariance, PTL

(* A response that the barrier has let pass was read by the target, or the *)
(* target signed ahead for exactly the bytes it was sent                   *)
(* (receive_acknowledgment), whatever packets it sends and whatever it     *)
(* guesses; one that conforms has read it.                                 *)
THEOREM AcknowledgedWasRead == CxSpec => []AckMeansRead
  <1>1. CxInv => AckMeansRead
    BY DEF CxInv
  <1> QED BY <1>1, CxInvariance, PTL

-----------------------------------------------------------------------------
(* Every step of the exchange is a step of the ledger, or none.            *)

LEMMA FailCloses ==
  ASSUME Fail, ~failed
  PROVE  Ledger!Close
  BY DEF Fail, Ledger!Close

LEMMA AdmitOpens ==
  ASSUME CxInv, NEW i \in Ids, i \notin seen, BelowCeilings, Admit(i), awaiting = NoAck, ~failed
  PROVE  Ledger!Open(i)
  <1>1. /\ pending \subseteq seen /\ IsFiniteSet(seen)
        /\ received = Cardinality(seen) /\ received <= MaxRequests
        /\ Cardinality(pending) <= MaxInFlight
    BY DEF CxInv, CounterInv, CxTypeOK
  <1>2. Cardinality(seen) \in Nat /\ Cardinality(pending) \in Nat
    BY <1>1, FS_Subset, FS_CardinalityType
  <1>3. Cardinality(pending) < MaxInFlight /\ Cardinality(seen) < MaxRequests
    BY <1>1, <1>2, CxAssumption DEF BelowCeilings
  <1>4. pending \cup (seen \ pending) = seen
    BY <1>1
  <1>5. /\ pending' = pending \cup {i} /\ seen' \ pending' = seen \ pending
        /\ awaiting' = awaiting /\ failed' = failed
    BY <1>1 DEF Admit
  <1>6. /\ Ledger!Cardinality(pending) = Cardinality(pending)
        /\ Ledger!Cardinality(seen) = Cardinality(seen)
    BY DEF Ledger!Cardinality, Cardinality
  <1> QED BY <1>3, <1>4, <1>5, <1>6 DEF Ledger!Open, Ledger!Moves

LEMMA PublishAnswers ==
  ASSUME CxInv, NEW i \in pending, NEW frame, PublishResponse(i, frame), NEW b,
         awaiting = NoAck, awaiting' \in {NoAck, [id |-> i, body |-> b]}, ~failed
  PROVE  Ledger!Answer(i)
  <1>1. pending \subseteq seen
    BY DEF CxInv, CounterInv, CxTypeOK
  <1>2. /\ pending' = pending \ {i} /\ seen' \ pending' = (seen \ pending) \cup {i}
        /\ failed' = failed
    BY <1>1 DEF PublishResponse
  <1>3. (IF awaiting' = NoAck THEN {} ELSE {awaiting'.id}) \in {{}, {i}}
    OBVIOUS
  <1> QED BY <1>2, <1>3 DEF Ledger!Answer, Ledger!Moves

LEMMA LedgerStep == CxInv /\ [CxNext]_cxVars => [Ledger!LedgerNext]_(Ledger!ledgerVars)
  <1> SUFFICES ASSUME CxInv, [CxNext]_cxVars
               PROVE  [Ledger!LedgerNext]_(Ledger!ledgerVars)
    OBVIOUS
  <1>1. ASSUME UNCHANGED <<seen, pending, awaiting, failed>>
        PROVE  UNCHANGED Ledger!ledgerVars
    BY <1>1 DEF Ledger!ledgerVars
  <1>2. CASE Receive
    <2>1. ~failed
      BY <1>2, ReceiveStep
    <2>2. CASE Fail
      BY <2>1, <2>2, FailCloses DEF Ledger!LedgerNext
    <2>3. ASSUME NEW i \in Ids, i \notin seen, BelowCeilings, Admit(i), awaiting = NoAck
          PROVE  Ledger!LedgerNext
      BY <2>1, <2>3, AdmitOpens DEF Ledger!LedgerNext
    <2> QED BY <1>2, <2>2, <2>3, ReceiveStep
  <1>3. CASE PublishChallenge
    BY <1>1, <1>3, ChallengeStep, FailCloses DEF Ledger!LedgerNext
  <1>4. ASSUME NEW i \in Ids, NEW b \in Bodies, NEW s, Respond(i, b, s)
        PROVE  Ledger!LedgerNext
    <2>1. ~failed
      BY <1>4, RespondStep
    <2>2. CASE Fail
      BY <2>1, <2>2, FailCloses DEF Ledger!LedgerNext
    <2>3. ASSUME i \in pending, awaiting = NoAck, NEW frame, PublishResponse(i, frame),
                 awaiting' \in {NoAck, [id |-> i, body |-> b]}
          PROVE  Ledger!LedgerNext
      BY <2>1, <2>3, PublishAnswers DEF Ledger!LedgerNext
    <2> QED BY <1>4, <2>2, <2>3, RespondStep
  <1>5. CASE ReceiveAcknowledgment
    <2>1. ~failed
      BY <1>5, AcknowledgmentStep
    <2>2. CASE Fail
      BY <2>1, <2>2, FailCloses DEF Ledger!LedgerNext
    <2>3. CASE awaiting # NoAck /\ awaiting' = NoAck /\ UNCHANGED <<seen, pending, failed>>
      BY <2>1, <2>3 DEF Ledger!LedgerNext, Ledger!Confirm
    <2> QED BY <1>5, <2>2, <2>3, AcknowledgmentStep
  <1>6. CASE TargetNext
    BY <1>1, <1>6, TargetStep
  <1>7. CASE UNCHANGED cxVars
    BY <1>1, <1>7 DEF cxVars, ctlVars
  <1> QED BY <1>2, <1>3, <1>4, <1>5, <1>6, <1>7 DEF CxNext, HostNext

(* The plain, the authenticated and the acknowledged controller implement  *)
(* the ledger: each request is opened once and within both ceilings,       *)
(* answered at most once and in any order, confirmed before anything else  *)
(* moves where a barrier was asked for, and never again after a failure.   *)
THEOREM ImplementsLedger == CxSpec => RefinesLedger
  <1>1. CxInit => Ledger!LedgerInit
    BY DEF CxInit, PrepareCorrelated, PrepareAuthenticated, PrepareAcknowledged, ControllerInit,
           Ledger!LedgerInit
  <1> QED
    BY <1>1, LedgerStep, CxInvariance, PTL DEF CxSpec, RefinesLedger, Ledger!LedgerSpec

-----------------------------------------------------------------------------
(* Responses on their way to the target and read by it, by identifier.     *)
SentOn(i) == {k \in DOMAIN toTarget : toTarget[k].kind = "S" /\ toTarget[k].id = i}
ReadOf(i) == {r \in got : r.id = i}

(* An answered request has one response, queued or read.                   *)
AnsweredOnce(i) ==
  \/ ReadOf(i) = {} /\ \E k \in DOMAIN toTarget : SentOn(i) = {k}
  \/ SentOn(i) = {} /\ \E r \in got : ReadOf(i) = {r}

OnceInv ==
  /\ IsFiniteSet(got)
  /\ \A k \in DOMAIN toTarget : toTarget[k].kind \in {"C", "S"}
  /\ peer = "open" =>
       \A i \in Ids : IF i \in seen \ pending THEN AnsweredOnce(i)
                      ELSE SentOn(i) = {} /\ ReadOf(i) = {}

(* The requests that wait, matched in their order with those that were     *)
(* asked and not yet received.                                             *)
Waiting == (Len(accepted) + 1)..Len(issued)

InOrder(f) ==
  /\ f \in [Queued -> Waiting]
  /\ \A m \in Waiting : \E k \in Queued : f[k] = m
  /\ \A j, k \in Queued : j < k => f[j] < f[k]
  /\ \A k \in Queued : issued[f[k]] = toHost[k].id

OrderInv ==
  /\ accepted \in Seq(Ids) /\ issued \in Seq(Ids)
  /\ Len(accepted) = received /\ seen = {accepted[n] : n \in DOMAIN accepted}
  /\ ~failed =>
       /\ Len(accepted) <= Len(issued)
       /\ \A n \in DOMAIN accepted : issued[n] = accepted[n]
       /\ \E f \in [Queued -> Waiting] : InOrder(f)

-----------------------------------------------------------------------------
(* What the controller's calls do, in the terms of these invariants.       *)
LEMMA ReceiveEffect ==
  ASSUME CxInv, Receive
  PROVE  /\ UNCHANGED <<mode, conduct, toTarget, peer, issued, packets, knows, got, owes>>
         /\ ~failed /\ awaiting = NoAck
         /\ \/ NoPacket /\ Fail
            \/ /\ Dequeue /\ Fail
               /\ ~Asked(Head(toHost)) \/ Head(toHost).id \in seen
            \/ /\ Dequeue /\ Asked(Head(toHost)) /\ Head(toHost).id \notin seen
               /\ Admit(Head(toHost).id)
  <1>1. awaiting = NoAck
    BY DEF Receive, ReceivePlain, ReceiveAcknowledged, CxInv, CounterInv, CxTypeOK
  <1>2. CASE ReceivePlain
    <2>1. mode = "plain"
      BY <1>2 DEF ReceivePlain
    <2>2. \A f : Asked(f) <=> f.kind = "Q"
      BY <2>1 DEF Asked, Authenticated
    <2> QED BY <1>1, <1>2, <2>2 DEF ReceivePlain, Unused, targetVars
  <1>3. CASE ReceiveAuthenticated
    <2>1. Authenticated
      BY <1>3 DEF ReceiveAuthenticated
    <2>2. \A f : Asked(f) <=> f.kind = "Q" /\ AuthVerify(f, "Q")
      BY <2>1 DEF Asked
    <2> QED BY <1>1, <1>3, <2>2 DEF ReceiveAuthenticated, Unused, targetVars
  <1> QED BY <1>2, <1>3 DEF Receive, ReceiveAcknowledged

LEMMA AcknowledgmentEffect ==
  ASSUME CxInv, ReceiveAcknowledgment
  PROVE  /\ UNCHANGED <<mode, conduct, toTarget, peer, issued, packets, knows, got, owes>>
         /\ ~failed /\ awaiting # NoAck /\ mode = "acked"
         /\ \/ NoPacket /\ Fail
            \/ Dequeue /\ Fail /\ ~Expected(Head(toHost))
            \/ /\ Dequeue /\ Expected(Head(toHost)) /\ awaiting' = NoAck
               /\ UNCHANGED <<failed, challenged, seen, pending, received, completed, accepted>>
  BY DEF ReceiveAcknowledgment, targetVars

LEMMA ChallengeEffect ==
  ASSUME CxInv, PublishChallenge
  PROVE  /\ UNCHANGED <<mode, conduct, toHost, peer, issued, packets, knows, got, owes>>
         /\ ~failed /\ ~challenged /\ mode # "plain"
         /\ \/ /\ Fail /\ UNCHANGED toTarget
               /\ SysCallFails \/ peer = "shut"
            \/ /\ toTarget' = Append(toTarget, Frame("C", "none", Fresh, NoTag))
               /\ challenged' = TRUE /\ peer = "open"
               /\ UNCHANGED <<faults, failed, seen, pending, received, completed, awaiting,
                              accepted>>
  BY DEF PublishChallenge, targetVars, Authenticated

(* The frame of a response names the request and carries its content.      *)
LEMMA ResponseFrame ==
  ASSUME NEW i \in Ids, NEW b \in Bodies, NEW t \in {NoTag, Tag(Fresh, "S", i, b)}
  PROVE  /\ Frame("S", i, b, t) \in Packets /\ Frame("S", i, b, t).kind = "S"
         /\ Frame("S", i, b, t).id = i /\ Frame("S", i, b, t).body = b
  <1>1. t \in Tags
    BY DEF Tags, Tag, Shapes, Names, Contents
  <1> QED BY <1>1 DEF Frame, Packets, Shapes, Names, Contents

LEMMA RespondEffect ==
  ASSUME CxInv, NEW i \in Ids, NEW b \in Bodies, NEW s, Respond(i, b, s)
  PROVE  /\ UNCHANGED <<mode, conduct, toHost, peer, issued, packets, knows, got, owes>>
         /\ ~failed /\ awaiting = NoAck
         /\ \/ /\ Fail /\ UNCHANGED toTarget
               /\ \/ conduct # "conforming" \/ SysCallFails \/ peer = "shut"
                  \/ i \in pending /\ Len(toTarget) >= QueueLimit
            \/ /\ i \in pending
               /\ \E frame \in Packets :
                    /\ frame.kind = "S" /\ frame.id = i /\ frame.body = b
                    /\ PublishResponse(i, frame)
               /\ awaiting' = IF mode = "acked" THEN [id |-> i, body |-> b] ELSE NoAck
  <1>1. /\ ~failed /\ awaiting = NoAck
        /\ UNCHANGED <<mode, conduct, toHost, peer, issued, packets, knows, got, owes>>
    BY DEF Respond, RespondPlain, RespondAuthenticated, RespondAcknowledged, targetVars,
           CxInv, CounterInv, CxTypeOK
  <1>2. conduct = "conforming" => i \in pending /\ s = "fits"
    BY DEF Respond
  <1>3. RejectResponse(i, s) => Fail /\ UNCHANGED toTarget /\ conduct # "conforming"
    BY <1>2 DEF RejectResponse
  <1>4. i \in pending /\ SendFails =>
          /\ Fail /\ UNCHANGED toTarget
          /\ \/ SysCallFails \/ peer = "shut"
             \/ i \in pending /\ Len(toTarget) >= QueueLimit
    BY DEF SendFails
  <1> DEFINE frame(t) == Frame("S", i, b, t)
             tag      == Tag(Fresh, "S", i, b)
  <1>5. \A t \in {NoTag, tag} :
          frame(t) \in Packets /\ frame(t).kind = "S" /\ frame(t).id = i /\ frame(t).body = b
    BY ResponseFrame
  <1>6. TaggedResponse(i, b) = frame(tag)
    BY DEF TaggedResponse
  <1> HIDE DEF frame
  <1>7. \/ RejectResponse(i, s)
        \/ i \in pending /\ SendFails
        \/ /\ i \in pending /\ \E t \in {NoTag, tag} : PublishResponse(i, frame(t))
           /\ awaiting' = IF mode = "acked" THEN [id |-> i, body |-> b] ELSE awaiting
    <2>1. CASE RespondPlain(i, b, s)
      BY <2>1 DEF RespondPlain, frame
    <2>2. CASE RespondAuthenticated(i, b, s)
      BY <2>2, <1>6 DEF RespondAuthenticated
    <2>3. CASE RespondAcknowledged(i, b, s)
      BY <2>3, <1>6 DEF RespondAcknowledged
    <2> QED BY <2>1, <2>2, <2>3 DEF Respond
  <1>8. CASE i \in pending /\ \E t \in {NoTag, tag} : PublishResponse(i, frame(t))
             /\ awaiting' = IF mode = "acked" THEN [id |-> i, body |-> b] ELSE awaiting
    BY <1>1, <1>5, <1>8
  <1> QED BY <1>1, <1>3, <1>4, <1>7, <1>8

(* A stray packet is no request of this session.                           *)
LEMMA StrayIsPacket ==
  ASSUME CxInv, NEW f \in Stray
  PROVE  f \in Packets /\ ~Asked(f)
  <1>1. CASE f = BadFrame
    BY <1>1, BadIsPacket DEF Asked
  <1>2. ASSUME Authenticated, NEW r \in Earlier, f = Signed(Stale, "Q", r.id, "none")
        PROVE  f \in Packets /\ ~Asked(f)
    <2>1. f \in Packets /\ f.tag = <<Stale, "Q", r.id, "none">>
      BY <1>2, SignedIsPacket, CxAssumption DEF Shapes, Names, Contents
    <2> QED BY <1>2, <2>1 DEF Asked, AuthVerify, Tag, Fresh, Stale
  <1>3. ASSUME NEW r \in Acknowledgeable \cup Earlier, NEW session \in {Fresh, Stale},
               f = Signed(session, "A", r.id, r.body)
        PROVE  f \in Packets /\ f.kind = "A"
    BY <1>3, SignedIsPacket, CxAssumption DEF Shapes, Names, Contents, Acknowledgeable
  <1>4. ASSUME NEW r \in got, f = Signed(Fresh, "S", r.id, r.body)
        PROVE  f \in Packets /\ f.kind = "S"
    BY <1>4, SignedIsPacket DEF Shapes, CxInv, ChannelInv, Answers
  <1> QED BY <1>1, <1>2, <1>3, <1>4 DEF Stray, Asked

LEMMA RequestIsPacket ==
  ASSUME NEW i \in Ids
  PROVE  /\ Signed(Fresh, "Q", i, "none") \in Packets /\ Signed(Fresh, "Q", i, "none").id = i
         /\ Asked(Signed(Fresh, "Q", i, "none"))
  <1>1. /\ Signed(Fresh, "Q", i, "none") \in Packets /\ Signed(Fresh, "Q", i, "none").id = i
        /\ Signed(Fresh, "Q", i, "none").kind = "Q"
        /\ Signed(Fresh, "Q", i, "none").body = "none"
        /\ Authenticated => Signed(Fresh, "Q", i, "none").tag = <<Fresh, "Q", i, "none">>
    BY SignedIsPacket DEF Shapes, Names, Contents
  <1> QED BY <1>1 DEF Asked, AuthVerify, Tag

LEMMA AcknowledgmentIsPacket ==
  ASSUME CxInv, NEW r \in owes
  PROVE  /\ Signed(Fresh, "A", r.id, r.body) \in Packets
         /\ Signed(Fresh, "A", r.id, r.body).kind = "A"
         /\ Signed(Fresh, "A", r.id, r.body).id = r.id
         /\ Signed(Fresh, "A", r.id, r.body).body = r.body
         /\ Authenticated => AuthVerify(Signed(Fresh, "A", r.id, r.body), "A")
  <1>1. r.id \in Names /\ r.body \in Contents
    BY DEF CxInv, ChannelInv, Answers
  <1> QED BY <1>1, SignedIsPacket DEF Shapes, AuthVerify, Tag

-----------------------------------------------------------------------------
(* The positions of the waiting requests when a packet comes or goes.      *)
LEMMA QueuedPut ==
  ASSUME ChannelInv, NEW f \in Packets, Put(f), UNCHANGED mode
  PROVE  /\ Queued \subseteq 1..Len(toHost) /\ Len(toHost) \in Nat
         /\ DOMAIN toHost' = 1..(Len(toHost) + 1) /\ toHost'[Len(toHost) + 1] = f
         /\ \A k \in 1..Len(toHost) : toHost'[k] = toHost[k]
         /\ Queued' = IF Asked(f) THEN Queued \cup {Len(toHost) + 1} ELSE Queued
  <1>1. toHost \in Seq(Packets) /\ toHost' = Append(toHost, f)
    BY DEF Put, ChannelInv
  <1>2. /\ Len(toHost) \in Nat /\ DOMAIN toHost = 1..Len(toHost)
        /\ DOMAIN toHost' = 1..(Len(toHost) + 1) /\ toHost'[Len(toHost) + 1] = f
        /\ \A k \in 1..Len(toHost) : toHost'[k] = toHost[k]
    BY <1>1
  <1>3. Queued' = {k \in DOMAIN toHost' : Asked(toHost'[k])}
    BY DEF Queued, Asked, Authenticated, AuthVerify
  <1> QED BY <1>2, <1>3 DEF Queued

LEMMA QueuedDequeue ==
  ASSUME ChannelInv, Dequeue, UNCHANGED mode
  PROVE  /\ Queued \subseteq 1..Len(toHost) /\ Len(toHost) \in Nat \ {0}
         /\ DOMAIN toHost' = 1..(Len(toHost) - 1) /\ Head(toHost) = toHost[1]
         /\ \A k \in 1..(Len(toHost) - 1) : toHost'[k] = toHost[k + 1]
         /\ Queued' = {k \in 1..(Len(toHost) - 1) : k + 1 \in Queued}
         /\ 1 \in Queued <=> Asked(Head(toHost))
  <1>1. toHost \in Seq(Packets) /\ toHost # <<>> /\ toHost' = Tail(toHost)
    BY DEF Dequeue, ChannelInv
  <1>2. /\ Len(toHost) \in Nat \ {0} /\ DOMAIN toHost = 1..Len(toHost)
        /\ Head(toHost) = toHost[1] /\ 1 \in DOMAIN toHost
    BY <1>1
  <1>3. /\ DOMAIN toHost' = 1..(Len(toHost) - 1)
        /\ \A k \in 1..(Len(toHost) - 1) : toHost'[k] = toHost[k + 1]
    BY <1>1
  <1>4. Queued' = {k \in DOMAIN toHost' : Asked(toHost'[k])}
    BY DEF Queued, Asked, Authenticated, AuthVerify
  <1>5. \A k \in 1..(Len(toHost) - 1) : k + 1 \in 1..Len(toHost)
    BY <1>2
  <1> QED BY <1>2, <1>3, <1>4, <1>5 DEF Queued

-----------------------------------------------------------------------------
(* One response for each answered request.                                 *)
LEMMA OnceKept ==
  ASSUME OnceInv, UNCHANGED <<toTarget, got>>, seen' \ pending' = seen \ pending,
         peer' = "open" => peer = "open"
  PROVE  OnceInv'
  BY DEF OnceInv, AnsweredOnce, SentOn, ReadOf

(* The challenge is no response.                                           *)
LEMMA OnceChallenged ==
  ASSUME CxInv, OnceInv, UNCHANGED <<peer, got, seen, pending>>,
         toTarget' = Append(toTarget, Frame("C", "none", Fresh, NoTag))
  PROVE  OnceInv'
  <1> DEFINE f == Frame("C", "none", Fresh, NoTag)
             n == Len(toTarget) + 1
  <1>1. f.kind = "C" /\ f \in Packets
    BY DEF Frame, Packets, Shapes, Names, Contents, Tags
  <1>2. toTarget \in Seq(Packets) /\ toTarget' = Append(toTarget, f)
    BY DEF CxInv, ChannelInv
  <1> HIDE DEF f
  <1>3. /\ DOMAIN toTarget' = (DOMAIN toTarget) \cup {n} /\ toTarget'[n] = f
        /\ \A k \in DOMAIN toTarget : toTarget'[k] = toTarget[k]
    BY <1>1, <1>2
  <1> HIDE DEF n
  <1>4. \A i : (SentOn(i))' = SentOn(i) /\ (ReadOf(i))' = ReadOf(i)
    BY <1>1, <1>3 DEF SentOn, ReadOf
  <1>5. \A i \in Ids : AnsweredOnce(i) => AnsweredOnce(i)'
    BY <1>3, <1>4 DEF AnsweredOnce
  <1>6. \A k \in DOMAIN toTarget' : toTarget'[k].kind \in {"C", "S"}
    BY <1>1, <1>3 DEF OnceInv
  <1> QED BY <1>4, <1>5, <1>6 DEF OnceInv

(* send_response answers a request that had no response yet.               *)
LEMMA OncePublished ==
  ASSUME CxInv, OnceInv, NEW i \in pending, NEW f \in Packets, f.kind = "S", f.id = i,
         PublishResponse(i, f), UNCHANGED <<peer, got>>
  PROVE  OnceInv'
  <1> DEFINE n == Len(toTarget) + 1
  <1>1. toTarget \in Seq(Packets) /\ toTarget' = Append(toTarget, f)
    BY DEF CxInv, ChannelInv, PublishResponse
  <1>2. /\ DOMAIN toTarget' = (DOMAIN toTarget) \cup {n} /\ toTarget'[n] = f
        /\ n \notin DOMAIN toTarget
        /\ \A k \in DOMAIN toTarget : toTarget'[k] = toTarget[k]
    BY <1>1
  <1> HIDE DEF n
  <1>3. /\ (SentOn(i))' = SentOn(i) \cup {n}
        /\ \A j : j # i => (SentOn(j))' = SentOn(j)
        /\ \A j : (ReadOf(j))' = ReadOf(j)
    BY <1>2 DEF SentOn, ReadOf
  <1>4. i \in Ids /\ seen' \ pending' = (seen \ pending) \cup {i} /\ i \notin seen \ pending
    BY DEF PublishResponse, CxInv, CounterInv, CxTypeOK
  <1>5. peer = "open"
    BY DEF PublishResponse
  <1>6. AnsweredOnce(i)'
    <2>1. SentOn(i) = {} /\ ReadOf(i) = {}
      BY <1>4, <1>5 DEF OnceInv
    <2> QED BY <1>2, <1>3, <2>1 DEF AnsweredOnce
  <1>7. ASSUME NEW j \in Ids, j # i
        PROVE  IF j \in seen' \ pending' THEN AnsweredOnce(j)'
               ELSE (SentOn(j))' = {} /\ (ReadOf(j))' = {}
    <2>1. (SentOn(j))' = SentOn(j) /\ (ReadOf(j))' = ReadOf(j)
      BY <1>3, <1>7
    <2>2. AnsweredOnce(j) => AnsweredOnce(j)'
      BY <1>2, <2>1 DEF AnsweredOnce
    <2> QED BY <1>4, <1>5, <1>7, <2>1, <2>2 DEF OnceInv
  <1>8. \A k \in DOMAIN toTarget' : toTarget'[k].kind \in {"C", "S"}
    BY <1>2 DEF OnceInv
  <1> QED BY <1>4, <1>6, <1>7, <1>8 DEF OnceInv

(* Reading moves a response from the queue to what the target has.         *)
LEMMA OnceRead ==
  ASSUME CxInv, OnceInv, Read
  PROVE  /\ OnceInv'
         /\ Head(toTarget).kind = "S" /\ Head(toTarget).id \in Ids =>
              [id |-> Head(toTarget).id, body |-> Head(toTarget).body] \notin got
  <1> DEFINE h == Head(toTarget)
             r == [id |-> h.id, body |-> h.body]
             n == Len(toTarget)
  <1>1. /\ toTarget \in Seq(Packets) /\ toTarget # <<>> /\ toTarget' = Tail(toTarget)
        /\ peer = "open" /\ UNCHANGED <<peer, seen, pending>>
    BY DEF CxInv, ChannelInv, Read, ctlVars
  <1>2. /\ n \in Nat \ {0} /\ DOMAIN toTarget = 1..n /\ h = toTarget[1] /\ 1 \in DOMAIN toTarget
        /\ DOMAIN toTarget' = 1..(n - 1)
        /\ \A k \in 1..(n - 1) : toTarget'[k] = toTarget[k + 1]
    BY <1>1
  <1>3. h.kind \in {"C", "S"}
    BY <1>2 DEF OnceInv
  <1>4. IF h.kind = "C" THEN got' = got ELSE got' = got \cup {r}
    BY DEF Read
  <1>5. r.id = h.id
    OBVIOUS
  <1> HIDE DEF h, r, n
  <1>6. \A i : (SentOn(i))' = {k \in 1..(n - 1) : k + 1 \in SentOn(i)}
    <2>1. \A k \in 1..(n - 1) : k + 1 \in 1..n
      BY <1>2
    <2> QED BY <1>2, <2>1 DEF SentOn
  <1>7. \A i : SentOn(i) \subseteq 1..n /\ (1 \in SentOn(i) <=> h.kind = "S" /\ h.id = i)
    BY <1>2 DEF SentOn
  <1>8. \A k \in DOMAIN toTarget' : toTarget'[k].kind \in {"C", "S"}
    <2>1. \A k \in 1..(n - 1) : k + 1 \in 1..n
      BY <1>2
    <2> QED BY <1>2, <2>1 DEF OnceInv
  <1>9. ASSUME NEW i \in Ids, ~(h.kind = "S" /\ h.id = i)
        PROVE  IF i \in seen' \ pending' THEN AnsweredOnce(i)'
               ELSE (SentOn(i))' = {} /\ (ReadOf(i))' = {}
    <2>1. (ReadOf(i))' = ReadOf(i)
      BY <1>3, <1>4, <1>5, <1>9 DEF ReadOf
    <2>2. 1 \notin SentOn(i)
      BY <1>7, <1>9
    <2>3. SentOn(i) = {} => (SentOn(i))' = {}
      BY <1>6
    <2>4. ASSUME NEW k \in DOMAIN toTarget, SentOn(i) = {k}
          PROVE  \E m \in DOMAIN toTarget' : (SentOn(i))' = {m}
      <3>1. k \in 1..n /\ k # 1
        BY <1>2, <2>2, <2>4
      <3>2. k - 1 \in 1..(n - 1) /\ (k - 1) + 1 = k
        BY <1>2, <3>1
      <3>3. \A m \in 1..(n - 1) : m + 1 = k <=> m = k - 1
        BY <1>2, <3>1
      <3>4. (SentOn(i))' = {k - 1}
        BY <1>6, <2>4, <3>2, <3>3
      <3> QED BY <1>2, <3>2, <3>4
    <2>5. got \subseteq got'
      BY <1>4
    <2>6. AnsweredOnce(i) => AnsweredOnce(i)'
      BY <2>1, <2>3, <2>4, <2>5 DEF AnsweredOnce
    <2> QED BY <1>1, <2>1, <2>3, <2>6 DEF OnceInv
  <1>10. ASSUME NEW i \in Ids, h.kind = "S", h.id = i
         PROVE  /\ i \in seen' \ pending' /\ AnsweredOnce(i)'
                /\ r \notin got
    <2>1. 1 \in SentOn(i)
      BY <1>7, <1>10
    <2>2. i \in seen \ pending /\ AnsweredOnce(i)
      BY <1>1, <1>10, <2>1 DEF OnceInv
    <2>3. SentOn(i) = {1} /\ ReadOf(i) = {}
      BY <2>1, <2>2 DEF AnsweredOnce
    <2>4. (SentOn(i))' = {}
      <3>1. \A k \in 1..(n - 1) : k + 1 # 1
        BY <1>2
      <3> QED BY <1>6, <2>3, <3>1
    <2>5. (ReadOf(i))' = {r} /\ r \in got'
      BY <1>4, <1>5, <1>10, <2>3 DEF ReadOf
    <2>6. r \notin got
      BY <1>5, <1>10, <2>3 DEF ReadOf
    <2> QED BY <1>1, <2>2, <2>4, <2>5, <2>6 DEF AnsweredOnce
  <1>11. IsFiniteSet(got')
    BY <1>4, FS_AddElement DEF OnceInv
  <1>12. OnceInv'
    <2>1. ASSUME NEW i \in Ids
          PROVE  IF i \in seen' \ pending' THEN AnsweredOnce(i)'
                 ELSE (SentOn(i))' = {} /\ (ReadOf(i))' = {}
      BY <1>9, <1>10
    <2> QED BY <1>8, <1>11, <2>1 DEF OnceInv
  <1> QED BY <1>10, <1>12 DEF h, r

-----------------------------------------------------------------------------
(* The waiting requests are the ones asked and not yet received.           *)
LEMMA OrderKept ==
  ASSUME OrderInv,
         UNCHANGED <<mode, toHost, failed, received, seen, accepted, issued>>
  PROVE  OrderInv'
  <1>1. Queued' = Queued
    BY DEF Queued, Asked, Authenticated, AuthVerify
  <1>2. Waiting' = Waiting
    BY DEF Waiting
  <1> QED BY <1>1, <1>2 DEF OrderInv, InOrder

(* After a failure only the histories matter.                              *)
LEMMA OrderFailed ==
  ASSUME OrderInv, Fail, UNCHANGED issued
  PROVE  OrderInv'
  BY DEF OrderInv, Fail

(* A packet that is no request joins the queue.                            *)
LEMMA OrderStray ==
  ASSUME CxInv, OrderInv, NEW f \in Packets, ~Asked(f), Put(f),
         UNCHANGED <<mode, failed, received, seen, accepted, issued>>
  PROVE  OrderInv'
  <1>1. /\ Queued' = Queued /\ Queued \subseteq 1..Len(toHost)
        /\ \A k \in Queued : toHost'[k] = toHost[k]
    BY QueuedPut DEF CxInv
  <1>2. Waiting' = Waiting
    BY DEF Waiting
  <1>3. ASSUME NEW g \in [Queued -> Waiting], InOrder(g)
        PROVE  InOrder(g)'
    BY <1>1, <1>2, <1>3 DEF InOrder
  <1> QED BY <1>1, <1>2, <1>3 DEF OrderInv

(* A request joins both.                                                   *)
LEMMA OrderAsked ==
  ASSUME CxInv, OrderInv, NEW i \in Ids, NEW f \in Packets, Asked(f), f.id = i, Put(f),
         issued' = Append(issued, i), UNCHANGED <<mode, failed, received, seen, accepted>>
  PROVE  OrderInv'
  <1> DEFINE n == Len(toHost) + 1
             m == Len(issued) + 1
  <1>1. /\ Queued' = Queued \cup {n} /\ Queued \subseteq 1..Len(toHost)
        /\ Len(toHost) \in Nat /\ toHost'[n] = f
        /\ \A k \in Queued : toHost'[k] = toHost[k]
    BY QueuedPut DEF CxInv
  <1>2. n \in Nat /\ n \notin Queued /\ \A k \in Queued : k \in Nat /\ k < n
    BY <1>1
  <1>3. /\ issued \in Seq(Ids) /\ accepted \in Seq(Ids)
        /\ issued' \in Seq(Ids) /\ Len(issued') = m /\ issued'[m] = i
        /\ \A k \in 1..Len(issued) : issued'[k] = issued[k]
        /\ Len(issued) \in Nat /\ Len(accepted) \in Nat
    BY DEF OrderInv
  <1> HIDE DEF n
  <1>4. ASSUME ~failed
        PROVE  /\ Len(accepted') <= Len(issued')
               /\ \A k \in DOMAIN accepted' : issued'[k] = accepted'[k]
               /\ \E g \in [Queued' -> Waiting'] : InOrder(g)'
    <2>1. /\ Len(accepted) <= Len(issued)
          /\ \A k \in DOMAIN accepted : issued[k] = accepted[k]
      BY <1>4 DEF OrderInv
    <2>2. \A k \in DOMAIN accepted : k \in 1..Len(issued)
      BY <1>3, <2>1
    <2>3. PICK g \in [Queued -> Waiting] : InOrder(g)
      BY <1>4 DEF OrderInv
    <2>4. Waiting' = Waiting \cup {m} /\ m \notin Waiting /\ \A w \in Waiting : w < m
      BY <1>3, <2>1 DEF Waiting
    <2>5. Waiting \subseteq 1..Len(issued)
      BY <1>3 DEF Waiting
    <2> HIDE DEF m
    <2>6. PICK h \in [Queued' -> Waiting'] :
               h = [k \in Queued' |-> IF k = n THEN m ELSE g[k]]
      <3>1. [k \in Queued' |-> IF k = n THEN m ELSE g[k]] \in [Queued' -> Waiting']
        BY <1>1, <1>2, <2>4
      <3> QED BY <3>1
    <2>7. h[n] = m /\ \A k \in Queued : h[k] = g[k] /\ g[k] \in Waiting
      BY <1>1, <1>2, <2>6
    <2>8. \A w \in Waiting' : \E k \in Queued' : h[k] = w
      BY <1>1, <2>3, <2>4, <2>7 DEF InOrder
    <2>9. \A j, k \in Queued' : j < k => h[j] < h[k]
      <3> SUFFICES ASSUME NEW j \in Queued', NEW k \in Queued', j < k
                   PROVE  h[j] < h[k]
        OBVIOUS
      <3>1. j # n
        BY <1>1, <1>2
      <3>2. CASE k = n
        BY <1>1, <2>4, <2>7, <3>1, <3>2
      <3>3. CASE k # n
        BY <1>1, <2>3, <2>7, <3>1, <3>3 DEF InOrder
      <3> QED BY <3>2, <3>3
    <2>10. \A k \in Queued' : issued'[h[k]] = toHost'[k].id
      <3>1. issued'[h[n]] = toHost'[n].id
        BY <1>1, <1>3, <2>7
      <3>2. \A k \in Queued : issued'[h[k]] = toHost'[k].id
        BY <1>1, <1>3, <2>3, <2>5, <2>7 DEF InOrder
      <3> QED BY <1>1, <3>1, <3>2
    <2>11. InOrder(h)'
      BY <2>6, <2>8, <2>9, <2>10 DEF InOrder
    <2> QED BY <1>3, <2>1, <2>2, <2>6, <2>11 DEF m
  <1> QED BY <1>3, <1>4 DEF OrderInv

(* The first waiting request is the first one not yet received.            *)
LEMMA FirstWaiting ==
  ASSUME CxInv, OrderInv, Len(accepted) <= Len(issued), 1 \in Queued,
         NEW g \in [Queued -> Waiting], InOrder(g)
  PROVE  /\ g[1] = Len(accepted) + 1 /\ Len(accepted) < Len(issued)
         /\ issued[Len(accepted) + 1] = toHost[1].id
  <1> DEFINE m == Len(accepted) + 1
  <1>1. Len(issued) \in Nat /\ Len(accepted) \in Nat
    BY DEF OrderInv
  <1>2. Queued \subseteq 1..Len(toHost) /\ Len(toHost) \in Nat
    BY DEF Queued, CxInv, ChannelInv
  <1>3. g[1] \in Waiting /\ issued[g[1]] = toHost[1].id
    BY DEF InOrder
  <1>4. \A w \in Waiting : w \in Nat /\ m <= w /\ w <= Len(issued)
    BY <1>1 DEF Waiting
  <1>5. m <= Len(issued) /\ m \in Waiting
    BY <1>1, <1>3, <1>4 DEF Waiting
  <1>6. g[1] = m
    <2>1. PICK k \in Queued : g[k] = m
      BY <1>5 DEF InOrder
    <2>2. 1 < k => g[1] < g[k]
      BY <2>1 DEF InOrder
    <2>3. k \in Nat /\ k >= 1
      BY <1>2
    <2>4. ~(g[1] < m)
      BY <1>1, <1>3, <1>4
    <2> QED BY <2>1, <2>2, <2>3, <2>4
  <1> QED BY <1>1, <1>3, <1>5, <1>6

(* The first packet leaves the queue: a request that is received, or an    *)
(* acknowledgment.                                                         *)
LEMMA OrderDequeued ==
  ASSUME CxInv, OrderInv, ~failed, Dequeue, UNCHANGED <<mode, failed, issued>>,
         \/ ~Asked(Head(toHost)) /\ UNCHANGED <<received, seen, accepted>>
         \/ Asked(Head(toHost)) /\ Admit(Head(toHost).id)
  PROVE  OrderInv'
  <1> DEFINE n == Len(toHost)
  <1>1. /\ Queued \subseteq 1..n /\ n \in Nat \ {0} /\ Head(toHost) = toHost[1]
        /\ \A k \in 1..(n - 1) : toHost'[k] = toHost[k + 1]
        /\ Queued' = {k \in 1..(n - 1) : k + 1 \in Queued}
        /\ 1 \in Queued <=> Asked(Head(toHost))
    BY QueuedDequeue DEF CxInv
  <1> HIDE DEF n
  <1>2. PICK g \in [Queued -> Waiting] : InOrder(g)
    BY DEF OrderInv
  <1>3. /\ issued \in Seq(Ids) /\ accepted \in Seq(Ids)
        /\ Len(issued) \in Nat /\ Len(accepted) \in Nat /\ Len(accepted) <= Len(issued)
        /\ \A k \in DOMAIN accepted : issued[k] = accepted[k]
    BY DEF OrderInv
  <1>4. \A k \in Queued' : k + 1 \in Queued
    BY <1>1
  <1>5. ASSUME NEW h \in [Queued' -> Waiting'], h = [k \in Queued' |-> g[k + 1]],
               Waiting' \subseteq Waiting, 1 \in Queued => g[1] \notin Waiting'
        PROVE  InOrder(h)'
    <2>1. \A k \in Queued' : h[k] = g[k + 1] /\ toHost'[k] = toHost[k + 1]
      BY <1>1, <1>5
    <2>2. ASSUME NEW w \in Waiting'
          PROVE  \E k \in Queued' : h[k] = w
      <3>1. PICK k \in Queued : g[k] = w
        BY <1>2, <1>5 DEF InOrder
      <3>2. k # 1
        BY <1>5, <3>1
      <3>3. k - 1 \in 1..(n - 1) /\ (k - 1) + 1 = k
        BY <1>1, <3>2
      <3>4. k - 1 \in Queued'
        BY <1>1, <3>3
      <3> QED BY <2>1, <3>1, <3>3, <3>4
    <2>3. ASSUME NEW j \in Queued', NEW k \in Queued', j < k
          PROVE  h[j] < h[k]
      <3>1. j + 1 < k + 1
        BY <1>1, <2>3
      <3> QED BY <1>2, <1>4, <2>1, <3>1 DEF InOrder
    <2>4. \A k \in Queued' : issued'[h[k]] = toHost'[k].id
      BY <1>2, <1>4, <2>1 DEF InOrder
    <2> QED BY <2>2, <2>3, <2>4 DEF InOrder
  <1>6. CASE ~Asked(Head(toHost)) /\ UNCHANGED <<received, seen, accepted>>
    <2>1. Waiting' = Waiting /\ 1 \notin Queued
      BY <1>1, <1>6 DEF Waiting
    <2>2. PICK h \in [Queued' -> Waiting'] : h = [k \in Queued' |-> g[k + 1]]
      <3>1. [k \in Queued' |-> g[k + 1]] \in [Queued' -> Waiting']
        BY <1>4, <2>1
      <3> QED BY <3>1
    <2>3. InOrder(h)'
      BY <1>5, <2>1, <2>2
    <2> QED BY <1>3, <1>6, <2>3 DEF OrderInv
  <1>7. CASE Asked(Head(toHost)) /\ Admit(Head(toHost).id)
    <2> DEFINE i == Head(toHost).id
               m == Len(accepted) + 1
    <2>1. 1 \in Queued
      BY <1>1, <1>7
    <2>2. g[1] = m /\ Len(accepted) < Len(issued) /\ issued[m] = i
      BY <1>1, <1>2, <1>3, <2>1, FirstWaiting
    <2>3. m <= Len(issued) /\ m \in 1..Len(issued)
      BY <1>3, <2>2
    <2>5. i \in Ids /\ issued[m] = i
      <3>1. issued[m] \in Ids
        BY <1>3, <2>3
      <3> QED BY <2>2, <3>1
    <2>6. /\ accepted' = Append(accepted, i) /\ received' = received + 1
          /\ seen' = seen \cup {i}
      BY <1>7 DEF Admit
    <2> HIDE DEF i
    <2>7. /\ accepted' \in Seq(Ids) /\ Len(accepted') = m
          /\ DOMAIN accepted' = (DOMAIN accepted) \cup {m} /\ accepted'[m] = i
          /\ \A k \in DOMAIN accepted : accepted'[k] = accepted[k]
      BY <1>3, <2>5, <2>6
    <2>8. seen' = {accepted'[k] : k \in DOMAIN accepted'}
      BY <2>6, <2>7 DEF OrderInv
    <2>9. Waiting' = Waiting \ {m}
      BY <1>3, <2>7 DEF Waiting
    <2>10. \A k \in Queued' : g[k + 1] # m
      <3> SUFFICES ASSUME NEW k \in Queued' PROVE g[k + 1] # m
        OBVIOUS
      <3>1. k + 1 \in Queued /\ 1 < k + 1
        BY <1>1
      <3>2. g[1] < g[k + 1]
        BY <1>2, <2>1, <3>1 DEF InOrder
      <3> QED BY <1>3, <2>2, <3>2
    <2>11. PICK h \in [Queued' -> Waiting'] : h = [k \in Queued' |-> g[k + 1]]
      <3>1. [k \in Queued' |-> g[k + 1]] \in [Queued' -> Waiting']
        BY <1>4, <2>9, <2>10
      <3> QED BY <3>1
    <2>12. InOrder(h)'
      BY <1>5, <2>2, <2>9, <2>11
    <2>13. \A k \in DOMAIN accepted' : issued'[k] = accepted'[k]
      BY <1>3, <2>5, <2>7
    <2>14. Len(accepted') = received'
      BY <2>6, <2>7 DEF OrderInv
    <2> HIDE DEF m
    <2> QED BY <1>3, <2>3, <2>7, <2>8, <2>12, <2>13, <2>14 DEF OrderInv
  <1> QED BY <1>6, <1>7

-----------------------------------------------------------------------------
OneInv == CxInv /\ OnceInv /\ OrderInv

LEMMA OneInit == CxInit => OneInv
  <1> SUFFICES ASSUME CxInit PROVE OneInv
    OBVIOUS
  <1>1. /\ toHost = <<>> /\ toTarget = <<>> /\ got = {} /\ issued = <<>>
        /\ seen = {} /\ pending = {} /\ accepted = <<>> /\ received = 0
    BY DEF CxInit, PrepareCorrelated, PrepareAuthenticated, PrepareAcknowledged, ControllerInit,
           TargetInit
  <1>2. OnceInv
    <2>1. DOMAIN toTarget = {} /\ seen \ pending = {} /\ IsFiniteSet(got)
      BY <1>1, FS_EmptySet
    <2> QED BY <1>1, <2>1 DEF OnceInv, SentOn, ReadOf
  <1>3. OrderInv
    <2>1. Queued = {} /\ Waiting = {}
      BY <1>1 DEF Queued, Waiting
    <2>2. [k \in {} |-> k] \in [Queued -> Waiting]
      BY <2>1
    <2>3. InOrder([k \in {} |-> k])
      BY <2>1, <2>2 DEF InOrder
    <2>4. seen = {accepted[n] : n \in DOMAIN accepted}
      BY <1>1
    <2>5. \E f \in [Queued -> Waiting] : InOrder(f)
      BY <2>2, <2>3
    <2>6. /\ accepted \in Seq(Ids) /\ issued \in Seq(Ids) /\ DOMAIN accepted = {}
          /\ Len(accepted) = received /\ Len(accepted) <= Len(issued)
      BY <1>1
    <2> QED BY <2>4, <2>5, <2>6 DEF OrderInv
  <1> QED BY <1>2, <1>3, CxInitInv DEF OneInv

(* What the target does, in the terms of these invariants.                 *)
LEMMA AskEffect ==
  ASSUME NEW i \in Ids, Ask(i)
  PROVE  /\ Put(Signed(Fresh, "Q", i, "none")) /\ issued' = Append(issued, i)
         /\ UNCHANGED <<mode, conduct, toTarget, faults, failed, challenged, seen, pending,
                        received, completed, awaiting, accepted, peer, knows, got, owes>>
  BY DEF Ask, ctlVars

LEMMA AcknowledgeEffect ==
  ASSUME NEW r \in owes, Acknowledge(r)
  PROVE  /\ Put(Signed(Fresh, "A", r.id, r.body)) /\ owes' = owes \ {r}
         /\ UNCHANGED <<mode, conduct, toTarget, faults, failed, challenged, seen, pending,
                        received, completed, awaiting, accepted, peer, issued, knows, got>>
  BY DEF Acknowledge, ctlVars

LEMMA ReadEffect ==
  ASSUME Read
  PROVE  UNCHANGED <<mode, conduct, toHost, faults, failed, challenged, seen, pending, received,
                     completed, awaiting, accepted, peer, issued>>
  BY DEF Read, ctlVars

LEMMA MisbehaveEffect ==
  ASSUME Misbehave
  PROVE  /\ \E f \in Stray : Put(f)
         /\ conduct = "any"
         /\ UNCHANGED <<mode, conduct, toTarget, failed, seen, pending, received, accepted, peer,
                        issued, got>>
  BY DEF Misbehave, ctlVars

LEMMA ShutEffect ==
  ASSUME Shut
  PROVE  /\ toTarget' = <<>> /\ peer' = "shut" /\ conduct = "any"
         /\ UNCHANGED <<mode, conduct, toHost, failed, seen, pending, received, accepted, issued,
                        got>>
  BY DEF Shut, ctlVars

LEMMA OneStep == OneInv /\ [CxNext]_cxVars => OneInv'
  <1> SUFFICES ASSUME CxInv, OnceInv, OrderInv, [CxNext]_cxVars PROVE OnceInv' /\ OrderInv'
    BY CxNextInv DEF OneInv
  <1>1. CASE Receive
    <2>1. UNCHANGED <<mode, toTarget, peer, issued, got>> /\ ~failed
      BY <1>1, ReceiveEffect
    <2>2. CASE Fail
      <3>1. UNCHANGED <<seen, pending>>
        BY <2>2 DEF Fail
      <3> QED BY <2>1, <2>2, <3>1, OnceKept, OrderFailed
    <2>3. CASE Dequeue /\ Asked(Head(toHost)) /\ Head(toHost).id \notin seen
               /\ Admit(Head(toHost).id)
      <3>1. seen' \ pending' = seen \ pending /\ UNCHANGED failed
        BY <2>3 DEF Admit, CxInv, CounterInv, CxTypeOK
      <3> QED BY <2>1, <2>3, <3>1, OnceKept, OrderDequeued
    <2> QED BY <1>1, <2>2, <2>3, ReceiveEffect
  <1>2. CASE ReceiveAcknowledgment
    <2>1. UNCHANGED <<mode, toTarget, peer, issued, got>> /\ ~failed
      BY <1>2, AcknowledgmentEffect
    <2>2. CASE Fail
      <3>1. UNCHANGED <<seen, pending>>
        BY <2>2 DEF Fail
      <3> QED BY <2>1, <2>2, <3>1, OnceKept, OrderFailed
    <2>3. CASE Dequeue /\ Expected(Head(toHost))
               /\ UNCHANGED <<failed, seen, pending, received, accepted>>
      <3>1. ~Asked(Head(toHost))
        BY <2>3 DEF Expected, Asked
      <3> QED BY <2>1, <2>3, <3>1, OnceKept, OrderDequeued
    <2> QED BY <1>2, <2>2, <2>3, AcknowledgmentEffect
  <1>3. CASE PublishChallenge
    <2>1. UNCHANGED <<mode, toHost, peer, issued, got>>
      BY <1>3, ChallengeEffect
    <2>2. CASE Fail /\ UNCHANGED toTarget
      <3>1. UNCHANGED <<seen, pending>>
        BY <2>2 DEF Fail
      <3> QED BY <2>1, <2>2, <3>1, OnceKept, OrderFailed
    <2>3. CASE /\ toTarget' = Append(toTarget, Frame("C", "none", Fresh, NoTag))
               /\ UNCHANGED <<failed, seen, pending, received, accepted>>
      BY <2>1, <2>3, OnceChallenged, OrderKept
    <2> QED BY <1>3, <2>2, <2>3, ChallengeEffect
  <1>4. ASSUME NEW i \in Ids, NEW b \in Bodies, NEW s, Respond(i, b, s)
        PROVE  OnceInv' /\ OrderInv'
    <2>1. UNCHANGED <<mode, toHost, peer, issued, got>>
      BY <1>4, RespondEffect
    <2>2. CASE Fail /\ UNCHANGED toTarget
      <3>1. UNCHANGED <<seen, pending>>
        BY <2>2 DEF Fail
      <3> QED BY <2>1, <2>2, <3>1, OnceKept, OrderFailed
    <2>3. ASSUME i \in pending, NEW f \in Packets, f.kind = "S", f.id = i,
                 PublishResponse(i, f)
          PROVE  OnceInv' /\ OrderInv'
      <3>1. UNCHANGED <<failed, seen, received, accepted>>
        BY <2>3 DEF PublishResponse
      <3> QED BY <2>1, <2>3, <3>1, OncePublished, OrderKept
    <2> QED BY <1>4, <2>2, <2>3, RespondEffect
  <1>5. ASSUME NEW i \in Ids, Ask(i)
        PROVE  OnceInv' /\ OrderInv'
    BY <1>5, AskEffect, RequestIsPacket, OnceKept, OrderAsked
  <1>6. CASE Read
    BY <1>6, ReadEffect, OnceRead, OrderKept
  <1>7. CASE Misbehave
    <2>1. PICK f \in Stray : Put(f)
      BY <1>7, MisbehaveEffect
    <2>2. f \in Packets /\ ~Asked(f)
      BY <2>1, StrayIsPacket
    <2> QED BY <1>7, <2>1, <2>2, MisbehaveEffect, OnceKept, OrderStray
  <1>8. CASE Shut
    <2>1. DOMAIN toTarget' = {}
      BY <1>8, ShutEffect
    <2>2. OnceInv'
      BY <1>8, <2>1, ShutEffect DEF OnceInv
    <2> QED BY <1>8, <2>2, ShutEffect, OrderKept
  <1>9. ASSUME NEW r \in owes, Acknowledge(r)
        PROVE  OnceInv' /\ OrderInv'
    <2> DEFINE f == Signed(Fresh, "A", r.id, r.body)
    <2>1. f \in Packets /\ ~Asked(f)
      BY AcknowledgmentIsPacket DEF Asked
    <2> QED BY <1>9, <2>1, AcknowledgeEffect, OnceKept, OrderStray
  <1>10. CASE UNCHANGED cxVars
    <2>1. UNCHANGED <<mode, toHost, toTarget, failed, seen, pending, received, accepted, peer,
                      issued, got>>
      BY <1>10 DEF cxVars, ctlVars, targetVars
    <2> QED BY <2>1, OnceKept, OrderKept
  <1> QED
    BY <1>1, <1>2, <1>3, <1>4, <1>5, <1>6, <1>7, <1>8, <1>9, <1>10
    DEF CxNext, HostNext, TargetNext

(* The two counts of the property follow from the two invariants.          *)
LEMMA OneResponse ==
  ASSUME OnceInv, peer = "open", NEW i \in Ids
  PROVE  Responses(i) = IF i \in seen \ pending THEN 1 ELSE 0
  <1>1. Responses(i) = Cardinality(SentOn(i)) + Cardinality(ReadOf(i))
    BY DEF Responses, SentOn, ReadOf
  <1>2. Cardinality({}) = 0
    BY FS_EmptySet
  <1>3. \A e : Cardinality({e}) = 1
    BY FS_Singleton
  <1>4. CASE i \in seen \ pending
    <2>1. AnsweredOnce(i)
      BY <1>4 DEF OnceInv
    <2>2. \/ Cardinality(SentOn(i)) = 1 /\ Cardinality(ReadOf(i)) = 0
          \/ Cardinality(SentOn(i)) = 0 /\ Cardinality(ReadOf(i)) = 1
      BY <1>2, <1>3, <2>1 DEF AnsweredOnce
    <2> QED BY <1>1, <1>4, <2>2
  <1>5. CASE ~(i \in seen \ pending)
    <2>1. Cardinality(SentOn(i)) = 0 /\ Cardinality(ReadOf(i)) = 0
      BY <1>2, <1>5 DEF OnceInv
    <2> QED BY <1>1, <1>5, <2>1
  <1> QED BY <1>4, <1>5

LEMMA RequestsInOrder ==
  ASSUME OneInv, ~failed
  PROVE  /\ Len(issued) = Len(accepted) + Cardinality(Queued)
         /\ \A n \in DOMAIN accepted : issued[n] = accepted[n]
         /\ \A k \in Queued :
              issued[Len(accepted) + Cardinality({j \in Queued : j <= k})] = toHost[k].id
  <1> DEFINE a == Len(accepted)
             Upto(k) == {j \in Queued : j <= k}
  <1>1. /\ a \in Nat /\ Len(issued) \in Nat /\ a <= Len(issued)
        /\ \A n \in DOMAIN accepted : issued[n] = accepted[n]
    BY DEF OneInv, OrderInv
  <1>2. PICK g \in [Queued -> Waiting] : InOrder(g)
    BY DEF OneInv, OrderInv
  <1>3. Queued \subseteq 1..Len(toHost) /\ Len(toHost) \in Nat
    BY DEF Queued, OneInv, CxInv, ChannelInv
  <1>4. \A k \in Queued : k \in Nat /\ g[k] \in Waiting
    BY <1>3
  <1>5. \A w \in Waiting : w \in Int /\ a + 1 <= w /\ w <= Len(issued)
    BY <1>1 DEF Waiting
  <1>6. \A w : w \in Waiting <=> w \in Int /\ a + 1 <= w /\ w <= Len(issued)
    BY <1>1 DEF Waiting
  <1> HIDE DEF a
  <1>7. ASSUME NEW top \in Int, a <= top, top <= Len(issued),
               NEW P, P = {j \in Queued : g[j] <= top}
        PROVE  Cardinality(P) = top - a
    <2> DEFINE h == [j \in P |-> g[j]]
    <2>1. h \in [P -> (a + 1)..top]
      BY <1>1, <1>4, <1>5, <1>7
    <2>2. \A j, k \in P : j # k => h[j] # h[k]
      <3> SUFFICES ASSUME NEW j \in P, NEW k \in P, j # k, g[j] = g[k] PROVE FALSE
        OBVIOUS
      <3>1. j \in Queued /\ k \in Queued
        BY <1>7
      <3>2. j < k \/ k < j
        BY <1>4, <3>1
      <3>3. g[j] < g[k] \/ g[k] < g[j]
        BY <1>2, <3>1, <3>2 DEF InOrder
      <3> QED BY <1>4, <1>5, <3>1, <3>3
    <2>3. \A w \in (a + 1)..top : \E j \in P : h[j] = w
      <3> SUFFICES ASSUME NEW w \in (a + 1)..top PROVE \E j \in P : g[j] = w
        OBVIOUS
      <3>1. w \in Waiting /\ w <= top
        BY <1>1, <1>6, <1>7
      <3>2. PICK j \in Queued : g[j] = w
        BY <1>2, <3>1 DEF InOrder
      <3> QED BY <1>7, <3>1, <3>2
    <2> HIDE DEF h
    <2>4. h \in Bijection(P, (a + 1)..top)
      BY <2>1, <2>2, <2>3 DEF Bijection, Injection, Surjection, IsInjective
    <2>5. /\ IsFiniteSet((a + 1)..top)
          /\ Cardinality((a + 1)..top) = top - a
      <3>1. a + 1 \in Int /\ top \in Int
        BY <1>1
      <3>2. /\ IsFiniteSet((a + 1)..top)
            /\ Cardinality((a + 1)..top) = IF a + 1 > top THEN 0 ELSE top - (a + 1) + 1
        BY <3>1, FS_Interval
      <3> QED BY <1>1, <1>7, <3>2
    <2>6. ExistsBijection(P, (a + 1)..top)
      BY <2>4 DEF ExistsBijection
    <2>7. P \subseteq 1..Len(toHost)
      BY <1>3, <1>7
    <2>8. IsFiniteSet(1..Len(toHost))
      BY <1>3, FS_Interval
    <2>9. IsFiniteSet(P)
      BY <2>7, <2>8, FS_Subset
    <2> QED BY <2>5, <2>6, <2>9, FS_Bijection
  <1>8. Len(issued) = a + Cardinality(Queued)
    <2>1. Queued = {j \in Queued : g[j] <= Len(issued)}
      BY <1>4, <1>5
    <2>2. Cardinality(Queued) = Len(issued) - a
      BY <1>1, <1>7, <2>1
    <2> QED BY <1>1, <2>2
  <1>9. ASSUME NEW k \in Queued
        PROVE  issued[a + Cardinality(Upto(k))] = toHost[k].id
    <2>1. Upto(k) = {j \in Queued : g[j] <= g[k]}
      <3> SUFFICES ASSUME NEW j \in Queued PROVE j <= k <=> g[j] <= g[k]
        OBVIOUS
      <3>1. /\ j < k => g[j] < g[k]
            /\ k < j => g[k] < g[j]
        BY <1>2 DEF InOrder
      <3>2. j \in Nat /\ k \in Nat /\ g[j] \in Int /\ g[k] \in Int
        BY <1>4, <1>5
      <3>3. j < k \/ k < j \/ j = k
        BY <3>2
      <3> QED BY <3>1, <3>2, <3>3
    <2> HIDE DEF Upto
    <2>2. g[k] \in Int /\ a <= g[k] /\ g[k] <= Len(issued)
      BY <1>1, <1>4, <1>5
    <2>3. Cardinality(Upto(k)) = g[k] - a
      BY <1>7, <2>1, <2>2
    <2>4. a + Cardinality(Upto(k)) = g[k]
      BY <1>1, <2>2, <2>3
    <2> QED BY <1>2, <2>4 DEF InOrder
  <1> QED BY <1>1, <1>8, <1>9 DEF a

(* Every request is answered at most once and in any order, and requests   *)
(* are received once and in the order in which they were asked, whatever   *)
(* the application and the target do and whichever calls fail              *)
(* (receive_request, send_response of the three controllers).              *)
THEOREM EachRequestOnce == CxSpec => []ExactlyOnce
  <1>1. OneInv => ExactlyOnce
    BY OneResponse, RequestsInOrder DEF OneInv, ExactlyOnce
  <1> QED BY <1>1, OneInit, OneStep, PTL DEF CxSpec

-----------------------------------------------------------------------------
(* Conforming ends and no failing call.                                    *)
Quiet == conduct = "conforming" /\ faults = 0

(* Nothing was asked before the challenge was read, and from then on the   *)
(* target's queue holds responses only.                                    *)
Opened == mode = "plain" \/ knows

StartInv ==
  /\ ~Opened => /\ issued = <<>> /\ got = {}
                /\ \A k \in DOMAIN toTarget : toTarget[k].kind = "C"
                /\ Len(toTarget) = (IF challenged THEN 1 ELSE 0)
  /\ knows => challenged
  /\ Opened => /\ \A k \in DOMAIN toTarget : toTarget[k].kind = "S" /\ toTarget[k].id \in Ids
               /\ completed = Cardinality(got) + Len(toTarget)

(* The target asks for each identifier once and keeps within the ceilings. *)
LoadInv ==
  /\ \A j, k \in DOMAIN issued : issued[j] = issued[k] => j = k
  /\ Len(issued) <= Cardinality(got) + (IF mode = "acked" THEN 1 ELSE MaxInFlight)

(* Requests from a position of the queue on.                               *)
AllAsked(first) == \A k \in DOMAIN toHost : k >= first => Asked(toHost[k])

(* Where the response behind the barrier is: not published, queued, read,  *)
(* or acknowledged, the acknowledgment being first in the queue.           *)
NoBarrier == awaiting = NoAck /\ owes = {} /\ AllAsked(1)

InQueue ==
  /\ owes = {} /\ toHost = <<>> /\ Len(toTarget) = 1
  /\ [id |-> toTarget[1].id, body |-> toTarget[1].body] = awaiting

IsRead == owes = {awaiting} /\ toHost = <<>> /\ toTarget = <<>>

IsAcked ==
  owes = {} /\ toTarget = <<>> /\ toHost # <<>> /\ Expected(toHost[1]) /\ AllAsked(2)

BarrierInv ==
  \/ mode # "acked" /\ NoBarrier
  \/ mode = "acked" /\ NoBarrier /\ (knows => toTarget = <<>>)
  \/ mode = "acked" /\ awaiting # NoAck /\ knows /\ (InQueue \/ IsRead \/ IsAcked)

Conforming == failed = FALSE /\ peer = "open" /\ StartInv /\ LoadInv /\ BarrierInv

QuietInv == faults \in Nat /\ (Quiet => Conforming)

(* The accounts of an exchange: what was asked and not yet read by the     *)
(* target is queued, pending or on its way back.                           *)
LEMMA Accounts ==
  ASSUME OneInv, ~failed, StartInv
  PROVE  /\ Len(issued) \in Nat /\ Len(accepted) \in Nat /\ Len(accepted) <= Len(issued)
         /\ Cardinality(got) \in Nat /\ Len(toTarget) \in Nat
         /\ Cardinality(pending) \in Nat /\ (pending # {} => Cardinality(pending) >= 1)
         /\ completed \in Nat /\ Len(accepted) = Cardinality(pending) + completed
         /\ Opened => Len(accepted) = Cardinality(pending) + Cardinality(got) + Len(toTarget)
         /\ ~Opened => Len(accepted) = 0 /\ pending = {} /\ completed = 0
  <1>1. /\ pending \subseteq seen /\ IsFiniteSet(seen) /\ received = Cardinality(seen)
        /\ completed = Cardinality(seen \ pending)
    BY DEF OneInv, CxInv, CounterInv, CxTypeOK
  <1>2. IsFiniteSet(pending) /\ seen \cap pending = pending
    BY <1>1, FS_Subset
  <1>3. Cardinality(seen \ pending) = Cardinality(seen) - Cardinality(pending)
        /\ IsFiniteSet(seen \ pending)
    BY <1>1, <1>2, FS_Difference
  <1>4. /\ Cardinality(seen) \in Nat /\ Cardinality(pending) \in Nat
        /\ Cardinality(seen \ pending) \in Nat
    BY <1>1, <1>2, <1>3, FS_CardinalityType
  <1>5. pending # {} => Cardinality(pending) >= 1
    <2>1. pending # {} => Cardinality(pending) # 0
      BY <1>2, FS_EmptySet
    <2> QED BY <1>4, <2>1
  <1>6. Cardinality(got) \in Nat
    BY FS_CardinalityType DEF OneInv, OnceInv
  <1>7. /\ Len(issued) \in Nat /\ Len(accepted) \in Nat /\ Len(accepted) <= Len(issued)
        /\ Len(accepted) = received
    BY DEF OneInv, OrderInv
  <1>8. Len(toTarget) \in Nat
    BY DEF OneInv, CxInv, ChannelInv
  <1>9. Len(accepted) = Cardinality(pending) + completed
    BY <1>1, <1>3, <1>4, <1>7
  <1>10. Opened => completed = Cardinality(got) + Len(toTarget)
    BY DEF StartInv
  <1>11. ~Opened => Len(accepted) = 0
    <2>1. ~Opened => Len(issued) = 0
      BY DEF StartInv
    <2> QED BY <1>7, <2>1
  <1>12. ~Opened => Cardinality(pending) = 0 /\ completed = 0
    BY <1>1, <1>4, <1>9, <1>11
  <1>13. ~Opened => pending = {}
    BY <1>2, <1>12, FS_EmptySet
  <1>14. completed \in Nat
    BY <1>1, <1>4
  <1>15. Opened => Len(accepted) = Cardinality(pending) + Cardinality(got) + Len(toTarget)
    BY <1>4, <1>6, <1>8, <1>9, <1>10
  <1> HIDE DEF Opened
  <1> QED
    BY <1>4, <1>5, <1>6, <1>7, <1>8, <1>9, <1>11, <1>12, <1>13, <1>14, <1>15

(* A request at the head of the queue has not been received before.        *)
LEMMA HeadIsNew ==
  ASSUME OneInv, ~failed, LoadInv, toHost # <<>>, Asked(toHost[1])
  PROVE  Len(accepted) < Len(issued) /\ toHost[1].id \notin seen
  <1>1. 1 \in Queued
    BY DEF Queued, OneInv, CxInv, ChannelInv
  <1>2. PICK g \in [Queued -> Waiting] : InOrder(g)
    BY DEF OneInv, OrderInv
  <1>3. /\ Len(accepted) <= Len(issued) /\ Len(accepted) \in Nat /\ Len(issued) \in Nat
        /\ issued \in Seq(Ids) /\ accepted \in Seq(Ids)
        /\ seen = {accepted[n] : n \in DOMAIN accepted}
        /\ \A n \in DOMAIN accepted : issued[n] = accepted[n]
    BY DEF OneInv, OrderInv
  <1>4. Len(accepted) < Len(issued) /\ issued[Len(accepted) + 1] = toHost[1].id
    BY <1>1, <1>2, <1>3, FirstWaiting DEF OneInv
  <1>5. ASSUME toHost[1].id \in seen PROVE FALSE
    <2>1. PICK n \in DOMAIN accepted : accepted[n] = toHost[1].id
      BY <1>3, <1>5
    <2>2. issued[n] = issued[Len(accepted) + 1]
      BY <1>3, <1>4, <2>1
    <2>3. /\ n \in DOMAIN issued /\ Len(accepted) + 1 \in DOMAIN issued
          /\ n # Len(accepted) + 1
      BY <1>3, <1>4
    <2> QED BY <2>2, <2>3 DEF LoadInv
  <1> QED BY <1>4, <1>5

(* Requests after a packet has left or joined the queue.                   *)
LEMMA AskedDequeue ==
  ASSUME ChannelInv, Dequeue, UNCHANGED mode
  PROVE  /\ AllAsked(1) => AllAsked(1)'
         /\ AllAsked(2) => AllAsked(1)'
         /\ AllAsked(1) => Asked(Head(toHost))
  <1>1. /\ Len(toHost) \in Nat \ {0} /\ Head(toHost) = toHost[1]
        /\ DOMAIN toHost' = 1..(Len(toHost) - 1)
        /\ \A k \in 1..(Len(toHost) - 1) : toHost'[k] = toHost[k + 1]
    BY QueuedDequeue
  <1>2. \A k \in 1..(Len(toHost) - 1) : k + 1 \in 1..Len(toHost) /\ k + 1 >= 2 /\ k + 1 >= 1
    BY <1>1
  <1>3. DOMAIN toHost = 1..Len(toHost) /\ 1 \in DOMAIN toHost /\ 1 >= 1
    BY <1>1 DEF ChannelInv
  <1>4. AllAsked(2) => AllAsked(1)'
    BY <1>1, <1>2, <1>3 DEF AllAsked, Asked, Authenticated, AuthVerify
  <1>5. AllAsked(1) => AllAsked(2)
    BY <1>3 DEF AllAsked
  <1> QED BY <1>1, <1>3, <1>4, <1>5 DEF AllAsked

LEMMA AskedPut ==
  ASSUME ChannelInv, NEW f \in Packets, Put(f), UNCHANGED mode, Asked(f), NEW n \in {1, 2},
         AllAsked(n)
  PROVE  AllAsked(n)'
  <1>1. /\ DOMAIN toHost' = 1..(Len(toHost) + 1) /\ toHost'[Len(toHost) + 1] = f
        /\ \A k \in 1..Len(toHost) : toHost'[k] = toHost[k]
        /\ Len(toHost) \in Nat
    BY QueuedPut
  <1>2. DOMAIN toHost = 1..Len(toHost)
    BY DEF ChannelInv
  <1>3. \A k \in DOMAIN toHost' : k \in 1..Len(toHost) \/ k = Len(toHost) + 1
    BY <1>1
  <1> QED BY <1>1, <1>2, <1>3 DEF AllAsked, Asked, Authenticated, AuthVerify

-----------------------------------------------------------------------------
(* receive_request: the first packet is a new request.                     *)
LEMMA QuietReceive ==
  ASSUME OneInv, Quiet, Quiet', Conforming, Receive
  PROVE  Conforming'
  <1> USE DEF OneInv
  <1>1. /\ UNCHANGED <<mode, conduct, toTarget, peer, issued, knows, got, owes>>
        /\ ~failed /\ awaiting = NoAck /\ peer = "open"
    BY ReceiveEffect DEF Conforming
  <1>2. NoBarrier /\ (mode = "acked" => (knows => toTarget = <<>>))
    BY <1>1 DEF Conforming, BarrierInv
  <1>3. ~NoPacket
    BY <1>1 DEF NoPacket, SysCallFails, Quiet
  <1>4. ASSUME Dequeue
        PROVE  Asked(Head(toHost)) /\ Head(toHost).id \notin seen
    <2>1. Asked(Head(toHost))
      BY <1>1, <1>2, <1>4, AskedDequeue DEF CxInv, NoBarrier
    <2>2. toHost # <<>> /\ Head(toHost) = toHost[1]
      BY <1>1, <1>4, QueuedDequeue DEF CxInv, Dequeue
    <2> QED BY <1>1, <2>1, <2>2, HeadIsNew DEF Conforming
  <1>5. Dequeue /\ Admit(Head(toHost).id)
    BY <1>3, <1>4, ReceiveEffect
  <1>6. UNCHANGED <<failed, challenged, completed, awaiting>>
    BY <1>5 DEF Admit
  <1>7. StartInv'
    BY <1>1, <1>6 DEF Conforming, StartInv, Opened
  <1>8. LoadInv'
    BY <1>1 DEF Conforming, LoadInv
  <1>9. NoBarrier'
    BY <1>1, <1>2, <1>5, <1>6, AskedDequeue DEF CxInv, NoBarrier
  <1>10. BarrierInv'
    BY <1>1, <1>2, <1>9 DEF BarrierInv
  <1> QED BY <1>1, <1>6, <1>7, <1>8, <1>10 DEF Conforming

(* receive_acknowledgment: the first packet is the one waited for.         *)
LEMMA QuietAcknowledgment ==
  ASSUME OneInv, Quiet, Quiet', Conforming, ReceiveAcknowledgment
  PROVE  Conforming'
  <1> USE DEF OneInv
  <1>1. /\ UNCHANGED <<mode, conduct, toTarget, peer, issued, knows, got, owes>>
        /\ ~failed /\ awaiting # NoAck /\ peer = "open" /\ mode = "acked"
    BY AcknowledgmentEffect DEF Conforming
  <1>2. ~NoPacket
    BY <1>1 DEF NoPacket, SysCallFails, Quiet
  <1>3. Dequeue
    BY <1>2, AcknowledgmentEffect
  <1>4. toHost # <<>> /\ Head(toHost) = toHost[1]
    BY <1>1, <1>3, QueuedDequeue DEF CxInv, Dequeue
  <1>5. IsAcked
    BY <1>1, <1>4 DEF Conforming, BarrierInv, NoBarrier, InQueue, IsRead
  <1>6. awaiting' = NoAck /\ UNCHANGED <<failed, challenged, completed>>
    BY <1>2, <1>4, <1>5, AcknowledgmentEffect DEF IsAcked
  <1>7. StartInv'
    BY <1>1, <1>6 DEF Conforming, StartInv, Opened
  <1>8. LoadInv'
    BY <1>1 DEF Conforming, LoadInv
  <1>9. BarrierInv'
    <2>1. AllAsked(1)'
      BY <1>1, <1>3, <1>5, AskedDequeue DEF CxInv, IsAcked
    <2>2. owes' = {} /\ toTarget' = <<>>
      BY <1>1, <1>5 DEF IsAcked
    <2>3. NoBarrier'
      BY <1>6, <2>1, <2>2 DEF NoBarrier
    <2> QED BY <1>1, <2>2, <2>3 DEF BarrierInv
  <1> QED BY <1>1, <1>6, <1>7, <1>8, <1>9 DEF Conforming

(* publish_challenge: the first packet to the target.                      *)
LEMMA QuietChallenge ==
  ASSUME OneInv, Quiet, Quiet', Conforming, PublishChallenge
  PROVE  Conforming'
  <1> USE DEF OneInv
  <1> DEFINE f == Frame("C", "none", Fresh, NoTag)
  <1>1. /\ UNCHANGED <<mode, conduct, toHost, peer, issued, knows, got, owes>>
        /\ ~failed /\ ~challenged /\ mode # "plain" /\ peer = "open"
    BY ChallengeEffect DEF Conforming
  <1>2. ~SysCallFails
    BY DEF SysCallFails, Quiet
  <1>3. /\ toTarget' = Append(toTarget, f) /\ challenged' = TRUE
        /\ UNCHANGED <<failed, seen, pending, completed, awaiting, accepted>>
    BY <1>1, <1>2, ChallengeEffect
  <1>4. ~knows /\ ~Opened /\ ~Opened'
    BY <1>1 DEF Conforming, StartInv, Opened
  <1>5. toTarget \in Seq(Packets) /\ Len(toTarget) = 0
    BY <1>1, <1>4 DEF CxInv, ChannelInv, Conforming, StartInv
  <1>6. f \in Packets /\ f.kind = "C"
    BY DEF Frame, Packets, Shapes, Names, Contents, Tags
  <1> HIDE DEF f
  <1>7. Len(toTarget') = 1 /\ DOMAIN toTarget' = {1} /\ toTarget'[1] = f
    BY <1>3, <1>5, <1>6
  <1>8. StartInv'
    <2>1. issued = <<>> /\ got = {}
      BY <1>4 DEF Conforming, StartInv
    <2> QED BY <1>1, <1>3, <1>4, <1>6, <1>7, <2>1 DEF StartInv
  <1>9. LoadInv'
    BY <1>1 DEF Conforming, LoadInv
  <1>10. BarrierInv'
    <2>1. NoBarrier
      BY <1>4 DEF Conforming, BarrierInv
    <2>2. NoBarrier'
      BY <1>1, <1>3, <2>1 DEF NoBarrier, AllAsked, Asked, Authenticated, AuthVerify
    <2> QED BY <1>1, <1>4, <2>2 DEF BarrierInv
  <1> QED BY <1>1, <1>3, <1>8, <1>9, <1>10 DEF Conforming

(* send_response: the queue has room for what is pending.                  *)
LEMMA QuietRespond ==
  ASSUME OneInv, Quiet, Quiet', Conforming, QueueLimit >= MaxInFlight,
         NEW i \in Ids, NEW b \in Bodies, NEW s, Respond(i, b, s)
  PROVE  Conforming'
  <1> USE DEF OneInv
  <1>1. /\ UNCHANGED <<mode, conduct, toHost, peer, issued, knows, got, owes>>
        /\ ~failed /\ awaiting = NoAck /\ peer = "open"
    BY RespondEffect DEF Conforming
  <1>2. StartInv /\ LoadInv
    BY DEF Conforming
  <1>3. ASSUME i \in pending
        PROVE  /\ Opened /\ Len(toTarget) < QueueLimit
               /\ Len(accepted) >= 1 + Cardinality(got) + Len(toTarget)
    <2>1. Opened
      BY <1>1, <1>2, <1>3, Accounts
    <2>2. /\ Len(issued) \in Nat /\ Len(accepted) \in Nat /\ Len(accepted) <= Len(issued)
          /\ Cardinality(got) \in Nat /\ Len(toTarget) \in Nat
          /\ Cardinality(pending) \in Nat /\ Cardinality(pending) >= 1
          /\ Len(accepted) = Cardinality(pending) + Cardinality(got) + Len(toTarget)
      BY <1>1, <1>2, <1>3, <2>1, Accounts
    <2>3. QueueLimit \in Nat /\ MaxInFlight \in Nat /\ MaxInFlight >= 2
      BY CxAssumption
    <2>4. Len(issued) <= Cardinality(got) + MaxInFlight
      <3>1. Len(issued) <= Cardinality(got) + (IF mode = "acked" THEN 1 ELSE MaxInFlight)
        BY <1>2 DEF LoadInv
      <3> QED BY <2>2, <2>3, <3>1
    <2>5. Len(accepted) >= 1 + Cardinality(got) + Len(toTarget)
      BY <2>2
    <2>6. Len(toTarget) < QueueLimit
      BY <2>2, <2>3, <2>4, <2>5
    <2> QED BY <2>1, <2>5, <2>6
  <1>4. ~SysCallFails
    BY DEF SysCallFails, Quiet
  <1>5. ~(i \in pending /\ Len(toTarget) >= QueueLimit)
    <2>1. QueueLimit \in Nat /\ Len(toTarget) \in Nat
      BY <1>1, <1>2, CxAssumption, Accounts
    <2> QED BY <1>3, <2>1
  <1>6. PICK f \in Packets :
          /\ i \in pending /\ f.kind = "S" /\ f.id = i /\ f.body = b /\ PublishResponse(i, f)
          /\ awaiting' = IF mode = "acked" THEN [id |-> i, body |-> b] ELSE NoAck
    BY <1>1, <1>4, <1>5, RespondEffect DEF Quiet
  <1>7. /\ toTarget' = Append(toTarget, f) /\ completed' = completed + 1
        /\ UNCHANGED <<failed, challenged>> /\ toTarget \in Seq(Packets)
    BY <1>6 DEF PublishResponse, CxInv, ChannelInv
  <1>8. Opened /\ Opened'
    BY <1>1, <1>3, <1>6 DEF Opened
  <1>9. /\ Len(toTarget') = Len(toTarget) + 1 /\ Len(toTarget) \in Nat
        /\ DOMAIN toTarget' = (DOMAIN toTarget) \cup {Len(toTarget) + 1}
        /\ toTarget'[Len(toTarget) + 1] = f
        /\ \A k \in DOMAIN toTarget : toTarget'[k] = toTarget[k]
    BY <1>7
  <1>10. StartInv'
    <2>1. \A k \in DOMAIN toTarget' : toTarget'[k].kind = "S" /\ toTarget'[k].id \in Ids
      BY <1>2, <1>6, <1>8, <1>9 DEF StartInv
    <2>2. completed = Cardinality(got) + Len(toTarget) /\ Cardinality(got) \in Nat
      BY <1>1, <1>2, <1>8, Accounts DEF StartInv
    <2>3. completed' = Cardinality(got') + Len(toTarget')
      BY <1>1, <1>7, <1>9, <2>2
    <2>4. knows' => challenged'
      BY <1>1, <1>2, <1>7 DEF StartInv
    <2> QED BY <1>8, <2>1, <2>3, <2>4 DEF StartInv
  <1>11. LoadInv'
    BY <1>1, <1>2 DEF LoadInv
  <1>12. NoBarrier /\ (mode = "acked" => (knows => toTarget = <<>>))
    BY <1>1 DEF Conforming, BarrierInv
  <1>13. CASE mode # "acked"
    <2>1. NoBarrier'
      BY <1>1, <1>6, <1>12, <1>13 DEF NoBarrier, AllAsked, Asked, Authenticated, AuthVerify
    <2>2. BarrierInv'
      BY <1>1, <1>13, <2>1 DEF BarrierInv
    <2> QED BY <1>1, <1>7, <1>10, <1>11, <2>2 DEF Conforming
  <1>14. CASE mode = "acked"
    <2>1. knows /\ toTarget = <<>>
      BY <1>8, <1>12, <1>14 DEF Opened
    <2>2. toHost = <<>>
      <3> SUFFICES ASSUME toHost # <<>> PROVE FALSE
        OBVIOUS
      <3>1. Asked(toHost[1])
        <4>1. 1 \in DOMAIN toHost
          BY DEF CxInv, ChannelInv
        <4> QED BY <1>12, <4>1 DEF NoBarrier, AllAsked
      <3>2. Len(accepted) < Len(issued)
        BY <1>1, <1>2, <3>1, HeadIsNew
      <3>3. Len(issued) <= Cardinality(got) + 1
        BY <1>2, <1>14 DEF LoadInv
      <3>4. /\ Len(issued) \in Nat /\ Len(accepted) \in Nat /\ Cardinality(got) \in Nat
            /\ Len(toTarget) \in Nat
        BY <1>1, <1>2, Accounts
      <3> QED BY <1>3, <1>6, <3>2, <3>3, <3>4
    <2>3. Len(toTarget') = 1 /\ toTarget'[1] = f
      BY <1>9, <2>1
    <2>4. awaiting' = [id |-> i, body |-> b] /\ awaiting' # NoAck
      BY <1>6, <1>14, CxAssumption
    <2>5. InQueue'
      BY <1>1, <1>6, <1>12, <2>2, <2>3, <2>4 DEF InQueue, NoBarrier
    <2>6. BarrierInv'
      BY <1>1, <1>14, <2>1, <2>4, <2>5 DEF BarrierInv
    <2> QED BY <1>1, <1>7, <1>10, <1>11, <2>6 DEF Conforming
  <1> QED BY <1>13, <1>14

(* A conforming target asks.                                               *)
LEMMA QuietAsk ==
  ASSUME OneInv, Quiet, Conforming, NEW i \in Ids, Ask(i)
  PROVE  Conforming'
  <1> USE DEF OneInv
  <1> DEFINE f == Signed(Fresh, "Q", i, "none")
  <1>1. /\ Put(f) /\ issued' = Append(issued, i) /\ f \in Packets /\ Asked(f)
        /\ UNCHANGED <<mode, conduct, toTarget, failed, challenged, completed, awaiting, peer,
                       knows, got, owes>>
    BY AskEffect, RequestIsPacket
  <1> HIDE DEF f
  <1>2. MayAsk /\ i \notin Range(issued)
    BY DEF Ask, Quiet
  <1>3. StartInv /\ LoadInv /\ ~failed
    BY DEF Conforming
  <1>4. Opened /\ Opened'
    BY <1>1, <1>2 DEF MayAsk, Opened, Authenticated, CxInv, CounterInv
  <1>5. /\ issued \in Seq(Ids) /\ Len(issued) \in Nat /\ Cardinality(got) \in Nat
        /\ Len(accepted) \in Nat /\ Len(accepted) <= Len(issued) /\ Len(toTarget) \in Nat
        /\ Cardinality(pending) \in Nat
        /\ Len(accepted) = Cardinality(pending) + Cardinality(got) + Len(toTarget)
    BY <1>3, <1>4, Accounts DEF OrderInv
  <1>6. StartInv'
    BY <1>1, <1>3, <1>4 DEF StartInv
  <1>7. LoadInv'
    <2>1. /\ Len(issued') = Len(issued) + 1
          /\ DOMAIN issued' = (DOMAIN issued) \cup {Len(issued) + 1}
          /\ issued'[Len(issued) + 1] = i
          /\ \A k \in DOMAIN issued : issued'[k] = issued[k]
      BY <1>1, <1>5
    <2>2. \A k \in DOMAIN issued : issued[k] # i
      BY <1>2 DEF Range
    <2>3. \A j, k \in DOMAIN issued' : issued'[j] = issued'[k] => j = k
      BY <1>3, <2>1, <2>2 DEF LoadInv
    <2>4. Len(issued') <= Cardinality(got') + (IF mode' = "acked" THEN 1 ELSE MaxInFlight)
      <3>1. MaxInFlight \in Nat
        BY CxAssumption
      <3>2. /\ mode = "acked" => Len(issued) - Cardinality(got) = 0
            /\ mode # "acked" => Len(issued) - Cardinality(got) < MaxInFlight
        BY <1>2 DEF MayAsk, Outstanding
      <3> QED BY <1>1, <1>5, <2>1, <3>1, <3>2
    <2> QED BY <2>3, <2>4 DEF LoadInv
  <1>8. BarrierInv'
    <2>1. CASE NoBarrier
      <3>1. NoBarrier'
        BY <1>1, <2>1, AskedPut DEF NoBarrier, CxInv
      <3> QED BY <1>1, <2>1, <3>1 DEF BarrierInv, Conforming, NoBarrier
    <2>2. ASSUME mode = "acked", awaiting # NoAck, InQueue \/ IsRead PROVE FALSE
      <3>1. Len(issued) - Cardinality(got) = 0 /\ owes = {}
        BY <1>2, <2>2 DEF MayAsk, Outstanding
      <3>2. Len(toTarget) = 1
        BY <2>2, <3>1 DEF InQueue, IsRead
      <3> QED BY <1>5, <3>1, <3>2
    <2>3. CASE mode = "acked" /\ awaiting # NoAck /\ knows /\ IsAcked
      <3>1. AllAsked(2)'
        BY <1>1, <2>3, AskedPut DEF IsAcked, CxInv
      <3>2. toHost # <<>> /\ toHost \in Seq(Packets)
        BY <2>3 DEF IsAcked, CxInv, ChannelInv
      <3>3. toHost'[1] = toHost[1] /\ toHost' # <<>>
        BY <1>1, <3>2 DEF Put
      <3>4. IsAcked'
        BY <1>1, <2>3, <3>1, <3>3 DEF IsAcked, Expected, AuthVerify
      <3> QED BY <1>1, <2>3, <3>4 DEF BarrierInv
    <2> QED BY <2>1, <2>2, <2>3 DEF Conforming, BarrierInv
  <1> QED BY <1>1, <1>6, <1>7, <1>8 DEF Conforming

(* It reads the challenge, or a response it has not read before.           *)
LEMMA QuietRead ==
  ASSUME OneInv, Quiet, Conforming, Read
  PROVE  Conforming'
  <1> USE DEF OneInv
  <1> DEFINE h == Head(toTarget)
             r == [id |-> h.id, body |-> h.body]
             n == Len(toTarget)
  <1>1. UNCHANGED <<mode, conduct, toHost, failed, challenged, pending, completed, awaiting, peer,
                    issued>>
    BY ReadEffect
  <1>2. StartInv /\ LoadInv /\ ~failed
    BY DEF Conforming
  <1>3. toTarget \in Seq(Packets) /\ toTarget # <<>> /\ toTarget' = Tail(toTarget)
    BY DEF Read, CxInv, ChannelInv
  <1>4. /\ n \in Nat \ {0} /\ h = toTarget[1] /\ 1 \in DOMAIN toTarget /\ h \in Packets
        /\ Len(toTarget') = n - 1 /\ DOMAIN toTarget = 1..n /\ DOMAIN toTarget' = 1..(n - 1)
        /\ \A k \in 1..(n - 1) : toTarget'[k] = toTarget[k + 1]
    BY <1>3
  <1>5. n = 1 => toTarget' = <<>>
    BY <1>3
  <1>6. IF h.kind = "C" THEN knows' = TRUE /\ UNCHANGED <<got, owes>>
        ELSE /\ got' = got \cup {r} /\ UNCHANGED knows
             /\ owes' = IF mode = "acked" THEN owes \cup {r} ELSE owes
    BY DEF Read
  <1>7. h.kind = "S" /\ h.id \in Ids => r \notin got
    BY OnceRead
  <1> HIDE DEF h, r, n
  <1>8. CASE ~Opened
    <2>1. h.kind = "C" /\ got = {} /\ issued = <<>> /\ challenged /\ n = 1
      <3>1. h.kind = "C" /\ got = {} /\ issued = <<>> /\ n = IF challenged THEN 1 ELSE 0
        BY <1>2, <1>4, <1>8 DEF StartInv, n
      <3> QED BY <1>4, <3>1
    <2>2. knows' = TRUE /\ got' = {} /\ UNCHANGED owes /\ toTarget' = <<>>
      BY <1>5, <1>6, <2>1
    <2>3. completed = 0 /\ Cardinality({}) = 0
      BY <1>2, <1>8, Accounts, FS_EmptySet
    <2>4. StartInv'
      <3>1. DOMAIN toTarget' = {} /\ Len(toTarget') = 0
        BY <2>2
      <3> QED BY <1>1, <2>1, <2>2, <2>3, <3>1 DEF StartInv, Opened
    <2>5. LoadInv'
      BY <1>1, <1>2, <2>1, <2>2 DEF LoadInv
    <2>6. BarrierInv'
      <3>1. NoBarrier
        BY <1>8 DEF Conforming, BarrierInv, Opened
      <3>2. NoBarrier'
        BY <1>1, <2>2, <3>1 DEF NoBarrier, AllAsked, Asked, Authenticated, AuthVerify
      <3> QED BY <1>1, <2>2, <3>2 DEF BarrierInv
    <2> QED BY <1>1, <2>4, <2>5, <2>6 DEF Conforming
  <1>9. CASE Opened
    <2>1. h.kind = "S" /\ h.id \in Ids /\ completed = Cardinality(got) + n
      BY <1>2, <1>4, <1>9 DEF StartInv, n
    <2>2. /\ got' = got \cup {r} /\ UNCHANGED knows /\ r \notin got
          /\ owes' = IF mode = "acked" THEN owes \cup {r} ELSE owes
      BY <1>6, <1>7, <2>1
    <2>3. Cardinality(got') = Cardinality(got) + 1 /\ Cardinality(got) \in Nat
      BY <2>2, FS_AddElement, FS_CardinalityType DEF OnceInv
    <2>4. StartInv'
      <3>1. \A k \in 1..(n - 1) : k + 1 \in 1..n
        BY <1>4
      <3>2. \A k \in DOMAIN toTarget' : toTarget'[k].kind = "S" /\ toTarget'[k].id \in Ids
        BY <1>2, <1>4, <1>9, <3>1 DEF StartInv
      <3>3. completed' = Cardinality(got') + Len(toTarget')
        BY <1>1, <1>4, <2>1, <2>3
      <3>4. Opened' /\ (knows' => challenged')
        BY <1>1, <1>2, <1>9, <2>2 DEF Opened, StartInv
      <3> QED BY <3>2, <3>3, <3>4 DEF StartInv
    <2>5. LoadInv'
      <3>1. Len(issued) \in Nat /\ MaxInFlight \in Nat
        BY CxAssumption DEF OrderInv
      <3>2. Len(issued) <= Cardinality(got) + (IF mode = "acked" THEN 1 ELSE MaxInFlight)
        BY <1>2 DEF LoadInv
      <3>3. Len(issued') <= Cardinality(got') + (IF mode' = "acked" THEN 1 ELSE MaxInFlight)
        BY <1>1, <2>3, <3>1, <3>2
      <3> QED BY <1>1, <1>2, <3>3 DEF LoadInv
    <2>6. BarrierInv'
      <3>1. CASE mode # "acked"
        <4>1. NoBarrier
          BY <3>1 DEF Conforming, BarrierInv
        <4>2. NoBarrier'
          BY <1>1, <2>2, <3>1, <4>1 DEF NoBarrier, AllAsked, Asked, Authenticated, AuthVerify
        <4> QED BY <1>1, <3>1, <4>2 DEF BarrierInv
      <3>2. CASE mode = "acked"
        <4>1. knows /\ InQueue /\ awaiting # NoAck
          BY <1>3, <1>9, <3>2 DEF Conforming, BarrierInv, Opened, IsRead, IsAcked
        <4>2. n = 1 /\ r = awaiting /\ owes = {} /\ toHost = <<>>
          BY <1>4, <4>1 DEF InQueue, n, r
        <4>3. IsRead'
          BY <1>1, <1>5, <2>2, <3>2, <4>2 DEF IsRead
        <4> QED BY <1>1, <2>2, <3>2, <4>1, <4>3 DEF BarrierInv
      <3> QED BY <3>1, <3>2
    <2> QED BY <1>1, <2>4, <2>5, <2>6 DEF Conforming
  <1> QED BY <1>8, <1>9

(* It acknowledges the response behind the barrier.                        *)
LEMMA QuietAcknowledge ==
  ASSUME OneInv, Quiet, Conforming, NEW r \in owes, Acknowledge(r)
  PROVE  Conforming'
  <1> USE DEF OneInv
  <1> DEFINE f == Signed(Fresh, "A", r.id, r.body)
  <1>1. /\ Put(f) /\ owes' = owes \ {r}
        /\ UNCHANGED <<mode, conduct, toTarget, failed, challenged, completed, awaiting, peer,
                       issued, knows, got>>
    BY AcknowledgeEffect
  <1>2. mode = "acked" /\ awaiting # NoAck /\ knows /\ IsRead
    BY DEF Conforming, BarrierInv, NoBarrier, InQueue, IsAcked
  <1>3. r = awaiting /\ owes' = {} /\ toHost = <<>> /\ toTarget = <<>>
    BY <1>1, <1>2 DEF IsRead
  <1>4. f \in Packets /\ f.kind = "A" /\ f.id = r.id /\ f.body = r.body /\ AuthVerify(f, "A")
    BY <1>2, AcknowledgmentIsPacket DEF Authenticated
  <1> HIDE DEF f
  <1>5. toHost' # <<>> /\ toHost'[1] = f /\ DOMAIN toHost' = {1}
    BY <1>1, <1>3, <1>4 DEF Put
  <1>6. Expected(toHost[1])'
    BY <1>1, <1>3, <1>4, <1>5 DEF Expected, AuthVerify
  <1>7. AllAsked(2)'
    BY <1>5 DEF AllAsked
  <1>8. IsAcked'
    BY <1>1, <1>3, <1>5, <1>6, <1>7 DEF IsAcked
  <1>9. BarrierInv'
    BY <1>1, <1>2, <1>8 DEF BarrierInv
  <1>10. StartInv' /\ LoadInv'
    BY <1>1 DEF Conforming, StartInv, Opened, LoadInv
  <1> QED BY <1>1, <1>9, <1>10 DEF Conforming

LEMMA QuietInit == CxInit => QuietInv
  <1> SUFFICES ASSUME CxInit PROVE QuietInv
    OBVIOUS
  <1>1. /\ toHost = <<>> /\ toTarget = <<>> /\ got = {} /\ issued = <<>> /\ owes = {}
        /\ failed = FALSE /\ challenged = FALSE /\ completed = 0 /\ awaiting = NoAck
        /\ peer = "open" /\ knows = FALSE /\ faults = 0
    BY DEF CxInit, PrepareCorrelated, PrepareAuthenticated, PrepareAcknowledged, ControllerInit,
           TargetInit
  <1>2. DOMAIN toTarget = {} /\ DOMAIN toHost = {} /\ DOMAIN issued = {} /\ Len(toTarget) = 0
        /\ Len(issued) = 0 /\ Cardinality(got) = 0
    BY <1>1, FS_EmptySet
  <1>3. StartInv
    BY <1>1, <1>2 DEF StartInv
  <1>4. LoadInv
    <2>1. MaxInFlight \in Nat
      BY CxAssumption
    <2> QED BY <1>2, <2>1 DEF LoadInv
  <1>5. NoBarrier
    BY <1>1, <1>2 DEF NoBarrier, AllAsked
  <1>6. BarrierInv
    BY <1>1, <1>5 DEF BarrierInv
  <1> QED BY <1>1, <1>3, <1>4, <1>6 DEF QuietInv, Conforming

LEMMA QuietStep ==
  ASSUME OneInv, QuietInv, QueueLimit >= MaxInFlight, [CxNext]_cxVars
  PROVE  QuietInv'
  <1>1. conduct' = conduct /\ faults' \in {faults, faults + 1}
    BY DEF CxNext, HostNext, TargetNext, PublishChallenge, Receive, ReceivePlain,
           ReceiveAuthenticated, ReceiveAcknowledged, ReceiveAcknowledgment, Respond, RespondPlain,
           RespondAuthenticated, RespondAcknowledged, RejectResponse, SendFails, PublishResponse,
           NoPacket, Dequeue, SysCallFails, Ask, Read, Misbehave, Shut, Acknowledge, cxVars
  <1>2. faults \in Nat /\ faults' \in Nat
    BY <1>1 DEF QuietInv
  <1> SUFFICES ASSUME Quiet' PROVE Conforming'
    BY <1>2 DEF QuietInv
  <1>3. Quiet /\ Conforming
    BY <1>1, <1>2 DEF Quiet, QuietInv
  <1>4. CASE Receive \/ ReceiveAcknowledgment \/ PublishChallenge
    BY <1>3, <1>4, QuietReceive, QuietAcknowledgment, QuietChallenge
  <1>5. ASSUME NEW i \in Ids, NEW b \in Bodies, NEW s, Respond(i, b, s)
        PROVE  Conforming'
    BY <1>3, <1>5, QuietRespond
  <1>6. ASSUME NEW i \in Ids, Ask(i)
        PROVE  Conforming'
    BY <1>3, <1>6, QuietAsk
  <1>7. CASE Read
    BY <1>3, <1>7, QuietRead
  <1>8. CASE Misbehave \/ Shut
    BY <1>3, <1>8, MisbehaveEffect, ShutEffect DEF Quiet
  <1>9. ASSUME NEW r \in owes, Acknowledge(r)
        PROVE  Conforming'
    BY <1>3, <1>9, QuietAcknowledge
  <1>10. CASE UNCHANGED cxVars
    <2>1. UNCHANGED <<mode, toHost, toTarget, failed, challenged, completed, awaiting, peer,
                      issued, knows, got, owes>>
      BY <1>10 DEF cxVars, ctlVars, targetVars
    <2>2. StartInv' /\ LoadInv'
      BY <1>3, <2>1 DEF Conforming, StartInv, Opened, LoadInv
    <2>3. BarrierInv'
      BY <1>3, <2>1 DEF Conforming, BarrierInv, NoBarrier, InQueue, IsRead, IsAcked, AllAsked,
                        Asked, Authenticated, AuthVerify, Expected
    <2> QED BY <1>3, <2>1, <2>2, <2>3 DEF Conforming
  <1> QED
    BY <1>4, <1>5, <1>6, <1>7, <1>8, <1>9, <1>10 DEF CxNext, HostNext, TargetNext

(* Two conforming ends are never at odds: with a receive queue that holds  *)
(* what may be in flight and no failing call, no interleaving of           *)
(* challenge, requests, responses and acknowledgments poisons a controller *)
(* (receive_request, send_response, receive_acknowledgment).               *)
THEOREM ConformingEndsAreServed ==
  ASSUME QueueLimit >= MaxInFlight
  PROVE  CxSpec => []ConformingServed
  <1>1. OneInv /\ QuietInv /\ [CxNext]_cxVars => QuietInv'
    BY QuietStep
  <1>2. QuietInv => ConformingServed
    BY DEF QuietInv, Quiet, Conforming, ConformingServed
  <1> QED BY <1>1, <1>2, OneInit, OneStep, QuietInit, PTL DEF CxSpec
=============================================================================
