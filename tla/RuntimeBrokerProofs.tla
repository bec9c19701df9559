------------------------- MODULE RuntimeBrokerProofs -------------------------
(***************************************************************************)
(* The grants, the exchange in rounds, and the composition.                *)
(*                                                                         *)
(* Of FdBroker, for any routes, ceilings and budgets, any number of bytes  *)
(* and connections: every grant was asked for by the owner's process and   *)
(* stays within what was prepared, the byte budget is exact, and a         *)
(* revocation is final.                                                    *)
(*                                                                         *)
(* Of MessageExchange, for any number of rounds a prepare function         *)
(* accepts, any queue and any number of packets: the controllers implement *)
(* the ledger of RpcLedger, a session's lifetime is never exceeded, and a  *)
(* call's deadline never takes a request that was there.                   *)
(*                                                                         *)
(* The composition behaves as each of its parts: what is proved of the     *)
(* grants, of the exchange in rounds and of the correlated exchanges       *)
(* (CorrelatedExchangeProofs) holds of a broker that has all three.        *)
(***************************************************************************)
EXTENDS RuntimeBroker, CorrelatedExchangeProofs

-----------------------------------------------------------------------------
(***************************************************************************)
(* FdBroker.                                                               *)
(***************************************************************************)
Peers == {"none", "expected", "other", "absent"}

(* Readiness bytes in a stretch of what the target wrote.                  *)
ReadyAt(w) == {k \in 1..Len(w) : w[k] = ReadyByte}
Count(w)   == Cardinality(ReadyAt(w))

LeaseType ==
  [state : {"Active", "Revoked", "Failed"}, sent : Nat, piped : Nat, drained : Nat,
   left : Nat, shut : BOOLEAN, io : Nat, end : BOOLEAN]

(* The lease: what was sent is what the kernel took, a send goes on only   *)
(* while the controller is active, and a revoked one has shut its socket.  *)
LeaseInv ==
  /\ lease \in LeaseType
  /\ SupplyExact
  /\ lease.left # 0 => lease.state = "Active" /\ kind = "bytes"
  /\ lease.state = "Revoked" => lease.shut = TRUE

SnapType ==
  [source : Seq(Nat), copy : Seq(Nat), items : Seq(Seq(Nat)),
   at : {"copying", "copied", "sealed", "bundled", "refused"}]

SnapInv ==
  /\ snap \in SnapType
  /\ swaps \in Nat

StepType == [at : {"idle", "connect", "send"}, route : Routes, who : Peers]

ChanTypes ==
  /\ role \in {"session", "router", "reconnect"} /\ kind \in Kinds
  /\ chan \in {"none", "open", "AwaitingReady", "Ready", "GrantSent", "Failed"}
  /\ written \in Seq(Nat) /\ writes \in Nat /\ readies \in Nat
  /\ step \in StepType
  /\ services \in [Routes -> Peers] /\ granted \in [Routes -> Nat]
  /\ held \in Seq([what : Kinds, who : Peers, route : Routes])

(* The states of channel and grant_next by role.                           *)
ChanInv ==
  /\ chan # "none" => chanPeer = "owner"
  /\ chan = "none" => held = <<>>
  /\ step.at # "idle" => chan = "open"
  /\ chan = "open" => role # "session"
  /\ chan \in {"AwaitingReady", "Ready", "GrantSent"} => role = "session"
  /\ role = "session" => (chan = "GrantSent" <=> held # <<>>)

(* Requests that were read: those granted, and the one being served.       *)
Served == Len(held) + (IF chan = "Ready" \/ step.at # "idle" THEN 1 ELSE 0)

(* Each has used up its own bytes, a readiness byte among them.            *)
AskedInv ==
  /\ Len(written) + (IF role = "router" THEN 2 * Served ELSE Served) <= writes
  /\ Count(written) + Served <= readies

FdInv == LeaseInv /\ SnapInv /\ ChanTypes /\ ChanInv /\ AskedInv

-----------------------------------------------------------------------------
(* Counting readiness bytes.                                               *)
LEMMA CountType ==
  ASSUME NEW w \in Seq(Nat)
  PROVE  IsFiniteSet(ReadyAt(w)) /\ Count(w) \in Nat
  <1>1. Len(w) \in Int /\ 1 \in Int
    OBVIOUS
  <1>2. IsFiniteSet(1..Len(w))
    BY <1>1, FS_Interval
  <1>3. ReadyAt(w) \subseteq 1..Len(w)
    BY DEF ReadyAt
  <1> QED BY <1>2, <1>3, FS_Subset, FS_CardinalityType DEF Count

LEMMA CountAppend ==
  ASSUME NEW w \in Seq(Nat), NEW b \in Nat
  PROVE  Count(Append(w, b)) = Count(w) + IF b = ReadyByte THEN 1 ELSE 0
  <1>1. ReadyAt(Append(w, b)) =
          IF b = ReadyByte THEN ReadyAt(w) \cup {Len(w) + 1} ELSE ReadyAt(w)
    BY DEF ReadyAt
  <1>2. Len(w) + 1 \notin ReadyAt(w)
    BY DEF ReadyAt
  <1>3. IsFiniteSet(ReadyAt(w)) /\ Count(w) \in Nat
    BY CountType
  <1>4. Cardinality(ReadyAt(w) \cup {Len(w) + 1}) = Cardinality(ReadyAt(w)) + 1
    BY <1>2, <1>3, FS_AddElement
  <1> QED BY <1>1, <1>3, <1>4 DEF Count

(* Reading takes bytes away, and the first of them, if it is one.          *)
LEMMA CountRest ==
  ASSUME NEW w \in Seq(Nat), NEW n \in {1, 2}, Len(w) >= n
  PROVE  LET rest == SubSeq(w, n + 1, Len(w)) IN
         /\ rest \in Seq(Nat) /\ Len(rest) = Len(w) - n
         /\ Count(rest) <= Count(w)
         /\ w[1] = ReadyByte => Count(rest) + 1 <= Count(w)
  <1> DEFINE rest == SubSeq(w, n + 1, Len(w))
             f    == [k \in ReadyAt(rest) |-> k + n]
  <1>1. rest \in Seq(Nat) /\ Len(rest) = Len(w) - n
    OBVIOUS
  <1>2. \A k \in 1..Len(rest) : rest[k] = w[k + n]
    OBVIOUS
  <1>3. f \in Injection(ReadyAt(rest), ReadyAt(w) \ {1})
    <2> HIDE DEF rest
    <2>1. ASSUME NEW k \in ReadyAt(rest)
          PROVE  k + n \in ReadyAt(w) \ {1}
      <3>1. k \in 1..Len(rest) /\ rest[k] = ReadyByte
        BY DEF ReadyAt
      <3>2. w[k + n] = ReadyByte
        BY <1>2, <3>1
      <3>3. k + n \in 1..Len(w) /\ k + n # 1
        BY <1>1, <3>1
      <3> QED BY <3>2, <3>3 DEF ReadyAt
    <2>2. ASSUME NEW j \in ReadyAt(rest), NEW k \in ReadyAt(rest), j + n = k + n
          PROVE  j = k
      <3>1. j \in 1..Len(rest) /\ k \in 1..Len(rest)
        BY DEF ReadyAt
      <3> QED BY <2>2, <3>1
    <2>3. f \in [ReadyAt(rest) -> ReadyAt(w) \ {1}]
      BY <2>1
    <2>4. IsInjective(f)
      BY <2>2 DEF IsInjective
    <2> QED BY <2>3, <2>4 DEF Injection
  <1>4. IsFiniteSet(ReadyAt(w)) /\ Count(w) \in Nat /\ Count(rest) \in Nat
    BY <1>1, CountType
  <1>5. /\ IsFiniteSet(ReadyAt(w) \ {1})
        /\ Cardinality(ReadyAt(w) \ {1}) = IF 1 \in ReadyAt(w) THEN Count(w) - 1 ELSE Count(w)
    BY <1>4, FS_RemoveElement DEF Count
  <1>6. Count(rest) <= Cardinality(ReadyAt(w) \ {1})
    BY <1>3, <1>5, FS_Injection DEF Count
  <1>7. w[1] = ReadyByte => 1 \in ReadyAt(w)
    BY DEF ReadyAt
  <1> QED BY <1>1, <1>4, <1>5, <1>6, <1>7

LEMMA Constant ==
  /\ 0 \in Routes /\ Routes \subseteq Nat /\ Bytes \subseteq Nat /\ ReadyByte \in Nat
  /\ MaxBytes \in Nat
  <1>1. Cardinality(Routes) \in 2..4 /\ Routes = 0..(Cardinality(Routes) - 1)
    BY FdAssumption
  <1>2. ReadyByte \in 0..255 /\ MaxBytes \in Nat
    BY FdAssumption
  <1> QED BY <1>1, <1>2 DEF Bytes

-----------------------------------------------------------------------------
LEMMA FdInitInv == FdInit => FdInv
  <1> SUFFICES ASSUME FdInit PROVE FdInv
    OBVIOUS
  <1> USE DEF FdInit
  <1>1. LeaseInv
    BY Constant DEF LeaseInv, LeaseType, SupplyExact, PreparedLease
  <1>2. SnapInv
    BY DEF SnapInv, SnapType, EmptySnap
  <1>3. ChanTypes
    BY Constant DEF ChanTypes, StepType, NoStep, Peers, Kinds
  <1>4. ChanInv
    BY DEF ChanInv, NoStep
  <1>5. AskedInv
    <2>1. ReadyAt(<<>>) = {}
      BY DEF ReadyAt
    <2>2. Count(<<>>) = 0
      BY <2>1, FS_EmptySet DEF Count
    <2> QED BY <2>2 DEF AskedInv, Served, NoStep
  <1> QED BY <1>1, <1>2, <1>3, <1>4, <1>5 DEF FdInv

-----------------------------------------------------------------------------
(* What a step must leave alone to keep each part.                         *)
LEMMA LeaseKept ==
  ASSUME LeaseInv, UNCHANGED <<kind, lease>>
  PROVE  LeaseInv'
  BY DEF LeaseInv, SupplyExact

LEMMA SnapKept ==
  ASSUME SnapInv, UNCHANGED <<snap, swaps>>
  PROVE  SnapInv'
  BY DEF SnapInv

LEMMA ChanKept ==
  ASSUME ChanTypes, ChanInv, AskedInv,
         UNCHANGED <<role, kind, chan, chanPeer, written, writes, readies, step, services, granted,
                     held>>
  PROVE  ChanTypes' /\ ChanInv' /\ AskedInv'
  <1>1. ChanTypes'
    BY DEF ChanTypes
  <1>2. ChanInv'
    BY DEF ChanInv
  <1>3. AskedInv'
    BY DEF AskedInv, Served, Count, ReadyAt
  <1> QED BY <1>1, <1>2, <1>3

-----------------------------------------------------------------------------
(* The revocable streams.                                                  *)
LeaseNext ==
  \/ \E n \in 1..MaxBytes : SendAll(n) \/ SendSome(n)
  \/ RevokeBytes \/ DropBytes \/ TargetDrains
  \/ TargetTalks \/ RevokeHostStream \/ DropHostStream

(* The two ways in which a controller stops being active.                  *)
LEMMA LeaseEnds ==
  ASSUME LeaseInv, lease.state = "Active", UNCHANGED kind,
         \/ lease.left = 0 /\ lease' = [lease EXCEPT !.state = "Revoked", !.shut = TRUE]
         \/ lease' = [lease EXCEPT !.left = 0, !.state = "Failed"]
         \/ lease.left = 0 /\ lease' = [lease EXCEPT !.state = "Failed"]
  PROVE  LeaseInv'
  <1>1. lease \in LeaseType
    BY DEF LeaseInv
  <1>2. lease' \in LeaseType
    <2>1. CASE lease' = [lease EXCEPT !.state = "Revoked", !.shut = TRUE]
      BY <1>1, <2>1 DEF LeaseType
    <2>2. CASE lease' = [lease EXCEPT !.left = 0, !.state = "Failed"]
      BY <1>1, <2>2 DEF LeaseType
    <2>3. CASE lease' = [lease EXCEPT !.state = "Failed"]
      BY <1>1, <2>3 DEF LeaseType
    <2> QED BY <2>1, <2>2, <2>3
  <1>3. /\ lease'.left = 0 /\ lease'.sent = lease.sent /\ lease'.piped = lease.piped
        /\ lease'.drained = lease.drained
    <2>1. CASE lease.left = 0 /\ lease' = [lease EXCEPT !.state = "Revoked", !.shut = TRUE]
      BY <1>1, <2>1 DEF LeaseType
    <2>2. CASE lease' = [lease EXCEPT !.left = 0, !.state = "Failed"]
      BY <1>1, <2>2 DEF LeaseType
    <2>3. CASE lease.left = 0 /\ lease' = [lease EXCEPT !.state = "Failed"]
      BY <1>1, <2>3 DEF LeaseType
    <2> QED BY <2>1, <2>2, <2>3
  <1>5. lease'.state = "Revoked" => lease'.shut = TRUE
    <2>1. CASE lease' = [lease EXCEPT !.state = "Revoked", !.shut = TRUE]
      BY <1>1, <2>1 DEF LeaseType
    <2>2. CASE lease' = [lease EXCEPT !.left = 0, !.state = "Failed"]
      BY <1>1, <2>2 DEF LeaseType
    <2>3. CASE lease' = [lease EXCEPT !.state = "Failed"]
      BY <1>1, <2>3 DEF LeaseType
    <2> QED BY <2>1, <2>2, <2>3
  <1>4. lease.piped + 0 <= MaxBytes
    BY <1>1, Constant DEF LeaseInv, SupplyExact, LeaseType
  <1> QED BY <1>2, <1>3, <1>4, <1>5 DEF LeaseInv, SupplyExact

LEMMA LeaseSends ==
  ASSUME LeaseInv, lease.state = "Active", UNCHANGED kind, NEW n \in Nat, n <= lease.left,
         lease' = [lease EXCEPT !.left = @ - n, !.sent = @ + n, !.piped = @ + n]
  PROVE  LeaseInv'
  <1>1. lease \in LeaseType
    BY DEF LeaseInv
  <1>2. lease.left - n \in Nat /\ lease.sent + n \in Nat /\ lease.piped + n \in Nat
    BY <1>1 DEF LeaseType
  <1>3. lease' \in LeaseType
    BY <1>1, <1>2 DEF LeaseType
  <1>4. /\ lease'.state = "Active" /\ lease'.left = lease.left - n
        /\ lease'.sent = lease.sent + n /\ lease'.piped = lease.piped + n
        /\ lease'.drained = lease.drained
    <2>1. CASE lease.left = 0 /\ lease' = [lease EXCEPT !.state = "Revoked", !.shut = TRUE]
      BY <1>1, <2>1 DEF LeaseType
    <2>2. CASE lease' = [lease EXCEPT !.left = 0, !.state = "Failed"]
      BY <1>1, <2>2 DEF LeaseType
    <2>3. CASE lease.left = 0 /\ lease' = [lease EXCEPT !.state = "Failed"]
      BY <1>1, <2>3 DEF LeaseType
    <2> QED BY <2>1, <2>2, <2>3
  <1>5. /\ lease.sent = lease.piped /\ lease.piped + lease.left <= MaxBytes
        /\ lease.drained <= lease.piped
    BY DEF LeaseInv, SupplyExact
  <1>6. /\ lease'.sent = lease'.piped /\ lease'.piped + lease'.left <= MaxBytes
        /\ lease'.drained <= lease'.piped
    <2>1. lease.piped \in Nat /\ lease.left \in Nat /\ lease.drained \in Nat
      BY <1>1 DEF LeaseType
    <2> QED BY <1>4, <1>5, <2>1, Constant
  <1>7. lease'.left # 0 => kind = "bytes"
    <2>1. lease.left # 0 => kind = "bytes"
      BY DEF LeaseInv
    <2>2. lease.left \in Nat
      BY <1>1 DEF LeaseType
    <2> QED BY <1>4, <2>1, <2>2
  <1> QED BY <1>3, <1>4, <1>6, <1>7 DEF LeaseInv, SupplyExact

LEMMA LeaseStep ==
  ASSUME LeaseInv, LeaseNext
  PROVE  /\ LeaseInv'
         /\ lease.state # "Active" =>
              /\ lease'.state = lease.state /\ lease'.piped = lease.piped
              /\ lease.state = "Revoked" => lease'.io = lease.io
         /\ UNCHANGED <<role, kind, chanVars, routeVars, held, snap>>
  <1> USE DEF LeaseInv, LeaseType, SupplyExact
  <1> DEFINE Final == lease.state # "Active" =>
                        /\ lease'.state = lease.state /\ lease'.piped = lease.piped
                        /\ lease.state = "Revoked" => lease'.io = lease.io
  <1>0. lease.state = "Active" => Final
    OBVIOUS
  <1>1. UNCHANGED <<role, kind, chanVars, routeVars, held, snap>>
    BY DEF LeaseNext, SendAll, SendSome, RevokeBytes, DropBytes, TargetDrains, TargetTalks,
           RevokeHostStream, DropHostStream
  <1>2. ASSUME NEW n \in 1..MaxBytes, SendAll(n) PROVE LeaseInv' /\ Final
    BY <1>2, Constant DEF SendAll, Streaming
  <1>3. ASSUME NEW n \in 1..MaxBytes, SendSome(n) PROVE LeaseInv' /\ Final
    <2>0. UNCHANGED kind
      BY <1>3 DEF SendSome
    <2>1. lease.left > 0 /\ lease.state = "Active"
      BY <1>3 DEF SendSome
    <2>2. CASE n <= lease.left
               /\ lease' = [lease EXCEPT !.left = @ - n, !.sent = @ + n, !.piped = @ + n]
      <3>1. n \in Nat
        BY Constant
      <3>2. LeaseInv'
        BY <2>0, <2>1, <2>2, <3>1, LeaseSends
      <3> QED BY <1>0, <2>1, <3>2
    <2>3. CASE lease' = [lease EXCEPT !.left = 0, !.state = "Failed"]
      <3>1. LeaseInv'
        BY <2>0, <2>1, <2>3, LeaseEnds
      <3> QED BY <1>0, <2>1, <3>1
    <2> QED BY <1>3, <2>2, <2>3 DEF SendSome
  <1>4. CASE RevokeBytes
    <2>1. LeaseInv' /\ Final
      <3>1. lease.state = "Active" /\ lease.left = 0
        BY <1>4 DEF RevokeBytes, Streaming
      <3>2. LeaseInv'
        BY <1>1, <1>4, <3>1, LeaseEnds DEF RevokeBytes
      <3> QED BY <1>0, <3>1, <3>2
    <2> QED BY <1>1, <2>1
  <1>5. CASE DropBytes
    <2>1. LeaseInv' /\ Final
      BY <1>5 DEF DropBytes, Streaming
    <2> QED BY <1>1, <2>1
  <1>6. CASE TargetDrains
    <2>1. LeaseInv' /\ Final
      BY <1>6 DEF TargetDrains
    <2> QED BY <1>1, <2>1
  <1>7. CASE TargetTalks
    <2>1. LeaseInv' /\ Final
      BY <1>7 DEF TargetTalks
    <2> QED BY <1>1, <2>1
  <1>8. CASE RevokeHostStream
    <2>1. LeaseInv' /\ Final
      <3>1. lease.state = "Active" /\ lease.left = 0
        BY <1>8 DEF RevokeHostStream, Lent
      <3>2. LeaseInv'
        BY <1>1, <1>8, <3>1, LeaseEnds DEF RevokeHostStream
      <3> QED BY <1>0, <3>1, <3>2
    <2> QED BY <1>1, <2>1
  <1>9. CASE DropHostStream
    <2>1. LeaseInv' /\ Final
      BY <1>9 DEF DropHostStream, Lent
    <2> QED BY <1>1, <2>1
  <1> QED BY <1>1, <1>2, <1>3, <1>4, <1>5, <1>6, <1>7, <1>8, <1>9 DEF LeaseNext

(* The sealed snapshots.                                                   *)
SnapNext == CopySource \/ SealCopy \/ PrepareBundle \/ SourceChanges

LEMMA SnapStep ==
  ASSUME SnapInv, SnapNext
  PROVE  /\ SnapInv'
         /\ UNCHANGED <<role, kind, chanVars, step, services, granted, held, lease>>
  <1> USE DEF SnapInv, SnapType
  <1>1. UNCHANGED <<role, kind, chanVars, step, services, granted, held, lease>>
    BY DEF SnapNext, CopySource, SealCopy, PrepareBundle, SourceChanges, routeVars
  <1>2. CASE CopySource
    <2>1. UNCHANGED swaps
      BY <1>2 DEF CopySource, routeVars
    <2>2. snap' \in SnapType
      <3>1. CASE \E at \in {"refused", "copied"} : CopyEnds(at)
        BY <3>1 DEF CopyEnds
      <3>2. ASSUME NEW n \in 1..Len(snap.source),
                   snap' = [snap EXCEPT !.copy = Append(@, snap.source[n])]
            PROVE  snap' \in SnapType
        <4>1. snap.source[n] \in Nat
          OBVIOUS
        <4>2. Append(snap.copy, snap.source[n]) \in Seq(Nat)
          BY <4>1
        <4> QED BY <3>2, <4>2
      <3>3. Len(snap.copy) + 1 \in Nat /\ Len(snap.copy) + 1 >= 1
        OBVIOUS
      <3>4. \/ \E at \in {"refused", "copied"} : CopyEnds(at)
            \/ /\ Len(snap.copy) + 1 <= Len(snap.source)
               /\ snap' = [snap EXCEPT !.copy = Append(@, snap.source[Len(snap.copy) + 1])]
        BY <1>2 DEF CopySource
      <3>5. Len(snap.copy) + 1 <= Len(snap.source) =>
              Len(snap.copy) + 1 \in 1..Len(snap.source)
        BY <3>3
      <3> HIDE DEF SnapType, SnapInv
      <3> QED BY <3>1, <3>2, <3>4, <3>5
    <2> QED BY <1>1, <2>1, <2>2
  <1>3. CASE SealCopy
    <2>1. UNCHANGED swaps
      BY <1>3 DEF SealCopy, routeVars
    <2>2. Append(snap.items, snap.copy) \in Seq(Seq(Nat)) /\ <<>> \in Seq(Nat)
      OBVIOUS
    <2>3. snap' \in SnapType
      BY <1>3, <2>2 DEF SealCopy, CopyEnds
    <2> QED BY <1>1, <2>1, <2>3
  <1>4. CASE PrepareBundle
    <2>1. UNCHANGED swaps
      BY <1>4 DEF PrepareBundle, routeVars
    <2>2. CopyEnds("refused") \/ CopyEnds("bundled")
      BY <1>4 DEF PrepareBundle
    <2> QED BY <1>1, <2>1, <2>2 DEF CopyEnds
  <1>5. CASE SourceChanges
    <2>1. swaps' \in Nat
      BY <1>5 DEF SourceChanges
    <2>2. PICK s \in {Append(snap.source, swaps + 1), <<>>} \cup
                     {[snap.source EXCEPT ![k] = swaps + 1] : k \in DOMAIN snap.source} :
               snap' = [snap EXCEPT !.source = s]
      BY <1>5 DEF SourceChanges
    <2>3. s \in Seq(Nat)
      <3>1. Append(snap.source, swaps + 1) \in Seq(Nat) /\ <<>> \in Seq(Nat)
        OBVIOUS
      <3>2. ASSUME NEW k \in DOMAIN snap.source
            PROVE  [snap.source EXCEPT ![k] = swaps + 1] \in Seq(Nat)
        BY <3>2
      <3> QED BY <2>2, <3>1, <3>2
    <2> QED BY <1>1, <2>1, <2>2, <2>3
  <1> QED BY <1>2, <1>3, <1>4, <1>5 DEF SnapNext

-----------------------------------------------------------------------------
(* The channel: listener, requests and grants.                             *)
GrantInv == ChanTypes /\ ChanInv /\ AskedInv

(* The listener only moves from none to a state without a request.         *)
LEMMA AcceptStep ==
  ASSUME GrantInv, Accept \/ AcceptRouter \/ AcceptReconnect
  PROVE  GrantInv'
  <1> USE DEF GrantInv
  <1>1. UNCHANGED <<role, kind, written, writes, readies, step, services, granted, held>>
    BY DEF Accept, AcceptRouter, AcceptReconnect, AcceptTrustedStream, routeVars
  <1>2. \/ UNCHANGED <<chan, chanPeer>>
        \/ /\ chan = "none" /\ chanPeer' = "owner"
           /\ chan' = IF role = "session" THEN "AwaitingReady" ELSE "open"
    BY DEF Accept, AcceptRouter, AcceptReconnect, AcceptTrustedStream
  <1>3. CASE UNCHANGED <<chan, chanPeer>>
    BY <1>1, <1>3, ChanKept
  <1>4. CASE /\ chan = "none" /\ chanPeer' = "owner"
             /\ chan' = IF role = "session" THEN "AwaitingReady" ELSE "open"
    <2>1. ChanTypes'
      BY <1>1, <1>4 DEF ChanTypes
    <2>2. step.at = "idle" /\ held = <<>>
      BY <1>4 DEF ChanTypes, ChanInv
    <2>3. ChanInv'
      BY <1>1, <1>4, <2>2 DEF ChanInv, ChanTypes
    <2>4. AskedInv'
      <3>1. Served' = Served
        BY <1>1, <1>4, <2>2 DEF Served
      <3> QED BY <1>1, <3>1 DEF AskedInv, Count, ReadyAt
    <2> QED BY <2>1, <2>3, <2>4
  <1> QED BY <1>2, <1>3, <1>4

(* What is written is counted when it is written.                          *)
LEMMA WriteStep ==
  ASSUME GrantInv, NEW b \in Bytes, TargetWrites(b)
  PROVE  GrantInv'
  <1> USE DEF GrantInv
  <1>1. /\ UNCHANGED <<role, kind, chan, chanPeer, step, services, granted, held>>
        /\ written' = Append(written, b) /\ writes' = writes + 1
        /\ readies' = IF b = ReadyByte THEN readies + 1 ELSE readies
    BY DEF TargetWrites, routeVars
  <1>2. b \in Nat /\ written \in Seq(Nat) /\ writes \in Nat /\ readies \in Nat
    BY Constant DEF ChanTypes
  <1>3. ChanTypes'
    BY <1>1, <1>2 DEF ChanTypes
  <1>4. ChanInv'
    BY <1>1 DEF ChanInv
  <1>5. AskedInv'
    <2>1. Served' = Served /\ Served \in Nat
      BY <1>1 DEF Served, ChanTypes
    <2>2. Count(written') = Count(written) + (IF b = ReadyByte THEN 1 ELSE 0)
          /\ Count(written) \in Nat
      BY <1>1, <1>2, CountAppend, CountType
    <2>3. Len(written') = Len(written) + 1 /\ Len(written) \in Nat
      BY <1>1, <1>2
    <2>4. Count(written') + Served' <= readies'
      BY <1>1, <1>2, <2>1, <2>2 DEF AskedInv
    <2>5. Len(written') + (IF role' = "router" THEN 2 * Served' ELSE Served') <= writes'
      BY <1>1, <1>2, <2>1, <2>3 DEF AskedInv
    <2>6. Count(written)' = Count(written')
      BY DEF Count, ReadyAt
    <2> QED BY <2>4, <2>5, <2>6 DEF AskedInv
  <1> QED BY <1>3, <1>4, <1>5

(* A step that serves no more requests than before and reads nothing.      *)
LEMMA ServedShrinks ==
  ASSUME GrantInv, UNCHANGED <<role, written, writes, readies>>,
         Served' \in Nat, Served' <= Served
  PROVE  AskedInv'
  <1>1. Served \in Nat /\ Len(written) \in Nat /\ Count(written) \in Nat
        /\ writes \in Nat /\ readies \in Nat
    BY CountType DEF GrantInv, ChanTypes, Served
  <1>2. Count(written)' = Count(written)
    BY DEF Count, ReadyAt
  <1> QED BY <1>1, <1>2 DEF GrantInv, AskedInv

(* A request that is read: its bytes are gone, and one more is served.     *)
LEMMA RequestRead ==
  ASSUME GrantInv, NEW n \in {1, 2}, ReadExact(n), n = IF role = "router" THEN 2 ELSE 1,
         UNCHANGED <<role, writes, readies>>,
         Served' \in Nat, Served' <= Served + 1,
         Served' <= Served \/ written[1] = ReadyByte
  PROVE  AskedInv' /\ written' \in Seq(Nat)
  <1>1. Served \in Nat /\ Len(written) \in Nat /\ written \in Seq(Nat) /\ Count(written) \in Nat
        /\ writes \in Nat /\ readies \in Nat
    BY CountType DEF GrantInv, ChanTypes, Served
  <1>2. /\ written' \in Seq(Nat) /\ Len(written') = Len(written) - n
        /\ Count(written') <= Count(written)
        /\ written[1] = ReadyByte => Count(written') + 1 <= Count(written)
    BY <1>1, CountRest DEF ReadExact
  <1>3. Count(written') \in Nat
    BY <1>2, CountType
  <1>4. Count(written') + Served' <= readies'
    <2>1. Count(written) + Served <= readies /\ readies' = readies
      BY DEF GrantInv, AskedInv
    <2>2. CASE Served' <= Served
      BY <1>1, <1>2, <1>3, <2>1, <2>2
    <2>3. CASE written[1] = ReadyByte
      <3>1. Count(written') + 1 <= Count(written)
        BY <1>2, <2>3
      <3> QED BY <1>1, <1>3, <2>1, <3>1
    <2> QED BY <2>2, <2>3
  <1>5. Len(written') + (IF role' = "router" THEN 2 * Served' ELSE Served') <= writes'
    <2>1. /\ Len(written) + (IF role = "router" THEN 2 * Served ELSE Served) <= writes
          /\ role' = role /\ writes' = writes /\ Len(written') = Len(written) - n
      BY <1>2 DEF GrantInv, AskedInv
    <2>2. CASE role = "router"
      BY <1>1, <2>1, <2>2
    <2>3. CASE role # "router"
      BY <1>1, <2>1, <2>3
    <2> QED BY <2>2, <2>3
  <1>6. Count(written)' = Count(written')
    BY DEF Count, ReadyAt
  <1> QED BY <1>2, <1>4, <1>5, <1>6 DEF AskedInv

-----------------------------------------------------------------------------
(* wait_for_ready.                                                         *)
LEMMA WaitStep ==
  ASSUME GrantInv, WaitForReady
  PROVE  GrantInv'
  <1> USE DEF GrantInv
  <1>1. /\ role = "session" /\ chan = "AwaitingReady"
        /\ UNCHANGED <<role, kind, chanPeer, writes, readies, step, services, granted, held>>
    BY DEF WaitForReady, routeVars
  <1>2. chan' \in {"Ready", "Failed"} /\ held = <<>> /\ step.at = "idle" /\ chanPeer = "owner"
    BY <1>1 DEF WaitForReady, ChanInv
  <1>3. ChanInv'
    BY <1>1, <1>2 DEF ChanInv
  <1>4. Served = 0 /\ Served' = IF chan' = "Ready" THEN 1 ELSE 0
    BY <1>1, <1>2 DEF Served
  <1>5. CASE ReadFails(1) /\ chan' = "Failed"
    <2>1. UNCHANGED written
      BY <1>5 DEF ReadFails
    <2>2. ChanTypes'
      BY <1>1, <1>2, <2>1 DEF ChanTypes
    <2>3. AskedInv'
      BY <1>1, <1>4, <1>5, <2>1, ServedShrinks
    <2> QED BY <1>3, <2>2, <2>3
  <1>6. CASE ReadExact(1) /\ chan' = IF Head(written) = ReadyByte THEN "Ready" ELSE "Failed"
    <2>1. written \in Seq(Nat) /\ written # <<>> /\ Head(written) = written[1]
      BY <1>6 DEF ReadExact, ChanTypes
    <2>2. AskedInv' /\ written' \in Seq(Nat)
      BY <1>1, <1>4, <1>6, <2>1, RequestRead
    <2>3. ChanTypes'
      BY <1>1, <1>2, <2>2 DEF ChanTypes
    <2> QED BY <1>3, <2>2, <2>3
  <1> QED BY <1>5, <1>6 DEF WaitForReady

(* send_prepared_fds: the request that was read becomes the grant.         *)
LEMMA SendPreparedStep ==
  ASSUME GrantInv, SendPreparedFds
  PROVE  GrantInv'
  <1> USE DEF GrantInv
  <1>1. /\ role = "session" /\ chan = "Ready" /\ held = <<>> /\ chanPeer = "owner"
        /\ step.at = "idle"
        /\ UNCHANGED <<role, kind, chanPeer, written, writes, readies, step, services, granted>>
    BY DEF SendPreparedFds, routeVars, ChanInv
  <1>2. CASE held' = Append(held, [what |-> kind, who |-> "none", route |-> 0])
             /\ chan' = "GrantSent"
    <2>1. /\ held' \in Seq([what : Kinds, who : Peers, route : Routes])
          /\ held' # <<>> /\ Len(held') = 1
      BY <1>1, <1>2, Constant DEF ChanTypes, Peers
    <2>2. ChanTypes' /\ ChanInv'
      BY <1>1, <1>2, <2>1 DEF ChanTypes, ChanInv
    <2>3. Served = 1 /\ Served' = 1
      BY <1>1, <1>2, <2>1 DEF Served
    <2> QED BY <1>1, <2>2, <2>3, ServedShrinks
  <1>3. CASE UNCHANGED held /\ chan' = "Failed"
    <2>1. ChanTypes' /\ ChanInv'
      BY <1>1, <1>3 DEF ChanTypes, ChanInv
    <2>2. Served = 1 /\ Served' = 0
      BY <1>1, <1>3 DEF Served
    <2> QED BY <1>1, <2>1, <2>2, ServedShrinks
  <1> QED BY <1>2, <1>3 DEF SendPreparedFds, Transferred, TransferFails

-----------------------------------------------------------------------------
(* A controller that fails gives up the request it was serving.            *)
LEMMA ControllerFailure ==
  ASSUME GrantInv, ControllerFails, chan = "open",
         UNCHANGED <<role, kind, chanPeer, writes, readies, services, granted, held>>
  PROVE  /\ ChanInv' /\ Served' \in Nat /\ Served' <= Served
         /\ written' \in Seq(Nat) => ChanTypes'
  <1> USE DEF GrantInv
  <1>1. chan' = "Failed" /\ step' = NoStep /\ role # "session" /\ chanPeer = "owner"
    BY DEF ControllerFails, ChanInv
  <1>2. step' \in StepType /\ step'.at = "idle"
    BY <1>1, Constant DEF NoStep, StepType, Peers
  <1>3. ChanInv'
    BY <1>1, <1>2 DEF ChanInv
  <1>4. Served' = Len(held) /\ Len(held) \in Nat
    BY <1>1, <1>2 DEF Served, ChanTypes
  <1>5. Served \in {Len(held), Len(held) + 1}
    BY DEF Served
  <1>6. written' \in Seq(Nat) => ChanTypes'
    BY <1>1, <1>2 DEF ChanTypes
  <1> QED BY <1>3, <1>4, <1>5, <1>6

(* grant_next, first step: the request of a route or of a reconnection.    *)
LEMMA RequestStep ==
  ASSUME GrantInv, RouteRequest \/ ReconnectRequest
  PROVE  GrantInv'
  <1> USE DEF GrantInv
  <1> DEFINE n == IF role = "router" THEN 2 ELSE 1
  <1>1. /\ chan = "open" /\ step.at = "idle" /\ chanPeer = "owner" /\ role # "session"
        /\ UNCHANGED <<role, kind, chanPeer, writes, readies, services, granted, held>>
    BY DEF RouteRequest, ReconnectRequest, ChanInv
  <1>2. \/ ControllerFails /\ UNCHANGED written
        \/ ReadExact(n) /\ ControllerFails
        \/ /\ ReadExact(n) /\ written[1] = ReadyByte /\ UNCHANGED chan
           /\ step' \in StepType /\ step'.at = "connect"
    <2>1. CASE RouteRequest
      <3>1. ASSUME NEW r \in Routes, step' = [NoStep EXCEPT !.at = "connect", !.route = r]
            PROVE  step' \in StepType /\ step'.at = "connect"
        BY <3>1 DEF NoStep, StepType, Peers
      <3> QED BY <2>1, <3>1 DEF RouteRequest, ReadFails, RouteOpen
    <2>2. CASE ReconnectRequest
      <3>1. ReadExact(1) => Head(written) = written[1]
        <4> SUFFICES ASSUME Len(written) >= 1 PROVE Head(written) = written[1]
          BY DEF ReadExact
        <4>1. written \in Seq(Nat) /\ written # <<>>
          BY DEF ChanTypes
        <4> QED BY <4>1
      <3>2. step' = [NoStep EXCEPT !.at = "connect"] =>
              step' \in StepType /\ step'.at = "connect"
        BY Constant DEF NoStep, StepType, Peers
      <3> QED BY <2>2, <3>1, <3>2 DEF ReconnectRequest, ReadFails
    <2> QED BY <2>1, <2>2
  <1>3. Served \in Nat /\ Served = Len(held)
    BY <1>1 DEF Served, ChanTypes
  <1>4. CASE ControllerFails /\ UNCHANGED written
    <2>1. written' \in Seq(Nat)
      BY <1>4 DEF ChanTypes
    <2> QED BY <1>1, <1>4, <2>1, ControllerFailure, ServedShrinks
  <1>5. CASE ReadExact(n) /\ ControllerFails
    <2>1. ChanInv' /\ Served' \in Nat /\ Served' <= Served
      BY <1>1, <1>5, ControllerFailure
    <2>2. AskedInv' /\ written' \in Seq(Nat)
      BY <1>1, <1>3, <1>5, <2>1, RequestRead
    <2> QED BY <1>1, <1>5, <2>1, <2>2, ControllerFailure
  <1>6. CASE /\ ReadExact(n) /\ written[1] = ReadyByte /\ UNCHANGED chan
             /\ step' \in StepType /\ step'.at = "connect"
    <2>1. step' \in StepType /\ step'.at = "connect"
      BY <1>6
    <2>2. ChanInv'
      BY <1>1, <1>6, <2>1 DEF ChanInv
    <2>3. Served' = Served + 1
      BY <1>1, <1>3, <1>6, <2>1 DEF Served
    <2>4. AskedInv' /\ written' \in Seq(Nat)
      BY <1>1, <1>3, <1>6, <2>3, RequestRead
    <2>5. ChanTypes'
      BY <1>1, <1>6, <2>1, <2>4 DEF ChanTypes
    <2> QED BY <2>2, <2>4, <2>5
  <1> QED BY <1>2, <1>4, <1>5, <1>6

(* grant_next, second step: the connection to the host service.            *)
LEMMA ConnectStep ==
  ASSUME GrantInv, PrepareHostUnixStream
  PROVE  GrantInv'
  <1> USE DEF GrantInv
  <1>1. /\ step.at = "connect" /\ chan = "open"
        /\ UNCHANGED <<role, kind, chanPeer, written, writes, readies, services, granted, held>>
    BY DEF PrepareHostUnixStream, ChanInv
  <1>2. CASE ControllerFails
    <2>1. written' \in Seq(Nat)
      BY <1>1 DEF ChanTypes
    <2> QED BY <1>1, <1>2, <2>1, ControllerFailure, ServedShrinks
  <1>3. CASE step' = [step EXCEPT !.at = "send", !.who = services[step.route]] /\ UNCHANGED chan
    <2>1. step \in StepType /\ services[step.route] \in Peers
      BY DEF ChanTypes, StepType
    <2>2. step' \in StepType /\ step'.at = "send"
      BY <1>3, <2>1 DEF StepType
    <2>3. ChanTypes' /\ ChanInv'
      BY <1>1, <1>3, <2>2 DEF ChanTypes, ChanInv
    <2>4. Served' = Served /\ Served \in Nat
      BY <1>1, <1>3, <2>2 DEF Served, ChanTypes
    <2> QED BY <1>1, <2>3, <2>4, ServedShrinks
  <1> QED BY <1>2, <1>3 DEF PrepareHostUnixStream

(* grant_next, last step: the connection is sent and counted.              *)
LEMMA SendRouteStep ==
  ASSUME GrantInv, SendRoute
  PROVE  GrantInv'
  <1> USE DEF GrantInv
  <1>1. /\ step.at = "send" /\ chan = "open" /\ role # "session" /\ chanPeer = "owner"
        /\ UNCHANGED <<role, kind, chanPeer, written, writes, readies, services>>
    BY DEF SendRoute, ChanInv
  <1>2. CASE ControllerFails /\ UNCHANGED <<held, granted>>
    <2>1. written' \in Seq(Nat)
      BY <1>1 DEF ChanTypes
    <2> QED BY <1>1, <1>2, <2>1, ControllerFailure, ServedShrinks
  <1>3. CASE /\ held' = Append(held, [what |-> "hoststream", who |-> step.who,
                                      route |-> step.route])
             /\ granted' = [granted EXCEPT ![step.route] = @ + 1]
             /\ step' = NoStep /\ UNCHANGED chan
    <2>1. step.route \in Routes /\ step.who \in Peers
      BY DEF ChanTypes, StepType
    <2>2. held' \in Seq([what : Kinds, who : Peers, route : Routes])
          /\ held' # <<>> /\ Len(held') = Len(held) + 1
      BY <1>3, <2>1 DEF ChanTypes, Kinds
    <2>3. granted' \in [Routes -> Nat]
      BY <1>3, <2>1 DEF ChanTypes
    <2>4. step' \in StepType /\ step'.at = "idle"
      BY <1>3, Constant DEF NoStep, StepType, Peers
    <2>5. ChanTypes'
      BY <1>1, <1>3, <2>2, <2>3, <2>4 DEF ChanTypes
    <2>6. ChanInv'
      BY <1>1, <1>3, <2>2, <2>4 DEF ChanInv
    <2>7. Served' = Served /\ Served \in Nat
      BY <1>1, <1>3, <2>2, <2>4 DEF Served, ChanTypes
    <2> QED BY <1>1, <2>5, <2>6, <2>7, ServedShrinks
  <1> QED BY <1>2, <1>3 DEF SendRoute, Transferred, TransferFails

-----------------------------------------------------------------------------
LEMMA FdNextInv ==
  ASSUME FdInv, [FdNext]_fdVars
  PROVE  /\ FdInv'
         /\ lease.state # "Active" =>
              /\ lease'.state = lease.state /\ lease'.piped = lease.piped
              /\ lease.state = "Revoked" => lease'.io = lease.io
  <1> DEFINE Final == lease.state # "Active" =>
                        /\ lease'.state = lease.state /\ lease'.piped = lease.piped
                        /\ lease.state = "Revoked" => lease'.io = lease.io
  <1>1. LeaseInv /\ SnapInv /\ GrantInv
    BY DEF FdInv, GrantInv
  <1>2. ASSUME UNCHANGED <<kind, lease, snap, swaps>>, GrantInv'
        PROVE  FdInv' /\ Final
    BY <1>1, <1>2, LeaseKept, SnapKept DEF FdInv, GrantInv
  <1>3. CASE \E who \in {"owner", "other"} : Connect(who)
    <2>1. UNCHANGED <<role, kind, chan, chanPeer, written, writes, readies, step, services, granted,
                      held, lease, snap, swaps>>
      BY <1>3 DEF Connect, routeVars
    <2> QED BY <1>1, <1>2, <2>1, ChanKept DEF GrantInv
  <1>4. CASE TargetCloses
    <2>1. UNCHANGED <<role, kind, chan, chanPeer, written, writes, readies, step, services, granted,
                      held, lease, snap, swaps>>
      BY <1>4 DEF TargetCloses, routeVars
    <2> QED BY <1>1, <1>2, <2>1, ChanKept DEF GrantInv
  <1>5. CASE Accept \/ AcceptRouter \/ AcceptReconnect
    <2>1. UNCHANGED <<kind, lease, snap, swaps>>
      BY <1>5 DEF Accept, AcceptRouter, AcceptReconnect, AcceptTrustedStream, routeVars
    <2> QED BY <1>1, <1>2, <1>5, <2>1, AcceptStep
  <1>6. CASE \E b \in Bytes : TargetWrites(b)
    <2>1. UNCHANGED <<kind, lease, snap, swaps>>
      BY <1>6 DEF TargetWrites, routeVars
    <2> QED BY <1>1, <1>2, <1>6, <2>1, WriteStep
  <1>7. CASE WaitForReady \/ SendPreparedFds
    <2>1. UNCHANGED <<kind, lease, snap, swaps>>
      BY <1>7 DEF WaitForReady, SendPreparedFds, routeVars
    <2> QED BY <1>1, <1>2, <1>7, <2>1, WaitStep, SendPreparedStep
  <1>8. CASE RouteRequest \/ ReconnectRequest \/ PrepareHostUnixStream \/ SendRoute
    <2>1. UNCHANGED <<kind, lease, snap, swaps>>
      BY <1>8 DEF RouteRequest, ReconnectRequest, PrepareHostUnixStream, SendRoute
    <2> QED BY <1>1, <1>2, <1>8, <2>1, RequestStep, ConnectStep, SendRouteStep
  <1>9. CASE \E r \in Routes, who \in {"expected", "other", "absent"} : ServiceChanges(r, who)
    <2>1. PICK r \in Routes, who \in {"expected", "other", "absent"} : ServiceChanges(r, who)
      BY <1>9
    <2>2. /\ UNCHANGED <<role, kind, chan, chanPeer, written, writes, readies, step, granted, held,
                         lease, snap>>
          /\ swaps' = swaps + 1 /\ services' = [services EXCEPT ![r] = who]
      BY <2>1 DEF ServiceChanges, chanVars
    <2>3. services' \in [Routes -> Peers]
      BY <1>1, <2>2 DEF GrantInv, ChanTypes, Peers
    <2>4. ChanTypes' /\ ChanInv'
      BY <1>1, <2>2, <2>3 DEF GrantInv, ChanTypes, ChanInv
    <2>5. AskedInv'
      <3>1. Served' = Served /\ Served \in Nat
        BY <1>1, <2>2 DEF Served, GrantInv, ChanTypes
      <3> QED BY <1>1, <2>2, <3>1, ServedShrinks
    <2>6. LeaseInv' /\ SnapInv'
      <3>1. swaps' \in Nat
        BY <1>1, <2>2 DEF SnapInv
      <3> QED BY <1>1, <2>2, <3>1, LeaseKept DEF SnapInv
    <2> QED BY <2>2, <2>4, <2>5, <2>6 DEF FdInv
  <1>10. CASE SnapNext
    <2>1. SnapInv' /\ UNCHANGED <<role, kind, chanVars, step, services, granted, held, lease>>
      BY <1>1, <1>10, SnapStep
    <2>2. GrantInv'
      BY <1>1, <2>1, ChanKept DEF chanVars, GrantInv
    <2>3. LeaseInv'
      BY <1>1, <2>1, LeaseKept
    <2> QED BY <2>1, <2>2, <2>3 DEF FdInv, GrantInv
  <1>11. CASE LeaseNext
    <2>1. LeaseInv' /\ Final /\ UNCHANGED <<role, kind, chanVars, routeVars, held, snap>>
      BY <1>1, <1>11, LeaseStep
    <2>2. GrantInv'
      BY <1>1, <2>1, ChanKept DEF chanVars, routeVars, GrantInv
    <2>3. SnapInv'
      BY <1>1, <2>1, SnapKept DEF routeVars
    <2> QED BY <2>1, <2>2, <2>3 DEF FdInv, GrantInv
  <1>12. CASE UNCHANGED fdVars
    <2>1. UNCHANGED <<role, kind, chan, chanPeer, written, writes, readies, step, services, granted,
                      held, lease, snap, swaps>>
      BY <1>12 DEF fdVars, chanVars, routeVars
    <2> QED BY <1>1, <1>2, <2>1, ChanKept DEF GrantInv
  <1> QED
    BY <1>3, <1>4, <1>5, <1>6, <1>7, <1>8, <1>9, <1>10, <1>11, <1>12
    DEF FdNext, SnapNext, LeaseNext

(* The inductive invariant of the grants.                                  *)
THEOREM FdInvariance == FdSpec => []FdInv
  <1>1. FdInv /\ [FdNext]_fdVars => FdInv'
    BY FdNextInv
  <1> QED BY <1>1, FdInitInv, PTL DEF FdSpec

(* The states of channel, grant, lease and snapshot agree.                 *)
THEOREM FdTypeCorrect == FdSpec => []FdTypeOK
  <1>1. FdInv => FdTypeOK
    <2> SUFFICES ASSUME FdInv PROVE FdTypeOK
      OBVIOUS
    <2>1. lease.left \in Nat /\ lease.state \in {"Active", "Revoked", "Failed"}
      BY DEF FdInv, LeaseInv, LeaseType
    <2>2. lease.left > 0 => lease.state = "Active"
      BY <2>1 DEF FdInv, LeaseInv
    <2>3. snap.at \in {"copying", "copied", "sealed", "bundled", "refused"}
      BY DEF FdInv, SnapInv, SnapType
    <2>4. step.at \in {"idle", "connect", "send"} /\ step.route \in Routes
      BY DEF FdInv, ChanTypes, StepType
    <2>5. chan = "GrantSent" <=> role = "session" /\ held # <<>>
      BY DEF FdInv, ChanInv
    <2> QED BY <2>1, <2>2, <2>3, <2>4, <2>5 DEF FdInv, ChanTypes, ChanInv, FdTypeOK
  <1> QED BY <1>1, FdInvariance, PTL

(* Each capability the target holds used up a readiness byte of its own,   *)
(* written on a connection of the owner's process.                         *)
THEOREM GrantsWereAskedFor == FdSpec => []GrantAskedFor
  <1>1. FdInv => GrantAskedFor
    <2> SUFFICES ASSUME FdInv, held # <<>>
                 PROVE  /\ chanPeer = "owner" /\ Len(held) <= readies
                        /\ Len(written) + (IF role = "router" THEN 2 ELSE 1) * Len(held) <= writes
      BY DEF GrantAskedFor
    <2>1. chanPeer = "owner"
      BY DEF FdInv, ChanInv
    <2>2. /\ Len(held) \in Nat /\ Len(written) \in Nat /\ Count(written) \in Nat
          /\ writes \in Nat /\ readies \in Nat
      BY CountType DEF FdInv, ChanTypes
    <2>3. Served \in Nat /\ Len(held) <= Served
      BY <2>2 DEF Served
    <2> QED BY <2>1, <2>2, <2>3 DEF FdInv, AskedInv
  <1> QED BY <1>1, FdInvariance, PTL

(* The byte budget counts what the kernel took and is never exceeded.      *)
THEOREM SupplyIsExact == FdSpec => []SupplyExact
  <1>1. FdInv => SupplyExact
    BY DEF FdInv, LeaseInv
  <1> QED BY <1>1, FdInvariance, PTL

(* Nothing passes after a revocation and no call undoes one.               *)
THEOREM RevocationHolds == FdSpec => RevokedIsFinal
  <1>1. FdInv /\ [FdNext]_fdVars =>
          [lease.state # "Active" =>
             /\ lease'.state = lease.state /\ lease'.piped = lease.piped
             /\ lease.state = "Revoked" => lease'.io = lease.io]_fdVars
    BY FdNextInv
  <1> QED BY <1>1, FdInvariance, PTL DEF FdSpec, RevokedIsFinal

-----------------------------------------------------------------------------
(* What is granted stays within what was prepared.  The counters follow    *)
(* what the target holds, and the grant in progress already fits: its      *)
(* route has room and, once connected, its peer is the expected one.       *)
HeldOn(r) == {k \in DOMAIN held : held[k].route = r}

RouteInv ==
  /\ role # "session" => kind = "hoststream"
  /\ role # "session" => total = Len(held)
  /\ role # "session" => \A r \in Routes : granted[r] = Cardinality(HeldOn(r))
  /\ role # "session" => \A r \in Routes : granted[r] <= MaxPerRoute[r]
  /\ step.at # "idle" => granted[step.route] < MaxPerRoute[step.route]
  /\ step.at = "send" => PeerMatches(step.route, step.who)
  /\ role # "session" =>
       \A k \in DOMAIN held : held[k].route \in Pinned => held[k].who = "expected"

(* How many items are sealed in each state of the copy, none above its     *)
(* ceiling, and that a grant waits for the last of these states.           *)
ItemsInv ==
  /\ Len(snap.copy) <= MaxSnapshot
  /\ \A k \in DOMAIN snap.items : Len(snap.items[k]) <= MaxSnapshot
  /\ snap.at # "copying" => kind \in {"snapshot", "bundle"}
  /\ snap.at \in {"copying", "copied"} =>
       Len(snap.items) < (IF kind = "bundle" THEN BundleItems ELSE 1)
  /\ snap.at \in {"sealed", "bundled"} =>
       Len(snap.items) = (IF kind = "bundle" THEN BundleItems ELSE 1)
  /\ snap.at = "bundled" => kind = "bundle" /\ ~(SizeOf(snap.items) > MaxTotal)
  /\ held # <<>> => Prepared

PolicyInv == RouteInv /\ ItemsInv

LEMMA PolicyInit == FdInit => PolicyInv
  <1> SUFFICES ASSUME FdInit PROVE PolicyInv
    OBVIOUS
  <1>1. held = <<>> /\ DOMAIN held = {} /\ Len(held) = 0 /\ step.at = "idle" /\ total = 0
    BY DEF FdInit, NoStep
  <1>2. \A r \in Routes : HeldOn(r) = {}
    BY <1>1 DEF HeldOn
  <1>3. \A r \in Routes : granted[r] = 0 /\ MaxPerRoute[r] \in 1..8
    BY FdAssumption DEF FdInit
  <1>4. \A r \in Routes : granted[r] = Cardinality(HeldOn(r)) /\ granted[r] <= MaxPerRoute[r]
    BY <1>2, <1>3, FS_EmptySet
  <1>5. RouteInv
    BY <1>1, <1>4 DEF RouteInv, FdInit
  <1>6. /\ snap.at = "copying" /\ Len(snap.copy) = 0 /\ Len(snap.items) = 0
        /\ DOMAIN snap.items = {}
    BY DEF FdInit, EmptySnap
  <1>7. MaxSnapshot \in Nat \ {0}
    BY FdAssumption
  <1>8. ItemsInv
    BY <1>1, <1>6, <1>7 DEF ItemsInv, BundleItems
  <1> QED BY <1>5, <1>8 DEF PolicyInv

LEMMA RouteKept ==
  ASSUME RouteInv, UNCHANGED <<role, kind, step, granted, total, held>>
  PROVE  RouteInv'
  BY DEF RouteInv, HeldOn, PeerMatches

LEMMA ItemsKept ==
  ASSUME ItemsInv, UNCHANGED <<kind, snap, held>>
  PROVE  ItemsInv'
  <1>1. SizeOf(snap'.items) = SizeOf(snap.items)
    OBVIOUS
  <1> QED BY <1>1 DEF ItemsInv, Prepared

(* A controller that fails forgets the grant in progress.                  *)
LEMMA RouteForgotten ==
  ASSUME RouteInv, step' = NoStep, UNCHANGED <<role, kind, granted, total, held>>
  PROVE  RouteInv'
  <1>1. step'.at = "idle"
    BY DEF NoStep
  <1> QED BY <1>1 DEF RouteInv, HeldOn

(* grant_next begins on a route with room.                                 *)
LEMMA RouteRequested ==
  ASSUME FdInv, RouteInv, RouteRequest \/ ReconnectRequest
  PROVE  RouteInv'
  <1>1. UNCHANGED <<role, kind, granted, total, held>>
    BY DEF RouteRequest, ReconnectRequest
  <1>2. \/ step' = NoStep
        \/ \E r \in Routes : /\ granted[r] < MaxPerRoute[r]
                             /\ step'.at = "connect" /\ step'.route = r
    <2>1. CASE RouteRequest
      <3>1. ASSUME NEW r \in Routes, step' = [NoStep EXCEPT !.at = "connect", !.route = r]
            PROVE  step'.at = "connect" /\ step'.route = r
        BY <3>1 DEF NoStep
      <3> QED BY <2>1, <3>1 DEF RouteRequest, ControllerFails, RouteOpen
    <2>2. CASE ReconnectRequest
      <3>1. step' = [NoStep EXCEPT !.at = "connect"] => step'.at = "connect" /\ step'.route = 0
        BY DEF NoStep
      <3> QED BY <2>2, <3>1, Constant DEF ReconnectRequest, ControllerFails
    <2> QED BY <2>1, <2>2
  <1>3. CASE step' = NoStep
    BY <1>1, <1>3, RouteForgotten
  <1>4. ASSUME NEW r \in Routes, granted[r] < MaxPerRoute[r],
               step'.at = "connect", step'.route = r
        PROVE  RouteInv'
    BY <1>1, <1>4 DEF RouteInv, HeldOn
  <1> QED BY <1>2, <1>3, <1>4

(* The peer was asked of the very socket that is sent next, so a service   *)
(* that changes afterwards does not matter.                                *)
LEMMA PeerChecked ==
  ASSUME FdInv, RouteInv, PrepareHostUnixStream
  PROVE  RouteInv'
  <1>1. UNCHANGED <<role, kind, granted, total, held>> /\ step.at = "connect"
    BY DEF PrepareHostUnixStream
  <1>2. \/ step' = NoStep
        \/ /\ PeerMatches(step.route, services[step.route])
           /\ step' = [step EXCEPT !.at = "send", !.who = services[step.route]]
    BY DEF PrepareHostUnixStream, ControllerFails
  <1>3. CASE step' = NoStep
    BY <1>1, <1>3, RouteForgotten
  <1>4. CASE /\ PeerMatches(step.route, services[step.route])
             /\ step' = [step EXCEPT !.at = "send", !.who = services[step.route]]
    <2>1. step \in StepType
      BY DEF FdInv, ChanTypes
    <2>2. /\ step'.at = "send" /\ step'.route = step.route
          /\ step'.who = services[step.route]
      BY <1>4, <2>1 DEF StepType
    <2> QED BY <1>1, <1>4, <2>2 DEF RouteInv, HeldOn, PeerMatches
  <1> QED BY <1>2, <1>3, <1>4

(* The transfer and the counters move together.                            *)
LEMMA RouteSent ==
  ASSUME FdInv, RouteInv, SendRoute
  PROVE  RouteInv'
  <1>1. UNCHANGED <<role, kind>> /\ step.at = "send" /\ role # "session"
    BY DEF SendRoute, FdInv, ChanInv
  <1>2. CASE step' = NoStep /\ UNCHANGED <<granted, total, held>>
    BY <1>1, <1>2, RouteForgotten
  <1>3. CASE /\ held' = Append(held, [what |-> "hoststream", who |-> step.who,
                                      route |-> step.route])
             /\ granted' = [granted EXCEPT ![step.route] = @ + 1]
             /\ total' = total + 1 /\ step' = NoStep
    <2> DEFINE item == [what |-> "hoststream", who |-> step.who, route |-> step.route]
               n    == Len(held) + 1
    <2>1. /\ held \in Seq([what : Kinds, who : Peers, route : Routes])
          /\ granted \in [Routes -> Nat] /\ step.route \in Routes /\ step.who \in Peers
      BY DEF FdInv, ChanTypes, StepType
    <2>2. item \in [what : Kinds, who : Peers, route : Routes]
      BY <2>1 DEF Kinds
    <2>3. item.route = step.route /\ item.who = step.who
      OBVIOUS
    <2> HIDE DEF item
    <2>4. /\ Len(held') = n /\ DOMAIN held' = (DOMAIN held) \cup {n} /\ n \notin DOMAIN held
          /\ held'[n] = item /\ \A k \in DOMAIN held : held'[k] = held[k]
      <3>1. held' = Append(held, item)
        BY <1>3 DEF item
      <3> QED BY <2>1, <2>2, <3>1
    <2>5. Len(held) \in Nat
      BY <2>1
    <2> HIDE DEF n
    <2>6. ASSUME NEW r \in Routes
          PROVE  /\ IsFiniteSet(HeldOn(r))
                 /\ (HeldOn(r))' = IF r = step.route THEN HeldOn(r) \cup {n} ELSE HeldOn(r)
                 /\ n \notin HeldOn(r)
      <3>1. HeldOn(r) \subseteq 1..Len(held)
        BY <2>1 DEF HeldOn
      <3>2. IsFiniteSet(1..Len(held))
        BY <2>5, FS_Interval
      <3>3. IsFiniteSet(HeldOn(r))
        BY <3>1, <3>2, FS_Subset
      <3> QED BY <2>3, <2>4, <3>3 DEF HeldOn
    <2>7. ASSUME NEW r \in Routes
          PROVE  granted'[r] = Cardinality((HeldOn(r))')
      <3>1. granted[r] = Cardinality(HeldOn(r))
        BY <1>1 DEF RouteInv
      <3>2. r = step.route => Cardinality((HeldOn(r))') = Cardinality(HeldOn(r)) + 1
        BY <2>6, FS_AddElement
      <3> QED BY <1>3, <2>1, <2>6, <3>1, <3>2
    <2>8. ASSUME NEW r \in Routes
          PROVE  granted'[r] <= MaxPerRoute[r]
      <3>1. granted[r] \in Nat /\ MaxPerRoute[r] \in Nat
        <4>1. MaxPerRoute \in [Routes -> 1..8]
          BY FdAssumption
        <4>2. MaxPerRoute[r] \in 1..8
          BY <4>1
        <4> QED BY <2>1, <4>2
      <3>2. granted[r] <= MaxPerRoute[r]
        BY <1>1 DEF RouteInv
      <3>3. r = step.route => granted[r] < MaxPerRoute[r]
        BY <1>1 DEF RouteInv
      <3> QED BY <1>3, <2>1, <3>1, <3>2, <3>3
    <2>9. total' = Len(held')
      BY <1>1, <1>3, <2>4, <2>5 DEF RouteInv, n
    <2>10. ASSUME NEW k \in DOMAIN held', held'[k].route \in Pinned
           PROVE  held'[k].who = "expected"
      <3>1. CASE k = n
        BY <1>1, <2>3, <2>4, <2>10, <3>1 DEF RouteInv, PeerMatches
      <3>2. CASE k \in DOMAIN held
        BY <1>1, <2>4, <2>10, <3>2 DEF RouteInv
      <3> QED BY <2>4, <3>1, <3>2
    <2>11. step'.at = "idle"
      BY <1>3 DEF NoStep
    <2> QED BY <1>1, <2>7, <2>8, <2>9, <2>10, <2>11 DEF RouteInv
  <1> QED BY <1>2, <1>3 DEF SendRoute, Transferred, TransferFails, ControllerFails

(* The copy and its sealing.                                               *)
LEMMA ItemsStep ==
  ASSUME FdInv, ItemsInv, SnapNext
  PROVE  ItemsInv'
  <1>1. /\ snap \in SnapType /\ UNCHANGED <<kind, held>>
        /\ MaxSnapshot \in Nat
    BY SnapStep, FdAssumption DEF FdInv, SnapInv
  <1>2. held # <<>> /\ kind \in {"snapshot", "bundle"} => snap.at \in {"sealed", "bundled"}
    BY DEF ItemsInv, Prepared
  <1>3. CASE CopySource
    <2>1. kind \in {"snapshot", "bundle"} /\ snap.at = "copying" /\ held = <<>>
      BY <1>2, <1>3 DEF CopySource
    <2>2. CASE \E at \in {"refused", "copied"} : CopyEnds(at)
      <3>1. /\ snap'.copy = snap.copy /\ snap'.items = snap.items
            /\ snap'.at \in {"refused", "copied"}
        BY <1>1, <2>2 DEF CopyEnds, SnapType
      <3> QED BY <1>1, <2>1, <3>1 DEF ItemsInv
    <2>3. CASE \E u \in Nat : /\ Len(snap.copy) + 1 <= MaxSnapshot
                              /\ snap' = [snap EXCEPT !.copy = Append(@, u)]
      <3>1. PICK u \in Nat : /\ Len(snap.copy) + 1 <= MaxSnapshot
                             /\ snap' = [snap EXCEPT !.copy = Append(@, u)]
        BY <2>3
      <3>2. /\ snap'.copy = Append(snap.copy, u) /\ snap'.items = snap.items
            /\ snap'.at = snap.at /\ snap.copy \in Seq(Nat)
        BY <1>1, <3>1 DEF SnapType
      <3>3. Len(snap'.copy) <= MaxSnapshot
        BY <3>1, <3>2
      <3> QED BY <1>1, <2>1, <3>2, <3>3 DEF ItemsInv
    <2>4. \/ \E at \in {"refused", "copied"} : CopyEnds(at)
          \/ /\ Len(snap.copy) + 1 <= Len(snap.source) /\ Len(snap.copy) + 1 <= MaxSnapshot
             /\ snap' = [snap EXCEPT !.copy = Append(@, snap.source[Len(snap.copy) + 1])]
      BY <1>3 DEF CopySource
    <2>5. Len(snap.copy) + 1 <= Len(snap.source) => snap.source[Len(snap.copy) + 1] \in Nat
      BY <1>1 DEF SnapType
    <2> QED BY <2>2, <2>3, <2>4, <2>5
  <1>4. CASE SealCopy
    <2>1. snap.at = "copied" /\ kind \in {"snapshot", "bundle"}
      BY <1>4 DEF SealCopy, ItemsInv
    <2>2. held = <<>>
      BY <1>2, <2>1
    <2>3. CASE CopyEnds("refused")
      <3>1. /\ snap'.copy = snap.copy /\ snap'.items = snap.items /\ snap'.at = "refused"
        BY <1>1, <2>3 DEF CopyEnds, SnapType
      <3> QED BY <1>1, <2>1, <2>2, <3>1 DEF ItemsInv
    <2>4. CASE ~CopyEnds("refused")
      <3> DEFINE items == Append(snap.items, snap.copy)
      <3>1. /\ snap'.items = items /\ snap'.copy = <<>>
            /\ snap'.at = IF kind = "bundle" /\ Len(items) < BundleItems
                          THEN "copying" ELSE "sealed"
        BY <1>1, <1>4, <2>4 DEF SealCopy, SnapType
      <3>2. snap.items \in Seq(Seq(Nat)) /\ snap.copy \in Seq(Nat)
        BY <1>1 DEF SnapType
      <3>3. /\ Len(items) = Len(snap.items) + 1 /\ Len(snap.items) \in Nat
            /\ DOMAIN items = (DOMAIN snap.items) \cup {Len(snap.items) + 1}
            /\ \A k \in DOMAIN snap.items : items[k] = snap.items[k]
            /\ items[Len(snap.items) + 1] = snap.copy
        BY <3>2
      <3>4. Len(snap.items) < (IF kind = "bundle" THEN BundleItems ELSE 1)
        BY <2>1 DEF ItemsInv
      <3> HIDE DEF items
      <3>5. \A k \in DOMAIN snap'.items : Len(snap'.items[k]) <= MaxSnapshot
        BY <3>1, <3>3 DEF ItemsInv
      <3>6. /\ snap'.at = "copying" => kind = "bundle" /\ Len(snap'.items) < BundleItems
            /\ snap'.at # "copying" =>
                 /\ snap'.at = "sealed"
                 /\ Len(snap'.items) = (IF kind = "bundle" THEN BundleItems ELSE 1)
        BY <3>1, <3>3, <3>4 DEF BundleItems
      <3>7. Len(snap'.copy) <= MaxSnapshot
        BY <1>1, <3>1
      <3> QED BY <1>1, <2>1, <2>2, <3>5, <3>6, <3>7 DEF ItemsInv
    <2> QED BY <2>3, <2>4
  <1>5. CASE PrepareBundle
    <2>1. kind = "bundle" /\ snap.at = "sealed"
      BY <1>5 DEF PrepareBundle
    <2>2. held = <<>>
      BY <2>1 DEF ItemsInv, Prepared
    <2>3. /\ snap'.copy = snap.copy /\ snap'.items = snap.items
          /\ snap'.at = IF SizeOf(snap.items) > MaxTotal THEN "refused" ELSE "bundled"
      BY <1>1, <1>5 DEF PrepareBundle, CopyEnds, SnapType
    <2>4. SizeOf(snap'.items) = SizeOf(snap.items)
      BY <2>3
    <2> QED BY <1>1, <2>1, <2>2, <2>3, <2>4 DEF ItemsInv
  <1>6. CASE SourceChanges
    <2>1. snap'.copy = snap.copy /\ snap'.items = snap.items /\ snap'.at = snap.at
      BY <1>1, <1>6 DEF SourceChanges, SnapType
    <2>2. SizeOf(snap'.items) = SizeOf(snap.items)
      BY <2>1
    <2> QED BY <1>1, <2>1, <2>2 DEF ItemsInv, Prepared
  <1> QED BY <1>3, <1>4, <1>5, <1>6 DEF SnapNext

LEMMA PolicyStep ==
  ASSUME FdInv, PolicyInv, [FdNext]_fdVars
  PROVE  PolicyInv'
  <1>1. RouteInv /\ ItemsInv
    BY DEF PolicyInv
  <1>2. CASE UNCHANGED <<role, kind, step, granted, total, held, snap>>
    BY <1>1, <1>2, RouteKept, ItemsKept DEF PolicyInv
  <1>3. CASE RouteRequest \/ ReconnectRequest \/ PrepareHostUnixStream
    <2>1. UNCHANGED <<kind, snap, held>>
      BY <1>3 DEF RouteRequest, ReconnectRequest, PrepareHostUnixStream
    <2> QED BY <1>1, <1>3, <2>1, RouteRequested, PeerChecked, ItemsKept DEF PolicyInv
  <1>4. CASE SendRoute
    <2>1. UNCHANGED <<kind, snap>> /\ role # "session"
      BY <1>4 DEF SendRoute, FdInv, ChanInv
    <2>2. kind = "hoststream"
      BY <1>1, <2>1 DEF RouteInv
    <2>3. ItemsInv'
      BY <1>1, <2>1, <2>2 DEF ItemsInv, Prepared
    <2> QED BY <1>1, <1>4, <2>3, RouteSent DEF PolicyInv
  <1>5. CASE SendPreparedFds
    <2>1. UNCHANGED <<role, kind, step, granted, total, snap>> /\ role = "session" /\ Prepared
      BY <1>5 DEF SendPreparedFds, routeVars
    <2>2. RouteInv'
      BY <1>1, <2>1 DEF RouteInv, PeerMatches
    <2>3. ItemsInv'
      <3>1. SizeOf(snap'.items) = SizeOf(snap.items)
        BY <2>1
      <3> QED BY <1>1, <2>1, <3>1 DEF ItemsInv, Prepared
    <2> QED BY <2>2, <2>3 DEF PolicyInv
  <1>6. CASE SnapNext
    <2>1. UNCHANGED <<role, kind, step, granted, held>>
      BY <1>6, SnapStep DEF FdInv
    <2>2. UNCHANGED total
      BY <1>6 DEF SnapNext, CopySource, SealCopy, PrepareBundle, SourceChanges, routeVars
    <2> QED BY <1>1, <1>6, <2>1, <2>2, RouteKept, ItemsStep DEF PolicyInv
  <1>7. CASE LeaseNext
    <2>1. UNCHANGED <<role, kind, routeVars, held, snap>>
      BY <1>7, LeaseStep DEF FdInv
    <2> QED BY <1>2, <2>1 DEF routeVars
  <1>8. CASE \/ \E who \in {"owner", "other"} : Connect(who)
             \/ Accept \/ AcceptRouter \/ AcceptReconnect
             \/ \E b \in Bytes : TargetWrites(b)
             \/ TargetCloses \/ WaitForReady \/ UNCHANGED fdVars
             \/ \E r \in Routes, who \in {"expected", "other", "absent"} : ServiceChanges(r, who)
    <2>1. UNCHANGED <<role, kind, step, granted, total, held, snap>>
      BY <1>8 DEF Connect, Accept, AcceptRouter, AcceptReconnect, AcceptTrustedStream,
                  TargetWrites, TargetCloses, WaitForReady, ServiceChanges, routeVars, fdVars
    <2> QED BY <1>2, <2>1
  <1> QED
    BY <1>3, <1>4, <1>5, <1>6, <1>7, <1>8 DEF FdNext, SnapNext, LeaseNext

(* What the target holds is within what was prepared: the counters count   *)
(* it exactly, no route exceeds its ceiling, a pinned route ends at its    *)
(* peer, and snapshots are complete and within their ceilings, however     *)
(* services and files change while a grant is made (grant_next,            *)
(* prepare_host_unix_stream, prepare_sealed_regular_file_snapshot).        *)
THEOREM GrantsStayWithinPolicy == FdSpec => []GrantWithinPolicy
  <1>1. FdInv /\ PolicyInv /\ [FdNext]_fdVars => PolicyInv'
    BY PolicyStep
  <1>2. FdInv /\ PolicyInv => GrantWithinPolicy
    <2> SUFFICES ASSUME FdInv, PolicyInv PROVE GrantWithinPolicy
      OBVIOUS
    <2>1. /\ role # "session" =>
               \A r \in Routes :
                 /\ granted[r] = Cardinality({k \in DOMAIN held : held[k].route = r})
                 /\ granted[r] <= MaxPerRoute[r]
          /\ role # "session" => total = Len(held)
          /\ \A k \in DOMAIN held :
               role # "session" /\ held[k].route \in Pinned => held[k].who = "expected"
      BY DEF PolicyInv, RouteInv, HeldOn
    <2>2. held # <<>> =>
            /\ kind \in {"snapshot", "bundle"} =>
                 Len(snap.items) = (IF kind = "bundle" THEN BundleItems ELSE 1)
            /\ \A k \in DOMAIN snap.items : Len(snap.items[k]) <= MaxSnapshot
            /\ kind = "bundle" => ~(SizeOf(snap.items) > MaxTotal)
      BY DEF PolicyInv, ItemsInv, Prepared
    <2> QED BY <2>1, <2>2 DEF GrantWithinPolicy
  <1> QED BY <1>1, <1>2, FdInvariance, PolicyInit, PTL DEF FdSpec

-----------------------------------------------------------------------------
(***************************************************************************)
(* MessageExchange.                                                        *)
(***************************************************************************)
(* The round the controller is in, by its state.                           *)
RoundInv ==
  /\ rounds \in 1..MaxRounds
  /\ done \in Nat /\ sent = done /\ taken \in Nat /\ taken <= rounds
  /\ state = "AwaitingRequest" => taken = sent /\ done < rounds
  /\ state = "RequestReceived" => taken = sent + 1 /\ done < rounds
  /\ state = "Complete" => taken = sent
  /\ state = "Failed" => taken = sent \/ taken = sent + 1

PeerInv ==
  /\ requests \in Seq({"good", "bad"}) /\ responses \in Nat
  /\ end \in {"open", "shut"} /\ session \in {"none", "armed", "expired"}

(* A call of a session that is over can only see the session's timer.      *)
LateInv ==
  /\ call \in {"recv_session", "send_session"} => session # "none"
  /\ call \in {"recv_deadline", "send_deadline"} => session = "none"
  /\ late => call \in {"none", "recv_session", "send_session"}
  /\ late /\ call # "none" => session = "expired" /\ (revents = {} \/ "timer" \in revents)

(* A call that could be served keeps being able to, and its poll says so.  *)
ReadyInv ==
  /\ ready /\ call = "recv_deadline" => Readable /\ (revents = {} \/ "socket" \in revents)
  /\ ready /\ call = "send_deadline" =>
       (Room \/ end = "shut") /\ (revents = {} \/ "socket" \in revents)

MxInv == MxTypeOK /\ RoundInv /\ PeerInv /\ LateInv /\ ReadyInv /\ DeadlinePrecedence

-----------------------------------------------------------------------------
LEMMA MxInitInv == MxInit => MxInv
  BY MxAssumption
  DEF MxInit, PrepareMessage, PrepareMultiMessage, MxInv, MxTypeOK, RoundInv, PeerInv, LateInv,
      ReadyInv, DeadlinePrecedence

(* How a call that fails ends.                                             *)
LEMMA FailedEnds ==
  ASSUME MxInv, NEW how \in {"error", "timeout"}, EndFailed(how),
         UNCHANGED <<rounds, session, end, ready, late>>,
         requests' \in Seq({"good", "bad"}), responses' \in Nat,
         how = "timeout" /\ session = "none" => ~ready
  PROVE  MxInv'
  BY DEF MxInv, EndFailed, Return, MxTypeOK, RoundInv, PeerInv, LateInv, ReadyInv,
         DeadlinePrecedence

LEMMA BrokenEnds ==
  ASSUME MxInv, Broken("error"), UNCHANGED <<rounds, session, end, ready, late, requests, responses>>
  PROVE  MxInv'
  BY FailedEnds DEF Broken, MxInv, PeerInv

-----------------------------------------------------------------------------
(* The calls of the application.                                           *)
LEMMA BeginStep ==
  ASSUME MxInv, StartSessionDeadline \/ ReceiveRequest \/ ReceiveRequestWithDeadline
  PROVE  MxInv'
  <1>1. CASE StartSessionDeadline
    <2>1. CASE TimerBroken /\ UNCHANGED session
      BY <1>1, <2>1, BrokenEnds DEF StartSessionDeadline, TimerBroken, mxPeer
    <2>2. CASE ~(TimerBroken /\ UNCHANGED session)
      <3>1. /\ call = "none" /\ session' = "armed"
            /\ UNCHANGED <<rounds, state, done, timer, call, revents, result, requests, responses,
                           end, taken, sent, ready, late>>
        BY <1>1, <2>2 DEF StartSessionDeadline, mxPeer, mxHist, Idle
      <3>2. MxTypeOK' /\ RoundInv' /\ PeerInv'
        BY <3>1 DEF MxInv, MxTypeOK, RoundInv, PeerInv
      <3>3. LateInv' /\ ReadyInv' /\ DeadlinePrecedence'
        BY <3>1 DEF MxInv, LateInv, ReadyInv, DeadlinePrecedence
      <3> QED BY <3>2, <3>3 DEF MxInv
    <2> QED BY <2>1, <2>2
  <1>2. CASE ReceiveRequest
    BY <1>2 DEF ReceiveRequest, Begin, mxClock, mxPeer, Idle, MxInv, MxTypeOK, RoundInv,
       PeerInv, LateInv, ReadyInv, DeadlinePrecedence, Readable, Room
  <1>3. CASE ReceiveRequestWithDeadline
    <2>1. CASE TimerBroken
      BY <1>3, <2>1, BrokenEnds DEF ReceiveRequestWithDeadline, TimerBroken, mxPeer
    <2>2. CASE ~TimerBroken
      BY <1>3, <2>2 DEF ReceiveRequestWithDeadline, Begin, mxPeer, Idle, MxInv, MxTypeOK, RoundInv,
       PeerInv, LateInv, ReadyInv, DeadlinePrecedence, Readable, Room
    <2> QED BY <2>1, <2>2
  <1> QED BY <1>1, <1>2, <1>3

LEMMA RespondBegins ==
  ASSUME MxInv, NEW size, SendResponse(size) \/ SendResponseWithDeadline(size)
  PROVE  MxInv'
  <1>1. CASE SendResponse(size)
    <2>1. CASE RejectsResponse(size)
      BY <1>1, <2>1, FailedEnds DEF SendResponse, RejectsResponse, mxPeer, MxInv, PeerInv
    <2>2. CASE ~RejectsResponse(size)
      BY <1>1, <2>2 DEF SendResponse, Begin, mxPeer, Idle, MxInv, MxTypeOK, RoundInv,
         PeerInv, LateInv, ReadyInv, DeadlinePrecedence, Readable, Room
    <2> QED BY <2>1, <2>2
  <1>2. CASE SendResponseWithDeadline(size)
    <2>1. CASE RejectsResponse(size)
      BY <1>2, <2>1, FailedEnds DEF SendResponseWithDeadline, RejectsResponse, mxPeer, MxInv, PeerInv
    <2>2. CASE TimerBroken
      BY <1>2, <2>2, BrokenEnds DEF SendResponseWithDeadline, TimerBroken, mxPeer
    <2>3. CASE ~RejectsResponse(size) /\ ~TimerBroken
      BY <1>2, <2>3 DEF SendResponseWithDeadline, Begin, mxPeer, Idle, MxInv, MxTypeOK, RoundInv,
         PeerInv, LateInv, ReadyInv, DeadlinePrecedence, Readable, Room
    <2> QED BY <2>1, <2>2, <2>3
  <1> QED BY <1>1, <1>2

-----------------------------------------------------------------------------
(* The steps of a call that receives.                                      *)
LEMMA ReceiveSteps ==
  ASSUME MxInv,
         PollRequest \/ ReceiveRequestWithSessionDeadline \/ WaitForRequestReady
           \/ ReceiveRequestInner
  PROVE  MxInv'
  <1>1. CASE PollRequest
    <2>1. CASE Broken("error")
      BY <1>1, <2>1, BrokenEnds DEF PollRequest, mxPeer
    <2>2. CASE ~Broken("error")
      BY <1>1, <2>2 DEF PollRequest, PollFor, Ticked, mxPeer, MxInv, MxTypeOK, RoundInv,
         PeerInv, LateInv, ReadyInv, DeadlinePrecedence, Readable, Room
    <2> QED BY <2>1, <2>2
  <1>2. CASE ReceiveRequestWithSessionDeadline
    <2>1. CASE "timer" \in revents
      <3>1. session # "none"
        BY <1>2 DEF ReceiveRequestWithSessionDeadline, MxInv, LateInv
      <3> QED
        BY <1>2, <2>1, <3>1, FailedEnds
        DEF ReceiveRequestWithSessionDeadline, mxPeer, MxInv, PeerInv
    <2>2. CASE "timer" \notin revents
      BY <1>2, <2>2 DEF ReceiveRequestWithSessionDeadline, mxPeer, MxInv, MxTypeOK, RoundInv,
         PeerInv, LateInv, ReadyInv, DeadlinePrecedence
    <2> QED BY <2>1, <2>2
  <1>3. CASE WaitForRequestReady
    <2>1. CASE "socket" \notin revents
      <3>1. ~ready
        BY <1>3, <2>1 DEF WaitForRequestReady, MxInv, ReadyInv
      <3> QED
        BY <1>3, <2>1, <3>1, FailedEnds DEF WaitForRequestReady, mxPeer, MxInv, PeerInv
    <2>2. CASE "socket" \in revents
      BY <1>3, <2>2 DEF WaitForRequestReady, mxPeer, MxInv, MxTypeOK, RoundInv,
         PeerInv, LateInv, ReadyInv, DeadlinePrecedence
    <2> QED BY <2>1, <2>2
  <1>4. CASE ReceiveRequestInner
    <2>1. requests # <<>> => Tail(requests) \in Seq({"good", "bad"})
      BY DEF MxInv, PeerInv
    <2>2. ASSUME requests # <<>>, requests' = Tail(requests), state' = "RequestReceived",
                 taken' = taken + 1, Return("ok"), UNCHANGED <<done, sent>>
          PROVE  MxInv'
      <3>1. ~late /\ state = "AwaitingRequest"
        BY <1>4 DEF ReceiveRequestInner, MxInv, LateInv, MxTypeOK
      <3>2. RoundInv'
        BY <1>4, <2>2, <3>1, MxAssumption DEF ReceiveRequestInner, MxInv, RoundInv
      <3> QED
        BY <1>4, <2>1, <2>2, <3>1, <3>2
        DEF ReceiveRequestInner, Return, MxInv, MxTypeOK, RoundInv, PeerInv, LateInv, ReadyInv,
            DeadlinePrecedence
    <2>3. ASSUME EndFailed("error"), requests' \in Seq({"good", "bad"})
          PROVE  MxInv'
      BY <1>4, <2>3, FailedEnds DEF ReceiveRequestInner, MxInv, PeerInv
    <2> QED BY <1>4, <2>1, <2>2, <2>3 DEF ReceiveRequestInner, Broken, MxInv, PeerInv
  <1> QED BY <1>1, <1>2, <1>3, <1>4

(* A response that is sent opens the next round or completes the exchange. *)
LEMMA RoundCompletes ==
  ASSUME MxInv, CompleteResponseRound, state = "RequestReceived", ~late,
         UNCHANGED <<rounds, session, requests, end, ready, late>>
  PROVE  MxInv'
  <1>1. RoundInv' /\ done' \in 0..rounds /\ (state' = "Complete" => done' = rounds)
    BY MxAssumption DEF CompleteResponseRound, MxInv, RoundInv
  <1>2. MxTypeOK'
    BY <1>1 DEF CompleteResponseRound, Return, MxInv, MxTypeOK
  <1>3. PeerInv' /\ LateInv' /\ ReadyInv' /\ DeadlinePrecedence'
    BY DEF CompleteResponseRound, Return, MxInv, PeerInv, LateInv, ReadyInv, DeadlinePrecedence
  <1> QED BY <1>1, <1>2, <1>3 DEF MxInv

(* The steps of a call that sends.                                         *)
LEMMA SendSteps ==
  ASSUME MxInv,
         SendBlocking \/ PollResponse \/ SendResponseWithSessionDeadline
           \/ SendResponseWithTimer
  PROVE  MxInv'
  <1>1. CASE PollResponse
    <2>1. CASE Broken("error")
      BY <1>1, <2>1, BrokenEnds DEF PollResponse, mxPeer
    <2>2. CASE ~Broken("error")
      BY <1>1, <2>2 DEF PollResponse, PollFor, Ticked, mxPeer, MxInv, MxTypeOK, RoundInv,
         PeerInv, LateInv, ReadyInv, DeadlinePrecedence, Readable, Room
    <2> QED BY <2>1, <2>2
  <1>2. ASSUME UNCHANGED <<rounds, session, requests, end, asked, ready, late>>,
               TrySend, state = "RequestReceived", ~late
        PROVE  MxInv'
    <2>1. CASE CompleteResponseRound
      BY <1>2, <2>1, RoundCompletes
    <2>2. CASE EndFailed("error") /\ UNCHANGED responses
      BY <1>2, <2>2, FailedEnds DEF MxInv, PeerInv
    <2> QED BY <1>2, <2>1, <2>2 DEF TrySend, Broken
  <1>3. ASSUME UNCHANGED <<rounds, session, requests, end, asked, ready, late>>, PollAgain
        PROVE  MxInv'
    BY <1>3 DEF PollAgain, MxInv, MxTypeOK, RoundInv, PeerInv, LateInv, ReadyInv,
       DeadlinePrecedence, Readable, Room
  <1>4. ASSUME UNCHANGED <<rounds, session, requests, end, asked, ready, late>>,
               EndFailed("timeout"), UNCHANGED responses, session = "none" => ~ready
        PROVE  MxInv'
    BY <1>4, FailedEnds DEF MxInv, PeerInv
  <1>5. CASE SendBlocking
    <2>1. state = "RequestReceived" /\ ~late
      BY <1>5 DEF SendBlocking, MxInv, MxTypeOK, LateInv
    <2> QED BY <1>2, <1>5, <2>1 DEF SendBlocking, TrySend
  <1>6. CASE SendResponseWithSessionDeadline
    <2>1. state = "RequestReceived" /\ session # "none" /\ ("timer" \notin revents => ~late)
      BY <1>6 DEF SendResponseWithSessionDeadline, MxInv, MxTypeOK, LateInv
    <2> QED BY <1>2, <1>3, <1>4, <1>6, <2>1 DEF SendResponseWithSessionDeadline
  <1>7. CASE SendResponseWithTimer
    <2>1. state = "RequestReceived" /\ ~late
      BY <1>7 DEF SendResponseWithTimer, MxInv, MxTypeOK, LateInv
    <2>2. ("socket" \in revents => WouldBlock) => ~ready
      BY <1>7 DEF SendResponseWithTimer, MxInv, ReadyInv, WouldBlock
    <2> QED BY <1>2, <1>3, <1>4, <1>7, <2>1, <2>2 DEF SendResponseWithTimer
  <1> QED BY <1>1, <1>5, <1>6, <1>7

(* The target and the clocks.                                              *)
LEMMA OutsideSteps ==
  ASSUME MxInv, TargetAsks \/ TargetReads \/ TargetLeaves \/ Clocks
  PROVE  MxInv'
  <1> USE DEF MxInv, MxTypeOK, RoundInv, PeerInv, LateInv, ReadyInv, DeadlinePrecedence,
              mxClock, mxHist, mxPeer
  <1>1. CASE TargetAsks
    <2>1. requests' \in Seq({"good", "bad"}) /\ requests' # <<>>
      BY <1>1 DEF TargetAsks
    <2>2. UNCHANGED <<rounds, state, done, session, timer, call, revents, result, responses, end,
                      taken, sent, ready, late>>
      BY <1>1 DEF TargetAsks
    <2> QED BY <2>1, <2>2 DEF Readable, Room
  <1>2. CASE TargetReads
    <2>1. Room => Room'
      BY <1>2, MxAssumption DEF TargetReads, Room
    <2>2. responses' \in Nat
      BY <1>2 DEF TargetReads
    <2>3. UNCHANGED <<rounds, state, done, session, timer, call, revents, result, requests, end,
                      taken, sent, ready, late>>
      BY <1>2 DEF TargetReads
    <2> QED BY <2>1, <2>2, <2>3 DEF Readable
  <1>3. CASE TargetLeaves
    BY <1>3 DEF TargetLeaves, Readable, Room
  <1>4. CASE Clocks
    <2>1. UNCHANGED <<rounds, state, done, call, revents, result, requests, responses, end,
                      taken, sent, ready, late>>
      BY <1>4 DEF Clocks, TimerTicks, SessionTicks
    <2>2. \/ timer # "none" /\ timer' = "expired" /\ UNCHANGED session
          \/ session = "armed" /\ session' = "expired" /\ UNCHANGED timer
      BY <1>4 DEF Clocks, TimerTicks, SessionTicks
    <2> QED BY <2>1, <2>2 DEF Readable, Room
  <1> QED BY <1>1, <1>2, <1>3, <1>4

-----------------------------------------------------------------------------
LEMMA MxNextInv == MxInv /\ [MxNext]_mxVars => MxInv'
  <1> SUFFICES ASSUME MxInv, [MxNext]_mxVars PROVE MxInv'
    OBVIOUS
  <1>1. CASE MxNext
    BY <1>1, BeginStep, RespondBegins, ReceiveSteps, SendSteps, OutsideSteps
    DEF MxNext, CallStep
  <1>2. CASE UNCHANGED mxVars
    BY <1>2 DEF mxVars, mxClock, mxPeer, mxHist, MxInv, MxTypeOK, RoundInv, PeerInv, LateInv,
       ReadyInv, DeadlinePrecedence, Readable, Room
  <1> QED BY <1>1, <1>2

(* The inductive invariant of the sequential exchange.                     *)
THEOREM MxInvariance == MxSpec => []MxInv
  BY MxInitInv, MxNextInv, PTL DEF MxSpec

(* Call, state, rounds and timers of a controller agree.                   *)
THEOREM MxTypeCorrect == MxSpec => []MxTypeOK
  <1>1. MxInv => MxTypeOK
    BY DEF MxInv
  <1> QED BY <1>1, MxInvariance, PTL

(* A call that begins after the session's end never succeeds, and one that *)
(* could be served when it began is never answered with a timeout.         *)
THEOREM DeadlinesHold == MxSpec => []DeadlinePrecedence
  <1>1. MxInv => DeadlinePrecedence
    BY DEF MxInv
  <1> QED BY <1>1, MxInvariance, PTL

-----------------------------------------------------------------------------
(* Every step of the exchange is a step of the ledger, or none.            *)

(* What a step does to the two histories and to the state.                 *)
LEMMA StepKinds ==
  ASSUME MxInv, [MxNext]_mxVars
  PROVE  \/ UNCHANGED <<taken, sent, state>>
         \/ state # "Failed" /\ state' = "Failed" /\ UNCHANGED <<taken, sent>>
         \/ /\ state = "AwaitingRequest" /\ state' = "RequestReceived"
            /\ taken' = taken + 1 /\ UNCHANGED sent
         \/ /\ state = "RequestReceived" /\ state' # "Failed"
            /\ sent' = sent + 1 /\ UNCHANGED taken
  <1>1. CASE StartSessionDeadline \/ ReceiveRequest \/ ReceiveRequestWithDeadline
    BY <1>1 DEF StartSessionDeadline, ReceiveRequest, ReceiveRequestWithDeadline, TimerBroken,
       Broken, EndFailed, mxHist
  <1>2. ASSUME NEW size, SendResponse(size) \/ SendResponseWithDeadline(size)
        PROVE  \/ UNCHANGED <<taken, sent, state>>
               \/ state # "Failed" /\ state' = "Failed" /\ UNCHANGED <<taken, sent>>
    BY <1>2 DEF SendResponse, SendResponseWithDeadline, RejectsResponse, TimerBroken, Broken,
       EndFailed
  <1>3. CASE CallStep
    <2>1. call # "none" => state \in {"AwaitingRequest", "RequestReceived"}
      BY DEF MxInv, MxTypeOK
    <2>2. CASE PollRequest \/ ReceiveRequestWithSessionDeadline \/ WaitForRequestReady
      BY <2>1, <2>2 DEF PollRequest, ReceiveRequestWithSessionDeadline, WaitForRequestReady,
         Broken, EndFailed
    <2>3. CASE ReceiveRequestInner
      <3>1. state = "AwaitingRequest"
        BY <2>3 DEF ReceiveRequestInner, MxInv, MxTypeOK
      <3> QED BY <2>3, <3>1 DEF ReceiveRequestInner, Broken, EndFailed
    <2>4. CASE PollResponse
      BY <2>1, <2>4 DEF PollResponse, Broken, EndFailed
    <2>5. CASE SendBlocking \/ SendResponseWithSessionDeadline \/ SendResponseWithTimer
      <3>1. state = "RequestReceived"
        BY <2>5 DEF SendBlocking, SendResponseWithSessionDeadline, SendResponseWithTimer,
           MxInv, MxTypeOK
      <3>2. \/ CompleteResponseRound
            \/ \E how \in {"error", "timeout"} : EndFailed(how)
            \/ PollAgain
        BY <2>5 DEF SendBlocking, SendResponseWithSessionDeadline, SendResponseWithTimer,
           TrySend, Broken
      <3> QED BY <3>1, <3>2 DEF CompleteResponseRound, EndFailed, PollAgain
    <2> QED BY <1>3, <2>2, <2>3, <2>4, <2>5 DEF CallStep
  <1>4. CASE Clocks \/ TargetAsks \/ TargetReads \/ TargetLeaves
    BY <1>4 DEF Clocks, TimerTicks, SessionTicks, TargetAsks, TargetReads, TargetLeaves, mxHist
  <1>5. CASE UNCHANGED mxVars
    BY <1>5 DEF mxVars, mxHist
  <1> QED BY <1>1, <1>2, <1>3, <1>4, <1>5 DEF MxNext

LEMMA SerialStep ==
  MxInv /\ MxInv' /\ [MxNext]_mxVars => [SerialLedger!LedgerNext]_(SerialLedger!ledgerVars)
  <1> SUFFICES ASSUME MxInv, MxInv', [MxNext]_mxVars
               PROVE  [SerialLedger!LedgerNext]_(SerialLedger!ledgerVars)
    OBVIOUS
  <1>1. /\ taken \in Nat /\ sent \in Nat /\ taken' <= MaxRounds /\ MaxRounds \in Nat
        /\ taken' \in Nat
    BY MxAssumption DEF MxInv, RoundInv
  <1>2. CASE UNCHANGED <<taken, sent, state>>
    BY <1>2 DEF SerialLedger!ledgerVars
  <1>3. CASE state # "Failed" /\ state' = "Failed" /\ UNCHANGED <<taken, sent>>
    BY <1>3 DEF SerialLedger!LedgerNext, SerialLedger!Close
  <1>4. CASE /\ state = "AwaitingRequest" /\ state' = "RequestReceived"
             /\ taken' = taken + 1 /\ UNCHANGED sent
    <2>1. taken = sent
      BY <1>4 DEF MxInv, RoundInv
    <2>2. Cardinality({}) < 1 /\ Cardinality(1..sent) < MaxRounds
      <3>1. 1 \in Int /\ sent \in Int
        BY <1>1
      <3>2. Cardinality(1..sent) = IF 1 > sent THEN 0 ELSE sent - 1 + 1
        BY <3>1, FS_Interval
      <3>3. Cardinality({}) = 0
        BY FS_EmptySet
      <3> QED BY <1>1, <1>4, <2>1, <3>2, <3>3
    <2>3. {} \cup (1..sent) = 1..sent
      OBVIOUS
    <2>4. /\ SerialLedger!Cardinality({}) = Cardinality({})
          /\ SerialLedger!Cardinality(1..sent) = Cardinality(1..sent)
      BY DEF SerialLedger!Cardinality, Cardinality
    <2>5. ~(taken > sent) /\ taken' > sent' /\ {taken'} = {} \cup {taken + 1}
      BY <1>1, <1>4, <2>1
    <2>6. taken + 1 \in 1..MaxRounds /\ taken + 1 \notin 1..sent
      BY <1>1, <1>4, <2>1
    <2>7. SerialLedger!Open(taken + 1)
      <3>1. SerialLedger!Moves
        BY <1>4 DEF SerialLedger!Moves
      <3>2. taken + 1 \notin {} \cup (1..sent)
        BY <2>6
      <3>3. (state = "Failed") = FALSE /\ (state' = "Failed") = FALSE
        BY <1>4
      <3> QED
        BY <1>4, <2>2, <2>3, <2>4, <2>5, <3>1, <3>2, <3>3 DEF SerialLedger!Open
    <2> QED BY <2>6, <2>7 DEF SerialLedger!LedgerNext
  <1>5. CASE /\ state = "RequestReceived" /\ state' # "Failed"
             /\ sent' = sent + 1 /\ UNCHANGED taken
    <2>1. taken = sent + 1
      BY <1>5 DEF MxInv, RoundInv
    <2>2. taken > sent /\ ~(taken' > sent') /\ taken \in 1..MaxRounds
      BY <1>1, <1>5, <2>1
    <2>3. 1..sent' = (1..sent) \cup {taken} /\ {taken} \ {taken} = {}
      BY <1>1, <1>5, <2>1
    <2>4. SerialLedger!Answer(taken)
      BY <1>5, <2>2, <2>3 DEF SerialLedger!Answer, SerialLedger!Moves
    <2> QED BY <2>2, <2>4 DEF SerialLedger!LedgerNext
  <1> QED BY <1>2, <1>3, <1>4, <1>5, StepKinds

(* The one-shot and the multi-round controller implement the ledger with   *)
(* one request open at a time: a response answers the request just taken,  *)
(* within the ceiling, and a failed exchange stays closed.                 *)
THEOREM ImplementsSerialLedger == MxSpec => RefinesSerialLedger
  <1>1. MxInit => SerialLedger!LedgerInit
    BY DEF MxInit, SerialLedger!LedgerInit
  <1> QED
    BY <1>1, SerialStep, MxInvariance, PTL DEF MxSpec, RefinesSerialLedger, SerialLedger!LedgerSpec

-----------------------------------------------------------------------------
(* The composition.                                                        *)

LEMMA StepOfParts ==
  BrokerInit /\ [][BrokerNext]_brokerVars => FdSpec /\ MxSpec /\ CxSpec
  <1>1. BrokerInit => FdInit /\ MxInit /\ CxInit
    BY DEF BrokerInit
  <1>2. [BrokerNext]_brokerVars => [FdNext]_fdVars
    BY DEF BrokerNext, brokerVars
  <1>3. [BrokerNext]_brokerVars => [MxNext]_mxVars
    BY DEF BrokerNext, brokerVars
  <1>4. [BrokerNext]_brokerVars => [CxNext]_cxVars
    BY DEF BrokerNext, brokerVars
  <1> QED BY <1>1, <1>2, <1>3, <1>4, PTL DEF FdSpec, MxSpec, CxSpec

(* Every behaviour of the broker is one of each of its parts.              *)
THEOREM BrokerIsItsParts == BrokerSpec => FdSpec /\ MxSpec /\ CxSpec
  BY StepOfParts, PTL DEF BrokerSpec

(* Grants, policies, budgets, deadlines, acknowledgments and answers of    *)
(* the whole broker.                                                       *)
THEOREM BrokerIsSafe ==
  BrokerSpec => [](/\ GrantAskedFor /\ GrantWithinPolicy /\ SupplyExact
                   /\ DeadlinePrecedence /\ ExactlyOnce /\ AckMeansRead)
  BY BrokerIsItsParts, GrantsWereAskedFor, GrantsStayWithinPolicy, SupplyIsExact, DeadlinesHold,
     EachRequestOnce, AcknowledgedWasRead, PTL

(* Two conforming ends are served by the whole broker as they are by the   *)
(* exchange alone.                                                         *)
THEOREM BrokerServesConformingEnds ==
  ASSUME QueueLimit >= MaxInFlight
  PROVE  BrokerSpec => []ConformingServed
  BY BrokerIsItsParts, ConformingEndsAreServed, PTL

(* Both exchanges of the broker implement the ledger of requests.          *)
THEOREM BrokerKeepsLedgers == BrokerSpec => RefinesLedger /\ RefinesSerialLedger
  BY BrokerIsItsParts, ImplementsLedger, ImplementsSerialLedger, PTL
==============================================================================
