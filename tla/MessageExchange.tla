--------------------------- MODULE MessageExchange ---------------------------
(***************************************************************************)
(* The sequential request/response controllers of runtime_fd_broker.rs:    *)
(* one round, or up to MaxRounds rounds with an optional lifetime of the   *)
(* whole session, each call with or without a deadline of its own.  A call *)
(* with a clock polls the socket and a timerfd, looks at what poll         *)
(* returned, and then receives or sends; the target and the clocks move    *)
(* between these steps.  Calls refused without effect are guards.          *)
(***************************************************************************)
EXTENDS Naturals, Sequences, FiniteSets

CONSTANTS
  MaxRounds,
  RoomFor,    \* packets the target's receive queue holds
  MaxAsked,   \* bound: packets the target sends
  MaxMxFaults \* bound: failing system calls

ASSUME MxAssumption ==
  MaxRounds \in 2..32 /\ RoomFor \in Nat /\ MaxAsked \in Nat /\ MaxMxFaults \in Nat

VARIABLES
  rounds,    \* max_rounds: 1 for the one-shot controller
  state,     \* RuntimeMessageExchangeState
  done,      \* completed_rounds
  session,   \* the session deadline: none, armed or expired
  timer,     \* the timer of the current call
  call,      \* the call in progress and the clock it looks at
  revents,   \* what poll returned, or "polling"
  result,    \* how the last call ended
  requests, responses, \* the two directions of the socket pair
  end,       \* the target's end: open or shut
  asked, mxFaults,
  taken, sent, \* history: requests returned, responses published
  ready,     \* history: the call could be served when it began
  late       \* history: the session had expired when the call began

mxClock == <<session, timer>>
mxPeer  == <<requests, responses, end, asked>>
mxHist  == <<taken, sent, ready, late>>
mxVars  == <<rounds, state, done, mxClock, call, revents, result, mxPeer, mxFaults, mxHist>>

Idle == call = "none"

PrepareMessage      == rounds = 1
PrepareMultiMessage == rounds = MaxRounds

MxInit ==
  /\ PrepareMessage \/ PrepareMultiMessage
  /\ state = "AwaitingRequest" /\ done = 0
  /\ session = "none" /\ timer = "none"
  /\ call = "none" /\ revents = {} /\ result = "none"
  /\ requests = <<>> /\ responses = 0 /\ end = "open" /\ asked = 0
  /\ mxFaults = 0 /\ taken = 0 /\ sent = 0 /\ ready = FALSE /\ late = FALSE

-----------------------------------------------------------------------------
(* How a call ends.                                                        *)

Return(how) ==
  /\ call' = "none" /\ revents' = {} /\ result' = how /\ timer' = "none"

(* Fault: a failed call leaves the controller open.                        *)
EndReusable(how) == state' = "AwaitingRequest" /\ Return(how) /\ UNCHANGED <<done, taken, sent>>

EndFailed(how) == state' = "Failed" /\ Return(how) /\ UNCHANGED <<done, taken, sent>>

Broken(how) == mxFaults < MaxMxFaults /\ mxFaults' = mxFaults + 1 /\ EndFailed(how)

Begin(c, able) ==
  /\ call' = c /\ revents' = {} /\ result' = "none"
  /\ ready' = able /\ late' = (session = "expired")

(* timerfd_create or timerfd_settime fails: the controller is closed.      *)
TimerBroken == Broken("error") /\ UNCHANGED <<ready, late>>

-----------------------------------------------------------------------------
StartSessionDeadline ==
  /\ Idle /\ rounds > 1 /\ session = "none" /\ done = 0 /\ state = "AwaitingRequest"
  /\ \/ TimerBroken /\ UNCHANGED session
     \/ session' = "armed" /\ UNCHANGED <<state, done, timer, call, revents, result, mxFaults,
                                         mxHist>>
  /\ UNCHANGED <<rounds, mxPeer>>

Readable == requests # <<>> \/ end = "shut"

ReceiveRequest ==
  /\ Idle /\ state = "AwaitingRequest"
  /\ Begin(IF session = "none" THEN "recv" ELSE "recv_session", Readable)
  /\ UNCHANGED <<rounds, state, done, mxClock, mxPeer, mxFaults, taken, sent>>

ReceiveRequestWithDeadline ==
  /\ Idle /\ state = "AwaitingRequest" /\ session = "none"
  /\ \/ TimerBroken
     \/ /\ Begin("recv_deadline", Readable) /\ timer' = "armed"
        /\ UNCHANGED <<state, done, mxFaults, taken, sent>>
  /\ UNCHANGED <<rounds, session, mxPeer>>

(* Fault: the session's clock is not polled.                               *)
OwnTimerTicked == timer = "expired"

(* poll(2) over the socket and the clock of the call.                      *)
Ticked == IF call \in {"recv_session", "send_session"} THEN session = "expired"
          ELSE timer = "expired"

PollFor(socket) ==
  LET seen == (IF socket THEN {"socket"} ELSE {}) \cup (IF Ticked THEN {"timer"} ELSE {})
  IN  seen # {} /\ revents' = seen

PollRequest ==
  /\ call \in {"recv_deadline", "recv_session"} /\ revents = {}
  /\ \/ PollFor(Readable) /\ UNCHANGED <<state, done, timer, call, result, mxFaults, taken, sent>>
     \/ Broken("error")
  /\ UNCHANGED <<rounds, session, mxPeer, ready, late>>

(* Fault: a queued request wins over the session's end.                    *)
ReceiveQueuedFirst ==
  /\ call = "recv_session" /\ revents # {}
  /\ IF "socket" \notin revents THEN EndFailed("timeout")
     ELSE call' = "recv" /\ UNCHANGED <<state, done, timer, revents, result, taken, sent>>
  /\ UNCHANGED <<rounds, session, mxPeer, mxFaults, ready, late>>

(* The session's end wins over a queued request.                           *)
ReceiveRequestWithSessionDeadline ==
  /\ call = "recv_session" /\ revents # {}
  /\ IF "timer" \in revents THEN EndFailed("timeout")
     ELSE call' = "recv" /\ UNCHANGED <<state, done, timer, revents, result, taken, sent>>
  /\ UNCHANGED <<rounds, session, mxPeer, mxFaults, ready, late>>

(* A queued request, or the end of the peer, wins over the call's timer.   *)
WaitForRequestReady ==
  /\ call = "recv_deadline" /\ revents # {}
  /\ IF "socket" \in revents
     THEN call' = "recv" /\ UNCHANGED <<state, done, timer, revents, result, taken, sent>>
     ELSE EndFailed("timeout")
  /\ UNCHANGED <<rounds, session, mxPeer, mxFaults, ready, late>>

(* recvmsg: an empty, truncated or oversized packet, the end of the peer   *)
(* and an error close the controller.                                      *)
ReceiveRequestInner ==
  /\ call = "recv"
  /\ \/ /\ requests # <<>> /\ requests' = Tail(requests) /\ UNCHANGED mxFaults
        /\ \/ Head(requests) = "good" /\ state' = "RequestReceived" /\ taken' = taken + 1
              /\ Return("ok") /\ UNCHANGED <<done, sent>>
           \/ Head(requests) = "bad" /\ EndFailed("error")
     \/ end = "shut" /\ EndFailed("error") /\ UNCHANGED <<requests, mxFaults>>
     \/ Broken("error") /\ UNCHANGED requests
  /\ UNCHANGED <<rounds, session, responses, end, asked, ready, late>>

-----------------------------------------------------------------------------
Room == responses < RoomFor

(* The response is checked before anything is sent or timed.               *)
RejectsResponse(size) == size # "fits" /\ EndFailed("error") /\ UNCHANGED <<ready, late>>

SendResponse(size) ==
  /\ Idle /\ state = "RequestReceived"
  /\ \/ RejectsResponse(size)
     \/ /\ size = "fits"
        /\ Begin(IF session = "none" THEN "send" ELSE "send_session", Room \/ end = "shut")
        /\ UNCHANGED <<state, done, timer, taken, sent>>
  /\ UNCHANGED <<rounds, session, mxPeer, mxFaults>>

SendResponseWithDeadline(size) ==
  /\ Idle /\ state = "RequestReceived" /\ session = "none"
  /\ \/ RejectsResponse(size) /\ UNCHANGED mxFaults
     \/ size = "fits" /\ TimerBroken
     \/ /\ size = "fits" /\ Begin("send_deadline", Room \/ end = "shut") /\ timer' = "armed"
        /\ UNCHANGED <<state, done, mxFaults, taken, sent>>
  /\ UNCHANGED <<rounds, session, mxPeer>>

(* The packet is in the target's queue; the controller opens the next      *)
(* round while there is one (complete_response_round).                     *)
CompleteResponseRound ==
  /\ responses' = responses + 1 /\ sent' = sent + 1
  /\ done' = done + 1
  /\ state' = IF done + 1 < rounds THEN "AwaitingRequest" ELSE "Complete"
  /\ Return("ok") /\ UNCHANGED taken

SendBlocking ==
  /\ call = "send"
  /\ \/ end = "open" /\ Room /\ CompleteResponseRound /\ UNCHANGED mxFaults
     \/ end = "shut" /\ EndFailed("error") /\ UNCHANGED <<responses, mxFaults>>
     \/ Broken("error") /\ UNCHANGED responses
  /\ UNCHANGED <<rounds, session, requests, end, asked, ready, late>>

(* poll may call the socket writable although the packet does not fit.     *)
PollResponse ==
  /\ call \in {"send_deadline", "send_session"} /\ revents = {}
  /\ \/ /\ \E writable \in BOOLEAN : ((Room \/ end = "shut") => writable) /\ PollFor(writable)
        /\ UNCHANGED <<state, done, timer, call, result, mxFaults, taken, sent>>
     \/ Broken("error")
  /\ UNCHANGED <<rounds, session, mxPeer, ready, late>>

(* One MSG_DONTWAIT send; EAGAIN when there is no room.                    *)
TrySend ==
  \/ end = "open" /\ Room /\ CompleteResponseRound /\ UNCHANGED mxFaults
  \/ end = "shut" /\ EndFailed("error") /\ UNCHANGED <<responses, mxFaults>>
  \/ Broken("error") /\ UNCHANGED responses

WouldBlock == end = "open" /\ ~Room

PollAgain ==
  revents' = {} /\ UNCHANGED <<state, done, timer, call, result, mxFaults, responses, taken, sent>>

SendResponseWithSessionDeadline ==
  /\ call = "send_session" /\ revents # {}
  /\ IF "timer" \in revents THEN EndFailed("timeout") /\ UNCHANGED <<responses, mxFaults>>
     ELSE TrySend \/ (WouldBlock /\ PollAgain)
  /\ UNCHANGED <<rounds, session, requests, end, asked, ready, late>>

SendResponseWithTimer ==
  /\ call = "send_deadline" /\ revents # {}
  /\ \/ "socket" \in revents /\ TrySend
     \/ /\ "socket" \in revents => WouldBlock
        /\ IF "timer" \in revents THEN EndFailed("timeout") /\ UNCHANGED <<responses, mxFaults>>
           ELSE PollAgain
  /\ UNCHANGED <<rounds, session, requests, end, asked, ready, late>>

-----------------------------------------------------------------------------
(* The target and the clocks, outside this code.                           *)

TargetAsks ==
  /\ end = "open" /\ asked < MaxAsked
  /\ asked' = asked + 1 /\ \E p \in {"good", "bad"} : requests' = Append(requests, p)
  /\ UNCHANGED <<rounds, state, done, mxClock, call, revents, result, responses, end, mxFaults,
                 mxHist>>

TargetReads ==
  /\ end = "open" /\ responses > 0 /\ responses' = responses - 1
  /\ UNCHANGED <<rounds, state, done, mxClock, call, revents, result, requests, end, asked,
                 mxFaults, mxHist>>

TargetLeaves ==
  /\ end = "open" /\ end' = "shut"
  /\ UNCHANGED <<rounds, state, done, mxClock, call, revents, result, requests, responses, asked,
                 mxFaults, mxHist>>

TimerTicks ==
  /\ timer = "armed" /\ timer' = "expired"
  /\ UNCHANGED <<rounds, state, done, session, call, revents, result, mxPeer, mxFaults, mxHist>>

SessionTicks ==
  /\ session = "armed" /\ session' = "expired"
  /\ UNCHANGED <<rounds, state, done, timer, call, revents, result, mxPeer, mxFaults, mxHist>>

-----------------------------------------------------------------------------
CallStep ==
  \/ PollRequest \/ ReceiveRequestWithSessionDeadline \/ WaitForRequestReady
  \/ ReceiveRequestInner \/ SendBlocking \/ PollResponse
  \/ SendResponseWithSessionDeadline \/ SendResponseWithTimer

Clocks == TimerTicks \/ SessionTicks

MxNext ==
  \/ StartSessionDeadline \/ ReceiveRequest \/ ReceiveRequestWithDeadline
  \/ \E size \in {"fits", "empty", "large"} :
       SendResponse(size) \/ SendResponseWithDeadline(size)
  \/ CallStep \/ Clocks
  \/ TargetAsks \/ TargetReads \/ TargetLeaves

MxSpec == MxInit /\ [][MxNext]_mxVars

(* A call goes on while it can and time passes; the target owes nothing.   *)
MxFairness == WF_mxVars(CallStep) /\ WF_mxVars(Clocks)

-----------------------------------------------------------------------------
(* Types, and the agreement of call, state and timers.                     *)
MxTypeOK ==
  /\ state \in {"AwaitingRequest", "RequestReceived", "Complete", "Failed"}
  /\ call \in {"none", "recv", "recv_deadline", "recv_session", "send", "send_deadline",
               "send_session"}
  /\ done \in 0..rounds /\ (state = "Complete" => done = rounds)
  /\ call \in {"recv", "recv_deadline", "recv_session"} => state = "AwaitingRequest"
  /\ call \in {"send", "send_deadline", "send_session"} => state = "RequestReceived"
  /\ revents \subseteq {"socket", "timer"} /\ timer \in {"none", "armed", "expired"}
  /\ timer # "none" => session = "none" /\ call \in {"recv", "recv_deadline", "send_deadline"}

(* The lifetime of a session is hard: a call that begins after its end     *)
(* never succeeds, whatever is queued and however poll and the two ends    *)
(* interleave (receive/send_response_with_session_deadline).  The deadline *)
(* of one call is soft: a call that could be served when it began is never *)
(* answered with a timeout (wait_for_request_ready,                        *)
(* send_response_with_timer).                                              *)
DeadlinePrecedence ==
  /\ result = "ok" => ~late
  /\ result = "timeout" /\ session = "none" => ~ready

(* A call with a clock ends, whatever the target does or leaves undone.    *)
BoundedCallEnds ==
  (call \in {"recv_deadline", "recv_session", "send_deadline", "send_session"}) ~> Idle

(* The sequential exchange implements the ledger with one request open at  *)
(* a time, the rounds as identifiers: responses answer requests in order,  *)
(* once, within the ceiling, and a failed exchange stays closed.           *)
SerialLedger == INSTANCE RpcLedger WITH
  Ids <- 1..MaxRounds, MaxRequests <- MaxRounds, MaxInFlight <- 1,
  open <- IF taken > sent THEN {taken} ELSE {}, answered <- 1..sent,
  unconfirmed <- {}, closed <- state = "Failed"

RefinesSerialLedger == SerialLedger!LedgerSpec
==============================================================================
