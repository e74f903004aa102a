------------------------------ MODULE Connection ------------------------------
(***************************************************************************)
(* sc2::Connection: the websocket to one StarCraft II process, and the     *)
(* mailbox between the websocket's own thread (the worker) and the thread  *)
(* of the client (the caller).  The caller's calls are sequential; every   *)
(* call is cut where the code takes or drops mutex_ or blocks.             *)
(*                                                                         *)
(* A request is a number, in the order of sending.  SC2 answers in order,  *)
(* so the two directions of the socket are three counters: the requests up *)
(* to `sent' went out, those up to `answered' are answered, and the        *)
(* responses up to `read' were read off the socket or lost with it.        *)
(***************************************************************************)
EXTENDS Naturals, Sequences

CONSTANTS
  MaxRequests,   (* bound on the requests of a behaviour                   *)
  MaxCloses      (* bound on the times SC2 drops the socket                *)

ASSUME BoundsAssumption == MaxRequests \in Nat /\ MaxCloses \in Nat

VARIABLES
  readyState,    (* connection.getReadyState()                             *)
  worker,        (* where the websocket thread is; "none": not started     *)
  incoming,      (* the response PushResponse was called with; 0: none     *)
  mutex,         (* holder of mutex_                                       *)
  queue,         (* queue_                                                 *)
  hasResponse,   (* has_response_                                          *)
  caller,        (* where the calling thread is; "idle": outside           *)
  response,      (* the out parameter of Receive; 0: nullptr               *)
  ok,            (* what the last Connect or Receive returned              *)
  sent, answered, read,
  closes,
  taken,         (* history: the last response handed to the caller        *)
  floor          (* history: `sent' when a failed Receive last cleared     *)

object == <<readyState, worker, incoming, mutex, queue, hasResponse>>
wire   == <<sent, answered, read, closes>>
call   == <<caller, response, ok>>
vars   == <<readyState, worker, incoming, mutex, queue, hasResponse, caller,
            response, ok, sent, answered, read, closes, taken, floor>>

Joining == {"connectJoin", "disconnectJoin", "receiveJoin"}

Init ==
  /\ readyState = "Closed" /\ worker = "none" /\ incoming = 0
  /\ mutex = "free" /\ queue = <<>> /\ hasResponse = FALSE
  /\ caller = "idle" /\ response = 0 /\ ok = FALSE
  /\ sent = 0 /\ answered = 0 /\ read = 0 /\ closes = 0
  /\ taken = 0 /\ floor = 0

-----------------------------------------------------------------------------
(***************************************************************************)
(* The calling thread                                                      *)
(***************************************************************************)

HasConnection == readyState = "Open"
PollResponse  == hasResponse

(* Disconnect() when the caller is about to go on at `next': stop() asks   *)
(* the worker to close and joins it, unless the socket is closed already.  *)
Stops(join, next) ==
  IF readyState \in {"Closing", "Closed"}
    THEN caller' = next /\ UNCHANGED readyState
    ELSE caller' = join /\ readyState' = "Closing"

(* Connect(): start() is a no-op while the worker of an earlier Connect,   *)
(* which reconnects on its own, is still there.                            *)
CallConnect ==
  /\ caller = "idle"
  /\ caller' = "connecting"
  /\ IF worker = "none"
       THEN worker' = "idle" /\ readyState' = "Connecting"
       ELSE UNCHANGED <<worker, readyState>>
  /\ UNCHANGED <<incoming, mutex, queue, hasResponse, response, ok>>
  /\ UNCHANGED <<wire, taken, floor>>

(* The polling loop of Connect ends when the socket is no longer           *)
(* connecting, or after 30 rounds whatever its state.                      *)
ConnectReturns ==
  /\ caller = "connecting"
  /\ ok' = (readyState = "Open")
  /\ IF readyState = "Open"
       THEN caller' = "idle" /\ UNCHANGED readyState
       ELSE Stops("connectJoin", "idle")
  /\ UNCHANGED <<worker, incoming, mutex, queue, hasResponse, response>>
  /\ UNCHANGED <<wire, taken, floor>>

(* Send(): a request is dropped without notice when the socket is not open *)
(* (builds with assertions stop there).                                    *)
CallSend ==
  /\ caller = "idle"
  /\ sent < MaxRequests
  /\ readyState = "Open"
  /\ sent' = sent + 1
  /\ UNCHANGED <<object, call, answered, read, closes, taken, floor>>

CallDisconnect ==
  /\ caller = "idle"
  /\ Stops("disconnectJoin", "idle")
  /\ UNCHANGED <<worker, incoming, mutex, queue, hasResponse, response, ok>>
  /\ UNCHANGED <<wire, taken, floor>>

(* Receive(), called with response = nullptr.                              *)
CallReceive ==
  /\ caller = "idle"
  /\ caller' = "receiving" /\ response' = 0
  /\ UNCHANGED <<object, ok, wire, taken, floor>>

(* wait_until returns true: its predicate holds under mutex_, which is     *)
(* then released.                                                          *)
ReceiveWakesUnchecked ==
  /\ caller = "receiving" /\ mutex = "free"
  /\ caller' = "popping"
  /\ UNCHANGED <<object, response, ok, wire, taken, floor>>

ReceiveWakes ==
  /\ caller = "receiving" /\ mutex = "free"
  /\ queue # <<>>
  /\ caller' = "popping"
  /\ UNCHANGED <<object, response, ok, wire, taken, floor>>

(* wait_until returns false: the time is up and the predicate is false.    *)
ReceiveWaitsOn ==
  /\ caller = "receiving" /\ queue = <<>>
  /\ UNCHANGED vars

ReceiveTimesOutLocked ==
  /\ caller = "receiving" /\ mutex = "free"
  /\ queue = <<>>
  /\ caller' = "timedOut" /\ mutex' = "caller"
  /\ UNCHANGED <<readyState, worker, incoming, queue, hasResponse>>
  /\ UNCHANGED <<response, ok, wire, taken, floor>>

ReceiveTimesOut ==
  /\ caller = "receiving" /\ mutex = "free"
  /\ queue = <<>>
  /\ caller' = "timedOut"
  /\ UNCHANGED <<object, response, ok, wire, taken, floor>>

(* PopResponse() looks at queue_ before it takes the lock.                 *)
PopSeesResponse ==
  /\ caller = "popping"
  /\ IF queue = <<>>
       THEN caller' = "idle" /\ ok' = TRUE
       ELSE caller' = "popLocking" /\ UNCHANGED ok
  /\ UNCHANGED <<object, response, wire, taken, floor>>

FlagAfterPopNever(q) == hasResponse
FlagAfterPop(q) == IF q = <<>> THEN FALSE ELSE hasResponse

Pops ==
  /\ caller = "popLocking" /\ mutex = "free"
  /\ response' = Head(queue) /\ taken' = Head(queue)
  /\ queue' = Tail(queue)
  /\ hasResponse' = FlagAfterPop(Tail(queue))
  /\ caller' = "idle" /\ ok' = TRUE
  /\ UNCHANGED <<readyState, worker, incoming, mutex, wire, floor>>

(* The timed out Receive: Disconnect(), and once that has returned         *)
(* queue_.clear() without the lock and without has_response_.              *)
ReceiveDisconnects ==
  /\ caller = "timedOut"
  /\ Stops("receiveJoin", "clearing")
  /\ UNCHANGED <<worker, incoming, mutex, queue, hasResponse, response, ok>>
  /\ UNCHANGED <<wire, taken, floor>>

ReceiveFailsKeepingQueue ==
  /\ caller = "clearing"
  /\ floor' = sent /\ mutex' = "free"
  /\ caller' = "idle" /\ ok' = FALSE
  /\ UNCHANGED <<readyState, worker, incoming, queue, hasResponse>>
  /\ UNCHANGED <<response, wire, taken>>

ReceiveFails ==
  /\ caller = "clearing"
  /\ queue' = <<>> /\ floor' = sent
  /\ caller' = "idle" /\ ok' = FALSE
  /\ UNCHANGED <<readyState, worker, incoming, mutex, hasResponse>>
  /\ UNCHANGED <<response, wire, taken>>

(* stop() has joined the worker.                                           *)
JoinReturns ==
  /\ caller \in Joining /\ worker = "none"
  /\ caller' = IF caller = "receiveJoin" THEN "clearing" ELSE "idle"
  /\ UNCHANGED <<object, response, ok, wire, taken, floor>>

Caller ==
  \/ ConnectReturns \/ ReceiveWakes \/ ReceiveTimesOut \/ PopSeesResponse
  \/ Pops \/ ReceiveDisconnects \/ ReceiveFails \/ JoinReturns

Calls == CallConnect \/ CallSend \/ CallDisconnect \/ CallReceive

-----------------------------------------------------------------------------
(***************************************************************************)
(* The websocket thread                                                    *)
(***************************************************************************)

WorkerOpens ==
  /\ worker = "idle" /\ readyState = "Connecting"
  /\ readyState' = "Open"
  /\ UNCHANGED <<worker, incoming, mutex, queue, hasResponse>>
  /\ UNCHANGED <<call, wire, taken, floor>>

(* The handshake fails, or the 120 seconds given to it are over.           *)
WorkerFailsToOpen ==
  /\ worker = "idle" /\ readyState = "Connecting"
  /\ readyState' = "Closed"
  /\ UNCHANGED <<worker, incoming, mutex, queue, hasResponse>>
  /\ UNCHANGED <<call, wire, taken, floor>>

(* enableAutomaticReconnection()                                           *)
WorkerReconnects ==
  /\ worker = "idle" /\ readyState = "Closed"
  /\ readyState' = "Connecting"
  /\ UNCHANGED <<worker, incoming, mutex, queue, hasResponse>>
  /\ UNCHANGED <<call, wire, taken, floor>>

(* A message arrives, also while the close started by stop() is under way. *)
WorkerReads ==
  /\ worker = "idle" /\ readyState \in {"Open", "Closing"}
  /\ read < answered
  /\ read' = read + 1
  /\ incoming' = read + 1 /\ worker' = "locking"
  /\ UNCHANGED <<readyState, mutex, queue, hasResponse>>
  /\ UNCHANGED <<call, sent, answered, closes, taken, floor>>

(* ParseFromString fails: the message is only logged.                      *)
WorkerDiscards ==
  /\ worker = "idle" /\ readyState \in {"Open", "Closing"}
  /\ read < answered
  /\ read' = read + 1
  /\ UNCHANGED <<object, call, sent, answered, closes, taken, floor>>

(* PushResponse(): has_response_ follows queue_ under the same lock, but   *)
(* it is read without the lock.                                            *)
WorkerPushesMoved ==
  /\ worker = "locking" /\ mutex = "free"
  /\ mutex' = "worker"
  /\ incoming' = 0 /\ queue' = Append(queue, incoming')
  /\ worker' = "flagging"
  /\ UNCHANGED <<readyState, hasResponse, call, wire, taken, floor>>

WorkerPushesFront ==
  /\ worker = "locking" /\ mutex = "free"
  /\ mutex' = "worker"
  /\ queue' = <<incoming>> \o queue /\ incoming' = 0
  /\ worker' = "flagging"
  /\ UNCHANGED <<readyState, hasResponse, call, wire, taken, floor>>

WorkerPushes ==
  /\ worker = "locking" /\ mutex = "free"
  /\ mutex' = "worker"
  /\ queue' = Append(queue, incoming) /\ incoming' = 0
  /\ worker' = "flagging"
  /\ UNCHANGED <<readyState, hasResponse, call, wire, taken, floor>>

WorkerFlags ==
  /\ worker = "flagging"
  /\ hasResponse' = TRUE /\ mutex' = "free"
  /\ worker' = "idle"
  /\ UNCHANGED <<readyState, incoming, queue, call, wire, taken, floor>>

(* The socket goes down: what was under way in either direction is lost.   *)
(* The close handshake of SC2 and the closed socket behave alike.          *)
LosesWire == read' = sent /\ answered' = sent /\ UNCHANGED sent

PeerCloses ==
  /\ worker = "idle" /\ readyState = "Open"
  /\ closes < MaxCloses
  /\ readyState' = "Closed" /\ closes' = closes + 1
  /\ LosesWire
  /\ UNCHANGED <<worker, incoming, mutex, queue, hasResponse>>
  /\ UNCHANGED <<call, taken, floor>>

(* The worker ends because stop() asked it to.                             *)
WorkerExits ==
  /\ worker = "idle" /\ readyState = "Closing"
  /\ readyState' = "Closed" /\ worker' = "none"
  /\ LosesWire
  /\ UNCHANGED <<incoming, mutex, queue, hasResponse, closes>>
  /\ UNCHANGED <<call, taken, floor>>

Worker ==
  \/ WorkerOpens \/ WorkerFailsToOpen \/ WorkerReconnects
  \/ WorkerReads \/ WorkerDiscards \/ WorkerPushes \/ WorkerFlags
  \/ PeerCloses \/ WorkerExits

(* SC2 answers the oldest request.                                         *)
PeerAnswers ==
  /\ readyState \in {"Open", "Closing"}
  /\ answered < sent
  /\ answered' = answered + 1
  /\ UNCHANGED <<object, call, sent, read, closes, taken, floor>>

-----------------------------------------------------------------------------
Next == Calls \/ Caller \/ Worker \/ PeerAnswers

Spec == Init /\ [][Next]_vars

(* Both threads run until they block.  A caller is never obliged to make   *)
(* another call, and SC2 never to answer.                                  *)
Fairness ==
  /\ WF_vars(Caller)
  /\ WF_vars(WorkerPushes) /\ WF_vars(WorkerFlags) /\ WF_vars(WorkerExits)

FairSpec == Spec /\ Fairness

-----------------------------------------------------------------------------
TypeOK ==
  /\ readyState \in {"Closed", "Connecting", "Open", "Closing"}
  /\ worker \in {"none", "idle", "locking", "flagging"}
  /\ mutex \in {"free", "worker", "caller"}
  /\ queue \in Seq(Nat) /\ hasResponse \in BOOLEAN
  /\ \A i \in 1..Len(queue) : queue[i] # 0     (* no nullptr              *)
  /\ caller \in Joining \cup {"idle", "connecting", "receiving", "popping",
                              "popLocking", "timedOut", "clearing"}
  /\ ok \in BOOLEAN
  /\ incoming \in Nat /\ response \in Nat /\ taken \in Nat /\ floor \in Nat
  /\ sent \in Nat /\ answered \in Nat /\ read \in Nat /\ closes \in Nat

(* A client that polls never overlooks a response: outside the critical    *)
(* section of PushResponse, a queued response is announced by              *)
(* has_response_ (PushResponse, PopResponse and the clear() of Receive).   *)
PollNeverMisses ==
  worker # "flagging" => (queue # <<>> => PollResponse)

(* Until a Receive has failed, has_response_ is exactly the emptiness of   *)
(* queue_; after one it may be stale, for has_response_ is not reset then. *)
PollExactUntilFailure ==
  (floor = 0 /\ worker # "flagging") => (PollResponse <=> queue # <<>>)

(* What PollResponse says of the queue.                                    *)
PollAgrees == PollNeverMisses /\ PollExactUntilFailure

(* A Receive that returned true delivers a response, although PopResponse  *)
(* returns without one when it finds queue_ empty before it locks.         *)
SuccessDelivers ==
  (caller \in {"popping", "popLocking"}) => queue # <<>>

(* After a Receive failed, the answer to a request that was given up never *)
(* reaches the caller as the answer to a later one: Receive joins the      *)
(* worker before it clears queue_.                                         *)
NoStaleResponse ==
  /\ response # 0 => response > floor
  /\ caller = "idle" => \A i \in 1..Len(queue) : queue[i] > floor

(* stop() joins a worker that may be waiting for mutex_ in PushResponse:   *)
(* the caller never joins with the lock in its hands.                      *)
NoJoinDeadlock == caller \in Joining => mutex # "caller"

(* The unlocked accesses of the caller to queue_: clear() never overlaps   *)
(* the worker's push_back.                                                 *)
ClearIsAlone == caller = "clearing" => worker \notin {"locking", "flagging"}

(* stop(), which joins the websocket thread, comes back, and leaves the    *)
(* queue to the caller alone.                                              *)
StopIsSafe == NoJoinDeadlock /\ ClearIsAlone

(* Every call comes back: no thread waits for the other for ever.          *)
CallReturns == (caller # "idle") ~> (caller = "idle")

(* The promise to the client: one ordered mailbox, nothing twice.          *)
Box == INSTANCE Mailbox WITH box <- queue, Ids <- 0..MaxRequests
MailboxSpec == Box!Spec
=============================================================================
