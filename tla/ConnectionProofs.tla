--------------------------- MODULE ConnectionProofs ---------------------------
(***************************************************************************)
(* Safety of the connection for any number of requests and of closes: the  *)
(* inductive invariant, the invariants the runs check, and that the        *)
(* connection implements the Mailbox.                                      *)
(***************************************************************************)
EXTENDS Connection, TLAPS

(* The counters of the socket never overtake each other.                   *)
WireInv ==
  /\ taken <= read /\ floor <= read
  /\ read <= answered /\ answered <= sent /\ sent <= MaxRequests

(* PushResponse holds the newest response that was read.                   *)
IncomingInv ==
  IF worker = "locking"
    THEN incoming = read /\ taken < incoming /\ floor < incoming
    ELSE incoming = 0

(* queue_ is sorted, and newer than all that was taken or given up.        *)
QueueInv ==
  /\ \A i \in 1..Len(queue) : /\ taken < queue[i] /\ floor < queue[i]
                              /\ queue[i] <= read
                              /\ worker = "locking" => queue[i] < incoming
  /\ \A i, j \in 1..Len(queue) : i < j => queue[i] < queue[j]

(* Where the worker can be, given the socket and the caller.               *)
ThreadInv ==
  /\ worker = "none" => readyState = "Closed"
  /\ readyState \in {"Closed", "Connecting"} =>
       worker \in {"none", "idle"} /\ read = sent
  /\ readyState = "Closing" => caller \in Joining
  /\ caller \in Joining => \/ readyState = "Closing"
                           \/ readyState = "Closed" /\ worker = "none"
  /\ caller = "clearing" => worker \in {"none", "idle"} /\ read = sent

MutexInv == mutex = IF worker = "flagging" THEN "worker" ELSE "free"

(* has_response_; what PushResponse queued stays until it drops the lock.  *)
FlagInv ==
  /\ worker = "flagging" => queue # <<>>
  /\ PollNeverMisses
  /\ PollExactUntilFailure

(* What the caller has seen of queue_, and what it gave to the client.     *)
CallerInv ==
  /\ SuccessDelivers
  /\ response \in {0, taken}
  /\ response # 0 => response > floor
  /\ caller \in {"receiving", "popping", "popLocking", "timedOut",
                 "receiveJoin", "clearing"} => response = 0

IInv ==
  /\ TypeOK /\ WireInv /\ IncomingInv /\ QueueInv
  /\ ThreadInv /\ MutexInv /\ FlagInv /\ CallerInv

-----------------------------------------------------------------------------
LEMMA AppendFacts ==
  ASSUME NEW s \in Seq(Nat), NEW e \in Nat
  PROVE  /\ Append(s, e) \in Seq(Nat) /\ Append(s, e) # <<>>
         /\ Len(Append(s, e)) = Len(s) + 1
         /\ \A i \in 1..Len(s) : Append(s, e)[i] = s[i]
         /\ Append(s, e)[Len(s) + 1] = e
  OBVIOUS

LEMMA TailFacts ==
  ASSUME NEW s \in Seq(Nat), s # <<>>
  PROVE  /\ Tail(s) \in Seq(Nat) /\ Head(s) = s[1] /\ Head(s) \in Nat
         /\ Len(s) > 0 /\ Len(Tail(s)) = Len(s) - 1
         /\ \A i \in 1..Len(Tail(s)) : Tail(s)[i] = s[i + 1]
  OBVIOUS

LEMMA EmptyFacts == <<>> \in Seq(Nat) /\ Len(<<>>) = 0
  OBVIOUS

LEMMA InitInv == Init => IInv
  <1> SUFFICES ASSUME Init PROVE IInv
    OBVIOUS
  <1>1. TypeOK
    <2>1. \A i \in 1..Len(queue) : queue[i] # 0
      BY EmptyFacts DEF Init
    <2>2. QED
      BY <2>1, EmptyFacts DEF Init, TypeOK
  <1>2. WireInv /\ IncomingInv /\ QueueInv
    BY BoundsAssumption, EmptyFacts DEF Init, WireInv, IncomingInv, QueueInv
  <1>3. ThreadInv /\ MutexInv
    BY DEF Init, ThreadInv, MutexInv, Joining
  <1>4. FlagInv
    BY DEF Init, FlagInv, PollNeverMisses, PollExactUntilFailure, PollResponse
  <1>5. CallerInv
    BY DEF Init, CallerInv, SuccessDelivers
  <1>6. QED
    BY <1>1, <1>2, <1>3, <1>4, <1>5 DEF IInv

LEMMA StepInv == IInv /\ [Next]_vars => IInv'
  <1> SUFFICES ASSUME IInv, [Next]_vars PROVE IInv'
    OBVIOUS
  <1> USE BoundsAssumption DEF IInv, TypeOK, WireInv, IncomingInv, QueueInv,
    ThreadInv, MutexInv, FlagInv, CallerInv, PollNeverMisses,
    PollExactUntilFailure, SuccessDelivers, PollResponse, Joining,
    object, wire, call
  <1>1. CASE CallConnect
    BY <1>1 DEF CallConnect
  <1>2. CASE CallSend
    BY <1>2 DEF CallSend
  <1>3. CASE CallDisconnect
    BY <1>3 DEF CallDisconnect, Stops
  <1>4. CASE CallReceive
    BY <1>4 DEF CallReceive
  <1>5. CASE ConnectReturns
    BY <1>5 DEF ConnectReturns, Stops
  <1>6. CASE ReceiveWakes
    BY <1>6 DEF ReceiveWakes
  <1>7. CASE ReceiveTimesOut
    BY <1>7 DEF ReceiveTimesOut
  <1>8. CASE PopSeesResponse
    BY <1>8 DEF PopSeesResponse
  <1>9. CASE Pops
    <2>1. /\ queue \in Seq(Nat) /\ queue # <<>>
          /\ queue' = Tail(queue) /\ taken' = Head(queue)
      BY <1>9 DEF Pops
    <2>2. /\ queue' \in Seq(Nat) /\ taken' = queue[1] /\ taken' \in Nat
          /\ Len(queue) > 0 /\ Len(queue') = Len(queue) - 1
          /\ \A i \in 1..Len(queue') : queue'[i] = queue[i + 1]
      BY <2>1, TailFacts
    <2>3. WireInv' /\ QueueInv'
      BY <1>9, <2>2 DEF Pops
    <2>4. TypeOK'
      <3>1. hasResponse' \in BOOLEAN
        BY <1>9 DEF Pops, FlagAfterPop
      <3>2. QED
        BY <1>9, <2>2, <3>1 DEF Pops
    <2>5. IncomingInv' /\ ThreadInv' /\ MutexInv'
      BY <1>9, <2>2 DEF Pops
    <2>6. FlagInv'
      BY <1>9, <2>1, <2>2 DEF Pops, FlagAfterPop
    <2>7. CallerInv'
      BY <1>9, <2>1, <2>2 DEF Pops, FlagAfterPop
    <2>8. QED
      BY <2>3, <2>4, <2>5, <2>6, <2>7
  <1>10. CASE ReceiveDisconnects
    BY <1>10 DEF ReceiveDisconnects, Stops
  <1>11. CASE ReceiveFails
    <2>1. queue # <<>> => sent > 0
      <3>1. queue # <<>> => queue[1] \in Nat /\ queue[1] <= read /\ taken < queue[1]
        BY TailFacts
      <3>2. QED
        BY <3>1
    <2>2. sent = 0 => (hasResponse <=> FALSE)
      BY <1>11, <2>1 DEF ReceiveFails
    <2>3. TypeOK'
      <3>1. \A i \in 1..Len(queue') : queue'[i] # 0
        BY <1>11, EmptyFacts DEF ReceiveFails
      <3>2. QED
        BY <1>11, <3>1, EmptyFacts DEF ReceiveFails
    <2>4. WireInv' /\ IncomingInv'
      BY <1>11 DEF ReceiveFails
    <2>5. QueueInv'
      <3>1. queue' = <<>> /\ Len(queue') = 0
        BY <1>11, EmptyFacts DEF ReceiveFails
      <3>2. QED
        BY <3>1
    <2>6. ThreadInv' /\ MutexInv' /\ CallerInv'
      BY <1>11 DEF ReceiveFails
    <2>7. FlagInv'
      BY <1>11, <2>2, EmptyFacts DEF ReceiveFails
    <2>8. QED
      BY <2>3, <2>4, <2>5, <2>6, <2>7
  <1>12. CASE JoinReturns
    BY <1>12 DEF JoinReturns
  <1>13. CASE WorkerOpens
    BY <1>13 DEF WorkerOpens
  <1>14. CASE WorkerFailsToOpen
    BY <1>14 DEF WorkerFailsToOpen
  <1>15. CASE WorkerReconnects
    BY <1>15 DEF WorkerReconnects
  <1>16. CASE WorkerReads
    BY <1>16 DEF WorkerReads
  <1>17. CASE WorkerDiscards
    BY <1>17 DEF WorkerDiscards
  <1>18. CASE WorkerPushes
    BY <1>18, AppendFacts DEF WorkerPushes
  <1>19. CASE WorkerFlags
    BY <1>19 DEF WorkerFlags
  <1>20. CASE PeerCloses
    BY <1>20 DEF PeerCloses, LosesWire
  <1>21. CASE WorkerExits
    BY <1>21 DEF WorkerExits, LosesWire
  <1>22. CASE PeerAnswers
    BY <1>22 DEF PeerAnswers
  <1>23. CASE UNCHANGED vars
    BY <1>23 DEF vars
  <1>24. QED
    BY <1>1, <1>2, <1>3, <1>4, <1>5, <1>6, <1>7, <1>8, <1>9, <1>10, <1>11,
       <1>12, <1>13, <1>14, <1>15, <1>16, <1>17, <1>18, <1>19, <1>20, <1>21,
       <1>22, <1>23
       DEF Next, Calls, Caller, Worker

(* The invariant holds in every reachable state, whatever the bounds.      *)
THEOREM Inductive == Spec => []IInv
  BY InitInv, StepInv, PTL DEF Spec

(* Every variable keeps its type; in particular Head(queue_) is only taken *)
(* from a queue_ that holds a response.                                    *)
THEOREM TypeCorrect == Spec => []TypeOK
  <1>1. IInv => TypeOK
    BY DEF IInv
  <1>2. QED
    BY <1>1, Inductive, PTL

(* A client that polls with PollResponse overlooks no queued response, and *)
(* PollResponse tells the truth as long as no Receive has failed.          *)
THEOREM PollSafe == Spec => []PollAgrees
  <1>1. IInv => PollAgrees
    BY DEF IInv, FlagInv, PollAgrees
  <1>2. QED
    BY <1>1, Inductive, PTL

(* A Receive that returned true has a response: PopResponse's early return *)
(* on an empty queue_ is never taken after a successful wait.              *)
THEOREM Delivers == Spec => []SuccessDelivers
  <1>1. IInv => SuccessDelivers
    BY DEF IInv, CallerInv
  <1>2. QED
    BY <1>1, Inductive, PTL

(* No answer to a request that was given up is ever delivered.             *)
THEOREM NeverStale == Spec => []NoStaleResponse
  <1>1. IInv => NoStaleResponse
    BY DEF IInv, TypeOK, QueueInv, CallerInv, NoStaleResponse
  <1>2. QED
    BY <1>1, Inductive, PTL

(* Joining the worker cannot wait for a lock that the caller holds, and    *)
(* the unlocked clear() of a timed out Receive races with no push_back.    *)
THEOREM StopSafe == Spec => []StopIsSafe
  <1>1. IInv => NoJoinDeadlock
    BY DEF IInv, MutexInv, NoJoinDeadlock
  <1>2. IInv => ClearIsAlone
    BY DEF IInv, ThreadInv, ClearIsAlone
  <1>3. IInv => StopIsSafe
    BY <1>1, <1>2 DEF StopIsSafe
  <1>4. QED
    BY <1>3, Inductive, PTL

-----------------------------------------------------------------------------
(* The last request sent bounds all that was queued or given up.           *)
LEMMA SentIsLast ==
  ASSUME IInv
  PROVE  /\ sent \in 0..MaxRequests /\ sent >= floor
         /\ \A i \in 1..Len(queue) : sent >= queue[i]
  <1>1. /\ sent \in 0..MaxRequests /\ sent >= floor
        /\ read \in Nat /\ read <= sent
    BY BoundsAssumption DEF IInv, TypeOK, WireInv
  <1>2. \A i \in 1..Len(queue) : queue[i] \in Nat /\ queue[i] <= read
    BY DEF IInv, TypeOK, QueueInv
  <1>3. QED
    BY <1>1, <1>2

(* Every step of the connection is a step of the mailbox or invisible.     *)
LEMMA StepRefines == IInv /\ [Next]_vars => [Box!Next]_(Box!vars)
  <1> SUFFICES ASSUME IInv, [Next]_vars PROVE [Box!Next]_(Box!vars)
    OBVIOUS
  <1> DEFINE Silent == queue' = queue /\ taken' = taken /\ floor' = floor
  <1>1. Silent => [Box!Next]_(Box!vars)
    BY DEF Box!vars
  <1>2. CASE WorkerPushes
    <2>1. /\ incoming \in 0..MaxRequests
          /\ incoming > taken /\ incoming > floor
          /\ \A i \in 1..Len(queue) : incoming > queue[i]
      BY <1>2, BoundsAssumption
         DEF WorkerPushes, IInv, TypeOK, IncomingInv, WireInv, QueueInv
    <2>2. Box!Put(incoming)
      BY <1>2, <2>1 DEF WorkerPushes, Box!Put, call, wire
    <2>3. QED
      BY <2>1, <2>2 DEF Box!Next
  <1>3. CASE Pops
    <2>1. Box!Take
      BY <1>3 DEF Pops, Box!Take, IInv, CallerInv, SuccessDelivers
    <2>2. QED
      BY <2>1 DEF Box!Next
  <1>4. CASE ReceiveFails
    <2>1. /\ sent \in 0..MaxRequests /\ sent >= floor
          /\ \A i \in 1..Len(queue) : sent >= queue[i]
      BY SentIsLast
    <2>2. Box!GiveUp(sent)
      BY <1>4, <2>1 DEF ReceiveFails, Box!GiveUp
    <2>3. QED
      BY <2>1, <2>2 DEF Box!Next
  <1>5. ASSUME ~WorkerPushes, ~Pops, ~ReceiveFails PROVE Silent
    <2>1. CASE UNCHANGED vars
      BY <2>1 DEF vars
    <2>2. CASE Calls
      BY <2>2 DEF Calls, CallConnect, CallSend, CallDisconnect, CallReceive,
                  object
    <2>3. CASE Caller
      BY <1>5, <2>3 DEF Caller, ConnectReturns, ReceiveWakes, ReceiveTimesOut,
                        PopSeesResponse, ReceiveDisconnects, JoinReturns, object
    <2>4. CASE Worker
      BY <1>5, <2>4 DEF Worker, WorkerOpens, WorkerFailsToOpen,
                        WorkerReconnects, WorkerReads, WorkerDiscards,
                        WorkerFlags, PeerCloses, WorkerExits, object, call
    <2>5. CASE PeerAnswers
      BY <2>5 DEF PeerAnswers, object
    <2>6. QED
      BY <2>1, <2>2, <2>3, <2>4, <2>5 DEF Next
  <1>6. QED
    BY <1>1, <1>2, <1>3, <1>4, <1>5

(* The two threads together are one ordered mailbox: answers come in the   *)
(* order of the requests, none twice, none that was given up.              *)
THEOREM ImplementsMailbox == Spec => MailboxSpec
  <1>1. Init => Box!Init
    BY DEF Init, Box!Init
  <1>2. QED
    BY <1>1, StepRefines, Inductive, PTL DEF Spec, MailboxSpec, Box!Spec
=============================================================================
