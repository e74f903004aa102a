---------------------------- MODULE ProtocolProofs ----------------------------
(***************************************************************************)
(* The invariants of Protocol, for any number of requests, closes and      *)
(* hangs, on top of the inductive invariant of the Connection: the control *)
(* of the client's thread (ControlInv), the answers under way (FlightInv)  *)
(* and the reporting of failures (SilentInv).                              *)
(***************************************************************************)
EXTENDS Protocol, ConnectionProofs

-----------------------------------------------------------------------------
(***************************************************************************)
(* The Connection below                                                    *)
(***************************************************************************)

(* Whatever the protocol does, the connection makes a step of its own.     *)
LEMMA NextIsStep == [PNext]_pvars => [Next]_vars
<1> SUFFICES ASSUME [PNext]_pvars PROVE [Next]_vars
  OBVIOUS
<1>1. CASE Starting
  BY <1>1 DEF Starting, StartConnect, StartRequest, StartWait, StartQuit, Starts,
         Next, Calls
<1>2. CASE Running
  BY <1>2 DEF Running, SendChecks, SendConnected, SendRechecks, SendGoes, Waits,
         NoResponse, HasResponse, Diagnoses, GivesUp, Quits, QuitReturns, Next,
         Calls
<1>3. CASE CallerRuns
  BY <1>3 DEF CallerRuns, Next
<1>4. CASE WorkerRuns
  BY <1>4 DEF WorkerRuns, Next, Worker
<1>5. CASE WorkerCloses
  BY <1>5 DEF WorkerCloses, Next, Worker
<1>6. CASE Game
  BY <1>6 DEF Game, GameHangs, GameRecovers, GameExits
<1>7. CASE UNCHANGED pvars
  BY <1>7 DEF pvars
<1> QED BY <1>1, <1>2, <1>3, <1>4, <1>5, <1>6, <1>7 DEF PNext

(* ProtoInterface uses the Connection as it is specified: everything that  *)
(* is proved of the Connection holds below the protocol.                   *)
THEOREM UsesConnection == PSpec => Spec
<1>1. PInit => Init
  BY DEF PInit
<1> QED BY <1>1, NextIsStep, PTL DEF PSpec, Spec

(* The calls of the connection and the phases that make them.              *)
Receiving ==
  {"receiving", "popping", "popLocking", "timedOut", "receiveJoin", "clearing"}

Sending == {"connecting", "send", "recheck", "go"}

CallInv ==
  /\ caller \in {"connecting", "connectJoin"} => phase = "connecting"
  /\ caller \in Receiving => phase = "receiving"
  /\ caller = "disconnectJoin" => phase = "quitting"

(* What an operation may be at in each phase.                              *)
OpInv ==
  /\ phase = "ready" => ~diag
  /\ phase \in Sending /\ ~diag => op \notin {"none", "waitStep", "consume"}
  /\ phase # "ready" => (connected <=> op # "connect")
  /\ diag => connected
  /\ phase = "diagnose" => ~diag /\ op \notin {"connect", "ping"}
  /\ phase \in {"wait", "receiving"} /\ ~diag =>
       /\ op = "waitStep" => pending = "step"
       /\ op = "observe" => pending = "observation"

LEMMA InitControl == PInit => IInv /\ PTypeOK /\ CallInv /\ OpInv
<1> SUFFICES ASSUME PInit PROVE IInv /\ PTypeOK /\ CallInv /\ OpInv
  OBVIOUS
<1>1. IInv
  BY InitInv DEF PInit
<1>2. PTypeOK
  <2>1. TypeOK
    BY <1>1 DEF IInv
  <2>2. kinds \in [1..MaxRequests -> Kinds \cup {"none"}]
    BY DEF PInit
  <2>3. {callbackSet, diag, failed, connected, launched} \subseteq BOOLEAN
    BY DEF PInit
  <2>4. faults \in 0..MaxFaults /\ asked \in 0..MaxRequests
                                /\ answer \in 0..MaxRequests
    BY BoundsAssumption, FaultsAssumption DEF PInit
  <2> QED BY <2>1, <2>2, <2>3, <2>4 DEF PInit, PTypeOK
<1>3. CallInv /\ OpInv
  BY DEF PInit, Init, CallInv, OpInv, Receiving, Sending
<1> QED BY <1>1, <1>2, <1>3

LEMMA NextCall == IInv /\ CallInv /\ [PNext]_pvars => CallInv'
<1> SUFFICES ASSUME IInv, CallInv, [PNext]_pvars PROVE CallInv'
  OBVIOUS
<1> USE DEF CallInv, Receiving, Joining
<1>1. CASE StartConnect
  BY <1>1 DEF StartConnect, CallConnect
<1>2. CASE StartRequest \/ StartWait \/ StartQuit
  BY <1>2 DEF StartRequest, StartWait, StartQuit, Starts, vars
<1>3. CASE SendChecks
  BY <1>3 DEF SendChecks, CallConnect, Goto, vars
<1>4. CASE SendConnected \/ SendRechecks
  BY <1>4 DEF SendConnected, SendRechecks, vars
<1>5. CASE SendGoes
  BY <1>5 DEF SendGoes, CallSend, call, vars
<1>6. CASE Waits
  BY <1>6 DEF Waits, CallReceive, Goto
<1>7. CASE NoResponse \/ Diagnoses \/ GivesUp \/ QuitReturns
  BY <1>7 DEF NoResponse, Diagnoses, GivesUp, QuitReturns, vars
<1>8. CASE \E errs \in BOOLEAN : HasResponse(errs)
  BY <1>8 DEF HasResponse, vars
<1>9. CASE Quits
  BY <1>9 DEF Quits, CallDisconnect, Stops, Goto
<1>10. CASE CallerRuns
  BY <1>10 DEF CallerRuns, ctl, Caller, ConnectReturns, ReceiveWakes,
          ReceiveTimesOut, PopSeesResponse, Pops, ReceiveDisconnects,
          ReceiveFails, JoinReturns, Stops
<1>11. CASE WorkerRuns
  BY <1>11 DEF WorkerRuns, ctl, call, WorkerReconnects, WorkerReads,
          WorkerDiscards, WorkerPushes, WorkerFlags, WorkerOpens,
          WorkerFailsToOpen, PeerAnswers
<1>12. CASE WorkerCloses
  BY <1>12 DEF WorkerCloses, ctl, call, PeerCloses, WorkerExits
<1>13. CASE Game \/ UNCHANGED pvars
  BY <1>13 DEF Game, GameHangs, GameRecovers, GameExits, ctl, vars, pvars
<1> QED BY <1>1, <1>2, <1>3, <1>4, <1>5, <1>6, <1>7, <1>8, <1>9, <1>10, <1>11,
           <1>12, <1>13 DEF PNext, Starting, Running

(* Only what an operation sends has a kind.                                *)
LEMMA RequestKind ==
  ASSUME PTypeOK, OpInv, phase \in Sending
  PROVE  Request \in Kinds
BY DEF PTypeOK, OpInv, Request, KindOf, Kinds

LEMMA FinishType ==
  ASSUME PTypeOK, NEW bad \in BOOLEAN, Finish(bad)
  PROVE  /\ phase' = "ready" /\ diag' = FALSE /\ failed' = bad
         /\ connected' \in BOOLEAN /\ op' = op
         /\ connected \/ op # "connect" => connected' = connected
         /\ connected' => connected \/ (op = "connect" /\ ~bad)
<1>1. connected \in BOOLEAN
  BY DEF PTypeOK
<1>2. phase' = "ready" /\ diag' = FALSE /\ failed' = bad /\ op' = op
  BY DEF Finish
<1>3. connected' = (connected \/ (op = "connect" /\ ~bad))
  BY DEF Finish
<1> QED BY <1>1, <1>2, <1>3

LEMMA NextOp == PTypeOK /\ CallInv /\ OpInv /\ [PNext]_pvars => OpInv'
<1> SUFFICES ASSUME PTypeOK, CallInv, OpInv, [PNext]_pvars PROVE OpInv'
  OBVIOUS
<1> USE DEF OpInv, Sending
<1>1. CASE StartConnect
  BY <1>1 DEF StartConnect, PTypeOK
<1>2. CASE StartRequest
  BY <1>2 DEF StartRequest, Starts, PTypeOK
<1>3. CASE StartWait
  BY <1>3 DEF StartWait, Starts, proto, PTypeOK
<1>4. CASE StartQuit
  BY <1>4 DEF StartQuit, Starts, PTypeOK
<1>5. CASE SendChecks
  BY <1>5 DEF SendChecks, Goto, proto, PTypeOK
<1>6. CASE SendConnected
  BY <1>6, FinishType DEF SendConnected, SendReturns, Goto, PTypeOK, TypeOK
<1>7. CASE SendRechecks
  BY <1>7, FinishType DEF SendRechecks, SendReturns, Goto, PTypeOK
<1>8. CASE SendGoes
  BY <1>8, FinishType DEF SendGoes, SendReturns, Goto, PTypeOK, Request, KindOf
<1>9. CASE Waits \/ Quits \/ QuitReturns
  BY <1>9 DEF Waits, Quits, QuitReturns, Goto, proto, PTypeOK
<1>10. CASE NoResponse
  BY <1>10, FinishType DEF NoResponse, Goto, PTypeOK
<1>11. CASE \E errs \in BOOLEAN : HasResponse(errs)
  BY <1>11, FinishType DEF HasResponse, ReturnsNull, ReturnsResponse, Goto, PTypeOK
<1>12. CASE Diagnoses
  <2>1. CASE LooksCrashed
    BY <1>12, <2>1, FinishType DEF Diagnoses, ReturnsNull, Goto, PTypeOK
  <2>2. CASE ~LooksCrashed
    BY <1>12, <2>2 DEF Diagnoses, PTypeOK
  <2> QED BY <2>1, <2>2
<1>13. CASE GivesUp
  BY <1>13, FinishType DEF GivesUp, ReturnsNull, Goto, PTypeOK
<1>14. CASE CallerRuns \/ WorkerRuns \/ WorkerCloses \/ Game \/ UNCHANGED pvars
  BY <1>14 DEF CallerRuns, WorkerRuns, WorkerCloses, Game, GameHangs,
          GameRecovers, GameExits, proto, ctl, pvars
<1> QED BY <1>1, <1>2, <1>3, <1>4, <1>5, <1>6, <1>7, <1>8, <1>9, <1>10, <1>11,
           <1>12, <1>13, <1>14 DEF PNext, Starting, Running

LEMMA NextTypes ==
  IInv /\ IInv' /\ PTypeOK /\ OpInv /\ [PNext]_pvars => PTypeOK'
<1> SUFFICES ASSUME IInv, IInv', PTypeOK, OpInv, [PNext]_pvars PROVE PTypeOK'
  OBVIOUS
<1>0. TypeOK'
  BY DEF IInv
<1> USE <1>0 DEF PTypeOK, Goto
<1>1. CASE StartConnect
  <2>1. (answer \in 0..MaxRequests)'
    BY <1>1, BoundsAssumption DEF StartConnect
  <2>2. {callbackSet, diag, failed, connected, launched}' \subseteq BOOLEAN
    BY <1>1 DEF StartConnect, env
  <2> QED BY <1>1, <2>1, <2>2 DEF StartConnect, env
<1>2. CASE StartRequest \/ StartWait \/ StartQuit
  <2>1. (answer \in 0..MaxRequests)'
    BY <1>2, BoundsAssumption DEF StartRequest, StartWait, StartQuit, Starts
  <2>2. {callbackSet, diag, failed, connected, launched}' \subseteq BOOLEAN
    BY <1>2 DEF StartRequest, StartWait, StartQuit, Starts, proto, env
  <2> QED
    BY <1>2, <2>1, <2>2 DEF StartRequest, StartWait, StartQuit, Starts, proto, env
<1>3. CASE SendChecks
  BY <1>3 DEF SendChecks, proto, env, hist
<1>4. CASE SendConnected
  <2>1. callbackSet' \in BOOLEAN
    BY <1>4 DEF SendConnected
  <2> QED BY <1>4, <2>1, FinishType DEF SendConnected, SendReturns, env, hist
<1>5. CASE SendRechecks
  BY <1>5, FinishType DEF SendRechecks, SendReturns, env, hist
<1>6. CASE SendGoes
  <2>1. Request \in Kinds
    BY <1>6, RequestKind DEF SendGoes, Sending
  <2>2. asked' \in 0..MaxRequests
    <3>1. sent \in Nat
      BY DEF IInv, TypeOK
    <3>2. CASE HasConnection
      <4>1. sent < MaxRequests /\ asked' = sent + 1
        BY <1>6, <3>2 DEF SendGoes, CallSend
      <4> QED BY <3>1, <4>1, BoundsAssumption
    <3>3. CASE ~HasConnection
      BY <1>6, <3>3, BoundsAssumption DEF SendGoes
    <3> QED BY <3>2, <3>3
  <2>3. kinds' \in [1..MaxRequests -> Kinds \cup {"none"}]
    BY <1>6, <2>1 DEF SendGoes
  <2>4. answer' \in 0..MaxRequests
    BY <1>6, BoundsAssumption DEF SendGoes
  <2> QED BY <1>6, <2>1, <2>2, <2>3, <2>4, FinishType DEF SendGoes, SendReturns, env
<1>7. CASE Waits \/ Quits \/ QuitReturns
  BY <1>7 DEF Waits, Quits, QuitReturns, proto, env, hist
<1>8. CASE NoResponse
  BY <1>8, FinishType DEF NoResponse, env, hist
<1>9. CASE \E errs \in BOOLEAN : HasResponse(errs)
  <2> PICK errs \in BOOLEAN : HasResponse(errs)
    BY <1>9
  <2>1. answer' \in 0..MaxRequests
    BY BoundsAssumption DEF HasResponse, IInv, TypeOK, WireInv, CallerInv
  <2>2. errors' \subseteq {"ConnectionClosed", "ResponseNotConsumed",
          "ResponseMismatch", "SC2ProtocolError", "SC2UnknownStatus",
          "SC2AppFailure", "SC2ProtocolTimeout"}
    BY DEF HasResponse, MismatchError
  <2> QED BY <2>1, <2>2, FinishType DEF HasResponse, ReturnsNull, ReturnsResponse, env
<1>10. CASE Diagnoses
  BY <1>10, FinishType DEF Diagnoses, ReturnsNull, env, hist
<1>11. CASE GivesUp
  BY <1>11, FinishType DEF GivesUp, ReturnsNull, hist
<1>12. CASE CallerRuns \/ WorkerRuns \/ UNCHANGED pvars
  <2>1. UNCHANGED <<proto, ctl, env, hist>>
    BY <1>12 DEF CallerRuns, WorkerRuns, pvars
  <2> QED BY <2>1 DEF proto, ctl, env, hist
<1>13. CASE WorkerCloses
  BY <1>13 DEF WorkerCloses, ClosedError, ctl, env, hist
<1>14. CASE Game
  <2>1. UNCHANGED <<proto, ctl, hist, launched>>
    BY <1>14 DEF Game, GameHangs, GameRecovers, GameExits
  <2>2. game' \in {"up", "hung", "exited"}
    BY <1>14 DEF Game, GameHangs, GameRecovers, GameExits
  <2>3. faults' \in 0..MaxFaults
    BY <1>14, FaultsAssumption DEF Game, GameHangs, GameRecovers, GameExits
  <2> QED BY <2>1, <2>2, <2>3 DEF proto, ctl, hist
<1> QED BY <1>1, <1>2, <1>3, <1>4, <1>5, <1>6, <1>7, <1>8, <1>9, <1>10, <1>11,
           <1>12, <1>13, <1>14 DEF PNext, Starting, Running

ControlInv == IInv /\ PTypeOK /\ CallInv /\ OpInv

LEMMA NextControl == ControlInv /\ [PNext]_pvars => ControlInv'
BY NextIsStep, StepInv, NextCall, NextOp, NextTypes DEF ControlInv

LEMMA Control == PSpec => []ControlInv
<1>1. PInit => ControlInv
  BY InitControl DEF ControlInv
<1> QED BY <1>1, NextControl, PTL DEF PSpec

(* PTypeOK is an invariant of the protocol.                                *)
THEOREM ProtocolTypes == PSpec => []PTypeOK
<1>1. ControlInv => PTypeOK
  BY DEF ControlInv
<1> QED BY <1>1, Control, PTL

-----------------------------------------------------------------------------
(***************************************************************************)
(* At most one answer under way                                            *)
(***************************************************************************)

(* The answers that can still reach the client.                            *)
Flight == (sent - read) + (IF incoming = 0 THEN 0 ELSE 1) + Len(queue)

(* No answer is under way: the client awaits none, has just received one   *)
(* or given one up, or it is about to send.                                *)
Quiet ==
  \/ pending = "none"
  \/ ~connected /\ phase \in {"ready"} \cup Sending
  \/ diag /\ phase \in Sending
  \/ phase \in {"go", "diagnose", "hung"}
  \/ phase = "receiving" /\ caller = "idle"

WireFlight == Flight <= 1 /\ (queue # <<>> => queue[1] = sent)

FlightInv ==
  /\ WireFlight
  /\ Flight = 1 => asked = sent
  /\ Quiet => Flight = 0
  /\ op = "ping" /\ ~diag /\ phase \in Sending => pending = "none"
  /\ phase = "receiving" /\ response # 0 => response = asked
  /\ AnswerMatches

LEMMA FlightFacts ==
  ASSUME IInv
  PROVE  /\ sent \in Nat /\ read \in Nat /\ read <= sent
         /\ Len(queue) \in Nat /\ Flight \in Nat
         /\ queue # <<>> => Len(queue) >= 1
<1>1. sent \in Nat /\ read \in Nat /\ queue \in Seq(Nat)
  BY DEF IInv, TypeOK
<1>2. read <= sent
  BY <1>1, BoundsAssumption DEF IInv, TypeOK, WireInv
<1>3. Len(queue) \in Nat /\ (queue # <<>> => Len(queue) >= 1)
  BY <1>1
<1> QED BY <1>1, <1>2, <1>3 DEF Flight

(* Only Send puts an answer on its way; all else moves it on or drops it.  *)
LEMMA WireFalls ==
  ASSUME IInv, WireFlight, [Next]_vars, sent' = sent
  PROVE  WireFlight' /\ Flight' <= Flight
<1>0. /\ sent \in Nat /\ read \in Nat /\ read <= sent /\ Len(queue) \in Nat
      /\ queue # <<>> => Len(queue) >= 1
  BY FlightFacts
<1>t. queue \in Seq(Nat) /\ incoming \in Nat
  BY DEF IInv, TypeOK
<1> USE <1>0 DEF WireFlight, Flight
<1>1. CASE UNCHANGED <<read, incoming, queue>>
  BY <1>1
<1>2. CASE Calls
  <2>1. ~CallSend
    BY DEF CallSend
  <2> QED BY <1>1, <1>2, <2>1 DEF Calls, CallConnect, CallDisconnect, CallReceive,
             object, wire
<1>3. CASE Pops
  <2>1. queue # <<>> /\ Len(queue) = 1
    <3>1. queue # <<>>
      BY <1>3 DEF Pops, IInv, CallerInv, SuccessDelivers
    <3>2. Len(queue) >= 1
      BY <1>t, <3>1
    <3>3. Flight <= 1
      OBVIOUS
    <3>4. Len(queue) = 1
      BY <1>0, <3>2, <3>3
    <3> QED BY <3>1, <3>4
  <2>2. queue' = <<>> /\ Len(queue') = 0
    <3>1. Tail(queue) \in Seq(Nat) /\ Len(Tail(queue)) = 0
      BY <1>t, <2>1, TailFacts
    <3>2. Tail(queue) = <<>>
      BY <3>1
    <3> QED BY <1>3, <3>1, <3>2 DEF Pops
  <2>3. sent' = sent /\ read' = read /\ incoming' = incoming
    BY <1>3 DEF Pops, wire
  <2> QED BY <2>1, <2>2, <2>3
<1>4. CASE ReceiveFails
  <2>1. sent' = sent /\ read' = read /\ incoming' = incoming /\ queue' = <<>>
    BY <1>4 DEF ReceiveFails, wire
  <2>2. Len(queue') = 0
    BY <2>1, EmptyFacts
  <2> QED BY <2>1, <2>2
<1>5. CASE ConnectReturns \/ ReceiveWakes \/ ReceiveTimesOut \/ PopSeesResponse
             \/ ReceiveDisconnects \/ JoinReturns
  BY <1>1, <1>5 DEF ConnectReturns, ReceiveWakes, ReceiveTimesOut,
         PopSeesResponse, ReceiveDisconnects, JoinReturns, object, wire
<1>6. CASE WorkerOpens \/ WorkerFailsToOpen \/ WorkerReconnects \/ WorkerFlags
             \/ PeerAnswers
  BY <1>1, <1>6 DEF WorkerOpens, WorkerFailsToOpen, WorkerReconnects,
         WorkerFlags, PeerAnswers, object, wire
<1>7. CASE WorkerReads
  <2>1. incoming = 0 /\ incoming' # 0 /\ read' = read + 1 /\ queue' = queue
    BY <1>7 DEF WorkerReads, IInv, IncomingInv
  <2>2. read < sent
    BY <1>7 DEF WorkerReads, IInv, WireInv, TypeOK
  <2> QED BY <2>1, <2>2
<1>8. CASE WorkerDiscards
  <2>1. read < sent
    BY <1>8 DEF WorkerDiscards, IInv, WireInv, TypeOK
  <2> QED BY <1>8, <2>1 DEF WorkerDiscards, object
<1>9. CASE WorkerPushes
  <2>1. incoming = read /\ incoming' = 0 /\ queue' = Append(queue, incoming)
    BY <1>9 DEF WorkerPushes, IInv, IncomingInv
  <2>2. incoming # 0
    BY <1>9, <1>t DEF WorkerPushes, IInv, IncomingInv, TypeOK
  <2>3. queue = <<>> /\ Len(queue) = 0 /\ read = sent
    BY <2>2, <1>t
  <2>4. queue'[1] = incoming /\ Len(queue') = 1
    BY <2>1, <2>3, <1>t, AppendFacts
  <2> QED BY <1>9, <2>1, <2>2, <2>3, <2>4 DEF WorkerPushes, wire
<1>10. CASE PeerCloses \/ WorkerExits
  BY <1>10 DEF PeerCloses, WorkerExits, LosesWire
<1>11. CASE UNCHANGED vars
  BY <1>1, <1>11 DEF vars
<1> QED BY <1>2, <1>3, <1>4, <1>5, <1>6, <1>7, <1>8, <1>9, <1>10, <1>11
       DEF Next, Caller, Worker

(* Every step but the Send leaves the counter and `asked' alone.           *)
LEMMA OnlyOneSends == [PNext]_pvars => SendGoes \/ (sent' = sent /\ asked' = asked)
<1> SUFFICES ASSUME [PNext]_pvars, ~SendGoes PROVE sent' = sent /\ asked' = asked
  OBVIOUS
<1>1. CASE Starting
  BY <1>1 DEF Starting, StartConnect, StartRequest, StartWait, StartQuit, Starts,
         CallConnect, wire, vars
<1>2. CASE Running
  BY <1>2 DEF Running, SendChecks, SendConnected, SendRechecks, Waits, NoResponse,
         HasResponse, Diagnoses, GivesUp, Quits, QuitReturns, CallConnect,
         CallReceive, CallDisconnect, wire, vars, hist
<1>3. CASE CallerRuns
  BY <1>3 DEF CallerRuns, hist, Caller, ConnectReturns, ReceiveWakes,
         ReceiveTimesOut, PopSeesResponse, Pops, ReceiveDisconnects,
         ReceiveFails, JoinReturns, wire
<1>4. CASE WorkerRuns \/ WorkerCloses
  BY <1>4 DEF WorkerRuns, WorkerCloses, hist, WorkerReconnects, WorkerReads,
         WorkerDiscards, WorkerPushes, WorkerFlags, WorkerOpens, LosesWire,
         WorkerFailsToOpen, PeerAnswers, PeerCloses, WorkerExits, wire
<1>5. CASE Game \/ UNCHANGED pvars
  BY <1>5 DEF Game, GameHangs, GameRecovers, GameExits, hist, vars, pvars
<1> QED BY <1>1, <1>2, <1>3, <1>4, <1>5 DEF PNext

(* The request goes out when nothing else is under way.                    *)
LEMMA SendFlight ==
  ASSUME ControlInv, FlightInv, SendGoes
  PROVE  FlightInv'
<1>0. /\ sent \in Nat /\ read \in Nat /\ read <= sent /\ Len(queue) \in Nat
      /\ queue # <<>> => Len(queue) >= 1
  BY FlightFacts DEF ControlInv
<1>1. Flight = 0 /\ queue = <<>> /\ read = sent /\ incoming = 0
  BY <1>0 DEF SendGoes, FlightInv, WireFlight, Quiet, Flight
<1>2. UNCHANGED <<read, incoming, queue, caller>> /\ answer' = 0
  BY DEF SendGoes, CallSend, object, call, vars
<1>3. IF HasConnection THEN sent' = sent + 1 /\ asked' = sent + 1
                       ELSE sent' = sent /\ asked' = 0
  BY DEF SendGoes, CallSend, vars
<1>4. WireFlight' /\ (Flight' = 1 => asked' = sent') /\ (~HasConnection => Flight' = 0)
  BY <1>0, <1>1, <1>2, <1>3 DEF WireFlight, Flight
<1>5. pending' # "none"
  BY RequestKind DEF SendGoes, ControlInv, Sending, Kinds
<1>6. phase' \in {"wait", "ready", "quit"} /\ (phase' = "ready" => connected')
  BY FinishType DEF SendGoes, SendReturns, Goto, ControlInv, OpInv, Sending, PTypeOK
<1>7. ~Quiet'
  BY <1>5, <1>6 DEF Quiet, Sending
<1> QED BY <1>2, <1>4, <1>6, <1>7 DEF FlightInv, AnswerMatches, Sending

(* What the pairing asks of the client: no Ping() in between.              *)
NoPing == ~PingWhilePending

(* No other step makes the client quiet while an answer is under way.      *)
LEMMA QuietFlight ==
  ASSUME ControlInv, FlightInv, [PNext]_pvars, ~SendGoes, WireFlight',
         Flight' <= Flight
  PROVE  Quiet' => Flight' = 0
<1> SUFFICES ASSUME Quiet' PROVE Quiet \/ Flight' = 0
  <2>1. sent' \in Nat /\ read' \in Nat /\ read' <= sent' /\ queue' \in Seq(Nat)
    BY NextControl, BoundsAssumption DEF ControlInv, IInv, TypeOK, WireInv
  <2>2. Len(queue') \in Nat
    BY <2>1
  <2>3. Flight' \in Nat
    BY <2>1, <2>2 DEF Flight
  <2>4. Flight \in Nat
    BY FlightFacts DEF ControlInv
  <2> QED BY <2>3, <2>4 DEF FlightInv
<1> USE DEF Quiet, Sending
<1>1. CASE Starting
  BY <1>1 DEF Starting, StartConnect, StartRequest, StartWait, StartQuit, Starts,
         proto, ControlInv, OpInv
<1>2. CASE SendChecks
  BY <1>2 DEF SendChecks, Goto, proto
<1>3. CASE SendConnected
  BY <1>3, FinishType DEF SendConnected, SendReturns, Goto, ControlInv, OpInv,
         PTypeOK, TypeOK
<1>4. CASE SendRechecks
  BY <1>4, FinishType DEF SendRechecks, SendReturns, RefusesPending, IgnoresPending,
         HasResponsePending, Goto, ControlInv, OpInv, PTypeOK, FlightInv
<1>5. CASE NoResponse \/ \E errs \in BOOLEAN : HasResponse(errs)
  BY <1>5 DEF NoResponse, HasResponse
<1>6. CASE Waits
  BY <1>6 DEF Waits, Goto, CallReceive
<1>7. CASE Diagnoses \/ GivesUp
  BY <1>7 DEF Diagnoses, GivesUp
<1>8. CASE Quits \/ QuitReturns
  BY <1>8 DEF Quits, QuitReturns, Goto, proto
<1>9. CASE CallerRuns
  <2>1. UNCHANGED <<pending, connected, phase, diag>>
    BY <1>9 DEF CallerRuns, proto, ctl
  <2>2. CASE Quiet
    BY <2>2
  <2>3. CASE phase = "receiving" /\ caller # "idle" /\ caller' = "idle"
    <3>1. CASE Pops
      <4>1. queue # <<>> /\ queue \in Seq(Nat)
        BY <3>1 DEF Pops, ControlInv, IInv, TypeOK, CallerInv, SuccessDelivers
      <4>2. Len(queue) >= 1
        BY <4>1
      <4>3. Len(queue') = Len(queue) - 1 /\ UNCHANGED <<sent, read, incoming>>
        BY <3>1, <4>1, TailFacts DEF Pops, wire
      <4>4. /\ sent \in Nat /\ read \in Nat /\ read <= sent
            /\ Len(queue) \in Nat /\ Flight \in Nat /\ Flight <= 1
        BY FlightFacts DEF ControlInv, FlightInv, WireFlight
      <4> QED BY <4>2, <4>3, <4>4 DEF Flight
    <3>2. CASE ReceiveFails
      <4>1. read = sent /\ incoming = 0 /\ sent \in Nat
        BY <3>2 DEF ReceiveFails, ControlInv, IInv, TypeOK, IncomingInv, ThreadInv
      <4>2. UNCHANGED <<sent, read, incoming>> /\ Len(queue') = 0
        BY <3>2, EmptyFacts DEF ReceiveFails, wire
      <4> QED BY <4>1, <4>2 DEF Flight
    <3>3. CASE PopSeesResponse
      BY <2>3, <3>3 DEF PopSeesResponse, ControlInv, IInv, CallerInv, SuccessDelivers
    <3>4. CASE ConnectReturns \/ ReceiveWakes \/ ReceiveTimesOut
                 \/ ReceiveDisconnects \/ JoinReturns
      BY <2>3, <3>4 DEF ConnectReturns, ReceiveWakes, ReceiveTimesOut,
             ReceiveDisconnects, JoinReturns, Stops, Joining, ControlInv, CallInv
    <3> QED BY <1>9, <3>1, <3>2, <3>3, <3>4 DEF CallerRuns, Caller
  <2> QED BY <2>1, <2>2, <2>3
<1>10. CASE WorkerRuns \/ WorkerCloses
  BY <1>10 DEF WorkerRuns, WorkerCloses, proto, ctl, call, WorkerReconnects,
         WorkerReads, WorkerDiscards, WorkerPushes, WorkerFlags, WorkerOpens,
         WorkerFailsToOpen, PeerAnswers, PeerCloses, WorkerExits
<1>11. CASE Game \/ UNCHANGED pvars
  BY <1>11 DEF Game, GameHangs, GameRecovers, GameExits, proto, ctl, vars, pvars
<1> QED BY <1>1, <1>2, <1>3, <1>4, <1>5, <1>6, <1>7, <1>8, <1>9, <1>10, <1>11
       DEF PNext, Running

(* A ping that the client asks for does not find an answer outstanding.    *)
LEMMA PingFlight ==
  ASSUME NoPing, ControlInv, FlightInv, [PNext]_pvars
  PROVE  (op = "ping" /\ ~diag /\ phase \in Sending => pending = "none")'
<1> USE DEF Sending, FlightInv
<1>1. CASE Starting
  BY <1>1 DEF Starting, StartConnect, StartRequest, StartWait, StartQuit, Starts,
         NoPing, HasResponsePending, proto
<1>2. CASE SendChecks \/ Waits \/ Quits \/ QuitReturns
  BY <1>2 DEF SendChecks, Waits, Quits, QuitReturns, Goto, proto
<1>3. CASE SendConnected \/ SendRechecks
  BY <1>3, FinishType DEF SendConnected, SendRechecks, SendReturns, Goto,
         ControlInv, PTypeOK, TypeOK
<1>4. CASE SendGoes
  BY <1>4, FinishType DEF SendGoes, SendReturns, Goto, ControlInv
<1>5. CASE NoResponse
  BY <1>5, FinishType DEF NoResponse, Goto, ControlInv
<1>6. CASE \E errs \in BOOLEAN : HasResponse(errs)
  BY <1>6 DEF HasResponse
<1>7. CASE Diagnoses
  BY <1>7, FinishType DEF Diagnoses, ReturnsNull, Goto, ControlInv
<1>8. CASE GivesUp
  BY <1>8, FinishType DEF GivesUp, ReturnsNull, Goto, ControlInv
<1>9. CASE CallerRuns \/ WorkerRuns \/ WorkerCloses \/ Game \/ UNCHANGED pvars
  BY <1>9 DEF CallerRuns, WorkerRuns, WorkerCloses, Game, GameHangs,
         GameRecovers, GameExits, proto, ctl, pvars
<1> QED BY <1>1, <1>2, <1>3, <1>4, <1>5, <1>6, <1>7, <1>8, <1>9
       DEF PNext, Running

(* What is received, and accepted, is what was asked for.                  *)
LEMMA AnswerFlight ==
  ASSUME ControlInv, FlightInv, [PNext]_pvars, ~SendGoes
  PROVE  /\ (phase = "receiving" /\ response # 0 => response = asked)'
         /\ AnswerMatches'
<1> USE DEF FlightInv, AnswerMatches
<1>0. asked' = asked
  BY OnlyOneSends
<1>1. CASE Starting
  BY <1>0, <1>1 DEF Starting, StartConnect, StartRequest, StartWait, StartQuit,
         Starts
<1>2. CASE SendChecks \/ Quits \/ QuitReturns
  BY <1>0, <1>2 DEF SendChecks, Quits, QuitReturns, Goto, hist
<1>3. CASE Waits
  BY <1>0, <1>3 DEF Waits, CallReceive, hist
<1>4. CASE SendConnected \/ SendRechecks
  BY <1>0, <1>4, FinishType DEF SendConnected, SendRechecks, SendReturns, Goto,
         ControlInv, PTypeOK, TypeOK, hist
<1>5. CASE NoResponse
  BY <1>0, <1>5, FinishType DEF NoResponse, Goto, ControlInv, hist
<1>6. CASE \E errs \in BOOLEAN : HasResponse(errs)
  <2> PICK errs \in BOOLEAN : HasResponse(errs)
    BY <1>6
  <2>1. answer' \in {response, 0} /\ response = asked
    BY DEF HasResponse
  <2>2. phase' # "receiving"
    BY FinishType DEF HasResponse, ReturnsNull, ReturnsResponse, Goto, ControlInv
  <2> QED BY <1>0, <2>1, <2>2
<1>7. CASE Diagnoses
  BY <1>0, <1>7, FinishType DEF Diagnoses, ReturnsNull, Goto, ControlInv, hist
<1>8. CASE GivesUp
  BY <1>0, <1>8, FinishType DEF GivesUp, ReturnsNull, Goto, ControlInv, hist
<1>9. CASE CallerRuns
  <2>1. UNCHANGED <<phase, asked, answer>>
    BY <1>9 DEF CallerRuns, ctl, hist
  <2>2. CASE Pops
    <3>1. queue # <<>> /\ queue \in Seq(Nat)
      BY <2>2 DEF Pops, ControlInv, IInv, TypeOK, CallerInv, SuccessDelivers
    <3>2. Len(queue) >= 1
      BY <3>1
    <3>3. /\ sent \in Nat /\ read \in Nat /\ read <= sent
          /\ Len(queue) \in Nat /\ Flight \in Nat /\ Flight <= 1
      BY FlightFacts DEF ControlInv, WireFlight
    <3>4. Flight = 1
      BY <3>2, <3>3 DEF Flight
    <3>5. response' = queue[1] /\ queue[1] = sent
      BY <2>2, <3>1, TailFacts DEF Pops, WireFlight
    <3> QED BY <2>1, <3>4, <3>5
  <2>3. CASE ~Pops
    BY <1>9, <2>1, <2>3 DEF CallerRuns, Caller, call, ConnectReturns,
           ReceiveWakes, ReceiveTimesOut, PopSeesResponse, ReceiveDisconnects,
           ReceiveFails, JoinReturns
  <2> QED BY <2>2, <2>3
<1>10. CASE WorkerRuns \/ WorkerCloses
  BY <1>10 DEF WorkerRuns, WorkerCloses, ctl, hist, call, WorkerReconnects,
         WorkerReads, WorkerDiscards, WorkerPushes, WorkerFlags, WorkerOpens,
         WorkerFailsToOpen, PeerAnswers, PeerCloses, WorkerExits
<1>11. CASE Game \/ UNCHANGED pvars
  BY <1>11 DEF Game, GameHangs, GameRecovers, GameExits, ctl, hist, vars, pvars
<1> QED BY <1>1, <1>2, <1>3, <1>4, <1>5, <1>6, <1>7, <1>8, <1>9, <1>10, <1>11
       DEF PNext, Running

LEMMA InitFlight == PInit => FlightInv
<1> SUFFICES ASSUME PInit PROVE FlightInv
  OBVIOUS
<1>1. sent = 0 /\ read = 0 /\ incoming = 0 /\ queue = <<>> /\ Len(queue) = 0
  BY EmptyFacts DEF PInit, Init
<1>2. Flight = 0
  BY <1>1 DEF Flight
<1> QED BY <1>1, <1>2 DEF PInit, FlightInv, WireFlight, AnswerMatches

LEMMA NextFlight ==
  ASSUME NoPing, ControlInv, FlightInv, [PNext]_pvars
  PROVE  FlightInv'
<1>1. CASE SendGoes
  BY <1>1, SendFlight
<1>2. CASE ~SendGoes
  <2>1. sent' = sent /\ asked' = asked
    BY <1>2, OnlyOneSends
  <2>2. WireFlight' /\ Flight' <= Flight
    BY <2>1, WireFalls, NextIsStep DEF ControlInv, FlightInv
  <2>3. Flight' = 1 => asked' = sent'
    <3>1. Flight \in Nat /\ Flight <= 1
      BY FlightFacts DEF ControlInv, FlightInv, WireFlight
    <3> QED BY <2>1, <2>2, <3>1 DEF FlightInv
  <2>4. Quiet' => Flight' = 0
    BY <1>2, <2>2, QuietFlight
  <2> QED BY <1>2, <2>2, <2>3, <2>4, PingFlight, AnswerFlight DEF FlightInv
<1> QED BY <1>1, <1>2

LEMMA FlightHolds == ASSUME NoPing PROVE PSpec => [](ControlInv /\ FlightInv)
<1>1. PInit => FlightInv
  BY InitFlight
<1>2. ControlInv /\ FlightInv /\ [PNext]_pvars => FlightInv'
  BY NextFlight
<1> QED BY <1>1, <1>2, Control, PTL DEF PSpec

(* OneInFlight is an invariant of the protocol as long as the client does  *)
(* not ping while it awaits another response.                              *)
THEOREM AloneOnTheWire == ASSUME NoPing PROVE PSpec => []OneInFlight
<1>1. FlightInv => OneInFlight
  BY DEF FlightInv, WireFlight, Flight, OneInFlight
<1> QED BY <1>1, FlightHolds, PTL

(* AnswerMatches is one under the same condition: the pairing without      *)
(* identifiers is sound for any number of requests, closes and hangs.      *)
THEOREM AnswersPair == ASSUME NoPing PROVE PSpec => []AnswerMatches
<1>1. FlightInv => AnswerMatches
  BY DEF FlightInv
<1> QED BY <1>1, FlightHolds, PTL

-----------------------------------------------------------------------------
(* The close of a socket that served the client is on record.              *)
SilentInv ==
  /\ connected => callbackSet
  /\ op = "connect" /\ phase \in {"send", "recheck", "go", "wait", "receiving"}
       => callbackSet
  /\ connected \/ phase \in {"go", "wait", "receiving"} =>
       errors # {} \/ readyState \in {"Open", "Closing"}
  /\ connected /\ phase = "connecting" => errors # {}
  /\ NoSilentFailure

LEMMA NextSilent ==
  ASSUME ControlInv, SilentInv, [PNext]_pvars
  PROVE  SilentInv'
<1>b. /\ callbackSet \in BOOLEAN /\ connected \in BOOLEAN /\ failed \in BOOLEAN
      /\ diag \in BOOLEAN
  BY DEF ControlInv, PTypeOK
<1>s. caller = "idle" => readyState # "Closing"
  BY DEF ControlInv, IInv, ThreadInv, Joining
<1> USE <1>b DEF SilentInv, NoSilentFailure
<1>1. CASE StartConnect
  BY <1>1 DEF StartConnect, CallConnect, ControlInv, OpInv
<1>2. CASE StartRequest \/ StartWait \/ StartQuit
  BY <1>2 DEF StartRequest, StartWait, StartQuit, Starts, proto, vars
<1>3. CASE SendChecks
  BY <1>3, <1>s DEF SendChecks, Goto, proto, CallConnect, vars, HasConnection
<1>4. CASE SendConnected
  BY <1>4, FinishType DEF SendConnected, SendReturns, Goto, vars, ControlInv, OpInv
<1>5. CASE SendRechecks
  BY <1>5, <1>s, FinishType DEF SendRechecks, SendReturns, Goto, vars, ControlInv,
         OpInv, Sending, HasConnection
<1>6. CASE SendGoes
  BY <1>6, FinishType DEF SendGoes, SendReturns, Goto, vars, CallSend, object,
         ControlInv
<1>7. CASE Waits
  BY <1>7 DEF Waits, Goto, CallReceive, object
<1>8. CASE NoResponse
  BY <1>8, FinishType DEF NoResponse, Goto, vars, ControlInv
<1>9. CASE \E errs \in BOOLEAN : HasResponse(errs)
  <2> PICK errs \in BOOLEAN : HasResponse(errs)
    BY <1>9
  <2> QED
    BY FinishType DEF HasResponse, ReturnsNull, ReturnsResponse, MismatchError,
       Matches, Goto, vars, ControlInv, OpInv
<1>10. CASE Diagnoses
  <2>1. CASE LooksCrashed
    BY <1>10, <2>1, FinishType DEF Diagnoses, ReturnsNull, Goto, vars, ControlInv
  <2>2. CASE ~LooksCrashed
    BY <1>10, <2>2 DEF Diagnoses, vars, ControlInv, OpInv
  <2> QED BY <2>1, <2>2
<1>11. CASE GivesUp
  BY <1>11, FinishType DEF GivesUp, ReturnsNull, Goto, vars, ControlInv
<1>12. CASE Quits
  BY <1>12 DEF Quits, CallDisconnect, Stops, Goto, proto
<1>13. CASE QuitReturns
  BY <1>13 DEF QuitReturns, Goto, proto, vars
<1>14. CASE CallerRuns
  BY <1>14 DEF CallerRuns, proto, ctl, Caller, ConnectReturns, ReceiveWakes,
          ReceiveTimesOut, PopSeesResponse, Pops, ReceiveDisconnects,
          ReceiveFails, JoinReturns, Stops, object
<1>15. CASE WorkerRuns
  BY <1>15 DEF WorkerRuns, proto, ctl, object, WorkerReconnects, WorkerReads,
          WorkerDiscards, WorkerPushes, WorkerFlags, WorkerOpens,
          WorkerFailsToOpen, PeerAnswers
<1>16. CASE WorkerCloses
  <2>1. UNCHANGED <<callbackSet, op, phase, failed, connected>>
    BY <1>16 DEF WorkerCloses, ctl
  <2>2. errors \subseteq errors' /\ (callbackSet => errors' # {})
    BY <1>16 DEF WorkerCloses, ClosedError
  <2>3. connected \/ phase \in {"go", "wait", "receiving"} => callbackSet
    BY DEF ControlInv, OpInv
  <2> QED BY <2>1, <2>2, <2>3
<1>17. CASE Game \/ UNCHANGED pvars
  BY <1>17 DEF Game, GameHangs, GameRecovers, GameExits, proto, ctl, vars, pvars
<1> QED BY <1>1, <1>2, <1>3, <1>4, <1>5, <1>6, <1>7, <1>8, <1>9, <1>10, <1>11,
           <1>12, <1>13, <1>14, <1>15, <1>16, <1>17 DEF PNext, Starting, Running

(* NoSilentFailure is an invariant of the protocol: what fails is told.    *)
THEOREM FailuresAreTold == PSpec => []NoSilentFailure
<1>1. PInit => SilentInv
  BY DEF PInit, Init, SilentInv, NoSilentFailure
<1>2. ControlInv /\ SilentInv /\ [PNext]_pvars => SilentInv'
  BY NextSilent
<1>3. SilentInv => NoSilentFailure
  BY DEF SilentInv
<1> QED BY <1>1, <1>2, <1>3, Control, PTL DEF PSpec
=============================================================================
