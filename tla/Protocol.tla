------------------------------- MODULE Protocol -------------------------------
(***************************************************************************)
(* sc2::ProtoInterface and the request plumbing of sc2::ControlImp on top  *)
(* of the Connection: one request outstanding at a time, the pairing of    *)
(* request and response, and what is diagnosed when an answer stays away.  *)
(* The SC2 process is the environment: it may hang, recover and exit.      *)
(***************************************************************************)
EXTENDS Connection

CONSTANTS
  MaxFaults,          (* bound on the hangs of a behaviour                 *)
  PingWhilePending    (* whether the client may call Ping() while it still *)
                      (* awaits the response to another request            *)

ASSUME FaultsAssumption == MaxFaults \in Nat /\ PingWhilePending \in BOOLEAN

VARIABLES
  pending,        (* response_pending_                                     *)
  appState,       (* app_state_                                            *)
  errors,         (* client_errors_, as a set                              *)
  callbackSet,    (* SetConnectionClosedCallback was called                *)
  op,             (* the operation of the client under way                 *)
  phase,          (* how far it is                                         *)
  diag,           (* whether WaitForResponse is at its diagnostic ping     *)
  failed,         (* whether the last operation returned false             *)
  connected,      (* whether ControlImp::Connect has succeeded             *)
  launched,       (* the game is a child: pi_.process knows its pid        *)
  game,           (* SC2: "up", "hung" or "exited"                         *)
  faults,
  kinds,          (* history: the case of each request that was sent       *)
  asked,          (* history: the request `pending' stands for; 0: dropped *)
  answer          (* history: the response accepted as its answer          *)

proto == <<pending, appState, errors, callbackSet>>
ctl   == <<op, phase, diag, failed, connected>>
env   == <<launched, game, faults>>
hist  == <<kinds, asked, answer>>
pvars == <<vars, proto, ctl, env, hist>>

Kinds == {"step", "observation", "query", "debug", "leave", "ping", "quit"}

(* The request that an operation sends.                                    *)
OperationName(o) == o
KindOf(o) ==
  CASE o = "observe" -> "observation"
    [] o = "connect" -> "ping"
    [] OTHER -> o

Request == IF diag THEN "ping" ELSE KindOf(op)

IgnoresPending == diag \/ op \in {"ping", "connect"}

(* Process::isRunning(): only a process that the library spawned.          *)
IsRunning == launched /\ game # "exited"

HasResponsePending == pending # "none"

PInit ==
  /\ Init
  /\ pending = "none" /\ appState = "normal"
  /\ errors = {} /\ callbackSet = FALSE
  /\ op = "none" /\ phase = "ready" /\ diag = FALSE /\ failed = FALSE
  /\ connected = FALSE
  /\ launched \in BOOLEAN /\ game = "up" /\ faults = 0
  /\ kinds = [i \in 1..MaxRequests |-> "none"] /\ asked = 0 /\ answer = 0

Goto(p) == phase' = p /\ UNCHANGED <<op, diag, failed, connected>>

Finish(bad) ==
  /\ phase' = "ready" /\ diag' = FALSE /\ failed' = bad
  /\ connected' = (connected \/ (op = "connect" /\ ~bad))
  /\ UNCHANGED op

-----------------------------------------------------------------------------
(***************************************************************************)
(* The operations of the client                                            *)
(***************************************************************************)

(* An operation sends at most two requests: its own and a diagnostic ping, *)
(* or, for WaitStep, that of its GetObservation and a ping.                *)
WithinBound == sent + 2 <= MaxRequests

Starts(o, p) ==
  /\ phase = "ready" /\ caller = "idle" /\ WithinBound
  /\ op' = o /\ phase' = p /\ failed' = FALSE /\ answer' = 0
  /\ UNCHANGED <<vars, proto, diag, connected, env, kinds, asked>>

(* One attempt of ControlImp::Connect, which retries ConnectToGame.        *)
StartConnect ==
  /\ phase = "ready" /\ caller = "idle" /\ WithinBound
  /\ ~connected
  /\ CallConnect
  /\ op' = "connect" /\ phase' = "connecting" /\ failed' = FALSE
  /\ answer' = 0
  /\ UNCHANGED <<pending, appState, errors, callbackSet, diag, connected>>
  /\ UNCHANGED <<env, kinds, asked>>

(* Step and GetObservation do nothing unless the application is normal;    *)
(* the queries, SendDebug and RequestLeaveGame do not look at app_state_.  *)
StartRequest ==
  /\ connected
  /\ \E o \in {"step", "observe", "query", "debug", "leave", "ping"} :
       /\ o \in {"step", "observe"} => appState = "normal"
       /\ o = "ping" => PingWhilePending \/ ~HasResponsePending
       /\ Starts(o, "send")

(* WaitStep, and the wait of PollLeaveGame or ConsumeResponse once         *)
(* PollResponse says that the response has come.                           *)
StartWait ==
  /\ connected /\ HasResponsePending
  /\ \/ pending = "step" /\ Starts("waitStep", "wait")
     \/ PollResponse /\ Starts("consume", "wait")

(* ~ControlImp                                                             *)
StartQuit == connected /\ Starts("quit", "send")

-----------------------------------------------------------------------------
(***************************************************************************)
(* SendRequest                                                             *)
(***************************************************************************)

(* Where SendRequest returns to.                                           *)
SendReturns(sentIt) ==
  IF diag THEN Goto(IF sentIt THEN "wait" ELSE "hung")
  ELSE CASE op \in {"step", "leave"} -> Finish(~sentIt)
         [] op = "debug" -> Goto("wait")
         [] op = "quit" -> Goto("quit")
         [] OTHER -> IF sentIt THEN Goto("wait") ELSE Finish(TRUE)

SendChecks ==
  /\ phase = "send" /\ caller = "idle"
  /\ IF HasConnection
       THEN Goto("recheck") /\ UNCHANGED vars
       ELSE CallConnect /\ Goto("connecting")
  /\ UNCHANGED <<proto, env, hist>>

(* Connect has returned, to SendRequest or to ConnectToGame.               *)
SendConnected ==
  /\ phase = "connecting" /\ caller = "idle"
  /\ IF ok THEN Goto(IF op = "connect" THEN "send" ELSE "recheck")
     ELSE SendReturns(FALSE)
  /\ callbackSet' = (callbackSet \/ (ok /\ op = "connect"))
  /\ UNCHANGED <<vars, pending, appState, errors, env, hist>>

RefusesNothing == FALSE
RefusesPending == HasResponsePending /\ ~IgnoresPending

SendRechecks ==
  /\ phase = "recheck" /\ caller = "idle"
  /\ IF ~HasConnection THEN SendReturns(FALSE) /\ UNCHANGED errors
     ELSE IF RefusesPending
       THEN SendReturns(FALSE) /\ errors' = errors \cup {"ResponseNotConsumed"}
       ELSE Goto("go") /\ UNCHANGED errors
  /\ UNCHANGED <<vars, pending, appState, callbackSet, env, hist>>

(* Connection::Send: the socket may have closed since it was checked; the  *)
(* request is then dropped, but its response still expected.               *)
SendGoes ==
  /\ phase = "go" /\ caller = "idle"
  /\ IF HasConnection
       THEN /\ CallSend
            /\ kinds' = [kinds EXCEPT ![sent + 1] = Request]
            /\ asked' = sent + 1
       ELSE asked' = 0 /\ UNCHANGED <<vars, kinds>>
  /\ pending' = Request /\ answer' = 0
  /\ SendReturns(TRUE)
  /\ UNCHANGED <<appState, errors, callbackSet, env>>

-----------------------------------------------------------------------------
(***************************************************************************)
(* WaitForResponseInternal and WaitForResponse                             *)
(***************************************************************************)

Waits ==
  /\ phase = "wait" /\ caller = "idle"
  /\ CallReceive
  /\ Goto("receiving")
  /\ UNCHANGED <<pending, appState, errors, callbackSet, env, hist>>

(* WaitForResponse has returned `nullptr' to the operation.  GetObservation*)
(* prints response->response_case() of the null pointer.                   *)
ReturnsNull ==
  IF op = "observe" THEN Goto("fault") ELSE Finish(TRUE)

(* WaitForResponse has returned a response; each operation checks its case.*)
ReturnsResponse(good) ==
  IF op = "waitStep" /\ good
    THEN op' = "observe" /\ phase' = "send" /\ UNCHANGED <<diag, failed, connected>>
    ELSE Finish(~good)

(* Receive has failed, or returned true with the pointer still null.       *)
NoResponse ==
  /\ phase = "receiving" /\ caller = "idle" /\ response = 0
  /\ pending' = IF ok THEN "none" ELSE pending
  /\ IF diag THEN Goto("hung")
     ELSE IF op \in {"ping", "connect"} THEN Finish(TRUE)
     ELSE Goto("diagnose")
  /\ UNCHANGED <<vars, appState, errors, callbackSet, env, hist>>

Matches == kinds[response] = pending

MismatchError == IF Matches THEN {} ELSE {"ResponseMismatch"}

HasResponse(errs) ==
  /\ phase = "receiving" /\ caller = "idle" /\ response # 0
  /\ pending' = "none"
  /\ errors' = errors
       \cup (IF errs THEN {} ELSE MismatchError)
       \cup (IF diag THEN {"SC2UnknownStatus"}
             ELSE IF errs /\ op \notin {"ping", "connect"}
             THEN {"SC2ProtocolError"} ELSE {})
  /\ answer' = IF ~errs /\ Matches THEN response ELSE 0
  /\ IF diag THEN ReturnsNull
     ELSE IF op \in {"ping", "connect"} THEN Finish(kinds[response] # "ping")
     ELSE ReturnsResponse(~errs /\ (op = "waitStep" => kinds[response] = "step")
                          /\ (op = "observe" => kinds[response] = "observation"))
  /\ UNCHANGED <<vars, appState, callbackSet, env, kinds, asked>>

(* Step 1 of the diagnosis: hang or crash?                                 *)
LooksCrashed == IsRunning

Diagnoses ==
  /\ phase = "diagnose" /\ caller = "idle"
  /\ IF LooksCrashed
       THEN /\ appState' = "crashed"
            /\ errors' = errors \cup {"SC2AppFailure"}
            /\ ReturnsNull
       ELSE /\ diag' = TRUE /\ phase' = "send"
            /\ UNCHANGED <<op, failed, connected, appState, errors>>
  /\ UNCHANGED <<vars, pending, callbackSet, env, hist>>

(* Step 2 found no answer to the ping either: terminate what is running.   *)
GivesUp ==
  /\ phase = "hung" /\ caller = "idle"
  /\ appState' = "timeout"
  /\ errors' = errors \cup {"SC2ProtocolTimeout", "SC2AppFailure"}
  /\ game' = IF IsRunning THEN "exited" ELSE game
  /\ ReturnsNull
  /\ UNCHANGED <<vars, pending, callbackSet, launched, faults, hist>>

(* Quit: tear the connection down after the request.                       *)
Quits ==
  /\ phase = "quit" /\ caller = "idle"
  /\ CallDisconnect
  /\ Goto("quitting")
  /\ UNCHANGED <<proto, env, hist>>

QuitReturns ==
  /\ phase = "quitting" /\ caller = "idle"
  /\ Goto("gone")
  /\ UNCHANGED <<vars, proto, env, hist>>

Starting == StartConnect \/ StartRequest \/ StartWait \/ StartQuit

Running ==
  \/ SendChecks \/ SendConnected \/ SendRechecks \/ SendGoes
  \/ Waits \/ NoResponse \/ Diagnoses \/ GivesUp \/ Quits \/ QuitReturns
  \/ \E errs \in BOOLEAN : HasResponse(errs)

-----------------------------------------------------------------------------
(***************************************************************************)
(* The connection's threads, and the game                                  *)
(***************************************************************************)

(* The Close message runs the callback of ConnectToGame on the worker.     *)
ClosedUnreported == {}
ClosedError == IF callbackSet THEN {"ConnectionClosed"} ELSE {}

WorkerCloses ==
  /\ PeerCloses \/ WorkerExits
  /\ errors' = errors \cup ClosedError
  /\ UNCHANGED <<pending, appState, callbackSet, ctl, env, hist>>

WorkerRuns ==
  /\ \/ WorkerReconnects \/ WorkerReads \/ WorkerDiscards
     \/ WorkerPushes \/ WorkerFlags
     \/ game = "up" /\ WorkerOpens
     \/ WorkerFailsToOpen
     \/ game = "up" /\ PeerAnswers
  /\ UNCHANGED <<proto, ctl, env, hist>>

CallerRuns == Caller /\ UNCHANGED <<proto, ctl, env, hist>>

GameHangs ==
  /\ game = "up" /\ faults < MaxFaults
  /\ game' = "hung" /\ faults' = faults + 1
  /\ UNCHANGED <<vars, proto, ctl, launched, hist>>

GameRecovers ==
  /\ game = "hung"
  /\ game' = "up"
  /\ UNCHANGED <<vars, proto, ctl, launched, faults, hist>>

GameExits ==
  /\ game # "exited"
  /\ game' = "exited"
  /\ UNCHANGED <<vars, proto, ctl, launched, faults, hist>>

Game == GameHangs \/ GameRecovers \/ GameExits

PNext == Starting \/ Running \/ CallerRuns \/ WorkerRuns \/ WorkerCloses \/ Game

PSpec == PInit /\ [][PNext]_pvars

(* The client's thread runs until it blocks, and so does the worker.       *)
PFairness ==
  /\ WF_pvars(Running) /\ WF_pvars(CallerRuns)
  /\ WF_pvars(WorkerPushes /\ WorkerRuns) /\ WF_pvars(WorkerFlags /\ WorkerRuns)
  /\ WF_pvars(WorkerExits /\ WorkerCloses)

PFairSpec == PSpec /\ PFairness

-----------------------------------------------------------------------------
PTypeOK ==
  /\ TypeOK
  /\ pending \in Kinds \cup {"none"}
  /\ appState \in {"normal", "timeout", "crashed"}
  /\ errors \subseteq {"ConnectionClosed", "ResponseNotConsumed",
       "ResponseMismatch", "SC2ProtocolError", "SC2UnknownStatus",
       "SC2AppFailure", "SC2ProtocolTimeout"}
  /\ op \in {"none", "connect", "step", "waitStep", "observe", "query",
             "debug", "leave", "ping", "consume", "quit"}
  /\ phase \in {"ready", "connecting", "send", "recheck", "go", "wait",
       "receiving", "diagnose", "hung", "quit", "quitting", "gone", "fault"}
  /\ {callbackSet, diag, failed, connected, launched} \subseteq BOOLEAN
  /\ game \in {"up", "hung", "exited"} /\ faults \in 0..MaxFaults
  /\ kinds \in [1..MaxRequests -> Kinds \cup {"none"}]
  /\ asked \in 0..MaxRequests /\ answer \in 0..MaxRequests

(* "each request is matched by the correct response": a response that      *)
(* WaitForResponseInternal accepts without an error answers the request it *)
(* was waiting for, not an earlier one of the same case.                   *)
AnswerMatches == answer # 0 => answer = asked

(* The client is told: once it is connected, an operation only fails with  *)
(* a ClientError on record, whoever raised it and on whichever thread.     *)
NoSilentFailure ==
  (phase = "ready" /\ failed /\ op \notin {"connect", "ping"}) => errors # {}

(* At most one answer is under way at any time, on the wire, in the hands  *)
(* of the worker or in queue_: this is what lets the connection pair a     *)
(* response with response_pending_ without an identifier in the message.   *)
(* SendRequest's refusal keeps it, and across the diagnostic ping the      *)
(* Disconnect() of the failed Receive, which drops what was on the wire.   *)
OneInFlight ==
  (sent - read) + (IF incoming = 0 THEN 0 ELSE 1) + Len(queue) <= 1

(* Every operation comes back to the client, whatever the game does.       *)
OperationReturns == (phase # "ready") ~> (phase \in {"ready", "gone", "fault"})

(* AppState::crashed, "A crash has been detected": the process is gone.    *)
CrashMeansExited == appState = "crashed" => game = "exited"
=============================================================================
