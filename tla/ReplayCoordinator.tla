--------------------------- MODULE ReplayCoordinator ---------------------------
(***************************************************************************)
(* sc2::Coordinator with replay observers: Update() steps the observers    *)
(* that are in a replay, each on a thread of its own, gives every observer *)
(* that is free the next replay of the list, and stops at the first error. *)
(*                                                                         *)
(* A replay is loaded asynchronously: the request is sent in one call of   *)
(* Update and its answer is read in a later one.  Every other request is   *)
(* waited for at once; the observers share nothing but the list, so that a *)
(* request and its answer are one step here.                               *)
(*                                                                         *)
(* In real time SC2 goes on by itself, and an observer only looks at it.   *)
(*                                                                         *)
(* Not modelled: builds with assertions.                                   *)
(***************************************************************************)
EXTENDS Naturals, FiniteSets

CONSTANTS
  NumObservers, NumReplays,
  MaxLoops,        (* bound on the steps of a replay                       *)
  MaxFaults        (* bound on the faults of the SC2 processes             *)

Observers == 1..NumObservers
Replays == 1..NumReplays

ASSUME ReplaysAssumption ==
  /\ NumObservers \in Nat \ {0} /\ NumReplays \in Nat
  /\ MaxLoops \in Nat \ {0} /\ MaxFaults \in Nat

VARIABLES
  settings, (* multiThreaded, realtime and recovery (replay_recovery_) of  *)
            (*   this program; they do not change                          *)
  phase,    (* what the coordinator's thread is at; "user": not called     *)
  turn,     (* the observer a loop over replay_observers_ has reached      *)
  at,       (* where run_replay is for each observer                       *)
  started,  (* starcraft_started_                                          *)
  files,    (* replay_file holds the replays 1..files; back() is `files'   *)
  result,   (* what Update returned last                                   *)
  faults,
  fate,     (* history: what has become of each replay                     *)
  loads,    (* history: how often each replay was sent to an SC2           *)
  ob        (* each observer:                                              *)
            (*   pending, last, app, errs, cur, prev: as in                *)
            (*     AgentCoordinator                                        *)
            (*   conn: "upset": the next answer of SC2 is an error         *)
            (*   reply: the answer to start_replay, if not read yet        *)
            (*   status, loop: SC2's own status and game loop              *)
            (*   file: the replay loaded last                              *)
            (*   game, seen, odd: history of the callbacks: whether a game *)
            (*     is on, the loop OnStep was called for, what went wrong  *)

run  == <<phase, turn, at, started, files, result, faults, fate, loads, ob>>
vars == <<settings, phase, turn, at, started, files, result, faults, fate, loads, ob>>
coordinator == <<phase, turn, started, files, result, loads>>

MultiThreaded == settings.multiThreaded
Realtime      == settings.realtime
Recovery      == settings.recovery

Unset == MaxLoops + 2         (* numeric_limits<uint32_t>::max()           *)

Init ==
  /\ settings \in [multiThreaded : BOOLEAN, realtime : BOOLEAN,
                   recovery : BOOLEAN]
  /\ phase = "user" /\ turn = 1 /\ at = [r \in Observers |-> "done"]
  /\ started = FALSE /\ files = NumReplays /\ result = TRUE /\ faults = 0
  /\ fate = [f \in Replays |-> "listed"] /\ loads = [f \in Replays |-> 0]
  /\ ob = [r \in Observers |->
       [pending |-> "none", last |-> "unknown", app |-> "normal", errs |-> {},
        cur |-> Unset, prev |-> Unset, conn |-> "up", reply |-> "none",
        status |-> "launched", loop |-> 0, file |-> 0,
        game |-> "none", seen |-> 0, odd |-> {}]]

-----------------------------------------------------------------------------
(***************************************************************************)
(* The client of an observer                                               *)
(***************************************************************************)

IsInGame(b) == b.app = "normal" /\ b.last = "replay"

IsReadyWhilePending(b) == b.app = "normal" /\ b.last \in {"launched", "ended"}
IsReadyForCreateGame(b) ==
  b.app = "normal" /\ b.pending = "none" /\ b.last \in {"launched", "ended"}

CanSend(b) == b.conn # "closed" /\ b.pending = "none"

(* WaitForResponse, with a response and without one.                       *)
Got(b, bad) ==
  [b EXCEPT !.pending = "none", !.last = b.status, !.reply = "none",
            !.errs = IF bad THEN @ \cup {"SC2ProtocolError"} ELSE @]

Abandoned(b) ==
  [b EXCEPT !.last = "unknown", !.app = "failed",
            !.errs = @ \cup {"SC2AppFailure"}]

(* A request of kind k and the wait for its answer.                        *)
Asked(b, k) ==
  CASE b.conn = "closed" -> b
    [] b.conn # "closed" /\ b.pending # "none" ->
         [b EXCEPT !.errs = @ \cup {"ResponseNotConsumed"}]
    [] CanSend(b) /\ b.conn = "up" -> Got(b, FALSE)
    [] CanSend(b) /\ b.conn = "upset" -> Got([b EXCEPT !.conn = "up"], TRUE)
    [] CanSend(b) /\ b.conn = "hung" -> Abandoned([b EXCEPT !.pending = k])

(* GetObservation; without a response it prints a member of it.            *)
ObservationFaults(b) == CanSend(b) /\ b.conn = "hung"
Observed(b) ==
  IF CanSend(b) /\ b.conn = "up"
    THEN [Asked(b, "observation") EXCEPT !.prev = b.cur, !.cur = b.loop]
    ELSE Asked(b, "observation")

-----------------------------------------------------------------------------
(***************************************************************************)
(* The callbacks                                                           *)
(***************************************************************************)

GameStarts(b) ==
  [b EXCEPT !.game = "on", !.seen = 0,
            !.odd = IF b.game = "on" THEN @ \cup {"no end"} ELSE @]

GameEnds(b) ==
  [b EXCEPT !.game = "over",
            !.odd = IF b.game # "on" THEN @ \cup {"end outside"} ELSE @]

(* IssueEvents, down to OnStep.                                            *)
Issued(b) ==
  IF b.cur = b.prev THEN b
  ELSE [b EXCEPT !.seen = b.cur,
                 !.odd = @ \cup (IF b.cur = b.seen THEN {"step again"} ELSE {})
                           \cup (IF b.game # "on" THEN {"step outside"} ELSE {})]

(* IssueEvents and, not in real time, ObserverAction::SendActions, when    *)
(* `acts' the user has moved the camera.                                   *)
Stepped(b, acts) ==
  IF acts /\ ~Realtime THEN Asked(Issued(b), "action") ELSE Issued(b)

EndedIfLeft(b) == IF b.last = "launched" THEN GameEnds(b) ELSE b
EndedIf(b) == IF IsInGame(b) THEN b ELSE GameEnds(b)

EndsFirst(b, acts) == IF MultiThreaded THEN Stepped(EndedIf(b), acts) ELSE EndedIf(b)
AfterStep(b, acts) == EndedIf(IF MultiThreaded THEN Stepped(b, acts) ELSE b)

-----------------------------------------------------------------------------
(***************************************************************************)
(* StepReplayObservers and StepReplayObserversRealtime: run_replay         *)
(***************************************************************************)

Goes(r, b, p) ==
  /\ ob' = [ob EXCEPT ![r] = b] /\ at' = [at EXCEPT ![r] = p]
  /\ UNCHANGED <<coordinator, faults>>

StepFor(b) == IF Realtime THEN "observe" ELSE "step"
Steps(b) == IF IsInGame(b) THEN StepFor(b) ELSE "done"

SkipsLoaded(b) == NumObservers > 1 /\ b.reply # "none"
SkipsLoading(b) == NumObservers > 1 /\ b.reply = "none"

RunReplay(r) ==
  /\ at[r] = "start"
  /\ LET b == ob[r] IN
       Goes(r, b, IF b.app # "normal" THEN "done"
                  ELSE IF b.pending = "none" THEN Steps(b)
                  ELSE IF SkipsLoading(b) THEN "done"
                  ELSE "load")
  /\ UNCHANGED fate

(* WaitForReplay, up to the first observation.                             *)
WaitForReplay(r) ==
  /\ at[r] = "load"
  /\ LET b == ob[r]
         c == Got(b, b.reply = "error")
     IN \/ /\ b.reply = "loaded" /\ Goes(r, c, "first")
           /\ fate' = [fate EXCEPT ![b.file] = "playing"]
        \/ /\ b.reply \in {"rejected", "error"} /\ Goes(r, c, Steps(c))
           /\ fate' = [fate EXCEPT ![b.file] = "rejected"]
        \/ /\ b.reply = "none" /\ b.conn \in {"hung", "closed"}
           /\ Goes(r, Abandoned(b), "done")
           /\ fate' = [fate EXCEPT ![b.file] = "unanswered"]

FirstObservation(r) ==
  /\ at[r] = "first" /\ ~ObservationFaults(ob[r])
  /\ LET b == GameStarts(Observed(ob[r])) IN Goes(r, b, Steps(b))
  /\ UNCHANGED fate

(* Step and WaitStep, which waits even when Step() could not send.         *)
StepGame(r) ==
  /\ at[r] = "step"
  /\ LET b == ob[r] IN
       \/ /\ b.conn \in {"hung", "closed"}
          /\ Goes(r, Abandoned([b EXCEPT !.pending =
                 IF CanSend(b) THEN "step" ELSE @]), "callbacks")
       \/ b.conn = "upset" /\ Goes(r, Asked(b, "step"), "callbacks")
       \/ \E over \in BOOLEAN :
            /\ b.conn = "up" /\ (b.loop = MaxLoops => over)
            /\ Goes(r, Asked([b EXCEPT !.loop = @ + 1,
                   !.status = IF over THEN "ended" ELSE @], "step"), "observe")
  /\ UNCHANGED fate

ObserveGame(r) ==
  /\ at[r] = "observe" /\ ~ObservationFaults(ob[r])
  /\ Goes(r, Observed(ob[r]), "callbacks")
  /\ UNCHANGED fate

ReplayCallbacks(r) ==
  /\ at[r] = "callbacks"
  /\ \E acts \in BOOLEAN :
       LET b == AfterStep(ob[r], acts) IN
         /\ Goes(r, b, "done")
         /\ fate' = IF b.game = "over" THEN [fate EXCEPT ![b.file] = "played"]
                    ELSE fate

Runs(r) ==
  /\ phase = "stepping"
  /\ \/ RunReplay(r) \/ WaitForReplay(r) \/ FirstObservation(r) \/ StepGame(r)
     \/ ObserveGame(r) \/ ReplayCallbacks(r)

ReplayFaults(r) ==
  /\ phase = "stepping" /\ at[r] \in {"first", "observe"}
  /\ ObservationFaults(ob[r])
  /\ phase' = "fault"
  /\ UNCHANGED <<turn, at, started, files, result, faults, fate, loads, ob>>

-----------------------------------------------------------------------------
(***************************************************************************)
(* Update                                                                  *)
(***************************************************************************)

LastInclusive == NumObservers + 1
Last == NumObservers

Leaves(p) == phase' = p /\ turn' = 1
NextTurn(p, q) ==
  IF turn = Last THEN Leaves(q) ELSE turn' = turn + 1 /\ phase' = p

(* AnyObserverAvailable, then StartReplay if there is a replay.            *)
AfterSteps ==
  IF files > 0 /\ \E r \in Observers : ~IsInGame(ob'[r])
    THEN "starting" ELSE "checking"

CallUpdate ==
  /\ phase = "user" /\ result
  /\ IF started THEN phase' = "stepping"
     ELSE phase' = IF files > 0 THEN "starting" ELSE "checking"
  /\ at' = [r \in Observers |-> "start"] /\ turn' = 1
  /\ UNCHANGED <<started, files, result, faults, fate, loads, ob>>

(* The threads are joined.                                                 *)
StepsDone ==
  /\ phase = "stepping" /\ \A r \in Observers : at[r] = "done"
  /\ UNCHANGED ob
  /\ Leaves(IF MultiThreaded THEN AfterSteps ELSE "callbacks")
  /\ UNCHANGED <<at, started, files, result, faults, fate, loads>>

(* Otherwise the callbacks of every observer, in a replay or not.          *)
SerialCallbacks ==
  /\ phase = "callbacks"
  /\ \E acts \in BOOLEAN :
       ob' = [ob EXCEPT ![turn] =
                IF @.app = "normal" THEN Stepped(@, acts) ELSE @]
  /\ NextTurn("callbacks", AfterSteps)
  /\ UNCHANGED <<at, started, files, result, faults, fate, loads>>

(* StartReplay launches the processes at first; Connect pings them.        *)
LaunchProcesses ==
  /\ phase = "starting"
  /\ ob' = IF started THEN ob
           ELSE [r \in Observers |-> [ob[r] EXCEPT !.last = ob[r].status]]
  /\ Leaves("loading")
  /\ UNCHANGED <<at, started, files, result, faults, fate, loads>>

StartReplay ==
  /\ phase = "loading"
  /\ IF IsReadyForCreateGame(ob[turn]) /\ files > 0
       THEN phase' = "taking" /\ UNCHANGED <<turn, started>>
       ELSE NextTurn("loading", "checking") /\ started' = (started \/ turn = Last)
  /\ UNCHANGED <<at, files, result, faults, fate, loads, ob>>

(* The loop over the replays for one observer; pop_back() and continue, or *)
(* stop when there are none left.                                          *)
Stays == UNCHANGED files
Pops == files' = files - 1

Done == NextTurn("loading", "checking") /\ started' = (started \/ turn = Last)

Continues == IF files = 1 THEN Done ELSE phase' = "taking" /\ UNCHANGED <<turn, started>>

(* ShouldIgnore, when GatherReplayInfo has no good answer or the user's    *)
(* IgnoreReplay wants to see another replay.                               *)
ShouldIgnore ==
  /\ phase = "taking"
  /\ LET b == ob[turn] IN
       /\ ob' = [ob EXCEPT ![turn] = Asked(b, "info")]
       /\ fate' = [fate EXCEPT ![files] =
            IF CanSend(b) /\ b.conn \in {"up", "upset"} THEN "ignored"
            ELSE "unanswered"]
  /\ Pops /\ Continues
  /\ UNCHANGED <<at, result, faults, loads>>

(* ShouldRelaunch: the replay stays where it is.                           *)
ShouldRelaunch ==
  /\ phase = "taking" /\ CanSend(ob[turn]) /\ ob[turn].conn = "up"
  /\ LET b == Asked(ob[turn], "info") IN
       ob' = [ob EXCEPT ![turn] =
                [b EXCEPT !.errs = b.errs \cup {"WrongGameVersion"}]]
  /\ Done
  /\ UNCHANGED <<at, files, result, faults, fate, loads>>

TakesReplay ==
  /\ phase = "taking" /\ CanSend(ob[turn]) /\ ob[turn].conn = "up"
  /\ ob' = [ob EXCEPT ![turn] = Asked(@, "info")]
  /\ phase' = "taken"
  /\ UNCHANGED <<turn, at, started, files, result, faults, fate, loads>>

LoadReplay ==
  /\ phase = "taken"
  /\ IF CanSend(ob[turn])
       THEN /\ ob' = [ob EXCEPT ![turn].pending = "load", ![turn].file = files]
            /\ fate' = [fate EXCEPT ![files] = "loading"]
            /\ loads' = [loads EXCEPT ![files] = @ + 1]
            /\ Done
       ELSE /\ fate' = [fate EXCEPT ![files] = "unanswered"]
            /\ Continues /\ UNCHANGED <<ob, loads>>
  /\ Pops
  /\ UNCHANGED <<at, result, faults>>

AllGamesEndedIgnoringPending == \A r \in Observers : ~IsInGame(ob[r])
AllGamesEnded ==
  \A r \in Observers : ~IsInGame(ob[r]) /\ ob[r].pending = "none"

(* Relaunch calls Process::terminate(), which locks the mutex of the       *)
(* process and calls isRunning(), which locks it again: it never returns.  *)
UpdateReturns ==
  /\ phase = "checking"
  /\ IF \A r \in Observers : ob[r].errs = {}
       THEN phase' = "user" /\ result' = ~AllGamesEnded
     ELSE IF Recovery THEN phase' = "stuck" /\ UNCHANGED result
     ELSE phase' = "user" /\ result' = FALSE
  /\ UNCHANGED <<turn, at, started, files, faults, fate, loads, ob>>

Update ==
  \/ StepsDone \/ SerialCallbacks \/ LaunchProcesses \/ StartReplay
  \/ ShouldIgnore \/ ShouldRelaunch \/ TakesReplay \/ LoadReplay
  \/ UpdateReturns \/ (\E r \in Observers : ReplayFaults(r))

-----------------------------------------------------------------------------
(***************************************************************************)
(* The SC2 processes                                                       *)
(***************************************************************************)

Env(r, b) == ob' = [ob EXCEPT ![r] = b] /\ UNCHANGED <<coordinator, at, fate>>

Loads(r) ==
  /\ ob[r].pending = "load" /\ ob[r].reply = "none"
  /\ \/ /\ ob[r].conn = "up"
        /\ \/ Env(r, [ob[r] EXCEPT !.reply = "loaded", !.status = "replay",
                                   !.loop = 1])
           \/ Env(r, [ob[r] EXCEPT !.reply = "rejected"])
     \/ ob[r].conn = "upset" /\ Env(r, [ob[r] EXCEPT !.reply = "error", !.conn = "up"])
  /\ UNCHANGED faults

(* In real time a replay goes on; the loops between two observations count *)
(* as one, and the first observation comes before the end.                 *)
Advances(r) ==
  /\ Realtime /\ ob[r].conn = "up" /\ ob[r].status = "replay"
  /\ ob[r].cur = ob[r].loop
  /\ \E over \in BOOLEAN :
       /\ ob[r].loop = MaxLoops => over
       /\ Env(r, [ob[r] EXCEPT !.loop = @ + 1,
                    !.status = IF over THEN "ended" ELSE @])
  /\ UNCHANGED faults

Breaks(r) ==
  /\ started /\ faults < MaxFaults /\ ob[r].conn = "up"
  /\ faults' = faults + 1
  /\ \E c \in {"upset", "hung", "closed"} :
       Env(r, [ob[r] EXCEPT !.conn = c,
                 !.errs = IF c = "closed" THEN @ \cup {"ConnectionClosed"} ELSE @])

Stops == phase \in {"fault", "stuck"}

Next ==
  /\ ~Stops /\ UNCHANGED settings
  /\ \/ CallUpdate \/ Update
     \/ \E r \in Observers : Runs(r) \/ Loads(r) \/ Advances(r) \/ Breaks(r)

Spec == Init /\ [][Next]_vars

(* The threads run, SC2 loads what it was asked to and in real time goes   *)
(* on, the user's loop calls Update.                                       *)
Fairness ==
  /\ WF_run(~Stops /\ Update) /\ WF_run(~Stops /\ CallUpdate)
  /\ \A r \in 1..NumObservers :
       /\ WF_run(~Stops /\ Runs(r)) /\ WF_run(~Stops /\ Loads(r))
       /\ WF_run(~Stops /\ Advances(r))

FairSpec == Spec /\ Fairness

-----------------------------------------------------------------------------
Errors == {"SC2ProtocolError", "SC2AppFailure", "ResponseNotConsumed",
           "WrongGameVersion", "ConnectionClosed"}

Clients ==
  [pending : {"none", "info", "load", "step", "action", "observation"},
   last : {"unknown", "launched", "replay", "ended"}, app : {"normal", "failed"},
   errs : SUBSET Errors, cur : 0..Unset, prev : 0..Unset,
   conn : {"up", "upset", "hung", "closed"},
   reply : {"none", "loaded", "rejected", "error"},
   status : {"launched", "replay", "ended"}, loop : 0..MaxLoops + 1,
   file : 0..NumReplays, game : {"none", "on", "over"}, seen : 0..Unset,
   odd : SUBSET {"no end", "end outside", "step again", "step outside"}]

TypeOK ==
  /\ settings \in [multiThreaded : BOOLEAN, realtime : BOOLEAN,
                   recovery : BOOLEAN]
  /\ phase \in {"user", "stepping", "callbacks", "starting", "loading",
                "taking", "taken", "checking", "fault", "stuck"}
  /\ turn \in Observers
  /\ at \in [Observers -> {"start", "load", "first", "step", "observe",
                           "callbacks", "done"}]
  /\ {started, result} \subseteq BOOLEAN
  /\ files \in 0..NumReplays /\ faults \in 0..MaxFaults
  /\ fate \in [Replays -> {"listed", "ignored", "unanswered", "loading",
                           "rejected", "playing", "played"}]
  /\ loads \in [Replays -> Nat]
  /\ ob \in [Observers -> Clients]

NoErrors == \A r \in Observers : ob[r].errs = {}

(* When Update() returns false and no error is on record, every replay of  *)
(* the list was refused by the user or by SC2, or was played to its end:   *)
(* none is left in the list and none was abandoned while it was loading.   *)
EveryReplayHasItsTurn ==
  (phase = "user" /\ ~result /\ NoErrors)
    => \A f \in Replays : fate[f] \in {"ignored", "rejected", "played"}

(* No replay is analysed twice, by one observer or by two, although one    *)
(* that needs another version of SC2 stays in the list.                    *)
ReplaysRunOnce == \A f \in Replays : loads[f] <= 1

(* An observer sees OnGameStart, the steps, OnGameEnd, and only then the   *)
(* next game; and OnStep "gets called after each step": once for each, or  *)
(* an error is on record (with the callbacks on the threads: otherwise     *)
(* IssueEvents is called for every observer in every Update).              *)
CallbacksInOrder ==
  MultiThreaded =>
    \A r \in Observers :
      /\ ob[r].odd \cap {"no end", "end outside", "step outside"} = {}
      /\ "step again" \in ob[r].odd => ob[r].errs # {}

(* A replay that is loading is not disturbed by a request: the library     *)
(* never gets into the state that ResponseNotConsumed reports by itself    *)
(* (with the callbacks on the threads: otherwise SendActions is called for *)
(* every observer too).                                                    *)
LoadingIsLeftAlone ==
  (MultiThreaded /\ faults = 0)
    => \A r \in Observers : "ResponseNotConsumed" \notin ob[r].errs

(* A game that was announced is over or still on: whenever the user has    *)
(* control, an observer that was told of a game start and not of its end   *)
(* is in that game, unless an error is on record.                          *)
EndIsAnnounced ==
  (phase = "user" /\ NoErrors)
    => \A r \in Observers : ob[r].game = "on" <=> IsInGame(ob[r])

(* `while (coordinator.Update())' ends, unless an SC2 process has failed:  *)
(* loading replays are looked at again, free observers take the next one.  *)
UpdateLoopEnds ==
  <>(~result \/ Stops \/ \E r \in Observers : ob[r].conn # "up")

(* "In case of any error occured during loading of replays info ignore the *)
(* target replay": one replay for one failure.                             *)
FailureSkipsOne ==
  Cardinality({f \in Replays : fate[f] = "unanswered"}) <= faults
=============================================================================
