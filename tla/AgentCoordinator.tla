--------------------------- MODULE AgentCoordinator ---------------------------
(***************************************************************************)
(* sc2::Coordinator with agents: starting a game, Update() in its three    *)
(* modes (stepping with the callbacks on the agents' threads or one after  *)
(* the other, and real time), leaving, and starting the next game.         *)
(*                                                                         *)
(* Every agent has its own connection and its own SC2 process; what a      *)
(* connection does is Protocol's subject, here a request is out, answered  *)
(* or lost.  The agents meet inside SC2: in a game that is stepped, a step *)
(* is only answered once every player has asked for it.                    *)
(***************************************************************************)
EXTENDS Naturals, FiniteSets

CONSTANTS
  Settings,        (* the settings considered, each a record:              *)
                   (*   agents, the length of agents_                      *)
                   (*   multiplayer, ports.IsValid(): SetupPorts saw       *)
                   (*     several participants                             *)
                   (*   multiThreaded, realtime                            *)
                   (*   keepsUpdating, whether the user calls Update()     *)
                   (*     after it has returned false                      *)
                   (*   maxLoops, a bound on the game loops of a game      *)
  MaxAgents,       (* the most agents of any of them                       *)
  MaxGames,        (* bound on the games                                   *)
  MaxFaults        (* bound on the faults of the SC2 processes             *)

ASSUME AgentsAssumption ==
  /\ MaxAgents \in Nat \ {0}
  /\ Settings \subseteq [agents : 1..MaxAgents, multiplayer : BOOLEAN,
                         multiThreaded : BOOLEAN, realtime : BOOLEAN,
                         keepsUpdating : BOOLEAN, maxLoops : Nat \ {0}]
  /\ \A s \in Settings : s.agents > 1 => s.multiplayer
  /\ MaxGames \in Nat /\ MaxFaults \in Nat

VARIABLES
  settings, (* those of this program; they do not change                   *)
  phase,    (* what the coordinator's thread is at; "user": not called     *)
  turn,     (* the agent a loop over agents_ has reached                   *)
  at,       (* where the step of each agent is                             *)
  result,   (* what StartGame or Update returned last                      *)
  left,     (* whether the user has called LeaveGame() in this game        *)
  games,
  faults,
  bot       (* each agent:                                                 *)
            (*   pending, last, app, errs: response_pending_,              *)
            (*     latest_status_, app_state_ and client_errors_           *)
            (*   cur, prev: current_game_loop_ and previous_game_loop      *)
            (*   conn, request, reply: the connection, the request that    *)
            (*     SC2 has not answered and the answer not read yet        *)
            (*   status, loop: SC2's own status and game loop              *)
            (*   ends, played, seen, again: history of the game, the calls *)
            (*     of OnGameEnd, whether it was on when StartGame returned,*)
            (*     the loop OnStep was last called for, and whether it was *)
            (*     called twice for the same one                           *)

run  == <<phase, turn, at, result, left, games, faults, bot>>
vars == <<settings, phase, turn, at, result, left, games, faults, bot>>

NumAgents     == settings.agents
Agents        == 1..NumAgents
Multiplayer   == settings.multiplayer
MultiThreaded == settings.multiThreaded
Realtime      == settings.realtime
KeepsUpdating == settings.keepsUpdating
MaxLoops      == settings.maxLoops

NoReply == [status |-> "none", loop |-> 0, bad |-> FALSE]

Init ==
  /\ settings \in Settings
  /\ phase = "user" /\ turn = 1 /\ at = [a \in Agents |-> "done"]
  /\ result = FALSE /\ left = FALSE /\ games = 0 /\ faults = 0
  /\ bot = [a \in Agents |->
       [pending |-> "none", last |-> "launched", app |-> "normal",
        errs |-> {}, cur |-> 0, prev |-> 0,
        conn |-> "up", request |-> "none", reply |-> NoReply,
        status |-> "launched", loop |-> 0,
        ends |-> 0, played |-> FALSE, seen |-> 0, again |-> FALSE]]

-----------------------------------------------------------------------------
(***************************************************************************)
(* The client of an agent                                                  *)
(***************************************************************************)

(* SendRequest.                                                            *)
CanSend(b) == b.conn # "closed" /\ b.pending = "none"

Sent(b, k) ==
  CASE b.conn = "closed" -> b
    [] b.conn # "closed" /\ b.pending # "none" ->
         [b EXCEPT !.errs = @ \cup {"ResponseNotConsumed"}]
    [] OTHER ->
         [b EXCEPT !.pending = k,
                   !.request = IF b.conn = "up" THEN k ELSE "none"]

(* WaitForResponse, when there is a response.                              *)

Got(b) ==
  [b EXCEPT !.pending = "none", !.last = b.reply.status, !.reply = NoReply,
            !.errs = IF b.reply.bad THEN @ \cup {"SC2ProtocolError"} ELSE @]

(* WaitForResponse, when the wait was in vain; `pinged' when SC2 answers   *)
(* the ping that follows.                                                  *)
Abandoned(b, pinged) ==
  IF pinged
    THEN [b EXCEPT !.pending = "none", !.last = b.status, !.request = "none",
                   !.errs = @ \cup {"SC2UnknownStatus"}]
    ELSE [b EXCEPT !.last = "unknown", !.app = "failed", !.request = "none",
                   !.errs = @ \cup {"SC2AppFailure"}]

IsInGame(b) == b.app = "normal" /\ b.last = "inGame"

IsFinishedGame(b) ==
  b.app # "normal" \/ (~IsInGame(b) /\ b.pending = "none")

RequestLeaveGame(b) == IF Multiplayer THEN Sent(b, "leave") ELSE b

(* PollLeaveGame: its value, and what it leaves behind.                    *)
PollLeaveGame(b) == Multiplayer /\ (b.pending = "leave" \/ ~IsInGame(b))

PolledIgnored(b) == b
Polled(b) ==
  CASE ~Multiplayer \/ b.pending = "none" -> b
    [] Multiplayer /\ b.pending \notin {"none", "leave"} ->
         [b EXCEPT !.errs = @ \cup {"ResponseNotConsumed"}]
    [] Multiplayer /\ b.pending = "leave" ->
         IF b.reply = NoReply THEN b ELSE Got(b)

(* The agent has nothing to step.                                          *)
HasNoGame(b) == PollLeaveGame(b) \/ IsFinishedGame(Polled(b))

(* GetObservation and UpdateObservation, on the response.                  *)
Observed(b) ==
  IF b.reply.bad THEN Got(b)
  ELSE [Got(b) EXCEPT !.prev = b.cur, !.cur = b.reply.loop]

(* IssueEvents, down to the OnStep callback.                               *)
IssuedAlways(b) ==
  [b EXCEPT !.seen = b.cur, !.again = @ \/ b.seen = b.cur]
Issued(b) ==
  IF b.cur = b.prev THEN b
  ELSE [b EXCEPT !.seen = b.cur, !.again = @ \/ b.seen = b.cur]

(* OnGameEnd, then RequestLeaveGame; `ends' stops counting at 2.           *)
Ended(b) ==
  RequestLeaveGame([b EXCEPT !.ends = IF @ = 2 THEN 2 ELSE @ + 1])

-----------------------------------------------------------------------------
(***************************************************************************)
(* StartGame                                                               *)
(***************************************************************************)

First == 1
LastInclusive == NumAgents + 1
Last == NumAgents

Leaves(p) == phase' = p /\ turn' = First
NextTurn(p) ==
  IF turn = Last THEN Leaves(p) ELSE turn' = turn + 1 /\ UNCHANGED phase

(* client_errors_ is never cleared: after an error no game is started.     *)
CallStartGame ==
  /\ phase = "user" /\ ~result /\ games < MaxGames
  /\ \A a \in Agents : bot[a].errs = {}
  /\ games' = games + 1 /\ left' = FALSE
  /\ IF CanSend(bot[First]) THEN Leaves("creating") ELSE Leaves("exit")
  /\ bot' = [bot EXCEPT ![First] = Sent(@, "create")]
  /\ UNCHANGED <<at, result, faults>>

(* CreateGame by the first agent; exit(1) unless it succeeds.              *)
CreateReturns ==
  /\ phase = "creating" /\ bot[First].reply # NoReply
  /\ bot' = [bot EXCEPT ![First] = Got(@)]
  /\ Leaves(IF bot[First].reply.bad THEN "exit" ELSE "join")
  /\ UNCHANGED <<at, result, left, games, faults>>

JoinRequestsInTurn ==
  /\ phase = "join"
  /\ bot' = [bot EXCEPT ![turn] =
       Sent([@ EXCEPT !.ends = 0, !.seen = 0, !.again = FALSE], "join")]
  /\ IF CanSend(bot[turn]) THEN phase' = "joining" ELSE phase' = "exit"
  /\ UNCHANGED <<turn, at, result, left, games, faults>>

(* JoinGame: every agent asks to join before any waits for the answer.     *)
JoinRequests ==
  /\ phase = "join"
  /\ bot' = [bot EXCEPT ![turn] =
       Sent([@ EXCEPT !.ends = 0, !.seen = 0, !.again = FALSE], "join")]
  /\ IF CanSend(bot[turn]) THEN NextTurn("joining") ELSE Leaves("exit")
  /\ UNCHANGED <<at, result, left, games, faults>>

JoinReturns ==
  /\ phase = "joining" /\ bot[turn].reply # NoReply
  /\ bot' = [bot EXCEPT ![turn] = Got(@)]
  /\ NextTurn("joined")
  /\ UNCHANGED <<at, result, left, games, faults>>

(* Errors on record of any agent end it here.                              *)
JoinChecks ==
  /\ phase = "joined"
  /\ IF \E a \in Agents : bot[a].errs # {}
       THEN phase' = "user" /\ result' = FALSE
       ELSE phase' = "observing" /\ UNCHANGED result
  /\ UNCHANGED <<turn, at, left, games, faults, bot>>

FirstObservation ==
  /\ phase = "observing"
  /\ IF bot[turn].app = "normal" /\ CanSend(bot[turn])
       THEN phase' = "observed" /\ UNCHANGED turn
       ELSE NextTurn("starting")
  /\ bot' = [bot EXCEPT ![turn] =
       IF @.app = "normal" THEN Sent(@, "observation") ELSE @]
  /\ UNCHANGED <<at, result, left, games, faults>>

FirstObservationReturns ==
  /\ phase = "observed" /\ bot[turn].reply # NoReply
  /\ bot' = [bot EXCEPT ![turn] = Observed(@)]
  /\ IF turn = Last THEN Leaves("starting")
     ELSE phase' = "observing" /\ turn' = turn + 1
  /\ UNCHANGED <<at, result, left, games, faults>>

(* OnGameFullStart, OnGameStart and the first IssueEvents of every agent.  *)
StartsGame ==
  /\ phase = "starting"
  /\ bot' = [a \in Agents |->
       [Issued(bot[a]) EXCEPT !.played = IsInGame(bot[a])]]
  /\ phase' = "user" /\ result' = TRUE
  /\ UNCHANGED <<turn, at, left, games, faults>>

StartGame ==
  \/ CreateReturns \/ JoinRequests \/ JoinReturns \/ JoinChecks
  \/ FirstObservation \/ FirstObservationReturns \/ StartsGame

-----------------------------------------------------------------------------
(***************************************************************************)
(* Update: the step of each agent                                          *)
(***************************************************************************)

CallUpdate ==
  /\ phase = "user" /\ games > 0
  /\ result \/ KeepsUpdating
  /\ phase' = "stepping" /\ turn' = First
  /\ at' = [a \in Agents |-> "start"]
  /\ UNCHANGED <<result, left, games, faults, bot>>

(* RunParallel gives every agent a thread; elsewhere they take turns.      *)
Runs(a) ==
  \/ phase = "stepping" /\ (Realtime /\ ~MultiThreaded => turn = a)
  \/ phase = "callbacks" /\ turn = a

Goes(a, b, p) ==
  /\ bot' = [bot EXCEPT ![a] = b] /\ at' = [at EXCEPT ![a] = p]
  /\ UNCHANGED <<phase, turn, result, left, games, faults>>

(* After WaitStep or GetObservation: the callbacks, at once or later.      *)
CallbacksInRealtime == IF Realtime THEN "callback" ELSE "done"
Callbacks == IF MultiThreaded \/ Realtime THEN "callback" ELSE "done"

Observes(a, b) ==
  Goes(a, Sent(b, "observation"), IF CanSend(b) THEN "observe" ELSE Callbacks)

(* step_agent up to its first request.  WaitStep waits even when Step()    *)
(* could not send.                                                         *)
StepAgent(a) ==
  /\ Runs(a) /\ at[a] = "start"
  /\ LET b == bot[a] IN
       IF b.app # "normal" THEN Goes(a, b, "done")
       ELSE IF HasNoGame(b) THEN Goes(a, Polled(b), "done")
       ELSE IF Realtime THEN Observes(a, Polled(b))
       ELSE Goes(a, Sent(Polled(b), "step"), "step")

StepReturns(a) ==
  /\ Runs(a) /\ at[a] = "step" /\ bot[a].reply # NoReply
  /\ IF bot[a].reply.bad THEN Goes(a, Got(bot[a]), Callbacks)
     ELSE Observes(a, Got(bot[a]))

ObservationReturns(a) ==
  /\ Runs(a) /\ at[a] = "observe" /\ bot[a].reply # NoReply
  /\ Goes(a, Observed(bot[a]), Callbacks)

(* In real time the end of the game is looked at after the actions.        *)
AfterActions(b) == IF Realtime /\ ~IsInGame(b) THEN Ended(b) ELSE b

(* CallOnStep, or the second half of the real time step_agent; `acts' when *)
(* the agent has batched actions for SendActions.                          *)
CallOnStep(a, acts) ==
  /\ Runs(a) /\ at[a] = "callback"
  /\ LET b == Issued(bot[a]) IN
       IF ~Realtime /\ ~IsInGame(bot[a]) THEN Goes(a, Ended(bot[a]), "done")
       ELSE IF acts /\ CanSend(b) THEN Goes(a, Sent(b, "action"), "act")
       ELSE Goes(a, AfterActions(IF acts THEN Sent(b, "action") ELSE b), "done")

ActionsReturn(a) ==
  /\ Runs(a) /\ at[a] = "act" /\ bot[a].reply # NoReply
  /\ Goes(a, AfterActions(Got(bot[a])), "done")

(* The loop over the agents once their steps are done, unless the          *)
(* callbacks ran on the threads.                                           *)
SerialCallback(a) ==
  /\ Runs(a) /\ at[a] = "serial"
  /\ LET b == bot[a] IN
       IF b.app # "normal" THEN Goes(a, b, "done")
       ELSE IF PollLeaveGame(b) THEN Goes(a, Polled(b), "done")
       ELSE Goes(a, Polled(b), "callback")

AgentRuns(a) ==
  \/ StepAgent(a) \/ StepReturns(a) \/ ObservationReturns(a)
  \/ (\E acts \in BOOLEAN : CallOnStep(a, acts))
  \/ ActionsReturn(a) \/ SerialCallback(a)

-----------------------------------------------------------------------------
(***************************************************************************)
(* Update: the coordinator's own thread                                    *)
(***************************************************************************)

(* The threads are joined, or the turn passes on.                          *)
FirstStepped == at[First] = "done"
AllStepped == \A a \in Agents : at[a] = "done"

StepsDone ==
  /\ phase = "stepping"
  /\ IF Realtime /\ ~MultiThreaded
       THEN at[turn] = "done" /\ NextTurn("checking") /\ UNCHANGED at
     ELSE IF ~Realtime /\ ~MultiThreaded
       THEN /\ AllStepped
            /\ Leaves("callbacks") /\ at' = [a \in Agents |-> "serial"]
     ELSE AllStepped /\ Leaves("checking") /\ UNCHANGED at
  /\ UNCHANGED <<result, left, games, faults, bot>>

CallbackDone ==
  /\ phase = "callbacks" /\ at[turn] = "done"
  /\ NextTurn("checking")
  /\ UNCHANGED <<at, result, left, games, faults, bot>>

AllGamesEndedIgnoringPending == \A a \in Agents : ~IsInGame(bot[a])
AllGamesEnded ==
  \A a \in Agents : ~IsInGame(bot[a]) /\ bot[a].pending = "none"

UpdateReturns ==
  /\ phase = "checking"
  /\ result' = (~AllGamesEnded /\ \A a \in Agents : bot[a].errs = {})
  /\ phase' = "user"
  /\ UNCHANGED <<turn, at, left, games, faults, bot>>

CallLeaveGame ==
  /\ phase = "user" /\ result /\ ~left
  /\ left' = TRUE
  /\ bot' = [a \in Agents |-> RequestLeaveGame(bot[a])]
  /\ UNCHANGED <<phase, turn, at, result, games, faults>>

(* WaitForAllResponses looks at the first agent that awaits a response,    *)
(* again and again, until no agent does.                                   *)
Waiting == {a \in Agents : bot[a].pending # "none" /\ bot[a].app = "normal"}

CallWaitForAllResponses ==
  /\ phase = "user" /\ Waiting # {}
  /\ phase' = "draining"
  /\ UNCHANGED <<turn, at, result, left, games, faults, bot>>

WaitForAllResponses ==
  /\ phase = "draining"
  /\ \/ /\ Waiting = {} /\ phase' = "user" /\ UNCHANGED bot
     \/ \E a \in Waiting :
          /\ \A other \in Waiting : a <= other
          /\ bot[a].reply # NoReply
          /\ bot' = [bot EXCEPT ![a] = Got(@)] /\ UNCHANGED phase
  /\ UNCHANGED <<turn, at, result, left, games, faults>>

Coordinates == StepsDone \/ CallbackDone \/ UpdateReturns \/ WaitForAllResponses

User == CallStartGame \/ CallUpdate \/ CallLeaveGame \/ CallWaitForAllResponses

-----------------------------------------------------------------------------
(***************************************************************************)
(* The wait for a response ends without one                                *)
(***************************************************************************)

(* A process that fails, or refuses, keeps the others waiting too.         *)
Broken == faults > 0

NoAnswer(b, pinged) ==
  /\ Broken /\ b.reply = NoReply
  /\ pinged => b.conn = "up"

(* GetObservation prints a member of the missing response.                 *)
StepTimesOut(a, pinged) ==
  /\ Runs(a) /\ NoAnswer(bot[a], pinged)
  /\ \/ at[a] = "step" /\ Goes(a, Abandoned(bot[a], pinged), Callbacks)
     \/ /\ at[a] = "act"
        /\ Goes(a, AfterActions(Abandoned(bot[a], pinged)), "done")
     \/ /\ at[a] = "observe"
        /\ phase' = "fault"
        /\ UNCHANGED <<turn, at, result, left, games, faults, bot>>

StartTimesOut(pinged) ==
  /\ NoAnswer(bot[turn], pinged)
  /\ \/ /\ phase = "joining" /\ NextTurn("joined")
        /\ bot' = [bot EXCEPT ![turn] = Abandoned(@, pinged)]
     \/ phase = "creating" /\ Leaves("exit") /\ UNCHANGED bot
     \/ phase = "observed" /\ Leaves("fault") /\ UNCHANGED bot
  /\ UNCHANGED <<at, result, left, games, faults>>

(* An assertion of debug builds; otherwise WaitForAllResponses returns.    *)
WaitTimesOut ==
  /\ phase = "draining" /\ Broken /\ Waiting # {}
  /\ phase' = "user"
  /\ UNCHANGED <<turn, at, result, left, games, faults, bot>>

TimesOut ==
  \/ \E pinged \in BOOLEAN :
       StartTimesOut(pinged) \/ \E a \in Agents : StepTimesOut(a, pinged)
  \/ WaitTimesOut

-----------------------------------------------------------------------------
(***************************************************************************)
(* The SC2 processes                                                       *)
(***************************************************************************)

Answered(b, bad) ==
  [b EXCEPT !.request = "none",
            !.reply = [status |-> b.status, loop |-> b.loop, bad |-> bad]]

Env(newBot) ==
  /\ bot' = newBot
  /\ UNCHANGED <<phase, turn, at, result, left, games, faults>>

(* A game can be created by a process that is not in one; after a          *)
(* multiplayer game it has to be left first.                               *)
GameAnswers(a) ==
  LET b == bot[a]
      free == b.status = "launched" \/ (~Multiplayer /\ b.status = "ended")
  IN \/ b.request \in {"observation", "action"}
        /\ Env([bot EXCEPT ![a] = Answered(b, FALSE)])
     \/ b.request = "step" /\ b.status # "inGame"
        /\ Env([bot EXCEPT ![a] = Answered(b, TRUE)])
     \/ b.request = "create"
        /\ Env([bot EXCEPT ![a] =
             IF free THEN Answered([b EXCEPT !.status = "init"], FALSE)
             ELSE Answered(b, TRUE)])
     \/ b.request = "leave"
        /\ Env([bot EXCEPT ![a] =
             Answered([b EXCEPT !.status = "launched"], FALSE)])

(* The game begins when all its players have joined.                       *)
GameBegins ==
  /\ \A a \in Agents : bot[a].request = "join"
  /\ Env([a \in Agents |->
       Answered([bot[a] EXCEPT !.status = "inGame", !.loop = 1], FALSE)])

Players == {a \in Agents : bot[a].status = "inGame"}

Advanced(b, over) ==
  [b EXCEPT !.loop = IF @ = MaxLoops THEN @ ELSE @ + 1,
            !.status = IF over \/ b.loop + 1 >= MaxLoops THEN "ended" ELSE @]

(* The game advances when all its players have asked for it.               *)
GameSteps(over) ==
  /\ ~Realtime /\ Players # {}
  /\ \A a \in Players : bot[a].request = "step"
  /\ Env([a \in Agents |-> IF a \in Players
                           THEN Answered(Advanced(bot[a], over), FALSE)
                           ELSE bot[a]])

TimePasses(over) ==
  /\ Realtime /\ Players # {}
  /\ Env([a \in Agents |-> IF a \in Players THEN Advanced(bot[a], over)
                           ELSE bot[a]])

GameRuns ==
  \/ (\E a \in Agents : GameAnswers(a)) \/ GameBegins
  \/ (\E over \in BOOLEAN : GameSteps(over))

(* The faults: an error as the answer, a hang, and a closed connection,    *)
(* which the websocket thread records at any moment.                       *)
GameRefuses(a) ==
  /\ faults < MaxFaults /\ bot[a].request # "none"
  /\ faults' = faults + 1
  /\ bot' = [bot EXCEPT ![a] = Answered(@, TRUE)]
  /\ UNCHANGED <<phase, turn, at, result, left, games>>

GameBreaks(a) ==
  /\ faults < MaxFaults /\ bot[a].conn = "up"
  /\ faults' = faults + 1
  /\ LET b == bot[a] IN
       \E c \in {"hung", "closed"} :
         bot' = [bot EXCEPT ![a] =
           [b EXCEPT !.conn = c, !.request = "none", !.reply = NoReply,
                     !.errs = IF c = "closed" THEN @ \cup {"ConnectionClosed"}
                              ELSE @]]
  /\ UNCHANGED <<phase, turn, at, result, left, games>>

Faults == \E a \in Agents : GameRefuses(a) \/ GameBreaks(a)

-----------------------------------------------------------------------------
Stops == phase \in {"exit", "fault"}

Next ==
  /\ ~Stops /\ UNCHANGED settings
  /\ \/ User \/ StartGame \/ Coordinates \/ (\E a \in Agents : AgentRuns(a))
     \/ TimesOut \/ GameRuns \/ (\E over \in BOOLEAN : TimePasses(over)) \/ Faults

Spec == Init /\ [][Next]_vars

(* The threads run, a wait times out, SC2 answers what it can answer, and  *)
(* the user's loop calls Update again.                                     *)
Fairness ==
  /\ WF_run(~Stops /\ (StartGame \/ Coordinates))
  /\ \A a \in 1..MaxAgents : WF_run(~Stops /\ a \in Agents /\ AgentRuns(a))
  /\ WF_run(~Stops /\ TimesOut)
  /\ WF_run(~Stops /\ GameRuns)
  /\ SF_run(~Stops /\ CallUpdate)

FairSpec == Spec /\ Fairness

-----------------------------------------------------------------------------
Bots ==
  [pending : {"none", "create", "join", "step", "observation", "action", "leave"},
   last : {"launched", "init", "inGame", "ended", "unknown"},
   app : {"normal", "failed"},
   errs : SUBSET {"ResponseNotConsumed", "SC2ProtocolError", "SC2UnknownStatus",
                  "SC2AppFailure", "ConnectionClosed"},
   cur : 0..MaxLoops, prev : 0..MaxLoops,
   conn : {"up", "hung", "closed"},
   request : {"none", "create", "join", "step", "observation", "action", "leave"},
   reply : [status : {"none", "launched", "init", "inGame", "ended"},
            loop : 0..MaxLoops, bad : BOOLEAN],
   status : {"launched", "init", "inGame", "ended"}, loop : 0..MaxLoops,
   ends : 0..2, played : BOOLEAN, seen : 0..MaxLoops, again : BOOLEAN]

TypeOK ==
  /\ settings \in Settings
  /\ phase \in {"user", "creating", "join", "joining", "joined", "observing",
                "observed", "starting", "stepping", "callbacks", "checking",
                "draining", "exit", "fault"}
  /\ turn \in Agents
  /\ at \in [Agents -> {"done", "start", "step", "observe", "callback", "act",
                        "serial"}]
  /\ {result, left} \subseteq BOOLEAN
  /\ games \in 0..MaxGames /\ faults \in 0..MaxFaults
  /\ bot \in [Agents -> Bots]

NoErrors == \A a \in Agents : bot[a].errs = {}

(* Update() calls back serially after it has stepped several agents.       *)
InTurns == Multiplayer /\ ~MultiThreaded /\ ~Realtime

(* "Called when a game has ended": once Update has returned false and no   *)
(* error is on record, every agent that was not told to leave and found    *)
(* itself in a game when StartGame returned has had its OnGameEnd.         *)
EndIsAnnouncedAlways ==
  (phase = "user" /\ ~result /\ games > 0 /\ NoErrors /\ ~left)
    => \A a \in Agents : bot[a].played => bot[a].ends > 0

(* The same, but for agents that get their callbacks in turns, whose       *)
(* PollLeaveGame hides the end from CallOnStep; and OnGameEnd is called at *)
(* most once in a game, however often the user calls Update after the end  *)
(* (agents that step on their own threads or in real time).                *)
EndIsAnnounced ==
  /\ InTurns \/ EndIsAnnouncedAlways
  /\ \A a \in Agents : bot[a].ends <= 1

(* OnStep and the events before it come once for each observed loop;       *)
(* IssueEvents compares the last two loops, which a GetObservation that    *)
(* failed has left as they were: then an error is on record.               *)
EventsComeOnce == \A a \in Agents : bot[a].again => bot[a].errs # {}

(* A user who starts the next game when Update has returned false is not   *)
(* thrown out by exit(1): nothing is pending then and every game was left, *)
(* but for one that was over before StartGame returned (and for agents in  *)
(* turns, who never leave).                                                *)
NextGameStarts ==
  phase = "exit" =>
    InTurns \/ faults > 0 \/ (games > 1 /\ \E a \in Agents : ~bot[a].played)

(* The agents of a stepped game are at the same loop when Update returns:  *)
(* none was left behind and none steps ahead of the others.                *)
AgentsInStep ==
  (phase = "user" /\ ~Realtime /\ NoErrors /\ faults = 0)
    => \A a, b \in Agents :
         (IsInGame(bot[a]) /\ IsInGame(bot[b])) => bot[a].cur = bot[b].cur

(* Every call of the user comes back.  The agents never wait for each      *)
(* other inside SC2, which answers a join or a step only when all have     *)
(* asked, while one of them has yet to ask.                                *)
CallsReturn == (phase # "user") ~> (phase = "user" \/ Stops)

(* The loop `while (coordinator.Update())' ends once the games are over,   *)
(* unless a process has failed: PollLeaveGame has no timeout.              *)
UpdateLoopEnds ==
  (phase = "user" /\ result /\ Players = {})
    ~> (~result \/ Stops \/ \E a \in Agents : bot[a].conn # "up")
=============================================================================
