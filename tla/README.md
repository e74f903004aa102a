# A TLA+ model of cpp-sc2

cpp-sc2 is a C++ client library for the StarCraft II (SC2) API. A program
subclasses `Agent` or `ReplayObserver`, hands it to a `Coordinator`, and calls
`Coordinator::Update()` in a loop; the library starts one SC2 process per
client, talks to it over a websocket, and turns what comes back into callbacks
(`OnStep`, `OnUnitCreated`, `OnGameEnd`, ...). This directory holds TLA+ models
of the parts of the library that have state, the TLC runs that check them, and
machine-checked proofs about the lowest one, the launch and what one client does
over its games. Line numbers refer to
the source tree, whose root is `src/` here.

## 1. Inventory

| Component | State | Operations | Hard behaviour | Correct when | Module |
|---|---|---|---|---|---|
| `Connection` (`sc2_connection.cc`) | `queue_`, `has_response_`, `mutex_`, the state of the websocket | Connect, Send, Receive, PollResponse, Disconnect, the three callbacks of the websocket | two threads, a lock that not every access takes, a condition variable with a deadline, a thread that is joined, automatic reconnection | nothing is lost to polling, nothing stale is delivered, no thread waits for ever | `Connection`, `Mailbox`, `ConnectionProofs` |
| `ProtoInterface` and the waiting of `ControlImp` (`sc2_proto_interface.cc`, `sc2_client.cc` 1727-1896) | `response_pending_`, `latest_status_`, `app_state_`, `client_errors_` | SendRequest, WaitForResponse, PingGame, Quit, ConnectToGame | a message has no identifier, so that a response is paired with a request by what was sent last; late answers; a diagnosis after a timeout | a response answers the request it is taken for; every failure is on record; every operation returns | `Protocol` |
| `Coordinator` with agents (`sc2_coordinator.cc`) | `agents_`, the process settings, of each client the last status and the two last game loops | StartGame, Update (three modes), LeaveGame, WaitForAllResponses | threads per agent; a game that advances only when all players ask; an end of the game noticed over several calls of Update; faults | nobody waits for ever, agents stay in step, the end is announced once, the next game can start | `AgentCoordinator`, `AgentCoordinatorSteps`, `AgentCoordinatorProofs` |
| `UnitPool` and the events (`sc2_unit.cc`, `sc2_proto_to_pods.cc` 163-302, `sc2_client.cc` 2036-2156) | pages of `Unit`, the maps from tags to pointers, the lists of units with an event | CreateUnit, ClearExisting, Convert, UpdateObservation, IssueEvents | pointers handed to the user, one copy of each unit that is compared with and overwritten by the next observation, loops observed twice | a pointer remains the unit of its tag; an event compares an observation with the one before it | `UnitEvents`, `UnitEventsProofs` |
| `Coordinator` with replay observers (`sc2_coordinator.cc` 212-299, 394-514; `sc2_replay_observer.cc`) | the list of replays, of each observer the loading replay | Update, StartReplay, LoadReplay, WaitForReplay, IgnoreReplay | a request that outlives the call of Update that sent it, while other observers step; failures in the middle of the list | every replay has its turn, once, and the loop ends | `ReplayCoordinator`, `ReplayCoordinatorProofs` |
| Launch and ports (`sc2_coordinator.cc` 36-132, 639-665, 728-753, 1013-1037) | `process_info`, `last_port_`, the ports of the game | LaunchStarcraft, SetupPorts, AttachClients, Relaunch | an attempt that fails half way and is repeated; two counters that give out ports; lists that accumulate over games | no two clients share a process; the ports of a game are free | `Launch`, `LaunchProofs` |
| `Process` (`process_posix.cpp`) | pid, mutex | start, terminate, isRunning, string | a shared mutex locked again by its holder | every call returns | `Process` |
| `Server` (`sc2_server.cc`) | two queues, the list of connections | QueueRequest, SendRequest, PeekRequest, ... | threads of the embedded server, accesses without the lock | a request is forwarded once, in order | not modelled, see section 7 |
| Caches, queries and debug commands (`sc2_client.cc` 190-488, 664-1351, 2158-2228; `sc2_proto_to_pods.cc` 494-564) | the tables of data, `game_info_`, their flags, the lists of `DebugImp` | GetAbilityData and so on, GetGameInfo, the queries, Debug..., SendDebug, Save, Load | members that outlive the game; what invalidates a cache, and when; a list cleared whatever became of the request | what is read is of the map that is played; no command is lost | `Client`, `ClientProofs` |
| Unit commands (`sc2_agent.cc`, `sc2_replay_observer.cc` 243-300) | the batched request of each interface, `commands_` | UnitCommand, SendActions, Restart | a batch that is refused is sent later, commands given after OnStep, a `commands_` that every SendActions clears | a command is executed once, in its game, and reported on | `Client`, `ClientProofs` |
| Settings and arguments, map data, conversions, identifiers, renderer, platform | next to none | sequential | - | - | not modelled, see section 7 |

How they interact. The user's thread calls the `Coordinator`, which calls
`ControlImp` of each client, on its own thread or on one thread per client.
`ControlImp` calls `ProtoInterface`, which owns a `Connection`. The websocket
thread of a `Connection` runs PushResponse and the callbacks that append to
`client_errors_`. SC2 is a process per client; in a multiplayer game the
processes wait for each other, and this is where otherwise independent clients
meet. Observations go from GetObservation through the conversion into the
`UnitPool`, and IssueEvents turns what it has collected into callbacks.

`PROJECT.json` lists under `hazards` what in this code a test would hardly
reach, each at its line, with the properties that would notice.

## 2. Modules

    Mailbox          what a connection promises (abstract)
      ^ implemented by
    Connection       caller, websocket thread, socket, SC2      <- ConnectionProofs
      ^ EXTENDS
    Protocol         requests and answers on top of Connection  <- ProtocolProofs

    AgentCoordinator   several clients, each a summary of Protocol, and their SC2s
                       <- AgentCoordinatorSteps <- AgentCoordinatorProofs
    ReplayCoordinator  the same for replay observers         <- ReplayCoordinatorProofs
    UnitEvents         one client: observations, pool, events  <- UnitEventsProofs
    Launch             processes, connections and ports      <- LaunchProofs
    Client             one client over its games: caches, batches, commands  <- ClientProofs
    Process            the lock and the life of a child process

    MC<module>       the instance that a run checks, with the .cfg files named alike

`Protocol` really composes: its steps are the steps of `Connection` with more
state, so that the interleavings of the websocket thread are those of the lower
module. The coordinators do not include `Protocol`, whose states multiplied by
two or three clients would be out of reach. They rest on what `Protocol` checks:
a client has at most one request out and either receives its own answer, or, if
SC2 fails, gives up (`Abandoned`, with and without an answered ping), or cannot
send at all (`conn = "closed"`). `pending`, `last`, `app` and `errs` of a client
are the four members of the code.

Some definitions come in two forms, one beside the other, of which only the
second is used: `RefusesNothing` and `RefusesPending`, `StillBatched` and
`BatchAfter`.
The first is what a plausible mistake in the code would make of the
second. `PROJECT.json` pairs each with the property that notices it, so that it
is known that the property depends on the code at that place.

### Connection
One request is one number. SC2 answers in order, so the socket is three counters
`sent`, `answered`, `read`; a socket that goes down loses what is between them.
`caller` is the program counter of the calling thread, `worker` that of the
websocket thread. A call is cut wherever the code takes or drops `mutex_`,
blocks, or reads without the lock what the other thread writes: Receive is
`CallReceive`, `ReceiveWakes`/`PopSeesResponse`/`Pops`, or `ReceiveTimesOut`/
`ReceiveDisconnects`/`JoinReturns`/`ReceiveFails`. PushResponse is
`WorkerReads`, `WorkerPushes`, `WorkerFlags`, because PollResponse reads
`has_response_` without the lock between the last two. ix::WebSocket is external:
its states, the automatic reconnection, and stop(), which closes and joins.
`Mailbox` has one queue, the last answer taken and the last request given up;
`MailboxSpec` maps its `box` to `queue_`.

### Protocol
Every operation of a client (`op`) goes through the code of SendRequest
(`SendChecks` to `SendGoes`), WaitForResponseInternal (`Waits`, `HasResponse`,
`NoResponse`) and the diagnosis of WaitForResponse (`Diagnoses`, a ping, a second
wait, `GivesUp`). A message is its kind. The game hangs, recovers and exits at
any moment; `launched` says whether the library started it, on which
Process::isRunning() depends. The model is of builds with NDEBUG: an assertion
does not stop the program.

### AgentCoordinator
`settings` is chosen at the start: the number of agents, and the three modes of
Update. `at[a]` is where the step of agent a is, `phase` and `turn` where the
coordinator is. RunParallel lets every `AgentRuns(a)` interleave. A request is
sent in one step, answered by SC2 in another (`GameAnswers`, `GameBegins`,
`GameSteps`), read in a third. SC2 begins a game when all players have asked to
join and advances it when all have asked for a step; in real time it advances by
itself. One answer can be an error, one process can hang or lose its socket.

### UnitEvents
A `Unit*` is a page and an offset, and `store` is what the slots hold. `pool` has
the members of `UnitPool`. `ConvertUnit` is the body of the loop in Convert, folded
over the units of the observation; the order does not matter for what is kept.
Of a unit we keep the alliance, whether it is a snapshot, progress, health,
whether it has orders, and the loop it was seen last: what the events depend on.
The memory of a new page is not initialised; since it is only compared with progress
and health, two values stand for all: nothing has changed (`Uninitialised(0, 0)`), or
everything has. The first observation of a game may be of loop 0 or 1 and may or may
not be followed by IssueEvents (StartGame does, WaitForReplay and Restart do not).
A neutral unit out of sight is a snapshot, in the first observation
(`FirstUnits`) as in any other (`DataOf`). The tags that IssueEvents gets are any own
units of the observation before. `events` is empty until they are issued. `known`,
`before`, `gone` and `commanded` are history.

### ReplayCoordinator
`files` is how much is left of the list, whose back is popped. Only `load` is
asynchronous; every other request and its wait are one step, because the
observers share nothing but the list, and that is the coordinator's. `fate` and
`loads` follow each replay. `recovery` with an error leads to Relaunch, which
calls Process::terminate(); that locks the mutex it holds, so the model stops
there (`stuck`), as the run `process_lock` shows of `Process`. In real time
(StepReplayObserversRealtime) an observer looks at the game (`StepFor`) instead of
stepping it, sends no actions, and SC2 goes on at any moment (`Advances`). The loops
it passes between two observations count as one: the callbacks only compare loops
for equality.

### Launch
A process is the port it listens on, `processes` is `process_info`; `own` is what
SetProcessInfo gave a client, `linked` what its connection was told. `ports`
holds the ports of the game in the order of the increments in SetupPorts. A call
of LaunchStarcraft or StartReplay is one step, in which Connect fails for one
client or for none; the exception leaves the coordinator as it was at that
point, and the caller may try again. A second Connect of a client that is
connected changes nothing, because its websocket is running. Locking a mutex
twice is undefined behaviour, of which `ReplayCoordinator` takes the outcome of
the usual implementations; `Relaunch` here is for those where terminate()
returns.

### Client
`mode` is the program: a bot or an observer, in steps or in real time, and which
calls it makes. The coordinator and the bot share a thread, so a request and its
wait are one step with one of the outcomes of WaitForResponse (`Waits`):
answered, answered with errors, unanswered but for the ping, dead; or refused by
SendRequest. `phase` is the callback under way or what the coordinator does next,
in the order of StartGame, CallOnStep, StepAgentsRealtime and
StepReplayObservers; in each callback, and between two calls of Update, the bot may
call what its program uses, any number of times. A table of data is the map
whose data it holds; `info` has of GameInfo the two lists that Convert does not
replace. The commands are numbered. `batch` has them by channel: the raw request
of ActionImp, the request of ActionFeatureLayerImp or ObserverActionImp, the lists
of DebugImp, and its camera move, which SendDebug sends as a second request
(`op = "camera"`). `op = "remap"` is GetGeneralizedAbilityID, which fetches the
abilities in the middle of GetObservation or of a query. A command that names no
unit has nothing to report; the model numbers commands as if each named one.
Of a game SC2 keeps its loop, whether it is over and what was saved. `given`,
`origin`, `done`, `replaced`, `owed`, `missed` and `meddled` are history.

### Process
`writer` and `readers` are the shared_mutex, `call` and `at` the method a thread
is in and how far it is. `started`, `known` and `child` are the pid: how many
children there were, whether processId is set, and what became of the last child.
`LockFails` is a shared lock by the thread that holds the mutex alone: that is
undefined, and the model has the two outcomes of libstdc++ on Linux, an exception
(which ends the program in a noexcept method) or a thread that waits for itself.
Processes are made by make_shared, which zeroes processId.

## 3. Runs

| Run | Instance | What it shows |
|---|---|---|
| `connection` | 3 requests, 1 close by SC2 | All interleavings of caller and websocket thread. `PollAgrees`: the flag and the queue agree when it matters. `SuccessDelivers`: PopResponse's unlocked look at the queue does no harm. `NoStaleResponse`: an answer that comes between the timeout and the disconnect never reaches a later Receive. `StopIsSafe`: joining and clearing without the lock are safe. `CallReturns`: every call comes back. `MailboxSpec`: it implements `Mailbox`. No deadlock. |
| `protocol` | 4 requests, 1 close, 1 hang, any exit; Ping only when nothing is pending | `AnswerMatches`: an accepted answer belongs to its request. `OneInFlight`: what this rests on. `NoSilentFailure`: a failed operation leaves an error on record. `OperationReturns`: every operation ends. |
| `protocol_crash` | as `protocol` | violated: see 6 |
| `agents` | 1 agent of 4 loops; 2 agents in turns and on threads, 3 loops; 2 agents in real time, 2 loops; 2 games, 1 fault | `EndIsAnnounced`: OnGameEnd, at least and at most once. `EventsComeOnce`: no OnStep twice for one loop without an error. `NextGameStarts`: StartGame after Update has returned false does not exit the program. `AgentsInStep`: no agent runs ahead. `CallsReturn`: no call of the user waits for ever. `UpdateLoopEnds`. |
| `agents_end` | 2 agents in turns | violated: see 6 |
| `units` | an own unit, an enemy, a mineral; 2 slots a page; loops 0 to 2; a fresh page that differs in nothing or in everything | `PointersAreStable`; `CreatedWhenFirstSeen`, `EnteredWhenSighted`, `ChangesAreReported`: the events are those of the difference of two observations, for idle units with the commands between them; `EventsAreCurrent`: none is about a unit that is not in the observation, and OnUnitDestroyed is about those that died. |
| `units_next_game` | two games | violated: see 6 |
| `replays` | 2 observers, 3 replays, up to 2 steps each, 1 fault; threads or turns, in steps or in real time, recovery or not | `EveryReplayHasItsTurn`, `ReplaysRunOnce`: each replay is ignored, refused or played to its end, and only once. `CallbacksInOrder`, `EndIsAnnounced`: the order of the callbacks, and no OnStep twice for one observation. `LoadingIsLeftAlone`: no request to an SC2 that is loading. `UpdateLoopEnds`. |
| `replays_skip` | 1 observer | violated: see 6 |
| `launch` | up to 3 clients, 7 processes, 3 attempts; agents with or without a participant elsewhere, or observers | `EachItsProcess`: no two clients are connected to one SC2, and after a launch that was not repeated each is connected to the one it takes for its own. `GamePortsFree`: the ports of the first game differ from each other and from those of the processes. |
| `client` | 7 programs; 2 commands, 2 games of 2 loops, 2 tables, 1 fault | `CommandsComeOnce`: what is refused and sent again, or unanswered, is executed once. `CommandsAreKept`: without an error on record nothing is lost, and what OnStep commands arrives in the game it was meant for. `IdleIsReported`: whoever was commanded in a step is looked at by the next IssueIdleEvents. `DataIsCurrent`: tables and GameInfo are of the map that is played. |
| `process_lock` | 2 threads, 2 children | violated: see 6 |

Bounds. Requests: three are enough for one to be given up, its late answer to
arrive and a third to be confused with it; `Protocol` needs a fourth for the
diagnostic ping between them. One close is one reconnection. Two agents are the
smallest number for which SC2 makes one wait for another. Two games
are the smallest number for which a game can leave something behind. Three
units on pages of two make the pool allocate a second page. Two observers and
three replays let one observer load twice while the other plays. One fault at any moment:
two independent faults are combinations the code treats one after the other.
The programs of `client` use a part of the interfaces each, since what they share is the
connection, and every pair that shares more is in one of them: both
batches with SendActions by hand; commands with quick load and Restart; commands with
debug lists and the camera when the game is left; the same in real time;
caches with queries and Restart; and an observer's. Two commands are a batch and
one that is added to it or replaces it; two loops are a step with a next one.
The proofs of section 5 hold without these bounds, for every set of programs.

Deadlock is checked for `connection`. The others have behaviours that really end:
a destroyed client (`gone`), a program that exited or faulted, a user who stops
calling Update after it returned false, games and loops that are used up.

## 4. Fairness

`Connection` and `Protocol`: weak fairness of the calling thread and of the
websocket thread's own steps (push, flag, exit), since a thread runs until it
blocks; none for SC2, which may never answer, and none for opening or closing the
socket. The deadline of Receive is why it needs no more. `AgentCoordinator`: weak
fairness of the coordinator, of each agent's thread, of the timeouts, and of SC2
answering what it can answer (a step only when every player has asked), without
which no call could be expected to return before the timeout. Strong
fairness of CallUpdate, because the user may call WaitForAllResponses in between
any number of times. `ReplayCoordinator`: weak fairness of Update, of the user's loop, of each
observer's thread, of the loading and, in real time, of the game going on. Nothing is assumed of the user beyond the
loop `while (coordinator.Update())`. `Process`: strong fairness of each thread, so that
the mutex is granted to who waits for it; the violation does not depend on others.
`Client` and `Launch` have safety properties only and state no fairness.

## 5. Proofs

`ConnectionProofs` proves for every number of requests and closes, every
invariant that `connection` checks, and the refinement. It assumes
`BoundsAssumption` only: the bounds are natural numbers. The invariants are not
inductive: that a response is newer than what was given up says nothing of what is
still on its way. The inductive invariant `IInv` adds:

- `WireInv`: `read <= answered <= sent`, and what was taken or given up was read;
- `IncomingInv`: what the worker is about to push is the newest response read;
- `QueueInv`: the queue is sorted, and newer than what was taken or given up;
- `ThreadInv`: the worker exists unless the socket is closed, nothing is on the
  wire of a closed socket, and who joins does so while it closes;
- `MutexInv`, `FlagInv`, `CallerInv`: who holds the lock, when the flag may lag
  behind the queue, and what the caller can rely on between its steps.

`InitInv` and `StepInv` (one step per action) give `Inductive`; `TypeCorrect`,
`PollSafe`, `Delivers`, `NeverStale` and `StopSafe` follow from it. For the refinement, `StepRefines` maps a push to `Put`, a pop to
`Take`, the clearing of a failed Receive to `GiveUp`, and everything else to a
stutter; `QueueInv` is what makes the guard of `Put` true, and `SentIsLast` bounds
the numbers. `ImplementsMailbox` is the result.

`ProtocolProofs` proves the four invariants that `protocol` checks for any number of
requests, closes and hangs. `NextIsStep` shows that every step of `Protocol` is one of
`Connection` or leaves it alone (`UsesConnection`), so that `IInv` above serves as the
lower half. On top of it:

- `CallInv`, `OpInv`: which call of the connection is under way in which phase, and
  which operations may be there; with the types they make `ControlInv`;
- `FlightInv`: an answer that is under way is the one to `asked`, and there is none
  while the client is `Quiet`, that is, awaits nothing, is about to send, or has
  received or given up what it awaited. `OnlyOneSends` and `WireFalls` show that
  nothing but a Send adds to what is under way, and `QuietFlight` that the client
  becomes quiet only by taking the answer or by the clear() of a failed Receive;
- `SilentInv`: the socket of a connected client is open, or its close is on record,
  for the callback is set before anything is sent.

`OneInFlight` and `AnswerMatches` need `NoPing`, that PingWhilePending is FALSE: with
it TRUE they are false (see 6). `PTypeOK` and `NoSilentFailure` do not.

`LaunchProofs` proves the invariants that `launch` checks for every number of
clients, processes and attempts, and every first port. `LaunchAssumption` asks
for a first port above 1: the first process gets the one before it. The
invariants are not inductive, since distinct connections say nothing of the port
that is given out next. `IInv` adds that the processes have consecutive ports
(`ProcessesInv`), that connections count from the front of `process_info` until
something can be relaunched (`FrontInv`), that from then on `last_port_` is the
highest port in use (`RelaunchInv`), what the first attempt finds (`FirstInv`), and
where the ports of the game begin (`GameInv`). `LaunchFacts` and `SetupFacts` say
what LaunchProcesses with AttachClients, and SetupPorts, do to an invariant
state; `NextInv` has a step per action.

`ClientProofs` proves the five invariants of `client` for every set of programs and
of tables, and any number of commands, games, loops and faults.
`ClientAssumption` asks that an observer commands no units and that "abilities" is
one of the tables. There are five inductive invariants, each on top of `TypeOK`:

- `GameInv`, `CallInv`: there is a map whenever there is a game, and a game that
  goes on has loops left, which the types of the next step need;
- `DataInv`: a table or a GameInfo whose flag is set is of the current map, and, by
  phase, what start_locations (`StartsInv`) and player_info (`PlayersInv`) hold
  between GetGameInfo and OnGameStart in either order;
- `OnceInv`: batches are disjoint and without repetitions, and disjoint from what
  was executed, and no command has a number that was not given;
- `KeptInv`: without an error on record the socket is open, every command is in one
  of the three places (`PlaceInv`), and one that OnStep gave is only batched while its
  channel is still to be sent in this step (`OriginInv`, `Sendable`);
- `IdleInv`: without an error the loops are those of SC2 but while an
  observation is due, so that IssueEvents is not skipped, and what is owed is in
  `commands_` when it comes.

That "without an error on record" is inductive rests on `AsksCalm` and
`AsksAndWaitsCalm`: a request leaves no error only when it was accepted and
answered. `ExecutedOnce` and `ExecutedDrains` say what sending a batch does to
`done`; `TypeCorrect`, `DataCurrent`, `ExecutedAtMostOnce`, `NothingLost` and
`IdleReported` are the results.

`ReplayCoordinatorProofs` proves the six invariants of `replays` for any number
of observers, replays, loops and faults, from `ReplaysAssumption` only: there is an
observer, and a replay has a loop. None of the six is inductive: what an
observer may be told depends on where its thread is in run_replay, and on what its
client has seen of an SC2 that, in real time, goes on by itself. `IInv` is `TypeOK`
with

- `ClientsInv`: of every client that failures are on record (`Recorded`), that only
  the answer to start_replay is ever left for later, by an idle client (`Awaits`), how
  far what it has seen may be behind (`Knows`, `Counts`), and of the place its
  thread is at what the next request relies on (`InPlace`);
- `StaleInv`: in real time a client can leave a game with its first loop as the
  current one only when its observation failed, and then no Update follows. Without it
  the first observation of the next replay would find the same loop and no OnStep
  would come;
- `ControlInv`: when the threads are at rest, what is known before the processes are
  launched, and that the list is not empty where a replay is taken from it.

The place lemmas (`FirstObservationPlace` to `CallbacksPlace`) take a client from one
place of run_replay to the next; `MovesFacts` and `GoesFacts` carry that over to the state. Each
theorem then has an invariant of its own on top: `LoadsInv` (`RunsOnce`), `CalmInv`
with `ModeInv` (`LeftAlone`), `CallbacksInv` (`InOrderAlways`), and for `HasItsTurn`
two. `FateInv` says that a replay that is neither listed nor had its turn is with an
observer, and `CoverInv` that an observer that StartReplay has passed has something to do,
unless the list is empty or an error is on record: so that all observers
idle means that the list is empty. `InOrderAlways` and `LeftAlone` need the callbacks on the threads,
as the properties say (see 6).

`AgentCoordinatorSteps` and `AgentCoordinatorProofs` prove the five invariants of
`agents` for any settings and any number of agents, games, loops and faults, from
`AgentsAssumption`. The first module states the inductive invariant and what each
operation of one client makes of its part; the second carries that to the steps of the
coordinator. An agent is at a place of StartGame, Update or between the calls
(`Place`), and `IInv` is `TypeOK` with

- `EachInv`, of every agent by itself: what is out was asked for (`Link`), what the
  client knows of its SC2 (`Knows`), what it may wait for at its place (`Waits`), that a
  join that succeeded put it into a game (`Begun`), which loop OnStep was called for
  last (`Seen`), that OnGameEnd comes to a game that is over (`Ends`); in a stepped
  game without errors, that SC2 waits for the agent (`Lock`), and what the agent was
  told before it leaves, or is left out (`Told`);
- `LoopsInv`: the SC2s of the agents that are in a stepped game are at the same loop,
  until they have answered that they have left it. It is the only part that relates
  the agents, and rests on SC2 answering a step when all its players have asked;
- `AtInv`, `RestInv`, `FreshInv`: where the threads can be in each phase, that nothing is
  left of a game when Update has returned false, and the state before the first game.

A lemma about an operation says that the client goes to a place as its part asks
(`Becomes`), was told what it had to be told (`Tells`), and neither enters a game nor
goes on in one (`Steady`); `Moves`, `OneMoves` and `NoneMoves` conclude that the
agents' part is kept. `EventsOnce`, `EndAnnounced` and `KeepInStep` follow from `IInv`.
`NextStarts` needs `StartInv` on top: while a game is created no error is on record and
the first agent's SC2 is free, or has said so. `EndAnnounced` assumes `UserStops`: the
user of a single agent that is stepped with the callbacks on the coordinator's thread does
not call Update again when it has returned false. For such a user OnGameEnd does come
again and again, since only PollLeaveGame, for multiplayer games, holds it back; the
settings of `agents` respect the same condition.

`UnitEventsProofs` proves the six invariants of `units` for any units, loops and
size of a page, from `UnitsAssumption` only. Convert is a fold over the units of an
observation, so its effect needs an induction. The library's induction theorems take an
operator and cannot be cited; `AllNaturals` and `AllFiniteSets` derive from the
well-foundedness of `<` what is needed of them, as statements about sets.
With them `FoldExists` and `ConvertFolds` show that the fold is a function of the subsets of the
observation that adds one unit at a time, `CreateUnitFacts` and `ConvertUnitFacts` are
about one unit, and `ConvertFacts` concludes what Convert makes of an observation
(`Converted`). `IInv` is

- `PoolInv`, `StoreInv`: every pointer is before the next free slot, which is
  why CreateUnit cannot give one out again, and a slot holds data of its own unit;
- `Current`: the units of the last observation are in the pool as it has them. The next
  conversion compares with what is in the slots and not with an observation, and this is what
  makes the two the same (`UpdateCompares`);
- `Collected`: until they are issued, the lists hold exactly the differences of the two
  observations for the units that both have (`Idles` for the idle ones), and only
  slots of units that are observed;
- `ControlInv`, `ObsInv`, the types, and `ChangesAreReported` itself, since events stay as they
  are until the next are issued.

It holds for any number of games, and `TypeCorrect`, `Stable` and `ChangesReported` with
it. `ChangesReported` is exact about damaged and idle units, whatever the memory of a page
was and whatever was commanded. The other three are about what was seen for the first time,
and hold for the first game only: `units_next_game` shows that they fail in the second,
since the pool survives. `CreatedOnce`, `EnteredOnce` and `Timely` therefore say
`games <= 1`, which is the bound of `units`. `CreatedOnce` is about own units and about
neutral units that are in sight when first observed; a neutral snapshot is announced
neither then nor later (see 6). Their invariant `GameInv` adds that the pool has what was
known and what is observed, that a unit that is not observed was last seen before the current loop
(`SeenInv`), and what is in the lists of new and entering units (`Sighted`).

With that every invariant that a passing run checks is a theorem. Only model-checked:
liveness (`CallReturns`, `OperationReturns`, `CallsReturn`, `UpdateLoopEnds`), for the prover
has neither fairness nor ENABLED.

## 6. Where the code differs from what is said of it

Five are shown by a run that ends in a counterexample.

- `protocol_crash`: WaitForResponse (`sc2_client.cc:1844`) reports a crash when the
  process is running; the test is inverted.
- `agents_end`: with several agents and without threads, OnGameEnd is not called and the
  game not left (`sc2_coordinator.cc:338`).
- `units_next_game`: the pool survives the game, and a tag that comes again is not
  announced (`sc2_client.cc:200`).
- `replays_skip`: one unanswered request for replay information throws the rest of
  the list away (`sc2_coordinator.cc:282`).
- `process_lock`: terminate() of a process that was started locks its mutex twice
  (`process_posix.cpp:144`); the destructor of the coordinator calls it
  (`sc2_coordinator.cc:214`).

The others are behaviours of the models that the properties of the passing runs
make room for; to see one, drop the condition that is named.

| Where | What the code does | Condition |
|---|---|---|
| `sc2_connection.cc:132` | After a failed Receive `has_response_` may stay true over an empty queue, although `sc2_connection.h:73` says "true if there is a response in the queue, false otherwise". | `floor = 0` in `PollExactUntilFailure`, a part of `PollAgrees` |
| `sc2_connection.cc:180` | Disconnect does not stop a worker that is between two attempts to reconnect; after Quit the callbacks live on. | `phase = "gone"` with `worker # "none"` is reachable in `Protocol` |
| `sc2_proto_interface.cc:111`, `:159` | PingGame ignores a pending request and takes the answer to it for its own, which it notices; the next ping gets the answer to the first, which it does not, although the comment at line 7 speaks of "a guarantee that each request is matched by the correct response". | `PingWhilePending` of `Protocol`: with TRUE, and 5 requests, `AnswerMatches` is violated |
| `sc2_client.cc:1844` | A process that hangs is diagnosed without a ping, and SC2ProtocolTimeout is not reported. | `Diagnoses` in `Protocol` |
| `sc2_client.cc:1967` | GetObservation uses the null response in the branch for a missing one. | `phase = "fault"` in `OperationReturns` |
| `sc2_client.cc:1753` | PollLeaveGame polls without a deadline; a hung SC2 keeps Update returning true. | `conn # "up"` in `UpdateLoopEnds` of the agents |
| `sc2_coordinator.cc:613` | A real time game that is over before StartGame returns is never left; the next StartGame exits. | `~bot[a].played` in `NextGameStarts` |
| `sc2_coordinator.cc:338` | Agents in turns never leave the game: a second StartGame exits. | `InTurns` in `NextGameStarts` |
| `sc2_client.cc:2144` with `sc2_proto_to_pods.cc:290` | An enemy first seen in the observation after one of loop 0 does not enter vision; nor does one that was a snapshot. | `prev # 0`, `DOMAIN before` in `EnteredWhenSighted` |
| `sc2_client.cc:2063` | A neutral unit that is a snapshot when first observed is passed over; it is in the pool then, and so not announced when it comes into sight either, unless SC2 gives it another tag. `sc2_client.h:64` promises OnNeutralUnitCreated for "mineral fields observed for the first time". | `display = "Visible"` in `CreatedWhenFirstSeen` |
| `sc2_unit.cc:35` | The members of a new Unit are not initialised and are compared with the first observation: a unit never seen before may be reported as damaged or complete. `sc2_client.h:88` compares with "the previous observation". | `DOMAIN before` in `ChangesAreReported` |
| `sc2_proto_to_pods.cc:191` | A building observed with progress 0.0 and then finished is not reported as complete; `sc2_client.h:83` says "a build progress less than 1.0". | `old.progress = 1` in `ChangesAreReported`, which asks nothing for `old.progress = 0` |
| `sc2_proto_to_pods.cc:213` | A unit that becomes a snapshot has no health and is reported as damaged. | health 0 of a snapshot, `DataOf` |
| `sc2_proto_to_pods.cc:193`, `sc2_client.cc:2083` | A building that was finished gets OnUnitIdle, also when it has orders already; so does a unit commanded in vain that was idle all along, although `sc2_client.h:72` says "not a second time". | the second and third disjunct of idle in `ChangesAreReported`, which says what the code does |
| `sc2_replay_observer.cc:225`, `sc2_agent.cc:399` | The first observation of a replay, and that of Restart, issues no events; its units are never announced. | `Issued` in `CreatedWhenFirstSeen` |
| `sc2_replay_observer.cc:227`, `sc2_coordinator.cc:473` | A real time replay that is over when WaitForReplay observes it gets OnGameStart and never OnGameEnd. | `cur = loop` in `Advances`: it ends after its first observation |
| `sc2_coordinator.cc:450` | Without threads every observer gets IssueEvents and SendActions in every Update, loading or not: OnStep comes again for its last observation, and for the first time after OnGameEnd. | `MultiThreaded` in `CallbacksInOrder` and `LoadingIsLeftAlone` |
| `sc2_coordinator.cc:125` | The first process gets the port before the one of SetPortStart, which `sc2_coordinator.h:66` calls "the first port number to use". | `PortOf(1)` |
| `sc2_coordinator.cc:103` | After a failed launch StartReplay starts the processes again and attaches its observers to the first ones, while they hold the later ones for their own. | `calls <= 1` in `EachItsProcess` |
| `sc2_coordinator.cc:744`, `:1033` | A second LaunchStarcraft launches nothing and counts the ports of the game from 1, or launches and leaves the old client ports in the list, where new ones can meet them. | `calls = 1` in `GamePortsFree` |
| `sc2_coordinator.cc:644`, `process_posix.cpp:141` | Relaunch calls terminate(), which locks its mutex twice. | `Stops` in `UpdateLoopEnds` of the replays |
| `sc2_proto_to_pods.cc:543` | player_info is never cleared: in the second game of a process it has the players of both. | `sc2.map = 1` in `DataIsCurrent` |
| `sc2_proto_to_pods.cc:539`, `sc2_client.cc:2173` | A GetGameInfo in OnGameFullStart, as in `tests/test_restart.cc:36`, leaves start_locations without the enemy's, because OnGameStart clears the list afterwards and the answer is cached. | `info.early` in `DataIsCurrent` |
| `sc2_client.cc:2165` | ControlImp::OnGameStart returns early for a player without a town hall; the locations of the last game then stay in the list. | `info.based` in `DataIsCurrent` |
| `sc2_replay_observer.cc:145` | LoadReplay does not clear the flags: an observer of a second replay reads the map and the data of the first. | `IsAgent` in `DataIsCurrent` |
| `sc2_agent.cc:65` | A bot that calls SendActions in OnStep loses the idle events of that step: the coordinator's call clears `commands_` before IssueEvents uses it. | `meddled` in `IdleIsReported` |
| `sc2_client.cc:2140`, `sc2_agent.cc:65` | In real time, two updates within one loop: IssueEvents is skipped, SendActions clears `commands_`. After Load the loop may be the same as before, likewise. | `mode.realtime`, `meddled` in `IdleIsReported` |
| `sc2_coordinator.cc:372`, `:474` | In real time the coordinator sends neither the batch of ActionFeatureLayer nor that of ObserverAction. | `Automatic` in `CommandsAreKept` |
| `sc2_agent.cc:67` | What is commanded in OnGameEnd stays in the batch and is executed in the next game. | `origin` is 0 outside OnStep |
| `sc2_client.cc:1321` | SendDebug clears its lists and waits even if the request was refused; with the request to leave pending it takes that answer. | `link.errors` in `CommandsAreKept` |
| `sc2_agent.cc:399` | Restart calls OnGameStart of the bot, not that of ControlImp, nor ClearFlags. | no effect on the properties: the map is the same |

## 7. What is not modelled

- The data race on `client_errors_` between the websocket thread and Update has no
  outcomes that could be listed; an error is appended in one step, at any moment.
- Builds with assertions, and a user who clears the client errors.
- In `Client`, the order of the callbacks of agents in turns (`AgentCoordinator` has it)
  and faults of two kinds at once. DebugTestApp, whose flag is never reset, so that
  every later SendDebug repeats it; it makes SC2 hang or crash on purpose.
- RemoteSaveMap, SaveReplay: a request and a wait each, as `Protocol` has them.
- The `Server`: its only caller, `examples/old/proxy.cc`, is not part of the
  build. What makes it hard is the list of clients, changed and read without a lock,
  which is a data race and has no outcomes to list; the two queues are a
  vector behind a mutex.
- Attaching to an SC2 that runs already (Coordinator::Connect, SetupPorts by
  the user), which skips `Launch`.
- process_windows.cpp, which has the same methods and the same locks; moving a
  `Process`.
- Upgrade and alert events, chat, effects, power sources, score: copied from the
  observation, or the difference of two lists.
- Settings and arguments are parsed once, sequentially; conversions copy fields;
  the renderer draws; the map functions are geometry in floating point.
- Most of the repository by lines: the tables of identifiers in
  `src/sc2api/typeids` and `include/sc2api/typeids` (some 46 000 of 62 000 lines) are
  generated, one pair of files per version of SC2, and hold constants and their names.
  There is nothing to model in them; the definitions here stand for lines of what is
  left.

## 8. Plan

What is left, in this order:

1. Attaching to a running SC2: Coordinator::Connect and SetupPorts by the user, as
   further actions of `Launch`.
2. `Server`, if its caller is built again: the proxy between a bot and SC2 as a
   composition with `Mailbox`.
