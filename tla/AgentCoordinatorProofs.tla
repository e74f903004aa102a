------------------------ MODULE AgentCoordinatorProofs ------------------------
(***************************************************************************)
(* The invariants of AgentCoordinator, for any settings, any number of     *)
(* agents, games and faults: every step of the coordinator, of its agents  *)
(* and of their SC2 processes keeps the invariant of AgentCoordinatorSteps.*)
(***************************************************************************)
EXTENDS AgentCoordinatorSteps

-----------------------------------------------------------------------------
(***************************************************************************)
(* Steps of one agent, and steps of all                                    *)
(***************************************************************************)
LEMMA SettingsKept ==
  ASSUME settings' = settings
  PROVE  /\ Agents' = Agents /\ (Once' <=> Once) /\ (SingleSerial' <=> SingleSerial)
         /\ (Serial' <=> Serial) /\ (Realtime' <=> Realtime)
         /\ (MultiThreaded' <=> MultiThreaded) /\ (Multiplayer' <=> Multiplayer)
         /\ (KeepsUpdating' <=> KeepsUpdating)
BY DEF Agents, NumAgents, Once, SingleSerial, Serial, MultiThreaded, Realtime,
       Multiplayer, KeepsUpdating

LEMMA PlaceFacts ==
  ASSUME NEW a
  PROVE  /\ phase = "stepping" =>
              Place(a) = IF Serial /\ at[a] = "done" THEN "stepped" ELSE at[a]
         /\ phase = "callbacks" => Place(a) = at[a]
         /\ phase = "creating" => Place(a) = IF a = First THEN "create" ELSE "out"
         /\ phase = "join" => Place(a) = IF a < turn THEN "join" ELSE "out"
         /\ phase = "joining" => Place(a) = IF a < turn THEN "joined" ELSE "join"
         /\ phase = "joined" => Place(a) = "joined"
         /\ phase = "observing" => Place(a) = IF a < turn THEN "observed" ELSE "joined"
         /\ phase = "observed" => Place(a) = IF a < turn THEN "observed"
                                             ELSE IF a = turn THEN "first" ELSE "joined"
         /\ phase = "starting" => Place(a) = "observed"
         /\ phase \in {"user", "checking", "draining"} =>
              Place(a) = IF games = 0 THEN "new" ELSE "done"
         /\ phase \in {"exit", "fault"} => Place(a) = "gone"
BY DEF Place

LEMMA PlaceFactsNext ==
  ASSUME NEW a, settings' = settings
  PROVE  /\ phase' = "stepping" =>
              Place(a)' = IF Serial /\ at'[a] = "done" THEN "stepped" ELSE at'[a]
         /\ phase' = "callbacks" => Place(a)' = at'[a]
         /\ phase' = "creating" => Place(a)' = IF a = First THEN "create" ELSE "out"
         /\ phase' = "join" => Place(a)' = IF a < turn' THEN "join" ELSE "out"
         /\ phase' = "joining" => Place(a)' = IF a < turn' THEN "joined" ELSE "join"
         /\ phase' = "joined" => Place(a)' = "joined"
         /\ phase' = "observing" => Place(a)' = IF a < turn' THEN "observed" ELSE "joined"
         /\ phase' = "observed" => Place(a)' = IF a < turn' THEN "observed"
                                               ELSE IF a = turn' THEN "first" ELSE "joined"
         /\ phase' = "starting" => Place(a)' = "observed"
         /\ phase' \in {"user", "checking", "draining"} =>
              Place(a)' = IF games' = 0 THEN "new" ELSE "done"
         /\ phase' \in {"exit", "fault"} => Place(a)' = "gone"
BY DEF Place, Serial, MultiThreaded, Realtime, First

LEMMA PlacesFacts ==
  ASSUME TypeOK, AtInv, NEW a \in Agents
  PROVE  Place(a) \in Places
<1>1. at[a] \in {"done", "start", "step", "observe", "callback", "act", "serial"}
  BY DEF TypeOK
<1>2. phase \in {"user", "creating", "join", "joining", "joined", "observing",
                 "observed", "starting", "stepping", "callbacks", "checking",
                 "draining", "exit", "fault"}
  BY DEF TypeOK
<1> QED BY <1>1, <1>2 DEF Place, Places, Asking, Resting

(* Nothing but where the agents are, and what is theirs.                   *)
LEMMA SamePlace ==
  ASSUME NEW a, settings' = settings, phase' = phase, turn' = turn, games' = games,
         at'[a] = at[a]
  PROVE  Place(a)' = Place(a)
BY DEF Place, Serial, MultiThreaded, Realtime, First

(* What holds of every agent by itself.                                    *)
LEMMA Become ==
  ASSUME TypeOK, settings' = settings,
         bot' \in [Agents -> Bots],
         \A a \in Agents : Becomes(bot[a], Place(a), bot'[a], Place(a)'),
         AgentsInv
  PROVE  /\ NoErrors' => NoErrors
         /\ (\A a \in Agents : /\ Agent(bot[a], Place(a))
                               /\ ~Realtime /\ NoErrors => Lock(bot[a], Place(a)))'
<1>1. Agents' = Agents
  BY DEF Agents, NumAgents
<1>2. NoErrors' => NoErrors
  <2>1. \A a \in Agents : bot[a].errs \subseteq bot'[a].errs
    BY DEF Becomes
  <2> QED BY <1>1, <2>1 DEF NoErrors
<1>3. ASSUME NEW a \in Agents
      PROVE  (/\ Agent(bot[a], Place(a))
              /\ ~Realtime /\ NoErrors => Lock(bot[a], Place(a)))'
  <2> DEFINE c == bot'[a]
             q == Place(a)'
  <2>1. Agent(c, q) /\ (~Realtime /\ NoErrors => Lock(c, q))
    BY DEF Becomes, AgentsInv, EachInv
  <2>2. (Realtime' <=> Realtime) /\ (Multiplayer' <=> Multiplayer)
    BY DEF Realtime, Multiplayer
  <2>3. (Once' <=> Once) /\ (SingleSerial' <=> SingleSerial)
    BY DEF Once, SingleSerial, Serial, MultiThreaded, Realtime, Multiplayer,
           KeepsUpdating
  <2>4. Link(bot[a])'
    BY <2>1 DEF Agent, Link, CanSend, Normal, NoReply
  <2>5. Knows(bot[a])'
    BY <2>1, <2>2 DEF Agent, Knows, Normal, NoReply
  <2>6. Waits(bot[a], Place(a))'
    BY <2>1, <2>2 DEF Agent, Waits, Awaited, Normal, Asking, Resting
  <2>7. Begun(bot[a], Place(a))'
    BY <2>1 DEF Agent, Begun, Playing, Resting, NoReply
  <2>8. Seen(bot[a], Place(a))'
    BY <2>1, <2>2 DEF Agent, Seen, InStep, IsInGame
  <2>9. (Once => Ends(bot[a], Place(a)))'
    BY <2>1, <2>3 DEF Agent, Ends, Over, Normal, Playing, Resting
  <2>10. (~Realtime /\ NoErrors => Lock(bot[a], Place(a)))'
    BY <1>2, <2>1, <2>2 DEF Lock, IsInGame, Resting
  <2> QED BY <2>4, <2>5, <2>6, <2>7, <2>8, <2>9, <2>10 DEF Agent
<1> QED BY <1>1, <1>2, <1>3

(* What an agent has been told, as nobody asks it to leave.                *)
LEMMA TellsEach ==
  ASSUME TypeOK, settings' = settings, left' = left,
         bot' \in [Agents -> Bots],
         \A a \in Agents : /\ Becomes(bot[a], Place(a), bot'[a], Place(a)')
                           /\ Tells(bot[a], Place(a), bot'[a], Place(a)'),
         AgentsInv
  PROVE  EachInv' /\ (NoErrors' => NoErrors)
<1>1. \A a \in Agents : Becomes(bot[a], Place(a), bot'[a], Place(a)')
  OBVIOUS
<1>2. /\ NoErrors' => NoErrors
      /\ (\A a \in Agents : /\ Agent(bot[a], Place(a))
                            /\ ~Realtime /\ NoErrors => Lock(bot[a], Place(a)))'
  BY <1>1, Become
<1>3. Agents' = Agents
  BY DEF Agents, NumAgents
<1>4. ASSUME NEW a \in Agents, NoErrors'
      PROVE  Told(bot[a], Place(a))'
  <2> DEFINE c == bot'[a]
             q == Place(a)'
  <2>1. NoErrors /\ c.errs = {}
    BY <1>2, <1>3, <1>4 DEF NoErrors
  <2>2. Told(bot[a], Place(a)) /\ (~Realtime => Lock(bot[a], Place(a)))
    BY <2>1 DEF AgentsInv, EachInv
  <2>3. Told(c, q)
    BY <2>1, <2>2 DEF Tells
  <2>4. (Multiplayer' <=> Multiplayer) /\ (InTurns' <=> InTurns)
    BY DEF InTurns, Multiplayer, MultiThreaded, Realtime
  <2> QED BY <2>3, <2>4 DEF Told, IsInGame, Playing, Resting
<1> QED BY <1>2, <1>3, <1>4 DEF EachInv

(* The game as a whole.                                                    *)
LEMMA LoopsKept ==
  ASSUME TypeOK, AgentsInv, settings' = settings, left' = left \/ left' = FALSE,
         NoErrors' => NoErrors,
         \A a \in Agents : Steady(bot[a], Place(a), bot'[a])
  PROVE  LoopsInv'
<1> SUFFICES ASSUME ~Realtime, Multiplayer, NoErrors'
             PROVE  /\ \A a, b \in Agents : (Plays(bot[a]) /\ Plays(bot[b]))'
                         => bot'[a].loop = bot'[b].loop
                    /\ left' => \A a \in Agents :
                         bot'[a].status = "inGame" => bot'[a].pending = "leave"
  BY SettingsKept DEF LoopsInv
<1>1. NoErrors /\ \A a \in Agents : bot'[a].errs = {}
  BY SettingsKept DEF NoErrors
<1>2. \A a \in Agents : Lock(bot[a], Place(a))
  BY <1>1 DEF AgentsInv, EachInv
<1>3. /\ \A a, b \in Agents :
           Plays(bot[a]) /\ Plays(bot[b]) => bot[a].loop = bot[b].loop
      /\ left => \A a \in Agents : bot[a].status = "inGame" => bot[a].pending = "leave"
  BY <1>1 DEF AgentsInv, LoopsInv
<1>4. ASSUME NEW a \in Agents
      PROVE  /\ Plays(bot[a])' => Plays(bot[a]) /\ bot'[a].loop = bot[a].loop
             /\ left => (bot'[a].status = "inGame" => bot'[a].pending = "leave")
  <2>1. Lock(bot[a], Place(a)) /\ bot'[a].errs = {}
    BY <1>1, <1>2
  <2> QED BY <1>3, <2>1 DEF Steady, Plays
<1> QED BY <1>3, <1>4

LEMMA Moves ==
  ASSUME TypeOK, settings' = settings, left' = left,
         bot' \in [Agents -> Bots],
         \A a \in Agents : To(bot[a], Place(a), bot'[a], Place(a)'),
         AgentsInv
  PROVE  AgentsInv' /\ (NoErrors' => NoErrors)
<1>1. \A a \in Agents : /\ Becomes(bot[a], Place(a), bot'[a], Place(a)')
                        /\ Tells(bot[a], Place(a), bot'[a], Place(a)')
                        /\ Steady(bot[a], Place(a), bot'[a])
  BY DEF To
<1>2. EachInv' /\ (NoErrors' => NoErrors)
  BY <1>1, TellsEach
<1> QED BY <1>1, <1>2, LoopsKept DEF AgentsInv

(* One agent goes from p to q, the others stay where they are.             *)
LEMMA OneMoves ==
  ASSUME TypeOK, AgentsInv, settings' = settings, left' = left,
         NEW r \in Agents, NEW c,
         bot' = [bot EXCEPT ![r] = c],
         To(bot[r], Place(r), c, Place(r)'),
         \A a \in Agents \ {r} : Place(a)' = Place(a)
  PROVE  AgentsInv' /\ (NoErrors' => NoErrors) /\ bot' \in [Agents -> Bots]
<1>1. c \in Bots
  BY DEF To, Becomes
<1>2. bot \in [Agents -> Bots]
  BY DEF TypeOK
<1>3. bot' \in [Agents -> Bots]
  BY <1>1, <1>2
<1>4. ASSUME NEW a \in Agents
      PROVE  To(bot[a], Place(a), bot'[a], Place(a)')
  <2>1. CASE a = r
    <3>1. bot'[r] = c
      BY <1>2
    <3> QED BY <2>1, <3>1
  <2>2. CASE a # r
    <3>1. bot'[a] = bot[a] /\ Place(a)' = Place(a)
      BY <1>2, <2>2
    <3>2. bot[a] \in Bots /\ Agent(bot[a], Place(a))
      BY <1>2 DEF AgentsInv, EachInv
    <3> QED BY <3>1, <3>2, StaysTo
  <2> QED BY <2>1, <2>2
<1> QED BY <1>3, <1>4, Moves

(* The coordinator goes on, and the agents with it.                        *)
LEMMA NoneMoves ==
  ASSUME TypeOK, AgentsInv, settings' = settings, left' = left, bot' = bot,
         \A a \in Agents : To(bot[a], Place(a), bot[a], Place(a)')
  PROVE  AgentsInv' /\ (NoErrors' => NoErrors)
<1>1. bot' \in [Agents -> Bots]
  BY DEF TypeOK
<1>2. \A a \in Agents : To(bot[a], Place(a), bot'[a], Place(a)')
  OBVIOUS
<1> QED BY <1>1, <1>2, Moves

(* SC2 acts, and the agents stay where they are.                           *)
LEMMA PlacesStay ==
  ASSUME settings' = settings, phase' = phase, turn' = turn, games' = games,
         at' = at
  PROVE  \A a \in Agents : Place(a)' = Place(a)
BY SamePlace
Phases == {"user", "creating", "join", "joining", "joined", "observing",
           "observed", "starting", "stepping", "callbacks", "checking",
           "draining", "exit", "fault"}
Ats == {"done", "start", "step", "observe", "callback", "act", "serial"}

LEMMA TypeFacts ==
  ASSUME TypeOK
  PROVE  /\ settings \in Settings /\ phase \in Phases /\ turn \in Agents
         /\ First \in Agents /\ Last \in Agents /\ Agents = 1..NumAgents
         /\ NumAgents \in Nat /\ turn \in Nat
         /\ at \in [Agents -> Ats] /\ bot \in [Agents -> Bots]
         /\ result \in BOOLEAN /\ left \in BOOLEAN
         /\ games \in 0..MaxGames /\ faults \in 0..MaxFaults
         /\ MaxGames \in Nat /\ MaxFaults \in Nat
<1>1. settings \in Settings
  BY DEF TypeOK
<1>2. NumAgents \in Nat /\ NumAgents >= 1
  BY <1>1, ConstantFacts
<1>3. turn \in Agents
  BY DEF TypeOK
<1>4. /\ First \in Agents /\ Last \in Agents /\ Agents = 1..NumAgents /\ turn \in Nat
  BY <1>2, <1>3 DEF Agents, First, Last
<1>5. result \in BOOLEAN /\ left \in BOOLEAN
  BY DEF TypeOK
<1>6. MaxGames \in Nat /\ MaxFaults \in Nat
  BY AgentsAssumption
<1> QED BY <1>1, <1>2, <1>3, <1>4, <1>5, <1>6 DEF TypeOK, Phases, Ats

LEMMA TypeKept ==
  ASSUME TypeOK, settings' = settings,
         phase' \in Phases, turn' \in Agents, at' \in [Agents -> Ats],
         bot' \in [Agents -> Bots], result' \in BOOLEAN, left' \in BOOLEAN,
         games' \in 0..MaxGames, faults' \in 0..MaxFaults
  PROVE  TypeOK'
<1>1. Agents' = Agents /\ Bots' = Bots
  BY DEF Agents, NumAgents, Bots, MaxLoops
<1>2. settings \in Settings
  BY DEF TypeOK
<1> QED BY <1>1, <1>2 DEF TypeOK, Phases, Ats

LEMMA FreshFacts ==
  ASSUME IInv
  PROVE  /\ phase # "user" \/ result => games # 0
         /\ games # 0 => games >= 1
<1>1. games \in 0..MaxGames /\ MaxGames \in Nat
  BY TypeFacts DEF IInv
<1> QED BY <1>1 DEF IInv, FreshInv

(* StartGame and the ends of Update touch nothing else.                    *)
LEMMA Through ==
  ASSUME TypeOK, settings' = settings, AgentsInv', bot' \in [Agents -> Bots],
         phase' \in Phases \ {"user", "stepping", "callbacks", "draining"},
         turn' \in Agents, phase' = "joined" => turn' = First,
         UNCHANGED <<at, result, faults>>, left' \in BOOLEAN,
         games' \in 1..MaxGames
  PROVE  IInv'
<1>1. TypeOK'
  <2>1. /\ at \in [Agents -> Ats] /\ result \in BOOLEAN /\ faults \in 0..MaxFaults
        /\ MaxGames \in Nat
    BY TypeFacts
  <2> QED BY <2>1, TypeKept
<1>2. AtInv'
  BY DEF AtInv, First
<1>3. RestInv'
  BY DEF RestInv
<1>4. FreshInv'
  <2>1. MaxGames \in Nat
    BY TypeFacts
  <2>2. games' # 0
    BY <2>1
  <2> QED BY <2>2 DEF FreshInv
<1> QED BY <1>1, <1>2, <1>3, <1>4 DEF IInv

LEMMA TurnFacts ==
  ASSUME TypeOK, NEW p, NextTurn(p)
  PROVE  /\ turn = Last => phase' = p /\ turn' = First
         /\ turn # Last => phase' = phase /\ turn' = turn + 1
         /\ turn' \in Agents
<1>1. /\ Agents = 1..NumAgents /\ NumAgents \in Nat /\ turn \in Agents
      /\ First \in Agents
  BY TypeFacts
<1>2. /\ turn = Last => phase' = p /\ turn' = First
      /\ turn # Last => phase' = phase /\ turn' = turn + 1
  BY DEF NextTurn, Leaves
<1> QED BY <1>1, <1>2 DEF Last

(* What the agent a of any step, and the others, satisfy.                  *)
LEMMA AgentFacts ==
  ASSUME IInv, NEW a \in Agents
  PROVE  /\ bot[a] \in Bots /\ Agent(bot[a], Place(a)) /\ Place(a) \in Places
         /\ To(bot[a], Place(a), bot[a], "gone")
         /\ To(bot[a], Place(a), bot[a], Place(a))
<1>1. bot[a] \in Bots
  BY TypeFacts DEF IInv
<1>2. Agent(bot[a], Place(a))
  BY DEF IInv, AgentsInv, EachInv
<1>3. Place(a) \in Places
  BY PlacesFacts DEF IInv
<1> QED BY <1>1, <1>2, <1>3, GoneTo, StaysTo

-----------------------------------------------------------------------------
(***************************************************************************)
(* StartGame                                                               *)
(***************************************************************************)
LEMMA CallStartGameKeeps ==
  ASSUME IInv, settings' = settings, CallStartGame
  PROVE  IInv'
<1>1. TypeOK /\ AgentsInv
  BY DEF IInv
<1>2. First \in Agents /\ games \in 0..MaxGames /\ MaxGames \in Nat /\ games < MaxGames
  BY <1>1, TypeFacts DEF CallStartGame
<1>3. phase = "user" /\ ~result /\ NoErrors
  BY DEF CallStartGame, NoErrors
<1>4. \A a \in Agents : bot[a].pending = "none" /\ bot[a].errs = {}
  BY <1>3 DEF IInv, RestInv, NoErrors
<1>5. ASSUME NEW a \in Agents
      PROVE  /\ CanSend(bot[a])
             /\ Becomes(bot[a], Place(a), Sent(bot[a], "create"), "create")
             /\ Sent(bot[a], "create").pending = "create"
             /\ Becomes(bot[a], Place(a), bot[a], "out")
             /\ Steady(bot[a], Place(a), Sent(bot[a], "create"))
             /\ Steady(bot[a], Place(a), bot[a])
  <2>1. Place(a) \in {"new", "done"}
    BY <1>3, PlaceFacts
  <2>2. bot[a] \in Bots /\ Agent(bot[a], Place(a))
    BY AgentFacts
  <2>3. Steady(bot[a], Place(a), bot[a])
    BY DEF Steady, Plays
  <2> QED BY <1>4, <2>1, <2>2, <2>3, CreatesTo
<1>6. phase' = "creating" /\ turn' = First
  BY <1>2, <1>5 DEF CallStartGame, Leaves
<1>7. bot' = [bot EXCEPT ![First] = Sent(bot[First], "create")]
  BY DEF CallStartGame
<1>8. bot \in [Agents -> Bots] /\ Sent(bot[First], "create") \in Bots
  BY <1>1, <1>2, <1>5, TypeFacts DEF Becomes
<1>9. bot' \in [Agents -> Bots]
  BY <1>7, <1>8
<1>10. ASSUME NEW a \in Agents
       PROVE  /\ Becomes(bot[a], Place(a), bot'[a], Place(a)')
              /\ Place(a)' \in {"create", "out"} /\ bot'[a].pending # "leave"
              /\ Steady(bot[a], Place(a), bot'[a])
  <2>1. Place(a)' = IF a = First THEN "create" ELSE "out"
    BY <1>6, PlaceFactsNext
  <2>2. bot'[a] = IF a = First THEN Sent(bot[a], "create") ELSE bot[a]
    BY <1>7, <1>8
  <2> QED BY <1>4, <1>5, <2>1, <2>2
<1>11. AgentsInv'
  <2>1. left' = FALSE
    BY DEF CallStartGame
  <2>2. \A a \in Agents : Told(bot[a], Place(a))'
    BY <1>10, <2>1 DEF Told, Playing, Resting
  <2>3. \A a \in Agents : Becomes(bot[a], Place(a), bot'[a], Place(a)')
    BY <1>10
  <2>4. /\ NoErrors' => NoErrors
        /\ (\A a \in Agents : /\ Agent(bot[a], Place(a))
                              /\ ~Realtime /\ NoErrors => Lock(bot[a], Place(a)))'
    BY <1>1, <1>9, <2>3, Become
  <2>5. EachInv'
    BY <2>2, <2>4, SettingsKept DEF EachInv
  <2>6. LoopsInv'
    BY <1>1, <1>10, <2>1, <2>4, LoopsKept
  <2> QED BY <2>5, <2>6 DEF AgentsInv
<1>12. UNCHANGED <<at, result, faults>> /\ games' = games + 1 /\ left' = FALSE
  BY DEF CallStartGame
<1>13. games' \in 1..MaxGames
  BY <1>2, <1>12
<1>14. phase' \in Phases \ {"user", "stepping", "callbacks", "draining"}
  BY <1>6 DEF Phases
<1> QED BY <1>1, <1>2, <1>6, <1>9, <1>11, <1>12, <1>13, <1>14, Through

(* The steps of StartGame that go on to another one or leave the program.  *)
LEMMA StartKeeps ==
  ASSUME IInv, settings' = settings, AgentsInv', bot' \in [Agents -> Bots],
         phase # "user", UNCHANGED <<at, result, left, games, faults>>,
         turn' \in Agents, phase' = "joined" => turn' = First,
         phase' \in {"join", "joining", "joined", "observing", "observed",
                     "starting", "exit", "fault"}
  PROVE  IInv'
<1>1. TypeOK
  BY DEF IInv
<1>2. games \in 0..MaxGames /\ MaxGames \in Nat /\ left \in BOOLEAN
  BY <1>1, TypeFacts
<1>3. games' \in 1..MaxGames
  BY <1>2, FreshFacts
<1>4. phase' \in Phases \ {"user", "stepping", "callbacks", "draining"}
  BY DEF Phases
<1> QED BY <1>1, <1>2, <1>3, <1>4, Through

LEMMA CreateReturnsKeeps ==
  ASSUME IInv, settings' = settings, CreateReturns
  PROVE  IInv'
<1> DEFINE c == Got(bot[First])
<1>1. TypeOK /\ AgentsInv
  BY DEF IInv
<1>2. First \in Agents /\ settings \in Settings
  BY <1>1, TypeFacts
<1>3. /\ phase = "creating" /\ bot[First].reply # NoReply
      /\ bot' = [bot EXCEPT ![First] = c] /\ turn' = First
      /\ phase' = "exit" \/ phase' = "join"
      /\ UNCHANGED <<at, result, left, games, faults>>
  BY DEF CreateReturns, Leaves
<1>4. bot[First] \in Bots /\ Agent(bot[First], "create")
  BY <1>2, <1>3, AgentFacts, PlaceFacts
<1>5. To(bot[First], "create", c, "out")
  BY <1>2, <1>3, <1>4, CreatedTo
<1>6. c \in Bots /\ To(bot[First], "create", c, "gone")
  <2>1. c \in Bots /\ Agent(c, "out")
    BY <1>5 DEF To, Becomes
  <2>2. To(c, "out", c, "gone")
    BY <2>1, GoneTo
  <2> DEFINE b == bot[First]
  <2> HIDE DEF c, b
  <2>3. Becomes(b, "create", c, "gone")
    BY <1>5, <2>1, <2>2 DEF To, Becomes, b
  <2>4. Tells(b, "create", c, "gone")
    <3>1. ASSUME NoErrors, c.errs = {}, ~Realtime => Lock(b, "create"), Told(b, "create")
          PROVE  Told(c, "gone")
      <4>1. (~Realtime => Lock(c, "out")) /\ Told(c, "out")
        BY <1>5, <3>1 DEF To, Becomes, Tells, b
      <4> QED BY <2>2, <3>1, <4>1 DEF To, Tells
    <3> QED BY <3>1 DEF Tells
  <2>5. Steady(b, "create", c)
    BY <1>5 DEF To, b
  <2> QED BY <2>1, <2>3, <2>4, <2>5 DEF To, b
<1>7. bot \in [Agents -> Bots]
  BY <1>1, TypeFacts
<1>8. bot' \in [Agents -> Bots]
  BY <1>3, <1>6, <1>7
<1>9. ASSUME NEW a \in Agents
      PROVE  To(bot[a], Place(a), bot'[a], Place(a)')
  <2>1. Place(a) = IF a = First THEN "create" ELSE "out"
    BY <1>3, PlaceFacts
  <2>2. Place(a)' = IF phase' = "exit" THEN "gone" ELSE "out"
    <3>1. ~(a < First)
      BY <1>1, TypeFacts DEF First
    <3> QED BY <1>3, <3>1, PlaceFactsNext
  <2>3. bot'[a] = IF a = First THEN c ELSE bot[a]
    BY <1>3, <1>7
  <2> HIDE DEF c
  <2>4. CASE a = First
    BY <1>5, <1>6, <2>1, <2>2, <2>3, <2>4
  <2>5. CASE a # First
    <3>1. To(bot[a], "out", bot[a], "gone") /\ To(bot[a], "out", bot[a], "out")
      BY <2>1, <2>5, AgentFacts
    <3> QED BY <2>1, <2>2, <2>3, <2>5, <3>1
  <2> QED BY <2>4, <2>5
<1>10. AgentsInv'
  BY <1>1, <1>3, <1>8, <1>9, Moves
<1> QED BY <1>2, <1>3, <1>8, <1>10, StartKeeps

LEMMA JoinRequestsKeeps ==
  ASSUME IInv, settings' = settings, JoinRequests
  PROVE  IInv'
<1> DEFINE b == bot[turn]
           c == Sent([b EXCEPT !.ends = 0, !.seen = 0, !.again = FALSE], "join")
<1>1. TypeOK /\ AgentsInv
  BY DEF IInv
<1>2. /\ turn \in Agents /\ settings \in Settings /\ First \in Agents
      /\ Agents = 1..NumAgents /\ NumAgents \in Nat
  BY <1>1, TypeFacts
<1>3. /\ phase = "join" /\ bot' = [bot EXCEPT ![turn] = c]
      /\ IF CanSend(b) THEN NextTurn("joining") ELSE phase' = "exit" /\ turn' = First
      /\ UNCHANGED <<at, result, left, games, faults>>
  BY DEF JoinRequests, Leaves
<1>4. /\ turn = Last /\ CanSend(b) => phase' = "joining" /\ turn' = First
      /\ turn # Last /\ CanSend(b) => phase' = "join" /\ turn' = turn + 1
      /\ ~CanSend(b) => phase' = "exit"
      /\ turn' \in Agents
  BY <1>1, <1>2, <1>3, TurnFacts
<1>5. Place(turn) = "out"
  BY <1>2, <1>3, PlaceFacts
<1>6. b \in Bots /\ Agent(b, "out")
  BY <1>2, <1>5, AgentFacts
<1>7. IF CanSend(b) THEN To(b, "out", c, "join") ELSE To(b, "out", c, "gone")
  BY <1>2, <1>6, JoinsTo
<1> HIDE DEF c
<1>8. c \in Bots
  BY <1>7 DEF To, Becomes
<1>9. bot \in [Agents -> Bots]
  BY <1>1, TypeFacts
<1>10. bot' \in [Agents -> Bots]
  BY <1>3, <1>8, <1>9
<1>11. ASSUME NEW a \in Agents
       PROVE  To(bot[a], Place(a), bot'[a], Place(a)')
  <2>1. Place(a) = IF a < turn THEN "join" ELSE "out"
    BY <1>3, PlaceFacts
  <2>2. Place(a)' = IF ~CanSend(b) THEN "gone"
                    ELSE IF a = turn THEN "join" ELSE Place(a)
    <3>1. CASE ~CanSend(b)
      BY <1>4, <3>1, PlaceFactsNext
    <3>2. CASE CanSend(b) /\ turn = Last
      <4>1. a <= turn /\ ~(a < First)
        BY <1>2, <3>2 DEF Last, First
      <4> QED BY <1>2, <1>4, <2>1, <3>2, <4>1, PlaceFactsNext
    <3>3. CASE CanSend(b) /\ turn # Last
      <4>1. a < turn + 1 <=> a < turn \/ a = turn
        BY <1>2
      <4> QED BY <1>4, <2>1, <3>3, <4>1, PlaceFactsNext
    <3> QED BY <3>1, <3>2, <3>3
  <2>3. bot'[a] = IF a = turn THEN c ELSE bot[a]
    BY <1>3, <1>9
  <2>4. CASE a = turn
    BY <1>5, <1>7, <2>2, <2>3, <2>4
  <2>5. CASE a # turn
    <3>1. To(bot[a], Place(a), bot[a], "gone") /\ To(bot[a], Place(a), bot[a], Place(a))
      BY AgentFacts
    <3> QED BY <2>2, <2>3, <2>5, <3>1
  <2> QED BY <2>4, <2>5
<1>12. AgentsInv'
  BY <1>1, <1>3, <1>10, <1>11, Moves
<1> HIDE DEF b
<1> QED BY <1>3, <1>4, <1>10, <1>12, StartKeeps
LEMMA JoinReturnsKeeps ==
  ASSUME IInv, settings' = settings, NEW c,
         phase = "joining", bot' = [bot EXCEPT ![turn] = c],
         To(bot[turn], "join", c, "joined"), NextTurn("joined"),
         UNCHANGED <<at, result, left, games, faults>>
  PROVE  IInv'
<1>1. TypeOK /\ AgentsInv
  BY DEF IInv
<1>2. /\ turn \in Agents /\ First \in Agents
      /\ Agents = 1..NumAgents /\ NumAgents \in Nat
  BY <1>1, TypeFacts
<1> PICK r \in Agents : r = turn
  BY <1>2
<1>3. /\ turn = Last => phase' = "joined" /\ turn' = First
      /\ turn # Last => phase' = "joining" /\ turn' = turn + 1
      /\ turn' \in Agents
  BY <1>1, <1>2, TurnFacts
<1>4. Place(turn) = "join" /\ Place(r)' = "joined"
  <2>1. Place(turn) = "join"
    BY <1>2, PlaceFacts
  <2>2. turn < turn + 1
    BY <1>2
  <2> QED BY <1>3, <2>1, <2>2, PlaceFactsNext
<1>5. ASSUME NEW a \in Agents \ {turn}
      PROVE  Place(a)' = Place(a)
  <2>1. CASE turn = Last
    <3>1. a < turn
      BY <1>2, <2>1 DEF Last
    <3> QED BY <1>3, <2>1, <3>1, PlaceFacts, PlaceFactsNext
  <2>2. CASE turn # Last
    <3>1. a < turn + 1 <=> a < turn
      BY <1>2
    <3> QED BY <1>3, <2>2, <3>1, PlaceFacts, PlaceFactsNext
  <2> QED BY <2>1, <2>2
<1>6. AgentsInv' /\ bot' \in [Agents -> Bots]
  BY <1>1, <1>2, <1>4, <1>5, OneMoves
<1> QED BY <1>2, <1>3, <1>6, StartKeeps

LEMMA JoinChecksKeeps ==
  ASSUME IInv, settings' = settings, JoinChecks
  PROVE  IInv'
<1>1. TypeOK /\ AgentsInv
  BY DEF IInv
<1>2. /\ phase = "joined" /\ bot' = bot /\ turn' = turn
      /\ UNCHANGED <<at, left, games, faults>>
      /\ IF ~NoErrors THEN phase' = "user" /\ result' = FALSE
         ELSE phase' = "observing" /\ result' = result
  BY DEF JoinChecks, NoErrors
<1>3. turn = First /\ turn \in Agents /\ games # 0 /\ Agents = 1..NumAgents
  BY <1>1, <1>2, FreshFacts, TypeFacts DEF IInv, AtInv
<1>4. ASSUME NEW a \in Agents
      PROVE  To(bot[a], Place(a), bot[a], Place(a)')
  <2>1. Place(a) = "joined" /\ bot[a] \in Bots /\ Agent(bot[a], "joined")
    BY <1>2, PlaceFacts, AgentFacts
  <2>2. CASE ~NoErrors
    <3>1. Place(a)' = "done"
      BY <1>2, <1>3, <2>2, PlaceFactsNext
    <3> QED BY <2>1, <2>2, <3>1, StartEndsTo
  <2>3. CASE NoErrors
    <3>1. ~(a < turn)
      BY <1>3 DEF First
    <3>2. Place(a)' = "joined"
      BY <1>2, <2>3, <3>1, PlaceFactsNext
    <3> QED BY <2>1, <3>2, StartEndsTo
  <2> QED BY <2>2, <2>3
<1>5. AgentsInv' /\ (NoErrors' => NoErrors)
  BY <1>1, <1>2, <1>4, NoneMoves
<1>6. bot \in [Agents -> Bots] /\ at \in [Agents -> Ats]
  BY <1>1, TypeFacts
<1>7. CASE NoErrors
  <2>1. phase' = "observing" /\ result' = result
    BY <1>2, <1>7
  <2> QED BY <1>2, <1>3, <1>5, <1>6, <2>1, StartKeeps
<1>8. CASE ~NoErrors
  <2>1. phase' = "user" /\ result' = FALSE /\ ~NoErrors'
    BY <1>2, <1>5, <1>8
  <2>2. TypeOK'
    BY <1>1, <1>2, <1>3, <1>6, <2>1, TypeFacts, TypeKept DEF Phases
  <2>3. AtInv' /\ RestInv' /\ FreshInv'
    BY <1>2, <1>3, <2>1 DEF AtInv, RestInv, FreshInv
  <2> QED BY <1>5, <2>2, <2>3 DEF IInv
<1> QED BY <1>7, <1>8

LEMMA FirstObservationKeeps ==
  ASSUME IInv, settings' = settings, FirstObservation
  PROVE  IInv'
<1> DEFINE b == bot[turn]
           c == IF b.app = "normal" THEN Sent(b, "observation") ELSE b
           asks == b.app = "normal" /\ CanSend(b)
<1>1. TypeOK /\ AgentsInv
  BY DEF IInv
<1>2. /\ turn \in Agents /\ settings \in Settings /\ First \in Agents
      /\ Agents = 1..NumAgents /\ NumAgents \in Nat
  BY <1>1, TypeFacts
<1> PICK r \in Agents : r = turn
  BY <1>2
<1>3. /\ phase = "observing" /\ bot' = [bot EXCEPT ![turn] = c]
      /\ IF asks THEN phase' = "observed" /\ turn' = turn ELSE NextTurn("starting")
      /\ UNCHANGED <<at, result, left, games, faults>>
  BY DEF FirstObservation
<1>4. Place(turn) = "joined"
  BY <1>2, <1>3, PlaceFacts
<1>5. b \in Bots /\ Agent(b, "joined")
  BY <1>2, <1>4, AgentFacts
<1>6. IF asks THEN To(b, "joined", c, "first") ELSE To(b, "joined", c, "observed")
  BY <1>5, ObservesFirstTo
<1> HIDE DEF c, asks
<1>7. /\ turn = Last /\ ~asks => phase' = "starting" /\ turn' = First
      /\ turn # Last /\ ~asks => phase' = "observing" /\ turn' = turn + 1
      /\ asks => phase' = "observed" /\ turn' = turn
      /\ turn' \in Agents
  BY <1>1, <1>2, <1>3, TurnFacts
<1>8. Place(r)' = IF asks THEN "first" ELSE "observed"
  <2>1. turn < turn + 1 /\ ~(turn < turn)
    BY <1>2
  <2> QED BY <1>7, <2>1, PlaceFactsNext
<1>9. ASSUME NEW a \in Agents \ {turn}
      PROVE  Place(a)' = Place(a)
  <2>1. CASE asks
    BY <1>3, <1>7, <2>1, PlaceFacts, PlaceFactsNext
  <2>2. CASE ~asks /\ turn = Last
    <3>1. a < turn
      BY <1>2, <2>2 DEF Last
    <3> QED BY <1>3, <1>7, <2>2, <3>1, PlaceFacts, PlaceFactsNext
  <2>3. CASE ~asks /\ turn # Last
    <3>1. a < turn + 1 <=> a < turn
      BY <1>2
    <3> QED BY <1>3, <1>7, <2>3, <3>1, PlaceFacts, PlaceFactsNext
  <2> QED BY <2>1, <2>2, <2>3
<1>10. To(bot[turn], Place(turn), c, Place(r)')
  BY <1>4, <1>6, <1>8
<1>11. AgentsInv' /\ bot' \in [Agents -> Bots]
  BY <1>1, <1>2, <1>3, <1>9, <1>10, OneMoves
<1>12. phase' \in {"starting", "observing", "observed"}
  BY <1>7
<1> QED BY <1>3, <1>7, <1>11, <1>12, StartKeeps

LEMMA FirstObservationReturnsKeeps ==
  ASSUME IInv, settings' = settings, FirstObservationReturns
  PROVE  IInv'
<1> DEFINE b == bot[turn]
           c == Observed(b)
<1>1. TypeOK /\ AgentsInv
  BY DEF IInv
<1>2. /\ turn \in Agents /\ settings \in Settings /\ First \in Agents
      /\ Agents = 1..NumAgents /\ NumAgents \in Nat
  BY <1>1, TypeFacts
<1> PICK r \in Agents : r = turn
  BY <1>2
<1>3. /\ phase = "observed" /\ bot' = [bot EXCEPT ![turn] = c] /\ b.reply # NoReply
      /\ turn = Last => phase' = "starting" /\ turn' = First
      /\ turn # Last => phase' = "observing" /\ turn' = turn + 1
      /\ UNCHANGED <<at, result, left, games, faults>>
  BY DEF FirstObservationReturns, Leaves
<1>4. Place(turn) = "first" /\ turn' \in Agents
  <2>1. ~(turn < turn) /\ (turn # Last => turn + 1 \in Agents)
    BY <1>2 DEF Last
  <2> QED BY <1>2, <1>3, <2>1, PlaceFacts
<1>5. b \in Bots /\ Agent(b, "first")
  BY <1>2, <1>4, AgentFacts
<1>6. To(b, "first", c, "observed")
  BY <1>2, <1>3, <1>5, ObservedFirstTo
<1> HIDE DEF c
<1>7. Place(r)' = "observed"
  <2>1. turn < turn + 1
    BY <1>2
  <2> QED BY <1>3, <2>1, PlaceFactsNext
<1>8. ASSUME NEW a \in Agents \ {turn}
      PROVE  Place(a)' = Place(a)
  <2>1. CASE turn = Last
    <3>1. a < turn
      BY <1>2, <2>1 DEF Last
    <3> QED BY <1>3, <2>1, <3>1, PlaceFacts, PlaceFactsNext
  <2>2. CASE turn # Last
    <3>1. a < turn + 1 <=> a < turn
      BY <1>2
    <3> QED BY <1>3, <2>2, <3>1, PlaceFacts, PlaceFactsNext
  <2> QED BY <2>1, <2>2
<1>9. To(bot[turn], Place(turn), c, Place(r)')
  BY <1>4, <1>6, <1>7
<1>10. AgentsInv' /\ bot' \in [Agents -> Bots]
  BY <1>1, <1>2, <1>3, <1>8, <1>9, OneMoves
<1>11. phase' \in {"starting", "observing"}
  BY <1>3
<1> QED BY <1>3, <1>4, <1>10, <1>11, StartKeeps

(* StartGame returns: the agents are in the game, and none has had its end.*)
LEMMA StartsGameKeeps ==
  ASSUME IInv, settings' = settings, StartsGame
  PROVE  IInv'
<1> DEFINE c(b) == [Issued(b) EXCEPT !.played = IsInGame(b)]
<1>1. TypeOK /\ AgentsInv
  BY DEF IInv
<1>2. /\ phase = "starting" /\ bot' = [a \in Agents |-> c(bot[a])]
      /\ phase' = "user" /\ result' = TRUE
      /\ UNCHANGED <<turn, at, left, games, faults>>
  BY DEF StartsGame
<1>3. games # 0
  BY <1>2, FreshFacts
<1>4. ASSUME NEW a \in Agents
      PROVE  /\ To(bot[a], "observed", c(bot[a]), "done")
             /\ c(bot[a]) \in Bots
             /\ Place(a) = "observed" /\ Place(a)' = "done"
             /\ Once => bot[a].ends = 0
             /\ c(bot[a]).ends = bot[a].ends
  <2>1. Place(a) = "observed" /\ Place(a)' = "done"
    BY <1>2, <1>3, PlaceFacts, PlaceFactsNext
  <2>2. bot[a] \in Bots /\ Agent(bot[a], "observed")
    BY <2>1, AgentFacts
  <2>3. To(bot[a], "observed", c(bot[a]), "done")
    BY <2>2, StartsTo
  <2>4. Once => bot[a].ends = 0
    BY <2>2 DEF Agent, Ends
  <2>5. Issued(bot[a]) \in Bots /\ Issued(bot[a]).ends = bot[a].ends
    BY <2>2, IssuedFacts
  <2>6. c(bot[a]).ends = Issued(bot[a]).ends
    BY <2>5 DEF Bots
  <2> QED BY <2>1, <2>3, <2>4, <2>5, <2>6 DEF To, Becomes
<1> HIDE DEF c
<1>5. bot' \in [Agents -> Bots]
  BY <1>2, <1>4
<1>6. ASSUME NEW a \in Agents
      PROVE  To(bot[a], Place(a), bot'[a], Place(a)')
  <2>1. bot'[a] = c(bot[a])
    BY <1>2
  <2> QED BY <1>4, <2>1
<1>7. AgentsInv'
  BY <1>1, <1>2, <1>5, <1>6, Moves
<1>8. TypeOK'
  BY <1>1, <1>2, <1>5, TypeFacts, TypeKept DEF Phases
<1>9. AtInv' /\ FreshInv'
  BY <1>2, <1>3 DEF AtInv, FreshInv
<1>10. RestInv'
  <2>1. Agents' = Agents /\ (Once' <=> Once)
    BY DEF Agents, NumAgents, Once, SingleSerial, Serial, MultiThreaded, Realtime,
           Multiplayer, KeepsUpdating
  <2>2. Once => \A a \in Agents : bot'[a].ends = 0
    BY <1>2, <1>4
  <2> QED BY <1>2, <2>1, <2>2 DEF RestInv
<1> QED BY <1>7, <1>8, <1>9, <1>10 DEF IInv
-----------------------------------------------------------------------------
(***************************************************************************)
(* Update                                                                  *)
(***************************************************************************)
LEMMA CallUpdateKeeps ==
  ASSUME IInv, settings' = settings, CallUpdate
  PROVE  IInv'
<1>1. TypeOK /\ AgentsInv
  BY DEF IInv
<1>2. /\ First \in Agents /\ games \in 0..MaxGames /\ MaxGames \in Nat
      /\ bot \in [Agents -> Bots]
  BY <1>1, TypeFacts
<1>3. /\ phase = "user" /\ games # 0 /\ (result \/ KeepsUpdating)
      /\ phase' = "stepping" /\ turn' = First /\ at' = [a \in Agents |-> "start"]
      /\ bot' = bot /\ UNCHANGED <<result, left, games, faults>>
  BY <1>2 DEF CallUpdate
<1>4. at' \in [Agents -> Ats]
  BY <1>3 DEF Ats
<1>5. ASSUME NEW a \in Agents
      PROVE  To(bot[a], Place(a), bot[a], Place(a)')
  <2>1. Place(a) = "done"
    BY <1>3, PlaceFacts
  <2>2. Place(a)' = "start"
    BY <1>3, PlaceFactsNext
  <2>3. bot[a] \in Bots /\ Agent(bot[a], "done")
    BY <2>1, AgentFacts
  <2>4. SingleSerial /\ Once => bot[a].ends = 0
    BY <1>3 DEF Once, IInv, RestInv
  <2> QED BY <2>1, <2>2, <2>3, <2>4, UpdatesTo
<1>6. AgentsInv'
  BY <1>1, <1>3, <1>5, NoneMoves
<1>7. TypeOK'
  BY <1>1, <1>2, <1>3, <1>4, TypeFacts, TypeKept DEF Phases
<1>8. AtInv'
  <2>1. \A a \in Agents : at'[a] = "start" /\ ~(a < turn')
    BY <1>1, <1>3, TypeFacts DEF First
  <2> QED BY <1>3, <2>1, SettingsKept DEF AtInv
<1>9. RestInv' /\ FreshInv'
  BY <1>3 DEF RestInv, FreshInv
<1> QED BY <1>6, <1>7, <1>8, <1>9 DEF IInv

(* An agent goes on to p.                                                  *)
PlaceAt(p) == IF phase = "stepping" /\ Serial /\ p = "done" THEN "stepped" ELSE p

LEMMA RunsFacts ==
  ASSUME IInv, NEW a \in Agents, Runs(a)
  PROVE  /\ phase \in {"stepping", "callbacks"}
         /\ phase = "callbacks" => Serial /\ turn = a
         /\ phase = "stepping" /\ Realtime /\ ~MultiThreaded => turn = a
         /\ games # 0
         /\ phase = "stepping" =>
              at[a] \in {"start", "step", "observe", "done"}
                          \cup (IF Serial THEN {} ELSE {"callback", "act"})
         /\ phase = "callbacks" => at[a] \in {"serial", "callback", "act", "done"}
         /\ at[a] # "done" => Place(a) = at[a]
<1>1. phase \in {"stepping", "callbacks"}
  BY DEF Runs
<1>2. games # 0
  BY <1>1, FreshFacts
<1>3. at[a] # "done" => Place(a) = at[a]
  BY <1>1, PlaceFacts
<1> QED BY <1>1, <1>2, <1>3 DEF Runs, IInv, AtInv

LEMMA Going ==
  ASSUME IInv, settings' = settings, NEW a \in Agents, NEW c, NEW p,
         Runs(a), Goes(a, c, p),
         To(bot[a], Place(a), c, PlaceAt(p)),
         p \in {"step", "observe", "done", "callback", "act"},
         phase = "stepping" /\ p \in {"callback", "act"} => ~Serial,
         phase = "callbacks" => p \notin {"step", "observe"}
  PROVE  IInv'
<1>1. TypeOK /\ AgentsInv
  BY DEF IInv
<1>2. /\ at \in [Agents -> Ats] /\ turn \in Agents /\ Agents = 1..NumAgents
      /\ NumAgents \in Nat
  BY <1>1, TypeFacts
<1>3. /\ bot' = [bot EXCEPT ![a] = c] /\ at' = [at EXCEPT ![a] = p]
      /\ phase' = phase /\ turn' = turn /\ games' = games
      /\ UNCHANGED <<result, left, faults>>
  BY DEF Goes
<1>4. /\ phase \in {"stepping", "callbacks"} /\ games # 0
      /\ phase = "callbacks" => Serial /\ turn = a
      /\ phase = "stepping" /\ Realtime /\ ~MultiThreaded => turn = a
  BY RunsFacts
<1>5. at' \in [Agents -> Ats] /\ at'[a] = p
  BY <1>2, <1>3 DEF Ats
<1>6. Place(a)' = PlaceAt(p)
  BY <1>3, <1>4, <1>5, PlaceFactsNext DEF PlaceAt
<1>7. ASSUME NEW x \in Agents \ {a}
      PROVE  at'[x] = at[x] /\ Place(x)' = Place(x)
  <2>1. at'[x] = at[x]
    BY <1>2, <1>3
  <2> QED BY <1>3, <2>1, SamePlace
<1>8. AgentsInv' /\ bot' \in [Agents -> Bots]
  BY <1>1, <1>3, <1>6, <1>7, OneMoves
<1>9. TypeOK'
  BY <1>1, <1>3, <1>5, <1>8, TypeFacts, TypeKept
<1>10. AtInv'
  <2>1. ~(a < a)
    BY <1>2
  <2>2. CASE phase = "stepping"
    <3>1. \A x \in Agents :
            /\ at'[x] \in {"start", "step", "observe", "done"}
                            \cup (IF Serial THEN {} ELSE {"callback", "act"})
            /\ Realtime /\ ~MultiThreaded /\ x < turn => at'[x] = "done"
      BY <1>4, <1>5, <1>7, <2>1, <2>2 DEF IInv, AtInv
    <3>2. phase' = "stepping" /\ turn' = turn
      BY <1>3, <2>2
    <3> QED BY <3>1, <3>2, SettingsKept DEF AtInv
  <2>3. CASE phase = "callbacks"
    <3>1. \A x \in Agents :
            /\ at'[x] \in {"serial", "callback", "act", "done"}
            /\ x < turn => at'[x] = "done"
      BY <1>4, <1>5, <1>7, <2>1, <2>3 DEF IInv, AtInv
    <3>2. phase' = "callbacks" /\ turn' = turn
      BY <1>3, <2>3
    <3> QED BY <1>4, <2>3, <3>1, <3>2, SettingsKept DEF AtInv
  <2> QED BY <1>4, <2>2, <2>3
<1>11. RestInv' /\ FreshInv'
  BY <1>3, <1>4 DEF RestInv, FreshInv
<1> QED BY <1>8, <1>9, <1>10, <1>11 DEF IInv

LEMMA IdleTo ==
  ASSUME NEW b \in Bots, Agent(b, "start"), b.app # "normal"
  PROVE  To(b, "start", b, "stepped") /\ To(b, "start", b, "done")
BY DEF Agent, Link, Knows, Waits, Awaited, Begun, Seen, InStep, Ends, Over,
       Lock, Becomes, Tells, Steady, Plays, To, Told, Normal, IsInGame, Asking, Resting, Playing

LEMMA StepAgentKeeps ==
  ASSUME IInv, settings' = settings, NEW a \in Agents, StepAgent(a)
  PROVE  IInv'
<1> DEFINE b == bot[a]
<1>1. Runs(a) /\ at[a] = "start" /\ settings \in Settings
  BY TypeFacts DEF StepAgent, IInv
<1>2. phase = "stepping" /\ Place(a) = "start"
  BY <1>1, RunsFacts
<1>3. b \in Bots /\ Agent(b, "start")
  BY <1>2, AgentFacts
<1>4. CASE b.app # "normal"
  <2>1. Goes(a, b, "done")
    BY <1>1, <1>4 DEF StepAgent
  <2>2. To(b, "start", b, PlaceAt("done"))
    BY <1>2, <1>3, <1>4, IdleTo DEF PlaceAt
  <2> HIDE DEF b
  <2> QED BY <1>1, <1>2, <2>1, <2>2, Going DEF b
<1>5. CASE b.app = "normal" /\ HasNoGame(b)
  <2>1. Goes(a, Polled(b), "done")
    BY <1>1, <1>5 DEF StepAgent
  <2>2. To(b, "start", Polled(b), "stepped") /\ To(b, "start", Polled(b), "done")
    BY <1>1, <1>3, <1>5, PollsTo
  <2>3. To(b, "start", Polled(b), PlaceAt("done"))
    BY <1>2, <2>2 DEF PlaceAt
  <2> HIDE DEF b
  <2> QED BY <1>1, <1>2, <2>1, <2>3, Going DEF b
<1>6. CASE b.app = "normal" /\ ~HasNoGame(b) /\ Realtime
  <2> DEFINE c == Sent(b, "observation")
             p == IF CanSend(b) THEN "observe" ELSE "callback"
  <2>1. Polled(b) = b
    BY <1>1, <1>3, <1>6, PlayingFacts
  <2>2. Goes(a, c, p)
    BY <1>1, <1>6, <2>1 DEF StepAgent, Observes, Callbacks
  <2>3. To(b, "start", c, p)
    BY <1>1, <1>3, <1>6, ObservesTo
  <2>4. p \in {"observe", "callback"} /\ ~Serial
    BY <1>6 DEF Serial
  <2> HIDE DEF b, c, p
  <2>5. To(b, "start", c, PlaceAt(p))
    BY <2>3, <2>4 DEF PlaceAt
  <2> QED BY <1>1, <1>2, <2>2, <2>4, <2>5, Going DEF b
<1>7. CASE b.app = "normal" /\ ~HasNoGame(b) /\ ~Realtime
  <2> DEFINE c == Sent(b, "step")
  <2>1. Polled(b) = b
    BY <1>1, <1>3, <1>7, PlayingFacts
  <2>2. Goes(a, c, "step")
    BY <1>1, <1>7, <2>1 DEF StepAgent
  <2>3. To(b, "start", c, "step")
    BY <1>1, <1>3, <1>7, StepsTo
  <2> HIDE DEF b, c
  <2>4. To(b, "start", c, PlaceAt("step"))
    BY <2>3 DEF PlaceAt
  <2> QED BY <1>1, <1>2, <2>2, <2>4, Going DEF b
<1> QED BY <1>4, <1>5, <1>6, <1>7

(* The callbacks of a step that has failed, or been observed.              *)
LEMMA CallbacksPlace ==
  ASSUME phase = "stepping"
  PROVE  /\ PlaceAt(Callbacks) = AfterStep /\ Callbacks \in {"callback", "done"}
         /\ Callbacks = "callback" => ~Serial
BY DEF PlaceAt, Callbacks, AfterStep, Serial

LEMMA StepReturnsKeeps ==
  ASSUME IInv, settings' = settings, NEW a \in Agents, StepReturns(a)
  PROVE  IInv'
<1> DEFINE b == bot[a]
<1>1. /\ Runs(a) /\ at[a] = "step" /\ settings \in Settings /\ b.reply # NoReply
  BY TypeFacts DEF StepReturns, IInv
<1>2. phase = "stepping" /\ Place(a) = "step"
  BY <1>1, RunsFacts
<1>3. b \in Bots /\ Agent(b, "step")
  BY <1>2, AgentFacts
<1>4. /\ PlaceAt(Callbacks) = AfterStep /\ Callbacks \in {"callback", "done"}
      /\ Callbacks = "callback" => ~Serial
  BY <1>2, CallbacksPlace
<1>5. CASE b.reply.bad
  <2>1. Goes(a, Got(b), Callbacks)
    BY <1>5 DEF StepReturns
  <2>2. To(b, "step", Got(b), PlaceAt(Callbacks))
    BY <1>1, <1>3, <1>4, <1>5, SteppedTo
  <2> HIDE DEF b
  <2> QED BY <1>1, <1>2, <1>4, <2>1, <2>2, Going DEF b
<1>6. CASE ~b.reply.bad
  <2> DEFINE c == Sent(Got(b), "observation")
  <2>1. CanSend(Got(b)) /\ To(b, "step", c, "observe")
    BY <1>1, <1>3, <1>6, SteppedTo
  <2>2. Goes(a, c, "observe")
    BY <1>6, <2>1 DEF StepReturns, Observes
  <2> HIDE DEF b, c
  <2>3. To(b, "step", c, PlaceAt("observe"))
    BY <2>1 DEF PlaceAt
  <2> QED BY <1>1, <1>2, <2>2, <2>3, Going DEF b
<1> QED BY <1>5, <1>6

LEMMA ObservationReturnsKeeps ==
  ASSUME IInv, settings' = settings, NEW a \in Agents, ObservationReturns(a)
  PROVE  IInv'
<1> DEFINE b == bot[a]
<1>1. /\ Runs(a) /\ at[a] = "observe" /\ settings \in Settings /\ b.reply # NoReply
      /\ Goes(a, Observed(b), Callbacks)
  BY TypeFacts DEF ObservationReturns, IInv
<1>2. phase = "stepping" /\ Place(a) = "observe"
  BY <1>1, RunsFacts
<1>3. b \in Bots /\ Agent(b, "observe")
  BY <1>2, AgentFacts
<1>4. /\ PlaceAt(Callbacks) = AfterStep /\ Callbacks \in {"callback", "done"}
      /\ Callbacks = "callback" => ~Serial
  BY <1>2, CallbacksPlace
<1>5. To(b, "observe", Observed(b), PlaceAt(Callbacks))
  BY <1>1, <1>3, <1>4, ObservedTo
<1> HIDE DEF b
<1> QED BY <1>1, <1>2, <1>4, <1>5, Going DEF b

LEMMA CallOnStepKeeps ==
  ASSUME IInv, settings' = settings, NEW a \in Agents, NEW acts \in BOOLEAN,
         CallOnStep(a, acts)
  PROVE  IInv'
<1> DEFINE b == bot[a]
           i == Issued(b)
           s == Sent(i, "action")
<1>1. Runs(a) /\ at[a] = "callback" /\ settings \in Settings
  BY TypeFacts DEF CallOnStep, IInv
<1>2. Place(a) = "callback" /\ (phase = "stepping" => ~Serial)
  BY <1>1, RunsFacts
<1>3. b \in Bots /\ Agent(b, "callback")
  BY <1>1, <1>2, AgentFacts
<1>4. PlaceAt("done") = "done" /\ PlaceAt("act") = "act"
  BY <1>2 DEF PlaceAt
<1>5. CASE ~Realtime /\ ~IsInGame(b)
  <2>1. Goes(a, Ended(b), "done")
    BY <1>1, <1>5 DEF CallOnStep
  <2>2. To(b, "callback", Ended(b), PlaceAt("done"))
    BY <1>1, <1>3, <1>4, <1>5, CallbackEndsTo
  <2> HIDE DEF b
  <2> QED BY <1>1, <1>2, <2>1, <2>2, Going DEF b
<1>6. CASE ~(~Realtime /\ ~IsInGame(b))
  <2>1. /\ CanSend(i) => To(b, "callback", s, "act")
        /\ ~CanSend(i) => To(b, "callback", AfterActions(s), "done")
        /\ To(b, "callback", AfterActions(i), "done")
    BY <1>1, <1>3, <1>6, CallbackTo
  <2>2. IF acts /\ CanSend(i) THEN Goes(a, s, "act")
        ELSE Goes(a, AfterActions(IF acts THEN s ELSE i), "done")
    BY <1>6 DEF CallOnStep
  <2> HIDE DEF b, i, s
  <2>3. CASE acts /\ CanSend(i)
    <3>1. Goes(a, s, "act") /\ To(b, "callback", s, PlaceAt("act"))
      BY <1>4, <2>1, <2>2, <2>3
    <3> QED BY <1>1, <1>2, <3>1, Going DEF b
  <2>4. CASE acts /\ ~CanSend(i)
    <3> DEFINE c == AfterActions(s)
    <3>1. Goes(a, c, "done") /\ To(b, "callback", c, PlaceAt("done"))
      BY <1>4, <2>1, <2>2, <2>4
    <3> HIDE DEF c
    <3> QED BY <1>1, <1>2, <3>1, Going DEF b
  <2>5. CASE ~acts
    <3> DEFINE c == AfterActions(i)
    <3>1. Goes(a, c, "done") /\ To(b, "callback", c, PlaceAt("done"))
      BY <1>4, <2>1, <2>2, <2>5
    <3> HIDE DEF c
    <3> QED BY <1>1, <1>2, <3>1, Going DEF b
  <2> QED BY <2>3, <2>4, <2>5
<1> QED BY <1>5, <1>6

LEMMA ActionsReturnKeeps ==
  ASSUME IInv, settings' = settings, NEW a \in Agents, ActionsReturn(a)
  PROVE  IInv'
<1> DEFINE b == bot[a]
           c == AfterActions(Got(b))
<1>1. /\ Runs(a) /\ at[a] = "act" /\ settings \in Settings /\ b.reply # NoReply
      /\ Goes(a, c, "done")
  BY TypeFacts DEF ActionsReturn, IInv
<1>2. Place(a) = "act" /\ (phase = "stepping" => ~Serial)
  BY <1>1, RunsFacts
<1>3. b \in Bots /\ Agent(b, "act")
  BY <1>1, <1>2, AgentFacts
<1>4. To(b, "act", c, "done") /\ PlaceAt("done") = "done"
  BY <1>1, <1>2, <1>3, ActedTo DEF PlaceAt
<1> HIDE DEF b, c
<1> QED BY <1>1, <1>2, <1>4, Going DEF b

LEMMA SerialCallbackKeeps ==
  ASSUME IInv, settings' = settings, NEW a \in Agents, SerialCallback(a)
  PROVE  IInv'
<1> DEFINE b == bot[a]
<1>1. Runs(a) /\ at[a] = "serial" /\ settings \in Settings
  BY TypeFacts DEF SerialCallback, IInv
<1>2. phase = "callbacks" /\ Serial /\ Place(a) = "serial"
  BY <1>1, RunsFacts
<1>3. b \in Bots /\ Agent(b, "serial")
  BY <1>1, <1>2, AgentFacts
<1>4. PlaceAt("done") = "done" /\ PlaceAt("callback") = "callback"
  BY <1>2 DEF PlaceAt
<1>5. /\ b.app # "normal" => To(b, "serial", b, "done")
      /\ b.app = "normal" /\ PollLeaveGame(b) => To(b, "serial", Polled(b), "done")
      /\ b.app = "normal" /\ ~PollLeaveGame(b) =>
           To(b, "serial", Polled(b), "callback")
  BY <1>1, <1>2, <1>3, SerialTo
<1>6. IF b.app # "normal" THEN Goes(a, b, "done")
      ELSE IF PollLeaveGame(b) THEN Goes(a, Polled(b), "done")
      ELSE Goes(a, Polled(b), "callback")
  BY DEF SerialCallback
<1> DEFINE c == Polled(b)
<1> HIDE DEF b, c
<1>7. CASE b.app # "normal"
  <2>1. Goes(a, b, "done") /\ To(b, "serial", b, PlaceAt("done"))
    BY <1>4, <1>5, <1>6, <1>7
  <2> QED BY <1>1, <1>2, <2>1, Going DEF b
<1>8. CASE b.app = "normal" /\ PollLeaveGame(b)
  <2>1. Goes(a, c, "done") /\ To(b, "serial", c, PlaceAt("done"))
    BY <1>4, <1>5, <1>6, <1>8 DEF c
  <2> QED BY <1>1, <1>2, <2>1, Going DEF b
<1>9. CASE b.app = "normal" /\ ~PollLeaveGame(b)
  <2>1. Goes(a, c, "callback") /\ To(b, "serial", c, PlaceAt("callback"))
    BY <1>4, <1>5, <1>6, <1>9 DEF c
  <2> QED BY <1>1, <1>2, <2>1, Going DEF b
<1> QED BY <1>7, <1>8, <1>9

LEMMA AgentRunsKeeps ==
  ASSUME IInv, settings' = settings, NEW a \in Agents, AgentRuns(a)
  PROVE  IInv'
BY StepAgentKeeps, StepReturnsKeeps, ObservationReturnsKeeps, CallOnStepKeeps,
   ActionsReturnKeeps, SerialCallbackKeeps DEF AgentRuns
LEMMA DoneFacts ==
  ASSUME IInv
  PROVE  /\ phase = "callbacks" /\ turn = Last /\ at[turn] = "done" =>
              \A a \in Agents : at[a] = "done"
         /\ phase = "stepping" /\ Realtime /\ ~MultiThreaded /\ turn = Last
              /\ at[turn] = "done" => \A a \in Agents : at[a] = "done"
<1>1. \A a \in Agents : a < Last \/ a = Last
  BY TypeFacts DEF IInv, Last
<1> QED BY <1>1 DEF IInv, AtInv

(* The end of all steps or callbacks.                                      *)
LEMMA ChecksKeep ==
  ASSUME IInv, settings' = settings, phase \in {"stepping", "callbacks"},
         phase = "stepping" => ~Serial,
         \A a \in Agents : at[a] = "done",
         phase' = "checking", turn' = First,
         UNCHANGED <<at, result, left, games, faults, bot>>
  PROVE  IInv'
<1>1. TypeOK /\ AgentsInv
  BY DEF IInv
<1>2. /\ First \in Agents /\ games \in 0..MaxGames /\ MaxGames \in Nat
      /\ bot \in [Agents -> Bots] /\ left \in BOOLEAN
  BY <1>1, TypeFacts
<1>3. games # 0
  BY FreshFacts
<1>4. ASSUME NEW a \in Agents
      PROVE  To(bot[a], Place(a), bot[a], Place(a)')
  <2>1. Place(a) = "done" /\ Place(a)' = "done"
    BY <1>3, PlaceFacts, PlaceFactsNext
  <2> QED BY <2>1, AgentFacts
<1>5. AgentsInv'
  BY <1>1, <1>4, NoneMoves
<1>6. phase' \in Phases \ {"user", "stepping", "callbacks", "draining"}
      /\ games' \in 1..MaxGames
  BY <1>2, <1>3 DEF Phases
<1> QED BY <1>1, <1>2, <1>5, <1>6, Through

LEMMA TurnPasses ==
  ASSUME IInv, settings' = settings, phase \in {"stepping", "callbacks"},
         phase = "stepping" => Realtime /\ ~MultiThreaded,
         at[turn] = "done", turn # Last,
         phase' = phase, turn' = turn + 1,
         UNCHANGED <<at, result, left, games, faults, bot>>
  PROVE  IInv'
<1>1. TypeOK /\ AgentsInv
  BY DEF IInv
<1>2. /\ turn \in Agents /\ Agents = 1..NumAgents /\ NumAgents \in Nat
  BY <1>1, TypeFacts
<1>3. turn' \in Agents /\ \A a \in Agents : a < turn' => a < turn \/ a = turn
  BY <1>2 DEF Last
<1>4. ASSUME NEW a \in Agents
      PROVE  To(bot[a], Place(a), bot[a], Place(a)')
  <2>1. Place(a)' = Place(a)
    BY PlaceFacts, PlaceFactsNext
  <2> QED BY <2>1, AgentFacts
<1>5. AgentsInv'
  BY <1>1, <1>4, NoneMoves
<1>6. TypeOK'
  BY <1>1, <1>3, TypeFacts, TypeKept
<1>7. AtInv'
  <2>1. CASE phase = "stepping"
    <3>1. \A a \in Agents :
            /\ at'[a] \in {"start", "step", "observe", "done"}
                            \cup (IF Serial THEN {} ELSE {"callback", "act"})
            /\ Realtime /\ ~MultiThreaded /\ a < turn' => at'[a] = "done"
      BY <1>3, <2>1 DEF IInv, AtInv
    <3> QED BY <2>1, <3>1, SettingsKept DEF AtInv
  <2>2. CASE phase = "callbacks"
    <3>1. Serial /\ \A a \in Agents :
            /\ at'[a] \in {"serial", "callback", "act", "done"}
            /\ a < turn' => at'[a] = "done"
      BY <1>3, <2>2 DEF IInv, AtInv
    <3> QED BY <2>2, <3>1, SettingsKept DEF AtInv
  <2> QED BY <2>1, <2>2
<1>8. RestInv' /\ FreshInv'
  <2>1. games # 0
    BY FreshFacts
  <2> QED BY <2>1 DEF RestInv, FreshInv
<1> QED BY <1>5, <1>6, <1>7, <1>8 DEF IInv

LEMMA ToCallbacks ==
  ASSUME NEW b \in Bots, Agent(b, "stepped")
  PROVE  To(b, "stepped", b, "serial")
BY DEF Agent, Link, Knows, Waits, Awaited, Begun, Seen, InStep, Ends, Over,
       Lock, Becomes, Tells, Steady, Plays, To, Told, Normal, IsInGame, Asking, Resting, Playing

LEMMA StepsDoneKeeps ==
  ASSUME IInv, settings' = settings, StepsDone
  PROVE  IInv'
<1>1. TypeOK /\ AgentsInv
  BY DEF IInv
<1>2. phase = "stepping" /\ UNCHANGED <<result, left, games, faults, bot>>
  BY DEF StepsDone
<1>3. CASE Realtime /\ ~MultiThreaded
  <2>1. at[turn] = "done" /\ NextTurn("checking") /\ at' = at
    BY <1>3 DEF StepsDone
  <2>2. /\ turn = Last => phase' = "checking" /\ turn' = First
        /\ turn # Last => phase' = phase /\ turn' = turn + 1
    BY <1>1, <2>1, TurnFacts
  <2>3. CASE turn = Last
    <3>1. (\A a \in Agents : at[a] = "done") /\ ~Serial
      BY <1>2, <1>3, <2>1, <2>3, DoneFacts DEF Serial
    <3> QED BY <1>2, <2>1, <2>2, <2>3, <3>1, ChecksKeep
  <2>4. CASE turn # Last
    BY <1>2, <1>3, <2>1, <2>2, <2>4, TurnPasses
  <2> QED BY <2>3, <2>4
<1>4. CASE Serial
  <2>1. /\ \A a \in Agents : at[a] = "done"
        /\ phase' = "callbacks" /\ turn' = First
        /\ at' = [a \in Agents |-> "serial"]
    BY <1>4 DEF StepsDone, Serial, Leaves, AllStepped
  <2>2. /\ First \in Agents /\ bot \in [Agents -> Bots]
    BY <1>1, TypeFacts
  <2>3. at' \in [Agents -> Ats]
    BY <2>1 DEF Ats
  <2>4. ASSUME NEW a \in Agents
        PROVE  To(bot[a], Place(a), bot[a], Place(a)')
    <3>1. Place(a) = "stepped"
      BY <1>2, <1>4, <2>1, PlaceFacts
    <3>2. Place(a)' = "serial"
      BY <2>1, PlaceFactsNext
    <3>3. bot[a] \in Bots /\ Agent(bot[a], "stepped")
      BY <3>1, AgentFacts
    <3> QED BY <3>1, <3>2, <3>3, ToCallbacks
  <2>5. AgentsInv'
    BY <1>1, <1>2, <2>4, NoneMoves
  <2>6. TypeOK'
    BY <1>1, <1>2, <2>1, <2>2, <2>3, TypeFacts, TypeKept DEF Phases
  <2>7. AtInv'
    <3>1. \A a \in Agents : at'[a] = "serial" /\ ~(a < turn')
      BY <1>1, <2>1, TypeFacts DEF First
    <3> QED BY <1>4, <2>1, <3>1, SettingsKept DEF AtInv
  <2>8. RestInv' /\ FreshInv'
    <3>1. games # 0
      BY <1>2, FreshFacts
    <3> QED BY <1>2, <2>1, <3>1 DEF RestInv, FreshInv
  <2> QED BY <2>5, <2>6, <2>7, <2>8 DEF IInv
<1>5. CASE MultiThreaded
  <2>1. /\ \A a \in Agents : at[a] = "done"
        /\ phase' = "checking" /\ turn' = First /\ at' = at /\ ~Serial
    BY <1>5 DEF StepsDone, Serial, Leaves, AllStepped
  <2> QED BY <1>2, <2>1, ChecksKeep
<1> QED BY <1>3, <1>4, <1>5 DEF Serial

LEMMA CallbackDoneKeeps ==
  ASSUME IInv, settings' = settings, CallbackDone
  PROVE  IInv'
<1>1. TypeOK
  BY DEF IInv
<1>2. /\ phase = "callbacks" /\ at[turn] = "done" /\ NextTurn("checking")
      /\ UNCHANGED <<at, result, left, games, faults, bot>>
  BY DEF CallbackDone
<1>3. /\ turn = Last => phase' = "checking" /\ turn' = First
      /\ turn # Last => phase' = phase /\ turn' = turn + 1
  BY <1>1, <1>2, TurnFacts
<1>4. CASE turn = Last
  <2>1. \A a \in Agents : at[a] = "done"
    BY <1>2, <1>4, DoneFacts
  <2> QED BY <1>2, <1>3, <1>4, <2>1, ChecksKeep
<1>5. CASE turn # Last
  BY <1>2, <1>3, <1>5, TurnPasses
<1> QED BY <1>4, <1>5

-----------------------------------------------------------------------------
(***************************************************************************)
(* Between the calls                                                       *)
(***************************************************************************)

(* A single agent that is in a game has not had its OnGameEnd in it.       *)
LEMMA SingleFacts ==
  ASSUME IInv, phase = "checking", ~Multiplayer, Once, NoErrors, ~AllGamesEnded
  PROVE  \A a \in Agents : bot[a].ends = 0
<1>1. /\ settings \in Settings /\ Agents = 1..NumAgents
  BY TypeFacts DEF IInv
<1>2. Agents = {1}
  BY <1>1, ConstantFacts
<1>3. games # 0
  BY FreshFacts
<1>4. ASSUME NEW a \in Agents
      PROVE  bot[a].ends = 0
  <2>1. Place(a) = "done"
    BY <1>3, PlaceFacts
  <2>2. bot[a].errs = {} /\ Agent(bot[a], "done")
    BY <2>1, AgentFacts DEF NoErrors
  <2>3. bot[a].app = "normal" /\ bot[a].pending = "none"
    BY <2>2 DEF Agent, Link, Waits, Awaited, Normal, Resting
  <2>4. IsInGame(bot[a])
    BY <1>2, <2>3 DEF AllGamesEnded
  <2>5. ~Over(bot[a])
    BY <2>4 DEF IsInGame, Over, Normal
  <2>6. Ends(bot[a], "done")
    BY <2>2 DEF Agent
  <2> QED BY <2>5, <2>6 DEF Ends, Resting
<1> QED BY <1>4

LEMMA UpdateReturnsKeeps ==
  ASSUME IInv, settings' = settings, UpdateReturns
  PROVE  IInv'
<1>1. TypeOK /\ AgentsInv
  BY DEF IInv
<1>2. /\ phase = "checking" /\ phase' = "user"
      /\ result' = (~AllGamesEnded /\ NoErrors)
      /\ UNCHANGED <<turn, at, left, games, faults, bot>>
  BY DEF UpdateReturns, NoErrors
<1>3. games # 0
  BY <1>2, FreshFacts
<1>4. ASSUME NEW a \in Agents
      PROVE  To(bot[a], Place(a), bot[a], Place(a)')
  <2>1. Place(a) = "done" /\ Place(a)' = "done"
    BY <1>2, <1>3, PlaceFacts, PlaceFactsNext
  <2> QED BY <2>1, AgentFacts
<1>5. AgentsInv' /\ (NoErrors' => NoErrors)
  BY <1>1, <1>2, <1>4, NoneMoves
<1>6. result' \in BOOLEAN
  BY <1>2
<1>7. TypeOK'
  BY <1>1, <1>2, <1>6, TypeFacts, TypeKept DEF Phases
<1>8. AtInv' /\ FreshInv'
  BY <1>2, <1>3 DEF AtInv, FreshInv
<1>9. RestInv'
  <2>1. ~result' /\ NoErrors' =>
          \A a \in Agents : bot[a].pending = "none" /\ ~IsInGame(bot[a])
    BY <1>2, <1>5 DEF AllGamesEnded
  <2>2. result' /\ SingleSerial /\ Once => \A a \in Agents : bot[a].ends = 0
    BY <1>2, SingleFacts DEF SingleSerial
  <2> QED BY <1>2, <2>1, <2>2, SettingsKept DEF RestInv, IsInGame
<1> QED BY <1>5, <1>7, <1>8, <1>9 DEF IInv

LEMMA CallLeaveGameKeeps ==
  ASSUME IInv, settings' = settings, CallLeaveGame
  PROVE  IInv'
<1>1. TypeOK /\ AgentsInv
  BY DEF IInv
<1>2. /\ phase = "user" /\ phase' = "user" /\ result /\ result' = result /\ left' = TRUE
      /\ bot' = [a \in Agents |-> RequestLeaveGame(bot[a])]
      /\ UNCHANGED <<turn, at, games, faults>>
  BY DEF CallLeaveGame
<1>3. games # 0 /\ settings \in Settings
  BY <1>1, <1>2, FreshFacts, TypeFacts
<1>4. ASSUME NEW a \in Agents
      PROVE  /\ Becomes(bot[a], Place(a), RequestLeaveGame(bot[a]), Place(a)')
             /\ RequestLeaveGame(bot[a]) \in Bots
             /\ RequestLeaveGame(bot[a]).errs = {} /\ Multiplayer
                  => RequestLeaveGame(bot[a]).pending = "leave"
             /\ Place(a) = "done" /\ Place(a)' = "done"
             /\ RequestLeaveGame(bot[a]).status = bot[a].status
             /\ RequestLeaveGame(bot[a]).last = bot[a].last
             /\ RequestLeaveGame(bot[a]).loop = bot[a].loop
  <2>1. Place(a) = "done" /\ Place(a)' = "done"
    BY <1>2, <1>3, PlaceFacts, PlaceFactsNext
  <2>2. bot[a] \in Bots /\ Agent(bot[a], "done")
    BY <2>1, AgentFacts
  <2>3. /\ Becomes(bot[a], "done", RequestLeaveGame(bot[a]), "done")
        /\ RequestLeaveGame(bot[a]).errs = {} /\ Multiplayer
             => RequestLeaveGame(bot[a]).pending = "leave"
        /\ RequestLeaveGame(bot[a]).status = bot[a].status
        /\ RequestLeaveGame(bot[a]).last = bot[a].last
        /\ RequestLeaveGame(bot[a]).loop = bot[a].loop
    BY <1>3, <2>2, LeavesTo
  <2> QED BY <2>1, <2>3 DEF Becomes
<1>5. bot' \in [Agents -> Bots]
  BY <1>2, <1>4
<1>6. AgentsInv'
  <2>1. \A a \in Agents : bot'[a] = RequestLeaveGame(bot[a])
    BY <1>2
  <2>2. \A a \in Agents : Becomes(bot[a], Place(a), bot'[a], Place(a)')
    BY <1>4, <2>1
  <2>3. ASSUME NEW a \in Agents, NoErrors'
        PROVE  Told(bot[a], Place(a))'
    <3>1. bot'[a].errs = {}
      BY <2>3, SettingsKept DEF NoErrors
    <3>2. (Multiplayer => bot'[a].pending = "leave") /\ Place(a)' = "done"
      BY <1>4, <2>1, <3>1
    <3> QED BY <1>2, <3>2, SettingsKept DEF Told, Playing
  <2>4. /\ NoErrors' => NoErrors
        /\ (\A a \in Agents : /\ Agent(bot[a], Place(a))
                              /\ ~Realtime /\ NoErrors => Lock(bot[a], Place(a)))'
    BY <1>1, <1>5, <2>2, Become
  <2>5. EachInv'
    BY <2>3, <2>4, SettingsKept DEF EachInv
  <2>6. LoopsInv'
    <3> SUFFICES ASSUME ~Realtime, Multiplayer, NoErrors'
                 PROVE  /\ \A a, b \in Agents : (Plays(bot[a]) /\ Plays(bot[b]))'
                             => bot'[a].loop = bot'[b].loop
                        /\ \A a \in Agents :
                             bot'[a].status = "inGame" => bot'[a].pending = "leave"
      BY SettingsKept DEF LoopsInv
    <3>1. NoErrors /\ \A a \in Agents : bot'[a].errs = {} /\ bot[a].errs = {}
      BY <2>4, SettingsKept DEF NoErrors
    <3>2. ASSUME NEW a \in Agents
          PROVE  /\ bot'[a].pending = "leave" /\ bot'[a].loop = bot[a].loop
                 /\ Plays(bot[a])' => Plays(bot[a])
      <4>1. /\ bot'[a].pending = "leave" /\ bot'[a].loop = bot[a].loop
            /\ bot'[a].last = bot[a].last /\ bot'[a].status = bot[a].status
        BY <1>4, <2>1, <3>1
      <4>2. Lock(bot[a], "done") /\ Agent(bot[a], "done")
        BY <1>1, <1>4, <3>1 DEF AgentsInv, EachInv
      <4>3. bot[a].app = "normal"
        BY <3>1, <4>2 DEF Agent, Link, Normal
      <4> QED BY <3>1, <4>1, <4>2, <4>3 DEF Plays, Lock, IsInGame, Resting
    <3>3. \A a, b \in Agents :
            Plays(bot[a]) /\ Plays(bot[b]) => bot[a].loop = bot[b].loop
      BY <1>1, <3>1 DEF AgentsInv, LoopsInv
    <3> QED BY <3>2, <3>3
  <2> QED BY <2>5, <2>6 DEF AgentsInv
<1>7. TypeOK'
  <2>1. left' \in BOOLEAN
    BY <1>2
  <2> QED BY <1>1, <1>2, <1>5, <2>1, TypeFacts, TypeKept
<1>8. AtInv' /\ FreshInv'
  BY <1>2, <1>3 DEF AtInv, FreshInv
<1>9. RestInv'
  <2>1. SingleSerial /\ Once => \A a \in Agents : bot'[a].ends = 0
    <3> SUFFICES ASSUME SingleSerial, Once, NEW a \in Agents
                 PROVE  bot'[a].ends = 0
      OBVIOUS
    <3>1. bot'[a] = bot[a]
      BY <1>2 DEF RequestLeaveGame, SingleSerial
    <3> QED BY <1>2, <3>1 DEF IInv, RestInv
  <2> QED BY <1>2, <2>1, SettingsKept DEF RestInv
<1> QED BY <1>6, <1>7, <1>8, <1>9 DEF IInv

(* The calls of WaitForAllResponses, and its return.                       *)
LEMMA DrainingKeeps ==
  ASSUME IInv, settings' = settings, games # 0,
         phase \in {"user", "draining"}, phase' \in {"user", "draining"},
         UNCHANGED <<turn, at, result, left, games, faults, bot>>
  PROVE  IInv'
<1>1. TypeOK /\ AgentsInv
  BY DEF IInv
<1>2. ASSUME NEW a \in Agents
      PROVE  To(bot[a], Place(a), bot[a], Place(a)')
  <2>1. Place(a) = "done" /\ Place(a)' = "done"
    BY PlaceFacts, PlaceFactsNext
  <2> QED BY <2>1, AgentFacts
<1>3. AgentsInv' /\ (NoErrors' => NoErrors)
  BY <1>1, <1>2, NoneMoves
<1>4. TypeOK'
  <2>1. phase' \in Phases
    BY DEF Phases
  <2> QED BY <1>1, <2>1, TypeFacts, TypeKept
<1>5. AtInv' /\ FreshInv'
  BY DEF AtInv, FreshInv
<1>6. RestInv'
  BY <1>3, SettingsKept DEF IInv, RestInv, IsInGame
<1> QED BY <1>3, <1>4, <1>5, <1>6 DEF IInv

LEMMA WaitingFacts ==
  ASSUME IInv, Waiting # {}
  PROVE  games # 0
BY DEF IInv, FreshInv, Waiting

LEMMA WaitForAllResponsesKeeps ==
  ASSUME IInv, settings' = settings, WaitForAllResponses
  PROVE  IInv'
<1>1. TypeOK /\ AgentsInv
  BY DEF IInv
<1>2. /\ phase = "draining" /\ games # 0 /\ settings \in Settings
      /\ UNCHANGED <<turn, at, result, left, games, faults>>
  BY <1>1, FreshFacts, TypeFacts DEF WaitForAllResponses
<1>3. CASE phase' = "user" /\ bot' = bot
  BY <1>2, <1>3, DrainingKeeps
<1>4. ASSUME NEW r \in Waiting, bot[r].reply # NoReply,
             bot' = [bot EXCEPT ![r] = Got(bot[r])], phase' = phase
      PROVE  IInv'
  <2> DEFINE b == bot[r]
             c == Got(b)
  <2>1. r \in Agents /\ b.pending # "none" /\ b.app = "normal"
    BY <1>4 DEF Waiting
  <2>2. \A a \in Agents : Place(a) = "done" /\ Place(a)' = "done"
    BY <1>2, <1>4, PlaceFacts, PlaceFactsNext
  <2>3. b \in Bots /\ Agent(b, "done")
    BY <2>1, <2>2, AgentFacts
  <2>4. To(b, "done", c, "done")
    BY <1>2, <1>4, <2>1, <2>3, DrainsTo
  <2>5. c.ends = b.ends
    <3>1. b.reply.status # "none"
      BY <1>4, <2>3 DEF Agent, Link
    <3> QED BY <1>2, <2>3, <3>1, GotFacts DEF Kept
  <2> HIDE DEF c
  <2>6. AgentsInv' /\ (NoErrors' => NoErrors) /\ bot' \in [Agents -> Bots]
    <3>1. \A a \in Agents \ {r} : Place(a)' = Place(a)
      BY <2>2
    <3>2. To(bot[r], Place(r), c, Place(r)')
      BY <2>1, <2>2, <2>4
    <3>3. bot' = [bot EXCEPT ![r] = c]
      BY <1>4 DEF c
    <3> QED BY <1>1, <1>2, <2>1, <3>1, <3>2, <3>3, OneMoves
  <2>7. TypeOK'
    BY <1>1, <1>2, <1>4, <2>6, TypeFacts, TypeKept
  <2>8. AtInv' /\ FreshInv'
    BY <1>2, <1>4 DEF AtInv, FreshInv
  <2>9. RestInv'
    <3>1. ~(~result /\ NoErrors')
      BY <1>2, <2>1, <2>6 DEF IInv, RestInv
    <3>2. \A a \in Agents : bot'[a].ends = bot[a].ends
      <4>1. bot \in [Agents -> Bots]
        BY <1>1, TypeFacts
      <4> QED BY <1>4, <2>5, <4>1 DEF c
    <3>3. result /\ SingleSerial /\ Once => \A a \in Agents : bot'[a].ends = 0
      BY <1>2, <3>2 DEF IInv, RestInv
    <3> QED BY <1>2, <3>1, <3>3, SettingsKept DEF RestInv
  <2> QED BY <2>6, <2>7, <2>8, <2>9 DEF IInv
<1> QED BY <1>3, <1>4 DEF WaitForAllResponses

LEMMA UserKeeps ==
  ASSUME IInv, settings' = settings, User
  PROVE  IInv'
<1>1. ASSUME CallWaitForAllResponses
      PROVE  IInv'
  <2>1. /\ phase = "user" /\ phase' = "draining" /\ Waiting # {}
        /\ UNCHANGED <<turn, at, result, left, games, faults, bot>>
    BY <1>1 DEF CallWaitForAllResponses
  <2>2. games # 0
    BY <2>1, WaitingFacts
  <2> QED BY <2>1, <2>2, DrainingKeeps
<1> QED BY <1>1, CallStartGameKeeps, CallUpdateKeeps, CallLeaveGameKeeps DEF User

LEMMA CoordinatesKeeps ==
  ASSUME IInv, settings' = settings, Coordinates
  PROVE  IInv'
BY StepsDoneKeeps, CallbackDoneKeeps, UpdateReturnsKeeps, WaitForAllResponsesKeeps
   DEF Coordinates

LEMMA StartGameKeeps ==
  ASSUME IInv, settings' = settings, StartGame
  PROVE  IInv'
<1>1. ASSUME JoinReturns
      PROVE  IInv'
  <2> DEFINE c == Got(bot[turn])
  <2>1. /\ phase = "joining" /\ bot[turn].reply # NoReply
        /\ bot' = [bot EXCEPT ![turn] = c] /\ NextTurn("joined")
        /\ UNCHANGED <<at, result, left, games, faults>>
    BY <1>1 DEF JoinReturns
  <2>2. turn \in Agents /\ turn \in Nat /\ settings \in Settings
    BY TypeFacts DEF IInv
  <2>3. Place(turn) = "join"
    BY <2>1, <2>2, PlaceFacts
  <2>4. To(bot[turn], "join", c, "joined")
    BY <2>1, <2>2, <2>3, AgentFacts, JoinedTo
  <2> HIDE DEF c
  <2> QED BY <2>1, <2>4, JoinReturnsKeeps
<1> QED BY <1>1, CreateReturnsKeeps, JoinRequestsKeeps, JoinChecksKeeps,
           FirstObservationKeeps, FirstObservationReturnsKeeps, StartsGameKeeps
           DEF StartGame
-----------------------------------------------------------------------------
(***************************************************************************)
(* Waits that end without a response                                       *)
(***************************************************************************)
LEMMA StepTimesOutKeeps ==
  ASSUME IInv, settings' = settings, NEW a \in Agents, NEW pinged \in BOOLEAN,
         StepTimesOut(a, pinged)
  PROVE  IInv'
<1> DEFINE b == bot[a]
<1>1. /\ Runs(a) /\ settings \in Settings
      /\ b.reply = NoReply /\ (pinged => b.conn = "up")
  BY TypeFacts DEF StepTimesOut, NoAnswer, IInv
<1>2. CASE at[a] = "step" /\ Goes(a, Abandoned(b, pinged), Callbacks)
  <2> DEFINE c == Abandoned(b, pinged)
  <2>1. phase = "stepping" /\ Place(a) = "step"
    BY <1>1, <1>2, RunsFacts
  <2>2. b \in Bots /\ Agent(b, "step")
    BY <2>1, AgentFacts
  <2>3. /\ PlaceAt(Callbacks) = AfterStep /\ Callbacks \in {"callback", "done"}
        /\ Callbacks = "callback" => ~Serial
    BY <2>1, CallbacksPlace
  <2>4. To(b, "step", c, PlaceAt(Callbacks))
    BY <1>1, <2>2, <2>3, StepLostTo
  <2> HIDE DEF b, c
  <2> QED BY <1>1, <1>2, <2>1, <2>3, <2>4, Going DEF b, c
<1>3. CASE at[a] = "act" /\ Goes(a, AfterActions(Abandoned(b, pinged)), "done")
  <2> DEFINE c == AfterActions(Abandoned(b, pinged))
  <2>1. Place(a) = "act" /\ (phase = "stepping" => ~Serial)
    BY <1>1, <1>3, RunsFacts
  <2>2. b \in Bots /\ Agent(b, "act")
    BY <2>1, AgentFacts
  <2>3. To(b, "act", c, "done") /\ PlaceAt("done") = "done"
    BY <1>1, <2>1, <2>2, ActedTo DEF PlaceAt
  <2> HIDE DEF b, c
  <2> QED BY <1>1, <1>3, <2>1, <2>3, Going DEF b, c
<1>4. CASE /\ phase' = "fault"
           /\ UNCHANGED <<turn, at, result, left, games, faults, bot>>
  <2>1. TypeOK /\ AgentsInv /\ phase # "user"
    BY <1>1, RunsFacts DEF IInv
  <2>2. ASSUME NEW x \in Agents
        PROVE  To(bot[x], Place(x), bot[x], Place(x)')
    <3>1. Place(x)' = "gone"
      BY <1>4, PlaceFactsNext
    <3> QED BY <3>1, AgentFacts
  <2>3. AgentsInv'
    BY <1>4, <2>1, <2>2, NoneMoves
  <2>4. bot \in [Agents -> Bots] /\ turn \in Agents
    BY <2>1, TypeFacts
  <2> QED BY <1>4, <2>1, <2>3, <2>4, StartKeeps
<1> QED BY <1>2, <1>3, <1>4 DEF StepTimesOut

(* StartGame does not survive a wait in vain, but for that of JoinGame.    *)
LEMMA StartTimesOutKeeps ==
  ASSUME IInv, settings' = settings, NEW pinged \in BOOLEAN, StartTimesOut(pinged)
  PROVE  IInv'
<1> DEFINE b == bot[turn]
<1>1. TypeOK /\ AgentsInv
  BY DEF IInv
<1>2. /\ turn \in Agents /\ turn \in Nat /\ settings \in Settings /\ First \in Agents
      /\ bot \in [Agents -> Bots]
  BY <1>1, TypeFacts
<1>3. /\ b.reply = NoReply /\ (pinged => b.conn = "up")
      /\ UNCHANGED <<at, result, left, games, faults>>
  BY DEF StartTimesOut, NoAnswer
<1>4. CASE /\ phase = "joining" /\ NextTurn("joined")
           /\ bot' = [bot EXCEPT ![turn] = Abandoned(@, pinged)]
  <2> DEFINE c == Abandoned(b, pinged)
  <2>1. Place(turn) = "join"
    BY <1>2, <1>4, PlaceFacts
  <2>2. To(b, "join", c, "joined")
    BY <1>2, <1>3, <2>1, AgentFacts, JoinedTo
  <2>3. bot' = [bot EXCEPT ![turn] = c]
    BY <1>4
  <2> HIDE DEF c
  <2> QED BY <1>3, <1>4, <2>2, <2>3, JoinReturnsKeeps
<1>5. CASE /\ phase \in {"creating", "observed"} /\ phase' \in {"exit", "fault"}
           /\ turn' = First /\ bot' = bot
  <2>1. ASSUME NEW x \in Agents
        PROVE  To(bot[x], Place(x), bot[x], Place(x)')
    <3>1. Place(x)' = "gone"
      BY <1>5, PlaceFactsNext
    <3> QED BY <3>1, AgentFacts
  <2>2. AgentsInv'
    BY <1>1, <1>3, <1>5, <2>1, NoneMoves
  <2> QED BY <1>2, <1>3, <1>5, <2>2, StartKeeps
<1> QED BY <1>4, <1>5 DEF StartTimesOut, Leaves

LEMMA TimesOutKeeps ==
  ASSUME IInv, settings' = settings, TimesOut
  PROVE  IInv'
<1>1. ASSUME WaitTimesOut
      PROVE  IInv'
  <2>1. /\ phase = "draining" /\ phase' = "user" /\ Waiting # {}
        /\ UNCHANGED <<turn, at, result, left, games, faults, bot>>
    BY <1>1 DEF WaitTimesOut
  <2>2. games # 0
    BY <2>1, WaitingFacts
  <2> QED BY <2>1, <2>2, DrainingKeeps
<1> QED BY <1>1, StartTimesOutKeeps, StepTimesOutKeeps DEF TimesOut

-----------------------------------------------------------------------------
(***************************************************************************)
(* The SC2 processes                                                       *)
(***************************************************************************)

(* What SC2 does to a client: neither what it knows nor its history.       *)
LEMMA EnvKeeps ==
  ASSUME IInv, settings' = settings,
         UNCHANGED <<phase, turn, at, result, left, games>>,
         faults' \in 0..MaxFaults, bot' \in [Agents -> Bots],
         LoopsInv',
         \A a \in Agents :
           /\ Becomes(bot[a], Place(a), bot'[a], Place(a))
           /\ Tells(bot[a], Place(a), bot'[a], Place(a))
           /\ bot'[a].pending = bot[a].pending /\ bot'[a].last = bot[a].last
           /\ bot'[a].app = bot[a].app /\ bot'[a].ends = bot[a].ends
           /\ bot'[a].played = bot[a].played,
         games # 0 \/ \A a \in Agents : bot'[a].status = bot[a].status
  PROVE  IInv'
<1>1. TypeOK /\ AgentsInv
  BY DEF IInv
<1>2. \A a \in Agents : Place(a)' = Place(a)
  BY PlacesStay
<1>3. \A a \in Agents : /\ Becomes(bot[a], Place(a), bot'[a], Place(a)')
                        /\ Tells(bot[a], Place(a), bot'[a], Place(a)')
  BY <1>2
<1>4. AgentsInv' /\ (NoErrors' => NoErrors)
  BY <1>1, <1>3, TellsEach DEF AgentsInv
<1>5. TypeOK'
  BY <1>1, TypeFacts, TypeKept
<1>6. AtInv'
  BY SettingsKept DEF IInv, AtInv, First
<1>7. RestInv'
  <2>1. ~result /\ NoErrors' /\ phase \in {"user", "draining"} =>
          \A a \in Agents : bot'[a].pending = "none" /\ ~IsInGame(bot'[a])
    BY <1>4 DEF IInv, RestInv, IsInGame
  <2>2. result /\ SingleSerial /\ Once /\ phase \in {"user", "draining"} =>
          \A a \in Agents : bot'[a].ends = 0
    BY DEF IInv, RestInv
  <2> QED BY <2>1, <2>2, SettingsKept DEF RestInv, IsInGame
<1>8. FreshInv'
  BY SettingsKept DEF IInv, FreshInv
<1> QED BY <1>4, <1>5, <1>6, <1>7, <1>8 DEF IInv

(* The same, of clients that go on as they are.                            *)
LEMMA EnvToKeeps ==
  ASSUME IInv, settings' = settings,
         UNCHANGED <<phase, turn, at, result, left, games>>,
         faults' \in 0..MaxFaults, bot' \in [Agents -> Bots],
         \A a \in Agents :
           /\ To(bot[a], Place(a), bot'[a], Place(a))
           /\ bot'[a].pending = bot[a].pending /\ bot'[a].last = bot[a].last
           /\ bot'[a].app = bot[a].app /\ bot'[a].ends = bot[a].ends
           /\ bot'[a].played = bot[a].played,
         games # 0 \/ \A a \in Agents : bot'[a].status = bot[a].status
  PROVE  IInv'
<1>1. TypeOK /\ AgentsInv
  BY DEF IInv
<1>2. \A a \in Agents : Place(a)' = Place(a)
  BY PlacesStay
<1>3. \A a \in Agents : To(bot[a], Place(a), bot'[a], Place(a)')
  BY <1>2
<1>4. LoopsInv'
  BY <1>1, <1>3, Moves DEF AgentsInv
<1>5. \A a \in Agents : /\ Becomes(bot[a], Place(a), bot'[a], Place(a))
                        /\ Tells(bot[a], Place(a), bot'[a], Place(a))
  BY DEF To
<1> QED BY <1>4, <1>5, EnvKeeps

(* The same, of one client.                                                *)
LEMMA EnvOneKeeps ==
  ASSUME IInv, settings' = settings,
         UNCHANGED <<phase, turn, at, result, left, games>>,
         faults' \in 0..MaxFaults, NEW r \in Agents, NEW c,
         bot' = [bot EXCEPT ![r] = c],
         To(bot[r], Place(r), c, Place(r)),
         c.pending = bot[r].pending, c.last = bot[r].last, c.app = bot[r].app,
         c.ends = bot[r].ends, c.played = bot[r].played,
         games # 0 \/ c.status = bot[r].status
  PROVE  IInv'
<1>1. bot \in [Agents -> Bots]
  BY TypeFacts DEF IInv
<1>2. c \in Bots
  BY DEF To, Becomes
<1>3. bot' \in [Agents -> Bots]
  BY <1>1, <1>2
<1>4. \A a \in Agents : bot'[a] = IF a = r THEN c ELSE bot[a]
  BY <1>1
<1>5. \A a \in Agents : To(bot[a], Place(a), bot'[a], Place(a))
  BY <1>4, AgentFacts
<1>6. \A a \in Agents :
        /\ bot'[a].pending = bot[a].pending /\ bot'[a].last = bot[a].last
        /\ bot'[a].app = bot[a].app /\ bot'[a].ends = bot[a].ends
        /\ bot'[a].played = bot[a].played
  BY <1>4
<1>7. games # 0 \/ \A a \in Agents : bot'[a].status = bot[a].status
  BY <1>4
<1> QED BY <1>3, <1>5, <1>6, <1>7, EnvToKeeps

(* Before the first game nothing is asked of SC2.                          *)
LEMMA NoRequest ==
  ASSUME IInv, NEW a \in Agents, bot[a].request # "none" \/ bot[a].status = "inGame"
  PROVE  games # 0
<1>1. Agent(bot[a], Place(a))
  BY AgentFacts
<1> QED BY <1>1 DEF IInv, FreshInv, Agent, Link

LEMMA FaultsKept ==
  ASSUME IInv, faults' = faults
  PROVE  faults' \in 0..MaxFaults
BY TypeFacts DEF IInv

LEMMA GameAnswersKeeps ==
  ASSUME IInv, settings' = settings, NEW a \in Agents, GameAnswers(a)
  PROVE  IInv'
<1> DEFINE b == bot[a]
<1>1. /\ UNCHANGED <<phase, turn, at, result, left, games, faults>>
      /\ b.request # "none"
  BY DEF GameAnswers, Env
<1>2. games # 0 /\ settings \in Settings /\ faults' \in 0..MaxFaults
  BY <1>1, NoRequest, TypeFacts, FaultsKept DEF IInv
<1>3. b \in Bots /\ Agent(b, Place(a)) /\ Place(a) \in Places
  BY AgentFacts
<1> HIDE DEF b
<1>4. ASSUME NEW bad \in BOOLEAN, bad \/ b.request \in {"observation", "action"},
             bot' = [bot EXCEPT ![a] = Answered(b, bad)]
      PROVE  IInv'
  <2> DEFINE c == Answered(b, bad)
  <2>1. To(b, Place(a), c, Place(a))
    BY <1>1, <1>2, <1>3, <1>4, AnsweredTo
  <2>2. /\ c.pending = b.pending /\ c.last = b.last /\ c.app = b.app
        /\ c.ends = b.ends /\ c.played = b.played
    BY <1>3, AnsweredFacts DEF Kept
  <2>3. bot' = [bot EXCEPT ![a] = c]
    BY <1>4
  <2> HIDE DEF c
  <2> QED BY <1>1, <1>2, <2>1, <2>2, <2>3, EnvOneKeeps DEF b
<1>5. ASSUME NEW v \in {"init", "launched"},
             v = "init" => b.request = "create",
             v = "launched" => b.request = "leave",
             bot' = [bot EXCEPT ![a] = Answered([b EXCEPT !.status = v], FALSE)]
      PROVE  IInv'
  <2> DEFINE x == [b EXCEPT !.status = v]
             c == Answered(x, FALSE)
  <2>1. To(b, Place(a), c, Place(a))
    BY <1>2, <1>3, <1>5, CreateAnsweredTo, LeaveAnsweredTo
  <2>2. x \in Bots /\ FALSE \in BOOLEAN
    BY <1>3 DEF Bots
  <2>3. /\ x.pending = b.pending /\ x.last = b.last /\ x.app = b.app
        /\ x.ends = b.ends /\ x.played = b.played
    BY <1>3 DEF Bots
  <2>4. /\ c.pending = x.pending /\ c.last = x.last /\ c.app = x.app
        /\ c.ends = x.ends /\ c.played = x.played
    BY <2>2, AnsweredFacts DEF Kept
  <2>5. bot' = [bot EXCEPT ![a] = c]
    BY <1>5
  <2> HIDE DEF x, c
  <2> QED BY <1>1, <1>2, <2>1, <2>3, <2>4, <2>5, EnvOneKeeps DEF b
<1>6. \/ /\ b.request \in {"observation", "action"}
         /\ bot' = [bot EXCEPT ![a] = Answered(b, FALSE)]
      \/ bot' = [bot EXCEPT ![a] = Answered(b, TRUE)]
      \/ /\ b.request = "create"
         /\ bot' = [bot EXCEPT ![a] = Answered([b EXCEPT !.status = "init"], FALSE)]
      \/ /\ b.request = "leave"
         /\ bot' = [bot EXCEPT ![a] = Answered([b EXCEPT !.status = "launched"], FALSE)]
  BY DEF GameAnswers, Env, b
<1>7. CASE b.request \in {"observation", "action"}
           /\ bot' = [bot EXCEPT ![a] = Answered(b, FALSE)]
  <2> DEFINE bad == FALSE
  <2>1. bad \in BOOLEAN /\ bot' = [bot EXCEPT ![a] = Answered(b, bad)]
    BY <1>7
  <2> HIDE DEF bad
  <2> QED BY <1>4, <1>7, <2>1
<1>8. CASE bot' = [bot EXCEPT ![a] = Answered(b, TRUE)]
  <2>1. TRUE \in BOOLEAN
    OBVIOUS
  <2> QED BY <1>4, <1>8, <2>1
<1>9. CASE b.request = "create"
           /\ bot' = [bot EXCEPT ![a] = Answered([b EXCEPT !.status = "init"], FALSE)]
  BY <1>5, <1>9
<1>10. CASE b.request = "leave"
            /\ bot' = [bot EXCEPT ![a] = Answered([b EXCEPT !.status = "launched"], FALSE)]
  BY <1>5, <1>10
<1> QED BY <1>6, <1>7, <1>8, <1>9, <1>10

(* A program that goes on has its agents somewhere.                        *)
LEMMA NotGone ==
  ASSUME IInv, ~Stops, NEW a \in Agents
  PROVE  Place(a) # "gone"
<1>1. at[a] \in {"done", "start", "step", "observe", "callback", "act", "serial"}
  BY DEF IInv, TypeOK
<1>2. phase \in {"user", "creating", "join", "joining", "joined", "observing",
                 "observed", "starting", "stepping", "callbacks", "checking",
                 "draining"}
  BY DEF IInv, TypeOK, Stops
<1> QED BY <1>1, <1>2 DEF Place

LEMMA GameBeginsKeeps ==
  ASSUME IInv, settings' = settings, ~Stops, GameBegins
  PROVE  IInv'
<1> DEFINE x(b) == [b EXCEPT !.status = "inGame", !.loop = 1]
           c(b) == Answered(x(b), FALSE)
<1>1. /\ UNCHANGED <<phase, turn, at, result, left, games, faults>>
      /\ \A a \in Agents : bot[a].request = "join"
      /\ bot' = [a \in Agents |-> c(bot[a])]
  BY DEF GameBegins, Env
<1>2. settings \in Settings /\ First \in Agents /\ faults' \in 0..MaxFaults
  BY <1>1, TypeFacts, FaultsKept DEF IInv
<1>3. games # 0
  BY <1>1, <1>2, NoRequest
<1>4. ASSUME NEW a \in Agents
      PROVE  /\ Becomes(bot[a], Place(a), c(bot[a]), Place(a))
             /\ Tells(bot[a], Place(a), c(bot[a]), Place(a))
             /\ c(bot[a]).pending = bot[a].pending /\ c(bot[a]).last = bot[a].last
             /\ c(bot[a]).app = bot[a].app /\ c(bot[a]).ends = bot[a].ends
             /\ c(bot[a]).played = bot[a].played
             /\ c(bot[a]) \in Bots /\ c(bot[a]).loop = 1
             /\ c(bot[a]).errs = bot[a].errs
  <2>1. bot[a] \in Bots /\ Agent(bot[a], Place(a)) /\ Place(a) \in Places
    BY AgentFacts
  <2>2. /\ Becomes(bot[a], Place(a), c(bot[a]), Place(a))
        /\ Tells(bot[a], Place(a), c(bot[a]), Place(a))
    BY <1>1, <1>2, <2>1, JoinAnsweredTo
  <2>3. 1 \in 0..MaxLoops
    BY <1>2, ConstantFacts
  <2>4. x(bot[a]) \in Bots
    BY <2>1, <2>3 DEF Bots
  <2>5. /\ x(bot[a]).pending = bot[a].pending /\ x(bot[a]).last = bot[a].last
        /\ x(bot[a]).app = bot[a].app /\ x(bot[a]).ends = bot[a].ends
        /\ x(bot[a]).played = bot[a].played /\ x(bot[a]).loop = 1
        /\ x(bot[a]).errs = bot[a].errs
    BY <2>1 DEF Bots
  <2>6. FALSE \in BOOLEAN
    OBVIOUS
  <2>7. /\ c(bot[a]).pending = x(bot[a]).pending /\ c(bot[a]).last = x(bot[a]).last
        /\ c(bot[a]).app = x(bot[a]).app /\ c(bot[a]).ends = x(bot[a]).ends
        /\ c(bot[a]).played = x(bot[a]).played /\ c(bot[a]).loop = x(bot[a]).loop
        /\ c(bot[a]).errs = x(bot[a]).errs
    BY <2>4, <2>6, AnsweredFacts DEF Kept
  <2> HIDE DEF x, c
  <2> QED BY <2>2, <2>5, <2>7 DEF Becomes
<1> HIDE DEF c
<1>5. bot' \in [Agents -> Bots] /\ \A a \in Agents : bot'[a] = c(bot[a])
  BY <1>1, <1>4
<1>6. LoopsInv'
  <2>1. \A a \in Agents : bot'[a].loop = 1 /\ bot'[a].errs = bot[a].errs
    BY <1>4, <1>5
  <2>2. NoErrors' => NoErrors
    BY <2>1, SettingsKept DEF NoErrors
  <2>3. ASSUME NoErrors
        PROVE  ~left
    <3>1. /\ bot[First] \in Bots /\ Agent(bot[First], Place(First))
          /\ Place(First) \in Places /\ Place(First) # "gone"
      BY <1>2, AgentFacts, NotGone
    <3>2. Place(First) = "join"
      BY <1>1, <1>2, <3>1, RequestFacts
    <3>3. Told(bot[First], "join")
      BY <1>2, <2>3, <3>2 DEF IInv, AgentsInv, EachInv
    <3> QED BY <3>3 DEF Told
  <2> QED BY <1>1, <2>1, <2>2, <2>3, SettingsKept DEF LoopsInv
<1> QED BY <1>1, <1>2, <1>3, <1>4, <1>5, <1>6, EnvKeeps

LEMMA GameStepsKeeps ==
  ASSUME IInv, settings' = settings, ~Stops, NEW over \in BOOLEAN, GameSteps(over)
  PROVE  IInv'
<1> DEFINE c(b) == Answered(Advanced(b, over), FALSE)
<1>1. /\ UNCHANGED <<phase, turn, at, result, left, games, faults>>
      /\ Players # {} /\ \A a \in Players : bot[a].request = "step"
      /\ bot' = [a \in Agents |-> IF a \in Players THEN c(bot[a]) ELSE bot[a]]
  BY DEF GameSteps, Env
<1>2. settings \in Settings /\ faults' \in 0..MaxFaults
  BY <1>1, TypeFacts, FaultsKept DEF IInv
<1>3. games # 0
  BY <1>1, NoRequest DEF Players
<1>4. ASSUME NEW a \in Players
      PROVE  /\ Becomes(bot[a], Place(a), c(bot[a]), Place(a))
             /\ Tells(bot[a], Place(a), c(bot[a]), Place(a))
             /\ c(bot[a]).pending = bot[a].pending /\ c(bot[a]).last = bot[a].last
             /\ c(bot[a]).app = bot[a].app /\ c(bot[a]).ends = bot[a].ends
             /\ c(bot[a]).played = bot[a].played
             /\ c(bot[a]) \in Bots /\ c(bot[a]).errs = bot[a].errs
             /\ c(bot[a]).loop =
                  IF bot[a].loop = MaxLoops THEN bot[a].loop ELSE bot[a].loop + 1
  <2> DEFINE x == Advanced(bot[a], over)
  <2>1. a \in Agents /\ bot[a].status = "inGame"
    BY DEF Players
  <2>2. bot[a] \in Bots /\ Agent(bot[a], Place(a)) /\ Place(a) \in Places
    BY <2>1, AgentFacts
  <2>3. /\ Becomes(bot[a], Place(a), c(bot[a]), Place(a))
        /\ Tells(bot[a], Place(a), c(bot[a]), Place(a))
    BY <1>1, <1>2, <2>1, <2>2, StepAnsweredTo
  <2>4. /\ x \in Bots /\ x.pending = bot[a].pending /\ x.last = bot[a].last
        /\ x.app = bot[a].app /\ x.ends = bot[a].ends /\ x.played = bot[a].played
        /\ x.errs = bot[a].errs
        /\ x.loop = IF bot[a].loop = MaxLoops THEN bot[a].loop ELSE bot[a].loop + 1
    BY <1>2, <2>1, <2>2, AdvancedFacts
  <2>5. FALSE \in BOOLEAN
    OBVIOUS
  <2> HIDE DEF x
  <2>6. /\ Answered(x, FALSE).pending = x.pending /\ Answered(x, FALSE).last = x.last
        /\ Answered(x, FALSE).app = x.app /\ Answered(x, FALSE).ends = x.ends
        /\ Answered(x, FALSE).played = x.played
        /\ Answered(x, FALSE).errs = x.errs /\ Answered(x, FALSE).loop = x.loop
    BY <2>4, <2>5, AnsweredFacts DEF Kept
  <2>7. c(bot[a]) = Answered(x, FALSE)
    BY DEF x
  <2> HIDE DEF c
  <2> QED BY <2>3, <2>4, <2>6, <2>7 DEF Becomes
<1> HIDE DEF c
<1>5. /\ bot' \in [Agents -> Bots]
      /\ \A a \in Agents : bot'[a] = IF a \in Players THEN c(bot[a]) ELSE bot[a]
  <2>1. bot \in [Agents -> Bots]
    BY TypeFacts DEF IInv
  <2> QED BY <1>1, <1>4, <2>1
<1>6. ASSUME NEW a \in Agents
      PROVE  /\ Becomes(bot[a], Place(a), bot'[a], Place(a))
             /\ Tells(bot[a], Place(a), bot'[a], Place(a))
             /\ bot'[a].pending = bot[a].pending /\ bot'[a].last = bot[a].last
             /\ bot'[a].app = bot[a].app /\ bot'[a].ends = bot[a].ends
             /\ bot'[a].played = bot[a].played
  <2>1. CASE a \in Players
    BY <1>4, <1>5, <2>1
  <2>2. CASE a \notin Players
    BY <1>5, <2>2, AgentFacts DEF To
  <2> QED BY <2>1, <2>2
<1>7. ASSUME Multiplayer, ~Realtime, NoErrors
      PROVE  ~left
  <2>1. PICK a \in Players : bot[a].request = "step"
    BY <1>1
  <2>2. a \in Agents
    BY DEF Players
  <2>3. /\ bot[a] \in Bots /\ Agent(bot[a], Place(a))
        /\ Place(a) \in Places /\ Place(a) # "gone"
    BY <2>2, AgentFacts, NotGone
  <2>4. Place(a) = "step"
    BY <2>1, <2>3, RequestFacts
  <2>5. Told(bot[a], "step")
    BY <1>7, <2>2, <2>4 DEF IInv, AgentsInv, EachInv
  <2> QED BY <1>7, <2>5 DEF Told, Playing
<1>8. ASSUME Multiplayer, ~Realtime, NoErrors, NEW a \in Agents, Plays(bot[a])'
      PROVE  a \in Players
  <2> SUFFICES ASSUME a \notin Players
               PROVE  FALSE
    OBVIOUS
  <2>1. bot'[a] = bot[a] /\ bot[a].status # "inGame"
    BY <1>5 DEF Players
  <2>2. bot[a].pending = "leave" /\ bot[a].last = "inGame"
    BY <1>8, <2>1 DEF Plays
  <2>3. /\ Agent(bot[a], Place(a)) /\ Place(a) \in Places /\ Place(a) # "gone"
        /\ Told(bot[a], Place(a)) /\ bot[a].errs = {}
    BY <1>8, AgentFacts, NotGone DEF IInv, AgentsInv, EachInv, NoErrors
  <2>4. Once /\ Normal(bot[a])
    BY <1>8, <2>3 DEF Once, SingleSerial, Agent, Link
  <2>5. bot[a].ends > 0
    BY <1>7, <1>8, <2>2, <2>3 DEF Told
  <2>6. Place(a) \in Resting
    BY <2>2, <2>3, <2>4 DEF Agent, Waits, Awaited, Places, Asking, Resting
  <2>7. bot[a].ends = 0
    BY <2>2, <2>3, <2>4, <2>6 DEF Agent, Ends, Over
  <2> QED BY <2>5, <2>7
<1>9. LoopsInv'
  <2>1. \A a \in Agents : bot'[a].errs = bot[a].errs
    BY <1>4, <1>5
  <2>2. NoErrors' => NoErrors
    BY <2>1, SettingsKept DEF NoErrors
  <2> SUFFICES ASSUME ~Realtime, Multiplayer, NoErrors
               PROVE  /\ \A a, b \in Agents : (Plays(bot[a]) /\ Plays(bot[b]))'
                           => bot'[a].loop = bot'[b].loop
                      /\ ~left
    BY <1>1, <2>2, SettingsKept DEF LoopsInv
  <2>3. ASSUME NEW a \in Agents, NEW b \in Agents, (Plays(bot[a]) /\ Plays(bot[b]))'
        PROVE  bot'[a].loop = bot'[b].loop
    <3>1. a \in Players /\ b \in Players
      BY <1>8, <2>3
    <3>2. bot[a].loop = bot[b].loop
      BY <3>1 DEF IInv, AgentsInv, LoopsInv, Players, Plays
    <3> QED BY <1>4, <1>5, <3>1, <3>2
  <2> QED BY <1>7, <2>3
<1> QED BY <1>1, <1>2, <1>3, <1>5, <1>6, <1>9, EnvKeeps

LEMMA TimePassesKeeps ==
  ASSUME IInv, settings' = settings, NEW over \in BOOLEAN, TimePasses(over)
  PROVE  IInv'
<1> DEFINE c(b) == Advanced(b, over)
<1>1. /\ UNCHANGED <<phase, turn, at, result, left, games, faults>>
      /\ Players # {} /\ Realtime
      /\ bot' = [a \in Agents |-> IF a \in Players THEN c(bot[a]) ELSE bot[a]]
  BY DEF TimePasses, Env
<1>2. settings \in Settings /\ faults' \in 0..MaxFaults
  BY <1>1, TypeFacts, FaultsKept DEF IInv
<1>3. games # 0
  BY <1>1, NoRequest DEF Players
<1>4. ASSUME NEW a \in Players
      PROVE  /\ To(bot[a], Place(a), c(bot[a]), Place(a))
             /\ c(bot[a]).pending = bot[a].pending /\ c(bot[a]).last = bot[a].last
             /\ c(bot[a]).app = bot[a].app /\ c(bot[a]).ends = bot[a].ends
             /\ c(bot[a]).played = bot[a].played
             /\ c(bot[a]) \in Bots
  <2>1. a \in Agents /\ bot[a].status = "inGame"
    BY DEF Players
  <2>2. bot[a] \in Bots /\ Agent(bot[a], Place(a)) /\ Place(a) \in Places
    BY <2>1, AgentFacts
  <2>3. To(bot[a], Place(a), c(bot[a]), Place(a))
    BY <1>1, <1>2, <2>1, <2>2, TimeTo
  <2> QED BY <1>2, <2>1, <2>2, <2>3, AdvancedFacts
<1> HIDE DEF c
<1>5. /\ bot' \in [Agents -> Bots]
      /\ \A a \in Agents : bot'[a] = IF a \in Players THEN c(bot[a]) ELSE bot[a]
  <2>1. bot \in [Agents -> Bots]
    BY TypeFacts DEF IInv
  <2> QED BY <1>1, <1>4, <2>1
<1>6. ASSUME NEW a \in Agents
      PROVE  /\ To(bot[a], Place(a), bot'[a], Place(a))
             /\ bot'[a].pending = bot[a].pending /\ bot'[a].last = bot[a].last
             /\ bot'[a].app = bot[a].app /\ bot'[a].ends = bot[a].ends
             /\ bot'[a].played = bot[a].played
  <2>1. CASE a \in Players
    BY <1>4, <1>5, <2>1
  <2>2. CASE a \notin Players
    BY <1>5, <2>2, AgentFacts
  <2> QED BY <2>1, <2>2
<1> QED BY <1>1, <1>2, <1>3, <1>5, <1>6, EnvToKeeps

LEMMA FaultsFacts ==
  ASSUME IInv, faults < MaxFaults, faults' = faults + 1
  PROVE  faults' \in 0..MaxFaults
<1>1. faults \in 0..MaxFaults /\ MaxFaults \in Nat
  BY TypeFacts DEF IInv
<1> QED BY <1>1

LEMMA GameRefusesKeeps ==
  ASSUME IInv, settings' = settings, NEW a \in Agents, GameRefuses(a)
  PROVE  IInv'
<1> DEFINE b == bot[a]
           c == Answered(b, TRUE)
<1>1. /\ UNCHANGED <<phase, turn, at, result, left, games>>
      /\ faults < MaxFaults /\ faults' = faults + 1
      /\ b.request # "none" /\ bot' = [bot EXCEPT ![a] = c]
  BY DEF GameRefuses
<1>2. games # 0 /\ settings \in Settings /\ faults' \in 0..MaxFaults
  BY <1>1, NoRequest, TypeFacts, FaultsFacts DEF IInv
<1>3. b \in Bots /\ Agent(b, Place(a)) /\ Place(a) \in Places /\ TRUE \in BOOLEAN
  BY AgentFacts
<1>4. To(b, Place(a), c, Place(a))
  BY <1>1, <1>2, <1>3, AnsweredTo
<1>5. /\ c.pending = b.pending /\ c.last = b.last /\ c.app = b.app
      /\ c.ends = b.ends /\ c.played = b.played
  BY <1>3, AnsweredFacts DEF Kept
<1> HIDE DEF c
<1> QED BY <1>1, <1>2, <1>4, <1>5, EnvOneKeeps

LEMMA GameBreaksKeeps ==
  ASSUME IInv, settings' = settings, NEW a \in Agents, GameBreaks(a)
  PROVE  IInv'
<1> DEFINE b == bot[a]
           c(v) == [b EXCEPT !.conn = v, !.request = "none", !.reply = NoReply,
                             !.errs = IF v = "closed" THEN @ \cup {"ConnectionClosed"}
                                      ELSE @]
<1>1. /\ UNCHANGED <<phase, turn, at, result, left, games>>
      /\ faults < MaxFaults /\ faults' = faults + 1 /\ b.conn = "up"
      /\ \E v \in {"hung", "closed"} : bot' = [bot EXCEPT ![a] = c(v)]
  BY DEF GameBreaks
<1>2. settings \in Settings /\ faults' \in 0..MaxFaults
  BY <1>1, TypeFacts, FaultsFacts DEF IInv
<1>3. b \in Bots /\ Agent(b, Place(a)) /\ Place(a) \in Places
  BY AgentFacts
<1>4. PICK v \in {"hung", "closed"} : bot' = [bot EXCEPT ![a] = c(v)]
  BY <1>1
<1>5. To(b, Place(a), c(v), Place(a))
  BY <1>1, <1>2, <1>3, BreaksTo
<1>6. /\ c(v).pending = b.pending /\ c(v).last = b.last /\ c(v).app = b.app
      /\ c(v).ends = b.ends /\ c(v).played = b.played /\ c(v).status = b.status
  BY <1>3 DEF Bots
<1> HIDE DEF c
<1> QED BY <1>1, <1>2, <1>4, <1>5, <1>6, EnvOneKeeps

-----------------------------------------------------------------------------
LEMMA InitKeeps ==
  ASSUME Init
  PROVE  IInv
<1>1. settings \in Settings
  BY DEF Init
<1>2. /\ 0 \in 0..MaxLoops /\ NumAgents \in Nat /\ NumAgents >= 1
      /\ NoReply \in Replies /\ NoReply.status = "none"
      /\ 0 \in 0..MaxGames /\ 0 \in 0..MaxFaults /\ 1 \in Agents
  BY <1>1, ConstantFacts, NoReplyFacts, AgentsAssumption DEF Agents
<1> DEFINE b == [pending |-> "none", last |-> "launched", app |-> "normal",
                 errs |-> {}, cur |-> 0, prev |-> 0,
                 conn |-> "up", request |-> "none", reply |-> NoReply,
                 status |-> "launched", loop |-> 0,
                 ends |-> 0, played |-> FALSE, seen |-> 0, again |-> FALSE]
<1>3. /\ phase = "user" /\ turn = 1 /\ at = [a \in Agents |-> "done"]
      /\ result = FALSE /\ left = FALSE /\ games = 0 /\ faults = 0
      /\ bot = [a \in Agents |-> b]
  BY DEF Init
<1>4. b \in Bots
  BY <1>2 DEF Bots, Replies
<1>5. /\ b.pending = "none" /\ b.last = "launched" /\ b.app = "normal"
      /\ b.errs = {} /\ b.conn = "up" /\ b.request = "none" /\ b.reply = NoReply
      /\ b.status = "launched" /\ b.ends = 0 /\ b.again = FALSE /\ b.played = FALSE
  OBVIOUS
<1> HIDE DEF b
<1>6. Agent(b, "new") /\ Lock(b, "new") /\ Told(b, "new")
  BY <1>2, <1>5 DEF Agent, Link, Knows, Waits, Awaited, Begun, Seen, InStep, Ends,
     Over, Lock, Told, Normal, IsInGame, CanSend, Asking, Resting, Playing
<1>7. TypeOK
  <2>1. bot \in [Agents -> Bots] /\ at \in [Agents -> Ats] /\ phase \in Phases
    BY <1>3, <1>4 DEF Ats, Phases
  <2>2. {result, left} \subseteq BOOLEAN
    BY <1>3
  <2> QED BY <1>1, <1>2, <1>3, <2>1, <2>2 DEF TypeOK, Ats, Phases
<1>8. AgentsInv
  <2>1. \A a \in Agents : Place(a) = "new" /\ bot[a] = b
    BY <1>3, PlaceFacts
  <2>2. \A a \in Agents : ~Plays(bot[a]) /\ bot[a].status # "inGame"
    BY <1>5, <2>1 DEF Plays
  <2> QED BY <1>6, <2>1, <2>2 DEF AgentsInv, EachInv, LoopsInv
<1>9. AtInv /\ RestInv /\ FreshInv
  BY <1>3, <1>5 DEF AtInv, RestInv, FreshInv, IsInGame
<1> QED BY <1>7, <1>8, <1>9 DEF IInv

LEMMA StutterKeeps ==
  ASSUME IInv, UNCHANGED vars
  PROVE  IInv'
<1>1. settings' = settings /\ faults' = faults
      /\ UNCHANGED <<phase, turn, at, result, left, games, bot>>
  BY DEF vars
<1>2. bot' \in [Agents -> Bots]
  BY <1>1, TypeFacts DEF IInv
<1>3. faults' \in 0..MaxFaults
  BY <1>1, FaultsKept
<1>4. \A a \in Agents : To(bot[a], Place(a), bot'[a], Place(a))
  BY <1>1, AgentFacts
<1> QED BY <1>1, <1>2, <1>3, <1>4, EnvToKeeps

LEMMA NextKeeps ==
  ASSUME IInv, Next
  PROVE  IInv'
<1>1. settings' = settings
  BY DEF Next
<1>2. ASSUME GameRuns
      PROVE  IInv'
  <2>1. ~Stops
    BY DEF Next
  <2> QED BY <1>1, <1>2, <2>1, GameAnswersKeeps, GameBeginsKeeps, GameStepsKeeps DEF GameRuns
<1>3. ASSUME Faults
      PROVE  IInv'
  BY <1>1, <1>3, GameRefusesKeeps, GameBreaksKeeps DEF Faults
<1> QED BY <1>1, <1>2, <1>3, UserKeeps, StartGameKeeps, CoordinatesKeeps,
           AgentRunsKeeps, TimesOutKeeps, TimePassesKeeps DEF Next

THEOREM Inductive == Spec => []IInv
<1>1. Init => IInv
  BY InitKeeps
<1>2. IInv /\ [Next]_vars => IInv'
  BY NextKeeps, StutterKeeps
<1> QED BY <1>1, <1>2, PTL DEF Spec
-----------------------------------------------------------------------------
(***************************************************************************)
(* What follows from the invariant alone                                   *)
(***************************************************************************)

(* The variables keep to their types, whatever the settings, the number of *)
(* agents and the faults.                                                  *)
THEOREM TypeCorrect == Spec => []TypeOK
<1>1. IInv => TypeOK
  BY DEF IInv
<1> QED BY <1>1, Inductive, PTL

(* IssueEvents calls OnStep once for each loop that was observed, as long  *)
(* as nothing has failed: the two loops it compares differ when, and only  *)
(* when, an observation has come in since.                                 *)
THEOREM EventsOnce == Spec => []EventsComeOnce
<1>1. IInv => EventsComeOnce
  BY AgentFacts DEF EventsComeOnce, Agent, Seen
<1> QED BY <1>1, Inductive, PTL

(* The user of a single agent that is stepped in turn does not go on when  *)
(* Update has returned false: it would call OnGameEnd again and again, as  *)
(* only PollLeaveGame, for multiplayer games, keeps its callbacks back.    *)
UserStops ==
  \A s \in Settings :
    ~s.multiplayer /\ ~s.multiThreaded /\ ~s.realtime => ~s.keepsUpdating

(* When Update returns false every agent that was in the game has had its  *)
(* OnGameEnd, unless it gets its callbacks in turns; and nobody has it     *)
(* twice, if the users of single agents stop.                              *)
THEOREM EndAnnounced ==
  ASSUME UserStops
  PROVE  Spec => []EndIsAnnounced
<1>1. ASSUME IInv
      PROVE  EndIsAnnounced
  <2>1. ASSUME NEW a \in Agents
        PROVE  bot[a].ends <= 1
    <3>1. Once
      BY <1>1, TypeFacts DEF UserStops, IInv, Once, SingleSerial, Serial,
         MultiThreaded, Realtime, Multiplayer, KeepsUpdating
    <3> QED BY <1>1, <3>1, AgentFacts DEF Agent, Ends
  <2>2. ASSUME ~InTurns, phase = "user", ~result, games > 0, NoErrors, ~left,
               NEW a \in Agents, bot[a].played
        PROVE  bot[a].ends > 0
    <3>1. games # 0
      BY <1>1, <2>2, TypeFacts DEF IInv
    <3>2. Place(a) = "done"
      BY <2>2, <3>1, PlaceFacts
    <3>3. Told(bot[a], "done") /\ ~IsInGame(bot[a])
      BY <1>1, <2>2, <3>2 DEF IInv, AgentsInv, EachInv, RestInv
    <3> QED BY <2>2, <3>3 DEF Told
  <2> QED BY <2>1, <2>2 DEF EndIsAnnounced, EndIsAnnouncedAlways
<1> QED BY <1>1, Inductive, PTL

(* The agents of a stepped game are at the same loop when Update returns:  *)
(* none was left behind and none steps ahead of the others.                *)
THEOREM KeepInStep == Spec => []AgentsInStep
<1>1. IInv => AgentsInStep
  <2> SUFFICES ASSUME IInv,
                      phase = "user", ~Realtime, NoErrors,
                      NEW a \in Agents, NEW b \in Agents,
                      IsInGame(bot[a]), IsInGame(bot[b])
               PROVE  bot[a].cur = bot[b].cur
    BY DEF AgentsInStep
  <2>1. games # 0
    BY DEF FreshInv, IInv, IsInGame
  <2>2. Place(a) = "done" /\ Place(b) = "done"
    BY <2>1, PlaceFacts
  <2>3. Lock(bot[a], "done") /\ Lock(bot[b], "done")
    BY <2>2 DEF IInv, AgentsInv, EachInv
  <2>4. /\ bot[a].cur = bot[a].loop /\ Plays(bot[a])
        /\ bot[b].cur = bot[b].loop /\ Plays(bot[b])
    BY <2>3 DEF Lock, NoErrors, IsInGame, Plays, Resting
  <2>5. CASE Multiplayer
    BY <2>4, <2>5 DEF IInv, AgentsInv, LoopsInv
  <2>6. CASE ~Multiplayer
    <3>1. a = 1 /\ b = 1
      BY <2>6, TypeFacts, ConstantFacts DEF IInv
    <3> QED BY <3>1
  <2> QED BY <2>5, <2>6
<1> QED BY <1>1, Inductive, PTL

-----------------------------------------------------------------------------
(***************************************************************************)
(* The next game                                                           *)
(***************************************************************************)
Excused == InTurns \/ faults > 0 \/ (games > 1 /\ \E a \in Agents : ~bot[a].played)

Free(b) == b.status = "launched" \/ (~Multiplayer /\ b.status = "ended")

(* The first agent's SC2 can create the game that it is asked for.         *)
Creates(b) == IF b.reply = NoReply THEN Free(b) ELSE ~b.reply.bad

StartInv ==
  ~Excused =>
    /\ phase # "exit"
    /\ phase \in {"creating", "join"} => NoErrors
    /\ phase = "creating" => Creates(bot[First])

LEMMA ExcusedKept ==
  ASSUME settings' = settings, games' = games, faults' = faults,
         \A a \in Agents : bot'[a].played = bot[a].played
  PROVE  Excused' <=> Excused
BY SettingsKept DEF Excused, InTurns, Multiplayer, MultiThreaded, Realtime

(* Every process that may be asked for a game, after one, has left it.     *)
LEMMA FreeFacts ==
  ASSUME IInv, phase = "user", ~result, NoErrors, NEW a \in Agents,
         games = 0 \/ (~InTurns /\ bot[a].played)
  PROVE  Free(bot[a]) /\ bot[a].reply = NoReply
<1> DEFINE b == bot[a]
<1>1. b.pending = "none" /\ ~IsInGame(b) /\ b.errs = {}
  BY DEF IInv, RestInv, NoErrors
<1>2. Agent(b, Place(a)) /\ Told(b, Place(a)) /\ b \in Bots
  BY AgentFacts DEF IInv, AgentsInv, EachInv
<1>3. b.reply = NoReply /\ Normal(b) /\ NoReply.status = "none"
  BY <1>1, <1>2, TypeFacts, NoReplyFacts DEF IInv, Agent, Link
<1>4. CASE games = 0
  BY <1>3, <1>4 DEF IInv, FreshInv, Free
<1>5. CASE games # 0 /\ Multiplayer
  <2>1. Place(a) = "done"
    BY <1>5, PlaceFacts
  <2>2. left \/ b.ends > 0
    BY <1>1, <1>2, <1>5, <2>1 DEF Told
  <2> QED BY <1>1, <1>2, <1>3, <1>5, <2>1, <2>2 DEF Told, Resting, Free
<1>6. CASE games # 0 /\ ~Multiplayer
  <2>1. Place(a) = "done"
    BY <1>6, PlaceFacts
  <2>2. b.status # "init"
    BY <1>1, <1>2, <2>1 DEF Agent, Begun, Resting
  <2>3. b.status # "inGame"
    BY <1>1, <1>2, <1>3, <2>1 DEF Agent, Knows, IsInGame, Normal
  <2>4. b.status \in {"launched", "init", "inGame", "ended"}
    BY <1>2 DEF Bots
  <2> QED BY <1>3, <1>6, <2>2, <2>3, <2>4 DEF Free
<1> QED BY <1>4, <1>5, <1>6

LEMMA CallStartGameStarts ==
  ASSUME IInv, settings' = settings, CallStartGame
  PROVE  StartInv'
<1> DEFINE b == bot[First]
           c == Sent(b, "create")
<1>1. /\ phase = "user" /\ ~result /\ NoErrors /\ games' = games + 1
      /\ faults' = faults
      /\ IF CanSend(b) THEN Leaves("creating") ELSE Leaves("exit")
      /\ bot' = [bot EXCEPT ![First] = c]
  BY DEF CallStartGame, NoErrors
<1>2. /\ First \in Agents /\ bot \in [Agents -> Bots] /\ games \in Nat
      /\ settings \in Settings
  BY TypeFacts DEF IInv
<1>3. b \in Bots /\ Agent(b, Place(First)) /\ Place(First) \in {"new", "done"}
  BY <1>1, <1>2, AgentFacts, PlaceFacts
<1>4. b.pending = "none" /\ b.errs = {}
  BY <1>1, <1>2 DEF IInv, RestInv, NoErrors
<1>5. CanSend(b)
  BY <1>3, <1>4, CreatesTo
<1>6. "create" \in Kinds
  BY DEF Kinds
<1>7. /\ c.status = b.status /\ c.reply = b.reply /\ c.errs = b.errs
      /\ c.played = b.played
  BY <1>3, <1>5, <1>6, SentFacts DEF Kept
<1> HIDE DEF c
<1>8. \A a \in Agents : bot'[a] = IF a = First THEN c ELSE bot[a]
  BY <1>1, <1>2
<1>9. /\ \A a \in Agents : bot'[a].played = bot[a].played /\ bot'[a].errs = bot[a].errs
      /\ bot'[First].reply = b.reply /\ bot'[First].status = b.status
  BY <1>2, <1>7, <1>8
<1>10. NoErrors'
  BY <1>1, <1>9, SettingsKept DEF NoErrors
<1>11. phase' = "creating"
  BY <1>1, <1>5 DEF Leaves
<1>12. ASSUME ~Excused'
       PROVE  Free(b) /\ b.reply = NoReply
  <2>1. ~InTurns
    BY <1>12 DEF Excused, InTurns, Multiplayer, MultiThreaded, Realtime
  <2>2. games # 0 => b.played
    <3>1. games # 0 => games' > 1
      BY <1>1, <1>2
    <3>2. games' > 1 => bot'[First].played
      BY <1>2, <1>12, SettingsKept DEF Excused
    <3> QED BY <1>2, <1>9, <3>1, <3>2
  <2> QED BY <1>1, <1>2, <2>1, <2>2, FreeFacts
<1>13. ~Excused' => Creates(bot[First])'
  BY <1>9, <1>12, SettingsKept DEF Creates, Free, First, NoReply
<1> QED BY <1>10, <1>11, <1>13 DEF StartInv

LEMMA CreateReturnsStarts ==
  ASSUME IInv, StartInv, settings' = settings, CreateReturns
  PROVE  StartInv'
<1> DEFINE b == bot[First]
           c == Got(b)
<1>1. /\ phase = "creating" /\ b.reply # NoReply /\ bot' = [bot EXCEPT ![First] = c]
      /\ phase' = IF b.reply.bad THEN "exit" ELSE "join"
      /\ games' = games /\ faults' = faults
  BY DEF CreateReturns, Leaves
<1>2. First \in Agents /\ bot \in [Agents -> Bots] /\ settings \in Settings
  BY TypeFacts DEF IInv
<1>3. b \in Bots /\ Agent(b, Place(First))
  BY <1>2, AgentFacts
<1>4. b.reply.status # "none"
  BY <1>1, <1>3 DEF Agent, Link
<1>5. /\ c.played = b.played
      /\ ~b.reply.bad => c.errs = b.errs
  BY <1>2, <1>3, <1>4, GotFacts DEF Kept
<1> HIDE DEF c
<1>6. \A a \in Agents : bot'[a] = IF a = First THEN c ELSE bot[a]
  BY <1>1, <1>2
<1>7. Excused' <=> Excused
  BY <1>1, <1>5, <1>6, ExcusedKept
<1>8. ASSUME ~Excused
      PROVE  phase' = "join" /\ NoErrors'
  <2>1. ~b.reply.bad /\ NoErrors
    BY <1>1, <1>8 DEF StartInv, Creates
  <2> QED BY <1>1, <1>5, <1>6, <2>1, SettingsKept DEF NoErrors
<1> QED BY <1>7, <1>8 DEF StartInv

LEMMA JoinRequestsStarts ==
  ASSUME IInv, StartInv, settings' = settings, JoinRequests
  PROVE  StartInv'
<1> DEFINE b == bot[turn]
           x == [b EXCEPT !.ends = 0, !.seen = 0, !.again = FALSE]
           c == Sent(x, "join")
<1>1. /\ phase = "join" /\ bot' = [bot EXCEPT ![turn] = c]
      /\ IF CanSend(b) THEN NextTurn("joining") ELSE Leaves("exit")
      /\ games' = games /\ faults' = faults
  BY DEF JoinRequests
<1>2. /\ turn \in Agents /\ turn \in Nat /\ bot \in [Agents -> Bots]
      /\ settings \in Settings
  BY TypeFacts DEF IInv
<1>3. Place(turn) = "out"
  BY <1>1, <1>2, PlaceFacts
<1>4. b \in Bots /\ Agent(b, "out")
  BY <1>2, <1>3, AgentFacts
<1>5. b.pending = "none" /\ (b.errs = {} => CanSend(b))
  BY <1>4 DEF Agent, Link, Waits, Awaited, CanSend, Asking, Normal, Resting
<1>6. 0 \in 0..MaxLoops /\ 0 \in 0..2 /\ FALSE \in BOOLEAN /\ "join" \in Kinds
  BY <1>2, ConstantFacts DEF Kinds
<1>7. x \in Bots
  BY <1>4, <1>6, ZenonT(30) DEF Bots
<1>8. x.played = b.played /\ x.errs = b.errs /\ x.pending = b.pending /\ x.conn = b.conn
  BY <1>4 DEF Bots
<1> HIDE DEF x
<1>9. c.played = x.played /\ (CanSend(x) => c.errs = x.errs)
  BY <1>6, <1>7, SentFacts DEF Kept
<1> HIDE DEF c
<1>10. \A a \in Agents : bot'[a] = IF a = turn THEN c ELSE bot[a]
  BY <1>1, <1>2
<1>11. Excused' <=> Excused
  BY <1>1, <1>8, <1>9, <1>10, ExcusedKept
<1>12. ASSUME ~Excused
       PROVE  phase' \in {"join", "joining"} /\ NoErrors'
  <2>1. NoErrors
    BY <1>1, <1>12 DEF StartInv
  <2>2. CanSend(b) /\ c.errs = b.errs
    BY <1>2, <1>5, <1>8, <1>9, <2>1 DEF NoErrors, CanSend
  <2>3. phase' \in {"join", "joining"}
    BY <1>1, <2>2, TurnFacts DEF IInv
  <2> QED BY <1>10, <2>1, <2>2, <2>3, SettingsKept DEF NoErrors
<1> QED BY <1>11, <1>12 DEF StartInv

(* SC2 acts while the first agent waits for its game.                      *)
LEMMA EnvStarts ==
  ASSUME IInv, StartInv, settings' = settings,
         UNCHANGED <<phase, games, faults>>,
         \A a \in Agents : bot'[a].played = bot[a].played /\ bot'[a].errs = bot[a].errs,
         phase = "creating" /\ ~Excused /\ Creates(bot[First]) => Creates(bot[First])'
  PROVE  StartInv'
<1>1. Excused' <=> Excused
  BY ExcusedKept
<1>2. NoErrors' <=> NoErrors
  BY SettingsKept DEF NoErrors
<1> QED BY <1>1, <1>2 DEF StartInv

(* The first agent asks for nothing but the game.                          *)
LEMMA CreatorFacts ==
  ASSUME IInv, phase = "creating"
  PROVE  /\ First \in Agents /\ bot[First] \in Bots
         /\ bot[First].request \in {"none", "create"}
         /\ bot[First].request # "none" => bot[First].reply = NoReply
<1>1. First \in Agents
  BY TypeFacts DEF IInv
<1>2. bot[First] \in Bots /\ Agent(bot[First], "create")
  BY <1>1, AgentFacts, PlaceFacts
<1>3. Link(bot[First]) /\ Waits(bot[First], "create")
  BY <1>2 DEF Agent
<1>4. bot[First].pending = "create"
  BY <1>3 DEF Waits, Awaited, Asking, Resting
<1>5. bot[First].request # "none" =>
        bot[First].request = "create" /\ bot[First].reply = NoReply
  BY <1>3, <1>4 DEF Link
<1> QED BY <1>1, <1>2, <1>5

LEMMA GameAnswersStarts ==
  ASSUME IInv, StartInv, settings' = settings, NEW r \in Agents, GameAnswers(r)
  PROVE  StartInv'
<1> DEFINE b == bot[r]
<1>1. UNCHANGED <<phase, turn, at, result, left, games, faults>> /\ b.request # "none"
  BY DEF GameAnswers, Env
<1>2. b \in Bots /\ bot \in [Agents -> Bots] /\ settings \in Settings
  BY AgentFacts, TypeFacts DEF IInv
<1>3. ASSUME NEW x \in Bots, NEW bad \in BOOLEAN,
             x.errs = b.errs, x.played = b.played,
             bot' = [bot EXCEPT ![r] = Answered(x, bad)],
             phase = "creating" /\ r = First /\ Free(b) => ~bad
      PROVE  StartInv'
  <2> DEFINE c == Answered(x, bad)
  <2>1. c.errs = b.errs /\ c.played = b.played /\ c.reply # NoReply /\ c.reply.bad = bad
    BY <1>3, AnsweredFacts DEF Kept
  <2>2. \A a \in Agents : bot'[a] = IF a = r THEN c ELSE bot[a]
    BY <1>2, <1>3
  <2> HIDE DEF c
  <2>3. ASSUME phase = "creating", Creates(bot[First])
        PROVE  Creates(bot[First])'
    <3>1. First \in Agents /\ (b.request # "none" /\ r = First => b.reply = NoReply)
      BY <2>3, CreatorFacts
    <3>2. CASE r = First
      <4>1. ~bad
        BY <1>1, <1>3, <2>3, <3>1, <3>2 DEF Creates
      <4>2. bot'[First].reply # NoReply /\ ~bot'[First].reply.bad
        BY <2>1, <2>2, <3>1, <3>2, <4>1
      <4> QED BY <4>2, SettingsKept DEF Creates, First, NoReply
    <3>3. CASE r # First
      <4>1. bot'[First] = bot[First]
        BY <2>2, <3>1, <3>3
      <4> QED BY <2>3, <4>1, SettingsKept DEF Creates, Free, First, NoReply
    <3> QED BY <3>2, <3>3
  <2> QED BY <1>1, <2>1, <2>2, <2>3, EnvStarts
<1>4. ASSUME NEW bad \in BOOLEAN, bot' = [bot EXCEPT ![r] = Answered(b, bad)],
             phase = "creating" /\ r = First /\ Free(b) => ~bad
      PROVE  StartInv'
  BY <1>2, <1>3, <1>4
<1>5. ASSUME NEW v \in {"init", "launched"},
             bot' = [bot EXCEPT ![r] = Answered([b EXCEPT !.status = v], FALSE)]
      PROVE  StartInv'
  <2> DEFINE x == [b EXCEPT !.status = v]
             bad == FALSE
  <2>1. x \in Bots /\ x.errs = b.errs /\ x.played = b.played
    BY <1>2 DEF Bots
  <2>2. bad \in BOOLEAN /\ ~bad
    OBVIOUS
  <2>3. bot' = [bot EXCEPT ![r] = Answered(x, bad)]
    BY <1>5
  <2> HIDE DEF x, bad
  <2> QED BY <1>3, <2>1, <2>2, <2>3
<1>6. TRUE \in BOOLEAN /\ FALSE \in BOOLEAN
  OBVIOUS
<1>7. CASE b.request \in {"observation", "action"}
           /\ bot' = [bot EXCEPT ![r] = Answered(b, FALSE)]
  BY <1>4, <1>6, <1>7
<1>8. CASE b.request = "step" /\ bot' = [bot EXCEPT ![r] = Answered(b, TRUE)]
  <2>1. ~(phase = "creating" /\ r = First)
    BY <1>8, CreatorFacts
  <2> QED BY <1>4, <1>6, <1>8, <2>1
<1>9. CASE b.request = "create" /\ ~Free(b)
           /\ bot' = [bot EXCEPT ![r] = Answered(b, TRUE)]
  BY <1>4, <1>6, <1>9
<1>10. CASE bot' = [bot EXCEPT ![r] = Answered([b EXCEPT !.status = "init"], FALSE)]
  BY <1>5, <1>10
<1>11. CASE bot' = [bot EXCEPT ![r] = Answered([b EXCEPT !.status = "launched"], FALSE)]
  BY <1>5, <1>11
<1> QED BY <1>7, <1>8, <1>9, <1>10, <1>11 DEF GameAnswers, Env, Free

LEMMA GameBeginsStarts ==
  ASSUME IInv, StartInv, settings' = settings, GameBegins
  PROVE  StartInv'
<1> DEFINE x(b) == [b EXCEPT !.status = "inGame", !.loop = 1]
           c(b) == Answered(x(b), FALSE)
<1>1. /\ UNCHANGED <<phase, turn, at, result, left, games, faults>>
      /\ \A a \in Agents : bot[a].request = "join"
      /\ bot' = [a \in Agents |-> c(bot[a])]
  BY DEF GameBegins, Env
<1>2. settings \in Settings
  BY TypeFacts DEF IInv
<1>3. ASSUME NEW a \in Agents
      PROVE  bot'[a].played = bot[a].played /\ bot'[a].errs = bot[a].errs
  <2>1. bot[a] \in Bots /\ 1 \in 0..MaxLoops
    BY <1>2, AgentFacts, ConstantFacts
  <2>2. x(bot[a]) \in Bots /\ FALSE \in BOOLEAN
    BY <2>1 DEF Bots
  <2>3. x(bot[a]).played = bot[a].played /\ x(bot[a]).errs = bot[a].errs
    BY <2>1 DEF Bots
  <2>4. c(bot[a]).played = x(bot[a]).played /\ c(bot[a]).errs = x(bot[a]).errs
    BY <2>2, AnsweredFacts DEF Kept
  <2>5. bot'[a] = c(bot[a])
    BY <1>1
  <2> HIDE DEF x, c
  <2> QED BY <2>3, <2>4, <2>5
<1>4. phase # "creating"
  BY <1>1, CreatorFacts
<1> QED BY <1>1, <1>3, <1>4, EnvStarts

LEMMA GameStepsStarts ==
  ASSUME IInv, StartInv, settings' = settings, NEW over \in BOOLEAN, GameSteps(over)
  PROVE  StartInv'
<1> DEFINE c(b) == Answered(Advanced(b, over), FALSE)
<1>1. /\ UNCHANGED <<phase, turn, at, result, left, games, faults>>
      /\ \A a \in Players : bot[a].request = "step"
      /\ bot' = [a \in Agents |-> IF a \in Players THEN c(bot[a]) ELSE bot[a]]
  BY DEF GameSteps, Env
<1>2. settings \in Settings
  BY TypeFacts DEF IInv
<1>3. ASSUME NEW a \in Agents
      PROVE  bot'[a].played = bot[a].played /\ bot'[a].errs = bot[a].errs
  <2> DEFINE x == Advanced(bot[a], over)
  <2>1. CASE a \in Players
    <3>1. bot[a] \in Bots /\ bot[a].status = "inGame"
      BY <2>1, AgentFacts DEF Players
    <3>2. x \in Bots /\ x.played = bot[a].played /\ x.errs = bot[a].errs
          /\ FALSE \in BOOLEAN
      BY <1>2, <3>1, AdvancedFacts
    <3>3. bot'[a] = Answered(x, FALSE)
      BY <1>1, <2>1
    <3> HIDE DEF x
    <3>4. /\ Answered(x, FALSE).played = x.played
          /\ Answered(x, FALSE).errs = x.errs
      BY <3>2, AnsweredFacts DEF Kept
    <3> QED BY <3>2, <3>3, <3>4
  <2>2. CASE a \notin Players
    BY <1>1, <2>2
  <2> QED BY <2>1, <2>2
<1>4. ASSUME phase = "creating"
      PROVE  bot'[First] = bot[First]
  <2>1. First \in Agents /\ First \notin Players
    BY <1>1, <1>4, CreatorFacts
  <2> QED BY <1>1, <2>1
<1>5. phase = "creating" /\ Creates(bot[First]) => Creates(bot[First])'
  BY <1>4, SettingsKept DEF Creates, Free, First, NoReply
<1> QED BY <1>1, <1>3, <1>5, EnvStarts

LEMMA TimePassesStarts ==
  ASSUME IInv, StartInv, settings' = settings, NEW over \in BOOLEAN, TimePasses(over)
  PROVE  StartInv'
<1> DEFINE c(b) == Advanced(b, over)
<1>1. /\ UNCHANGED <<phase, turn, at, result, left, games, faults>>
      /\ bot' = [a \in Agents |-> IF a \in Players THEN c(bot[a]) ELSE bot[a]]
  BY DEF TimePasses, Env
<1>2. settings \in Settings
  BY TypeFacts DEF IInv
<1>3. ASSUME NEW a \in Agents
      PROVE  /\ bot'[a].played = bot[a].played /\ bot'[a].errs = bot[a].errs
             /\ bot'[a].reply = bot[a].reply
             /\ bot[a].status # "inGame" => bot'[a].status = bot[a].status
  <2>1. CASE a \in Players
    <3>1. bot[a] \in Bots /\ bot[a].status = "inGame"
      BY <2>1, AgentFacts DEF Players
    <3>2. /\ c(bot[a]).played = bot[a].played /\ c(bot[a]).errs = bot[a].errs
          /\ c(bot[a]).reply = bot[a].reply
      BY <1>2, <3>1, AdvancedFacts
    <3>3. bot'[a] = c(bot[a])
      BY <1>1, <2>1
    <3> HIDE DEF c
    <3> QED BY <3>1, <3>2, <3>3
  <2>2. CASE a \notin Players
    BY <1>1, <2>2
  <2> QED BY <2>1, <2>2
<1>4. ASSUME phase = "creating", Creates(bot[First])
      PROVE  Creates(bot[First])'
  <2>1. First \in Agents
    BY <1>4, CreatorFacts
  <2>2. bot[First].reply = NoReply => Free(bot[First]) /\ bot[First].status # "inGame"
    BY <1>4 DEF Creates, Free
  <2> QED BY <1>3, <1>4, <2>1, <2>2, SettingsKept DEF Creates, Free, First, NoReply
<1> QED BY <1>1, <1>3, <1>4, EnvStarts

(* The other steps start no game, and leave none that is being started.    *)
LEMMA Elsewhere ==
  ASSUME phase' \notin {"exit", "creating", "join"}
  PROVE  StartInv'
BY DEF StartInv

LEMMA NextKeepsStart ==
  ASSUME IInv, StartInv, Next
  PROVE  StartInv'
<1>1. settings' = settings /\ ~Stops
  BY DEF Next
<1>2. TypeOK /\ First \in Agents /\ faults \in Nat
  BY TypeFacts DEF IInv
<1>3. ASSUME User
      PROVE  StartInv'
  <2>1. CASE CallStartGame
    BY <1>1, <2>1, CallStartGameStarts
  <2>2. CASE CallUpdate \/ CallLeaveGame \/ CallWaitForAllResponses
    <3>1. phase' \in {"stepping", "user", "draining"}
      BY <2>2 DEF CallUpdate, CallLeaveGame, CallWaitForAllResponses
    <3> QED BY <3>1, Elsewhere
  <2> QED BY <1>3, <2>1, <2>2 DEF User
<1>4. ASSUME StartGame
      PROVE  StartInv'
  <2>1. CASE CreateReturns \/ JoinRequests
    BY <1>1, <2>1, CreateReturnsStarts, JoinRequestsStarts
  <2>2. CASE JoinReturns
    <3>1. phase = "joining" /\ NextTurn("joined")
      BY <2>2 DEF JoinReturns
    <3>2. phase' \in {"joining", "joined"}
      BY <1>2, <3>1, TurnFacts
    <3> QED BY <3>2, Elsewhere
  <2>3. CASE FirstObservation
    <3>1. phase = "observing" /\ (phase' = "observed" \/ NextTurn("starting"))
      BY <2>3 DEF FirstObservation
    <3>2. phase' \in {"observing", "observed", "starting"}
      BY <1>2, <3>1, TurnFacts
    <3> QED BY <3>2, Elsewhere
  <2>4. CASE JoinChecks \/ FirstObservationReturns \/ StartsGame
    <3>1. phase' \in {"user", "observing", "starting"}
      BY <2>4 DEF JoinChecks, FirstObservationReturns, StartsGame, Leaves
    <3> QED BY <3>1, Elsewhere
  <2> QED BY <1>4, <2>1, <2>2, <2>3, <2>4 DEF StartGame
<1>5. ASSUME Coordinates
      PROVE  StartInv'
  <2>1. CASE StepsDone
    <3>1. /\ phase = "stepping"
          /\ phase' \in {"callbacks", "checking"} \/ NextTurn("checking")
      BY <2>1 DEF StepsDone, Leaves
    <3>2. phase' \in {"stepping", "callbacks", "checking"}
      BY <1>2, <3>1, TurnFacts
    <3> QED BY <3>2, Elsewhere
  <2>2. CASE CallbackDone
    <3>1. phase = "callbacks" /\ NextTurn("checking")
      BY <2>2 DEF CallbackDone
    <3>2. phase' \in {"callbacks", "checking"}
      BY <1>2, <3>1, TurnFacts
    <3> QED BY <3>2, Elsewhere
  <2>3. CASE UpdateReturns \/ WaitForAllResponses
    <3>1. phase' \in {"user", "draining"}
      BY <2>3 DEF UpdateReturns, WaitForAllResponses
    <3> QED BY <3>1, Elsewhere
  <2> QED BY <1>5, <2>1, <2>2, <2>3 DEF Coordinates
<1>6. ASSUME NEW a \in Agents, AgentRuns(a)
      PROVE  StartInv'
  <2>1. Runs(a) /\ phase' = phase
    BY <1>6 DEF AgentRuns, StepAgent, StepReturns, ObservationReturns, CallOnStep,
       ActionsReturn, SerialCallback, Observes, Goes
  <2>2. phase' \notin {"exit", "creating", "join"}
    BY <2>1 DEF Runs
  <2> QED BY <2>2, Elsewhere
<1>7. ASSUME TimesOut
      PROVE  StartInv'
  <2>1. faults > 0 /\ faults' = faults
    BY <1>7 DEF TimesOut, StartTimesOut, StepTimesOut, WaitTimesOut, NoAnswer, Broken,
       Goes
  <2> QED BY <2>1 DEF StartInv, Excused
<1>8. ASSUME GameRuns
      PROVE  StartInv'
  BY <1>1, <1>8, GameAnswersStarts, GameBeginsStarts, GameStepsStarts DEF GameRuns
<1>9. ASSUME NEW over \in BOOLEAN, TimePasses(over)
      PROVE  StartInv'
  BY <1>1, <1>9, TimePassesStarts
<1>10. ASSUME Faults
       PROVE  StartInv'
  <2>1. faults' = faults + 1
    BY <1>10 DEF Faults, GameRefuses, GameBreaks
  <2>2. faults' > 0
    BY <1>2, <2>1
  <2> QED BY <2>2 DEF StartInv, Excused
<1> QED BY <1>3, <1>4, <1>5, <1>6, <1>7, <1>8, <1>9, <1>10 DEF Next

(* A user who starts the next game when Update has returned false is not   *)
(* thrown out by the exit(1) of StartGame: every agent that was in the     *)
(* game, however it ended, has left it, so that SC2 can create another and *)
(* nothing is pending that a request would run into.                       *)
THEOREM NextStarts == Spec => []NextGameStarts
<1>1. Init => StartInv
  BY DEF Init, StartInv
<1>2. IInv /\ StartInv /\ [Next]_vars => StartInv'
  <2>1. ASSUME StartInv, UNCHANGED vars
        PROVE  StartInv'
    BY <2>1 DEF StartInv, Excused, Creates, Free, InTurns, Multiplayer, MultiThreaded,
       Realtime, First, NoErrors, Agents, NumAgents, NoReply, vars
  <2> QED BY <2>1, NextKeepsStart
<1>3. StartInv => NextGameStarts
  BY DEF StartInv, NextGameStarts, Excused
<1> QED BY <1>1, <1>2, <1>3, Inductive, PTL DEF Spec
=============================================================================
