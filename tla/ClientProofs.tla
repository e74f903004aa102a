----------------------------- MODULE ClientProofs -----------------------------
(***************************************************************************)
(* The invariants of Client, for any set of programs and tables and any    *)
(* number of commands, games, loops and faults.                            *)
(***************************************************************************)
EXTENDS Client, SequenceTheorems, TLAPS

(* There is a map from the first answer of the coordinator's on, and a     *)
(* game that goes on has loops left.                                       *)
GameInv ==
  /\ sc2.map <= sc2.game
  /\ phase \notin {"out", "over"} => sc2.map >= 1
  /\ ~sc2.ended => sc2.loop < MaxLoops
  /\ sc2.saved < MaxLoops

-----------------------------------------------------------------------------
USE DEF vars, caches, hist

(***************************************************************************)
(* Types                                                                   *)
(***************************************************************************)

LEMMA ConstantFacts ==
  /\ MaxCommands \in Nat /\ MaxGames \in Nat /\ MaxFaults \in Nat
  /\ MaxLoops \in Nat /\ MaxLoops > 0 /\ "abilities" \in Tables
BY ClientAssumption

(* What a request may do to the connection.                                *)
LEMMA WaitsFacts ==
  ASSUME TypeOK, NEW o, NEW errs \in BOOLEAN, Waits(o, errs)
  PROVE  /\ link' \in Links /\ o \in Outcomes
         /\ link.errors \/ errs \/ o # "ok" => link'.errors
         /\ ~link'.errors => o = "ok" /\ ~link.errors
<1>1. /\ link.open \in BOOLEAN /\ link.errors \in BOOLEAN
      /\ link.faults \in 0..MaxFaults /\ link.app \in {"normal", "failed"}
  BY DEF TypeOK, Links
<1> DEFINE e == link.errors \/ errs \/ o # "ok"
           f == IF o # "ok" /\ link.open THEN link.faults + 1 ELSE link.faults
<1>2. o \in Outcomes /\ e \in BOOLEAN
  BY DEF Waits
<1>3. f \in 0..MaxFaults
  BY <1>1, ClientAssumption DEF Waits
<1>4. link' = [open    |-> o # "dead",
               pending |-> IF o = "dead" THEN "stuck" ELSE "none",
               app     |-> IF o = "dead" THEN "failed" ELSE link.app,
               errors  |-> e, faults |-> f]
  BY DEF Waits
<1> HIDE DEF e, f
<1>5. link' \in Links /\ link'.errors = e
  BY <1>1, <1>2, <1>3, <1>4 DEF Links
<1> QED BY <1>2, <1>5 DEF e

LEMMA AsksFacts ==
  ASSUME TypeOK, NEW o, Asks(o)
  PROVE  /\ link' \in Links /\ o \in Outcomes \cup {"refused"}
         /\ o \notin {"ok", "refused"} => link'.errors
         /\ link.errors => link'.errors
<1>1. CASE o = "refused" /\ MayRefuse /\ Refused
  BY <1>1 DEF Refused, TypeOK, Links
<1>2. CASE MaySend /\ Waits(o, FALSE)
  BY <1>2, WaitsFacts DEF Outcomes
<1> QED BY <1>1, <1>2 DEF Asks

LEMMA AsksAndWaitsFacts ==
  ASSUME TypeOK, NEW sent \in BOOLEAN, NEW o, AsksAndWaits(sent, o)
  PROVE  /\ link' \in Links /\ o \in Outcomes
         /\ o # "ok" \/ link.errors => link'.errors
BY WaitsFacts DEF AsksAndWaits, TypeOK, Links

(* What SC2 executes is recorded.                                          *)
LEMMA ExecutedFacts ==
  ASSUME TypeOK, NEW c \in Channels, NEW yes \in BOOLEAN
  PROVE  Executed(c, yes) \in Seq([id : Ids, game : 0..MaxGames])
<1> DEFINE more == [i \in DOMAIN batch[c] |->
                      [id |-> batch[c][i], game |-> sc2.game]]
<1>1. batch[c] \in Seq(Ids) /\ sc2.game \in 0..MaxGames
  BY DEF TypeOK, Games
<1>2. /\ Len(batch[c]) \in Nat /\ DOMAIN batch[c] = 1..Len(batch[c])
      /\ \A i \in 1..Len(batch[c]) :
           [id |-> batch[c][i], game |-> sc2.game] \in [id : Ids, game : 0..MaxGames]
  BY <1>1, LenProperties
<1>3. more \in Seq([id : Ids, game : 0..MaxGames])
  BY <1>2
<1> HIDE DEF more
<1>4. done \o more \in Seq([id : Ids, game : 0..MaxGames])
  BY <1>3, ConcatProperties DEF TypeOK
<1> QED BY <1>4 DEF Executed, more, TypeOK

LEMMA RangeFacts ==
  ASSUME TypeOK, NEW c \in Channels
  PROVE  Range(batch[c]) \subseteq Ids
<1>1. batch[c] \in Seq(Ids)
  BY DEF TypeOK
<1> QED BY <1>1, LenProperties DEF Range

LEMMA GetDataFacts ==
  ASSUME TypeOK, GameInv, phase \notin {"out", "over"},
         NEW t \in Tables, NEW force \in BOOLEAN, GetData(t, force)
  PROVE  /\ link' \in Links /\ cached' \in [Tables -> BOOLEAN]
         /\ table' \in [Tables -> 0..MaxGames]
<1>1. CASE UNCHANGED <<link, cached, table>>
  BY <1>1 DEF TypeOK
<1>2. ASSUME NEW o \in Outcomes \cup {"refused"}, Asks(o),
             cached' = [cached EXCEPT ![t] = o = "ok"],
             table' = [table EXCEPT ![t] = IF o = "ok" THEN sc2.map ELSE 0]
      PROVE  /\ link' \in Links /\ cached' \in [Tables -> BOOLEAN]
             /\ table' \in [Tables -> 0..MaxGames]
  <2>1. sc2.map \in 0..MaxGames /\ 0 \in 0..MaxGames
    BY ClientAssumption DEF TypeOK, Games
  <2>2. (o = "ok") \in BOOLEAN
    OBVIOUS
  <2> QED BY <1>2, <2>1, <2>2, AsksFacts DEF TypeOK
<1> QED BY <1>1, <1>2 DEF GetData

LEMMA ConvertFacts ==
  ASSUME TypeOK, GameInv, phase \notin {"out", "over"}
  PROVE  Convert \in Infos
<1>1. sc2.map \in 1..MaxGames /\ sc2.map \in 0..MaxGames
  BY DEF GameInv, TypeOK, Games
<1> DEFINE Start == [map : 1..MaxGames, of : {"own", "enemy"}]
           more == <<[map |-> sc2.map, of |-> "enemy"]>>
<1>2. more \in Seq(Start) /\ info.starts \in Seq(Start)
  BY <1>1 DEF TypeOK, Infos
<1>3. more \o info.starts \in Seq(Start)
  <2> HIDE DEF more, Start
  <2> QED BY <1>2, ConcatProperties
<1>4. Append(info.players, sc2.map) \in Seq(1..MaxGames)
  BY <1>1 DEF TypeOK, Infos
<1> HIDE DEF Start, more
<1> QED BY <1>1, <1>3, <1>4 DEF Convert, TypeOK, Infos, Start, more

LEMMA GetGameInfoFacts ==
  ASSUME TypeOK, GameInv, phase \notin {"out", "over"}, GetGameInfo
  PROVE  link' \in Links /\ info' \in Infos
BY AsksFacts, ConvertFacts DEF GetGameInfo, TypeOK

LEMMA SendActionsFacts ==
  ASSUME TypeOK, NEW c \in Channels, SendActions(c)
  PROVE  /\ link' \in Links /\ batch' \in [Channels -> Seq(Ids)]
         /\ commands' \subseteq Ids /\ owed' \subseteq Ids
         /\ done' \in Seq([id : Ids, game : 0..MaxGames])
<1>1. Range(batch[c]) \subseteq Ids
  BY RangeFacts
<1>2. CASE batch[c] = <<>>
  BY <1>2 DEF SendActions, TypeOK
<1>3. CASE batch[c] # <<>>
  <2>1. PICK o \in Outcomes \cup {"refused"}, yes \in BOOLEAN :
          /\ Asks(o) /\ Executes(o, yes)
          /\ batch' = BatchAfter(c, o)
          /\ commands' = CommandsAfter(c, o)
          /\ done' = Executed(c, yes)
          /\ owed' = IF c = "raw" /\ yes THEN owed \cup Range(batch[c]) ELSE owed
    BY <1>3 DEF SendActions
  <2>2. <<>> \in Seq(Ids)
    OBVIOUS
  <2>3. batch' \in [Channels -> Seq(Ids)]
    BY <2>1, <2>2 DEF BatchAfter, TypeOK
  <2> QED BY <1>1, <2>1, <2>3, AsksFacts, ExecutedFacts DEF CommandsAfter, TypeOK
<1> QED BY <1>2, <1>3

LEMMA SC2Facts ==
  ASSUME TypeOK
  PROVE  /\ sc2 = [game |-> sc2.game, map |-> sc2.map, ended |-> sc2.ended,
                   loop |-> sc2.loop, saved |-> sc2.saved]
         /\ sc2.game \in 0..MaxGames /\ sc2.map \in 0..MaxGames
         /\ sc2.ended \in BOOLEAN /\ sc2.loop \in 0..MaxLoops
         /\ sc2.saved \in -1..MaxLoops
BY DEF TypeOK, Games

(* A step that leaves SC2 alone.                                           *)
LEMMA GameKept ==
  ASSUME GameInv, UNCHANGED sc2,
         phase' \in {"out", "over"} \/ phase \notin {"out", "over"}
  PROVE  GameInv'
BY DEF GameInv

LEMMA SendsListFacts ==
  ASSUME TypeOK, NEW c \in Channels, SendsList(c)
  PROVE  /\ link' \in Links /\ batch' \in [Channels -> Seq(Ids)]
         /\ done' \in Seq([id : Ids, game : 0..MaxGames])
<1>1. <<>> \in Seq(Ids)
  OBVIOUS
<1> QED BY <1>1, AsksAndWaitsFacts, ExecutedFacts DEF SendsList, TypeOK

LEMMA InitTypes == Init => TypeOK /\ GameInv
<1> SUFFICES ASSUME Init PROVE TypeOK /\ GameInv
  OBVIOUS
<1> USE ConstantFacts
<1>1. <<>> \in Seq(Ids) /\ <<>> \in Seq([id : Ids, game : 0..MaxGames])
  OBVIOUS
<1>2. link \in Links /\ sc2 \in Games /\ GameInv
  BY DEF Init, Links, Games, GameInv
<1>3. info \in Infos
  <2>1. /\ <<>> \in Seq(1..MaxGames)
        /\ <<>> \in Seq([map : 1..MaxGames, of : {"own", "enemy"}])
    OBVIOUS
  <2> QED BY <2>1 DEF Init, Infos
<1>4. /\ cached \in [Tables -> BOOLEAN] /\ table \in [Tables -> 0..MaxGames]
      /\ batch \in [Channels -> Seq(Ids)] /\ origin \in [Ids -> 0..MaxGames]
      /\ given \in 0..MaxCommands
  BY <1>1 DEF Init
<1>5. phase \in Phases /\ op \in {"none", "camera", "remap"}
  BY DEF Init, Phases
<1>6. loops \in [current : -1..MaxLoops, previous : -1..MaxLoops]
  BY DEF Init
<1>7. /\ mode \in Programs /\ meddled \in BOOLEAN
      /\ commands \subseteq Ids /\ done \in Seq([id : Ids, game : 0..MaxGames])
      /\ replaced \subseteq Ids /\ owed \subseteq Ids /\ missed \subseteq Ids
  BY <1>1 DEF Init
<1> QED BY <1>2, <1>3, <1>4, <1>5, <1>6, <1>7 DEF TypeOK

(* What the bot calls.                                                     *)
LEMMA BotTypes == TypeOK /\ GameInv /\ Bot => TypeOK' /\ GameInv'
<1> SUFFICES ASSUME TypeOK, GameInv, Bot PROVE TypeOK' /\ GameInv'
  OBVIOUS
<1>0. phase \notin {"out", "over"} /\ phase \in Phases
  BY DEF Bot, Calls, Callbacks, Command, UnitCommand, LayerCommand,
         DebugCommand, DebugMoveCamera, ReadsData, ReadsInfo, Queries,
         SendsByHand, SendDebug, QuickSave, QuickLoad, Restart, TypeOK
<1>1. ASSUME NEW c \in Channels, Command(c) PROVE TypeOK' /\ GameInv'
  <2>1. given' \in Ids /\ given' \in 0..MaxCommands
    BY <1>1, ClientAssumption DEF Command, TypeOK, Ids
  <2>2. batch' \in [Channels -> Seq(Ids)]
    <3>1. <<given'>> \in Seq(Ids) /\ Append(batch[c], given') \in Seq(Ids)
      BY <2>1 DEF TypeOK
    <3> QED BY <1>1, <3>1 DEF Command, TypeOK
  <2>3. replaced' \subseteq Ids
    BY <1>1, RangeFacts DEF Command, TypeOK
  <2>4. origin' \in [Ids -> 0..MaxGames]
    BY <1>1, <2>1, ClientAssumption DEF Command, TypeOK, Games
  <2> QED BY <1>0, <1>1, <2>1, <2>2, <2>3, <2>4, GameKept DEF Command, TypeOK
<1>2. CASE UnitCommand \/ LayerCommand \/ DebugCommand \/ DebugMoveCamera
  BY <1>1, <1>2 DEF UnitCommand, LayerCommand, DebugCommand, DebugMoveCamera,
                    Channels
<1>3. CASE ReadsData
  BY <1>0, <1>3, GetDataFacts, GameKept DEF ReadsData, TypeOK
<1>4. CASE ReadsInfo
  BY <1>0, <1>4, GetGameInfoFacts, GameKept DEF ReadsInfo, TypeOK
<1>5. CASE Queries
  BY <1>0, <1>5, AsksFacts, GameKept DEF Queries, TypeOK
<1>6. CASE SendsByHand
  BY <1>0, <1>6, SendActionsFacts, GameKept DEF SendsByHand, TypeOK, Channels
<1>7. CASE SendDebug
  BY <1>0, <1>7, SendsListFacts, GameKept
     DEF SendDebug, SendsList, TypeOK, Channels
<1>8. CASE QuickSave
  <2>1. link' \in Links
    BY <1>8, AsksFacts DEF QuickSave
  <2>2. sc2' = sc2 \/ sc2' = [sc2 EXCEPT !.saved = sc2.loop]
    BY <1>8 DEF QuickSave
  <2>3. sc2' \in Games /\ GameInv'
    BY <1>0, <1>8, <2>2, SC2Facts, ConstantFacts
       DEF QuickSave, Games, GameInv
  <2> QED BY <1>8, <2>1, <2>3 DEF QuickSave, TypeOK
<1>9. CASE QuickLoad
  <2>1. link' \in Links
    BY <1>9, AsksFacts DEF QuickLoad
  <2>2. sc2' = sc2 \/ sc2' = [sc2 EXCEPT !.loop = sc2.saved]
    BY <1>9 DEF QuickLoad
  <2>3. sc2' \in Games /\ GameInv'
    BY <1>0, <1>9, <2>2, SC2Facts, ConstantFacts
       DEF QuickLoad, Games, GameInv
  <2> QED BY <1>9, <2>1, <2>3 DEF QuickLoad, TypeOK
<1>10. CASE Restart
  <2>1. link' \in Links
    BY <1>10, AsksFacts DEF Restart
  <2>2. \/ sc2' = sc2
        \/ sc2' = [sc2 EXCEPT !.game = @ + 1, !.ended = FALSE,
                              !.loop = 0, !.saved = -1]
    BY <1>10 DEF Restart
  <2>3. phase' \in Phases
    BY <1>0, <1>10 DEF Restart, Phases
  <2>4. /\ sc2'.game \in {sc2.game, sc2.game + 1} /\ sc2'.map = sc2.map
        /\ sc2'.saved \in {sc2.saved, -1}
        /\ sc2' = sc2 \/ (~sc2'.ended /\ sc2'.loop = 0)
        /\ sc2' \in Games
    <3>1. CASE sc2' = sc2
      BY <3>1, SC2Facts DEF TypeOK
    <3>2. CASE sc2' # sc2
      <4> DEFINE g == sc2.game + 1
      <4>1. g \in 0..MaxGames /\ 0 \in 0..MaxLoops /\ -1 \in -1..MaxLoops
        BY <1>10, SC2Facts, ConstantFacts DEF Restart
      <4>2. sc2' = [sc2 EXCEPT !.game = g, !.ended = FALSE,
                               !.loop = 0, !.saved = -1]
        BY <2>2, <3>2
      <4> HIDE DEF g
      <4>3. sc2' \in Games
        BY <4>1, <4>2 DEF TypeOK, Games
      <4>4. /\ sc2'.game = g /\ sc2'.map = sc2.map /\ sc2'.saved = -1
            /\ sc2'.loop = 0 /\ sc2'.ended = FALSE
        BY <4>2 DEF TypeOK, Games
      <4> QED BY <4>3, <4>4 DEF g
    <3> QED BY <3>1, <3>2
  <2>5. GameInv'
    BY <1>0, <1>10, <2>4, SC2Facts, ConstantFacts DEF Restart, GameInv
  <2> QED BY <1>10, <2>1, <2>3, <2>4, <2>5 DEF Restart, TypeOK
<1> QED BY <1>2, <1>3, <1>4, <1>5, <1>6, <1>7, <1>8, <1>9, <1>10 DEF Bot

LEMMA GotoTypes ==
  ASSUME TypeOK, GameInv, NEW p \in Phases, Goto(p),
         p \in {"out", "over"} \/ phase \notin {"out", "over"}
  PROVE  TypeOK' /\ GameInv'
BY GameKept DEF Goto, TypeOK

LEMMA IssueEventsTypes ==
  ASSUME TypeOK, GameInv, phase \notin {"out", "over"},
         NEW step \in Phases, NEW otherwise \in Phases,
         IssueEvents(step, otherwise)
  PROVE  TypeOK' /\ GameInv'
BY GameKept DEF IssueEvents, TypeOK

LEMMA GetObservationFacts ==
  ASSUME TypeOK, NEW next \in Phases, GetObservation(next)
  PROVE  /\ link' \in Links /\ phase' \in Phases /\ op' \in {"none", "remap"}
         /\ loops' \in [current : -1..MaxLoops, previous : -1..MaxLoops]
<1>1. PICK o \in Outcomes \cup {"refused"} :
        /\ Asks(o)
        /\ loops' = IF o = "ok" THEN NextLoops ELSE loops
        /\ phase' = IF o \in {"lost", "dead"} THEN "fault" ELSE next
        /\ op' \in IF o = "ok" THEN {"none", "remap"} ELSE {"none"}
  BY DEF GetObservation
<1>2. link' \in Links
  BY <1>1, AsksFacts
<1>3. loops' \in [current : -1..MaxLoops, previous : -1..MaxLoops]
  BY <1>1, SC2Facts, ConstantFacts DEF NextLoops, TypeOK
<1> QED BY <1>1, <1>2, <1>3 DEF Phases

LEMMA NewGameTypes == TypeOK /\ GameInv /\ NewGame => TypeOK' /\ GameInv'
<1> SUFFICES ASSUME TypeOK, GameInv, NewGame PROVE TypeOK' /\ GameInv'
  OBVIOUS
<1>1. info' = [info EXCEPT !.cached = IF IsAgent THEN FALSE ELSE info.cached,
                           !.early = FALSE, !.based = FALSE]
  BY DEF NewGame, ClearFlags, TypeOK, Infos
<1>2. info' \in Infos
  BY <1>1 DEF TypeOK, Infos
<1>3. cached' \in [Tables -> BOOLEAN] /\ table' \in [Tables -> 0..MaxGames]
  BY DEF NewGame, ClearFlags, TypeOK
<1>4. PICK o \in Outcomes \cup {"refused"} :
        /\ Asks(o)
        /\ IF o = "ok" /\ ~link'.errors
             THEN /\ phase' = "joined"
                  /\ sc2' = [game |-> sc2.game + 1, map |-> sc2.map + 1,
                             ended |-> FALSE, loop |-> 0, saved |-> -1]
             ELSE phase' = "over" /\ UNCHANGED sc2
  BY DEF NewGame
<1>5. link' \in Links
  BY <1>4, AsksFacts
<1>6. phase' \in Phases
  BY <1>4 DEF Phases
<1>7. sc2' \in Games /\ GameInv'
  <2>1. sc2.game < MaxGames
    BY DEF NewGame
  <2>2. CASE sc2' = sc2 /\ phase' = "over"
    BY <2>2, GameKept DEF TypeOK
  <2>3. CASE sc2' = [game |-> sc2.game + 1, map |-> sc2.map + 1,
                     ended |-> FALSE, loop |-> 0, saved |-> -1]
    <3> DEFINE g == sc2.game + 1
               m == sc2.map + 1
    <3>1. g \in 0..MaxGames /\ m \in 1..MaxGames /\ m <= g
      BY <2>1, SC2Facts, ConstantFacts DEF GameInv
    <3>2. sc2' = [game |-> g, map |-> m, ended |-> FALSE, loop |-> 0, saved |-> -1]
      BY <2>3
    <3> HIDE DEF g, m
    <3>3. sc2' \in Games
      BY <3>1, <3>2, ConstantFacts DEF Games
    <3> QED BY <3>1, <3>2, <3>3, ConstantFacts DEF GameInv
  <2> QED BY <1>4, <2>2, <2>3
<1> QED BY <1>2, <1>3, <1>5, <1>6, <1>7 DEF NewGame, TypeOK

(* The loop goes on by one.                                                *)
LEMMA LoopFacts ==
  ASSUME TypeOK, GameInv, ~sc2.ended, NEW over \in BOOLEAN,
         sc2.loop + 1 = MaxLoops => over,
         sc2' = [sc2 EXCEPT !.loop = @ + 1, !.ended = over],
         phase \notin {"out", "over"}
  PROVE  sc2' \in Games /\ GameInv'
<1>1. sc2.loop + 1 \in 0..MaxLoops
  BY SC2Facts, ConstantFacts DEF GameInv
<1>2. sc2' \in Games
  BY <1>1 DEF TypeOK, Games
<1>3. /\ sc2'.game = sc2.game /\ sc2'.map = sc2.map /\ sc2'.saved = sc2.saved
      /\ sc2'.loop = sc2.loop + 1 /\ sc2'.ended = over
  BY DEF TypeOK, Games
<1> QED BY <1>1, <1>2, <1>3, SC2Facts, ConstantFacts DEF GameInv

LEMMA CoordinatorTypes ==
  TypeOK /\ GameInv /\ Coordinator => TypeOK' /\ GameInv'
<1> SUFFICES ASSUME TypeOK, GameInv, Coordinator PROVE TypeOK' /\ GameInv'
  OBVIOUS
<1>1. CASE NewGame
  BY <1>1, NewGameTypes
<1>2. CASE Observes
  <2>1. /\ phase \in {"joined", "restarted", "observing"}
        /\ \E next \in Phases : GetObservation(next)
    BY <1>2 DEF Observes, Phases, Callbacks
  <2> QED BY <1>2, <2>1, GetObservationFacts, GameKept DEF Observes, TypeOK
<1>3. CASE StartsGame
  <2>1. info' \in Infos
    <3>1. sc2.map \in 1..MaxGames
      BY <1>3, SC2Facts DEF StartsGame, GameInv
    <3>2. <<[map |-> sc2.map, of |-> "own"]>>
            \in Seq([map : 1..MaxGames, of : {"own", "enemy"}])
      BY <3>1
    <3> QED BY <1>3, <3>2 DEF StartsGame, FindsStart, TypeOK, Infos
  <2> QED BY <1>3, <2>1, GameKept DEF StartsGame, TypeOK, Phases, Callbacks
<1>4. CASE Steps
  <2>1. PICK sent \in BOOLEAN, o \in Outcomes, yes \in BOOLEAN :
          /\ AsksAndWaits(sent, o)
          /\ \E over \in BOOLEAN :
               /\ sc2.loop + 1 = MaxLoops => over
               /\ sc2' = IF yes THEN [sc2 EXCEPT !.loop = @ + 1, !.ended = over]
                                ELSE sc2
          /\ phase' = IF o = "ok" THEN "observing" ELSE "call"
    BY <1>4 DEF Steps
  <2>2. sc2' \in Games /\ GameInv'
    BY <1>4, <2>1, LoopFacts, GameKept DEF Steps, IsInGame, TypeOK
  <2> QED BY <1>4, <2>1, <2>2, AsksAndWaitsFacts DEF Steps, TypeOK, Phases
<1>5. CASE TimePasses
  BY <1>5, LoopFacts, GameKept DEF TimePasses, IsInGame, TypeOK, Phases
<1>6. CASE Reacts
  <2>1. {"end", "step", "sending"} \subseteq Phases
    BY DEF Phases, Callbacks
  <2> QED BY <1>6, <2>1, GotoTypes, IssueEventsTypes DEF Reacts
<1>7. CASE Sends
  <2>1. /\ link' \in Links /\ batch' \in [Channels -> Seq(Ids)]
        /\ commands' \subseteq Ids /\ owed' \subseteq Ids
        /\ done' \in Seq([id : Ids, game : 0..MaxGames])
    BY <1>7, SendActionsFacts DEF Sends, Channels, TypeOK
  <2>2. phase' \in Phases
    BY <1>7 DEF Sends, AfterSending, Phases, Callbacks
  <2> QED BY <1>7, <2>1, <2>2, GameKept DEF Sends, TypeOK
<1>8. CASE Returns
  <2>1. {"first", "idle", "sending", "end", "over", "out"} \subseteq Phases
    BY DEF Phases, Callbacks
  <2> QED BY <1>8, <2>1, GotoTypes, IssueEventsTypes DEF Returns
<1>9. CASE RequestLeaveGame
  <2>1. link' \in Links
    BY <1>9 DEF RequestLeaveGame, Refused, TypeOK, Links
  <2> QED BY <1>9, <2>1, GameKept DEF RequestLeaveGame, TypeOK, Phases
<1>10. CASE PollLeaveGame
  BY <1>10, WaitsFacts, GameKept DEF PollLeaveGame, TypeOK, Phases
<1> QED BY <1>1, <1>2, <1>3, <1>4, <1>5, <1>6, <1>7, <1>8, <1>9, <1>10
        DEF Coordinator

(* The part of a call that is left over is done in the same callback.      *)
CallInv == op = "remap" => phase \notin {"out", "over"}

LEMMA NextCall == TypeOK /\ CallInv /\ [Next]_vars => CallInv'
<1> SUFFICES ASSUME TypeOK, CallInv, [Next]_vars PROVE CallInv'
  OBVIOUS
<1> USE DEF CallInv
<1>1. CASE Bot
  BY <1>1 DEF Bot, Calls, Callbacks, Command, UnitCommand, LayerCommand,
         DebugCommand, DebugMoveCamera, ReadsData, ReadsInfo, Queries,
         SendsByHand, SendDebug, SendsList, QuickSave, QuickLoad, Restart
<1>2. CASE Observes
  BY <1>2 DEF Observes, GetObservation
<1>3. CASE Coordinator /\ ~Observes
  BY <1>3 DEF Coordinator, NewGame, StartsGame, Steps, TimePasses, Reacts, Goto,
         IssueEvents, Sends, Returns, RequestLeaveGame, PollLeaveGame
<1>4. CASE Remaps \/ SendsCamera \/ SocketCloses \/ UNCHANGED vars
  BY <1>4 DEF Remaps, SendsCamera, SendsList, SocketCloses
<1> QED BY <1>1, <1>2, <1>3, <1>4 DEF Next

LEMMA NextTypes ==
  TypeOK /\ GameInv /\ CallInv /\ [Next]_vars => TypeOK' /\ GameInv'
<1> SUFFICES ASSUME TypeOK, GameInv, CallInv, [Next]_vars PROVE TypeOK' /\ GameInv'
  OBVIOUS
<1>1. CASE Bot
  BY <1>1, BotTypes
<1>2. CASE Remaps
  BY <1>2, GetDataFacts, GameKept, ConstantFacts DEF Remaps, CallInv, TypeOK
<1>3. CASE SendsCamera
  BY <1>3, SendsListFacts, GameKept
     DEF SendsCamera, SendsList, Channels, TypeOK
<1>4. CASE Coordinator
  BY <1>4, CoordinatorTypes
<1>5. CASE SocketCloses
  <2>1. link' \in Links
    <3>1. link.faults + 1 \in 0..MaxFaults
      BY <1>5, ConstantFacts DEF SocketCloses, TypeOK, Links
    <3> QED BY <1>5, <3>1 DEF SocketCloses, TypeOK, Links
  <2> QED BY <1>5, <2>1, GameKept DEF SocketCloses, TypeOK
<1>6. CASE UNCHANGED vars
  BY <1>6, GameKept DEF TypeOK
<1> QED BY <1>1, <1>2, <1>3, <1>4, <1>5, <1>6 DEF Next

(* Type correctness: every variable of the client keeps its type.          *)
THEOREM TypeCorrect == Spec => []TypeOK
<1>1. Init => TypeOK /\ GameInv /\ CallInv
  BY InitTypes DEF Init, CallInv
<1>2. TypeOK /\ GameInv /\ CallInv /\ [Next]_vars
        => TypeOK' /\ GameInv' /\ CallInv'
  BY NextTypes, NextCall
<1> QED BY <1>1, <1>2, PTL DEF Spec

-----------------------------------------------------------------------------
(***************************************************************************)
(* The cached data                                                         *)
(***************************************************************************)

(* Until OnGameFullStart is over nothing is known of the own start, and an *)
(* answer cached by then is an early one; a start that is known comes      *)
(* first, before the enemy's are put before it.                            *)
StartsInv ==
  /\ phase # "found"
  /\ phase \in {"joined", "full"} => ~info.based /\ (info.cached => info.early)
  /\ info.based /\ ~info.cached =>
       info.starts = <<[map |-> sc2.map, of |-> "own"]>>
  /\ info.based /\ info.cached /\ ~info.early =>
       info.starts = <<[map |-> sc2.map, of |-> "enemy"],
                       [map |-> sc2.map, of |-> "own"]>>

(* The players are asked for once in the first game.                       *)
PlayersInv ==
  /\ sc2.map = 0 => info.players = <<>>
  /\ sc2.map = 1 /\ info.cached => info.players = <<1>>
  /\ sc2.map = 1 /\ ~info.cached /\ phase # "over" => info.players = <<>>

DataInv ==
  IsAgent =>
    /\ \A t \in Tables : cached[t] => table[t] = sc2.map
    /\ info.cached => info.map = sc2.map
    /\ StartsInv /\ PlayersInv

LEMMA DataKept ==
  ASSUME DataInv, UNCHANGED <<mode, caches>>, sc2'.map = sc2.map,
         \/ phase' = phase
         \/ phase # "over" /\ phase' \notin {"joined", "full", "found"}
         \/ phase = "joined" /\ (IsAgent => phase' = "full")
  PROVE  DataInv'
BY DEF DataInv, StartsInv, PlayersInv, IsAgent

LEMMA GetDataKeeps ==
  ASSUME TypeOK, DataInv, NEW t \in Tables, NEW force \in BOOLEAN,
         GetData(t, force), UNCHANGED <<mode, phase, sc2, info>>
  PROVE  DataInv'
<1> SUFFICES ASSUME IsAgent, NEW u \in Tables, cached'[u]
             PROVE  table'[u] = sc2.map
  BY DEF DataInv, StartsInv, PlayersInv, IsAgent
<1>1. CASE UNCHANGED <<link, cached, table>>
  BY <1>1 DEF DataInv
<1>2. ASSUME NEW o \in Outcomes \cup {"refused"},
             cached' = [cached EXCEPT ![t] = o = "ok"],
             table' = [table EXCEPT ![t] = IF o = "ok" THEN sc2.map ELSE 0]
      PROVE  table'[u] = sc2.map
  <2>1. CASE u = t
    BY <1>2, <2>1 DEF TypeOK
  <2>2. CASE u # t
    BY <1>2, <2>2 DEF TypeOK, DataInv
  <2> QED BY <2>1, <2>2
<1> QED BY <1>1, <1>2 DEF GetData

LEMMA GetGameInfoKeeps ==
  ASSUME TypeOK, GameInv, DataInv, GetGameInfo, Calls,
         UNCHANGED <<mode, phase, sc2, cached, table>>
  PROVE  DataInv'
<1>1. CASE info' = info
  BY <1>1, DataKept
<1>2. CASE ~info.cached /\ info' = Convert /\ IsAgent
  <2>1. phase \notin {"out", "over", "joined"} /\ sc2.map >= 1
    BY DEF Calls, Callbacks, GameInv
  <2>2. /\ info'.cached = TRUE /\ info'.map = sc2.map
        /\ info'.based = info.based /\ info'.early = (phase = "full")
        /\ info'.players = Append(info.players, sc2.map)
        /\ info'.starts = <<[map |-> sc2.map, of |-> "enemy"]>> \o info.starts
    BY <1>2 DEF Convert, TypeOK, Infos
  <2>3. PlayersInv'
    <3>1. Append(<<>>, 1) = <<1>>
      OBVIOUS
    <3>2. sc2.map = 1 => info'.players = <<1>>
      BY <1>2, <2>1, <2>2, <3>1 DEF DataInv, PlayersInv
    <3>3. sc2.map # 0
      BY <2>1
    <3> QED BY <2>2, <3>2, <3>3 DEF PlayersInv
  <2>4. StartsInv'
    <3>1. ASSUME NEW a, NEW b PROVE <<a>> \o <<b>> = <<a, b>>
      <4> DEFINE s == <<a>>
                 t == <<b>>
                 u == <<a, b>>
                 S == {a, b}
      <4>1. s \in Seq(S) /\ t \in Seq(S) /\ u \in Seq(S)
        OBVIOUS
      <4>2. Len(s) = 1 /\ Len(t) = 1 /\ Len(u) = 2
        OBVIOUS
      <4>3. s[1] = a /\ t[1] = b /\ u[1] = a /\ u[2] = b
        OBVIOUS
      <4> HIDE DEF s, t, u, S
      <4>4. /\ s \o t \in Seq(S) /\ Len(s \o t) = 2
            /\ (s \o t)[1] = a /\ (s \o t)[2] = b
        BY <4>1, <4>2, <4>3, ConcatProperties
      <4>5. \A i \in 1..2 : (s \o t)[i] = u[i]
        BY <4>3, <4>4
      <4>6. s \o t = u
        BY <4>1, <4>2, <4>4, <4>5, SeqEqual
      <4> QED BY <4>6 DEF s, t, u
    <3>2. info.based => info'.starts = <<[map |-> sc2.map, of |-> "enemy"],
                                         [map |-> sc2.map, of |-> "own"]>>
      BY <1>2, <2>2, <3>1 DEF DataInv, StartsInv
    <3>3. /\ phase # "found" /\ phase # "joined"
          /\ phase = "full" => ~info.based /\ info'.early
      BY <1>2, <2>1, <2>2 DEF DataInv, StartsInv
    <3> QED BY <2>2, <3>2, <3>3 DEF StartsInv
  <2> QED BY <1>2, <2>2, <2>3, <2>4 DEF DataInv, IsAgent
<1>3. CASE ~IsAgent
  BY <1>3 DEF DataInv, IsAgent
<1> QED BY <1>1, <1>2, <1>3 DEF GetGameInfo

LEMMA BotKeepsData ==
  TypeOK /\ GameInv /\ DataInv /\ Bot => DataInv'
<1> SUFFICES ASSUME TypeOK, GameInv, DataInv, Bot PROVE DataInv'
  OBVIOUS
<1>1. CASE ReadsData
  BY <1>1, GetDataKeeps DEF ReadsData
<1>2. CASE ReadsInfo
  BY <1>2, GetGameInfoKeeps DEF ReadsInfo
<1>3. CASE QuickSave \/ QuickLoad \/ Restart
  <2>1. sc2'.map = sc2.map
    BY <1>3 DEF QuickSave, QuickLoad, Restart, TypeOK, Games
  <2> QED BY <1>3, <2>1, DataKept DEF QuickSave, QuickLoad, Restart
<1>4. CASE \/ UnitCommand \/ LayerCommand \/ DebugCommand \/ DebugMoveCamera
           \/ Queries \/ SendsByHand \/ SendDebug
  BY <1>4, DataKept
     DEF UnitCommand, LayerCommand, DebugCommand, DebugMoveCamera, Command,
         Queries, SendsByHand, SendDebug, SendsList
<1> QED BY <1>1, <1>2, <1>3, <1>4 DEF Bot

LEMMA CoordinatorKeepsData ==
  TypeOK /\ GameInv /\ DataInv /\ Coordinator => DataInv'
<1> SUFFICES ASSUME TypeOK, GameInv, DataInv, Coordinator, IsAgent
             PROVE  DataInv'
  BY DEF Coordinator, NewGame, Observes, StartsGame, Steps, TimePasses, Reacts,
         Goto, IssueEvents, Sends, Returns, RequestLeaveGame, PollLeaveGame,
         DataInv, IsAgent
<1>1. CASE NewGame
  <2>1. /\ cached' = [t \in Tables |-> FALSE] /\ UNCHANGED <<mode, table>>
        /\ info' = [info EXCEPT !.cached = FALSE, !.early = FALSE, !.based = FALSE]
        /\ \/ phase' = "joined" /\ sc2'.map = sc2.map + 1
           \/ phase' = "over" /\ sc2' = sc2
    BY <1>1 DEF NewGame, ClearFlags
  <2>2. /\ info'.cached = FALSE /\ info'.based = FALSE
        /\ info'.players = info.players
    BY <2>1 DEF TypeOK, Infos
  <2>3. StartsInv' /\ PlayersInv'
    BY <2>1, <2>2, SC2Facts DEF DataInv, StartsInv, PlayersInv
  <2> QED BY <2>1, <2>2, <2>3 DEF DataInv
<1>2. CASE Observes
  BY <1>2, DataKept DEF Observes, GetObservation
<1>3. CASE StartsGame
  <2>1. /\ phase = "full" /\ phase' = "start" /\ UNCHANGED <<mode, cached, table, sc2>>
        /\ \/ info' = info
           \/ info' = [info EXCEPT !.starts = <<[map |-> sc2.map, of |-> "own"]>>,
                                   !.based = TRUE]
    BY <1>3 DEF StartsGame, FindsStart, DataInv, StartsInv
  <2>2. CASE info' = info
    BY <2>1, <2>2, DataKept
  <2>3. CASE info' # info
    <3>1. /\ info'.cached = info.cached /\ info'.map = info.map
          /\ info'.early = info.early /\ info'.based = TRUE
          /\ info'.players = info.players
          /\ info'.starts = <<[map |-> sc2.map, of |-> "own"]>>
      BY <2>1, <2>3 DEF TypeOK, Infos
    <3>2. StartsInv' /\ PlayersInv'
      BY <2>1, <3>1 DEF DataInv, StartsInv, PlayersInv
    <3> QED BY <2>1, <3>1, <3>2 DEF DataInv
  <2> QED BY <2>2, <2>3
<1>4. CASE Steps \/ TimePasses
  <2>1. sc2'.map = sc2.map
    BY <1>4 DEF Steps, TimePasses, TypeOK, Games
  <2> QED BY <1>4, <2>1, DataKept DEF Steps, TimePasses
<1>5. CASE Reacts \/ Sends \/ Returns \/ RequestLeaveGame \/ PollLeaveGame
  BY <1>5, DataKept DEF Reacts, Goto, IssueEvents, Sends, AfterSending, Returns,
                        RequestLeaveGame, PollLeaveGame
<1> QED BY <1>1, <1>2, <1>3, <1>4, <1>5 DEF Coordinator

LEMMA NextKeepsData ==
  TypeOK /\ GameInv /\ DataInv /\ [Next]_vars => DataInv'
<1> SUFFICES ASSUME TypeOK, GameInv, DataInv, [Next]_vars PROVE DataInv'
  OBVIOUS
<1>1. CASE Bot
  BY <1>1, BotKeepsData
<1>2. CASE Remaps
  BY <1>2, GetDataKeeps, ConstantFacts DEF Remaps
<1>3. CASE Coordinator
  BY <1>3, CoordinatorKeepsData
<1>4. CASE SendsCamera \/ SocketCloses \/ UNCHANGED vars
  BY <1>4, DataKept DEF SendsCamera, SendsList, SocketCloses
<1> QED BY <1>1, <1>2, <1>3, <1>4 DEF Next

(* What an agent has cached is of the map that is played.                  *)
THEOREM DataCurrent == Spec => []DataIsCurrent
<1>1. Init => TypeOK /\ GameInv /\ CallInv /\ DataInv
  BY InitTypes DEF Init, CallInv, DataInv, StartsInv, PlayersInv
<1>2. TypeOK /\ GameInv /\ CallInv /\ DataInv /\ [Next]_vars
        => TypeOK' /\ GameInv' /\ CallInv' /\ DataInv'
  BY NextTypes, NextCall, NextKeepsData
<1>3. DataInv => DataIsCurrent
  BY DEF DataInv, StartsInv, PlayersInv, DataIsCurrent
<1> QED BY <1>1, <1>2, <1>3, PTL DEF Spec

-----------------------------------------------------------------------------
(***************************************************************************)
(* The commands                                                            *)
(***************************************************************************)

Record == [id : Ids, game : 0..MaxGames]

(* A command is in one place of one batch, or in one place of done.        *)
BatchedOnce ==
  \A c, d \in Channels : \A i \in DOMAIN batch[c], j \in DOMAIN batch[d] :
    batch[c][i] = batch[d][j] => c = d /\ i = j

NotDoneYet ==
  \A c \in Channels : \A i \in DOMAIN batch[c], k \in DOMAIN done :
    batch[c][i] # done[k].id

GivenOnes ==
  /\ \A c \in Channels : \A i \in DOMAIN batch[c] : batch[c][i] <= given
  /\ \A k \in DOMAIN done : done[k].id <= given

OnceInv == BatchedOnce /\ NotDoneYet /\ GivenOnes /\ CommandsComeOnce

(* done, after a batch was executed: what it had, and then the batch.      *)
LEMMA ExecutedAll ==
  ASSUME TypeOK, NEW c \in Channels
  PROVE  /\ Len(done) \in Nat /\ DOMAIN done = 1..Len(done)
         /\ Len(batch[c]) \in Nat /\ DOMAIN batch[c] = 1..Len(batch[c])
         /\ DOMAIN Executed(c, TRUE) = 1..(Len(done) + Len(batch[c]))
         /\ \A k \in 1..Len(done) : Executed(c, TRUE)[k] = done[k]
         /\ \A i \in 1..Len(batch[c]) :
              Executed(c, TRUE)[Len(done) + i] =
                [id |-> batch[c][i], game |-> sc2.game]
<1> DEFINE more == [i \in DOMAIN batch[c] |->
                      [id |-> batch[c][i], game |-> sc2.game]]
<1>1. batch[c] \in Seq(Ids) /\ done \in Seq(Record) /\ sc2.game \in 0..MaxGames
  BY DEF TypeOK, Games, Record
<1>2. /\ Len(batch[c]) \in Nat /\ DOMAIN batch[c] = 1..Len(batch[c])
      /\ Len(done) \in Nat /\ DOMAIN done = 1..Len(done)
      /\ \A i \in 1..Len(batch[c]) :
           [id |-> batch[c][i], game |-> sc2.game] \in Record
  BY <1>1, LenProperties DEF Record
<1>3. more \in Seq(Record) /\ Len(more) = Len(batch[c])
  BY <1>2
<1>4. \A i \in 1..Len(batch[c]) :
        more[i] = [id |-> batch[c][i], game |-> sc2.game]
  BY <1>2
<1>5. Executed(c, TRUE) = done \o more
  BY DEF Executed
<1> HIDE DEF more
<1>6. /\ done \o more \in Seq(Record)
      /\ Len(done \o more) = Len(done) + Len(batch[c])
      /\ \A k \in 1..Len(done) + Len(batch[c]) :
           (done \o more)[k] = IF k <= Len(done) THEN done[k]
                                                 ELSE more[k - Len(done)]
  <2>1. /\ done \o more \in Seq(Record)
        /\ Len(done \o more) = Len(done) + Len(more)
        /\ \A k \in 1..Len(done) + Len(more) :
             (done \o more)[k] = IF k <= Len(done) THEN done[k]
                                                   ELSE more[k - Len(done)]
    BY <1>1, <1>3, ConcatProperties
  <2> QED BY <1>3, <2>1
<1>7. DOMAIN (done \o more) = 1..(Len(done) + Len(batch[c]))
  BY <1>6, LenProperties
<1>8. \A k \in 1..Len(done) : (done \o more)[k] = done[k]
  BY <1>2, <1>6
<1>9. ASSUME NEW i \in 1..Len(batch[c])
      PROVE  (done \o more)[Len(done) + i] =
               [id |-> batch[c][i], game |-> sc2.game]
  <2>1. /\ Len(done) + i \in 1..Len(done) + Len(batch[c])
        /\ ~(Len(done) + i <= Len(done)) /\ Len(done) + i - Len(done) = i
    BY <1>2
  <2> QED BY <2>1, <1>4, <1>6
<1> QED BY <1>2, <1>5, <1>7, <1>8, <1>9

(* Executing a batch and clearing it keeps every command in one place.     *)
LEMMA ExecutedOnce ==
  ASSUME TypeOK, OnceInv, NEW c \in Channels, NEW yes \in BOOLEAN,
         done' = Executed(c, yes), batch' = [batch EXCEPT ![c] = <<>>],
         given' = given
  PROVE  OnceInv'
<1>1. \A d \in Channels : \A i \in DOMAIN batch'[d] :
        /\ d # c /\ i \in DOMAIN batch[d] /\ batch'[d][i] = batch[d][i]
  BY DEF TypeOK
<1>2. BatchedOnce' /\ \A d \in Channels : \A i \in DOMAIN batch'[d] :
                         batch'[d][i] <= given'
  BY <1>1 DEF OnceInv, BatchedOnce, GivenOnes
<1>3. CASE ~yes
  BY <1>1, <1>2, <1>3
     DEF Executed, OnceInv, NotDoneYet, GivenOnes, CommandsComeOnce
<1>4. CASE yes
  <2> DEFINE n == Len(done)
             m == Len(batch[c])
  <2>1. ASSUME NEW k \in DOMAIN done'
        PROVE  \/ k \in DOMAIN done /\ done'[k] = done[k]
               \/ /\ k \notin DOMAIN done
                  /\ k - n \in DOMAIN batch[c] /\ done'[k].id = batch[c][k - n]
    <3>1. done' = Executed(c, TRUE)
      BY <1>4
    <3>2. k \in 1..(n + m) /\ n \in Nat /\ m \in Nat
      BY <3>1, ExecutedAll
    <3>3. CASE k <= n
      <4>1. k \in 1..n
        BY <3>2, <3>3
      <4>2. done'[k] = done[k] /\ DOMAIN done = 1..n
        BY <3>1, <4>1, ExecutedAll
      <4> QED BY <4>1, <4>2
    <3>4. CASE k > n
      <4> DEFINE i == k - n
      <4>1. i \in 1..m /\ n + i = k /\ k \notin 1..n
        BY <3>2, <3>4
      <4>2. done'[n + i] = [id |-> batch[c][i], game |-> sc2.game]
        BY <3>1, <4>1, ExecutedAll
      <4> QED BY <4>1, <4>2, ExecutedAll
    <3> QED BY <3>2, <3>3, <3>4
  <2>2. NotDoneYet'
    BY <1>1, <2>1 DEF OnceInv, NotDoneYet, BatchedOnce
  <2>3. \A k \in DOMAIN done' : done'[k].id <= given'
    BY <2>1 DEF OnceInv, GivenOnes
  <2>4. CommandsComeOnce'
    <3> SUFFICES ASSUME NEW k \in DOMAIN done', NEW l \in DOMAIN done',
                        done'[k].id = done'[l].id
                 PROVE  k = l
      BY DEF CommandsComeOnce
    <3>0. k \in Nat /\ l \in Nat /\ n \in Nat
      <4>1. DOMAIN done' = 1..(n + m)
        BY <1>4, ExecutedAll
      <4> QED BY <4>1, ExecutedAll
    <3>1. CASE k \in DOMAIN done /\ l \in DOMAIN done
      BY <2>1, <3>1 DEF OnceInv, CommandsComeOnce
    <3>2. CASE k \notin DOMAIN done /\ l \notin DOMAIN done
      <4>1. k - n = l - n
        BY <2>1, <3>2 DEF OnceInv, BatchedOnce
      <4> QED BY <3>0, <4>1
    <3>3. CASE \/ k \in DOMAIN done /\ l \notin DOMAIN done
               \/ k \notin DOMAIN done /\ l \in DOMAIN done
      BY <2>1, <3>3 DEF OnceInv, NotDoneYet
    <3> QED BY <3>1, <3>2, <3>3
  <2> QED BY <1>2, <2>2, <2>3, <2>4 DEF OnceInv, GivenOnes
<1> QED BY <1>3, <1>4

LEMMA CommandOnce ==
  ASSUME TypeOK, OnceInv, NEW c \in Channels, Command(c)
  PROVE  OnceInv'
<1>1. given \in Nat /\ given' = given + 1 /\ done' = done
  BY ConstantFacts DEF Command, TypeOK
<1>2. batch[c] \in Seq(Ids) /\ DOMAIN batch[c] = 1..Len(batch[c])
      /\ Len(batch[c]) \in Nat
  BY LenProperties DEF TypeOK
<1>3. ASSUME NEW d \in Channels, NEW i \in DOMAIN batch'[d]
      PROVE  \/ i \in DOMAIN batch[d] /\ batch'[d][i] = batch[d][i]
             \/ /\ d = c /\ batch'[d][i] = given'
                /\ \A j \in DOMAIN batch'[d] :
                     batch'[d][j] = given' => j = i \/ j \in DOMAIN batch[d]
  <2>1. CASE d # c
    BY <2>1 DEF Command, TypeOK
  <2>2. CASE d = c /\ c = "camera"
    <3>1. batch'[c] = <<given'>>
      BY <2>2 DEF Command, TypeOK
    <3> QED BY <2>2, <3>1
  <2>3. CASE d = c /\ c # "camera"
    <3>1. batch'[c] = Append(batch[c], given')
      BY <2>3 DEF Command, TypeOK
    <3>2. /\ DOMAIN batch'[c] = 1..(Len(batch[c]) + 1)
          /\ batch'[c][Len(batch[c]) + 1] = given'
          /\ \A j \in 1..Len(batch[c]) : batch'[c][j] = batch[c][j]
      BY <1>2, <3>1
    <3> QED BY <1>2, <2>3, <3>2
  <2> QED BY <2>1, <2>2, <2>3
<1>4. /\ \A d \in Channels : \A i \in DOMAIN batch[d] :
           batch[d][i] \in Nat /\ batch[d][i] # given' /\ batch[d][i] <= given'
      /\ \A k \in DOMAIN done :
           done[k].id \in Nat /\ done[k].id # given' /\ done[k].id <= given'
  <2>1. \A d \in Channels : \A i \in DOMAIN batch[d] : batch[d][i] \in Ids
    <3> SUFFICES ASSUME NEW d \in Channels, NEW i \in DOMAIN batch[d]
                 PROVE  batch[d][i] \in Ids
      OBVIOUS
    <3>1. batch[d] \in Seq(Ids)
      BY DEF TypeOK
    <3> QED BY <3>1, LenProperties
  <2>2. \A k \in DOMAIN done : done[k] \in Record
    <3>1. done \in Seq(Record)
      BY DEF TypeOK, Record
    <3> QED BY <3>1, LenProperties
  <2> QED BY <1>1, <2>1, <2>2, ConstantFacts DEF OnceInv, GivenOnes, Ids, Record
<1>5. BatchedOnce'
  <2> SUFFICES ASSUME NEW d \in Channels, NEW e \in Channels,
                      NEW i \in DOMAIN batch'[d], NEW j \in DOMAIN batch'[e],
                      batch'[d][i] = batch'[e][j]
               PROVE  d = e /\ i = j
    BY DEF BatchedOnce
  <2>1. CASE batch'[d][i] = given'
    <3>1. ASSUME NEW f \in Channels, NEW k \in DOMAIN batch'[f],
                 batch'[f][k] = given'
          PROVE  f = c /\ \A l \in DOMAIN batch'[f] :
                   batch'[f][l] = given' => l = k \/ l \in DOMAIN batch[f]
      BY <1>3, <1>4, <3>1
    <3>2. d = c /\ e = c
      BY <2>1, <3>1
    <3>3. CASE c = "camera"
      <4>1. batch'[c] = <<given'>>
        BY <3>3 DEF Command, TypeOK
      <4> QED BY <3>2, <4>1
    <3>4. CASE c # "camera"
      <4>1. batch'[c] = Append(batch[c], given')
        BY <3>4 DEF Command, TypeOK
      <4>2. /\ DOMAIN batch'[c] = 1..(Len(batch[c]) + 1)
            /\ \A l \in 1..Len(batch[c]) :
                 batch'[c][l] = batch[c][l] /\ batch[c][l] # given'
        BY <1>2, <1>4, <4>1
      <4>3. batch'[c][i] = given' /\ batch'[c][j] = given'
            /\ i \in DOMAIN batch'[c] /\ j \in DOMAIN batch'[c]
        BY <2>1, <3>2
      <4>4. i = Len(batch[c]) + 1 /\ j = Len(batch[c]) + 1
        BY <1>2, <4>2, <4>3
      <4> QED BY <3>2, <4>4
    <3> QED BY <3>3, <3>4
  <2>2. CASE batch'[d][i] # given'
    BY <1>3, <2>2 DEF OnceInv, BatchedOnce
  <2> QED BY <2>1, <2>2
<1>6. NotDoneYet'
  BY <1>1, <1>3, <1>4 DEF OnceInv, NotDoneYet
<1>7. GivenOnes'
  BY <1>1, <1>3, <1>4 DEF OnceInv, GivenOnes
<1>8. CommandsComeOnce'
  BY <1>1 DEF OnceInv, CommandsComeOnce
<1> QED BY <1>5, <1>6, <1>7, <1>8 DEF OnceInv

LEMMA OnceKept ==
  ASSUME OnceInv, UNCHANGED <<batch, done, given>>
  PROVE  OnceInv'
BY DEF OnceInv, BatchedOnce, NotDoneYet, GivenOnes, CommandsComeOnce

LEMMA SendActionsOnce ==
  ASSUME TypeOK, OnceInv, NEW c \in Channels, SendActions(c), given' = given
  PROVE  OnceInv'
<1>1. CASE UNCHANGED <<batch, done>>
  BY <1>1, OnceKept
<1>2. ASSUME NEW o, NEW yes \in BOOLEAN, Executes(o, yes), o # "refused",
             batch' = BatchAfter(c, o), done' = Executed(c, yes)
      PROVE  OnceInv'
  BY <1>2, ExecutedOnce DEF BatchAfter
<1>3. ASSUME NEW yes \in BOOLEAN, Executes("refused", yes),
             batch' = BatchAfter(c, "refused"), done' = Executed(c, yes)
      PROVE  UNCHANGED <<batch, done>>
  BY <1>3 DEF BatchAfter, Executes, Executed
<1> QED BY <1>1, <1>2, <1>3 DEF SendActions

LEMMA NextOnce == TypeOK /\ OnceInv /\ [Next]_vars => OnceInv'
<1> SUFFICES ASSUME TypeOK, OnceInv, [Next]_vars PROVE OnceInv'
  OBVIOUS
<1>1. CASE UnitCommand \/ LayerCommand \/ DebugCommand \/ DebugMoveCamera
  BY <1>1, CommandOnce
     DEF UnitCommand, LayerCommand, DebugCommand, DebugMoveCamera, Channels
<1>2. CASE SendsByHand \/ Sends
  BY <1>2, SendActionsOnce, OnceKept DEF SendsByHand, Sends, Channels
<1>3. CASE SendDebug \/ SendsCamera
  BY <1>3, ExecutedOnce DEF SendDebug, SendsCamera, SendsList, Channels
<1>4. CASE ReadsData \/ ReadsInfo \/ Queries \/ QuickSave \/ QuickLoad \/ Restart
  BY <1>4, OnceKept DEF ReadsData, ReadsInfo, Queries, QuickSave, QuickLoad, Restart
<1>5. CASE Remaps \/ SocketCloses \/ UNCHANGED vars
  BY <1>5, OnceKept DEF Remaps, SocketCloses
<1>6. CASE Coordinator /\ ~Sends
  BY <1>6, OnceKept DEF Coordinator, NewGame, Observes, StartsGame, Steps,
       TimePasses, Reacts, Goto, IssueEvents, Returns, RequestLeaveGame,
       PollLeaveGame
<1> QED BY <1>1, <1>2, <1>3, <1>4, <1>5, <1>6 DEF Next, Bot

(* No command is executed twice, whatever becomes of the requests.         *)
THEOREM ExecutedAtMostOnce == Spec => []CommandsComeOnce
<1>1. Init => TypeOK /\ GameInv /\ CallInv /\ OnceInv
  <2>1. Init => OnceInv
    BY DEF Init, OnceInv, BatchedOnce, NotDoneYet, GivenOnes, CommandsComeOnce
  <2> QED BY <2>1, InitTypes DEF Init, CallInv
<1>2. TypeOK /\ GameInv /\ CallInv /\ OnceInv /\ [Next]_vars
        => TypeOK' /\ GameInv' /\ CallInv' /\ OnceInv'
  BY NextTypes, NextCall, NextOnce
<1>3. OnceInv => CommandsComeOnce
  BY DEF OnceInv
<1> QED BY <1>1, <1>2, <1>3, PTL DEF Spec

(* A command of OnStep that is still batched is of this game, and is about *)
(* to be sent by the coordinator.                                          *)
Sendable(c, p) == p \in {"step", "sending"} \/ (p = "layer" /\ c = "layer")

OriginInv ==
  \A c \in Channels : \A i \in DOMAIN batch[c] :
    origin[batch[c][i]] # 0 =>
      /\ origin[batch[c][i]] = sc2.game
      /\ Automatic(c) /\ (c = "raw" => IsAgent)
      /\ Sendable(c, phase)

PlaceInv ==
  \A id \in 1..given :
    \/ id \in replaced
    \/ \E c \in Channels : \E i \in DOMAIN batch[c] : batch[c][i] = id
    \/ \E k \in DOMAIN done :
         done[k].id = id /\ origin[id] \in {0, done[k].game}

(* All of this as long as there is no error; nor is the socket closed.     *)
KeptInv == link.errors \/ (link.open /\ OriginInv /\ PlaceInv)

(* No error, before and after.                                             *)
Calm == ~link.errors /\ ~link'.errors /\ link'.open

LEMMA AsksCalm ==
  ASSUME TypeOK, NEW o, Asks(o), ~link'.errors, link.errors \/ link.open
  PROVE  Calm /\ o = "ok"
<1>1. CASE o = "refused" /\ MayRefuse /\ Refused
  BY <1>1 DEF MayRefuse, Refused, TypeOK, Links
<1>2. CASE MaySend /\ Waits(o, FALSE)
  <2>1. o = "ok" /\ ~link.errors
    BY <1>2, WaitsFacts
  <2>2. link'.open = TRUE
    BY <1>2, <2>1 DEF Waits
  <2> QED BY <2>1, <2>2 DEF Calm
<1> QED BY <1>1, <1>2 DEF Asks

LEMMA AsksAndWaitsCalm ==
  ASSUME TypeOK, NEW sent \in BOOLEAN, NEW o, AsksAndWaits(sent, o),
         ~link'.errors, link.errors \/ link.open
  PROVE  Calm /\ o = "ok" /\ sent
<1> DEFINE errs == ~sent /\ link.pending # "none"
<1>1. errs \in BOOLEAN /\ Waits(o, errs)
  BY DEF AsksAndWaits
<1> HIDE DEF errs
<1>2. o = "ok" /\ ~link.errors /\ ~errs
  BY <1>1, WaitsFacts
<1>3. link'.open = TRUE
  BY <1>1, <1>2 DEF Waits
<1> QED BY <1>2, <1>3 DEF Calm, errs, AsksAndWaits, MayRefuse

(* What changes neither the commands nor the game keeps them, as long as   *)
(* the coordinator goes on to send them.                                   *)
LEMMA KeptKept ==
  ASSUME KeptInv, UNCHANGED <<mode, batch, done, given, origin, replaced>>,
         ~link'.errors => Calm,
         \/ phase \notin {"step", "sending", "layer"}
         \/ sc2'.game = sc2.game /\ phase' = phase
         \/ sc2'.game = sc2.game /\ phase = "step" /\ phase' = "sending"
  PROVE  KeptInv'
<1> SUFFICES ASSUME Calm PROVE OriginInv' /\ PlaceInv'
  BY DEF KeptInv, Calm
<1>1. PlaceInv'
  BY DEF KeptInv, Calm, PlaceInv
<1>2. OriginInv'
  BY DEF KeptInv, Calm, OriginInv, Sendable, Automatic, IsAgent
<1> QED BY <1>1, <1>2

(* A channel is empty, and what it had is done.                            *)
Drained(c) ==
  /\ batch'[c] = <<>> /\ \A d \in Channels \ {c} : batch'[d] = batch[d]
  /\ \A k \in DOMAIN done : k \in DOMAIN done' /\ done'[k] = done[k]
  /\ \A i \in DOMAIN batch[c] : \E k \in DOMAIN done' :
       done'[k].id = batch[c][i] /\ done'[k].game = sc2.game

LEMMA ExecutedDrains ==
  ASSUME TypeOK, NEW c \in Channels, done' = Executed(c, TRUE),
         batch' = [batch EXCEPT ![c] = <<>>]
  PROVE  Drained(c)
<1>1. batch'[c] = <<>> /\ \A d \in Channels \ {c} : batch'[d] = batch[d]
  BY DEF TypeOK
<1>2. \A k \in DOMAIN done : k \in DOMAIN done' /\ done'[k] = done[k]
  <2>1. \A k \in 1..Len(done) : k \in 1..(Len(done) + Len(batch[c]))
    BY ExecutedAll
  <2> QED BY <2>1, ExecutedAll
<1>3. ASSUME NEW i \in DOMAIN batch[c]
      PROVE  \E k \in DOMAIN done' :
               done'[k].id = batch[c][i] /\ done'[k].game = sc2.game
  <2> DEFINE k == Len(done) + i
  <2>1. i \in 1..Len(batch[c])
    BY ExecutedAll
  <2>2. k \in DOMAIN done'
    <3>1. k \in 1..(Len(done) + Len(batch[c]))
      BY <2>1, ExecutedAll
    <3> QED BY <3>1, ExecutedAll
  <2>3. done'[k] = [id |-> batch[c][i], game |-> sc2.game]
    BY <2>1, ExecutedAll
  <2> HIDE DEF k
  <2>4. done'[k].id = batch[c][i] /\ done'[k].game = sc2.game
    BY ONLY <2>3
  <2> QED BY <2>2, <2>4
<1>4. \A i \in DOMAIN batch[c] : \E k \in DOMAIN done' :
        done'[k].id = batch[c][i] /\ done'[k].game = sc2.game
  BY <1>3
<1> QED BY ONLY <1>1, <1>2, <1>4 DEF Drained

LEMMA SendActionsDrains ==
  ASSUME TypeOK, NEW c \in Channels, SendActions(c), ~link'.errors,
         link.errors \/ link.open
  PROVE  Calm /\ Drained(c)
<1>1. CASE batch[c] = <<>>
  BY <1>1 DEF SendActions, Calm, Drained
<1>2. CASE batch[c] # <<>>
  <2>1. PICK o \in Outcomes \cup {"refused"}, yes \in BOOLEAN :
          /\ Asks(o) /\ Executes(o, yes)
          /\ batch' = BatchAfter(c, o) /\ done' = Executed(c, yes)
    BY <1>2 DEF SendActions
  <2>2. Calm /\ o = "ok"
    BY <2>1, AsksCalm
  <2>3. yes = TRUE /\ batch' = [batch EXCEPT ![c] = <<>>]
    BY <2>1, <2>2 DEF Executes, BatchAfter
  <2> QED BY <2>1, <2>2, <2>3, ExecutedDrains
<1> QED BY <1>1, <1>2

LEMMA DrainedKept ==
  ASSUME TypeOK, KeptInv, NEW c \in Channels, Calm, Drained(c),
         UNCHANGED <<mode, given, origin, replaced, sc2>>,
         \A d \in Channels \ {c} :
           Automatic(d) /\ (d = "raw" => IsAgent) /\ Sendable(d, phase) =>
             Sendable(d, phase')
  PROVE  KeptInv'
<1>1. link.open /\ OriginInv /\ PlaceInv
  BY DEF KeptInv, Calm
<1>2. \A d \in Channels : \A i \in DOMAIN batch'[d] :
        d # c /\ i \in DOMAIN batch[d] /\ batch'[d][i] = batch[d][i]
  BY DEF Drained
<1>3. OriginInv'
  BY <1>1, <1>2 DEF OriginInv, Automatic, IsAgent
<1>4. ASSUME NEW i \in DOMAIN batch[c]
      PROVE  origin[batch[c][i]] \in {0, sc2.game}
  BY <1>1 DEF OriginInv
<1>5. PlaceInv'
  <2> SUFFICES ASSUME NEW id \in 1..given
               PROVE  \/ id \in replaced
                      \/ \E d \in Channels : \E i \in DOMAIN batch'[d] :
                           batch'[d][i] = id
                      \/ \E k \in DOMAIN done' :
                           done'[k].id = id /\ origin[id] \in {0, done'[k].game}
    BY DEF PlaceInv
  <2>1. CASE \E i \in DOMAIN batch[c] : batch[c][i] = id
    BY <2>1, <1>4 DEF Drained
  <2>2. CASE \E d \in Channels \ {c} : \E i \in DOMAIN batch[d] : batch[d][i] = id
    BY <2>2 DEF Drained
  <2>3. CASE \E k \in DOMAIN done :
               done[k].id = id /\ origin[id] \in {0, done[k].game}
    BY <2>3 DEF Drained
  <2> QED BY <2>1, <2>2, <2>3, <1>1 DEF PlaceInv
<1> QED BY <1>3, <1>5 DEF KeptInv, Calm

LEMMA SendsListKept ==
  ASSUME TypeOK, KeptInv, NEW c \in Channels, SendsList(c)
  PROVE  KeptInv'
<1> SUFFICES ASSUME ~link'.errors PROVE KeptInv'
  BY DEF KeptInv
<1>1. PICK sent \in BOOLEAN, o \in Outcomes, yes \in BOOLEAN :
        /\ AsksAndWaits(sent, o)
        /\ Executes(IF sent THEN o ELSE "refused", yes)
        /\ done' = Executed(c, yes)
  BY DEF SendsList
<1>2. Calm /\ o = "ok" /\ sent
  BY <1>1, AsksAndWaitsCalm DEF KeptInv
<1>3. yes = TRUE /\ batch' = [batch EXCEPT ![c] = <<>>]
  BY <1>1, <1>2 DEF Executes, SendsList
<1>4. Drained(c)
  BY <1>1, <1>3, ExecutedDrains
<1> QED BY <1>2, <1>4, DrainedKept DEF SendsList

LEMMA CommandKept ==
  ASSUME TypeOK, OnceInv, KeptInv, NEW c \in Channels, Command(c)
  PROVE  KeptInv'
<1> SUFFICES ASSUME ~link.errors PROVE OriginInv' /\ PlaceInv'
  BY DEF Command, KeptInv
<1>0. link.open /\ OriginInv /\ PlaceInv
  BY DEF KeptInv
<1>1. /\ given' = given + 1 /\ given \in Nat /\ given' \in Ids
      /\ UNCHANGED <<mode, phase, sc2, done>> /\ c \in mode.uses
  BY ConstantFacts DEF Command, TypeOK, Ids
<1>2. batch[c] \in Seq(Ids) /\ DOMAIN batch[c] = 1..Len(batch[c])
      /\ Len(batch[c]) \in Nat
  BY LenProperties DEF TypeOK
<1>3. /\ origin'[given'] = (IF phase = "step" /\ Automatic(c) THEN sc2.game ELSE 0)
      /\ \A id \in Ids : id # given' => origin'[id] = origin[id]
  BY <1>1 DEF Command, TypeOK
<1>4. \A d \in Channels \ {c} : batch'[d] = batch[d]
  BY DEF Command, TypeOK
<1>5. \A i \in DOMAIN batch'[c] :
        \/ batch'[c][i] = given'
        \/ i \in DOMAIN batch[c] /\ batch'[c][i] = batch[c][i]
  <2>1. CASE c = "camera"
    BY <2>1 DEF Command, TypeOK
  <2>2. CASE c # "camera"
    <3>1. batch'[c] = Append(batch[c], given')
      BY <2>2 DEF Command, TypeOK
    <3> QED BY <1>2, <3>1
  <2> QED BY <2>1, <2>2
<1>6. /\ \E i \in DOMAIN batch'[c] : batch'[c][i] = given'
      /\ replaced \subseteq replaced'
      /\ \A i \in DOMAIN batch[c] :
           \/ batch[c][i] \in replaced'
           \/ i \in DOMAIN batch'[c] /\ batch'[c][i] = batch[c][i]
  <2>1. CASE c = "camera"
    <3>1. batch'[c] = <<given'>> /\ replaced' = replaced \cup Range(batch[c])
      BY <2>1 DEF Command, TypeOK
    <3>2. 1 \in DOMAIN batch'[c] /\ batch'[c][1] = given'
      BY <3>1
    <3> QED BY <3>1, <3>2 DEF Range
  <2>2. CASE c # "camera"
    <3>1. batch'[c] = Append(batch[c], given') /\ replaced' = replaced
      BY <2>2 DEF Command, TypeOK
    <3>2. /\ DOMAIN batch'[c] = 1..(Len(batch[c]) + 1)
          /\ batch'[c][Len(batch[c]) + 1] = given'
          /\ \A i \in 1..Len(batch[c]) : batch'[c][i] = batch[c][i]
      BY <1>2, <3>1
    <3>3. Len(batch[c]) + 1 \in DOMAIN batch'[c]
      BY <1>2, <3>2
    <3> QED BY <1>2, <3>1, <3>2, <3>3
  <2> QED BY <2>1, <2>2
<1>7. /\ \A d \in Channels : \A i \in DOMAIN batch[d] : batch[d][i] \in Ids
      /\ 1..given \subseteq Ids /\ given' \notin 1..given
  <2>1. ASSUME NEW d \in Channels, NEW i \in DOMAIN batch[d]
        PROVE  batch[d][i] \in Ids
    <3>1. batch[d] \in Seq(Ids)
      BY DEF TypeOK
    <3> QED BY <3>1, LenProperties
  <2> QED BY <1>1, <2>1, ConstantFacts DEF Ids
<1>8. OriginInv'
  <2> SUFFICES ASSUME NEW d \in Channels, NEW i \in DOMAIN batch'[d],
                      origin'[batch'[d][i]] # 0
               PROVE  /\ origin'[batch'[d][i]] = sc2.game
                      /\ Automatic(d) /\ (d = "raw" => IsAgent)
                      /\ Sendable(d, phase)
    BY <1>1 DEF OriginInv, Automatic, IsAgent
  <2>1. CASE d = c /\ batch'[d][i] = given'
    <3>1. "raw" \in mode.uses => IsAgent
      BY ClientAssumption DEF TypeOK, IsAgent
    <3> QED BY <2>1, <3>1, <1>1, <1>3 DEF Sendable
  <2>2. CASE i \in DOMAIN batch[d] /\ batch'[d][i] = batch[d][i]
    <3>1. batch[d][i] # given'
      BY <2>2, <1>1, <1>7, ConstantFacts DEF OnceInv, GivenOnes, Ids
    <3> QED BY <2>2, <3>1, <1>0, <1>3, <1>7 DEF OriginInv
  <2> QED BY <2>1, <2>2, <1>4, <1>5
<1>9. PlaceInv'
  <2> SUFFICES ASSUME NEW id \in 1..given'
               PROVE  \/ id \in replaced'
                      \/ \E d \in Channels : \E i \in DOMAIN batch'[d] :
                           batch'[d][i] = id
                      \/ \E k \in DOMAIN done :
                           done[k].id = id /\ origin'[id] \in {0, done[k].game}
    BY <1>1 DEF PlaceInv
  <2>1. CASE id = given'
    BY <2>1, <1>6
  <2>2. CASE id # given'
    <3>1. id \in 1..given /\ id \in Ids
      BY <2>2, <1>1, <1>7
    <3> QED BY <2>2, <3>1, <1>0, <1>3, <1>4, <1>6 DEF PlaceInv
  <2> QED BY <2>1, <2>2
<1> QED BY <1>8, <1>9

LEMMA BotKept ==
  TypeOK /\ OnceInv /\ KeptInv /\ Bot => KeptInv'
<1> SUFFICES ASSUME TypeOK, OnceInv, KeptInv, Bot PROVE KeptInv'
  OBVIOUS
<1>0. link.errors \/ link.open
  BY DEF KeptInv
<1>1. CASE UnitCommand \/ LayerCommand \/ DebugCommand \/ DebugMoveCamera
  BY <1>1, CommandKept
     DEF UnitCommand, LayerCommand, DebugCommand, DebugMoveCamera, Channels
<1>2. CASE ReadsData
  <2>1. ~link'.errors => Calm
    BY <1>0, <1>2, AsksCalm DEF ReadsData, GetData, Calm
  <2> QED BY <1>2, <2>1, KeptKept DEF ReadsData
<1>3. CASE ReadsInfo
  <2>1. ~link'.errors => Calm
    BY <1>0, <1>3, AsksCalm DEF ReadsInfo, GetGameInfo, Calm
  <2> QED BY <1>3, <2>1, KeptKept DEF ReadsInfo
<1>4. CASE Queries
  BY <1>0, <1>4, AsksCalm, KeptKept DEF Queries
<1>5. CASE SendsByHand
  <2>1. PICK c \in Channels : SendActions(c)
    BY <1>5 DEF SendsByHand, Channels
  <2>2. CASE ~link'.errors
    BY <1>0, <1>5, <2>1, <2>2, SendActionsDrains, DrainedKept DEF SendsByHand
  <2> QED BY <2>2 DEF KeptInv
<1>6. CASE SendDebug
  <2>1. "debug" \in Channels /\ SendsList("debug")
    BY <1>6 DEF SendDebug, Channels
  <2> QED BY <1>0, <2>1, SendsListKept
<1>7. CASE QuickSave \/ QuickLoad
  <2>1. sc2'.game = sc2.game
    BY <1>7 DEF QuickSave, QuickLoad, TypeOK, Games
  <2>2. ~link'.errors => Calm
    BY <1>0, <1>7, AsksCalm DEF QuickSave, QuickLoad
  <2> QED BY <1>7, <2>1, <2>2, KeptKept DEF QuickSave, QuickLoad
<1>8. CASE Restart
  <2>1. ~link'.errors => Calm
    BY <1>0, <1>8, AsksCalm DEF Restart
  <2> QED BY <1>8, <2>1, KeptKept DEF Restart
<1> QED BY <1>1, <1>2, <1>3, <1>4, <1>5, <1>6, <1>7, <1>8 DEF Bot

LEMMA CoordinatorKept == TypeOK /\ KeptInv /\ Coordinator => KeptInv'
<1> SUFFICES ASSUME TypeOK, KeptInv, Coordinator PROVE KeptInv'
  OBVIOUS
<1>0. link.errors \/ link.open
  BY DEF KeptInv
<1>1. CASE NewGame
  <2>1. ~link'.errors => Calm
    BY <1>0, <1>1, AsksCalm DEF NewGame
  <2> QED BY <1>1, <2>1, KeptKept DEF NewGame
<1>2. CASE Observes
  <2>1. ~link'.errors => Calm
    BY <1>0, <1>2, AsksCalm DEF Observes, GetObservation
  <2> QED BY <1>2, <2>1, KeptKept DEF Observes
<1>3. CASE Steps
  <2>1. ~link'.errors => Calm
    BY <1>0, <1>3, AsksAndWaitsCalm DEF Steps
  <2> QED BY <1>3, <2>1, KeptKept DEF Steps
<1>4. CASE StartsGame \/ TimePasses \/ Reacts \/ Returns
  <2>1. ~link'.errors => Calm
    BY <1>0, <1>4 DEF StartsGame, TimePasses, Reacts, Returns, Goto, IssueEvents,
                      Calm
  <2> QED BY <1>4, <2>1, KeptKept
          DEF StartsGame, TimePasses, Reacts, Returns, Goto, IssueEvents
<1>5. CASE Sends
  <2> SUFFICES ASSUME ~link'.errors PROVE KeptInv'
    BY DEF KeptInv
  <2>1. CASE phase = "sending" /\ IsAgent
    <3>1. Calm /\ Drained("raw")
      BY <1>0, <1>5, <2>1, SendActionsDrains DEF Sends, Channels
    <3>2. mode.realtime \/ phase' = "layer"
      BY <1>5, <2>1 DEF Sends
    <3>3. \A d \in Channels \ {"raw"} : Automatic(d) => Sendable(d, phase')
      BY <3>2 DEF Automatic, Sendable
    <3> QED BY <1>5, <3>1, <3>3, DrainedKept DEF Sends, Channels
  <2>2. CASE ~(phase = "sending" /\ IsAgent) /\ ~mode.realtime
    <3>1. Calm /\ Drained("layer")
      BY <1>0, <1>5, <2>2, SendActionsDrains DEF Sends, Channels
    <3>2. \A d \in Channels \ {"layer"} :
            ~(Automatic(d) /\ (d = "raw" => IsAgent) /\ Sendable(d, phase))
      BY <1>5, <2>2 DEF Automatic, Sendable, Sends
    <3> QED BY <1>5, <3>1, <3>2, DrainedKept DEF Sends, Channels
  <2>3. CASE ~(phase = "sending" /\ IsAgent) /\ mode.realtime
    <3>1. /\ UNCHANGED <<link, batch, done, mode, given, origin, replaced, sc2>>
          /\ phase \in {"sending", "layer"}
      BY <1>5, <2>3 DEF Sends
    <3>2. OriginInv /\ PlaceInv /\ Calm
      BY <3>1, <1>0 DEF KeptInv, Calm
    <3>3. OriginInv'
      BY <2>3, <3>1, <3>2 DEF OriginInv, Automatic, Sendable, IsAgent
    <3> QED BY <3>1, <3>2, <3>3 DEF KeptInv, PlaceInv, Calm
  <2> QED BY <2>1, <2>2, <2>3
<1>6. CASE RequestLeaveGame
  <2>1. ~link'.errors => Calm
    BY <1>0, <1>6 DEF RequestLeaveGame, Refused, MayRefuse, Calm, TypeOK, Links
  <2> QED BY <1>6, <2>1, KeptKept DEF RequestLeaveGame
<1>7. CASE PollLeaveGame
  <2>1. ~link'.errors => Calm
    <3>1. ASSUME NEW o \in Outcomes, Waits(o, FALSE), ~link'.errors PROVE Calm
      BY <3>1, WaitsFacts DEF Waits, Calm
    <3> QED BY <1>0, <1>7, <3>1 DEF PollLeaveGame, Calm
  <2> QED BY <1>7, <2>1, KeptKept DEF PollLeaveGame
<1> QED BY <1>1, <1>2, <1>3, <1>4, <1>5, <1>6, <1>7 DEF Coordinator

LEMMA NextKept == TypeOK /\ OnceInv /\ KeptInv /\ [Next]_vars => KeptInv'
<1> SUFFICES ASSUME TypeOK, OnceInv, KeptInv, [Next]_vars PROVE KeptInv'
  OBVIOUS
<1>0. link.errors \/ link.open
  BY DEF KeptInv
<1>1. CASE Bot
  BY <1>1, BotKept
<1>2. CASE Remaps
  <2>1. ~link'.errors => Calm
    BY <1>0, <1>2, AsksCalm DEF Remaps, GetData, Calm
  <2> QED BY <1>2, <2>1, KeptKept DEF Remaps
<1>3. CASE SendsCamera
  BY <1>0, <1>3, SendsListKept DEF SendsCamera, Channels
<1>4. CASE Coordinator
  BY <1>4, CoordinatorKept
<1>5. CASE SocketCloses
  <2>1. link'.errors = TRUE
    BY <1>5 DEF SocketCloses, TypeOK, Links
  <2> QED BY <2>1 DEF KeptInv
<1>6. CASE UNCHANGED vars
  BY <1>0, <1>6, KeptKept DEF Calm
<1> QED BY <1>1, <1>2, <1>3, <1>4, <1>5, <1>6 DEF Next

(* As long as nothing fails no command is lost, and those of OnStep reach  *)
(* the game they were meant for.                                           *)
THEOREM NothingLost == Spec => []CommandsAreKept
<1>1. Init => TypeOK /\ GameInv /\ CallInv /\ OnceInv /\ KeptInv
  <2>1. Init => OnceInv
    BY DEF Init, OnceInv, BatchedOnce, NotDoneYet, GivenOnes, CommandsComeOnce
  <2>2. Init => KeptInv
    BY DEF Init, KeptInv, OriginInv, PlaceInv
  <2> QED BY <2>1, <2>2, InitTypes DEF Init, CallInv
<1>2. TypeOK /\ GameInv /\ CallInv /\ OnceInv /\ KeptInv /\ [Next]_vars
        => TypeOK' /\ GameInv' /\ CallInv' /\ OnceInv' /\ KeptInv'
  BY NextTypes, NextCall, NextOnce, NextKept
<1>3. KeptInv => CommandsAreKept
  BY DEF KeptInv, PlaceInv, CommandsAreKept, Range
<1> QED BY <1>1, <1>2, <1>3, PTL DEF Spec

(* The loops agree with SC2 but while an observation is due, and no        *)
(* command is owed when commands_ is written.                              *)
Settled == {"full", "found", "start", "first", "idle", "call", "step", "sending",
            "layer", "end", "restart"}

ReportInv ==
  /\ missed = {} /\ owed \subseteq commands
  /\ phase \in {"step", "sending"} => owed = {}
  /\ phase \in Settled => loops.current = sc2.loop
  /\ phase = "call" => loops.current # loops.previous
  /\ phase = "observing" => loops.current # sc2.loop

IdleInv == link.errors \/ meddled \/ mode.realtime \/ (link.open /\ ReportInv)

LEMMA ReportKept ==
  ASSUME ReportInv, UNCHANGED <<loops, commands, owed, missed>>,
         sc2'.loop = sc2.loop,
         \/ phase' = phase
         \/ phase' \notin Settled \cup {"observing"}
         \/ phase \in Settled /\ phase' \in Settled \ {"step", "sending", "call"}
         \/ phase = "step" /\ phase' = "sending"
  PROVE  ReportInv'
BY DEF ReportInv, Settled

LEMMA BotReports ==
  TypeOK /\ IdleInv /\ Bot => IdleInv'
<1> SUFFICES ASSUME TypeOK, IdleInv, Bot, ~link'.errors, ~meddled', ~mode.realtime
             PROVE  link'.open /\ ReportInv'
  BY DEF IdleInv, Bot, Command, UnitCommand, LayerCommand, DebugCommand,
         DebugMoveCamera, ReadsData, ReadsInfo, Queries, SendsByHand, SendDebug,
         SendsList, QuickSave, QuickLoad, Restart
<1>0. ~SendsByHand /\ ~QuickLoad
  BY DEF SendsByHand, QuickLoad
<1>1. meddled' = meddled
  BY <1>0 DEF Bot, Command, UnitCommand, LayerCommand, DebugCommand,
         DebugMoveCamera, ReadsData, ReadsInfo, Queries, SendDebug,
         SendsList, QuickSave, Restart
<1>2. link.errors \/ (link.open /\ ReportInv)
  BY <1>1 DEF IdleInv
<1>3. CASE UnitCommand \/ LayerCommand \/ DebugCommand \/ DebugMoveCamera
  BY <1>2, <1>3, ReportKept
     DEF UnitCommand, LayerCommand, DebugCommand, DebugMoveCamera, Command
<1>4. CASE ReadsData
  <2>1. Calm
    BY <1>2, <1>4, AsksCalm DEF ReadsData, GetData, Calm
  <2> QED BY <1>2, <1>4, <2>1, ReportKept DEF ReadsData, Calm
<1>5. CASE ReadsInfo
  <2>1. Calm
    BY <1>2, <1>5, AsksCalm DEF ReadsInfo, GetGameInfo, Calm
  <2> QED BY <1>2, <1>5, <2>1, ReportKept DEF ReadsInfo, Calm
<1>6. CASE Queries
  <2>1. Calm
    BY <1>2, <1>6, AsksCalm DEF Queries
  <2> QED BY <1>2, <1>6, <2>1, ReportKept DEF Queries, Calm
<1>7. CASE SendDebug
  <2>1. Calm
    BY <1>2, <1>7, AsksAndWaitsCalm DEF SendDebug, SendsList
  <2> QED BY <1>2, <1>7, <2>1, ReportKept DEF SendDebug, SendsList, Calm
<1>8. CASE QuickSave
  <2>1. Calm
    BY <1>2, <1>8, AsksCalm DEF QuickSave
  <2>2. sc2'.loop = sc2.loop
    BY <1>8 DEF QuickSave, TypeOK, Games
  <2> QED BY <1>2, <1>8, <2>1, <2>2, ReportKept DEF QuickSave, Calm
<1>9. CASE Restart
  <2>1. PICK o \in Outcomes \cup {"refused"} :
          Asks(o) /\ phase' = IF o = "ok" THEN "restarted" ELSE phase
    BY <1>9 DEF Restart
  <2>2. Calm /\ phase' = "restarted"
    BY <1>2, <2>1, AsksCalm
  <2> QED BY <1>2, <1>9, <2>2 DEF Restart, Calm, ReportInv, Settled
<1> QED BY <1>0, <1>3, <1>4, <1>5, <1>6, <1>7, <1>8, <1>9 DEF Bot

LEMMA CoordinatorReports ==
  TypeOK /\ IdleInv /\ Coordinator => IdleInv'
<1> SUFFICES ASSUME TypeOK, IdleInv, Coordinator PROVE IdleInv'
  OBVIOUS
<1>a. UNCHANGED <<mode, meddled>>
  <2>1. CASE NewGame
    BY <2>1 DEF NewGame, hist
  <2>2. CASE Observes \/ StartsGame \/ Steps \/ TimePasses
    BY <2>2 DEF Observes, StartsGame, Steps, TimePasses, hist
  <2>3. CASE Reacts
    BY <2>3 DEF Reacts, Goto, IssueEvents, hist
  <2>4. CASE Sends
    BY <2>4 DEF Sends
  <2>5. CASE Returns
    BY <2>5 DEF Returns, Goto, IssueEvents, hist
  <2>6. CASE RequestLeaveGame \/ PollLeaveGame
    BY <2>6 DEF RequestLeaveGame, PollLeaveGame, hist
  <2> QED BY <2>1, <2>2, <2>3, <2>4, <2>5, <2>6 DEF Coordinator
<1> SUFFICES ASSUME ~link'.errors, ~meddled, ~mode.realtime
             PROVE  link'.open /\ ReportInv'
  BY <1>a DEF IdleInv
<1>0. link.errors \/ (link.open /\ ReportInv)
  BY DEF IdleInv
<1>1. CASE NewGame
  <2>1. Calm
    BY <1>0, <1>1, AsksCalm DEF NewGame
  <2> QED BY <1>0, <1>1, <2>1 DEF NewGame, Calm, ReportInv, Settled
<1>2. CASE Observes
  <2>1. PICK o \in Outcomes \cup {"refused"} :
          Asks(o) /\ loops' = IF o = "ok" THEN NextLoops ELSE loops
    BY <1>2 DEF Observes, GetObservation
  <2>2. Calm /\ loops' = NextLoops
    BY <1>0, <2>1, AsksCalm
  <2>3. loops'.current = sc2.loop /\ loops'.previous = loops.current
    BY <2>2 DEF NextLoops
  <2>4. phase' = "call" => phase = "observing"
    BY <1>2 DEF Observes, GetObservation
  <2>5. phase' \notin {"observing", "step", "sending"}
    BY <1>2 DEF Observes, GetObservation
  <2> QED BY <1>0, <1>2, <2>2, <2>3, <2>4, <2>5
          DEF Observes, Calm, ReportInv
<1>3. CASE Steps
  <2>1. PICK sent \in BOOLEAN, o \in Outcomes, yes \in BOOLEAN :
          /\ AsksAndWaits(sent, o) /\ Executes(IF sent THEN o ELSE "refused", yes)
          /\ \E over \in BOOLEAN :
               sc2' = IF yes THEN [sc2 EXCEPT !.loop = @ + 1, !.ended = over]
                             ELSE sc2
          /\ phase' = IF o = "ok" THEN "observing" ELSE "call"
    BY <1>3 DEF Steps
  <2>2. Calm /\ o = "ok" /\ sent
    BY <1>0, <2>1, AsksAndWaitsCalm
  <2>3. yes = TRUE /\ phase' = "observing"
    BY <2>1, <2>2 DEF Executes
  <2>4. sc2'.loop = sc2.loop + 1 /\ sc2.loop \in Int
    BY <2>1, <2>3, SC2Facts DEF TypeOK, Games
  <2>5. loops'.current # sc2'.loop
    BY <1>0, <1>3, <2>2, <2>4 DEF Steps, ReportInv, Settled, Calm
  <2> QED BY <1>0, <1>3, <2>2, <2>3, <2>5 DEF Steps, ReportInv, Settled, Calm
<1>4. CASE StartsGame
  BY <1>0, <1>4, ReportKept DEF StartsGame, Settled
<1>5. CASE Reacts
  <2>1. link' = link
    BY <1>5 DEF Reacts, Goto, IssueEvents
  <2>2. CASE EndsFirst /\ ~IsInGame
    BY <1>0, <1>5, <2>1, <2>2, ReportKept DEF Reacts, Goto, Settled
  <2>3. CASE ~(EndsFirst /\ ~IsInGame)
    BY <1>0, <1>5, <2>1, <2>3 DEF Reacts, IssueEvents, ReportInv, Settled
  <2> QED BY <2>2, <2>3
<1>6. CASE Sends
  <2>1. phase' \in {"layer", "end", "idle"} /\ phase \in Settled
    BY <1>6 DEF Sends, AfterSending, Settled
  <2>2. CASE phase = "sending" /\ IsAgent
    <3>1. SendActions("raw") /\ UNCHANGED <<sc2, loops, missed>>
      BY <1>6, <2>2 DEF Sends
    <3>2. CASE batch["raw"] = <<>>
      BY <1>0, <2>1, <2>2, <3>1, <3>2 DEF SendActions, ReportInv, Settled
    <3>3. CASE batch["raw"] # <<>>
      <4>1. PICK o \in Outcomes \cup {"refused"}, yes \in BOOLEAN :
              /\ Asks(o) /\ commands' = CommandsAfter("raw", o)
              /\ owed' = IF yes THEN owed \cup Range(batch["raw"]) ELSE owed
        BY <3>1, <3>3 DEF SendActions
      <4>2. Calm /\ commands' = Range(batch["raw"])
        BY <1>0, <4>1, AsksCalm DEF CommandsAfter
      <4>3. owed = {}
        BY <1>0, <2>2, <4>2 DEF ReportInv, Calm
      <4> QED BY <1>0, <2>1, <2>2, <3>1, <4>1, <4>2, <4>3
              DEF ReportInv, Settled, Calm
    <3> QED BY <3>2, <3>3
  <2>3. CASE ~(phase = "sending" /\ IsAgent)
    <3>1. SendActions("layer") /\ UNCHANGED <<sc2, loops, missed>>
      BY <1>6, <2>3 DEF Sends
    <3>2. Calm
      BY <1>0, <3>1, SendActionsDrains DEF Channels
    <3>3. UNCHANGED <<commands, owed>>
      BY <3>1 DEF SendActions, CommandsAfter
    <3> QED BY <1>0, <2>1, <3>1, <3>2, <3>3, ReportKept DEF Calm, Settled
  <2> QED BY <2>2, <2>3
<1>7. CASE Returns
  <2>1. link' = link
    BY <1>7 DEF Returns, Goto, IssueEvents
  <2>2. CASE phase = "start" /\ IsAgent
    BY <1>0, <1>7, <2>1, <2>2 DEF Returns, IssueEvents, ReportInv, Settled
  <2>3. CASE ~(phase = "start" /\ IsAgent)
    <3>1. UNCHANGED <<loops, commands, owed, missed, sc2>>
      BY <1>7, <2>3 DEF Returns, Goto
    <3>2. \/ phase' \notin Settled \cup {"observing"}
          \/ phase \in Settled /\ phase' \in Settled \ {"step", "sending", "call"}
          \/ phase = "step" /\ phase' = "sending"
      BY <1>7, <2>3 DEF Returns, Goto, Settled
    <3> QED BY <1>0, <2>1, <3>1, <3>2, ReportKept
  <2> QED BY <2>2, <2>3
<1>8. CASE RequestLeaveGame
  <2>1. Calm
    BY <1>0, <1>8 DEF RequestLeaveGame, Refused, MayRefuse, Calm, TypeOK, Links
  <2> QED BY <1>0, <1>8, <2>1, ReportKept DEF RequestLeaveGame, Settled, Calm
<1>9. CASE PollLeaveGame
  <2>1. Calm
    <3>1. ASSUME NEW o \in Outcomes, Waits(o, FALSE) PROVE Calm
      BY <3>1, WaitsFacts DEF Waits, Calm
    <3> QED BY <1>0, <1>9, <3>1 DEF PollLeaveGame, Calm
  <2> QED BY <1>0, <1>9, <2>1, ReportKept DEF PollLeaveGame, Settled, Calm
<1>10. CASE TimePasses
  BY <1>10 DEF TimePasses
<1> QED BY <1>1, <1>2, <1>3, <1>4, <1>5, <1>6, <1>7, <1>8, <1>9, <1>10
        DEF Coordinator

LEMMA NextReports == TypeOK /\ IdleInv /\ [Next]_vars => IdleInv'
<1> SUFFICES ASSUME TypeOK, IdleInv, [Next]_vars PROVE IdleInv'
  OBVIOUS
<1>1. CASE Bot
  BY <1>1, BotReports
<1>2. CASE Coordinator
  BY <1>2, CoordinatorReports
<1>3. CASE Remaps \/ SendsCamera
  <2>0. UNCHANGED <<mode, meddled>>
    BY <1>3 DEF Remaps, SendsCamera, SendsList, hist
  <2> SUFFICES ASSUME ~link'.errors, ~meddled, ~mode.realtime
               PROVE  link'.open /\ ReportInv'
    BY <2>0 DEF IdleInv
  <2>1. Calm
    BY <1>3, AsksCalm, AsksAndWaitsCalm
       DEF IdleInv, Remaps, GetData, SendsCamera, SendsList, Calm
  <2> QED BY <1>3, <2>1, ReportKept
          DEF IdleInv, Remaps, SendsCamera, SendsList, Calm
<1>4. CASE SocketCloses
  <2>1. link'.errors = TRUE
    BY <1>4 DEF SocketCloses, TypeOK, Links
  <2> QED BY <2>1 DEF IdleInv
<1>5. CASE UNCHANGED vars
  BY <1>5, ReportKept DEF IdleInv
<1> QED BY <1>1, <1>2, <1>3, <1>4, <1>5 DEF Next

(* As long as nothing fails, in steps, a unit commanded in a step is       *)
(* looked at in the next IssueIdleEvents.                                  *)
THEOREM IdleReported == Spec => []IdleIsReported
<1>1. Init => TypeOK /\ GameInv /\ CallInv /\ IdleInv
  BY InitTypes DEF Init, CallInv, IdleInv, ReportInv, Settled
<1>2. TypeOK /\ GameInv /\ CallInv /\ IdleInv /\ [Next]_vars
        => TypeOK' /\ GameInv' /\ CallInv' /\ IdleInv'
  BY NextTypes, NextCall, NextReports
<1>3. IdleInv => IdleIsReported
  BY DEF IdleInv, ReportInv, IdleIsReported
<1> QED BY <1>1, <1>2, <1>3, PTL DEF Spec
=============================================================================
