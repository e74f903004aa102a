-------------------------------- MODULE Client --------------------------------
(***************************************************************************)
(* What a bot or a replay observer works with, over the games of one       *)
(* process: the cached data and GameInfo of sc2::ObservationImp, the       *)
(* batches of the action interfaces and of sc2::DebugImp, the units        *)
(* commanded last, quick save and load, and Restart.  The callbacks come   *)
(* in the order of sc2::Coordinator, of which this is one client.          *)
(*                                                                         *)
(* The coordinator and the bot share a thread, so that a request and the   *)
(* wait for its answer are one step with one of five outcomes; how they    *)
(* come about is Protocol's subject.  The callbacks of several clients are *)
(* AgentCoordinator's and ReplayCoordinator's: of the orders they have,    *)
(* this module takes those of multi_threaded and of realtime.              *)
(***************************************************************************)
EXTENDS Integers, FiniteSets, Sequences, Functions

CONSTANTS
  Programs,     (* the bots and observers considered, each a record:       *)
                (*   role; multi: is_multiplayer_; realtime                *)
                (*   uses, the calls it makes                              *)
  Tables,       (* the tables of data; "abilities" is one of them          *)
  MaxCommands,  (* bound on the commands given                             *)
  MaxGames,     (* bound on the games, replays and restarts                *)
  MaxLoops,     (* bound on the game loops of a game                       *)
  MaxFaults     (* bound on the faults of SC2 and of the connection        *)

Uses == {"data", "info", "query", "raw", "layer", "debug", "camera", "hand",
         "load", "restart"}

ASSUME ClientAssumption ==
  /\ Programs \subseteq [role : {"agent", "observer"}, multi : BOOLEAN,
                         realtime : BOOLEAN, uses : SUBSET Uses]
  /\ \A m \in Programs : m.role = "observer" =>
       ~m.multi /\ m.uses \cap {"raw", "load", "restart"} = {}
  /\ "abilities" \in Tables
  /\ {MaxCommands, MaxGames, MaxFaults} \subseteq Nat /\ MaxLoops \in Nat \ {0}

VARIABLES
  mode,      (* the program; it does not change                            *)
  phase,     (* the callback under way, or what the coordinator does       *)
  op,        (* what is left of a call: "camera", "remap" or "none"        *)
  link,      (* the connection and the requests:                           *)
             (*   open; pending: response_pending_ between the calls;      *)
             (*   app: app_state_; errors: whether client_errors_ ever had *)
             (*   one; faults                                              *)
  sc2,       (* SC2: the game (a restart is another one), its map, whether *)
             (*   it has ended, its loop, the loop saved (-1: none)        *)
  loops,     (* current_game_loop_ and previous_game_loop                  *)
  cached,    (* abilities_cached_ and so on, for each table                *)
  table,     (* the map whose data each table holds; 0: it is empty        *)
  info,      (* game_info_ and game_info_cached_: cached; map;             *)
             (*   players: player_info, by the map of each answer; starts: *)
             (*   start_locations; early, based: history of this map, the  *)
             (*   call came in OnGameFullStart; a town hall was found      *)
  batch,     (* the commands of each channel that have not been sent       *)
  commands,  (* commands_                                                  *)
  given,     (* history: the commands are 1, ..., given                    *)
  origin,    (* history: the game of a command of OnStep; 0: not of OnStep *)
  done,      (* history: the commands SC2 executed, each with its game     *)
  replaced,  (* history: the camera moves that another one replaced        *)
  owed,      (* history: the raw commands of no IssueIdleEvents so far     *)
  missed,    (* history: those that the next one did not look at           *)
  meddled    (* history: the bot called SendActions or Load                *)

caches  == <<cached, table, info>>
hist    == <<given, origin, done, replaced, owed, missed, meddled>>
vars    == <<mode, phase, op, link, sc2, loops, caches, batch, commands, hist>>

(* "raw" is ActionImp; "layer" is ActionFeatureLayerImp, and the           *)
(* ObserverActionImp of an observer; "debug" are the lists and flags of    *)
(* DebugImp, of which only debug_move_camera_, "camera", holds one command *)
(* and is sent on its own.                                                 *)
Channels == {"raw", "layer", "debug", "camera"}

Ids == 1..MaxCommands

IsAgent == mode.role = "agent"

Init ==
  /\ mode \in Programs
  /\ phase = "out" /\ op = "none"
  /\ link = [open |-> TRUE, pending |-> "none", app |-> "normal",
             errors |-> FALSE, faults |-> 0]
  /\ sc2 = [game |-> 0, map |-> 0, ended |-> TRUE, loop |-> 0, saved |-> -1]
  /\ loops = [current |-> -1, previous |-> -1]
  /\ cached = [t \in Tables |-> FALSE] /\ table = [t \in Tables |-> 0]
  /\ info = [cached |-> FALSE, map |-> 0, players |-> <<>>, starts |-> <<>>,
             early |-> FALSE, based |-> FALSE]
  /\ batch = [c \in Channels |-> <<>>] /\ commands = {}
  /\ given = 0 /\ origin = [i \in Ids |-> 0] /\ done = <<>>
  /\ replaced = {} /\ owed = {} /\ missed = {} /\ meddled = FALSE

-----------------------------------------------------------------------------
(***************************************************************************)
(* A request and its answer                                                *)
(***************************************************************************)

(* "ok"; "bad": the answer has errors, SC2ProtocolError; "lost": no answer *)
(* but one to the ping, SC2UnknownStatus; "dead": none either, and         *)
(* response_pending_ stays set, SC2AppFailure.                             *)
Outcomes == {"ok", "bad", "lost", "dead"}

(* WaitForResponse: a connection that is lost has its error on record, and *)
(* the ping may find SC2 again.                                            *)
Waits(o, errs) ==
  /\ o \in Outcomes
  /\ o # "ok" /\ link.open => link.faults < MaxFaults
  /\ link' = [open    |-> o # "dead",
              pending |-> IF o = "dead" THEN "stuck" ELSE "none",
              app     |-> IF o = "dead" THEN "failed" ELSE link.app,
              errors  |-> link.errors \/ errs \/ o # "ok",
              faults  |-> IF o # "ok" /\ link.open THEN link.faults + 1
                                                  ELSE link.faults]

(* SendRequest: a closed connection may be made again.                     *)
MaySend   == link.pending = "none"
MayRefuse == link.pending # "none" \/ ~link.open

Refused == link' = [link EXCEPT !.errors = @ \/ link.pending # "none"]

(* A call that only waits when SendRequest returned true.                  *)
Asks(o) ==
  \/ o = "refused" /\ MayRefuse /\ Refused
  \/ MaySend /\ Waits(o, FALSE)

(* A call that waits all the same, for an answer that may be another's.    *)
RefusalUntold(sent, o) ==
  /\ sent => MaySend
  /\ ~sent => MayRefuse /\ (o \in {"ok", "bad"} => link.pending = "leave")
  /\ Waits(o, FALSE)

AsksAndWaits(sent, o) ==
  /\ sent => MaySend
  /\ ~sent => MayRefuse /\ (o \in {"ok", "bad"} => link.pending = "leave")
  /\ Waits(o, ~sent /\ link.pending # "none")

(* Whether SC2 did what it was asked: a lost answer leaves it open.        *)
Executes(o, yes) ==
  /\ yes \in BOOLEAN
  /\ o = "ok" => yes
  /\ o \in {"refused", "bad"} => ~yes

(* The socket closes, and the callback of ConnectToGame records it.        *)
SocketCloses ==
  /\ link.open /\ link.faults < MaxFaults
  /\ link' = [link EXCEPT !.open = FALSE, !.errors = TRUE, !.faults = @ + 1]
  /\ UNCHANGED <<mode, phase, op, sc2, loops, caches, batch, commands, hist>>

-----------------------------------------------------------------------------
(***************************************************************************)
(* ObservationImp                                                          *)
(***************************************************************************)

ClearsInfo ==
  /\ info' = [info EXCEPT !.cached = FALSE, !.early = FALSE, !.based = FALSE]
  /\ UNCHANGED <<cached, table>>

ClearFlags ==
  /\ cached' = [t \in Tables |-> FALSE]
  /\ info' = [info EXCEPT !.cached = FALSE, !.early = FALSE, !.based = FALSE]
  /\ UNCHANGED table

(* GetAbilityData, GetUnitTypeData, GetUpgradeData, GetBuffData and        *)
(* GetEffectData.                                                          *)
GetData(t, force) ==
  IF cached[t] /\ ~force /\ table[t] # 0
    THEN UNCHANGED <<link, cached, table>>
    ELSE \E o \in Outcomes \cup {"refused"} :
           /\ Asks(o)
           /\ cached' = [cached EXCEPT ![t] = o = "ok"]
           /\ table' = [table EXCEPT ![t] = IF o = "ok" THEN sc2.map ELSE 0]

(* The Convert of GameInfo puts the enemy starts before the ones it has    *)
(* and the players after them.                                             *)
Convert ==
  [info EXCEPT !.cached = TRUE, !.map = sc2.map,
     !.starts = <<[map |-> sc2.map, of |-> "enemy"]>> \o @,
     !.players = Append(@, sc2.map),
     !.early = phase = "full"]

GetGameInfo ==
  IF info.cached
    THEN UNCHANGED <<link, info>>
    ELSE \E o \in Outcomes \cup {"refused"} :
           Asks(o) /\ info' = IF o = "ok" THEN Convert ELSE info

(* ControlImp::OnGameStart, which returns early without a town hall.       *)
FindsStart(found) ==
  info' = IF found
            THEN [info EXCEPT !.starts = <<[map |-> sc2.map, of |-> "own"]>>,
                              !.based = TRUE]
            ELSE info

OneBefore == [current |-> sc2.loop, previous |-> loops.current - 1]
NextLoops == [current |-> sc2.loop, previous |-> loops.current]

(* GetObservation and the part of UpdateObservation that moves the loops;  *)
(* the orders and actions in it may still have to be remapped.  Without a  *)
(* response at all its error message reads the null pointer.               *)
GetObservation(next) ==
  /\ link.app = "normal"
  /\ \E o \in Outcomes \cup {"refused"} :
       /\ Asks(o)
       /\ loops' = IF o = "ok" THEN NextLoops ELSE loops
       /\ phase' = IF o \in {"lost", "dead"} THEN "fault" ELSE next
       /\ op' \in IF o = "ok" THEN {"none", "remap"} ELSE {"none"}

(* GetGeneralizedAbilityID, for one ability after the other.               *)
Remaps ==
  /\ op = "remap"
  /\ GetData("abilities", FALSE)
  /\ op' \in {"none", "remap"}
  /\ UNCHANGED <<mode, phase, sc2, loops, info, batch, commands, hist>>

-----------------------------------------------------------------------------
(***************************************************************************)
(* What the bot calls                                                      *)
(***************************************************************************)

(* The callbacks, and the main program between two calls of Update.        *)
Callbacks == {"full", "start", "first", "step", "end", "restart"}

Calls == op = "none" /\ phase \in Callbacks \cup {"idle", "leaving"}

(* The coordinator sends this channel when the step is over.               *)
Automatic(c) ==
  \/ c = "raw"
  \/ c = "layer" /\ ~mode.realtime

Command(c) ==
  /\ Calls /\ given < MaxCommands
  /\ c \in mode.uses
  /\ given' = given + 1
  /\ IF c = "camera"
       THEN /\ batch' = [batch EXCEPT ![c] = <<given'>>]
            /\ replaced' = replaced \cup Range(batch[c])
       ELSE /\ batch' = [batch EXCEPT ![c] = Append(@, given')]
            /\ UNCHANGED replaced
  /\ origin' = [origin EXCEPT ![given'] =
                  IF phase = "step" /\ Automatic(c) THEN sc2.game ELSE 0]
  /\ UNCHANGED <<mode, phase, op, link, sc2, loops, caches, commands, done,
                 owed, missed, meddled>>

(* UnitCommand, ToggleAutocast and SendChat of ActionImp.                  *)
UnitCommand == Command("raw")

(* UnitCommand, CameraMove and Select of ActionFeatureLayerImp, and the    *)
(* CameraMove and CameraFollowPlayer of ObserverActionImp.                 *)
LayerCommand == Command("layer")

(* The Debug... calls of DebugImp, and DebugMoveCamera.                    *)
DebugCommand    == Command("debug")
DebugMoveCamera == Command("camera")

ReadsData ==
  /\ Calls /\ "data" \in mode.uses
  /\ \E t \in Tables, force \in BOOLEAN : GetData(t, force)
  /\ UNCHANGED <<mode, phase, op, sc2, loops, info, batch, commands, hist>>

ReadsInfo ==
  /\ Calls /\ "info" \in mode.uses
  /\ GetGameInfo
  /\ UNCHANGED <<mode, phase, op, sc2, loops, cached, table, batch, commands,
                 hist>>

(* Placement, PathingDistance and GetAbilitiesForUnits, which remaps.      *)
Queries ==
  /\ Calls /\ "query" \in mode.uses
  /\ \E o \in Outcomes \cup {"refused"} :
       Asks(o) /\ op' \in IF o = "ok" THEN {"none", "remap"} ELSE {"none"}
  /\ UNCHANGED <<mode, phase, sc2, loops, caches, batch, commands, hist>>

(* SC2 executes what a channel had batched.                                *)
Executed(c, yes) ==
  IF yes THEN done \o [i \in DOMAIN batch[c] |->
                         [id |-> batch[c][i], game |-> sc2.game]]
         ELSE done

(* What SendActions leaves in request_actions_, and in commands_.          *)
StillBatched(c, o) == batch
BatchAfter(c, o) == IF o = "refused" THEN batch ELSE [batch EXCEPT ![c] = <<>>]

Forgotten(c, o) == IF c = "raw" THEN {} ELSE commands
CommandsAfter(c, o) ==
  IF c # "raw" THEN commands ELSE IF o = "refused" THEN {} ELSE Range(batch[c])

(* SendActions; only that of ActionImp touches commands_.                  *)
SendActions(c) ==
  IF batch[c] = <<>>
    THEN /\ commands' = IF c = "raw" THEN {} ELSE commands
         /\ UNCHANGED <<link, batch, done, owed>>
    ELSE \E o \in Outcomes \cup {"refused"}, yes \in BOOLEAN :
           /\ Asks(o) /\ Executes(o, yes)
           /\ batch' = BatchAfter(c, o)
           /\ commands' = CommandsAfter(c, o)
           /\ done' = Executed(c, yes)
           /\ owed' = IF c = "raw" /\ yes THEN owed \cup Range(batch[c]) ELSE owed

SendsByHand ==
  /\ Calls /\ "hand" \in mode.uses
  /\ \E c \in {"raw", "layer"} \cap mode.uses : SendActions(c)
  /\ meddled' = TRUE
  /\ UNCHANGED <<mode, phase, op, sc2, loops, caches, given, origin, replaced,
                 missed>>

(* SendDebug, whose lists are cleared whatever became of the request, and  *)
(* which sends the camera move, if there is one, as a second one.          *)
SendsList(c) ==
  /\ \E sent \in BOOLEAN, o \in Outcomes, yes \in BOOLEAN :
       /\ AsksAndWaits(sent, o)
       /\ Executes(IF sent THEN o ELSE "refused", yes)
       /\ done' = Executed(c, yes)
  /\ batch' = [batch EXCEPT ![c] = <<>>]
  /\ UNCHANGED <<mode, phase, sc2, loops, caches, commands, given, origin,
                 replaced, owed, missed, meddled>>

SendDebug ==
  /\ Calls /\ "debug" \in mode.uses
  /\ SendsList("debug")
  /\ op' = IF batch["camera"] # <<>> THEN "camera" ELSE "none"

SendsCamera == op = "camera" /\ SendsList("camera") /\ op' = "none"

(* Save and Load.  The loop goes back with Load, and with it the game.     *)
QuickSave ==
  /\ Calls /\ "load" \in mode.uses /\ ~sc2.ended
  /\ \E o \in Outcomes \cup {"refused"}, yes \in BOOLEAN :
       /\ Asks(o) /\ Executes(o, yes)
       /\ sc2' = IF yes THEN [sc2 EXCEPT !.saved = sc2.loop] ELSE sc2
  /\ UNCHANGED <<mode, phase, op, loops, caches, batch, commands, hist>>

QuickLoad ==
  /\ Calls /\ "load" \in mode.uses /\ ~sc2.ended /\ sc2.saved # -1
  /\ \E o \in Outcomes \cup {"refused"}, yes \in BOOLEAN :
       /\ Asks(o) /\ Executes(o, yes)
       /\ sc2' = IF yes THEN [sc2 EXCEPT !.loop = sc2.saved] ELSE sc2
  /\ meddled' = TRUE
  /\ UNCHANGED <<mode, phase, op, loops, caches, batch, commands, given,
                 origin, done, replaced, owed, missed>>

(* AgentControlImp::Restart, called when the game is over.  It calls       *)
(* OnGameStart of the bot and not that of ControlImp.                      *)
Restart ==
  /\ Calls /\ "restart" \in mode.uses /\ phase = "end" /\ ~mode.multi
  /\ sc2.ended /\ sc2.game < MaxGames
  /\ \E o \in Outcomes \cup {"refused"}, yes \in BOOLEAN :
       /\ Asks(o) /\ Executes(o, yes)
       /\ sc2' = IF yes THEN [sc2 EXCEPT !.game = @ + 1, !.ended = FALSE,
                                         !.loop = 0, !.saved = -1]
                        ELSE sc2
       /\ phase' = IF o = "ok" THEN "restarted" ELSE phase
  /\ UNCHANGED <<mode, op, loops, caches, batch, commands, hist>>

Bot ==
  \/ UnitCommand \/ LayerCommand \/ DebugCommand \/ DebugMoveCamera
  \/ ReadsData \/ ReadsInfo \/ Queries
  \/ SendsByHand \/ SendDebug \/ QuickSave \/ QuickLoad \/ Restart

-----------------------------------------------------------------------------
(***************************************************************************)
(* What the coordinator does with this client                              *)
(***************************************************************************)

IsInGame == link.app = "normal" /\ ~sc2.ended

Goto(p) ==
  /\ phase' = p
  /\ UNCHANGED <<mode, op, link, sc2, loops, caches, batch, commands, hist>>

(* RequestJoinGame and WaitJoinGame of JoinGame, which gives up when the   *)
(* client has an error; and LoadReplay and WaitForReplay, without          *)
(* ClearFlags.                                                             *)
NewGame ==
  /\ phase = "out" /\ sc2.game < MaxGames
  /\ IF IsAgent THEN ClearFlags
     ELSE /\ info' = [info EXCEPT !.early = FALSE, !.based = FALSE]
          /\ UNCHANGED <<cached, table>>
  /\ \E o \in Outcomes \cup {"refused"} :
       /\ Asks(o)
       /\ IF o = "ok" /\ ~link'.errors
            THEN /\ phase' = "joined"
                 /\ sc2' = [game |-> sc2.game + 1, map |-> sc2.map + 1,
                            ended |-> FALSE, loop |-> 0, saved |-> -1]
            ELSE phase' = "over" /\ UNCHANGED sc2
  /\ UNCHANGED <<mode, op, loops, batch, commands, hist>>

Observes ==
  /\ op = "none"
  /\ \/ phase = "joined"    /\ GetObservation(IF IsAgent THEN "full" ELSE "found")
     \/ phase = "restarted" /\ GetObservation("restart")
     \/ phase = "observing" /\ GetObservation("call")
  /\ UNCHANGED <<mode, sc2, caches, batch, commands, hist>>

(* Between OnGameFullStart and OnGameStart.                                *)
StartsGame ==
  /\ op = "none" /\ phase \in {"full", "found"}
  /\ \E found \in BOOLEAN : FindsStart(found)
  /\ phase' = "start"
  /\ UNCHANGED <<mode, op, link, sc2, loops, cached, table, batch, commands,
                 hist>>

(* IssueEvents, up to OnStep: it does nothing for an observation of the    *)
(* same loop as the last one.                                              *)
IssueEvents(step, otherwise) ==
  /\ op = "none"
  /\ IF loops.current = loops.previous
       THEN phase' = otherwise /\ UNCHANGED <<owed, missed>>
       ELSE phase' = step /\ owed' = {} /\ missed' = missed \cup (owed \ commands)
  /\ UNCHANGED <<mode, op, link, sc2, loops, caches, batch, commands, given,
                 origin, done, replaced, meddled>>

(* The Step and WaitStep of an update: WaitStep waits even if Step failed. *)
Steps ==
  /\ op = "none" /\ phase = "idle" /\ IsInGame /\ ~mode.realtime
  /\ \E sent \in BOOLEAN, o \in Outcomes, yes \in BOOLEAN :
       /\ AsksAndWaits(sent, o) /\ Executes(IF sent THEN o ELSE "refused", yes)
       /\ \E over \in BOOLEAN :
            /\ sc2.loop + 1 = MaxLoops => over
            /\ sc2' = IF yes THEN [sc2 EXCEPT !.loop = @ + 1, !.ended = over]
                              ELSE sc2
       /\ phase' = IF o = "ok" THEN "observing" ELSE "call"
  /\ UNCHANGED <<mode, op, loops, caches, batch, commands, hist>>

(* In real time SC2 goes on by itself, or not at all between two updates.  *)
TimePasses ==
  /\ op = "none" /\ phase = "idle" /\ IsInGame /\ mode.realtime
  /\ \/ UNCHANGED sc2
     \/ \E over \in BOOLEAN :
          /\ sc2.loop + 1 = MaxLoops => over
          /\ sc2' = [sc2 EXCEPT !.loop = @ + 1, !.ended = over]
  /\ phase' = "observing"
  /\ UNCHANGED <<mode, op, link, loops, caches, batch, commands, hist>>

(* CallOnStep asks for the end of the game first; in real time, and for an *)
(* observer, the end comes after the events.                               *)
EndsFirst == IsAgent /\ ~mode.realtime

Reacts ==
  /\ phase = "call"
  /\ IF EndsFirst /\ ~IsInGame THEN op = "none" /\ Goto("end")
     ELSE IssueEvents("step", "sending")

AfterSending ==
  IF ~EndsFirst /\ (link'.app # "normal" \/ sc2.ended) THEN "end" ELSE "idle"

Sends ==
  /\ op = "none" /\ phase \in {"sending", "layer"}
  /\ IF phase = "sending" /\ IsAgent
       THEN /\ SendActions("raw")
            /\ phase' = IF mode.realtime THEN AfterSending ELSE "layer"
       ELSE /\ IF mode.realtime THEN UNCHANGED <<link, batch, done, owed, commands>>
               ELSE SendActions("layer")
            /\ phase' = AfterSending
  /\ UNCHANGED <<mode, op, sc2, loops, caches, given, origin, replaced, missed,
                 meddled>>

(* A callback returns.  After OnGameEnd comes RequestLeaveGame.            *)
Returns ==
  /\ op = "none"
  /\ \/ phase = "start" /\ IF IsAgent THEN IssueEvents("first", "idle")
                                       ELSE Goto("idle")
     \/ phase = "first" /\ Goto("idle")
     \/ phase = "step" /\ Goto("sending")
     \/ phase = "restart" /\ Goto("end")
     \/ phase = "end" /\ ~(IsAgent /\ mode.multi)
          /\ Goto(IF link.app # "normal" THEN "over"
                  ELSE IF sc2.ended THEN "out" ELSE "idle")

RequestLeaveGame ==
  /\ op = "none" /\ phase = "end" /\ IsAgent /\ mode.multi
  /\ \/ MayRefuse /\ Refused
     \/ MaySend /\ link' = [link EXCEPT !.open = TRUE, !.pending = "leave"]
  /\ phase' = "leaving"
  /\ UNCHANGED <<mode, op, sc2, loops, caches, batch, commands, hist>>

(* PollLeaveGame, once the answer is there or nothing is awaited.          *)
PollLeaveGame ==
  /\ op = "none" /\ phase = "leaving" /\ link.app = "normal"
  /\ IF link.pending = "leave" THEN \E o \in Outcomes : Waits(o, FALSE)
                               ELSE UNCHANGED link
  /\ phase' = "out"
  /\ UNCHANGED <<mode, op, sc2, loops, caches, batch, commands, hist>>

Coordinator ==
  \/ NewGame \/ Observes \/ StartsGame \/ Steps \/ TimePasses \/ Reacts
  \/ Sends \/ Returns \/ RequestLeaveGame \/ PollLeaveGame

Next == Bot \/ Remaps \/ SendsCamera \/ Coordinator \/ SocketCloses

Spec == Init /\ [][Next]_vars

-----------------------------------------------------------------------------
Phases ==
  Callbacks \cup {"out", "joined", "found", "idle", "observing", "call", "sending",
                  "layer", "restarted", "leaving", "over", "fault"}

Links ==
  [open : BOOLEAN, pending : {"none", "leave", "stuck"},
   app : {"normal", "failed"}, errors : BOOLEAN, faults : 0..MaxFaults]

Games ==
  [game : 0..MaxGames, map : 0..MaxGames, ended : BOOLEAN, loop : 0..MaxLoops,
   saved : -1..MaxLoops]

Infos ==
  [cached : BOOLEAN, map : 0..MaxGames, players : Seq(1..MaxGames),
   starts : Seq([map : 1..MaxGames, of : {"own", "enemy"}]),
   early : BOOLEAN, based : BOOLEAN]

TypeOK ==
  /\ mode \in Programs /\ phase \in Phases /\ op \in {"none", "camera", "remap"}
  /\ link \in Links /\ sc2 \in Games
  /\ loops \in [current : -1..MaxLoops, previous : -1..MaxLoops]
  /\ cached \in [Tables -> BOOLEAN] /\ table \in [Tables -> 0..MaxGames]
  /\ info \in Infos
  /\ batch \in [Channels -> Seq(Ids)] /\ commands \subseteq Ids
  /\ given \in 0..MaxCommands /\ origin \in [Ids -> 0..MaxGames]
  /\ done \in Seq([id : Ids, game : 0..MaxGames])
  /\ replaced \subseteq Ids /\ owed \subseteq Ids /\ missed \subseteq Ids
  /\ meddled \in BOOLEAN

(* No command reaches SC2 twice, whether its request was refused, its      *)
(* answer lost or the game restarted.                                      *)
CommandsComeOnce ==
  \A i, j \in DOMAIN done : done[i].id = done[j].id => i = j

(* Unless the client has an error on record, a command is still batched,   *)
(* was replaced by another camera move, or has been executed; and one that *)
(* OnStep gave to be sent by the coordinator, in the game it was meant for.*)
CommandsAreKept ==
  \/ link.errors
  \/ \A id \in 1..given :
       \/ id \in replaced
       \/ \E c \in Channels : id \in Range(batch[c])
       \/ \E i \in DOMAIN done :
            done[i].id = id /\ origin[id] \in {0, done[i].game}

(* "units where commands were issued last step, but units have no orders   *)
(* now": every raw command that SC2 executed is looked at in the next      *)
(* IssueIdleEvents, unless the bot called SendActions itself, so that the  *)
(* coordinator's call clears commands_, or Load, or time is real.          *)
IdleIsReported ==
  missed = {} \/ link.errors \/ meddled \/ mode.realtime

(* What an agent reads from the caches is of the current map.  Once the    *)
(* start location was found, start_locations are the own and the enemy's,  *)
(* provided GetGameInfo was not called in OnGameFullStart; player_info,    *)
(* which is never cleared, has the players once in the first game only.    *)
DataIsCurrent ==
  IsAgent =>
    /\ \A t \in Tables : cached[t] => table[t] = sc2.map
    /\ info.cached => info.map = sc2.map
    /\ info.cached /\ sc2.map = 1 => info.players = <<1>>
    /\ info.cached /\ info.based /\ ~info.early =>
         info.starts = <<[map |-> sc2.map, of |-> "enemy"],
                         [map |-> sc2.map, of |-> "own"]>>
=============================================================================
