------------------------------ MODULE UnitEvents ------------------------------
(***************************************************************************)
(* From observations to callbacks: the UnitPool, which keeps one Unit      *)
(* object per tag and hands out pointers to it, the conversion of an       *)
(* observation into it, and the unit events that IssueEvents derives.      *)
(*                                                                         *)
(* A Unit* is a slot, a page and an offset; `store' is what the slots      *)
(* hold.  Of a unit we keep what the events depend on.  Progress 0, 1, 2   *)
(* stands for not begun, under construction and finished.                  *)
(***************************************************************************)
EXTENDS Naturals, FiniteSets, Functions, FiniteSetsExt

CONSTANTS
  Tags,           (* the units of the games                                *)
  Alliance,       (* of each tag: "Self", "Enemy" or "Neutral"             *)
  ENTRY_SIZE,     (* the units of a page                                   *)
  MaxLoops,       (* bound on the game loops of a game                     *)
  MaxGames        (* bound on the games                                    *)

ASSUME UnitsAssumption ==
  /\ IsFiniteSet(Tags) /\ Alliance \in [Tags -> {"Self", "Enemy", "Neutral"}]
  /\ ENTRY_SIZE \in Nat \ {0} /\ MaxLoops \in Nat /\ MaxGames \in Nat \ {0}

VARIABLES
  pool,      (* unit_pool_: pages of it, available_index_, tag_to_unit_,   *)
             (*   tag_to_existing_unit_, and the lists of pointers         *)
             (*   collected for the events                                 *)
  store,     (* what the slots hold                                        *)
  cur, prev, (* current_game_loop_ and previous_game_loop                  *)
  obs,       (* observation_: the data of its units, and its dead units    *)
  pc,        (* "first", "observed" or "issued"                            *)
  games,
  events,    (* the callbacks of IssueEvents for `obs'                     *)
  before,    (* history: the units of the previous observation             *)
  known,     (* history: tags observed in this game before `obs'           *)
  gone,      (* history: tags that died in this game                       *)
  commanded  (* history: the units whose commands that IssueEvents was told*)

vars == <<pool, store, cur, prev, obs, pc, games, events, before, known, gone,
          commanded>>

Unset == MaxLoops + 1         (* numeric_limits<uint32_t>::max()           *)

NoUnits == [t \in {} |-> 0]

NoEvents == [destroyed |-> {}, created |-> {}, entered |-> {},
             completed |-> {}, idle |-> {}, damaged |-> {}]

Init ==
  /\ pool = [pages |-> 0, available |-> <<0, 0>>, unit |-> NoUnits,
             existing |-> {}, new |-> {}, entering |-> {}, completed |-> {},
             idled |-> {}, damaged |-> {}]
  /\ store = NoUnits
  /\ cur = Unset /\ prev = Unset
  /\ obs = [units |-> NoUnits, dead |-> {}]
  /\ pc = "issued" /\ games = 0 /\ events = NoEvents
  /\ before = NoUnits /\ known = {} /\ gone = {}
  /\ commanded = {}

-----------------------------------------------------------------------------
(***************************************************************************)
(* UnitPool                                                                *)
(***************************************************************************)

IncrementIndexNever(i) == i
IncrementIndexLate(i) ==
  IF i[2] + 1 > ENTRY_SIZE THEN <<i[1] + 1, 0>> ELSE <<i[1], i[2] + 1>>
IncrementIndex(i) ==
  IF i[2] + 1 = ENTRY_SIZE THEN <<i[1] + 1, 0>> ELSE <<i[1], i[2] + 1>>

(* The Units of a new page are allocated but their members not initialised,*)
(* `memory' is what they hold.  It is compared with the progress and the   *)
(* health of the first observation: so that nothing, or all, has changed.  *)
Uninitialised(p, h) ==
  [tag |-> "none", alliance |-> "none", display |-> "none", progress |-> p,
   health |-> h, orders |-> FALSE, seen |-> 0]

Memory == {Uninitialised(0, 0), Uninitialised(1, 3)}

(* CreateUnit(), on the pool.                                              *)
ExistsTag(p, t) == t \in p.existing
KnowsTag(p, t) == t \in DOMAIN p.unit

CreateUnit(p, t) ==
  IF KnowsTag(p, t) THEN [p EXCEPT !.existing = @ \cup {t}]
  ELSE [p EXCEPT
         !.pages = IF @ = 0 \/ @ = p.available[1] THEN @ + 1 ELSE @,
         !.unit = [x \in DOMAIN @ \cup {t} |->
                     IF x = t THEN p.available ELSE @[x]],
         !.existing = @ \cup {t},
         !.new = @ \cup {p.available},
         !.available = IncrementIndex(@)]

(* ClearExisting().                                                        *)
ClearExistingOnly(p) == [p EXCEPT !.existing = {}]
ClearExisting(p) ==
  [p EXCEPT !.existing = {}, !.new = {}, !.entering = {}, !.completed = {},
            !.idled = {}, !.damaged = {}]

(* AddUnitIdled().                                                         *)
IdledIf(p, s, condition, alliance) ==
  [p EXCEPT !.idled = IF condition /\ alliance = "Self" THEN @ \cup {s} ELSE @]

-----------------------------------------------------------------------------
(***************************************************************************)
(* UpdateObservation                                                       *)
(***************************************************************************)

(* It had orders and has none any more; it was not in the observation      *)
(* before this one.                                                        *)
StoppedOnceCleared(old, u) == FALSE
Stopped(old, u) == old.orders /\ ~u.orders

UnseenUpTo(old, last) == old.seen <= last
Unseen(old, last) == old.seen < last

(* One unit of the observation: u is its data, x the pool and the store.   *)
ConvertUnit(x, t, u, loop, last, memory) ==
  LET p == CreateUnit(x.pool, t)
      s == p.unit[t]
      old == IF KnowsTag(x.pool, t) THEN x.store[s] ELSE memory
      finished == u.progress = 2 /\ old.progress = 1
      filled == [tag |-> t, alliance |-> Alliance[t], display |-> u.display,
                 progress |-> u.progress, health |-> u.health,
                 orders |-> u.orders, seen |-> loop]
      q == IdledIf(p, s, finished \/ Stopped(old, u), Alliance[t])
  IN [pool |-> [q EXCEPT
        !.completed = IF finished THEN @ \cup {s} ELSE @,
        !.damaged = IF u.health < old.health THEN @ \cup {s} ELSE @,
        !.entering = IF Unseen(old, last) THEN @ \cup {s} ELSE @],
      store |-> [y \in DOMAIN x.store \cup {s} |->
                   IF y = s THEN filled ELSE x.store[y]]]

Convert(x, o, loop, last, memory) ==
  FoldSet(LAMBDA t, y : ConvertUnit(y, t, o.units[t], loop, last, memory),
          x, DOMAIN o.units)

UpdateObservation(o, loop, memory) ==
  LET x == Convert([pool |-> ClearExisting(pool), store |-> store],
                   o, loop, cur, memory)
  IN /\ prev' = cur /\ cur' = loop
     /\ obs' = o
     /\ pool' = x.pool /\ store' = x.store

(* The observations SC2 can send.  A unit is there or not (in the fog, in  *)
(* a transport), a dead one is gone for good; progress does not go back;   *)
(* orders are those of one's own finished units; a snapshot, of an enemy   *)
(* or of a neutral unit out of sight, has no health.                       *)
DataOf(t) ==
  {u \in [display : {"Visible", "Snapshot"}, progress : 0..2, health : 0..2,
          orders : BOOLEAN] :
     /\ u.display = "Snapshot" => Alliance[t] # "Self"
     /\ (u.health = 0) <=> (u.display = "Snapshot")
     /\ u.orders => Alliance[t] = "Self" /\ u.progress = 2
     /\ Alliance[t] # "Self" => u.progress = 2
     /\ t \in DOMAIN obs.units => u.progress >= obs.units[t].progress}

Observations(dead) ==
  {[units |-> f, dead |-> dead] :
     f \in UNION {{g \in [S -> UNION {DataOf(t) : t \in S}] :
                     \A t \in S : g[t] \in DataOf(t)} :
                  S \in SUBSET (Tags \ (gone \cup dead))}}

Observe(o, loop) ==
  /\ \E memory \in Memory : UpdateObservation(o, loop, memory)
  /\ pc' = "observed"
  /\ before' = obs.units
  /\ known' = known \cup DOMAIN obs.units
  /\ gone' = gone \cup o.dead
  /\ events' = NoEvents /\ commanded' = {}
  /\ UNCHANGED games

FirstLoops == {0, 1}

(* A later observation, in real time possibly of the same loop.  After the *)
(* first of a game StartGame issues the events, WaitForReplay and Restart  *)
(* do not.                                                                 *)
NextObservation ==
  /\ games > 0
  /\ pc \in {"issued", "first"}
  /\ \/ /\ cur < MaxLoops
        /\ \E dead \in SUBSET (Tags \ gone) :
             \E o \in Observations(dead) : Observe(o, cur + 1)
     \/ pc = "issued" /\ Observe([obs EXCEPT !.dead = {}], cur)

(* What is there when a game begins is finished and whole.  Of the neutral *)
(* units, such as the mineral fields of the map, those out of sight are    *)
(* snapshots.                                                              *)
Whole == [display |-> "Visible", progress |-> 2, health |-> 2, orders |-> FALSE]
Remembered ==
  [display |-> "Snapshot", progress |-> 2, health |-> 0, orders |-> FALSE]

FirstUnits ==
  {f \in UNION {[S -> {Whole, Remembered}] : S \in SUBSET Tags} :
     \A t \in DOMAIN f : f[t] = Remembered => Alliance[t] = "Neutral"}

(* The first observation of a game.  RequestJoinGame's ClearFlags leaves   *)
(* the pool and the loops as they are; SC2 uses the tags again.            *)
NewGame ==
  /\ games < MaxGames /\ pc = "issued"
  /\ games' = games + 1 /\ gone' = {} /\ known' = {}
  /\ before' = NoUnits /\ commanded' = {}
  /\ \E f \in FirstUnits, memory \in Memory, loop \in FirstLoops :
       UpdateObservation([units |-> f, dead |-> {}], loop, memory)
  /\ pc' = "first" /\ events' = NoEvents

-----------------------------------------------------------------------------
(***************************************************************************)
(* IssueEvents                                                             *)
(***************************************************************************)

TagOf(s) == store[s].tag
Filtered(list, a) == {TagOf(s) : s \in {s \in list : store[s].alliance = a}}
VisibleIn(list, a) ==
  {TagOf(s) : s \in {s \in list : store[s].alliance = a
                                   /\ store[s].display = "Visible"}}

(* IssueUnitDestroyedEvents: the dead units that the pool knows, MarkDead. *)
Destroyed == obs.dead \cap DOMAIN pool.unit

(* IssueIdleEvents, for the units commanded in the last step.              *)
Idled(commands, existing) ==
  pool.idled
    \cup {pool.unit[t] : t \in {t \in commands \cap existing :
            ~store[pool.unit[t]].orders}}
    \cup {s \in pool.new : store[s].progress = 2 /\ ~store[s].orders}

IssueEvents(commands) ==
  /\ pc \in {"first", "observed"}
  /\ pc' = "issued"
  /\ IF cur = prev
       THEN events' = NoEvents /\ UNCHANGED pool
       ELSE LET alive == pool.existing \ Destroyed
                idled == {s \in Idled(commands, alive) :
                            store[s].alliance = "Self"}
            IN /\ events' =
                    [destroyed |-> Destroyed,
                     created |-> Filtered(pool.new, "Self")
                                   \cup VisibleIn(pool.new, "Neutral"),
                     entered |-> VisibleIn(pool.entering, "Enemy"),
                     completed |-> Filtered(pool.completed, "Self"),
                     idle |-> {TagOf(s) : s \in idled},
                     damaged |-> {TagOf(s) : s \in pool.damaged}]
               /\ pool' = [pool EXCEPT !.existing = alive, !.idled = idled]
  /\ commanded' = commands
  /\ UNCHANGED <<store, cur, prev, obs, games, before, known, gone>>

Own == {t \in Tags : Alliance[t] = "Self"}

Next ==
  \/ NewGame \/ NextObservation
  \/ \E commands \in SUBSET (Own \cap DOMAIN before) : IssueEvents(commands)

Spec == Init /\ [][Next]_vars

-----------------------------------------------------------------------------
Slots == (0..Cardinality(Tags)) \X (0..ENTRY_SIZE - 1)

TypeOK ==
  /\ pool.pages \in 0..(Cardinality(Tags) + 1)
  /\ pool.available \in Slots
  /\ DOMAIN pool.unit \subseteq Tags
  /\ \A t \in DOMAIN pool.unit : pool.unit[t] \in Slots
  /\ pool.existing \subseteq Tags
  /\ pool.new \cup pool.entering \cup pool.completed \cup pool.idled
       \cup pool.damaged \subseteq DOMAIN store
  /\ DOMAIN store \subseteq Slots
  /\ {cur, prev} \subseteq 0..Unset
  /\ pc \in {"first", "observed", "issued"} /\ games \in 0..MaxGames
  /\ known \cup gone \cup commanded \subseteq Tags

(* A Unit* stays the object of its tag: no two tags share one, and it lies *)
(* in a page that exists (CreateUnit, IncrementIndex).                     *)
PointersAreStable ==
  /\ \A t \in DOMAIN pool.unit :
       /\ TagOf(pool.unit[t]) = t
       /\ pool.unit[t][1] < pool.pages /\ pool.unit[t][2] < ENTRY_SIZE

Issued == pc = "issued" /\ cur # prev

(* OnUnitCreated is called for a unit of one's own when, and only when, it *)
(* is observed for the first time in the game.  So is OnNeutralUnitCreated *)
(* for a unit in sight; a neutral unit that is a snapshot then (a mineral  *)
(* field far away) is not announced, and not when it comes into sight with *)
(* the same tag.                                                           *)
CreatedWhenFirstSeen ==
  Issued => events.created =
    {t \in DOMAIN obs.units \ known :
       \/ Alliance[t] = "Self"
       \/ Alliance[t] = "Neutral" /\ obs.units[t].display = "Visible"}

(* OnUnitEnterVision: an enemy that is in sight and was in the previous    *)
(* observation neither so nor as a snapshot, unless that was of loop 0.    *)
EnteredWhenSighted ==
  (Issued /\ prev # 0) => events.entered =
    {t \in DOMAIN obs.units \ DOMAIN before :
       Alliance[t] = "Enemy" /\ obs.units[t].display = "Visible"}

(* A unit that was in the previous observation too is damaged when its     *)
(* health is "lower than in the previous observation", complete when it    *)
(* was under construction then and is finished (one that was not begun may *)
(* be reported or not), and idle when it had orders and has none, or was   *)
(* completed, or was commanded and has none: however many observations of  *)
(* the same loop there were, and although the pool holds one copy of it    *)
(* that is compared and overwritten.                                       *)
ChangesAreReported ==
  Issued =>
    \A t \in DOMAIN obs.units \cap DOMAIN before :
      LET u == obs.units[t]
          old == before[t]
      IN /\ t \in events.damaged <=> u.health < old.health
         /\ t \in events.completed => old.progress < 2 /\ u.progress = 2
         /\ Alliance[t] = "Self" =>
              /\ old.progress = 1 /\ u.progress = 2 => t \in events.completed
              /\ t \in events.idle <=>
                   \/ old.orders /\ ~u.orders
                   \/ old.progress = 1 /\ u.progress = 2
                   \/ t \in commanded /\ ~u.orders

(* OnUnitDestroyed is called for the units that died and were observed in  *)
(* the game, in sight at the time or not.  The other events are about      *)
(* units of the observation they come with, and none that is reported      *)
(* destroyed.                                                              *)
EventsAreCurrent ==
  Issued =>
    LET others == events.created \cup events.entered \cup events.completed
                    \cup events.idle \cup events.damaged
    IN /\ events.destroyed = obs.dead \cap known
       /\ others \subseteq DOMAIN obs.units \ events.destroyed
=============================================================================
