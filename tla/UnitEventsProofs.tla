--------------------------- MODULE UnitEventsProofs ---------------------------
(***************************************************************************)
(* The invariants of UnitEvents, for any tags, alliances, pages, loops and *)
(* memory: those of the pool and of the changes in any number of games,    *)
(* those of what is seen first in the first game.                          *)
(***************************************************************************)
EXTENDS UnitEvents, FiniteSetTheorems, WellFoundedInduction, TLAPS

(***************************************************************************)
(* The inductive invariant                                                 *)
(***************************************************************************)

Positions == Nat \X (0..ENTRY_SIZE - 1)

Earlier(s, a) == s[1] < a[1] \/ (s[1] = a[1] /\ s[2] < a[2])

(* The slots of the units T in the pool p.                                 *)
At(p, T) == {p.unit[t] : t \in T}

UnitPools(T) ==
  [pages : Nat, available : Positions, unit : [T -> Positions],
   existing : SUBSET Tags, new : SUBSET Positions,
   entering : SUBSET Positions, completed : SUBSET Positions,
   idled : SUBSET Positions, damaged : SUBSET Positions]

(* The available position is after those of all the units; its page exists *)
(* once its first slot is taken, and every page has at least one unit.     *)
PoolInv(p) ==
  /\ DOMAIN p.unit \subseteq Tags
  /\ p \in UnitPools(DOMAIN p.unit)
  /\ p.available[1] <= Cardinality(DOMAIN p.unit)
  /\ p.pages = IF p.available[2] = 0 THEN p.available[1] ELSE p.available[1] + 1
  /\ \A t \in DOMAIN p.unit : Earlier(p.unit[t], p.available)
  /\ \A t, r \in DOMAIN p.unit : p.unit[t] = p.unit[r] => t = r

UnitData ==
  [display : {"Visible", "Snapshot"}, progress : 0..2, health : 0..2,
   orders : BOOLEAN]

(* What may be said of the unit t: a snapshot is never of one's own unit,  *)
(* and the orders that are seen are those of one's own units.              *)
DataOn(t) ==
  {u \in UnitData : /\ u.display = "Snapshot" => Alliance[t] # "Self"
                    /\ u.orders => Alliance[t] = "Self"}

Filled(t, u, loop) ==
  [tag |-> t, alliance |-> Alliance[t], display |-> u.display,
   progress |-> u.progress, health |-> u.health, orders |-> u.orders,
   seen |-> loop]

(* A slot that is taken holds what an observation said of its unit.        *)
StoreInv(p, st) ==
  /\ DOMAIN st = At(p, DOMAIN p.unit)
  /\ \A t \in DOMAIN p.unit :
       \E u \in DataOn(t), loop \in 0..Unset : st[p.unit[t]] = Filled(t, u, loop)

Lists(p) == p.new \cup p.entering \cup p.completed \cup p.idled \cup p.damaged

IsData(f) == DOMAIN f \subseteq Tags /\ \A t \in DOMAIN f : f[t] \in DataOn(t)

(* The pool holds the last observation of the units that are in it.        *)
Current ==
  /\ DOMAIN obs.units \subseteq DOMAIN pool.unit
  /\ \A t \in DOMAIN obs.units : store[pool.unit[t]] = Filled(t, obs.units[t], cur)

ObsInv ==
  /\ IsData(obs.units) /\ IsData(before)
  /\ obs.dead \subseteq Tags /\ obs.dead \cap DOMAIN obs.units = {}
  /\ DOMAIN obs = {"units", "dead"}

(* A unit of one's own lost its orders or was finished.                    *)
Idles(t, old, u) ==
  /\ Alliance[t] = "Self"
  /\ \/ old.orders /\ ~u.orders
     \/ old.progress = 1 /\ u.progress = 2

(* The lists collected during the conversion are of units observed, and    *)
(* those of the changes compare with the observation before.               *)
Collected ==
  pc # "issued" =>
    /\ pool.existing = DOMAIN obs.units
    /\ Lists(pool) \subseteq At(pool, DOMAIN obs.units)
    /\ \A t \in DOMAIN obs.units \cap DOMAIN before :
         LET u == obs.units[t]
             old == before[t]
         IN /\ pool.unit[t] \in pool.damaged <=> u.health < old.health
            /\ pool.unit[t] \in pool.completed <=> old.progress = 1 /\ u.progress = 2
            /\ pool.unit[t] \in pool.idled <=> Idles(t, old, u)
            /\ pool.unit[t] \notin pool.new

ControlInv ==
  /\ {cur, prev} \subseteq 0..Unset
  /\ pc \in {"first", "observed", "issued"} /\ games \in 0..MaxGames
  /\ known \cup gone \cup commanded \subseteq Tags

IInv ==
  /\ ControlInv /\ ObsInv
  /\ PoolInv(pool) /\ StoreInv(pool, store)
  /\ Lists(pool) \subseteq DOMAIN store
  /\ Current /\ Collected
  /\ ChangesAreReported

(***************************************************************************)
(* Convert folds over the units of an observation.  The two induction      *)
(* principles that its fold needs, for sets instead of predicates, follow  *)
(* from the well-foundedness of the naturals.                              *)
(***************************************************************************)

(* A set of naturals that has 0 and with each number the next one has all. *)
LEMMA AllNaturals ==
  ASSUME NEW A, 0 \in A, \A n \in A : n + 1 \in A, A \subseteq Nat
  PROVE  A = Nat
<1> SUFFICES ASSUME Nat \ A # {} PROVE FALSE
  OBVIOUS
<1> DEFINE R == OpToRel(<, Nat)
<1>1. IsWellFoundedOn(R, Nat)
  BY NatLessThanWellFounded
<1>2. \A m, n \in Nat : m < n => <<m, n>> \in R
  BY DEF OpToRel
<1> HIDE DEF R
<1>3. PICK n \in Nat \ A : \A m \in Nat \ A : ~(<<m, n>> \in R)
  BY <1>1, WFMin
<1>4. n # 0 /\ n - 1 \in Nat /\ n - 1 < n
  BY <1>3
<1>5. n - 1 \in A
  BY <1>2, <1>3, <1>4
<1>6. n = (n - 1) + 1
  BY <1>4
<1> QED BY <1>3, <1>5, <1>6

(* The element FoldSet takes first, which op is applied to last.           *)
Chosen(s) == CHOOSE t \in s : TRUE

LEMMA ChosenIn == \A s : s # {} => Chosen(s) \in s
  BY DEF Chosen

(* A family of sets that has {} and with s \ {Chosen(s)} also s has every  *)
(* finite set.                                                             *)
LEMMA AllFiniteSets ==
  ASSUME NEW S, IsFiniteSet(S), NEW A, {} \in A,
         \A s \in SUBSET S : s # {} /\ s \ {Chosen(s)} \in A => s \in A
  PROVE  S \in A
<1> DEFINE N == {n \in Nat : \A s \in SUBSET S : Cardinality(s) = n => s \in A}
<1>1. \A s \in SUBSET S : IsFiniteSet(s) /\ Cardinality(s) \in Nat
  BY FS_Subset, FS_CardinalityType
<1>2. 0 \in N
  BY <1>1, FS_EmptySet
<1>3. \A n \in N : n + 1 \in N
  <2> SUFFICES ASSUME NEW n \in N, NEW s \in SUBSET S, Cardinality(s) = n + 1
               PROVE  s \in A
    OBVIOUS
  <2>1. n \in Nat /\ \A r \in SUBSET S : Cardinality(r) = n => r \in A
    OBVIOUS
  <2> HIDE DEF N
  <2>2. s # {}
    <3>1. Cardinality({}) = 0 /\ n + 1 # 0
      BY <2>1, FS_EmptySet
    <3> QED BY <3>1
  <2>3. Chosen(s) \in s
    BY <2>2, ChosenIn
  <2>4. Cardinality(s \ {Chosen(s)}) = n
    <3>1. IsFiniteSet(s)
      BY <1>1
    <3>2. Cardinality(s \ {Chosen(s)}) = Cardinality(s) - 1
      BY <2>3, <3>1, FS_RemoveElement
    <3> QED BY <2>1, <3>2
  <2> QED BY <2>1, <2>2, <2>4
<1>4. N \subseteq Nat
  OBVIOUS
<1> HIDE DEF N
<1>5. N = Nat
  BY <1>2, <1>3, <1>4, AllNaturals
<1> QED BY <1>1, <1>5 DEF N

(* The fold of Convert over the subsets of the units of an observation: f  *)
(* is what they lead to, applied to those of k units or less.              *)
Folds(f, D, x, o, loop, last, memory) ==
  f = [s \in D |->
         IF s = {} THEN x
         ELSE ConvertUnit(f[s \ {Chosen(s)}], Chosen(s), o.units[Chosen(s)],
                          loop, last, memory)]

Smaller(S, k) == {s \in SUBSET S : Cardinality(s) <= k}

(* There is such a function: with one for the sets of at most k units, the *)
(* one for those of k + 1 converts one unit more.                          *)
LEMMA FoldExists ==
  ASSUME NEW x, NEW o, NEW loop, NEW last, NEW memory, IsFiniteSet(DOMAIN o.units)
  PROVE  \E f : Folds(f, SUBSET DOMAIN o.units, x, o, loop, last, memory)
<1> DEFINE S == DOMAIN o.units
           Fold(f, k) == Folds(f, Smaller(S, k), x, o, loop, last, memory)
           N == {k \in Nat : \E f : Fold(f, k)}
<1>1. \A s \in SUBSET S : /\ IsFiniteSet(s) /\ Cardinality(s) \in Nat
                          /\ Cardinality(s) <= Cardinality(S)
  BY FS_Subset, FS_CardinalityType
<1>2. 0 \in N
  <2> DEFINE f == [s \in Smaller(S, 0) |-> x]
  <2>1. \A s \in Smaller(S, 0) : s = {}
    BY <1>1, FS_EmptySet DEF Smaller
  <2>2. Fold(f, 0)
    BY <2>1 DEF Folds
  <2> QED BY <2>2
<1>3. \A k \in N : k + 1 \in N
  <2> SUFFICES ASSUME NEW k \in Nat, NEW f, Fold(f, k) PROVE \E g : Fold(g, k + 1)
    OBVIOUS
  <2> DEFINE g == [s \in Smaller(S, k + 1) |->
                     IF s = {} THEN x
                     ELSE ConvertUnit(f[s \ {Chosen(s)}], Chosen(s), o.units[Chosen(s)],
                                      loop, last, memory)]
  <2>1. \A s \in Smaller(S, k + 1) : s # {} => s \ {Chosen(s)} \in Smaller(S, k)
    <3> SUFFICES ASSUME NEW s \in Smaller(S, k + 1), s # {}
                 PROVE  s \ {Chosen(s)} \in Smaller(S, k)
      OBVIOUS
    <3>1. s \in SUBSET S /\ Cardinality(s) <= k + 1 /\ Chosen(s) \in s
      BY ChosenIn DEF Smaller
    <3>2. Cardinality(s \ {Chosen(s)}) = Cardinality(s) - 1 /\ Cardinality(s) \in Nat
      BY <1>1, <3>1, FS_RemoveElement
    <3> QED BY <3>1, <3>2 DEF Smaller
  <2>2. \A s \in Smaller(S, k) : s \in Smaller(S, k + 1) /\ g[s] = f[s]
    <3>1. \A s \in Smaller(S, k) : s \in Smaller(S, k + 1)
      BY <1>1 DEF Smaller
    <3> QED BY <3>1 DEF Folds
  <2>3. Fold(g, k + 1)
    <3>1. \A s \in Smaller(S, k + 1) : s # {} =>
             f[s \ {Chosen(s)}] = g[s \ {Chosen(s)}]
      BY <2>1, <2>2
    <3> HIDE DEF S
    <3> QED BY <3>1 DEF Folds
  <2> QED BY <2>3
<1>4. N \subseteq Nat
  OBVIOUS
<1> HIDE DEF N
<1>5. N = Nat
  BY <1>2, <1>3, <1>4, AllNaturals
<1>6. Cardinality(S) \in N
  BY <1>1, <1>5
<1>7. Smaller(S, Cardinality(S)) = SUBSET S
  BY <1>1 DEF Smaller
<1> QED BY <1>6, <1>7 DEF N

(* y is where converting the units one after the other leads to.           *)
FoldsTo(y, x, o, loop, last, memory) ==
  \E f : /\ y = f[DOMAIN o.units]
         /\ f[{}] = x
         /\ \A s \in SUBSET DOMAIN o.units : s # {} =>
              f[s] = ConvertUnit(f[s \ {Chosen(s)}], Chosen(s), o.units[Chosen(s)],
                                 loop, last, memory)

LEMMA ConvertFolds ==
  ASSUME NEW x, NEW o, NEW loop, NEW last, NEW memory, IsFiniteSet(DOMAIN o.units)
  PROVE  FoldsTo(Convert(x, o, loop, last, memory), x, o, loop, last, memory)
<1> DEFINE D == SUBSET DOMAIN o.units
           f == CHOOSE f : Folds(f, D, x, o, loop, last, memory)
<1>1. Convert(x, o, loop, last, memory) = f[DOMAIN o.units]
  BY DEF Convert, FoldSet, MapThenFoldSet, Folds, Chosen
<1>2. Folds(f, D, x, o, loop, last, memory)
  BY FoldExists
<1> HIDE DEF f
<1>3. \A s \in D : f[s] = IF s = {} THEN x
         ELSE ConvertUnit(f[s \ {Chosen(s)}], Chosen(s), o.units[Chosen(s)],
                          loop, last, memory)
  BY <1>2 DEF Folds
<1> QED BY <1>1, <1>3 DEF FoldsTo

LEMMA ConstantFacts ==
  /\ IsFiniteSet(Tags) /\ ENTRY_SIZE \in Nat /\ ENTRY_SIZE >= 1
  /\ MaxLoops \in Nat /\ Unset = MaxLoops + 1 /\ Unset \in Nat
  /\ \A t \in Tags : Alliance[t] \in {"Self", "Enemy", "Neutral"}
  /\ \A T \in SUBSET Tags : /\ IsFiniteSet(T) /\ Cardinality(T) \in Nat
                            /\ Cardinality(T) <= Cardinality(Tags)
  BY UnitsAssumption, FS_Subset, FS_CardinalityType DEF Unset

(***************************************************************************)
(* UnitPool                                                                *)
(***************************************************************************)

LEMMA IncrementIndexFacts ==
  ASSUME NEW a \in Positions
  PROVE  /\ IncrementIndex(a) \in Positions
         /\ Earlier(a, IncrementIndex(a))
         /\ IncrementIndex(a)[1] <= a[1] + 1
         /\ \A s \in Positions : Earlier(s, a) => Earlier(s, IncrementIndex(a))
         /\ ~Earlier(a, a)
         /\ \/ IncrementIndex(a)[2] = 0 /\ IncrementIndex(a)[1] = a[1] + 1
            \/ IncrementIndex(a)[2] # 0 /\ IncrementIndex(a)[1] = a[1]
<1>1. /\ a = <<a[1], a[2]>> /\ a[1] \in Nat /\ a[2] \in Nat /\ a[2] < ENTRY_SIZE
      /\ ENTRY_SIZE \in Nat
  BY ConstantFacts DEF Positions
<1>2. CASE a[2] + 1 = ENTRY_SIZE
  <2>1. IncrementIndex(a) = <<a[1] + 1, 0>>
    BY <1>2 DEF IncrementIndex
  <2> QED BY <1>1, <2>1 DEF Positions, Earlier
<1>3. CASE a[2] + 1 # ENTRY_SIZE
  <2>1. IncrementIndex(a) = <<a[1], a[2] + 1>>
    BY <1>3 DEF IncrementIndex
  <2> QED BY <1>1, <1>3, <2>1 DEF Positions, Earlier
<1> QED BY <1>2, <1>3

(* CreateUnit gives a tag that is not in the pool a slot of its own, and   *)
(* leaves the others where they are.                                       *)
LEMMA CreateUnitFacts ==
  ASSUME NEW p, PoolInv(p), NEW t \in Tags,
         NEW q, q = CreateUnit(p, t)
  PROVE  /\ PoolInv(q)
         /\ DOMAIN q.unit = DOMAIN p.unit \cup {t}
         /\ \A r \in DOMAIN p.unit : q.unit[r] = p.unit[r]
         /\ q.existing = p.existing \cup {t}
         /\ t \in DOMAIN p.unit => q.new = p.new
         /\ t \notin DOMAIN p.unit => q.new = p.new \cup {q.unit[t]}
         /\ q.entering = p.entering /\ q.completed = p.completed
         /\ q.idled = p.idled /\ q.damaged = p.damaged
<1> DEFINE T == DOMAIN p.unit
           a == p.available
<1>1. p \in UnitPools(T) /\ T \subseteq Tags
  BY DEF PoolInv
<1>2. CASE t \in T
  <2>1. q = [p EXCEPT !.existing = @ \cup {t}]
    BY <1>2 DEF CreateUnit, KnowsTag
  <2>2. /\ q.existing = p.existing \cup {t} /\ q.unit = p.unit /\ q.new = p.new
        /\ q.entering = p.entering /\ q.completed = p.completed
        /\ q.idled = p.idled /\ q.damaged = p.damaged
        /\ q.available = p.available /\ q.pages = p.pages
        /\ q \in UnitPools(T)
    BY <1>1, <2>1 DEF UnitPools
  <2>3. PoolInv(q)
    BY <2>2 DEF PoolInv
  <2> QED BY <1>2, <2>2, <2>3
<1>3. CASE t \notin T
  <2> DEFINE b == IncrementIndex(a)
             n == IF p.pages = 0 \/ p.pages = a[1] THEN p.pages + 1 ELSE p.pages
             f == [x \in T \cup {t} |-> IF x = t THEN a ELSE p.unit[x]]
  <2>1. q = [p EXCEPT !.pages = n, !.unit = f, !.existing = @ \cup {t},
                      !.new = @ \cup {a}, !.available = b]
    BY <1>3 DEF CreateUnit, KnowsTag
  <2>2. t \notin T
    BY <1>3
  <2>3. /\ a \in Positions /\ p.pages \in Nat /\ p.unit \in [T -> Positions]
        /\ a[1] \in Nat /\ a[2] \in Nat
    BY <1>1 DEF UnitPools, Positions
  <2>4. /\ b \in Positions /\ Earlier(a, b) /\ b[1] <= a[1] + 1 /\ ~Earlier(a, a)
        /\ \A s \in Positions : Earlier(s, a) => Earlier(s, b)
        /\ \/ b[2] = 0 /\ b[1] = a[1] + 1
           \/ b[2] # 0 /\ b[1] = a[1]
    BY <2>3, IncrementIndexFacts
  <2>5. /\ f \in [T \cup {t} -> Positions] /\ f[t] = a
        /\ \A r \in T : f[r] = p.unit[r]
    BY <2>2, <2>3
  <2>6. p.pages = IF a[2] = 0 THEN a[1] ELSE a[1] + 1
    BY DEF PoolInv
  <2>7. n \in Nat /\ n = a[1] + 1
    BY <2>3, <2>6
  <2>8. n = IF b[2] = 0 THEN b[1] ELSE b[1] + 1
    BY <2>3, <2>4, <2>7
  <2> HIDE DEF b, n, f
  <2>9. /\ q.existing = p.existing \cup {t} /\ q.unit = f /\ q.new = p.new \cup {a}
        /\ q.entering = p.entering /\ q.completed = p.completed
        /\ q.idled = p.idled /\ q.damaged = p.damaged
        /\ q.available = b /\ q.pages = n
    BY <1>1, <2>1 DEF UnitPools
  <2>10. q \in UnitPools(T \cup {t})
    <3>1. q = [pages |-> n, available |-> b, unit |-> f,
               existing |-> p.existing \cup {t}, new |-> p.new \cup {a},
               entering |-> p.entering, completed |-> p.completed,
               idled |-> p.idled, damaged |-> p.damaged]
      BY <1>1, <2>1 DEF UnitPools
    <3>2. /\ p.existing \cup {t} \in SUBSET Tags /\ p.new \cup {a} \in SUBSET Positions
          /\ p.entering \in SUBSET Positions /\ p.completed \in SUBSET Positions
          /\ p.idled \in SUBSET Positions /\ p.damaged \in SUBSET Positions
      BY <1>1, <2>3 DEF UnitPools
    <3> QED BY <2>4, <2>5, <2>7, <3>1, <3>2 DEF UnitPools
  <2>11. DOMAIN f = T \cup {t} /\ T \cup {t} \subseteq Tags
    BY <1>1, <2>5
  <2>12. b[1] <= Cardinality(T \cup {t})
    <3>1. Cardinality(T \cup {t}) = Cardinality(T) + 1 /\ Cardinality(T) \in Nat
      BY <1>1, <2>2, ConstantFacts, FS_AddElement
    <3>2. a[1] <= Cardinality(T) /\ b[1] \in Nat
      BY <2>4 DEF PoolInv, Positions
    <3> QED BY <2>3, <2>4, <3>1, <3>2
  <2>13. \A r \in T \cup {t} : Earlier(f[r], b)
    <3>1. \A r \in T : p.unit[r] \in Positions /\ Earlier(p.unit[r], a)
      BY <2>3 DEF PoolInv
    <3> QED BY <2>4, <2>5, <3>1
  <2>14. \A r, s \in T \cup {t} : f[r] = f[s] => r = s
    <3>1. \A r \in T : Earlier(p.unit[r], a)
      BY DEF PoolInv
    <3>2. \A r \in T : f[r] # a
      BY <2>4, <2>5, <3>1
    <3>3. \A r, s \in T : p.unit[r] = p.unit[s] => r = s
      BY DEF PoolInv
    <3> QED BY <2>5, <3>2, <3>3
  <2>15. PoolInv(q)
    BY <2>8, <2>9, <2>10, <2>11, <2>12, <2>13, <2>14 DEF PoolInv
  <2> QED BY <1>3, <2>5, <2>9, <2>11, <2>15
<1> QED BY <1>2, <1>3

(***************************************************************************)
(* UpdateObservation                                                       *)
(***************************************************************************)

Finishes(old, u) == u.progress = 2 /\ old.progress = 1

(* What the unit t is compared with.                                       *)
OldOf(x, t, memory) ==
  IF t \in DOMAIN x.pool.unit THEN x.store[x.pool.unit[t]] ELSE memory

(* x is what the conversion of the units T of the observation o makes of   *)
(* the pool and the store z.                                               *)
Placed(x, T, z) ==
  /\ DOMAIN x.pool.unit = DOMAIN z.pool.unit \cup T
  /\ \A t \in DOMAIN z.pool.unit : x.pool.unit[t] = z.pool.unit[t]
  /\ x.pool.existing = T
  /\ x.pool.new = At(x.pool, T \ DOMAIN z.pool.unit)

Stored(x, T, z, o, loop) ==
  /\ \A t \in T : x.store[x.pool.unit[t]] = Filled(t, o.units[t], loop)
  /\ \A t \in DOMAIN z.pool.unit \ T :
       x.store[x.pool.unit[t]] = z.store[z.pool.unit[t]]

Compared(x, T, z, o, last, memory) ==
  /\ x.pool.completed =
       At(x.pool, {t \in T : Finishes(OldOf(z, t, memory), o.units[t])})
  /\ x.pool.damaged =
       At(x.pool, {t \in T : o.units[t].health < OldOf(z, t, memory).health})
  /\ x.pool.entering = At(x.pool, {t \in T : Unseen(OldOf(z, t, memory), last)})
  /\ x.pool.idled =
       At(x.pool, {t \in T : /\ \/ Finishes(OldOf(z, t, memory), o.units[t])
                                \/ Stopped(OldOf(z, t, memory), o.units[t])
                             /\ Alliance[t] = "Self"})

Converted(x, T, z, o, loop, last, memory) ==
  /\ PoolInv(x.pool) /\ StoreInv(x.pool, x.store)
  /\ Placed(x, T, z) /\ Stored(x, T, z, o, loop)
  /\ Compared(x, T, z, o, last, memory)

(* The set a is b, and the slot s when c holds.                            *)
Adds(a, b, c, s) ==
  /\ c => a = b \cup {s}
  /\ ~c => a = b

(* The slots of a subset of T, when the slots of T \ {t} have not moved.   *)
LEMMA AtGrows ==
  ASSUME NEW p, NEW q, NEW T, NEW t \in T, NEW W, W \subseteq T,
         \A r \in T \ {t} : q.unit[r] = p.unit[r]
  PROVE  Adds(At(q, W), At(p, W \ {t}), t \in W, q.unit[t])
BY DEF At, Adds

(* What converting u, the data of the unit t, makes of x, when t has the   *)
(* slot s in p, the pool after CreateUnit, and was old before.             *)
UnitConverted(y, x, p, s, old, t, u, loop, last) ==
  /\ PoolInv(y.pool)
  /\ y.pool.unit = p.unit /\ y.pool.existing = p.existing /\ y.pool.new = p.new
  /\ Adds(y.pool.completed, p.completed, Finishes(old, u), s)
  /\ Adds(y.pool.damaged, p.damaged, u.health < old.health, s)
  /\ Adds(y.pool.entering, p.entering, Unseen(old, last), s)
  /\ Adds(y.pool.idled, p.idled,
          (Finishes(old, u) \/ Stopped(old, u)) /\ Alliance[t] = "Self", s)
  /\ y.store = [z \in DOMAIN x.store \cup {s} |->
                  IF z = s THEN Filled(t, u, loop) ELSE x.store[z]]

LEMMA ConvertUnitFacts ==
  ASSUME NEW x, PoolInv(x.pool), NEW t \in Tags, NEW u, NEW loop, NEW last, NEW memory,
         NEW p, p = CreateUnit(x.pool, t), NEW s, s = p.unit[t],
         NEW old, old = IF KnowsTag(x.pool, t) THEN x.store[s] ELSE memory,
         NEW y, y = ConvertUnit(x, t, u, loop, last, memory)
  PROVE  UnitConverted(y, x, p, s, old, t, u, loop, last)
<1>3. /\ PoolInv(p) /\ p \in UnitPools(DOMAIN p.unit)
      /\ DOMAIN p.unit = DOMAIN x.pool.unit \cup {t}
  <2>1. PoolInv(p)
    BY CreateUnitFacts
  <2>2. DOMAIN p.unit = DOMAIN x.pool.unit \cup {t}
    BY CreateUnitFacts
  <2> QED BY <2>1, <2>2 DEF PoolInv
<1> DEFINE c == IF Finishes(old, u) THEN p.completed \cup {s} ELSE p.completed
           d == IF u.health < old.health THEN p.damaged \cup {s} ELSE p.damaged
           e == IF Unseen(old, last) THEN p.entering \cup {s} ELSE p.entering
           i == IF (Finishes(old, u) \/ Stopped(old, u)) /\ Alliance[t] = "Self"
                  THEN p.idled \cup {s} ELSE p.idled
<1>1. y.store = [z \in DOMAIN x.store \cup {s} |->
                   IF z = s THEN Filled(t, u, loop) ELSE x.store[z]]
  BY DEF ConvertUnit, Filled
<1>2. y.pool = [IdledIf(p, s, Finishes(old, u) \/ Stopped(old, u), Alliance[t]) EXCEPT
                  !.completed = IF Finishes(old, u) THEN @ \cup {s} ELSE @,
                  !.damaged = IF u.health < old.health THEN @ \cup {s} ELSE @,
                  !.entering = IF Unseen(old, last) THEN @ \cup {s} ELSE @]
  BY DEF ConvertUnit, Finishes
<1>4. s \in Positions /\ c \in SUBSET Positions /\ d \in SUBSET Positions
      /\ e \in SUBSET Positions /\ i \in SUBSET Positions
  BY <1>3 DEF UnitPools
<1>5. IdledIf(p, s, Finishes(old, u) \/ Stopped(old, u), Alliance[t])
        = [p EXCEPT !.idled = i]
  BY <1>3 DEF IdledIf, UnitPools
<1>6. y.pool = [pages |-> p.pages, available |-> p.available, unit |-> p.unit,
                existing |-> p.existing, new |-> p.new, entering |-> e,
                completed |-> c, idled |-> i, damaged |-> d]
  <2> DEFINE q == IdledIf(p, s, Finishes(old, u) \/ Stopped(old, u), Alliance[t])
  <2> HIDE DEF i
  <2>1. q = [pages |-> p.pages, available |-> p.available, unit |-> p.unit,
             existing |-> p.existing, new |-> p.new, entering |-> p.entering,
             completed |-> p.completed, idled |-> i, damaged |-> p.damaged]
    BY <1>3, <1>5 DEF UnitPools
  <2> HIDE DEF q
  <2>2. y.pool = [q EXCEPT !.completed = c, !.damaged = d, !.entering = e]
    <3>1. q.completed = p.completed /\ q.damaged = p.damaged /\ q.entering = p.entering
      BY <2>1
    <3> QED BY <1>2, <3>1 DEF q
  <2> HIDE DEF c, d, e
  <2> QED BY <2>1, <2>2
<1> HIDE DEF c, d, e, i
<1>7. y.pool \in UnitPools(DOMAIN p.unit)
  BY <1>3, <1>4, <1>6 DEF UnitPools
<1>8. PoolInv(y.pool)
  <2>1. y.pool.unit = p.unit /\ y.pool.available = p.available /\ y.pool.pages = p.pages
    BY <1>6
  <2>2. /\ DOMAIN p.unit \subseteq Tags
        /\ p.available[1] <= Cardinality(DOMAIN p.unit)
        /\ p.pages = IF p.available[2] = 0 THEN p.available[1] ELSE p.available[1] + 1
        /\ \A r \in DOMAIN p.unit : Earlier(p.unit[r], p.available)
        /\ \A r, v \in DOMAIN p.unit : p.unit[r] = p.unit[v] => r = v
    BY <1>3 DEF PoolInv
  <2> QED BY <1>7, <2>1, <2>2 DEF PoolInv
<1>9. /\ Adds(c, p.completed, Finishes(old, u), s)
      /\ Adds(d, p.damaged, u.health < old.health, s)
      /\ Adds(e, p.entering, Unseen(old, last), s)
      /\ Adds(i, p.idled, (Finishes(old, u) \/ Stopped(old, u)) /\ Alliance[t] = "Self", s)
  BY DEF c, d, e, i, Adds
<1>10. /\ y.pool.unit = p.unit /\ y.pool.existing = p.existing /\ y.pool.new = p.new
       /\ y.pool.completed = c /\ y.pool.damaged = d /\ y.pool.entering = e
       /\ y.pool.idled = i
  BY <1>6
<1> QED BY <1>1, <1>8, <1>9, <1>10 DEF UnitConverted, Adds

LEMMA ConvertUnitStep ==
  ASSUME NEW z, PoolInv(z.pool), StoreInv(z.pool, z.store),
         NEW o, IsData(o.units), NEW loop \in 0..Unset, NEW last, NEW memory,
         NEW T, T \subseteq DOMAIN o.units, NEW t \in T,
         NEW x, Converted(x, T \ {t}, z, o, loop, last, memory),
         NEW y, y = ConvertUnit(x, t, o.units[t], loop, last, memory)
  PROVE  Converted(y, T, z, o, loop, last, memory)
<1> DEFINE p == CreateUnit(x.pool, t)
           s == p.unit[t]
           u == o.units[t]
           D == DOMAIN z.pool.unit
           old == IF KnowsTag(x.pool, t) THEN x.store[s] ELSE memory
<1>1. t \in Tags /\ u \in DataOn(t) /\ PoolInv(x.pool) /\ StoreInv(x.pool, x.store)
  BY DEF IsData, Converted
<1>2. /\ PoolInv(p)
      /\ DOMAIN p.unit = DOMAIN x.pool.unit \cup {t}
      /\ \A r \in DOMAIN x.pool.unit : p.unit[r] = x.pool.unit[r]
      /\ p.existing = x.pool.existing \cup {t}
      /\ t \in DOMAIN x.pool.unit => p.new = x.pool.new
      /\ t \notin DOMAIN x.pool.unit => p.new = x.pool.new \cup {s}
      /\ p.entering = x.pool.entering /\ p.completed = x.pool.completed
      /\ p.idled = x.pool.idled /\ p.damaged = x.pool.damaged
  BY <1>1, CreateUnitFacts
<1>3. /\ DOMAIN x.pool.unit = D \cup (T \ {t})
      /\ \A r \in D : x.pool.unit[r] = z.pool.unit[r]
      /\ x.pool.existing = T \ {t}
      /\ x.pool.new = At(x.pool, (T \ {t}) \ D)
  BY DEF Converted, Placed
<1>4. KnowsTag(x.pool, t) <=> t \in D
  BY <1>3 DEF KnowsTag
<1>5. old = OldOf(z, t, memory)
  BY <1>2, <1>3, <1>4 DEF Converted, Stored, OldOf, KnowsTag
<1>0. /\ p = CreateUnit(x.pool, t) /\ s = p.unit[t]
      /\ old = IF KnowsTag(x.pool, t) THEN x.store[s] ELSE memory
      /\ y = ConvertUnit(x, t, u, loop, last, memory)
  OBVIOUS
<1> HIDE DEF p, u, s, old
<1>6. /\ PoolInv(y.pool)
      /\ y.pool.unit = p.unit /\ y.pool.existing = p.existing /\ y.pool.new = p.new
      /\ Adds(y.pool.completed, p.completed, Finishes(old, u), s)
      /\ Adds(y.pool.damaged, p.damaged, u.health < old.health, s)
      /\ Adds(y.pool.entering, p.entering, Unseen(old, last), s)
      /\ Adds(y.pool.idled, p.idled,
              (Finishes(old, u) \/ Stopped(old, u)) /\ Alliance[t] = "Self", s)
      /\ y.store = [w \in DOMAIN x.store \cup {s} |->
                      IF w = s THEN Filled(t, u, loop) ELSE x.store[w]]
  <2>1. UnitConverted(y, x, p, s, old, t, u, loop, last)
    BY <1>0, <1>1, ConvertUnitFacts
  <2> QED BY <2>1 DEF UnitConverted
<1>7. /\ DOMAIN y.pool.unit = D \cup T
      /\ \A r \in D \cup T : r # t => y.pool.unit[r] = x.pool.unit[r]
      /\ y.pool.unit[t] = s
  BY <1>2, <1>3, <1>6 DEF s
<1>8. \A W : W \subseteq T => Adds(At(y.pool, W), At(x.pool, W \ {t}), t \in W, s)
  <2> SUFFICES ASSUME NEW W, W \subseteq T
               PROVE  Adds(At(y.pool, W), At(x.pool, W \ {t}), t \in W, s)
    OBVIOUS
  <2>1. \A r \in T \ {t} : y.pool.unit[r] = x.pool.unit[r]
    BY <1>7
  <2> QED BY <1>7, <2>1, AtGrows
<1>9. Placed(y, T, z)
  <2>1. \A r \in D : y.pool.unit[r] = z.pool.unit[r]
    BY <1>2, <1>3, <1>6
  <2>2. y.pool.existing = T
    BY <1>2, <1>3, <1>6
  <2>3. y.pool.new = At(y.pool, T \ D)
    <3>1. (T \ D) \ {t} = (T \ {t}) \ D /\ T \ D \subseteq T
      OBVIOUS
    <3>2. Adds(At(y.pool, T \ D), At(x.pool, (T \ {t}) \ D), t \in T \ D, s)
      BY <1>8, <3>1
    <3>3. t \in DOMAIN x.pool.unit <=> t \in D
      BY <1>3
    <3> QED BY <1>2, <1>3, <1>6, <3>2, <3>3 DEF Adds
  <2> QED BY <1>7, <2>1, <2>2, <2>3 DEF Placed
<1>10. \A r \in D \cup T : r # t => y.pool.unit[r] # s
  BY <1>6, <1>7 DEF PoolInv
<1>11. /\ y.store[s] = Filled(t, u, loop)
       /\ \A r \in D \cup T : r # t => y.store[y.pool.unit[r]] = x.store[x.pool.unit[r]]
  <2>1. \A r \in D \cup T : r # t => x.pool.unit[r] \in DOMAIN x.store
    BY <1>1, <1>3 DEF StoreInv, At
  <2> QED BY <1>6, <1>7, <1>10, <2>1
<1>12. Stored(y, T, z, o, loop)
  <2>1. /\ \A r \in T \ {t} : x.store[x.pool.unit[r]] = Filled(r, o.units[r], loop)
        /\ \A r \in D \ T : x.store[x.pool.unit[r]] = z.store[z.pool.unit[r]]
    BY DEF Converted, Stored
  <2> QED BY <1>7, <1>11, <2>1 DEF Stored, u
<1>13. StoreInv(y.pool, y.store)
  <2>1. DOMAIN y.store = At(y.pool, DOMAIN y.pool.unit)
    <3>1. DOMAIN y.store = DOMAIN x.store \cup {s}
      BY <1>6
    <3>2. DOMAIN x.store = At(x.pool, DOMAIN x.pool.unit)
      BY <1>1 DEF StoreInv
    <3>3. At(y.pool, D \cup T) = At(x.pool, DOMAIN x.pool.unit) \cup {s}
      <4>1. \A r \in DOMAIN x.pool.unit : y.pool.unit[r] = x.pool.unit[r]
        BY <1>2, <1>6
      <4>2. D \cup T = DOMAIN x.pool.unit \cup {t}
        BY <1>3
      <4> QED BY <1>7, <4>1, <4>2 DEF At
    <3> QED BY <1>7, <3>1, <3>2, <3>3
  <2>2. \A r \in D \cup T : \E v \in DataOn(r), l \in 0..Unset :
           y.store[y.pool.unit[r]] = Filled(r, v, l)
    <3>1. \A r \in DOMAIN x.pool.unit : \E v \in DataOn(r), l \in 0..Unset :
             x.store[x.pool.unit[r]] = Filled(r, v, l)
      BY <1>1 DEF StoreInv
    <3>2. \A r \in D \cup T : r # t => r \in DOMAIN x.pool.unit
      BY <1>3
    <3> QED BY <1>1, <1>7, <1>11, <3>1, <3>2
  <2> QED BY <1>7, <2>1, <2>2 DEF StoreInv
<1>14. Compared(y, T, z, o, last, memory)
  <2> DEFINE C == {r \in T : Finishes(OldOf(z, r, memory), o.units[r])}
             H == {r \in T : o.units[r].health < OldOf(z, r, memory).health}
             E == {r \in T : Unseen(OldOf(z, r, memory), last)}
             I == {r \in T : /\ \/ Finishes(OldOf(z, r, memory), o.units[r])
                                \/ Stopped(OldOf(z, r, memory), o.units[r])
                             /\ Alliance[r] = "Self"}
  <2>1. /\ t \in C <=> Finishes(old, u)
        /\ t \in H <=> u.health < old.health
        /\ t \in E <=> Unseen(old, last)
        /\ t \in I <=> (Finishes(old, u) \/ Stopped(old, u)) /\ Alliance[t] = "Self"
    BY <1>5 DEF u
  <2>2. /\ x.pool.completed = At(x.pool, C \ {t})
        /\ x.pool.damaged = At(x.pool, H \ {t})
        /\ x.pool.entering = At(x.pool, E \ {t})
        /\ x.pool.idled = At(x.pool, I \ {t})
    <3>1. /\ C \ {t} = {r \in T \ {t} : Finishes(OldOf(z, r, memory), o.units[r])}
          /\ H \ {t} = {r \in T \ {t} : o.units[r].health < OldOf(z, r, memory).health}
          /\ E \ {t} = {r \in T \ {t} : Unseen(OldOf(z, r, memory), last)}
          /\ I \ {t} = {r \in T \ {t} : /\ \/ Finishes(OldOf(z, r, memory), o.units[r])
                                           \/ Stopped(OldOf(z, r, memory), o.units[r])
                                        /\ Alliance[r] = "Self"}
      OBVIOUS
    <3> QED BY <3>1 DEF Converted, Compared
  <2>3. C \subseteq T /\ H \subseteq T /\ E \subseteq T /\ I \subseteq T
    OBVIOUS
  <2>8. \A W \in {C, H, E, I} :
           Adds(At(y.pool, W), At(x.pool, W \ {t}), t \in W, s)
    BY <1>8, <2>3
  <2> HIDE DEF C, H, E, I
  <2>4. y.pool.completed = At(y.pool, C)
    <3>1. Adds(At(y.pool, C), At(x.pool, C \ {t}), t \in C, s)
      BY <2>8
    <3>2. p.completed = At(x.pool, C \ {t})
      BY <1>2, <2>2
    <3> QED BY <1>6, <2>1, <3>1, <3>2 DEF Adds
  <2>5. y.pool.damaged = At(y.pool, H)
    <3>1. Adds(At(y.pool, H), At(x.pool, H \ {t}), t \in H, s)
      BY <2>8
    <3>2. p.damaged = At(x.pool, H \ {t})
      BY <1>2, <2>2
    <3> QED BY <1>6, <2>1, <3>1, <3>2 DEF Adds
  <2>6. y.pool.entering = At(y.pool, E)
    <3>1. Adds(At(y.pool, E), At(x.pool, E \ {t}), t \in E, s)
      BY <2>8
    <3>2. p.entering = At(x.pool, E \ {t})
      BY <1>2, <2>2
    <3> QED BY <1>6, <2>1, <3>1, <3>2 DEF Adds
  <2>7. y.pool.idled = At(y.pool, I)
    <3>1. Adds(At(y.pool, I), At(x.pool, I \ {t}), t \in I, s)
      BY <2>8
    <3>2. p.idled = At(x.pool, I \ {t})
      BY <1>2, <2>2
    <3> QED BY <1>6, <2>1, <3>1, <3>2 DEF Adds
  <2> QED BY <2>4, <2>5, <2>6, <2>7 DEF Compared, C, H, E, I
<1> QED BY <1>6, <1>9, <1>12, <1>13, <1>14 DEF Converted

(* The lists of the events are empty.                                      *)
Cleared(p) ==
  /\ p.existing = {} /\ p.new = {} /\ p.entering = {} /\ p.completed = {}
  /\ p.idled = {} /\ p.damaged = {}

LEMMA ConvertFacts ==
  ASSUME NEW z, PoolInv(z.pool), StoreInv(z.pool, z.store), Cleared(z.pool),
         NEW o, IsData(o.units), NEW loop \in 0..Unset, NEW last, NEW memory
  PROVE  Converted(Convert(z, o, loop, last, memory), DOMAIN o.units,
                   z, o, loop, last, memory)
<1>1. IsFiniteSet(DOMAIN o.units)
  BY ConstantFacts DEF IsData
<1>2. PICK f :
        /\ Convert(z, o, loop, last, memory) = f[DOMAIN o.units]
        /\ f[{}] = z
        /\ \A s \in SUBSET DOMAIN o.units : s # {} =>
             f[s] = ConvertUnit(f[s \ {Chosen(s)}], Chosen(s), o.units[Chosen(s)],
                                loop, last, memory)
  <2>1. FoldsTo(Convert(z, o, loop, last, memory), z, o, loop, last, memory)
    BY <1>1, ConvertFolds
  <2> QED BY <2>1 DEF FoldsTo
<1> DEFINE S == DOMAIN o.units
<1> DEFINE A == {s \in SUBSET S : Converted(f[s], s, z, o, loop, last, memory)}
<1>3. {} \in A
  <2>1. Placed(z, {}, z) /\ Stored(z, {}, z, o, loop) /\ Compared(z, {}, z, o, last, memory)
    BY DEF Placed, Stored, Compared, Cleared, At
  <2>2. Converted(z, {}, z, o, loop, last, memory)
    BY <2>1 DEF Converted
  <2> QED BY <1>2, <2>2
<1>4. ASSUME NEW s \in SUBSET S, s # {}, s \ {Chosen(s)} \in A PROVE s \in A
  <2>1. Chosen(s) \in s /\ s \subseteq DOMAIN o.units
    BY <1>4, ChosenIn
  <2>2. Converted(f[s \ {Chosen(s)}], s \ {Chosen(s)}, z, o, loop, last, memory)
    BY <1>4
  <2>3. f[s] = ConvertUnit(f[s \ {Chosen(s)}], Chosen(s), o.units[Chosen(s)],
                           loop, last, memory)
    BY <1>2, <1>4
  <2>4. Converted(f[s], s, z, o, loop, last, memory)
    BY <2>1, <2>2, <2>3, ConvertUnitStep
  <2> QED BY <2>4
<1> HIDE DEF A
<1>5. S \in A
  BY <1>1, <1>3, <1>4, AllFiniteSets
<1> QED BY <1>2, <1>5 DEF A

LEMMA ClearExistingFacts ==
  ASSUME NEW p, PoolInv(p), NEW q, q = ClearExisting(p)
  PROVE  PoolInv(q) /\ Cleared(q) /\ q.unit = p.unit
<1>1. p \in UnitPools(DOMAIN p.unit)
  BY DEF PoolInv
<1>2. /\ q.unit = p.unit /\ q.available = p.available /\ q.pages = p.pages
      /\ Cleared(q) /\ q \in UnitPools(DOMAIN p.unit)
  BY <1>1 DEF ClearExisting, UnitPools, Cleared
<1>3. /\ DOMAIN p.unit \subseteq Tags
      /\ p.available[1] <= Cardinality(DOMAIN p.unit)
      /\ p.pages = IF p.available[2] = 0 THEN p.available[1] ELSE p.available[1] + 1
      /\ \A r \in DOMAIN p.unit : Earlier(p.unit[r], p.available)
      /\ \A r, v \in DOMAIN p.unit : p.unit[r] = p.unit[v] => r = v
  BY DEF PoolInv
<1> QED BY <1>2, <1>3 DEF PoolInv

(* The pool and the store before the conversion.                           *)
Start == [pool |-> ClearExisting(pool), store |-> store]

LEMMA UpdateFacts ==
  ASSUME PoolInv(pool), StoreInv(pool, store),
         NEW o, IsData(o.units), NEW loop \in 0..Unset, NEW memory,
         UpdateObservation(o, loop, memory)
  PROVE  /\ Converted([pool |-> pool', store |-> store'], DOMAIN o.units,
                      Start, o, loop, cur, memory)
         /\ Start.pool.unit = pool.unit /\ Start.store = store
         /\ prev' = cur /\ cur' = loop /\ obs' = o
<1> DEFINE y == Convert(Start, o, loop, cur, memory)
<1>1. /\ PoolInv(Start.pool) /\ Cleared(Start.pool) /\ Start.pool.unit = pool.unit
      /\ Start.store = store
  BY ClearExistingFacts DEF Start
<1>2. StoreInv(Start.pool, Start.store)
  BY <1>1 DEF StoreInv, At
<1>3. Converted(y, DOMAIN o.units, Start, o, loop, cur, memory)
  BY <1>1, <1>2, ConvertFacts
<1>4. pool' = y.pool /\ store' = y.store /\ prev' = cur /\ cur' = loop /\ obs' = o
  BY DEF UpdateObservation, Start
<1> HIDE DEF y
<1>5. Converted([pool |-> pool', store |-> store'], DOMAIN o.units,
                Start, o, loop, cur, memory)
  BY <1>3, <1>4 DEF Converted, Placed, Stored, Compared
<1> QED BY <1>1, <1>4, <1>5

(***************************************************************************)
(* The inductive invariant is kept                                         *)
(***************************************************************************)

(* The slots of a set of units hold those units and no others.             *)
LEMMA InAt ==
  ASSUME NEW p, PoolInv(p), NEW t \in DOMAIN p.unit, NEW W, W \subseteq DOMAIN p.unit
  PROVE  p.unit[t] \in At(p, W) <=> t \in W
<1>1. \A r \in DOMAIN p.unit : p.unit[t] = p.unit[r] => t = r
  BY DEF PoolInv
<1> QED BY <1>1 DEF At

LEMMA StoreAt ==
  ASSUME StoreInv(pool, store), NEW t \in DOMAIN pool.unit
  PROVE  /\ pool.unit[t] \in DOMAIN store
         /\ TagOf(pool.unit[t]) = t /\ store[pool.unit[t]].alliance = Alliance[t]
<1>1. pool.unit[t] \in DOMAIN store
  BY DEF StoreInv, At
<1>2. PICK u \in DataOn(t), loop \in 0..Unset : store[pool.unit[t]] = Filled(t, u, loop)
  BY DEF StoreInv
<1> QED BY <1>1, <1>2 DEF Filled, TagOf

LEMMA Named ==
  ASSUME StoreInv(pool, store), NEW W, W \subseteq DOMAIN pool.unit
  PROVE  /\ {TagOf(s) : s \in At(pool, W)} = W
         /\ \A a : Filtered(At(pool, W), a) = {t \in W : Alliance[t] = a}
         /\ \A a : VisibleIn(At(pool, W), a) =
                     {t \in W : /\ Alliance[t] = a
                                /\ store[pool.unit[t]].display = "Visible"}
<1>1. \A t \in W : /\ TagOf(pool.unit[t]) = t
                   /\ store[pool.unit[t]].alliance = Alliance[t]
  BY StoreAt
<1>2. \A s : s \in At(pool, W) <=> \E t \in W : s = pool.unit[t]
  BY DEF At
<1>3. {TagOf(s) : s \in At(pool, W)} = W
  BY <1>1, <1>2
<1>4. ASSUME NEW a PROVE Filtered(At(pool, W), a) = {t \in W : Alliance[t] = a}
  BY <1>1, <1>2 DEF Filtered
<1>5. ASSUME NEW a
      PROVE  VisibleIn(At(pool, W), a) =
               {t \in W : Alliance[t] = a /\ store[pool.unit[t]].display = "Visible"}
  BY <1>1, <1>2 DEF VisibleIn
<1> QED BY <1>3, <1>4, <1>5

LEMMA InitInv == Init => IInv
<1> SUFFICES ASSUME Init PROVE IInv
  OBVIOUS
<1>1. DOMAIN NoUnits = {}
  BY DEF NoUnits
<1>2. /\ pool \in UnitPools({}) /\ pool.unit = NoUnits /\ Lists(pool) = {}
      /\ pool.pages = 0 /\ pool.available = <<0, 0>>
  BY <1>1, ConstantFacts DEF Init, UnitPools, Positions, Lists, NoUnits
<1>3. PoolInv(pool)
  BY <1>1, <1>2, FS_EmptySet DEF PoolInv
<1>4. StoreInv(pool, store)
  BY <1>1, <1>2 DEF Init, StoreInv, At
<1>5. ObsInv /\ Current
  BY <1>1 DEF Init, ObsInv, IsData, Current
<1>6. ControlInv
  BY UnitsAssumption, ConstantFacts DEF Init, ControlInv
<1>7. Collected /\ ChangesAreReported
  BY DEF Init, Collected, ChangesAreReported, Issued
<1> QED BY <1>2, <1>3, <1>4, <1>5, <1>6, <1>7 DEF IInv

(* An observation that is taken in.                                        *)
LEMMA UpdateInv ==
  ASSUME IInv, NEW o, IsData(o.units), NEW loop \in 0..Unset, NEW memory,
         UpdateObservation(o, loop, memory)
  PROVE  /\ PoolInv(pool') /\ StoreInv(pool', store')
         /\ pool'.existing = DOMAIN o.units
         /\ Lists(pool') \subseteq At(pool', DOMAIN o.units)
         /\ Lists(pool') \subseteq DOMAIN store'
         /\ DOMAIN pool'.unit = DOMAIN pool.unit \cup DOMAIN o.units
         /\ \A t \in DOMAIN o.units :
              store'[pool'.unit[t]] = Filled(t, o.units[t], loop)
         /\ \A t \in DOMAIN pool.unit \ DOMAIN o.units :
              store'[pool'.unit[t]] = store[pool.unit[t]]
         /\ pool'.new = At(pool', DOMAIN o.units \ DOMAIN pool.unit)
         /\ prev' = cur /\ cur' = loop /\ obs' = o
<1> DEFINE x == [pool |-> pool', store |-> store']
           S == DOMAIN o.units
<1>1. /\ Converted(x, S, Start, o, loop, cur, memory)
      /\ Start.pool.unit = pool.unit /\ Start.store = store
      /\ prev' = cur /\ cur' = loop /\ obs' = o
  BY UpdateFacts DEF IInv
<1>2. /\ PoolInv(pool') /\ StoreInv(pool', store')
      /\ Placed(x, S, Start) /\ Stored(x, S, Start, o, loop)
      /\ Compared(x, S, Start, o, cur, memory)
  BY <1>1 DEF Converted
<1>3. /\ DOMAIN pool'.unit = DOMAIN pool.unit \cup S
      /\ pool'.existing = S
      /\ pool'.new = At(pool', S \ DOMAIN pool.unit)
  BY <1>1, <1>2 DEF Placed
<1>4. /\ \A t \in S : store'[pool'.unit[t]] = Filled(t, o.units[t], loop)
      /\ \A t \in DOMAIN pool.unit \ S : store'[pool'.unit[t]] = store[pool.unit[t]]
  BY <1>1, <1>2 DEF Stored
<1>5. Lists(pool') \subseteq At(pool', S)
  BY <1>2, <1>3 DEF Compared, Lists, At
<1>6. At(pool', S) \subseteq DOMAIN store'
  BY <1>2, <1>3 DEF StoreInv, At
<1> QED BY <1>1, <1>2, <1>3, <1>4, <1>5, <1>6

(* What is compared with the observation before, and since when it has not *)
(* been seen.                                                              *)
LEMMA UpdateCompares ==
  ASSUME IInv, NEW o, IsData(o.units), NEW loop \in 0..Unset, NEW memory,
         UpdateObservation(o, loop, memory)
  PROVE  /\ \A t \in DOMAIN o.units \cap DOMAIN obs.units :
              LET u == o.units[t]
                  old == obs.units[t]
              IN /\ pool'.unit[t] \in pool'.damaged <=> u.health < old.health
                 /\ pool'.unit[t] \in pool'.completed <=>
                      old.progress = 1 /\ u.progress = 2
                 /\ pool'.unit[t] \in pool'.idled <=> Idles(t, old, u)
                 /\ pool'.unit[t] \notin pool'.new
         /\ pool'.entering =
              At(pool', {t \in DOMAIN o.units :
                 Unseen(IF t \in DOMAIN pool.unit THEN store[pool.unit[t]] ELSE memory,
                        cur)})
<1> DEFINE x == [pool |-> pool', store |-> store']
           S == DOMAIN o.units
           z == Start
<1>1. /\ Converted(x, S, z, o, loop, cur, memory)
      /\ z.pool.unit = pool.unit /\ z.store = store
  BY UpdateFacts DEF IInv
<1>2. PoolInv(pool') /\ Compared(x, S, z, o, cur, memory)
  BY <1>1 DEF Converted
<1>3. S \subseteq DOMAIN pool'.unit
  BY UpdateInv
<1>4. \A t \in S : OldOf(z, t, memory) =
         IF t \in DOMAIN pool.unit THEN store[pool.unit[t]] ELSE memory
  BY <1>1 DEF OldOf
<1>5. \A t \in DOMAIN obs.units : /\ t \in DOMAIN pool.unit
                                  /\ store[pool.unit[t]] = Filled(t, obs.units[t], cur)
  BY DEF IInv, Current
<1>6. pool'.entering =
        At(pool', {t \in S : Unseen(IF t \in DOMAIN pool.unit THEN store[pool.unit[t]]
                                    ELSE memory, cur)})
  <2>1. {t \in S : Unseen(OldOf(z, t, memory), cur)} =
          {t \in S : Unseen(IF t \in DOMAIN pool.unit THEN store[pool.unit[t]]
                            ELSE memory, cur)}
    BY <1>4
  <2> QED BY <1>2, <2>1 DEF Compared
<1>7. ASSUME NEW t \in S \cap DOMAIN obs.units
      PROVE  /\ pool'.unit[t] \in pool'.damaged <=>
                  o.units[t].health < obs.units[t].health
             /\ pool'.unit[t] \in pool'.completed <=>
                  obs.units[t].progress = 1 /\ o.units[t].progress = 2
             /\ pool'.unit[t] \in pool'.idled <=>
                  Idles(t, obs.units[t], o.units[t])
             /\ pool'.unit[t] \notin pool'.new
  <2> DEFINE old == OldOf(z, t, memory)
             u == o.units[t]
             C == {r \in S : Finishes(OldOf(z, r, memory), o.units[r])}
             H == {r \in S : o.units[r].health < OldOf(z, r, memory).health}
             I == {r \in S : /\ \/ Finishes(OldOf(z, r, memory), o.units[r])
                                \/ Stopped(OldOf(z, r, memory), o.units[r])
                             /\ Alliance[r] = "Self"}
  <2>1. /\ old.health = obs.units[t].health /\ old.progress = obs.units[t].progress
        /\ old.orders = obs.units[t].orders
    <3>1. old = Filled(t, obs.units[t], cur)
      BY <1>4, <1>5
    <3> QED BY <3>1 DEF Filled
  <2>2. pool'.unit[t] \notin pool'.new
    <3>1. pool'.new = At(pool', S \ DOMAIN pool.unit)
      BY UpdateInv
    <3>2. t \notin S \ DOMAIN pool.unit /\ S \ DOMAIN pool.unit \subseteq DOMAIN pool'.unit
          /\ t \in DOMAIN pool'.unit
      BY <1>3, <1>5
    <3> HIDE DEF S
    <3> QED BY <1>2, <3>1, <3>2, InAt
  <2>3. /\ t \in C <=> Finishes(old, u)
        /\ t \in H <=> u.health < old.health
        /\ t \in I <=> (Finishes(old, u) \/ Stopped(old, u)) /\ Alliance[t] = "Self"
        /\ C \subseteq S /\ H \subseteq S /\ I \subseteq S
    OBVIOUS
  <2>4. pool'.completed = At(pool', C) /\ pool'.damaged = At(pool', H)
        /\ pool'.idled = At(pool', I)
    BY <1>2 DEF Compared
  <2> HIDE DEF C, H, I, old
  <2>5. /\ pool'.unit[t] \in At(pool', C) <=> t \in C
        /\ pool'.unit[t] \in At(pool', H) <=> t \in H
        /\ pool'.unit[t] \in At(pool', I) <=> t \in I
    BY <1>2, <1>3, <2>3, InAt
  <2> QED BY <2>1, <2>2, <2>3, <2>4, <2>5 DEF Finishes, Stopped, Idles
<1> QED BY <1>6, <1>7

(* The observations that SC2 sends.                                        *)
LEMMA ObservationFacts ==
  ASSUME NEW dead \in SUBSET Tags, NEW o \in Observations(dead)
  PROVE  /\ IsData(o.units) /\ o.dead = dead /\ DOMAIN o = {"units", "dead"}
         /\ dead \cap DOMAIN o.units = {}
<1>1. \A t, u : u \in DataOf(t) => u \in DataOn(t)
  BY DEF DataOf, DataOn, UnitData
<1>2. PICK f : o = [units |-> f, dead |-> dead] /\
        \E S \in SUBSET (Tags \ (gone \cup dead)) :
          /\ f \in [S -> UNION {DataOf(t) : t \in S}]
          /\ \A t \in S : f[t] \in DataOf(t)
  BY DEF Observations
<1> QED BY <1>1, <1>2 DEF IsData

LEMMA TakeIn ==
  ASSUME IInv, NEW o, NEW loop \in 0..Unset, NEW memory,
         UpdateObservation(o, loop, memory),
         IsData(o.units), o.dead \subseteq Tags, o.dead \cap DOMAIN o.units = {},
         DOMAIN o = {"units", "dead"},
         pc' \in {"first", "observed"},
         before' = NoUnits \/ before' = obs.units,
         games' \in 0..MaxGames,
         known' \cup gone' \cup commanded' \subseteq Tags
  PROVE  IInv'
<1>1. /\ PoolInv(pool') /\ StoreInv(pool', store')
      /\ pool'.existing = DOMAIN o.units
      /\ Lists(pool') \subseteq At(pool', DOMAIN o.units)
      /\ Lists(pool') \subseteq DOMAIN store'
      /\ DOMAIN pool'.unit = DOMAIN pool.unit \cup DOMAIN o.units
      /\ \A t \in DOMAIN o.units : store'[pool'.unit[t]] = Filled(t, o.units[t], loop)
      /\ prev' = cur /\ cur' = loop /\ obs' = o
  BY UpdateInv
<1>2. ControlInv'
  <2>1. Unset' = Unset /\ cur \in 0..Unset
    BY DEF IInv, ControlInv, Unset
  <2> QED BY <1>1, <2>1 DEF ControlInv
<1>3. ObsInv'
  <2>1. IsData(obs.units) /\ IsData(NoUnits)
    BY DEF IInv, ObsInv, IsData, NoUnits
  <2> QED BY <1>1, <2>1 DEF ObsInv
<1>4. Current'
  BY <1>1 DEF Current
<1>5. Collected'
  <2>1. CASE before' = NoUnits
    <3>1. DOMAIN before' = {}
      BY <2>1 DEF NoUnits
    <3> QED BY <1>1, <3>1 DEF Collected
  <2>2. CASE before' = obs.units
    <3>1. \A t \in DOMAIN o.units \cap DOMAIN obs.units :
            LET u == o.units[t]
                old == obs.units[t]
            IN /\ pool'.unit[t] \in pool'.damaged <=> u.health < old.health
               /\ pool'.unit[t] \in pool'.completed <=>
                    old.progress = 1 /\ u.progress = 2
               /\ pool'.unit[t] \in pool'.idled <=> Idles(t, old, u)
               /\ pool'.unit[t] \notin pool'.new
      BY UpdateCompares
    <3> QED BY <1>1, <2>2, <3>1 DEF Collected
  <2> QED BY <2>1, <2>2
<1>6. ChangesAreReported'
  BY DEF ChangesAreReported, Issued
<1> QED BY <1>1, <1>2, <1>3, <1>4, <1>5, <1>6 DEF IInv

(* The two kinds of observation, with the loops that they come with.       *)
LEMMA LoopFacts ==
  ASSUME ControlInv
  PROVE  /\ cur \in 0..Unset
         /\ cur < MaxLoops => cur + 1 \in 0..Unset
         /\ FirstLoops \subseteq 0..Unset
BY ConstantFacts DEF ControlInv, FirstLoops

LEMMA RepeatFacts ==
  ASSUME ObsInv, NEW o, o = [obs EXCEPT !.dead = {}]
  PROVE  /\ o.units = obs.units /\ o.dead = {} /\ DOMAIN o = {"units", "dead"}
         /\ IsData(o.units)
BY DEF ObsInv

LEMMA NextObservationInv == IInv /\ NextObservation => IInv'
<1> SUFFICES ASSUME IInv, NextObservation PROVE IInv'
  OBVIOUS
<1>1. ControlInv /\ ObsInv
  BY DEF IInv
<1>2. ASSUME NEW o, NEW loop \in 0..Unset, Observe(o, loop),
             IsData(o.units), o.dead \subseteq Tags, o.dead \cap DOMAIN o.units = {},
             DOMAIN o = {"units", "dead"}
      PROVE  IInv'
  <2>1. PICK memory \in Memory : UpdateObservation(o, loop, memory)
    BY <1>2 DEF Observe
  <2>2. /\ pc' = "observed" /\ before' = obs.units /\ games' = games
        /\ known' = known \cup DOMAIN obs.units /\ gone' = gone \cup o.dead
        /\ commanded' = {}
    BY <1>2 DEF Observe
  <2>3. /\ games' \in 0..MaxGames
        /\ known' \cup gone' \cup commanded' \subseteq Tags
    BY <1>1, <1>2, <2>2 DEF ControlInv, ObsInv, IsData
  <2> QED BY <1>2, <2>1, <2>2, <2>3, TakeIn
<1>3. CASE \E dead \in SUBSET (Tags \ gone) :
             \E o \in Observations(dead) : cur < MaxLoops /\ Observe(o, cur + 1)
  <2>1. PICK dead \in SUBSET Tags : \E o \in Observations(dead) :
                cur < MaxLoops /\ Observe(o, cur + 1)
    BY <1>3
  <2>2. PICK o \in Observations(dead) : cur < MaxLoops /\ Observe(o, cur + 1)
    BY <2>1
  <2>3. /\ IsData(o.units) /\ o.dead = dead /\ DOMAIN o = {"units", "dead"}
        /\ dead \cap DOMAIN o.units = {}
    BY ObservationFacts
  <2>4. cur + 1 \in 0..Unset
    BY <1>1, <2>2, LoopFacts
  <2> QED BY <1>2, <2>2, <2>3, <2>4
<1>4. CASE Observe([obs EXCEPT !.dead = {}], cur)
  <2> DEFINE o == [obs EXCEPT !.dead = {}]
  <2>1. /\ o.units = obs.units /\ o.dead = {} /\ DOMAIN o = {"units", "dead"}
        /\ IsData(o.units)
    BY <1>1, RepeatFacts
  <2>2. cur \in 0..Unset
    BY <1>1, LoopFacts
  <2>3. Observe(o, cur)
    BY <1>4
  <2> HIDE DEF o
  <2> QED BY <1>2, <2>1, <2>2, <2>3
<1> QED BY <1>3, <1>4 DEF NextObservation

(* What is observed first.                                                 *)
LEMMA FirstFacts ==
  ASSUME NEW f \in FirstUnits, NEW o, o = [units |-> f, dead |-> {}]
  PROVE  /\ IsData(o.units) /\ o.dead = {} /\ DOMAIN o = {"units", "dead"}
         /\ o.units = f
<1>1. PICK S \in SUBSET Tags :
        f \in [S -> {Whole, Remembered}]
  BY DEF FirstUnits
<1>2. \A t \in S : f[t] = Remembered => Alliance[t] = "Neutral"
  BY <1>1 DEF FirstUnits
<1>3. /\ Whole \in UnitData /\ ~Whole.orders /\ Whole.display # "Snapshot"
      /\ Remembered \in UnitData /\ ~Remembered.orders
  BY DEF Whole, Remembered, UnitData
<1>4. \A t \in S : f[t] \in {Whole, Remembered}
  BY <1>1
<1>5. \A t \in S : f[t] \in DataOn(t)
  BY <1>2, <1>3, <1>4 DEF DataOn
<1> QED BY <1>1, <1>5 DEF IsData

LEMMA NewGameInv == IInv /\ NewGame => IInv'
<1> SUFFICES ASSUME IInv, NewGame PROVE IInv'
  OBVIOUS
<1>1. PICK f \in FirstUnits : \E memory \in Memory, loop \in FirstLoops :
           UpdateObservation([units |-> f, dead |-> {}], loop, memory)
  BY DEF NewGame
<1>2. PICK memory \in Memory, loop \in FirstLoops :
         UpdateObservation([units |-> f, dead |-> {}], loop, memory)
  BY <1>1
<1> DEFINE o == [units |-> f, dead |-> {}]
<1>3. /\ IsData(o.units) /\ o.dead = {} /\ DOMAIN o = {"units", "dead"}
  BY FirstFacts
<1>4. loop \in 0..Unset
  BY LoopFacts DEF IInv
<1>5. /\ games' \in 0..MaxGames
      /\ known' \cup gone' \cup commanded' \subseteq Tags
      /\ before' = NoUnits /\ pc' = "first"
  <2>1. games < MaxGames /\ games \in Nat /\ MaxGames \in Nat
    BY UnitsAssumption DEF NewGame, IInv, ControlInv
  <2> QED BY <2>1 DEF NewGame
<1> HIDE DEF o
<1>6. UpdateObservation(o, loop, memory)
  BY <1>2 DEF o
<1> QED BY <1>3, <1>4, <1>5, <1>6, TakeIn

(* The events are those of the units whose slots are in the lists.         *)
LEMMA EventFacts ==
  ASSUME IInv, NEW commands, IssueEvents(commands), cur # prev
  PROVE  /\ events'.destroyed = Destroyed
         /\ events'.created = Filtered(pool.new, "Self") \cup VisibleIn(pool.new, "Neutral")
         /\ events'.entered = VisibleIn(pool.entering, "Enemy")
         /\ events'.created \cup events'.entered \cup events'.completed
              \cup events'.idle \cup events'.damaged \subseteq DOMAIN obs.units
         /\ \A t \in DOMAIN obs.units :
              /\ t \in events'.damaged <=> pool.unit[t] \in pool.damaged
              /\ Alliance[t] = "Self" =>
                   /\ t \in events'.completed <=> pool.unit[t] \in pool.completed
                   /\ pool.unit[t] \notin pool.new =>
                        (t \in events'.idle <=>
                           \/ pool.unit[t] \in pool.idled
                           \/ t \in commands /\ ~store[pool.unit[t]].orders)
              /\ t \in events'.completed => pool.unit[t] \in pool.completed
         /\ Lists(pool') \subseteq At(pool, DOMAIN obs.units)
         /\ PoolInv(pool') /\ pool'.unit = pool.unit
<1> DEFINE S == DOMAIN obs.units
           alive == pool.existing \ Destroyed
           idled == {s \in Idled(commands, alive) : store[s].alliance = "Self"}
           e == [destroyed |-> Destroyed,
                 created |-> Filtered(pool.new, "Self") \cup VisibleIn(pool.new, "Neutral"),
                 entered |-> VisibleIn(pool.entering, "Enemy"),
                 completed |-> Filtered(pool.completed, "Self"),
                 idle |-> {TagOf(s) : s \in idled},
                 damaged |-> {TagOf(s) : s \in pool.damaged}]
<1>1. /\ events' = e /\ pool' = [pool EXCEPT !.existing = alive, !.idled = idled]
      /\ pc # "issued"
  BY DEF IssueEvents
<1>2. /\ PoolInv(pool) /\ StoreInv(pool, store) /\ S \subseteq DOMAIN pool.unit
      /\ pool.existing = S /\ Lists(pool) \subseteq At(pool, S)
  BY <1>1 DEF IInv, Current, Collected
<1>3. \A L : L \subseteq At(pool, S) => L = At(pool, {t \in S : pool.unit[t] \in L})
  BY DEF At
<1>4. idled \subseteq At(pool, S)
  <2>1. Idled(commands, alive) \subseteq At(pool, S)
    BY <1>2 DEF Idled, Lists, At
  <2> QED BY <2>1
<1>5. ASSUME NEW t \in S, pool.unit[t] \notin pool.new
      PROVE  pool.unit[t] \in Idled(commands, alive) <=>
               \/ pool.unit[t] \in pool.idled
               \/ t \in commands /\ ~store[pool.unit[t]].orders
  <2> DEFINE W == {r \in commands \cap alive : ~store[pool.unit[r]].orders}
  <2>1. t \in alive
    BY <1>2 DEF Destroyed, IInv, ObsInv
  <2>2. W \subseteq DOMAIN pool.unit /\ t \in DOMAIN pool.unit
    BY <1>2
  <2>3. t \in W <=> t \in commands /\ ~store[pool.unit[t]].orders
    BY <2>1
  <2>4. Idled(commands, alive) =
          pool.idled \cup At(pool, W)
            \cup {s \in pool.new : store[s].progress = 2 /\ ~store[s].orders}
    BY DEF Idled, At
  <2> HIDE DEF W
  <2>5. pool.unit[t] \in At(pool, W) <=> t \in W
    BY <1>2, <2>2, InAt
  <2> QED BY <1>5, <2>3, <2>4, <2>5
<1>6. \A t \in S : TagOf(pool.unit[t]) = t /\ store[pool.unit[t]].alliance = Alliance[t]
  BY <1>2, StoreAt
<1>7. \A L : L \subseteq At(pool, S) =>
         /\ {TagOf(s) : s \in L} = {t \in S : pool.unit[t] \in L}
         /\ \A a : /\ Filtered(L, a) = {t \in S : pool.unit[t] \in L /\ Alliance[t] = a}
                   /\ VisibleIn(L, a) \subseteq S
  <2> SUFFICES ASSUME NEW L, L \subseteq At(pool, S)
               PROVE  /\ {TagOf(s) : s \in L} = {t \in S : pool.unit[t] \in L}
                      /\ \A a : /\ Filtered(L, a) =
                                     {t \in S : pool.unit[t] \in L /\ Alliance[t] = a}
                                /\ VisibleIn(L, a) \subseteq S
    OBVIOUS
  <2> DEFINE W == {t \in S : pool.unit[t] \in L}
  <2>1. L = At(pool, W) /\ W \subseteq DOMAIN pool.unit
    BY <1>2, <1>3
  <2> HIDE DEF W
  <2>2. /\ {TagOf(s) : s \in L} = W
        /\ \A a : Filtered(L, a) = {t \in W : Alliance[t] = a}
        /\ \A a : VisibleIn(L, a) \subseteq W
    BY <1>2, <2>1, Named
  <2> QED BY <2>2 DEF W
<1>8. /\ pool.new \subseteq At(pool, S) /\ pool.entering \subseteq At(pool, S)
      /\ pool.completed \subseteq At(pool, S) /\ pool.damaged \subseteq At(pool, S)
  BY <1>2 DEF Lists
<1> HIDE DEF idled, S, alive
<1>9. /\ events'.destroyed = Destroyed
      /\ events'.created = Filtered(pool.new, "Self") \cup VisibleIn(pool.new, "Neutral")
      /\ events'.entered = VisibleIn(pool.entering, "Enemy")
      /\ events'.completed = Filtered(pool.completed, "Self")
      /\ events'.idle = {TagOf(s) : s \in idled}
      /\ events'.damaged = {TagOf(s) : s \in pool.damaged}
  BY <1>1
<1>10. /\ events'.damaged = {t \in S : pool.unit[t] \in pool.damaged}
       /\ events'.idle = {t \in S : pool.unit[t] \in idled}
       /\ events'.completed =
            {t \in S : pool.unit[t] \in pool.completed /\ Alliance[t] = "Self"}
  <2>1. {TagOf(s) : s \in pool.damaged} = {t \in S : pool.unit[t] \in pool.damaged}
    BY <1>7, <1>8
  <2>2. {TagOf(s) : s \in idled} = {t \in S : pool.unit[t] \in idled}
    BY <1>4, <1>7
  <2>3. Filtered(pool.completed, "Self") =
          {t \in S : pool.unit[t] \in pool.completed /\ Alliance[t] = "Self"}
    <3>1. \A a : Filtered(pool.completed, a) =
                   {t \in S : pool.unit[t] \in pool.completed /\ Alliance[t] = a}
      BY <1>7, <1>8
    <3> QED BY <3>1
  <2> QED BY <1>9, <2>1, <2>2, <2>3
<1>11. events'.created \subseteq S /\ events'.entered \subseteq S
  <2>1. Filtered(pool.new, "Self") \subseteq S
    BY <1>7, <1>8
  <2>2. VisibleIn(pool.new, "Neutral") \subseteq S
    BY <1>7, <1>8
  <2>3. VisibleIn(pool.entering, "Enemy") \subseteq S
    BY <1>7, <1>8
  <2> QED BY <1>9, <2>1, <2>2, <2>3
<1>12. \A t \in S : Alliance[t] = "Self" /\ pool.unit[t] \notin pool.new =>
          (pool.unit[t] \in idled <=>
             \/ pool.unit[t] \in pool.idled
             \/ t \in commands /\ ~store[pool.unit[t]].orders)
  BY <1>5, <1>6 DEF idled
<1>13. pool \in UnitPools(DOMAIN pool.unit)
  BY <1>2 DEF PoolInv
<1>14. /\ pool'.unit = pool.unit /\ pool'.available = pool.available
       /\ pool'.pages = pool.pages /\ pool'.new = pool.new
       /\ pool'.entering = pool.entering /\ pool'.completed = pool.completed
       /\ pool'.damaged = pool.damaged /\ pool'.idled = idled
  BY <1>1, <1>13 DEF UnitPools
<1>15. PoolInv(pool')
  <2>1. /\ DOMAIN pool.unit \subseteq Tags
        /\ pool.available[1] <= Cardinality(DOMAIN pool.unit)
        /\ pool.pages = IF pool.available[2] = 0 THEN pool.available[1]
                                                 ELSE pool.available[1] + 1
        /\ \A r \in DOMAIN pool.unit : Earlier(pool.unit[r], pool.available)
        /\ \A r, v \in DOMAIN pool.unit : pool.unit[r] = pool.unit[v] => r = v
    BY <1>2 DEF PoolInv
  <2>2. idled \in SUBSET Positions
    <3>1. At(pool, S) \subseteq Positions
      BY <1>2, <1>13 DEF At, UnitPools
    <3> QED BY <1>4, <3>1
  <2>3. alive \in SUBSET Tags
    BY <1>13 DEF alive, UnitPools
  <2>4. pool' \in UnitPools(DOMAIN pool.unit)
    BY <1>1, <1>13, <2>2, <2>3 DEF UnitPools
  <2> QED BY <1>14, <2>1, <2>4 DEF PoolInv
<1>16. Lists(pool') \subseteq At(pool, S)
  BY <1>4, <1>8, <1>14 DEF Lists
<1> QED BY <1>9, <1>10, <1>11, <1>12, <1>14, <1>15, <1>16 DEF S

LEMMA IssueInv ==
  ASSUME IInv, NEW commands, commands \subseteq Tags, IssueEvents(commands)
  PROVE  IInv'
<1>1. /\ pc \in {"first", "observed"} /\ pc' = "issued"
      /\ UNCHANGED <<store, cur, prev, obs, games, before, known, gone>>
      /\ commanded' = commands
  BY DEF IssueEvents
<1>2. ControlInv' /\ ObsInv'
  <2>1. ControlInv /\ ObsInv
    BY DEF IInv
  <2>2. events'.created \subseteq Tags
    <3>1. CASE cur = prev
      BY <3>1 DEF IssueEvents, NoEvents
    <3>2. CASE cur # prev
      <4>1. DOMAIN obs.units \subseteq Tags
        BY <2>1 DEF ObsInv, IsData
      <4> QED BY <3>2, <4>1, EventFacts
    <3> QED BY <3>1, <3>2
  <2> QED BY <1>1, <2>1, <2>2 DEF ControlInv, ObsInv, Unset
<1>3. Collected'
  BY <1>1 DEF Collected
<1>4. /\ PoolInv(pool) /\ StoreInv(pool, store) /\ Current /\ Collected
      /\ Lists(pool) \subseteq DOMAIN store
  BY DEF IInv
<1>5. CASE cur = prev
  <2>1. pool' = pool
    BY <1>5 DEF IssueEvents
  <2>2. ChangesAreReported'
    BY <1>1, <1>5 DEF ChangesAreReported, Issued
  <2>3. PoolInv(pool') /\ StoreInv(pool', store') /\ Current'
        /\ Lists(pool') \subseteq DOMAIN store'
    BY <1>1, <1>4, <2>1 DEF Current
  <2> QED BY <1>2, <1>3, <2>2, <2>3 DEF IInv
<1>6. CASE cur # prev
  <2>1. /\ \A t \in DOMAIN obs.units :
             /\ t \in events'.damaged <=> pool.unit[t] \in pool.damaged
             /\ Alliance[t] = "Self" =>
                  /\ t \in events'.completed <=> pool.unit[t] \in pool.completed
                  /\ pool.unit[t] \notin pool.new =>
                       (t \in events'.idle <=>
                          \/ pool.unit[t] \in pool.idled
                          \/ t \in commands /\ ~store[pool.unit[t]].orders)
             /\ t \in events'.completed => pool.unit[t] \in pool.completed
        /\ Lists(pool') \subseteq At(pool, DOMAIN obs.units)
        /\ PoolInv(pool') /\ pool'.unit = pool.unit
    BY <1>6, EventFacts
  <2>2. StoreInv(pool', store') /\ Current'
    BY <1>1, <1>4, <2>1 DEF StoreInv, Current, At
  <2>3. Lists(pool') \subseteq DOMAIN store'
    <3>1. At(pool, DOMAIN obs.units) \subseteq DOMAIN store
      BY <1>4 DEF Current, StoreInv, At
    <3> QED BY <1>1, <2>1, <3>1
  <2>4. ChangesAreReported'
    <3>1. \A t \in DOMAIN obs.units \cap DOMAIN before :
            /\ pool.unit[t] \in pool.damaged <=> obs.units[t].health < before[t].health
            /\ pool.unit[t] \in pool.completed <=>
                 before[t].progress = 1 /\ obs.units[t].progress = 2
            /\ pool.unit[t] \in pool.idled <=> Idles(t, before[t], obs.units[t])
            /\ pool.unit[t] \notin pool.new
      BY <1>1, <1>4 DEF Collected
    <3>2. \A t \in DOMAIN obs.units :
            store[pool.unit[t]].orders = obs.units[t].orders
      <4>1. \A t : Filled(t, obs.units[t], cur).orders = obs.units[t].orders
        BY DEF Filled
      <4> QED BY <1>4, <4>1 DEF Current
    <3>3. \A t \in DOMAIN obs.units \cap DOMAIN before :
            /\ t \in events'.damaged <=> obs.units[t].health < before[t].health
            /\ t \in events'.completed =>
                 before[t].progress = 1 /\ obs.units[t].progress = 2
            /\ Alliance[t] = "Self" =>
                 /\ before[t].progress = 1 /\ obs.units[t].progress = 2 =>
                      t \in events'.completed
                 /\ t \in events'.idle <=>
                      \/ before[t].orders /\ ~obs.units[t].orders
                      \/ before[t].progress = 1 /\ obs.units[t].progress = 2
                      \/ t \in commands /\ ~obs.units[t].orders
      BY <2>1, <3>1, <3>2 DEF Idles
    <3> QED BY <1>1, <3>3 DEF ChangesAreReported
  <2> QED BY <1>2, <1>3, <2>1, <2>2, <2>3, <2>4 DEF IInv
<1> QED BY <1>5, <1>6

LEMMA StutterInv == IInv /\ UNCHANGED vars => IInv'
<1> SUFFICES ASSUME IInv, UNCHANGED vars PROVE IInv'
  OBVIOUS
<1>1. UNCHANGED vars
  OBVIOUS
<1> QED BY <1>1 DEF IInv, vars, ControlInv, ObsInv, IsData, PoolInv, StoreInv, Lists, Current,
           Collected, ChangesAreReported, Issued, Unset, At, Idles

(* Whatever is observed and whenever events are issued, the pool has one   *)
(* slot for each unit it knows and holds what was last observed of it.     *)
THEOREM Inductive == Spec => []IInv
<1>1. IInv /\ [Next]_vars => IInv'
  <2> SUFFICES ASSUME IInv, [Next]_vars PROVE IInv'
    OBVIOUS
  <2>1. CASE NewGame
    BY <2>1, NewGameInv
  <2>2. CASE NextObservation
    BY <2>2, NextObservationInv
  <2>3. ASSUME NEW commands \in SUBSET (Own \cap DOMAIN before), IssueEvents(commands)
        PROVE  IInv'
    BY <2>3, IssueInv DEF Own
  <2>4. CASE UNCHANGED vars
    BY <2>4, StutterInv
  <2> QED BY <2>1, <2>2, <2>3, <2>4 DEF Next
<1> QED BY <1>1, InitInv, PTL DEF Spec

(* The pool, the store and the lists of slots have their types; the pages  *)
(* of the pool are at most one more than its units.                        *)
THEOREM TypeCorrect == Spec => []TypeOK
<1>1. IInv => TypeOK
  <2> SUFFICES ASSUME IInv PROVE TypeOK
    OBVIOUS
  <2>1. /\ ControlInv /\ PoolInv(pool) /\ StoreInv(pool, store)
        /\ Lists(pool) \subseteq DOMAIN store
    BY DEF IInv
  <2>2. /\ DOMAIN pool.unit \subseteq Tags /\ pool \in UnitPools(DOMAIN pool.unit)
        /\ pool.available[1] <= Cardinality(DOMAIN pool.unit)
        /\ pool.pages = IF pool.available[2] = 0 THEN pool.available[1]
                                                 ELSE pool.available[1] + 1
    BY <2>1 DEF PoolInv
  <2> DEFINE n == Cardinality(Tags)
  <2>3. n \in Nat /\ Cardinality(DOMAIN pool.unit) \in Nat
        /\ Cardinality(DOMAIN pool.unit) <= n
    BY <2>2, ConstantFacts
  <2> HIDE DEF n
  <2>4. /\ pool.available \in Positions /\ pool.unit \in [DOMAIN pool.unit -> Positions]
        /\ pool.existing \subseteq Tags
    BY <2>2 DEF UnitPools
  <2>5. /\ pool.available[1] \in 0..n /\ pool.available[2] \in 0..ENTRY_SIZE - 1
        /\ pool.pages \in 0..(n + 1)
    BY <2>2, <2>3, <2>4 DEF Positions
  <2>6. pool.available \in Slots
    BY <2>4, <2>5 DEF Slots, Positions, n
  <2>7. \A t \in DOMAIN pool.unit : pool.unit[t] \in Slots
    <3> SUFFICES ASSUME NEW t \in DOMAIN pool.unit PROVE pool.unit[t] \in Slots
      OBVIOUS
    <3>1. pool.unit[t] \in Positions /\ Earlier(pool.unit[t], pool.available)
      BY <2>1, <2>4 DEF PoolInv
    <3>2. pool.unit[t][1] \in 0..n
      BY <2>3, <2>4, <2>5, <3>1 DEF Positions, Earlier
    <3> QED BY <3>1, <3>2 DEF Positions, Slots, n
  <2>8. DOMAIN store \subseteq Slots
    BY <2>1, <2>7 DEF StoreInv, At
  <2> QED BY <2>1, <2>2, <2>4, <2>5, <2>6, <2>7, <2>8
          DEF TypeOK, ControlInv, Lists, n
<1> QED BY <1>1, Inductive, PTL

(* A pointer remains the one object of its unit: the slot holds the unit   *)
(* it was given to, no other has it, and its page exists.                  *)
THEOREM Stable == Spec => []PointersAreStable
<1>1. IInv => PointersAreStable
  <2> SUFFICES ASSUME IInv, NEW t \in DOMAIN pool.unit
               PROVE  /\ TagOf(pool.unit[t]) = t
                      /\ pool.unit[t][1] < pool.pages /\ pool.unit[t][2] < ENTRY_SIZE
    BY DEF PointersAreStable
  <2>1. PoolInv(pool) /\ StoreInv(pool, store)
    BY DEF IInv
  <2>2. TagOf(pool.unit[t]) = t
    BY <2>1, StoreAt
  <2>3. /\ pool \in UnitPools(DOMAIN pool.unit) /\ Earlier(pool.unit[t], pool.available)
        /\ pool.pages = IF pool.available[2] = 0 THEN pool.available[1]
                                                 ELSE pool.available[1] + 1
    BY <2>1 DEF PoolInv
  <2>4. pool.unit[t] \in Positions /\ pool.available \in Positions
    BY <2>3 DEF UnitPools
  <2>5. pool.unit[t][1] < pool.pages /\ pool.unit[t][2] < ENTRY_SIZE
    BY <2>3, <2>4, ConstantFacts DEF Positions, Earlier
  <2> QED BY <2>2, <2>5
<1> QED BY <1>1, Inductive, PTL

(* Damage, completion and idleness compare an observation with the one     *)
(* before it in the game, although the conversion compares with the one    *)
(* copy of the unit that it overwrites.                                    *)
THEOREM ChangesReported == Spec => []ChangesAreReported
<1>1. IInv => ChangesAreReported
  BY DEF IInv
<1> QED BY <1>1, Inductive, PTL

(***************************************************************************)
(* The first game                                                          *)
(***************************************************************************)

(* In the first game of a client the pool knows the units that have been   *)
(* observed in the game and no others, and when it has seen them last.     *)
SeenInv ==
  /\ DOMAIN pool.unit = known \cup DOMAIN obs.units
  /\ \A t \in DOMAIN pool.unit \ DOMAIN obs.units : store[pool.unit[t]].seen < cur
  /\ games = 0 => DOMAIN pool.unit = {}

Sighted ==
  pc # "issued" =>
    /\ pool.new = At(pool, DOMAIN obs.units \ known)
    /\ prev # 0 => pool.entering = At(pool, DOMAIN obs.units \ DOMAIN before)

GameInv ==
  games <= 1 =>
    /\ SeenInv /\ Sighted
    /\ CreatedWhenFirstSeen /\ EnteredWhenSighted /\ EventsAreCurrent

LEMMA InitGame == Init => GameInv
BY DEF Init, GameInv, SeenInv, Sighted, CreatedWhenFirstSeen, EnteredWhenSighted,
       EventsAreCurrent, Issued, NoUnits

LEMMA SeenFacts ==
  ASSUME IInv
  PROVE  /\ DOMAIN obs.units \subseteq DOMAIN pool.unit
         /\ \A t \in DOMAIN obs.units : store[pool.unit[t]].seen = cur
         /\ \A t \in DOMAIN pool.unit : store[pool.unit[t]].seen \in 0..Unset
         /\ cur \in 0..Unset /\ Unset \in Nat
         /\ \A memory \in Memory : memory.seen = 0
<1>1. /\ DOMAIN obs.units \subseteq DOMAIN pool.unit
      /\ \A t \in DOMAIN obs.units : store[pool.unit[t]] = Filled(t, obs.units[t], cur)
  BY DEF IInv, Current
<1>2. \A t \in DOMAIN obs.units : store[pool.unit[t]].seen = cur
  <2>1. \A t : Filled(t, obs.units[t], cur).seen = cur
    BY DEF Filled
  <2> QED BY <1>1, <2>1
<1>3. \A t \in DOMAIN pool.unit : store[pool.unit[t]].seen \in 0..Unset
  <2> SUFFICES ASSUME NEW t \in DOMAIN pool.unit
               PROVE  store[pool.unit[t]].seen \in 0..Unset
    OBVIOUS
  <2>1. PICK u \in DataOn(t), loop \in 0..Unset : store[pool.unit[t]] = Filled(t, u, loop)
    BY DEF IInv, StoreInv
  <2> QED BY <2>1 DEF Filled
<1>4. cur \in 0..Unset /\ Unset \in Nat
  BY ConstantFacts DEF IInv, ControlInv
<1>5. \A memory \in Memory : memory.seen = 0
  BY DEF Memory, Uninitialised
<1> QED BY <1>1, <1>2, <1>3, <1>4, <1>5

(* An observation of a loop that is not before the current one.            *)
LEMMA TakeInGame ==
  ASSUME IInv, SeenInv, NEW o, IsData(o.units), NEW loop \in 0..Unset,
         NEW memory \in Memory, UpdateObservation(o, loop, memory),
         pc' # "issued", games' # 0, known' = known \cup DOMAIN obs.units,
         DOMAIN before' = DOMAIN obs.units,
         loop > cur \/ (loop = cur /\ DOMAIN o.units = DOMAIN obs.units)
           \/ DOMAIN pool.unit = {}
  PROVE  GameInv'
<1>1. /\ PoolInv(pool') /\ StoreInv(pool', store')
      /\ DOMAIN pool'.unit = DOMAIN pool.unit \cup DOMAIN o.units
      /\ \A t \in DOMAIN pool.unit \ DOMAIN o.units :
           store'[pool'.unit[t]] = store[pool.unit[t]]
      /\ pool'.new = At(pool', DOMAIN o.units \ DOMAIN pool.unit)
      /\ prev' = cur /\ cur' = loop /\ obs' = o
  BY UpdateInv
<1>2. DOMAIN pool.unit = known'
  BY DEF SeenInv
<1>3. SeenInv'
  <2>1. ASSUME NEW t \in DOMAIN pool'.unit \ DOMAIN o.units
        PROVE  store'[pool'.unit[t]].seen < loop
    <3>1. t \in DOMAIN pool.unit \ DOMAIN o.units
      BY <1>1, <2>1
    <3>2. store'[pool'.unit[t]].seen = store[pool.unit[t]].seen
      BY <1>1, <3>1
    <3>3. \/ t \in DOMAIN obs.units /\ store[pool.unit[t]].seen = cur
          \/ t \notin DOMAIN obs.units /\ store[pool.unit[t]].seen < cur
      BY <3>1, SeenFacts DEF SeenInv
    <3>4. store[pool.unit[t]].seen \in Nat /\ cur \in Nat /\ loop \in Nat
      BY <3>1, SeenFacts
    <3> QED BY <3>1, <3>2, <3>3, <3>4
  <2> QED BY <1>1, <1>2, <2>1 DEF SeenInv
<1>4. Sighted'
  <2>1. pool'.new = At(pool', DOMAIN o.units \ known')
    BY <1>1, <1>2
  <2>2. ASSUME cur # 0
        PROVE  pool'.entering = At(pool', DOMAIN o.units \ DOMAIN obs.units)
    <3> DEFINE Seen(t) == IF t \in DOMAIN pool.unit THEN store[pool.unit[t]] ELSE memory
    <3>1. pool'.entering = At(pool', {t \in DOMAIN o.units : Unseen(Seen(t), cur)})
      BY UpdateCompares
    <3>2. ASSUME NEW t \in DOMAIN o.units
          PROVE  Unseen(Seen(t), cur) <=> t \notin DOMAIN obs.units
      <4>1. CASE t \in DOMAIN obs.units
        <5>1. Seen(t).seen = cur /\ cur \in Nat
          BY <4>1, SeenFacts
        <5> QED BY <4>1, <5>1 DEF Unseen
      <4>2. CASE t \in DOMAIN pool.unit \ DOMAIN obs.units
        <5>1. Seen(t).seen < cur
          BY <4>2 DEF SeenInv
        <5> QED BY <4>2, <5>1 DEF Unseen
      <4>3. CASE t \notin DOMAIN pool.unit
        <5>1. Seen(t).seen = 0 /\ cur \in Nat /\ t \notin DOMAIN obs.units
          BY <4>3, SeenFacts
        <5> QED BY <2>2, <5>1 DEF Unseen
      <4> QED BY <4>1, <4>2, <4>3
    <3> HIDE DEF Seen
    <3>3. {t \in DOMAIN o.units : Unseen(Seen(t), cur)} = DOMAIN o.units \ DOMAIN obs.units
      BY <3>2
    <3> QED BY <3>1, <3>3
  <2> QED BY <1>1, <2>1, <2>2 DEF Sighted
<1>5. CreatedWhenFirstSeen' /\ EnteredWhenSighted' /\ EventsAreCurrent'
  BY DEF CreatedWhenFirstSeen, EnteredWhenSighted, EventsAreCurrent, Issued
<1> QED BY <1>3, <1>4, <1>5 DEF GameInv

LEMMA NextObservationGame == IInv /\ GameInv /\ NextObservation => GameInv'
<1> SUFFICES ASSUME IInv, GameInv, NextObservation, games' <= 1 PROVE GameInv'
  BY DEF GameInv
<1>1. ControlInv /\ ObsInv /\ games > 0 /\ games \in Nat
  BY UnitsAssumption DEF IInv, NextObservation, ControlInv
<1>2. ASSUME NEW o, NEW loop \in 0..Unset, Observe(o, loop), IsData(o.units),
             loop > cur \/ (loop = cur /\ DOMAIN o.units = DOMAIN obs.units)
      PROVE  GameInv'
  <2>1. PICK memory \in Memory : UpdateObservation(o, loop, memory)
    BY <1>2 DEF Observe
  <2>2. /\ pc' = "observed" /\ before' = obs.units /\ games' = games
        /\ known' = known \cup DOMAIN obs.units
    BY <1>2 DEF Observe
  <2>3. SeenInv
    BY <1>1, <2>2 DEF GameInv
  <2> QED BY <1>1, <1>2, <2>1, <2>2, <2>3, TakeInGame
<1>3. CASE \E dead \in SUBSET (Tags \ gone) :
             \E o \in Observations(dead) : cur < MaxLoops /\ Observe(o, cur + 1)
  <2>1. PICK dead \in SUBSET Tags : \E o \in Observations(dead) :
                cur < MaxLoops /\ Observe(o, cur + 1)
    BY <1>3
  <2>2. PICK o \in Observations(dead) : cur < MaxLoops /\ Observe(o, cur + 1)
    BY <2>1
  <2>3. IsData(o.units)
    BY ObservationFacts
  <2>4. cur + 1 \in 0..Unset /\ cur + 1 > cur
    BY <1>1, <2>2, LoopFacts
  <2> QED BY <1>2, <2>2, <2>3, <2>4
<1>4. CASE Observe([obs EXCEPT !.dead = {}], cur)
  <2> DEFINE o == [obs EXCEPT !.dead = {}]
  <2>1. o.units = obs.units /\ IsData(o.units)
    BY <1>1, RepeatFacts
  <2>2. cur \in 0..Unset
    BY <1>1, LoopFacts
  <2>3. Observe(o, cur)
    BY <1>4
  <2> HIDE DEF o
  <2> QED BY <1>2, <2>1, <2>2, <2>3
<1> QED BY <1>3, <1>4 DEF NextObservation

LEMMA NewGameGame == IInv /\ GameInv /\ NewGame => GameInv'
<1> SUFFICES ASSUME IInv, GameInv, NewGame, games' <= 1 PROVE GameInv'
  BY DEF GameInv
<1>1. games = 0 /\ games' = 1
  BY UnitsAssumption DEF NewGame, IInv, ControlInv
<1>2. SeenInv /\ DOMAIN pool.unit = {}
  BY <1>1 DEF GameInv, SeenInv
<1>3. known = {} /\ DOMAIN obs.units = {}
  BY <1>2 DEF SeenInv
<1>4. PICK f \in FirstUnits : \E memory \in Memory, loop \in FirstLoops :
           UpdateObservation([units |-> f, dead |-> {}], loop, memory)
  BY DEF NewGame
<1>5. PICK memory \in Memory, loop \in FirstLoops :
         UpdateObservation([units |-> f, dead |-> {}], loop, memory)
  BY <1>4
<1> DEFINE o == [units |-> f, dead |-> {}]
<1>6. IsData(o.units)
  BY FirstFacts
<1>7. loop \in 0..Unset
  BY LoopFacts DEF IInv
<1>8. /\ known' = known \cup DOMAIN obs.units /\ DOMAIN before' = DOMAIN obs.units
      /\ pc' # "issued"
  BY <1>3 DEF NewGame, NoUnits
<1> HIDE DEF o
<1>9. UpdateObservation(o, loop, memory)
  BY <1>5 DEF o
<1> QED BY <1>1, <1>2, <1>6, <1>7, <1>8, <1>9, TakeInGame

LEMMA IssueGame == ASSUME IInv, GameInv, NEW commands, IssueEvents(commands) PROVE GameInv'
<1> SUFFICES ASSUME games' <= 1 PROVE GameInv'
  BY DEF GameInv
<1>1. /\ pc \in {"first", "observed"} /\ pc' = "issued"
      /\ UNCHANGED <<store, cur, prev, obs, games, before, known, gone>>
  BY DEF IssueEvents
<1>2. SeenInv /\ Sighted
  BY <1>1 DEF GameInv
<1>3. Sighted'
  BY <1>1 DEF Sighted
<1>4. CASE cur = prev
  <2>1. pool' = pool
    BY <1>4 DEF IssueEvents
  <2>2. SeenInv'
    BY <1>1, <1>2, <2>1 DEF SeenInv
  <2>3. CreatedWhenFirstSeen' /\ EnteredWhenSighted' /\ EventsAreCurrent'
    BY <1>1, <1>4 DEF CreatedWhenFirstSeen, EnteredWhenSighted, EventsAreCurrent, Issued
  <2> QED BY <1>3, <2>2, <2>3 DEF GameInv
<1>5. CASE cur # prev
  <2> DEFINE S == DOMAIN obs.units
  <2>1. /\ events'.destroyed = Destroyed
        /\ events'.created = Filtered(pool.new, "Self") \cup VisibleIn(pool.new, "Neutral")
        /\ events'.entered = VisibleIn(pool.entering, "Enemy")
        /\ events'.created \cup events'.entered \cup events'.completed
             \cup events'.idle \cup events'.damaged \subseteq S
        /\ pool'.unit = pool.unit
    BY <1>5, EventFacts
  <2>2. SeenInv'
    BY <1>1, <1>2, <2>1 DEF SeenInv
  <2>3. /\ pool.new = At(pool, S \ known)
        /\ prev # 0 => pool.entering = At(pool, S \ DOMAIN before)
    BY <1>1, <1>2 DEF Sighted
  <2>4. /\ StoreInv(pool, store) /\ S \subseteq DOMAIN pool.unit /\ S \subseteq Tags
        /\ obs.dead \cap S = {}
    BY DEF IInv, Current, ObsInv, IsData
  <2>5. \A t \in S : store[pool.unit[t]].display = obs.units[t].display
    <3>1. \A t \in S : store[pool.unit[t]] = Filled(t, obs.units[t], cur)
      BY DEF IInv, Current
    <3>2. \A t : Filled(t, obs.units[t], cur).display = obs.units[t].display
      BY DEF Filled
    <3> QED BY <3>1, <3>2
  <2>6. CreatedWhenFirstSeen'
    <3> DEFINE W == S \ known
    <3>1. W \subseteq DOMAIN pool.unit
      BY <2>4
    <3>2. /\ Filtered(At(pool, W), "Self") = {t \in W : Alliance[t] = "Self"}
          /\ VisibleIn(At(pool, W), "Neutral") =
               {t \in W : Alliance[t] = "Neutral"
                          /\ store[pool.unit[t]].display = "Visible"}
      BY <2>4, <3>1, Named
    <3>3. events'.created = Filtered(At(pool, W), "Self") \cup VisibleIn(At(pool, W), "Neutral")
      BY <2>1, <2>3
    <3>4. \A t \in W : store[pool.unit[t]].display = obs.units[t].display
      BY <2>5
    <3> HIDE DEF W
    <3>5. events'.created =
            {t \in W :
               \/ Alliance[t] = "Self"
               \/ Alliance[t] = "Neutral" /\ obs.units[t].display = "Visible"}
      BY <3>2, <3>3, <3>4
    <3> QED BY <1>1, <3>5 DEF CreatedWhenFirstSeen, W
  <2>7. EnteredWhenSighted'
    <3> DEFINE W == S \ DOMAIN before
    <3> SUFFICES ASSUME prev # 0
                 PROVE  events'.entered =
                          {t \in W : Alliance[t] = "Enemy"
                                     /\ obs.units[t].display = "Visible"}
      BY <1>1 DEF EnteredWhenSighted
    <3>1. W \subseteq DOMAIN pool.unit
      BY <2>4
    <3>2. VisibleIn(At(pool, W), "Enemy") =
            {t \in W : Alliance[t] = "Enemy" /\ store[pool.unit[t]].display = "Visible"}
      BY <2>4, <3>1, Named
    <3> QED BY <2>1, <2>3, <2>5, <3>2
  <2>8. EventsAreCurrent'
    <3>1. events'.destroyed = obs.dead \cap known
      BY <1>2, <2>1, <2>4 DEF SeenInv, Destroyed
    <3> QED BY <1>1, <2>1, <2>4, <3>1 DEF EventsAreCurrent
  <2> QED BY <1>3, <2>2, <2>6, <2>7, <2>8 DEF GameInv
<1> QED BY <1>4, <1>5

LEMMA GameInductive == Spec => []GameInv
<1>1. IInv /\ GameInv /\ [Next]_vars => GameInv'
  <2> SUFFICES ASSUME IInv, GameInv, [Next]_vars PROVE GameInv'
    OBVIOUS
  <2>1. CASE NewGame
    BY <2>1, NewGameGame
  <2>2. CASE NextObservation
    BY <2>2, NextObservationGame
  <2>3. ASSUME NEW commands, IssueEvents(commands) PROVE GameInv'
    BY <2>3, IssueGame
  <2>4. CASE UNCHANGED vars
    BY <2>4 DEF vars, GameInv, SeenInv, Sighted, CreatedWhenFirstSeen, EnteredWhenSighted,
                EventsAreCurrent, Issued, At
  <2> QED BY <2>1, <2>2, <2>3, <2>4 DEF Next
<1> QED BY <1>1, InitGame, Inductive, PTL DEF Spec

(* In the first game of a client OnUnitCreated is called for the own units *)
(* observed for the first time, OnNeutralUnitCreated for the neutral ones  *)
(* that are in sight then, and neither for any other unit.                 *)
(* A neutral unit that is a snapshot when it is first seen is never        *)
(* announced.  MCUnitsNextGame has the second game in which this fails.    *)
THEOREM CreatedOnce == Spec => [](games <= 1 => CreatedWhenFirstSeen)
<1>1. GameInv => (games <= 1 => CreatedWhenFirstSeen)
  BY DEF GameInv
<1> QED BY <1>1, GameInductive, PTL

(* In the first game OnUnitEnterVision is called for the enemies in sight  *)
(* that the observation before did not have, unless that was of loop 0.    *)
THEOREM EnteredOnce == Spec => [](games <= 1 => EnteredWhenSighted)
<1>1. GameInv => (games <= 1 => EnteredWhenSighted)
  BY DEF GameInv
<1> QED BY <1>1, GameInductive, PTL

(* In the first game OnUnitDestroyed is called for the dead units that     *)
(* were observed, and no other callback is for one of them or for a unit   *)
(* that is not in the observation.                                         *)
THEOREM Timely == Spec => [](games <= 1 => EventsAreCurrent)
<1>1. GameInv => (games <= 1 => EventsAreCurrent)
  BY DEF GameInv
<1> QED BY <1>1, GameInductive, PTL
===============================================================================
