------------------------ MODULE ReplayCoordinatorProofs ------------------------
(***************************************************************************)
(* The invariants of ReplayCoordinator, for any number of observers,       *)
(* replays, loops and faults.                                              *)
(***************************************************************************)
EXTENDS ReplayCoordinator, TLAPS

Idle == {"launched", "ended"}
Normal(b) == b.app = "normal"

(***************************************************************************)
(* The inductive invariant                                                 *)
(***************************************************************************)

(* A client, wherever its observer is: failures are on record; the only    *)
(* response that is not waited for at once is the one to start_replay,     *)
(* which an idle client asks for; and how far what the client has seen of  *)
(* SC2 may be behind.                                                      *)
Recorded(b) ==
  /\ b.app = "failed" => "SC2AppFailure" \in b.errs
  /\ b.conn = "closed" => "ConnectionClosed" \in b.errs

Awaits(b) ==
  /\ b.reply # "none" => b.pending = "load"
  /\ Normal(b) => b.pending \in {"none", "load"}
  /\ Normal(b) /\ b.pending = "load" => b.last \in Idle

Knows(b) ==
  /\ Normal(b) /\ b.status = "replay" => b.last = "replay" \/ b.reply = "loaded"
  /\ Normal(b) /\ b.last = "replay"
       => b.status # "launched" /\ (b.status = "ended" => b.loop >= 2)
  /\ ~Realtime /\ Normal(b) /\ b.pending = "none" /\ b.last # "unknown"
       => b.last = b.status

Counts(b) ==
  /\ b.status = "replay" => b.loop \in 1..MaxLoops
  /\ b.game = "on" => b.loop >= 1
  /\ b.reply = "loaded" => b.status # "launched" /\ b.loop >= 1
  /\ b.reply = "loaded" /\ (~Realtime \/ b.cur # 1)
       => b.status = "replay" /\ b.loop = 1

Sound(b) == Recorded(b) /\ Awaits(b) /\ Knows(b) /\ Counts(b)

(* A client whose observer is at p in run_replay.                          *)
InPlace(b, p) ==
  /\ p \in {"start", "done"} /\ Normal(b) => (b.game = "on" <=> b.last = "replay")
  /\ p = "load" => Normal(b) /\ b.pending = "load" /\ b.game # "on"
  /\ p = "first" => /\ Normal(b) /\ b.pending = "none" /\ b.game # "on"
                    /\ b.last = "replay" /\ b.status = "replay"
                    /\ b.loop = 1 /\ (Realtime => b.cur # 1)
  /\ p \in {"step", "observe"} =>
       /\ Normal(b) /\ b.pending = "none" /\ b.game = "on"
       /\ b.last = "replay" \/ (p = "observe" /\ ~Realtime /\ b.last = "ended")
  /\ p = "step" => ~Realtime
  /\ p = "callbacks" => b.game = "on" /\ (Normal(b) => b.pending = "none")

(* In real time a client may leave a game without having observed its      *)
(* second loop only when its observation has failed; no Update follows     *)
(* then, in which the loop it knows of could pass for one of a new replay. *)
Stale(b) == Realtime /\ Normal(b) /\ b.last \in Idle /\ b.cur = 1

StaleInv ==
  \A r \in Observers : Stale(ob[r]) =>
    /\ ob[r].errs # {} /\ at[r] \in {"callbacks", "done"}
    /\ ~(phase = "user" /\ result)

ClientsInv == \A r \in Observers : Sound(ob[r]) /\ InPlace(ob[r], at[r])

(* A client that has only been launched.                                   *)
Fresh(b) ==
  /\ Normal(b) /\ b.pending = "none" /\ b.reply = "none" /\ b.errs = {}
  /\ b.status = "launched" /\ b.last \in {"unknown", "launched"}
  /\ b.cur = Unset /\ b.game = "none"

Loading == {"loading", "taking", "taken"}

ControlInv ==
  /\ phase \notin {"stepping", "fault"} => \A r \in Observers : at[r] \in {"start", "done"}
  /\ phase # "user" => result
  /\ ~started => phase \in {"user", "starting", "checking"} \cup Loading
  /\ ~started /\ phase \notin Loading => \A r \in Observers : Fresh(ob[r])
  /\ started \/ phase \in Loading =>
       \A r \in Observers : Normal(ob[r]) => ob[r].last # "unknown"
  /\ phase \in {"taking", "taken"} =>
       /\ files > 0
       /\ Normal(ob[turn]) => ob[turn].pending = "none" /\ ob[turn].last \in Idle

IInv == TypeOK /\ ClientsInv /\ StaleInv /\ ControlInv

-----------------------------------------------------------------------------
(* Without a fault nothing fails, and what a replay asks for is answered.  *)
Calm(b) ==
  /\ b.conn = "up" /\ Normal(b)
  /\ MultiThreaded => "ResponseNotConsumed" \notin b.errs

CalmInv == faults = 0 => \A r \in Observers : Calm(ob[r])

(* A replay of the list was not sent yet.                                  *)
LoadsInv ==
  \A f \in Replays : loads[f] <= 1 /\ (f <= files => loads[f] = 0)

(* The callbacks of an observer that is at p, when they are called on its  *)
(* thread; without an error OnStep was last called for the loop the client *)
(* knows of, or not at all in this game.                                   *)
InOrder(b) ==
  /\ b.odd \cap {"no end", "end outside", "step outside"} = {}
  /\ "step again" \in b.odd => b.errs # {}

SeenAt(b, p) ==
  b.errs = {} /\ b.game = "on" =>
    /\ b.cur >= 1
    /\ b.seen \in {0, IF p = "callbacks" THEN b.prev ELSE b.cur}

Ordered(b, p) == InOrder(b) /\ SeenAt(b, p)

CallbacksInv ==
  MultiThreaded => \A r \in Observers : Ordered(ob[r], at[r])

(* A replay that was taken from the list and has not got its turn is with  *)
(* an observer.                                                            *)
FateInv ==
  \A f \in Replays :
    /\ f > files => fate[f] # "listed"
    /\ NoErrors =>
         /\ fate[f] # "unanswered"
         /\ fate[f] = "loading" =>
              \E r \in Observers : ob[r].file = f /\ ob[r].pending = "load"
         /\ fate[f] = "playing" =>
              \E r \in Observers :
                ob[r].file = f /\ (at[r] = "first" \/ ob[r].game = "on")

(* An observer that StartReplay has passed has nothing to do only when     *)
(* there is no replay left, or after an error.                             *)
Covered(r) ==
  \/ files = 0 \/ ob[r].errs # {} \/ IsInGame(ob[r]) \/ ob[r].pending # "none"

CoverInv ==
  /\ phase \in Loading => \A r \in Observers : r < turn => Covered(r)
  /\ phase = "checking" => \E r \in Observers : Covered(r)
  /\ phase = "user" /\ ~result /\ NoErrors => files = 0 /\ AllGamesEnded

-----------------------------------------------------------------------------
USE DEF Normal, Idle

(***************************************************************************)
(* What the operations of a client return                                  *)
(***************************************************************************)
Kinds == {"none", "info", "load", "step", "action", "observation"}

(* What a request and the wait for its answer leave alone.                 *)
Kept(a, b) ==
  /\ a.status = b.status /\ a.loop = b.loop /\ a.cur = b.cur /\ a.prev = b.prev
  /\ a.file = b.file /\ a.game = b.game /\ a.seen = b.seen /\ a.odd = b.odd

LEMMA ConstantFacts ==
  /\ NumObservers \in Nat /\ NumObservers >= 1 /\ NumReplays \in Nat
  /\ MaxLoops \in Nat /\ MaxLoops >= 1 /\ MaxFaults \in Nat
  /\ Unset = MaxLoops + 2 /\ Unset \in Nat
BY ReplaysAssumption DEF Unset

LEMMA GotFacts ==
  ASSUME NEW b \in Clients, NEW bad \in BOOLEAN
  PROVE  LET g == Got(b, bad) IN
           /\ g \in Clients /\ Kept(g, b)
           /\ g.pending = "none" /\ g.last = b.status /\ g.app = b.app
           /\ g.conn = b.conn /\ g.reply = "none"
           /\ g.errs = IF bad THEN b.errs \cup {"SC2ProtocolError"} ELSE b.errs
<1> DEFINE e == IF bad THEN b.errs \cup {"SC2ProtocolError"} ELSE b.errs
           g == [b EXCEPT !.pending = "none", !.last = b.status,
                          !.reply = "none", !.errs = e]
<1>1. e \in SUBSET Errors
  BY DEF Clients, Errors
<1>2. Got(b, bad) = g
  BY DEF Got
<1> HIDE DEF e
<1>3. g \in Clients
  BY <1>1 DEF Clients
<1>4. /\ g.pending = "none" /\ g.last = b.status /\ g.app = b.app
      /\ g.conn = b.conn /\ g.reply = "none" /\ g.errs = e
  BY DEF Clients
<1>5. Kept(g, b)
  BY DEF Kept, Clients
<1> HIDE DEF g
<1> QED BY <1>2, <1>3, <1>4, <1>5 DEF e

LEMMA AbandonedFacts ==
  ASSUME NEW b \in Clients
  PROVE  LET g == Abandoned(b) IN
           /\ g \in Clients /\ Kept(g, b)
           /\ g.pending = b.pending /\ g.last = "unknown" /\ g.app = "failed"
           /\ g.conn = b.conn /\ g.reply = b.reply
           /\ g.errs = b.errs \cup {"SC2AppFailure"}
<1>1. b.errs \cup {"SC2AppFailure"} \in SUBSET Errors
  BY DEF Clients, Errors
<1>2. Abandoned(b) \in Clients
  BY <1>1 DEF Abandoned, Clients
<1> QED BY <1>2 DEF Abandoned, Kept, Clients

(* A request that is refused leaves an error, one to a hung SC2 a client   *)
(* that has failed, and one that is answered no other request pending.     *)
LEMMA AskedFacts ==
  ASSUME NEW b \in Clients, NEW k \in Kinds
  PROVE  LET a == Asked(b, k) IN
           /\ a \in Clients /\ Kept(a, b)
           /\ b.conn = "closed" => a = b
           /\ b.conn # "closed" /\ b.pending # "none" =>
                /\ a.errs = b.errs \cup {"ResponseNotConsumed"}
                /\ a.pending = b.pending /\ a.last = b.last /\ a.app = b.app
                /\ a.conn = b.conn /\ a.reply = b.reply
           /\ CanSend(b) /\ b.conn \in {"up", "upset"} =>
                /\ a.pending = "none" /\ a.last = b.status /\ a.app = b.app
                /\ a.conn = "up" /\ a.reply = "none"
                /\ a.errs = IF b.conn = "upset" THEN b.errs \cup {"SC2ProtocolError"}
                            ELSE b.errs
           /\ CanSend(b) /\ b.conn = "hung" =>
                /\ a.pending = k /\ a.last = "unknown" /\ a.app = "failed"
                /\ a.conn = "hung" /\ a.reply = b.reply
                /\ a.errs = b.errs \cup {"SC2AppFailure"}
<1> USE DEF CanSend
<1>1. b.conn \in {"up", "upset", "hung", "closed"}
  BY DEF Clients
<1>2. CASE b.conn = "closed"
  BY <1>2 DEF Asked, Kept
<1>3. CASE b.conn # "closed" /\ b.pending # "none"
  <2>1. Asked(b, k) = [b EXCEPT !.errs = @ \cup {"ResponseNotConsumed"}]
    BY <1>3 DEF Asked
  <2>2. b.errs \cup {"ResponseNotConsumed"} \in SUBSET Errors
    BY DEF Clients, Errors
  <2>3. [b EXCEPT !.errs = @ \cup {"ResponseNotConsumed"}] \in Clients
    BY <2>2 DEF Clients
  <2>4. LET a == [b EXCEPT !.errs = @ \cup {"ResponseNotConsumed"}] IN
          /\ a.errs = b.errs \cup {"ResponseNotConsumed"}
          /\ a.pending = b.pending /\ a.last = b.last /\ a.app = b.app
          /\ a.conn = b.conn /\ a.reply = b.reply /\ Kept(a, b)
    BY DEF Kept, Clients
  <2> QED BY <1>3, <2>1, <2>3, <2>4
<1>4. CASE CanSend(b) /\ b.conn = "up"
  <2>1. Asked(b, k) = Got(b, FALSE)
    BY <1>4 DEF Asked
  <2> QED BY <1>4, <2>1, GotFacts
<1>5. CASE CanSend(b) /\ b.conn = "upset"
  <2> DEFINE u == [b EXCEPT !.conn = "up"]
  <2>1. Asked(b, k) = Got(u, TRUE)
    BY <1>5 DEF Asked
  <2>2. u \in Clients /\ Kept(u, b) /\ u.errs = b.errs /\ u.app = b.app /\ u.conn = "up"
    BY DEF Clients, Kept
  <2> HIDE DEF u
  <2>3. /\ Got(u, TRUE) \in Clients /\ Kept(Got(u, TRUE), u)
        /\ Got(u, TRUE).pending = "none" /\ Got(u, TRUE).last = u.status
        /\ Got(u, TRUE).app = u.app /\ Got(u, TRUE).conn = u.conn
        /\ Got(u, TRUE).reply = "none"
        /\ Got(u, TRUE).errs = u.errs \cup {"SC2ProtocolError"}
    BY <2>2, GotFacts
  <2> QED BY <1>5, <2>1, <2>2, <2>3 DEF Kept
<1>6. CASE CanSend(b) /\ b.conn = "hung"
  <2> DEFINE u == [b EXCEPT !.pending = k]
  <2>1. Asked(b, k) = Abandoned(u)
    BY <1>6 DEF Asked
  <2>2. /\ u \in Clients /\ Kept(u, b) /\ u.errs = b.errs /\ u.pending = k
        /\ u.conn = b.conn /\ u.reply = b.reply
    BY DEF Clients, Kept, Kinds
  <2> HIDE DEF u
  <2> DEFINE a == Abandoned(u)
  <2>3. /\ a \in Clients /\ Kept(a, u)
        /\ a.pending = u.pending /\ a.last = "unknown" /\ a.app = "failed"
        /\ a.conn = u.conn /\ a.reply = u.reply
        /\ a.errs = u.errs \cup {"SC2AppFailure"}
    BY <2>2, AbandonedFacts
  <2> QED BY <1>6, <2>1, <2>2, <2>3 DEF Kept
<1> QED BY <1>1, <1>2, <1>3, <1>4, <1>5, <1>6

LEMMA ObservedFacts ==
  ASSUME NEW b \in Clients
  PROVE  LET a == Asked(b, "observation")
             o == Observed(b)
             up == CanSend(b) /\ b.conn = "up"
         IN /\ o \in Clients
            /\ o.pending = a.pending /\ o.last = a.last /\ o.app = a.app
            /\ o.conn = a.conn /\ o.reply = a.reply /\ o.errs = a.errs
            /\ o.status = b.status /\ o.loop = b.loop /\ o.file = b.file
            /\ o.game = b.game /\ o.seen = b.seen /\ o.odd = b.odd
            /\ o.prev = IF up THEN b.cur ELSE b.prev
            /\ o.cur = IF up THEN b.loop ELSE b.cur
<1> DEFINE a == Asked(b, "observation")
<1>1. a \in Clients /\ Kept(a, b)
  BY AskedFacts DEF Kinds
<1>2. b.cur \in 0..Unset /\ b.loop \in 0..Unset
  <2>1. b.loop \in 0..MaxLoops + 1 /\ b.cur \in 0..Unset
    BY DEF Clients
  <2> QED BY <2>1, ConstantFacts
<1> HIDE DEF a
<1>3. [a EXCEPT !.prev = b.cur, !.cur = b.loop] \in Clients
  BY <1>1, <1>2 DEF Clients
<1>4. Observed(b) = IF CanSend(b) /\ b.conn = "up"
                      THEN [a EXCEPT !.prev = b.cur, !.cur = b.loop] ELSE a
  BY DEF Observed, a
<1> DEFINE o == [a EXCEPT !.prev = b.cur, !.cur = b.loop]
<1>5. /\ o.pending = a.pending /\ o.last = a.last /\ o.app = a.app
      /\ o.conn = a.conn /\ o.reply = a.reply /\ o.errs = a.errs
      /\ o.status = a.status /\ o.loop = a.loop /\ o.file = a.file
      /\ o.game = a.game /\ o.seen = a.seen /\ o.odd = a.odd
      /\ o.prev = b.cur /\ o.cur = b.loop
  BY <1>1 DEF Clients
<1>6. CASE CanSend(b) /\ b.conn = "up"
  <2>1. Observed(b) = o /\ o \in Clients
    BY <1>3, <1>4, <1>6
  <2> HIDE DEF o
  <2> QED BY <1>1, <1>5, <1>6, <2>1 DEF Kept, a
<1>7. CASE ~(CanSend(b) /\ b.conn = "up")
  <2>1. Observed(b) = a
    BY <1>4, <1>7
  <2> QED BY <1>1, <1>7, <2>1 DEF Kept, a
<1> QED BY <1>6, <1>7

Odd == {"no end", "end outside", "step again", "step outside"}

LEMMA OddFacts ==
  ASSUME NEW b \in Clients, NEW n \in SUBSET Odd
  PROVE  /\ [b EXCEPT !.game = "on", !.seen = 0, !.odd = n] \in Clients
         /\ [b EXCEPT !.game = "over", !.odd = n] \in Clients
         /\ [b EXCEPT !.seen = b.cur, !.odd = n] \in Clients
<1>1. 0 \in 0..Unset
  BY ConstantFacts
<1>2. b.cur \in 0..Unset
  BY DEF Clients
<1>3. [b EXCEPT !.seen = b.cur, !.odd = n] \in Clients
  BY <1>2 DEF Clients, Odd
<1>4. /\ [b EXCEPT !.game = "on", !.seen = 0, !.odd = n] \in Clients
      /\ [b EXCEPT !.game = "over", !.odd = n] \in Clients
  BY <1>1, ZenonT(30) DEF Clients, Odd
<1> QED BY <1>3, <1>4

LEMMA GameStartsFacts ==
  ASSUME NEW b \in Clients
  PROVE  LET g == GameStarts(b) IN
           /\ g \in Clients
           /\ g.pending = b.pending /\ g.last = b.last /\ g.app = b.app
           /\ g.conn = b.conn /\ g.reply = b.reply /\ g.errs = b.errs
           /\ g.status = b.status /\ g.loop = b.loop /\ g.file = b.file
           /\ g.cur = b.cur /\ g.prev = b.prev
           /\ g.game = "on" /\ g.seen = 0
           /\ g.odd = IF b.game = "on" THEN b.odd \cup {"no end"} ELSE b.odd
<1> DEFINE n == IF b.game = "on" THEN b.odd \cup {"no end"} ELSE b.odd
           g == [b EXCEPT !.game = "on", !.seen = 0, !.odd = n]
<1>2. n \in SUBSET Odd
  BY DEF Clients, Odd
<1>3. GameStarts(b) = g
  BY DEF GameStarts
<1> HIDE DEF n
<1>4. g \in Clients
  BY <1>2, OddFacts
<1>5. /\ g.pending = b.pending /\ g.last = b.last /\ g.app = b.app
      /\ g.conn = b.conn /\ g.reply = b.reply /\ g.errs = b.errs
      /\ g.status = b.status /\ g.loop = b.loop /\ g.file = b.file
      /\ g.cur = b.cur /\ g.prev = b.prev
      /\ g.game = "on" /\ g.seen = 0 /\ g.odd = n
  BY DEF Clients
<1> HIDE DEF g
<1> QED BY <1>3, <1>4, <1>5 DEF n

(* What is the same when only callbacks were called.                       *)
Called(a, b) ==
  /\ a.pending = b.pending /\ a.last = b.last /\ a.app = b.app
  /\ a.conn = b.conn /\ a.reply = b.reply /\ a.errs = b.errs
  /\ a.status = b.status /\ a.loop = b.loop /\ a.file = b.file
  /\ a.cur = b.cur /\ a.prev = b.prev

LEMMA GameEndsFacts ==
  ASSUME NEW b \in Clients
  PROVE  LET g == GameEnds(b) IN
           /\ g \in Clients /\ Called(g, b)
           /\ g.game = "over" /\ g.seen = b.seen
           /\ g.odd = IF b.game # "on" THEN b.odd \cup {"end outside"} ELSE b.odd
<1> DEFINE n == IF b.game # "on" THEN b.odd \cup {"end outside"} ELSE b.odd
           g == [b EXCEPT !.game = "over", !.odd = n]
<1>1. n \in SUBSET Odd
  BY DEF Clients, Odd
<1>2. GameEnds(b) = g
  BY DEF GameEnds
<1> HIDE DEF n
<1>3. g \in Clients
  BY <1>1, OddFacts
<1>4. Called(g, b) /\ g.game = "over" /\ g.seen = b.seen /\ g.odd = n
  BY DEF Called, Clients
<1> HIDE DEF g
<1> QED BY <1>2, <1>3, <1>4 DEF n

LEMMA IssuedFacts ==
  ASSUME NEW b \in Clients
  PROVE  LET g == Issued(b) IN
           /\ g \in Clients /\ Called(g, b) /\ g.game = b.game
           /\ b.cur = b.prev => g = b
           /\ b.cur # b.prev =>
                /\ g.seen = b.cur
                /\ g.odd = b.odd \cup (IF b.cur = b.seen THEN {"step again"} ELSE {})
                             \cup (IF b.game # "on" THEN {"step outside"} ELSE {})
<1> DEFINE n == b.odd \cup (IF b.cur = b.seen THEN {"step again"} ELSE {})
                      \cup (IF b.game # "on" THEN {"step outside"} ELSE {})
           g == [b EXCEPT !.seen = b.cur, !.odd = n]
<1>1. n \in SUBSET Odd
  BY DEF Clients, Odd
<1> HIDE DEF n
<1>2. g \in Clients
  BY <1>1, OddFacts
<1>3. g \in Clients /\ Called(g, b) /\ g.game = b.game /\ g.seen = b.cur /\ g.odd = n
  BY <1>2 DEF Clients, Called
<1>4. Issued(b) = IF b.cur = b.prev THEN b ELSE g
  BY DEF Issued, n
<1> HIDE DEF g
<1> QED BY <1>3, <1>4 DEF Called, n

-----------------------------------------------------------------------------
(***************************************************************************)
(* What the operations of a client preserve                                *)
(***************************************************************************)
LEMMA AskedMonotone ==
  ASSUME NEW b \in Clients, NEW k \in Kinds
  PROVE  b.errs \subseteq Asked(b, k).errs
<1> DEFINE a == Asked(b, k)
<1>1. b.conn \in {"up", "upset", "hung", "closed"}
  BY DEF Clients
<1>2. CASE b.conn = "closed"
  BY <1>2, AskedFacts
<1>3. CASE b.conn # "closed" /\ b.pending # "none"
  <2>1. a.errs = b.errs \cup {"ResponseNotConsumed"}
    BY <1>3, AskedFacts
  <2> QED BY <2>1
<1>4. CASE CanSend(b) /\ b.conn \in {"up", "upset"}
  <2>1. a.errs = IF b.conn = "upset" THEN b.errs \cup {"SC2ProtocolError"} ELSE b.errs
    BY <1>4, AskedFacts
  <2> QED BY <2>1
<1>5. CASE CanSend(b) /\ b.conn = "hung"
  <2>1. a.errs = b.errs \cup {"SC2AppFailure"}
    BY <1>5, AskedFacts
  <2> QED BY <2>1
<1> QED BY <1>1, <1>2, <1>3, <1>4, <1>5 DEF CanSend

LEMMA AskedSound ==
  ASSUME NEW b \in Clients, NEW k \in Kinds, Sound(b)
  PROVE  Sound(Asked(b, k))
<1> DEFINE a == Asked(b, k)
<1>1. b.conn \in {"up", "upset", "hung", "closed"} /\ b.status \in {"launched", "replay", "ended"}
  BY DEF Clients
<1>2. CASE b.conn = "closed"
  BY <1>2, AskedFacts
<1>3. CASE b.conn # "closed" /\ b.pending # "none"
  <2>1. /\ Kept(a, b) /\ b.errs \subseteq a.errs
        /\ a.pending = b.pending /\ a.last = b.last /\ a.app = b.app
        /\ a.conn = b.conn /\ a.reply = b.reply
    BY <1>3, AskedFacts
  <2> HIDE DEF a
  <2>5. Recorded(a)
    BY <2>1 DEF Sound, Recorded, Kept
  <2>6. Awaits(a)
    BY <2>1 DEF Sound, Awaits, Kept
  <2>7. Knows(a)
    BY <2>1 DEF Sound, Knows, Kept
  <2>8. Counts(a)
    BY <2>1 DEF Sound, Counts, Kept
  <2> QED BY <2>5, <2>6, <2>7, <2>8 DEF Sound, a
<1>4. CASE CanSend(b) /\ b.conn \in {"up", "upset"}
  <2>1. /\ Kept(a, b) /\ b.errs \subseteq a.errs
        /\ a.pending = "none" /\ a.last = b.status /\ a.app = b.app
        /\ a.conn = "up" /\ a.reply = "none"
    BY <1>4, AskedFacts
  <2> HIDE DEF a
  <2>2. b.pending = "none" /\ b.reply = "none"
    BY <1>4 DEF CanSend, Sound, Awaits
  <2>5. Recorded(a)
    BY <1>1, <2>1, <2>2 DEF Sound, Recorded, Kept
  <2>6. Awaits(a)
    BY <1>1, <2>1, <2>2 DEF Sound, Awaits, Kept
  <2>7. Knows(a)
    BY <1>1, <2>1, <2>2 DEF Sound, Knows, Kept
  <2>8. Counts(a)
    BY <1>1, <2>1, <2>2 DEF Sound, Counts, Kept
  <2> QED BY <2>5, <2>6, <2>7, <2>8 DEF Sound, a
<1>5. CASE CanSend(b) /\ b.conn = "hung"
  <2>0. /\ Kept(a, b) /\ a.app = "failed" /\ a.last = "unknown"
        /\ a.conn = "hung" /\ a.reply = b.reply
        /\ a.errs = b.errs \cup {"SC2AppFailure"}
    BY <1>5, AskedFacts
  <2>1. /\ Kept(a, b) /\ a.app = "failed" /\ a.last = "unknown"
        /\ a.conn = "hung" /\ a.reply = b.reply /\ "SC2AppFailure" \in a.errs
    BY <2>0
  <2> HIDE DEF a
  <2>2. b.pending = "none" /\ b.reply = "none"
    BY <1>5 DEF CanSend, Sound, Awaits
  <2>5. Recorded(a)
    BY <2>1, <2>2 DEF Sound, Recorded, Kept
  <2>6. Awaits(a)
    BY <2>1, <2>2 DEF Sound, Awaits, Kept
  <2>7. Knows(a)
    BY <2>1, <2>2 DEF Sound, Knows, Kept
  <2>8. Counts(a)
    BY <2>1, <2>2 DEF Sound, Counts, Kept
  <2> QED BY <2>5, <2>6, <2>7, <2>8 DEF Sound, a
<1> QED BY <1>1, <1>2, <1>3, <1>4, <1>5 DEF CanSend

(* A request of the coordinator's own thread: what SC2 is at is no news to *)
(* a client that steps its game, or has none.                              *)
LEMMA AskedDone ==
  ASSUME NEW b \in Clients, NEW k \in Kinds, Sound(b),
         NEW p \in {"start", "done"}, InPlace(b, p),
         Normal(b) => b.last # "unknown",
         Realtime /\ Normal(b) => b.last \in Idle
  PROVE  LET a == Asked(b, k) IN
           /\ InPlace(a, p)
           /\ Normal(a) => a.last # "unknown"
           /\ Normal(b) /\ b.last \in Idle /\ Normal(a) => a.last \in Idle
           /\ Stale(a) => Stale(b)
           /\ b.errs \subseteq a.errs
<1> DEFINE a == Asked(b, k)
<1>1. b.conn \in {"up", "upset", "hung", "closed"} /\ b.status \in {"launched", "replay", "ended"}
      /\ b.last \in {"unknown", "launched", "replay", "ended"}
  BY DEF Clients
<1>2. CASE b.conn = "closed"
  BY <1>2, AskedFacts
<1>3. CASE b.conn # "closed" /\ b.pending # "none"
  <2>1. /\ Kept(a, b) /\ b.errs \subseteq a.errs
        /\ a.pending = b.pending /\ a.last = b.last /\ a.app = b.app
    BY <1>3, AskedFacts
  <2> HIDE DEF a
  <2> QED BY <2>1 DEF InPlace, Stale, Kept, a
<1>4. CASE CanSend(b) /\ b.conn \in {"up", "upset"}
  <2>1. /\ Kept(a, b) /\ b.errs \subseteq a.errs
        /\ a.pending = "none" /\ a.last = b.status /\ a.app = b.app
    BY <1>4, AskedFacts
  <2> HIDE DEF a
  <2>2. b.pending = "none" /\ b.reply = "none"
    BY <1>4 DEF CanSend, Sound, Awaits
  <2>3. Normal(b) => (b.status = "replay" <=> b.last = "replay")
    BY <1>1, <2>2 DEF Sound, Knows
  <2>4. Stale(a) => Stale(b)
    BY <1>1, <2>1, <2>3 DEF Stale, Kept
  <2> QED BY <1>1, <2>1, <2>3, <2>4 DEF InPlace, Kept, a
<1>5. CASE CanSend(b) /\ b.conn = "hung"
  <2>0. a.app = "failed" /\ a.errs = b.errs \cup {"SC2AppFailure"}
    BY <1>5, AskedFacts
  <2>1. a.app = "failed" /\ b.errs \subseteq a.errs
    BY <2>0
  <2> HIDE DEF a
  <2> QED BY <2>1 DEF InPlace, Stale, a
<1> QED BY <1>1, <1>2, <1>3, <1>4, <1>5 DEF CanSend

LEMMA CalledSound ==
  ASSUME NEW b, NEW a, Sound(b), Called(a, b),
         a.game = "on" => b.game = "on" \/ b.loop >= 1
  PROVE  Sound(a)
BY DEF Sound, Recorded, Awaits, Knows, Counts, Called

(* IssueEvents and SendActions.                                            *)
LEMMA SteppedFacts ==
  ASSUME NEW b \in Clients, NEW acts \in BOOLEAN, Sound(b)
  PROVE  LET s == Stepped(b, acts) IN
           /\ s \in Clients /\ Sound(s) /\ s.game = b.game /\ s.cur = b.cur
           /\ b.errs \subseteq s.errs /\ s.odd = Issued(b).odd
           /\ s.seen = Issued(b).seen /\ s.file = b.file
           /\ Realtime \/ ~acts => s = Issued(b)
<1> DEFINE i == Issued(b)
<1>1. i \in Clients /\ Called(i, b) /\ i.game = b.game
  BY IssuedFacts
<1>2. Sound(i)
  BY <1>1, CalledSound
<1>3. CASE Realtime \/ ~acts
  BY <1>1, <1>2, <1>3 DEF Stepped, Called
<1>4. CASE acts /\ ~Realtime
  <2> DEFINE a == Asked(i, "action")
  <2>1. Stepped(b, acts) = a
    BY <1>4 DEF Stepped
  <2>2. "action" \in Kinds /\ i.conn \in {"up", "upset", "hung", "closed"}
    BY <1>1 DEF Kinds, Clients
  <2> HIDE DEF i
  <2>3. Sound(a)
    BY <1>1, <1>2, <2>2, AskedSound
  <2>4. a \in Clients /\ Kept(a, i)
    BY <1>1, <2>2, AskedFacts
  <2>5. i.errs \subseteq a.errs
    BY <1>1, <2>2, AskedMonotone
  <2> HIDE DEF a
  <2> QED BY <1>1, <1>4, <2>1, <2>3, <2>4, <2>5 DEF Kept, Called, i
<1> QED BY <1>3, <1>4

-----------------------------------------------------------------------------
(***************************************************************************)
(* run_replay, from one place to the next                                  *)
(***************************************************************************)
LEMMA ObservedSound ==
  ASSUME NEW b \in Clients, Sound(b), b.pending = "none"
  PROVE  Sound(Observed(b))
<1> DEFINE a == Asked(b, "observation")
           o == Observed(b)
<1>1. Sound(a) /\ Kept(a, b)
  BY AskedSound, AskedFacts DEF Kinds
<1>2. /\ o.pending = a.pending /\ o.last = a.last /\ o.app = a.app
      /\ o.conn = a.conn /\ o.reply = a.reply /\ o.errs = a.errs
      /\ o.status = b.status /\ o.loop = b.loop /\ o.game = b.game
  BY ObservedFacts
<1>3. a.reply # "loaded"
  <2>1. b.reply = "none" /\ b.conn \in {"up", "upset", "hung", "closed"}
    BY DEF Sound, Awaits, Clients
  <2> QED BY <2>1, AskedFacts DEF Kinds, CanSend
<1> HIDE DEF a, o
<1>4. Recorded(o) /\ Awaits(o)
  BY <1>1, <1>2 DEF Sound, Recorded, Awaits
<1>5. Knows(o) /\ Counts(o)
  BY <1>1, <1>2, <1>3 DEF Sound, Knows, Counts, Kept
<1> QED BY <1>4, <1>5 DEF Sound, o

LEMMA FirstObservationPlace ==
  ASSUME NEW b \in Clients, Sound(b), InPlace(b, "first"), ~ObservationFaults(b)
  PROVE  LET g == GameStarts(Observed(b)) IN
           /\ g \in Clients /\ Sound(g) /\ InPlace(g, Steps(g))
           /\ Steps(g) = StepFor(g) /\ g.last = "replay"
<1> DEFINE a == Asked(b, "observation")
           o == Observed(b)
           g == GameStarts(o)
<1>1. /\ Normal(b) /\ b.pending = "none" /\ b.game # "on" /\ b.loop = 1
      /\ b.last = "replay" /\ b.status = "replay"
  BY DEF InPlace
<1>2. b.conn \in {"up", "upset", "closed"}
  BY <1>1 DEF ObservationFaults, CanSend, Clients
<1>3. a.pending = "none" /\ a.last = "replay" /\ a.app = "normal"
  BY <1>1, <1>2, AskedFacts DEF CanSend, Kinds
<1>4. /\ o \in Clients /\ Sound(o) /\ o.loop = 1
      /\ o.pending = "none" /\ o.last = "replay" /\ o.app = "normal"
  BY <1>1, <1>3, ObservedFacts, ObservedSound
<1> HIDE DEF a, o
<1>5. g \in Clients /\ Called(g, o) /\ g.game = "on"
  BY <1>4, GameStartsFacts DEF Called
<1>6. Sound(g)
  BY <1>4, <1>5, CalledSound
<1>7. Normal(g) /\ g.pending = "none" /\ g.last = "replay"
  BY <1>4, <1>5 DEF Called
<1> HIDE DEF g
<1>8. Steps(g) = StepFor(g)
  BY <1>7 DEF Steps, IsInGame
<1>9. InPlace(g, Steps(g))
  BY <1>5, <1>7, <1>8 DEF InPlace, StepFor
<1> QED BY <1>5, <1>6, <1>7, <1>8, <1>9 DEF g, o

LEMMA ObservePlace ==
  ASSUME NEW b \in Clients, Sound(b), InPlace(b, "observe"), ~ObservationFaults(b)
  PROVE  LET o == Observed(b) IN
           /\ o \in Clients /\ Sound(o) /\ InPlace(o, "callbacks")
           /\ Normal(o) => o.last # "unknown"
           /\ Stale(o) => o.errs # {}
<1> DEFINE a == Asked(b, "observation")
           o == Observed(b)
<1>1. /\ Normal(b) /\ b.pending = "none" /\ b.game = "on"
      /\ b.last = "replay" \/ (~Realtime /\ b.last = "ended")
  BY DEF InPlace
<1>2. b.conn \in {"up", "upset", "closed"} /\ b.status \in {"launched", "replay", "ended"}
  BY <1>1 DEF ObservationFaults, CanSend, Clients
<1>3. o \in Clients /\ Sound(o) /\ o.game = "on"
  BY <1>1, ObservedFacts, ObservedSound
<1>4. a.pending = "none" /\ a.app = "normal" /\ a.last \in {b.last, b.status}
  BY <1>1, <1>2, AskedFacts DEF CanSend, Kinds
<1>5. o.pending = "none" /\ o.app = "normal" /\ o.last \in {b.last, b.status}
  BY <1>4, ObservedFacts
<1>6. CASE b.conn = "up"
  <2>1. a.last = b.status
    BY <1>1, <1>6, AskedFacts DEF CanSend, Kinds
  <2>2. o.last = b.status /\ o.cur = b.loop
    BY <1>1, <1>6, <2>1, ObservedFacts DEF CanSend
  <2>3. Realtime => b.status # "launched" /\ (b.status = "ended" => b.loop >= 2)
    BY <1>1 DEF Sound, Knows
  <2>4. ~Stale(o)
    BY <2>2, <2>3 DEF Stale
  <2> QED BY <1>1, <1>2, <1>3, <1>5, <2>4 DEF InPlace
<1>7. CASE b.conn = "upset"
  <2>1. a.errs = b.errs \cup {"SC2ProtocolError"}
    BY <1>1, <1>7, AskedFacts DEF CanSend, Kinds
  <2>2. o.errs = b.errs \cup {"SC2ProtocolError"}
    BY <2>1, ObservedFacts
  <2>3. o.errs # {}
    BY <2>2
  <2> QED BY <1>1, <1>2, <1>3, <1>5, <2>3 DEF InPlace
<1>8. CASE b.conn = "closed"
  <2>1. a.errs = b.errs
    BY <1>8, AskedFacts DEF Kinds
  <2>2. o.errs # {}
    BY <1>8, <2>1, ObservedFacts DEF Sound, Recorded
  <2> QED BY <1>1, <1>2, <1>3, <1>5, <2>2 DEF InPlace
<1> QED BY <1>2, <1>6, <1>7, <1>8

(* A step that SC2 does not answer.                                        *)
LEMMA StepFailsPlace ==
  ASSUME NEW b \in Clients, Sound(b), InPlace(b, "step"),
         b.conn \in {"hung", "closed"}
  PROVE  LET a == Abandoned([b EXCEPT !.pending =
                      IF CanSend(b) THEN "step" ELSE b.pending])
         IN  /\ a \in Clients /\ Sound(a) /\ InPlace(a, "callbacks")
             /\ a.app = "failed" /\ a.errs # {}
<1> DEFINE k == IF CanSend(b) THEN "step" ELSE b.pending
           u == [b EXCEPT !.pending = k]
           a == Abandoned(u)
<1>1. /\ Normal(b) /\ b.pending = "none" /\ b.game = "on"
  BY DEF InPlace
<1>2. k \in Kinds
  BY DEF Kinds, Clients
<1> HIDE DEF k
<1>3. /\ u \in Clients /\ Kept(u, b) /\ u.reply = b.reply /\ u.conn = b.conn /\ u.errs = b.errs
  BY <1>2 DEF Clients, Kept, Kinds
<1> HIDE DEF u
<1>4. /\ a \in Clients /\ Kept(a, u) /\ a.app = "failed" /\ a.last = "unknown"
      /\ a.conn = u.conn /\ a.reply = u.reply /\ a.errs = u.errs \cup {"SC2AppFailure"}
  BY <1>3, AbandonedFacts
<1> HIDE DEF a
<1>5. "SC2AppFailure" \in a.errs /\ b.errs \subseteq a.errs
  BY <1>3, <1>4
<1>6. b.reply = "none" /\ a.reply = "none"
  BY <1>1, <1>3, <1>4 DEF Sound, Awaits
<1>7. Recorded(a)
  BY <1>3, <1>4, <1>5 DEF Sound, Recorded
<1>8. Awaits(a) /\ Knows(a) /\ Counts(a)
  BY <1>3, <1>4, <1>6 DEF Sound, Awaits, Knows, Counts, Kept
<1>9. InPlace(a, "callbacks")
  BY <1>1, <1>3, <1>4 DEF InPlace, Kept
<1> QED BY <1>4, <1>5, <1>7, <1>8, <1>9 DEF Sound, a, u, k

LEMMA StepRefusedPlace ==
  ASSUME NEW b \in Clients, Sound(b), InPlace(b, "step"), b.conn = "upset"
  PROVE  LET a == Asked(b, "step") IN
           /\ a \in Clients /\ Sound(a) /\ InPlace(a, "callbacks")
           /\ Normal(a) => a.last # "unknown"
           /\ a.errs # {}
<1> DEFINE a == Asked(b, "step")
<1>1. /\ Normal(b) /\ b.pending = "none" /\ b.game = "on"
  BY DEF InPlace
<1>2. a \in Clients /\ Sound(a)
  BY AskedFacts, AskedSound DEF Kinds
<1>3. /\ a.pending = "none" /\ a.last = b.status /\ a.game = "on"
      /\ a.errs = b.errs \cup {"SC2ProtocolError"}
  <2>1. "step" \in Kinds /\ CanSend(b)
    BY <1>1 DEF Kinds, CanSend
  <2>2. Kept(a, b)
    BY <2>1, AskedFacts
  <2>3. a.pending = "none" /\ a.last = b.status /\ a.errs = b.errs \cup {"SC2ProtocolError"}
    BY <2>1, AskedFacts
  <2> QED BY <1>1, <2>2, <2>3 DEF Kept
<1>4. b.status # "unknown"
  BY DEF Clients
<1>5. a.errs # {}
  BY <1>3
<1> QED BY <1>2, <1>3, <1>4, <1>5 DEF InPlace

LEMMA StepPlace ==
  ASSUME NEW b \in Clients, Sound(b), InPlace(b, "step"), b.conn = "up",
         NEW over \in BOOLEAN, b.loop = MaxLoops => over
  PROVE  LET a == Asked([b EXCEPT !.loop = b.loop + 1,
                             !.status = IF over THEN "ended" ELSE b.status], "step")
         IN  /\ a \in Clients /\ Sound(a) /\ InPlace(a, "observe")
             /\ a.last # "unknown" /\ a.errs = b.errs /\ a.conn = "up"
             /\ a.game = b.game /\ a.seen = b.seen /\ a.odd = b.odd
             /\ a.cur = b.cur /\ a.prev = b.prev /\ a.file = b.file
             /\ a.loop = b.loop + 1
<1> DEFINE l == b.loop + 1
           t == IF over THEN "ended" ELSE b.status
           u == [b EXCEPT !.loop = l, !.status = t]
           a == Asked(u, "step")
<1>1. /\ Normal(b) /\ b.pending = "none" /\ b.game = "on" /\ b.last = "replay" /\ ~Realtime
  BY DEF InPlace
<1>2. b.status = "replay" /\ b.loop \in 1..MaxLoops
  BY <1>1 DEF Sound, Knows, Counts
<1>3. l \in 0..MaxLoops + 1 /\ l >= 2 /\ t \in {"replay", "ended"}
      /\ (t = "replay" => l \in 1..MaxLoops)
  BY <1>2, ConstantFacts
<1> HIDE DEF l, t
<1>4. u \in Clients
  BY <1>3 DEF Clients
<1>5. /\ u.loop = l /\ u.status = t /\ u.pending = b.pending /\ u.conn = b.conn
      /\ u.errs = b.errs /\ u.app = b.app /\ u.game = b.game /\ u.seen = b.seen
      /\ u.odd = b.odd /\ u.cur = b.cur /\ u.prev = b.prev /\ u.file = b.file
  BY DEF Clients
<1> HIDE DEF u
<1>6. /\ a \in Clients /\ Kept(a, u) /\ a.pending = "none" /\ a.last = u.status
      /\ a.app = u.app /\ a.conn = "up" /\ a.reply = "none" /\ a.errs = u.errs
  <2>1. "step" \in Kinds /\ CanSend(u) /\ u.conn = "up"
    BY <1>1, <1>5 DEF Kinds, CanSend
  <2> QED BY <1>4, <2>1, AskedFacts
<1> HIDE DEF a
<1>7. Recorded(a) /\ Awaits(a)
  BY <1>1, <1>5, <1>6 DEF Sound, Recorded, Awaits
<1>8. Knows(a) /\ Counts(a)
  BY <1>1, <1>3, <1>5, <1>6 DEF Knows, Counts, Kept
<1>9. InPlace(a, "observe")
  BY <1>1, <1>3, <1>5, <1>6 DEF InPlace, Kept
<1> QED BY <1>3, <1>5, <1>6, <1>7, <1>8, <1>9 DEF Sound, Kept, a, u, l, t

LEMMA WaitPlace ==
  ASSUME NEW b \in Clients, Sound(b), InPlace(b, "load"), ~Stale(b),
         b.reply # "none"
  PROVE  LET c == Got(b, b.reply = "error")
             p == IF b.reply = "loaded" THEN "first" ELSE Steps(c)
         IN  /\ c \in Clients /\ Sound(c) /\ InPlace(c, p) /\ ~Stale(c)
             /\ c.last # "unknown" /\ b.errs \subseteq c.errs
             /\ p = IF b.reply = "loaded" THEN "first" ELSE "done"
<1> DEFINE c == Got(b, b.reply = "error")
           e == IF b.reply = "error" THEN b.errs \cup {"SC2ProtocolError"} ELSE b.errs
<1>1. /\ Normal(b) /\ b.pending = "load" /\ b.game # "on" /\ b.last \in Idle
  BY DEF InPlace, Sound, Awaits
<1>2. /\ c \in Clients /\ Kept(c, b) /\ c.pending = "none" /\ c.last = b.status
      /\ c.app = b.app /\ c.conn = b.conn /\ c.reply = "none" /\ c.errs = e
  BY GotFacts
<1>3. b.errs \subseteq e
  OBVIOUS
<1>4. b.status \in {"launched", "replay", "ended"}
  BY DEF Clients
<1> HIDE DEF c, e
<1>5. ~Stale(c)
  BY <1>1, <1>2, <1>4 DEF Stale, Kept
<1>6. Recorded(c) /\ Awaits(c)
  BY <1>1, <1>2, <1>3 DEF Sound, Recorded, Awaits
<1>7. Counts(c)
  BY <1>2 DEF Sound, Counts, Kept
<1>8. CASE b.reply = "loaded"
  <2>1. b.status = "replay" /\ b.loop = 1
    BY <1>1, <1>8 DEF Sound, Counts, Stale
  <2>2. Knows(c)
    BY <1>2, <2>1 DEF Knows, Kept
  <2>3. InPlace(c, "first")
    BY <1>1, <1>2, <2>1 DEF InPlace, Kept, Stale
  <2> QED BY <1>2, <1>3, <1>4, <1>5, <1>6, <1>7, <1>8, <2>2, <2>3 DEF Sound, c
<1>9. CASE b.reply # "loaded"
  <2>1. b.status # "replay"
    BY <1>1, <1>9 DEF Sound, Knows
  <2>2. Knows(c)
    BY <1>2, <2>1 DEF Knows, Kept
  <2>3. Steps(c) = "done"
    BY <1>2, <2>1 DEF Steps, IsInGame
  <2>4. InPlace(c, "done")
    BY <1>1, <1>2, <2>1 DEF InPlace, Kept
  <2> QED BY <1>2, <1>3, <1>4, <1>5, <1>6, <1>7, <1>9, <2>2, <2>3, <2>4 DEF Sound, c
<1> QED BY <1>8, <1>9

LEMMA WaitFailsPlace ==
  ASSUME NEW b \in Clients, Sound(b), b.reply = "none"
  PROVE  LET a == Abandoned(b)
         IN  /\ a \in Clients /\ Sound(a) /\ InPlace(a, "done")
             /\ a.app = "failed" /\ a.errs # {}
<1> DEFINE a == Abandoned(b)
<1>1. /\ a \in Clients /\ Kept(a, b) /\ a.app = "failed" /\ a.last = "unknown"
      /\ a.conn = b.conn /\ a.reply = b.reply /\ a.errs = b.errs \cup {"SC2AppFailure"}
  BY AbandonedFacts
<1> HIDE DEF a
<1>2. "SC2AppFailure" \in a.errs /\ b.errs \subseteq a.errs
  BY <1>1
<1>3. Recorded(a)
  BY <1>1, <1>2 DEF Sound, Recorded
<1>4. Awaits(a) /\ Knows(a) /\ Counts(a)
  BY <1>1 DEF Sound, Awaits, Knows, Counts, Kept
<1>5. InPlace(a, "done")
  BY <1>1 DEF InPlace
<1> QED BY <1>1, <1>2, <1>3, <1>4, <1>5 DEF Sound, a

LEMMA CallbacksPlace ==
  ASSUME NEW b \in Clients, Sound(b), InPlace(b, "callbacks"), NEW acts \in BOOLEAN,
         Normal(b) => b.last # "unknown"
  PROVE  LET e == AfterStep(b, acts) IN
           /\ e \in Clients /\ Sound(e) /\ InPlace(e, "done")
           /\ Normal(e) => e.last # "unknown"
           /\ Stale(e) => Stale(b)
           /\ b.errs \subseteq e.errs /\ e.file = b.file
           /\ e.game # "on" => e.game = "over"
<1> DEFINE s == IF MultiThreaded THEN Stepped(b, acts) ELSE b
           e == EndedIf(s)
<1>1. b.game = "on"
  BY DEF InPlace
<1>2. /\ s \in Clients /\ Sound(s) /\ s.game = "on" /\ b.errs \subseteq s.errs
      /\ Stale(s) => Stale(b)
      /\ Normal(s) => s.last # "unknown"
      /\ s.file = b.file
  <2>1. CASE ~MultiThreaded
    BY <1>1, <2>1
  <2> DEFINE t == Stepped(b, acts)
             i == Issued(b)
  <2>2. t \in Clients /\ Sound(t) /\ t.game = "on" /\ b.errs \subseteq t.errs
        /\ (Realtime \/ ~acts => t = i)
    BY <1>1, SteppedFacts
  <2>3. i \in Clients /\ Called(i, b)
    BY IssuedFacts
  <2>4. Realtime \/ ~acts =>
          (Stale(t) => Stale(b)) /\ (Normal(t) => t.last # "unknown") /\ t.file = b.file
    BY <2>2, <2>3 DEF Called, Stale
  <2>5. ASSUME acts, ~Realtime
        PROVE  (Stale(t) => Stale(b)) /\ (Normal(t) => t.last # "unknown") /\ t.file = b.file
    <3>1. t = Asked(i, "action")
      BY <2>5 DEF Stepped
    <3>2. ~Stale(t)
      BY <2>5 DEF Stale
    <3>3. i.conn \in {"up", "upset", "hung", "closed"} /\ i.status # "unknown"
      BY <2>3 DEF Clients
    <3>4. t.file = b.file
      <4>1. "action" \in Kinds
        BY DEF Kinds
      <4>2. Kept(t, i)
        BY <2>3, <3>1, <4>1, AskedFacts
      <4> QED BY <2>3, <4>2 DEF Kept, Called
    <3>5. t = i \/ t.app = "failed" \/ t.last = i.status \/ (t.last = i.last /\ t.app = i.app)
      <4>1. "action" \in Kinds
        BY DEF Kinds
      <4> HIDE DEF i, t
      <4> QED BY <2>3, <3>1, <3>3, <4>1, AskedFacts DEF CanSend
    <3>6. Normal(t) => t.last # "unknown"
      BY <2>3, <3>3, <3>5 DEF Called
    <3> QED BY <3>2, <3>4, <3>6
  <2>6. CASE MultiThreaded
    <3>1. s = t
      BY <2>6
    <3> HIDE DEF s, t
    <3> QED BY <2>2, <2>4, <2>5, <3>1
  <2> QED BY <2>1, <2>6
<1>3. AfterStep(b, acts) = e
  BY DEF AfterStep
<1> HIDE DEF s
<1>4. CASE IsInGame(s)
  <2>1. e = s
    BY <1>4 DEF EndedIf
  <2>2. InPlace(s, "done")
    BY <1>2, <1>4 DEF InPlace, IsInGame
  <2> QED BY <1>2, <1>3, <2>1, <2>2
<1>5. CASE ~IsInGame(s)
  <2> DEFINE g == GameEnds(s)
  <2>1. e = g
    BY <1>5 DEF EndedIf
  <2>2. g \in Clients /\ Called(g, s) /\ g.game = "over"
    BY <1>2, GameEndsFacts
  <2> HIDE DEF g
  <2>3. Sound(g)
    BY <1>2, <2>2, CalledSound
  <2>4. InPlace(g, "done")
    BY <1>5, <2>2 DEF InPlace, IsInGame, Called
  <2>5. (Stale(g) => Stale(s)) /\ g.errs = s.errs /\ (Normal(g) => g.last # "unknown")
        /\ g.file = s.file
    BY <1>2, <2>2 DEF Stale, Called
  <2> QED BY <1>2, <1>3, <2>1, <2>2, <2>3, <2>4, <2>5
<1> QED BY <1>4, <1>5

-----------------------------------------------------------------------------
(***************************************************************************)
(* The inductive invariant                                                 *)
(***************************************************************************)
Places == {"start", "load", "first", "step", "observe", "callbacks", "done"}
Fates == {"listed", "ignored", "unanswered", "loading", "rejected", "playing", "played"}

LEMMA StateFacts ==
  ASSUME TypeOK
  PROVE  /\ ob \in [Observers -> Clients] /\ at \in [Observers -> Places]
         /\ turn \in Observers /\ files \in 0..NumReplays
         /\ settings.realtime \in BOOLEAN /\ settings.multiThreaded \in BOOLEAN
         /\ started \in BOOLEAN /\ result \in BOOLEAN
         /\ fate \in [Replays -> Fates]
BY DEF TypeOK, Places, Fates

LEMMA TypeFacts ==
  ASSUME TypeOK, NEW r \in Observers
  PROVE  ob[r] \in Clients /\ at[r] \in Places
BY StateFacts

(* One client changes, and where its observer is.                          *)
LEMMA MovesFacts ==
  ASSUME TypeOK, ClientsInv, StaleInv, UNCHANGED settings,
         NEW r \in Observers, NEW b \in Clients, NEW p \in Places,
         Sound(b), InPlace(b, p),
         ob' = [ob EXCEPT ![r] = b], at' = [at EXCEPT ![r] = p],
         phase' = "user" /\ result' => phase = "user" /\ result /\ ~Stale(b),
         Stale(b) => b.errs # {} /\ p \in {"callbacks", "done"}
  PROVE  /\ ob' \in [Observers -> Clients] /\ at' \in [Observers -> Places]
         /\ ClientsInv' /\ StaleInv'
         /\ \A s \in Observers : /\ ob'[s] = IF s = r THEN b ELSE ob[s]
                                 /\ at'[s] = IF s = r THEN p ELSE at[s]
<1>1. ob \in [Observers -> Clients] /\ at \in [Observers -> Places]
  BY StateFacts, TypeFacts
<1>2. \A s \in Observers : /\ ob'[s] = IF s = r THEN b ELSE ob[s]
                           /\ at'[s] = IF s = r THEN p ELSE at[s]
  BY <1>1
<1>3. ob' \in [Observers -> Clients] /\ at' \in [Observers -> Places]
  BY <1>1
<1>4. ASSUME NEW s \in Observers
      PROVE  (Sound(ob[s]) /\ InPlace(ob[s], at[s]))'
  <2>1. CASE s = r
    <3>1. ob'[s] = b /\ at'[s] = p
      BY <1>2, <2>1
    <3>2. Sound(ob[s])'
      BY <3>1 DEF Sound, Recorded, Awaits, Knows, Counts, Realtime
    <3>3. InPlace(ob[s], at[s])'
      BY <3>1 DEF InPlace, Realtime
    <3> QED BY <3>2, <3>3
  <2>2. CASE s # r
    <3>1. ob'[s] = ob[s] /\ at'[s] = at[s]
      BY <1>2, <2>2
    <3>2. Sound(ob[s]) /\ InPlace(ob[s], at[s])
      BY DEF ClientsInv
    <3>3. Sound(ob[s])'
      BY <3>1, <3>2 DEF Sound, Recorded, Awaits, Knows, Counts, Realtime
    <3>4. InPlace(ob[s], at[s])'
      BY <3>1, <3>2 DEF InPlace, Realtime
    <3> QED BY <3>3, <3>4
  <2> QED BY <2>1, <2>2
<1>5. ClientsInv'
  BY <1>4 DEF ClientsInv, Observers
<1>6. ASSUME NEW s \in Observers, Stale(ob[s])'
      PROVE  (/\ ob[s].errs # {} /\ at[s] \in {"callbacks", "done"}
              /\ ~(phase = "user" /\ result))'
  <2>1. CASE s = r
    <3>1. ob'[s] = b /\ at'[s] = p
      BY <1>2, <2>1
    <3>2. Stale(b)
      BY <1>6, <3>1 DEF Stale, Realtime
    <3> QED BY <3>1, <3>2
  <2>2. CASE s # r
    <3>1. ob'[s] = ob[s] /\ at'[s] = at[s]
      BY <1>2, <2>2
    <3>2. Stale(ob[s])
      BY <1>6, <3>1 DEF Stale, Realtime
    <3> QED BY <3>1, <3>2 DEF StaleInv
  <2> QED BY <2>1, <2>2
<1>7. StaleInv'
  BY <1>6 DEF StaleInv, Observers
<1> QED BY <1>2, <1>3, <1>5, <1>7

LEMMA StaysFacts ==
  ASSUME TypeOK, ClientsInv, StaleInv, UNCHANGED <<settings, at>>,
         NEW r \in Observers, NEW b \in Clients,
         Sound(b), InPlace(b, at[r]), ob' = [ob EXCEPT ![r] = b],
         phase' = "user" /\ result' => phase = "user" /\ result,
         Stale(b) => Stale(ob[r]), ob[r].errs \subseteq b.errs
  PROVE  /\ ob' \in [Observers -> Clients]
         /\ ClientsInv' /\ StaleInv'
         /\ \A s \in Observers : ob'[s] = IF s = r THEN b ELSE ob[s]
<1>1. at \in [Observers -> Places] /\ at[r] \in Places
  BY StateFacts
<1>2. at' = [at EXCEPT ![r] = at[r]]
  BY <1>1
<1>3. Stale(b) => /\ ob[r].errs # {} /\ at[r] \in {"callbacks", "done"}
                  /\ ~(phase = "user" /\ result)
  BY DEF StaleInv
<1> QED BY <1>1, <1>2, <1>3, MovesFacts

(* The clients do not change.                                              *)
LEMMA RestsFacts ==
  ASSUME ClientsInv, StaleInv, UNCHANGED <<settings, at, ob>>,
         \/ phase' = "user" /\ result' => phase = "user" /\ result
         \/ \A r \in Observers : ob[r].errs = {}
  PROVE  ClientsInv' /\ StaleInv'
<1>1. ClientsInv'
  BY DEF ClientsInv, Sound, Recorded, Awaits, Knows, Counts, InPlace, Realtime, Observers
<1>2. StaleInv'
  BY DEF StaleInv, Stale, Realtime, Observers
<1> QED BY <1>1, <1>2

LEMMA GoesFacts ==
  ASSUME IInv, UNCHANGED settings, phase = "stepping",
         NEW r \in Observers, NEW b \in Clients, NEW p \in Places,
         Sound(b), InPlace(b, p), Goes(r, b, p), fate' \in [Replays -> Fates],
         Normal(b) => b.last # "unknown",
         Stale(b) => b.errs # {} /\ p \in {"callbacks", "done"}
  PROVE  IInv'
<1>1. /\ ob' = [ob EXCEPT ![r] = b] /\ at' = [at EXCEPT ![r] = p]
      /\ UNCHANGED <<phase, turn, started, files, result, loads, faults>>
  BY DEF Goes, coordinator
<1>2. /\ ob' \in [Observers -> Clients] /\ at' \in [Observers -> Places]
      /\ ClientsInv' /\ StaleInv'
      /\ \A s \in Observers : ob'[s] = IF s = r THEN b ELSE ob[s]
  BY <1>1, MovesFacts DEF IInv
<1>3. TypeOK'
  BY <1>1, <1>2 DEF IInv, TypeOK, Places, Fates, Observers, Replays, Clients, Errors, Unset
<1>4. started
  BY DEF IInv, ControlInv, Loading
<1>5. ControlInv'
  BY <1>1, <1>2, <1>4 DEF IInv, ControlInv, Loading, Observers
<1> QED BY <1>2, <1>3, <1>5 DEF IInv

LEMMA RunReplayInv ==
  ASSUME IInv, UNCHANGED settings, phase = "stepping", NEW r \in Observers, RunReplay(r)
  PROVE  IInv'
<1> DEFINE b == ob[r]
           p == IF b.app # "normal" THEN "done"
                ELSE IF b.pending = "none" THEN Steps(b)
                ELSE IF SkipsLoading(b) THEN "done" ELSE "load"
<1>1. at[r] = "start" /\ b \in Clients /\ Sound(b) /\ InPlace(b, "start") /\ ~Stale(b)
  BY StateFacts, TypeFacts DEF IInv, RunReplay, ClientsInv, StaleInv
<1>2. Goes(r, b, p) /\ fate' = fate
  BY DEF RunReplay
<1>3. p \in Places
  BY DEF Places, Steps, StepFor
<1>4. InPlace(b, p)
  BY <1>1 DEF InPlace, Sound, Awaits, Steps, StepFor, IsInGame
<1>5. Normal(b) => b.last # "unknown"
  BY DEF IInv, ControlInv, Loading
<1>6. fate' \in [Replays -> Fates]
  BY <1>2, StateFacts, TypeFacts DEF IInv
<1> HIDE DEF p
<1> QED BY <1>1, <1>2, <1>3, <1>4, <1>5, <1>6, GoesFacts

LEMMA WaitForReplayInv ==
  ASSUME IInv, UNCHANGED settings, phase = "stepping", NEW r \in Observers, WaitForReplay(r)
  PROVE  IInv'
<1> DEFINE b == ob[r]
           c == Got(b, b.reply = "error")
<1>1. at[r] = "load" /\ b \in Clients /\ Sound(b) /\ InPlace(b, "load") /\ ~Stale(b)
  BY StateFacts, TypeFacts DEF IInv, WaitForReplay, ClientsInv, StaleInv
<1>2. fate' \in [Replays -> Fates]
  BY StateFacts, TypeFacts DEF IInv, WaitForReplay, Fates
<1>3. CASE b.reply = "loaded" /\ Goes(r, c, "first")
  <2>1. c \in Clients /\ Sound(c) /\ InPlace(c, "first") /\ ~Stale(c) /\ c.last # "unknown"
    BY <1>1, <1>3, WaitPlace
  <2> QED BY <1>2, <1>3, <2>1, GoesFacts DEF Places
<1>4. CASE b.reply \in {"rejected", "error"} /\ Goes(r, c, Steps(c))
  <2>1. /\ c \in Clients /\ Sound(c) /\ InPlace(c, Steps(c)) /\ ~Stale(c)
        /\ c.last # "unknown" /\ Steps(c) = "done"
    BY <1>1, <1>4, WaitPlace
  <2> QED BY <1>2, <1>4, <2>1, GoesFacts DEF Places
<1>5. CASE b.reply = "none" /\ Goes(r, Abandoned(b), "done")
  <2>1. LET a == Abandoned(b) IN
          a \in Clients /\ Sound(a) /\ InPlace(a, "done") /\ ~Stale(a) /\ ~Normal(a)
    BY <1>1, <1>5, WaitFailsPlace DEF Stale
  <2> QED BY <1>2, <1>5, <2>1, GoesFacts DEF Places
<1> QED BY <1>3, <1>4, <1>5 DEF WaitForReplay

LEMMA FirstObservationInv ==
  ASSUME IInv, UNCHANGED settings, phase = "stepping", NEW r \in Observers, FirstObservation(r)
  PROVE  IInv'
<1> DEFINE g == GameStarts(Observed(ob[r]))
<1>1. /\ at[r] = "first" /\ ob[r] \in Clients /\ Sound(ob[r]) /\ InPlace(ob[r], "first")
      /\ ~ObservationFaults(ob[r])
  BY StateFacts, TypeFacts DEF IInv, FirstObservation, ClientsInv
<1>2. Goes(r, g, Steps(g)) /\ fate' = fate
  BY DEF FirstObservation
<1>3. /\ g \in Clients /\ Sound(g) /\ InPlace(g, Steps(g)) /\ Steps(g) = StepFor(g)
      /\ g.last = "replay"
  BY <1>1, FirstObservationPlace
<1>4. fate' \in [Replays -> Fates]
  BY <1>2, StateFacts, TypeFacts DEF IInv
<1> HIDE DEF g
<1>5. Steps(g) \in Places /\ ~Stale(g)
  BY <1>3 DEF Places, StepFor, Stale
<1> QED BY <1>2, <1>3, <1>4, <1>5, GoesFacts

LEMMA StepGameInv ==
  ASSUME IInv, UNCHANGED settings, phase = "stepping", NEW r \in Observers, StepGame(r)
  PROVE  IInv'
<1> DEFINE b == ob[r]
<1>1. at[r] = "step" /\ b \in Clients /\ Sound(b) /\ InPlace(b, "step") /\ ~Realtime
  BY StateFacts, TypeFacts DEF IInv, StepGame, ClientsInv, InPlace
<1>2. fate' = fate /\ fate' \in [Replays -> Fates]
  BY StateFacts, TypeFacts DEF IInv, StepGame
<1>3. \A c \in Clients : ~Stale(c)
  BY <1>1 DEF Stale
<1>4. CASE /\ b.conn \in {"hung", "closed"}
           /\ Goes(r, Abandoned([b EXCEPT !.pending =
                  IF CanSend(b) THEN "step" ELSE b.pending]), "callbacks")
  <2> DEFINE a == Abandoned([b EXCEPT !.pending =
                  IF CanSend(b) THEN "step" ELSE b.pending])
  <2>1. /\ a \in Clients /\ Sound(a) /\ InPlace(a, "callbacks") /\ ~Normal(a)
    BY <1>1, <1>4, StepFailsPlace
  <2>2. Goes(r, a, "callbacks")
    BY <1>4
  <2> HIDE DEF a
  <2> QED BY <1>2, <1>3, <2>1, <2>2, GoesFacts DEF Places
<1>5. CASE b.conn = "upset" /\ Goes(r, Asked(b, "step"), "callbacks")
  <2> DEFINE a == Asked(b, "step")
  <2>1. /\ a \in Clients /\ Sound(a) /\ InPlace(a, "callbacks")
        /\ Normal(a) => a.last # "unknown"
    BY <1>1, <1>5, StepRefusedPlace
  <2>2. Goes(r, a, "callbacks")
    BY <1>5
  <2> HIDE DEF a
  <2> QED BY <1>2, <1>3, <2>1, <2>2, GoesFacts DEF Places
<1>6. ASSUME NEW over \in BOOLEAN, b.conn = "up", b.loop = MaxLoops => over,
             Goes(r, Asked([b EXCEPT !.loop = b.loop + 1,
                   !.status = IF over THEN "ended" ELSE b.status], "step"), "observe")
      PROVE  IInv'
  <2> DEFINE a == Asked([b EXCEPT !.loop = b.loop + 1,
                   !.status = IF over THEN "ended" ELSE b.status], "step")
  <2>1. /\ a \in Clients /\ Sound(a) /\ InPlace(a, "observe") /\ a.last # "unknown"
    BY <1>1, <1>6, StepPlace
  <2>2. Goes(r, a, "observe")
    BY <1>6
  <2> HIDE DEF a
  <2> QED BY <1>2, <1>3, <2>1, <2>2, GoesFacts DEF Places
<1> QED BY <1>4, <1>5, <1>6 DEF StepGame

LEMMA ObserveGameInv ==
  ASSUME IInv, UNCHANGED settings, phase = "stepping", NEW r \in Observers, ObserveGame(r)
  PROVE  IInv'
<1> DEFINE o == Observed(ob[r])
<1>1. /\ at[r] = "observe" /\ ob[r] \in Clients /\ Sound(ob[r]) /\ InPlace(ob[r], "observe")
      /\ ~ObservationFaults(ob[r])
  BY StateFacts, TypeFacts DEF IInv, ObserveGame, ClientsInv
<1>2. Goes(r, o, "callbacks") /\ fate' = fate /\ fate' \in [Replays -> Fates]
  BY StateFacts, TypeFacts DEF ObserveGame, IInv
<1>3. /\ o \in Clients /\ Sound(o) /\ InPlace(o, "callbacks")
      /\ Normal(o) => o.last # "unknown"
      /\ Stale(o) => o.errs # {}
  BY <1>1, ObservePlace
<1> HIDE DEF o
<1> QED BY <1>2, <1>3, GoesFacts DEF Places

LEMMA ReplayCallbacksInv ==
  ASSUME IInv, UNCHANGED settings, phase = "stepping", NEW r \in Observers, ReplayCallbacks(r)
  PROVE  IInv'
<1>1. PICK acts \in BOOLEAN :
        LET b == AfterStep(ob[r], acts) IN
          /\ Goes(r, b, "done")
          /\ fate' = IF b.game = "over" THEN [fate EXCEPT ![b.file] = "played"] ELSE fate
  BY DEF ReplayCallbacks
<1> DEFINE e == AfterStep(ob[r], acts)
<1>2. /\ at[r] = "callbacks" /\ ob[r] \in Clients /\ Sound(ob[r]) /\ InPlace(ob[r], "callbacks")
  BY StateFacts, TypeFacts DEF IInv, ReplayCallbacks, ClientsInv
<1>3. Normal(ob[r]) => ob[r].last # "unknown"
  BY DEF IInv, ControlInv, Loading
<1>4. /\ e \in Clients /\ Sound(e) /\ InPlace(e, "done")
      /\ Normal(e) => e.last # "unknown"
      /\ Stale(e) => Stale(ob[r])
      /\ ob[r].errs \subseteq e.errs
  BY <1>2, <1>3, CallbacksPlace
<1>5. Goes(r, e, "done")
  BY <1>1
<1>6. fate' \in [Replays -> Fates]
  BY <1>1, StateFacts, TypeFacts DEF IInv, Fates
<1> HIDE DEF e
<1>7. Stale(e) => e.errs # {}
  BY <1>4 DEF IInv, StaleInv
<1> QED BY <1>4, <1>5, <1>6, <1>7, GoesFacts DEF Places

-----------------------------------------------------------------------------
(***************************************************************************)
(* The coordinator's own thread                                            *)
(***************************************************************************)
LEMMA ReplayFaultsInv ==
  ASSUME IInv, UNCHANGED settings, NEW r \in Observers, ReplayFaults(r)
  PROVE  IInv'
<1>1. /\ phase = "stepping" /\ phase' = "fault"
      /\ UNCHANGED <<turn, at, started, files, result, faults, fate, loads, ob>>
  BY DEF ReplayFaults
<1>2. ClientsInv' /\ StaleInv'
  BY <1>1, RestsFacts DEF IInv
<1>3. TypeOK'
  BY <1>1 DEF IInv, TypeOK, Observers, Replays, Clients, Errors, Unset
<1>4. ControlInv'
  BY <1>1 DEF IInv, ControlInv, Loading, Observers
<1> QED BY <1>2, <1>3, <1>4 DEF IInv

LEMMA CallUpdateInv ==
  ASSUME IInv, UNCHANGED settings, CallUpdate
  PROVE  IInv'
<1>1. /\ phase = "user" /\ result
      /\ phase' \in {"stepping", "starting", "checking"} /\ (phase' = "stepping" <=> started)
      /\ at' = [r \in Observers |-> "start"] /\ turn' = 1
      /\ UNCHANGED <<started, files, result, faults, fate, loads, ob>>
  BY DEF CallUpdate
<1>2. turn' \in Observers
  BY <1>1, ConstantFacts DEF Observers
<1>3. TypeOK'
  BY <1>1, <1>2 DEF IInv, TypeOK, Observers, Replays, Clients, Errors, Unset
<1>4. ASSUME NEW r \in Observers
      PROVE  (Sound(ob[r]) /\ InPlace(ob[r], at[r]))' /\ ~Stale(ob[r])
  <2>1. at[r] \in {"start", "done"} /\ at'[r] = "start"
    BY <1>1 DEF IInv, ControlInv
  <2>2. Sound(ob[r]) /\ InPlace(ob[r], at[r]) /\ ~Stale(ob[r])
    BY <1>1 DEF IInv, ClientsInv, StaleInv
  <2>3. Sound(ob[r])'
    BY <1>1, <2>2 DEF Sound, Recorded, Awaits, Knows, Counts, Realtime
  <2>4. InPlace(ob[r], at[r])'
    BY <1>1, <2>1, <2>2 DEF InPlace
  <2> QED BY <2>2, <2>3, <2>4
<1>5. ClientsInv'
  BY <1>4 DEF ClientsInv, Observers
<1>6. StaleInv'
  BY <1>1, <1>4 DEF StaleInv, Stale, Realtime, Observers
<1>7. ControlInv'
  BY <1>1 DEF IInv, ControlInv, Loading, Fresh, Unset
<1> QED BY <1>3, <1>5, <1>6, <1>7 DEF IInv

LEMMA StepsDoneInv ==
  ASSUME IInv, UNCHANGED settings, StepsDone
  PROVE  IInv'
<1>1. /\ phase = "stepping" /\ \A r \in Observers : at[r] = "done"
      /\ phase' \in {"starting", "checking", "callbacks"} /\ turn' = 1
      /\ UNCHANGED <<at, started, files, result, faults, fate, loads, ob>>
  BY DEF StepsDone, Leaves, AfterSteps
<1>2. turn' \in Observers
  BY <1>1, ConstantFacts DEF Observers
<1>3. TypeOK'
  BY <1>1, <1>2 DEF IInv, TypeOK, Observers, Replays, Clients, Errors, Unset
<1>4. ClientsInv' /\ StaleInv'
  BY <1>1, RestsFacts DEF IInv
<1>5. started
  BY <1>1 DEF IInv, ControlInv, Loading
<1>6. ControlInv'
  BY <1>1, <1>5 DEF IInv, ControlInv, Loading, Observers
<1> QED BY <1>3, <1>4, <1>6 DEF IInv

(* The callbacks of a client that is in no step.                           *)
LEMMA SerialPlace ==
  ASSUME NEW b \in Clients, NEW acts \in BOOLEAN, Sound(b),
         NEW p \in {"start", "done"}, InPlace(b, p),
         Normal(b) => b.last # "unknown"
  PROVE  LET s == Stepped(b, acts) IN
           /\ s \in Clients /\ Sound(s) /\ InPlace(s, p)
           /\ Normal(s) => s.last # "unknown"
           /\ Stale(s) => Stale(b)
           /\ b.errs \subseteq s.errs
<1> DEFINE i == Issued(b)
           s == Stepped(b, acts)
<1>1. s \in Clients /\ Sound(s) /\ b.errs \subseteq s.errs
  BY SteppedFacts
<1>2. i \in Clients /\ Called(i, b) /\ i.game = b.game
  BY IssuedFacts
<1>3. Sound(i) /\ InPlace(i, p) /\ (Normal(i) => i.last # "unknown") /\ (Stale(i) => Stale(b))
  BY <1>2, CalledSound DEF InPlace, Called, Stale
<1>4. CASE Realtime \/ ~acts
  <2>1. s = i
    BY <1>4, SteppedFacts
  <2> QED BY <1>1, <1>3, <2>1
<1>5. CASE ~Realtime /\ acts
  <2>1. s = Asked(i, "action")
    BY <1>5 DEF Stepped
  <2>2. "action" \in Kinds
    BY DEF Kinds
  <2> HIDE DEF i, s
  <2>3. InPlace(s, p) /\ (Normal(s) => s.last # "unknown") /\ (Stale(s) => Stale(i))
    BY <1>2, <1>3, <1>5, <2>1, <2>2, AskedDone
  <2> QED BY <1>1, <1>3, <2>3 DEF s
<1> QED BY <1>4, <1>5

LEMMA SerialCallbacksInv ==
  ASSUME IInv, UNCHANGED settings, SerialCallbacks
  PROVE  IInv'
<1> DEFINE b == ob[turn]
<1>0. b \in Clients /\ turn \in Observers /\ ob \in [Observers -> Clients]
  BY StateFacts DEF IInv
<1>1. PICK acts \in BOOLEAN :
        ob' = [ob EXCEPT ![turn] = IF b.app = "normal" THEN Stepped(b, acts) ELSE b]
  BY <1>0 DEF SerialCallbacks
<1> DEFINE s == IF b.app = "normal" THEN Stepped(b, acts) ELSE b
<1>2. /\ phase = "callbacks" /\ phase' \in {"callbacks", "starting", "checking"}
      /\ turn' = IF turn = Last THEN 1 ELSE turn + 1
      /\ UNCHANGED <<at, started, files, result, faults, fate, loads>>
  BY DEF SerialCallbacks, NextTurn, Leaves, AfterSteps
<1>3. turn' \in Observers
  BY <1>0, <1>2, ConstantFacts DEF Observers, Last
<1>4. started /\ at[turn] \in {"start", "done"} /\ (Normal(b) => b.last # "unknown")
      /\ Sound(b) /\ InPlace(b, at[turn])
  BY <1>0, <1>2 DEF IInv, ControlInv, Loading, ClientsInv
<1>5. /\ s \in Clients /\ Sound(s) /\ InPlace(s, at[turn])
      /\ Normal(s) => s.last # "unknown"
      /\ Stale(s) => Stale(b)
      /\ b.errs \subseteq s.errs
  BY <1>0, <1>4, SerialPlace
<1> HIDE DEF s
<1>6. ob' = [ob EXCEPT ![turn] = s]
  BY <1>1 DEF s
<1>7. /\ ob' \in [Observers -> Clients] /\ ClientsInv' /\ StaleInv'
      /\ \A r \in Observers : ob'[r] = IF r = turn THEN s ELSE ob[r]
  BY <1>0, <1>2, <1>5, <1>6, StaysFacts DEF IInv
<1>8. TypeOK'
  BY <1>2, <1>3, <1>7 DEF IInv, TypeOK, Observers, Replays, Clients, Errors, Unset
<1>9. ControlInv'
  BY <1>2, <1>4, <1>5, <1>7 DEF IInv, ControlInv, Loading, Observers
<1> QED BY <1>7, <1>8, <1>9 DEF IInv

LEMMA LaunchProcessesInv ==
  ASSUME IInv, UNCHANGED settings, LaunchProcesses
  PROVE  IInv'
<1>1. /\ phase = "starting" /\ phase' = "loading" /\ turn' = 1
      /\ UNCHANGED <<at, started, files, result, faults, fate, loads>>
  BY DEF LaunchProcesses, Leaves
<1>2. turn' \in Observers
  BY <1>1, ConstantFacts DEF Observers
<1>3. CASE started
  <2>1. ob' = ob
    BY <1>3 DEF LaunchProcesses
  <2>2. TypeOK'
    BY <1>1, <1>2, <2>1 DEF IInv, TypeOK, Observers, Replays, Clients, Errors, Unset
  <2>3. ClientsInv' /\ StaleInv'
    BY <1>1, <2>1, RestsFacts DEF IInv
  <2>4. ControlInv'
    BY <1>1, <1>3, <2>1 DEF IInv, ControlInv, Loading, Observers
  <2> QED BY <2>2, <2>3, <2>4 DEF IInv
<1>4. CASE ~started
  <2>1. ob' = [r \in Observers |-> [ob[r] EXCEPT !.last = ob[r].status]]
    BY <1>4 DEF LaunchProcesses
  <2>2. ASSUME NEW r \in Observers
        PROVE  /\ ob'[r] \in Clients /\ Normal(ob'[r]) /\ ob'[r].last = "launched"
               /\ (Sound(ob[r]) /\ InPlace(ob[r], at[r]) /\ ~Stale(ob[r]))'
    <3>1. Fresh(ob[r]) /\ Recorded(ob[r]) /\ ob[r] \in Clients /\ at[r] \in {"start", "done"}
      BY <1>1, <1>4, TypeFacts DEF IInv, ControlInv, Loading, ClientsInv, Sound
    <3> DEFINE b == ob[r]
               c == [b EXCEPT !.last = b.status]
    <3>2. c \in Clients
      BY <3>1 DEF Clients
    <3>3. /\ c.last = "launched" /\ c.app = b.app /\ c.pending = "none" /\ c.reply = "none"
          /\ c.status = "launched" /\ c.game = "none" /\ c.cur = Unset /\ c.errs = b.errs
          /\ c.conn = b.conn
      BY <3>1 DEF Clients, Fresh
    <3>4. ob'[r] = c
      BY <2>1
    <3> HIDE DEF c
    <3>5. Sound(ob[r])'
      BY <1>1, <3>1, <3>3, <3>4
      DEF Sound, Recorded, Awaits, Knows, Counts, Fresh
    <3>6. InPlace(ob[r], at[r])'
      BY <1>1, <3>1, <3>3, <3>4 DEF InPlace, Fresh
    <3>7. Unset # 1
      BY ConstantFacts
    <3>8. ~Stale(ob[r])'
      BY <3>3, <3>4, <3>7 DEF Stale
    <3> QED BY <3>1, <3>2, <3>3, <3>4, <3>5, <3>6, <3>8 DEF Fresh
  <2>3. ob' \in [Observers -> Clients]
    BY <2>1, <2>2
  <2>4. TypeOK'
    BY <1>1, <1>2, <2>3 DEF IInv, TypeOK, Observers, Replays, Clients, Errors, Unset
  <2>5. ClientsInv' /\ StaleInv'
    BY <2>2 DEF ClientsInv, StaleInv, Observers
  <2>6. ControlInv'
    BY <1>1, <2>2 DEF IInv, ControlInv, Loading, Observers
  <2> QED BY <2>4, <2>5, <2>6 DEF IInv
<1> QED BY <1>3, <1>4

(* Whose turn is next among the observers that replays are given to.       *)
Passes == /\ started' = (started \/ turn = Last)
          /\ turn' = IF turn = Last THEN 1 ELSE turn + 1
          /\ phase' = IF turn = Last THEN "checking" ELSE "loading"

LEMMA DonePasses ==
  ASSUME Done
  PROVE  Passes
BY DEF Done, NextTurn, Leaves, Passes

LEMMA ContinuesFacts ==
  ASSUME Continues
  PROVE  \/ files = 1 /\ Passes
         \/ files # 1 /\ phase' = "taking" /\ UNCHANGED <<turn, started>>
BY DonePasses DEF Continues

LEMMA PassesInv ==
  ASSUME IInv, phase \in Loading, Passes, UNCHANGED <<at, result>>,
         \A r \in Observers : Normal(ob[r])' => (ob[r].last # "unknown")'
  PROVE  turn' \in Observers /\ started' \in BOOLEAN /\ ControlInv'
<1>1. turn \in Observers /\ started \in BOOLEAN
  BY StateFacts DEF IInv
<1>2. turn' \in Observers
  BY <1>1, ConstantFacts DEF Passes, Observers, Last
<1>3. started' \in BOOLEAN
  BY <1>1 DEF Passes
<1>4. ControlInv'
  BY DEF IInv, ControlInv, Loading, Observers, Passes
<1> QED BY <1>2, <1>3, <1>4

LEMMA StartReplayInv ==
  ASSUME IInv, UNCHANGED settings, StartReplay
  PROVE  IInv'
<1>1. phase = "loading" /\ UNCHANGED <<at, files, result, faults, fate, loads, ob>>
  BY DEF StartReplay
<1>2. phase' # "user" /\ ClientsInv' /\ StaleInv'
  <2>1. phase' # "user"
    BY DEF StartReplay, NextTurn, Leaves
  <2> QED BY <1>1, <2>1, RestsFacts DEF IInv
<1>3. \A r \in Observers : Normal(ob[r]) => ob[r].last # "unknown"
  BY <1>1 DEF IInv, ControlInv, Loading
<1>4. CASE Passes
  <2>1. turn' \in Observers /\ started' \in BOOLEAN /\ ControlInv'
    BY <1>1, <1>3, <1>4, PassesInv DEF Loading
  <2>2. phase' \in {"loading", "checking"}
    BY <1>4 DEF Passes
  <2>3. TypeOK'
    BY <1>1, <2>1, <2>2 DEF IInv, TypeOK, Observers, Replays, Clients, Errors, Unset
  <2> QED BY <1>2, <2>1, <2>3 DEF IInv
<1>5. CASE /\ IsReadyForCreateGame(ob[turn]) /\ files > 0
           /\ phase' = "taking" /\ UNCHANGED <<turn, started>>
  <2>1. TypeOK'
    BY <1>1, <1>5 DEF IInv, TypeOK, Observers, Replays, Clients, Errors, Unset
  <2>2. ControlInv'
    BY <1>1, <1>3, <1>5 DEF IInv, ControlInv, Loading, Observers, IsReadyForCreateGame
  <2> QED BY <1>2, <2>1, <2>2 DEF IInv
<1> QED BY <1>4, <1>5 DEF StartReplay, NextTurn, Leaves, Passes

(* The request for the info of a replay.                                   *)
LEMMA InfoFacts ==
  ASSUME IInv, phase = "taking"
  PROVE  LET b == ob[turn]
             a == Asked(b, "info")
         IN  /\ a \in Clients /\ Sound(a) /\ InPlace(a, at[turn])
             /\ Normal(a) => a.pending = "none" /\ a.last \in Idle
             /\ Stale(a) => Stale(b)
             /\ b.errs \subseteq a.errs
             /\ turn \in Observers /\ files \in 1..NumReplays
<1> DEFINE b == ob[turn]
           a == Asked(b, "info")
<1>1. b \in Clients /\ turn \in Observers /\ files \in 0..NumReplays /\ "info" \in Kinds
  BY StateFacts DEF IInv, Kinds
<1>2. /\ at[turn] \in {"start", "done"} /\ files > 0
      /\ Normal(b) => b.pending = "none" /\ b.last \in Idle
      /\ Sound(b) /\ InPlace(b, at[turn])
  BY <1>1 DEF IInv, ControlInv, ClientsInv
<1>3. a \in Clients /\ Sound(a)
  BY <1>1, <1>2, AskedFacts, AskedSound
<1>4. /\ InPlace(a, at[turn]) /\ (Stale(a) => Stale(b)) /\ b.errs \subseteq a.errs
      /\ (Normal(b) /\ b.last \in Idle /\ Normal(a) => a.last \in Idle)
  BY <1>1, <1>2, AskedDone
<1>5. Normal(a) => Normal(b) /\ a.pending = "none"
  <2>1. b.conn \in {"up", "upset", "hung", "closed"}
    BY <1>1 DEF Clients
  <2> QED BY <1>1, <1>2, <2>1, AskedFacts DEF CanSend
<1>6. files \in 1..NumReplays
  BY <1>1, <1>2, ConstantFacts
<1> HIDE DEF a
<1> QED BY <1>1, <1>2, <1>3, <1>4, <1>5, <1>6 DEF a

(* What an operation on the observer whose turn it is leaves to show.      *)
LEMMA TakingFacts ==
  ASSUME IInv, UNCHANGED <<settings, at, result, faults>>, phase \in {"taking", "taken"},
         NEW b \in Clients, Sound(b), InPlace(b, at[turn]),
         Stale(b) => Stale(ob[turn]), ob[turn].errs \subseteq b.errs,
         Normal(b) => b.last # "unknown",
         ob' = [ob EXCEPT ![turn] = b],
         fate' \in [Replays -> Fates], loads' \in [Replays -> Nat],
         files' \in 0..NumReplays,
         \/ Passes
         \/ /\ phase' \in {"taking", "taken"} /\ UNCHANGED <<turn, started>>
            /\ files' > 0 /\ (Normal(b) => b.pending = "none" /\ b.last \in Idle)
  PROVE  IInv'
<1>1. turn \in Observers /\ started \in BOOLEAN
  BY StateFacts DEF IInv
<1>2. phase' \in {"taking", "taken", "loading", "checking"} /\ phase \in Loading
  BY DEF Passes, Loading
<1>3. /\ ob' \in [Observers -> Clients] /\ ClientsInv' /\ StaleInv'
      /\ \A r \in Observers : ob'[r] = IF r = turn THEN b ELSE ob[r]
  BY <1>1, <1>2, StaysFacts DEF IInv
<1>4. \A r \in Observers : Normal(ob'[r]) => ob'[r].last # "unknown"
  BY <1>2, <1>3 DEF IInv, ControlInv
<1>5. turn' \in Observers /\ started' \in BOOLEAN /\ ControlInv'
  <2>1. CASE Passes
    BY <1>2, <1>4, <2>1, PassesInv
  <2>2. CASE /\ phase' \in {"taking", "taken"} /\ UNCHANGED <<turn, started>>
             /\ files' > 0 /\ (Normal(b) => b.pending = "none" /\ b.last \in Idle)
    BY <1>1, <1>2, <1>3, <1>4, <2>2 DEF IInv, ControlInv, Loading, Observers
  <2> QED BY <2>1, <2>2
<1>6. TypeOK'
  BY <1>2, <1>3, <1>5 DEF IInv, TypeOK, Observers, Replays, Clients, Errors, Unset, Fates
<1> QED BY <1>3, <1>5, <1>6 DEF IInv

LEMMA ShouldIgnoreInv ==
  ASSUME IInv, UNCHANGED settings, ShouldIgnore
  PROVE  IInv'
<1> DEFINE a == Asked(ob[turn], "info")
<1>1. /\ phase = "taking" /\ ob' = [ob EXCEPT ![turn] = a]
      /\ files' = files - 1 /\ Continues
      /\ UNCHANGED <<at, result, faults, loads>>
  BY DEF ShouldIgnore, Pops
<1>2. /\ a \in Clients /\ Sound(a) /\ InPlace(a, at[turn])
      /\ Normal(a) => a.pending = "none" /\ a.last \in Idle
      /\ Stale(a) => Stale(ob[turn])
      /\ ob[turn].errs \subseteq a.errs
      /\ files \in 1..NumReplays
  BY <1>1, InfoFacts
<1>3. fate' \in [Replays -> Fates] /\ loads' \in [Replays -> Nat]
  BY <1>1, StateFacts DEF IInv, TypeOK, ShouldIgnore, Fates
<1>4. files' \in 0..NumReplays /\ (files # 1 => files' > 0)
  BY <1>1, <1>2, ConstantFacts
<1>5. \/ Passes
      \/ /\ phase' \in {"taking", "taken"} /\ UNCHANGED <<turn, started>>
         /\ files' > 0
  BY <1>1, <1>4, ContinuesFacts
<1> HIDE DEF a
<1>6. Normal(a) => a.last # "unknown"
  BY <1>2
<1> QED BY <1>1, <1>2, <1>3, <1>4, <1>5, <1>6, TakingFacts

LEMMA ShouldRelaunchInv ==
  ASSUME IInv, UNCHANGED settings, ShouldRelaunch
  PROVE  IInv'
<1> DEFINE a == Asked(ob[turn], "info")
           c == [a EXCEPT !.errs = a.errs \cup {"WrongGameVersion"}]
<1>0. turn \in Observers /\ ob \in [Observers -> Clients]
  BY StateFacts DEF IInv
<1>1. /\ phase = "taking" /\ Passes /\ ob' = [ob EXCEPT ![turn] = c]
      /\ UNCHANGED <<at, files, result, faults, fate, loads>>
  <2>1. ob' = [ob EXCEPT ![turn] = c]
    BY DEF ShouldRelaunch
  <2>2. /\ phase = "taking" /\ Passes
        /\ UNCHANGED <<at, files, result, faults, fate, loads>>
    BY DonePasses DEF ShouldRelaunch
  <2> QED BY <2>1, <2>2
<1>2. /\ a \in Clients /\ Sound(a) /\ InPlace(a, at[turn])
      /\ Normal(a) => a.pending = "none" /\ a.last \in Idle
      /\ Stale(a) => Stale(ob[turn])
      /\ ob[turn].errs \subseteq a.errs
      /\ files \in 1..NumReplays
  BY <1>1, InfoFacts
<1> HIDE DEF a
<1>3. a.errs \cup {"WrongGameVersion"} \in SUBSET Errors
  BY <1>2 DEF Clients, Errors
<1>4. c \in Clients
  BY <1>2, <1>3 DEF Clients
<1>5. Called(c, [a EXCEPT !.errs = c.errs]) /\ c.errs = a.errs \cup {"WrongGameVersion"}
      /\ c.app = a.app /\ c.last = a.last /\ c.pending = a.pending /\ c.game = a.game
      /\ c.status = a.status /\ c.loop = a.loop /\ c.cur = a.cur /\ c.conn = a.conn
      /\ c.reply = a.reply
  BY <1>2 DEF Called, Clients
<1> HIDE DEF c
<1>6. a.errs \subseteq c.errs
  BY <1>5
<1>7. Recorded(c) /\ Awaits(c)
  BY <1>2, <1>5, <1>6 DEF Sound, Recorded, Awaits
<1>8. Knows(c) /\ Counts(c)
  BY <1>2, <1>5 DEF Sound, Knows, Counts
<1>9. InPlace(c, at[turn]) /\ (Stale(c) => Stale(ob[turn])) /\ ob[turn].errs \subseteq c.errs
      /\ (Normal(c) => c.last # "unknown")
  BY <1>2, <1>5, <1>6 DEF InPlace, Stale
<1>10. fate' \in [Replays -> Fates] /\ loads' \in [Replays -> Nat] /\ files' \in 0..NumReplays
  BY <1>1, StateFacts DEF IInv, TypeOK
<1> QED BY <1>1, <1>4, <1>7, <1>8, <1>9, <1>10, TakingFacts DEF Sound

LEMMA TakesReplayInv ==
  ASSUME IInv, UNCHANGED settings, TakesReplay
  PROVE  IInv'
<1> DEFINE a == Asked(ob[turn], "info")
<1>0. turn \in Observers /\ ob \in [Observers -> Clients]
  BY StateFacts DEF IInv
<1>1. /\ phase = "taking" /\ phase' = "taken" /\ ob' = [ob EXCEPT ![turn] = a]
      /\ UNCHANGED <<turn, at, started, files, result, faults, fate, loads>>
  BY <1>0 DEF TakesReplay
<1>2. /\ a \in Clients /\ Sound(a) /\ InPlace(a, at[turn])
      /\ Normal(a) => a.pending = "none" /\ a.last \in Idle
      /\ Stale(a) => Stale(ob[turn])
      /\ ob[turn].errs \subseteq a.errs
      /\ files \in 1..NumReplays
  BY <1>1, InfoFacts
<1> HIDE DEF a
<1>3. fate' \in [Replays -> Fates] /\ loads' \in [Replays -> Nat] /\ files' \in 0..NumReplays
      /\ files' > 0 /\ (Normal(a) => a.last # "unknown")
  BY <1>1, <1>2, StateFacts DEF IInv, TypeOK
<1> QED BY <1>1, <1>2, <1>3, TakingFacts

LEMMA LoadReplayInv ==
  ASSUME IInv, UNCHANGED settings, LoadReplay
  PROVE  IInv'
<1> DEFINE b == ob[turn]
           c == [b EXCEPT !.pending = "load", !.file = files]
<1>1. /\ phase = "taken" /\ files' = files - 1 /\ UNCHANGED <<at, result, faults>>
  BY DEF LoadReplay, Pops
<1>2. b \in Clients /\ turn \in Observers /\ ob \in [Observers -> Clients]
      /\ files \in 0..NumReplays
  BY StateFacts DEF IInv
<1>3. /\ at[turn] \in {"start", "done"} /\ files > 0
      /\ Normal(b) => b.pending = "none" /\ b.last \in Idle
      /\ Sound(b) /\ InPlace(b, at[turn])
  BY <1>1, <1>2 DEF IInv, ControlInv, ClientsInv
<1>4. files' \in 0..NumReplays /\ (files # 1 => files' > 0)
  BY <1>1, <1>2, <1>3, ConstantFacts
<1>5. fate' \in [Replays -> Fates] /\ loads' \in [Replays -> Nat]
  BY <1>1, <1>2 DEF IInv, TypeOK, LoadReplay, Fates
<1>6. CASE CanSend(b)
  <2>1. ob' = [ob EXCEPT ![turn] = c] /\ Passes
    BY <1>2, <1>6, DonePasses DEF LoadReplay
  <2>2. c \in Clients
    BY <1>2 DEF Clients
  <2>3. /\ c.pending = "load" /\ c.last = b.last /\ c.app = b.app /\ c.errs = b.errs
        /\ c.cur = b.cur /\ c.conn = b.conn /\ c.reply = b.reply /\ c.status = b.status
        /\ c.loop = b.loop /\ c.game = b.game
    BY <1>2 DEF Clients
  <2> HIDE DEF c
  <2>4. Recorded(c) /\ Awaits(c)
    BY <1>3, <2>3 DEF Sound, Recorded, Awaits
  <2>5. Knows(c) /\ Counts(c)
    BY <1>3, <2>3 DEF Sound, Knows, Counts
  <2>6. InPlace(c, at[turn]) /\ (Stale(c) => Stale(b)) /\ b.errs \subseteq c.errs
        /\ (Normal(c) => c.last # "unknown")
    BY <1>3, <2>3 DEF InPlace, Stale
  <2> QED BY <1>1, <1>4, <1>5, <2>1, <2>2, <2>4, <2>5, <2>6, TakingFacts DEF Sound
<1>7. CASE ~CanSend(b)
  <2>1. ob' = ob /\ Continues
    BY <1>7 DEF LoadReplay
  <2>2. ob' = [ob EXCEPT ![turn] = b]
    BY <1>2, <2>1
  <2>3. \/ Passes
        \/ phase' \in {"taking", "taken"} /\ UNCHANGED <<turn, started>> /\ files' > 0
    BY <1>4, <2>1, ContinuesFacts
  <2>4. Normal(b) => b.last # "unknown"
    BY <1>3
  <2> QED BY <1>1, <1>2, <1>3, <1>4, <1>5, <2>2, <2>3, <2>4, TakingFacts
<1> QED BY <1>6, <1>7

LEMMA UpdateReturnsInv ==
  ASSUME IInv, UNCHANGED settings, UpdateReturns
  PROVE  IInv'
<1>1. /\ phase = "checking" /\ phase' \in {"user", "stuck"}
      /\ UNCHANGED <<turn, at, started, files, faults, fate, loads, ob>>
      /\ phase' # "user" => result' = result
      /\ result' \in BOOLEAN
      /\ phase' = "user" /\ result' => \A r \in Observers : ob[r].errs = {}
  BY StateFacts DEF UpdateReturns, IInv, TypeOK
<1>2. ClientsInv' /\ StaleInv'
  BY <1>1, RestsFacts DEF IInv
<1>3. TypeOK'
  BY <1>1 DEF IInv, TypeOK, Observers, Replays, Clients, Errors, Unset
<1>4. started \/ phase' = "user"
  BY <1>1 DEF IInv, ControlInv, Loading, Fresh, UpdateReturns
<1>5. ControlInv'
  <2>1. ~started => \A r \in Observers : Fresh(ob[r]) /\ Fresh(ob[r])'
    BY <1>1 DEF IInv, ControlInv, Loading, Fresh, Unset
  <2>2. (~started /\ phase \notin Loading => \A r \in Observers : Fresh(ob[r]))'
    BY <1>1, <2>1 DEF Observers
  <2>3. \A r \in Observers : at[r] \in {"start", "done"}
    BY <1>1 DEF IInv, ControlInv
  <2>5. (phase # "user" => result)'
    BY <1>1 DEF IInv, ControlInv
  <2>6. (~started => phase \in {"user", "starting", "checking"} \cup Loading)'
    BY <1>1, <1>4
  <2>4. (started \/ phase \in Loading =>
           \A r \in Observers : Normal(ob[r]) => ob[r].last # "unknown")'
    BY <1>1 DEF IInv, ControlInv, Loading, Observers
  <2> QED BY <1>1, <2>2, <2>3, <2>4, <2>5, <2>6 DEF ControlInv, Observers
<1> QED BY <1>2, <1>3, <1>5 DEF IInv

-----------------------------------------------------------------------------
(***************************************************************************)
(* The SC2 processes, and every step                                       *)
(***************************************************************************)

(* What SC2 does leaves alone what the client has done and seen.           *)
Untouched(b, c) ==
  /\ c.pending = b.pending /\ c.last = b.last /\ c.app = b.app
  /\ c.cur = b.cur /\ c.prev = b.prev /\ c.file = b.file
  /\ c.game = b.game /\ c.seen = b.seen /\ c.odd = b.odd
  /\ b.errs \subseteq c.errs

LEMMA EnvFacts ==
  ASSUME IInv, UNCHANGED settings, NEW r \in Observers, NEW b \in Clients,
         Sound(b), InPlace(b, at[r]), Env(r, b), Untouched(ob[r], b),
         faults' \in 0..MaxFaults,
         Fresh(ob[r]) => started
  PROVE  IInv'
<1>1. /\ ob' = [ob EXCEPT ![r] = b]
      /\ UNCHANGED <<phase, turn, started, files, result, loads, at, fate>>
  BY DEF Env, coordinator
<1>2. Stale(b) => Stale(ob[r])
  BY DEF Stale, Untouched
<1>3. /\ ob' \in [Observers -> Clients] /\ ClientsInv' /\ StaleInv'
      /\ \A s \in Observers : ob'[s] = IF s = r THEN b ELSE ob[s]
  BY <1>1, <1>2, StaysFacts DEF IInv, Untouched
<1>4. TypeOK'
  BY <1>1, <1>3 DEF IInv, TypeOK, Observers, Replays, Clients, Errors, Unset
<1>5. \A s \in Observers : /\ ob'[s].app = ob[s].app /\ ob'[s].last = ob[s].last
                           /\ ob'[s].pending = ob[s].pending
  BY <1>3 DEF Untouched
<1>6. turn \in Observers
  BY StateFacts DEF IInv
<1>7. ~started => phase \in Loading
  BY DEF IInv, ControlInv
<1>8. ControlInv'
  BY <1>1, <1>5, <1>6, <1>7 DEF IInv, ControlInv, Loading, Observers
<1> QED BY <1>3, <1>4, <1>8 DEF IInv

LEMMA LoadsAnswer ==
  ASSUME IInv, UNCHANGED settings, NEW r \in Observers, Loads(r)
  PROVE  IInv'
<1> DEFINE b == ob[r]
<1>1. /\ b \in Clients /\ Sound(b) /\ InPlace(b, at[r]) /\ at[r] \in Places
      /\ b.pending = "load" /\ b.reply = "none" /\ ~Fresh(b)
      /\ faults' \in 0..MaxFaults
  BY TypeFacts DEF IInv, ClientsInv, Loads, Fresh, TypeOK
<1>2. CASE Env(r, [b EXCEPT !.reply = "loaded", !.status = "replay", !.loop = 1])
  <2> DEFINE c == [b EXCEPT !.reply = "loaded", !.status = "replay", !.loop = 1]
  <2>1. 1 \in 0..MaxLoops + 1 /\ 1 \in 1..MaxLoops
    BY ConstantFacts
  <2>2. c \in Clients
    BY <1>1, <2>1 DEF Clients
  <2>3. /\ Untouched(b, c) /\ c.conn = b.conn /\ c.errs = b.errs
        /\ c.reply = "loaded" /\ c.status = "replay" /\ c.loop = 1
    BY <1>1 DEF Untouched, Clients
  <2>4. Env(r, c)
    BY <1>2
  <2> HIDE DEF c
  <2>5. Recorded(c) /\ Awaits(c)
    BY <1>1, <2>3 DEF Sound, Recorded, Awaits, Untouched
  <2>6. Knows(c) /\ Counts(c)
    BY <1>1, <2>1, <2>3 DEF Sound, Awaits, Knows, Counts, Untouched
  <2>7. InPlace(c, at[r])
    BY <1>1, <2>3 DEF InPlace, Untouched
  <2> QED BY <1>1, <2>2, <2>3, <2>4, <2>5, <2>6, <2>7, EnvFacts DEF Sound
<1>3. CASE Env(r, [b EXCEPT !.reply = "rejected"])
  <2> DEFINE c == [b EXCEPT !.reply = "rejected"]
  <2>2. c \in Clients
    BY <1>1 DEF Clients
  <2>3. /\ Untouched(b, c) /\ c.conn = b.conn /\ c.errs = b.errs
        /\ c.reply = "rejected" /\ c.status = b.status /\ c.loop = b.loop
    BY <1>1 DEF Untouched, Clients
  <2>4. Env(r, c)
    BY <1>3
  <2> HIDE DEF c
  <2>5. Recorded(c) /\ Awaits(c)
    BY <1>1, <2>3 DEF Sound, Recorded, Awaits, Untouched
  <2>6. Knows(c) /\ Counts(c)
    BY <1>1, <2>3 DEF Sound, Knows, Counts, Untouched
  <2>7. InPlace(c, at[r])
    BY <1>1, <2>3 DEF InPlace, Untouched
  <2> QED BY <1>1, <2>2, <2>3, <2>4, <2>5, <2>6, <2>7, EnvFacts DEF Sound
<1>4. CASE Env(r, [b EXCEPT !.reply = "error", !.conn = "up"])
  <2> DEFINE c == [b EXCEPT !.reply = "error", !.conn = "up"]
  <2>2. c \in Clients
    BY <1>1 DEF Clients
  <2>3. /\ Untouched(b, c) /\ c.conn = "up" /\ c.errs = b.errs
        /\ c.reply = "error" /\ c.status = b.status /\ c.loop = b.loop
    BY <1>1 DEF Untouched, Clients
  <2>4. Env(r, c)
    BY <1>4
  <2> HIDE DEF c
  <2>5. Recorded(c) /\ Awaits(c)
    BY <1>1, <2>3 DEF Sound, Recorded, Awaits, Untouched
  <2>6. Knows(c) /\ Counts(c)
    BY <1>1, <2>3 DEF Sound, Knows, Counts, Untouched
  <2>7. InPlace(c, at[r])
    BY <1>1, <2>3 DEF InPlace, Untouched
  <2> QED BY <1>1, <2>2, <2>3, <2>4, <2>5, <2>6, <2>7, EnvFacts DEF Sound
<1> QED BY <1>2, <1>3, <1>4 DEF Loads

LEMMA AdvancesInv ==
  ASSUME IInv, UNCHANGED settings, NEW r \in Observers, Advances(r)
  PROVE  IInv'
<1> DEFINE b == ob[r]
<1>1. PICK over \in BOOLEAN :
        /\ b.loop = MaxLoops => over
        /\ Env(r, [b EXCEPT !.loop = b.loop + 1,
                     !.status = IF over THEN "ended" ELSE b.status])
  BY DEF Advances
<1> DEFINE l == b.loop + 1
           t == IF over THEN "ended" ELSE b.status
           c == [b EXCEPT !.loop = l, !.status = t]
<1>2. /\ b \in Clients /\ Sound(b) /\ InPlace(b, at[r])
      /\ Realtime /\ b.status = "replay" /\ b.cur = b.loop /\ ~Fresh(b)
      /\ faults' \in 0..MaxFaults
  BY TypeFacts DEF IInv, ClientsInv, Advances, Fresh, TypeOK
<1>3. b.loop \in 1..MaxLoops
  BY <1>2 DEF Sound, Counts
<1>4. l \in 0..MaxLoops + 1 /\ l >= 2 /\ t \in {"replay", "ended"}
      /\ (t = "replay" => l \in 1..MaxLoops)
  BY <1>1, <1>2, <1>3, ConstantFacts
<1>5. Env(r, c)
  BY <1>1
<1> HIDE DEF l, t
<1>6. c \in Clients
  BY <1>2, <1>4 DEF Clients
<1>7. /\ Untouched(b, c) /\ c.conn = b.conn /\ c.errs = b.errs
      /\ c.reply = b.reply /\ c.status = t /\ c.loop = l
  BY <1>2 DEF Untouched, Clients
<1> HIDE DEF c
<1>8. Recorded(c) /\ Awaits(c)
  BY <1>2, <1>7 DEF Sound, Recorded, Awaits, Untouched
<1>9. Knows(c)
  BY <1>2, <1>4, <1>7 DEF Sound, Knows, Untouched
<1>10. b.reply = "loaded" => b.cur = 1
  BY <1>2 DEF Sound, Counts
<1>11. Counts(c)
  BY <1>2, <1>4, <1>7, <1>10 DEF Sound, Counts, Untouched
<1>12. InPlace(c, at[r])
  BY <1>2, <1>7 DEF InPlace, Untouched
<1> QED BY <1>2, <1>5, <1>6, <1>7, <1>8, <1>9, <1>11, <1>12, EnvFacts DEF Sound

LEMMA BreaksInv ==
  ASSUME IInv, UNCHANGED settings, NEW r \in Observers, Breaks(r)
  PROVE  IInv'
<1> DEFINE b == ob[r]
<1>1. PICK k \in {"upset", "hung", "closed"} :
        Env(r, [b EXCEPT !.conn = k,
                  !.errs = IF k = "closed" THEN b.errs \cup {"ConnectionClosed"}
                           ELSE b.errs])
  BY DEF Breaks
<1> DEFINE e == IF k = "closed" THEN b.errs \cup {"ConnectionClosed"} ELSE b.errs
           c == [b EXCEPT !.conn = k, !.errs = e]
<1>2. /\ b \in Clients /\ Sound(b) /\ InPlace(b, at[r])
      /\ started /\ faults < MaxFaults /\ faults' = faults + 1 /\ faults \in 0..MaxFaults
  BY TypeFacts DEF IInv, ClientsInv, Breaks, TypeOK
<1>3. faults' \in 0..MaxFaults
  BY <1>2, ConstantFacts
<1>4. e \in SUBSET Errors /\ b.errs \subseteq e /\ (k = "closed" => "ConnectionClosed" \in e)
  BY <1>2 DEF Clients, Errors
<1>5. Env(r, c)
  BY <1>1
<1> HIDE DEF e
<1>6. c \in Clients
  BY <1>2, <1>4 DEF Clients
<1>7. /\ Untouched(b, c) /\ c.conn = k /\ c.errs = e
      /\ c.reply = b.reply /\ c.status = b.status /\ c.loop = b.loop
  BY <1>2, <1>4 DEF Untouched, Clients
<1> HIDE DEF c
<1>8. Recorded(c) /\ Awaits(c)
  BY <1>2, <1>4, <1>7 DEF Sound, Recorded, Awaits, Untouched
<1>9. Knows(c) /\ Counts(c)
  BY <1>2, <1>7 DEF Sound, Knows, Counts, Untouched
<1>10. InPlace(c, at[r])
  BY <1>2, <1>7 DEF InPlace, Untouched
<1> QED BY <1>2, <1>3, <1>5, <1>6, <1>7, <1>8, <1>9, <1>10, EnvFacts DEF Sound

(* A step of SC2: a fault, or nothing that looks like one.                 *)
LEMMA EnvShape ==
  ASSUME IInv, NEW r \in Observers, Loads(r) \/ Advances(r) \/ Breaks(r)
  PROVE  \E c : /\ Env(r, c) /\ Untouched(ob[r], c) /\ UNCHANGED <<phase, turn, at>>
               /\ \/ faults' = faults + 1
                  \/ /\ faults' = faults /\ c.errs = ob[r].errs
                     /\ ob[r].conn = "up" => c.conn = "up"
<1> DEFINE b == ob[r]
           Like(c) == /\ Untouched(b, c) /\ c.errs = b.errs
                      /\ b.conn = "up" => c.conn = "up"
<1>1. b \in Clients
  BY TypeFacts DEF IInv
<1>2. ASSUME NEW c, Env(r, c) PROVE UNCHANGED <<phase, turn, at>>
  BY <1>2 DEF Env, coordinator
<1>3. CASE Loads(r)
  <2>1. Like([b EXCEPT !.reply = "loaded", !.status = "replay", !.loop = 1])
    BY <1>1 DEF Untouched, Clients
  <2>2. Like([b EXCEPT !.reply = "rejected"])
    BY <1>1 DEF Untouched, Clients
  <2>3. Like([b EXCEPT !.reply = "error", !.conn = "up"])
    BY <1>1 DEF Untouched, Clients
  <2>4. PICK c : Env(r, c) /\ Like(c)
    <3> HIDE DEF Like
    <3> QED BY <1>3, <2>1, <2>2, <2>3 DEF Loads
  <2>5. faults' = faults
    BY <1>3 DEF Loads
  <2> QED BY <1>2, <2>4, <2>5
<1>4. CASE Advances(r)
  <2>1. PICK over \in BOOLEAN : Env(r, [b EXCEPT !.loop = b.loop + 1,
                                    !.status = IF over THEN "ended" ELSE b.status])
    BY <1>4 DEF Advances
  <2> DEFINE l == b.loop + 1
             t == IF over THEN "ended" ELSE b.status
             c == [b EXCEPT !.loop = l, !.status = t]
  <2>2. Env(r, c) /\ faults' = faults
    BY <1>4, <2>1 DEF Advances
  <2> HIDE DEF l, t
  <2>3. Like(c)
    BY <1>1 DEF Untouched, Clients
  <2> HIDE DEF c
  <2> QED BY <1>2, <2>2, <2>3
<1>5. CASE Breaks(r)
  <2>1. PICK k \in {"upset", "hung", "closed"} :
          Env(r, [b EXCEPT !.conn = k,
                    !.errs = IF k = "closed" THEN b.errs \cup {"ConnectionClosed"}
                             ELSE b.errs])
    BY <1>5 DEF Breaks
  <2> DEFINE e == IF k = "closed" THEN b.errs \cup {"ConnectionClosed"} ELSE b.errs
             c == [b EXCEPT !.conn = k, !.errs = e]
  <2>2. Env(r, c) /\ faults' = faults + 1 /\ b.errs \subseteq e
    BY <1>5, <2>1 DEF Breaks
  <2> HIDE DEF e
  <2>3. Untouched(b, c)
    BY <1>1, <2>2 DEF Untouched, Clients
  <2> HIDE DEF c
  <2> QED BY <1>2, <2>2, <2>3
<1> QED BY <1>3, <1>4, <1>5

LEMMA RunsInv ==
  ASSUME IInv, UNCHANGED settings, NEW r \in Observers, Runs(r)
  PROVE  IInv'
<1>1. phase = "stepping"
  BY DEF Runs
<1> QED BY <1>1, RunReplayInv, WaitForReplayInv, FirstObservationInv, StepGameInv,
           ObserveGameInv, ReplayCallbacksInv DEF Runs

LEMMA InitInv == Init => IInv
<1> SUFFICES ASSUME Init PROVE IInv
  OBVIOUS
<1> DEFINE b0 == [pending |-> "none", last |-> "unknown", app |-> "normal", errs |-> {},
        cur |-> Unset, prev |-> Unset, conn |-> "up", reply |-> "none",
        status |-> "launched", loop |-> 0, file |-> 0,
        game |-> "none", seen |-> 0, odd |-> {}]
<1>1. b0 \in Clients
  <2>1. Unset \in 0..Unset /\ 0 \in 0..Unset /\ 0 \in 0..MaxLoops + 1 /\ 0 \in 0..NumReplays
    BY ConstantFacts
  <2>2. {} \in SUBSET Errors
    OBVIOUS
  <2> QED BY <2>1, <2>2 DEF Clients
<1>2. /\ ob = [r \in Observers |-> b0] /\ at = [r \in Observers |-> "done"]
      /\ phase = "user" /\ turn = 1 /\ ~started /\ result /\ files = NumReplays /\ faults = 0
      /\ fate = [f \in Replays |-> "listed"] /\ loads = [f \in Replays |-> 0]
      /\ settings \in [multiThreaded : BOOLEAN, realtime : BOOLEAN, recovery : BOOLEAN]
      /\ started \in BOOLEAN /\ result \in BOOLEAN
  BY DEF Init
<1>3. /\ b0.pending = "none" /\ b0.last = "unknown" /\ b0.app = "normal" /\ b0.errs = {}
      /\ b0.cur = Unset /\ b0.conn = "up" /\ b0.reply = "none" /\ b0.status = "launched"
      /\ b0.game = "none"
  OBVIOUS
<1> HIDE DEF b0
<1>4. Sound(b0) /\ InPlace(b0, "done") /\ Fresh(b0) /\ ~Stale(b0)
  BY <1>3, ConstantFacts DEF Sound, Recorded, Awaits, Knows, Counts, InPlace, Fresh, Stale
<1>5. \A r \in Observers : ob[r] = b0 /\ at[r] = "done"
  BY <1>2
<1>6. ClientsInv /\ StaleInv /\ ControlInv
  BY <1>2, <1>4, <1>5 DEF ClientsInv, StaleInv, ControlInv, Loading
<1>7. turn \in Observers /\ files \in 0..NumReplays /\ faults \in 0..MaxFaults
  BY <1>2, ConstantFacts DEF Observers
<1>8. TypeOK
  BY <1>1, <1>2, <1>7 DEF TypeOK
<1> QED BY <1>6, <1>8 DEF IInv

LEMMA NextInv == IInv /\ [Next]_vars => IInv'
<1> SUFFICES ASSUME IInv, [Next]_vars PROVE IInv'
  OBVIOUS
<1>1. CASE UNCHANGED vars
  <2>1. UNCHANGED <<settings, phase, turn, at, started, files, result, faults, fate, loads, ob>>
    BY <1>1 DEF vars
  <2>2. ClientsInv' /\ StaleInv'
    BY <2>1, RestsFacts DEF IInv
  <2>3. TypeOK'
    BY <2>1 DEF IInv, TypeOK, Observers, Replays, Clients, Errors, Unset
  <2>4. ControlInv'
    BY <2>1 DEF IInv, ControlInv, Loading, Observers, Fresh, Unset
  <2> QED BY <2>2, <2>3, <2>4 DEF IInv
<1>2. CASE Next
  <2>1. UNCHANGED settings
    BY <1>2 DEF Next
  <2>2. CASE Update
    BY <2>1, <2>2, StepsDoneInv, SerialCallbacksInv, LaunchProcessesInv, StartReplayInv,
       ShouldIgnoreInv, ShouldRelaunchInv, TakesReplayInv, LoadReplayInv,
       UpdateReturnsInv, ReplayFaultsInv DEF Update
  <2> QED BY <1>2, <2>1, <2>2, CallUpdateInv, RunsInv, LoadsAnswer, AdvancesInv, BreaksInv
          DEF Next
<1> QED BY <1>1, <1>2

(* The invariant that the others rest on: where run_replay is for each     *)
(* observer fits what its client awaits and has seen, and the coordinator  *)
(* is where it may be.                                                     *)
THEOREM Inductive == Spec => []IInv
BY InitInv, NextInv, PTL DEF Spec

(* Every variable has its type; the loops stay within their bounds, since  *)
(* an observer only steps a replay that SC2 has not ended.                 *)
THEOREM TypeCorrect == Spec => []TypeOK
<1>1. IInv => TypeOK
  BY DEF IInv
<1> QED BY <1>1, Inductive, PTL

(* A game that was announced is over or still on whenever the user has     *)
(* control: OnGameEnd is called in the Update that finds the game over.    *)
THEOREM EndAnnounced == Spec => []EndIsAnnounced
<1>1. IInv => EndIsAnnounced
  <2> SUFFICES ASSUME IInv, phase = "user", NoErrors, NEW r \in Observers
               PROVE  ob[r].game = "on" <=> IsInGame(ob[r])
    BY DEF EndIsAnnounced
  <2>1. at[r] \in {"start", "done"} /\ Sound(ob[r]) /\ InPlace(ob[r], at[r])
    BY DEF IInv, ControlInv, ClientsInv
  <2>2. ob[r].errs = {} /\ ob[r].app \in {"normal", "failed"}
    BY TypeFacts DEF NoErrors, IInv, Clients
  <2>3. Normal(ob[r])
    BY <2>1, <2>2 DEF Sound, Recorded
  <2> QED BY <2>1, <2>3 DEF InPlace, IsInGame
<1> QED BY <1>1, Inductive, PTL

-----------------------------------------------------------------------------
(***************************************************************************)
(* The list of replays                                                     *)
(***************************************************************************)

(* Only the two ends of TakesReplay's loop take from the list.             *)
LEMMA ListFacts ==
  ASSUME [Next]_vars
  PROVE  \/ UNCHANGED <<files, loads>>
         \/ ShouldIgnore
         \/ LoadReplay
<1>1. CASE UNCHANGED vars
  BY <1>1 DEF vars
<1>2. CASE CallUpdate \/ StepsDone \/ SerialCallbacks \/ LaunchProcesses \/ StartReplay
           \/ ShouldRelaunch \/ TakesReplay \/ UpdateReturns
           \/ \E r \in Observers : ReplayFaults(r)
  BY <1>2 DEF CallUpdate, StepsDone, SerialCallbacks, LaunchProcesses, StartReplay,
     ShouldRelaunch, TakesReplay, UpdateReturns, ReplayFaults
<1>3. ASSUME NEW r \in Observers, Runs(r) PROVE UNCHANGED <<files, loads>>
  BY <1>3 DEF Runs, RunReplay, WaitForReplay, FirstObservation, StepGame, ObserveGame,
     ReplayCallbacks, Goes, coordinator
<1>4. ASSUME NEW r \in Observers, Loads(r) \/ Advances(r) \/ Breaks(r)
      PROVE  UNCHANGED <<files, loads>>
  BY <1>4 DEF Loads, Advances, Breaks, Env, coordinator
<1> QED BY <1>1, <1>2, <1>3, <1>4 DEF Next, Update

LEMMA NextLoads == IInv /\ LoadsInv /\ [Next]_vars => LoadsInv'
<1> SUFFICES ASSUME IInv, LoadsInv, [Next]_vars PROVE LoadsInv'
  OBVIOUS
<1>1. /\ files \in 0..NumReplays /\ loads \in [Replays -> Nat]
      /\ phase \in {"taking", "taken"} => files > 0
  BY StateFacts DEF IInv, TypeOK, ControlInv
<1>2. CASE UNCHANGED <<files, loads>>
  BY <1>2 DEF LoadsInv, Replays
<1>3. CASE ShouldIgnore
  <2>1. files' = files - 1 /\ loads' = loads
    BY <1>3 DEF ShouldIgnore, Pops
  <2> QED BY <1>1, <2>1, ConstantFacts DEF LoadsInv, Replays
<1>4. CASE LoadReplay
  <2>1. files' = files - 1 /\ files > 0
        /\ loads' \in {loads, [loads EXCEPT ![files] = loads[files] + 1]}
    BY <1>1, <1>4 DEF LoadReplay, Pops
  <2>2. files \in Replays
    BY <1>1, <2>1, ConstantFacts DEF Replays
  <2>3. loads[files] = 0
    BY <1>1, <2>2 DEF LoadsInv
  <2>4. ASSUME NEW f \in Replays
        PROVE  loads'[f] <= 1 /\ (f <= files' => loads'[f] = 0)
    <3>1. loads[f] \in Nat /\ f \in Nat /\ loads[f] <= 1 /\ (f <= files => loads[f] = 0)
      BY <1>1 DEF LoadsInv, Replays
    <3>2. f # files => loads'[f] = loads[f]
      BY <1>1, <2>1
    <3>3. f = files => loads'[f] \in {0, 1}
      BY <1>1, <2>1, <2>2, <2>3
    <3> QED BY <1>1, <2>1, <3>1, <3>2, <3>3, ConstantFacts
  <2> QED BY <2>4 DEF LoadsInv, Replays
<1> QED BY <1>2, <1>3, <1>4, ListFacts

(* No replay is analysed twice, by one observer or by two: one that is     *)
(* sent leaves the list in the same step, and the list only gets shorter.  *)
THEOREM RunsOnce == Spec => []ReplaysRunOnce
<1>1. Init => LoadsInv
  BY DEF Init, LoadsInv
<1>2. LoadsInv => ReplaysRunOnce
  BY DEF LoadsInv, ReplaysRunOnce
<1> QED BY <1>1, <1>2, NextLoads, Inductive, PTL DEF Spec

-----------------------------------------------------------------------------
(***************************************************************************)
(* Without faults                                                          *)
(***************************************************************************)
ModeInv == phase = "callbacks" => ~MultiThreaded

LEMMA Mode == Spec => []ModeInv
<1>1. Init => ModeInv
  BY DEF Init, ModeInv
<1>2. ASSUME ModeInv, [Next]_vars PROVE ModeInv'
  <2>1. CASE UNCHANGED vars
    BY <1>2, <2>1 DEF vars, ModeInv, MultiThreaded
  <2>2. CASE UNCHANGED settings /\ (StepsDone \/ SerialCallbacks)
    BY <1>2, <2>2 DEF ModeInv, MultiThreaded, StepsDone, SerialCallbacks, Leaves, AfterSteps
  <2>3. CASE CallUpdate \/ LaunchProcesses \/ StartReplay
             \/ ShouldRelaunch \/ ShouldIgnore \/ LoadReplay \/ TakesReplay \/ UpdateReturns
             \/ \E r \in Observers : ReplayFaults(r)
    BY <2>3 DEF ModeInv, CallUpdate, LaunchProcesses, StartReplay, ShouldRelaunch, ShouldIgnore,
       LoadReplay, TakesReplay, UpdateReturns, ReplayFaults, Continues, Done, NextTurn, Leaves
  <2>4. ASSUME NEW r \in Observers, Runs(r) PROVE UNCHANGED phase
    BY <2>4 DEF Runs, RunReplay, WaitForReplay, FirstObservation, StepGame, ObserveGame,
       ReplayCallbacks, Goes, coordinator
  <2>5. ASSUME NEW r \in Observers, Loads(r) \/ Advances(r) \/ Breaks(r)
        PROVE  UNCHANGED phase
    BY <2>5 DEF Loads, Advances, Breaks, Env, coordinator
  <2>6. CASE UNCHANGED <<settings, phase>>
    BY <1>2, <2>6 DEF ModeInv, MultiThreaded
  <2> QED BY <1>2, <2>1, <2>2, <2>3, <2>4, <2>5, <2>6 DEF Next, Update
<1> QED BY <1>1, <1>2, PTL DEF Spec

(* What a request leaves of a client that nothing has befallen.            *)
LEMMA CalmAsked ==
  ASSUME NEW b \in Clients, NEW k \in Kinds, Calm(b),
         b.pending = "none" \/ ~MultiThreaded
  PROVE  Calm(Asked(b, k))
<1>1. CASE b.pending = "none"
  <2>1. CanSend(b) /\ b.conn = "up"
    BY <1>1 DEF Calm, CanSend
  <2> QED BY <2>1, AskedFacts DEF Calm
<1>2. CASE b.pending # "none"
  <2>1. b.conn = "up" /\ ~MultiThreaded
    BY <1>2 DEF Calm
  <2> QED BY <1>2, <2>1, AskedFacts DEF Calm
<1> QED BY <1>1, <1>2

LEMMA CalmCalled ==
  ASSUME NEW b, NEW a, Calm(b), Called(a, b)
  PROVE  Calm(a)
BY DEF Calm, Called

LEMMA CalmStepped ==
  ASSUME NEW b \in Clients, NEW acts \in BOOLEAN, Calm(b),
         b.pending = "none" \/ ~MultiThreaded
  PROVE  Calm(Stepped(b, acts))
<1> DEFINE i == Issued(b)
<1>1. i \in Clients /\ Called(i, b)
  BY IssuedFacts
<1>2. Calm(i) /\ i.pending = b.pending /\ "action" \in Kinds
  BY <1>1, CalmCalled DEF Called, Kinds
<1>3. Stepped(b, acts) \in {i, Asked(i, "action")}
  BY DEF Stepped
<1> HIDE DEF i
<1> QED BY <1>1, <1>2, <1>3, CalmAsked

(* A step that leaves a client without a fault as it was in this respect.  *)
LEMMA CalmMoves ==
  ASSUME IInv, CalmInv, UNCHANGED settings, faults' = 0 => faults = 0,
         NEW r \in Observers, NEW c, ob' = [ob EXCEPT ![r] = c],
         faults = 0 => Calm(c)
  PROVE  CalmInv'
<1>1. ob \in [Observers -> Clients]
  BY StateFacts DEF IInv
<1>2. ASSUME faults = 0, NEW s \in Observers PROVE Calm(ob[s])'
  <2>1. Calm(ob'[s])
    BY <1>1, <1>2 DEF CalmInv
  <2> QED BY <2>1 DEF Calm, MultiThreaded
<1> QED BY <1>2 DEF CalmInv, Observers

LEMMA CalmRuns ==
  ASSUME IInv, CalmInv, UNCHANGED settings, NEW r \in Observers, Runs(r)
  PROVE  CalmInv'
<1> DEFINE b == ob[r]
<1>0. b \in Clients /\ Sound(b) /\ InPlace(b, at[r]) /\ (faults = 0 => Calm(b))
  BY TypeFacts DEF IInv, ClientsInv, CalmInv
<1>1. ASSUME NEW c, NEW p, Goes(r, c, p), faults = 0 => Calm(c)
      PROVE  CalmInv'
  <2>1. ob' = [ob EXCEPT ![r] = c] /\ faults' = faults
    BY <1>1 DEF Goes
  <2> QED BY <1>1, <2>1, CalmMoves
<1>2. CASE RunReplay(r)
  BY <1>0, <1>1, <1>2 DEF RunReplay
<1>3. CASE WaitForReplay(r)
  <2> DEFINE c == Got(b, b.reply = "error")
             e == IF b.reply = "error" THEN b.errs \cup {"SC2ProtocolError"} ELSE b.errs
  <2>1. c.conn = b.conn /\ c.app = b.app /\ c.errs = e
    BY <1>0, GotFacts
  <2>2. Calm(b) => Calm(c)
    BY <2>1 DEF Calm
  <2> HIDE DEF c
  <2>3. ASSUME Goes(r, Abandoned(b), "done"), b.conn \in {"hung", "closed"}
        PROVE  CalmInv'
    BY <1>0, <1>1, <2>3 DEF Calm
  <2>4. ASSUME NEW p, Goes(r, c, p) PROVE CalmInv'
    BY <1>0, <1>1, <2>2, <2>4
  <2> QED BY <1>3, <2>3, <2>4 DEF WaitForReplay, c
<1>4. CASE FirstObservation(r)
  <2> DEFINE o == Observed(b)
             g == GameStarts(o)
  <2>1. o \in Clients /\ (faults = 0 => Calm(o))
    <3>1. b.pending = "none" /\ "observation" \in Kinds
      BY <1>0, <1>4 DEF FirstObservation, InPlace, Kinds
    <3>2. faults = 0 => Calm(Asked(b, "observation"))
      BY <1>0, <3>1, CalmAsked
    <3> QED BY <1>0, <3>2, ObservedFacts DEF Calm
  <2> HIDE DEF o
  <2>2. Called(g, o)
    BY <2>1, GameStartsFacts DEF Called
  <2>3. faults = 0 => Calm(g)
    BY <2>1, <2>2, CalmCalled
  <2>4. Goes(r, g, Steps(g))
    BY <1>4 DEF FirstObservation, o
  <2> HIDE DEF g
  <2> QED BY <1>1, <2>3, <2>4
<1>5. CASE StepGame(r)
  <2>1. at[r] = "step" /\ InPlace(b, "step")
    BY <1>0, <1>5 DEF StepGame
  <2>2. CASE b.conn \in {"hung", "closed", "upset"}
    <3>1. faults # 0
      BY <1>0, <2>2 DEF Calm
    <3>2. faults' = faults
      BY <1>5 DEF StepGame, Goes
    <3> QED BY <3>1, <3>2 DEF CalmInv
  <2>3. ASSUME NEW over \in BOOLEAN, b.conn = "up", b.loop = MaxLoops => over,
               Goes(r, Asked([b EXCEPT !.loop = b.loop + 1,
                     !.status = IF over THEN "ended" ELSE b.status], "step"), "observe")
        PROVE  CalmInv'
    <3> DEFINE a == Asked([b EXCEPT !.loop = b.loop + 1,
                     !.status = IF over THEN "ended" ELSE b.status], "step")
    <3>1. InPlace(a, "observe") /\ a.errs = b.errs /\ a.conn = "up"
      BY <1>0, <2>1, <2>3, StepPlace
    <3>2. Goes(r, a, "observe")
      BY <2>3
    <3> HIDE DEF a
    <3>3. Calm(b) => Calm(a)
      BY <3>1 DEF Calm, InPlace
    <3> QED BY <1>0, <1>1, <3>2, <3>3
  <2> QED BY <1>5, <2>2, <2>3 DEF StepGame
<1>6. CASE ObserveGame(r)
  <2> DEFINE o == Observed(b)
  <2>1. o \in Clients /\ (faults = 0 => Calm(o))
    <3>1. b.pending = "none" /\ "observation" \in Kinds
      BY <1>0, <1>6 DEF ObserveGame, InPlace, Kinds
    <3>2. faults = 0 => Calm(Asked(b, "observation"))
      BY <1>0, <3>1, CalmAsked
    <3> QED BY <1>0, <3>2, ObservedFacts DEF Calm
  <2>2. Goes(r, o, "callbacks")
    BY <1>6 DEF ObserveGame
  <2> HIDE DEF o
  <2> QED BY <1>1, <2>1, <2>2
<1>7. CASE ReplayCallbacks(r)
  <2>1. PICK acts \in BOOLEAN : Goes(r, AfterStep(b, acts), "done")
    BY <1>7 DEF ReplayCallbacks
  <2> DEFINE s == IF MultiThreaded THEN Stepped(b, acts) ELSE b
  <2>2. s \in Clients
    BY <1>0, SteppedFacts
  <2>3. faults = 0 => Calm(s)
    <3>1. faults = 0 => b.pending = "none"
      BY <1>0, <1>7 DEF ReplayCallbacks, InPlace, Calm
    <3> QED BY <1>0, <3>1, CalmStepped
  <2>4. AfterStep(b, acts) = EndedIf(s)
    BY DEF AfterStep
  <2> HIDE DEF s
  <2>5. Called(GameEnds(s), s)
    BY <2>2, GameEndsFacts
  <2>6. faults = 0 => Calm(EndedIf(s))
    BY <2>3, <2>5, CalmCalled DEF EndedIf
  <2> QED BY <1>1, <2>1, <2>4, <2>6
<1> QED BY <1>2, <1>3, <1>4, <1>5, <1>6, <1>7 DEF Runs

LEMMA NextCalm == IInv /\ ModeInv /\ CalmInv /\ [Next]_vars => CalmInv'
<1> SUFFICES ASSUME IInv, ModeInv, CalmInv, [Next]_vars PROVE CalmInv'
  OBVIOUS
<1>0. ob \in [Observers -> Clients] /\ turn \in Observers /\ ob[turn] \in Clients
  BY StateFacts DEF IInv
<1>1. CASE UNCHANGED <<settings, faults, ob>>
  BY <1>1 DEF CalmInv, Calm, MultiThreaded, Observers
<1>2. CASE /\ UNCHANGED settings
           /\ \/ CallUpdate \/ StepsDone \/ StartReplay \/ UpdateReturns
              \/ \E r \in Observers : ReplayFaults(r)
  BY <1>1, <1>2 DEF CallUpdate, StepsDone, StartReplay, UpdateReturns, ReplayFaults
<1>3. CASE UNCHANGED settings /\ SerialCallbacks
  <2> DEFINE b == ob[turn]
  <2>1. PICK acts \in BOOLEAN :
          ob' = [ob EXCEPT ![turn] = IF b.app = "normal" THEN Stepped(b, acts) ELSE b]
    BY <1>3 DEF SerialCallbacks
  <2> DEFINE s == IF b.app = "normal" THEN Stepped(b, acts) ELSE b
  <2>2. ~MultiThreaded /\ faults' = faults
    BY <1>3 DEF SerialCallbacks, ModeInv
  <2>3. faults = 0 => Calm(s)
    BY <1>0, <2>2, CalmStepped DEF CalmInv
  <2>4. ob' = [ob EXCEPT ![turn] = s]
    BY <2>1
  <2> HIDE DEF s
  <2> QED BY <1>0, <1>3, <2>2, <2>3, <2>4, CalmMoves
<1>4. CASE UNCHANGED settings /\ LaunchProcesses
  <2>1. faults' = faults /\ (started => ob' = ob)
        /\ (~started => ob' = [r \in Observers |-> [ob[r] EXCEPT !.last = ob[r].status]])
    BY <1>4 DEF LaunchProcesses
  <2>2. ASSUME NEW r \in Observers
        PROVE  ob'[r].conn = ob[r].conn /\ ob'[r].app = ob[r].app /\ ob'[r].errs = ob[r].errs
    <3>1. ob[r] \in Clients
      BY <1>0
    <3>2. LET c == [ob[r] EXCEPT !.last = ob[r].status] IN
            c.conn = ob[r].conn /\ c.app = ob[r].app /\ c.errs = ob[r].errs
      BY <3>1 DEF Clients
    <3> QED BY <2>1, <3>2
  <2> QED BY <1>4, <2>1, <2>2 DEF CalmInv, Calm, MultiThreaded, Observers
<1>5. CASE UNCHANGED settings /\ (ShouldIgnore \/ ShouldRelaunch \/ TakesReplay)
  <2> DEFINE b == ob[turn]
             a == Asked(b, "info")
             c == [a EXCEPT !.errs = a.errs \cup {"WrongGameVersion"}]
  <2>1. phase = "taking" /\ faults' = faults
        /\ (ob' = [ob EXCEPT ![turn] = a] \/ ob' = [ob EXCEPT ![turn] = c])
    BY <1>5 DEF ShouldIgnore, ShouldRelaunch, TakesReplay
  <2>2. faults = 0 => Calm(a)
    <3>1. "info" \in Kinds
      BY DEF Kinds
    <3>2. faults = 0 => Calm(b) /\ b.pending = "none"
      BY <1>0, <2>1 DEF CalmInv, Calm, IInv, ControlInv
    <3> QED BY <1>0, <3>1, <3>2, CalmAsked
  <2>3. a \in Clients
    BY <1>0, AskedFacts DEF Kinds
  <2> HIDE DEF a
  <2>4. c.conn = a.conn /\ c.app = a.app /\ c.errs = a.errs \cup {"WrongGameVersion"}
    BY <2>3 DEF Clients
  <2>5. faults = 0 => Calm(c)
    BY <2>2, <2>4 DEF Calm
  <2> HIDE DEF c
  <2> QED BY <1>0, <1>5, <2>1, <2>2, <2>5, CalmMoves
<1>6. CASE UNCHANGED settings /\ LoadReplay
  <2> DEFINE b == ob[turn]
             c == [b EXCEPT !.pending = "load", !.file = files]
  <2>1. faults' = faults /\ (ob' = ob \/ ob' = [ob EXCEPT ![turn] = c])
    BY <1>0, <1>6 DEF LoadReplay
  <2>2. c.conn = b.conn /\ c.app = b.app /\ c.errs = b.errs
    BY <1>0 DEF Clients
  <2>3. faults = 0 => Calm(c)
    BY <1>0, <2>2 DEF CalmInv, Calm
  <2> HIDE DEF c
  <2> QED BY <1>0, <1>1, <1>6, <2>1, <2>3, CalmMoves
<1>7. CASE UNCHANGED settings /\ \E r \in Observers : Runs(r)
  BY <1>7, CalmRuns
<1>8. ASSUME UNCHANGED settings, NEW r \in Observers, Loads(r) \/ Advances(r) \/ Breaks(r)
      PROVE  CalmInv'
  <2>1. PICK c : /\ Env(r, c) /\ Untouched(ob[r], c) /\ UNCHANGED <<phase, turn, at>>
                 /\ \/ faults' = faults + 1
                    \/ /\ faults' = faults /\ c.errs = ob[r].errs
                       /\ ob[r].conn = "up" => c.conn = "up"
    BY <1>8, EnvShape
  <2>2. ob' = [ob EXCEPT ![r] = c] /\ faults \in Nat
    BY <2>1, ConstantFacts DEF Env, IInv, TypeOK
  <2>3. CASE faults' = faults + 1
    BY <2>2, <2>3 DEF CalmInv
  <2>4. CASE /\ faults' = faults /\ c.errs = ob[r].errs
             /\ ob[r].conn = "up" => c.conn = "up"
    <3>1. faults = 0 => Calm(c)
      BY <2>1, <2>4 DEF CalmInv, Calm, Untouched
    <3> QED BY <1>8, <2>2, <2>4, <3>1, CalmMoves
  <2> QED BY <2>1, <2>3, <2>4
<1> QED BY <1>1, <1>2, <1>3, <1>4, <1>5, <1>6, <1>7, <1>8 DEF Next, Update, vars

(* A replay that is loading is not disturbed by a request: run_replay only *)
(* asks for something when its client awaits nothing, and StartReplay only *)
(* asks idle clients.                                                      *)
THEOREM LeftAlone == Spec => []LoadingIsLeftAlone
<1>1. Init => CalmInv
  BY DEF Init, CalmInv, Calm
<1>2. CalmInv => LoadingIsLeftAlone
  BY DEF CalmInv, Calm, LoadingIsLeftAlone
<1> QED BY <1>1, <1>2, NextCalm, Inductive, Mode, PTL DEF Spec

-----------------------------------------------------------------------------
(***************************************************************************)
(* The callbacks on the threads                                            *)
(***************************************************************************)

(* Where nothing is called back an observer stays in order: the loops its  *)
(* client knows of do not change, and errors are not forgotten.            *)
SameCalls(b, c) ==
  /\ c.game = b.game /\ c.seen = b.seen /\ c.odd = b.odd
  /\ c.cur = b.cur /\ c.prev = b.prev /\ b.errs \subseteq c.errs

LEMMA OrderedKept ==
  ASSUME NEW b, NEW c, NEW p, NEW q, Ordered(b, p), SameCalls(b, c),
         p = "callbacks" <=> q = "callbacks"
  PROVE  Ordered(c, q)
<1>1. c.errs = {} => b.errs = {}
  BY DEF SameCalls
<1>2. InOrder(c)
  BY <1>1 DEF Ordered, InOrder, SameCalls
<1>3. SeenAt(c, q)
  BY <1>1 DEF Ordered, SeenAt, SameCalls
<1> QED BY <1>2, <1>3 DEF Ordered

LEMMA AskedSameCalls ==
  ASSUME NEW b \in Clients, NEW k \in Kinds
  PROVE  SameCalls(b, Asked(b, k))
BY AskedFacts, AskedMonotone DEF Kept, SameCalls

(* OnGameStart, before which no game is on.                                *)
LEMMA FirstOrdered ==
  ASSUME NEW b \in Clients, Sound(b), InPlace(b, "first"), ~ObservationFaults(b),
         Ordered(b, "first"), NEW q, q # "callbacks"
  PROVE  Ordered(GameStarts(Observed(b)), q)
<1> DEFINE a == Asked(b, "observation")
           o == Observed(b)
           g == GameStarts(o)
<1>1. b.pending = "none" /\ b.game # "on" /\ b.loop = 1 /\ "observation" \in Kinds
  BY DEF InPlace, Kinds
<1>2. b.conn \in {"up", "upset", "closed"}
  BY <1>1 DEF ObservationFaults, CanSend, Clients
<1>3. /\ o \in Clients /\ o.game = b.game /\ o.odd = b.odd /\ o.errs = a.errs
      /\ b.conn = "up" => o.cur = 1
  BY <1>1, ObservedFacts DEF CanSend
<1>4. b.errs \subseteq a.errs
  BY <1>1, AskedMonotone
<1>5. b.conn # "up" => a.errs # {}
  <2>1. CASE b.conn = "upset"
    <3>1. a.errs = b.errs \cup {"SC2ProtocolError"}
      BY <1>1, <2>1, AskedFacts DEF CanSend
    <3> QED BY <3>1
  <2>2. CASE b.conn = "closed"
    BY <1>4, <2>2 DEF Sound, Recorded
  <2> QED BY <1>2, <2>1, <2>2
<1> HIDE DEF a, o
<1>6. /\ g.errs = o.errs /\ g.cur = o.cur /\ g.game = "on" /\ g.seen = 0 /\ g.odd = o.odd
  BY <1>1, <1>3, GameStartsFacts
<1> HIDE DEF g
<1>7. InOrder(g)
  BY <1>3, <1>4, <1>6 DEF Ordered, InOrder
<1>8. SeenAt(g, q)
  BY <1>3, <1>5, <1>6 DEF SeenAt
<1> QED BY <1>7, <1>8 DEF Ordered, g, o

(* An observation, after which OnStep may be called.                       *)
LEMMA ObserveOrdered ==
  ASSUME NEW b \in Clients, Sound(b), InPlace(b, "observe"), ~ObservationFaults(b),
         Ordered(b, "observe")
  PROVE  Ordered(Observed(b), "callbacks")
<1> DEFINE a == Asked(b, "observation")
           o == Observed(b)
<1>1. b.pending = "none" /\ b.game = "on" /\ b.loop >= 1 /\ "observation" \in Kinds
  BY DEF InPlace, Kinds, Sound, Counts
<1>2. b.conn \in {"up", "upset", "closed"}
  BY <1>1 DEF ObservationFaults, CanSend, Clients
<1>3. /\ o.game = b.game /\ o.seen = b.seen /\ o.odd = b.odd /\ o.errs = a.errs
      /\ b.conn = "up" => o.cur = b.loop /\ o.prev = b.cur
  BY <1>1, ObservedFacts DEF CanSend
<1>4. b.errs \subseteq a.errs
  BY <1>1, AskedMonotone
<1>5. b.conn # "up" => a.errs # {}
  <2>1. CASE b.conn = "upset"
    <3>1. a.errs = b.errs \cup {"SC2ProtocolError"}
      BY <1>1, <2>1, AskedFacts DEF CanSend
    <3> QED BY <3>1
  <2>2. CASE b.conn = "closed"
    BY <1>4, <2>2 DEF Sound, Recorded
  <2> QED BY <1>2, <2>1, <2>2
<1> HIDE DEF a, o
<1>6. o.errs = {} => b.errs = {} /\ b.conn = "up"
  BY <1>3, <1>4, <1>5
<1>7. InOrder(o)
  BY <1>3, <1>6 DEF Ordered, InOrder
<1>8. SeenAt(o, "callbacks")
  BY <1>1, <1>3, <1>6 DEF Ordered, SeenAt
<1> QED BY <1>7, <1>8 DEF Ordered, o

(* A step that has failed: an error is on record.                          *)
LEMMA FailedOrdered ==
  ASSUME NEW b, NEW c, NEW p, NEW q, Ordered(b, p), c.odd = b.odd, c.errs # {}
  PROVE  Ordered(c, q)
BY DEF Ordered, InOrder, SeenAt

(* OnStep, and OnGameEnd after it.                                         *)
LEMMA CallbacksOrdered ==
  ASSUME NEW b \in Clients, Sound(b), InPlace(b, "callbacks"), NEW acts \in BOOLEAN,
         Ordered(b, "callbacks"), MultiThreaded
  PROVE  Ordered(AfterStep(b, acts), "done")
<1> DEFINE i == Issued(b)
           s == Stepped(b, acts)
           e == EndedIf(s)
<1>0. b.cur \in 0..Unset /\ b.prev \in 0..Unset /\ b.seen \in 0..Unset
  BY DEF Clients
<1>1. b.game = "on" /\ b.cur \in Nat /\ b.prev \in Nat /\ b.seen \in Nat
  BY <1>0, ConstantFacts DEF InPlace
<1>2. i.game = "on" /\ i.cur = b.cur /\ i.errs = b.errs
  BY <1>1, IssuedFacts DEF Called
<1>3. s \in Clients /\ s.game = b.game /\ s.cur = b.cur /\ b.errs \subseteq s.errs
      /\ s.odd = i.odd /\ s.seen = i.seen
  BY SteppedFacts
<1>4. CASE b.cur = b.prev
  <2>1. i = b
    BY <1>4, IssuedFacts
  <2>2. InOrder(i) /\ SeenAt(i, "done")
    BY <1>4, <2>1 DEF Ordered, SeenAt
  <2> QED
    <3>1. InOrder(s) /\ SeenAt(s, "done") /\ s.game = "on"
      <4> HIDE DEF i, s
      <4>1. s.errs = {} => i.errs = {}
        BY <1>2, <1>3
      <4> QED BY <1>1, <1>2, <1>3, <2>2, <4>1 DEF InOrder, SeenAt
    <3> HIDE DEF s
    <3>2. Ordered(e, "done")
      BY <1>3, <3>1, GameEndsFacts DEF EndedIf, Ordered, InOrder, SeenAt, Called
    <3> QED BY <3>2 DEF AfterStep, s
<1>5. CASE b.cur # b.prev
  <2>1. i.seen = b.cur /\ i.odd = b.odd \cup (IF b.cur = b.seen THEN {"step again"} ELSE {})
    <3>1. i.odd = b.odd \cup (IF b.cur = b.seen THEN {"step again"} ELSE {})
                       \cup (IF b.game # "on" THEN {"step outside"} ELSE {})
      BY <1>5, IssuedFacts
    <3>2. i.seen = b.cur
      BY <1>5, IssuedFacts
    <3> QED BY <1>1, <3>1, <3>2
  <2>2. b.errs = {} => b.cur >= 1 /\ b.seen \in {0, b.prev}
    BY <1>1 DEF Ordered, SeenAt
  <2>3. b.errs = {} => b.cur # b.seen
    BY <1>1, <1>5, <2>2
  <2> HIDE DEF i, s
  <2>4. s.errs = {} => b.errs = {}
    BY <1>3
  <2>5. s.odd \cap {"no end", "end outside", "step outside"} = {}
    BY <1>3, <2>1 DEF Ordered, InOrder
  <2>6. "step again" \in s.odd => s.errs # {}
    BY <1>3, <2>1, <2>3, <2>4 DEF Ordered, InOrder
  <2>7. SeenAt(s, "done") /\ s.game = "on"
    BY <1>1, <1>3, <2>1, <2>2, <2>4 DEF SeenAt
  <2>8. Ordered(e, "done")
    BY <1>3, <2>5, <2>6, <2>7, GameEndsFacts DEF EndedIf, Ordered, InOrder, SeenAt, Called
  <2> QED BY <2>8 DEF AfterStep, s
<1> QED BY <1>4, <1>5

LEMMA OrderedMoves ==
  ASSUME IInv, CallbacksInv, UNCHANGED settings,
         NEW r \in Observers, NEW c, NEW p,
         ob' = [ob EXCEPT ![r] = c], at' = [at EXCEPT ![r] = p],
         MultiThreaded => Ordered(c, p)
  PROVE  CallbacksInv'
<1>1. ob \in [Observers -> Clients] /\ at \in [Observers -> Places]
  BY StateFacts DEF IInv
<1>2. ASSUME MultiThreaded, NEW s \in Observers PROVE Ordered(ob[s], at[s])'
  <2>1. Ordered(ob'[s], at'[s])
    BY <1>1, <1>2 DEF CallbacksInv
  <2> QED BY <2>1 DEF Ordered, InOrder, SeenAt
<1> QED BY <1>2 DEF CallbacksInv, MultiThreaded, Observers

LEMMA OrderedRuns ==
  ASSUME IInv, CallbacksInv, UNCHANGED settings, NEW r \in Observers, Runs(r)
  PROVE  CallbacksInv'
<1> DEFINE b == ob[r]
<1>0. /\ b \in Clients /\ Sound(b) /\ InPlace(b, at[r])
      /\ MultiThreaded => Ordered(b, at[r])
  BY TypeFacts DEF IInv, ClientsInv, CallbacksInv
<1>1. ASSUME NEW c, NEW p, Goes(r, c, p), MultiThreaded => Ordered(c, p)
      PROVE  CallbacksInv'
  <2>1. ob' = [ob EXCEPT ![r] = c] /\ at' = [at EXCEPT ![r] = p]
    BY <1>1 DEF Goes
  <2> QED BY <1>1, <2>1, OrderedMoves
<1>2. CASE RunReplay(r)
  <2>1. PICK p \in {"done", "step", "observe", "load"} : Goes(r, b, p)
    BY <1>2 DEF RunReplay, Steps, StepFor
  <2>2. at[r] = "start" /\ SameCalls(b, b)
    BY <1>2 DEF RunReplay, SameCalls
  <2>3. MultiThreaded => Ordered(b, p)
    BY <1>0, <2>1, <2>2, OrderedKept
  <2> QED BY <1>1, <2>1, <2>3
<1>3. CASE WaitForReplay(r)
  <2> DEFINE c == Got(b, b.reply = "error")
             a == Abandoned(b)
             e == IF b.reply = "error" THEN b.errs \cup {"SC2ProtocolError"} ELSE b.errs
  <2>1. Kept(c, b) /\ c.errs = e /\ b.errs \subseteq e
    BY <1>0, GotFacts
  <2>2. Kept(a, b) /\ a.errs = b.errs \cup {"SC2AppFailure"}
    BY <1>0, AbandonedFacts
  <2>3. at[r] = "load" /\ \/ Goes(r, a, "done")
                          \/ Goes(r, c, "first") \/ Goes(r, c, Steps(c))
    BY <1>3 DEF WaitForReplay
  <2>4. Steps(c) # "callbacks"
    BY DEF Steps, StepFor
  <2> HIDE DEF a, c, e
  <2>5. SameCalls(b, c) /\ SameCalls(b, a)
    BY <2>1, <2>2 DEF Kept, SameCalls
  <2>6. MultiThreaded => /\ Ordered(a, "done") /\ Ordered(c, "first")
                         /\ Ordered(c, Steps(c))
    BY <1>0, <2>3, <2>4, <2>5, OrderedKept
  <2> QED BY <1>1, <2>3, <2>6
<1>4. CASE FirstObservation(r)
  <2> DEFINE g == GameStarts(Observed(b))
  <2>1. at[r] = "first" /\ ~ObservationFaults(b) /\ Goes(r, g, Steps(g))
    BY <1>4 DEF FirstObservation
  <2>2. Steps(g) # "callbacks"
    BY DEF Steps, StepFor
  <2>3. MultiThreaded => Ordered(g, Steps(g))
    BY <1>0, <2>1, <2>2, FirstOrdered
  <2> HIDE DEF g
  <2> QED BY <1>1, <2>1, <2>3
<1>5. CASE StepGame(r)
  <2>1. at[r] = "step" /\ InPlace(b, "step")
    BY <1>0, <1>5 DEF StepGame
  <2>2. CASE /\ b.conn \in {"hung", "closed"}
             /\ Goes(r, Abandoned([b EXCEPT !.pending =
                    IF CanSend(b) THEN "step" ELSE b.pending]), "callbacks")
    <3> DEFINE k == IF CanSend(b) THEN "step" ELSE b.pending
               u == [b EXCEPT !.pending = k]
               a == Abandoned(u)
    <3>1. k \in Kinds
      BY <1>0 DEF Kinds, Clients
    <3>2. Goes(r, a, "callbacks") /\ a.errs # {}
      BY <1>0, <2>1, <2>2, StepFailsPlace
    <3> HIDE DEF k
    <3>3. u \in Clients /\ u.odd = b.odd
      BY <1>0, <3>1 DEF Clients, Kinds
    <3> HIDE DEF u
    <3>4. a.odd = b.odd
      BY <3>3, AbandonedFacts DEF Kept
    <3> HIDE DEF a
    <3>5. MultiThreaded => Ordered(a, "callbacks")
      BY <1>0, <3>2, <3>4, FailedOrdered
    <3> QED BY <1>1, <3>2, <3>5
  <2>3. CASE b.conn = "upset" /\ Goes(r, Asked(b, "step"), "callbacks")
    <3> DEFINE a == Asked(b, "step")
    <3>1. a.errs # {} /\ a.odd = b.odd
      BY <1>0, <2>1, <2>3, StepRefusedPlace, AskedFacts DEF Kept, Kinds
    <3>2. Goes(r, a, "callbacks")
      BY <2>3
    <3> HIDE DEF a
    <3>3. MultiThreaded => Ordered(a, "callbacks")
      BY <1>0, <3>1, FailedOrdered
    <3> QED BY <1>1, <3>2, <3>3
  <2>4. ASSUME NEW over \in BOOLEAN, b.conn = "up", b.loop = MaxLoops => over,
               Goes(r, Asked([b EXCEPT !.loop = b.loop + 1,
                     !.status = IF over THEN "ended" ELSE b.status], "step"), "observe")
        PROVE  CallbacksInv'
    <3> DEFINE a == Asked([b EXCEPT !.loop = b.loop + 1,
                     !.status = IF over THEN "ended" ELSE b.status], "step")
    <3>1. SameCalls(b, a)
      BY <1>0, <2>1, <2>4, StepPlace DEF SameCalls
    <3>2. Goes(r, a, "observe")
      BY <2>4
    <3> HIDE DEF a
    <3>3. MultiThreaded => Ordered(a, "observe")
      BY <1>0, <2>1, <3>1, OrderedKept
    <3> QED BY <1>1, <3>2, <3>3
  <2> QED BY <1>5, <2>2, <2>3, <2>4 DEF StepGame
<1>6. CASE ObserveGame(r)
  <2>1. at[r] = "observe" /\ ~ObservationFaults(b) /\ Goes(r, Observed(b), "callbacks")
    BY <1>6 DEF ObserveGame
  <2>2. MultiThreaded => Ordered(Observed(b), "callbacks")
    BY <1>0, <2>1, ObserveOrdered
  <2> QED BY <1>1, <2>1, <2>2
<1>7. CASE ReplayCallbacks(r)
  <2>1. PICK acts \in BOOLEAN : Goes(r, AfterStep(b, acts), "done")
    BY <1>7 DEF ReplayCallbacks
  <2>2. at[r] = "callbacks"
    BY <1>7 DEF ReplayCallbacks
  <2>3. MultiThreaded => Ordered(AfterStep(b, acts), "done")
    BY <1>0, <2>2, CallbacksOrdered
  <2> QED BY <1>1, <2>1, <2>3
<1> QED BY <1>2, <1>3, <1>4, <1>5, <1>6, <1>7 DEF Runs

(* What the coordinator's own thread and SC2 do to the clients.            *)
LEMMA NextSameCalls ==
  ASSUME IInv, ModeInv, [Next]_vars, MultiThreaded, NEW r \in Observers,
         \A s \in Observers : ~Runs(s)
  PROVE  SameCalls(ob[r], ob'[r])
<1>0. ob \in [Observers -> Clients] /\ turn \in Observers /\ ob[turn] \in Clients
      /\ ob[r] \in Clients
  BY StateFacts DEF IInv
<1>1. CASE ob' = ob
  BY <1>1 DEF SameCalls
<1>2. CASE CallUpdate \/ StepsDone \/ StartReplay \/ UpdateReturns
           \/ \E s \in Observers : ReplayFaults(s)
  BY <1>1, <1>2 DEF CallUpdate, StepsDone, StartReplay, UpdateReturns, ReplayFaults
<1>3. CASE SerialCallbacks
  BY <1>3 DEF SerialCallbacks, ModeInv
<1>4. CASE LaunchProcesses
  <2>1. (started => ob' = ob)
        /\ (~started => ob' = [s \in Observers |-> [ob[s] EXCEPT !.last = ob[s].status]])
    BY <1>4 DEF LaunchProcesses
  <2>2. SameCalls(ob[r], [ob[r] EXCEPT !.last = ob[r].status])
    BY <1>0 DEF Clients, SameCalls
  <2> QED BY <1>1, <2>1, <2>2
<1>5. CASE ShouldIgnore \/ ShouldRelaunch \/ TakesReplay
  <2> DEFINE b == ob[turn]
             a == Asked(b, "info")
             c == [a EXCEPT !.errs = a.errs \cup {"WrongGameVersion"}]
  <2>1. ob' = [ob EXCEPT ![turn] = a] \/ ob' = [ob EXCEPT ![turn] = c]
    BY <1>5 DEF ShouldIgnore, ShouldRelaunch, TakesReplay
  <2>2. SameCalls(b, a) /\ a \in Clients
    BY <1>0, AskedSameCalls, AskedFacts DEF Kinds
  <2> HIDE DEF a
  <2>3. SameCalls(a, c)
    BY <2>2 DEF Clients, SameCalls
  <2> HIDE DEF c
  <2>4. SameCalls(b, c)
    BY <2>2, <2>3 DEF SameCalls
  <2> QED BY <1>0, <1>1, <2>1, <2>2, <2>4 DEF SameCalls
<1>6. CASE LoadReplay
  <2> DEFINE b == ob[turn]
             c == [b EXCEPT !.pending = "load", !.file = files]
  <2>1. ob' = ob \/ ob' = [ob EXCEPT ![turn] = c]
    BY <1>0, <1>6 DEF LoadReplay
  <2>2. SameCalls(b, c)
    BY <1>0 DEF Clients, SameCalls
  <2> HIDE DEF c
  <2> QED BY <1>0, <1>1, <2>1, <2>2 DEF SameCalls
<1>7. ASSUME NEW s \in Observers, Loads(s) \/ Advances(s) \/ Breaks(s)
      PROVE  SameCalls(ob[r], ob'[r])
  <2>1. PICK c : ob' = [ob EXCEPT ![s] = c] /\ Untouched(ob[s], c)
    BY <1>7, EnvShape DEF Env
  <2> QED BY <1>0, <2>1 DEF SameCalls, Untouched
<1>8. CASE UNCHANGED vars
  BY <1>1, <1>8 DEF vars
<1> QED BY <1>2, <1>3, <1>4, <1>5, <1>6, <1>7, <1>8 DEF Next, Update

(* The same of where run_replay is.                                        *)
LEMMA NextSamePlaces ==
  ASSUME IInv, [Next]_vars, \A s \in Observers : ~Runs(s)
  PROVE  \/ UNCHANGED at
         \/ \A s \in Observers : at[s] # "callbacks" /\ at'[s] # "callbacks"
<1>1. CASE CallUpdate
  <2>1. phase = "user" /\ at' = [s \in Observers |-> "start"]
    BY <1>1 DEF CallUpdate
  <2> QED BY <2>1 DEF IInv, ControlInv
<1>2. CASE Update
  BY <1>2 DEF Update, StepsDone, SerialCallbacks, LaunchProcesses, StartReplay, ShouldIgnore,
     ShouldRelaunch, TakesReplay, LoadReplay, UpdateReturns, ReplayFaults
<1>3. ASSUME NEW s \in Observers, Loads(s) \/ Advances(s) \/ Breaks(s) PROVE UNCHANGED at
  BY <1>3, EnvShape
<1>4. CASE UNCHANGED vars
  BY <1>4 DEF vars
<1> QED BY <1>1, <1>2, <1>3, <1>4 DEF Next

LEMMA NextCallbacks == IInv /\ ModeInv /\ CallbacksInv /\ [Next]_vars => CallbacksInv'
<1> SUFFICES ASSUME IInv, ModeInv, CallbacksInv, [Next]_vars PROVE CallbacksInv'
  OBVIOUS
<1>1. UNCHANGED settings
  BY DEF Next, vars
<1>2. CASE \E r \in Observers : Runs(r)
  BY <1>1, <1>2, OrderedRuns
<1>3. CASE \A r \in Observers : ~Runs(r)
  <2>1. ASSUME MultiThreaded, NEW r \in Observers PROVE Ordered(ob[r], at[r])'
    <3>1. SameCalls(ob[r], ob'[r])
      BY <1>3, <2>1, NextSameCalls
    <3>2. at'[r] = "callbacks" <=> at[r] = "callbacks"
      BY <1>3, <2>1, NextSamePlaces
    <3>3. Ordered(ob[r], at[r])
      BY <2>1 DEF CallbacksInv
    <3>4. Ordered(ob'[r], at'[r])
      BY <3>1, <3>2, <3>3, OrderedKept
    <3> QED BY <3>4 DEF Ordered, InOrder, SeenAt
  <2> QED BY <1>1, <2>1 DEF CallbacksInv, MultiThreaded, Observers
<1> QED BY <1>2, <1>3

(* An observer sees OnGameStart, its steps and OnGameEnd in this order,    *)
(* and OnStep once for each loop that its client has observed, unless an   *)
(* error is on record (with the callbacks on the threads).                 *)
THEOREM InOrderAlways == Spec => []CallbacksInOrder
<1>1. Init => CallbacksInv
  <2> SUFFICES ASSUME Init, NEW r \in Observers PROVE Ordered(ob[r], at[r])
    BY DEF CallbacksInv
  <2>1. ob[r].odd = {} /\ ob[r].game = "none"
    BY DEF Init
  <2> QED BY <2>1 DEF Ordered, InOrder, SeenAt
<1>2. CallbacksInv => CallbacksInOrder
  BY DEF CallbacksInv, Ordered, InOrder, CallbacksInOrder
<1> QED BY <1>1, <1>2, NextCallbacks, Inductive, Mode, PTL DEF Spec

-----------------------------------------------------------------------------
(***************************************************************************)
(* What becomes of the replays                                             *)
(***************************************************************************)
IsWaiting(b) == b.pending = "load"
IsPlaying(b, p) == p = "first" \/ b.game = "on"

(* An observer that is at p and then at q keeps the replay it has.         *)
Keeps(b, p, c, q) ==
  /\ b.errs \subseteq c.errs
  /\ c.errs = {} =>
       /\ IsWaiting(b) => IsWaiting(c) /\ c.file = b.file
       /\ IsPlaying(b, p) => IsPlaying(c, q) /\ c.file = b.file

LEMMA FateFacts ==
  ASSUME FateInv, NEW f \in Replays
  PROVE  /\ f > files => fate[f] # "listed"
         /\ NoErrors =>
              /\ fate[f] # "unanswered"
              /\ fate[f] = "loading" =>
                   \E r \in Observers : ob[r].file = f /\ IsWaiting(ob[r])
              /\ fate[f] = "playing" =>
                   \E r \in Observers : ob[r].file = f /\ IsPlaying(ob[r], at[r])
BY DEF FateInv, IsWaiting, IsPlaying

(* The observers keep what they have, for a replay that does not change.   *)
LEMMA FateOfOne ==
  ASSUME FateInv, NEW f \in Replays, fate'[f] = fate[f],
         f > files' => f > files,
         \A s \in Observers : ob[s].file = f \/ ob[s].errs # {}
                                => Keeps(ob[s], at[s], ob'[s], at'[s]),
         \A s \in Observers : ob[s].errs \subseteq ob'[s].errs
  PROVE  (/\ f > files => fate[f] # "listed"
          /\ NoErrors =>
               /\ fate[f] # "unanswered"
               /\ fate[f] = "loading" =>
                    \E r \in Observers : ob[r].file = f /\ ob[r].pending = "load"
               /\ fate[f] = "playing" =>
                    \E r \in Observers :
                      ob[r].file = f /\ (at[r] = "first" \/ ob[r].game = "on"))'
<1>1. (f > files => fate[f] # "listed")'
  BY FateFacts
<1>2. ASSUME NoErrors'
      PROVE  /\ fate'[f] # "unanswered"
             /\ fate'[f] = "loading" =>
                  \E r \in Observers : ob'[r].file = f /\ ob'[r].pending = "load"
             /\ fate'[f] = "playing" =>
                  \E r \in Observers :
                    ob'[r].file = f /\ (at'[r] = "first" \/ ob'[r].game = "on")
  <2>1. \A s \in Observers : ob'[s].errs = {} /\ ob[s].errs = {}
    BY <1>2 DEF NoErrors, Observers
  <2>2. NoErrors
    BY <2>1 DEF NoErrors
  <2>3. fate'[f] # "unanswered"
    BY <2>2, FateFacts
  <2>4. ASSUME fate'[f] = "loading"
        PROVE  \E r \in Observers : ob'[r].file = f /\ ob'[r].pending = "load"
    <3>1. PICK r \in Observers : ob[r].file = f /\ IsWaiting(ob[r])
      BY <2>2, <2>4, FateFacts
    <3>2. ob'[r].file = f /\ IsWaiting(ob'[r])
      BY <2>1, <3>1 DEF Keeps
    <3> QED BY <3>2 DEF IsWaiting
  <2>5. ASSUME fate'[f] = "playing"
        PROVE  \E r \in Observers :
                 ob'[r].file = f /\ (at'[r] = "first" \/ ob'[r].game = "on")
    <3>1. PICK r \in Observers : ob[r].file = f /\ IsPlaying(ob[r], at[r])
      BY <2>2, <2>5, FateFacts
    <3>2. ob'[r].file = f /\ IsPlaying(ob'[r], at'[r])
      BY <2>1, <3>1 DEF Keeps
    <3> QED BY <3>2 DEF IsPlaying
  <2> QED BY <2>3, <2>4, <2>5
<1> QED BY <1>1, <1>2 DEF Observers

(* No replay is taken and none has come to its turn.                       *)
LEMMA FateKept ==
  ASSUME FateInv, UNCHANGED <<files, fate>>,
         \A s \in Observers : Keeps(ob[s], at[s], ob'[s], at'[s])
  PROVE  FateInv'
<1>1. \A s \in Observers : ob[s].errs \subseteq ob'[s].errs
  BY DEF Keeps
<1>2. ASSUME NEW f \in Replays
      PROVE  (/\ f > files => fate[f] # "listed"
              /\ NoErrors =>
                   /\ fate[f] # "unanswered"
                   /\ fate[f] = "loading" =>
                        \E r \in Observers : ob[r].file = f /\ ob[r].pending = "load"
                   /\ fate[f] = "playing" =>
                        \E r \in Observers :
                          ob[r].file = f /\ (at[r] = "first" \/ ob[r].game = "on"))'
  BY <1>1, FateOfOne
<1> QED BY <1>2 DEF FateInv, Replays

(* A replay g gets the fate v, and what observer r does is all that        *)
(* happens to the observers.                                               *)
LEMMA FateSet ==
  ASSUME IInv, FateInv, NEW r \in Observers, NEW c, NEW p, NEW g, NEW v,
         ob' = [ob EXCEPT ![r] = c], at' = [at EXCEPT ![r] = p],
         fate' = [fate EXCEPT ![g] = v], v # "listed",
         \A f \in Replays : f > files' => f > files \/ f = g,
         ob[r].errs \subseteq c.errs,
         ob[r].file # g => Keeps(ob[r], at[r], c, p),
         c.errs = {} =>
           /\ v = "unanswered" => \E s \in Observers : ob'[s].errs # {}
           /\ v = "loading" => c.file = g /\ IsWaiting(c)
           /\ v = "playing" => c.file = g /\ IsPlaying(c, p)
  PROVE  FateInv'
<1>0. /\ ob \in [Observers -> Clients] /\ at \in [Observers -> Places]
      /\ fate \in [Replays -> Fates]
  BY StateFacts DEF IInv
<1>1. \A s \in Observers : /\ ob'[s] = IF s = r THEN c ELSE ob[s]
                           /\ at'[s] = IF s = r THEN p ELSE at[s]
  BY <1>0
<1>2. \A s \in Observers : ob[s].errs \subseteq ob'[s].errs
  BY <1>1
<1>3. \A s \in Observers : s # r => Keeps(ob[s], at[s], ob'[s], at'[s])
  BY <1>1 DEF Keeps
<1>4. ASSUME NEW f \in Replays
      PROVE  (/\ f > files => fate[f] # "listed"
              /\ NoErrors =>
                   /\ fate[f] # "unanswered"
                   /\ fate[f] = "loading" =>
                        \E s \in Observers : ob[s].file = f /\ ob[s].pending = "load"
                   /\ fate[f] = "playing" =>
                        \E s \in Observers :
                          ob[s].file = f /\ (at[s] = "first" \/ ob[s].game = "on"))'
  <2>1. CASE f # g
    <3>1. fate'[f] = fate[f] /\ (f > files' => f > files)
      BY <1>0, <2>1
    <3>2. ob[r].file = f => Keeps(ob[r], at[r], c, p)
      BY <2>1
    <3>3. ASSUME NEW s \in Observers, ob[s].file = f \/ ob[s].errs # {}
          PROVE  Keeps(ob[s], at[s], ob'[s], at'[s])
      <4>1. CASE s # r
        BY <1>3, <4>1
      <4>2. CASE s = r
        <5>1. ob'[s] = c /\ at'[s] = p
          BY <1>1, <4>2
        <5>2. CASE ob[s].file = f
          BY <3>2, <4>2, <5>1, <5>2
        <5>3. CASE ob[s].errs # {}
          <6>1. c.errs # {} /\ ob[s].errs \subseteq c.errs
            BY <4>2, <5>3
          <6> QED BY <5>1, <6>1 DEF Keeps
        <5> QED BY <3>3, <5>2, <5>3
      <4> QED BY <4>1, <4>2
    <3> QED BY <1>2, <3>1, <3>3, FateOfOne
  <2>2. CASE f = g
    <3>1. fate'[f] = v
      BY <1>0, <2>2
    <3>2. ASSUME NoErrors'
          PROVE  /\ fate'[f] # "unanswered"
                 /\ fate'[f] = "loading" =>
                      \E s \in Observers : ob'[s].file = f /\ ob'[s].pending = "load"
                 /\ fate'[f] = "playing" =>
                      \E s \in Observers :
                        ob'[s].file = f /\ (at'[s] = "first" \/ ob'[s].game = "on")
      <4>1. ob'[r] = c /\ at'[r] = p
        BY <1>1
      <4>2. \A s \in Observers : ob'[s].errs = {}
        BY <3>2 DEF NoErrors, Observers
      <4>3. c.errs = {}
        BY <4>1, <4>2
      <4>4. v # "unanswered"
        BY <4>2, <4>3
      <4> QED BY <2>2, <3>1, <4>1, <4>3, <4>4 DEF IsWaiting, IsPlaying
    <3> QED BY <3>1, <3>2 DEF Observers
  <2> QED BY <2>1, <2>2
<1> QED BY <1>4 DEF FateInv, Replays

(* What a request leaves of the replay that its client has.                *)
LEMMA AskedKeeps ==
  ASSUME NEW b \in Clients, NEW k \in Kinds
  PROVE  /\ Asked(b, k).file = b.file /\ Asked(b, k).game = b.game
         /\ IsWaiting(b) => IsWaiting(Asked(b, k))
<1>1. Asked(b, k).file = b.file /\ Asked(b, k).game = b.game
  BY AskedFacts DEF Kept
<1>2. b.pending = "load" => Asked(b, k).pending = "load"
  <2>1. CASE b.conn = "closed"
    BY <2>1, AskedFacts
  <2>2. CASE b.conn # "closed"
    BY <2>2, AskedFacts
  <2> QED BY <2>1, <2>2
<1> QED BY <1>1, <1>2 DEF IsWaiting

LEMMA CalledKeeps ==
  ASSUME NEW b \in Clients, NEW acts \in BOOLEAN, Sound(b)
  PROVE  LET s == Stepped(b, acts) IN
           /\ s.file = b.file /\ s.game = b.game /\ (IsWaiting(b) => IsWaiting(s))
           /\ b.errs \subseteq s.errs
<1> DEFINE i == Issued(b)
           s == Stepped(b, acts)
<1>1. i \in Clients /\ i.pending = b.pending /\ "action" \in Kinds
  BY IssuedFacts DEF Called, Kinds
<1>2. s \in {i, Asked(i, "action")}
  BY DEF Stepped
<1>3. s.file = b.file /\ s.game = b.game /\ b.errs \subseteq s.errs
  BY SteppedFacts
<1>4. IsWaiting(Asked(i, "action")) \/ ~IsWaiting(i)
  BY <1>1, AskedKeeps
<1> HIDE DEF i, s
<1>5. IsWaiting(b) => IsWaiting(s)
  BY <1>1, <1>2, <1>4 DEF IsWaiting
<1> QED BY <1>3, <1>5 DEF s

(* run_replay: an observer goes from b to c and to p.                      *)
LEMMA FateGoes ==
  ASSUME IInv, FateInv, NEW r \in Observers, NEW c, NEW p,
         Goes(r, c, p), fate' = fate, Keeps(ob[r], at[r], c, p)
  PROVE  FateInv'
<1>0. ob \in [Observers -> Clients] /\ at \in [Observers -> Places]
  BY StateFacts DEF IInv
<1>1. ob' = [ob EXCEPT ![r] = c] /\ at' = [at EXCEPT ![r] = p] /\ files' = files
  BY DEF Goes, coordinator
<1>2. \A s \in Observers : /\ ob'[s] = IF s = r THEN c ELSE ob[s]
                           /\ at'[s] = IF s = r THEN p ELSE at[s]
  BY <1>0, <1>1
<1>3. \A s \in Observers : Keeps(ob[s], at[s], ob'[s], at'[s])
  BY <1>2 DEF Keeps
<1> QED BY <1>1, <1>3, FateKept

LEMMA FateEnds ==
  ASSUME IInv, FateInv, NEW r \in Observers, NEW c, NEW p, NEW v,
         Goes(r, c, p), fate' = [fate EXCEPT ![ob[r].file] = v], v # "listed",
         ob[r].errs \subseteq c.errs, c.file = ob[r].file,
         v = "unanswered" => c.errs # {},
         v # "loading", v = "playing" => IsPlaying(c, p)
  PROVE  FateInv'
<1>1. /\ ob' = [ob EXCEPT ![r] = c] /\ at' = [at EXCEPT ![r] = p] /\ files' = files
  BY DEF Goes, coordinator
<1>2. \A f \in Replays : f > files' => f > files
  BY <1>1
<1> DEFINE g == ob[r].file
<1>3. fate' = [fate EXCEPT ![g] = v] /\ c.file = g /\ ob[r].file = g
  OBVIOUS
<1> HIDE DEF g
<1> QED BY <1>1, <1>2, <1>3, FateSet

LEMMA FateRuns ==
  ASSUME IInv, FateInv, UNCHANGED settings, NEW r \in Observers, Runs(r)
  PROVE  FateInv'
<1> DEFINE b == ob[r]
<1>0. b \in Clients /\ Sound(b) /\ InPlace(b, at[r])
  BY TypeFacts DEF IInv, ClientsInv
<1>1. CASE RunReplay(r)
  <2>1. PICK p : Goes(r, b, p) /\ fate' = fate /\ at[r] = "start"
    BY <1>1 DEF RunReplay
  <2>2. Keeps(b, at[r], b, p)
    BY <2>1 DEF Keeps, IsPlaying
  <2> QED BY <2>1, <2>2, FateGoes
<1>2. CASE WaitForReplay(r)
  <2> DEFINE c == Got(b, b.reply = "error")
             a == Abandoned(b)
             e == IF b.reply = "error" THEN b.errs \cup {"SC2ProtocolError"} ELSE b.errs
  <2>1. Kept(c, b) /\ c.errs = e /\ b.errs \subseteq e
    BY <1>0, GotFacts
  <2>2. Kept(a, b) /\ a.errs = b.errs \cup {"SC2AppFailure"}
    BY <1>0, AbandonedFacts
  <2>3. \/ Goes(r, c, "first") /\ fate' = [fate EXCEPT ![b.file] = "playing"]
        \/ Goes(r, c, Steps(c)) /\ fate' = [fate EXCEPT ![b.file] = "rejected"]
        \/ Goes(r, a, "done") /\ fate' = [fate EXCEPT ![b.file] = "unanswered"]
    BY <1>2 DEF WaitForReplay
  <2>4. b.errs \subseteq c.errs /\ c.file = b.file /\ IsPlaying(c, "first")
    BY <2>1 DEF Kept, IsPlaying
  <2>5. b.errs \subseteq a.errs /\ a.file = b.file /\ a.errs # {}
    BY <2>2 DEF Kept
  <2> HIDE DEF a, c, e
  <2>6. CASE Goes(r, c, "first") /\ fate' = [fate EXCEPT ![b.file] = "playing"]
    BY <2>4, <2>6, FateEnds
  <2>7. CASE Goes(r, c, Steps(c)) /\ fate' = [fate EXCEPT ![b.file] = "rejected"]
    <3> DEFINE p == Steps(c)
               v == "rejected"
    <3>1. v # "listed" /\ v # "unanswered" /\ v # "loading" /\ v # "playing"
          /\ fate' = [fate EXCEPT ![b.file] = v] /\ Goes(r, c, p)
      BY <2>7
    <3> HIDE DEF v, p
    <3> QED BY <2>4, <3>1, FateEnds
  <2>8. CASE Goes(r, a, "done") /\ fate' = [fate EXCEPT ![b.file] = "unanswered"]
    <3> DEFINE v == "unanswered"
    <3>1. v # "listed" /\ v # "loading" /\ v # "playing"
          /\ fate' = [fate EXCEPT ![b.file] = v]
      BY <2>8
    <3> HIDE DEF v
    <3> QED BY <2>5, <2>8, <3>1, FateEnds
  <2> QED BY <2>3, <2>6, <2>7, <2>8
<1>3. CASE FirstObservation(r)
  <2> DEFINE o == Observed(b)
             g == GameStarts(o)
  <2>1. at[r] = "first" /\ b.pending = "none" /\ Goes(r, g, Steps(g)) /\ fate' = fate
    BY <1>0, <1>3 DEF FirstObservation, InPlace
  <2>2. o \in Clients /\ o.file = b.file /\ b.errs \subseteq o.errs
    BY <1>0, ObservedFacts, AskedMonotone DEF Kinds
  <2> HIDE DEF o
  <2>3. g.file = b.file /\ g.game = "on" /\ b.errs \subseteq g.errs
    BY <2>2, GameStartsFacts
  <2> HIDE DEF g
  <2>4. Keeps(b, at[r], g, Steps(g))
    BY <2>1, <2>3 DEF Keeps, IsPlaying, IsWaiting
  <2> QED BY <2>1, <2>4, FateGoes
<1>4. CASE StepGame(r)
  <2>1. at[r] = "step" /\ fate' = fate /\ b.pending = "none" /\ b.game = "on"
        /\ InPlace(b, "step")
    BY <1>0, <1>4 DEF StepGame, InPlace
  <2>2. CASE /\ b.conn \in {"hung", "closed"}
             /\ Goes(r, Abandoned([b EXCEPT !.pending =
                    IF CanSend(b) THEN "step" ELSE b.pending]), "callbacks")
    <3> DEFINE k == IF CanSend(b) THEN "step" ELSE b.pending
               u == [b EXCEPT !.pending = k]
               a == Abandoned(u)
    <3>1. k \in Kinds
      BY <1>0 DEF Kinds, Clients
    <3>2. Goes(r, a, "callbacks")
      BY <2>2
    <3> HIDE DEF k
    <3>3. u \in Clients /\ u.errs = b.errs
      BY <1>0, <3>1 DEF Clients, Kinds
    <3> HIDE DEF u
    <3>4. a.errs = b.errs \cup {"SC2AppFailure"}
      BY <3>3, AbandonedFacts
    <3> HIDE DEF a
    <3>5. b.errs \subseteq a.errs /\ a.errs # {}
      BY <3>4
    <3>6. Keeps(b, at[r], a, "callbacks")
      BY <3>5 DEF Keeps
    <3> QED BY <2>1, <3>2, <3>6, FateGoes
  <2>3. CASE b.conn = "upset" /\ Goes(r, Asked(b, "step"), "callbacks")
    <3> DEFINE a == Asked(b, "step")
    <3>1. a.file = b.file /\ a.game = b.game /\ b.errs \subseteq a.errs
      BY <1>0, AskedKeeps, AskedMonotone DEF Kinds
    <3>2. Goes(r, a, "callbacks")
      BY <2>3
    <3> HIDE DEF a
    <3>3. Keeps(b, at[r], a, "callbacks")
      BY <2>1, <3>1 DEF Keeps, IsPlaying, IsWaiting
    <3> QED BY <2>1, <3>2, <3>3, FateGoes
  <2>4. ASSUME NEW over \in BOOLEAN, b.conn = "up", b.loop = MaxLoops => over,
               Goes(r, Asked([b EXCEPT !.loop = b.loop + 1,
                     !.status = IF over THEN "ended" ELSE b.status], "step"), "observe")
        PROVE  FateInv'
    <3> DEFINE a == Asked([b EXCEPT !.loop = b.loop + 1,
                     !.status = IF over THEN "ended" ELSE b.status], "step")
    <3>1. a.file = b.file /\ a.game = b.game /\ a.errs = b.errs
      BY <1>0, <2>1, <2>4, StepPlace
    <3>2. Goes(r, a, "observe")
      BY <2>4
    <3> HIDE DEF a
    <3>3. Keeps(b, at[r], a, "observe")
      BY <2>1, <3>1 DEF Keeps, IsPlaying, IsWaiting
    <3> QED BY <2>1, <3>2, <3>3, FateGoes
  <2> QED BY <1>4, <2>2, <2>3, <2>4 DEF StepGame
<1>5. CASE ObserveGame(r)
  <2> DEFINE o == Observed(b)
  <2>1. at[r] = "observe" /\ b.pending = "none" /\ Goes(r, o, "callbacks") /\ fate' = fate
    BY <1>0, <1>5 DEF ObserveGame, InPlace
  <2>2. o.file = b.file /\ o.game = b.game /\ b.errs \subseteq o.errs
    BY <1>0, ObservedFacts, AskedMonotone DEF Kinds
  <2> HIDE DEF o
  <2>3. Keeps(b, at[r], o, "callbacks")
    BY <2>1, <2>2 DEF Keeps, IsPlaying, IsWaiting
  <2> QED BY <2>1, <2>3, FateGoes
<1>6. CASE ReplayCallbacks(r)
  <2>1. PICK acts \in BOOLEAN :
          LET e == AfterStep(b, acts) IN
            /\ Goes(r, e, "done")
            /\ fate' = IF e.game = "over" THEN [fate EXCEPT ![e.file] = "played"] ELSE fate
    BY <1>6 DEF ReplayCallbacks
  <2> DEFINE s == IF MultiThreaded THEN Stepped(b, acts) ELSE b
             e == AfterStep(b, acts)
  <2>2. at[r] = "callbacks" /\ b.game = "on" /\ (Normal(b) => b.pending = "none")
    BY <1>0, <1>6 DEF ReplayCallbacks, InPlace
  <2>3. s \in Clients
    BY <1>0, SteppedFacts
  <2>4. s.file = b.file /\ s.game = b.game /\ b.errs \subseteq s.errs
        /\ (IsWaiting(b) => IsWaiting(s))
    BY <1>0, CalledKeeps
  <2>5. e = EndedIf(s)
    BY DEF AfterStep
  <2> HIDE DEF s
  <2>6. e \in {s, GameEnds(s)} /\ Called(GameEnds(s), s) /\ GameEnds(s).game = "over"
    BY <2>3, <2>5, GameEndsFacts DEF EndedIf
  <2>7. /\ e.file = b.file /\ b.errs \subseteq e.errs /\ e.game \in {"on", "over"}
        /\ (IsWaiting(b) => IsWaiting(e))
    BY <2>2, <2>4, <2>6 DEF Called, IsWaiting
  <2>8. Goes(r, e, "done")
        /\ fate' = IF e.game = "over" THEN [fate EXCEPT ![b.file] = "played"] ELSE fate
    BY <2>1, <2>7
  <2> HIDE DEF e
  <2>9. CASE e.game = "over"
    <3> DEFINE v == "played"
    <3>1. v # "listed" /\ v # "unanswered" /\ v # "loading" /\ v # "playing"
          /\ fate' = [fate EXCEPT ![b.file] = v]
      BY <2>8, <2>9
    <3> HIDE DEF v
    <3> QED BY <2>7, <2>8, <3>1, FateEnds
  <2>10. CASE e.game = "on"
    <3>1. Keeps(b, at[r], e, "done")
      BY <2>7, <2>10 DEF Keeps, IsPlaying
    <3> QED BY <2>8, <2>10, <3>1, FateGoes
  <2> QED BY <2>7, <2>9, <2>10
<1> QED BY <1>1, <1>2, <1>3, <1>4, <1>5, <1>6 DEF Runs

(* The request for the info of a replay, or for a replay, that is not sent *)
(* or not answered leaves an error.                                        *)
LEMMA UnansweredErrs ==
  ASSUME IInv, phase \in {"taking", "taken"}
  PROVE  LET b == ob[turn]
             a == Asked(b, "info")
         IN  /\ ~CanSend(b) => b.errs # {}
             /\ CanSend(b) /\ b.conn = "hung" => a.errs # {}
             /\ b.errs = {} => b.pending = "none" /\ b.game # "on"
             /\ at[turn] \in {"start", "done"}
             /\ b \in Clients /\ b.conn \in {"up", "upset", "hung", "closed"}
             /\ b.errs \subseteq a.errs /\ a.file = b.file /\ a.game = b.game
<1> DEFINE b == ob[turn]
           a == Asked(b, "info")
<1>1. b \in Clients /\ turn \in Observers /\ "info" \in Kinds
  BY StateFacts DEF IInv, Kinds
<1>2. /\ at[turn] \in {"start", "done"}
      /\ Normal(b) => b.pending = "none" /\ b.last \in Idle
      /\ Sound(b) /\ InPlace(b, at[turn])
  BY <1>1 DEF IInv, ControlInv, ClientsInv
<1>3. b.conn \in {"up", "upset", "hung", "closed"} /\ b.app \in {"normal", "failed"}
  BY <1>1 DEF Clients
<1>4. b.errs = {} => Normal(b) /\ b.conn # "closed"
  BY <1>2, <1>3 DEF Sound, Recorded
<1>5. b.errs = {} => b.pending = "none" /\ b.game # "on"
  BY <1>2, <1>4 DEF InPlace
<1>6. ~CanSend(b) => b.errs # {}
  BY <1>4, <1>5 DEF CanSend
<1>7. CanSend(b) /\ b.conn = "hung" => a.errs = b.errs \cup {"SC2AppFailure"}
  BY <1>1, AskedFacts
<1>8. b.errs \subseteq a.errs /\ a.file = b.file /\ a.game = b.game
  BY <1>1, AskedKeeps, AskedMonotone
<1> HIDE DEF a, b
<1>9. CanSend(b) /\ b.conn = "hung" => a.errs # {}
  BY <1>7
<1> QED BY <1>1, <1>2, <1>3, <1>5, <1>6, <1>8, <1>9 DEF a, b

LEMMA FateIgnored ==
  ASSUME IInv, FateInv, UNCHANGED settings, ShouldIgnore \/ LoadReplay
  PROVE  FateInv'
<1> DEFINE b == ob[turn]
           a == Asked(b, "info")
           c == [b EXCEPT !.pending = "load", !.file = files]
           p == at[turn]
<1>0. /\ ob \in [Observers -> Clients] /\ at \in [Observers -> Places]
      /\ turn \in Observers /\ files \in 0..NumReplays
  BY StateFacts DEF IInv
<1>1. phase \in {"taking", "taken"} /\ files' = files - 1 /\ at' = at
  BY DEF ShouldIgnore, LoadReplay, Pops
<1>2. /\ ~CanSend(b) => b.errs # {}
      /\ CanSend(b) /\ b.conn = "hung" => a.errs # {}
      /\ b.errs = {} => b.pending = "none" /\ b.game # "on"
      /\ at[turn] \in {"start", "done"}
      /\ b \in Clients /\ b.conn \in {"up", "upset", "hung", "closed"}
      /\ b.errs \subseteq a.errs /\ a.file = b.file /\ a.game = b.game
  BY <1>1, UnansweredErrs
<1>3. \A f \in Replays : f > files' => f > files \/ f = files
  BY <1>0, <1>1, ConstantFacts DEF Replays
<1>4. at' = [at EXCEPT ![turn] = p]
  BY <1>0, <1>1
<1>5. CASE ShouldIgnore
  <2> DEFINE v == IF CanSend(b) /\ b.conn \in {"up", "upset"} THEN "ignored" ELSE "unanswered"
  <2>1. ob' = [ob EXCEPT ![turn] = a] /\ fate' = [fate EXCEPT ![files] = v]
    BY <1>5 DEF ShouldIgnore
  <2>2. v # "listed" /\ v # "loading" /\ v # "playing"
    OBVIOUS
  <2>3. v = "unanswered" => a.errs # {}
    <3>1. v = "unanswered" => ~CanSend(b) \/ (CanSend(b) /\ b.conn = "hung")
      BY <1>2 DEF CanSend
    <3>2. ~CanSend(b) => a.errs # {}
      BY <1>2
    <3> HIDE DEF v, a
    <3> QED BY <1>2, <3>1, <3>2 DEF a
  <2> HIDE DEF v, a
  <2>4. Keeps(b, at[turn], a, p)
    BY <1>2 DEF Keeps, IsWaiting, IsPlaying
  <2> HIDE DEF p
  <2> QED BY <1>0, <1>2, <1>3, <1>4, <2>1, <2>2, <2>3, <2>4, FateSet
<1>6. CASE LoadReplay /\ CanSend(b)
  <2> DEFINE v == "loading"
  <2>1. ob' = [ob EXCEPT ![turn] = c] /\ fate' = [fate EXCEPT ![files] = v]
    BY <1>0, <1>6 DEF LoadReplay
  <2>2. v # "listed" /\ v # "playing" /\ v # "unanswered"
    OBVIOUS
  <2>3. /\ c.pending = "load" /\ c.file = files /\ c.errs = b.errs
    BY <1>2 DEF Clients
  <2> HIDE DEF v, c
  <2>4. IsWaiting(c) /\ c.file = files /\ b.errs \subseteq c.errs
    BY <2>3 DEF IsWaiting
  <2>5. Keeps(b, at[turn], c, p)
    BY <1>2, <2>3 DEF Keeps, IsWaiting, IsPlaying
  <2> HIDE DEF p
  <2> QED BY <1>0, <1>3, <1>4, <2>1, <2>2, <2>4, <2>5, FateSet
<1>7. CASE LoadReplay /\ ~CanSend(b)
  <2> DEFINE v == "unanswered"
  <2>1. ob' = ob /\ fate' = [fate EXCEPT ![files] = v]
    BY <1>7 DEF LoadReplay
  <2>2. ob' = [ob EXCEPT ![turn] = b]
    BY <1>0, <2>1
  <2>3. v # "listed" /\ v # "loading" /\ v # "playing"
    OBVIOUS
  <2>4. Keeps(b, at[turn], b, p) /\ b.errs # {}
    BY <1>2, <1>7 DEF Keeps
  <2> HIDE DEF v, p
  <2> QED BY <1>0, <1>3, <1>4, <2>1, <2>2, <2>3, <2>4, FateSet
<1> QED BY <1>5, <1>6, <1>7

LEMMA NextFate == IInv /\ FateInv /\ [Next]_vars => FateInv'
<1> SUFFICES ASSUME IInv, FateInv, [Next]_vars PROVE FateInv'
  OBVIOUS
<1>0. /\ ob \in [Observers -> Clients] /\ at \in [Observers -> Places]
      /\ turn \in Observers /\ ob[turn] \in Clients
  BY StateFacts DEF IInv
<1>1. CASE UNCHANGED <<files, fate, ob, at>>
  <2>1. \A s \in Observers : Keeps(ob[s], at[s], ob'[s], at'[s])
    BY <1>1 DEF Keeps
  <2> QED BY <1>1, <2>1, FateKept
<1>2. CASE StepsDone \/ StartReplay \/ UpdateReturns
           \/ \E r \in Observers : ReplayFaults(r)
  BY <1>1, <1>2 DEF StepsDone, StartReplay, UpdateReturns, ReplayFaults
<1>3. CASE CallUpdate
  <2>1. /\ phase = "user" /\ UNCHANGED <<files, fate, ob>>
        /\ at' = [r \in Observers |-> "start"]
    BY <1>3 DEF CallUpdate
  <2>2. ASSUME NEW s \in Observers PROVE Keeps(ob[s], at[s], ob'[s], at'[s])
    <3>1. at[s] # "first"
      BY <2>1 DEF IInv, ControlInv
    <3> QED BY <2>1, <3>1 DEF Keeps, IsPlaying
  <2> QED BY <2>1, <2>2, FateKept
(* One client changes on the coordinator's own thread.                     *)
<1>4. ASSUME NEW r \in Observers, NEW c, ob' = [ob EXCEPT ![r] = c],
             UNCHANGED <<files, fate, at>>, Keeps(ob[r], at[r], c, at[r])
      PROVE  FateInv'
  <2>1. \A s \in Observers : ob'[s] = IF s = r THEN c ELSE ob[s]
    BY <1>0, <1>4
  <2>2. \A s \in Observers : Keeps(ob[s], at[s], ob'[s], at'[s])
    BY <1>4, <2>1 DEF Keeps
  <2> QED BY <1>4, <2>2, FateKept
<1>5. CASE SerialCallbacks
  <2> DEFINE b == ob[turn]
  <2>1. PICK acts \in BOOLEAN :
          ob' = [ob EXCEPT ![turn] = IF b.app = "normal" THEN Stepped(b, acts) ELSE b]
    BY <1>5 DEF SerialCallbacks
  <2> DEFINE c == IF b.app = "normal" THEN Stepped(b, acts) ELSE b
  <2>2. Sound(b)
    BY <1>0 DEF IInv, ClientsInv
  <2>3. c.file = b.file /\ c.game = b.game /\ b.errs \subseteq c.errs
        /\ (IsWaiting(b) => IsWaiting(c))
    BY <1>0, <2>2, CalledKeeps
  <2>4. ob' = [ob EXCEPT ![turn] = c] /\ UNCHANGED <<files, fate, at>>
    BY <1>5, <2>1 DEF SerialCallbacks
  <2> HIDE DEF c
  <2>5. Keeps(b, at[turn], c, at[turn])
    BY <2>3 DEF Keeps, IsPlaying
  <2> QED BY <1>0, <1>4, <2>4, <2>5
<1>6. CASE LaunchProcesses
  <2>1. /\ UNCHANGED <<files, fate, at>>
        /\ started => ob' = ob
        /\ ~started => ob' = [r \in Observers |-> [ob[r] EXCEPT !.last = ob[r].status]]
    BY <1>6 DEF LaunchProcesses
  <2>2. ASSUME NEW s \in Observers PROVE Keeps(ob[s], at[s], ob'[s], at'[s])
    <3>1. ob[s] \in Clients
      BY <1>0
    <3>2. LET c == [ob[s] EXCEPT !.last = ob[s].status] IN
            /\ c.file = ob[s].file /\ c.pending = ob[s].pending /\ c.game = ob[s].game
            /\ c.errs = ob[s].errs
      BY <3>1 DEF Clients
    <3>3. /\ ob'[s].file = ob[s].file /\ ob'[s].pending = ob[s].pending
          /\ ob'[s].game = ob[s].game /\ ob'[s].errs = ob[s].errs
      BY <2>1, <3>2
    <3> QED BY <2>1, <3>3 DEF Keeps, IsWaiting, IsPlaying
  <2> QED BY <2>1, <2>2, FateKept
<1>7. CASE ShouldRelaunch \/ TakesReplay
  <2> DEFINE b == ob[turn]
             a == Asked(b, "info")
             c == [a EXCEPT !.errs = a.errs \cup {"WrongGameVersion"}]
  <2>1. /\ phase = "taking" /\ UNCHANGED <<files, fate, at>>
        /\ ob' = [ob EXCEPT ![turn] = a] \/ ob' = [ob EXCEPT ![turn] = c]
    BY <1>7 DEF ShouldRelaunch, TakesReplay
  <2>2. /\ b.errs = {} => b.pending = "none" /\ b.game # "on"
        /\ b.errs \subseteq a.errs /\ at[turn] # "first"
    BY <2>1, UnansweredErrs
  <2>3. a \in Clients
    BY <1>0, AskedFacts DEF Kinds
  <2> HIDE DEF a
  <2>4. c.errs = a.errs \cup {"WrongGameVersion"}
    BY <2>3 DEF Clients
  <2> HIDE DEF c
  <2>5. Keeps(b, at[turn], a, at[turn]) /\ Keeps(b, at[turn], c, at[turn])
    BY <2>2, <2>4 DEF Keeps, IsWaiting, IsPlaying
  <2> QED BY <1>0, <1>4, <2>1, <2>5
<1>8. ASSUME NEW r \in Observers, Loads(r) \/ Advances(r) \/ Breaks(r)
      PROVE  FateInv'
  <2>1. PICK c : Env(r, c) /\ Untouched(ob[r], c)
    BY <1>8, EnvShape
  <2>2. Keeps(ob[r], at[r], c, at[r])
    BY <2>1 DEF Keeps, IsWaiting, IsPlaying, Untouched
  <2>3. ob' = [ob EXCEPT ![r] = c] /\ UNCHANGED <<files, fate, at>>
    BY <2>1 DEF Env, coordinator
  <2> QED BY <1>4, <2>2, <2>3
<1>9. CASE UNCHANGED settings /\ (ShouldIgnore \/ LoadReplay)
  BY <1>9, FateIgnored
<1>10. CASE UNCHANGED settings /\ \E r \in Observers : Runs(r)
  BY <1>10, FateRuns
<1>11. CASE UNCHANGED vars
  BY <1>1, <1>11 DEF vars
<1> QED BY <1>2, <1>3, <1>5, <1>6, <1>7, <1>8, <1>9, <1>10, <1>11 DEF Next, Update

(* StartReplay has given a replay to every observer that it has passed, as *)
(* long as there was one.                                                  *)
CoverStays(b, c) ==
  /\ c.pending = b.pending /\ c.last = b.last /\ c.app = b.app
  /\ b.errs \subseteq c.errs

LEMMA CoverKept ==
  ASSUME IInv, CoverInv, UNCHANGED <<phase, turn, files, result>>,
         \A s \in Observers : CoverStays(ob[s], ob'[s])
  PROVE  CoverInv'
<1>1. \A s \in Observers : /\ Covered(s) => Covered(s)'
                           /\ IsInGame(ob[s])' <=> IsInGame(ob[s])
                           /\ ob'[s].pending = ob[s].pending
                           /\ ob'[s].errs = {} => ob[s].errs = {}
  BY DEF Covered, CoverStays, IsInGame
<1>2. (phase \in Loading => \A r \in Observers : r < turn => Covered(r))'
  BY <1>1 DEF CoverInv, Observers
<1>3. (phase = "checking" => \E r \in Observers : Covered(r))'
  BY <1>1 DEF CoverInv, Observers
<1>4. (phase = "user" /\ ~result /\ NoErrors => files = 0 /\ AllGamesEnded)'
  BY <1>1 DEF CoverInv, NoErrors, AllGamesEnded, Observers
<1> QED BY <1>2, <1>3, <1>4 DEF CoverInv

(* The observer whose turn it was is passed.                               *)
LEMMA CoverPasses ==
  ASSUME IInv, phase \in Loading, Passes,
         \A r \in Observers : r <= turn => Covered(r)'
  PROVE  CoverInv'
<1>1. turn \in Observers /\ phase' \in {"loading", "checking"}
  BY StateFacts DEF IInv, Passes
<1>2. CASE turn = Last
  <2>1. phase' = "checking" /\ turn <= turn
    BY <1>1, <1>2 DEF Passes, Observers
  <2> QED BY <1>1, <2>1 DEF CoverInv, Loading, Observers
<1>3. CASE turn # Last
  <2>1. phase' = "loading" /\ turn' = turn + 1
    BY <1>3 DEF Passes
  <2>2. ASSUME NEW r \in Observers, r < turn + 1 PROVE Covered(r)'
    <3>1. r <= turn
      BY <1>1, <2>2, ConstantFacts DEF Observers
    <3> QED BY <3>1
  <2> QED BY <2>1, <2>2 DEF CoverInv, Loading, Observers
<1> QED BY <1>2, <1>3

(* A step for the observer whose turn it is.                               *)
LEMMA CoverTaking ==
  ASSUME IInv, CoverInv, phase \in {"taking", "taken"}, NEW c,
         ob' = [ob EXCEPT ![turn] = c],
         \/ Passes /\ (files' = 0 \/ c.errs # {} \/ c.pending # "none")
         \/ phase' \in {"taking", "taken"} /\ UNCHANGED turn
  PROVE  CoverInv'
<1>1. /\ ob \in [Observers -> Clients] /\ turn \in Observers /\ files > 0
      /\ phase \in Loading
  BY StateFacts DEF IInv, ControlInv, Loading
<1>2. \A r \in Observers : ob'[r] = IF r = turn THEN c ELSE ob[r]
  BY <1>1
<1>3. ASSUME NEW r \in Observers, r < turn PROVE Covered(r)'
  <2>1. Covered(r) /\ r # turn
    BY <1>1, <1>3, ConstantFacts DEF CoverInv, Observers
  <2>2. ob'[r] = ob[r] /\ files # 0
    BY <1>1, <1>2, <2>1, StateFacts, ConstantFacts DEF IInv
  <2> QED BY <2>1, <2>2 DEF Covered
<1>4. CASE Passes /\ (files' = 0 \/ c.errs # {} \/ c.pending # "none")
  <2>1. ASSUME NEW r \in Observers, r <= turn PROVE Covered(r)'
    <3>1. CASE r = turn
      <4>1. ob'[r] = c
        BY <1>2, <3>1
      <4> QED BY <1>4, <4>1 DEF Covered
    <3>2. CASE r # turn
      <4>1. r < turn
        BY <1>1, <2>1, <3>2 DEF Observers
      <4> QED BY <1>3, <4>1
    <3> QED BY <3>1, <3>2
  <2> QED BY <1>1, <1>4, <2>1, CoverPasses
<1>5. CASE phase' \in {"taking", "taken"} /\ UNCHANGED turn
  BY <1>3, <1>5 DEF CoverInv, Observers
<1> QED BY <1>4, <1>5

LEMMA CoverLoading ==
  ASSUME IInv, CoverInv, StartReplay
  PROVE  CoverInv'
<1>1. /\ phase = "loading" /\ UNCHANGED <<files, ob, result>>
      /\ turn \in Observers
  BY StateFacts DEF IInv, StartReplay
<1>2. \A r \in Observers : Covered(r) => Covered(r)'
  BY <1>1 DEF Covered, IsInGame
<1>3. \A r \in Observers : r < turn => Covered(r)
  BY <1>1 DEF CoverInv, Loading
<1>4. CASE IsReadyForCreateGame(ob[turn]) /\ files > 0
  <2>1. phase' = "taking" /\ turn' = turn
    BY <1>4 DEF StartReplay
  <2> QED BY <1>2, <1>3, <2>1 DEF CoverInv, Observers
<1>5. CASE ~(IsReadyForCreateGame(ob[turn]) /\ files > 0)
  <2> DEFINE b == ob[turn]
  <2>1. Passes
    BY <1>5 DEF StartReplay, NextTurn, Leaves, Passes
  <2>2. /\ b \in Clients /\ Sound(b) /\ files \in 0..NumReplays
        /\ Normal(b) => b.last # "unknown"
    BY <1>1, TypeFacts, StateFacts DEF IInv, ClientsInv, ControlInv, Loading
  <2>3. b.app \in {"normal", "failed"} /\ b.last \in {"unknown", "launched", "replay", "ended"}
    BY <2>2 DEF Clients
  <2>4. ~Normal(b) => b.errs # {}
    BY <2>2, <2>3 DEF Sound, Recorded
  <2>5. files = 0 \/ files > 0
    BY <2>2, ConstantFacts
  <2>6. Covered(turn)
    BY <1>5, <2>2, <2>3, <2>4, <2>5 DEF Covered, IsReadyForCreateGame, IsInGame
  <2>7. ASSUME NEW r \in Observers, r <= turn PROVE Covered(r)'
    <3>1. r < turn \/ r = turn
      BY <1>1, <2>7 DEF Observers
    <3> QED BY <1>2, <1>3, <2>6, <3>1
  <2> QED BY <1>1, <2>1, <2>7, CoverPasses DEF Loading
<1> QED BY <1>4, <1>5

LEMMA NextCover == IInv /\ CoverInv /\ [Next]_vars => CoverInv'
<1> SUFFICES ASSUME IInv, CoverInv, [Next]_vars PROVE CoverInv'
  OBVIOUS
<1>0. /\ ob \in [Observers -> Clients] /\ turn \in Observers /\ ob[turn] \in Clients
      /\ files \in 0..NumReplays /\ 1 \in Observers
  BY StateFacts, ConstantFacts DEF IInv, Observers
<1>1. CASE UNCHANGED <<phase, turn, files, result, ob>>
  BY <1>1, CoverKept DEF CoverStays
(* AfterSteps, for what the callbacks leave.                               *)
<1>2. ASSUME phase' = AfterSteps, files' = files, turn' = 1 PROVE CoverInv'
  <2>1. phase' = "starting" \/ phase' = "checking"
    BY <1>2 DEF AfterSteps
  <2>2. phase' = "checking" => files = 0 \/ \A r \in Observers : IsInGame(ob'[r])
    BY <1>0, <1>2, ConstantFacts DEF AfterSteps
  <2>3. phase' = "checking" => Covered(1)'
    BY <1>0, <1>2, <2>2 DEF Covered, IsInGame
  <2> QED BY <1>0, <2>1, <2>3 DEF CoverInv, Loading, Observers
<1>3. CASE StepsDone
  <2>1. turn' = 1 /\ files' = files /\ phase' \in {"callbacks", AfterSteps}
    BY <1>3 DEF StepsDone, Leaves
  <2>2. CASE phase' = "callbacks"
    BY <2>2 DEF CoverInv, Loading
  <2> QED BY <1>2, <2>1, <2>2
<1>4. CASE SerialCallbacks
  <2>1. files' = files /\ (phase' = "callbacks" \/ (phase' = AfterSteps /\ turn' = 1))
    BY <1>4 DEF SerialCallbacks, NextTurn, Leaves
  <2>2. CASE phase' = "callbacks"
    BY <2>2 DEF CoverInv, Loading
  <2> QED BY <1>2, <2>1, <2>2
<1>5. CASE CallUpdate
  <2>1. /\ phase' \in {"stepping", "starting", "checking"}
        /\ phase' = "checking" => ~(files > 0)
        /\ files' = files
    BY <1>5 DEF CallUpdate
  <2>2. phase' = "checking" => Covered(1)'
    BY <1>0, <2>1, ConstantFacts DEF Covered
  <2> QED BY <1>0, <2>1, <2>2 DEF CoverInv, Loading, Observers
<1>6. CASE LaunchProcesses
  <2>1. phase' = "loading" /\ turn' = 1
    BY <1>6 DEF LaunchProcesses, Leaves
  <2>2. \A r \in Observers : ~(r < 1)
    BY ConstantFacts DEF Observers
  <2> QED BY <2>1, <2>2 DEF CoverInv, Loading, Observers
<1>7. CASE StartReplay
  BY <1>7, CoverLoading
<1>8. CASE ShouldIgnore
  <2>1. /\ phase = "taking" /\ ob' = [ob EXCEPT ![turn] = Asked(ob[turn], "info")]
        /\ files' = files - 1 /\ Continues
    BY <1>8 DEF ShouldIgnore, Pops
  <2>2. \/ Passes /\ files' = 0
        \/ phase' = "taking" /\ UNCHANGED turn
    BY <2>1, ContinuesFacts
  <2> QED BY <2>1, <2>2, CoverTaking
<1>9. CASE ShouldRelaunch
  <2> DEFINE a == Asked(ob[turn], "info")
             c == [a EXCEPT !.errs = a.errs \cup {"WrongGameVersion"}]
  <2>1. phase = "taking" /\ ob' = [ob EXCEPT ![turn] = c] /\ Passes
    BY <1>9, DonePasses DEF ShouldRelaunch
  <2>2. a \in Clients
    BY <1>0, AskedFacts DEF Kinds
  <2> HIDE DEF a
  <2>3. c.errs = a.errs \cup {"WrongGameVersion"}
    BY <2>2 DEF Clients
  <2> HIDE DEF c
  <2>4. c.errs # {}
    BY <2>3
  <2> QED BY <2>1, <2>4, CoverTaking
<1>10. CASE TakesReplay
  <2>1. /\ phase = "taking" /\ phase' = "taken" /\ turn' = turn
        /\ ob' = [ob EXCEPT ![turn] = Asked(ob[turn], "info")]
    BY <1>0, <1>10 DEF TakesReplay
  <2> QED BY <2>1, CoverTaking
<1>11. CASE LoadReplay
  <2> DEFINE b == ob[turn]
             c == [b EXCEPT !.pending = "load", !.file = files]
  <2>1. phase = "taken" /\ files' = files - 1
    BY <1>11 DEF LoadReplay, Pops
  <2>2. CASE CanSend(b)
    <3>1. ob' = [ob EXCEPT ![turn] = c] /\ Passes
      BY <1>0, <1>11, <2>2, DonePasses DEF LoadReplay
    <3>2. c.pending = "load"
      BY <1>0 DEF Clients
    <3> HIDE DEF c
    <3> QED BY <2>1, <3>1, <3>2, CoverTaking
  <2>3. CASE ~CanSend(b)
    <3>1. ob' = [ob EXCEPT ![turn] = b] /\ Continues
      BY <1>0, <1>11, <2>3 DEF LoadReplay
    <3>2. \/ Passes /\ files' = 0
          \/ phase' = "taking" /\ UNCHANGED turn
      BY <2>1, <3>1, ContinuesFacts
    <3> QED BY <2>1, <3>1, <3>2, CoverTaking
  <2> QED BY <2>2, <2>3
<1>12. CASE UpdateReturns
  <2>1. /\ phase = "checking" /\ UNCHANGED <<files, ob>> /\ phase' \in {"user", "stuck"}
        /\ phase' = "user" /\ ~result' /\ NoErrors => AllGamesEnded
    BY <1>12 DEF UpdateReturns, NoErrors
  <2>2. PICK r \in Observers : Covered(r)
    BY <2>1 DEF CoverInv
  <2>3. phase' = "user" /\ ~result' /\ NoErrors => files = 0 /\ AllGamesEnded
    BY <2>1, <2>2 DEF Covered, NoErrors, AllGamesEnded
  <2>4. NoErrors' => NoErrors
    BY <2>1 DEF NoErrors, Observers
  <2>5. AllGamesEnded => AllGamesEnded'
    BY <2>1 DEF AllGamesEnded, IsInGame, Observers
  <2> QED BY <2>1, <2>3, <2>4, <2>5 DEF CoverInv, Loading
<1>13. ASSUME NEW r \in Observers, ReplayFaults(r) PROVE CoverInv'
  BY <1>13 DEF ReplayFaults, CoverInv, Loading
<1>14. ASSUME NEW r \in Observers, Runs(r) PROVE CoverInv'
  <2>1. phase = "stepping" /\ phase' = phase
    BY <1>14 DEF Runs, RunReplay, WaitForReplay, FirstObservation, StepGame, ObserveGame,
       ReplayCallbacks, Goes, coordinator
  <2> QED BY <2>1 DEF CoverInv, Loading
<1>15. ASSUME NEW r \in Observers, Loads(r) \/ Advances(r) \/ Breaks(r)
       PROVE  CoverInv'
  <2>1. PICK c : Env(r, c) /\ Untouched(ob[r], c)
    BY <1>15, EnvShape
  <2>2. /\ ob' = [ob EXCEPT ![r] = c] /\ UNCHANGED <<phase, turn, files, result>>
    BY <2>1 DEF Env, coordinator
  <2>3. \A s \in Observers : ob'[s] = IF s = r THEN c ELSE ob[s]
    BY <1>0, <2>2
  <2>4. \A s \in Observers : CoverStays(ob[s], ob'[s])
    BY <2>1, <2>3 DEF CoverStays, Untouched
  <2> QED BY <2>2, <2>4, CoverKept
<1>16. CASE UNCHANGED vars
  BY <1>1, <1>16 DEF vars
<1> QED BY <1>3, <1>4, <1>5, <1>6, <1>7, <1>8, <1>9, <1>10, <1>11, <1>12, <1>13, <1>14,
           <1>15, <1>16 DEF Next, Update

(* When Update() returns false without an error on record every replay was *)
(* refused or played to its end: StartReplay goes through the list for as  *)
(* long as an observer is free, and an observer in a replay, or one that   *)
(* is loading, keeps AllGamesEnded from holding.                           *)
THEOREM HasItsTurn == Spec => []EveryReplayHasItsTurn
<1>1. Init => FateInv /\ CoverInv
  <2> SUFFICES ASSUME Init PROVE FateInv /\ CoverInv
    OBVIOUS
  <2>1. /\ files = NumReplays /\ fate = [f \in Replays |-> "listed"]
        /\ phase = "user" /\ result = TRUE
    BY DEF Init
  <2>2. \A f \in Replays : fate[f] = "listed" /\ ~(f > files)
    BY <2>1, ConstantFacts DEF Replays
  <2> QED BY <2>1, <2>2 DEF FateInv, CoverInv, Loading
<1>2. IInv /\ FateInv /\ CoverInv => EveryReplayHasItsTurn
  <2> SUFFICES ASSUME IInv, FateInv, CoverInv, phase = "user", ~result, NoErrors,
                      NEW f \in Replays
               PROVE  fate[f] \in {"ignored", "rejected", "played"}
    BY DEF EveryReplayHasItsTurn
  <2>1. files = 0 /\ AllGamesEnded
    BY DEF CoverInv
  <2>2. fate[f] \in Fates /\ f > files
    BY <2>1, StateFacts, ConstantFacts DEF IInv, Replays
  <2>3. ASSUME NEW r \in Observers
        PROVE  ob[r].pending = "none" /\ at[r] # "first" /\ ob[r].game # "on"
    <3>1. ob[r].pending = "none" /\ ~IsInGame(ob[r])
      BY <2>1 DEF AllGamesEnded
    <3>2. at[r] \in {"start", "done"} /\ Sound(ob[r]) /\ InPlace(ob[r], at[r])
      BY DEF IInv, ControlInv, ClientsInv
    <3>3. ob[r].errs = {} /\ ob[r].app \in {"normal", "failed"}
      BY TypeFacts DEF NoErrors, IInv, Clients
    <3>4. Normal(ob[r])
      BY <3>2, <3>3 DEF Sound, Recorded
    <3> QED BY <3>1, <3>2, <3>4 DEF InPlace, IsInGame
  <2>4. fate[f] \notin {"listed", "unanswered", "loading", "playing"}
    BY <2>2, <2>3 DEF FateInv
  <2> QED BY <2>2, <2>4 DEF Fates
<1> QED BY <1>1, <1>2, NextFate, NextCover, Inductive, PTL DEF Spec
=============================================================================
