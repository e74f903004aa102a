------------------------ MODULE AgentCoordinatorSteps -------------------------
(***************************************************************************)
(* An inductive invariant of AgentCoordinator, and what the operations of  *)
(* one client make of its part of it, wherever its agent is.  The steps of *)
(* the coordinator and the theorems are in AgentCoordinatorProofs.         *)
(***************************************************************************)
EXTENDS AgentCoordinator, TLAPS

Normal(b) == b.app = "normal"
Serial == ~MultiThreaded /\ ~Realtime

(***************************************************************************)
(* The inductive invariant                                                 *)
(***************************************************************************)

(* Where an agent is: in the step of Update, or in StartGame.  "stepped"   *)
(* is the end of a step whose callbacks are still to come.                 *)
Place(a) ==
  CASE phase = "stepping" -> IF Serial /\ at[a] = "done" THEN "stepped" ELSE at[a]
    [] phase = "callbacks" -> at[a]
    [] phase = "creating" -> IF a = First THEN "create" ELSE "out"
    [] phase = "join" -> IF a < turn THEN "join" ELSE "out"
    [] phase = "joining" -> IF a < turn THEN "joined" ELSE "join"
    [] phase = "joined" -> "joined"
    [] phase = "observing" -> IF a < turn THEN "observed" ELSE "joined"
    [] phase = "observed" -> IF a < turn THEN "observed"
                             ELSE IF a = turn THEN "first" ELSE "joined"
    [] phase = "starting" -> "observed"
    [] phase \in {"user", "checking", "draining"} ->
         IF games = 0 THEN "new" ELSE "done"
    [] phase \in {"exit", "fault"} -> "gone"

Asking  == {"create", "join", "first", "step", "observe", "act"}
Resting == {"start", "stepped", "serial", "done"}
Playing == {"step", "observe", "callback", "act"}

(* A client, wherever its agent is: what is out was asked for, what has    *)
(* come in was waited for, and what has failed is on record.               *)
Link(b) ==
  /\ b.request # "none" => b.pending = b.request /\ b.reply = NoReply /\ b.conn = "up"
  /\ b.reply # NoReply => /\ b.pending # "none" /\ b.request = "none"
                          /\ b.conn = "up" /\ b.reply.status # "none"
  /\ Normal(b) /\ b.pending # "none" /\ b.conn = "up" /\ b.reply = NoReply
       => b.request = b.pending
  /\ ~Normal(b) => /\ b.request = "none" /\ b.reply = NoReply /\ ~CanSend(b)
                   /\ "SC2AppFailure" \in b.errs
  /\ b.conn = "closed" => "ConnectionClosed" \in b.errs

(* What a client knows of its SC2: of a game that is on, that it is; and   *)
(* an answer is what SC2 was at, which only in real time has gone on.      *)
Knows(b) ==
  /\ Normal(b) /\ b.status = "inGame"
       => \/ b.last = "inGame" \/ b.reply.status = "inGame"
          \/ b.conn # "up" /\ b.pending # "none"
  /\ b.reply # NoReply =>
       /\ b.status = "inGame" => b.reply.status = "inGame"
       /\ b.loop >= 1 => b.reply.loop >= 1
       /\ ~Realtime => b.reply.status = b.status /\ b.reply.loop = b.loop
       /\ ~b.reply.bad /\ b.pending = "leave"
            => b.status = "launched" /\ b.reply.status = "launched"
  /\ b.status \in {"inGame", "ended"} => b.loop >= 1

(* What the agent at p waits for.                                          *)
Awaited(p) ==
  CASE p = "create" -> {"create"}
    [] p = "join" -> {"join"}
    [] p \in {"first", "observe"} -> {"observation"}
    [] p = "act" -> {"action"}
    [] p = "step" -> {"step", "none"}
    [] p \in {"new", "out", "joined", "observed", "callback"} -> {"none"}
    [] p \in Resting -> IF Multiplayer THEN {"none", "leave"} ELSE {"none"}
    [] p = "gone" -> {"none", "create", "join", "step", "observation", "action", "leave"}

Waits(b, p) ==
  /\ p \in Asking \cup {"out"} => Normal(b)
  /\ Normal(b) => b.pending \in Awaited(p)
  /\ p = "step" /\ b.pending = "none" => b.conn = "closed"

(* A join that succeeds puts the agent into a game.                        *)
Begun(b, p) ==
  /\ p = "join" /\ b.reply # NoReply /\ ~b.reply.bad
       => b.loop >= 1 /\ b.status \in {"inGame", "ended"}
  /\ p \in {"joined", "first", "observed"} \cup Playing \cup Resting /\ b.errs = {}
       => b.loop >= 1 /\ b.status # "init"

(* Observed in this step, and its callbacks are to come.                   *)
InStep(b, p) ==
  \/ p = "callback" /\ (Realtime \/ IsInGame(b))
  \/ p \in {"stepped", "serial"} /\ IsInGame(b) /\ b.pending # "leave"

(* The loop that OnStep was last called for.                               *)
Seen(b, p) ==
  b.errs = {} =>
    /\ ~b.again
    /\ p \in {"join", "joined", "first", "observed"} => b.seen = 0
    /\ p \in {"step", "observe", "act"} => b.seen \in {0, b.cur}
    /\ p \in {"start", "done"} /\ IsInGame(b) /\ b.pending # "leave"
         => b.seen \in {0, b.cur}
    /\ InStep(b, p) => b.seen \in {0, b.prev}
    /\ p = "observed" \/ InStep(b, p) => b.cur >= 1

(* The end of the game was announced once, to an agent whose game is over. *)
Over(b) ==
  \/ ~Normal(b)
  \/ b.last # "inGame" /\ b.status # "inGame" /\ b.reply.status # "inGame"

SingleSerial == Serial /\ ~Multiplayer
Once == SingleSerial => ~KeepsUpdating

Ends(b, p) ==
  /\ p \in {"join", "joined", "first", "observed"} \cup Playing => b.ends = 0
  /\ p \in Resting => b.ends = 0 \/ Over(b)
  /\ p \in Resting \ {"done"} /\ SingleSerial => b.ends = 0
  /\ b.ends <= 1

Agent(b, p) ==
  /\ Link(b) /\ Knows(b) /\ Waits(b, p) /\ Begun(b, p) /\ Seen(b, p)
  /\ Once => Ends(b, p)

(* In a game that is stepped SC2 waits for the agent.                      *)
Lock(b, p) ==
  b.errs = {} =>
    /\ p \in {"observed", "callback", "act"} \cup Resting /\ IsInGame(b)
         => b.cur = b.loop /\ (b.status = "inGame" \/ b.pending = "leave")
    /\ b.request = "step" => b.status = "inGame" /\ b.cur = b.loop
    /\ p \in {"act", "step"} => b.last = "inGame"

(* What the agent has been told of the end of its game: who leaves has had *)
(* its OnGameEnd, unless the user said so, and who was in the game is in   *)
(* it or has had its own; who has left is where a game can be created.     *)
Told(b, p) ==
  /\ ~left /\ b.pending = "leave" => b.ends > 0
  /\ ~left /\ ~InTurns /\ p \in {"start", "done"} /\ b.played
       => b.ends > 0 \/ IsInGame(b)
  /\ p \in {"create", "out", "join", "joined", "first", "observed"} => ~left
  /\ Multiplayer /\ p \in Playing => ~left
  /\ Multiplayer /\ p \in Resting /\ (left \/ b.ends > 0) /\ b.pending # "leave"
       => b.status = "launched" /\ b.last = "launched"

EachInv ==
  \A a \in Agents :
    /\ Agent(bot[a], Place(a))
    /\ ~Realtime /\ NoErrors => Lock(bot[a], Place(a))
    /\ NoErrors => Told(bot[a], Place(a))

(* The SC2s of the agents that are in a stepped game are at the same loop, *)
(* until they have answered that they have left it.                        *)
Plays(b) == b.status = "inGame" \/ (b.pending = "leave" /\ b.last = "inGame")

LoopsInv ==
  ~Realtime /\ Multiplayer /\ NoErrors =>
    /\ \A a, b \in Agents :
         Plays(bot[a]) /\ Plays(bot[b]) => bot[a].loop = bot[b].loop
    /\ left => \A a \in Agents : bot[a].status = "inGame" => bot[a].pending = "leave"

AgentsInv == EachInv /\ LoopsInv

(* The threads.                                                            *)
AtInv ==
  /\ phase = "joined" => turn = First
  /\ phase = "stepping" =>
       \A a \in Agents :
         /\ at[a] \in {"start", "step", "observe", "done"}
                        \cup (IF Serial THEN {} ELSE {"callback", "act"})
         /\ Realtime /\ ~MultiThreaded /\ a < turn => at[a] = "done"
  /\ phase = "callbacks" =>
       /\ Serial
       /\ \A a \in Agents : /\ at[a] \in {"serial", "callback", "act", "done"}
                            /\ a < turn => at[a] = "done"

(* When Update has returned false, or StartGame was never called, nothing  *)
(* is left of a game.                                                      *)
RestInv ==
  /\ phase \in {"user", "draining"} /\ ~result /\ NoErrors
       => \A a \in Agents : bot[a].pending = "none" /\ ~IsInGame(bot[a])
  /\ phase \in {"user", "draining"} /\ result /\ SingleSerial /\ Once
       => \A a \in Agents : bot[a].ends = 0

FreshInv ==
  games = 0 =>
    /\ phase = "user" /\ ~result
    /\ \A a \in Agents : /\ bot[a].status = "launched" /\ bot[a].last = "launched"
                         /\ bot[a].pending = "none"
                         /\ bot[a].ends = 0 /\ ~bot[a].played

IInv == TypeOK /\ AgentsInv /\ AtInv /\ RestInv /\ FreshInv

-----------------------------------------------------------------------------
(***************************************************************************)
(* What the operations of a client return                                  *)
(***************************************************************************)
Kinds == {"create", "join", "step", "observation", "action", "leave"}
Errors == {"ResponseNotConsumed", "SC2ProtocolError", "SC2UnknownStatus",
           "SC2AppFailure", "ConnectionClosed"}
Replies == [status : {"none", "launched", "init", "inGame", "ended"},
            loop : 0..MaxLoops, bad : BOOLEAN]

(* What a request and the wait for its answer leave alone.                 *)
Kept(c, b) ==
  /\ c.status = b.status /\ c.loop = b.loop /\ c.cur = b.cur /\ c.prev = b.prev
  /\ c.conn = b.conn
  /\ c.ends = b.ends /\ c.played = b.played /\ c.seen = b.seen /\ c.again = b.again

(* What only the callbacks leave alone.                                    *)
Called(c, b) ==
  /\ c.pending = b.pending /\ c.last = b.last /\ c.app = b.app /\ c.errs = b.errs
  /\ c.cur = b.cur /\ c.prev = b.prev /\ c.conn = b.conn
  /\ c.request = b.request /\ c.reply = b.reply
  /\ c.status = b.status /\ c.loop = b.loop

LEMMA ConstantFacts ==
  ASSUME settings \in Settings
  PROVE  /\ NumAgents \in Nat /\ NumAgents >= 1 /\ MaxLoops \in Nat /\ MaxLoops >= 1
         /\ Multiplayer \in BOOLEAN /\ MultiThreaded \in BOOLEAN
         /\ Realtime \in BOOLEAN /\ KeepsUpdating \in BOOLEAN
         /\ NumAgents > 1 => Multiplayer
         /\ 0 \in 0..MaxLoops /\ MaxLoops \in 0..MaxLoops
<1>1. settings \in [agents : 1..MaxAgents, multiplayer : BOOLEAN,
                    multiThreaded : BOOLEAN, realtime : BOOLEAN,
                    keepsUpdating : BOOLEAN, maxLoops : Nat \ {0}]
  BY AgentsAssumption
<1>2. settings.agents > 1 => settings.multiplayer
  BY AgentsAssumption
<1>3. MaxAgents \in Nat \ {0}
  BY AgentsAssumption
<1> QED BY <1>1, <1>2, <1>3 DEF NumAgents, MaxLoops, Multiplayer, MultiThreaded,
             Realtime, KeepsUpdating

LEMMA NoReplyFacts ==
  ASSUME settings \in Settings
  PROVE  /\ NoReply \in Replies
         /\ NoReply.status = "none" /\ NoReply.loop = 0 /\ NoReply.bad = FALSE
<1>1. 0 \in 0..MaxLoops
  BY ConstantFacts
<1> QED BY <1>1 DEF NoReply, Replies

LEMMA SentFacts ==
  ASSUME NEW b \in Bots, NEW k \in Kinds
  PROVE  LET s == Sent(b, k) IN
           /\ s \in Bots /\ Kept(s, b)
           /\ s.last = b.last /\ s.app = b.app /\ s.reply = b.reply
           /\ b.errs \subseteq s.errs
           /\ b.conn = "closed" => s = b
           /\ b.conn # "closed" /\ b.pending # "none" =>
                /\ s.errs = b.errs \cup {"ResponseNotConsumed"}
                /\ s.pending = b.pending /\ s.request = b.request
           /\ CanSend(b) =>
                /\ s.errs = b.errs /\ s.pending = k
                /\ s.request = IF b.conn = "up" THEN k ELSE "none"
<1>1. CASE b.conn = "closed"
  <2>1. Sent(b, k) = b /\ ~CanSend(b)
    BY <1>1 DEF Sent, CanSend
  <2> QED BY <1>1, <2>1 DEF Kept
<1>2. CASE b.conn # "closed" /\ b.pending # "none"
  <2> DEFINE e == b.errs \cup {"ResponseNotConsumed"}
             s == [b EXCEPT !.errs = e]
  <2>1. Sent(b, k) = s /\ ~CanSend(b)
    BY <1>2 DEF Sent, CanSend
  <2>2. e \in SUBSET Errors
    BY DEF Bots, Errors
  <2> HIDE DEF e
  <2>3. s \in Bots
    BY <2>2 DEF Bots, Errors
  <2>4. /\ s.errs = e /\ s.pending = b.pending /\ s.request = b.request
        /\ s.last = b.last /\ s.app = b.app /\ s.reply = b.reply /\ Kept(s, b)
    BY DEF Kept, Bots
  <2> HIDE DEF s
  <2> QED BY <1>2, <2>1, <2>3, <2>4 DEF e
<1>3. CASE CanSend(b)
  <2> DEFINE r == IF b.conn = "up" THEN k ELSE "none"
             s == [b EXCEPT !.pending = k, !.request = r]
  <2>1. Sent(b, k) = s
    BY <1>3 DEF Sent, CanSend
  <2>2. r \in Kinds \cup {"none"}
    OBVIOUS
  <2> HIDE DEF r
  <2>3. s \in Bots
    BY <2>2 DEF Bots, Kinds
  <2>4. /\ s.errs = b.errs /\ s.pending = k /\ s.request = r
        /\ s.last = b.last /\ s.app = b.app /\ s.reply = b.reply /\ Kept(s, b)
    BY DEF Kept, Bots
  <2> HIDE DEF s
  <2> QED BY <1>3, <2>1, <2>3, <2>4 DEF r, CanSend
<1> QED BY <1>1, <1>2, <1>3 DEF CanSend

LEMMA GotFacts ==
  ASSUME settings \in Settings, NEW b \in Bots, b.reply.status # "none"
  PROVE  LET g == Got(b) IN
           /\ g \in Bots /\ Kept(g, b)
           /\ g.pending = "none" /\ g.last = b.reply.status /\ g.reply = NoReply
           /\ g.app = b.app /\ g.request = b.request
           /\ b.errs \subseteq g.errs
           /\ g.errs = IF b.reply.bad THEN b.errs \cup {"SC2ProtocolError"} ELSE b.errs
<1> DEFINE e == IF b.reply.bad THEN b.errs \cup {"SC2ProtocolError"} ELSE b.errs
           g == [b EXCEPT !.pending = "none", !.last = b.reply.status,
                          !.reply = NoReply, !.errs = e]
<1>1. e \in SUBSET Errors /\ b.errs \subseteq e
  BY DEF Bots, Errors
<1>2. Got(b) = g
  BY DEF Got
<1>3. b.reply.status \in {"launched", "init", "inGame", "ended"}
  BY DEF Bots
<1>4. NoReply \in Replies
  BY NoReplyFacts
<1> HIDE DEF e
<1>5. g \in Bots
  BY <1>1, <1>3, <1>4 DEF Bots, Errors, Replies
<1>6. /\ g.pending = "none" /\ g.last = b.reply.status /\ g.reply = NoReply
      /\ g.app = b.app /\ g.request = b.request /\ g.errs = e /\ Kept(g, b)
  BY DEF Kept, Bots
<1> HIDE DEF g
<1> QED BY <1>1, <1>2, <1>5, <1>6 DEF e

LEMMA AbandonedFacts ==
  ASSUME NEW b \in Bots, NEW pinged \in BOOLEAN
  PROVE  LET g == Abandoned(b, pinged) IN
           /\ g \in Bots /\ Kept(g, b)
           /\ g.request = "none" /\ g.reply = b.reply
           /\ b.errs \subseteq g.errs /\ g.errs # {}
           /\ pinged => /\ g.pending = "none" /\ g.last = b.status /\ g.app = b.app
                        /\ g.errs = b.errs \cup {"SC2UnknownStatus"}
           /\ ~pinged => /\ g.pending = b.pending /\ g.last = "unknown"
                         /\ g.app = "failed"
                         /\ g.errs = b.errs \cup {"SC2AppFailure"}
<1>1. CASE pinged
  <2> DEFINE e == b.errs \cup {"SC2UnknownStatus"}
             g == [b EXCEPT !.pending = "none", !.last = b.status,
                            !.request = "none", !.errs = e]
  <2>1. Abandoned(b, pinged) = g
    BY <1>1 DEF Abandoned
  <2>2. e \in SUBSET Errors /\ b.errs \subseteq e /\ e # {}
    BY DEF Bots, Errors
  <2> HIDE DEF e
  <2>3. g \in Bots
    BY <2>2 DEF Bots, Errors
  <2>4. /\ g.request = "none" /\ g.reply = b.reply /\ g.pending = "none"
        /\ g.last = b.status /\ g.app = b.app /\ g.errs = e /\ Kept(g, b)
    BY DEF Kept, Bots
  <2> HIDE DEF g
  <2> QED BY <1>1, <2>1, <2>2, <2>3, <2>4 DEF e
<1>2. CASE ~pinged
  <2> DEFINE e == b.errs \cup {"SC2AppFailure"}
             g == [b EXCEPT !.last = "unknown", !.app = "failed",
                            !.request = "none", !.errs = e]
  <2>1. Abandoned(b, pinged) = g
    BY <1>2 DEF Abandoned
  <2>2. e \in SUBSET Errors /\ b.errs \subseteq e /\ e # {}
    BY DEF Bots, Errors
  <2> HIDE DEF e
  <2>3. g \in Bots
    BY <2>2 DEF Bots, Errors
  <2>4. /\ g.request = "none" /\ g.reply = b.reply /\ g.pending = b.pending
        /\ g.last = "unknown" /\ g.app = "failed" /\ g.errs = e /\ Kept(g, b)
    BY DEF Kept, Bots
  <2> HIDE DEF g
  <2> QED BY <1>2, <2>1, <2>2, <2>3, <2>4 DEF e
<1> QED BY <1>1, <1>2

LEMMA ObservedFacts ==
  ASSUME settings \in Settings, NEW b \in Bots, b.reply.status # "none"
  PROVE  LET o == Observed(b) IN
           /\ o \in Bots
           /\ o.status = b.status /\ o.loop = b.loop /\ o.conn = b.conn
           /\ o.ends = b.ends /\ o.played = b.played /\ o.seen = b.seen
           /\ o.again = b.again
           /\ o.pending = "none" /\ o.last = b.reply.status /\ o.reply = NoReply
           /\ o.app = b.app /\ o.request = b.request
           /\ b.errs \subseteq o.errs
           /\ o.errs = IF b.reply.bad THEN b.errs \cup {"SC2ProtocolError"} ELSE b.errs
           /\ o.prev = IF b.reply.bad THEN b.prev ELSE b.cur
           /\ o.cur = IF b.reply.bad THEN b.cur ELSE b.reply.loop
<1> DEFINE g == Got(b)
           o == [g EXCEPT !.prev = b.cur, !.cur = b.reply.loop]
<1>1. /\ g \in Bots /\ Kept(g, b)
      /\ g.pending = "none" /\ g.last = b.reply.status /\ g.reply = NoReply
      /\ g.app = b.app /\ g.request = b.request /\ b.errs \subseteq g.errs
      /\ g.errs = IF b.reply.bad THEN b.errs \cup {"SC2ProtocolError"} ELSE b.errs
  BY GotFacts
<1>2. Observed(b) = IF b.reply.bad THEN g ELSE o
  BY DEF Observed
<1>3. b.reply.bad \in BOOLEAN /\ b.cur \in 0..MaxLoops /\ b.reply.loop \in 0..MaxLoops
  BY DEF Bots
<1> HIDE DEF g
<1>4. o \in Bots
  BY <1>1, <1>3 DEF Bots
<1>5. /\ o.status = g.status /\ o.loop = g.loop /\ o.conn = g.conn
      /\ o.ends = g.ends /\ o.played = g.played /\ o.seen = g.seen
      /\ o.again = g.again /\ o.pending = g.pending /\ o.last = g.last
      /\ o.reply = g.reply /\ o.app = g.app /\ o.request = g.request
      /\ o.errs = g.errs /\ o.prev = b.cur /\ o.cur = b.reply.loop
  BY <1>1 DEF Bots
<1> HIDE DEF o
<1>6. CASE b.reply.bad
  <2>1. Observed(b) = g
    BY <1>2, <1>6
  <2> QED BY <1>1, <1>6, <2>1 DEF Kept
<1>7. CASE ~b.reply.bad
  <2>1. Observed(b) = o
    BY <1>2, <1>7
  <2> QED BY <1>1, <1>4, <1>5, <1>7, <2>1 DEF Kept
<1> QED BY <1>6, <1>7

LEMMA IssuedFacts ==
  ASSUME NEW b \in Bots
  PROVE  LET i == Issued(b) IN
           /\ i \in Bots /\ Called(i, b)
           /\ i.ends = b.ends /\ i.played = b.played
           /\ b.cur = b.prev => i = b
           /\ b.cur # b.prev => /\ i.seen = b.cur
                                /\ i.again <=> b.again \/ b.seen = b.cur
<1> DEFINE n == b.again \/ b.seen = b.cur
           i == [b EXCEPT !.seen = b.cur, !.again = n]
<1>1. Issued(b) = IF b.cur = b.prev THEN b ELSE i
  BY DEF Issued
<1>2. n \in BOOLEAN
  OBVIOUS
<1> HIDE DEF n
<1>3. i \in Bots
  BY <1>2 DEF Bots
<1>4. /\ Called(i, b) /\ i.ends = b.ends /\ i.played = b.played
      /\ i.seen = b.cur /\ i.again = n
  BY DEF Called, Bots
<1> HIDE DEF i
<1>5. Called(b, b)
  BY DEF Called
<1> QED BY <1>1, <1>3, <1>4, <1>5 DEF n

(* RequestLeaveGame does nothing but in a multiplayer game.                *)
LEMMA EndedFacts ==
  ASSUME NEW b \in Bots
  PROVE  LET e == Ended(b) IN
           /\ e \in Bots
           /\ e.status = b.status /\ e.loop = b.loop /\ e.cur = b.cur
           /\ e.prev = b.prev /\ e.conn = b.conn /\ e.played = b.played
           /\ e.seen = b.seen /\ e.again = b.again
           /\ e.last = b.last /\ e.app = b.app /\ e.reply = b.reply
           /\ b.errs \subseteq e.errs
           /\ e.ends = IF b.ends = 2 THEN 2 ELSE b.ends + 1
           /\ ~Multiplayer \/ b.conn = "closed" =>
                /\ e.errs = b.errs /\ e.pending = b.pending /\ e.request = b.request
           /\ Multiplayer /\ b.conn # "closed" /\ b.pending # "none" =>
                /\ e.errs = b.errs \cup {"ResponseNotConsumed"}
                /\ e.pending = b.pending /\ e.request = b.request
           /\ Multiplayer /\ CanSend(b) =>
                /\ e.errs = b.errs /\ e.pending = "leave"
                /\ e.request = IF b.conn = "up" THEN "leave" ELSE "none"
<1> DEFINE n == IF b.ends = 2 THEN 2 ELSE b.ends + 1
           x == [b EXCEPT !.ends = n]
           e == Sent(x, "leave")
<1>1. n \in 0..2
  <2>1. b.ends \in 0..2
    BY DEF Bots
  <2> QED BY <2>1
<1>2. Ended(b) = IF Multiplayer THEN e ELSE x
  BY DEF Ended, RequestLeaveGame
<1> HIDE DEF n
<1>3. x \in Bots
  BY <1>1 DEF Bots
<1>4. Called(x, b) /\ x.ends = n /\ x.played = b.played /\ x.seen = b.seen
      /\ x.again = b.again
  BY DEF Called, Bots
<1> HIDE DEF x
<1>5. "leave" \in Kinds
  BY DEF Kinds
<1>6. /\ e \in Bots /\ Kept(e, x)
      /\ e.last = x.last /\ e.app = x.app /\ e.reply = x.reply
      /\ x.errs \subseteq e.errs
      /\ x.conn = "closed" => e = x
      /\ x.conn # "closed" /\ x.pending # "none" =>
           /\ e.errs = x.errs \cup {"ResponseNotConsumed"}
           /\ e.pending = x.pending /\ e.request = x.request
      /\ CanSend(x) =>
           /\ e.errs = x.errs /\ e.pending = "leave"
           /\ e.request = IF x.conn = "up" THEN "leave" ELSE "none"
  BY <1>3, <1>5, SentFacts
<1> HIDE DEF e
<1>7. CASE Multiplayer
  <2>1. Ended(b) = e
    BY <1>2, <1>7
  <2> QED BY <1>4, <1>6, <1>7, <2>1 DEF Kept, Called, CanSend, n
<1>8. CASE ~Multiplayer
  <2>1. Ended(b) = x
    BY <1>2, <1>8
  <2> QED BY <1>3, <1>4, <1>8, <2>1 DEF Called, n
<1> QED BY <1>7, <1>8

LEMMA AnsweredFacts ==
  ASSUME NEW b \in Bots, NEW bad \in BOOLEAN
  PROVE  LET c == Answered(b, bad) IN
           /\ c \in Bots /\ Kept(c, b)
           /\ c.pending = b.pending /\ c.last = b.last /\ c.app = b.app
           /\ c.errs = b.errs /\ c.request = "none"
           /\ c.reply # NoReply
           /\ c.reply.status = b.status /\ c.reply.status # "none"
           /\ c.reply.loop = b.loop /\ c.reply.bad = bad
<1> DEFINE r == [status |-> b.status, loop |-> b.loop, bad |-> bad]
           c == [b EXCEPT !.request = "none", !.reply = r]
<1>1. b.status \in {"launched", "init", "inGame", "ended"} /\ b.loop \in 0..MaxLoops
  BY DEF Bots
<1>2. r \in Replies /\ r.status = b.status /\ r.loop = b.loop /\ r.bad = bad
  BY <1>1 DEF Replies
<1>3. r # NoReply
  <2>1. NoReply.status = "none"
    BY DEF NoReply
  <2> QED BY <1>1, <1>2, <2>1
<1>4. Answered(b, bad) = c
  BY DEF Answered
<1> HIDE DEF r
<1>5. c \in Bots
  BY <1>2 DEF Bots, Replies
<1>6. /\ c.pending = b.pending /\ c.last = b.last /\ c.app = b.app
      /\ c.errs = b.errs /\ c.request = "none" /\ c.reply = r /\ Kept(c, b)
  BY DEF Kept, Bots
<1> HIDE DEF c
<1> QED BY <1>1, <1>2, <1>3, <1>4, <1>5, <1>6

LEMMA AdvancedFacts ==
  ASSUME settings \in Settings, NEW b \in Bots, NEW over \in BOOLEAN,
         b.status = "inGame"
  PROVE  LET c == Advanced(b, over) IN
           /\ c \in Bots
           /\ c.pending = b.pending /\ c.last = b.last /\ c.app = b.app
           /\ c.errs = b.errs /\ c.cur = b.cur /\ c.prev = b.prev
           /\ c.conn = b.conn /\ c.request = b.request /\ c.reply = b.reply
           /\ c.ends = b.ends /\ c.played = b.played /\ c.seen = b.seen
           /\ c.again = b.again
           /\ c.loop >= b.loop /\ c.status \in {"inGame", "ended"}
           /\ c.loop = IF b.loop = MaxLoops THEN b.loop ELSE b.loop + 1
<1> DEFINE l == IF b.loop = MaxLoops THEN b.loop ELSE b.loop + 1
           s == IF over \/ b.loop + 1 >= MaxLoops THEN "ended" ELSE b.status
           c == [b EXCEPT !.loop = l, !.status = s]
<1>1. b.loop \in 0..MaxLoops
  BY DEF Bots
<1>2. l \in 0..MaxLoops /\ l >= b.loop
  BY <1>1, ConstantFacts
<1>3. s \in {"inGame", "ended"}
  OBVIOUS
<1>4. Advanced(b, over) = c
  BY DEF Advanced
<1> HIDE DEF l, s
<1>5. c \in Bots
  BY <1>2, <1>3 DEF Bots
<1>6. /\ c.pending = b.pending /\ c.last = b.last /\ c.app = b.app
      /\ c.errs = b.errs /\ c.cur = b.cur /\ c.prev = b.prev
      /\ c.conn = b.conn /\ c.request = b.request /\ c.reply = b.reply
      /\ c.ends = b.ends /\ c.played = b.played /\ c.seen = b.seen
      /\ c.again = b.again /\ c.loop = l /\ c.status = s
  BY DEF Bots
<1> HIDE DEF c
<1> QED BY <1>2, <1>3, <1>4, <1>5, <1>6 DEF l
-----------------------------------------------------------------------------
(***************************************************************************)
(* What an agent's operations make of it: b at place p becomes c at q      *)
(***************************************************************************)
Becomes(b, p, c, q) ==
  /\ c \in Bots /\ b.errs \subseteq c.errs
  /\ Agent(c, q)
  /\ ~Realtime /\ NoErrors /\ Lock(b, p) => Lock(c, q)

Tells(b, p, c, q) ==
  NoErrors /\ c.errs = {} /\ (~Realtime => Lock(b, p)) /\ Told(b, p) => Told(c, q)

(* It does not go on in the game by itself, and stays in it as it leaves.  *)
Steady(b, p, c) ==
  ~Realtime /\ Multiplayer /\ c.errs = {} /\ Lock(b, p) =>
    /\ Plays(c) => Plays(b) /\ c.loop = b.loop
    /\ left /\ (b.status = "inGame" => b.pending = "leave")
         => (c.status = "inGame" => c.pending = "leave")

To(b, p, c, q) ==
  Becomes(b, p, c, q) /\ Tells(b, p, c, q) /\ Steady(b, p, c)

USE DEF Agent, Link, Knows, Waits, Awaited, Begun, Seen, InStep, Ends, Over,
        Lock, Becomes, Tells, Steady, Plays, To, Told,
        Normal, IsInGame, CanSend, Kept, Called, Asking, Resting, Playing

LEMMA GoneTo ==
  ASSUME NEW b \in Bots, NEW p, Agent(b, p)
  PROVE  To(b, p, b, "gone")
<1>1. b.pending \in Kinds \cup {"none"}
  BY DEF Bots, Kinds
<1> QED BY <1>1 DEF Kinds

LEMMA StaysTo ==
  ASSUME NEW b \in Bots, NEW p, Agent(b, p)
  PROVE  To(b, p, b, p)
OBVIOUS

LEMMA CreatesTo ==
  ASSUME NEW b \in Bots, NEW p \in {"new", "done"}, Agent(b, p),
         b.errs = {}, b.pending = "none"
  PROVE  /\ CanSend(b)
         /\ Becomes(b, p, Sent(b, "create"), "create")
         /\ Sent(b, "create").pending = "create"
         /\ Becomes(b, p, b, "out")
         /\ Steady(b, p, Sent(b, "create"))
<1> DEFINE c == Sent(b, "create")
<1>1. /\ b.app = "normal" /\ b.conn # "closed" /\ b.reply = NoReply
      /\ b.request = "none"
  OBVIOUS
<1>2. "create" \in Kinds
  BY DEF Kinds
<1>3. /\ c \in Bots /\ Kept(c, b)
      /\ c.last = b.last /\ c.app = b.app /\ c.reply = b.reply
      /\ c.errs = b.errs /\ c.pending = "create"
      /\ c.request = IF b.conn = "up" THEN "create" ELSE "none"
  BY <1>1, <1>2, SentFacts
<1> HIDE DEF c
<1>4. Becomes(b, p, c, "create")
  BY <1>1, <1>3
<1>5. Becomes(b, p, b, "out")
  BY <1>1
<1>6. Steady(b, p, c)
  BY <1>1, <1>3
<1> QED BY <1>1, <1>3, <1>4, <1>5, <1>6 DEF c

LEMMA CreatedTo ==
  ASSUME settings \in Settings, NEW b \in Bots, Agent(b, "create"), b.reply # NoReply
  PROVE  To(b, "create", Got(b), "out")
<1> DEFINE c == Got(b)
<1>1. b.reply.status # "none"
  OBVIOUS
<1>2. /\ c \in Bots /\ Kept(c, b)
      /\ c.pending = "none" /\ c.last = b.reply.status /\ c.reply = NoReply
      /\ c.app = b.app /\ c.request = b.request
      /\ b.errs \subseteq c.errs
  BY <1>1, GotFacts
<1> HIDE DEF c
<1>3. To(b, "create", c, "out")
  BY <1>2
<1> QED BY <1>3 DEF c
(* A new game begins for the counters; an agent that cannot ask is not     *)
(* waited for.                                                             *)
LEMMA JoinsTo ==
  ASSUME settings \in Settings, NEW b \in Bots, Agent(b, "out")
  PROVE  LET x == [b EXCEPT !.ends = 0, !.seen = 0, !.again = FALSE]
             c == Sent(x, "join")
         IN IF CanSend(b) THEN To(b, "out", c, "join") ELSE To(b, "out", c, "gone")
<1> DEFINE x == [b EXCEPT !.ends = 0, !.seen = 0, !.again = FALSE]
           c == Sent(x, "join")
<1>1. 0 \in 0..MaxLoops /\ 0 \in 0..2 /\ FALSE \in BOOLEAN
  BY ConstantFacts
<1>2. x \in Bots
  BY <1>1, ZenonT(30) DEF Bots
<1>3. /\ Called(x, b) /\ x.played = b.played
      /\ x.ends = 0 /\ x.seen = 0 /\ x.again = FALSE
  BY DEF Bots
<1> HIDE DEF x
<1>4. "join" \in Kinds
  BY DEF Kinds
<1>5. /\ c \in Bots /\ Kept(c, x)
      /\ c.last = x.last /\ c.app = x.app /\ c.reply = x.reply
      /\ x.errs \subseteq c.errs
      /\ x.conn = "closed" => c = x
      /\ CanSend(x) => /\ c.errs = x.errs /\ c.pending = "join"
                       /\ c.request = IF x.conn = "up" THEN "join" ELSE "none"
  BY <1>2, <1>4, SentFacts
<1> HIDE DEF c
<1>6. b.app = "normal" /\ b.pending = "none"
  OBVIOUS
<1>7. CASE CanSend(b)
  <2>1. To(b, "out", c, "join")
    BY <1>3, <1>5, <1>6, <1>7
  <2> QED BY <1>7, <2>1 DEF c, x
<1>8. CASE ~CanSend(b)
  <2>1. b.conn = "closed"
    BY <1>6, <1>8
  <2>2. c = x
    BY <1>3, <1>5, <2>1
  <2>3. To(b, "out", c, "gone")
    BY <1>2, <1>3, <1>6, <2>2 DEF Bots
  <2> QED BY <1>8, <2>3 DEF c, x
<1> QED BY <1>7, <1>8

LEMMA JoinedTo ==
  ASSUME settings \in Settings, NEW b \in Bots, Agent(b, "join")
  PROVE  /\ b.reply # NoReply => To(b, "join", Got(b), "joined")
         /\ \A pinged \in BOOLEAN : b.reply = NoReply /\ (pinged => b.conn = "up")
              => To(b, "join", Abandoned(b, pinged), "joined")
<1>1. ASSUME b.reply # NoReply
      PROVE  To(b, "join", Got(b), "joined")
  <2> DEFINE c == Got(b)
  <2>1. b.reply.status # "none"
    BY <1>1
  <2>2. /\ c \in Bots /\ Kept(c, b)
        /\ c.pending = "none" /\ c.last = b.reply.status /\ c.reply = NoReply
        /\ c.app = b.app /\ c.request = b.request
        /\ b.errs \subseteq c.errs
        /\ c.errs = IF b.reply.bad THEN b.errs \cup {"SC2ProtocolError"} ELSE b.errs
    BY <2>1, GotFacts
  <2>3. b.reply.bad => c.errs # {}
    BY <2>2
  <2> HIDE DEF c
  <2>4. To(b, "join", c, "joined")
    BY <1>1, <2>2, <2>3
  <2> QED BY <2>4 DEF c
<1>2. ASSUME NEW pinged \in BOOLEAN, b.reply = NoReply, pinged => b.conn = "up"
      PROVE  To(b, "join", Abandoned(b, pinged), "joined")
  <2> DEFINE c == Abandoned(b, pinged)
  <2>1. /\ c \in Bots /\ Kept(c, b)
        /\ c.request = "none" /\ c.reply = b.reply
        /\ b.errs \subseteq c.errs /\ c.errs # {}
        /\ pinged => c.pending = "none" /\ c.last = b.status /\ c.app = b.app
        /\ ~pinged => /\ c.pending = b.pending /\ c.last = "unknown"
                      /\ c.app = "failed" /\ "SC2AppFailure" \in c.errs
    BY AbandonedFacts
  <2> HIDE DEF c
  <2>2. To(b, "join", c, "joined")
    BY <1>2, <2>1
  <2> QED BY <2>2 DEF c
<1> QED BY <1>1, <1>2

LEMMA StartEndsTo ==
  ASSUME NEW b \in Bots, Agent(b, "joined")
  PROVE  /\ ~NoErrors => To(b, "joined", b, "done")
         /\ To(b, "joined", b, "joined")
OBVIOUS

LEMMA ObservesFirstTo ==
  ASSUME NEW b \in Bots, Agent(b, "joined")
  PROVE  LET c == IF b.app = "normal" THEN Sent(b, "observation") ELSE b IN
         IF b.app = "normal" /\ CanSend(b)
           THEN To(b, "joined", c, "first") ELSE To(b, "joined", c, "observed")
<1> DEFINE s == Sent(b, "observation")
<1>1. "observation" \in Kinds
  BY DEF Kinds
<1>2. /\ s \in Bots /\ Kept(s, b)
      /\ s.last = b.last /\ s.app = b.app /\ s.reply = b.reply
      /\ b.errs \subseteq s.errs
      /\ b.conn = "closed" => s = b
      /\ CanSend(b) => /\ s.errs = b.errs /\ s.pending = "observation"
                       /\ s.request = IF b.conn = "up" THEN "observation" ELSE "none"
  BY <1>1, SentFacts
<1> HIDE DEF s
<1>3. CASE b.app = "normal" /\ CanSend(b)
  <2>1. To(b, "joined", s, "first")
    BY <1>2, <1>3
  <2> QED BY <1>3, <2>1 DEF s
<1>4. CASE ~(b.app = "normal" /\ CanSend(b))
  <2>1. b.errs # {} /\ (b.app = "normal" => s = b)
    BY <1>2, <1>4
  <2>2. To(b, "joined", b, "observed")
    BY <2>1
  <2> QED BY <1>4, <2>1, <2>2 DEF s
<1> QED BY <1>3, <1>4

LEMMA ObservedFirstTo ==
  ASSUME settings \in Settings, NEW b \in Bots, Agent(b, "first"), b.reply # NoReply
  PROVE  To(b, "first", Observed(b), "observed")
<1> DEFINE c == Observed(b)
<1>1. b.reply.status # "none"
  OBVIOUS
<1>2. /\ c \in Bots
      /\ c.status = b.status /\ c.loop = b.loop /\ c.conn = b.conn
      /\ c.ends = b.ends /\ c.played = b.played /\ c.seen = b.seen
      /\ c.again = b.again
      /\ c.pending = "none" /\ c.last = b.reply.status /\ c.reply = NoReply
      /\ c.app = b.app /\ c.request = b.request
      /\ b.errs \subseteq c.errs
      /\ c.errs = IF b.reply.bad THEN b.errs \cup {"SC2ProtocolError"} ELSE b.errs
      /\ c.prev = IF b.reply.bad THEN b.prev ELSE b.cur
      /\ c.cur = IF b.reply.bad THEN b.cur ELSE b.reply.loop
  BY <1>1, ObservedFacts
<1>3. b.reply.bad => c.errs # {}
  BY <1>2
<1>4. b.reply.loop \in 0..MaxLoops /\ MaxLoops \in Nat
  BY ConstantFacts DEF Bots
<1> HIDE DEF c
<1>5. To(b, "first", c, "observed")
  BY <1>2, <1>3, <1>4
<1> QED BY <1>5 DEF c

LEMMA StartsTo ==
  ASSUME NEW b \in Bots, Agent(b, "observed")
  PROVE  To(b, "observed", [Issued(b) EXCEPT !.played = IsInGame(b)], "done")
<1> DEFINE i == Issued(b)
           n == IsInGame(b)
           c == [i EXCEPT !.played = n]
<1>1. /\ i \in Bots /\ Called(i, b) /\ i.ends = b.ends
      /\ b.cur = b.prev => i = b
      /\ b.cur # b.prev => i.seen = b.cur /\ (i.again <=> b.again \/ b.seen = b.cur)
  BY IssuedFacts
<1>2. n \in BOOLEAN /\ (n <=> b.app = "normal" /\ b.last = "inGame")
  OBVIOUS
<1> HIDE DEF i, n
<1>3. c \in Bots
  BY <1>1, <1>2 DEF Bots
<1>4. Called(c, i) /\ c.ends = i.ends /\ c.seen = i.seen /\ c.again = i.again
      /\ c.played = n
  BY <1>1 DEF Bots
<1> HIDE DEF c
<1>5. To(b, "observed", c, "done")
  <2>1. Becomes(b, "observed", c, "done")
    BY <1>1, <1>3, <1>4
  <2>2. c.played => IsInGame(c)
    BY <1>1, <1>2, <1>4
  <2>3. Told(b, "observed") /\ b.errs = {} => Told(c, "done")
    BY <1>1, <1>4, <2>2 DEF Once, SingleSerial
  <2> QED BY <1>1, <1>4, <2>1, <2>3
<1> QED BY <1>5 DEF c, i, n

(* Update is called again after the end of a game only as the user keeps   *)
(* doing so; then a single agent may have had its OnGameEnd.               *)
LEMMA UpdatesTo ==
  ASSUME NEW b \in Bots, Agent(b, "done"), SingleSerial /\ Once => b.ends = 0
  PROVE  To(b, "done", b, "start")
OBVIOUS
(* The places after the step of an agent, and after one it has not made.   *)
AfterStep == IF Serial THEN "stepped" ELSE "callback"
AfterNone == IF Serial THEN "stepped" ELSE "done"

LEMMA PolledFacts ==
  ASSUME settings \in Settings, NEW b \in Bots, NEW p \in Resting, Agent(b, p),
         b.app = "normal"
  PROVE  /\ b.pending \in {"none", "leave"} /\ (~Multiplayer => b.pending = "none")
         /\ Polled(b) = IF b.pending = "leave" /\ b.reply # NoReply THEN Got(b) ELSE b
         /\ b.pending = "leave" /\ b.reply # NoReply =>
              LET c == Got(b) IN
              /\ c \in Bots /\ Kept(c, b)
              /\ c.pending = "none" /\ c.last = b.reply.status /\ c.reply = NoReply
              /\ c.app = b.app /\ c.request = b.request
              /\ b.errs \subseteq c.errs
              /\ ~b.reply.bad => c.errs = b.errs /\ b.reply.status = "launched"
              /\ b.reply.bad => c.errs # {}
<1>1. b.pending \in {"none", "leave"} /\ (~Multiplayer => b.pending = "none")
  OBVIOUS
<1>2. CASE b.pending = "none"
  <2>1. Polled(b) = b
    BY <1>2 DEF Polled
  <2> QED BY <1>2, <2>1
<1>3. CASE b.pending = "leave"
  <2>1. Multiplayer
    BY <1>1, <1>3
  <2>2. Polled(b) = IF b.reply = NoReply THEN b ELSE Got(b)
    BY <1>3, <2>1 DEF Polled
  <2>3. ASSUME b.reply # NoReply
        PROVE  LET c == Got(b) IN
               /\ c \in Bots /\ Kept(c, b)
               /\ c.pending = "none" /\ c.last = b.reply.status /\ c.reply = NoReply
               /\ c.app = b.app /\ c.request = b.request
               /\ b.errs \subseteq c.errs
               /\ ~b.reply.bad => c.errs = b.errs /\ b.reply.status = "launched"
               /\ b.reply.bad => c.errs # {}
    <3> DEFINE c == Got(b)
    <3>1. b.reply.status # "none"
      BY <2>3
    <3>2. /\ c \in Bots /\ Kept(c, b)
          /\ c.pending = "none" /\ c.last = b.reply.status /\ c.reply = NoReply
          /\ c.app = b.app /\ c.request = b.request
          /\ b.errs \subseteq c.errs
          /\ c.errs = IF b.reply.bad THEN b.errs \cup {"SC2ProtocolError"} ELSE b.errs
      BY <3>1, GotFacts
    <3>3. ~b.reply.bad => b.reply.status = "launched"
      BY <1>3, <2>3
    <3> HIDE DEF c
    <3> QED BY <3>2, <3>3 DEF c
  <2> QED BY <1>1, <1>3, <2>2, <2>3
<1> QED BY <1>1, <1>2, <1>3

(* An agent with nothing to step, at the start and before its callbacks.   *)
LEMMA PollsTo ==
  ASSUME settings \in Settings, NEW b \in Bots, NEW p \in {"start", "serial"},
         NEW q \in {"done", "stepped"}, Agent(b, p),
         b.app = "normal", p = "serial" => q = "done" /\ Serial /\ PollLeaveGame(b),
         HasNoGame(b) \/ PollLeaveGame(b)
  PROVE  To(b, p, Polled(b), q)
<1>1. p \in Resting
  OBVIOUS
<1>2. b.pending \in {"none", "leave"} /\ (~Multiplayer => b.pending = "none")
  BY <1>1, PolledFacts
<1>3. CASE b.pending = "leave" /\ b.reply # NoReply
  <2> DEFINE c == Got(b)
  <2>1. /\ Polled(b) = c
        /\ c \in Bots /\ Kept(c, b)
        /\ c.pending = "none" /\ c.last = b.reply.status /\ c.reply = NoReply
        /\ c.app = b.app /\ c.request = b.request
        /\ b.errs \subseteq c.errs
        /\ ~b.reply.bad => c.errs = b.errs /\ b.reply.status = "launched"
        /\ b.reply.bad => c.errs # {}
    BY <1>1, <1>3, PolledFacts
  <2> HIDE DEF c
  <2>2. To(b, p, c, q)
    BY <1>2, <1>3, <2>1, NoReplyFacts
  <2> QED BY <2>1, <2>2
<1>4. CASE ~(b.pending = "leave" /\ b.reply # NoReply)
  <2>1. Polled(b) = b
    BY <1>1, <1>4, PolledFacts
  <2>2. b.pending = "leave" \/ (b.pending = "none" /\ b.last # "inGame")
    BY <1>2, <2>1 DEF HasNoGame, PollLeaveGame, IsFinishedGame
  <2>3. p = "serial" => InTurns
    BY DEF PollLeaveGame, Serial, InTurns
  <2>4. Told(b, p) => Told(b, q)
    BY <2>2, <2>3
  <2>5. Becomes(b, p, b, q)
    BY <2>2
  <2> QED BY <2>1, <2>4, <2>5
<1> QED BY <1>3, <1>4

(* An agent with a game to step.                                           *)
LEMMA PlayingFacts ==
  ASSUME settings \in Settings, NEW b \in Bots, Agent(b, "start"),
         b.app = "normal", ~HasNoGame(b)
  PROVE  /\ Polled(b) = b
         /\ b.last = "inGame" /\ b.pending = "none" /\ b.reply = NoReply
         /\ b.request = "none"
<1>1. "start" \in Resting
  OBVIOUS
<1>2. /\ b.pending \in {"none", "leave"} /\ (~Multiplayer => b.pending = "none")
      /\ Polled(b) = IF b.pending = "leave" /\ b.reply # NoReply THEN Got(b) ELSE b
  BY <1>1, PolledFacts
<1>3. b.pending = "none"
  BY <1>2 DEF HasNoGame, PollLeaveGame
<1>4. Polled(b) = b
  BY <1>2, <1>3
<1>5. b.last = "inGame"
  BY <1>3, <1>4 DEF HasNoGame, IsFinishedGame
<1> QED BY <1>3, <1>4, <1>5

LEMMA StepsTo ==
  ASSUME settings \in Settings, NEW b \in Bots, Agent(b, "start"),
         b.app = "normal", ~HasNoGame(b), ~Realtime
  PROVE  To(b, "start", Sent(b, "step"), "step")
<1> DEFINE c == Sent(b, "step")
<1>1. "step" \in Kinds
  BY DEF Kinds
<1>2. /\ c \in Bots /\ Kept(c, b)
      /\ c.last = b.last /\ c.app = b.app /\ c.reply = b.reply
      /\ b.errs \subseteq c.errs
      /\ b.conn = "closed" => c = b
      /\ CanSend(b) => /\ c.errs = b.errs /\ c.pending = "step"
                       /\ c.request = IF b.conn = "up" THEN "step" ELSE "none"
  BY <1>1, SentFacts
<1> HIDE DEF c
<1>3. /\ b.last = "inGame" /\ b.pending = "none" /\ b.reply = NoReply
      /\ b.request = "none"
  BY PlayingFacts
<1>4. CASE b.conn = "closed"
  <2>1. To(b, "start", b, "step")
    BY <1>3, <1>4
  <2> QED BY <1>2, <1>4, <2>1 DEF c
<1>5. CASE b.conn # "closed"
  <2>1. To(b, "start", c, "step")
    BY <1>2, <1>3, <1>5
  <2> QED BY <2>1 DEF c
<1> QED BY <1>4, <1>5

LEMMA ObservesTo ==
  ASSUME settings \in Settings, NEW b \in Bots, Agent(b, "start"),
         b.app = "normal", ~HasNoGame(b), Realtime
  PROVE  To(b, "start", Sent(b, "observation"),
            IF CanSend(b) THEN "observe" ELSE "callback")
<1> DEFINE c == Sent(b, "observation")
<1>1. "observation" \in Kinds
  BY DEF Kinds
<1>2. /\ c \in Bots /\ Kept(c, b)
      /\ c.last = b.last /\ c.app = b.app /\ c.reply = b.reply
      /\ b.errs \subseteq c.errs
      /\ b.conn = "closed" => c = b
      /\ CanSend(b) => /\ c.errs = b.errs /\ c.pending = "observation"
                       /\ c.request = IF b.conn = "up" THEN "observation" ELSE "none"
  BY <1>1, SentFacts
<1> HIDE DEF c
<1>3. /\ b.last = "inGame" /\ b.pending = "none" /\ b.reply = NoReply
      /\ b.request = "none"
  BY PlayingFacts
<1>4. CASE b.conn = "closed"
  <2>1. To(b, "start", b, "callback")
    BY <1>3, <1>4
  <2> QED BY <1>2, <1>4, <2>1 DEF c
<1>5. CASE b.conn # "closed"
  <2>1. To(b, "start", c, "observe")
    BY <1>2, <1>3, <1>5
  <2> QED BY <1>3, <1>5, <2>1 DEF c
<1> QED BY <1>4, <1>5

(* The answer to a step: a response is only there while the connection is  *)
(* up, so that the observation can be asked for.                           *)
LEMMA SteppedTo ==
  ASSUME settings \in Settings, NEW b \in Bots, Agent(b, "step"), b.reply # NoReply
  PROVE  /\ b.reply.bad => To(b, "step", Got(b), AfterStep)
         /\ ~b.reply.bad =>
              /\ CanSend(Got(b))
              /\ To(b, "step", Sent(Got(b), "observation"), "observe")
<1> DEFINE g == Got(b)
           c == Sent(g, "observation")
<1>1. b.reply.status # "none" /\ b.conn = "up"
  OBVIOUS
<1>2. /\ g \in Bots /\ Kept(g, b)
      /\ g.pending = "none" /\ g.last = b.reply.status /\ g.reply = NoReply
      /\ g.app = b.app /\ g.request = b.request
      /\ b.errs \subseteq g.errs
      /\ g.errs = IF b.reply.bad THEN b.errs \cup {"SC2ProtocolError"} ELSE b.errs
  BY <1>1, GotFacts
<1>3. b.reply.bad => g.errs # {}
  BY <1>2
<1> HIDE DEF g
<1>4. "observation" \in Kinds
  BY DEF Kinds
<1>5. /\ c \in Bots /\ Kept(c, g)
      /\ c.last = g.last /\ c.app = g.app /\ c.reply = g.reply
      /\ CanSend(g) => /\ c.errs = g.errs /\ c.pending = "observation"
                       /\ c.request = IF g.conn = "up" THEN "observation" ELSE "none"
  BY <1>2, <1>4, SentFacts
<1> HIDE DEF c
<1>6. ASSUME b.reply.bad
      PROVE  To(b, "step", g, "stepped") /\ To(b, "step", g, "callback")
  BY <1>1, <1>2, <1>3, <1>6
<1>7. ASSUME ~b.reply.bad
      PROVE  CanSend(g) /\ To(b, "step", c, "observe")
  BY <1>1, <1>2, <1>5, <1>7
<1> QED BY <1>6, <1>7 DEF AfterStep, c, g

LEMMA ObservedTo ==
  ASSUME settings \in Settings, NEW b \in Bots, Agent(b, "observe"), b.reply # NoReply
  PROVE  To(b, "observe", Observed(b), AfterStep)
<1> DEFINE c == Observed(b)
<1>1. b.reply.status # "none"
  OBVIOUS
<1>2. /\ c \in Bots
      /\ c.status = b.status /\ c.loop = b.loop /\ c.conn = b.conn
      /\ c.ends = b.ends /\ c.played = b.played /\ c.seen = b.seen
      /\ c.again = b.again
      /\ c.pending = "none" /\ c.last = b.reply.status /\ c.reply = NoReply
      /\ c.app = b.app /\ c.request = b.request
      /\ b.errs \subseteq c.errs
      /\ c.errs = IF b.reply.bad THEN b.errs \cup {"SC2ProtocolError"} ELSE b.errs
      /\ c.prev = IF b.reply.bad THEN b.prev ELSE b.cur
      /\ c.cur = IF b.reply.bad THEN b.cur ELSE b.reply.loop
  BY <1>1, ObservedFacts
<1>3. b.reply.bad => c.errs # {}
  BY <1>2
<1> HIDE DEF c
<1>4. To(b, "observe", c, "stepped") /\ To(b, "observe", c, "callback")
  <2>1. Becomes(b, "observe", c, "stepped") /\ Becomes(b, "observe", c, "callback")
    BY <1>2, <1>3
  <2>2. Told(b, "observe") => Told(c, "stepped") /\ Told(c, "callback")
    BY <1>2 DEF Once, SingleSerial
  <2>3. Steady(b, "observe", c)
    BY <1>2
  <2> QED BY <2>1, <2>2, <2>3
<1> QED BY <1>4 DEF c, AfterStep

(* A step or actions that are never answered.                              *)
LEMMA StepLostTo ==
  ASSUME NEW b \in Bots, Agent(b, "step"), NEW pinged \in BOOLEAN,
         b.reply = NoReply, pinged => b.conn = "up"
  PROVE  To(b, "step", Abandoned(b, pinged), AfterStep)
<1> DEFINE c == Abandoned(b, pinged)
<1>1. /\ c \in Bots /\ Kept(c, b)
      /\ c.request = "none" /\ c.reply = b.reply
      /\ b.errs \subseteq c.errs /\ c.errs # {}
      /\ pinged => c.pending = "none" /\ c.last = b.status /\ c.app = b.app
      /\ ~pinged => /\ c.pending = b.pending /\ c.last = "unknown"
                    /\ c.app = "failed" /\ "SC2AppFailure" \in c.errs
  BY AbandonedFacts
<1> HIDE DEF c
<1>2. To(b, "step", c, "stepped") /\ To(b, "step", c, "callback")
  BY <1>1
<1> QED BY <1>2 DEF c, AfterStep
(* OnGameEnd for an agent whose game is over.                              *)
LEMMA EndedTo ==
  ASSUME settings \in Settings, NEW b, NEW p, NEW x \in Bots, Becomes(b, p, x, "done"),
         Steady(b, p, x),
         Once => x.ends = 0, x.app = "normal" => x.pending = "none", ~IsInGame(x)
  PROVE  To(b, p, Ended(x), "done")
<1> DEFINE c == Ended(x)
<1>1. /\ c \in Bots
      /\ c.status = x.status /\ c.loop = x.loop /\ c.cur = x.cur
      /\ c.prev = x.prev /\ c.conn = x.conn /\ c.played = x.played
      /\ c.seen = x.seen /\ c.again = x.again
      /\ c.last = x.last /\ c.app = x.app /\ c.reply = x.reply
      /\ x.errs \subseteq c.errs
      /\ c.ends = IF x.ends = 2 THEN 2 ELSE x.ends + 1
      /\ ~Multiplayer \/ x.conn = "closed" =>
           /\ c.errs = x.errs /\ c.pending = x.pending /\ c.request = x.request
      /\ Multiplayer /\ x.conn # "closed" /\ x.pending # "none" =>
           /\ c.errs = x.errs \cup {"ResponseNotConsumed"}
           /\ c.pending = x.pending /\ c.request = x.request
      /\ Multiplayer /\ CanSend(x) =>
           /\ c.errs = x.errs /\ c.pending = "leave"
           /\ c.request = IF x.conn = "up" THEN "leave" ELSE "none"
  BY EndedFacts
<1>2. Once => c.ends = 1
  BY <1>1
<1> HIDE DEF c
<1>3. x.app = "normal" => x.request = "none" /\ x.reply = NoReply
  OBVIOUS
<1>4. Link(c)
  BY <1>1, <1>3
<1>5. Knows(c)
  BY <1>1, <1>3
<1>6. Waits(c, "done") /\ Begun(c, "done") /\ Seen(c, "done")
  BY <1>1, <1>3
<1>7. Once => Ends(c, "done")
  BY <1>1, <1>2, <1>3, NoReplyFacts
<1>8. Lock(c, "done")
  BY <1>1, <1>3
<1>9. b.errs \subseteq c.errs
  BY <1>1
<1>10. c.errs = {} => Told(c, "done")
  <2>1. x.ends \in 0..2
    BY DEF Bots
  <2>2. c.ends > 0
    BY <1>1, <2>1
  <2>3. ASSUME c.errs = {}, Multiplayer
        PROVE  c.pending = "leave"
    BY <1>1, <1>3, <2>3
  <2> QED BY <2>2, <2>3
<1>11. Becomes(b, p, c, "done")
  BY <1>1, <1>4, <1>5, <1>6, <1>7, <1>8, <1>9
<1>12. Steady(b, p, c)
  BY <1>1, <1>3
<1> QED BY <1>10, <1>11, <1>12 DEF c

LEMMA AfterActionsTo ==
  ASSUME settings \in Settings, NEW b, NEW p, NEW x \in Bots, Becomes(b, p, x, "done"),
         Steady(b, p, x),
         ~Realtime \/ IsInGame(x) => To(b, p, x, "done"),
         Once => x.ends = 0, x.app = "normal" => x.pending = "none"
  PROVE  To(b, p, AfterActions(x), "done")
<1>1. CASE Realtime /\ ~IsInGame(x)
  <2>1. AfterActions(x) = Ended(x)
    BY <1>1 DEF AfterActions
  <2> QED BY <1>1, <2>1, EndedTo
<1>2. CASE ~(Realtime /\ ~IsInGame(x))
  BY <1>2 DEF AfterActions
<1> QED BY <1>1, <1>2

LEMMA CallbackEndsTo ==
  ASSUME settings \in Settings, NEW b \in Bots, Agent(b, "callback"),
         ~Realtime, ~IsInGame(b)
  PROVE  To(b, "callback", Ended(b), "done")
<1>1. Becomes(b, "callback", b, "done") /\ Steady(b, "callback", b)
  BY NoReplyFacts
<1>2. (Once => b.ends = 0) /\ (b.app = "normal" => b.pending = "none")
  OBVIOUS
<1> HIDE DEF Becomes, Tells, Steady, To, Agent
<1> QED BY <1>1, <1>2, EndedTo

LEMMA CallbackTo ==
  ASSUME settings \in Settings, NEW b \in Bots, Agent(b, "callback"),
         Realtime \/ IsInGame(b)
  PROVE  LET i == Issued(b)
             s == Sent(i, "action")
         IN /\ CanSend(i) => To(b, "callback", s, "act")
            /\ ~CanSend(i) => To(b, "callback", AfterActions(s), "done")
            /\ To(b, "callback", AfterActions(i), "done")
<1> DEFINE i == Issued(b)
           s == Sent(i, "action")
<1>1. /\ i \in Bots /\ Called(i, b) /\ i.ends = b.ends
      /\ b.cur = b.prev => i = b
      /\ b.cur # b.prev => i.seen = b.cur /\ (i.again <=> b.again \/ b.seen = b.cur)
  BY IssuedFacts
<1>2. "action" \in Kinds
  BY DEF Kinds
<1> HIDE DEF i
<1>3. /\ s \in Bots /\ Kept(s, i)
      /\ s.last = i.last /\ s.app = i.app /\ s.reply = i.reply
      /\ i.errs \subseteq s.errs
      /\ i.conn = "closed" => s = i
      /\ i.conn # "closed" /\ i.pending # "none" =>
           /\ s.errs = i.errs \cup {"ResponseNotConsumed"}
           /\ s.pending = i.pending /\ s.request = i.request
      /\ CanSend(i) => /\ s.errs = i.errs /\ s.pending = "action"
                       /\ s.request = IF i.conn = "up" THEN "action" ELSE "none"
  BY <1>1, <1>2, SentFacts
<1> HIDE DEF s
<1>4. /\ Once => i.ends = 0
      /\ i.app = "normal" => i.pending = "none"
      /\ i.errs = {} => ~i.again /\ i.cur >= 1 /\ i.seen \in {0, i.cur}
  BY <1>1
<1>5. Becomes(b, "callback", i, "done") /\ Steady(b, "callback", i)
      /\ (~Realtime \/ IsInGame(i) => To(b, "callback", i, "done"))
  <2>1. Becomes(b, "callback", i, "done")
    BY <1>1, <1>4
  <2>2. IsInGame(i) /\ Told(b, "callback") /\ b.errs = {} => Told(i, "done")
    BY <1>1, <1>4 DEF Once, SingleSerial
  <2>3. ~Realtime => IsInGame(i)
    BY <1>1
  <2>4. Steady(b, "callback", i)
    BY <1>1
  <2> QED BY <1>1, <2>1, <2>2, <2>3, <2>4
<1>6. ASSUME CanSend(i)
      PROVE  To(b, "callback", s, "act")
  BY <1>1, <1>3, <1>4, <1>6
<1>7. ASSUME ~CanSend(i)
      PROVE  /\ Becomes(b, "callback", s, "done") /\ Steady(b, "callback", s)
             /\ ~Realtime \/ IsInGame(s) => To(b, "callback", s, "done")
             /\ s.ends = i.ends /\ s.app = i.app /\ s.pending = i.pending
  <2>1. CASE i.conn = "closed"
    BY <1>3, <1>5, <2>1
  <2>2. CASE i.conn # "closed"
    <3>1. i.app # "normal" /\ i.pending # "none" /\ s.errs # {}
      BY <1>3, <1>4, <1>7, <2>2
    <3> QED BY <1>1, <1>3, <1>4, <2>2, <3>1
  <2> QED BY <2>1, <2>2
<1> HIDE DEF Becomes, Tells, Steady, To, Agent, IsInGame
<1>8. To(b, "callback", AfterActions(i), "done")
  BY <1>1, <1>4, <1>5, AfterActionsTo
<1>9. ASSUME ~CanSend(i)
      PROVE  To(b, "callback", AfterActions(s), "done")
  BY <1>3, <1>4, <1>7, <1>9, AfterActionsTo
<1> QED BY <1>6, <1>8, <1>9 DEF i, s

LEMMA ActedTo ==
  ASSUME settings \in Settings, NEW b \in Bots, Agent(b, "act")
  PROVE  /\ b.reply # NoReply => To(b, "act", AfterActions(Got(b)), "done")
         /\ \A pinged \in BOOLEAN : b.reply = NoReply /\ (pinged => b.conn = "up")
              => To(b, "act", AfterActions(Abandoned(b, pinged)), "done")
<1>1. ASSUME b.reply # NoReply
      PROVE  To(b, "act", AfterActions(Got(b)), "done")
  <2> DEFINE c == Got(b)
  <2>1. b.reply.status # "none"
    BY <1>1
  <2>2. /\ c \in Bots /\ Kept(c, b)
        /\ c.pending = "none" /\ c.last = b.reply.status /\ c.reply = NoReply
        /\ c.app = b.app /\ c.request = b.request
        /\ b.errs \subseteq c.errs
        /\ c.errs = IF b.reply.bad THEN b.errs \cup {"SC2ProtocolError"} ELSE b.errs
    BY <2>1, GotFacts
  <2>3. b.reply.bad => c.errs # {}
    BY <2>2
  <2> HIDE DEF c
  <2>4. /\ Becomes(b, "act", c, "done") /\ Steady(b, "act", c)
        /\ ~Realtime \/ IsInGame(c) => To(b, "act", c, "done")
    <3>1. Becomes(b, "act", c, "done")
      BY <1>1, <2>2, <2>3
    <3>2. IsInGame(c) /\ Told(b, "act") /\ b.errs = {} => Told(c, "done")
      BY <2>2 DEF Once, SingleSerial
    <3>3. ~Realtime /\ Lock(b, "act") /\ b.errs = {} => IsInGame(c)
      BY <1>1, <2>2
    <3>4. Steady(b, "act", c)
      BY <1>1, <2>2
    <3> QED BY <2>2, <3>1, <3>2, <3>3, <3>4
  <2>5. Once => c.ends = 0
    BY <2>2
  <2> HIDE DEF Becomes, Tells, Steady, To, Agent, IsInGame
  <2> QED BY <2>2, <2>4, <2>5, AfterActionsTo DEF c
<1>2. ASSUME NEW pinged \in BOOLEAN, b.reply = NoReply, pinged => b.conn = "up"
      PROVE  To(b, "act", AfterActions(Abandoned(b, pinged)), "done")
  <2> DEFINE c == Abandoned(b, pinged)
  <2>1. /\ c \in Bots /\ Kept(c, b)
        /\ c.request = "none" /\ c.reply = b.reply
        /\ b.errs \subseteq c.errs /\ c.errs # {}
        /\ pinged => c.pending = "none" /\ c.last = b.status /\ c.app = b.app
        /\ ~pinged => /\ c.pending = b.pending /\ c.last = "unknown"
                      /\ c.app = "failed" /\ "SC2AppFailure" \in c.errs
    BY AbandonedFacts
  <2> HIDE DEF c
  <2>2. /\ To(b, "act", c, "done")
        /\ Becomes(b, "act", c, "done") /\ Steady(b, "act", c)
    BY <1>2, <2>1
  <2>3. (Once => c.ends = 0) /\ (c.app = "normal" => c.pending = "none")
    BY <2>1
  <2> HIDE DEF Becomes, Tells, Steady, To, Agent, IsInGame
  <2> QED BY <2>1, <2>2, <2>3, AfterActionsTo DEF c
<1> QED BY <1>1, <1>2

(* The loop of the callbacks, for agents that do not get them on threads.  *)
LEMMA SerialTo ==
  ASSUME settings \in Settings, NEW b \in Bots, Agent(b, "serial"), Serial
  PROVE  /\ b.app # "normal" => To(b, "serial", b, "done")
         /\ b.app = "normal" /\ PollLeaveGame(b) => To(b, "serial", Polled(b), "done")
         /\ b.app = "normal" /\ ~PollLeaveGame(b) =>
              To(b, "serial", Polled(b), "callback")
<1>1. ASSUME b.app # "normal"
      PROVE  To(b, "serial", b, "done")
  BY <1>1
<1>2. ASSUME b.app = "normal", PollLeaveGame(b)
      PROVE  To(b, "serial", Polled(b), "done")
  BY <1>2, PollsTo
<1>3. ASSUME b.app = "normal", ~PollLeaveGame(b)
      PROVE  To(b, "serial", Polled(b), "callback")
  <2>1. "serial" \in Resting
    OBVIOUS
  <2>2. /\ b.pending \in {"none", "leave"} /\ (~Multiplayer => b.pending = "none")
        /\ Polled(b) = IF b.pending = "leave" /\ b.reply # NoReply THEN Got(b) ELSE b
    BY <1>3, <2>1, PolledFacts
  <2>3. b.pending = "none" /\ (Multiplayer => b.last = "inGame")
    BY <1>3, <2>2 DEF PollLeaveGame
  <2>4. ~Realtime /\ b.reply = NoReply
    BY <2>3 DEF Serial
  <2>5. Once => b.ends = 0
    <3>1. CASE Multiplayer
      BY <1>3, <2>3, <3>1
    <3>2. CASE ~Multiplayer
      BY <3>2 DEF SingleSerial
    <3> QED BY <3>1, <3>2
  <2>6. To(b, "serial", b, "callback")
    BY <1>3, <2>3, <2>4, <2>5
  <2> QED BY <2>2, <2>3, <2>6
<1> QED BY <1>1, <1>2, <1>3

(* RequestLeaveGame, when the user says so.                                *)
LEMMA LeavesTo ==
  ASSUME settings \in Settings, NEW b \in Bots, Agent(b, "done")
  PROVE  LET c == RequestLeaveGame(b) IN
         /\ Becomes(b, "done", c, "done")
         /\ c.errs = {} /\ Multiplayer => c.pending = "leave"
         /\ c.status = b.status /\ c.last = b.last /\ c.loop = b.loop
<1> DEFINE c == Sent(b, "leave")
<1>1. CASE ~Multiplayer
  BY <1>1 DEF RequestLeaveGame
<1>2. CASE Multiplayer
  <2>1. "leave" \in Kinds
    BY DEF Kinds
  <2>2. RequestLeaveGame(b) = c
    BY <1>2 DEF RequestLeaveGame
  <2>3. /\ c \in Bots /\ Kept(c, b)
        /\ c.last = b.last /\ c.app = b.app /\ c.reply = b.reply
        /\ b.errs \subseteq c.errs
        /\ b.conn = "closed" => c = b
        /\ b.conn # "closed" /\ b.pending # "none" =>
             /\ c.errs = b.errs \cup {"ResponseNotConsumed"}
             /\ c.pending = b.pending /\ c.request = b.request
        /\ CanSend(b) => /\ c.errs = b.errs /\ c.pending = "leave"
                         /\ c.request = IF b.conn = "up" THEN "leave" ELSE "none"
    BY <2>1, SentFacts
  <2>4. b.conn # "closed" /\ b.pending # "none" => c.errs # {}
    BY <2>3
  <2> HIDE DEF c
  <2>5. CASE b.conn = "closed"
    BY <2>2, <2>3, <2>5
  <2>6. CASE b.conn # "closed" /\ b.pending # "none"
    <3>1. Becomes(b, "done", c, "done")
      BY <2>3, <2>4, <2>6
    <3> HIDE DEF Becomes
    <3> QED BY <2>2, <2>3, <2>4, <2>6, <3>1
  <2>7. CASE CanSend(b)
    <3>1. Becomes(b, "done", c, "done")
      BY <1>2, <2>3, <2>7
    <3> HIDE DEF Becomes
    <3> QED BY <2>2, <2>3, <2>7, <3>1
  <2> QED BY <2>5, <2>6, <2>7
<1> QED BY <1>1, <1>2

LEMMA DrainsTo ==
  ASSUME settings \in Settings, NEW b \in Bots, Agent(b, "done"),
         b.app = "normal", b.reply # NoReply
  PROVE  To(b, "done", Got(b), "done")
<1> DEFINE c == Got(b)
<1>1. b.reply.status # "none" /\ b.pending = "leave"
  OBVIOUS
<1>2. /\ c \in Bots /\ Kept(c, b)
      /\ c.pending = "none" /\ c.last = b.reply.status /\ c.reply = NoReply
      /\ c.app = b.app /\ c.request = b.request
      /\ b.errs \subseteq c.errs
      /\ c.errs = IF b.reply.bad THEN b.errs \cup {"SC2ProtocolError"} ELSE b.errs
  BY <1>1, GotFacts
<1>3. b.reply.bad => c.errs # {}
  BY <1>2
<1> HIDE DEF c
<1>4. To(b, "done", c, "done")
  BY <1>1, <1>2, <1>3, NoReplyFacts
<1> QED BY <1>4 DEF c
-----------------------------------------------------------------------------
(***************************************************************************)
(* What SC2 makes of it                                                    *)
(***************************************************************************)
Places == {"new", "out", "joined", "observed", "callback", "gone"}
            \cup Asking \cup Resting

LEMMA RequestFacts ==
  ASSUME NEW b \in Bots, NEW p \in Places, Agent(b, p), b.request # "none"
  PROVE  /\ b.app = "normal" /\ b.pending = b.request /\ b.reply = NoReply
         /\ b.conn = "up"
         /\ b.request = "create" => p \in {"create", "gone"}
         /\ b.request = "join" => p \in {"join", "gone"}
         /\ b.request = "step" => p \in {"step", "gone"}
         /\ b.request = "leave" => p \in Resting \cup {"gone"}
<1>1. /\ b.app = "normal" /\ b.pending = b.request /\ b.reply = NoReply
      /\ b.conn = "up" /\ b.pending \in Awaited(p)
  OBVIOUS
<1>2. b.request = "create" => p \in {"create", "gone"}
  BY <1>1 DEF Places
<1>3. b.request = "join" => p \in {"join", "gone"}
  BY <1>1 DEF Places
<1>4. b.request = "step" => p \in {"step", "gone"}
  BY <1>1 DEF Places
<1>5. b.request = "leave" => p \in Resting \cup {"gone"}
  BY <1>1 DEF Places
<1> QED BY <1>1, <1>2, <1>3, <1>4, <1>5

(* An answer that says that it is an error, or to a request that does not  *)
(* change the game.                                                        *)
LEMMA AnsweredTo ==
  ASSUME settings \in Settings, NEW b \in Bots, NEW p \in Places, Agent(b, p),
         b.request # "none", NEW bad \in BOOLEAN,
         bad \/ b.request \in {"observation", "action"}
  PROVE  To(b, p, Answered(b, bad), p)
<1> DEFINE c == Answered(b, bad)
<1>1. /\ c \in Bots /\ Kept(c, b)
      /\ c.pending = b.pending /\ c.last = b.last /\ c.app = b.app
      /\ c.errs = b.errs /\ c.request = "none"
      /\ c.reply # NoReply
      /\ c.reply.status = b.status /\ c.reply.status # "none"
      /\ c.reply.loop = b.loop /\ c.reply.bad = bad
  BY AnsweredFacts
<1> HIDE DEF c
<1>2. /\ b.app = "normal" /\ b.pending = b.request /\ b.reply = NoReply
      /\ b.conn = "up" /\ (b.request = "join" => bad)
      /\ (b.request = "leave" => bad)
  BY RequestFacts
<1>3. b.request = "join" => p \in {"join", "gone"}
  BY RequestFacts
<1>4. Link(c) /\ Knows(c)
  BY <1>1, <1>2
<1>5. Waits(c, p)
  BY <1>1, <1>2
<1>6. Begun(c, p)
  <2>1. p = "join" => b.pending = "join"
    BY <1>2
  <2> QED BY <1>1, <1>2, <2>1
<1>7. Seen(c, p)
  BY <1>1, <1>2
<1>8. Once => Ends(c, p)
  BY <1>1, <1>2
<1>9. ~Realtime /\ NoErrors /\ Lock(b, p) => Lock(c, p)
  BY <1>1, <1>2
<1> HIDE DEF Link, Knows, Waits, Begun, Seen, Ends, Lock
<1> QED BY <1>1, <1>4, <1>5, <1>6, <1>7, <1>8, <1>9 DEF c

LEMMA CreateAnsweredTo ==
  ASSUME settings \in Settings, NEW b \in Bots, NEW p \in Places, Agent(b, p),
         b.request = "create"
  PROVE  To(b, p, Answered([b EXCEPT !.status = "init"], FALSE), p)
<1> DEFINE x == [b EXCEPT !.status = "init"]
           c == Answered(x, FALSE)
<1>1. x \in Bots
  BY DEF Bots
<1>2. /\ x.pending = b.pending /\ x.last = b.last /\ x.app = b.app
      /\ x.errs = b.errs /\ x.cur = b.cur /\ x.prev = b.prev /\ x.conn = b.conn
      /\ x.status = "init" /\ x.loop = b.loop /\ x.ends = b.ends
      /\ x.played = b.played /\ x.seen = b.seen /\ x.again = b.again
  BY DEF Bots
<1> HIDE DEF x
<1>3. FALSE \in BOOLEAN
  OBVIOUS
<1>4. /\ c \in Bots /\ Kept(c, x)
      /\ c.pending = x.pending /\ c.last = x.last /\ c.app = x.app
      /\ c.errs = x.errs /\ c.request = "none"
      /\ c.reply # NoReply
      /\ c.reply.status = x.status /\ c.reply.status # "none"
      /\ c.reply.loop = x.loop /\ c.reply.bad = FALSE
  BY <1>1, <1>3, AnsweredFacts
<1> HIDE DEF c
<1>5. /\ b.app = "normal" /\ b.pending = "create" /\ b.reply = NoReply
      /\ b.conn = "up" /\ p \in {"create", "gone"}
  BY RequestFacts
<1>6. To(b, p, c, p)
  BY <1>2, <1>4, <1>5
<1> QED BY <1>6 DEF c, x

LEMMA LeaveAnsweredTo ==
  ASSUME settings \in Settings, NEW b \in Bots, NEW p \in Places, Agent(b, p),
         b.request = "leave"
  PROVE  To(b, p, Answered([b EXCEPT !.status = "launched"], FALSE), p)
<1> DEFINE x == [b EXCEPT !.status = "launched"]
           c == Answered(x, FALSE)
<1>1. x \in Bots
  BY DEF Bots
<1>2. /\ x.pending = b.pending /\ x.last = b.last /\ x.app = b.app
      /\ x.errs = b.errs /\ x.cur = b.cur /\ x.prev = b.prev /\ x.conn = b.conn
      /\ x.status = "launched" /\ x.loop = b.loop /\ x.ends = b.ends
      /\ x.played = b.played /\ x.seen = b.seen /\ x.again = b.again
  BY DEF Bots
<1> HIDE DEF x
<1>3. FALSE \in BOOLEAN
  OBVIOUS
<1>4. /\ c \in Bots /\ Kept(c, x)
      /\ c.pending = x.pending /\ c.last = x.last /\ c.app = x.app
      /\ c.errs = x.errs /\ c.request = "none"
      /\ c.reply # NoReply
      /\ c.reply.status = x.status /\ c.reply.status # "none"
      /\ c.reply.loop = x.loop /\ c.reply.bad = FALSE
  BY <1>1, <1>3, AnsweredFacts
<1> HIDE DEF c
<1>5. /\ b.app = "normal" /\ b.pending = "leave" /\ b.reply = NoReply
      /\ b.conn = "up" /\ p \in Resting \cup {"gone"}
  BY RequestFacts
<1>6. To(b, p, c, p)
  BY <1>2, <1>4, <1>5
<1> QED BY <1>6 DEF c, x

LEMMA JoinAnsweredTo ==
  ASSUME settings \in Settings, NEW b \in Bots, NEW p \in Places, Agent(b, p),
         b.request = "join"
  PROVE  /\ Becomes(b, p, Answered([b EXCEPT !.status = "inGame", !.loop = 1], FALSE), p)
         /\ Tells(b, p, Answered([b EXCEPT !.status = "inGame", !.loop = 1], FALSE), p)
<1> DEFINE x == [b EXCEPT !.status = "inGame", !.loop = 1]
           c == Answered(x, FALSE)
<1>1. 1 \in 0..MaxLoops
  BY ConstantFacts
<1>2. x \in Bots
  BY <1>1 DEF Bots
<1>3. /\ x.pending = b.pending /\ x.last = b.last /\ x.app = b.app
      /\ x.errs = b.errs /\ x.cur = b.cur /\ x.prev = b.prev /\ x.conn = b.conn
      /\ x.status = "inGame" /\ x.loop = 1 /\ x.ends = b.ends
      /\ x.played = b.played /\ x.seen = b.seen /\ x.again = b.again
  BY DEF Bots
<1> HIDE DEF x
<1>4. FALSE \in BOOLEAN
  OBVIOUS
<1>5. /\ c \in Bots /\ Kept(c, x)
      /\ c.pending = x.pending /\ c.last = x.last /\ c.app = x.app
      /\ c.errs = x.errs /\ c.request = "none"
      /\ c.reply # NoReply
      /\ c.reply.status = x.status /\ c.reply.status # "none"
      /\ c.reply.loop = x.loop /\ c.reply.bad = FALSE
  BY <1>2, <1>4, AnsweredFacts
<1> HIDE DEF c
<1>6. /\ b.app = "normal" /\ b.pending = "join" /\ b.reply = NoReply
      /\ b.conn = "up" /\ p \in {"join", "gone"}
  BY RequestFacts
<1>7. Becomes(b, p, c, p) /\ Tells(b, p, c, p)
  BY <1>3, <1>5, <1>6
<1> QED BY <1>7 DEF c, x

(* A step of the game, which SC2 answers.                                  *)
LEMMA StepAnsweredTo ==
  ASSUME settings \in Settings, NEW b \in Bots, NEW p \in Places, Agent(b, p),
         b.request = "step", b.status = "inGame", NEW over \in BOOLEAN
  PROVE  /\ Becomes(b, p, Answered(Advanced(b, over), FALSE), p)
         /\ Tells(b, p, Answered(Advanced(b, over), FALSE), p)
<1> DEFINE x == Advanced(b, over)
           c == Answered(x, FALSE)
<1>1. /\ x \in Bots
      /\ x.pending = b.pending /\ x.last = b.last /\ x.app = b.app
      /\ x.errs = b.errs /\ x.cur = b.cur /\ x.prev = b.prev /\ x.conn = b.conn
      /\ x.ends = b.ends /\ x.played = b.played /\ x.seen = b.seen
      /\ x.again = b.again
      /\ x.loop >= b.loop /\ x.status \in {"inGame", "ended"}
  BY AdvancedFacts
<1> HIDE DEF x
<1>2. FALSE \in BOOLEAN
  OBVIOUS
<1>3. /\ c \in Bots /\ Kept(c, x)
      /\ c.pending = x.pending /\ c.last = x.last /\ c.app = x.app
      /\ c.errs = x.errs /\ c.request = "none"
      /\ c.reply # NoReply
      /\ c.reply.status = x.status /\ c.reply.status # "none"
      /\ c.reply.loop = x.loop /\ c.reply.bad = FALSE
  BY <1>1, <1>2, AnsweredFacts
<1>4. b.loop \in Nat /\ x.loop \in Nat
  BY <1>1, ConstantFacts DEF Bots
<1> HIDE DEF c
<1>5. /\ b.app = "normal" /\ b.pending = "step" /\ b.reply = NoReply
      /\ b.conn = "up" /\ p \in {"step", "gone"}
  BY RequestFacts
<1>6. Becomes(b, p, c, p) /\ Tells(b, p, c, p)
  BY <1>1, <1>3, <1>4, <1>5
<1> QED BY <1>6 DEF c, x

(* In real time the game goes on, whatever the agent does.                 *)
LEMMA TimeTo ==
  ASSUME settings \in Settings, NEW b \in Bots, NEW p \in Places, Agent(b, p),
         b.status = "inGame", Realtime, NEW over \in BOOLEAN
  PROVE  To(b, p, Advanced(b, over), p)
<1> DEFINE c == Advanced(b, over)
<1>1. /\ c \in Bots
      /\ c.pending = b.pending /\ c.last = b.last /\ c.app = b.app
      /\ c.errs = b.errs /\ c.cur = b.cur /\ c.prev = b.prev
      /\ c.conn = b.conn /\ c.request = b.request /\ c.reply = b.reply
      /\ c.ends = b.ends /\ c.played = b.played /\ c.seen = b.seen
      /\ c.again = b.again
      /\ c.loop >= b.loop /\ c.status \in {"inGame", "ended"}
  BY AdvancedFacts
<1>2. b.loop \in Nat /\ c.loop \in Nat
  BY <1>1, ConstantFacts DEF Bots
<1> HIDE DEF c
<1>3. b.loop >= 1 /\ c.loop >= 1
  BY <1>1, <1>2
<1>4. Link(c) /\ Knows(c)
  BY <1>1, <1>2, <1>3
<1>5. Waits(c, p) /\ Begun(c, p) /\ Seen(c, p)
  BY <1>1, <1>2, <1>3
<1>6. Once => Ends(c, p)
  BY <1>1, <1>2
<1> HIDE DEF Link, Knows, Waits, Begun, Seen, Ends, Lock
<1> QED BY <1>1, <1>4, <1>5, <1>6 DEF c

(* A process that hangs, or whose connection is closed.                    *)
LEMMA BreaksTo ==
  ASSUME settings \in Settings, NEW b \in Bots, NEW p \in Places, Agent(b, p),
         b.conn = "up", NEW v \in {"hung", "closed"}
  PROVE  LET c == [b EXCEPT !.conn = v, !.request = "none", !.reply = NoReply,
                            !.errs = IF v = "closed" THEN @ \cup {"ConnectionClosed"}
                                     ELSE @]
         IN To(b, p, c, p)
<1> DEFINE e == IF v = "closed" THEN b.errs \cup {"ConnectionClosed"} ELSE b.errs
           c == [b EXCEPT !.conn = v, !.request = "none", !.reply = NoReply,
                          !.errs = e]
<1>1. e \in SUBSET Errors /\ b.errs \subseteq e
  BY DEF Bots, Errors
<1>2. v = "closed" => "ConnectionClosed" \in e
  OBVIOUS
<1>3. NoReply \in Replies /\ NoReply.status = "none"
  BY NoReplyFacts
<1> HIDE DEF e
<1>4. c \in Bots
  BY <1>1, <1>3 DEF Bots, Errors, Replies
<1>5. /\ c.pending = b.pending /\ c.last = b.last /\ c.app = b.app /\ c.errs = e
      /\ c.cur = b.cur /\ c.prev = b.prev /\ c.conn = v /\ c.request = "none"
      /\ c.reply = NoReply /\ c.status = b.status /\ c.loop = b.loop
      /\ c.ends = b.ends /\ c.played = b.played /\ c.seen = b.seen
      /\ c.again = b.again
  BY DEF Bots
<1> HIDE DEF c
<1>6. Link(c) /\ Knows(c)
  BY <1>1, <1>2, <1>3, <1>5
<1>7. Waits(c, p) /\ Begun(c, p) /\ Seen(c, p)
  BY <1>1, <1>5
<1>8. Once => Ends(c, p)
  BY <1>3, <1>5
<1>9. Lock(b, p) => Lock(c, p)
  BY <1>1, <1>5
<1>10. To(b, p, c, p)
  <2> HIDE DEF Link, Knows, Waits, Begun, Seen, Ends, Lock
  <2> QED BY <1>1, <1>4, <1>5, <1>6, <1>7, <1>8, <1>9
<1> QED BY <1>10 DEF c, e

HIDE DEF Agent, Link, Knows, Waits, Awaited, Begun, Seen, InStep, Ends, Over,
         Lock, Becomes, Tells, Steady, Plays, To, Told,
         Normal, IsInGame, CanSend, Kept, Called, Asking, Resting, Playing
=============================================================================
