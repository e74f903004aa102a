-------------------------------- MODULE Process --------------------------------
(***************************************************************************)
(* sc2::Process on POSIX systems: the child process SC2 runs in, with the  *)
(* shared_mutex that makes its methods "safe for concurrent use by         *)
(* multiple threads".  The coordinator starts and terminates the process   *)
(* and the client asks whether it runs, on the threads of the agents.      *)
(***************************************************************************)
EXTENDS Naturals

CONSTANTS
  Threads,    (* the threads that call the methods of this process         *)
  MaxStarts   (* bound on the children started                             *)

VARIABLES
  writer,     (* mutex: the thread that holds it alone, or "none"          *)
  readers,    (* mutex: how often each thread shares it                    *)
  started,    (* the children so far; processId is that of the last one,   *)
  known,      (*   if it is known: terminate() sets it to 0                *)
  child,      (* that child: "none", "running", "exited" or "reaped"       *)
  call,       (* the method each thread is in                              *)
  at,         (* how far it is                                             *)
  seen,       (* what its isRunning() returned                             *)
  aborted     (* std::terminate was called                                 *)

lock  == <<writer, readers>>
state == <<started, known, child>>
vars  == <<lock, state, call, at, seen, aborted>>

Methods == {"start", "isRunning", "terminate", "string"}

Exclusive(m) == m \in {"start", "terminate"}

Init ==
  /\ writer = "none" /\ readers = [t \in Threads |-> 0]
  /\ started = 0 /\ known = FALSE /\ child = "none"
  /\ call = [t \in Threads |-> "none"] /\ at = [t \in Threads |-> "out"]
  /\ seen = [t \in Threads |-> FALSE] /\ aborted = FALSE

Goes(t, p) == at' = [at EXCEPT ![t] = p]

Calls(t, m) ==
  /\ ~aborted /\ call[t] = "none"
  /\ m = "start" => started < MaxStarts
  /\ call' = [call EXCEPT ![t] = m] /\ Goes(t, "lock")
  /\ seen' = [seen EXCEPT ![t] = FALSE]
  /\ UNCHANGED <<lock, state, aborted>>

(* The end of the method releases what its lock object holds.              *)
Leaves(t) ==
  /\ writer' = IF writer = t THEN "none" ELSE writer
  /\ readers' = [readers EXCEPT ![t] = 0]
  /\ call' = [call EXCEPT ![t] = "none"] /\ Goes(t, "out")

Free == writer = "none" /\ \A t \in Threads : readers[t] = 0

(* The unique_lock or shared_lock at the head of each method.              *)
Locks(t) ==
  /\ ~aborted /\ at[t] = "lock"
  /\ IF Exclusive(call[t])
       THEN Free /\ writer' = t /\ UNCHANGED readers
       ELSE /\ writer = "none" /\ readers' = [readers EXCEPT ![t] = 1]
            /\ UNCHANGED writer
  /\ Goes(t, IF call[t] = "isRunning" THEN "wait"
             ELSE IF call[t] = "string" \/ known THEN "inner" ELSE "body")
  /\ UNCHANGED <<state, call, seen, aborted>>

(* The shared_lock of an isRunning() called by another method: once more   *)
(* for string(), whose thread shares the mutex already; in vain for the    *)
(* thread that holds it alone.  That one waits for itself, or gets a       *)
(* system_error, which leaves start() and ends the program in terminate(), *)
(* which is noexcept.                                                      *)
LocksAgain(t) ==
  /\ ~aborted /\ at[t] = "inner" /\ writer = "none"
  /\ readers' = [readers EXCEPT ![t] = @ + 1]
  /\ Goes(t, "wait")
  /\ UNCHANGED <<writer, state, call, seen, aborted>>

LockFails(t) ==
  /\ ~aborted /\ at[t] = "inner" /\ writer = t
  /\ IF call[t] = "start"
       THEN Leaves(t) /\ UNCHANGED aborted
       ELSE aborted' = TRUE /\ UNCHANGED <<lock, call, at>>
  /\ UNCHANGED <<state, seen>>

(* isRunning() itself: waitpid with WNOHANG, which reaps the child.        *)
Asks(t) ==
  /\ ~aborted /\ at[t] = "wait"
  /\ seen' = [seen EXCEPT ![t] = known /\ child = "running"]
  /\ child' = IF known /\ child = "exited" THEN "reaped" ELSE child
  /\ IF call[t] = "isRunning"
       THEN Leaves(t)
       ELSE /\ readers' = [readers EXCEPT ![t] = @ - 1]
            /\ Goes(t, "body") /\ UNCHANGED <<writer, call>>
  /\ UNCHANGED <<started, known, aborted>>

(* fork or posix_spawn, which may fail.  If the last child still runs,     *)
(* start() calls terminate(), which would lock the mutex once more.        *)
Start(t) ==
  /\ ~aborted /\ at[t] = "body" /\ call[t] = "start" /\ ~seen[t]
  /\ \/ started' = started + 1 /\ known' = TRUE /\ child' = "running"
     \/ UNCHANGED state
  /\ Leaves(t) /\ UNCHANGED <<seen, aborted>>

(* SIGTERM, five seconds, SIGKILL.                                         *)
Terminate(t) ==
  /\ ~aborted /\ at[t] = "body" /\ call[t] = "terminate"
  /\ known' = FALSE
  /\ child' = IF seen[t] THEN "reaped" ELSE child
  /\ Leaves(t) /\ UNCHANGED <<started, seen, aborted>>

String(t) ==
  /\ ~aborted /\ at[t] = "body" /\ call[t] = "string"
  /\ Leaves(t) /\ UNCHANGED <<state, seen, aborted>>

(* The child exits, by itself or because chdir or exec failed in it.       *)
ChildExits ==
  /\ child = "running" /\ child' = "exited"
  /\ UNCHANGED <<lock, started, known, call, at, seen, aborted>>

Runs(t) ==
  \/ Locks(t) \/ LocksAgain(t) \/ LockFails(t)
  \/ Asks(t) \/ Start(t) \/ Terminate(t) \/ String(t)

Next ==
  \/ \E t \in Threads, m \in Methods : Calls(t, m)
  \/ \E t \in Threads : Runs(t)
  \/ ChildExits

(* A thread that can go on does; the mutex is granted in the end.          *)
Fairness == \A t \in Threads : SF_vars(Runs(t))

Spec == Init /\ [][Next]_vars /\ Fairness

-----------------------------------------------------------------------------
(* "@return true if the process was successfully terminated or was not     *)
(* running, false otherwise": a call of terminate() returns.               *)
TerminateReturns ==
  \A t \in Threads : (call[t] = "terminate") ~> (call[t] = "none")
=============================================================================
