-------------------------------- MODULE Launch --------------------------------
(***************************************************************************)
(* How sc2::Coordinator starts the SC2 processes, attaches its clients to  *)
(* them, and chooses the ports: LaunchStarcraft for the agents, the first  *)
(* StartReplay for the observers, Relaunch for one observer that failed,   *)
(* SetupPorts for the ports a game between several players needs.          *)
(*                                                                         *)
(* A client is known by its place in agents_ or replay_observers_.  The    *)
(* calls of one coordinator follow each other, and each is a step; what    *)
(* may differ is whether Connect succeeds.  A caller may catch             *)
(* ClientConnectionError and call again.                                   *)
(*                                                                         *)
(* Not modelled: Coordinator::Connect and a call of SetupPorts by the user *)
(* (a program that attaches to an SC2 it has not started), agents and      *)
(* observers in one coordinator, a program that empties the list of        *)
(* replays between two calls of Update.                                    *)
(***************************************************************************)
EXTENDS Integers, Sequences

CONSTANTS
  PortStart,       (* process_settings_.port_start                         *)
  MaxClients,      (* bound on the agents or observers                     *)
  MaxProcesses,    (* bound on the processes ever started                  *)
  MaxCalls         (* bound on the attempts to launch                      *)

(* The first process listens on PortStart - 1, and 0 is not a port.        *)
ASSUME LaunchAssumption ==
  /\ PortStart \in Nat /\ PortStart > 1
  /\ MaxClients \in Nat /\ MaxProcesses \in Nat /\ MaxCalls \in Nat

Clients == 1..MaxClients
NoPort == 0

VARIABLES
  kind,      (* "agents" or "observers": the clients of this program       *)
  size,      (* agents_.size() or replay_observers_.size()                 *)
  remote,    (* player_setup names a participant that is not of ours       *)
  processes, (* the port of each element of process_info                   *)
  own,       (* the port in each client's own process_info_                *)
  linked,    (* the port each client is connected to                       *)
  ports,     (* game_settings_.ports: the shared port, the game and base   *)
             (*   port of the server, then those of each client            *)
  started,   (* starcraft_started_                                         *)
  lastPort,  (* last_port_                                                 *)
  calls      (* history: how often LaunchStarcraft was called, or          *)
             (*   StartReplay when nothing was started                      *)

vars == <<kind, size, remote, processes, own, linked, ports, started,
          lastPort, calls>>

Init ==
  /\ kind \in {"agents", "observers"} /\ size \in Clients /\ remote \in BOOLEAN
  /\ processes = <<>> /\ ports = <<>>
  /\ own = [c \in Clients |-> NoPort] /\ linked = [c \in Clients |-> NoPort]
  /\ started = FALSE /\ lastPort = 0 /\ calls = 0

-----------------------------------------------------------------------------
(* SetParticipants, before the first launch or between two games.          *)
SetParticipants ==
  /\ kind = "agents"
  /\ size' \in Clients /\ remote' \in BOOLEAN
  /\ UNCHANGED <<kind, processes, own, linked, ports, started, lastPort, calls>>

(* LaunchProcesses: a process for every client, whatever runs already; the *)
(* port is computed before process_info grows.                             *)
PortOfCount(i) == i - 2
PortOf(i) == PortStart + i - 2

(* The n ports after base, each taken with an increment.                   *)
PortsAfter(base, n) == [i \in 1..n |-> base + i]

LaunchAll ==
  /\ Len(processes) + size <= MaxProcesses
  /\ processes' = processes \o PortsAfter(PortOf(Len(processes)), size)
  /\ own' = [c \in Clients |-> IF c <= size THEN PortOf(Len(processes) + c)
                               ELSE own[c]]

(* AttachClients takes the first elements of process_info.  It throws      *)
(* when Connect fails, here for the client after the first n.              *)
Attach(n) ==
  linked' = [c \in Clients |->
               IF c <= n THEN processes'[c]
               ELSE IF c = n + 1 /\ n < size THEN NoPort
               ELSE linked[c]]

(* SetupPorts: the ports after base, for a game with several humans; the   *)
(* clients' ports are appended to those that are there.                    *)
Humans == IF remote THEN size + 1 ELSE size

SetupPortsOff(base) ==
  ports' = IF Humans > 1
             THEN PortsAfter(base, 3) \o SubSeq(ports, 4, Len(ports))
                    \o PortsAfter(base + 2, 2 * (size - 1))
             ELSE ports
SetupPorts(base) ==
  ports' = IF Humans > 1
             THEN PortsAfter(base, 3) \o SubSeq(ports, 4, Len(ports))
                    \o PortsAfter(base + 3, 2 * (size - 1))
             ELSE ports

Starts(base) == SetupPorts(base) /\ started' = TRUE /\ lastPort' = base

(* LaunchStarcraft, which launches only when the numbers differ.           *)
LaunchStarcraft ==
  /\ kind = "agents" /\ calls < MaxCalls /\ calls' = calls + 1
  /\ \/ /\ Len(processes) # size /\ LaunchAll
        /\ \E n \in 0..size :
             /\ Attach(n)
             /\ IF n = size THEN Starts(processes'[Len(processes')])
                ELSE UNCHANGED <<ports, started, lastPort>>
     \/ /\ Len(processes) = size /\ Starts(0)
        /\ UNCHANGED <<processes, own, linked>>
  /\ UNCHANGED <<kind, size, remote>>

(* StartReplay, until it has succeeded once.                               *)
StartReplay ==
  /\ kind = "observers" /\ ~started /\ calls < MaxCalls /\ calls' = calls + 1
  /\ LaunchAll
  /\ \E n \in 0..size :
       /\ Attach(n) /\ started' = (n = size)
       /\ lastPort' = IF n = size THEN processes'[Len(processes')] ELSE lastPort
  /\ UNCHANGED <<kind, size, remote, ports>>

(* The port of a relaunched process, and of what comes after it.           *)
NextPortSame == lastPort
NextPort == lastPort + 1

(* Relaunch of an observer, when terminate() returns.                      *)
Relaunch(o) ==
  /\ kind = "observers" /\ started /\ o <= size
  /\ Len(processes) < MaxProcesses
  /\ LET port == NextPort IN
       /\ processes' = Append(processes, port)
       /\ own' = [own EXCEPT ![o] = port] /\ lastPort' = port
       /\ \E up \in BOOLEAN :
            linked' = [linked EXCEPT ![o] = IF up THEN port ELSE NoPort]
  /\ UNCHANGED <<kind, size, remote, ports, started, calls>>

Next ==
  \/ SetParticipants \/ LaunchStarcraft \/ StartReplay
  \/ \E o \in Clients : Relaunch(o)

Spec == Init /\ [][Next]_vars

-----------------------------------------------------------------------------
Port == Nat \ {NoPort}
PortOrNone == Nat

(* Every port that a process or a game gets, from whichever counter, is    *)
(* the number of a port.                                                   *)
TypeOK ==
  /\ kind \in {"agents", "observers"} /\ size \in Clients /\ remote \in BOOLEAN
  /\ processes \in Seq(Port) /\ ports \in Seq(Port)
  /\ own \in [Clients -> PortOrNone] /\ linked \in [Clients -> PortOrNone]
  /\ started \in BOOLEAN /\ lastPort \in Nat /\ calls \in Nat

Distinct(s) == \A i, j \in DOMAIN s : s[i] = s[j] => i = j

(* Two clients are never connected to the same SC2: whatever attempts to   *)
(* attach failed before, and however often observers were relaunched.      *)
(* (AttachClients counts from the front of process_info, Relaunch from     *)
(* last_port_.)  And unless a launch was repeated, the SC2 a client is     *)
(* connected to is the one it takes for its own, and which WaitForResponse *)
(* asks whether it runs.                                                   *)
EachItsProcess ==
  /\ \A c, d \in Clients : linked[c] = linked[d] /\ linked[c] # NoPort => c = d
  /\ calls <= 1 => \A c \in Clients : linked[c] \in {NoPort, own[c]}

(* After the first LaunchStarcraft the ports of the game are different,    *)
(* and no SC2 listens for its client on one of them.                       *)
GamePortsFree ==
  calls = 1 => /\ Distinct(ports)
               /\ \A i \in DOMAIN ports, j \in DOMAIN processes :
                    ports[i] # processes[j]

=============================================================================
