----------------------------- MODULE LaunchProofs -----------------------------
(***************************************************************************)
(* The ports, for any number of clients, of processes and of attempts to   *)
(* launch: the inductive invariant and the invariants the run checks.      *)
(***************************************************************************)
EXTENDS Launch, SequenceTheorems, TLAPS

(* The processes have consecutive ports.                                   *)
ProcessesInv == \A i \in 1..Len(processes) : processes[i] = PortOf(i)

(* Until an observer can be relaunched, a connection counts from the front *)
(* of process_info.                                                        *)
FrontInv ==
  kind = "agents" \/ ~started =>
    \A c \in Clients : linked[c] # NoPort =>
      linked[c] = PortOf(c) /\ c <= Len(processes)

(* From then on last_port_ is the last port in use.                        *)
RelaunchInv ==
  kind = "observers" /\ started =>
    /\ lastPort = PortOf(Len(processes))
    /\ \A c \in Clients : linked[c] <= lastPort

(* What the first launch finds.                                            *)
FirstInv ==
  /\ calls = 0 => /\ ~started /\ processes = <<>> /\ ports = <<>>
                  /\ \A c \in Clients : linked[c] = NoPort
  /\ kind = "observers" => ports = <<>>

(* The ports of the game follow those of the processes.                    *)
GameInv ==
  calls = 1 =>
    \A i \in 1..Len(ports) : ports[i] = PortOf(Len(processes)) + i

IInv ==
  /\ TypeOK /\ ProcessesInv /\ FrontInv /\ RelaunchInv /\ FirstInv /\ GameInv
  /\ EachItsProcess

-----------------------------------------------------------------------------
LEMMA PortsAfterFacts ==
  ASSUME NEW base \in Nat, NEW n \in Nat
  PROVE  /\ PortsAfter(base, n) \in Seq(Port)
         /\ Len(PortsAfter(base, n)) = n
         /\ \A i \in 1..n : PortsAfter(base, n)[i] = base + i
<1>1. \A i \in 1..n : base + i \in Port
  BY DEF Port, NoPort
<1>2. PortsAfter(base, n) \in [1..n -> Port]
  BY <1>1 DEF PortsAfter
<1> QED
  BY <1>2 DEF PortsAfter

LEMMA PortOfNat ==
  ASSUME NEW i \in Nat
  PROVE  PortOf(i) \in Nat /\ (i > 0 => PortOf(i) \in Port)
BY LaunchAssumption DEF PortOf, Port, NoPort

(* A launch, up to the client whose Connect fails, if there is one.        *)
LEMMA LaunchFacts ==
  ASSUME IInv, kind = "agents" \/ ~started, LaunchAll,
         NEW n \in 0..size, Attach(n)
  PROVE  /\ processes' \in Seq(Port) /\ Len(processes') = Len(processes) + size
         /\ \A i \in 1..Len(processes') : processes'[i] = PortOf(i)
         /\ own' \in [Clients -> PortOrNone] /\ linked' \in [Clients -> PortOrNone]
         /\ \A c \in Clients : linked'[c] # NoPort =>
              linked'[c] = PortOf(c) /\ c <= Len(processes')
         /\ calls = 0 => \A c \in Clients : linked'[c] \in {NoPort, own'[c]}
<1> USE DEF IInv, TypeOK
<1>1. size \in Nat /\ size > 0 /\ size <= MaxClients /\ MaxClients \in Nat
  BY LaunchAssumption DEF Clients
<1> DEFINE base == PortOf(Len(processes))
           new == PortsAfter(base, size)
<1>2. Len(processes) \in Nat /\ base \in Nat
  BY LenProperties, PortOfNat
<1>3. new \in Seq(Port) /\ Len(new) = size /\ \A i \in 1..size : new[i] = base + i
  BY <1>1, <1>2, PortsAfterFacts
<1>4. processes' = processes \o new
  BY DEF LaunchAll
<1>5. /\ processes' \in Seq(Port) /\ Len(processes') = Len(processes) + size
      /\ \A i \in 1..Len(processes) + size : processes'[i] =
           IF i <= Len(processes) THEN processes[i] ELSE new[i - Len(processes)]
  <2> HIDE DEF new
  <2> QED BY <1>3, <1>4, ConcatProperties
<1>6. \A i \in 1..Len(processes') : processes'[i] = PortOf(i)
  <2> SUFFICES ASSUME NEW i \in 1..Len(processes')
               PROVE  processes'[i] = PortOf(i)
    OBVIOUS
  <2>1. CASE i <= Len(processes)
    BY <2>1, <1>1, <1>2, <1>5 DEF ProcessesInv
  <2>2. CASE i > Len(processes)
    <3>1. i - Len(processes) \in 1..size
      BY <2>2, <1>1, <1>2, <1>5
    <3>2. processes'[i] = base + (i - Len(processes))
      BY <2>2, <3>1, <1>1, <1>2, <1>3, <1>5
    <3> QED BY <3>2, <1>2, LaunchAssumption DEF PortOf
  <2> QED BY <2>1, <2>2, <1>2
<1>7. \A c \in Clients : c <= size => own'[c] = PortOf(Len(processes) + c)
  BY DEF LaunchAll
<1>8. own' \in [Clients -> PortOrNone]
  <2>1. ASSUME NEW c \in Clients
        PROVE  PortOf(Len(processes) + c) \in PortOrNone
    <3>1. Len(processes) + c \in Nat
      BY <1>2, LaunchAssumption DEF Clients
    <3> QED BY <3>1, PortOfNat DEF PortOrNone
  <2> QED BY <2>1 DEF LaunchAll
<1>9. ASSUME NEW c \in Clients
      PROVE  /\ linked'[c] \in PortOrNone
             /\ linked'[c] # NoPort => linked'[c] = PortOf(c) /\ c <= Len(processes')
             /\ calls = 0 => linked'[c] \in {NoPort, own'[c]}
  <2>0. c \in Nat /\ c > 0
    BY LaunchAssumption DEF Clients
  <2>1. CASE c <= n
    <3>1. linked'[c] = PortOf(c) /\ c <= Len(processes')
      BY <2>0, <2>1, <1>1, <1>2, <1>5, <1>6 DEF Attach
    <3>2. calls = 0 => own'[c] = PortOf(c)
      BY <2>0, <2>1, <1>1, <1>7 DEF FirstInv
    <3> QED BY <3>1, <3>2, <2>0, PortOfNat DEF PortOrNone
  <2>2. CASE c = n + 1 /\ n < size
    BY <2>2, <2>0, <1>1 DEF Attach, PortOrNone, NoPort
  <2>3. CASE ~(c <= n) /\ ~(c = n + 1 /\ n < size)
    BY <2>3, <2>0, <1>1, <1>2, <1>5 DEF Attach, FrontInv, FirstInv
  <2> QED BY <2>1, <2>2, <2>3
<1>10. linked' \in [Clients -> PortOrNone]
  <2>1. linked' = [c \in Clients |-> linked'[c]]
    BY DEF Attach
  <2> QED BY <2>1, <1>9
<1> QED BY <1>5, <1>6, <1>8, <1>9, <1>10

(* SetupPorts gives the ports after base, the first time without a gap.    *)
LEMMA SetupFacts ==
  ASSUME IInv, NEW base \in Nat, SetupPorts(base)
  PROVE  /\ ports' \in Seq(Port)
         /\ ports = <<>> => \A i \in 1..Len(ports') : ports'[i] = base + i
<1> USE DEF IInv, TypeOK
<1>1. size \in Nat /\ size > 0
  BY LaunchAssumption DEF Clients
<1>2. CASE ~(Humans > 1)
  BY <1>2 DEF SetupPorts
<1>3. CASE Humans > 1
  <2> DEFINE head == PortsAfter(base, 3)
             kept == SubSeq(ports, 4, Len(ports))
             k == 2 * (size - 1)
             tail == PortsAfter(base + 3, k)
  <2>1. k \in Nat
    BY <1>1
  <2>2. /\ head \in Seq(Port) /\ Len(head) = 3
        /\ \A i \in 1..3 : head[i] = base + i
    BY PortsAfterFacts
  <2>3. /\ tail \in Seq(Port) /\ Len(tail) = k
        /\ \A i \in 1..k : tail[i] = base + 3 + i
    <3>1. base + 3 \in Nat
      OBVIOUS
    <3> HIDE DEF k
    <3> QED BY <2>1, <3>1, PortsAfterFacts
  <2>4. kept \in Seq(Port)
    <3>1. Len(ports) \in Nat /\ \A i \in 4..Len(ports) : ports[i] \in Port
      BY LenProperties, ElementOfSeq
    <3> QED BY <3>1, SubSeqProperties
  <2>5. ports = <<>> => kept = <<>>
    BY SubSeqEmpty
  <2>6. ports' = (head \o kept) \o tail
    BY <1>3 DEF SetupPorts
  <2> HIDE DEF head, kept, tail, k
  <2>7. head \o kept \in Seq(Port) /\ (kept = <<>> => head \o kept = head)
    BY <2>2, <2>4, ConcatProperties, ConcatEmptySeq
  <2>8. ports' \in Seq(Port)
    BY <2>3, <2>6, <2>7, ConcatProperties
  <2>9. ASSUME ports = <<>>, NEW i \in 1..Len(ports')
        PROVE  ports'[i] = base + i
    <3>1. ports' = head \o tail
      BY <2>5, <2>6, <2>7, <2>9
    <3>0. /\ Len(head \o tail) = Len(head) + Len(tail)
          /\ \A j \in 1..Len(head) + Len(tail) : (head \o tail)[j] =
               IF j <= Len(head) THEN head[j] ELSE tail[j - Len(head)]
      BY <2>2, <2>3, ConcatProperties
    <3>2. Len(ports') = 3 + k /\ ports'[i] = IF i <= 3 THEN head[i] ELSE tail[i - 3]
      BY <2>2, <2>3, <2>9, <3>1, <3>0
    <3>3. CASE i <= 3
      BY <2>2, <2>9, <3>2, <3>3, <2>1
    <3>4. CASE i > 3
      <4>1. i - 3 \in 1..k /\ base + 3 + (i - 3) = base + i
        BY <2>1, <2>9, <3>2, <3>4
      <4> QED BY <2>3, <2>1, <2>9, <3>2, <3>4, <4>1
    <3> QED BY <3>3, <3>4, <2>1, <2>9, <3>2
  <2> QED BY <2>8, <2>9
<1> QED BY <1>2, <1>3

-----------------------------------------------------------------------------
(* The invariant holds at first.                                           *)
LEMMA InitInv == Init => IInv
<1> SUFFICES ASSUME Init PROVE IInv
  OBVIOUS
<1>1. /\ processes = <<>> /\ ports = <<>> /\ ~started /\ lastPort = 0 /\ calls = 0
      /\ \A c \in Clients : linked[c] = NoPort
  BY DEF Init
<1>2. TypeOK
  <2>1. processes \in Seq(Port) /\ ports \in Seq(Port)
    BY <1>1, EmptySeq
  <2>2. own \in [Clients -> PortOrNone] /\ linked \in [Clients -> PortOrNone]
    BY DEF Init, NoPort, PortOrNone
  <2> QED BY <2>1, <2>2 DEF Init, TypeOK
<1>3. ProcessesInv /\ FrontInv /\ RelaunchInv /\ FirstInv /\ GameInv
  BY <1>1 DEF ProcessesInv, FrontInv, RelaunchInv, FirstInv, GameInv
<1>4. EachItsProcess
  BY <1>1 DEF EachItsProcess
<1> QED BY <1>2, <1>3, <1>4 DEF IInv

(* Every step preserves it.                                                *)
LEMMA NextInv == IInv /\ [Next]_vars => IInv'
<1> SUFFICES ASSUME IInv, [Next]_vars PROVE IInv'
  OBVIOUS
<1> USE DEF IInv, TypeOK
<1>0. size \in Nat /\ size > 0 /\ Len(processes) \in Nat
  BY LaunchAssumption, LenProperties DEF Clients
<1>1. CASE SetParticipants
  BY <1>1 DEF SetParticipants, ProcessesInv, FrontInv, RelaunchInv, FirstInv,
              GameInv, EachItsProcess
<1>2. CASE LaunchStarcraft
  <2>0. kind = "agents" /\ kind' = kind /\ size' = size /\ remote' = remote
        /\ calls' = calls + 1
    BY <1>2 DEF LaunchStarcraft
  <2>1. ASSUME LaunchAll, NEW n \in 0..size, Attach(n),
               IF n = size THEN Starts(processes'[Len(processes')])
               ELSE UNCHANGED <<ports, started, lastPort>>
        PROVE  IInv'
    <3>1. /\ processes' \in Seq(Port) /\ Len(processes') = Len(processes) + size
          /\ \A i \in 1..Len(processes') : processes'[i] = PortOf(i)
          /\ own' \in [Clients -> PortOrNone] /\ linked' \in [Clients -> PortOrNone]
          /\ \A c \in Clients : linked'[c] # NoPort =>
               linked'[c] = PortOf(c) /\ c <= Len(processes')
          /\ calls = 0 => \A c \in Clients : linked'[c] \in {NoPort, own'[c]}
      BY <2>0, <2>1, LaunchFacts
    <3> DEFINE last == processes'[Len(processes')]
    <3>2. last = PortOf(Len(processes')) /\ last \in Nat
      <4>1. Len(processes') \in 1..Len(processes') /\ Len(processes') \in Nat
        BY <1>0, <3>1
      <4> QED BY <3>1, <4>1, PortOfNat
    <3>3. /\ ports' \in Seq(Port) /\ started' \in BOOLEAN /\ lastPort' \in Nat
          /\ ports = <<>> => \A i \in 1..Len(ports') : ports'[i] = last + i
      <4>1. CASE n = size
        BY <2>1, <3>2, <4>1, SetupFacts DEF Starts
      <4>2. CASE n # size
        BY <2>1, <4>2
      <4> QED BY <4>1, <4>2
    <3>4. TypeOK'
      BY <2>0, <3>1, <3>3
    <3>5. ProcessesInv' /\ FrontInv' /\ RelaunchInv' /\ FirstInv'
      BY <2>0, <3>1 DEF ProcessesInv, FrontInv, RelaunchInv, FirstInv
    <3>6. GameInv'
      BY <2>0, <3>2, <3>3 DEF GameInv, FirstInv
    <3>7. EachItsProcess'
      BY <2>0, <3>1, LaunchAssumption DEF EachItsProcess, PortOf, Clients
    <3> QED BY <3>4, <3>5, <3>6, <3>7
  <2>2. ASSUME Len(processes) = size, Starts(0), UNCHANGED <<processes, own, linked>>
        PROVE  IInv'
    <3>1. calls # 0
      BY <1>0, <2>2 DEF FirstInv
    <3>2. ports' \in Seq(Port) /\ started' = TRUE /\ lastPort' = 0
      BY <2>2, SetupFacts DEF Starts
    <3> QED BY <2>0, <2>2, <3>1, <3>2
            DEF ProcessesInv, FrontInv, RelaunchInv, FirstInv, GameInv, EachItsProcess
  <2> QED BY <1>2, <2>1, <2>2 DEF LaunchStarcraft
<1>3. CASE StartReplay
  <2>0. /\ kind = "observers" /\ ~started /\ LaunchAll /\ calls' = calls + 1
        /\ UNCHANGED <<kind, size, remote, ports>>
    BY <1>3 DEF StartReplay
  <2>1. PICK n \in 0..size :
          /\ Attach(n) /\ started' = (n = size)
          /\ lastPort' = IF n = size THEN processes'[Len(processes')] ELSE lastPort
    BY <1>3 DEF StartReplay
  <2>2. /\ processes' \in Seq(Port) /\ Len(processes') = Len(processes) + size
        /\ \A i \in 1..Len(processes') : processes'[i] = PortOf(i)
        /\ own' \in [Clients -> PortOrNone] /\ linked' \in [Clients -> PortOrNone]
        /\ \A c \in Clients : linked'[c] # NoPort =>
             linked'[c] = PortOf(c) /\ c <= Len(processes')
        /\ calls = 0 => \A c \in Clients : linked'[c] \in {NoPort, own'[c]}
    BY <2>0, <2>1, LaunchFacts
  <2>3. /\ processes'[Len(processes')] = PortOf(Len(processes'))
        /\ PortOf(Len(processes')) \in Nat
    <3>1. Len(processes') \in 1..Len(processes') /\ Len(processes') \in Nat
      BY <1>0, <2>2
    <3> QED BY <2>2, <3>1, PortOfNat
  <2>4. (started' => lastPort' = PortOf(Len(processes'))) /\ lastPort' \in Nat
    BY <2>1, <2>3
  <2>5. TypeOK'
    BY <2>0, <2>1, <2>2, <2>4
  <2>6. ProcessesInv' /\ FrontInv' /\ FirstInv' /\ GameInv'
    BY <2>0, <2>2 DEF ProcessesInv, FrontInv, FirstInv, GameInv
  <2>7. RelaunchInv'
    <3> SUFFICES ASSUME started', NEW c \in Clients PROVE linked'[c] <= lastPort'
      BY <2>4 DEF RelaunchInv
    <3>1. Len(processes') \in Nat /\ c \in Nat
      BY <1>0, <2>2, LaunchAssumption DEF Clients
    <3> QED BY <2>2, <2>4, <3>1, PortOfNat, LaunchAssumption DEF PortOf, NoPort
  <2>8. EachItsProcess'
    BY <2>0, <2>2, LaunchAssumption DEF EachItsProcess, PortOf, Clients
  <2> QED BY <2>5, <2>6, <2>7, <2>8
<1>4. ASSUME NEW o \in Clients, Relaunch(o) PROVE IInv'
  <2> DEFINE port == lastPort + 1
  <2>0. /\ kind = "observers" /\ started /\ processes' = Append(processes, port)
        /\ own' = [own EXCEPT ![o] = port] /\ lastPort' = port
        /\ UNCHANGED <<kind, size, remote, ports, started, calls>>
    BY <1>4 DEF Relaunch, NextPort
  <2>1. PICK up \in BOOLEAN :
          linked' = [linked EXCEPT ![o] = IF up THEN port ELSE NoPort]
    BY <1>4 DEF Relaunch, NextPort
  <2>2. port \in Port /\ port \in Nat /\ port = PortOf(Len(processes) + 1)
    BY <1>0, <2>0, LaunchAssumption DEF RelaunchInv, PortOf, Port, NoPort
  <2> HIDE DEF port
  <2>3. /\ processes' \in Seq(Port) /\ Len(processes') = Len(processes) + 1
        /\ \A i \in 1..Len(processes') : processes'[i] = PortOf(i)
    BY <1>0, <2>0, <2>2 DEF ProcessesInv
  <2>4. own' \in [Clients -> PortOrNone] /\ linked' \in [Clients -> PortOrNone]
    BY <2>0, <2>1, <2>2 DEF PortOrNone, NoPort
  <2>5. ProcessesInv' /\ FrontInv' /\ FirstInv' /\ GameInv'
    BY <2>0, <2>3 DEF ProcessesInv, FrontInv, FirstInv, GameInv
  <2>6. \A c \in Clients : linked[c] < port
    BY <2>0 DEF RelaunchInv, PortOrNone, port
  <2>7. RelaunchInv'
    BY <2>0, <2>1, <2>2, <2>3, <2>4, <2>6 DEF RelaunchInv, PortOrNone, NoPort
  <2>8. EachItsProcess'
    BY <2>0, <2>1, <2>2, <2>4, <2>6 DEF EachItsProcess, PortOrNone, NoPort
  <2> QED BY <2>0, <2>2, <2>3, <2>4, <2>5, <2>7, <2>8
<1>5. CASE UNCHANGED vars
  BY <1>5 DEF vars, ProcessesInv, FrontInv, RelaunchInv, FirstInv, GameInv,
              EachItsProcess
<1> QED BY <1>1, <1>2, <1>3, <1>4, <1>5 DEF Next

(* The invariant of the launch holds throughout.                           *)
THEOREM Invariant == Spec => []IInv
BY InitInv, NextInv, PTL DEF Spec

(* Every port given away is a port: LaunchProcess, Relaunch, SetupPorts.   *)
THEOREM TypeCorrect == Spec => []TypeOK
<1>1. IInv => TypeOK
  BY DEF IInv
<1> QED BY <1>1, Invariant, PTL

(* No two clients share an SC2, and each is connected to its own.          *)
THEOREM ClientsApart == Spec => []EachItsProcess
<1>1. IInv => EachItsProcess
  BY DEF IInv
<1> QED BY <1>1, Invariant, PTL

(* The ports of the first game are free.                                   *)
THEOREM PortsFree == Spec => []GamePortsFree
<1>1. IInv => GamePortsFree
  <2> SUFFICES ASSUME IInv, calls = 1 PROVE
        /\ Distinct(ports)
        /\ \A i \in DOMAIN ports, j \in DOMAIN processes : ports[i] # processes[j]
    BY DEF GamePortsFree
  <2>1. /\ DOMAIN ports = 1..Len(ports) /\ DOMAIN processes = 1..Len(processes)
        /\ Len(processes) \in Nat
    BY LenProperties DEF IInv, TypeOK
  <2>2. /\ \A i \in 1..Len(ports) : ports[i] = PortOf(Len(processes)) + i
        /\ \A j \in 1..Len(processes) : processes[j] = PortOf(j)
    BY DEF IInv, GameInv, ProcessesInv
  <2> QED BY <2>1, <2>2, LaunchAssumption DEF Distinct, PortOf
<1> QED BY <1>1, Invariant, PTL

=============================================================================
