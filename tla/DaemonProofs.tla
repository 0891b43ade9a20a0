---------------------------- MODULE DaemonProofs ----------------------------
(* What holds of Daemon for every number of processes and ports: the types   *)
(* for any commands at once, and, with one command after the other, that the *)
(* pid file names the daemon that serves and that a daemon finds its port    *)
(* free, on every port where clients wait for their daemon.                  *)
EXTENDS Daemon, TLAPS

\* Commands follow each other.
OneOperator == \A c, d \in Commands : c = d

----------------------------------------------------------------------------
(* Type correctness *)

USE DEF Stages, Steps, Goals, command

LEMMA NobodyServes == NoPid \notin Pids
  BY DaemonAssumption

LEMMA TypeInit == Init => TypeOK
  BY DEF Init, TypeOK

\* A process ends, and its socket with it.
LEMMA UnboundType ==
  ASSUME TypeOK, NEW p \in Pids
  PROVE  Unbound(p) \in [Ports -> Pids \cup {NoPid}]
  BY DEF TypeOK, Unbound

LEMMA TypeDaemonStep ==
  ASSUME TypeOK, NEW p \in Pids, DaemonStep(p)
  PROVE  TypeOK'
  <1> USE DEF TypeOK, Becomes
  <1>1. CASE PoolStarts(p) \/ End(p)
    BY <1>1 DEF PoolStarts, End
  <1>2. CASE Bind(p)
    BY <1>2 DEF Bind
  <1>3. CASE WritePid(p) \/ Unlink(p)
    BY <1>3 DEF WritePid, Unlink
  <1>4. CASE Close(p) \/ HardKill(p)
    BY <1>4, UnboundType DEF Close, HardKill, Dies
  <1> QED
    BY <1>1, <1>2, <1>3, <1>4 DEF DaemonStep

LEMMA TypeTerminate ==
  ASSUME TypeOK, NEW p \in Pids, NEW how, Terminate(p, how)
  PROVE  process' \in [Pids -> Stages] /\ listener' \in [Ports -> Pids \cup {NoPid}]
  BY UnboundType DEF Terminate, Dies, Becomes, TypeOK

\* What Kill does to the target, one way or the other, and where it leads.
Signals(c, how) ==
  \/ /\ target[c] \in Daemons /\ Terminate(target[c], how)
     /\ Goto(c, "poll") /\ UNCHANGED target
  \/ /\ target[c] \notin Daemons /\ UNCHANGED <<process, listener>>
     /\ \/ how = "taskkill" /\ Goto(c, "poll") /\ UNCHANGED target
        \/ how = "SIGTERM" /\ Goto(c, "idle") /\ Drops(c)

LEMMA KillSignals ==
  ASSUME NEW c \in Commands, Kill(c)
  PROVE  \E how \in Terminators : Signals(c, how)
  BY DEF Kill, Signals

LEMMA TypeCommandStep ==
  ASSUME TypeOK, NEW c \in Commands, CommandStep(c)
  PROVE  TypeOK'
  <1> USE DEF TypeOK, Goto
  <1>1. CASE Begin(c)
    BY <1>1 DEF Begin
  <1>2. CASE Check(c) \/ Await(c) \/ Poll(c)
    BY <1>2 DEF Check, Await, Poll, Drops
  <1>3. CASE Launch(c)
    BY <1>3 DEF Launch, Becomes
  <1>4. CASE Look(c)
    <2>1. CASE Live(at[c]) = {}
      BY <1>4, <2>1 DEF Look
    <2>2. CASE Live(at[c]) # {}
      <3>1. pidFile[at[c]] \in Pids
        BY <2>2 DEF Live, Daemons
      <3> QED
        BY <1>4, <2>2, <3>1 DEF Look
    <2> QED
      BY <2>1, <2>2
  <1>5. CASE Forget(c) \/ Probe(c) \/ Remove(c)
    BY <1>5 DEF Forget, Probe, Remove, Success, Drops
  <1>6. CASE Guess(c)
    BY <1>6 DEF Guess, Daemons
  <1>7. CASE Kill(c)
    <2>1. PICK how \in Terminators : Signals(c, how)
      BY <1>7, KillSignals
    <2>2. process' \in [Pids -> Stages] /\ listener' \in [Ports -> Pids \cup {NoPid}]
      BY <2>1, TypeTerminate DEF Signals, Daemons
    <2>3. \/ step' = [step EXCEPT ![c] = "poll"] /\ target' = target
          \/ step' = [step EXCEPT ![c] = "idle"] /\ target' = [target EXCEPT ![c] = NoPid]
      BY <2>1 DEF Signals, Drops
    <2>4. target[c] \in Pids /\ UNCHANGED <<port, pidFile, goal, at>>
      BY <1>7 DEF Kill
    <2> QED
      BY <2>2, <2>3, <2>4
  <1> QED
    BY <1>1, <1>2, <1>3, <1>4, <1>5, <1>6, <1>7 DEF CommandStep

LEMMA TypeNext == TypeOK /\ [Next]_vars => TypeOK'
  <1> SUFFICES ASSUME TypeOK, [Next]_vars PROVE TypeOK'
    OBVIOUS
  <1>1. CASE UNCHANGED vars
    BY <1>1 DEF vars, TypeOK
  <1> QED
    BY <1>1, TypeDaemonStep, TypeCommandStep DEF Next

\* With any number of commands at once every variable keeps its type, and a stop never
\* signals anything but a process.
THEOREM TypeCorrect == Spec => []TypeOK
  BY TypeInit, TypeNext, PTL DEF Spec

----------------------------------------------------------------------------
(* One command after the other *)

\* A daemon on its way up, or one that has failed on its way and says so at the end, where
\* clients wait for it.
Starter(p) ==
  /\ port[p] \notin SlowPorts
  /\ \/ process[p] \in {"init", "bind", "bound"}
     \/ process[p] = "stopping" /\ listener[port[p]] # p

\* Who is bound or serves holds its port, and only who has not closed its socket does.
HoldsPort == \A p \in Pids : process[p] \in {"bound", "up"} => listener[port[p]] = p
OpenSocket ==
  \A l \in Ports, p \in Pids : listener[l] = p =>
    port[p] = l /\ process[p] \in {"bound", "up", "stopping", "closing"}

\* One daemon starts at a time, with somebody waiting for it, on a port nobody else has.
Awaited ==
  \A p \in Pids : Starter(p) =>
    /\ \E c \in Commands : step[c] = "await" /\ at[c] = port[p]
    /\ listener[port[p]] \in {p, NoPid}
    /\ \A q \in Pids : Starter(q) => q = p

\* What start has found silent is still silent when it launches its daemon.
SilentAtLaunch ==
  \A c \in Commands :
    step[c] = "launch" /\ at[c] \notin SlowPorts => listener[at[c]] = NoPid

\* Nobody serves the port whose pid file stop is about to remove.
NobodyNamed ==
  \A c \in Commands, p \in Pids :
    step[c] \in {"forget", "remove"} /\ port[p] = at[c] /\ at[c] \notin SlowPorts
    => process[p] # "up"

TakingTurns ==
  HoldsPort /\ OpenSocket /\ Awaited /\ SilentAtLaunch /\ NobodyNamed /\ ServingDaemonIsNamed

LEMMA TurnsInit == Init => TakingTurns
  BY NobodyServes
     DEF Init, TakingTurns, Starter, HoldsPort, OpenSocket, Awaited, SilentAtLaunch, NobodyNamed,
         ServingDaemonIsNamed

\* The end of p, or of its socket, whatever p was doing and whoever causes it.
LEMMA TurnsDies ==
  ASSUME TypeOK, TakingTurns, NEW p \in Pids, NEW stage \in {"closed", "free"},
         Becomes(p, stage), listener' = Unbound(p), UNCHANGED <<port, pidFile, at>>,
         \A c \in Commands : /\ step'[c] \in {"await", "launch", "forget", "remove"} => step'[c] = step[c]
                             /\ step[c] = "await" => step'[c] = "await"
  PROVE  TakingTurns'
  <1> USE NobodyServes DEF TypeOK, TakingTurns, Becomes, Unbound
  <1>1. HoldsPort' /\ OpenSocket'
    BY DEF HoldsPort, OpenSocket
  <1>2. \A q \in Pids : Starter(q)' => Starter(q) /\ q # p
    BY DEF Starter, HoldsPort, OpenSocket
  <1>3. Awaited'
    BY <1>2 DEF Awaited
  <1>4. SilentAtLaunch' /\ NobodyNamed' /\ ServingDaemonIsNamed'
    BY DEF SilentAtLaunch, NobodyNamed, ServingDaemonIsNamed
  <1> QED
    BY <1>1, <1>3, <1>4

LEMMA TurnsDaemonStep ==
  ASSUME OneOperator, TypeOK, TakingTurns, NEW p \in Pids, DaemonStep(p)
  PROVE  TakingTurns'
  <1> USE NobodyServes DEF TypeOK
  <1>1. CASE PoolStarts(p)
    <2> USE <1>1 DEF PoolStarts, Becomes, TakingTurns
    <2>1. HoldsPort' /\ OpenSocket'
      BY DEF HoldsPort, OpenSocket
    <2>2. \A q \in Pids : Starter(q)' => Starter(q)
      BY DEF Starter
    <2>3. Awaited'
      BY <2>2 DEF Awaited
    <2>4. SilentAtLaunch' /\ NobodyNamed' /\ ServingDaemonIsNamed'
      BY DEF SilentAtLaunch, NobodyNamed, ServingDaemonIsNamed
    <2> QED
      BY <2>1, <2>3, <2>4
  <1>2. CASE Bind(p) /\ port[p] \notin SlowPorts
    <2> USE <1>2 DEF Becomes, TakingTurns
    <2>1. Starter(p) /\ listener[port[p]] = NoPid
      BY DEF Bind, Starter, Awaited, OpenSocket
    <2>2. /\ listener' = [listener EXCEPT ![port[p]] = p]
          /\ process' = [process EXCEPT ![p] = "bound"]
          /\ UNCHANGED <<port, pidFile, step, goal, at, target>>
      BY <2>1 DEF Bind
    <2>3. HoldsPort' /\ OpenSocket'
      BY <2>1, <2>2 DEF HoldsPort, OpenSocket
    <2>4. \A q \in Pids : Starter(q)' => Starter(q)
      BY <2>1, <2>2 DEF Starter
    <2>5. Awaited'
      BY <2>1, <2>2, <2>4 DEF Awaited
    <2>6. SilentAtLaunch'
      BY <2>1, <2>2 DEF SilentAtLaunch, Awaited, OneOperator
    <2>7. NobodyNamed' /\ ServingDaemonIsNamed'
      BY <2>2 DEF NobodyNamed, ServingDaemonIsNamed
    <2> QED
      BY <2>3, <2>5, <2>6, <2>7
  <1>7. CASE Bind(p) /\ port[p] \in SlowPorts
    <2> USE <1>7 DEF Bind, Becomes, TakingTurns
    <2>1. HoldsPort' /\ OpenSocket'
      BY DEF HoldsPort, OpenSocket
    <2>2. \A q \in Pids : Starter(q)' => Starter(q)
      BY DEF Starter
    <2>3. Awaited'
      BY <2>2 DEF Awaited, Starter
    <2>4. SilentAtLaunch' /\ NobodyNamed' /\ ServingDaemonIsNamed'
      BY DEF SilentAtLaunch, NobodyNamed, ServingDaemonIsNamed
    <2> QED
      BY <2>1, <2>3, <2>4
  <1>3. CASE WritePid(p)
    <2> USE <1>3 DEF WritePid, Becomes, TakingTurns
    <2>1. HoldsPort' /\ OpenSocket'
      BY DEF HoldsPort, OpenSocket
    <2>2. \A q \in Pids : Starter(q)' => Starter(q)
      BY DEF Starter
    <2>3. Awaited'
      BY <2>2 DEF Awaited
    <2>4. SilentAtLaunch'
      BY DEF SilentAtLaunch
    <2>5. listener[port[p]] = p /\ (port[p] \notin SlowPorts => Starter(p))
      BY DEF Starter, HoldsPort
    <2>6. NobodyNamed'
      BY <2>5 DEF NobodyNamed, Awaited, OneOperator
    <2>7. ServingDaemonIsNamed'
      BY <2>5 DEF ServingDaemonIsNamed, HoldsPort
    <2> QED
      BY <2>1, <2>3, <2>4, <2>6, <2>7
  <1>4. CASE Unlink(p)
    <2> USE <1>4 DEF Unlink, Becomes, TakingTurns
    <2>1. HoldsPort' /\ OpenSocket'
      BY DEF HoldsPort, OpenSocket
    <2>2. \A q \in Pids : Starter(q)' => Starter(q)
      BY DEF Starter
    <2>3. Awaited'
      BY <2>2 DEF Awaited
    <2>4. SilentAtLaunch' /\ NobodyNamed'
      BY DEF SilentAtLaunch, NobodyNamed
    <2>5. \A q \in Pids :
            process[q] = "up" /\ port[q] \notin SlowPorts => port[q] # port[p]
      BY DEF Starter, Awaited, HoldsPort
    <2>6. ServingDaemonIsNamed'
      BY <2>5 DEF ServingDaemonIsNamed
    <2> QED
      BY <2>1, <2>3, <2>4, <2>6
  <1>5. CASE Close(p) \/ HardKill(p)
    BY <1>5, TurnsDies DEF Close, HardKill, Dies
  <1>6. CASE End(p)
    <2> USE <1>6 DEF End, Becomes, TakingTurns
    <2>1. HoldsPort' /\ OpenSocket'
      BY DEF HoldsPort, OpenSocket
    <2>2. \A q \in Pids : Starter(q)' => Starter(q)
      BY DEF Starter
    <2>3. Awaited'
      BY <2>2 DEF Awaited
    <2>4. SilentAtLaunch' /\ NobodyNamed' /\ ServingDaemonIsNamed'
      BY DEF SilentAtLaunch, NobodyNamed, ServingDaemonIsNamed
    <2> QED
      BY <2>1, <2>3, <2>4
  <1> QED
    BY <1>1, <1>2, <1>3, <1>4, <1>5, <1>6, <1>7 DEF DaemonStep

\* A step of a command that leaves the daemons and their sockets alone.
LEMMA TurnsQuiet ==
  ASSUME TypeOK, TakingTurns, UNCHANGED <<process, port, listener>>,
         \A p \in Pids : Starter(p) => \E c \in Commands : step'[c] = "await" /\ at'[c] = port[p],
         \A c \in Commands :
           step'[c] = "launch" /\ at'[c] \notin SlowPorts => listener[at'[c]] = NoPid,
         \A c \in Commands, p \in Pids :
           step'[c] \in {"forget", "remove"} /\ port[p] = at'[c] /\ at'[c] \notin SlowPorts
           => process[p] # "up",
         \A p \in Pids :
           process[p] = "up" /\ port[p] \notin SlowPorts => pidFile'[port[p]] = pidFile[port[p]]
  PROVE  TakingTurns'
  <1> USE DEF TakingTurns
  <1>1. HoldsPort' /\ OpenSocket'
    BY DEF HoldsPort, OpenSocket
  <1>2. \A q \in Pids : Starter(q)' <=> Starter(q)
    BY DEF Starter
  <1>3. Awaited'
    BY <1>2 DEF Awaited
  <1>4. SilentAtLaunch' /\ NobodyNamed' /\ ServingDaemonIsNamed'
    BY DEF SilentAtLaunch, NobodyNamed, ServingDaemonIsNamed
  <1> QED
    BY <1>1, <1>3, <1>4

\* Signals: the only way in which stop touches a daemon.
LEMMA TurnsKill ==
  ASSUME OneOperator, TypeOK, TakingTurns, NEW c \in Commands, Kill(c)
  PROVE  TakingTurns'
  <1> USE DEF TypeOK, Goto
  <1>1. PICK how \in Terminators : Signals(c, how)
    BY KillSignals
  <1>2. /\ step[c] = "kill" /\ UNCHANGED <<port, pidFile, goal, at>>
        /\ step' \in {[step EXCEPT ![c] = "poll"], [step EXCEPT ![c] = "idle"]}
    BY <1>1 DEF Kill, Signals
  <1>3. \A p \in Pids : ~Starter(p)
    BY <1>2 DEF TakingTurns, Awaited, OneOperator
  <1>4. CASE UNCHANGED <<process, listener>>
    BY <1>2, <1>3, <1>4, TurnsQuiet DEF TakingTurns, SilentAtLaunch, NobodyNamed
  <1>5. CASE ~UNCHANGED <<process, listener>>
    <2>1. target[c] \in Pids /\ Terminate(target[c], how)
      BY <1>1, <1>5 DEF Signals, Daemons
    <2>2. CASE Dies(target[c])
      BY <1>2, <2>1, <2>2, TurnsDies DEF Dies
    <2>3. CASE process[target[c]] = "up" /\ Becomes(target[c], "stopping") /\ UNCHANGED listener
      <3> USE <1>2, <2>1, <2>3 DEF Becomes, TakingTurns
      <3>1. HoldsPort' /\ OpenSocket'
        BY DEF HoldsPort, OpenSocket
      <3>2. \A q \in Pids : ~Starter(q)'
        BY <1>3 DEF Starter, HoldsPort
      <3>3. Awaited'
        BY <3>2 DEF Awaited
      <3>4. SilentAtLaunch' /\ NobodyNamed' /\ ServingDaemonIsNamed'
        BY DEF SilentAtLaunch, NobodyNamed, ServingDaemonIsNamed
      <3> QED
        BY <3>1, <3>3, <3>4
    <2> QED
      BY <1>5, <2>1, <2>2, <2>3 DEF Terminate
  <1> QED
    BY <1>4, <1>5

LEMMA TurnsLaunch ==
  ASSUME OneOperator, TypeOK, TakingTurns, NEW c \in Commands, Launch(c)
  PROVE  TakingTurns'
  <1> USE NobodyServes DEF TypeOK, Goto, Becomes, TakingTurns
  <1>1. PICK p \in Pids :
          /\ process[p] = "free"
          /\ process' = [process EXCEPT ![p] = "init"]
          /\ port' = [port EXCEPT ![p] = at[c]]
    BY DEF Launch
  <1>2. /\ step[c] = "launch" /\ step' = [step EXCEPT ![c] = "await"]
        /\ UNCHANGED <<listener, pidFile, goal, at, target>>
    BY DEF Launch
  <1>3. \A q \in Pids : ~Starter(q)
    BY <1>2 DEF Awaited, OneOperator
  <1>4. \A l \in Ports : listener[l] # p
    BY <1>1 DEF OpenSocket
  <1>5. HoldsPort' /\ OpenSocket'
    BY <1>1, <1>2, <1>4 DEF HoldsPort, OpenSocket
  <1>6. \A q \in Pids : Starter(q)' => q = p /\ at[c] \notin SlowPorts
    BY <1>1, <1>2, <1>3 DEF Starter
  <1>7. Awaited'
    BY <1>1, <1>2, <1>6 DEF Awaited, SilentAtLaunch
  <1>8. SilentAtLaunch' /\ ServingDaemonIsNamed'
    BY <1>1, <1>2 DEF SilentAtLaunch, ServingDaemonIsNamed
  <1>9. NobodyNamed'
    BY <1>1, <1>2 DEF NobodyNamed
  <1> QED
    BY <1>5, <1>7, <1>8, <1>9

LEMMA TurnsCommandStep ==
  ASSUME OneOperator, TypeOK, TakingTurns, NEW c \in Commands, CommandStep(c)
  PROVE  TakingTurns'
  <1> USE NobodyServes DEF TypeOK, Goto
  <1>a. \A d \in Commands : d = c
    BY DEF OneOperator
  <1>b. ASSUME step[c] # "await" PROVE \A p \in Pids : ~Starter(p)
    BY <1>a, <1>b DEF TakingTurns, Awaited
  <1>c. Live(at[c]) = {} /\ at[c] \notin SlowPorts
        => \A p \in Pids : port[p] = at[c] => process[p] # "up"
    BY DEF Live, Daemons, TakingTurns, ServingDaemonIsNamed
  <1>1. CASE Begin(c)
    <2>1. /\ step[c] = "idle" /\ step'[c] \in {"check", "look"}
          /\ UNCHANGED <<process, port, listener, pidFile, target>>
      BY <1>1 DEF Begin
    <2> QED
      BY <1>a, <1>b, <2>1, TurnsQuiet
  <1>2. CASE Check(c)
    <2>1. /\ step[c] = "check" /\ (step'[c] = "launch" => ~Answering(at[c]))
          /\ ~Unread(at[c])
          /\ step'[c] \in {"idle", "launch"}
          /\ UNCHANGED <<process, port, listener, pidFile, goal, at, target>>
      BY <1>2 DEF Check
    <2>2. ~Answering(at[c]) /\ at[c] \notin SlowPorts => listener[at[c]] = NoPid
      BY <1>b, <2>1 DEF Answering, Unread, TakingTurns, OpenSocket, Starter
    <2> QED
      BY <1>a, <1>b, <2>1, <2>2, TurnsQuiet
  <1>3. CASE Launch(c)
    BY <1>3, TurnsLaunch
  <1>4. CASE Await(c)
    <2>1. /\ step[c] = "await" /\ step'[c] = "idle"
          /\ UNCHANGED <<process, port, listener, pidFile, goal, at, target>>
          /\ Answering(at[c]) \/ at[c] \in SlowPorts \/ ~StartingUp(at[c])
      BY <1>4 DEF Await
    <2>2. \A p \in Pids : Starter(p) => port[p] = at[c]
      BY <1>a DEF TakingTurns, Awaited
    <2>3. \A p \in Pids : ~Starter(p)
      <3>0. CASE at[c] \in SlowPorts
        BY <2>2, <3>0 DEF Starter
      <3>1. CASE Answering(at[c])
        BY <2>2, <3>1 DEF Answering, TakingTurns, Awaited, Starter
      <3>2. CASE ~StartingUp(at[c])
        BY <2>2, <3>2 DEF StartingUp, Starter
      <3> QED
        BY <2>1, <3>0, <3>1, <3>2
    <2> QED
      BY <1>a, <2>1, <2>3, TurnsQuiet
  <1>5. CASE Look(c)
    <2>1. /\ step[c] = "look" /\ (step'[c] = "forget" => Live(at[c]) = {})
          /\ step'[c] \in {"forget", "kill"}
          /\ UNCHANGED <<process, port, listener, pidFile, goal, at>>
      BY <1>5 DEF Look
    <2> QED
      BY <1>a, <1>b, <1>c, <2>1, TurnsQuiet
  <1>6. CASE Forget(c) \/ Remove(c)
    <2>1. /\ step[c] \in {"forget", "remove"} /\ step'[c] \in {"probe", "check", "idle"}
          /\ pidFile' = [pidFile EXCEPT ![at[c]] = NoPid]
          /\ UNCHANGED <<process, port, listener, goal, at>>
      BY <1>6 DEF Forget, Remove, Success
    <2>2. \A p \in Pids : process[p] = "up" /\ port[p] \notin SlowPorts => port[p] # at[c]
      BY <2>1 DEF TakingTurns, NobodyNamed
    <2> QED
      BY <1>a, <1>b, <2>1, <2>2, TurnsQuiet
  <1>7. CASE Probe(c) \/ Guess(c)
    <2>1. /\ step[c] \in {"probe", "guess"} /\ step'[c] \in {"guess", "check", "idle", "kill"}
          /\ UNCHANGED <<process, port, listener, pidFile, goal, at>>
      BY <1>7 DEF Probe, Guess, Success
    <2> QED
      BY <1>a, <1>b, <2>1, TurnsQuiet
  <1>8. CASE Kill(c)
    BY <1>8, TurnsKill
  <1>9. CASE Poll(c)
    <2>1. /\ step[c] = "poll" /\ (step'[c] = "remove" => Live(at[c]) = {})
          /\ step'[c] \in {"remove", "idle"}
          /\ UNCHANGED <<process, port, listener, pidFile, goal, at>>
      BY <1>9 DEF Poll
    <2> QED
      BY <1>a, <1>b, <1>c, <2>1, TurnsQuiet
  <1> QED
    BY <1>1, <1>2, <1>3, <1>4, <1>5, <1>6, <1>7, <1>8, <1>9 DEF CommandStep

LEMMA TurnsAlways ==
  ASSUME OneOperator
  PROVE  Spec => [](TypeOK /\ TakingTurns)
  <1>1. Init => TypeOK /\ TakingTurns
    BY TypeInit, TurnsInit
  <1>2. TypeOK /\ TakingTurns /\ [Next]_vars => (TypeOK /\ TakingTurns)'
    <2> SUFFICES ASSUME TypeOK, TakingTurns, [Next]_vars PROVE TakingTurns'
      BY TypeNext
    <2>1. CASE UNCHANGED vars
      BY <2>1 DEF vars, TakingTurns, Starter, HoldsPort, OpenSocket, Awaited, SilentAtLaunch,
                  NobodyNamed, ServingDaemonIsNamed
    <2> QED
      BY <2>1, OneOperator, TurnsDaemonStep, TurnsCommandStep DEF Next
  <1> QED
    BY <1>1, <1>2, PTL DEF Spec

\* With one command after the other, the daemon that serves a port is the one its pid file
\* names, whatever crashes, whichever pid is used again and whatever goes wrong on a port
\* whose clients do not wait for their daemon.
THEOREM ThePidFileNamesTheDaemon ==
  ASSUME OneOperator
  PROVE  Spec => []ServingDaemonIsNamed
  <1>1. TakingTurns => ServingDaemonIsNamed
    BY DEF TakingTurns
  <1> QED
    BY <1>1, TurnsAlways, OneOperator, PTL

\* And a daemon of such a port that has started its pool finds it still free when it binds.
THEOREM ADaemonFindsItsPortFree ==
  ASSUME OneOperator
  PROVE  Spec => StartFindsPortFree
  <1>1. TypeOK /\ TakingTurns
        => \A p \in Pids : Bind(p) /\ port[p] \notin SlowPorts => listener[port[p]] = NoPid
    BY DEF TypeOK, TakingTurns, Bind, Starter, Awaited, OpenSocket
  <1>2. TypeOK /\ TakingTurns /\ [Next]_vars
        => [\A p \in Pids : Bind(p) /\ port[p] \notin SlowPorts => listener[port[p]] = NoPid]_vars
    BY <1>1
  <1> QED
    BY <1>2, TurnsAlways, OneOperator, PTL DEF Spec, StartFindsPortFree

----------------------------------------------------------------------------
(* stop, where it kills outright *)

\* taskkill /F: what stop waits for is gone before it asks the first time.
TargetIsGone == \A c \in Commands : step[c] \in {"poll", "remove"} => target[c] \notin Daemons

\* Only a command makes a daemon.
LEMMA NoDaemonFromNothing ==
  ASSUME TypeOK, NEW p \in Pids, DaemonStep(p)
  PROVE  Daemons' \subseteq Daemons /\ UNCHANGED command
  BY DEF DaemonStep, PoolStarts, Bind, WritePid, Unlink, Close, End, HardKill, Dies, Becomes,
         Daemons, TypeOK

LEMMA GoneStaysGone ==
  ASSUME OneOperator, Terminators \subseteq {"taskkill"}, TypeOK, TargetIsGone, [Next]_vars
  PROVE  TargetIsGone'
  <1> USE DEF TypeOK, Goto
  <1>1. CASE UNCHANGED vars
    BY <1>1 DEF vars, TargetIsGone, Daemons
  <1>2. ASSUME NEW p \in Pids, DaemonStep(p) PROVE TargetIsGone'
    BY <1>2, NoDaemonFromNothing DEF TargetIsGone
  <1>3. ASSUME NEW c \in Commands, CommandStep(c) PROVE TargetIsGone'
    <2>0. \A d \in Commands : d = c
      BY OneOperator DEF OneOperator
    <2>1. CASE Poll(c)
      BY <2>0, <2>1 DEF Poll, Drops, TargetIsGone, Daemons
    <2>2. CASE Kill(c)
      <3>1. CASE target[c] \notin Daemons
        <4>1. process' = process /\ target' = target
          BY <2>2, <3>1 DEF Kill
        <4> QED
          BY <2>0, <3>1, <4>1 DEF TargetIsGone, Daemons
      <3>2. CASE target[c] \in Daemons
        <4>1. target[c] \in Pids /\ target' = target /\ Dies(target[c])
          BY <2>2, <3>2 DEF Kill, Terminate, Daemons
        <4>2. process'[target[c]] = "free"
          BY <4>1 DEF Dies, Becomes
        <4> QED
          BY <2>0, <4>1, <4>2 DEF TargetIsGone, Daemons
      <3> QED
        BY <3>1, <3>2
    <2>3. CASE ~Poll(c) /\ ~Kill(c)
      <3>1. step'[c] \notin {"poll", "remove"}
        BY <1>3, <2>3 DEF CommandStep, Begin, Check, Launch, Await, Look, Forget, Probe, Guess,
                          Remove, Success
      <3> QED
        BY <2>0, <3>1 DEF TargetIsGone
    <2> QED
      BY <2>1, <2>2, <2>3
  <1> QED
    BY <1>1, <1>2, <1>3 DEF Next

\* On Windows, with one command after the other, a stop that says "stopped" is right, also
\* about a pid it has guessed or that somebody else ended.  SIGTERM breaks it (run
\* daemon_stop), and so does a second operator, whose start may use the pid again.
THEOREM TaskkillStopIsHonest ==
  ASSUME OneOperator, Terminators \subseteq {"taskkill"}
  PROVE  Spec => StoppedIsGone
  <1>1. Init => TargetIsGone
    BY DEF Init, TargetIsGone
  <1>2. TypeOK /\ TargetIsGone /\ [Next]_vars => TargetIsGone'
    BY OneOperator, Terminators \subseteq {"taskkill"}, GoneStaysGone
  <1>3. Spec => []TargetIsGone
    BY <1>1, <1>2, TypeCorrect, PTL DEF Spec
  <1>4. TypeOK /\ TargetIsGone /\ [Next]_vars
        => [\A c \in Commands : Remove(c) => target[c] \notin Daemons]_vars
    BY DEF TargetIsGone, Remove
  <1> QED
    BY <1>3, <1>4, TypeCorrect, PTL DEF Spec, StoppedIsGone
=============================================================================
