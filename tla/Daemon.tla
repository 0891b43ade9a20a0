------------------------------ MODULE Daemon ------------------------------
(* The life of daemon processes: run_daemon (src/claude_pool/daemon.py), the *)
(* auto-start of ClaudePoolClient (client.py) and the start, stop and        *)
(* restart commands of scripts/daemon_ctl.py.                                *)
(*                                                                           *)
(* Everything here is a process of its own: a step is one system call or     *)
(* request another process can observe.  What the processes share is the     *)
(* port, one pid file per port and the process table, in which pids are used *)
(* again.  A daemon's pool and jobs (modules Pool, JobStore) are reduced to  *)
(* the states "init" and "closed".  A command's deadlines may expire at any  *)
(* time; a daemon that listens and runs its loop answers /health in time.    *)
(* No turn of the loop lies between the unlink of the pid file and the close *)
(* of the socket: whoever connects in between is reset by the close.         *)
EXTENDS Integers, FiniteSets

CONSTANTS
  Pids,       \* process identities, reused
  NoPid,
  Ports,
  Commands,   \* daemon_ctl and auto-starting clients running at the same time
  Terminators, \* how _terminate works: "taskkill" (/F, Windows) or "SIGTERM"
  HardKills,  \* a daemon may be killed or crash without reaching its finally
  SlowPorts   \* ports whose daemon may take longer to start than its client waits

ASSUME DaemonAssumption ==
  /\ IsFiniteSet(Pids) /\ NoPid \notin Pids
  /\ Terminators \subseteq {"taskkill", "SIGTERM"} /\ HardKills \in BOOLEAN
  /\ SlowPorts \subseteq Ports

VARIABLES
  process,   \* how far run_daemon is; "free" when the pid is not in use
  port,      \* CLAUDE_POOL_PORT of the process
  listener,  \* which process has bound a port
  pidFile,   \* daemon-<port>.pid; NoPid when there is none
  step,      \* where a command is
  goal,      \* which command it is
  at,        \* its port
  target     \* the pid stop() has settled on

vars == <<process, port, listener, pidFile, step, goal, at, target>>
command == <<step, goal, at, target>>

Stages == {"free", "init", "bind", "bound", "up", "stopping", "closing", "closed"}
Steps  == {"idle", "check", "launch", "await",
           "look", "forget", "probe", "guess", "kill", "poll", "remove"}
Goals  == {"start", "stop", "restart"}

\* Everything keeps its type, and a stop that signals has a pid to signal.
TypeOK ==
  /\ process \in [Pids -> Stages] /\ port \in [Pids -> Ports]
  /\ listener \in [Ports -> Pids \cup {NoPid}] /\ pidFile \in [Ports -> Pids \cup {NoPid}]
  /\ step \in [Commands -> Steps] /\ goal \in [Commands -> Goals]
  /\ at \in [Commands -> Ports] /\ target \in [Commands -> Pids \cup {NoPid}]
  /\ \A c \in Commands : step[c] \in {"kill", "poll", "remove"} => target[c] \in Pids

----------------------------------------------------------------------------
(* run_daemon *)

Becomes(p, stage) == process' = [process EXCEPT ![p] = stage]

\* The OS closes the socket of a process that ends.
Unbound(p) == [l \in Ports |-> IF listener[l] = p THEN NoPid ELSE listener[l]]

\* pool.start() spawns min_workers; if one spawn fails the finally follows.
PoolStarts(p) ==
  /\ process[p] = "init"
  /\ Becomes(p, "bind") \/ Becomes(p, "stopping")
  /\ UNCHANGED <<port, listener, pidFile, command>>

\* site.start() raises when the port is taken.
Bind(p) ==
  /\ process[p] = "bind"
  /\ IF listener[port[p]] = NoPid
       THEN listener' = [listener EXCEPT ![port[p]] = p] /\ Becomes(p, "bound")
       ELSE Becomes(p, "stopping") /\ UNCHANGED listener
  /\ UNCHANGED <<port, pidFile, command>>

\* The first request is read after this: the loop was not free before.
WritePid(p) ==
  /\ process[p] = "bound"
  /\ Becomes(p, "up")
  /\ pidFile' = [pidFile EXCEPT ![port[p]] = p]
  /\ UNCHANGED <<port, listener, command>>

\* The finally unlinks the pid file first, whether it wrote it or not.
Unlink(p) ==
  /\ process[p] = "stopping"
  /\ Becomes(p, "closing")
  /\ pidFile' = [pidFile EXCEPT ![port[p]] = NoPid]
  /\ UNCHANGED <<port, listener, command>>

\* Mutant: a daemon that never bound has nothing to clean up.
CloseOwned(p) ==
  /\ process[p] = "closing" /\ listener[port[p]] = p
  /\ Becomes(p, "closed")
  /\ listener' = Unbound(p)
  /\ UNCHANGED <<port, pidFile, command>>

\* runner.cleanup() closes the socket, then waits for the requests in flight.
Close(p) ==
  /\ process[p] = "closing"
  /\ Becomes(p, "closed")
  /\ listener' = Unbound(p)
  /\ UNCHANGED <<port, pidFile, command>>

\* Mutant: the pid file is unlinked at the very end.
EndUnlinking(p) ==
  /\ process[p] = "closed"
  /\ Becomes(p, "free")
  /\ pidFile' = [pidFile EXCEPT ![port[p]] = NoPid]
  /\ UNCHANGED <<port, listener, command>>

\* jobs.shutdown() and pool.stop() are over.
End(p) ==
  /\ process[p] = "closed"
  /\ Becomes(p, "free")
  /\ UNCHANGED <<port, listener, pidFile, command>>

Dies(p) == Becomes(p, "free") /\ listener' = Unbound(p)

HardKill(p) ==
  /\ HardKills /\ process[p] # "free"
  /\ Dies(p)
  /\ UNCHANGED <<port, pidFile, command>>

----------------------------------------------------------------------------
(* The client's auto-start *)

\* Mutant: a daemon that is shutting down is not taken for one that serves.
AnsweringUpOnly(l) == \E p \in Pids : listener[l] = p /\ process[p] = "up"

\* A listening daemon answers /health as long as its loop runs.
Answering(l) == \E p \in Pids : listener[l] = p /\ process[p] \in {"up", "stopping"}

\* A connection made now waits in the backlog, to be answered once the daemon is up or
\* reset when it closes its socket.
Unread(l) == \E p \in Pids : listener[l] = p /\ process[p] \in {"bound", "closing"}

\* A daemon that is starting, or has failed to and is about to say so.
StartingUp(l) ==
  \E p \in Pids : port[p] = l /\ process[p] \in {"init", "bind", "bound", "stopping"}

Goto(c, next) == step' = [step EXCEPT ![c] = next]

Begin(c) ==
  /\ step[c] = "idle"
  /\ \E g \in Goals, l \in Ports :
       /\ goal' = [goal EXCEPT ![c] = g]
       /\ at' = [at EXCEPT ![c] = l]
       /\ Goto(c, IF g = "start" THEN "check" ELSE "look")
  /\ UNCHANGED <<process, port, listener, pidFile, target>>

Check(c) ==
  /\ step[c] = "check" /\ ~Unread(at[c])
  /\ Goto(c, IF Answering(at[c]) THEN "idle" ELSE "launch")
  /\ UNCHANGED <<process, port, listener, pidFile, goal, at, target>>

Launch(c) ==
  /\ step[c] = "launch"
  /\ \E p \in Pids :
       /\ process[p] = "free"
       /\ Becomes(p, "init")
       /\ port' = [port EXCEPT ![p] = at[c]]
  /\ Goto(c, "await")
  /\ UNCHANGED <<listener, pidFile, goal, at, target>>

\* _wait_until_healthy: any daemon's answer will do.
Await(c) ==
  /\ step[c] = "await"
  /\ Answering(at[c]) \/ at[c] \in SlowPorts \/ ~StartingUp(at[c])
  /\ Goto(c, "idle")
  /\ UNCHANGED <<process, port, listener, pidFile, goal, at, target>>

----------------------------------------------------------------------------
(* daemon_ctl stop *)

Daemons == {p \in Pids : process[p] # "free"}

\* Mutant: the pid file is believed.
LiveUnverified(l) == {pidFile[l]}

\* _live_daemon_pid: the pid in the file, if it is the pid of some daemon.
Live(l) == {pidFile[l]} \cap Daemons

\* stop() is over, and forgets the pid.
Drops(c) == target' = [target EXCEPT ![c] = NoPid]

\* stop() returns 0; restart() goes on with start().
Success(c) == Goto(c, IF goal[c] = "restart" THEN "check" ELSE "idle")

Look(c) ==
  /\ step[c] = "look"
  /\ IF Live(at[c]) = {}
       THEN Goto(c, "forget") /\ UNCHANGED target
       ELSE Goto(c, "kill") /\ target' = [target EXCEPT ![c] = pidFile[at[c]]]
  /\ UNCHANGED <<process, port, listener, pidFile, goal, at>>

Forget(c) ==
  /\ step[c] = "forget"
  /\ Goto(c, "probe")
  /\ pidFile' = [pidFile EXCEPT ![at[c]] = NoPid]
  /\ UNCHANGED <<process, port, listener, goal, at, target>>

Probe(c) ==
  /\ step[c] = "probe" /\ ~Unread(at[c])
  /\ IF Answering(at[c]) THEN Goto(c, "guess") ELSE Success(c)
  /\ UNCHANGED <<process, port, listener, pidFile, goal, at, target>>

\* Without a pid file: the only daemon there is, whatever port it serves.
Guess(c) ==
  /\ step[c] = "guess"
  /\ IF Cardinality(Daemons) = 1
       THEN Goto(c, "kill") /\ \E p \in Daemons : target' = [target EXCEPT ![c] = p]
       ELSE Goto(c, "idle") /\ UNCHANGED target
  /\ UNCHANGED <<process, port, listener, pidFile, goal, at>>

\* The signal handler is installed once the daemon is up.
HandlesSignal(p) ==
  process[p] = "up" \/ (process[p] \in {"stopping", "closing"} /\ listener[port[p]] = p)

\* SIGTERM ends a daemon at once when it has no handler; whether one that is
\* "closed" has one is not recorded.  A second SIGTERM changes nothing.
Terminate(p, how) ==
  \/ /\ how = "taskkill" \/ ~HandlesSignal(p)
     /\ Dies(p)
  \/ /\ how = "SIGTERM" /\ process[p] = "up"
     /\ Becomes(p, "stopping") /\ UNCHANGED listener
  \/ /\ how = "SIGTERM" /\ process[p] # "up" /\ (HandlesSignal(p) \/ process[p] = "closed")
     /\ UNCHANGED <<process, listener>>

\* The target may be gone by now: os.kill then raises out of stop().
Kill(c) ==
  /\ step[c] = "kill"
  /\ \E how \in Terminators :
       \/ /\ target[c] \in Daemons
          /\ Terminate(target[c], how)
          /\ Goto(c, "poll") /\ UNCHANGED target
       \/ /\ target[c] \notin Daemons /\ how = "taskkill"
          /\ Goto(c, "poll") /\ UNCHANGED <<process, listener, target>>
       \/ /\ target[c] \notin Daemons /\ how = "SIGTERM"
          /\ Goto(c, "idle") /\ Drops(c) /\ UNCHANGED <<process, listener>>
  /\ UNCHANGED <<port, pidFile, goal, at>>

\* Ask again until there is none; after STOP_TIMEOUT_SEC fail.
Poll(c) ==
  /\ step[c] = "poll"
  /\ \/ Live(at[c]) = {} /\ Goto(c, "remove") /\ UNCHANGED target
     \/ Live(at[c]) # {} /\ Goto(c, "idle") /\ Drops(c)
  /\ UNCHANGED <<process, port, listener, pidFile, goal, at>>

Remove(c) ==
  /\ step[c] = "remove"
  /\ Success(c) /\ Drops(c)
  /\ pidFile' = [pidFile EXCEPT ![at[c]] = NoPid]
  /\ UNCHANGED <<process, port, listener, goal, at>>

----------------------------------------------------------------------------
(* Specification *)

Init ==
  /\ process = [p \in Pids |-> "free"] /\ port \in [Pids -> Ports]
  /\ \A p, q \in Pids : port[p] = port[q]
  /\ listener = [l \in Ports |-> NoPid] /\ pidFile = [l \in Ports |-> NoPid]
  /\ step = [c \in Commands |-> "idle"] /\ goal = [c \in Commands |-> "start"]
  /\ at \in [Commands -> Ports] /\ target = [c \in Commands |-> NoPid]

DaemonStep(p) ==
  \/ PoolStarts(p) \/ Bind(p) \/ WritePid(p) \/ Unlink(p) \/ Close(p) \/ End(p)
  \/ HardKill(p)

CommandStep(c) ==
  \/ Begin(c) \/ Check(c) \/ Launch(c) \/ Await(c)
  \/ Look(c) \/ Forget(c) \/ Probe(c) \/ Guess(c) \/ Kill(c) \/ Poll(c) \/ Remove(c)

Next == (\E p \in Pids : DaemonStep(p)) \/ (\E c \in Commands : CommandStep(c))

Spec == Init /\ [][Next]_vars

\* A daemon's own steps are never withheld: spawns, binding and the shutdown all
\* end.  Nobody has to type a command.
Fairness ==
  \A p \in Pids :
    WF_vars(PoolStarts(p) \/ Bind(p) \/ WritePid(p) \/ Unlink(p) \/ Close(p) \/ End(p))

FairSpec == Spec /\ Fairness

----------------------------------------------------------------------------
(* Properties *)

\* daemon_ctl.py:47-57, README.md:183: stop finds the daemon that serves a port by
\* its pid file.  It does as long as commands follow each other and those for that
\* port wait for their daemon: no daemon on its way out takes the file of the one after
\* it, and what goes wrong on a slow port stays there.
ServingDaemonIsNamed ==
  \A p \in Pids : process[p] = "up" /\ port[p] \notin SlowPorts => pidFile[port[p]] = p

\* daemon_ctl.py:126-127: start launches a daemon only where none is, so the port it
\* saw silent is still free when the daemon has started its pool and binds: also after a
\* stop, a crash or a failed start, but not when two starts come at once.
StartFindsPortFree ==
  [][\A p \in Pids : Bind(p) /\ port[p] \notin SlowPorts => listener[port[p]] = NoPid]_vars

\* daemon.py:31-51: a daemon that starts serves or is gone, and one that is told to
\* stop or could not start is gone in the end, on every path through the finally.
DaemonSettles ==
  \A p \in Pids : process[p] \in {"init", "stopping"} ~> process[p] \in {"up", "free"}

\* README.md:11, daemon_ctl.py:161: when stop says "stopped", the daemon has ended,
\* and its workers with it.
StoppedIsGone == [][\A c \in Commands : Remove(c) => target[c] \notin Daemons]_vars
=============================================================================
