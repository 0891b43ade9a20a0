# TLA+ models of the claude worker pool

The daemon in `src/src/claude_pool` keeps a few `claude` CLI processes started in
advance, lends each one to exactly one request, kills it afterwards and starts
another. It is one asyncio loop: nothing runs in parallel, but every `await` that
suspends lets every other request, the scale-down sweep and the shutdown run. Outside
the loop, daemons, clients and the control script are processes that share a port and a
pid file. The models are about those interleavings.

## The system

| component | state | operations | correct when |
|---|---|---|---|
| `pool.WorkerPool` | `_idle`, `_total`, `_waiting`, `_pending_grows`, `_last_spawn_error`, `_stopped`, background tasks, a condition variable | `start`, `stop`, `acquire`, `release`, `_grow_by_one`, `_scale_down_loop` | bounded number of processes, exact count, one owner per worker, no orphans, no stranded waiter, `stop()` leaves nothing |
| `worker.Worker` | a process and its `returncode` | `start`, `run`, `kill`, `is_alive` | one prompt per process; a handed-out process ends |
| `runner.execute` | `last_error` on the pool | acquire, run, shielded release, `_note` | the release runs however the call ends; `last_error` is the latest failure |
| `jobs.JobStore` | `_jobs`, `_tasks` | `submit`, `list`, `get`, `cancel`, `shutdown`, `_reap` | results are final, running jobs are kept, an answered DELETE is a fact, every job ends |
| `server` | none of its own | HTTP handlers that call `execute`, `submit`, `cancel` | a caller learns the kind of its failure and whether to retry, the same by both ways |
| `daemon` | pid file | start: pool, app, socket, pid file; stop: pid file, HTTP, jobs, pool | jobs stop before the pool |
| `client` | a socket or a poll loop per call | auto-start, `generate`, `submit`, `wait` | never two daemons; a caller hears the daemon before its own timeouts, and its result is still there when it polls |
| `scripts/daemon_ctl.py` | pid file, the daemon found on the port | start, stop, restart | never the wrong one stopped |
| `errors` | none | `classify` | retryable only what may succeed later |
| `config`, `winjob`, `apidocs`, `scripts` | none | parsing, Windows job object, documentation, measurements | |

How they interact: a handler of `server` awaits `execute` (for `/generate`) or starts
a task that does (for `/jobs`). `execute` acquires a worker from the pool, awaits
`worker.run`, and hands the worker to `pool.release_in_background` under `shield`.
`release` kills it, uncounts it and may spawn a replacement, whose arrival notifies a
waiter. The sweep takes idle workers out of the pool; `stop()` cancels the sweep,
drains background tasks, takes the idle workers and kills them. DELETE and shutdown
cancel job tasks, which is how a cancellation gets into `execute`.

What is hard: `_cond` is held while a process is spawned but not while one is killed;
counts change after the kill they stand for; a cancellation may hit any `await`,
including the one on a release; `returncode` lags behind the process; several spawners
(start, grows, releases) each look at a count that another one is about to change.
`PROJECT.json` lists these hazards line by line.

## Modules

**`Pool`** models `pool.py` whole, with the suspension points of `worker.py` and
`runner.py`. A step is the code between two awaits that can suspend.

| model | code |
|---|---|
| `proc` | the process: `starting` (in `create_subprocess_exec`), `alive`, `exiting` (ended, `returncode` still None), `dead`; `none` once no object refers to it |
| `idle`, `total`, `waiting`, `pendingGrows`, `spawnError` | the fields of the same name |
| `lock` | which spawner is suspended holding `_cond`; other sections under the lock are one step |
| `pc`, `worker` | where each `execute` is suspended and the worker it holds |
| `releasing` | releases between their kill and their decrement |
| `victim`, `toKill`, `doomed` | the loops of the sweep and of `stop()` |
| `life`, `snapshot` | `start`, serving, the stages of `stop()` and the tasks it waits for |
| `Enter`, `Wake`, `Turn`, `Unwind`, `GiveUp` | `_acquire`, its loop body, and the two ways out of `wait_for` |
| `RunTimeout`, `RunEnds`, `Cancel`, `Release` | `run` and the finally of `execute`, `release` |
| `Start`, `Grow`, `SpawnOk`, `SpawnFail` | the three users of `_spawn_and_add_idle_locked` |
| `Sweep`, `SweepNext` | `_scale_down_loop` |
| `Stop` to `StopNext` | `stop`, one action per await |

**`PoolRefusals`** is `Pool` with a history variable: `seen`, the callers inside `wait()` that
were there when a spawn failed. `RefusalIsFresh` needs it, for the code keeps one
`_last_spawn_error` for all callers and until a spawn succeeds.

**`JobStore`** models `jobs.py`. A job's task runs `execute`, of which it keeps the
places where the task can be cancelled; `store` is `_jobs`; `outcome` is what `_run` will
report; `cli` is the process the job has acquired, which lives on in a background release
after the task has been torn away from it. `cancel()` and the `CancelledError` it raises
in `run()` are two steps (`CancelTasks`, then `Struck`): the worker may end and the
release may begin in between. `finished_at` comes from `time.time()`, which may be set
back, so `_reap` is a choice among the sets it may drop (`Droppable`): finished jobs only,
all of them or enough to meet `max_jobs`.

**`ResultStore`** is what the job store promises, without tasks and workers: each job is
absent, running, has one final result, or is gone with it; finished jobs make room for a
new one, running ones need not; a DELETE is answered about a job that has its result.
`JobStore` implements it (`KeepsResults`).

**`Service`** composes them as `run_daemon` does: `Pool` with some of its requests being
jobs, the store, DELETEs, and the finally of `run_daemon` (`Shutdown`, `StopPool`). Its
actions are the pool's, with what each does to the jobs (`Follow`), and the handlers of
`/generate` and `/jobs`. `Store == INSTANCE JobStore WITH ...` reads `JobStore`'s state off
the pool's (`Task`, `Outcome`, `CliOf`), and `ServesJobs` says that the composition
implements `JobStore`: its reduced pool is an honest one.

**`Deadlines`** adds lengths to the timeouts. Time is a number of units, `Tick` lets one
pass and waits for whatever is due. One caller tries a prompt several times, by
`generate()` with a timeout, by `generate()` without (then the client counts on 120 seconds
and the daemon on its `default_timeout_sec`: `ClientTimeout`, `RunTimeout`) or by
`submit()` and `wait()`; each try has the caller's side (`call`, `age`,
`nap`) and the daemon's (`run`, `spent`), which goes on without its caller because aiohttp
does not cancel a handler whose client has left.

**`Daemon`** models processes instead of tasks: `run_daemon`, the auto-start of
`ClaudePoolClient` and the commands of `daemon_ctl`. A step is one system call or request
that another process can observe.

| model | code |
|---|---|
| `process` | how far `run_daemon` is: `init` (pool starting), `bind`, `bound` (no pid file yet), `up`, `stopping` (at the finally), `closing` (pid file unlinked), `closed` (socket closed, jobs and pool stopping); `free` when the pid is not in use |
| `port`, `listener`, `pidFile` | `CLAUDE_POOL_PORT`, the bound sockets, `daemon-<port>.pid` |
| `step`, `goal`, `at`, `target` | where a command is, which command, for which port, the pid it has settled on |
| `PoolStarts` to `End` | `run_daemon` line by line, every failure leading to the finally |
| `Check`, `Launch`, `Await` | `ClaudePoolClient.__init__` |
| `Look` to `Remove` | `stop`, then `start` when the command is `restart` |

**`Gateway`** models what comes out: the door (host check, then body), `_parse_stream` as a
fold over the lines of a run, `classify`, the results of `execute` with the order of
`_note` and the release, and the two ways to an exception of the client, by a response of
`/generate` or by a job's record (`Record` is `Job.to_dict`, `WaitError` what `wait()`
makes of it). `FailureKinds` is the table that `apidocs.py` documents. The pool is reduced
to "worker" or "no worker". A request's message is the request itself, so `lastError`
names the request that failed.

How they fit: `Service` is the composition of `Pool` and `JobStore`. `Gateway` and
`Deadlines` each keep only the states of `execute` in which their own question is decided,
and `Daemon` runs all of them between `up` and `closed`.

**`WorkerLease`** is what the pool promises, without its machinery: each worker is
absent, ready, lent or retired, its process runs or has ended, and each borrower has one
worker or none. `Provide` needs room, counted in workers and not in `_total`; `Lend`
takes a ready worker; `GiveBack` retires it for good; `Forget` needs its process to have
ended. `Pool` implements it with `Stage` as the refinement mapping: a worker is ready in
`_idle`, lent while a request runs on it, retired from then on or once a sweep or
`stop()` has taken it, absent again when the release, the sweep or `stop()` uncounts it.
A spawn becomes visible when it lands. Steps that only move waiters, grows or the lock
change nothing here.

**`PoolProofs`**, **`PoolWaits`** (which extends it) and **`PoolLease`**,
**`JobStoreProofs`**, **`DeadlinesProofs`**, **`DaemonProofs`**, **`GatewayProofs`** and
**`ServiceProofs`** (which extends `Service` and `PoolWaits`) hold the theorems. The `MC` modules give TLC symmetry sets; each
`.cfg` gives the constants. Operators introduced by "Mutant:" are plausible bugs of the
definition that follows; the specification does not use them, they show that a property
can fail.

### Abstractions

- The idle deque and the wait queue are sets: a choice of an element stands for any
  order. Safety proved of any order holds of FIFO.
- Clocks are nondeterministic: a timeout may expire at any step and any idle worker
  may be expired at a sweep. Only `Deadlines` counts time; there a timeout fires in the
  unit in which it is due, and a release, a poll's answer and a turn of the event loop
  take no longer than a bound (`ReleaseTime`, `Latency`), nor does a waiter whose timeout
  is over to get the lock back, which a spawn may hold (`LockTime`).
- asyncio (condition variable, child watcher, cancellation) is external code,
  modelled from its use. The one version difference that matters, whether a
  cancelled `wait()` passes its notification on, is the constant `RenotifyOnCancel`
  (TRUE from Python 3.13). A cancelled `create_subprocess_exec` kills its child.
  That `wait_for` may lose a result which is ready when it is cancelled (fixed in
  Python 3.12) is not modelled.
- A release task that has not made its first step is merged with its first step.
- aiohttp does not cancel handlers on disconnect by default, so a cancelled
  `/generate` comes from the cleanup at shutdown; `Cancel` is enabled at any time and
  covers both.
- In `JobStore` a job is cancelled only after its task has run once: the id reaches a
  client in a response sent later than that. So the branch of `cancel()` for a job
  without task and result is unreachable over HTTP.
- `Daemon`: a listening daemon answers `/health` from the moment the pid file is written
  until it is unlinked: the loop is not free between the bind and the one, nor between the
  other and the close of the socket, so a connection made then (`Unread`) waits in the
  backlog and is answered or reset afterwards. A client
  gives up only when no daemon is on the way; on a port of `SlowPorts` it may also give up on
  one that is still starting its pool. `goal` and a new
  `at` are free choices of the operator. Whether a daemon that is already closing its
  pool still has its signal handler depends on asyncio: both are possible.
- `Gateway`: lines are told apart by what the code reads: a result that failed, with a
  status, a result that succeeded, and anything else with its error code. The time that
  a caller is cancelled is free. An exception other than a timeout and `WorkerError`
  (`Raises`) happens when a line of output is JSON but no object. A body is a prompt,
  malformed (400) or unreadable: what `request.json()` or `float()` fails on with an
  exception nobody catches, such as bytes that are not UTF-8 or an integer no float can
  hold (500). That aiohttp refuses a body of more than a megabyte (413) is left out.
- `Service`: a job's end is in the step in which its `execute` returns or raises, for
  `_run` awaits it directly. While `jobs.shutdown()` runs, a `/generate` that aiohttp has
  not cancelled may go on.
- `min_workers <= max_workers` is an assumption: `PoolConfig` does not check it.

## Runs

| run | environment | shows |
|---|---|---|
| `pool_safety` | everything at once | bounds, counts, ownership, no orphans, clean stop; the pool implements `WorkerLease`; an error that stays recorded refuses nobody who came after it without a failure of his own time |
| `pool_live` | everything at once, fair | every request is answered, every handed-out worker ends, `stop()` returns |
| `service` | two jobs and a `/generate` on two workers, DELETEs, shutdown; no failing spawns, no drain, Python 3.13 | the composition implements `JobStore`; no stranded waiter; the drain of `stop()` reaps every job's worker; no worker is left behind |
| `jobs_store` | one DELETE at a time, fair | the store implements `ResultStore`; a DELETE's answer is a fact; every job ends |
| `daemon` | two ports, on one of which clients give up on slow starts, one command after the other, crashes, pids used again, fair | on the other port the pid file names the daemon that serves and a start finds the port free; every daemon comes up or ends |
| `gateway` | two requests, every request the door may meet, every output of at most two lines | honest retry flags, the same error by both ways, the documents list every failure, failures reach `/health` |
| `deadlines` | two tries, a grace that covers the daemon's waits but not its longer default, results kept longer than a poll takes | the caller hears the daemon wherever the grace fits, a retry runs alone unless the earlier try was abandoned, `wait()` ends in time and finds its result |
| `pool_stop_leak`, `pool_drain_race`, `jobs_double_delete`, `daemon_stop`, `deadlines_socket` | the smallest that shows it | the findings below |

Bounds. Three requests are one more than two that compete, so that a waiter, a runner
and a release overlap. `Workers` has one element more than `MaxWorkers`, so
`ProcessesWithinMax` is not true for lack of identities; identities are recycled, so a
run may use any number of processes one after the other. The liveness run has one
worker for two requests: the second depends on what the first does with it. `GrowBound`
stops new arrivals while that many grow tasks queue for the lock; `_pending_grows` has
no bound in the code because cancelled callers leave their grows behind. It is at least
the number of requests, so every caller may have scheduled a grow. Three jobs against a
`MaxJobs` of one make the store exceed, meet and undercut its cap. Three pids for two
ports let an old daemon close while its successor and another port's daemon run; on the
slow port a daemon may lose its pid file, which is the only way to a stop that guesses. Two
lines are the shortest output with a code before the result and with a line after it;
two requests are enough for one note to follow another. In `service` two jobs and a
`/generate` compete for two workers, with one replacement kept warm (`MinWorkers` 1) and
one grown on demand, and a `MaxJobs` of one drops the first finished job.
A sweep there has one victim at a time, so `StopKillsTheRest` holds; `pool_stop_leak` has the
sweep with two. `NoStrandedWaiter` holds there because spawns succeed and nothing drains; a
failing spawn breaks it (see Findings), a drain does in `pool_drain_race`, and on
Python 3.11 and 3.12 a notified waiter that is cancelled takes its wake-up with it.
In `deadlines`
two tries are a try and its retry, and the lengths are chosen so that every timeout is due
before and after every other somewhere: a run of three units, or of five by the daemon's
default where the client counts on three, against a deadline of three and a poll of two;
the theorems drop the lengths. Symmetry is used in safety runs only.

Fairness. The event loop runs every ready callback, so each handler step is weakly fair.
`asyncio.Lock` serves its waiters in FIFO order, so a step that needs the lock and finds
it free again and again happens: strong fairness. The kernel ends a killed process and
asyncio reaps it; `acquire_timeout_sec`, `timeout_sec` and the drain timeout expire. In
`Daemon` only the daemons' own steps are fair: spawns, binding and the shutdown end.
`Gateway`, `Service` and `Deadlines` have no liveness property; in `Deadlines` "in time"
is a bound on `age`, which safety can state. Nothing forces a request to arrive, a process
to end by itself, a caller to be cancelled, a sweep to find anything or the daemon to
stop.

## Findings

- **`stop()` during a sweep** (`pool_stop_leak`). The sweep has taken two workers out
  of `_idle` and awaits the first kill when `stop()` cancels it. The second is in no
  list: nobody kills it. On Windows the job object does when the daemon exits.
- **The drain race** (`pool_drain_race`). A request that arrives while the last worker
  is being swept still sees `_total = max_workers`, schedules no grow and waits at a
  pool that is empty a moment later.
- **Two DELETEs of a job** (`jobs_double_delete`). The second cancels the task out of
  its await on the release; both answer while the worker is still running.
- **stop returns early** (`daemon_stop`). A daemon that gets SIGTERM unlinks its pid file
  first; `stop` asks the pid file whether the daemon is gone, reports "stopped" and
  returns while the daemon, which answers nobody any more, finishes its handlers, its jobs
  and its workers. On Windows `taskkill /F` hides this.
- **generate() does not outlive the daemon** (`deadlines_socket`). Its socket timeout is the
  run's timeout and five seconds, but the daemon may first wait `acquire_timeout_sec` for a
  worker and release one afterwards. The caller gets a raw `TimeoutError` (`ask.py` catches
  `ClaudePoolError` only) while the daemon runs the prompt; a retry runs it a second time.
  A daemon whose `default_timeout_sec` is above 120 does the same to a call without a
  timeout. `GraceMakesTheCommentTrue` proves which grace would do.

Seen while modelling, without a run of their own; the first four come out of the models if
one changes what is said there:

- Two starts at once: both see a silent port and launch a daemon, although starting twice is
  said to be safe (`daemon_ctl.py:126`). The one that cannot bind unlinks the pid file of the
  one that could (`daemon.py:43`). In `MCDaemonStop.cfg`, `Commands = {c1, c2}` and
  `StartFindsPortFree` or `ServingDaemonIsNamed` as the property.
- stop for one port, kill on another: a hard-killed daemon leaves its pid file. When the
  daemon of another port gets that pid, `stop` takes it for its own: it compares the program,
  not the port (`daemon_ctl.py:57`, against `daemon.py:17`). In `MCDaemonStop.cfg`,
  `HardKills = TRUE` and a property that has `Kill(c)` of a live target imply
  `port[target[c]] = at[c]`.
- A failed replacement wakes one waiter, who is refused; the next has nothing left to wake it
  and sits out `acquire_timeout_sec`, against the comment at `pool.py:100`. In
  `MCPoolDrain.cfg`, `SpawnMayFail = TRUE`, `IdleScaleToZero = FALSE` and `NoStrandedWaiter`.
- Traffic does not re-warm: one sequential caller replaces each worker it uses and no more,
  so a pool that has fallen below `min_workers`, by a drain or by idle workers that died,
  stays there, against `README.md:240` and `tests/test_pool.py:142`. `FairSpec` of `Pool`
  with a property that a worker held again and again leads to `total >= MinWorkers`.
- A success is noted after its release, a refused or timed-out request at once: a success
  whose run ended first wipes the failure that came after it from `/health`, although
  `README.md:307` keeps the most recent failure.
- `wait()` that gives up raises kind `timeout`, retryable, while the job goes on: one of the
  two cases that `RetryRunsAlone` has to except (`Abandoned`).
- `client.generate()` and `wait()` get a 404 as kind `unknown`, and `GET /jobs/{id}` is
  documented as "Always 200" (`apidocs.py:102`) although a job that has been trimmed is 404.
- `apidocs.py:145` says "One OpenAPI response per status /generate can return"; the 500 of
  an exception nobody catches is not among them.
- DELETE of a finished job keeps it; `jobs.py:142` says it is forgotten. The keeping is
  probably the intended contract.
- A line of output that is JSON but no object makes `/generate` answer 500 without a
  `kind`, and is not noted; a job reports `worker_failed`. `SameErrorEitherWay` leaves
  this case out.
- The failure table of `README.md:298-303` is what `Gateway` tells, but `README.md:305`
  still says that failures are recognised by their wording.

## Proofs

`PoolProofs` proves, for any finite set of workers, any set of requests and any
configuration with `min_workers <= max_workers`:

- `TypeCorrect`: `Spec => []TypeOK`. The interesting conjunct is
  `pendingGrows \in Nat`: a grow that is cancelled, lands, fails or finds no room
  counts itself out once. It needs `TypeInv`, which adds what the code knows where it
  decrements or kills: while a grow holds the lock the counter is positive
  (`GrowCounted`), a running request has a worker (`RunHasWorker`), a sweep's
  `to_kill` is not empty only while a victim is awaited (`SweepPending`), and
  `start()` holds the lock only while starting (`StartHolds`).
- `WorkersHaveOneOwner`: `Spec => []SoleOwner`. Inductive with `OwnInv`: the six places
  a worker can be are pairwise disjoint (`ListsApart`), two requests hold different
  workers (`HandsApart`), what has an owner has been launched (`OwnedLaunched`, so that
  a spawn cannot land on an owned identity), and launched workers have an owner while
  the pool serves (`Tended`).
- `NoWorkerIsOrphaned`: `Spec => []NoOrphan`, from `Tended`.

- `CountsAreExact` and `NeverMoreThanMax`: `Spec => []CountIsExact` and
  `Spec => []ProcessesWithinMax`. Neither is inductive: what `stop()` leaves behind is in
  no list, so the lists do not determine `_total` any more. What does is the processes:
  `CountInv` says that `_total` is the number of launched workers in every state
  (`Exact`), that whoever holds the lock across a spawn saw `_total < max_workers`
  (`SpawnerRoom`), and that there is one process being started, and only under the lock
  (`OneSpawn`, `SpawnLocked`). While the pool serves, launched and owned workers are
  the same (`Tended`, `OwnedLaunched`), which gives `CountIsExact`.

`PoolWaits` proves the rest of what the runs check of the pool:

- `WaitersAreCounted`: `Spec => []WaitingIsExact`. Callers may be infinitely many, so the
  invariant (`WaitInv`) also says that those who wait are finitely many.
- `StoppedStaysEmpty`: `Spec => []StoppedIsEmpty`. From the last stages of `stop()` on no
  spawn is in flight (`QuietStop`): the drain has waited for it or cancelled it.
- `SweepsSpareTheBusyPool`: `Spec => SweepSparesTheBusyPool`, from `CountInv`: the code's
  `total == len(idle)` means that no request has a worker because `_total` is the number of
  launched workers.
- `StopLosesOnlyTheSweep`: `Spec /\ SweepsEnd => []StopKillsTheRest`, for every configuration.
  `SweepsEnd` says that `stop()` never comes while a sweep has another worker to kill; what it
  would lose then is the run `pool_stop_leak`, and the theorem says that this is all it can
  lose. The invariant (`AliveIsKept`) is that a live process is in a request's hand or on one
  of the lists `_idle`, `to_kill` and `doomed`. `StopKillsAllButTheHeld` names configurations
  in which no sweep has a second worker (`OneAtATime`: no drain and
  `max_workers <= min_workers + 1`), so that `SweepsEnd` need not be assumed.
- `NobodyIsStranded`: `Spec => []NoStrandedWaiter`, under `NothingLost`: spawns do not fail,
  the pool does not drain, `min_workers > 0`, and a cancelled `wait()` passes its notification
  on. Each part is needed: after a failed spawn, in the drain race, or when a cancelled waiter
  keeps its notification, a caller is left with nothing to wake it; without a floor the sweep
  may empty the pool. The induction needs that what is being swept is above the floor
  (`FloorLeft`), so a full pool without idle workers has one in use that will be released,
  and that the idle workers are no more than the notified waiters while anybody is parked
  (`EnoughNotified`), so a notification passed on is never one too few.
- `RefusalsAreFresh`: `RefusalSpec => RefusalIsFresh`. While an error is recorded the pool is
  not full, so whoever parks schedules a grow, and for a caller that has seen no failure one
  is still in flight (`FreshInv`); `pool.py:167` does not refuse anybody then.

`PoolLease` proves the refinement:

- `PoolKeepsLease`: `Spec => KeepsLease`. Initial states correspond; each action is
  shown to be a step of `WorkerLease` or to leave its state unchanged. It needs the
  ownership invariant, so that the stage of a worker is determined by one list
  (`StagesAre`), and `CountInv`, because `Provide` counts workers where the code
  compares `_total`.

`JobStoreProofs` proves, for any finite set of jobs, any callers and any `max_jobs`:

- `TypeCorrect`, `RunningJobsStay` (`RunningNeverDropped`) and `ShutdownIsComplete`
  (`ShutdownEndsJobs`) from one invariant, `JobInv`: a job is running exactly as long as it
  has a task (`Paired`), whoever awaits a release has an outcome to report (`Settled`), a
  DELETE is about a submitted job (`AskedKnown`) and a store that is down has no task
  (`Quiet`).
- `StoreKeepsResults`: `Spec => KeepsResults`. What the store counts, `len(_jobs)`, is the
  running jobs and the kept results, which are disjoint by `Paired`, so what `_reap` drops
  makes the room that `TakeOn` asks for (`RoomIsMade`).
- `OneDeleteIsHonest`: with one DELETE at a time (`OneCaller`), `DeleteAnswersAfterKill`. The
  additional invariant is that a running worker has a task that will see its end, and that
  such a task, once cancelled, is awaited by a DELETE (`Escort`). The run
  `jobs_double_delete` shows that the assumption cannot be dropped.

`DeadlinesProofs` proves, for every length of the timeouts: `WaitsEndInTime`;
`GraceCoversTheDaemon` (`HeardIfGraceFits`: a call breaks only if its `GraceFits` fails, that
is, if the grace does not cover the wait for a worker, then either for the lock to be refused
or for the release, and the daemon's longer default) and `RetriesRunAlone` (`RetryRunsAlone`). If `GraceFits` for every way to call,
`GraceMakesTheCommentTrue` (`HearsTheDaemon`); if `RetentionFits` (results are kept at least
as long as a poll takes), `ResultsAreCollected`. The invariant behind the grace
(`AgeAccounted`) accounts for a call's age by the stages its daemon's side has been through;
the one behind the polls (`PollsInTime`) bounds a result's age by that of the last poll.

`DeadlinesProofs.TypeCorrect` gives the types.

`DaemonProofs` proves, for any processes, ports and ways to end a daemon:

- `TypeCorrect`, for any commands at the same time: a stop never signals "no pid".
- `ThePidFileNamesTheDaemon` (`ServingDaemonIsNamed`) and `ADaemonFindsItsPortFree`
  (`StartFindsPortFree`), if there is one operator (`OneOperator`), of every port where he does
  not give up on a daemon that is still starting (outside `SlowPorts`). With two, starts may
  race; on a slow port one may follow another too early; either way the daemon that fails to
  bind unlinks the pid file of the one that serves. The invariant (`TakingTurns`) is that at
  most one daemon is on its way up on those ports and somebody waits for it (`Awaited`), on a
  port that is free or its own; crashes, reused pids and the daemons of slow ports do not
  disturb it.
- `TaskkillStopIsHonest`: with one operator and `taskkill /F`, `StoppedIsGone`. It fails with
  SIGTERM (run `daemon_stop`), and with two operators, because a start may use the pid again.

`GatewayProofs` proves all that the run `gateway` checks, for any requests and outputs of any
length: `TypeCorrect`, `RetriesAreHonest` (`RetryIsHonest`), `BothWaysFailAlike`
(`SameErrorEitherWay`), `DocsAreComplete` (`DocsListEveryFailure`) and `HealthHasTheReason`
(`HealthExplainsFailure`).

- `_parse_stream` is a fold over a sequence of any length. The library's induction theorems
  cannot be used, but its least-element principle for well-founded relations (`WFMin`) is
  first order: `LeastNumber` follows from it, and what the fold returns is shown by looking at
  the least number of lines for which it would not (`ReadsExists` and the lemmas after it).
  The result is that the first result line decides, with the error code that came before it.
- `GateInv` ties each request's outcome to its own output (`OwnVerdict`): by then only ten
  outcomes are left, and the theorems are about those.
- `HealthInv` for `last_error`: what is noted is a classified failure of a run that has ended
  (`NotedFailure`), and only a success that was told clears it (`Explained`).

`ServiceProofs` proves of the daemon as a whole, for any jobs, `/generate` calls, DELETEs and
workers, and with every timeout, failure and cancellation the pool knows:

- `ServiceRunsThePool`: `ServiceSpec => Spec`. Jobs, DELETEs and the shutdown take the pool
  through steps of module `Pool` only, so every theorem above about the pool holds of the
  daemon.
- `NoJobIsLeftRunning` (`[]NoJobOutlivesDaemon`) and `DrainedMeansReaped` (`DrainReapsJobs`).
  The inductive invariant, `ServiceInv`, says where a job is by where its request is: a job
  runs as long as its request is in the pool (`JobsServed`), what it will report fits its place
  (`ResultFits`), so does the worker it has had (`CliFits`), that worker is dying and in
  some release's hands, then in the drain's, once the run is over (`CliDies`), and no two jobs
  share anything (`JobsApart`). The proof first says what a step of the pool can do to one
  request (`Stays`, `Waits`, `Gets`, `Returns`, `Returned`, `Torn` and so on), then what that
  makes of its job.
- `JobsAreServed`: `ServiceSpec => ServesJobs`, the refinement of `JobStore`. For one job a step
  leaves what the store sees of it (`Same`) or is one of seven changes (`JobTurn`); at most one
  job changes in a step, because a process is reaped, a release returns and a spawn ends for
  one worker at a time, and jobs share none (`JobsApart`); handlers are the store's own.
- `DaemonKeepsResults` and `DaemonDeletesHonestly`: with that, `RunningNeverDropped`,
  `ShutdownEndsJobs` and `KeepsResults` of the daemon's jobs and, with one DELETE at a time,
  `DeleteAnswersAfterKill`, by instantiating `JobStoreProofs`. So results are safe by way of
  two refinements, from the pool's event loop to `ResultStore`.

Each step lemma has one case per action; `PTL` combines them. The invariants that the proofs
add were checked by TLC on the runs' instances before they were proved.

Only model-checked: liveness (`EveryRequestAnswered`, `HandedOutWorkerDies`, `StopReturns`,
`EveryJobEnds`, `DaemonSettles`), which is out of the prover's reach, and the
counterexamples. Every other property of a passing run is proved, under the assumptions named
here.

## Not modelled

`stats()`, `/health` beyond `last_error`, the static pages of `server` and `apidocs` and
`status` of `daemon_ctl`: they only read. The parsing of environment variables, Host
headers and addresses in `config` and `server`: strings, reduced to what they decide.
`winjob` (what its two calls achieve happens in the Windows kernel), `ask` (one call of the
client) and the measurement scripts. Timeouts that are zero, negative or no number. In `Deadlines`, the
trimming of finished jobs by `max_jobs`, which `JobStore` has. Two control commands at the
same moment are part of `Daemon`, but only `DaemonProofs.TypeCorrect` is about them: what else
is checked or proved there is of one operator.

## Plan

1. `Pool`, `JobStore`, `Daemon`, `Gateway` and their runs; `WorkerLease`, and `Pool`
   shown to implement it by TLC and by proof. Done.
2. `ResultStore`, and `JobStore` shown to implement it in the same way. Done.
3. Timeouts with lengths: `Deadlines` and its proofs. Done.
4. `Service`: the daemon's composition of the pool and the jobs, through the shutdown.
   Done.
5. The remaining safety properties proved: `PoolWaits`, `DaemonProofs`, `GatewayProofs`, and
   `ServiceProofs` with the refinement of `JobStore`. Done.
6. Who may be refused for a spawn that failed: `PoolRefusals`. Done.
7. Weaker assumptions: `StopKillsTheRest` for every configuration if `stop()` interrupts no
   sweep, `DeleteAnswersAfterKill` of the daemon. Done. Then what a drained pool does promise
   a caller that waits (`DrainedPoolServes` without the race), and `NoStrandedWaiter` up to
   each of the losses that `NothingLost` excludes.
