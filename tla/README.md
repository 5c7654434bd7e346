# Verification of Sprints

Sprints runs coding agents ("actors") on issues of a tracker. A daemon ticks; a
tick claims issues as *lanes*, refreshes them, and dispatches an actor for the
step each lane is in; actors run in worker processes and file their results in
the same lane records. This directory holds TLA+ models of the parts whose
correctness depends on the order of steps of several processes, on crashes and
on time, the configurations that model-check them with TLC, and proofs checked
by TLAPS.

Paths below are relative to `src/packages/core/src/sprints/`.

## 1. The system

### Components, their state and their operations

| Component | Source | State | Operations |
| --- | --- | --- | --- |
| Engine leases | `engine/leases.py` | SQLite table `leases`, one row per (scope, key) | acquire (= renew), release, read |
| Engine rows | `engine/state.py`, `store.py`, `retries.py`, `lifecycle.py`, `scheduler.py`, `work.py`, `db.py` | SQLite tables of runs, retries, runtime sessions, running work, work items, events | start and finish a run, schedule and clear a retry, append an event once per id, rewrite the scheduler snapshot |
| Retention | `engine/retention.py` | the ledger `engine_events`, its configured limits | normalize limits, prune, count the excess, warn |
| State file and lock | `workflows/state_io.py` | one JSON file with all lanes; the lease `workflow-state` | load, save, `with_state_lock` with a renewer thread |
| Tick and dispatch | `workflows/step_runner.py`, `step_routes.py`, `runtime_dispatch.py`, `runtime_sessions.py`, `actor_outputs.py` | lane status, dispatch journal, runtime sessions, the counts of the actor limits | route, guard, journal, start, spawn, file the result, move the step |
| Tick journal | `workflows/tick_journal.py` | the run row of a tick, its first and last event | start, advance, finish, whoever fails |
| Reconciliation, retries | `workflows/lane_reconcile.py`, `state_retries.py` | `pending_retry`, attempt, recovery record | give up a stale actor, queue and consume a retry, refresh from the tracker |
| Step labels, side effects | `workflows/step_labels.py`, `state_effects.py` | labels last read, ledger of effects by key | plan a label move, call the tracker once, record it |
| Intake | `workflows/lane_intake.py` | claim lease, claim labels | claim, create a workpad, auto-activate |
| Lane lifecycle | `workflows/lane_state.py`, `lane_transitions.py` | lane record | set status, complete, release, call the operator |
| Operator surface | `workflows/surface_operator.py` | — | retry, release, complete |
| Workpad, worktrees, review signals | `workflows/surface_*.py`, `review_signals.py` | comment id, branch, worktree, signals, readiness | find or create, repair; collect signals |
| Actor runtimes | `runtimes/` | a Codex, Claude or Hermes session; for Codex a connection, a thread, a turn | run one turn, interrupt, resume, replay |
| Codex service | `services/codex_service.py` | a systemd user unit | install, up, down, restart, probe |
| Trackers | `trackers/` | — (the issue lives at GitHub or Linear) | query, label, comment, pull requests and their readiness |
| Daemon | `services/daemon.py` | the lease `workflow-daemon`, a systemd user unit | tick, sleep until the next retry, stop |
| Doctor | `core/doctor.py` | — | rewrite the engine's projections from the state file |
| Everything else | the rest of `core/`, `observe/`, `app/`, CLI, web, plugins | configuration, views | parse, validate, show |

### How they interact

* Ticks, workers and operator commands are separate processes. They share the
  JSON state file (under the state lock) and the engine database (each call a
  transaction of its own). There is no transaction over both. Nor is one call of the
  store always one transaction: every function of `engine/state.py` first runs the
  schema script, and Python's `sqlite3` commits what is pending before a script.
* A tick holds the state lock from its first load to its last save, an inline
  actor's turn included. It saves many times on the way.
* A worker takes the lock twice at most: to read its lane before the turn, and to
  file its result after it. In between it writes a heartbeat file.
* The daemon is woken by the engine's retry queue, and asks the same tables how long
  it may sleep. The doctor rewrites them from the state file, without the state lock.
* Actors on a shared Codex app server hear each other's notifications. A lane's
  session keeps the thread its next run resumes.
* The tracker is read and written outside any transaction, and people edit the
  same labels.

### Behaviours that are hard

The hazards are listed, each at its line, in `PROJECT.json`. The groups:

1. *The lock is a lease.* It ends by itself, is renewed by a thread, and its
   waiters give up before a dead holder's lease has run out.
2. *A dispatch is a chain of writes to two stores.* A tick can be killed after any
   of them; a later tick decides from what is left what has happened.
3. *Liveness of a worker is a guess*, made from a process id and a timestamp.
4. *Results come late*, to a lane that may have been given to another dispatch.
5. *Retries* are counted in one store and woken from another.
6. *A label move is two calls*, planned from labels read earlier, remembered for
   ever by key, and raced by people.
7. *Claims* are a lease, two label calls and a save, in this order.
8. *Several lanes share a tick*: one lane's exception ends the loop, and the limits
   per actor are compared with a count taken before it.
9. *The tables repeat the file*, commit by commit, and a process may die between any
   two of them.
10. *A daemon sleeps*, past its lease or towards a retry, and may not be the only one.
11. *A turn is a conversation*: notifications overtake answers, other lanes' come in
    between, the connection ends, the deadline passes, the prompt is sent again.
12. *A lane's view of GitHub is old* when it decides: reviewers, checks and people go
    on, a read fails, an answer is lost after the comment was written.

## 2. The modules

| Module | Models | Run by |
| --- | --- | --- |
| `Leases` | one lease row: every operator is one transaction of `engine/leases.py` | `StateLock`, `Intake`, `Daemon` |
| `Mutex` | abstract: what callers of `with_state_lock` count on | property `ImplementsMutex` |
| `StateLock` | `with_state_lock`, its renewer thread, load and save | `StateLock_timed.cfg` |
| `StateLockProofs` | theorems about `StateLock` | TLAPS |
| `LaneDispatch` | one lane from the tick to the filed result, with recovery | `LaneDispatch_*.cfg` |
| `LaneDispatchProofs` | theorems about `LaneDispatch` | TLAPS |
| `ActorLimits` | many lanes, and how many actors of a kind run on them | `ActorLimitsProofs` |
| `ActorLimitsProofs` | that the limits hold | TLAPS |
| `StepLabels` | the step label of an issue, the side-effect ledger, people | `StepLabels_*.cfg` |
| `StepLabelsProofs` | theorems about `StepLabels` | TLAPS |
| `Intake` | several issues and lanes: claims, refresh, workpads, operators, restarts | `Intake_*.cfg` |
| `IntakeProofs` | theorems about `Intake` | TLAPS |
| `Delivery` | one issue from `todo` to a merged pull request, beside people and checks | `Delivery_delivery.cfg` |
| `DeliveryProofs` | theorems about `Delivery` | TLAPS |
| `EngineStore` | the engine's tables, one operator per commit, and what is read from them | `Daemon` |
| `Daemon` | the daemon's loop, the order of commits of all who write, the doctor | `Daemon_engine.cfg` |
| `DaemonProofs` | theorems about `Daemon` and `Retention` | TLAPS |
| `Retention` | what a prune of the event ledger keeps, what the doctor says afterwards | `MCDaemon` |
| `CodexService` | the unit of the shared app server, systemd, the probe | `CodexTurn` |
| `CodexTurn` | runs of a lane's actor over the app server's JSON-RPC session | `CodexTurn_turn.cfg` |
| `CodexTurnProofs` | theorems about `CodexTurn` | TLAPS |
| `MC*` | the instances TLC runs | |

`StateLock` is what lets the other modules run their ticks one after the other.
`LaneDispatch` and `StepLabels` look inside two steps that are single actions of
`Intake` and `Delivery`: a dispatch, and the label move after a result. `CodexTurn` is
the inside of a working actor, and `Daemon` the commits below every save.

### `StateLock`

`lease` is the row with scope `workflow-state`, its `expires_at` kept as seconds
left; `pc` is the place of a process in `with_state_lock`; `renewer` is the thread
of each call, and `told` is a thread that was told to stop while it was in its
call; `wait` counts down the 60-second deadline; `copy` says whether the state a
callback has loaded is still the one on disk. `Request`, `Enter`, `GiveUp` are
the polling loop, `StopRenewer` and `Release` its `finally`, `RenewerWakes` and
`RenewerCalls` the thread, `Crash`, `StoreFails` and `RenewerDies` the faults.
`Second` is the clock.

There are two specifications. In `SpecTimed` a live holder's lease is written at
least every `MaxGap` seconds, which is less than the TTL: with a renewal every 30
seconds and a lease of 120, a holder may be late by almost 90. `SpecLate` drops
that: a process may be suspended for any time (a laptop's lid) and the renewer
thread ends silently on a database error. Exclusion cannot hold then, because no
save checks the lease; what does hold is that nobody takes a lease from an owner
that still blocks; `LateNeverSteals` proves it.

### `LaneDispatch`

`disk` is the lane record in the file, `mem` the copy of the process that holds
the lock; a crash drops `mem`. `run` and `retryRow` are the engine's rows: they
change at once, before or after the save around them, as in the code. `pc` names
the places of the tick between two writes; `worker` is the process of each
dispatch. A dispatch id is a number here, a uuid in the code.

| Steps | Code |
| --- | --- |
| `Reconcile`, `Interrupt`, `QueueRetry` | `reconcile_runtime_lanes`, `_queue_interrupted_actor_recovery`, `queue_lane_retry` |
| `RefreshTracker` | `_reconcile_tracker_lanes`, and the save before routing |
| `MoveStep`, `ReleaseLane` and `SaveRelease`, `EndTick`, `TickRaises` | `apply_step_route` (the release commits the retry row before it saves the lane), the end of `tick_step_locked` and its exception handler |
| `Plan` … `RecordPid` | `dispatch_stage_actor_background` (and `run_stage_actor`), one action per save |
| `Inline*` | the rest of `run_stage_actor` |
| `Worker*`, `LockTimesOut` | `run_actor_worker`, `_finalize_background_actor_*` |
| `MarksGrowOld`, `MayLookMissing` | `runtime_heartbeat`, `runtime_process_is_missing` |

The lane's session carries two numbers besides its run: whose heartbeat file and
whose process id it names. They are the point of the module, because a session is
reused by the next dispatch of the same actor, stage and mode.

`calm` is a history variable: it is true until a tick has been killed, or a mark has
grown old while somebody was at work (a suspended host). `CalmLaneHasOneActor`,
`LiveActorIsKnown` and `RunsAgreeWithJournal` hold that long, the other properties
always. So nothing is claimed of how many actors a lane has after a kill (finding 1) or
a heartbeat that came late, nor of the old worker whose answer then meets a newer
dispatch (`Accepts` compares stage, status and actor only): what is left there is
`RedoIsBounded` and `BusyLaneMovesOn`.

A kill may leave a saved lane `retry_queued` whose row is gone: consumed for a dispatch
(`Plan`), or deleted for a release (`ReleaseLane`). Both happen to lanes that are due
only, and a due lane is taken by the next tick whether it has a row or not. So
`RetryIsWoken` asks for the row as long as the lane has still to wait, which is when
only the row makes the daemon look again.

Left out: several lanes and their capacity (`Intake`, `ActorLimits`); the claim lease; what the prompt and
the output say; operator commands. The step is "act" or "hold", and the tracker
may change it, or release the lane, at any refresh. `auto-retry-interrupted` has
its default, on. Statuses `claimed` and `waiting` are one. `workpad_failed` is
set by intake and not modelled here.

### `StepLabels`

`tracker` is the set of step labels on the issue, `seen` the set the lane has
read, `step` the step noted on the lane. A move runs through the states
`removing`, `adding`, `called`, `recorded` and is saved by `FinishMove`; it can
break off in each. `ledger` is the set of keys that count as done, and `called`
remembers for which of them the tracker's call has returned. The hash of an
effect is the record of what it hashes. `acting` is the step of the running
actor: its output is applied for that step, whatever the labels say now.
`todo` is left out: intake has replaced it.

### `Intake`

`tracker` holds each issue's labels, `lease` its claim lease, `disk` and `mem` the
lanes, as above. `pc` goes through a tick: `refresh`, `repair`, `list`, then for
each candidate `claiming`, `leased`, `unlabelled`, `labelled`, and at last
`routing`. `queue` and `read` are the issues a loop has still to visit and the
labels it listed them with. `me` is the process that ticks: owner ids are one per
process, and a lane keeps the id its lease was taken with.

| Steps | Code |
| --- | --- |
| `Reconcile`, `Refresh` | `reconcile_runtime_lanes` (only "another attempt" or "the operator"), `_reconcile_tracker_lanes` |
| `RepairWorkpads`, `ListCandidates` | `_repair_active_lane_workpads`, `tracker_facts` |
| `TakeClaim`, `RemoveTodo`, `AddCode`, `MakeWorkpad`, `EndIntake` | the loop of `claim_new_lanes`, `_apply_claim_labels`, `_ensure_claimed_lane_workpad`, the save before routing |
| `Dispatch`, `ReleaseDone`, `Hold`, `EndTick` | `route_code_lane`, `apply_step_route`, for each lane in any order |
| `ClaimRaises`, `RouteRaises` | the exception handler of `tick_step_locked`: it saves, and the tick is over |
| `Crash`, `Restart` | a killed tick; a new process, from the daemon or by hand |
| `ActorFiles`, `ActorDies` | a worker's result, its end without one |
| `OperatorRetry`, `OperatorRelease` | `operator_retry_locked`; `operator_release_locked` and `operator_complete_locked` |

An actor is known by the claim it works for, a number that tells the lanes of one
issue apart; the code has no such number, so nothing in the model tests it.
A killed tick may take place between any two steps, not inside a dispatch:
`LaneDispatch` has those. The heartbeat is exact here: a dead actor is found or
not found, and a live one is never taken for dead.

Left out: the activation of issues that nobody labelled `todo` (intake does it
when there are no candidates, and the label it puts on is then listed like any
other); the single lane of a workflow without a tracker; workpads switched off;
a refresh that returns some issues only.

### `ActorLimits`

A tick counts once, before its first lane, how many lanes each actor is known to run
on: by its engine session, by the lane's status, by its open dispatch. It then adds
one for each dispatch and refuses the next when the limit is reached. `lane` holds
these three records of each lane, `counts` the count; `Settle` closes records in any
order and any part, which covers results, interruptions and releases; `Dispatch` and
`DispatchRaises` leave all, some or none of a dispatch's records behind.

No configuration runs this module: what it claims is proved for all lanes, actors and
limits (section 4). It says what the *records* add up to; whether a process lives that
no record names is the business of `LaneDispatch` (finding 1) and `Intake` (finding 5).

### `EngineStore`, `Daemon`

`EngineStore` is the database: per lane its work item, newest transition, running row,
session row and retry row, and the row of the newest tick with its events. Each
operator takes a database and returns one, and stands for one *commit*, which is finer
than one method of the store (see section 1).

`Daemon` gives whoever holds the state lock a list `todo` of such commits, saves of
the file and changes in memory; `Commit` does the first. `at` and `to` are the lane
they are about and what it becomes.

| Steps | Code |
| --- | --- |
| `Start`, `Acquire`, `FallAsleep`, `Wake`, `Stop`, `LeaveLoop`, `LockTimesOut` | `run_workflow_daemon`, `_next_sleep_seconds`, the systemd unit |
| `EnterTick`, `Reconcile`, `Claim`, `Route`, `EndTick`, `TickFails`, `Leave` | `tick_step_locked`, the tick journal, lane operations as lists of commits |
| `TickBreaks` | the first event, outside the `try`, or a write of the exception handler fails: the run stays `running` |
| `File`, `Operate` | `apply_actor_output_status`, `operator_*_locked` |
| `DoctorReads`, `DoctorCuts`, `DoctorEnds` | `_reconcile_engine_projections` |
| `Kill`, `KillOther` | `kill -9`, between any two commits |

`torn` names the tables that a death, or a repair that met a writer, has left half
written. The next snapshot takes the scheduler's off it, an undisturbed repair the
scheduler's and the retries': that is what `TablesFollowFile` claims. `WakesForRetry`
excepts the pause after a tick that gave up on the lock, which `_next_sleep_seconds`
never sees. What moves a lane
is abstracted: a running lane may be found dead, an issue may leave the workflow. A lane
is always at a step that dispatches, and a due retry is dispatched or released when the
route comes to it. `DueRetryIsTaken` rests on that: in the code a retry that falls due
at `review`, or on a `blocked` issue, is held until people move it, and one that finds
its actor's limit used up fails the tick (`TickFails`, a bounded upset). An exception
between two commits of one lane operation is left out: `TickFails` takes place between
operations, `TickBreaks` where no handler is left.

### `Retention`

A prune is one transaction, so it is an operator: first by age, then all but the newest
rows, ordered by time and id. Limits may be missing. Negative ones are left out: a prune
takes them for zero and the statistics take them as they are, which no document speaks
of. `MCDaemon` assumes `PruningIsDone` for every ledger of up to three events, so that
TLC evaluates it: among other things, a second prune at once does nothing.

### `CodexService`, `CodexTurn`

`CodexService` has the unit file, its link, what systemd wants, and whether the server
listens; `up`, `down` and `restart` are rows of `systemctl` calls, each of which can
fail. systemd, which starts a dead process again, is external.

`CodexTurn` is a run of the lane's actor, and the runs after it: a new runtime, the
connection (`Connect`), `initialize`, `thread/start` or `thread/resume`, `turn/start`,
the reading loop (`Takes`), a deadline (`StopTurn`, which asks the server to interrupt,
`RequestTimesOut`), the loss of the connection (`EndOfStream`, `ReaderEnds`), the
replay by a kept client (`Failed`), the death of the process (`Killed`). `inbox` is the
client's queue of messages; a message is its kind, thread and turn. `Matches` is
`_message_matches_active_run`. The server is external: it answers or does not, speaks
of its turns in any order its protocol allows, and, on a shared endpoint, of the thread
and turn of another lane (`Stranger`).

Two of the properties have an exception, which is behaviour of the code. While a run
opens its thread it knows no thread id, and so takes the first `thread/started` for its
own, another lane's included; the answer to its request then corrects it. Until then
the text of a strange turn may be taken for output, and if the run fails in this window
the strange thread is what the session records (`strayed`).

Three things of the client are simpler than in the code. A write does not block
(`sendall` and the pipe have no timeout), and one that fails is always a
`CodexAppServerError`; a pipe that breaks between `_write`'s look at the process and its
write raises an `OSError` instead, and then nothing of the run is recorded. An error with
`willRetry` does nothing, like a message of another run. The cancel event of the reading
loop is left out, because no caller of `run_runtime_stage` gives one.

Status, logs and the text of messages are left out, and the three runtimes that are one
command line each: they end with one of four outcomes, or die (`LaneDispatch`).

### `Delivery`

`issue`, `pulls`, `pads` are GitHub; `file` and `mem` the lane as saved and as the tick
has it; `tree` is the worktree. `pc` goes through the calls of a tick: the issue, the
open pull requests, the readiness of the one the lane knows, the workpad, the save, the
route. Between any two of them reviewers, checks and people act (`PeopleAct`), the coder
pushes, merges and ends, a call fails, an answer is lost, or the tick is killed.

| Steps | Code |
| --- | --- |
| `Refresh`, `ListPulls`, `ReadSignals` | `_reconcile_tracker_lanes`, `_reconcile_pull_requests`, `reconcile_review_signals` and the readiness of `trackers/github.py` |
| `RepairPad`, `Claim`, `MakePad`, `SaveLane`, `IdleTick` | `_repair_active_lane_workpads`, `claim_new_lanes` with activation, `ensure_workpad`, the save before routing |
| `Dispatch`, `TreeFails` | `apply_step_route`, `ensure_lane_worktree` and its hook |
| `MoveStep`, `ReleaseDone`, `Hold` | `route_code_lane`, `set_lane_step_label`, `done_release_verified` |
| `CoderIsDone`, `CoderStops`, `CoderWaits`, `CoderKilled` | `apply_actor_output_status`, by what the coder answered |
| `CoderPushes`, `CoderMerges`, `PeopleAct` | external |

There is one coder at a time: a dispatch forgets an older coder that still works on an
issue released and claimed anew (finding 5 is about two of them).

`behind` is a history variable: a read of this tick failed, or GitHub changed since it
began. The workpad is the runner's, as in a workflow whose `workpad` owner is the
runner. The ledger of moves is here, so `FeedbackWaits` asks for a move to be made the
first time only (finding 2 is about the second).

## 3. The runs

`tlc -config X.cfg MCModule`; states are distinct states.

| Run | Module, configuration | States | Shows |
| --- | --- | --- | --- |
| `timed` | `MCStateLock`, `StateLock_timed` | 7 thousand | exclusion, no lost update, refinement of `Mutex`, every wait ends, an orphaned lock opens |
| `lane` | `MCLaneDispatch`, `LaneDispatch_lane` | 138 thousand | while the lane is calm: one actor, known to the record, runs that agree with the journal; always: records come first, a lane that has to wait has its row, recovery is bounded, a busy lane moves on |
| `stale_pid` | `MCLaneDispatch`, `LaneDispatch_pid` | — | finding 1 |
| `moves` | `MCStepLabels`, `StepLabels_moves` | 583 thousand | label moves among people, failures and crashes |
| `claims` | `MCIntake`, `Intake_claims` | 227 thousand | capacity, claim leases, workpads first, and issues that wait are served |
| `reclaimed` | `MCIntake`, `Intake_reclaimed` | — | finding 5 |
| `loop`, `half`, `blocked` | `MCStepLabels`, `StepLabels_*` | — | findings 2, 3, 4 |
| `engine` | `MCDaemon`, `Daemon_engine` | 622 thousand | one daemon awake, tables that follow the file, ticks accounted for, wake-ups for retries, ticks for ever; and `PruningIsDone` |
| `turn` | `MCCodexTurn`, `CodexTurn_turn` | 315 thousand | a run takes its own turn's result, resumes its own thread, replays only what was lost, tells the server what it gives up, and ends |
| `delivery` | `MCDelivery`, `Delivery_delivery` | 1.3 million | one workpad comment, delivered means merged, feedback and code steps are taken up |

Three properties are conjunctions, because their parts guard one hazard:
`NobodyIsStuck` is `WaiterReturns` and `OrphanedLockOpens`; `RecordsComeFirst` is
`JournaledBeforeRun` and `RetryIsWoken`; `TablesFollowFile` is `WaitingLaneIsQueued`,
`ItemsFollowFile` and `SchedulerFollowsFile`.

### Bounds

* `StateLock`: two processes with two owner ids each, TTL 4, renewal every second,
  deadline 2, `MaxGap` 2. The order of the real numbers is kept where the code
  depends on it: renewal < deadline < TTL. Two ids let a process come back under
  a new id while its old renewer still runs. The theorems hold for any numbers.
* `LaneDispatch`: three dispatches, so that a worker can be given up, its successor
  too, and a third runs; two attempts (three in `stale_pid`), so that the limit is
  reached; one killed tick, at any of its places between two writes.
* `StepLabels`: people edit twice, the workflow moves back once. One lap is
  enough for every key to be met again.
* `Intake`: two issues for one lane, so that one waits for the other; two processes,
  so that a lane is released by another than claimed it; one upset, which is a
  label edit by people, a failed listing, an exception or a killed tick, at any
  place. Dispatches, retries, releases, dying actors and failing workpads are not
  bounded. The theorems hold for any number of each.
* `Daemon`: one lane (the tables are per lane, and only the loops of a tick join them);
  two daemon processes; two attempts; two upsets, which are kills, stops, failed or broken
  ticks, operator commands and repairs, so that one may meet another; or none of these and a
  second daemon. Times are scaled to seconds 1 and 2: a sleep is as long as the lease
  lives, so that it runs out. `MaxTick` < TTL is an assumption about the host and about
  background actors, not something the code enforces.
* `CodexTurn`: two runs, so that a session is resumed; a managed server with a
  background actor and a kept connection with an inline one; one message waiting beside
  what the end of a connection adds; one fault; deadlines of one and two ticks, the
  turn's longer than the others.
* `Delivery`: two pull requests, so that a second is open while the first is merged;
  one kind of blocker that sends the lane back; one failed call, lost answer or kill;
  three upsets with those of people. Ticks and coders are not bounded.

`CHECK_DEADLOCK FALSE` is set for `LaneDispatch`, where a released lane is the
end, for `StepLabels`, for the same reason, and for `CodexTurn`, where the runs are
used up. The state lock, intake, delivery and the daemon never stop.

### Fairness, and why the code justifies it

* `StateLock`: time passes; a poll loop polls (every 0.2 s); a renewer whose wait
  timed out calls; a callback that has ended releases (`finally`). Nobody is
  obliged to call, or to end a callback.
* `LaneDispatch`: the daemon ticks for ever and a tick gets on; a worker gets on,
  and its turn ends (`CodexTurn!RunEnds`; the other runtimes have a timeout, and a
  hanging turn counts as an actor that is still working); time passes, so that marks
  grow old and retries fall due. Crashes and failures are never obliged to happen, nor
  to stop: they are bounded.
* `Intake`: the daemon ticks for ever and a tick gets on; days pass. A day passes
  between ticks only (a tick takes less than a day), so its fairness is strong.
* `Daemon`: each process's loop goes on, whoever holds the lock gets on, a repair ends,
  time passes, and systemd restarts a service that has ended (`Restart=always` in the
  unit `_render_unit` writes).
* `CodexTurn`: the run takes its own steps, and time passes. Nothing is asked of the
  server, of other lanes or of the operator.
* `Delivery`: the daemon goes on ticking. Nothing is asked of the coder or of people.

### Mutants

Each property of a passing run is broken by a variant of one definition, kept
before it in its module under a comment beginning "Variant". A variant is a bug
one could make in that code: a dropped guard, a forgotten count, a value written
too early. `PROJECT.json` pairs them.

### Findings

1. `stale_pid`: a tick killed after it spawned a worker and before it saved the
   worker's pid leaves a running lane that names the process of the *previous*
   dispatch, because the session is reused. The next tick finds that process gone,
   interrupts the dispatch, queues a retry and dispatches a second actor into the
   same worktree.
2. `loop`: the idempotency key of a label move has nothing in it that tells the
   second round of review from the first. The second move to review is skipped as
   already completed; the issue keeps `code`, and the next tick dispatches the
   coder again.
3. `half`: GitHub's label move removes first and adds second. In between the issue
   has no step label, and a refresh that meets it so (after a failure of the
   second call) releases the lane.
4. `blocked`: an actor's result moves a lane that people have blocked while it
   worked, and takes the `blocked` label off.
5. `reclaimed`: people put an issue back to `todo` while its actor works. The
   refresh releases the lane, and the same tick claims the issue anew. The engine's
   run of the actor is still `running`, and `engine/README.md` says this refuses a
   second one; but the guard passes over a run that neither the lane nor an active
   session row confirms. The new lane has an empty session, and the save before
   routing has replaced the session rows. The second actor starts in the worktree
   of the first.

## 4. The proofs

`StateLockProofs`, from `TimingAssumption` (0 < RenewEvery <= MaxGap < TTL) and
`NameAssumption` (the null values are no names), for any processes and calls:

* `TypeCorrect`: `SpecLate => []TypeOK`.
* `Covering`: `SpecTimed => []IInv`. Mutual exclusion is not inductive: it does not
  say why a waiter cannot enter. The strengthening does: a process inside owns the
  row, the row is not released, and *the seconds left plus the seconds since the
  last write are at least the TTL*. The clock lowers the one and raises the other;
  a live holder's "since" stays at most `MaxGap`, so "left" stays positive.
* `LockExcludes`, `LockKeepsUpdates`: `MutualExclusion` and `NoLostUpdate` follow,
  the second with the fact that copies exist inside callbacks only.
* `LockImplementsMutex`: each step of `SpecTimed` is an `Enter`, a `Leave` or a
  stutter of `Mutex`.
* `LateNeverSteals`: `SpecLate => NoTheft`, with no timing assumption at all: whatever
  is suspended, and whichever renewer dies, no step gives a live lease of one owner to
  another. Every writer of the row goes through `MayTake`.

`StepLabelsProofs`, from `BoundAssumption`, for any number of moves and edits:

* `TypeCorrect`, `LedgerEarned`, `UnreadStay`, `OneLabelLeft`. The invariant says
  that the key of a move in progress is the plan of what the lane has read
  (nothing reads the issue in between), how far the call has come on labels the
  lane knew, and that a move at the end of its call was called. `PlanLeavesTarget`
  is the lemma about the pure functions: carrying out a plan on the labels it was
  made from leaves exactly the target.

`IntakeProofs`, from `BoundAssumption`, for any issues, limit, processes and faults:

* `TypeCorrect`, `CapacityHeld`, `LeaseHeldWithLane`, `PadFirst`. None of the four
  is inductive alone. The invariant adds that the file and the state agree between
  ticks; that a lane in the middle of its claim is `claimed`; that after the repair
  a lane without a workpad has the status no route dispatches; and that the lanes
  of the *tick*, not only those of the file, agree with their leases while no tick
  was killed. Even the type needs it: `blocked_status` can hold neither "running"
  nor "workpad_failed" only because no running lane is ever repaired.
* Capacity is by counting (`NoMoreLanes`, `OneLaneMore`): every step but a claim
  leaves the active lanes a subset of what they were, and a claim adds one where
  there was room. `ReleaseKeeps`, `PadKeeps`, `RetryKeeps` and `OneLaneKeeps` say
  what the helpers leave alone; there is one lemma for each step of the tick.

`ActorLimitsProofs`, from `Bounds` (finitely many lanes, any limits):

* `ActorsWithinLimits`: no actor is known to run on more lanes than its limit. The
  limit is compared with a count that grows old, so the invariant says that the count
  covers the usage while a tick routes, and is itself within the limit. `LaneGains` and
  `LaneLoses` count the users of a changed lane.

`LaneDispatchProofs`, from `BoundAssumption`, for any dispatches, attempts and crashes.
The invariant has two halves:

* Whatever crashes: each copy of the lane record is sound by itself (at most one open
  dispatch, a session that runs has one, an attempt counted for each interrupted
  dispatch), the tick's place tells what its copy says, nothing runs without a saved
  entry, and a lane that has still to wait has its row. For that the invariant says that
  a tick which has taken the row away, for a dispatch or a release, holds a lane that is
  due: a kill then leaves a lane that needs no row. `RecordsFirst`, `GuardAgrees` and `RedoBounded`
  follow. `GuardAgrees` is the soundness of the record: a session that runs without an
  open dispatch is what the route would miss and the guard would find.
* While `calm`: the session follows the journal, the engine's rows agree with both, and
  every live actor is *attended*, that is, the saved record names it and holds it open.
  `CalmLaneSafe`, `LiveActorKnown` and `RunsAgree` follow. "One actor" needs the
  attendance of all, since two attended actors would be two open dispatches.

`DaemonProofs`, from `BoundAssumption` (`MaxTick` < TTL, at least one lane), for any
lanes, daemons and upsets:

* `TablesFollow`: whoever holds the state lock has a list of commits to do, and the
  invariant says that *every row is right, or the commit that makes it right is still
  on the list*. What comes before what on a list (`Followed`, `Barred`, `Ordered`) is
  stated about sequences and preserved by taking the head. When nobody is in the
  middle of anything the list is empty, and the rows are right. A kill leaves the list
  unfinished and tears its tables; no snapshot repairs the work items, so whenever any
  table is torn they are (`ItemsStayTorn`), without which the repair of the other
  tables was not preserved.
* `OneDaemon`: as `Covering` above, with the age of the tick in the place of the
  seconds since the last write: *seconds left plus age are at least the TTL*.
* `TickAccounted`: the rows of the tick and its list, together, always have both events,
  unless whoever had the list is gone (`Kill`, `TickBreaks`).
* `RetryWakes`: with no upset there is one daemon, so the queue it looked at before it
  slept only shortens. `TypeCorrect` adds that no pause or lease leaves its range.
* `PruneSettles`, for any finite ledger and limits: after a prune the doctor does not
  warn. The rows that are kept are mapped one to one into the numbers below the limit,
  each to how many are newer.
* `PruneTakesOldest`: with an event a prune keeps every newer one.

`CodexTurnProofs`, from `CodexBounds`, for any runs, faults, queue length and timeouts:

* The invariant says which request the server may still answer: at most one, the one
  the client asked last, and once it is answered the answer is the only one in the
  queue. It says what each queued message may tell, that a turn in the client's hands is
  one it prompted on its thread, and how many threads and turns the attempts have begun,
  so that the server never runs out of new ids.
* `ResultOwn`, `ResumesOwn` and `GivenUpTold` follow; `GivenUpTold` needs the invariant
  to follow a stop from the request to its answer, its refusal or the end of the
  connection.
* `TakesOwnTurn` and `ReplaysLost` are action properties. The first looks at the one
  step that adds output, and takes from the invariant that a run that reads knows its
  turn; the second counts the turns prompted against the attempts made.

`DeliveryProofs`, from `DeliveryAssumption`, for any pull requests, faults and changes by
people:

* `DeliveredIsMerged` is the action property `DoneIsDelivered`. A lane decides on what
  it has read, perhaps long ago, so the invariant keeps of its knowledge what GitHub can
  no longer undo: a pull request it names was made, and one it has for merged is merged.
  For "no other is open" it says of a tick that nothing has overtaken: if any pull
  request of the branch is open, the lane names an open one and does not have it for
  merged. It rests on what the model says of the coder, that its answers tell what it
  sees.
* That pull requests are numbered in the order they are made (`InOrder`) is needed so
  that a new one never overwrites a merged one.
* `OnePadEver` is inductive alone, because the comment is found by its marker on GitHub
  and not by what the lane recorded.

The proofs corrected the models, and each correction is nearer to the code:

* `WakesForRetry` did not except the pause after a failed tick. TLC had not seen it: with
  the times of its run that pause is too short to matter.
* A second daemon could start where no upset is allowed at all.
* The end of a connection forgot that the reader of a connection that is breaking still
  has to end, and a reader could end with no run to tell.
* `Told` of `CodexTurn`, what the client does with a message, chose between "another run's" and the
  kinds of message by a `CASE` whose arms overlapped. TLC takes the first true arm; the
  logic takes any. It now asks `Matches` first, as `_message_matches_active_run` is
  asked.

Only model-checked: the liveness properties (`NobodyIsStuck`, `BusyLaneMovesOn`,
`TodoIsServed`, `DueRetryIsTaken`, `TicksGoOn`, `RunEnds`, `StepsAreServed`), which are
out of the prover's reach, as is `ENABLED`. Every other property of a passing run is
stated by a theorem. No induction over data is used: what `Delay` doubles to is checked
for the attempts of the run only.

## 5. Not modelled

* Prompts, rendering, configuration, validation, observation, the command line, the
  web page and plugins keep no state that another part's correctness depends on. The
  reports of the engine are read-only.
* Linear: its client only queries issues; label moves and comments are refused as
  unsupported, so the step labels, workpads and reviews of the models are GitHub's.
* The inside of the one-shot runtimes (Claude, Hermes, Codex over ACPX): one process,
  one answer.
* The single manual lane of a workflow without a tracker; the ledgers of automatic
  activation and of notifications; usage totals.
* A save of the state file is one step here. In the code it is written in place, and
  a crash in the middle leaves a file that no later load can read: the program then
  stops, and there is no behaviour to check.

Some hazards in `PROJECT.json` have no property. The models have their steps, but no
document says what should happen: a status that comes back wrong after a repaired
workpad, a released lane whose retry row goes on waking the daemon, a run left
`running` for ever, a worktree whose hook has failed, one lane's exception that keeps
those behind it waiting, an operator's retry that the attempt limit refuses.

## 6. Plan

Done: 1 `Leases`, `StateLock`, `Mutex` and their proofs; 2 `LaneDispatch`; 3
`StepLabels` and its proofs; 4 `Intake` and its proofs; 5 `EngineStore`, `Daemon`; 6
`CodexService`, `CodexTurn`; 7 `Delivery`; 8 `ActorLimits`, `Retention` and their
proofs; 9 the proofs of `LaneDispatch`, `Daemon`, `CodexTurn` and `Delivery`.

Next: an abstract specification of a lane (claimed, worked on, waiting, released) that
`Intake` and `LaneDispatch` implement, with the refinement proved step by step.
