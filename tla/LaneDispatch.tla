---------------------------- MODULE LaneDispatch ----------------------------
(***************************************************************************)
(* One claimed lane and the actors dispatched on it: the tick that         *)
(* reconciles, routes and dispatches (workflows/step_runner.py,            *)
(* lane_reconcile.py, runtime_dispatch.py, runtime_sessions.py,            *)
(* state_retries.py), the worker processes that run the actor turns and    *)
(* file their results, and the two stores they all go through: the lane    *)
(* record of the JSON state file and the rows of the engine database.      *)
(*                                                                         *)
(* The state lock is one variable here; StateLock shows that it excludes.  *)
(* Whoever holds it works on mem, a copy of the lane loaded from disk, and *)
(* disk changes only where the code saves.  Between two saves the engine   *)
(* rows may already have changed: a crash there is what this module is     *)
(* about.                                                                  *)
(*                                                                         *)
(* The tracker and the pull request are an unconstrained environment:      *)
(* "act" stands for the steps code and merge, "hold" for review, done and  *)
(* blocked.  The statuses claimed and waiting are read alike by all of     *)
(* this code and are both "open".                                          *)
(***************************************************************************)
EXTENDS Naturals, FiniteSets

CONSTANTS
    MaxDispatch,    \* bound: dispatch ids (uuids) that may be used
    MaxAttempts,    \* retry.max-attempts
    MaxCrashes,     \* bound: ticks that may be killed half way
    Suspends        \* may a live worker's heartbeat look stale?

ASSUME BoundAssumption ==
    /\ MaxDispatch \in Nat /\ MaxAttempts \in Nat \ {0}
    /\ MaxCrashes \in Nat /\ Suspends \in BOOLEAN

Dispatch == 1..MaxDispatch
NoDispatch == 0

Free == 0
Ticking == MaxDispatch + 1

VARIABLES
    disk,       \* the lane record in the state file
    mem,        \* the lane record of whoever holds the state lock
    lock,       \* who holds the state lock: Free, Ticking or a worker
    pc,         \* where the tick is
    worker,     \* the actor turn of each dispatch
    run,        \* engine_runs row of each dispatch
    retryRow,   \* engine_retry_queue has a row for the lane
    due,        \* the retry's due time has come
    old,        \* the lane's timestamps are running-stale-seconds old
    crashes,    \* ticks killed so far
    calm        \* no tick was killed and no live worker's beat was late so far

vars == <<disk, mem, lock, pc, worker, run, retryRow, due, old, crashes, calm>>

\* The stages of a dispatch journal entry; runs share the final ones.
Final == {"completed", "failed", "interrupted"}
Active == {"planned", "started", "running"}

Session == [status : {"none", "running"} \cup Final,
            run    : Dispatch \cup {NoDispatch},
            beat   : Dispatch \cup {NoDispatch},    \* heartbeat_path
            pid    : Dispatch \cup {NoDispatch}]    \* process_id

NoSession == [status |-> "none", run |-> NoDispatch,
              beat |-> NoDispatch, pid |-> NoDispatch]

Lane == [status  : {"open", "running", "retry_queued",
                    "operator_attention", "released"},
         step    : {"act", "hold"},
         attempt : 1..MaxAttempts,
         pending : BOOLEAN,                         \* pending_retry
         journal : [Dispatch -> {"none"} \cup Active \cup Final],
         cur     : Dispatch \cup {NoDispatch},      \* actor_dispatch
         sess    : Session]                         \* runtime_session

Phase == {"none", "spawned", "working", "finished", "filing", "closing", "gone"}

\* Types; the attempt counter stays within retry.max-attempts.
TypeOK ==
    /\ disk \in Lane /\ mem \in Lane
    /\ lock \in {Free, Ticking} \cup Dispatch
    /\ pc \in {"idle", "reconciled", "routing", "planned", "opened", "started",
               "marked", "markedInline", "prepared", "spawned", "inline",
               "inlineFiling", "released", "ending"}
    /\ worker \in [Dispatch -> Phase]
    /\ run \in [Dispatch -> {"none", "running"} \cup Final]
    /\ retryRow \in BOOLEAN /\ due \in BOOLEAN /\ old \in BOOLEAN
    /\ crashes \in 0..MaxCrashes /\ calm \in BOOLEAN

\* There is a process for the dispatch; its actor has been called.
Alive(d) == worker[d] \notin {"none", "gone"}
Acting(d) == worker[d] \in {"working", "finished", "filing", "closing"}

Init ==
    /\ disk = [status |-> "open", step |-> "act", attempt |-> 1,
               pending |-> FALSE, journal |-> [d \in Dispatch |-> "none"],
               cur |-> NoDispatch, sess |-> NoSession]
    /\ mem = disk
    /\ lock = Free
    /\ pc = "idle"
    /\ worker = [d \in Dispatch |-> "none"]
    /\ run = [d \in Dispatch |-> "none"]
    /\ retryRow = FALSE /\ due = FALSE /\ old = FALSE
    /\ crashes = 0 /\ calm = TRUE
------------------------------------------------------------------------------
\* The lane record.

\* active_actor_dispatch: actor_dispatch, else the latest active entry.
ActiveDispatch(l) ==
    LET active == {d \in Dispatch : l.journal[d] \in Active}
    IN  IF l.cur \in active THEN l.cur
        ELSE IF active = {} THEN NoDispatch
        ELSE CHOOSE d \in active : \A e \in active : e <= d

\* _advance_actor_dispatch: the entry takes the status and becomes current.
Advance(l, d, status) ==
    IF d = NoDispatch THEN l
    ELSE [l EXCEPT !.journal[d] = status, !.cur = d]

\* record_actor_dispatch_planned.
Planned(l, d) == Advance(l, d, "planned")

\* record_actor_dispatch_interrupted.
DispatchInterrupted(l) == Advance(l, ActiveDispatch(l), "interrupted")

\* record_actor_runtime_interrupted on the lane: its session and its dispatch.
RuntimeInterrupted(l) ==
    DispatchInterrupted([l EXCEPT !.sess.status = "interrupted"])

\* set_lane_status, as far as dispatch can see it.
Become(l, status) == [l EXCEPT !.status = status]

\* record_actor_runtime_result on the lane: the session is the lane's latest,
\* the journal entry is the one whose id the result carries.
Close(l, d, final) == Advance([l EXCEPT !.sess.status = final], d, final)

\* start_engine_run_to_connection: a new row.
StartRun(d) == [run EXCEPT ![d] = "running"]

\* _finish_engine_actor_run: the run of the lane's latest session, whatever
\* dispatch the caller is about and whatever status the row has.
FinishRun(l, final) ==
    IF l.sess.run = NoDispatch THEN run
    ELSE [run EXCEPT ![l.sess.run] = final]

\* Variants: the attempt is not counted; it is not compared with the
\* limit.
QueueRetryUncounted(l) ==
    IF l.attempt >= MaxAttempts THEN Become(l, "operator_attention")
    ELSE [l EXCEPT !.status = "retry_queued", !.pending = TRUE]
QueueRetryUnlimited(l) ==
    [l EXCEPT !.status = "retry_queued", !.pending = TRUE, !.attempt = @ + 1]

\* queue_lane_retry on the lane: one attempt more, or the operator.
QueueRetry(l) ==
    IF l.attempt >= MaxAttempts THEN Become(l, "operator_attention")
    ELSE [l EXCEPT !.status = "retry_queued", !.pending = TRUE,
                   !.attempt = @ + 1]

\* runtime_process_is_missing: the session's process_id names no process.  A
\* dead child that nobody reaped, or a reused pid, still looks alive.
MayLookMissing(l) == l.sess.pid # NoDispatch /\ worker[l.sess.pid] = "gone"

\* Variants: the journal is not looked at; only a dispatch waits for the retry.
RouteHoldsByStatus(l) ==
    \/ l.status \in {"running", "operator_attention", "released"}
    \/ l.status = "retry_queued" /\ ~due

RouteHoldsToDispatch(l) ==
    \/ l.status \in {"running", "operator_attention", "released"}
    \/ ActiveDispatch(l) # NoDispatch
    \/ l.status = "retry_queued" /\ ~due /\ l.step = "act"

\* route_code_lane, the reasons to hold that do not depend on the step.
RouteHolds(l) ==
    \/ l.status \in {"running", "operator_attention", "released"}
    \/ ActiveDispatch(l) # NoDispatch
    \/ l.status = "retry_queued" /\ ~due

\* actor_dispatch_conflicts.  The engine's session rows were rewritten from
\* this record by the save before routing, and engine_runs rows count only if
\* the lane or such a session confirms them: neither adds a conflict.
Conflict(l) ==
    \/ l.status = "running"
    \/ l.sess.status = "running"
    \/ ActiveDispatch(l) # NoDispatch
------------------------------------------------------------------------------
\* The tick.

\* Write the state file; the holder goes on with the same record.
Save(l) == disk' = l /\ mem' = l

\* The tick ends or dies, and with it what it had not saved.
LeaveTick == pc' = "idle" /\ lock' = Free

\* Variant: the engine run is not finished.
InterruptRunless(l) ==
    /\ mem' = QueueRetry(RuntimeInterrupted(l))
    /\ old' = FALSE
    /\ retryRow' = (retryRow \/ l.attempt < MaxAttempts)
    /\ due' = (due /\ l.attempt >= MaxAttempts)
    /\ UNCHANGED run

\* reconcile_runtime_lanes, one lane given up: the session, its engine run and
\* the active journal entry are interrupted, and a retry is queued.  A planned
\* dispatch without a running session has no run to finish.
Interrupt(l) ==
    LET hasSession == l.status = "running" \/ l.sess.status = "running"
    IN  /\ run' = IF hasSession THEN FinishRun(l, "interrupted") ELSE run
        /\ mem' = QueueRetry(IF hasSession THEN RuntimeInterrupted(l)
                             ELSE DispatchInterrupted(l))
        /\ old' = FALSE
        /\ IF l.attempt < MaxAttempts
           THEN retryRow' = TRUE /\ due' = FALSE
           ELSE UNCHANGED <<retryRow, due>>

\* Variants: the age is not compared with running-stale-seconds; only the process
\* of a running lane counts.
OverdueAtOnce(l) == l.status = "running" \/ ActiveDispatch(l) # NoDispatch
OverdueByProcess(l) ==
    IF l.status = "running" THEN MayLookMissing(l)
    ELSE ActiveDispatch(l) # NoDispatch /\ old

\* The lanes reconcile_runtime_lanes may give up: a running one whose heartbeat
\* is old or whose process is missing, and one whose dispatch was journaled
\* long ago without the lane becoming running.
Overdue(l) ==
    IF l.status = "running" THEN old \/ MayLookMissing(l)
    ELSE ActiveDispatch(l) # NoDispatch /\ old

\* A tick takes the lock, loads the state and reconciles the lane with its
\* runtime.  What is old must be given up; a missing process may be seen.
Reconcile ==
    /\ pc = "idle" /\ lock = Free
    /\ disk.status # "released"
    /\ lock' = Ticking
    /\ pc' = "reconciled"
    /\ \/ Overdue(disk) /\ Interrupt(disk)
       \/ /\ ~(Overdue(disk) /\ old)
          /\ mem' = disk
          /\ UNCHANGED <<run, retryRow, due, old>>
    /\ UNCHANGED <<disk, worker, crashes, calm>>

\* _reconcile_tracker_lanes, then the save before routing: the refresh failed
\* or changed nothing, brought another step, or shows a label set without an
\* active step.  Releasing leaves the retry, the session and the run alone.
RefreshTracker ==
    /\ pc = "reconciled"
    /\ \/ \E step \in {"act", "hold"} : Save([mem EXCEPT !.step = step])
       \/ Save(Become(mem, "released"))
    /\ pc' = "routing"
    /\ UNCHANGED <<lock, worker, run, retryRow, due, old, crashes, calm>>

\* The dispatch ids in order; when MaxDispatch are used up the route holds.
NextId(d) ==
    /\ mem.journal[d] = "none"
    /\ \A e \in Dispatch : e < d => mem.journal[e] # "none"

UsedUp == \A d \in Dispatch : mem.journal[d] # "none"

\* The route holds, or the dispatch is made: the record is saved once more.
EndTick ==
    /\ \/ pc = "routing" /\ (RouteHolds(mem) \/ mem.step = "hold" \/ UsedUp)
       \/ pc = "ending"
    /\ Save(mem)
    /\ LeaveTick
    /\ UNCHANGED <<worker, run, retryRow, due, old, crashes, calm>>

\* Capacity, worktree, label, prompt, dispatch file or database: an exception
\* ends the tick, whose handler saves the record as far as it came.
TickRaises ==
    /\ pc \in {"routing", "planned", "opened", "started", "marked",
               "markedInline", "released"}
    /\ Save(mem)
    /\ LeaveTick
    /\ UNCHANGED <<worker, run, retryRow, due, old, crashes, calm>>

\* set_lane_step from a holding step: required review changes, or a merged pull
\* request whose issue is open.  pending_retry and its row stay.
MoveStep ==
    /\ pc = "routing" /\ ~RouteHolds(mem) /\ mem.step = "hold"
    /\ Save(Become([mem EXCEPT !.step = "act"], "open"))
    /\ pc' = "ending"
    /\ UNCHANGED <<lock, worker, run, retryRow, due, old, crashes, calm>>

\* release_lane: the done step is verified.  Deleting the retry row is a commit of
\* its own, before the lane is saved as released.
ReleaseLane ==
    /\ pc = "routing" /\ ~RouteHolds(mem) /\ mem.step = "hold"
    /\ retryRow' = FALSE
    /\ mem' = Become([mem EXCEPT !.pending = FALSE], "released")
    /\ pc' = "released"
    /\ UNCHANGED <<disk, lock, worker, run, due, old, crashes, calm>>

\* The end of apply_step_route for a release.
SaveRelease ==
    /\ pc = "released"
    /\ Save(mem)
    /\ pc' = "ending"
    /\ UNCHANGED <<lock, worker, run, retryRow, due, old, crashes, calm>>

\* guard_actor_dispatch, for a lane with a conflict: the operator's.
Refused(l) == Become(l, "operator_attention")

\* The guard, then the journal entry and its save.
Plan ==
    /\ pc = "routing" /\ ~RouteHolds(mem) /\ mem.step = "act" /\ ~UsedUp
    /\ IF Conflict(mem)
       THEN Save(Refused(mem)) /\ pc' = "ending" /\ UNCHANGED old
       ELSE /\ \E d \in Dispatch : NextId(d) /\ Save(Planned(mem, d))
            /\ pc' = "planned"
            /\ old' = FALSE
    /\ UNCHANGED <<lock, worker, run, retryRow, due, crashes, calm>>

\* Variant: a session that is used again keeps its run_id.
OpenRunKeepsId ==
    /\ pc = "planned"
    /\ run' = StartRun(mem.cur)
    /\ mem' = Advance([mem EXCEPT !.sess.status = "running",
                                  !.sess.run = IF @ = NoDispatch THEN mem.cur ELSE @],
                      mem.cur, "started")
    /\ pc' = "opened"
    /\ old' = FALSE
    /\ UNCHANGED <<disk, lock, worker, retryRow, due, crashes, calm>>

\* record_actor_runtime_start: the engine run, the session and the journal.
\* The session of this actor, stage and mode is used again if there is one:
\* its heartbeat_path and process_id stay those of the dispatch before.
OpenRun ==
    /\ pc = "planned"
    /\ run' = StartRun(mem.cur)
    /\ \E s \in {mem.sess, NoSession} :
         mem' = Advance([mem EXCEPT !.sess =
                           [s EXCEPT !.status = "running", !.run = mem.cur]],
                        mem.cur, "started")
    /\ pc' = "opened"
    /\ old' = FALSE
    /\ UNCHANGED <<disk, lock, worker, retryRow, due, crashes, calm>>

SaveStart ==
    /\ pc = "opened"
    /\ Save(mem)
    /\ pc' = "started"
    /\ UNCHANGED <<lock, worker, run, retryRow, due, old, crashes, calm>>

\* consume_lane_retry and set_lane_status; a background dispatch also writes
\* its dispatch file and notes its heartbeat file.
MarkRunning ==
    /\ pc = "started"
    /\ retryRow' = (retryRow /\ ~mem.pending)
    /\ LET marked == Become([mem EXCEPT !.pending = FALSE], "running")
       IN  \/ /\ mem' = marked
              /\ pc' = "markedInline"
           \/ /\ mem' = Advance([marked EXCEPT !.sess.beat = mem.cur],
                                 mem.cur, "running")
              /\ pc' = "marked"
    /\ old' = FALSE
    /\ UNCHANGED <<disk, lock, worker, run, due, crashes, calm>>

\* The save before the actor may run.  An inline actor runs in the tick itself.
SaveRunning ==
    /\ \/ pc = "marked" /\ pc' = "prepared" /\ UNCHANGED worker
       \/ /\ pc = "markedInline" /\ pc' = "inline"
          /\ worker' = [worker EXCEPT ![mem.cur] = "working"]
    /\ Save(mem)
    /\ UNCHANGED <<lock, run, retryRow, due, old, crashes, calm>>

\* _spawn_actor_worker.
Spawn ==
    /\ pc = "prepared"
    /\ worker' = [worker EXCEPT ![mem.cur] = "spawned"]
    /\ pc' = "spawned"
    /\ UNCHANGED <<disk, mem, lock, run, retryRow, due, old, crashes, calm>>

SpawnFails ==
    /\ pc = "prepared"
    /\ run' = FinishRun(mem, "failed")
    /\ Save(Become(Close(mem, mem.cur, "failed"), "operator_attention"))
    /\ LeaveTick
    /\ old' = FALSE
    /\ UNCHANGED <<worker, retryRow, due, crashes, calm>>

\* The last save of a background dispatch: only now is the pid on disk.
RecordPid ==
    /\ pc = "spawned"
    /\ Save([mem EXCEPT !.sess.pid = mem.cur])
    /\ pc' = "ending"
    /\ old' = FALSE
    /\ UNCHANGED <<lock, worker, run, retryRow, due, crashes, calm>>
------------------------------------------------------------------------------
\* Actor results, filed by a worker under the state lock or by an inline tick.

\* How a turn ends: an output that moves the step on, one that asks to be called
\* again, one that is blocked or breaks the contract, or no output at all.
Outcome == {"done", "waiting", "blocked", "failed"}

\* record_actor_output, apply_actor_output_status and apply_step_after_actor_
\* output on the lane; without an output only the operator is called.
Note(l, o) ==
    LET taken == IF o = "failed" THEN l ELSE [l EXCEPT !.pending = FALSE]
    IN  IF o = "done" THEN [taken EXCEPT !.status = "open", !.step = "hold"]
        ELSE Become(taken, IF o = "waiting" THEN "open" ELSE "operator_attention")

\* _actor_output_runtime_status; "failed" stands for blocked too.
FinalOf(l) == IF l.status = "open" THEN "completed" ELSE "failed"

\* Taking an output clears the lane's engine retry.
ClearRetryFor(o) == retryRow' = (retryRow /\ o = "failed")

\* set_lane_step saves the record before the result is recorded.
SaveIfMoved(l, o) == disk' = IF o = "done" THEN l ELSE disk

\* on_session_ready and on_progress.
InlineProgress ==
    /\ pc = "inline"
    /\ Save(Advance(mem, mem.cur, "running"))
    /\ old' = FALSE
    /\ UNCHANGED <<lock, pc, worker, run, retryRow, due, crashes, calm>>

InlineNotes ==
    /\ pc = "inline"
    /\ \E o \in Outcome :
         /\ mem' = Note(mem, o)
         /\ SaveIfMoved(Note(mem, o), o)
         /\ ClearRetryFor(o)
    /\ pc' = "inlineFiling"
    /\ UNCHANGED <<lock, worker, run, due, old, crashes, calm>>

\* The step label cannot be moved: the handler of the tick saves a lane that
\* waits with its session running and its journal entry open.
InlineLabelFails ==
    /\ pc = "inline"
    /\ Save(Note(mem, "waiting"))
    /\ retryRow' = FALSE
    /\ worker' = [worker EXCEPT ![mem.cur] = "gone"]
    /\ LeaveTick
    /\ UNCHANGED <<run, due, old, crashes, calm>>

InlineCloses ==
    /\ pc = "inlineFiling"
    /\ run' = FinishRun(mem, FinalOf(mem))
    /\ mem' = Close(mem, mem.cur, FinalOf(mem))
    /\ worker' = [worker EXCEPT ![mem.cur] = "gone"]
    /\ pc' = "ending"
    /\ old' = FALSE
    /\ UNCHANGED <<disk, lock, retryRow, due, crashes, calm>>

\* _validate_background_lane.  It knows stage and actor, not the dispatch.
Accepts(l) == l.status = "running"

\* _load_background_actor_snapshot and the first heartbeat.
WorkerStarts(d) ==
    /\ worker[d] = "spawned" /\ lock = Free
    /\ worker' = [worker EXCEPT ![d] = IF Accepts(disk) THEN "working" ELSE "gone"]
    /\ UNCHANGED <<disk, mem, lock, pc, run, retryRow, due, old, crashes, calm>>

\* The turn of a worker process is over.
WorkerFinishes(d) ==
    /\ worker[d] = "working" /\ ~(pc \in {"inline", "inlineFiling"} /\ d = mem.cur)
    /\ worker' = [worker EXCEPT ![d] = "finished"]
    /\ UNCHANGED <<disk, mem, lock, pc, run, retryRow, due, old, crashes, calm>>

\* _finalize_background_actor_success or _failure, up to the result: a lane that
\* is not running refuses it and the process ends.
WorkerNotes(d) ==
    /\ worker[d] = "finished" /\ lock = Free
    /\ IF Accepts(disk)
       THEN /\ lock' = d
            /\ worker' = [worker EXCEPT ![d] = "filing"]
            /\ \E o \in Outcome :
                 /\ mem' = Note(disk, o)
                 /\ SaveIfMoved(Note(disk, o), o)
                 /\ ClearRetryFor(o)
       ELSE /\ worker' = [worker EXCEPT ![d] = "gone"]
            /\ UNCHANGED <<disk, mem, lock, retryRow>>
    /\ UNCHANGED <<pc, run, due, old, crashes, calm>>

\* record_actor_runtime_result: engine rows first.
WorkerCloses(d) ==
    /\ worker[d] = "filing"
    /\ run' = FinishRun(mem, FinalOf(mem))
    /\ mem' = Close(mem, d, FinalOf(mem))
    /\ worker' = [worker EXCEPT ![d] = "closing"]
    /\ old' = FALSE
    /\ UNCHANGED <<disk, lock, pc, retryRow, due, crashes, calm>>

WorkerSaves(d) ==
    /\ worker[d] = "closing"
    /\ Save(mem)
    /\ lock' = Free
    /\ worker' = [worker EXCEPT ![d] = "gone"]
    /\ UNCHANGED <<pc, run, retryRow, due, old, crashes, calm>>

\* The step label cannot be moved: the update raises, nothing is saved, and the
\* worker ends on the exception.
WorkerLabelFails(d) ==
    /\ worker[d] = "finished" /\ lock = Free /\ Accepts(disk)
    /\ retryRow' = FALSE
    /\ worker' = [worker EXCEPT ![d] = "gone"]
    /\ UNCHANGED <<disk, mem, lock, pc, run, due, old, crashes, calm>>

\* with_state_lock raises TimeoutError, before or after the turn.
LockTimesOut(d) ==
    /\ worker[d] \in {"spawned", "finished"} /\ lock # Free
    /\ worker' = [worker EXCEPT ![d] = "gone"]
    /\ UNCHANGED <<disk, mem, lock, pc, run, retryRow, due, old, crashes, calm>>
------------------------------------------------------------------------------
\* Time and faults.

Inline(d) == pc \in {"inline", "inlineFiling"} /\ d = mem.cur

\* A worker process dies at any point, and with it its hold on the lock (whose
\* lease runs out, or was never renewed again: StateLock).
WorkerDies(d) ==
    /\ Alive(d) /\ ~Inline(d)
    /\ worker' = [worker EXCEPT ![d] = "gone"]
    /\ IF lock = d THEN lock' = Free /\ mem' = disk ELSE UNCHANGED <<lock, mem>>
    /\ UNCHANGED <<disk, pc, run, retryRow, due, old, crashes, calm>>

\* The process of the tick is killed; workers it spawned live on.
TickCrashes ==
    /\ pc # "idle" /\ crashes < MaxCrashes
    /\ crashes' = crashes + 1 /\ calm' = FALSE
    /\ mem' = disk
    /\ worker' = [d \in Dispatch |-> IF Inline(d) THEN "gone" ELSE worker[d]]
    /\ LeaveTick
    /\ UNCHANGED <<disk, run, retryRow, due, old>>

\* The process the lane's heartbeat file belongs to writes it every few seconds.
Beating(l) == l.sess.beat # NoDispatch /\ Alive(l.sess.beat)

\* running-stale-seconds (half an hour) go by without a mark on the lane.  Unless
\* the host or a process is suspended that never happens while a live worker
\* beats for a running lane, or between two steps of a tick with no actor in it.
MarksGrowOld ==
    /\ ~old
    /\ LET awake == /\ pc \in {"idle", "inline"}
                    /\ ~(disk.status = "running" /\ Beating(disk))
       IN  (awake \/ Suspends) /\ calm' = (calm /\ awake)
    /\ old' = TRUE
    /\ UNCHANGED <<disk, mem, lock, pc, worker, run, retryRow, due, crashes>>

RetryFallsDue ==
    /\ ~due
    /\ due' = TRUE
    /\ UNCHANGED <<disk, mem, lock, pc, worker, run, retryRow, old, crashes, calm>>

TickStep ==
    \/ Reconcile \/ RefreshTracker \/ EndTick \/ MoveStep \/ ReleaseLane
    \/ SaveRelease \/ Plan \/ OpenRun \/ SaveStart \/ MarkRunning \/ SaveRunning
    \/ Spawn \/ RecordPid \/ InlineNotes \/ InlineCloses

WorkerStep(d) ==
    \/ WorkerStarts(d) \/ WorkerFinishes(d) \/ WorkerNotes(d)
    \/ WorkerCloses(d) \/ WorkerSaves(d) \/ LockTimesOut(d)

Next ==
    \/ TickStep \/ InlineProgress
    \/ TickRaises \/ SpawnFails \/ InlineLabelFails \/ TickCrashes
    \/ \E d \in Dispatch :
         WorkerStep(d) \/ WorkerLabelFails(d) \/ WorkerDies(d)
    \/ MarksGrowOld \/ RetryFallsDue

Spec == Init /\ [][Next]_vars

\* The daemon keeps ticking, a tick and a worker get on with it, an actor turn
\* ends, a wait for the lock ends (StateLock!WaiterReturns), time passes.
Fairness ==
    /\ WF_vars(TickStep)
    /\ \A d \in Dispatch : WF_vars(WorkerStep(d))
    /\ WF_vars(MarksGrowOld) /\ WF_vars(RetryFallsDue)

FairSpec == Spec /\ Fairness
------------------------------------------------------------------------------
\* No two actors ever work on the lane at once (route_code_lane, the dispatch
\* guard and reconcile_runtime_lanes together).
OneActorPerLane == \A d, e \in Dispatch : Acting(d) /\ Acting(e) => d = e

\* It holds until a tick is killed half way or a live worker's heartbeat is late.
CalmLaneHasOneActor == calm => OneActorPerLane

\* Until then a live actor is never lost from sight: before it files its result
\* the saved record names it as the latest session and holds its journal entry
\* open, unless the lane itself was released.
LiveActorIsKnown ==
    \A d \in Dispatch : calm /\ Alive(d) /\ lock # d /\ disk.status # "released" =>
        /\ disk.journal[d] \in Active
        /\ disk.sess.run = d

\* Until then what the saved journal calls closed, the engine calls closed in the
\* same way, or never heard of: no actor run is left running behind a closed entry.
RunsAgreeWithJournal ==
    \A d \in Dispatch : calm /\ disk.journal[d] \in Final /\ lock = Free =>
        \/ run[d] = disk.journal[d]
        \/ run[d] = "none" /\ disk.journal[d] = "interrupted"

\* An actor runs only for a dispatch the saved journal has.
JournaledBeforeRun ==
    \A d \in Dispatch : Alive(d) => disk.journal[d] # "none"

\* Whatever crashes: the guard never meets a conflict the route did not see, so
\* it never turns a recovered lane over to the operator.
GuardAgreesWithRoute ==
    pc = "routing" /\ ~RouteHolds(mem) => ~Conflict(mem)

\* A lane that has still to wait for its retry has a row in the engine's queue,
\* which is what wakes the daemon in time.  Once the retry is due the row may be
\* gone: a tick killed after it has deleted the row, to release the lane or to
\* dispatch it, leaves such a lane on disk, and any tick takes it up.
RetryIsWoken == disk.status = "retry_queued" /\ ~due => retryRow

\* Whatever crashes: what others go by is written before they need it and kept as
\* long as they do, the journal before the actor runs, the retry row before the
\* lane waits for it and for as long as it has to wait.
RecordsComeFirst == JournaledBeforeRun /\ RetryIsWoken

\* Giving up is bounded: no lane is interrupted more often than it may be tried.
RedoIsBounded ==
    Cardinality({d \in Dispatch : disk.journal[d] = "interrupted"}) <= MaxAttempts

Busy(l) ==
    /\ l.status # "released"
    /\ l.status = "running" \/ ActiveDispatch(l) # NoDispatch

\* Whoever dies, and whatever crashes: a lane does not stay busy for ever.
BusyLaneMovesOn == Busy(disk) ~> ~Busy(disk)
==============================================================================
