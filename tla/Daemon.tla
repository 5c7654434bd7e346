------------------------------- MODULE Daemon -------------------------------
(***************************************************************************)
(* The daemon and the engine tables it lives on: the loop that ticks and   *)
(* sleeps (services/daemon.py), the order in which a tick, a worker or an  *)
(* operator command writes the tables and the state file                   *)
(* (workflows/step_runner.py, tick_journal.py, lane_state.py,              *)
(* state_retries.py, state_io.py), and the doctor that rewrites the tables *)
(* from the file without the state lock (core/doctor.py).                  *)
(*                                                                         *)
(* Whoever holds the state lock works on mem and has a list of commits     *)
(* still to do; each is one step, and a process may be killed before any   *)
(* of them.  EngineStore says what one commit does.                        *)
(*                                                                         *)
(* Abstracted: what moves a lane (LaneDispatch, StepLabels and Intake have *)
(* it); the saves of the dispatch journal, which change no column here;    *)
(* events other than transitions and ticks.  A lane is always at a step    *)
(* that dispatches.  A second is the scale of all times.                   *)
(***************************************************************************)
EXTENDS EngineStore, Leases

CONSTANTS
    Daemon,         \* owner ids; a started process has one no row names
    TTL,            \* --lease-ttl
    ActiveInterval, IdleInterval, ErrorInterval, MaxRetrySleep,
    Jitter,         \* bound: what jitter may add to a sleep
    MaxTick,        \* bound: seconds from the lease to the end of a tick
    MaxUpsets       \* bound: kills, stops, failed ticks, operator commands,
                    \* doctor runs

NoOne == "no one"
Outside == "a worker or an operator"

ASSUME BoundAssumption ==
    /\ Lane # {}
    /\ {NoOwner, NoOne, Outside} \cap Daemon = {}
    /\ {TTL, ActiveInterval, IdleInterval, ErrorInterval, MaxRetrySleep}
         \subseteq Nat \ {0}
    /\ {Jitter, MaxTick, MaxUpsets} \subseteq Nat
    /\ MaxTick < TTL

VARIABLES
    file,       \* the lanes of the state file
    db,         \* the engine tables
    lease,      \* the workflow-daemon lease
    daemon,     \* the daemon processes
    holder,     \* who holds the state lock
    mem,        \* the lanes of the holder
    stage,      \* where the holder is
    left,       \* lanes a loop of the tick has still to look at
    todo,       \* commits the holder is in the middle of
    at, to,     \* the lane they are about, and its record when they are done
    doctor,     \* where the repair of the projections is
    copy,       \* the state file as the repair has read it
    upsets,
    torn        \* tables that a process has left half written by its death or a
                \* tick by its handler's failure, or a repair by meeting a writer

lanes == <<mem, stage, left, todo, at, to>>
repair == <<doctor, copy>>
vars == <<file, db, lease, daemon, holder, lanes, repair, upsets, torn>>

SomeLane == CHOOSE l \in Lane : TRUE

Awake == {"locking", "ticking", "ticked"}

AllTables == {"items", "retries", "scheduler"}

\* The longest a daemon sleeps.
Longest == CHOOSE n \in {ActiveInterval, IdleInterval, ErrorInterval} :
               \A m \in {ActiveInterval, IdleInterval, ErrorInterval} : m <= n

Commits == {"start", "started", "clear", "put", "set", "item", "event", "session",
            "save", "snap", "ended", "completed", "failed"}

\* Types; sleeps and ticks within their bounds, attempts within the retry limit.
TypeOK ==
    /\ file \in [Lane -> LaneRecord] /\ mem \in [Lane -> LaneRecord]
    /\ copy \in [Lane -> LaneRecord]
    /\ db \in Database
    /\ lease \in LeaseRow(Daemon, TTL)
    /\ daemon \in [Daemon -> [pc    : {"down", "ready", "asleep"} \cup Awake,
                              sleep : 0..(Longest + Jitter),
                              age   : 0..MaxTick,
                              stop  : BOOLEAN]]
    /\ holder \in {NoOne, Outside} \cup Daemon
    /\ stage \in {"none", "reconcile", "intake", "route", "leave"}
    /\ left \subseteq Lane
    /\ todo \in Seq(Commits)
    /\ at \in Lane /\ to \in LaneRecord
    /\ doctor \in {"idle", "read", "cut"}
    /\ upsets \in 0..MaxUpsets /\ torn \subseteq AllTables

Down == [pc |-> "down", sleep |-> 0, age |-> 0, stop |-> FALSE]

Init ==
    /\ file = [l \in Lane |-> NewLane] /\ mem = file /\ copy = file
    /\ db = EmptyDatabase
    /\ lease = NoRow
    /\ daemon = [d \in Daemon |-> Down]
    /\ holder = NoOne /\ stage = "none" /\ left = {} /\ todo = <<>>
    /\ at = SomeLane /\ to = NewLane
    /\ doctor = "idle"
    /\ upsets = 0 /\ torn = {}
------------------------------------------------------------------------------
\* The loop of the daemon.

\* Nobody is between two commits.  What a daemon does apart from the tables, and
\* the clock, wait for it: they touch nothing the commits touch.
Settling == todo = <<>>

\* A new process has an owner id that keeps nobody out.
Unused(d) == daemon[d].pc = "down" /\ (lease.owner = d => ~Blocking(lease))

\* systemd starts the service (again), or an operator runs a daemon beside it.
\* Bound: nothing else goes wrong with two.
Start(d) ==
    /\ Settling
    /\ \E c \in Daemon : Unused(c)
    /\ d = CHOOSE c \in Daemon : Unused(c)
    /\ IF \A c \in Daemon : daemon[c].pc = "down"
       THEN UNCHANGED upsets
       ELSE upsets = 0 /\ MaxUpsets > 0 /\ upsets' = MaxUpsets
    /\ daemon' = [daemon EXCEPT ![d].pc = "ready"]
    /\ UNCHANGED <<file, db, lease, holder, lanes, repair, torn>>

\* Variant: the sleep forgets the queue.
SleepOfStatus(active, wait) ==
    IF active THEN ActiveInterval ELSE IdleInterval

\* _next_sleep_seconds; wait is the seconds to the next queued retry.
NextSleep(active, wait) ==
    LET base == IF active THEN ActiveInterval ELSE IdleInterval
        soon == MinOf({base, MaxRetrySleep, wait})
    IN IF wait = NotQueued THEN base ELSE IF soon = 0 THEN 1 ELSE soon

Sleeping(d, seconds) ==
    \E j \in 0..Jitter :
        daemon' = [daemon EXCEPT ![d].pc = "asleep", ![d].sleep = seconds + j,
                                 ![d].age = 0]

\* The head of the loop: stop and release, or ask for the lease.
Acquire(d) ==
    /\ daemon[d].pc = "ready" /\ ~daemon[d].stop /\ Settling
    /\ lease' = AcquireLease(lease, d, TTL)
    /\ IF lease'.owner = d
       THEN daemon' = [daemon EXCEPT ![d].pc = "locking"]
       ELSE Sleeping(d, IdleInterval)
    /\ UNCHANGED <<file, db, holder, lanes, repair, upsets, torn>>

LeaveLoop(d) ==
    /\ daemon[d].pc = "ready" /\ daemon[d].stop /\ Settling
    /\ lease' = ReleaseLease(lease, d)
    /\ daemon' = [daemon EXCEPT ![d] = Down]
    /\ UNCHANGED <<file, db, holder, lanes, repair, upsets, torn>>

\* The state lock was not free in time: the tick has failed before it began.
LockTimesOut(d) ==
    /\ daemon[d].pc = "locking" /\ holder # NoOne /\ Settling
    /\ Sleeping(d, ErrorInterval)
    /\ UNCHANGED <<file, db, lease, holder, lanes, repair, upsets, torn>>

\* build_status after the tick, and the sleep it asks for.
FallAsleep(d) ==
    /\ daemon[d].pc = "ticked"
    /\ \/ /\ db.tick.status # "failed"
          /\ Sleeping(d, NextSleep(ShownActive(db, file) # {},
                                   IF Queued(db) = {} THEN NotQueued ELSE NextDue(db)))
       \/ db.tick.status = "failed" /\ Sleeping(d, ErrorInterval)
    /\ UNCHANGED <<file, db, lease, holder, lanes, repair, upsets, torn>>

\* _sleep_or_stop: time is up, or a signal.
Wake(d) ==
    /\ Settling
    /\ daemon[d].pc = "asleep" /\ (daemon[d].sleep = 0 \/ daemon[d].stop)
    /\ daemon' = [daemon EXCEPT ![d].pc = "ready", ![d].sleep = 0]
    /\ UNCHANGED <<file, db, lease, holder, lanes, repair, upsets, torn>>

\* SIGTERM only sets a flag.
Stop(d) ==
    /\ upsets < MaxUpsets /\ upsets' = upsets + 1
    /\ daemon[d].pc # "down" /\ ~daemon[d].stop
    /\ daemon' = [daemon EXCEPT ![d].stop = TRUE]
    /\ UNCHANGED <<file, db, lease, holder, lanes, repair, torn>>
------------------------------------------------------------------------------
\* One commit, or one change of the lane in memory, of the lock holder.

\* What the tables are after it.
Written(step) ==
    CASE step = "start"     -> StartTick(db)
      [] step = "started"   -> TellTick(db, "started")
      [] step = "clear"     -> ClearRetry(db, at)
      [] step = "put"       -> PutRetry(db, at, mem[at].status, to.due)
      [] step = "item"      -> RecordItem(db, at, mem[at].status)
      [] step = "event"     -> AppendTransition(db, at, mem[at].status)
      [] step = "session"   -> RecordSession(db, at, mem[at])
      [] step = "snap"      -> Snapshot(db, mem)
      [] step = "ended"     -> TellTick(db, "ended")
      [] step \in {"completed", "failed"} -> FinishTick(db, step)
      [] OTHER              -> db

Commit ==
    /\ todo # <<>>
    /\ db' = Written(Head(todo))
    /\ mem' = IF Head(todo) = "set" THEN [mem EXCEPT ![at] = to] ELSE mem
    /\ file' = IF Head(todo) = "save" THEN mem ELSE file
    /\ todo' = Tail(todo)
    /\ IF todo' = <<>> THEN at' = SomeLane /\ to' = NewLane ELSE UNCHANGED <<at, to>>
    /\ torn' = IF Head(todo) = "snap" THEN torn \ {"scheduler"} ELSE torn
    /\ UNCHANGED <<lease, daemon, holder, stage, left, repair, upsets>>

\* The holder begins to change lane l into record, by these steps.
Begin(l, record, steps) ==
    /\ at' = l /\ to' = record /\ todo' = steps

\* set_lane_status: the lane, then the work item and the event.
Transition == <<"set", "item", "event">>
Saved == <<"save", "snap">>
------------------------------------------------------------------------------
\* The lane operations.  Each is a lane's next record and the steps to it.

Moved(l, status) == [mem[l] EXCEPT !.status = status]

Settled(l, status) == [mem[l] EXCEPT !.status = status, !.due = NotQueued]

\* queue_lane_retry: the row first, with the status the lane still has; over
\* the limit, operator attention.
Requeued(l) ==
    IF MayRetry(mem[l].attempt)
    THEN Begin(l, [mem[l] EXCEPT !.status = "retry_queued", !.attempt = @ + 1,
                                 !.due = Delay(mem[l].attempt + 1)],
               <<"put">> \o Transition)
    ELSE Begin(l, Moved(l, "operator_attention"), Transition)

Visit(l) == l \in left /\ left' = left \ {l}

InTick(s) == holder \in Daemon /\ stage = s /\ todo = <<>>

tickEnv == <<file, db, lease, daemon, holder, mem, repair, upsets, torn>>

\* A running lane found dead, or a lane whose issue has left the workflow, or a
\* lane left alone (lane_reconcile).  Nothing is saved before the last lane.
Reconcile(l) ==
    /\ InTick("reconcile") /\ Visit(l)
    /\ \/ mem[l].status = "running" /\ Requeued(l)
       \/ /\ l \in ActiveOf(mem)
          /\ Begin(l, Moved(l, "released"), Transition)
       \/ UNCHANGED <<at, to, todo>>
    /\ UNCHANGED <<tickEnv, stage>>

ReconcileEnds ==
    /\ InTick("reconcile") /\ left = {}
    /\ stage' = "intake" /\ left' = Lane \ ActiveOf(mem)
    /\ UNCHANGED <<tickEnv, todo, at, to>>

\* A claimed issue has an item and no transition event.
Claim(l) ==
    /\ InTick("intake") /\ Visit(l)
    /\ \/ Begin(l, [NewLane EXCEPT !.status = "claimed"], <<"set", "item">>)
       \/ UNCHANGED <<at, to, todo>>
    /\ UNCHANGED <<tickEnv, stage>>

IntakeEnds ==
    /\ InTick("intake") /\ left = {}
    /\ stage' = "route" /\ left' = ActiveOf(mem)
    /\ todo' = Saved
    /\ UNCHANGED <<tickEnv, at, to>>

\* Variant: the row decides, not the lane.
DueByRow(l) ==
    \/ mem[l].status = "claimed"
    \/ mem[l].status = "retry_queued" /\ db.retry[l] = 0

\* actor_dispatch_conflicts lets a lane pass whose retry, if any, is due.
MayDispatch(l) ==
    \/ mem[l].status = "claimed"
    \/ mem[l].status = "retry_queued" /\ mem[l].due = 0

\* dispatch_stage_actor_background up to the worker: consume_lane_retry clears
\* the row of a pending retry before the lane is running.
Dispatched(l) ==
    Begin(l, Settled(l, "running"),
          <<"session">>
          \o (IF mem[l].due # NotQueued THEN <<"clear">> ELSE <<>>)
          \o Transition \o <<"session">> \o Saved)

\* A lane that may be dispatched is, or it is verified done and released; every
\* other lane holds.  A claimed lane may wait for its turn (capacity, worktree); a
\* due retry goes on, since a lane is always at a step that dispatches.
Route(l) ==
    /\ InTick("route") /\ Visit(l)
    /\ \/ MayDispatch(l) /\ Dispatched(l)
       \/ MayDispatch(l) /\ Begin(l, Settled(l, "released"),
                                  <<"clear">> \o Transition \o <<"item">> \o Saved)
       \/ (mem[l].status = "claimed" \/ ~MayDispatch(l)) /\ UNCHANGED <<at, to, todo>>
    /\ UNCHANGED <<tickEnv, stage>>

\* Variant: the run is finished before its last event is written.
TickEndsEarly(status) == Saved \o <<status, "ended">>

\* The save of the tick, the terminal event, the end of the run.
TickEnds(status) == Saved \o <<"ended", status>>

EndTick ==
    /\ InTick("route") /\ left = {}
    /\ stage' = "leave" /\ todo' = TickEnds("completed")
    /\ UNCHANGED <<tickEnv, left, at, to>>

\* An exception at a lane, which the handler files: the lanes behind it are not
\* looked at.
TickFails ==
    /\ upsets < MaxUpsets /\ upsets' = upsets + 1
    /\ holder \in Daemon /\ stage \in {"reconcile", "intake", "route"} /\ todo = <<>>
    /\ stage' = "leave" /\ todo' = TickEnds("failed") /\ left' = {}
    /\ UNCHANGED <<file, db, lease, daemon, holder, mem, at, to, repair, torn>>

\* The holder is gone, and with it the lanes and the list it had.
Vanishes ==
    /\ holder' = NoOne /\ stage' = "none" /\ left' = {} /\ todo' = <<>>
    /\ mem' = [l \in Lane |-> NewLane]
    /\ at' = SomeLane /\ to' = NewLane
    /\ torn' = AllTables

\* A write fails where no handler is left to file it: the first event, before the
\* try of the tick, or a write of the handler itself.  The tick command ends with
\* an error and the run stays "running".
TickBreaks(d) ==
    /\ upsets < MaxUpsets /\ upsets' = upsets + 1
    /\ holder = d /\ todo # <<>>
    /\ Head(todo) = "started" \/ todo[Len(todo)] = "failed"
    /\ Vanishes
    /\ Sleeping(d, ErrorInterval)
    /\ UNCHANGED <<file, db, lease, repair>>
------------------------------------------------------------------------------
\* Who takes the state lock.

\* Bound: a repair meets the saves of one holder at most.
LetIn == holder = NoOne /\ (doctor = "idle" \/ copy = file)

\* tick_step_locked: the run, its first event, the state file.
EnterTick(d) ==
    /\ daemon[d].pc = "locking" /\ LetIn
    /\ holder' = d
    /\ daemon' = [daemon EXCEPT ![d].pc = "ticking"]
    /\ stage' = "reconcile" /\ left' = ActiveOf(file)
    /\ mem' = file
    /\ todo' = <<"start", "started">>
    /\ UNCHANGED <<file, db, lease, at, to, repair, upsets, torn>>

\* A worker files a result: good, or one for the operator.
File(l) ==
    /\ LetIn /\ file[l].status = "running"
    /\ holder' = Outside
    /\ stage' = "leave" /\ mem' = file
    /\ \E status \in {"claimed", "operator_attention"}, known \in {file[l].thread, TRUE} :
          /\ at' = l
          /\ to' = [file[l] EXCEPT !.status = status, !.thread = known]
          /\ todo' = <<"clear">> \o Transition \o <<"session">> \o Saved
    /\ UNCHANGED <<file, db, lease, daemon, left, repair, upsets, torn>>

\* surface_operator: retry, and release or complete.
Operate(l) ==
    /\ upsets < MaxUpsets /\ upsets' = upsets + 1
    /\ LetIn /\ holder' = Outside
    /\ stage' = "leave" /\ mem' = file
    /\ at' = l
    /\ \/ /\ file[l].status \in {"claimed", "operator_attention"}
          /\ MayRetry(file[l].attempt)
          /\ to' = [file[l] EXCEPT !.status = "retry_queued", !.attempt = @ + 1,
                                   !.due = Delay(file[l].attempt + 1)]
          /\ todo' = <<"put">> \o Transition \o Saved
       \/ /\ file[l].status \in {"claimed", "retry_queued", "operator_attention"}
          /\ to' = [file[l] EXCEPT !.status = "released", !.due = NotQueued]
          /\ todo' = <<"clear">> \o Transition \o Saved
    /\ UNCHANGED <<file, db, lease, daemon, left, repair, torn>>

\* The end of with_state_lock.
Leave ==
    /\ stage = "leave" /\ todo = <<>>
    /\ holder' = NoOne /\ stage' = "none"
    /\ daemon' = IF holder = Outside THEN daemon
                 ELSE [daemon EXCEPT ![holder].pc = "ticked"]
    /\ mem' = [l \in Lane |-> NewLane]
    /\ at' = SomeLane /\ to' = NewLane
    /\ UNCHANGED <<file, db, lease, left, todo, repair, upsets, torn>>
------------------------------------------------------------------------------
\* The doctor's repair, time, and death.

\* load_state, without the state lock.
DoctorReads ==
    /\ upsets < MaxUpsets /\ upsets' = upsets + 1
    /\ doctor = "idle" /\ doctor' = "read" /\ Settling
    /\ copy' = file
    /\ UNCHANGED <<file, db, lease, daemon, holder, lanes, torn>>

Meets == holder # NoOne \/ copy # file

\* With waiting lanes the repair has more than one commit.
DoctorCuts ==
    /\ doctor = "read" /\ WaitingOf(copy) # {} /\ doctor' = "cut"
    /\ db' = RepairCuts(db, copy)
    /\ torn' = IF Meets THEN AllTables ELSE torn
    /\ UNCHANGED <<file, lease, daemon, holder, lanes, copy, upsets>>

DoctorEnds ==
    /\ doctor = IF WaitingOf(copy) = {} THEN "read" ELSE "cut"
    /\ doctor' = "idle" /\ copy' = [l \in Lane |-> NewLane]
    /\ db' = RepairEnds(db, copy)
    /\ torn' = IF Meets THEN AllTables ELSE torn \ {"retries", "scheduler"}
    /\ UNCHANGED <<file, lease, daemon, holder, lanes, upsets>>

Sooner(due) == IF due > 0 THEN due - 1 ELSE due

Later(records) == [l \in Lane |-> [records[l] EXCEPT !.due = Sooner(@)]]

\* A second passes.  A daemon wakes in time, and a tick ends in time.
Second ==
    /\ Settling
    /\ \A d \in Daemon :
          /\ daemon[d].pc \in Awake => daemon[d].age < MaxTick
          /\ daemon[d].pc = "asleep" => daemon[d].sleep > 0
          /\ daemon[d].pc # "ready"
    /\ daemon' = [d \in Daemon |->
                    [daemon[d] EXCEPT
                       !.age   = IF daemon[d].pc \in Awake THEN @ + 1 ELSE @,
                       !.sleep = IF daemon[d].pc = "asleep" THEN @ - 1 ELSE @]]
    /\ lease' = Aged(lease)
    /\ file' = Later(file) /\ mem' = Later(mem) /\ copy' = Later(copy)
    /\ to' = [to EXCEPT !.due = Sooner(@)]
    /\ db' = [db EXCEPT !.retry = [l \in Lane |-> Sooner(db.retry[l])]]
    /\ UNCHANGED <<holder, stage, left, todo, at, doctor, upsets, torn>>

\* kill -9 of a daemon, and of whoever holds the lock: the state lock's lease
\* runs out (StateLock), the daemon's too.
Kill(d) ==
    /\ upsets < MaxUpsets /\ upsets' = upsets + 1
    /\ daemon[d].pc # "down"
    /\ daemon' = [daemon EXCEPT ![d] = Down]
    /\ IF holder = d THEN Vanishes ELSE UNCHANGED <<holder, lanes, torn>>
    /\ UNCHANGED <<file, db, lease, repair>>

KillOther ==
    /\ upsets < MaxUpsets /\ upsets' = upsets + 1
    /\ \/ /\ holder = Outside
          /\ holder' = NoOne /\ stage' = "none" /\ todo' = <<>>
          /\ mem' = [l \in Lane |-> NewLane]
          /\ at' = SomeLane /\ to' = NewLane
          /\ UNCHANGED <<left, repair>>
       \/ /\ doctor = "cut" /\ doctor' = "idle"
          /\ copy' = [l \in Lane |-> NewLane]
          /\ UNCHANGED <<holder, lanes>>
    /\ torn' = AllTables
    /\ UNCHANGED <<file, db, lease, daemon>>
------------------------------------------------------------------------------
Loop(d) == Acquire(d) \/ LeaveLoop(d) \/ EnterTick(d) \/ FallAsleep(d) \/ Wake(d)

\* What a holder of the state lock goes on to do.
Work ==
    \/ Commit
    \/ \E l \in Lane : Reconcile(l) \/ Claim(l) \/ Route(l)
    \/ ReconcileEnds \/ IntakeEnds \/ EndTick \/ Leave

Next ==
    \/ \E d \in Daemon : Start(d) \/ Loop(d) \/ LockTimesOut(d) \/ Stop(d) \/ Kill(d)
                        \/ TickBreaks(d)
    \/ Work \/ TickFails
    \/ \E l \in Lane : File(l) \/ Operate(l)
    \/ DoctorReads \/ DoctorCuts \/ DoctorEnds \/ KillOther
    \/ Second

Spec == Init /\ [][Next]_vars

\* Processes run, time passes, and systemd restarts a service that has ended.
FairSpec ==
    /\ Spec
    /\ \A d \in Daemon : WF_vars(Loop(d))
    /\ WF_vars(\E d \in Daemon : Start(d))
    /\ WF_vars(Work)
    /\ WF_vars(DoctorCuts \/ DoctorEnds)
    /\ WF_vars(Second)
------------------------------------------------------------------------------
\* Nobody is in the middle of anything.
Quiet == holder = NoOne /\ doctor = "idle"

\* While ticks are shorter than the lease lives, two daemons of one workflow are
\* never awake at once, whoever has slept past its lease, died or was stopped
\* (run_workflow_daemon).
OneDaemonAwake ==
    \A c, d \in Daemon : daemon[c].pc \in Awake /\ daemon[d].pc \in Awake => c = d

\* A lane that waits for a retry has the row the daemon is woken by, with the
\* lane's due time: after any saves of the state file, and after a repair that
\* met no writer even if a process died before it (schedule_retry,
\* consume_lane_retry, save_scheduler).
WaitingLaneIsQueued ==
    Quiet /\ "retries" \notin torn =>
        \A l \in WaitingOf(file) : db.retry[l] = file[l].due

\* Unless a process died between two commits or a repair met a writer, the work
\* items tell the statuses of the state file, and the newest transition event
\* too; a claim writes no event (record_work_item_event, record_engine_lane).
ItemsFollowFile ==
    Quiet /\ "items" \notin torn =>
        \A l \in Lane : /\ db.item[l] = file[l].status
                       /\ db.item[l] \in {"none", "claimed", db.moved[l]}

\* Whatever a dead process left, after the next snapshot the running work and
\* the sessions are those of the state file (save_scheduler_snapshot).
SchedulerFollowsFile ==
    Quiet /\ "scheduler" \notin torn =>
        /\ db.running = RunningOf(file)
        /\ SchedulerPayload(db).sessions = ThreadOf(file)

\* The engine's tables tell what the state file tells, whoever died between two
\* commits, once the next save or an undisturbed repair has been.
TablesFollowFile == WaitingLaneIsQueued /\ ItemsFollowFile /\ SchedulerFollowsFile

\* A tick run that is finished has its first and its last event, and a run that
\* is left running belongs to a tick that goes on, was killed, or could not write
\* what its handler, or its first event, had to tell (tick_journal).
TickIsAccounted ==
    /\ db.tick.status \in {"completed", "failed"} => db.tick.told = {"started", "ended"}
    /\ db.tick.status = "running" /\ torn = {} => holder \in Daemon

\* A daemon that is left alone does not sleep past a queued retry by more than
\* a second and the jitter, except for the pause after a tick that has failed
\* (_next_sleep_seconds, run_workflow_daemon).
WakesForRetry ==
    upsets = 0 =>
        \A d \in Daemon, l \in Queued(db) :
            daemon[d].pc = "asleep" =>
                \/ daemon[d].sleep <= db.retry[l] + 1 + Jitter
                \/ daemon[d].sleep <= ErrorInterval + Jitter

\* A waiting lane gets its turn, or is given up, even if its row was lost.
DueRetryIsTaken ==
    \A l \in Lane : file[l].status = "retry_queued" ~> file[l].status # "retry_queued"

\* Ticks go on for ever: no failed tick, dead daemon, foreign lease or stop with
\* a restart ends them.
TicksGoOn == []<>(holder \in Daemon)
==============================================================================
