----------------------------- MODULE EngineStore -----------------------------
(***************************************************************************)
(* The tables of the engine database for one workflow (engine/db.py,       *)
(* store.py, state.py, retries.py, scheduler.py), and what is read from    *)
(* them: the retry wakeup, the scheduler payload, the lane projection of   *)
(* status and watch.                                                       *)
(*                                                                         *)
(* An operator that takes a database and gives one back is one COMMIT.     *)
(* That is finer than one method of EngineStore: every function of         *)
(* state.py begins with init_engine_state, which runs executescript, and   *)
(* Python's sqlite3 commits whatever is pending before a script.  A method *)
(* that calls two such functions in one "transaction" is two commits here  *)
(* (RecordItem and AppendTransition; the three Repair operators), and a    *)
(* process may die between them.                                           *)
(*                                                                         *)
(* Due times are the seconds left until them.  Abstracted: titles, urls    *)
(* and metadata of rows, token totals, heartbeat times.                    *)
(***************************************************************************)
EXTENDS Integers, Sequences, FiniteSets

CONSTANTS
    Lane,           \* work ids; a lane's id is its work id
    MaxAttempts,    \* RetryPolicy.max_attempts
    InitialDelay,   \* RetryPolicy.initial_delay_seconds
    MaxDelay        \* RetryPolicy.max_delay_seconds; the multiplier is 2

ASSUME PolicyAssumption ==
    /\ MaxAttempts \in Nat \ {0}
    /\ InitialDelay \in Nat /\ MaxDelay \in Nat

NotQueued == -1

Terminal == {"released"}        \* TERMINAL_LANE_STATUSES; complete alike

\* The status of a lane, which is also the state column of its work item.
\* "none" is a lane, or a row, that does not exist; waiting is as claimed.
Status == {"none", "claimed", "running", "retry_queued", "operator_attention"}
            \cup Terminal

\* What the state file has of a lane that the tables repeat.
LaneRecord ==
    [status  : Status,
     attempt : 1..MaxAttempts,
     thread  : BOOLEAN,                     \* its session has an identity
     due     : NotQueued..MaxDelay]         \* pending_retry.due_at_epoch

NewLane == [status |-> "none", attempt |-> 1, thread |-> FALSE, due |-> NotQueued]

\* The newest engine_runs row of mode tick and what engine_events tells of it.
TickRow == [status : {"none", "running", "completed", "failed"},
            told   : SUBSET {"started", "ended"}]

Database ==
    [item    : [Lane -> Status],            \* engine_work_items.state
     moved   : [Lane -> Status],            \* newest transition in engine_events
     running : SUBSET Lane,                 \* engine_running_work
     session : [Lane -> {"none", "blank", "thread"}],
     retry   : [Lane -> NotQueued..MaxDelay],
     tick    : TickRow]

EmptyDatabase ==
    [item    |-> [l \in Lane |-> "none"],
     moved   |-> [l \in Lane |-> "none"],
     running |-> {},
     session |-> [l \in Lane |-> "none"],
     retry   |-> [l \in Lane |-> NotQueued],
     tick    |-> [status |-> "none", told |-> {}]]

MinOf(S) == CHOOSE x \in S : \A y \in S : x <= y
------------------------------------------------------------------------------
\* Work items, and the two commits of record_work_item_event.

RecordItem(db, l, status) == [db EXCEPT !.item[l] = status]

AppendTransition(db, l, status) == [db EXCEPT !.moved[l] = status]
------------------------------------------------------------------------------
\* Retries.

\* retry_delay_seconds: the first retry waits InitialDelay, and each next one
\* twice as long, up to MaxDelay.
Delay(next) ==
    LET delay == InitialDelay * 2 ^ (IF next > 2 THEN next - 2 ELSE 0)
    IN IF delay \in 0..MaxDelay THEN delay ELSE MaxDelay

\* Variant: one retry too many.
MayRetryOnce(attempt) == attempt <= MaxAttempts

\* plan_retry, by its status.
MayRetry(attempt) == attempt < MaxAttempts

\* upsert_engine_retry_to_connection: the row, and the item with the status the
\* lane still has.
PutRetry(db, l, status, seconds) ==
    [RecordItem(db, l, status) EXCEPT !.retry[l] = seconds]

ClearRetry(db, l) == [db EXCEPT !.retry[l] = NotQueued]

Queued(db) == {l \in Lane : db.retry[l] # NotQueued}

\* retry_wakeup: next_due_in_seconds of a queue that is not empty.
NextDue(db) == MinOf({db.retry[l] : l \in Queued(db)})
------------------------------------------------------------------------------
\* Sessions and the scheduler snapshot.

\* upsert_runtime_session: a session is recorded before it has a thread.
RecordSession(db, l, rec) ==
    [RecordItem(db, l, rec.status) EXCEPT
       !.session[l] = IF rec.thread THEN "thread" ELSE "blank"]

RunningOf(lanes) == {l \in Lane : lanes[l].status = "running"}
ThreadOf(lanes) == {l \in Lane : lanes[l].thread}
WaitingOf(lanes) == {l \in Lane : lanes[l].status = "retry_queued"}

\* Variant: the old rows are not deleted.
SnapshotAdds(db, lanes) ==
    [db EXCEPT
       !.running = @ \cup RunningOf(lanes),
       !.session = [l \in Lane |-> IF lanes[l].thread THEN "thread" ELSE @[l]]]

\* save_scheduler with retry_entries = None, the snapshot after every save of
\* the state file: one commit.  Running work and sessions are rebuilt (sessions
\* without a thread are dropped), the items of those lanes are refreshed, and
\* the retry queue is left alone.
Snapshot(db, lanes) ==
    [db EXCEPT
       !.running = RunningOf(lanes),
       !.session = [l \in Lane |-> IF lanes[l].thread THEN "thread" ELSE "none"],
       !.item = [l \in Lane |->
                   IF l \in RunningOf(lanes) \cup ThreadOf(lanes)
                   THEN lanes[l].status ELSE db.item[l]]]

\* save_scheduler with retry entries.  The first row put into the queue commits
\* what was done before it: the sessions and the old queue are gone.
RepairCuts(db, lanes) ==
    [db EXCEPT
       !.running = RunningOf(lanes),
       !.session = [l \in Lane |-> "none"],
       !.item = [l \in Lane |->
                   IF l \in RunningOf(lanes) THEN lanes[l].status ELSE db.item[l]],
       !.retry = [l \in Lane |-> NotQueued]]

\* The last commit: the last row, the sessions and the totals.
RepairEnds(db, lanes) ==
    [db EXCEPT
       !.running = RunningOf(lanes),
       !.session = [l \in Lane |-> IF lanes[l].thread THEN "thread" ELSE "none"],
       !.retry = [l \in Lane |->
                    IF l \in WaitingOf(lanes) THEN lanes[l].due ELSE NotQueued],
       !.item = [l \in Lane |->
                   IF l \in RunningOf(lanes) \cup ThreadOf(lanes) \cup WaitingOf(lanes)
                   THEN lanes[l].status ELSE db.item[l]]]

\* _scheduler_state_from_connection: what load and read hand out.
SchedulerPayload(db) ==
    [running  |-> db.running,
     retries  |-> db.retry,
     sessions |-> {l \in Lane : db.session[l] = "thread"}]
------------------------------------------------------------------------------
\* Tick runs and their events.

StartTick(db) == [db EXCEPT !.tick = [status |-> "running", told |-> {}]]

TellTick(db, event) == [db EXCEPT !.tick.told = @ \cup {event}]

FinishTick(db, status) == [db EXCEPT !.tick.status = status]
------------------------------------------------------------------------------
\* What status and watch show.

\* project_engine_lane and project_state_lane, by the status of the lane: the
\* state of its work item, whatever the file has; what the file has.
ShownItem(db, l) == db.item[l]
ShownFile(lanes, l) == lanes[l].status

\* project_lane_map: the file only for a lane that has no item.
Shown(db, lanes) ==
    [l \in Lane |-> IF db.item[l] # "none" THEN ShownItem(db, l)
                    ELSE ShownFile(lanes, l)]

ShownActive(db, lanes) ==
    {l \in Lane : Shown(db, lanes)[l] \notin Terminal \cup {"none"}}

ActiveOf(lanes) == {l \in Lane : lanes[l].status \notin Terminal \cup {"none"}}
==============================================================================
