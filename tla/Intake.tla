------------------------------- MODULE Intake -------------------------------
(***************************************************************************)
(* From an issue labelled todo to a lane and back: intake and claims       *)
(* (workflows/lane_intake.py), the tracker refresh that gives lanes up     *)
(* (lane_reconcile.py), the operator's commands (surface_operator.py), and *)
(* several lanes in one tick.                                              *)
(*                                                                         *)
(* A claim is a lease in the engine database, two label edits, a workpad   *)
(* comment, and a save of the state file at the end of intake.  Ticks run  *)
(* one after the other (StateLock); mem is the state the tick has loaded.  *)
(*                                                                         *)
(* Abstracted: a dispatch, from its plan to the saved pid, is one step     *)
(* (LaneDispatch has all of it), and so is the move of the step label that *)
(* follows a result (StepLabels).  "code" stands for the active steps,     *)
(* "claimed" for waiting too, "released" for complete.  The runner owns    *)
(* the workpad; a skipped workpad is as good as one that works.            *)
(***************************************************************************)
EXTENDS Naturals, FiniteSets

CONSTANTS
    Issue, NoIssue,
    MaxLanes,       \* concurrency.max-lanes
    MaxRunners,     \* bound: processes that run ticks, one after the other
    MaxUpsets       \* bound: label edits by people, failed tracker calls,
                    \* exceptions and killed ticks

ASSUME BoundAssumption ==
    /\ IsFiniteSet(Issue) /\ NoIssue \notin Issue
    /\ MaxLanes \in Nat \ {0} /\ MaxRunners \in Nat \ {0}
    /\ MaxUpsets \in Nat

Runner == 1..MaxRunners
NoRunner == 0
Label == {"todo", "code", "done"}

\* The claim lease of an issue lives a day and is never renewed: it has a day
\* left, or none.
Lease == INSTANCE Leases WITH NoOwner <- NoRunner

VARIABLES
    tracker,    \* the labels of each issue
    lease,      \* its claim lease
    disk,       \* the lanes in the state file
    mem,        \* the lanes of the tick that holds the state lock
    pc,         \* where the tick is
    read,       \* labels of the candidates the tick has listed
    queue,      \* issues the loop of the tick has still to look at
    cur,        \* the issue being claimed, if any
    me,         \* the process that runs the ticks
    actors,     \* live actors: the issue, and the claim they work for
    upsets,     \* edits and faults so far
    crashes     \* ticks that were killed

vars == <<tracker, lease, disk, mem, pc, read, queue, cur, me, actors,
          upsets, crashes>>
env == <<upsets, crashes>>

Lane == [status : {"none", "claimed", "running", "retry", "attention",
                   "pad_failed", "released"},
         claim  : Nat,                      \* which claim of the issue it is
         owner  : Runner \cup {NoRunner},   \* owner_instance_id of its lease
         seen   : SUBSET Label,             \* labels last read
         pad    : {"none", "ok", "failed"}, \* workpad
         was    : {"none", "claimed", "retry", "attention"}]   \* blocked_status

NoLane == [status |-> "none", claim |-> 0, owner |-> NoRunner, seen |-> {},
           pad |-> "none", was |-> "none"]

\* Types; the status put aside for want of a workpad is one that may come back.
TypeOK ==
    /\ tracker \in [Issue -> SUBSET Label]
    /\ lease \in [Issue -> Lease!LeaseRow(Runner, 1)]
    /\ disk \in [Issue -> Lane] /\ mem \in [Issue -> Lane]
    /\ pc \in {"idle", "refresh", "repair", "list", "claiming", "leased",
               "unlabelled", "labelled", "routing"}
    /\ read \in [Issue -> SUBSET Label]
    /\ queue \in SUBSET Issue
    /\ cur \in IF pc \in {"leased", "unlabelled", "labelled"} THEN queue ELSE {NoIssue}
    /\ me \in Runner
    /\ actors \in SUBSET (Issue \X Nat)
    /\ upsets \in 0..MaxUpsets /\ crashes \in 0..upsets

\* Everything starts with issues people have labelled, and no state file.
Init ==
    /\ tracker = [i \in Issue |-> {"todo"}]
    /\ lease = [i \in Issue |-> Lease!NoRow]
    /\ disk = [i \in Issue |-> NoLane] /\ mem = disk
    /\ pc = "idle"
    /\ read = [i \in Issue |-> {}] /\ queue = {}
    /\ cur = NoIssue
    /\ me = 1
    /\ actors = {}
    /\ upsets = 0 /\ crashes = 0
------------------------------------------------------------------------------
\* Lanes.

\* not lane_is_terminal.
Active(l) == l.status \notin {"none", "released"}
ActiveIn(lanes) == {i \in Issue : Active(lanes[i])}

\* Variant: the lane may be one lane too many.
RoomForOneMore(lanes) == Cardinality(ActiveIn(lanes)) <= MaxLanes

\* claim_new_lanes: len(claimed) < available, where available was max-lanes less
\* the lanes active when intake began.
HasRoom(lanes) == Cardinality(ActiveIn(lanes)) < MaxLanes

\* known_lane_ids of _eligible_candidates, and the same test before the claim.
Claimable(l) == ~Active(l)

\* _eligible_candidates: the required label and none of the excluded.
Eligible(labels) == "todo" \in labels /\ "done" \notin labels

\* step_from_labels and issue_is_still_active.
OnActiveStep(labels) == "code" \in labels /\ "done" \notin labels

NewLane(i) ==
    [status |-> "claimed", claim |-> mem[i].claim + 1, owner |-> me,
     seen |-> read[i], pad |-> "none", was |-> "none"]

\* A terminal lane; nothing else of it is read again.
Released(l) == [NoLane EXCEPT !.status = "released", !.claim = l.claim]

\* Variant: the lease of the process that gives the lane up.
ReleaseMyLease(i, l) == Lease!ReleaseLease(lease[i], me)

\* release_lane_lease: in the name of the owner the lane was claimed by.
ReleaseLaneLease(i, l) == Lease!ReleaseLease(lease[i], l.owner)

\* Give up the lanes of gone: their leases are released at once, the lanes with
\* the next save.
ReleaseLanes(lanes, gone) ==
    /\ mem' = [i \in Issue |-> IF i \in gone THEN Released(lanes[i]) ELSE lanes[i]]
    /\ lease' = [i \in Issue |-> IF i \in gone THEN ReleaseLaneLease(i, lanes[i])
                                 ELSE lease[i]]

\* Variant: a workpad that was never made is not repaired.
NeedsPadFailed(l) == Active(l) /\ l.pad = "failed"

\* _lane_needs_workpad_repair.
NeedsPad(l) == Active(l) /\ l.pad # "ok"

\* Variant: the status is put aside again when the repair fails.
PadFailsAgain(l) ==
    [l EXCEPT !.status = "pad_failed", !.pad = "failed", !.was = l.status]

\* _ensure_claimed_lane_workpad when the tracker fails: the status is put aside.
PadFails(l) ==
    [l EXCEPT !.status = "pad_failed", !.pad = "failed",
              !.was = IF l.status = "pad_failed" THEN @ ELSE l.status]

\* ... and when it works: the status that was put aside comes back, except that
\* operator_attention comes back as claimed.
PadWorks(l) ==
    [l EXCEPT !.pad = "ok", !.was = "none",
              !.status = IF @ # "pad_failed" THEN @
                         ELSE IF l.was = "retry" THEN "retry" ELSE "claimed"]

\* queue_lane_retry: another attempt, or the operator when there is none left.
Retried(l, exhausted) ==
    [l EXCEPT !.status = IF exhausted THEN "attention" ELSE "retry"]
------------------------------------------------------------------------------
\* The tick.

Save(lanes) == disk' = lanes /\ mem' = lanes
Upset == upsets < MaxUpsets /\ upsets' = upsets + 1

\* The tick ends or dies.
LeaveTick ==
    /\ pc' = "idle"
    /\ queue' = {} /\ read' = [i \in Issue |-> {}] /\ cur' = NoIssue

\* load_state, and reconcile_runtime_lanes: a lane whose actor has died may be
\* found out.
Reconcile ==
    /\ pc = "idle"
    /\ pc' = "refresh"
    /\ \E dead \in SUBSET {i \in Issue : /\ disk[i].status = "running"
                                         /\ <<i, disk[i].claim>> \notin actors} :
         \E exhausted \in SUBSET dead :
            mem' = [i \in Issue |-> IF i \in dead
                                    THEN Retried(disk[i], i \in exhausted)
                                    ELSE disk[i]]
    /\ UNCHANGED <<tracker, lease, disk, read, queue, cur, me, actors, env>>

\* _reconcile_tracker_lanes: the query fails, or every active lane takes the
\* labels of its issue and is released when they hold no active step.
Refresh ==
    /\ pc = "refresh"
    /\ pc' = "repair"
    /\ \/ UNCHANGED <<mem, lease>>
       \/ LET fresh == [i \in Issue |-> IF Active(mem[i])
                                        THEN [mem[i] EXCEPT !.seen = tracker[i]]
                                        ELSE mem[i]]
          IN  ReleaseLanes(fresh, {i \in ActiveIn(mem) :
                                     /\ "done" \notin tracker[i]
                                     /\ ~OnActiveStep(tracker[i])})
    /\ UNCHANGED <<tracker, disk, read, queue, cur, me, actors, env>>

\* _repair_active_lane_workpads: some work, some fail again.
RepairWorkpads ==
    /\ pc = "repair"
    /\ pc' = "list"
    /\ \E ok \in SUBSET {i \in Issue : NeedsPad(mem[i])} :
         mem' = [i \in Issue |-> IF ~NeedsPad(mem[i]) THEN mem[i]
                                 ELSE IF i \in ok THEN PadWorks(mem[i])
                                 ELSE PadFails(mem[i])]
    /\ UNCHANGED <<tracker, lease, disk, read, queue, cur, me, actors, env>>

\* tracker_facts: the candidates, as the tracker shows them now.
ListCandidates ==
    /\ pc = "list"
    /\ pc' = "claiming"
    /\ \/ /\ queue' = {i \in Issue : /\ HasRoom(mem)
                                     /\ Claimable(mem[i]) /\ Eligible(tracker[i])}
          /\ read' = [i \in Issue |-> IF i \in queue' THEN tracker[i] ELSE {}]
          /\ UNCHANGED upsets
       \/ /\ Upset
          /\ UNCHANGED <<queue, read>>
    /\ UNCHANGED <<tracker, lease, disk, mem, cur, me, actors, crashes>>

\* acquire_lane_lease and new_lane.  An issue whose lease another process holds,
\* dead or alive, is passed over.
TakeClaim(i) ==
    /\ pc = "claiming" /\ i \in queue
    /\ HasRoom(mem) /\ Claimable(mem[i])
    /\ lease' = [lease EXCEPT ![i] = Lease!AcquireLease(@, me, 1)]
    /\ IF Lease!MayTake(lease[i], me)
       THEN /\ mem' = [mem EXCEPT ![i] = NewLane(i)]
            /\ pc' = "leased" /\ cur' = i
            /\ UNCHANGED queue
       ELSE /\ queue' = queue \ {i}
            /\ UNCHANGED <<mem, pc, cur>>
    /\ UNCHANGED <<tracker, disk, read, me, actors, env>>

\* _apply_claim_labels, the first edit and the second.
RemoveTodo ==
    /\ pc = "leased"
    /\ tracker' = [tracker EXCEPT ![cur] = @ \ {"todo"}]
    /\ pc' = "unlabelled"
    /\ UNCHANGED <<lease, disk, mem, read, queue, cur, me, actors, env>>

\* The lane gets the labels of the listing with the edits made to them.
AddCode ==
    /\ pc = "unlabelled"
    /\ tracker' = [tracker EXCEPT ![cur] = @ \cup {"code"}]
    /\ mem' = [mem EXCEPT ![cur].seen = (read[cur] \ {"todo"}) \cup {"code"}]
    /\ pc' = "labelled"
    /\ UNCHANGED <<lease, disk, read, queue, cur, me, actors, env>>

\* A label edit raises, and may have reached the tracker all the same.  The
\* handler of the tick saves the lane without its labels and workpad.
ClaimRaises ==
    /\ pc \in {"leased", "unlabelled"}
    /\ Upset
    /\ \/ UNCHANGED tracker
       \/ tracker' = [tracker EXCEPT ![cur] =
                        IF pc = "leased" THEN @ \ {"todo"} ELSE @ \cup {"code"}]
    /\ Save(mem)
    /\ LeaveTick
    /\ UNCHANGED <<lease, me, actors, crashes>>

\* _ensure_claimed_lane_workpad for the new lane; then the next candidate.
MakeWorkpad ==
    /\ pc = "labelled"
    /\ \E l \in {PadWorks(mem[cur]), PadFails(mem[cur])} :
         mem' = [mem EXCEPT ![cur] = l]
    /\ queue' = queue \ {cur}
    /\ pc' = "claiming" /\ cur' = NoIssue
    /\ UNCHANGED <<tracker, lease, disk, read, me, actors, env>>

\* Intake is over: the save before routing, or the save of an idle tick.
EndIntake ==
    /\ pc = "claiming" /\ (queue = {} \/ ~HasRoom(mem))
    /\ Save(mem)
    /\ IF ActiveIn(mem) = {} THEN LeaveTick
       ELSE /\ pc' = "routing" /\ queue' = ActiveIn(mem) /\ UNCHANGED cur
            /\ read' = [i \in Issue |-> {}]
    /\ UNCHANGED <<tracker, lease, me, actors, env>>

\* route_code_lane and the dispatch of a background actor.
Dispatch(i) ==
    /\ pc = "routing" /\ i \in queue
    /\ mem[i].status \in {"claimed", "retry"} /\ OnActiveStep(mem[i].seen)
    /\ Save([mem EXCEPT ![i].status = "running"])
    /\ actors' = actors \cup {<<i, mem[i].claim>>}
    /\ queue' = queue \ {i}
    /\ UNCHANGED <<tracker, lease, pc, read, cur, me, env>>

\* done_release_verified, and release_lane.
ReleaseDone(i) ==
    /\ pc = "routing" /\ i \in queue
    /\ mem[i].status \in {"claimed", "retry"} /\ "done" \in mem[i].seen
    /\ ReleaseLanes(mem, {i})
    /\ disk' = mem'
    /\ queue' = queue \ {i}
    /\ UNCHANGED <<tracker, pc, read, cur, me, actors, env>>

\* The route holds: by its status, a retry that is not due, no step, or a step
\* that waits for somebody.
Hold(i) ==
    /\ pc = "routing" /\ i \in queue
    /\ queue' = queue \ {i}
    /\ UNCHANGED <<tracker, lease, disk, mem, pc, read, cur, me, actors, env>>

EndTick ==
    /\ pc = "routing" /\ queue = {}
    /\ Save(mem)
    /\ LeaveTick
    /\ UNCHANGED <<tracker, lease, me, actors, env>>

\* An exception for one lane (capacity, worktree, label) ends the loop: the lanes
\* behind it are not looked at.
RouteRaises ==
    /\ pc = "routing" /\ queue # {}
    /\ Upset
    /\ Save(mem)
    /\ LeaveTick
    /\ UNCHANGED <<tracker, lease, me, actors, crashes>>

\* The process of the tick is killed; the next one has another instance id.
Crash ==
    /\ pc # "idle"
    /\ Upset /\ crashes' = crashes + 1
    /\ me < MaxRunners /\ me' = me + 1
    /\ mem' = disk
    /\ LeaveTick
    /\ UNCHANGED <<tracker, lease, disk, actors>>

\* The daemon is started anew, or a tick is run by hand.
Restart ==
    /\ pc = "idle" /\ me < MaxRunners
    /\ me' = me + 1
    /\ UNCHANGED <<tracker, lease, disk, mem, pc, read, queue, cur, actors, env>>
------------------------------------------------------------------------------
\* Actors, operators, people and time.

\* A worker files its result, if the lane is running: what claim it worked for
\* is not asked.  The step moves on, stays, or the operator is called.
ActorFiles(i, n) ==
    /\ pc = "idle" /\ <<i, n>> \in actors
    /\ actors' = actors \ {<<i, n>>}
    /\ IF disk[i].status # "running" THEN UNCHANGED <<tracker, disk, mem>>
       ELSE \/ /\ Save([disk EXCEPT ![i].status = "claimed", ![i].seen = {"done"}])
               /\ tracker' = [tracker EXCEPT ![i] = (@ \ {"code"}) \cup {"done"}]
            \/ /\ \E s \in {"claimed", "attention"} :
                    Save([disk EXCEPT ![i].status = s])
               /\ UNCHANGED tracker
    /\ UNCHANGED <<lease, pc, read, queue, cur, me, env>>

\* An actor dies; a tick would not find out before the next one.
ActorDies(i, n) ==
    /\ pc = "idle" /\ <<i, n>> \in actors
    /\ actors' = actors \ {<<i, n>>}
    /\ UNCHANGED <<tracker, lease, disk, mem, pc, read, queue, cur, me, env>>

\* operator_retry_locked.
OperatorRetry(i) ==
    /\ pc = "idle"
    /\ Active(disk[i]) /\ disk[i].status \notin {"running", "retry"}
    /\ \E e \in BOOLEAN : Save([disk EXCEPT ![i] = Retried(@, e)])
    /\ UNCHANGED <<tracker, lease, pc, read, queue, cur, me, actors, env>>

\* operator_release_locked, and operator_complete_locked at the last stage.
OperatorRelease(i) ==
    /\ pc = "idle"
    /\ Active(disk[i]) /\ disk[i].status # "running"
    /\ ReleaseLanes(disk, {i})
    /\ disk' = mem'
    /\ UNCHANGED <<tracker, pc, read, queue, cur, me, actors, env>>

\* People put the issue where they want it.
PeopleLabel(i) ==
    /\ Upset
    /\ \E labels \in {{}, {"todo"}, {"code"}, {"todo", "code"}} :
         tracker' = [tracker EXCEPT ![i] = labels]
    /\ UNCHANGED <<lease, disk, mem, pc, read, queue, cur, me, actors, crashes>>

\* A day passes for the lease of an issue; a tick takes less.
DayPasses(i) ==
    /\ pc = "idle"
    /\ Lease!Blocking(lease[i])
    /\ lease' = [lease EXCEPT ![i] = Lease!Aged(@)]
    /\ UNCHANGED <<tracker, disk, mem, pc, read, queue, cur, me, actors, env>>

TickStep ==
    \/ Reconcile \/ Refresh \/ RepairWorkpads \/ ListCandidates
    \/ RemoveTodo \/ AddCode \/ MakeWorkpad \/ EndIntake \/ EndTick
    \/ \E i \in Issue : TakeClaim(i) \/ Dispatch(i) \/ ReleaseDone(i) \/ Hold(i)

Next ==
    \/ TickStep
    \/ ClaimRaises \/ RouteRaises \/ Crash \/ Restart
    \/ \E i \in Issue :
         \/ OperatorRetry(i) \/ OperatorRelease(i) \/ PeopleLabel(i) \/ DayPasses(i)
    \/ \E a \in actors : ActorFiles(a[1], a[2]) \/ ActorDies(a[1], a[2])

Spec == Init /\ [][Next]_vars

\* The daemon keeps ticking and a tick gets on; days pass.
Fairness == WF_vars(TickStep) /\ \A i \in Issue : SF_vars(DayPasses(i))

FairSpec == Spec /\ Fairness
------------------------------------------------------------------------------
\* There are never more lanes than concurrency.max-lanes, in the file or in the
\* tick, whatever is released, claimed again or lost on the way
\* (claim_new_lanes).
CapacityHolds ==
    /\ Cardinality(ActiveIn(disk)) <= MaxLanes
    /\ Cardinality(ActiveIn(mem)) <= MaxLanes

\* While no tick is killed, the claim lease of an issue is held exactly as long
\* as it has a lane, and by that lane's owner: whichever process gives the lane
\* up, none is left that would keep the issue from being claimed for a day
\* (release_lane_lease).
LeaseFollowsLane ==
    crashes = 0 /\ pc = "idle" =>
        \A i \in Issue :
            /\ lease[i].released <=> ~Active(disk[i])
            /\ Active(disk[i]) => lease[i].owner = disk[i].owner

\* An actor works only on a lane that has its workpad, also when the claim broke
\* off before the workpad was made or an operator asked for a retry
\* (_repair_active_lane_workpads).
PadBeforeWork == \A i \in Issue : disk[i].status = "running" => disk[i].pad = "ok"

Waiting(i) ==
    Eligible(tracker[i]) /\ ~Active(disk[i]) /\ HasRoom(disk)

\* An issue people want worked on does not wait for ever while there is room: not
\* even when a tick died with its claim lease (acquire_engine_lease).
TodoIsServed == \A i \in Issue : Waiting(i) ~> ~Waiting(i)

\* An actor run that is still going keeps a second actor from its issue
\* (engine/README.md on running_runs).  It does not: the guard drops runs that
\* neither the lane nor a session row confirms, and a new claim has neither.
OneActorPerIssue ==
    \A a, b \in actors : a[1] = b[1] => a = b
=============================================================================
