----------------------------- MODULE StepLabels -----------------------------
(***************************************************************************)
(* The step of a lane and the step label of its issue                      *)
(* (workflows/step_labels.py, state_effects.py, step_routes.py).  The lane *)
(* keeps the labels it last read; a move of the step computes from them    *)
(* what to add and to remove, asks the ledger of side effects whether that *)
(* was done already, asks the tracker otherwise (the GitHub client edits   *)
(* the issue twice, first to remove and then to add), and records the      *)
(* effect in the engine before the lane is saved.  The moves are asked for *)
(* by the tick's route and by the output of the actor, which was           *)
(* dispatched for a step the lane may have left since.                     *)
(*                                                                         *)
(* People edit the labels too, at any moment.  The workflow process may    *)
(* die at any point; what it had not saved is then lost.                   *)
(***************************************************************************)
EXTENDS Naturals, FiniteSets

CONSTANTS
    MaxRounds,  \* bound: times the workflow moves a lane back a step
    MaxEdits,   \* bound: label edits by people
    HalfEdits   \* may the process die, or GitHub fail, between the two edits?

ASSUME BoundAssumption ==
    MaxRounds \in Nat /\ MaxEdits \in Nat /\ HalfEdits \in BOOLEAN

\* todo is left out: it is replaced when the lane is claimed, before this begins.
Step == {"code", "review", "merge", "done", "blocked"}

VARIABLES
    tracker,    \* the step labels of the issue
    seen,       \* lane["issue"]["labels"] as saved
    step,       \* lane["step"] as saved
    ledger,     \* keys of side effects recorded as succeeded
    called,     \* history: the keys whose tracker call has returned
    acting,     \* the step the running actor was dispatched for, or "no"
    move,       \* the move in progress
    exact,      \* history: the issue had the labels the lane had read when the move
                \* in progress began, and people left them alone since
    released,   \* the lane was released
    rounds, edits

vars == <<tracker, seen, step, ledger, called, acting, move, exact,
          released, rounds, edits>>

\* side_effect_key: a hash of the target, what is added and what is removed;
\* workflow, lane, issue and operation are the same for all moves of a lane.
Key == [target : Step, add : SUBSET Step, remove : SUBSET Step]

NoMove == [phase |-> "idle"]

Move == [phase : {"removing", "adding", "called", "recorded"}, key : Key]

\* Types; the step noted on the lane is a step (set_lane_step).
TypeOK ==
    /\ tracker \in SUBSET Step /\ seen \in SUBSET Step
    /\ step \in Step
    /\ ledger \in SUBSET Key /\ called \in SUBSET Key
    /\ acting \in {"no", "code", "merge"}
    /\ move \in Move \cup {NoMove}
    /\ exact \in BOOLEAN /\ released \in BOOLEAN
    /\ rounds \in 0..MaxRounds /\ edits \in 0..MaxEdits

Init ==
    /\ tracker = {"code"} /\ seen = {"code"} /\ step = "code"
    /\ ledger = {} /\ called = {}
    /\ acting = "no" /\ move = NoMove
    /\ exact = FALSE /\ released = FALSE
    /\ rounds = 0 /\ edits = 0
------------------------------------------------------------------------------
\* step_from_labels: the label that counts when there are several.
Rank == [done |-> 1, blocked |-> 2, merge |-> 3, review |-> 4, code |-> 5]

StepFrom(labels) ==
    CHOOSE s \in labels : \A t \in labels : Rank[s] <= Rank[t]

\* lane_step: the labels the lane has read, else the step it has noted.
LaneStep == IF seen = {} THEN step ELSE StepFrom(seen)

\* Variant: every other step label is removed, read or not.
PlanAllOthers(target) ==
    [target |-> target, add |-> {target} \ seen, remove |-> Step \ {target}]

\* label_plan_for_step.
Plan(target) ==
    [target |-> target, add |-> {target} \ seen, remove |-> seen \ {target}]

\* Variant: only the addition is mirrored.
MutatedNoRemoval(key) == seen \cup key.add

\* _apply_label_mutation on the labels the lane has read.
Mutated(key) == (seen \ key.remove) \cup key.add

\* _record_lane_step, saved by set_lane_step.
SaveStep(key, labels) == seen' = labels /\ step' = key.target

\* Variant: the step of an issue without step labels is noted too.
NotedStepAlways(labels) == IF labels = {} THEN "" ELSE StepFrom(labels)

\* refresh_lane_board_metadata: a step label read is noted on the lane.
NotedStep(labels) == IF labels = {} THEN step ELSE StepFrom(labels)

\* The tick reads the issue.  An issue without a step label has left the workflow,
\* and its lane is released; the actor is not told.
Refresh ==
    /\ move = NoMove /\ ~released
    /\ seen' = tracker
    /\ step' = NotedStep(tracker)
    /\ released' = (tracker = {})
    /\ UNCHANGED <<tracker, ledger, called, acting, move, exact, rounds, edits>>

\* The route dispatches an actor for the step of the lane.
Dispatch ==
    /\ move = NoMove /\ ~released /\ acting = "no"
    /\ LaneStep \in {"code", "merge"}
    /\ acting' = LaneStep
    /\ UNCHANGED <<tracker, seen, step, ledger, called, move, exact, released,
                   rounds, edits>>

\* The actor waits, is blocked, fails or is interrupted: no move is asked for.
ActorEnds ==
    /\ move = NoMove /\ acting # "no"
    /\ acting' = "no"
    /\ UNCHANGED <<tracker, seen, step, ledger, called, move, exact, released,
                   rounds, edits>>

\* next_step_after_actor_output: the output names the step it is about, or the
\* step noted on the lane is taken.
OutputTarget(target) ==
    \E s \in {acting, step} : \/ s = "code" /\ target = "review"
                              \/ s = "merge" /\ target = "done"

\* route_code_lane: required changes in review; a done label on an issue that is
\* still open.  An active dispatch holds the lane.
RouteTarget(target) ==
    \/ LaneStep = "review" /\ target = "code"
    \/ LaneStep = "done" /\ target = "merge"

Wanted(target) ==
    IF acting = "no" THEN RouteTarget(target) ELSE OutputTarget(target)

Backward(target) == target \in {"code", "merge"}

\* completed_side_effect: the lane's own ledger or the engine's event.
Completed(key) == key \in ledger

\* set_lane_step_label up to the tracker call.  Nothing to change, or done before:
\* the lane is saved at the target, and the tracker is not called.
BeginMove ==
    /\ move = NoMove /\ ~released
    /\ \E target \in Step :
         /\ Wanted(target)
         /\ Backward(target) => rounds < MaxRounds
         /\ rounds' = IF Backward(target) THEN rounds + 1 ELSE rounds
         /\ LET key == Plan(target)
            IN  IF Completed(key) \/ key.add \cup key.remove = {}
                THEN SaveStep(key, Mutated(key)) /\ acting' = "no"
                     /\ UNCHANGED <<move, exact>>
                ELSE /\ move' = [phase |-> "removing", key |-> key]
                     /\ exact' = (seen = tracker)
                     /\ UNCHANGED <<seen, step, acting>>
    /\ UNCHANGED <<tracker, ledger, called, released, edits>>

\* Variant: the effect is recorded as succeeded when it is started.
RemoveLabelsRecorded ==
    /\ move.phase = "removing"
    /\ tracker' = tracker \ move.key.remove
    /\ ledger' = ledger \cup {move.key}
    /\ move' = [move EXCEPT !.phase = "adding"]
    /\ UNCHANGED <<seen, step, called, acting, exact, released, rounds, edits>>

\* GitHub client, first edit.
RemoveLabels ==
    /\ move.phase = "removing"
    /\ tracker' = tracker \ move.key.remove
    /\ move' = [move EXCEPT !.phase = "adding"]
    /\ UNCHANGED <<seen, step, ledger, called, acting, exact, released,
                   rounds, edits>>

\* Second edit.
AddLabels ==
    /\ move.phase = "adding"
    /\ tracker' = tracker \cup move.key.add
    /\ called' = called \cup {move.key}
    /\ move' = [move EXCEPT !.phase = "called"]
    /\ UNCHANGED <<seen, step, ledger, acting, exact, released, rounds, edits>>

\* record_side_effect_succeeded: the engine's event.
RecordEffect ==
    /\ move.phase = "called"
    /\ ledger' = ledger \cup {move.key}
    /\ move' = [move EXCEPT !.phase = "recorded"]
    /\ UNCHANGED <<tracker, seen, step, called, acting, exact, released, rounds,
                   edits>>

\* set_lane_step saves the lane.
FinishMove ==
    /\ move.phase = "recorded"
    /\ SaveStep(move.key, Mutated(move.key))
    /\ move' = NoMove /\ acting' = "no" /\ exact' = FALSE
    /\ UNCHANGED <<tracker, ledger, called, released, rounds, edits>>

\* The tracker call raises, or the process dies: nothing is saved, and the actor
\* whose output asked for the move is done with.
BreakOff ==
    /\ move # NoMove
    /\ move.phase = "adding" => HalfEdits
    /\ move' = NoMove /\ acting' = "no"
    /\ exact' = FALSE
    /\ UNCHANGED <<tracker, seen, step, ledger, called, released, rounds, edits>>

\* release_lane when the done step is verified.
ReleaseDone ==
    /\ move = NoMove /\ ~released /\ acting = "no" /\ LaneStep = "done"
    /\ released' = TRUE
    /\ UNCHANGED <<tracker, seen, step, ledger, called, acting, move, exact,
                   rounds, edits>>

\* People move the issue to another step, or put a label beside those it has.
PeopleEdit ==
    /\ edits < MaxEdits
    /\ \E s \in Step : tracker' \in {{s}, tracker \cup {s}}
    /\ tracker' # tracker
    /\ exact' = FALSE
    /\ edits' = edits + 1
    /\ UNCHANGED <<seen, step, ledger, called, acting, move, released, rounds>>

Next ==
    \/ Refresh \/ Dispatch \/ ActorEnds
    \/ BeginMove \/ RemoveLabels \/ AddLabels \/ RecordEffect \/ FinishMove
    \/ BreakOff \/ ReleaseDone \/ PeopleEdit

Spec == Init /\ [][Next]_vars
------------------------------------------------------------------------------
\* A move that the tracker was called for, when the lane knew the labels and nobody
\* changed them meanwhile, ends with the target as the only step label and with
\* the lane knowing exactly that (_apply_label_mutation mirrors the call instead
\* of reading the issue again).
MoveLeavesOneLabel ==
    [][exact /\ move.phase = "recorded" /\ seen' # seen =>
          tracker = {move.key.target} /\ seen' = tracker]_vars

\* The ledger never claims an effect the tracker was not called for, wherever the
\* process dies: the first move with a key is never skipped.
LedgerIsEarned == ledger \subseteq called

\* A label people put on the issue after the lane last read it is not taken off
\* by the move in progress: a merge signal is not lost to a step back to code.
UnreadLabelsStay ==
    [][edits' = edits => tracker \ seen \subseteq tracker']_vars

\* "Runner transitions are deterministic: code output done -> review, review
\* needs changes -> code": a move reported as made without a tracker call, on an
\* issue whose labels the lane knows, is one the issue shows already.
ReportedMoveIsMade ==
    [][move = NoMove /\ seen = tracker /\ seen' # seen => step' \in tracker]_vars

\* The workflow's own move never takes the lane from itself: a lane is released
\* because people took the step off the issue, or because it is done.
LaneIsNotLost == released /\ edits = 0 => "done" \in seen

\* "blocked -> hold": the workflow does not take off a blocked label it has read.
BlockedHolds ==
    [][edits' = edits /\ "blocked" \in tracker \cap seen => "blocked" \in tracker']_vars
=============================================================================
