------------------------------ MODULE Delivery ------------------------------
(***************************************************************************)
(* One issue on its way to a merged pull request: the lane as the tick     *)
(* (workflows/step_runner.py) refreshes it from GitHub and routes it, the  *)
(* coder that works on it, and the people beside them.                     *)
(*                                                                         *)
(* A tick holds the state lock and reads GitHub one call after the other:  *)
(* the issue (lane_reconcile.py), the open pull requests, the readiness of *)
(* the one the lane knows (review_signals.py).  It then repairs or makes   *)
(* the workpad comment (lane_intake.py, surface_workpad.py), saves, and    *)
(* follows one route (step_routes.py): hold, move the step label, release, *)
(* or dispatch the coder into the lane's worktree (surface_worktrees.py).  *)
(* The coder's answer is applied to the saved lane by its worker           *)
(* (actor_outputs.py).  GitHub changes between any two of these calls; a   *)
(* call may fail, its answer may be lost, and the process may be killed.   *)
(*                                                                         *)
(* What the other modules have is one step here: the two edits of a label  *)
(* move (StepLabels), the saves of a dispatch (LaneDispatch), the leases,  *)
(* several lanes and the operator (Intake).  The runner owns the workpad.  *)
(***************************************************************************)
EXTENDS Naturals, FiniteSets, FiniteSetsExt

CONSTANTS
    Kinds,          \* the kinds of blockers that occur
    AutoActivate,   \* intake.auto-activate is enabled
    MaxPulls,       \* bound: pull requests of the lane's branch
    MaxFaults,      \* bound: failed calls, lost answers and kills
    MaxUpsets       \* bound: those, and changes by people and checks

\* _required_changes_from_blockers: what sends the lane back to the coder.
Required == {"changes_requested", "check_failed", "merge_conflict",
             "unresolved_review_thread"}

\* The other blockers of _pull_request_merge_readiness, which are waited for.
Waited == {"review_required", "check_pending", "mergeability_unknown",
           "draft_pull_request", "merge_state_blocked"}

ASSUME DeliveryAssumption ==
    /\ Kinds \subseteq Required \cup Waited
    /\ AutoActivate \in BOOLEAN
    /\ MaxPulls \in Nat /\ MaxFaults \in Nat /\ MaxUpsets \in Nat

Step == {"todo", "code", "review", "merge", "done"}

PullNo == 1..MaxPulls

VARIABLES
    issue,      \* GitHub: its step labels, and whether it is closed
    pulls,      \* GitHub: the pull requests of the lane's branch
    pads,       \* GitHub: how many comments carry the lane's workpad marker
    tree,       \* the lane's worktree: none, unhooked (its after_create hook failed), ready
    file,       \* the lane in the state file
    mem,        \* the lane as the tick has it
    ledger,     \* side effects recorded as done: the label moves made
    actor,      \* the step the running coder was dispatched for, or "none"
    pc,         \* what the tick does next
    behind,     \* history: a read of this tick failed, or GitHub changed since it began
    edits, faults

github == <<issue, pulls, pads>>
vars == <<github, tree, file, mem, ledger, actor, pc, behind, edits, faults>>

\* lane["issue"], ["branch"], ["pull_request"], ["review_signals"],
\* ["last_actor_output"] and ["workpad"], as far as a decision reads them.
\* delivered is status released with the reason "done verified".
Lane ==
    [status : {"none", "claimed", "waiting", "running", "retry", "attention",
               "pad_failed", "released", "delivered"},
     labels : SUBSET Step, closed : BOOLEAN, branch : BOOLEAN,
     pr : 0..MaxPulls, state : {"", "open", "closed", "merged"}, merged : BOOLEAN,
     required : BOOLEAN, said : [closed : BOOLEAN, feedback : BOOLEAN],
     pad : {"none", "ok", "failed"}]

Silent == [closed |-> FALSE, feedback |-> FALSE]

NewLane(status, labels) ==
    [status |-> status, labels |-> labels, closed |-> FALSE, branch |-> FALSE,
     pr |-> 0, state |-> "", merged |-> FALSE, required |-> FALSE,
     said |-> Silent, pad |-> "none"]

Move == [target : Step, add : SUBSET Step, remove : SUBSET Step]

\* Types; the step a lane has noted from its issue's labels is a step.
TypeOK ==
    /\ issue \in [labels : SUBSET Step, closed : BOOLEAN]
    /\ pulls \in [PullNo -> [state : {"none", "open", "closed", "merged"},
                             blockers : SUBSET Kinds]]
    /\ pads \in Nat
    /\ tree \in {"none", "unhooked", "ready"}
    /\ file \in Lane /\ mem \in Lane
    /\ ledger \subseteq Move
    /\ actor \in {"none", "code", "merge"}
    /\ pc \in {"idle", "pulls", "signals", "intake", "pad", "save", "route"}
    /\ behind \in BOOLEAN
    /\ faults \in 0..MaxFaults /\ edits + faults \in 0..MaxUpsets

Init ==
    /\ issue = [labels |-> {"todo"}, closed |-> FALSE]
    /\ pulls = [n \in PullNo |-> [state |-> "none", blockers |-> {}]]
    /\ pads = 0 /\ tree = "none"
    /\ file = NewLane("none", {}) /\ mem = file
    /\ ledger = {} /\ actor = "none"
    /\ pc = "idle" /\ behind = FALSE
    /\ edits = 0 /\ faults = 0
-----------------------------------------------------------------------------
(* What a decision reads *)

\* not lane_is_terminal.
Active(l) == l.status \notin {"none", "released", "delivered"}

\* step_from_labels: the label that counts when there are several.
StepFrom(labels) ==
    LET Before(s) == CASE s = "todo" -> {"code", "review", "merge", "done"}
                       [] s = "code" -> {"review", "merge", "done"}
                       [] s = "review" -> {"merge", "done"}
                       [] s = "merge" -> {"done"}
                       [] OTHER -> {}
    IN  IF labels = {} THEN "" ELSE CHOOSE s \in labels : labels \cap Before(s) = {}

\* issue_is_still_active, and the exception for done: a closed issue counts too.
StaysInWorkflow(labels) == StepFrom(labels) \in {"code", "review", "merge", "done"}

\* _eligible_candidates, on the listing of the open issues.
Eligible == ~issue.closed /\ "todo" \in issue.labels /\ "done" \notin issue.labels

\* _auto_activation_candidates.
Activatable == AutoActivate /\ ~issue.closed /\ issue.labels \cap {"todo", "done"} = {}

Open == {n \in PullNo : pulls[n].state = "open"}
Made == {n \in PullNo : pulls[n].state # "none"}

\* pull_request_merge_status: a merged pull request has no blockers.
Blockers(n) == IF pulls[n].state = "merged" THEN {} ELSE pulls[n].blockers

\* review_has_required_changes: the signals, or what the last output says.
AsksForChanges(l) == l.required \/ l.said.feedback

\* pull_request_is_merged: the field that only an output sets, or the state.
IsMerged(l) == l.merged \/ l.state = "merged"

\* done_release_verified: as the lane has it, not as GitHub has it.
Verified(l) ==
    /\ "done" \in l.labels
    /\ l.closed \/ l.said.closed
    /\ IsMerged(l)

\* route_code_lane, up to the step: the statuses a route does not hold for.
Free(l) == l.status \in {"claimed", "waiting", "retry"}

\* route_code_lane: the step the lane is moved to, or none.
MoveTarget(l) ==
    CASE StepFrom(l.labels) = "review" /\ AsksForChanges(l) -> {"code"}
      [] StepFrom(l.labels) = "done" /\ ~Verified(l) /\ IsMerged(l) -> {"merge"}
      [] StepFrom(l.labels) = "todo" /\ l.pr # 0 -> {"review"}
      [] OTHER -> {}
-----------------------------------------------------------------------------
(* Calls to GitHub *)

\* One more upset is allowed.
Room == edits + faults < MaxUpsets

Fault == Room /\ faults < MaxFaults /\ faults' = faults + 1

\* label_plan_for_step, on the labels the lane has read; also what the key of the
\* side effect tells apart.
PlanFor(labels, target) ==
    [target |-> target, add |-> {target} \ labels, remove |-> labels \ {target}]

Labelled(labels, plan) == (labels \ plan.remove) \cup plan.add

\* set_lane_step_label: nothing to do, done already as the ledger has it, done now
\* and recorded, refused, or done by a process that dies before it records it.
LabelCall(plan, end) ==
    \/ /\ end = "moved"
       /\ plan \in ledger \/ plan.add \cup plan.remove = {}
       /\ UNCHANGED <<issue, ledger, faults>>
    \/ /\ end = "moved"
       /\ plan \notin ledger /\ plan.add \cup plan.remove # {}
       /\ issue' = [issue EXCEPT !.labels = Labelled(@, plan)]
       /\ ledger' = ledger \cup {plan}
       /\ UNCHANGED faults
    \/ /\ end \in {"failed", "killed"}
       /\ plan \notin ledger
       /\ Fault
       /\ issue' = [issue EXCEPT !.labels = IF end = "killed" THEN Labelled(@, plan) ELSE @]
       /\ UNCHANGED ledger

\* Variant: the comment is looked for by the id the lane has recorded.
FindsPadRecorded(l) == l.pad = "ok"

\* find_workpad_comment: by the marker, whoever wrote it and whenever.
FindsPad(l) == pads > 0

\* create_issue_comment, or update_issue_comment for the comment that was found.
Commented(l) == IF FindsPad(l) THEN pads ELSE pads + 1

PadWorks(l) ==
    [l EXCEPT !.pad = "ok", !.status = IF @ = "pad_failed" THEN "claimed" ELSE @]
PadFails(l) == [l EXCEPT !.pad = "failed", !.status = "pad_failed"]

\* ensure_workpad, and record_workpad_failure when a call raises: the comment may
\* have been written all the same.
EnsurePad(l) ==
    \/ pads' = Commented(l) /\ mem' = PadWorks(l) /\ UNCHANGED faults
    \/ pads' \in {pads, Commented(l)} /\ mem' = PadFails(l) /\ Fault
-----------------------------------------------------------------------------
(* The tick *)

\* A tick that ends saves what it has; one that is killed has saved nothing more.
LeaveTick(lane) == file' = lane /\ mem' = lane /\ pc' = "idle"

\* reconcile_runtime_lanes: a lane whose worker is gone is queued again, or the
\* operator's when its attempts are used up.
Recovered(l) ==
    IF l.status = "running" /\ actor = "none"
    THEN {[l EXCEPT !.status = s] : s \in {"retry", "attention"}}
    ELSE {l}

\* A terminal lane: nothing else of it is read again.
Ended(status) == NewLane(status, {})

\* _reconcile_tracker_lanes, for an issue that was read.
Refreshed(l) ==
    IF StaysInWorkflow(issue.labels)
    THEN [l EXCEPT !.labels = issue.labels, !.closed = issue.closed]
    ELSE Ended("released")

\* load_state, reconcile_runtime_lanes and _reconcile_tracker_lanes.
Refresh ==
    /\ pc = "idle"
    /\ \E l \in Recovered(file) :
         \/ /\ mem' = IF Active(l) THEN Refreshed(l) ELSE l
            /\ behind' = FALSE
            /\ UNCHANGED faults
         \/ /\ Active(l) /\ Fault
            /\ mem' = l
            /\ behind' = TRUE
    /\ pc' = IF Active(mem') THEN "pulls" ELSE "intake"
    /\ UNCHANGED <<github, tree, file, ledger, actor, edits>>

\* Variant: a lane that knows a pull request does not look for another.
FoundPullOnce(l) == IF l.pr = 0 THEN Open ELSE {}

\* lanes_by_branch: the open pull request of the lane's branch.
FoundPull(l) == IF l.branch THEN Open ELSE {}

\* normalize_pull_request, of a listing: it has neither state nor merged.
WithPull(l, n) == [l EXCEPT !.pr = n, !.state = "", !.merged = FALSE]

\* _reconcile_pull_requests: an open pull request replaces what the lane knew.
ListPulls ==
    /\ pc = "pulls" /\ pc' = "signals"
    /\ \/ /\ mem' = IF FoundPull(mem) = {} THEN mem
                    ELSE WithPull(mem, Max(FoundPull(mem)))
          /\ UNCHANGED <<behind, faults>>
       \/ Fault /\ behind' = TRUE /\ UNCHANGED mem
    /\ UNCHANGED <<github, tree, file, ledger, actor, edits>>

\* Variant: a review that asks for changes is waited for like one that is missing.
WithSignalsOfChecks(l, n) ==
    [l EXCEPT !.required = Blockers(n) \cap (Required \ {"changes_requested"}) # {},
              !.state = pulls[n].state]

\* _build_review_signals and _refresh_pull_request_from_readiness.
WithSignals(l, n) ==
    [l EXCEPT !.required = Blockers(n) \cap Required # {}, !.state = pulls[n].state]

\* reconcile_review_signals: a read that fails leaves the old signals.
ReadSignals ==
    /\ pc = "signals" /\ pc' = "intake"
    /\ \/ /\ mem' = IF mem.pr = 0 THEN mem ELSE WithSignals(mem, mem.pr)
          /\ UNCHANGED <<behind, faults>>
       \/ mem.pr # 0 /\ Fault /\ behind' = TRUE /\ UNCHANGED mem
    /\ UNCHANGED <<github, tree, file, ledger, actor, edits>>

\* claim_new_lanes with a lane: a workpad that is not in order is repaired.
RepairPad ==
    /\ pc = "intake" /\ Active(mem) /\ mem.pad # "ok"
    /\ EnsurePad(mem)
    /\ pc' = "save"
    /\ UNCHANGED <<issue, pulls, tree, file, ledger, actor, behind, edits>>

\* claim_new_lanes without: the issue is eligible, or activated and taken in the
\* same tick.  When a label edit raises, the lane is saved without labels and pad.
Claim ==
    /\ pc = "intake" /\ ~Active(mem)
    /\ Eligible \/ Activatable
    /\ LET listed == issue.labels \cup {"todo"}
           bare == listed \ {"todo"}
       IN  \/ /\ issue' = [issue EXCEPT !.labels = bare \cup {"code"}]
              /\ mem' = NewLane("claimed", bare \cup {"code"})
              /\ pc' = "pad"
              /\ UNCHANGED <<file, faults>>
           \/ /\ Fault
              /\ \E labels \in {listed, bare, bare \cup {"code"}} :
                   issue' = [issue EXCEPT !.labels = labels]
              /\ LeaveTick(NewLane("claimed", listed))
    /\ UNCHANGED <<pulls, pads, tree, ledger, actor, behind, edits>>

\* _ensure_claimed_lane_workpad for the new lane.
MakePad ==
    /\ pc = "pad"
    /\ EnsurePad(mem)
    /\ pc' = "save"
    /\ UNCHANGED <<issue, pulls, tree, file, ledger, actor, behind, edits>>

\* tick_step_locked: the save before routing.  A tick that is killed before it has
\* written a comment that the file knows nothing of.
SaveLane ==
    /\ pc = "save" \/ (pc = "intake" /\ Active(mem) /\ mem.pad = "ok")
    /\ pc' = "route"
    /\ file' = mem
    /\ UNCHANGED <<github, tree, mem, ledger, actor, behind, edits, faults>>

\* No lane and no candidate, or the activation fails.
IdleTick ==
    /\ pc = "intake" /\ ~Active(mem)
    /\ \/ ~Eligible /\ ~Activatable /\ UNCHANGED faults
       \/ Activatable /\ Fault
    /\ LeaveTick(mem)
    /\ UNCHANGED <<github, tree, ledger, actor, behind, edits>>

\* A dispatch of the coder, for the step the lane is at.  ensure_lane_worktree
\* takes a worktree that exists as it is, or makes one and runs its hook.
Dispatch ==
    /\ pc = "route" /\ Free(mem) /\ StepFrom(mem.labels) \in {"code", "merge"}
    /\ tree' = IF tree = "none" THEN "ready" ELSE tree
    /\ actor' = StepFrom(mem.labels)
    /\ LeaveTick([mem EXCEPT !.status = "running", !.branch = TRUE])
    /\ UNCHANGED <<github, ledger, behind, edits, faults>>

\* ensure_lane_worktree raises: git failed and left nothing, or the hook failed in
\* the worktree git had made.
TreeFails ==
    /\ pc = "route" /\ Free(mem) /\ StepFrom(mem.labels) \in {"code", "merge"}
    /\ tree = "none" /\ Fault
    /\ tree' \in {"none", "unhooked"}
    /\ LeaveTick(mem)
    /\ UNCHANGED <<github, ledger, actor, behind, edits>>

\* The route moves the step; when the label cannot be set the tick raises.
MoveStep ==
    /\ pc = "route" /\ Free(mem)
    /\ \E target \in MoveTarget(mem), end \in {"moved", "failed", "killed"} :
         LET plan == PlanFor(mem.labels, target)
         IN  /\ LabelCall(plan, end)
             /\ LeaveTick(CASE end = "moved" -> [mem EXCEPT !.status = "claimed",
                                                   !.labels = Labelled(@, plan)]
                            [] end = "failed" -> mem
                            [] OTHER -> file)
    /\ UNCHANGED <<pulls, pads, tree, actor, behind, edits>>

\* done_release_verified, and release_lane.
ReleaseDone ==
    /\ pc = "route" /\ Free(mem)
    /\ StepFrom(mem.labels) = "done" /\ Verified(mem)
    /\ LeaveTick(Ended("delivered"))
    /\ UNCHANGED <<github, tree, ledger, actor, behind, edits, faults>>

\* Every other route holds.
Hold ==
    /\ pc = "route"
    /\ ~Free(mem) \/ (/\ StepFrom(mem.labels) \notin {"code", "merge"}
                      /\ MoveTarget(mem) = {}
                      /\ ~(StepFrom(mem.labels) = "done" /\ Verified(mem)))
    /\ LeaveTick(mem)
    /\ UNCHANGED <<github, tree, ledger, actor, behind, edits, faults>>

\* The process of the tick is killed between two of its calls.
TickKilled ==
    /\ pc # "idle" /\ Fault
    /\ LeaveTick(file)
    /\ UNCHANGED <<github, tree, ledger, actor, behind, edits>>
-----------------------------------------------------------------------------
(* The coder *)

\* GitHub has changed: what a tick in progress has read may be old.
Disturb == behind' = (behind \/ pc # "idle")

\* The coder pushes: to the open pull request, which settles a conflict and starts
\* the checks again but withdraws nobody's review, or by opening a new one.
CoderPushes ==
    /\ actor = "code"
    /\ \E n \in PullNo :
         /\ IF Open = {} THEN n = Cardinality(Made) + 1 ELSE n \in Open
         /\ \E kept \in {pulls[n].blockers \ {"merge_conflict", "check_failed"}} :
              \E checks \in SUBSET (Kinds \cap {"check_pending"}) :
                pulls' = [pulls EXCEPT ![n] = [state |-> "open",
                                               blockers |-> kept \cup checks]]
    /\ Disturb
    /\ UNCHANGED <<issue, pads, tree, file, mem, ledger, actor, pc, edits, faults>>

\* The coder merges what is ready, and closes the issue.
CoderMerges ==
    /\ actor = "merge"
    /\ \/ \E n \in Open : /\ Blockers(n) = {}
                          /\ pulls' = [pulls EXCEPT ![n].state = "merged"]
                          /\ UNCHANGED issue
       \/ /\ Open = {} /\ Made # {} /\ pulls[Max(Made)].state = "merged"
          /\ issue' = [issue EXCEPT !.closed = TRUE]
          /\ UNCHANGED pulls
    /\ Disturb
    /\ UNCHANGED <<pads, tree, file, mem, ledger, actor, pc, edits, faults>>

\* record_actor_output: the pull request an output names replaces what the lane knew.
Named(l, n) ==
    [l EXCEPT !.pr = n, !.state = pulls[n].state, !.merged = pulls[n].state = "merged"]

\* record_actor_output: the output is kept.  A coder says what it sees, and may list
\* the feedback it has worked on.
Told(l, feedback) ==
    [l EXCEPT !.said = [closed |-> actor = "merge" /\ issue.closed, feedback |-> feedback]]

\* The lane with what a coder may answer: it may name no pull request.
Answers(l) ==
    LET newest == Made \ {m \in Made : \E n \in Made : m < n}
        known  == {l} \cup {Named(l, n) : n \in newest}
    IN  {Told(k, FALSE) : k \in known} \cup {Told(k, actor = "code") : k \in known}

\* _apply_coder_output_status: what a done answer must show.
IsDone(l) ==
    IF actor = "code" THEN l.pr # 0 ELSE l.merged /\ l.said.closed

\* Variant: an answer that asks for no step is taken for one.
NextStepOfCode == IF actor = "code" THEN "review" ELSE ""

\* next_step_after_actor_output.
NextStep == IF actor = "code" THEN "review" ELSE "done"

\* A done answer moves the lane on and saves it; when the label cannot be set the
\* worker dies without saving.
CoderIsDone ==
    /\ actor # "none" /\ pc = "idle" /\ file.status = "running"
    /\ \E l \in {a \in Answers(file) : IsDone(a)}, end \in {"moved", "failed", "killed"} :
         LET plan == PlanFor(l.labels, NextStep)
         IN  /\ LabelCall(plan, end)
             /\ file' = IF end # "moved" THEN file
                        ELSE [l EXCEPT !.status = "claimed", !.labels = Labelled(@, plan)]
    /\ mem' = file' /\ actor' = "none"
    /\ UNCHANGED <<pulls, pads, tree, pc, behind, edits>>

\* The coder is blocked, fails or answers against its contract: the lane is the
\* operator's, and no route reads the rest.  Or it was released meanwhile, and the
\* answer is refused.
CoderStops ==
    /\ actor # "none" /\ pc = "idle"
    /\ file' = IF file.status = "running"
               THEN [file EXCEPT !.status = "attention"] ELSE file
    /\ mem' = file' /\ actor' = "none"
    /\ UNCHANGED <<github, tree, ledger, pc, behind, edits, faults>>

\* The coder waits for something.
CoderWaits ==
    /\ actor # "none" /\ pc = "idle" /\ file.status = "running"
    /\ \E l \in Answers(file) : file' = [l EXCEPT !.status = "waiting"]
    /\ mem' = file' /\ actor' = "none"
    /\ UNCHANGED <<github, tree, ledger, pc, behind, edits, faults>>

\* The worker is killed, before or after the coder has touched GitHub.
CoderKilled ==
    /\ actor # "none" /\ Fault
    /\ actor' = "none"
    /\ UNCHANGED <<github, tree, file, mem, ledger, pc, behind, edits>>
-----------------------------------------------------------------------------
(* People *)

\* Reviewers, checks and whoever merges, closes or opens what they like.
PeopleAct ==
    /\ Room /\ edits' = edits + 1
    /\ \/ \E s \in Step : issue' = [issue EXCEPT !.labels = {s}] /\ UNCHANGED pulls
       \/ issue' = [issue EXCEPT !.closed = ~@] /\ UNCHANGED pulls
       \/ /\ \E n \in Open : \E p \in
                 {[state |-> s, blockers |-> pulls[n].blockers] : s \in {"closed", "merged"}}
                 \cup {[state |-> "open", blockers |-> b] : b \in SUBSET Kinds} :
               pulls' = [pulls EXCEPT ![n] = p]
          /\ UNCHANGED issue
    /\ issue' # issue \/ pulls' # pulls
    /\ Disturb
    /\ UNCHANGED <<pads, tree, file, mem, ledger, actor, pc, faults>>
-----------------------------------------------------------------------------
TickStep == \/ Refresh \/ ListPulls \/ ReadSignals
            \/ RepairPad \/ Claim \/ MakePad \/ SaveLane \/ IdleTick
            \/ Dispatch \/ TreeFails \/ MoveStep \/ ReleaseDone \/ Hold

Next == \/ TickStep \/ TickKilled
        \/ CoderPushes \/ CoderMerges \/ CoderIsDone \/ CoderStops \/ CoderWaits \/ CoderKilled
        \/ PeopleAct

Spec == Init /\ [][Next]_vars

\* The daemon goes on ticking.  Nothing is asked of the coder or of people.
FairSpec == Spec /\ WF_vars(TickStep)
-----------------------------------------------------------------------------
(* Properties *)

\* A lane has at most one workpad comment (ensure_workpad), whatever answer was
\* lost, whichever tick was killed, and however often the issue is claimed anew.
OnePad == pads <= 1

\* A lane that is released as verified has had its pull request merged; and when
\* the tick had read everything and nothing changed since, no other pull request
\* of its branch is open (done_release_verified).
DoneIsDelivered ==
    [][file.status # "delivered" /\ file'.status = "delivered"
         => /\ mem.pr # 0 /\ pulls[mem.pr].state = "merged"
            /\ ~behind => Open = {}]_vars

\* Changes the reviewers or the checks ask for are taken up, the first time that a
\* move is asked for: the lane does not stay in review (reconcile_review_signals,
\* route_code_lane).
FeedbackWaits ==
    /\ file.status \in {"claimed", "waiting", "retry", "pad_failed"} /\ file.branch
    /\ StepFrom(issue.labels) = "review"
    /\ \E n \in Open : Blockers(n) \cap Required # {}
    /\ PlanFor(issue.labels, "code") \notin ledger

\* A lane at the code step gets its coder (ensure_lane_worktree, the workpad's
\* repair), whatever failed on the way.
CodeWaits ==
    /\ file.status \in {"claimed", "waiting", "retry", "pad_failed"}
    /\ StepFrom(issue.labels) = "code"

StepsAreServed == (FeedbackWaits ~> ~FeedbackWaits) /\ (CodeWaits ~> ~CodeWaits)
=============================================================================
