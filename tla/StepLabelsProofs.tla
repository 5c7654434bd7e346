-------------------------- MODULE StepLabelsProofs --------------------------
(***************************************************************************)
(* What a move of the step does to the labels, for any number of moves,    *)
(* of edits by people and of calls that break off.                         *)
(***************************************************************************)
EXTENDS StepLabels, TLAPS

\* The key of the move in progress is the plan made from the labels the lane has
\* read: nothing reads the issue again before the move ends.
KeyIsPlan == move # NoMove => move.key = Plan(move.key.target)

\* How far the call has come, when the lane knew the labels it started from.
CallSoFar ==
    /\ exact /\ move.phase = "removing" => tracker = seen
    /\ exact /\ move.phase = "adding" => tracker = seen \ move.key.remove
    /\ exact /\ move.phase \in {"called", "recorded"} => tracker = Mutated(move.key)

\* A move at or past the end of its call has been called.
KeyIsCalled == move.phase \in {"called", "recorded"} => move.key \in called

IInv == TypeOK /\ KeyIsPlan /\ CallSoFar /\ KeyIsCalled /\ LedgerIsEarned

------------------------------------------------------------------------------
\* A plan made from step labels is a key (label_plan_for_step).
LEMMA PlanIsKey ==
    ASSUME TypeOK, NEW target \in Step
    PROVE  Plan(target) \in Key
  BY DEF Plan, Key, TypeOK

\* Carrying out a plan on the labels it was made from leaves the target alone
\* (label_plan_for_step with _apply_label_mutation).
LEMMA PlanLeavesTarget ==
    ASSUME NEW target
    PROVE  Mutated(Plan(target)) = {target}
  BY DEF Mutated, Plan

\* What is noted from step labels is a step (step_from_labels,
\* refresh_lane_board_metadata).
LEMMA NotedIsStep ==
    ASSUME TypeOK
    PROVE  NotedStep(tracker) \in Step
<1>1. CASE tracker = {}
  BY <1>1 DEF NotedStep, TypeOK
<1>2. CASE tracker # {}
  <2> DEFINE First(s) == s \in tracker /\ \A t \in tracker : Rank[s] <= Rank[t]
  <2>1. \E s \in tracker : First(s)
    <3>0. tracker \subseteq Step BY DEF TypeOK
    <3>1. CASE "done" \in tracker BY <3>0, <3>1 DEF Step, Rank
    <3>2. CASE "done" \notin tracker /\ "blocked" \in tracker
      BY <3>0, <3>2 DEF Step, Rank
    <3>3. CASE tracker \cap {"done", "blocked"} = {} /\ "merge" \in tracker
      BY <3>0, <3>3 DEF Step, Rank
    <3>4. CASE tracker \subseteq {"review", "code"} /\ "review" \in tracker
      BY <3>4 DEF Rank
    <3>5. CASE tracker = {"code"}
      BY <3>5 DEF Rank
    <3>6. QED BY <1>2, <3>0, <3>1, <3>2, <3>3, <3>4, <3>5 DEF Step
  <2>2. StepFrom(tracker) \in tracker
    BY <2>1 DEF StepFrom
  <2>3. QED BY <1>2, <2>2 DEF NotedStep, TypeOK
<1>3. QED BY <1>1, <1>2

\* The invariant holds of the lane that was just claimed for code.
LEMMA InitIInv == Init => IInv
<1> SUFFICES ASSUME Init PROVE IInv
  OBVIOUS
<1>1. 0 \in 0..MaxRounds /\ 0 \in 0..MaxEdits
  BY BoundAssumption
<1>2. "code" \in Step
  BY DEF Step
<1>3. TypeOK
  BY <1>1, <1>2 DEF Init, TypeOK
<1>4. move.phase = "idle" /\ move = NoMove
  BY DEF Init, NoMove
<1>5. QED
  BY <1>3, <1>4 DEF Init, IInv, KeyIsPlan, CallSoFar, KeyIsCalled, LedgerIsEarned

\* Every step keeps it: a move's key stays the plan of the labels the lane has
\* read until the lane is saved, because the issue is not read again meanwhile.
LEMMA NextIInv == IInv /\ [Next]_vars => IInv'
<1> SUFFICES ASSUME IInv, [Next]_vars PROVE IInv'
  OBVIOUS
<1> USE BoundAssumption
<1>0. TypeOK /\ KeyIsPlan /\ CallSoFar /\ KeyIsCalled /\ LedgerIsEarned
  BY DEF IInv
<1>1. CASE Refresh
  <2>1. NotedStep(tracker) \in Step BY <1>0, NotedIsStep
  <2>2. QED
    BY <1>0, <1>1, <2>1 DEF Refresh, IInv, TypeOK, KeyIsPlan, CallSoFar,
       KeyIsCalled, LedgerIsEarned, NoMove
<1>2. CASE Dispatch
  BY <1>0, <1>2 DEF Dispatch, IInv, TypeOK, KeyIsPlan, CallSoFar, Mutated, Plan,
     KeyIsCalled, LedgerIsEarned, NoMove
<1>3. CASE ActorEnds
  BY <1>0, <1>3 DEF ActorEnds, IInv, TypeOK, KeyIsPlan, CallSoFar, Mutated, Plan,
     KeyIsCalled, LedgerIsEarned, NoMove
<1>4. CASE BeginMove
  <2>1. PICK target \in Step :
          /\ Wanted(target)
          /\ Backward(target) => rounds < MaxRounds
          /\ rounds' = IF Backward(target) THEN rounds + 1 ELSE rounds
          /\ \/ /\ SaveStep(Plan(target), Mutated(Plan(target)))
                /\ acting' = "no"
                /\ UNCHANGED <<move, exact>>
             \/ /\ move' = [phase |-> "removing", key |-> Plan(target)]
                /\ exact' = (seen = tracker)
                /\ UNCHANGED <<seen, step, acting>>
    BY <1>4 DEF BeginMove
  <2>2. Plan(target) \in Key /\ Plan(target).target = target
    BY <1>0, PlanIsKey DEF Plan
  <2>3. Mutated(Plan(target)) = {target}
    BY PlanLeavesTarget
  <2>4. rounds' \in 0..MaxRounds
    BY <1>0, <2>1 DEF TypeOK
  <2>5. UNCHANGED <<tracker, ledger, called, released, edits>> /\ move = NoMove
    BY <1>4 DEF BeginMove
  <2>6. CASE /\ SaveStep(Plan(target), Mutated(Plan(target)))
             /\ acting' = "no"
             /\ UNCHANGED <<move, exact>>
    <3>1. seen' = {target} /\ step' = target
      BY <2>2, <2>3, <2>6 DEF SaveStep
    <3>2. TypeOK'
      BY <1>0, <2>4, <2>5, <2>6, <3>1 DEF TypeOK
    <3>3. QED
      BY <1>0, <2>5, <2>6, <3>2 DEF IInv, KeyIsPlan, CallSoFar, KeyIsCalled,
         LedgerIsEarned, NoMove
  <2>7. CASE /\ move' = [phase |-> "removing", key |-> Plan(target)]
             /\ exact' = (seen = tracker)
             /\ UNCHANGED <<seen, step, acting>>
    <3>1. move' \in Move /\ move'.phase = "removing" /\ move'.key = Plan(target)
      BY <2>2, <2>7 DEF Move
    <3>2. TypeOK'
      BY <1>0, <2>4, <2>5, <2>7, <3>1 DEF TypeOK
    <3>3. KeyIsPlan'
      BY <2>2, <2>7, <3>1 DEF KeyIsPlan, Plan
    <3>4. QED
      BY <1>0, <2>5, <2>7, <3>1, <3>2, <3>3 DEF IInv, CallSoFar, KeyIsCalled,
         LedgerIsEarned
  <2>8. QED BY <2>1, <2>6, <2>7
<1>5. CASE RemoveLabels
  <2>1. move \in Move /\ move'.phase = "adding" /\ move'.key = move.key
    BY <1>0, <1>5 DEF RemoveLabels, TypeOK, NoMove, Move
  <2>2. TypeOK'
    BY <1>0, <1>5, <2>1 DEF RemoveLabels, TypeOK, Move, Key
  <2>3. QED
    BY <1>0, <1>5, <2>1, <2>2 DEF RemoveLabels, IInv, KeyIsPlan, CallSoFar, Plan,
       KeyIsCalled, LedgerIsEarned, NoMove
<1>6. CASE AddLabels
  <2>1. move \in Move /\ move'.phase = "called" /\ move'.key = move.key
    BY <1>0, <1>6 DEF AddLabels, TypeOK, NoMove, Move
  <2>2. TypeOK'
    BY <1>0, <1>6, <2>1 DEF AddLabels, TypeOK, Move, Key
  <2>3. QED
    BY <1>0, <1>6, <2>1, <2>2 DEF AddLabels, IInv, KeyIsPlan, CallSoFar, Plan,
       Mutated, KeyIsCalled, LedgerIsEarned, NoMove
<1>7. CASE RecordEffect
  <2>1. move \in Move /\ move'.phase = "recorded" /\ move'.key = move.key
    BY <1>0, <1>7 DEF RecordEffect, TypeOK, NoMove, Move
  <2>2. TypeOK'
    BY <1>0, <1>7, <2>1 DEF RecordEffect, TypeOK, Move, Key
  <2>3. QED
    BY <1>0, <1>7, <2>1, <2>2 DEF RecordEffect, IInv, KeyIsPlan, CallSoFar, Plan,
       Mutated, KeyIsCalled, LedgerIsEarned, NoMove
<1>8. CASE FinishMove
  <2>1. move \in Move /\ move.key \in Key
    BY <1>0, <1>8 DEF FinishMove, TypeOK, NoMove, Move
  <2>2. QED
    BY <1>0, <1>8, <2>1 DEF FinishMove, SaveStep, Mutated, IInv, TypeOK, KeyIsPlan,
       CallSoFar, KeyIsCalled, LedgerIsEarned, NoMove, Key
<1>9. CASE BreakOff
  BY <1>0, <1>9 DEF BreakOff, IInv, TypeOK, KeyIsPlan, CallSoFar, KeyIsCalled,
     LedgerIsEarned, NoMove
<1>10. CASE ReleaseDone
  BY <1>0, <1>10 DEF ReleaseDone, IInv, TypeOK, KeyIsPlan, CallSoFar, Mutated, Plan,
     KeyIsCalled, LedgerIsEarned, NoMove
<1>11. CASE PeopleEdit
  <2>1. tracker' \in SUBSET Step
    BY <1>0, <1>11 DEF PeopleEdit, TypeOK
  <2>2. edits' \in 0..MaxEdits
    BY <1>0, <1>11 DEF PeopleEdit, TypeOK
  <2>3. TypeOK'
    BY <1>0, <1>11, <2>1, <2>2 DEF PeopleEdit, TypeOK
  <2>4. QED
    BY <1>0, <1>11, <2>3 DEF PeopleEdit, IInv, KeyIsPlan, CallSoFar, Plan,
       KeyIsCalled, LedgerIsEarned
<1>12. CASE UNCHANGED vars
  BY <1>0, <1>12 DEF vars, IInv, TypeOK, KeyIsPlan, CallSoFar, Mutated, Plan,
     KeyIsCalled, LedgerIsEarned
<1>13. QED
  BY <1>1, <1>2, <1>3, <1>4, <1>5, <1>6, <1>7, <1>8, <1>9, <1>10, <1>11, <1>12
     DEF Next

\* The parts of the invariant hold in every state the workflow reaches.
LEMMA Invariance == Spec => []IInv
<1>1. QED BY InitIInv, NextIInv, PTL DEF Spec

\* The ledger of side effects claims only what the tracker was called for.
THEOREM LedgerEarned == Spec => []LedgerIsEarned
<1>1. IInv => LedgerIsEarned BY DEF IInv
<1>2. QED BY <1>1, Invariance, PTL

\* The state of a lane's labels has its type, and what is noted is a step.
THEOREM TypeCorrect == Spec => []TypeOK
<1>1. IInv => TypeOK BY DEF IInv
<1>2. QED BY <1>1, Invariance, PTL

\* A move never takes off a label people put on after the lane last read the issue.
THEOREM UnreadStay == Spec => UnreadLabelsStay
<1>1. ASSUME IInv, [Next]_vars
      PROVE  [edits' = edits => tracker \ seen \subseteq tracker']_vars
  <2>0. TypeOK /\ KeyIsPlan BY <1>1 DEF IInv
  <2>1. CASE RemoveLabels
    <3>1. move # NoMove BY <2>1 DEF RemoveLabels, NoMove
    <3>2. move.key.remove \subseteq seen BY <2>0, <3>1 DEF KeyIsPlan, Plan
    <3>3. QED BY <2>1, <3>2 DEF RemoveLabels
  <2>2. CASE PeopleEdit
    BY <2>0, <2>2 DEF PeopleEdit, TypeOK
  <2>3. CASE Refresh \/ Dispatch \/ ActorEnds \/ BeginMove \/ AddLabels
             \/ RecordEffect \/ FinishMove \/ BreakOff \/ ReleaseDone
    BY <2>3 DEF Refresh, Dispatch, ActorEnds, BeginMove, AddLabels, RecordEffect,
       FinishMove, BreakOff, ReleaseDone
  <2>4. QED BY <1>1, <2>1, <2>2, <2>3 DEF Next
<1>2. QED BY <1>1, Invariance, PTL DEF Spec, UnreadLabelsStay

\* A move whose call went through, on labels the lane knew, leaves the issue with
\* the target as its only step label and the lane with exactly that.
THEOREM OneLabelLeft == Spec => MoveLeavesOneLabel
<1>1. ASSUME IInv, [Next]_vars
      PROVE  [exact /\ move.phase = "recorded" /\ seen' # seen =>
                 tracker = {move.key.target} /\ seen' = tracker]_vars
  <2>0. TypeOK /\ KeyIsPlan /\ CallSoFar BY <1>1 DEF IInv
  <2>1. CASE FinishMove
    <3>1. move # NoMove BY <2>1 DEF FinishMove, NoMove
    <3>2. Mutated(move.key) = {move.key.target}
      BY <2>0, <3>1, PlanLeavesTarget DEF KeyIsPlan
    <3>3. QED BY <2>0, <2>1, <3>2 DEF FinishMove, SaveStep, CallSoFar
  <2>2. CASE Refresh \/ BeginMove
    BY <2>2 DEF Refresh, BeginMove, NoMove
  <2>3. CASE Dispatch \/ ActorEnds \/ RemoveLabels \/ AddLabels \/ RecordEffect
             \/ BreakOff \/ ReleaseDone \/ PeopleEdit
    BY <2>3 DEF Dispatch, ActorEnds, RemoveLabels, AddLabels, RecordEffect,
       BreakOff, ReleaseDone, PeopleEdit
  <2>4. QED BY <1>1, <2>1, <2>2, <2>3 DEF Next
<1>2. QED BY <1>1, Invariance, PTL DEF Spec, MoveLeavesOneLabel
=============================================================================
