----------------------------- MODULE ActorLimits -----------------------------
(***************************************************************************)
(* How many actors of a kind a workflow runs at once: the limits of the    *)
(* configuration (lane_state.py), the actors the records know of           *)
(* (actor_concurrency_usage), and the tick that counts them once and then  *)
(* dispatches lane after lane (step_runner.py).                            *)
(*                                                                         *)
(* All of it happens under the state lock.  Several lanes matter here, and *)
(* of each only the three records that a count reads; LaneDispatch has how *)
(* one lane's records come to be, and where they are wrong about which     *)
(* processes are alive.  The engine's rows are those the save just before  *)
(* the count has written from the same records.                            *)
(***************************************************************************)
EXTENDS Integers, FiniteSets

CONSTANTS
    Lane, Actor, NoActor,
    MaxLanes,       \* concurrency.max-lanes
    Configured      \* concurrency.actors: a limit per actor, 0 for none

VARIABLES
    lane,       \* the lanes of the state file
    counts,     \* dispatch_counts
    stage       \* no tick is routing lanes, or one is

vars == <<lane, counts, stage>>

MaybeActor == Actor \cup {NoActor}

\* running is the lane's actor while its status is running, session and
\* dispatch those of a running session and an open dispatch.
Record == [active  : BOOLEAN, running : MaybeActor,
           session : MaybeActor, dispatch : MaybeActor]

NoRecord == [active |-> FALSE, running |-> NoActor,
             session |-> NoActor, dispatch |-> NoActor]

\* Types of the lanes and of the tick's counts.
TypeOK ==
    /\ lane \in [Lane -> Record]
    /\ counts \in [Actor -> Nat]
    /\ stage \in {"outside", "routing"}

Init ==
    /\ lane = [l \in Lane |-> NoRecord]
    /\ counts = [a \in Actor |-> 0]
    /\ stage = "outside"
------------------------------------------------------------------------------
\* Limits.

\* _actor_limit_config: at most max-lanes, and that when nothing is configured.
Limit(a) ==
    IF Configured[a] \in 1..MaxLanes THEN Configured[a] ELSE MaxLanes

\* _engine_runtime_session_is_active: the row of a released lane, whose session
\* may still be called running, is not.
RowKnows(r) == IF r.active THEN {r.session} ELSE {}

\* The actors of one lane, from all sources.
Known(r) ==
    (RowKnows(r) \cup IF r.active THEN {r.running, r.dispatch} ELSE {}) \ {NoActor}

\* actor_concurrency_usage: a lane counts once for an actor, however many records
\* name it; a lane keeps its one stage.
Users(lanes, a) == {l \in Lane : a \in Known(lanes[l])}
Usage(a) == Cardinality(Users(lane, a))

\* validate_actor_capacity.
HasCapacity(a) == counts[a] < Limit(a)

\* actor_capacity_snapshot, what status shows as available.
Available(a) == IF Limit(a) > Usage(a) THEN Limit(a) - Usage(a) ELSE 0
------------------------------------------------------------------------------
\* The lanes.

\* Intake claims an issue, for the first time or again: the lane is a new one.
Claim(l) ==
    /\ stage = "outside" /\ ~lane[l].active
    /\ lane' = [lane EXCEPT ![l] = [NoRecord EXCEPT !.active = TRUE]]
    /\ UNCHANGED <<counts, stage>>

\* A result, an interruption, a release: records are closed, none is opened.
Settle(l) ==
    /\ stage = "outside" /\ lane[l].active
    /\ \E r \in Record :
         /\ r.running \in {lane[l].running, NoActor}
         /\ r.session \in {lane[l].session, NoActor}
         /\ r.dispatch \in {lane[l].dispatch, NoActor}
         /\ lane' = [lane EXCEPT ![l] = r]
    /\ UNCHANGED <<counts, stage>>

\* tick_step_locked: the records are counted once, before the first lane.
Count ==
    /\ stage = "outside"
    /\ counts' = [a \in Actor |-> Usage(a)]
    /\ stage' = "routing"
    /\ UNCHANGED lane

\* route_code_lane holds a lane that is running or has an open dispatch.
Routed(l) ==
    /\ stage = "routing" /\ lane[l].active
    /\ lane[l].running = NoActor /\ lane[l].dispatch = NoActor

\* apply_step_route: capacity, then the dispatch.  A background actor leaves its
\* records, an inline one has run and left none or some of them.  A lane whose
\* session still runs is refused by the guard, and is counted all the same.
Dispatch(l, a) ==
    /\ Routed(l) /\ HasCapacity(a)
    /\ \/ /\ Known(lane[l]) = {}
          /\ \E r \in Record : /\ Known(r) \subseteq {a}
                               /\ lane' = [lane EXCEPT ![l] = r]
       \/ Known(lane[l]) # {} /\ UNCHANGED lane
    /\ counts' = [counts EXCEPT ![a] = @ + 1]
    /\ UNCHANGED stage

\* The dispatch raises, on its way or for want of capacity, or its process is
\* killed: the lane is left as it was last saved, and the tick is over.
DispatchRaises(l, a) ==
    /\ Routed(l)
    /\ \/ /\ HasCapacity(a) /\ Known(lane[l]) = {}
          /\ \E r \in Record : /\ Known(r) \subseteq {a}
                               /\ lane' = [lane EXCEPT ![l] = r]
       \/ ~HasCapacity(a) /\ UNCHANGED lane
    /\ stage' = "outside"
    /\ UNCHANGED counts

\* A route releases the lane: no record of it counts any more.
Release(l) ==
    /\ Routed(l)
    /\ lane' = [lane EXCEPT ![l] = NoRecord]
    /\ UNCHANGED <<counts, stage>>

EndTick ==
    /\ stage = "routing"
    /\ stage' = "outside"
    /\ UNCHANGED <<lane, counts>>

Next ==
    \/ \E l \in Lane : Claim(l) \/ Settle(l) \/ Release(l)
    \/ Count \/ EndTick
    \/ \E l \in Lane, a \in Actor : Dispatch(l, a) \/ DispatchRaises(l, a)

Spec == Init /\ [][Next]_vars
------------------------------------------------------------------------------
\* However many lanes one tick dispatches, whichever of them fails half way: no
\* actor is known to run more often than its limit allows, so what status shows
\* as running and as available adds up to the limit (validate_actor_capacity,
\* actor_capacity_snapshot).
WithinLimits == \A a \in Actor : Usage(a) + Available(a) = Limit(a)
==============================================================================
