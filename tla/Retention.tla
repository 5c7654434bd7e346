------------------------------ MODULE Retention ------------------------------
(***************************************************************************)
(* The retention of the event ledger engine_events: what a prune keeps     *)
(* (engine/retention.py, prune_engine_events_to_connection), and what the  *)
(* statistics and the doctor say of it afterwards.                         *)
(*                                                                         *)
(* An event is the second it was made at and its id, which is a number     *)
(* here: only the order of ids is read.  One prune is one transaction of   *)
(* the store, so it is an operator and not an action.  A limit may be      *)
(* missing; negative ones are left out (a prune takes them for zero, the   *)
(* statistics take them as they are).                                      *)
(***************************************************************************)
EXTENDS Integers, FiniteSets

NoLimit == -1
SecondsPerDay == 86400

Event == [id : Nat, at : Int]

Limits == [age : Nat \cup {NoLimit}, rows : Nat \cup {NoLimit}]

\* Rows of one ledger: a primary key is not used twice.
IsLedger(events) ==
    /\ events \subseteq Event /\ IsFiniteSet(events)
    /\ \A e, f \in events : e.id = f.id => e = f

\* normalize_event_retention: days count when no seconds are given.
Normalized(days, seconds, rows) ==
    [age  |-> IF seconds = NoLimit /\ days # NoLimit THEN days * SecondsPerDay
              ELSE seconds,
     rows |-> rows]

Configured(limits) == limits # [age |-> NoLimit, rows |-> NoLimit]

\* ORDER BY created_at_epoch DESC, event_id DESC.
Newer(e, f) == e.at > f.at \/ (e.at = f.at /\ e.id > f.id)

Above(events, e) == {f \in events : Newer(f, e)}

\* prune_engine_events_to_connection: first by age, then all but the newest rows.
Young(events, now, age) ==
    {e \in events : age # NoLimit => e.at >= now - age}

Newest(events, rows) ==
    {e \in events : rows # NoLimit => Cardinality(Above(events, e)) < rows}

Pruned(events, now, limits) ==
    Newest(Young(events, now, limits.age), limits.rows)

\* apply_event_retention.
Applied(events, now, limits) ==
    IF Configured(limits) THEN Pruned(events, now, limits) ELSE events

\* engine_event_stats_from_connection.
ExcessRows(events, rows) == rows # NoLimit /\ Cardinality(events) > rows

AgeOverdue(events, now, age) ==
    age # NoLimit /\ \E e \in events : now - e.at > age

\* EngineStore.doctor, the check engine-event-retention: when it warns.
Warns(events, now, limits) ==
    \/ ~Configured(limits) /\ events # {}
    \/ ExcessRows(events, limits.rows)
    \/ AgeOverdue(events, now, limits.age)
==============================================================================
