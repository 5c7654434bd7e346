-------------------------- MODULE ActorLimitsProofs --------------------------
(***************************************************************************)
(* No actor is known to run more often than its limit allows, for any      *)
(* number of lanes and actors and any configuration.                       *)
(*                                                                         *)
(* The limit is compared with counts, which is taken once per tick; so the *)
(* invariant says that counts is never below the usage while a tick routes *)
(* (CountsCover), and never above the limit.                               *)
(***************************************************************************)
EXTENDS ActorLimits, FiniteSetTheorems, TLAPS

Bounds ==
    /\ IsFiniteSet(Lane)
    /\ MaxLanes \in Nat
    /\ Configured \in [Actor -> Nat]

CountsCover ==
    stage = "routing" => \A a \in Actor : Usage(a) <= counts[a] /\ counts[a] <= Limit(a)

Bounded == \A a \in Actor : Usage(a) <= Limit(a)

IInv == TypeOK /\ CountsCover /\ Bounded

LEMMA LimitType == ASSUME Bounds, NEW a \in Actor PROVE Limit(a) \in Nat
  BY DEF Bounds, Limit

LEMMA UsersFinite ==
    ASSUME Bounds, NEW lanes, NEW a
    PROVE  IsFiniteSet(Users(lanes, a)) /\ Cardinality(Users(lanes, a)) \in Nat
<1>1. Users(lanes, a) \subseteq Lane
  BY DEF Users
<1> QED
  BY <1>1, FS_Subset, FS_CardinalityType DEF Bounds

\* A lane that knows fewer actors than before.
LEMMA LaneLoses ==
    ASSUME Bounds, NEW lanes, NEW l \in Lane, NEW r, NEW a,
           lanes \in [Lane -> Record],
           Known(r) \subseteq Known(lanes[l])
    PROVE  Cardinality(Users([lanes EXCEPT ![l] = r], a))
             <= Cardinality(Users(lanes, a))
<1>1. Users([lanes EXCEPT ![l] = r], a) \subseteq Users(lanes, a)
  BY DEF Users
<1> QED
  BY <1>1, UsersFinite, FS_Subset

\* A lane that takes up one actor: that actor is used once more, no other is.
LEMMA LaneGains ==
    ASSUME Bounds, NEW lanes, NEW l \in Lane, NEW r, NEW a, NEW b,
           lanes \in [Lane -> Record],
           Known(lanes[l]) = {}, Known(r) \subseteq {a}
    PROVE  Cardinality(Users([lanes EXCEPT ![l] = r], b))
             <= Cardinality(Users(lanes, b)) + (IF b = a THEN 1 ELSE 0)
<1> DEFINE after == Users([lanes EXCEPT ![l] = r], b)
           before == Users(lanes, b)
<1>1. IsFiniteSet(before) /\ Cardinality(before) \in Nat
      /\ IsFiniteSet(after) /\ Cardinality(after) \in Nat
  BY UsersFinite
<1>2. CASE b = a
  <2>1. after \subseteq before \cup {l}
    BY DEF Users
  <2>2. IsFiniteSet(before \cup {l})
        /\ Cardinality(before \cup {l}) <= Cardinality(before) + 1
    <3> HIDE DEF before
    <3>1. IsFiniteSet(before) /\ Cardinality(before) \in Nat
      BY <1>1
    <3>2. /\ IsFiniteSet(before \cup {l})
          /\ Cardinality(before \cup {l}) =
               IF l \in before THEN Cardinality(before) ELSE Cardinality(before) + 1
      BY <3>1, FS_AddElement
    <3> QED
      BY <3>1, <3>2
  <2>3. Cardinality(after) <= Cardinality(before \cup {l})
    BY <2>1, <2>2, FS_Subset
  <2>4. Cardinality(before \cup {l}) \in Nat
    BY <2>2, FS_CardinalityType
  <2> QED
    BY <1>1, <1>2, <2>2, <2>3, <2>4
<1>3. CASE b # a
  <2>1. after \subseteq before
    BY <1>3 DEF Users
  <2>2. Cardinality(after) <= Cardinality(before)
    BY <1>1, <2>1, FS_Subset
  <2> QED
    BY <1>1, <1>3, <2>2
<1> QED
  BY <1>2, <1>3

LEMMA InitEstablishes == ASSUME Bounds PROVE Init => IInv
<1> SUFFICES ASSUME Init PROVE IInv
  OBVIOUS
<1>1. TypeOK
  BY DEF Init, TypeOK, NoRecord, Record, MaybeActor
<1>2. CountsCover
  BY DEF Init, CountsCover
<1>3. Bounded
  <2> SUFFICES ASSUME NEW a \in Actor PROVE Usage(a) <= Limit(a)
    BY DEF Bounded
  <2>1. Users(lane, a) = {}
    BY DEF Init, Users, Known, RowKnows, NoRecord
  <2>2. Usage(a) = 0
    BY <2>1, FS_EmptySet DEF Usage
  <2> QED
    BY <2>2, LimitType
<1> QED
  BY <1>1, <1>2, <1>3 DEF IInv

\* Steps after which no lane knows an actor it did not know before.
LEMMA LosingKeeps ==
    ASSUME Bounds, IInv, NEW l \in Lane, NEW r \in Record,
           Known(r) \subseteq Known(lane[l]),
           lane' = [lane EXCEPT ![l] = r], UNCHANGED <<counts, stage>>
    PROVE  IInv'
<1>1. TypeOK'
  BY DEF IInv, TypeOK
<1>2. \A a \in Actor : Usage(a)' <= Usage(a) /\ Usage(a)' \in Nat /\ Usage(a) \in Nat
  BY LaneLoses, UsersFinite DEF IInv, TypeOK, Usage
<1>3. \A a \in Actor : Limit(a)' = Limit(a) /\ Limit(a) \in Nat
  BY LimitType DEF Limit
<1>4. CountsCover' /\ Bounded'
  BY <1>2, <1>3 DEF IInv, TypeOK, CountsCover, Bounded
<1> QED
  BY <1>1, <1>4 DEF IInv

\* A lane without an actor takes one up; whether it is counted decides on what
\* follows.
LEMMA GainingKeeps ==
    ASSUME Bounds, IInv, stage = "routing", NEW l \in Lane, NEW a \in Actor,
           NEW r \in Record, HasCapacity(a),
           Known(lane[l]) = {}, Known(r) \subseteq {a},
           lane' = [lane EXCEPT ![l] = r],
           \/ stage' = stage /\ counts' = [counts EXCEPT ![a] = @ + 1]
           \/ stage' = "outside" /\ counts' = counts
    PROVE  IInv'
<1>1. TypeOK'
  BY DEF IInv, TypeOK
<1>2. \A b \in Actor : /\ Usage(b)' <= Usage(b) + (IF b = a THEN 1 ELSE 0)
                       /\ Usage(b)' \in Nat /\ Usage(b) \in Nat
  BY LaneGains, UsersFinite DEF IInv, TypeOK, Usage
<1>3. \A b \in Actor : Limit(b)' = Limit(b) /\ Limit(b) \in Nat
  BY LimitType DEF Limit
<1>4. \A b \in Actor : Usage(b) <= counts[b] /\ counts[b] <= Limit(b) /\ counts[b] \in Nat
  BY DEF IInv, TypeOK, CountsCover
<1>5. counts[a] < Limit(a)
  BY DEF HasCapacity
<1>6. Bounded'
  <2> SUFFICES ASSUME NEW b \in Actor PROVE Usage(b)' <= Limit(b)'
    BY DEF Bounded
  <2>1. CASE b = a
    BY <1>2, <1>3, <1>4, <1>5, <2>1
  <2>2. CASE b # a
    BY <1>2, <1>3, <1>4, <2>2
  <2> QED
    BY <2>1, <2>2
<1>7. CountsCover'
  <2> SUFFICES ASSUME stage' = "routing", NEW b \in Actor
               PROVE  Usage(b)' <= counts'[b] /\ counts'[b] <= Limit(b)'
    BY DEF CountsCover
  <2>1. counts' = [counts EXCEPT ![a] = @ + 1] /\ counts \in [Actor -> Nat]
    BY DEF IInv, TypeOK
  <2>2. CASE b = a
    BY <1>2, <1>3, <1>4, <1>5, <2>1, <2>2
  <2>3. CASE b # a
    BY <1>2, <1>3, <1>4, <2>1, <2>3
  <2> QED
    BY <2>2, <2>3
<1> QED
  BY <1>1, <1>6, <1>7 DEF IInv

LEMMA StepKeeps == ASSUME Bounds PROVE IInv /\ [Next]_vars => IInv'
<1> SUFFICES ASSUME IInv, [Next]_vars PROVE IInv'
  OBVIOUS
<1>1. ASSUME NEW l \in Lane, Claim(l) PROVE IInv'
  <2> DEFINE r == [NoRecord EXCEPT !.active = TRUE]
  <2>1. r \in Record /\ Known(r) = {}
    BY DEF NoRecord, Record, MaybeActor, Known, RowKnows
  <2>2. lane' = [lane EXCEPT ![l] = r] /\ UNCHANGED <<counts, stage>>
    BY <1>1 DEF Claim
  <2> QED
    BY <2>1, <2>2, LosingKeeps
<1>2. ASSUME NEW l \in Lane, Settle(l) PROVE IInv'
  <2>1. PICK r \in Record :
          /\ r.running \in {lane[l].running, NoActor}
          /\ r.session \in {lane[l].session, NoActor}
          /\ r.dispatch \in {lane[l].dispatch, NoActor}
          /\ lane' = [lane EXCEPT ![l] = r]
    BY <1>2 DEF Settle
  <2>2. Known(r) \subseteq Known(lane[l])
    BY <1>2, <2>1 DEF Settle, Known, RowKnows
  <2> QED
    BY <1>2, <2>1, <2>2, LosingKeeps DEF Settle
<1>3. ASSUME NEW l \in Lane, Release(l) PROVE IInv'
  <2>1. NoRecord \in Record /\ Known(NoRecord) = {}
    BY DEF NoRecord, Record, MaybeActor, Known, RowKnows
  <2> QED
    BY <1>3, <2>1, LosingKeeps DEF Release, Routed
<1>4. CASE Count
  <2>1. \A a \in Actor : Usage(a)' = Usage(a) /\ Usage(a) \in Nat
                         /\ Limit(a)' = Limit(a)
    BY <1>4, UsersFinite DEF Count, Usage, Limit
  <2>2. TypeOK'
    BY <1>4, <2>1 DEF Count, IInv, TypeOK
  <2>3. CountsCover' /\ Bounded'
    BY <1>4, <2>1 DEF Count, IInv, CountsCover, Bounded
  <2> QED
    BY <2>2, <2>3 DEF IInv
<1>5. CASE EndTick
  <2>1. \A a \in Actor : Usage(a)' = Usage(a) /\ Limit(a)' = Limit(a)
    BY <1>5 DEF EndTick, Usage, Limit
  <2> QED
    BY <1>5, <2>1 DEF EndTick, IInv, TypeOK, CountsCover, Bounded
<1>6. ASSUME NEW l \in Lane, NEW a \in Actor, Dispatch(l, a) PROVE IInv'
  <2>1. CASE Known(lane[l]) = {}
    <3>1. PICK r \in Record : /\ Known(r) \subseteq {a}
                              /\ lane' = [lane EXCEPT ![l] = r]
      BY <1>6, <2>1 DEF Dispatch, Routed
    <3> QED
      BY <1>6, <2>1, <3>1, GainingKeeps DEF Dispatch, Routed
  <2>2. CASE Known(lane[l]) # {}
    <3>1. lane' = lane /\ stage' = stage /\ stage = "routing"
          /\ counts' = [counts EXCEPT ![a] = @ + 1] /\ counts[a] < Limit(a)
      BY <1>6, <2>2 DEF Dispatch, Routed, HasCapacity
    <3>2. \A b \in Actor : Usage(b)' = Usage(b) /\ Usage(b) \in Nat
                           /\ Limit(b)' = Limit(b) /\ Limit(b) \in Nat
      BY <3>1, UsersFinite, LimitType DEF Usage, Limit
    <3>3. TypeOK'
      BY <3>1 DEF IInv, TypeOK
    <3>4. Bounded'
      BY <3>2 DEF IInv, Bounded
    <3>5. \A b \in Actor : Usage(b)' <= counts'[b] /\ counts'[b] <= Limit(b)'
      BY <3>1, <3>2 DEF IInv, TypeOK, CountsCover
    <3> QED
      BY <3>3, <3>4, <3>5 DEF IInv, CountsCover
  <2> QED
    BY <2>1, <2>2
<1>7. ASSUME NEW l \in Lane, NEW a \in Actor, DispatchRaises(l, a) PROVE IInv'
  <2>1. CASE HasCapacity(a) /\ Known(lane[l]) = {}
    <3>1. PICK r \in Record : /\ Known(r) \subseteq {a}
                              /\ lane' = [lane EXCEPT ![l] = r]
      BY <1>7, <2>1 DEF DispatchRaises, Routed
    <3> QED
      BY <1>7, <2>1, <3>1, GainingKeeps DEF DispatchRaises, Routed
  <2>2. CASE ~(HasCapacity(a) /\ Known(lane[l]) = {})
    <3>1. UNCHANGED <<lane, counts>> /\ stage' = "outside"
      BY <1>7, <2>2 DEF DispatchRaises, Routed
    <3>2. \A b \in Actor : Usage(b)' = Usage(b) /\ Limit(b)' = Limit(b)
      BY <3>1 DEF Usage, Limit
    <3> QED
      BY <3>1, <3>2 DEF IInv, TypeOK, CountsCover, Bounded
  <2> QED
    BY <2>1, <2>2
<1>8. CASE UNCHANGED vars
  <2>1. \A b \in Actor : Usage(b)' = Usage(b) /\ Limit(b)' = Limit(b)
    BY <1>8 DEF vars, Usage, Limit
  <2> QED
    BY <1>8, <2>1 DEF vars, IInv, TypeOK, CountsCover, Bounded
<1> QED
  BY <1>1, <1>2, <1>3, <1>4, <1>5, <1>6, <1>7, <1>8 DEF Next

LEMMA Invariance == ASSUME Bounds PROVE Spec => []IInv
  BY InitEstablishes, StepKeeps, PTL DEF Spec

\* Whatever the lanes, the actors and the limits, one tick that dispatches many
\* lanes from one count, and raises or is killed at any of them, never takes an
\* actor past its limit, and status never has to hide an excess
\* (validate_actor_capacity, actor_capacity_snapshot).
THEOREM ActorsWithinLimits == ASSUME Bounds PROVE Spec => []WithinLimits
<1>1. IInv => WithinLimits
  <2> SUFFICES ASSUME IInv, NEW a \in Actor
               PROVE  Usage(a) + Available(a) = Limit(a)
    BY DEF WithinLimits
  <2>1. Usage(a) \in Nat /\ Limit(a) \in Nat /\ Usage(a) <= Limit(a)
    BY UsersFinite, LimitType DEF IInv, Bounded, Usage
  <2> QED
    BY <2>1 DEF Available
<1> QED
  BY <1>1, Invariance, PTL
==============================================================================
