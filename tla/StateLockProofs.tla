--------------------------- MODULE StateLockProofs ---------------------------
(***************************************************************************)
(* For any number of processes and any timing that TimingAssumption        *)
(* allows: the lock is typed, its callbacks never overlap under SpecTimed, *)
(* no update is lost, and it implements Mutex.                             *)
(*                                                                         *)
(* The inductive invariant is HolderCovered: a process inside owns the     *)
(* lease, the lease is not released, and the seconds it has left make up,  *)
(* with the seconds since the last write, at least one whole TTL.  As a    *)
(* live holder writes within MaxGap < TTL seconds, the lease never runs    *)
(* out under it, so nobody else may take it.                               *)
(***************************************************************************)
EXTENDS StateLock, TLAPS

Covered(p) ==
    /\ lease.owner = Own(p)
    /\ ~lease.released
    /\ lease.left + since[Own(p)] >= TTL
    /\ since[Own(p)] <= MaxGap

HolderCovered == \A p \in Proc : Inside(p) => Covered(p)

\* A copy exists only inside a running callback.
CopyInside == \A p \in Proc : copy[p] # "none" => pc[p] = "critical"

IInv == TypeOK /\ HolderCovered /\ CopyInside /\ NoLostUpdate
------------------------------------------------------------------------------
(* The lease table keeps its type.                                           *)

\* acquire_engine_lease writes a well-formed row, whoever asks.
LEMMA AcquireType ==
    ASSUME NEW T \in Nat, NEW O, NEW row \in LeaseRow(O, T), NEW o \in O
    PROVE  AcquireLease(row, o, T) \in LeaseRow(O, T)
  BY DEF AcquireLease, LeaseRow

\* release_engine_lease writes a well-formed row, whoever asks.
LEMMA ReleaseType ==
    ASSUME NEW T \in Nat, NEW O, NEW row \in LeaseRow(O, T), NEW o \in O
    PROVE  /\ ReleaseLease(row, o) \in LeaseRow(O, T)
           /\ ReleaseLease(row, o).owner = row.owner
  BY DEF ReleaseLease, LeaseRow

\* The time left of a row never becomes negative and drops by at most one.
LEMMA AgedType ==
    ASSUME NEW T \in Nat, NEW O, NEW row \in LeaseRow(O, T)
    PROVE  /\ Aged(row) \in LeaseRow(O, T)
           /\ Aged(row).owner = row.owner
           /\ Aged(row).released = row.released
           /\ Aged(row).left >= row.left - 1
  BY DEF Aged, LeaseRow

\* The owner id of a process in a call is an owner id.
LEMMA OwnType ==
    ASSUME TypeOK, NEW p \in Proc, pc[p] # "idle"
    PROVE  Own(p) \in Owner
  BY DEF TypeOK, Own, Owner

\* A process inside with_state_lock is in a call, so its owner id is one.
LEMMA InsideOwn ==
    ASSUME TypeOK, NEW p \in Proc, Inside(p)
    PROVE  Own(p) \in Owner
  BY OwnType DEF Inside
------------------------------------------------------------------------------

\* Nobody is in a call when the processes start: the invariant holds.
LEMMA InitIInv == Init => IInv
  <1> SUFFICES ASSUME Init PROVE IInv
    OBVIOUS
  <1> USE TimingAssumption DEF Init
  <1>1. TypeOK
    BY DEF TypeOK, NoRow, LeaseRow
  <1>2. HolderCovered
    BY DEF HolderCovered, Inside
  <1>3. CopyInside /\ NoLostUpdate
    BY DEF CopyInside, NoLostUpdate
  <1>4. QED
    BY <1>1, <1>2, <1>3 DEF IInv

\* Replacing one value of a function by a value of its range keeps its type.
LEMMA ExceptType ==
    ASSUME NEW D, NEW R, NEW f \in [D -> R], NEW x, NEW v \in R
    PROVE  [f EXCEPT ![x] = v] \in [D -> R]
  OBVIOUS

\* Every step, timed or late, keeps the types.
LEMMA TypeStep == TypeOK /\ [NextLate \/ NextTimed]_vars => TypeOK'
  <1> SUFFICES ASSUME TypeOK, [NextLate \/ NextTimed]_vars PROVE TypeOK'
    OBVIOUS
  <1> USE TimingAssumption, NameAssumption DEF TypeOK
  <1>1. ASSUME NEW p \in Proc, Request(p) PROVE TypeOK'
    BY <1>1 DEF Request
  <1>2. ASSUME NEW p \in Proc, Enter(p) PROVE TypeOK'
    <2>1. Own(p) \in Owner
      BY <1>2, OwnType DEF Enter
    <2>2. lease' \in LeaseRow(Owner, TTL)
      BY <1>2, <2>1, AcquireType DEF Enter
    <2>3. QED
      BY <1>2, <2>1, <2>2 DEF Enter
  <1>3. ASSUME NEW p \in Proc, GiveUp(p) PROVE TypeOK'
    BY <1>3 DEF GiveUp
  <1>4. ASSUME NEW p \in Proc, Load(p) PROVE TypeOK'
    BY <1>4 DEF Load
  <1>5. ASSUME NEW p \in Proc, Save(p) PROVE TypeOK'
    BY <1>5 DEF Save
  <1>6. ASSUME NEW p \in Proc, StopRenewer(p) PROVE TypeOK'
    BY <1>6 DEF StopRenewer
  <1>7. ASSUME NEW p \in Proc, Release(p) PROVE TypeOK'
    <2>1. Own(p) \in Owner
      BY <1>7, OwnType DEF Release
    <2>2. lease' \in LeaseRow(Owner, TTL)
      BY <1>7, <2>1, ReleaseType DEF Release
    <2>3. QED
      BY <1>7, <2>1, <2>2 DEF Release
  <1>8. ASSUME NEW p \in Proc, Crash(p) PROVE TypeOK'
    BY <1>8 DEF Crash
  <1>9. ASSUME NEW o \in Owner, RenewerWakes(o) PROVE TypeOK'
    BY <1>9 DEF RenewerWakes
  <1>10. ASSUME NEW o \in Owner, RenewerCalls(o) PROVE TypeOK'
    <2>1. lease' \in LeaseRow(Owner, TTL)
      BY <1>10, AcquireType DEF RenewerCalls
    <2>2. QED
      BY <1>10, <2>1 DEF RenewerCalls
  <1>11. ASSUME NEW o \in Owner, RenewerDies(o) PROVE TypeOK'
    BY <1>11 DEF RenewerDies
  <1>12. ASSUME Second PROVE TypeOK'
    <2>1. lease' \in LeaseRow(Owner, TTL)
      BY <1>12, AgedType DEF Second
    <2>2. wait' \in [Proc -> 0..WaitLimit]
      BY <1>12 DEF Second
    <2>3. since' \in [Owner -> 0..TTL]
      BY <1>12 DEF Second
    <2>4. QED
      BY <1>12, <2>1, <2>2, <2>3 DEF Second
  <1>13. ASSUME NEW p \in Proc, StoreFails(p) PROVE TypeOK'
    <2>1. /\ pc' \in [Proc -> {"idle", "waiting", "critical", "stopping"}]
          /\ call' \in [Proc -> Call \cup {NoCall}]
          /\ \A q \in Proc : pc'[q] # "idle" => call'[q] \in Call
      BY <1>13 DEF StoreFails
    <2>2. 0 \in 0..WaitLimit /\ 0 \in 0..TTL
      OBVIOUS
    <2>3. wait' \in [Proc -> 0..WaitLimit] /\ since' \in [Owner -> 0..TTL]
      BY <1>13, <2>2, ExceptType DEF StoreFails
    <2>4. QED
      BY <1>13, <2>1, <2>3 DEF StoreFails
  <1>14. ASSUME UNCHANGED vars PROVE TypeOK'
    BY <1>14 DEF vars
  <1>15. QED
    BY <1>1, <1>2, <1>3, <1>4, <1>5, <1>6, <1>7, <1>8, <1>9, <1>10, <1>11,
       <1>12, <1>13, <1>14 DEF NextLate, NextTimed, Step, Tick

\* Type correctness holds with or without the timing assumption.
THEOREM TypeCorrect == SpecLate => []TypeOK
  <1>1. Init => TypeOK
    BY InitIInv DEF IInv
  <1>2. TypeOK /\ [NextLate]_vars => TypeOK'
    BY TypeStep
  <1>3. QED
    BY <1>1, <1>2, PTL DEF SpecLate
------------------------------------------------------------------------------
\* While a process is inside and covered nobody else may take the lease.
LEMMA HolderKeepsOthersOut ==
    ASSUME IInv, NEW p \in Proc, Inside(p), NEW o \in Owner, o # Own(p)
    PROVE  ~MayTake(lease, o)
  <1>1. Covered(p) /\ Own(p) \in Owner
    BY InsideOwn DEF IInv, HolderCovered
  <1>2. lease.left > 0
    BY <1>1, TimingAssumption DEF Covered, IInv, TypeOK, LeaseRow
  <1>3. QED
    BY <1>1, <1>2 DEF Covered, MayTake

\* Owner ids name their process.
LEMMA OwnInjective ==
    ASSUME NEW p \in Proc, NEW q \in Proc, Own(p) = Own(q)
    PROVE  p = q
  BY DEF Own

\* Two processes inside would both own the one row of the lease table.
LEMMA MutexFromIInv == IInv => MutualExclusion
  <1> SUFFICES ASSUME IInv, NEW p \in Proc, NEW q \in Proc, Inside(p), Inside(q)
               PROVE  p = q
    BY DEF MutualExclusion
  <1>1. lease.owner = Own(p) /\ lease.owner = Own(q)
    BY DEF IInv, HolderCovered, Covered
  <1>2. QED
    BY <1>1, OwnInjective

\* One step per action that touches the lease, pc, call or since.
LEMMA HolderStep == IInv /\ [NextTimed]_vars => HolderCovered'
  <1> SUFFICES ASSUME IInv, [NextTimed]_vars, NEW q \in Proc, Inside(q)'
               PROVE  Covered(q)'
    BY DEF HolderCovered
  <1> USE TimingAssumption, NameAssumption
  <1>0. TypeOK /\ (Inside(q) => Covered(q) /\ Own(q) \in Owner)
    BY InsideOwn DEF IInv, HolderCovered
  <1>1. ASSUME NEW p \in Proc, Request(p) PROVE Covered(q)'
    <2>1. p # q /\ Inside(q) /\ Own(q)' = Own(q)
      BY <1>0, <1>1 DEF Request, Inside, Own, TypeOK
    <2>2. QED
      BY <1>0, <1>1, <2>1 DEF Request, Covered
  <1>2. ASSUME NEW p \in Proc, Enter(p) PROVE Covered(q)'
    <2>1. Own(p) \in Owner /\ Own(q)' = Own(q)
      BY <1>0, <1>2, OwnType DEF Enter, Own
    <2>2. CASE p = q
      <3>1. lease' = [owner |-> Own(p), left |-> TTL, released |-> FALSE]
        BY <1>2 DEF Enter, AcquireLease
      <3>2. since'[Own(p)] = 0
        BY <1>0, <1>2, <2>1 DEF Enter, TypeOK
      <3>3. QED
        BY <2>1, <2>2, <3>1, <3>2 DEF Covered
    <2>3. CASE p # q
      <3>1. Inside(q)
        BY <1>0, <1>2, <2>3 DEF Enter, Inside, TypeOK
      <3>2. Own(p) # Own(q)
        BY <2>3, OwnInjective
      <3>3. ~MayTake(lease, Own(p))
        BY <2>1, <3>1, <3>2, HolderKeepsOthersOut
      <3>4. QED
        BY <1>2, <3>3 DEF Enter
    <2>4. QED
      BY <2>2, <2>3
  <1>3. ASSUME NEW p \in Proc, GiveUp(p) PROVE Covered(q)'
    <2>1. p # q /\ Inside(q) /\ Own(q)' = Own(q)
      BY <1>0, <1>3 DEF GiveUp, Inside, Own, TypeOK
    <2>2. QED
      BY <1>0, <1>3, <2>1 DEF GiveUp, Covered
  <1>4. ASSUME NEW p \in Proc, Load(p) \/ Save(p) PROVE Covered(q)'
    BY <1>0, <1>4 DEF Load, Save, Inside, Own, Covered
  <1>5. ASSUME NEW p \in Proc, StopRenewer(p) PROVE Covered(q)'
    <2>1. Inside(q) /\ Own(q)' = Own(q)
      BY <1>0, <1>5 DEF StopRenewer, Inside, Own, TypeOK
    <2>2. QED
      BY <1>0, <1>5, <2>1 DEF StopRenewer, Covered
  <1>6. ASSUME NEW p \in Proc, Release(p) PROVE Covered(q)'
    <2>1. p # q /\ Inside(q) /\ Inside(p) /\ Own(q)' = Own(q)
      BY <1>0, <1>6 DEF Release, Inside, Own, TypeOK
    <2>2. QED
      BY <2>1, MutexFromIInv DEF MutualExclusion
  <1>7. ASSUME NEW p \in Proc, Crash(p) PROVE Covered(q)'
    <2>1. p # q /\ Inside(q) /\ Own(q)' = Own(q)
      BY <1>0, <1>7 DEF Crash, Inside, Own, TypeOK
    <2>2. since'[Own(q)] = since[Own(q)]
      BY <1>0, <1>7, <2>1 DEF Crash, Own
    <2>3. QED
      BY <1>0, <1>7, <2>1, <2>2 DEF Crash, Covered
  <1>8. ASSUME NEW o \in Owner, RenewerWakes(o) PROVE Covered(q)'
    BY <1>0, <1>8 DEF RenewerWakes, Inside, Own, Covered
  <1>9. ASSUME NEW o \in Owner, RenewerCalls(o) PROVE Covered(q)'
    <2>1. Inside(q) /\ Own(q)' = Own(q)
      BY <1>9 DEF RenewerCalls, Inside, Own
    <2>2. CASE o = Own(q)
      <3>1. lease' = [owner |-> o, left |-> TTL, released |-> FALSE]
        BY <1>0, <1>9, <2>1, <2>2 DEF RenewerCalls, AcquireLease, MayTake, Covered
      <3>2. since'[o] = 0
        BY <1>0, <1>9 DEF RenewerCalls, TypeOK
      <3>3. QED
        BY <2>1, <2>2, <3>1, <3>2 DEF Covered
    <2>3. CASE o # Own(q)
      <3>1. ~MayTake(lease, o)
        BY <2>1, <2>3, HolderKeepsOthersOut
      <3>2. lease' = lease /\ since'[Own(q)] = since[Own(q)]
        BY <1>0, <1>9, <2>1, <2>3, <3>1 DEF RenewerCalls, AcquireLease, TypeOK
      <3>3. QED
        BY <1>0, <2>1, <3>2 DEF Covered
    <2>4. QED
      BY <2>2, <2>3
  <1>10. ASSUME Tick PROVE Covered(q)'
    <2>1. Inside(q) /\ Own(q)' = Own(q)
      BY <1>10 DEF Tick, Second, Inside, Own
    <2>2. since[Own(q)] < MaxGap /\ Timed(Own(q))
      BY <1>10, <2>1 DEF Tick, Punctual, Timed
    <2>3. since'[Own(q)] = since[Own(q)] + 1
      BY <1>0, <1>10, <2>1, <2>2 DEF Tick, Second, TypeOK
    <2>4. /\ lease'.owner = lease.owner
          /\ lease'.released = lease.released
          /\ lease'.left >= lease.left - 1
          /\ lease'.left \in Int /\ lease.left \in Int
      BY <1>0, <1>10, AgedType DEF Tick, Second, TypeOK, LeaseRow
    <2>5. since[Own(q)] \in Int
      BY <1>0, <2>1 DEF TypeOK
    <2>6. QED
      BY <1>0, <2>1, <2>2, <2>3, <2>4, <2>5 DEF Covered
  <1>11. ASSUME NEW p \in Proc, StoreFails(p) PROVE Covered(q)'
    <2>1. p # q /\ Inside(q) /\ Own(q)' = Own(q)
      BY <1>0, <1>11 DEF StoreFails, Inside, Own, TypeOK
    <2>2. Own(p) # Own(q)
      BY <2>1, OwnInjective
    <2>3. since'[Own(q)] = since[Own(q)]
      BY <1>0, <1>11, <2>1, <2>2 DEF StoreFails, TypeOK
    <2>4. QED
      BY <1>0, <1>11, <2>1, <2>3 DEF StoreFails, Covered
  <1>12. ASSUME UNCHANGED vars PROVE Covered(q)'
    BY <1>0, <1>12 DEF vars, Inside, Own, Covered
  <1>13. QED
    BY <1>1, <1>2, <1>3, <1>4, <1>5, <1>6, <1>7, <1>8, <1>9, <1>10, <1>11, <1>12
    DEF NextTimed, Step
------------------------------------------------------------------------------
\* A copy is dropped before its callback ends, and only a lone insider saves.
LEMMA CopyStep == IInv /\ [NextTimed]_vars => (CopyInside /\ NoLostUpdate)'
  <1> SUFFICES ASSUME IInv, [NextTimed]_vars
               PROVE  CopyInside' /\ NoLostUpdate'
    OBVIOUS
  <1> USE DEF CopyInside, NoLostUpdate
  <1>0. TypeOK /\ CopyInside /\ NoLostUpdate
    BY DEF IInv
  <1>1. ASSUME NEW p \in Proc,
               Request(p) \/ Enter(p) \/ GiveUp(p) \/ Load(p) \/ StopRenewer(p)
                 \/ Release(p) \/ StoreFails(p) \/ Crash(p)
        PROVE  CopyInside' /\ NoLostUpdate'
    BY <1>0, <1>1 DEF Request, Enter, GiveUp, Load, StopRenewer, Release, StoreFails,
                      Crash, TypeOK
  <1>2. ASSUME NEW p \in Proc, Save(p) PROVE CopyInside' /\ NoLostUpdate'
    <2>1. \A q \in Proc : q # p => copy[q] = "none"
      <3> SUFFICES ASSUME NEW q \in Proc, copy[q] # "none" PROVE q = p
        OBVIOUS
      <3>1. Inside(p) /\ Inside(q)
        BY <1>0, <1>2 DEF Save, Inside
      <3>2. QED
        BY <3>1, MutexFromIInv DEF MutualExclusion
    <2>2. QED
      BY <1>0, <1>2, <2>1 DEF Save, TypeOK
  <1>3. ASSUME NEW o \in Owner, RenewerWakes(o) \/ RenewerCalls(o)
        PROVE  CopyInside' /\ NoLostUpdate'
    BY <1>0, <1>3 DEF RenewerWakes, RenewerCalls
  <1>4. CASE Tick
    BY <1>0, <1>4 DEF Tick, Second
  <1>5. CASE UNCHANGED vars
    BY <1>0, <1>5 DEF vars
  <1>6. QED
    BY <1>1, <1>2, <1>3, <1>4, <1>5 DEF NextTimed, Step

\* The strengthening is an invariant of the timed specification.
THEOREM Covering == SpecTimed => []IInv
  <1>1. Init => IInv
    BY InitIInv
  <1>2. IInv /\ [NextTimed]_vars => IInv'
    <2>1. TypeOK /\ [NextTimed]_vars => TypeOK'
      BY TypeStep
    <2>2. QED
      BY <2>1, HolderStep, CopyStep DEF IInv
  <1>3. QED
    BY <1>1, <1>2, PTL DEF SpecTimed

\* Two callbacks of with_state_lock never overlap while holders keep time.
THEOREM LockExcludes == SpecTimed => []MutualExclusion
  BY Covering, MutexFromIInv, PTL

\* Under the lock no callback saves over an update it has not loaded.
THEOREM LockKeepsUpdates == SpecTimed => []NoLostUpdate
  <1>1. IInv => NoLostUpdate
    BY DEF IInv
  <1>2. QED
    BY <1>1, Covering, PTL
------------------------------------------------------------------------------
(* The refinement: a step is an Enter, a Leave or a stutter of Mutex.        *)

Holders == {p \in Proc : Inside(p)}

\* Every step of the timed lock enters or leaves by one process, or changes nobody
\* who is inside: it is a step of Mutex or a stutter.
LEMMA MutexStep ==
    ASSUME IInv, [NextTimed]_vars
    PROVE  \/ \E p \in Proc : \/ Holders = {} /\ Holders' = {p}
                              \/ p \in Holders /\ Holders' = Holders \ {p}
           \/ Holders' = Holders
  <1> USE DEF Holders, Inside
  <1>0. TypeOK
    BY DEF IInv
  <1>1. ASSUME NEW p \in Proc, Enter(p)
        PROVE  Holders = {} /\ Holders' = {p}
    <2>1. \A q \in Proc : ~Inside(q)
      <3> SUFFICES ASSUME NEW q \in Proc, Inside(q) PROVE FALSE
        OBVIOUS
      <3>1. p # q
        BY <1>1 DEF Enter
      <3>2. Own(p) \in Owner /\ Own(p) # Own(q)
        BY <1>0, <1>1, <3>1, OwnType, OwnInjective DEF Enter
      <3>3. ~MayTake(lease, Own(p))
        BY <3>2, HolderKeepsOthersOut
      <3>4. QED
        BY <1>1, <3>3 DEF Enter
    <2>2. QED
      BY <1>0, <1>1, <2>1 DEF Enter, TypeOK
  <1>2. ASSUME NEW p \in Proc, Release(p)
        PROVE  p \in Holders /\ Holders' = Holders \ {p}
    BY <1>0, <1>2 DEF Release, TypeOK
  <1>3. ASSUME NEW p \in Proc, Crash(p) \/ StoreFails(p)
        PROVE  Holders' = Holders \ {p}
    BY <1>0, <1>3 DEF Crash, StoreFails, TypeOK
  <1>4. ASSUME NEW p \in Proc, Request(p) \/ GiveUp(p) \/ StopRenewer(p)
        PROVE  Holders' = Holders
    BY <1>0, <1>4 DEF Request, GiveUp, StopRenewer, TypeOK
  <1>5. ASSUME NEW p \in Proc, Load(p) \/ Save(p)
        PROVE  Holders' = Holders
    BY <1>5 DEF Load, Save
  <1>6. ASSUME NEW o \in Owner, RenewerWakes(o) \/ RenewerCalls(o)
        PROVE  Holders' = Holders
    BY <1>6 DEF RenewerWakes, RenewerCalls
  <1>7. ASSUME Tick \/ UNCHANGED vars PROVE Holders' = Holders
    BY <1>7 DEF Tick, Second, vars
  <1>8. ASSUME NEW p \in Proc, Holders' = Holders \ {p}
        PROVE  (p \in Holders /\ Holders' = Holders \ {p}) \/ Holders' = Holders
    BY <1>8 DEF Holders
  <1>9. QED
    BY <1>1, <1>2, <1>3, <1>4, <1>5, <1>6, <1>7, <1>8 DEF NextTimed, Step

\* with_state_lock is a mutual exclusion lock: SpecTimed implements Mutex.
THEOREM LockImplementsMutex == SpecTimed => ImplementsMutex
  <1>1. Init => MutexSpec!Init
    BY DEF Init, MutexSpec!Init, Inside
  <1>2. IInv /\ [NextTimed]_vars => [MutexSpec!Next]_Holders
    BY MutexStep DEF MutexSpec!Next, MutexSpec!Enter, MutexSpec!Leave, Holders
  <1>3. QED
    BY <1>1, <1>2, Covering, PTL
    DEF SpecTimed, ImplementsMutex, MutexSpec!Spec, Holders

-----------------------------------------------------------------------------
(* Without the timing assumption *)

\* acquire_engine_lease leaves a row that blocks with its owner.
LEMMA AcquireKeepsOwner ==
  ASSUME NEW o, Blocking(lease)
  PROVE  AcquireLease(lease, o, TTL).owner = lease.owner
  BY DEF AcquireLease, MayTake, Blocking

\* Even when holders are late or their renewer has died, a lease that still blocks
\* is never taken from its owner.
THEOREM LateNeverSteals == SpecLate => NoTheft
  <1>1. ASSUME TypeOK, [NextLate]_vars, Blocking(lease)
        PROVE  lease'.owner = lease.owner
    <2>1. ASSUME NEW p \in Proc, Enter(p) PROVE lease'.owner = lease.owner
      BY <1>1, <2>1, AcquireKeepsOwner DEF Enter
    <2>2. ASSUME NEW o \in Owner, RenewerCalls(o) PROVE lease'.owner = lease.owner
      BY <1>1, <2>2, AcquireKeepsOwner DEF RenewerCalls
    <2>3. ASSUME NEW p \in Proc, Release(p) PROVE lease'.owner = lease.owner
      BY <1>1, <2>3 DEF Release, ReleaseLease, TypeOK, LeaseRow
    <2>4. ASSUME Second PROVE lease'.owner = lease.owner
      BY <1>1, <2>4 DEF Second, Aged, TypeOK, LeaseRow
    <2>5. ASSUME NEW p \in Proc,
                 Request(p) \/ GiveUp(p) \/ Load(p) \/ Save(p)
                   \/ StopRenewer(p) \/ StoreFails(p) \/ Crash(p)
          PROVE  lease' = lease
      BY <2>5 DEF Request, GiveUp, Load, Save, StopRenewer, StoreFails, Crash
    <2>6. ASSUME NEW o \in Owner, RenewerWakes(o) \/ RenewerDies(o)
          PROVE  lease' = lease
      BY <2>6 DEF RenewerWakes, RenewerDies
    <2>7. CASE UNCHANGED vars
      BY <2>7 DEF vars
    <2>8. QED
      BY <1>1, <2>1, <2>2, <2>3, <2>4, <2>5, <2>6, <2>7 DEF NextLate, Step
  <1>2. TypeOK /\ [NextLate]_vars => [Blocking(lease) => lease'.owner = lease.owner]_lease
    BY <1>1
  <1>3. QED
    BY <1>2, TypeCorrect, PTL DEF SpecLate, NoTheft
==============================================================================
