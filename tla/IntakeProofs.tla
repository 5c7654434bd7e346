---------------------------- MODULE IntakeProofs ----------------------------
(***************************************************************************)
(* For any number of issues, lanes, runners and faults: the state of       *)
(* intake has its type, capacity is kept, the claim lease follows the      *)
(* lane, and no actor works without a workpad.                             *)
(***************************************************************************)
EXTENDS Intake, FiniteSetTheorems, TLAPS

RunningHasPad(lanes) ==
    \A i \in Issue : lanes[i].status = "running" => lanes[i].pad = "ok"

LeasesFollow(rows, lanes) ==
    \A i \in Issue :
        /\ rows[i].released <=> ~Active(lanes[i])
        /\ Active(lanes[i]) => rows[i].owner = lanes[i].owner

Few(lanes) == Cardinality(ActiveIn(lanes)) <= MaxLanes

\* Between ticks the file is the state.
IdleIsSaved == pc = "idle" => mem = disk

\* Nothing happens to a lane while it is being claimed.
ClaimInHand == cur # NoIssue => mem[cur].status = "claimed"

\* After the repair, a lane without a workpad has the status that keeps it from
\* being dispatched; the lane being claimed comes to its own workpad.
Repaired ==
    pc \in {"list", "claiming", "leased", "unlabelled", "labelled", "routing"} =>
        \A i \in Issue \ {cur} :
            Active(mem[i]) => mem[i].pad = "ok" \/ mem[i].status = "pad_failed"

\* What the lanes of the tick and of the file keep, whatever the tick is at.
LanesKept ==
    /\ Few(disk) /\ Few(mem)
    /\ RunningHasPad(disk) /\ RunningHasPad(mem)
    /\ crashes = 0 => LeasesFollow(lease, mem)

IInv == TypeOK /\ IdleIsSaved /\ ClaimInHand /\ Repaired /\ LanesKept
------------------------------------------------------------------------------
\* Lanes given up or moved on leave no more lanes than there were (active_lanes).
LEMMA NoMoreLanes ==
    ASSUME NEW a, NEW b, ActiveIn(b) \subseteq ActiveIn(a), Few(a)
    PROVE  Few(b)
<1>1. IsFiniteSet(ActiveIn(a))
  <2>1. ActiveIn(a) \in SUBSET Issue BY DEF ActiveIn
  <2>2. QED BY <2>1, FS_Subset, BoundAssumption
<1>2. /\ Cardinality(ActiveIn(b)) <= Cardinality(ActiveIn(a))
      /\ IsFiniteSet(ActiveIn(b))
  BY <1>1, FS_Subset
<1>3. Cardinality(ActiveIn(a)) \in Nat /\ Cardinality(ActiveIn(b)) \in Nat
  BY <1>1, <1>2, FS_CardinalityType
<1>4. QED BY <1>2, <1>3, BoundAssumption DEF Few

\* One lane more is not too many where there was room (claim_new_lanes).
LEMMA OneLaneMore ==
    ASSUME NEW a, NEW b, NEW i, ActiveIn(b) \subseteq ActiveIn(a) \cup {i}, HasRoom(a)
    PROVE  Few(b)
<1>1. IsFiniteSet(ActiveIn(a))
  <2>1. ActiveIn(a) \in SUBSET Issue BY DEF ActiveIn
  <2>2. QED BY <2>1, FS_Subset, BoundAssumption
<1>2. /\ IsFiniteSet(ActiveIn(a) \cup {i})
      /\ Cardinality(ActiveIn(a) \cup {i}) =
           IF i \in ActiveIn(a) THEN Cardinality(ActiveIn(a))
           ELSE Cardinality(ActiveIn(a)) + 1
  BY <1>1, FS_AddElement
<1>3. /\ Cardinality(ActiveIn(b)) <= Cardinality(ActiveIn(a) \cup {i})
      /\ IsFiniteSet(ActiveIn(b))
  BY <1>2, FS_Subset
<1>4. Cardinality(ActiveIn(a)) \in Nat /\ Cardinality(ActiveIn(b)) \in Nat
  BY <1>1, <1>3, FS_CardinalityType
<1>5. QED BY <1>2, <1>3, <1>4, BoundAssumption DEF Few, HasRoom

\* Lanes given up with their leases: the others stay as they are
\* (release_lane, release_lane_lease).
LEMMA ReleaseKeeps ==
    ASSUME NEW lanes \in [Issue -> Lane], NEW gone \in SUBSET Issue,
           lease \in [Issue -> Lease!LeaseRow(Runner, 1)],
           gone \subseteq ActiveIn(lanes),
           ReleaseLanes(lanes, gone)
    PROVE  /\ mem' \in [Issue -> Lane]
           /\ lease' \in [Issue -> Lease!LeaseRow(Runner, 1)]
           /\ ActiveIn(mem') \subseteq ActiveIn(lanes)
           /\ \A i \in Issue : mem'[i] = lanes[i] \/ mem'[i].status = "released"
           /\ RunningHasPad(lanes) => RunningHasPad(mem')
           /\ LeasesFollow(lease, lanes) => LeasesFollow(lease', mem')
<1>1. ASSUME NEW i \in Issue
      PROVE  /\ Released(lanes[i]) \in Lane
             /\ Released(lanes[i]).status = "released"
  BY DEF Released, NoLane, Lane
<1>2. ASSUME NEW i \in Issue
      PROVE  /\ ReleaseLaneLease(i, lanes[i]) \in Lease!LeaseRow(Runner, 1)
             /\ lease[i].owner = lanes[i].owner =>
                    ReleaseLaneLease(i, lanes[i]).released = TRUE
  BY DEF ReleaseLaneLease, Lease!ReleaseLease, Lease!LeaseRow
<1>3. ASSUME NEW i \in Issue
      PROVE  /\ mem'[i] = IF i \in gone THEN Released(lanes[i]) ELSE lanes[i]
             /\ lease'[i] = IF i \in gone THEN ReleaseLaneLease(i, lanes[i])
                            ELSE lease[i]
  BY DEF ReleaseLanes
<1>4. mem' \in [Issue -> Lane] /\ lease' \in [Issue -> Lease!LeaseRow(Runner, 1)]
  BY <1>1, <1>2 DEF ReleaseLanes
<1>5. \A i \in Issue : mem'[i] = lanes[i] \/ mem'[i].status = "released"
  BY <1>1, <1>3
<1>6. ActiveIn(mem') \subseteq ActiveIn(lanes)
  BY <1>5 DEF ActiveIn, Active
<1>7. RunningHasPad(lanes) => RunningHasPad(mem')
  BY <1>5 DEF RunningHasPad
<1>8. LeasesFollow(lease, lanes) => LeasesFollow(lease', mem')
  <2> SUFFICES ASSUME LeasesFollow(lease, lanes), NEW i \in Issue
               PROVE  /\ lease'[i].released <=> ~Active(mem'[i])
                      /\ Active(mem'[i]) => lease'[i].owner = mem'[i].owner
    BY DEF LeasesFollow
  <2>1. CASE i \in gone
    <3>1. lease[i].owner = lanes[i].owner BY <2>1 DEF LeasesFollow, ActiveIn
    <3>2. lease'[i].released = TRUE BY <1>2, <1>3, <2>1, <3>1
    <3>3. ~Active(mem'[i]) BY <1>1, <1>3, <2>1 DEF Active
    <3>4. QED BY <3>2, <3>3
  <2>2. CASE i \notin gone
    BY <1>3, <2>2 DEF LeasesFollow
  <2>3. QED BY <2>1, <2>2
<1>9. QED BY <1>4, <1>5, <1>6, <1>7, <1>8

\* A lane that needs its workpad and is not running gets it or is put aside; it
\* stays active, with the owner of its lease (_ensure_claimed_lane_workpad).
LEMMA PadKeeps ==
    ASSUME NEW l \in Lane, Active(l), l.status # "running",
           NEW m \in {PadWorks(l), PadFails(l)}
    PROVE  /\ m \in Lane /\ Active(m) /\ m.owner = l.owner
           /\ m.status # "running"
           /\ m.pad = "ok" \/ m.status = "pad_failed"
<1>1. l.status \in {"claimed", "retry", "attention", "pad_failed"}
  BY DEF Lane, Active
<1>2. CASE m = PadWorks(l)
  BY <1>1, <1>2 DEF PadWorks, Lane, Active
<1>3. CASE m = PadFails(l)
  BY <1>1, <1>3 DEF PadFails, Lane, Active
<1>4. QED BY <1>2, <1>3

\* Another attempt keeps a lane active, with the owner of its lease
\* (queue_lane_retry).
LEMMA RetryKeeps ==
    ASSUME NEW l \in Lane, NEW e \in BOOLEAN
    PROVE  /\ Retried(l, e) \in Lane /\ Active(Retried(l, e))
           /\ Retried(l, e).owner = l.owner
           /\ Retried(l, e).status # "running" /\ Retried(l, e).pad = l.pad
  BY DEF Retried, Lane, Active
------------------------------------------------------------------------------
\* Before the first tick there are no lanes, no leases and no actors.
LEMMA InitIInv == Init => IInv
<1> SUFFICES ASSUME Init PROVE IInv
  OBVIOUS
<1> USE BoundAssumption
<1>1. NoLane \in Lane /\ ~Active(NoLane) /\ NoLane.status # "running"
  BY DEF NoLane, Lane, Active
<1>2. Lease!NoRow \in Lease!LeaseRow(Runner, 1) /\ Lease!NoRow.released
  BY DEF Lease!NoRow, Lease!LeaseRow
<1>3. mem = [i \in Issue |-> NoLane] /\ disk = mem /\ pc = "idle" /\ cur = NoIssue
  BY DEF Init
<1>4. TypeOK
  BY <1>1, <1>2 DEF Init, TypeOK, Label, Runner
<1>5. ActiveIn(mem) = {}
  BY <1>1, <1>3 DEF ActiveIn
<1>6. Few(mem) /\ Few(disk)
  BY <1>3, <1>5, FS_EmptySet DEF Few
<1>7. RunningHasPad(mem) /\ RunningHasPad(disk)
  BY <1>1, <1>3 DEF RunningHasPad
<1>8. LeasesFollow(lease, mem)
  BY <1>1, <1>2, <1>3 DEF LeasesFollow, Init
<1>9. IdleIsSaved /\ ClaimInHand /\ Repaired
  BY <1>3 DEF IdleIsSaved, ClaimInHand, Repaired
<1>10. QED BY <1>4, <1>6, <1>7, <1>8, <1>9 DEF IInv, LanesKept

\* A tick that begins: lanes whose actor died are retried or put aside.
LEMMA ReconcileKeeps == IInv /\ Reconcile => IInv'
<1> SUFFICES ASSUME IInv, Reconcile PROVE IInv'
  OBVIOUS
<1>0. TypeOK /\ IdleIsSaved /\ LanesKept /\ pc = "idle" /\ mem = disk /\ pc' = "refresh"
  BY DEF IInv, IdleIsSaved, Reconcile
<1>1. PICK dead \in SUBSET {i \in Issue : /\ disk[i].status = "running"
                                         /\ <<i, disk[i].claim>> \notin actors} :
        \E exhausted \in SUBSET dead :
          mem' = [i \in Issue |-> IF i \in dead THEN Retried(disk[i], i \in exhausted)
                                  ELSE disk[i]]
  BY DEF Reconcile
<1>2. PICK exhausted \in SUBSET dead :
          mem' = [i \in Issue |-> IF i \in dead THEN Retried(disk[i], i \in exhausted)
                                  ELSE disk[i]]
  BY <1>1
<1>3. ASSUME NEW i \in Issue
      PROVE  \/ mem'[i] = disk[i]
             \/ /\ disk[i].status = "running" /\ mem'[i] \in Lane
                /\ Active(mem'[i]) /\ mem'[i].owner = disk[i].owner
                /\ mem'[i].status # "running"
  <2>1. disk[i] \in Lane BY <1>0 DEF TypeOK
  <2>3. CASE i \in dead
    <3>1. disk[i].status = "running" BY <2>3, <1>1
    <3>2. mem'[i] = Retried(disk[i], i \in exhausted) BY <1>2, <2>3
    <3>3. QED BY <2>1, <3>1, <3>2 DEF Retried, Lane, Active
  <2>4. CASE i \notin dead BY <1>2, <2>4
  <2>5. QED BY <2>3, <2>4
<1>4. mem' \in [Issue -> Lane]
  <2>1. \A i \in Issue : mem'[i] \in Lane BY <1>0, <1>3 DEF TypeOK
  <2>2. mem' = [i \in Issue |-> mem'[i]] BY <1>2
  <2>3. QED BY <2>1, <2>2
<1>5. UNCHANGED <<tracker, lease, disk, read, queue, cur, me, actors, env>>
  BY DEF Reconcile
<1>6. cur = NoIssue /\ TypeOK'
  BY <1>0, <1>4, <1>5 DEF TypeOK, env
<1>7. Few(mem')
  <2>1. ActiveIn(mem') \subseteq ActiveIn(disk) BY <1>3 DEF ActiveIn, Active
  <2>2. QED BY <1>0, <2>1, NoMoreLanes DEF LanesKept
<1>8. RunningHasPad(mem')
  BY <1>0, <1>3 DEF LanesKept, RunningHasPad
<1>9. crashes = 0 => LeasesFollow(lease, mem')
  BY <1>0, <1>3 DEF LanesKept, LeasesFollow, Active
<1>10. LanesKept'
  BY <1>0, <1>5, <1>7, <1>8, <1>9 DEF LanesKept, env
<1>11. (IdleIsSaved /\ ClaimInHand /\ Repaired)'
  BY <1>0, <1>5, <1>6 DEF IdleIsSaved, ClaimInHand, Repaired
<1>12. QED BY <1>6, <1>10, <1>11 DEF IInv

\* The refresh changes labels read and gives lanes up.
LEMMA RefreshKeeps == IInv /\ Refresh => IInv'
<1> SUFFICES ASSUME IInv, Refresh PROVE IInv'
  OBVIOUS
<1>0. /\ TypeOK /\ LanesKept /\ pc = "refresh" /\ pc' = "repair"
      /\ UNCHANGED <<tracker, disk, read, queue, cur, me, actors, env>>
      /\ cur = NoIssue
  BY DEF IInv, Refresh, TypeOK
<1> DEFINE fresh == [i \in Issue |-> IF Active(mem[i])
                                     THEN [mem[i] EXCEPT !.seen = tracker[i]]
                                     ELSE mem[i]]
           gone == {i \in ActiveIn(mem) : "done" \notin tracker[i]
                                          /\ ~OnActiveStep(tracker[i])}
<1>1. (IdleIsSaved /\ ClaimInHand /\ Repaired)'
  BY <1>0 DEF IdleIsSaved, ClaimInHand, Repaired
<1>2. CASE UNCHANGED <<mem, lease>>
  <2>1. TypeOK' BY <1>0, <1>2 DEF TypeOK, env
  <2>2. LanesKept' BY <1>0, <1>2 DEF LanesKept, env
  <2>3. QED BY <1>1, <2>1, <2>2 DEF IInv
<1>3. CASE ReleaseLanes(fresh, gone)
  <2>1. \A i \in Issue : /\ fresh[i] \in Lane /\ fresh[i].status = mem[i].status
                        /\ fresh[i].owner = mem[i].owner
                        /\ fresh[i].pad = mem[i].pad
    BY <1>0 DEF TypeOK, Lane
  <2>2. fresh \in [Issue -> Lane] BY <2>1
  <2>3. ActiveIn(fresh) = ActiveIn(mem) BY <2>1 DEF ActiveIn, Active
  <2>4. RunningHasPad(fresh) /\ (crashes = 0 => LeasesFollow(lease, fresh))
    BY <1>0, <2>1 DEF LanesKept, RunningHasPad, LeasesFollow, Active
  <2>5. gone \in SUBSET Issue /\ gone \subseteq ActiveIn(fresh)
    BY <2>3 DEF ActiveIn
  <2> HIDE DEF fresh, gone
  <2>6. /\ mem' \in [Issue -> Lane]
        /\ lease' \in [Issue -> Lease!LeaseRow(Runner, 1)]
        /\ ActiveIn(mem') \subseteq ActiveIn(mem)
        /\ RunningHasPad(mem')
        /\ crashes = 0 => LeasesFollow(lease', mem')
    BY <1>0, <1>3, <2>2, <2>3, <2>4, <2>5, ReleaseKeeps DEF TypeOK
  <2>7. TypeOK' BY <1>0, <2>6 DEF TypeOK, env
  <2>8. LanesKept' BY <1>0, <2>6, NoMoreLanes DEF LanesKept, env
  <2>9. QED BY <1>1, <2>7, <2>8 DEF IInv
<1>4. QED BY <1>2, <1>3 DEF Refresh

\* The repair of workpads.
LEMMA RepairKeeps == IInv /\ RepairWorkpads => IInv'
<1> SUFFICES ASSUME IInv, RepairWorkpads PROVE IInv'
  OBVIOUS
<1>0. /\ TypeOK /\ LanesKept /\ pc = "repair" /\ pc' = "list" /\ cur = NoIssue
      /\ UNCHANGED <<tracker, lease, disk, read, queue, cur, me, actors, env>>
  BY DEF IInv, RepairWorkpads, TypeOK
<1>1. PICK ok \in SUBSET {i \in Issue : NeedsPad(mem[i])} :
         mem' = [i \in Issue |-> IF ~NeedsPad(mem[i]) THEN mem[i]
                                 ELSE IF i \in ok THEN PadWorks(mem[i])
                                 ELSE PadFails(mem[i])]
  BY DEF RepairWorkpads
<1>2. ASSUME NEW i \in Issue
      PROVE  \/ mem'[i] = mem[i] /\ ~NeedsPad(mem[i])
             \/ /\ Active(mem[i]) /\ mem'[i] \in Lane
                /\ Active(mem'[i]) /\ mem'[i].owner = mem[i].owner
                /\ mem'[i].status # "running"
                /\ mem'[i].pad = "ok" \/ mem'[i].status = "pad_failed"
  <2>1. mem[i] \in Lane BY <1>0 DEF TypeOK
  <2>2. CASE NeedsPad(mem[i])
    <3>1. Active(mem[i]) /\ mem[i].status # "running"
      BY <1>0, <2>2 DEF NeedsPad, LanesKept, RunningHasPad
    <3>2. mem'[i] \in {PadWorks(mem[i]), PadFails(mem[i])}
      BY <1>1, <2>2
    <3>3. QED BY <2>1, <3>1, <3>2, PadKeeps
  <2>3. CASE ~NeedsPad(mem[i]) BY <1>1, <2>3
  <2>4. QED BY <2>2, <2>3
<1>3. mem' \in [Issue -> Lane]
  <2>1. \A i \in Issue : mem'[i] \in Lane BY <1>0, <1>2 DEF TypeOK
  <2>2. mem' = [i \in Issue |-> mem'[i]] BY <1>1
  <2>3. QED BY <2>1, <2>2
<1>4. TypeOK' BY <1>0, <1>3 DEF TypeOK, env
<1>5. Few(mem')
  <2>1. ActiveIn(mem') \subseteq ActiveIn(mem) BY <1>2 DEF ActiveIn
  <2>2. QED BY <1>0, <2>1, NoMoreLanes DEF LanesKept
<1>6. RunningHasPad(mem')
  BY <1>0, <1>2 DEF LanesKept, RunningHasPad
<1>7. crashes = 0 => LeasesFollow(lease, mem')
  BY <1>0, <1>2 DEF LanesKept, LeasesFollow
<1>8. LanesKept'
  BY <1>0, <1>5, <1>6, <1>7 DEF LanesKept, env
<1>9. Repaired'
  BY <1>2 DEF Repaired, NeedsPad
<1>10. (IdleIsSaved /\ ClaimInHand)'
  BY <1>0 DEF IdleIsSaved, ClaimInHand
<1>11. QED BY <1>4, <1>8, <1>9, <1>10 DEF IInv
\* The listing, and a claim that passes over an issue, touch no lane.
LEMMA ListKeeps == IInv /\ ListCandidates => IInv'
<1> SUFFICES ASSUME IInv, ListCandidates PROVE IInv'
  OBVIOUS
<1>0. /\ TypeOK /\ LanesKept /\ Repaired /\ pc = "list" /\ pc' = "claiming"
      /\ cur = NoIssue
      /\ UNCHANGED <<tracker, lease, disk, mem, cur, me, actors, crashes>>
  BY DEF IInv, ListCandidates, TypeOK
<1>1. queue' \in SUBSET Issue /\ read' \in [Issue -> SUBSET Label]
      /\ upsets' \in 0..MaxUpsets /\ crashes' \in 0..upsets'
  <2>1. CASE /\ queue' = {i \in Issue : /\ HasRoom(mem)
                                       /\ Claimable(mem[i]) /\ Eligible(tracker[i])}
             /\ read' = [i \in Issue |-> IF i \in queue' THEN tracker[i] ELSE {}]
             /\ UNCHANGED upsets
    BY <1>0, <2>1 DEF TypeOK
  <2>2. CASE Upset /\ UNCHANGED <<queue, read>>
    BY <1>0, <2>2, BoundAssumption DEF TypeOK, Upset
  <2>3. QED BY <2>1, <2>2 DEF ListCandidates
<1>2. TypeOK' BY <1>0, <1>1 DEF TypeOK
<1>3. LanesKept' BY <1>0 DEF LanesKept
<1>4. (IdleIsSaved /\ ClaimInHand /\ Repaired)'
  BY <1>0 DEF IdleIsSaved, ClaimInHand, Repaired
<1>5. QED BY <1>2, <1>3, <1>4 DEF IInv

\* A claim makes a lane where there is room, with the lease of its owner.
LEMMA ClaimKeeps == ASSUME IInv, NEW i \in Issue, TakeClaim(i) PROVE IInv'
<1>0. /\ TypeOK /\ LanesKept /\ Repaired /\ pc = "claiming" /\ i \in queue
      /\ HasRoom(mem) /\ ~Active(mem[i]) /\ cur = NoIssue
      /\ lease' = [lease EXCEPT ![i] = Lease!AcquireLease(@, me, 1)]
      /\ UNCHANGED <<tracker, disk, read, me, actors, env>>
  BY DEF IInv, TakeClaim, TypeOK, Claimable
<1>1. /\ lease[i] \in Lease!LeaseRow(Runner, 1) /\ me \in Runner
      /\ mem[i] \in Lane /\ read[i] \in SUBSET Label
  BY <1>0 DEF TypeOK
<1>2. lease' \in [Issue -> Lease!LeaseRow(Runner, 1)]
  <2>1. Lease!AcquireLease(lease[i], me, 1) \in Lease!LeaseRow(Runner, 1)
    BY <1>1 DEF Lease!AcquireLease, Lease!LeaseRow
  <2>2. QED BY <1>0, <2>1 DEF TypeOK
<1>3. CASE Lease!MayTake(lease[i], me)
  <2>0. /\ mem' = [mem EXCEPT ![i] = NewLane(i)] /\ pc' = "leased" /\ cur' = i
        /\ queue' = queue
    BY <1>3 DEF TakeClaim
  <2>1. /\ NewLane(i) \in Lane /\ Active(NewLane(i)) /\ NewLane(i).owner = me
        /\ NewLane(i).status = "claimed"
    BY <1>1 DEF NewLane, Lane, Active
  <2>2. /\ mem'[i] = NewLane(i)
        /\ \A j \in Issue \ {i} : mem'[j] = mem[j] /\ lease'[j] = lease[j]
    BY <1>0, <2>0 DEF TypeOK
  <2>3. lease'[i].owner = me /\ ~lease'[i].released
    BY <1>0, <1>3 DEF Lease!AcquireLease, TypeOK
  <2>4. mem' \in [Issue -> Lane] BY <1>0, <2>0, <2>1 DEF TypeOK
  <2>5. TypeOK' BY <1>0, <1>2, <2>0, <2>4 DEF TypeOK, env
  <2>6. Few(mem')
    <3>1. ActiveIn(mem') \subseteq ActiveIn(mem) \cup {i} BY <2>2 DEF ActiveIn
    <3>2. QED BY <1>0, <3>1, OneLaneMore
  <2>7. RunningHasPad(mem')
    BY <1>0, <2>1, <2>2 DEF LanesKept, RunningHasPad
  <2>8. crashes = 0 => LeasesFollow(lease', mem')
    <3> SUFFICES ASSUME crashes = 0, NEW j \in Issue
                 PROVE  /\ lease'[j].released <=> ~Active(mem'[j])
                        /\ Active(mem'[j]) => lease'[j].owner = mem'[j].owner
      BY DEF LeasesFollow
    <3>1. CASE j = i
      <4>1. lease'[j].released = FALSE
        BY <1>0, <1>3, <3>1 DEF Lease!AcquireLease, TypeOK
      <4>2. QED BY <2>1, <2>2, <2>3, <3>1, <4>1
    <3>2. CASE j # i BY <1>0, <2>2, <3>2 DEF LanesKept, LeasesFollow
    <3>3. QED BY <3>1, <3>2
  <2>9. LanesKept' BY <1>0, <2>6, <2>7, <2>8 DEF LanesKept, env
  <2>10. Repaired'
    <3>1. \A j \in Issue \ {i} : Active(mem[j]) => mem[j].pad = "ok"
                                                  \/ mem[j].status = "pad_failed"
      BY <1>0, BoundAssumption DEF Repaired
    <3>2. QED BY <2>0, <2>2, <3>1 DEF Repaired
  <2>11. (IdleIsSaved /\ ClaimInHand)'
    BY <2>0, <2>1, <2>2 DEF IdleIsSaved, ClaimInHand
  <2>12. QED BY <2>5, <2>9, <2>10, <2>11 DEF IInv
<1>4. CASE ~Lease!MayTake(lease[i], me)
  <2>0. queue' = queue \ {i} /\ UNCHANGED <<mem, pc, cur>>
    BY <1>4 DEF TakeClaim
  <2>1. Lease!AcquireLease(lease[i], me, 1) = lease[i]
    BY <1>4 DEF Lease!AcquireLease
  <2>2. lease' = lease BY <1>0, <2>1 DEF TypeOK
  <2>3. TypeOK' BY <1>0, <2>0, <2>2 DEF TypeOK, env
  <2>4. LanesKept' BY <1>0, <2>0, <2>2 DEF LanesKept, env
  <2>5. (IdleIsSaved /\ ClaimInHand /\ Repaired)'
    BY <1>0, <2>0 DEF IdleIsSaved, ClaimInHand, Repaired
  <2>6. QED BY <2>3, <2>4, <2>5 DEF IInv
<1>5. QED BY <1>3, <1>4

\* The label edits of a claim change what its lane has read.
LEMMA LabelsKeep == IInv /\ (RemoveTodo \/ AddCode) => IInv'
<1>1. ASSUME IInv, RemoveTodo PROVE IInv'
  <2>0. /\ TypeOK /\ LanesKept /\ Repaired /\ ClaimInHand /\ pc = "leased"
        /\ pc' = "unlabelled"
        /\ tracker' = [tracker EXCEPT ![cur] = @ \ {"todo"}]
        /\ UNCHANGED <<lease, disk, mem, read, queue, cur, me, actors, env>>
    BY <1>1 DEF IInv, RemoveTodo
  <2>1. TypeOK' BY <2>0 DEF TypeOK, env
  <2>2. LanesKept' BY <2>0 DEF LanesKept, env
  <2>3. (IdleIsSaved /\ ClaimInHand /\ Repaired)'
    BY <2>0 DEF IdleIsSaved, ClaimInHand, Repaired
  <2>4. QED BY <2>1, <2>2, <2>3 DEF IInv
<1>2. ASSUME IInv, AddCode PROVE IInv'
  <2>0. /\ TypeOK /\ LanesKept /\ Repaired /\ ClaimInHand /\ pc = "unlabelled"
        /\ pc' = "labelled" /\ cur \in Issue
        /\ tracker' = [tracker EXCEPT ![cur] = @ \cup {"code"}]
        /\ mem' = [mem EXCEPT ![cur].seen = (read[cur] \ {"todo"}) \cup {"code"}]
        /\ UNCHANGED <<lease, disk, read, queue, cur, me, actors, env>>
    BY <1>2 DEF IInv, AddCode, TypeOK
  <2> DEFINE labels == (read[cur] \ {"todo"}) \cup {"code"}
             l == [mem[cur] EXCEPT !.seen = labels]
  <2>1. "code" \in Label /\ labels \in SUBSET Label
    BY <2>0 DEF Label, TypeOK
  <2>12. mem[cur] \in Lane BY <2>0 DEF TypeOK
  <2>13. /\ l \in Lane /\ l.status = mem[cur].status
         /\ l.owner = mem[cur].owner /\ l.pad = mem[cur].pad
    <3> HIDE DEF labels
    <3>1. QED BY <2>1, <2>12 DEF Lane
  <2>14. mem' = [mem EXCEPT ![cur] = l] BY <2>0
  <2> HIDE DEF labels, l
  <2>2. \A i \in Issue : /\ mem'[i] \in Lane /\ mem'[i].status = mem[i].status
                        /\ mem'[i].owner = mem[i].owner
                        /\ mem'[i].pad = mem[i].pad
    BY <2>0, <2>13, <2>14 DEF TypeOK
  <2>3. mem' \in [Issue -> Lane] BY <2>0, <2>13, <2>14 DEF TypeOK
  <2>4. tracker' \in [Issue -> SUBSET Label] BY <2>0, <2>1 DEF TypeOK
  <2>5. TypeOK' BY <2>0, <2>3, <2>4 DEF TypeOK, env
  <2>6. Few(mem')
    <3>1. ActiveIn(mem') \subseteq ActiveIn(mem) BY <2>2 DEF ActiveIn, Active
    <3>2. QED BY <2>0, <3>1, NoMoreLanes DEF LanesKept
  <2>7. RunningHasPad(mem') BY <2>0, <2>2 DEF LanesKept, RunningHasPad
  <2>8. crashes = 0 => LeasesFollow(lease, mem')
    BY <2>0, <2>2 DEF LanesKept, LeasesFollow, Active
  <2>9. LanesKept' BY <2>0, <2>6, <2>7, <2>8 DEF LanesKept, env
  <2>10. (IdleIsSaved /\ ClaimInHand /\ Repaired)'
    BY <2>0, <2>2 DEF IdleIsSaved, ClaimInHand, Repaired, Active
  <2>11. QED BY <2>5, <2>9, <2>10 DEF IInv
<1>3. QED BY <1>1, <1>2

\* The workpad of the new lane is made, or the lane is put aside.
LEMMA MakePadKeeps == IInv /\ MakeWorkpad => IInv'
<1> SUFFICES ASSUME IInv, MakeWorkpad PROVE IInv'
  OBVIOUS
<1>0. /\ TypeOK /\ LanesKept /\ Repaired /\ ClaimInHand /\ pc = "labelled"
      /\ cur \in Issue /\ mem[cur].status = "claimed"
      /\ queue' = queue \ {cur} /\ pc' = "claiming" /\ cur' = NoIssue
      /\ UNCHANGED <<tracker, lease, disk, read, me, actors, env>>
  BY BoundAssumption DEF IInv, MakeWorkpad, TypeOK, ClaimInHand
<1>1. PICK l \in {PadWorks(mem[cur]), PadFails(mem[cur])} :
         mem' = [mem EXCEPT ![cur] = l]
  BY DEF MakeWorkpad
<1>2. mem[cur] \in Lane /\ Active(mem[cur]) /\ mem[cur].status # "running"
  BY <1>0 DEF TypeOK, Active
<1>3. /\ l \in Lane /\ Active(l) /\ l.owner = mem[cur].owner /\ l.status # "running"
      /\ l.pad = "ok" \/ l.status = "pad_failed"
  BY <1>2, PadKeeps
<1>4. mem'[cur] = l /\ \A i \in Issue \ {cur} : mem'[i] = mem[i]
  BY <1>0, <1>1 DEF TypeOK
<1>5. mem' \in [Issue -> Lane] BY <1>0, <1>1, <1>3 DEF TypeOK
<1>6. TypeOK' BY <1>0, <1>5 DEF TypeOK, env
<1>7. Few(mem')
  <2>1. ActiveIn(mem') \subseteq ActiveIn(mem) BY <1>2, <1>4 DEF ActiveIn
  <2>2. QED BY <1>0, <2>1, NoMoreLanes DEF LanesKept
<1>8. RunningHasPad(mem') BY <1>0, <1>3, <1>4 DEF LanesKept, RunningHasPad
<1>9. crashes = 0 => LeasesFollow(lease, mem')
  BY <1>0, <1>2, <1>3, <1>4 DEF LanesKept, LeasesFollow
<1>10. LanesKept' BY <1>0, <1>7, <1>8, <1>9 DEF LanesKept, env
<1>11. (IdleIsSaved /\ ClaimInHand /\ Repaired)'
  BY <1>0, <1>3, <1>4 DEF IdleIsSaved, ClaimInHand, Repaired
<1>12. QED BY <1>6, <1>10, <1>11 DEF IInv
\* A tick that saves what it has and goes on or ends; an exception of the tick.
LEMMA SaveKeeps ==
    IInv /\ (ClaimRaises \/ EndIntake \/ EndTick \/ RouteRaises) => IInv'
<1> SUFFICES ASSUME IInv, ClaimRaises \/ EndIntake \/ EndTick \/ RouteRaises
             PROVE  IInv'
  OBVIOUS
<1>0. TypeOK /\ LanesKept /\ Repaired BY DEF IInv
<1>1. mem' = mem /\ disk' = mem /\ lease' = lease /\ me' = me /\ actors' = actors
  BY DEF ClaimRaises, EndIntake, EndTick, RouteRaises, Save
<1>2. tracker' \in [Issue -> SUBSET Label]
  BY <1>0 DEF ClaimRaises, EndIntake, EndTick, RouteRaises, TypeOK, Label
<1>3. upsets' \in 0..MaxUpsets /\ crashes' \in 0..upsets' /\ crashes' = crashes
  BY <1>0, BoundAssumption
     DEF ClaimRaises, EndIntake, EndTick, RouteRaises, Upset, TypeOK, env
<1>4. \/ /\ pc' = "idle" /\ cur' = NoIssue /\ queue' = {}
         /\ read' = [i \in Issue |-> {}]
      \/ /\ pc = "claiming" /\ pc' = "routing" /\ cur' = cur /\ cur = NoIssue
         /\ queue' = ActiveIn(mem) /\ read' = [i \in Issue |-> {}]
  BY <1>0 DEF ClaimRaises, EndIntake, EndTick, RouteRaises, LeaveTick, TypeOK
<1>5. TypeOK'
  <2>1. ActiveIn(mem) \in SUBSET Issue BY DEF ActiveIn
  <2>2. QED BY <1>0, <1>1, <1>2, <1>3, <1>4, <2>1 DEF TypeOK
<1>6. LanesKept' BY <1>0, <1>1, <1>3 DEF LanesKept
<1>7. (IdleIsSaved /\ ClaimInHand /\ Repaired)'
  BY <1>0, <1>1, <1>4 DEF IdleIsSaved, ClaimInHand, Repaired
<1>8. QED BY <1>5, <1>6, <1>7 DEF IInv

\* One lane of the file changes its status and what it has read, and is saved: it
\* stays a lane, and does not start to run without its workpad.
LEMMA OneLaneKeeps ==
    ASSUME IInv, NEW i \in Issue, NEW l \in Lane,
           Active(mem[i]), Active(l),
           l.owner = mem[i].owner, l.pad = mem[i].pad,
           l.status = "running" => l.pad = "ok",
           mem' = [mem EXCEPT ![i] = l], disk' = mem', lease' = lease,
           crashes' = crashes
    PROVE  /\ mem' \in [Issue -> Lane] /\ disk' \in [Issue -> Lane]
           /\ LanesKept'
<1>0. TypeOK /\ LanesKept BY DEF IInv
<1>1. mem'[i] = l /\ \A j \in Issue \ {i} : mem'[j] = mem[j]
  BY <1>0 DEF TypeOK
<1>2. mem' \in [Issue -> Lane] BY <1>0 DEF TypeOK
<1>3. Few(mem')
  <2>1. ActiveIn(mem') \subseteq ActiveIn(mem) BY <1>1 DEF ActiveIn
  <2>2. QED BY <1>0, <2>1, NoMoreLanes DEF LanesKept
<1>4. RunningHasPad(mem') BY <1>0, <1>1 DEF LanesKept, RunningHasPad
<1>5. crashes = 0 => LeasesFollow(lease, mem')
  BY <1>0, <1>1 DEF LanesKept, LeasesFollow
<1>6. QED BY <1>2, <1>3, <1>4, <1>5 DEF LanesKept

\* A dispatch, an actor's result and an operator's retry are such changes.
LEMMA DispatchKeeps == ASSUME IInv, NEW i \in Issue, Dispatch(i) PROVE IInv'
<1>0. /\ TypeOK /\ LanesKept /\ Repaired /\ pc = "routing" /\ cur = NoIssue
      /\ mem[i].status \in {"claimed", "retry"} /\ queue' = queue \ {i}
      /\ mem' = [mem EXCEPT ![i].status = "running"] /\ disk' = mem'
      /\ actors' = actors \cup {<<i, mem[i].claim>>}
      /\ UNCHANGED <<tracker, lease, pc, read, cur, me, env>>
  BY DEF IInv, Dispatch, Save, TypeOK
<1> DEFINE l == [mem[i] EXCEPT !.status = "running"]
<1>1. mem[i] \in Lane /\ Active(mem[i]) /\ mem[i].pad = "ok"
  BY <1>0, BoundAssumption DEF Repaired, Active, TypeOK
<1>2. l \in Lane /\ Active(l) /\ l.owner = mem[i].owner /\ l.pad = mem[i].pad
  BY <1>1 DEF Lane, Active
<1>3. mem' = [mem EXCEPT ![i] = l] BY <1>0
<1>4. mem[i].claim \in Nat BY <1>1 DEF Lane
<1> HIDE DEF l
<1>5. mem' \in [Issue -> Lane] /\ disk' \in [Issue -> Lane] /\ LanesKept'
  BY <1>0, <1>1, <1>2, <1>3, OneLaneKeeps DEF env
<1>6. TypeOK' BY <1>0, <1>4, <1>5 DEF TypeOK, env
<1>7. Repaired'
  <2>1. mem'[i] = l /\ \A j \in Issue \ {i} : mem'[j] = mem[j]
    BY <1>0, <1>3 DEF TypeOK
  <2>2. QED BY <1>0, <1>1, <1>2, <2>1 DEF Repaired
<1>8. (IdleIsSaved /\ ClaimInHand)' BY <1>0 DEF IdleIsSaved, ClaimInHand
<1>9. QED BY <1>5, <1>6, <1>7, <1>8 DEF IInv

LEMMA FileKeeps ==
    ASSUME IInv, NEW i \in Issue, NEW n, ActorFiles(i, n) PROVE IInv'
<1>0. /\ TypeOK /\ LanesKept /\ pc = "idle" /\ mem = disk /\ cur = NoIssue
      /\ actors' = actors \ {<<i, n>>}
      /\ UNCHANGED <<lease, pc, read, queue, cur, me, env>>
  BY DEF IInv, IdleIsSaved, ActorFiles, TypeOK
<1>1. mem[i] \in Lane BY <1>0 DEF TypeOK
<1>2. CASE UNCHANGED <<tracker, disk, mem>>
  <2>1. TypeOK' BY <1>0, <1>2 DEF TypeOK, env
  <2>2. LanesKept' BY <1>0, <1>2 DEF LanesKept, env
  <2>3. (IdleIsSaved /\ ClaimInHand /\ Repaired)'
    BY <1>0, <1>2 DEF IdleIsSaved, ClaimInHand, Repaired
  <2>4. QED BY <2>1, <2>2, <2>3 DEF IInv
<1>3. ASSUME mem[i].status = "running", NEW l \in Lane, Active(l),
             l.owner = mem[i].owner, l.pad = mem[i].pad, l.status # "running",
             Save([mem EXCEPT ![i] = l]), tracker' \in [Issue -> SUBSET Label]
      PROVE  IInv'
  <2>1. mem' = [mem EXCEPT ![i] = l] /\ disk' = mem' BY <1>3 DEF Save
  <2>2. mem' \in [Issue -> Lane] /\ disk' \in [Issue -> Lane] /\ LanesKept'
    <3>1. Active(mem[i]) BY <1>3 DEF Active
    <3>2. QED BY <1>0, <1>3, <2>1, <3>1, OneLaneKeeps DEF env
  <2>3. TypeOK' BY <1>0, <1>3, <2>2 DEF TypeOK, env
  <2>4. (IdleIsSaved /\ ClaimInHand /\ Repaired)'
    BY <1>0, <2>1 DEF IdleIsSaved, ClaimInHand, Repaired
  <2>5. QED BY <2>2, <2>3, <2>4 DEF IInv
<1>4. CASE /\ disk[i].status = "running"
           /\ Save([disk EXCEPT ![i].status = "claimed", ![i].seen = {"done"}])
           /\ tracker' = [tracker EXCEPT ![i] = (@ \ {"code"}) \cup {"done"}]
  <2> DEFINE l == [mem[i] EXCEPT !.status = "claimed", !.seen = {"done"}]
  <2>1. /\ l \in Lane /\ Active(l) /\ l.owner = mem[i].owner /\ l.pad = mem[i].pad
        /\ l.status # "running"
    BY <1>1 DEF Lane, Active, Label
  <2>2. [disk EXCEPT ![i].status = "claimed", ![i].seen = {"done"}]
          = [mem EXCEPT ![i] = l]
    BY <1>0 DEF TypeOK, Lane
  <2>3. tracker' \in [Issue -> SUBSET Label] BY <1>0, <1>4 DEF TypeOK, Label
  <2> HIDE DEF l
  <2>4. QED BY <1>0, <1>3, <1>4, <2>1, <2>2, <2>3
<1>5. CASE /\ disk[i].status = "running" /\ UNCHANGED tracker
           /\ \E s \in {"claimed", "attention"} : Save([disk EXCEPT ![i].status = s])
  <2>1. PICK s \in {"claimed", "attention"} : Save([disk EXCEPT ![i].status = s])
    BY <1>5
  <2> DEFINE l == [mem[i] EXCEPT !.status = s]
  <2>2. /\ l \in Lane /\ Active(l) /\ l.owner = mem[i].owner /\ l.pad = mem[i].pad
        /\ l.status # "running"
    BY <1>1 DEF Lane, Active
  <2>3. [disk EXCEPT ![i].status = s] = [mem EXCEPT ![i] = l] BY <1>0
  <2>4. tracker' \in [Issue -> SUBSET Label] BY <1>0, <1>5 DEF TypeOK
  <2> HIDE DEF l
  <2>5. QED BY <1>0, <1>3, <1>5, <2>1, <2>2, <2>3, <2>4
<1>6. QED BY <1>0, <1>2, <1>4, <1>5 DEF ActorFiles

LEMMA OperatorRetryKeeps ==
    ASSUME IInv, NEW i \in Issue, OperatorRetry(i) PROVE IInv'
<1>0. /\ TypeOK /\ LanesKept /\ pc = "idle" /\ mem = disk /\ cur = NoIssue
      /\ Active(mem[i])
      /\ UNCHANGED <<tracker, lease, pc, read, queue, cur, me, actors, env>>
  BY DEF IInv, IdleIsSaved, OperatorRetry, TypeOK
<1>1. PICK e \in BOOLEAN : Save([disk EXCEPT ![i] = Retried(@, e)])
  BY DEF OperatorRetry
<1> DEFINE l == Retried(mem[i], e)
<1>2. mem[i] \in Lane BY <1>0 DEF TypeOK
<1>3. /\ l \in Lane /\ Active(l) /\ l.owner = mem[i].owner
      /\ l.status # "running" /\ l.pad = mem[i].pad
  BY <1>2, RetryKeeps
<1>4. mem' = [mem EXCEPT ![i] = l] /\ disk' = mem' BY <1>0, <1>1 DEF Save
<1> HIDE DEF l
<1>5. mem' \in [Issue -> Lane] /\ disk' \in [Issue -> Lane] /\ LanesKept'
  BY <1>0, <1>3, <1>4, OneLaneKeeps DEF env
<1>6. TypeOK' BY <1>0, <1>5 DEF TypeOK, env
<1>7. (IdleIsSaved /\ ClaimInHand /\ Repaired)'
  BY <1>0, <1>4 DEF IdleIsSaved, ClaimInHand, Repaired
<1>8. QED BY <1>5, <1>6, <1>7 DEF IInv
\* A lane is given up, by the route or by the operator.
LEMMA ReleaseDoneKeeps ==
    ASSUME IInv, NEW i \in Issue, ReleaseDone(i) \/ OperatorRelease(i)
    PROVE  IInv'
<1>0. /\ TypeOK /\ LanesKept /\ Repaired /\ ClaimInHand /\ IdleIsSaved
      /\ pc \in {"idle", "routing"} /\ cur = NoIssue /\ Active(mem[i])
      /\ ReleaseLanes(mem, {i}) /\ disk' = mem'
      /\ queue' \in SUBSET queue
      /\ UNCHANGED <<tracker, pc, read, cur, me, actors, env>>
  BY DEF IInv, ReleaseDone, OperatorRelease, IdleIsSaved, TypeOK, Active
<1>1. {i} \in SUBSET Issue /\ {i} \subseteq ActiveIn(mem)
  BY <1>0 DEF ActiveIn
<1>2. /\ mem' \in [Issue -> Lane]
      /\ lease' \in [Issue -> Lease!LeaseRow(Runner, 1)]
      /\ ActiveIn(mem') \subseteq ActiveIn(mem)
      /\ \A j \in Issue : mem'[j] = mem[j] \/ mem'[j].status = "released"
      /\ RunningHasPad(mem')
      /\ crashes = 0 => LeasesFollow(lease', mem')
  <2>1. mem \in [Issue -> Lane] /\ lease \in [Issue -> Lease!LeaseRow(Runner, 1)]
    BY <1>0 DEF TypeOK
  <2>2. RunningHasPad(mem) /\ (crashes = 0 => LeasesFollow(lease, mem))
    BY <1>0 DEF LanesKept
  <2>3. ReleaseLanes(mem, {i}) BY <1>0
  <2>4. QED BY <1>1, <2>1, <2>2, <2>3, ReleaseKeeps
<1>3. TypeOK' BY <1>0, <1>2 DEF TypeOK, env
<1>4. LanesKept' BY <1>0, <1>2, NoMoreLanes DEF LanesKept, env
<1>5. Repaired' BY <1>0, <1>2 DEF Repaired, Active
<1>6. (IdleIsSaved /\ ClaimInHand)' BY <1>0 DEF IdleIsSaved, ClaimInHand
<1>7. QED BY <1>3, <1>4, <1>5, <1>6 DEF IInv

\* A tick that is killed leaves the file; what its leases are is not known then.
LEMMA CrashKeeps == IInv /\ Crash => IInv'
<1> SUFFICES ASSUME IInv, Crash PROVE IInv'
  OBVIOUS
<1>0. /\ TypeOK /\ LanesKept /\ mem' = disk /\ me' = me + 1 /\ me < MaxRunners
      /\ upsets < MaxUpsets /\ upsets' = upsets + 1 /\ crashes' = crashes + 1
      /\ pc' = "idle" /\ queue' = {} /\ cur' = NoIssue
      /\ read' = [i \in Issue |-> {}]
      /\ UNCHANGED <<tracker, lease, disk, actors>>
  BY DEF IInv, Crash, Upset, LeaveTick
<1>1. /\ me' \in Runner /\ upsets' \in 0..MaxUpsets /\ crashes' \in 0..upsets'
      /\ crashes' # 0
  BY <1>0, BoundAssumption DEF TypeOK, Runner
<1>2. TypeOK' BY <1>0, <1>1 DEF TypeOK
<1>3. LanesKept' BY <1>0, <1>1 DEF LanesKept
<1>4. (IdleIsSaved /\ ClaimInHand /\ Repaired)'
  BY <1>0 DEF IdleIsSaved, ClaimInHand, Repaired
<1>5. QED BY <1>2, <1>3, <1>4 DEF IInv

\* What touches no lane: a lane held, an actor's death, a new process, an edit by
\* people, a day.
LEMMA OtherKeeps ==
    ASSUME IInv,
           \/ Restart
           \/ \E i \in Issue : Hold(i) \/ PeopleLabel(i) \/ DayPasses(i)
           \/ \E a \in actors : ActorDies(a[1], a[2])
           \/ UNCHANGED vars
    PROVE  IInv'
<1>0. /\ TypeOK /\ LanesKept /\ Repaired /\ ClaimInHand /\ IdleIsSaved
      /\ UNCHANGED <<disk, mem, pc, read, cur, crashes>>
  BY DEF IInv, Restart, Hold, PeopleLabel, DayPasses, ActorDies, vars, env
<1>1. tracker' \in [Issue -> SUBSET Label]
  BY <1>0, ZenonT(40) DEF Restart, Hold, PeopleLabel, DayPasses, ActorDies, vars, TypeOK, Label
<1>2. upsets' \in 0..MaxUpsets /\ crashes \in 0..upsets'
  <2>1. upsets' = upsets \/ (upsets < MaxUpsets /\ upsets' = upsets + 1)
    BY DEF Restart, Hold, PeopleLabel, DayPasses, ActorDies, vars, env, Upset
  <2>2. QED BY <1>0, <2>1, BoundAssumption DEF TypeOK
<1>3. me' \in Runner
  <2>1. me' = me \/ (me < MaxRunners /\ me' = me + 1)
    BY DEF Restart, Hold, PeopleLabel, DayPasses, ActorDies, vars
  <2>2. QED BY <1>0, <2>1, BoundAssumption DEF TypeOK, Runner
<1>4. actors' \in SUBSET (Issue \X Nat)
  BY <1>0 DEF Restart, Hold, PeopleLabel, DayPasses, ActorDies, vars, TypeOK
<1>5. queue' \in SUBSET Issue /\ (cur # NoIssue => queue' = queue)
  BY <1>0, BoundAssumption
     DEF Restart, Hold, PeopleLabel, DayPasses, ActorDies, vars, TypeOK
<1>6. /\ lease' \in [Issue -> Lease!LeaseRow(Runner, 1)]
      /\ \A i \in Issue : /\ lease'[i].released = lease[i].released
                          /\ lease'[i].owner = lease[i].owner
  <2>1. CASE \E i \in Issue : DayPasses(i)
    <3>1. PICK i \in Issue : lease' = [lease EXCEPT ![i] = Lease!Aged(@)]
      BY <2>1 DEF DayPasses
    <3>2. lease[i] \in Lease!LeaseRow(Runner, 1) BY <1>0 DEF TypeOK
    <3>3. /\ Lease!Aged(lease[i]) \in Lease!LeaseRow(Runner, 1)
          /\ Lease!Aged(lease[i]).released = lease[i].released
          /\ Lease!Aged(lease[i]).owner = lease[i].owner
      BY <3>2 DEF Lease!Aged, Lease!LeaseRow
    <3>4. QED BY <1>0, <3>1, <3>3 DEF TypeOK
  <2>2. CASE lease' = lease BY <1>0, <2>2 DEF TypeOK
  <2>3. QED BY <2>1, <2>2 DEF Restart, Hold, PeopleLabel, ActorDies, vars
<1>7. TypeOK'
  <2>1. cur' \in IF pc' \in {"leased", "unlabelled", "labelled"} THEN queue' ELSE {NoIssue}
    BY <1>0, <1>5, BoundAssumption DEF TypeOK
  <2>2. /\ disk' \in [Issue -> Lane] /\ mem' \in [Issue -> Lane]
        /\ read' \in [Issue -> SUBSET Label]
        /\ pc' \in {"idle", "refresh", "repair", "list", "claiming", "leased",
                    "unlabelled", "labelled", "routing"}
    BY <1>0 DEF TypeOK
  <2>3. crashes' = crashes BY <1>0
  <2>4. QED BY <1>1, <1>2, <1>3, <1>4, <1>5, <1>6, <2>1, <2>2, <2>3 DEF TypeOK
<1>8. LanesKept' BY <1>0, <1>6 DEF LanesKept, LeasesFollow
<1>9. (IdleIsSaved /\ ClaimInHand /\ Repaired)'
  BY <1>0 DEF IdleIsSaved, ClaimInHand, Repaired
<1>10. QED BY <1>7, <1>8, <1>9 DEF IInv

\* Every step keeps the invariant.
LEMMA NextIInv == IInv /\ [Next]_vars => IInv'
<1> SUFFICES ASSUME IInv, [Next]_vars PROVE IInv'
  OBVIOUS
<1>1. CASE TickStep
  BY <1>1, ReconcileKeeps, RefreshKeeps, RepairKeeps, ListKeeps, ClaimKeeps,
     LabelsKeep, MakePadKeeps, SaveKeeps, DispatchKeeps, ReleaseDoneKeeps, OtherKeeps
     DEF TickStep
<1>2. CASE ClaimRaises \/ RouteRaises \/ Crash \/ Restart
  BY <1>2, SaveKeeps, CrashKeeps, OtherKeeps
<1>3. CASE \E i \in Issue :
             \/ OperatorRetry(i) \/ OperatorRelease(i) \/ PeopleLabel(i) \/ DayPasses(i)
  BY <1>3, OperatorRetryKeeps, ReleaseDoneKeeps, OtherKeeps
<1>4. CASE \E a \in actors : ActorFiles(a[1], a[2]) \/ ActorDies(a[1], a[2])
  <2>1. \A a \in actors : a[1] \in Issue BY DEF IInv, TypeOK
  <2>2. QED BY <1>4, <2>1, FileKeeps, OtherKeeps
<1>5. CASE UNCHANGED vars
  BY <1>5, OtherKeeps
<1>6. QED BY <1>1, <1>2, <1>3, <1>4, <1>5 DEF Next

\* The parts of the invariant hold in every state the workflow reaches.
LEMMA Invariance == Spec => []IInv
<1>1. QED BY InitIInv, NextIInv, PTL DEF Spec
------------------------------------------------------------------------------
\* The state of intake has its type: in particular a status that is put aside for
\* want of a workpad is one that can come back (_ensure_claimed_lane_workpad).
THEOREM TypeCorrect == Spec => []TypeOK
<1>1. IInv => TypeOK BY DEF IInv
<1>2. QED BY <1>1, Invariance, PTL

\* No number of claims, releases, faults and restarts makes more lanes than
\* concurrency.max-lanes (claim_new_lanes).
THEOREM CapacityHeld == Spec => []CapacityHolds
<1>1. IInv => CapacityHolds BY DEF IInv, LanesKept, Few, CapacityHolds
<1>2. QED BY <1>1, Invariance, PTL

\* Without a killed tick, the claim lease of an issue is held exactly while it has
\* a lane, whoever runs the ticks (release_lane_lease).
THEOREM LeaseHeldWithLane == Spec => []LeaseFollowsLane
<1>1. IInv => LeaseFollowsLane
  BY DEF IInv, IdleIsSaved, LanesKept, LeasesFollow, LeaseFollowsLane
<1>2. QED BY <1>1, Invariance, PTL

\* No actor works on a lane without its workpad (_repair_active_lane_workpads).
THEOREM PadFirst == Spec => []PadBeforeWork
<1>1. IInv => PadBeforeWork
  BY DEF IInv, LanesKept, RunningHasPad, PadBeforeWork
<1>2. QED BY <1>1, Invariance, PTL
=============================================================================
