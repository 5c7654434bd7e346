--------------------------- MODULE DeliveryProofs ---------------------------
(***************************************************************************)
(* One issue on its way to a merged pull request, for any number of pull   *)
(* requests, ticks, coders, faults and changes by people: one workpad      *)
(* comment, and a release as done of what is merged only.                  *)
(*                                                                         *)
(* The lane works on what it has read, so the invariant relates what it    *)
(* knows to what GitHub has: of the pull request it names what can no      *)
(* longer change (Sound), and, while nothing is behind, that no open one   *)
(* was passed over (TickSaw).                                              *)
(***************************************************************************)
EXTENDS Delivery, FiniteSetTheorems, WellFoundedInduction, TLAPS

\* The pull requests of a branch are numbered as they are made.
InOrder(p) ==
    \E c \in 0..MaxPulls : \A n \in PullNo : p[n].state # "none" <=> n <= c

\* A lane names a pull request of its own branch, and has one for merged only if
\* it is.
Sound(l, p) ==
    /\ l.pr # 0 => p[l.pr].state # "none" /\ l.branch
    /\ l.status = "running" => l.branch
    /\ IsMerged(l) => l.pr # 0 /\ p[l.pr].state = "merged"

\* An open pull request is the one the lane names, and then is not merged for it.
Saw(l) ==
    l.branch => Open = {} \/ (l.pr \in Open /\ ~IsMerged(l))

TickSaw ==
    /\ pc = "pad" => Active(mem)
    /\ pc \in {"signals", "intake", "pad", "save", "route"} /\ ~behind /\ Active(mem) => Saw(mem)

\* A tick delivers nothing before it leaves.
DeliveredIsSaved == mem.status = "delivered" => file.status = "delivered"

IInv ==
    /\ TypeOK /\ edits \in Nat
    /\ InOrder(pulls)
    /\ Sound(file, pulls) /\ Sound(mem, pulls)
    /\ TickSaw /\ DeliveredIsSaved
    /\ OnePad

\* What a step may do that delivers the lane.
DeliversMerged ==
    file.status # "delivered" /\ file'.status = "delivered"
      => /\ mem.pr # 0 /\ pulls[mem.pr].state = "merged"
         /\ ~behind => Open = {}
-----------------------------------------------------------------------------
(* Types *)

Status == {"none", "claimed", "waiting", "running", "retry", "attention",
           "pad_failed", "released", "delivered"}

PullRow == [state : {"none", "open", "closed", "merged"}, blockers : SUBSET Kinds]

LEMMA LaneFields ==
    ASSUME NEW l \in Lane
    PROVE  /\ l.status \in Status /\ l.labels \in SUBSET Step
           /\ l.closed \in BOOLEAN /\ l.branch \in BOOLEAN
           /\ l.pr \in 0..MaxPulls /\ (l.pr # 0 => l.pr \in PullNo)
           /\ l.state \in {"", "open", "closed", "merged"}
           /\ l.merged \in BOOLEAN /\ l.required \in BOOLEAN
           /\ l.said \in [closed : BOOLEAN, feedback : BOOLEAN]
           /\ l.pad \in {"none", "ok", "failed"}
<1>1. /\ l.status \in Status /\ l.labels \in SUBSET Step
      /\ l.closed \in BOOLEAN /\ l.branch \in BOOLEAN
      /\ l.pr \in 0..MaxPulls
      /\ l.state \in {"", "open", "closed", "merged"}
      /\ l.merged \in BOOLEAN /\ l.required \in BOOLEAN
      /\ l.said \in [closed : BOOLEAN, feedback : BOOLEAN]
      /\ l.pad \in {"none", "ok", "failed"}
  BY DEF Lane, Status
<1>2. \A n \in 0..MaxPulls : n # 0 => n \in PullNo
  BY DeliveryAssumption DEF PullNo
<1> QED
  BY <1>1, <1>2

\* A new or an ended lane knows nothing of pull requests.
LEMMA NewLaneTyped ==
    ASSUME NEW s \in Status, NEW labels \in SUBSET Step
    PROVE  LET l == NewLane(s, labels)
           IN  /\ l \in Lane /\ l.status = s /\ l.labels = labels
               /\ l.pr = 0 /\ ~l.branch /\ ~IsMerged(l)
  BY DeliveryAssumption DEF NewLane, Lane, Status, Silent, IsMerged

LEMMA NewLaneSound ==
    ASSUME NEW s \in Status \ {"running"}, NEW labels \in SUBSET Step, NEW p
    PROVE  /\ NewLane(s, labels) \in Lane /\ NewLane(s, labels).status = s
           /\ Sound(NewLane(s, labels), p) /\ Saw(NewLane(s, labels))
  BY NewLaneTyped DEF Sound, Saw

\* A change of anything else leaves what the lane knows of pull requests.
LEMMA KnowsTheSame ==
    ASSUME NEW l \in Lane, NEW m \in Lane, NEW p, Sound(l, p),
           m.pr = l.pr, m.branch = l.branch, m.state = l.state, m.merged = l.merged,
           m.status = "running" => l.status = "running"
    PROVE  Sound(m, p) /\ (Saw(l) => Saw(m)) /\ (IsMerged(m) <=> IsMerged(l))
<1>1. IsMerged(m) <=> IsMerged(l)
  BY DEF IsMerged
<1> QED
  BY <1>1 DEF Sound, Saw

LEMMA StatusChanges ==
    ASSUME NEW l \in Lane, NEW s \in Status, NEW p, Sound(l, p),
           s = "running" => l.status = "running"
    PROVE  LET m == [l EXCEPT !.status = s]
           IN  m \in Lane /\ m.status = s /\ Sound(m, p) /\ (Saw(l) => Saw(m))
<1> DEFINE m == [l EXCEPT !.status = s]
<1>1. m \in Lane /\ m.status = s
  BY DEF Lane, Status
<1>2. m.pr = l.pr /\ m.branch = l.branch /\ m.state = l.state /\ m.merged = l.merged
  BY DEF Lane
<1> QED
  BY <1>1, <1>2, KnowsTheSame

\* A lane that is claimed with other labels.
LEMMA LabelsChange ==
    ASSUME NEW l \in Lane, NEW labels \in SUBSET Step, NEW p, Sound(l, p)
    PROVE  LET m == [l EXCEPT !.status = "claimed", !.labels = labels]
           IN  m \in Lane /\ m.status = "claimed" /\ Sound(m, p)
<1> DEFINE m == [l EXCEPT !.status = "claimed", !.labels = labels]
<1>1. m \in Lane /\ m.status = "claimed"
  BY DEF Lane
<1>2. m.pr = l.pr /\ m.branch = l.branch /\ m.state = l.state /\ m.merged = l.merged
  BY DEF Lane
<1> QED
  BY <1>1, <1>2, KnowsTheSame

\* GitHub forgets no pull request and undoes no merge.
Grows(p, q) ==
    \A n \in PullNo :
        /\ p[n].state # "none" => q[n].state # "none"
        /\ p[n].state = "merged" => q[n].state = "merged"

LEMMA SoundGrows ==
    ASSUME NEW l \in Lane, NEW p, NEW q, Sound(l, p), Grows(p, q)
    PROVE  Sound(l, q)
  BY LaneFields DEF Sound, Grows

\* Some largest number of a set of pull requests exists.
LEMMA MaxIsOne ==
    ASSUME NEW S, S \subseteq PullNo, S # {}
    PROVE  Max(S) \in S
<1> DEFINE T == {MaxPulls - x : x \in S}
<1>1. MaxPulls \in Nat /\ \A x \in S : x \in Nat /\ MaxPulls - x \in Nat
  BY DeliveryAssumption DEF PullNo
<1>2. T \subseteq Nat /\ T # {}
  BY <1>1
<1>3. OpToRel(<, Nat) = {ss \in Nat \X Nat : ss[1] < ss[2]}
  BY Zenon DEF OpToRel
<1>4. PICK t \in T : \A u \in T : <<u, t>> \notin OpToRel(<, Nat)
  <2>1. IsWellFoundedOn(OpToRel(<, Nat), Nat)
    BY NatLessThanWellFounded
  <2> QED
    BY <1>2, <2>1, WFMin
<1>5. PICK x \in S : t = MaxPulls - x
  BY <1>4
<1>6. ASSUME NEW y \in S, ~(x >= y) PROVE FALSE
  <2>1. MaxPulls - y \in T /\ MaxPulls - y < t /\ MaxPulls - y \in Nat /\ t \in Nat
    BY <1>1, <1>5, <1>6
  <2>2. <<MaxPulls - y, t>> \in OpToRel(<, Nat)
    BY <1>3, <2>1
  <2> QED
    BY <1>4, <2>1, <2>2
<1>7. \E z \in S : \A y \in S : z >= y
  BY <1>6
<1> QED
  BY <1>7 DEF Max
-----------------------------------------------------------------------------
(* What steps have in common *)

LEMMA FaultsCount ==
    ASSUME TypeOK, edits \in Nat, edits' = edits, Fault \/ faults' = faults
    PROVE  /\ edits' \in Nat /\ faults' \in 0..MaxFaults
           /\ edits' + faults' \in 0..MaxUpsets
<1>1. faults \in 0..MaxFaults /\ edits + faults \in 0..MaxUpsets
  BY DEF TypeOK
<1> QED
  BY <1>1, DeliveryAssumption DEF Fault, Room

\* A tick that leaves saves what it has.
LEMMA Leaves ==
    ASSUME NEW m \in Lane, Sound(m, pulls), pulls' = pulls, LeaveTick(m)
    PROVE  /\ file' \in Lane /\ mem' \in Lane /\ pc' = "idle"
           /\ Sound(file, pulls)' /\ Sound(mem, pulls)'
           /\ TickSaw' /\ DeliveredIsSaved'
<1>1. file' = m /\ mem' = m /\ pc' = "idle"
  BY DEF LeaveTick
<1> QED
  BY <1>1 DEF TickSaw, DeliveredIsSaved

LEMMA PullsStay ==
    ASSUME pulls' = pulls
    PROVE  /\ Saw(mem)' <=> Saw(mem')
           /\ InOrder(pulls) => InOrder(pulls)'
           /\ \A l : Sound(l, pulls') <=> Sound(l, pulls)
<1>1. Open' = Open
  BY DEF Open
<1> QED
  BY <1>1 DEF Saw

LEMMA InIInv ==
    ASSUME IInv
    PROVE  /\ file \in Lane /\ mem \in Lane
           /\ Sound(file, pulls) /\ Sound(mem, pulls)
           /\ edits \in Nat /\ TypeOK /\ InOrder(pulls) /\ TickSaw
           /\ DeliveredIsSaved /\ pads \in Nat /\ pads <= 1
  BY DEF IInv, TypeOK, OnePad

\* GitHub's pull requests are of their type.
LEMMA PullFields ==
    ASSUME TypeOK, NEW n \in PullNo
    PROVE  /\ pulls \in [PullNo -> PullRow]
           /\ pulls[n].state \in {"none", "open", "closed", "merged"}
           /\ pulls[n].blockers \in SUBSET Kinds
<1>1. pulls \in [PullNo -> PullRow]
  BY DEF TypeOK, PullRow
<1> QED
  BY <1>1 DEF PullRow

LEMMA InitIInv == Init => IInv
<1> SUFFICES ASSUME Init PROVE IInv
  OBVIOUS
<1>1. /\ file \in Lane /\ mem \in Lane /\ Sound(file, pulls) /\ Sound(mem, pulls)
      /\ file.status = "none" /\ mem.status = "none"
  BY NewLaneSound DEF Init, Status
<1>2. issue \in [labels : SUBSET Step, closed : BOOLEAN]
  BY DEF Init, Step
<1>3. pulls \in [PullNo -> [state : {"none", "open", "closed", "merged"},
                             blockers : SUBSET Kinds]]
  BY DEF Init
<1>4. InOrder(pulls)
  <2>1. 0 \in 0..MaxPulls /\ \A n \in PullNo : ~(n <= 0)
    BY DeliveryAssumption DEF PullNo
  <2>2. \A n \in PullNo : pulls[n].state = "none"
    BY DEF Init
  <2> QED
    BY <2>1, <2>2 DEF InOrder
<1>5. /\ pads = 0 /\ tree = "none" /\ ledger = {} /\ actor = "none" /\ pc = "idle"
      /\ behind = FALSE /\ edits = 0 /\ faults = 0
  BY DEF Init
<1>6. TypeOK
  <2>1. 0 \in Nat /\ 0 \in 0..MaxFaults /\ 0 + 0 \in 0..MaxUpsets
    BY DeliveryAssumption
  <2>2. behind \in BOOLEAN
    BY <1>5
  <2>3. /\ pads \in Nat /\ faults \in 0..MaxFaults /\ edits + faults \in 0..MaxUpsets
    BY <1>5, <2>1
  <2> QED
    BY <1>1, <1>2, <1>3, <1>5, <2>2, <2>3 DEF TypeOK
<1>7. TickSaw /\ DeliveredIsSaved /\ OnePad
  BY <1>1, <1>5 DEF TickSaw, DeliveredIsSaved, OnePad
<1> QED
  BY <1>1, <1>4, <1>5, <1>6, <1>7 DEF IInv
-----------------------------------------------------------------------------
(* The tick reads *)

\* A lane found without its worker is queued again or the operator's.
LEMMA RecoveredKnows ==
    ASSUME IInv, NEW l \in Recovered(file)
    PROVE  l \in Lane /\ Sound(l, pulls) /\ (l.status = "delivered" => l = file)
<1>1. CASE l = file
  BY <1>1, InIInv
<1>2. CASE \E s \in {"retry", "attention"} : l = [file EXCEPT !.status = s]
  <2>1. PICK s \in {"retry", "attention"} : l = [file EXCEPT !.status = s]
    BY <1>2
  <2>2. s \in Status /\ s # "running" /\ s # "delivered"
    BY DEF Status
  <2> QED
    BY <2>1, <2>2, InIInv, StatusChanges
<1> QED
  BY <1>1, <1>2 DEF Recovered

LEMMA RefreshedKnows ==
    ASSUME TypeOK, NEW l \in Lane, Sound(l, pulls), Active(l)
    PROVE  LET m == Refreshed(l)
           IN  m \in Lane /\ Sound(m, pulls) /\ m.status # "delivered"
<1>1. issue.labels \in SUBSET Step /\ issue.closed \in BOOLEAN
  BY DEF TypeOK
<1>2. CASE StaysInWorkflow(issue.labels)
  <2> DEFINE m == [l EXCEPT !.labels = issue.labels, !.closed = issue.closed]
  <2>1. m \in Lane
    BY <1>1 DEF Lane
  <2>2. /\ m.pr = l.pr /\ m.branch = l.branch /\ m.state = l.state
        /\ m.merged = l.merged /\ m.status = l.status
    BY DEF Lane
  <2> QED
    BY <1>2, <2>1, <2>2, KnowsTheSame DEF Refreshed, Active
<1>3. CASE ~StaysInWorkflow(issue.labels)
  BY <1>3, NewLaneSound DEF Refreshed, Ended, Status
<1> QED
  BY <1>2, <1>3

LEMMA RefreshKeeps == IInv /\ Refresh => IInv'
<1> SUFFICES ASSUME IInv, Refresh PROVE IInv'
  OBVIOUS
<1> USE InIInv
<1>1. /\ UNCHANGED <<issue, pulls, pads, tree, file, ledger, actor, edits>>
      /\ faults' = faults \/ Fault
      /\ behind' \in BOOLEAN
      /\ pc' = IF Active(mem') THEN "pulls" ELSE "intake"
  BY DEF Refresh, github
<1>2. mem' \in Lane /\ Sound(mem', pulls) /\ (mem'.status = "delivered" => mem' = file)
  <2>1. PICK l \in Recovered(file) :
          \/ mem' = IF Active(l) THEN Refreshed(l) ELSE l
          \/ mem' = l
    BY DEF Refresh
  <2>2. l \in Lane /\ Sound(l, pulls) /\ (l.status = "delivered" => l = file)
    BY RecoveredKnows
  <2> QED
    BY <2>1, <2>2, RefreshedKnows
<1>3. TickSaw' /\ DeliveredIsSaved' /\ OnePad'
  BY <1>1, <1>2 DEF TickSaw, DeliveredIsSaved, OnePad, Active
<1>4. Sound(file, pulls)' /\ Sound(mem, pulls)' /\ InOrder(pulls)'
  BY <1>1, <1>2, PullsStay
<1>5. TypeOK' /\ edits' \in Nat
  BY <1>1, <1>2, FaultsCount DEF TypeOK
<1> QED
  BY <1>3, <1>4, <1>5 DEF IInv

\* The pull request that is listed is open, and taken as it was listed.
LEMMA WithPullKnows ==
    ASSUME NEW l \in Lane, Sound(l, pulls), l.branch, NEW n \in Open
    PROVE  LET m == WithPull(l, n)
           IN  /\ m \in Lane /\ m.status = l.status
               /\ Sound(m, pulls) /\ Saw(m)
<1> DEFINE m == WithPull(l, n)
<1>1. n \in PullNo /\ pulls[n].state = "open" /\ n \in 0..MaxPulls
  BY DeliveryAssumption DEF Open, PullNo
<1>2. /\ m \in Lane /\ m.status = l.status /\ m.branch = l.branch
      /\ m.pr = n /\ m.state = "" /\ m.merged = FALSE
  BY <1>1 DEF WithPull, Lane
<1> QED
  BY <1>1, <1>2 DEF Sound, Saw, IsMerged

LEMMA ListPullsKeeps == IInv /\ ListPulls => IInv'
<1> SUFFICES ASSUME IInv, ListPulls PROVE IInv'
  OBVIOUS
<1> USE InIInv
<1>1. /\ UNCHANGED <<issue, pulls, pads, tree, file, ledger, actor, edits>>
      /\ faults' = faults \/ Fault
      /\ behind' \in BOOLEAN
      /\ pc' = "signals"
  BY DEF ListPulls, github, TypeOK
<1>2. /\ mem' \in Lane /\ Sound(mem', pulls) /\ mem'.status = mem.status
      /\ ~behind' => Saw(mem')
  <2>1. CASE FoundPull(mem) = {} /\ mem' = mem
    BY <2>1 DEF FoundPull, Saw
  <2>2. CASE FoundPull(mem) # {} /\ mem' = WithPull(mem, Max(FoundPull(mem)))
    <3>1. mem.branch /\ FoundPull(mem) = Open
      BY <2>2 DEF FoundPull
    <3>2. Max(Open) \in Open
      BY <2>2, <3>1, MaxIsOne DEF Open
    <3> QED
      BY <2>2, <3>1, <3>2, WithPullKnows
  <2>3. CASE behind' = TRUE /\ mem' = mem
    BY <2>3
  <2> QED
    BY <2>1, <2>2, <2>3 DEF ListPulls
<1>3. TickSaw' /\ DeliveredIsSaved' /\ OnePad'
  BY <1>1, <1>2, PullsStay DEF TickSaw, DeliveredIsSaved, OnePad
<1>4. Sound(file, pulls)' /\ Sound(mem, pulls)' /\ InOrder(pulls)'
  BY <1>1, <1>2, PullsStay
<1>5. TypeOK' /\ edits' \in Nat
  BY <1>1, <1>2, FaultsCount DEF TypeOK
<1> QED
  BY <1>3, <1>4, <1>5 DEF IInv

\* What is read of the pull request the lane names is its state.
LEMMA WithSignalsKnows ==
    ASSUME TypeOK, NEW l \in Lane, Sound(l, pulls), l.pr # 0
    PROVE  LET m == WithSignals(l, l.pr)
           IN  /\ m \in Lane /\ m.status = l.status
               /\ Sound(m, pulls) /\ (Saw(l) => Saw(m))
<1> DEFINE m == WithSignals(l, l.pr)
<1>1. l.pr \in PullNo /\ pulls[l.pr].state \in {"open", "closed", "merged"}
  BY LaneFields, PullFields DEF Sound
<1>2. /\ m \in Lane /\ m.status = l.status /\ m.branch = l.branch
      /\ m.pr = l.pr /\ m.state = pulls[l.pr].state /\ m.merged = l.merged
  BY <1>1 DEF WithSignals, Lane
<1>3. Sound(m, pulls)
  BY <1>1, <1>2 DEF Sound, IsMerged
<1>4. Saw(l) => Saw(m)
  BY <1>1, <1>2 DEF Saw, IsMerged, Open
<1> QED
  BY <1>2, <1>3, <1>4

LEMMA ReadSignalsKeeps == IInv /\ ReadSignals => IInv'
<1> SUFFICES ASSUME IInv, ReadSignals PROVE IInv'
  OBVIOUS
<1> USE InIInv
<1>1. /\ UNCHANGED <<issue, pulls, pads, tree, file, ledger, actor, edits>>
      /\ faults' = faults \/ Fault
      /\ pc = "signals" /\ pc' = "intake"
  BY DEF ReadSignals, github
<1>2. behind' \in BOOLEAN /\ (~behind' => ~behind)
  <2>1. behind \in BOOLEAN /\ (behind' = behind \/ behind' = TRUE)
    BY DEF ReadSignals, TypeOK
  <2> QED
    BY <2>1
<1>3. /\ mem' \in Lane /\ Sound(mem', pulls) /\ mem'.status = mem.status
      /\ Saw(mem) => Saw(mem')
  BY WithSignalsKnows DEF ReadSignals
<1>4. TickSaw' /\ DeliveredIsSaved' /\ OnePad'
  BY <1>1, <1>2, <1>3, PullsStay DEF TickSaw, DeliveredIsSaved, OnePad, Active
<1>5. Sound(file, pulls)' /\ Sound(mem, pulls)' /\ InOrder(pulls)'
  BY <1>1, <1>3, PullsStay
<1>6. TypeOK' /\ edits' \in Nat
  BY <1>1, <1>2, <1>3, FaultsCount DEF TypeOK
<1> QED
  BY <1>4, <1>5, <1>6 DEF IInv
-----------------------------------------------------------------------------
(* The tick's workpad and claim *)

\* However the calls for the workpad end, there is at most one comment, and the
\* lane knows what it knew.
LEMMA EnsurePadKeeps ==
    ASSUME IInv, EnsurePad(mem)
    PROVE  /\ mem' \in Lane /\ Sound(mem', pulls) /\ (Saw(mem) => Saw(mem'))
           /\ mem'.status = "delivered" => mem.status = "delivered"
           /\ Active(mem') => Active(mem) \/ mem'.status = "pad_failed"
           /\ pads' \in Nat /\ pads' <= 1 /\ (faults' = faults \/ Fault)
<1> USE InIInv
<1>1. pads' \in Nat /\ pads' <= 1 /\ (faults' = faults \/ Fault)
  BY DEF EnsurePad, Commented, FindsPad
<1>2. CASE mem' = PadWorks(mem)
  <2>1. /\ mem' \in Lane /\ mem'.pr = mem.pr /\ mem'.branch = mem.branch
        /\ mem'.state = mem.state /\ mem'.merged = mem.merged
        /\ mem'.status = mem.status \/ (mem.status = "pad_failed" /\ mem'.status = "claimed")
    BY <1>2 DEF PadWorks, Lane
  <2>2. Sound(mem', pulls) /\ (Saw(mem) => Saw(mem'))
    BY <2>1, KnowsTheSame
  <2> QED
    BY <1>1, <2>1, <2>2 DEF Active
<1>3. CASE mem' = PadFails(mem)
  <2>1. /\ mem' \in Lane /\ mem'.pr = mem.pr /\ mem'.branch = mem.branch
        /\ mem'.state = mem.state /\ mem'.merged = mem.merged
        /\ mem'.status = "pad_failed"
    BY <1>3 DEF PadFails, Lane
  <2>2. Sound(mem', pulls) /\ (Saw(mem) => Saw(mem'))
    BY <2>1, KnowsTheSame
  <2> QED
    BY <1>1, <2>1, <2>2
<1> QED
  BY <1>2, <1>3 DEF EnsurePad

LEMMA RepairPadKeeps == IInv /\ RepairPad => IInv'
<1> SUFFICES ASSUME IInv, RepairPad PROVE IInv'
  OBVIOUS
<1> USE InIInv
<1>1. /\ UNCHANGED <<issue, pulls, tree, file, ledger, actor, behind, edits>>
      /\ pc = "intake" /\ pc' = "save" /\ Active(mem)
  BY DEF RepairPad
<1>2. /\ mem' \in Lane /\ Sound(mem', pulls) /\ (Saw(mem) => Saw(mem'))
      /\ pads' \in Nat /\ pads' <= 1 /\ (faults' = faults \/ Fault)
      /\ mem'.status = "delivered" => mem.status = "delivered"
  BY EnsurePadKeeps DEF RepairPad
<1>3. TickSaw' /\ DeliveredIsSaved' /\ OnePad'
  BY <1>1, <1>2, PullsStay DEF TickSaw, DeliveredIsSaved, OnePad
<1>4. Sound(file, pulls)' /\ Sound(mem, pulls)' /\ InOrder(pulls)'
  BY <1>1, <1>2, PullsStay
<1>5. TypeOK' /\ edits' \in Nat
  BY <1>1, <1>2, FaultsCount DEF TypeOK
<1> QED
  BY <1>3, <1>4, <1>5 DEF IInv

LEMMA MakePadKeeps == IInv /\ MakePad => IInv'
<1> SUFFICES ASSUME IInv, MakePad PROVE IInv'
  OBVIOUS
<1> USE InIInv
<1>1. /\ UNCHANGED <<issue, pulls, tree, file, ledger, actor, behind, edits>>
      /\ pc = "pad" /\ pc' = "save"
  BY DEF MakePad
<1>2. /\ mem' \in Lane /\ Sound(mem', pulls) /\ (Saw(mem) => Saw(mem'))
      /\ pads' \in Nat /\ pads' <= 1 /\ (faults' = faults \/ Fault)
      /\ mem'.status = "delivered" => mem.status = "delivered"
  BY EnsurePadKeeps DEF MakePad
<1>3. TickSaw' /\ DeliveredIsSaved' /\ OnePad'
  BY <1>1, <1>2, PullsStay DEF TickSaw, DeliveredIsSaved, OnePad
<1>4. Sound(file, pulls)' /\ Sound(mem, pulls)' /\ InOrder(pulls)'
  BY <1>1, <1>2, PullsStay
<1>5. TypeOK' /\ edits' \in Nat
  BY <1>1, <1>2, FaultsCount DEF TypeOK
<1> QED
  BY <1>3, <1>4, <1>5 DEF IInv

\* SaveLane: what the tick knows is saved.
LEMMA SaveLaneKeeps == IInv /\ SaveLane => IInv'
<1> SUFFICES ASSUME IInv, SaveLane PROVE IInv'
  OBVIOUS
<1> USE InIInv
<1>1. /\ UNCHANGED <<issue, pulls, pads, tree, mem, ledger, actor, behind, edits, faults>>
      /\ pc \in {"save", "intake"} /\ pc' = "route" /\ file' = mem
  BY DEF SaveLane, github
<1>2. TickSaw' /\ DeliveredIsSaved' /\ OnePad'
  BY <1>1, PullsStay DEF TickSaw, DeliveredIsSaved, OnePad
<1>3. Sound(file, pulls)' /\ Sound(mem, pulls)' /\ InOrder(pulls)'
  BY <1>1, PullsStay
<1>4. TypeOK' /\ edits' \in Nat
  BY <1>1 DEF TypeOK
<1> QED
  BY <1>2, <1>3, <1>4 DEF IInv

\* The lane of a new claim knows no pull request.
LEMMA ClaimKeeps == IInv /\ Claim => IInv'
<1> SUFFICES ASSUME IInv, Claim PROVE IInv'
  OBVIOUS
<1> USE InIInv
<1> DEFINE listed == issue.labels \cup {"todo"}
           bare == listed \ {"todo"}
<1>1. UNCHANGED <<pulls, pads, tree, ledger, actor, behind, edits>>
  BY DEF Claim
<1>2. /\ issue \in [labels : SUBSET Step, closed : BOOLEAN]
      /\ listed \in SUBSET Step /\ bare \in SUBSET Step
      /\ bare \cup {"code"} \in SUBSET Step
  BY DEF TypeOK, Step
<1>3. OnePad' /\ InOrder(pulls)'
  BY <1>1, PullsStay DEF OnePad
<1>4. CASE /\ issue' = [issue EXCEPT !.labels = bare \cup {"code"}]
           /\ mem' = NewLane("claimed", bare \cup {"code"})
           /\ pc' = "pad"
           /\ UNCHANGED <<file, faults>>
  <2>1. /\ mem' \in Lane /\ mem'.status = "claimed" /\ Sound(mem', pulls)
        /\ Saw(mem')
    BY <1>2, <1>4, NewLaneSound DEF Status
  <2>2. TickSaw' /\ DeliveredIsSaved'
    BY <1>1, <1>4, <2>1, PullsStay DEF TickSaw, DeliveredIsSaved, Active
  <2>3. Sound(file, pulls)' /\ Sound(mem, pulls)'
    BY <1>1, <1>4, <2>1, PullsStay
  <2>4. issue' \in [labels : SUBSET Step, closed : BOOLEAN]
    BY <1>2, <1>4
  <2>5. TypeOK' /\ edits' \in Nat
    BY <1>1, <1>4, <2>1, <2>4, FaultsCount DEF TypeOK
  <2> QED
    BY <1>3, <2>2, <2>3, <2>5 DEF IInv
<1>5. CASE /\ Fault
           /\ \E labels \in {listed, bare, bare \cup {"code"}} :
                issue' = [issue EXCEPT !.labels = labels]
           /\ LeaveTick(NewLane("claimed", listed))
  <2>1. NewLane("claimed", listed) \in Lane /\ Sound(NewLane("claimed", listed), pulls)
    BY <1>2, NewLaneSound DEF Status
  <2>2. /\ file' \in Lane /\ mem' \in Lane /\ pc' = "idle"
        /\ Sound(file, pulls)' /\ Sound(mem, pulls)'
        /\ TickSaw' /\ DeliveredIsSaved'
    BY <1>1, <1>5, <2>1, Leaves
  <2>3. issue' \in [labels : SUBSET Step, closed : BOOLEAN]
    BY <1>2, <1>5
  <2>4. TypeOK' /\ edits' \in Nat
    BY <1>1, <1>5, <2>2, <2>3, FaultsCount DEF TypeOK
  <2> QED
    BY <1>3, <2>2, <2>4 DEF IInv
<1> QED
  BY <1>4, <1>5 DEF Claim
-----------------------------------------------------------------------------
(* The tick leaves *)

\* A tick that leaves with a lane it knows, and changes at most the issue's labels,
\* the ledger, the worktree and the coder.
LEMMA LeavingKeeps ==
    ASSUME IInv, NEW m \in Lane, Sound(m, pulls), LeaveTick(m),
           issue' \in [labels : SUBSET Step, closed : BOOLEAN],
           UNCHANGED <<pulls, pads, behind, edits>>,
           tree' \in {"none", "unhooked", "ready"},
           ledger' \subseteq Move, actor' \in {"none", "code", "merge"},
           Fault \/ faults' = faults
    PROVE  IInv'
<1> USE InIInv
<1>1. /\ file' \in Lane /\ mem' \in Lane /\ pc' = "idle"
      /\ Sound(file, pulls)' /\ Sound(mem, pulls)'
      /\ TickSaw' /\ DeliveredIsSaved'
  BY Leaves
<1>2. OnePad' /\ InOrder(pulls)'
  BY PullsStay DEF OnePad
<1>3. TypeOK' /\ edits' \in Nat
  BY <1>1, FaultsCount DEF TypeOK
<1> QED
  BY <1>1, <1>2, <1>3 DEF IInv

\* A tick that leaves with the lane as it is, or as it was saved.
LEMMA HoldingKeeps ==
    ASSUME IInv, LeaveTick(mem) \/ LeaveTick(file),
           UNCHANGED <<issue, pulls, pads, behind, edits, ledger, actor>>,
           tree' \in {"none", "unhooked", "ready"}, Fault \/ faults' = faults
    PROVE  IInv'
<1>1. /\ issue' \in [labels : SUBSET Step, closed : BOOLEAN]
      /\ ledger' \subseteq Move /\ actor' \in {"none", "code", "merge"}
  BY InIInv DEF TypeOK
<1> QED
  BY <1>1, InIInv, LeavingKeeps

LEMMA QuietLeavesKeep == IInv /\ (IdleTick \/ TreeFails \/ Hold \/ TickKilled) => IInv'
<1> SUFFICES ASSUME IInv, IdleTick \/ TreeFails \/ Hold \/ TickKilled PROVE IInv'
  OBVIOUS
<1>1. tree \in {"none", "unhooked", "ready"}
  BY InIInv DEF TypeOK
<1>2. CASE IdleTick
  BY <1>1, <1>2, HoldingKeeps DEF IdleTick, github
<1>3. CASE TreeFails
  BY <1>1, <1>3, HoldingKeeps DEF TreeFails, github
<1>4. CASE Hold
  BY <1>1, <1>4, HoldingKeeps DEF Hold, github
<1>5. CASE TickKilled
  BY <1>1, <1>5, HoldingKeeps DEF TickKilled, github
<1> QED
  BY <1>2, <1>3, <1>4, <1>5

LEMMA DispatchKeeps == IInv /\ Dispatch => IInv'
<1> SUFFICES ASSUME IInv, Dispatch PROVE IInv'
  OBVIOUS
<1> USE InIInv
<1> DEFINE m == [mem EXCEPT !.status = "running", !.branch = TRUE]
<1>1. /\ LeaveTick(m) /\ UNCHANGED <<issue, pulls, pads, ledger, behind, edits, faults>>
      /\ actor' \in {"code", "merge"}
      /\ tree' = IF tree = "none" THEN "ready" ELSE tree
  BY DEF Dispatch, github
<1>2. /\ m \in Lane /\ m.status = "running" /\ m.branch
      /\ m.pr = mem.pr /\ m.state = mem.state /\ m.merged = mem.merged
  BY DEF Lane
<1>3. Sound(m, pulls)
  BY <1>2 DEF Sound, IsMerged
<1>4. /\ issue' \in [labels : SUBSET Step, closed : BOOLEAN]
      /\ tree' \in {"none", "unhooked", "ready"} /\ ledger' \subseteq Move
  BY <1>1 DEF TypeOK
<1> QED
  BY <1>1, <1>2, <1>3, <1>4, LeavingKeeps

LEMMA ReleaseDoneKeeps == IInv /\ ReleaseDone => IInv'
<1> SUFFICES ASSUME IInv, ReleaseDone PROVE IInv'
  OBVIOUS
<1>1. /\ LeaveTick(NewLane("delivered", {}))
      /\ UNCHANGED <<issue, pulls, pads, tree, ledger, actor, behind, edits, faults>>
  BY DEF ReleaseDone, github, Ended
<1>2. NewLane("delivered", {}) \in Lane /\ Sound(NewLane("delivered", {}), pulls)
  BY NewLaneSound DEF Status
<1>3. /\ issue' \in [labels : SUBSET Step, closed : BOOLEAN]
      /\ tree' \in {"none", "unhooked", "ready"} /\ ledger' \subseteq Move
      /\ actor' \in {"none", "code", "merge"}
  BY <1>1, InIInv DEF TypeOK
<1> QED
  BY <1>1, <1>2, <1>3, LeavingKeeps

\* A move of the step, however the call ends.
LEMMA LabelCallTyped ==
    ASSUME TypeOK, NEW labels \in SUBSET Step, NEW target \in Step,
           NEW end \in {"moved", "failed", "killed"},
           LabelCall(PlanFor(labels, target), end)
    PROVE  /\ Labelled(labels, PlanFor(labels, target)) \in SUBSET Step
           /\ ledger' \subseteq Move
           /\ issue'.closed = issue.closed
           /\ issue' \in [labels : SUBSET Step, closed : BOOLEAN]
           /\ Fault \/ faults' = faults
<1> DEFINE plan == PlanFor(labels, target)
<1>1. plan \in Move
  BY DEF PlanFor, Move
<1>2. plan.add \in SUBSET Step /\ plan.remove \in SUBSET Step
  BY <1>1 DEF Move
<1>3. \A given \in SUBSET Step : Labelled(given, plan) \in SUBSET Step
  BY <1>2 DEF Labelled
<1>4. issue \in [labels : SUBSET Step, closed : BOOLEAN] /\ ledger \subseteq Move
  BY DEF TypeOK
<1>5. Labelled(issue.labels, plan) \in SUBSET Step
  BY <1>3, <1>4
<1>6. issue' \in {issue, [issue EXCEPT !.labels = Labelled(issue.labels, plan)]}
  <2>1. [issue EXCEPT !.labels = issue.labels] = issue
    BY <1>4
  <2>2. CASE issue' = [issue EXCEPT !.labels = IF end = "killed" THEN Labelled(@, plan)
                                                               ELSE @]
    <3>1. CASE end = "killed"
      BY <2>2, <3>1
    <3>2. CASE end # "killed"
      BY <2>1, <2>2, <3>2
    <3> QED
      BY <3>1, <3>2
  <2>3. CASE issue' = issue \/ issue' = [issue EXCEPT !.labels = Labelled(@, plan)]
    BY <2>3
  <2> QED
    BY <2>2, <2>3 DEF LabelCall
<1>7. /\ ledger' \in {ledger, ledger \cup {plan}}
      /\ Fault \/ faults' = faults
  BY DEF LabelCall
<1> HIDE DEF plan
<1>8. issue' \in [labels : SUBSET Step, closed : BOOLEAN] /\ issue'.closed = issue.closed
  BY <1>4, <1>5, <1>6
<1> QED
  BY <1>1, <1>3, <1>4, <1>7, <1>8 DEF plan

LEMMA MoveStepKeeps == IInv /\ MoveStep => IInv'
<1> SUFFICES ASSUME IInv, MoveStep PROVE IInv'
  OBVIOUS
<1> USE InIInv
<1>1. PICK target \in MoveTarget(mem), end \in {"moved", "failed", "killed"} :
        /\ LabelCall(PlanFor(mem.labels, target), end)
        /\ LeaveTick(CASE end = "moved" -> [mem EXCEPT !.status = "claimed",
                          !.labels = Labelled(@, PlanFor(mem.labels, target))]
                       [] end = "failed" -> mem
                       [] OTHER -> file)
  BY DEF MoveStep
<1> DEFINE plan == PlanFor(mem.labels, target)
           moved == [mem EXCEPT !.status = "claimed", !.labels = Labelled(mem.labels, plan)]
<1>2. UNCHANGED <<pulls, pads, tree, actor, behind, edits>>
  BY DEF MoveStep
<1>3. target \in Step
  BY DEF MoveTarget, Step
<1>4. mem.labels \in SUBSET Step
  BY LaneFields
<1>5. /\ Labelled(mem.labels, plan) \in SUBSET Step /\ ledger' \subseteq Move
      /\ issue' \in [labels : SUBSET Step, closed : BOOLEAN]
      /\ Fault \/ faults' = faults
  BY <1>1, <1>3, <1>4, LabelCallTyped
<1>6. moved \in Lane /\ Sound(moved, pulls)
  BY <1>5, LabelsChange
<1>7. \E m \in {moved, mem, file} : LeaveTick(m)
  <2>1. CASE end = "moved"
    BY <1>1, <2>1
  <2>2. CASE end = "failed"
    BY <1>1, <2>2
  <2>3. CASE end = "killed"
    BY <1>1, <2>3
  <2> QED
    BY <2>1, <2>2, <2>3
<1>8. PICK m \in {moved, mem, file} : LeaveTick(m)
  BY <1>7
<1>9. m \in Lane /\ Sound(m, pulls)
  BY <1>6
<1>10. tree' \in {"none", "unhooked", "ready"} /\ actor' \in {"none", "code", "merge"}
  BY <1>2 DEF TypeOK
<1> HIDE DEF plan, moved
<1> QED
  BY <1>2, <1>5, <1>8, <1>9, <1>10, LeavingKeeps
-----------------------------------------------------------------------------
(* The coder's answer *)

LEMMA AnswersKnow ==
    ASSUME IInv, file.status = "running", NEW a \in Answers(file)
    PROVE  a \in Lane /\ Sound(a, pulls)
<1> USE InIInv
<1> DEFINE newest == Made \ {m \in Made : \E n \in Made : m < n}
           known == {file} \cup {Named(file, n) : n \in newest}
<1>1. \E k \in known : a = Told(k, FALSE) \/ a = Told(k, actor = "code")
  BY DEF Answers
<1>2. PICK k \in known : a = Told(k, FALSE) \/ a = Told(k, actor = "code")
  BY <1>1
<1>3. PICK f \in BOOLEAN : a = Told(k, f)
  <2>1. FALSE \in BOOLEAN /\ (actor = "code") \in BOOLEAN
    OBVIOUS
  <2> QED
    BY <1>2, <2>1, Zenon
<1>4. k = file \/ \E n \in Made : k = Named(file, n)
  OBVIOUS
<1>5. file.branch
  BY DEF Sound
<1>6. k \in Lane /\ Sound(k, pulls) /\ k.status = "running"
  <2>1. CASE k = file
    BY <2>1
  <2>2. CASE \E n \in Made : k = Named(file, n)
    <3>1. PICK n \in Made : k = Named(file, n)
      BY <2>2
    <3>2. n \in PullNo /\ pulls[n].state \in {"open", "closed", "merged"}
      BY PullFields DEF Made
    <3>3. n \in 0..MaxPulls /\ n # 0
      BY <3>2, DeliveryAssumption DEF PullNo
    <3>4. (pulls[n].state = "merged") \in BOOLEAN
      OBVIOUS
    <3>5. k \in Lane
      BY <3>1, <3>2, <3>3, <3>4 DEF Lane, Named
    <3>6. /\ k.pr = n /\ k.state = pulls[n].state /\ k.branch = file.branch
          /\ k.status = "running"
      BY <3>1 DEF Lane, Named
    <3>7. k.merged <=> pulls[n].state = "merged"
      BY <3>1 DEF Lane, Named
    <3>8. IsMerged(k) <=> pulls[n].state = "merged"
      BY <3>6, <3>7, Zenon DEF IsMerged
    <3> QED
      BY <1>5, <3>2, <3>3, <3>5, <3>6, <3>8 DEF Sound
  <2> QED
    BY <1>4, <2>1, <2>2
<1>7. [closed |-> actor = "merge" /\ issue.closed, feedback |-> f]
          \in [closed : BOOLEAN, feedback : BOOLEAN]
  <2>1. (actor = "merge" /\ issue.closed) \in BOOLEAN
    OBVIOUS
  <2> QED
    BY <2>1
<1>8. /\ a \in Lane /\ a.pr = k.pr /\ a.branch = k.branch /\ a.state = k.state
      /\ a.merged = k.merged /\ a.status = k.status
  BY <1>3, <1>6, <1>7 DEF Lane, Told
<1> QED
  BY <1>6, <1>8, KnowsTheSame

LEMMA CoderIsDoneKeeps == IInv /\ CoderIsDone => IInv'
<1> SUFFICES ASSUME IInv, CoderIsDone PROVE IInv'
  OBVIOUS
<1> USE InIInv
<1>1. PICK l \in Answers(file), end \in {"moved", "failed", "killed"} :
        /\ LabelCall(PlanFor(l.labels, NextStep), end)
        /\ file' = IF end # "moved" THEN file
                   ELSE [l EXCEPT !.status = "claimed",
                                  !.labels = Labelled(@, PlanFor(l.labels, NextStep))]
  BY DEF CoderIsDone
<1> DEFINE plan == PlanFor(l.labels, NextStep)
           moved == [l EXCEPT !.status = "claimed", !.labels = Labelled(l.labels, plan)]
<1>2. /\ UNCHANGED <<pulls, pads, tree, behind, edits>>
      /\ file.status = "running" /\ pc' = "idle" /\ mem' = file' /\ actor' = "none"
  BY DEF CoderIsDone
<1>3. l \in Lane /\ Sound(l, pulls)
  BY <1>2, AnswersKnow
<1>4. NextStep \in Step /\ l.labels \in SUBSET Step
  BY <1>3, LaneFields DEF NextStep, Step
<1>5. /\ Labelled(l.labels, plan) \in SUBSET Step /\ ledger' \subseteq Move
      /\ issue' \in [labels : SUBSET Step, closed : BOOLEAN]
      /\ Fault \/ faults' = faults
  BY <1>1, <1>4, LabelCallTyped
<1>6. moved \in Lane /\ Sound(moved, pulls)
  BY <1>3, <1>5, LabelsChange
<1>7. file' \in Lane /\ Sound(file', pulls)
  <2>1. file' = file \/ file' = moved
    BY <1>1
  <2> HIDE DEF moved
  <2> QED
    BY <1>6, <2>1
<1>8. LeaveTick(file')
  BY <1>2 DEF LeaveTick
<1>9. tree' \in {"none", "unhooked", "ready"}
  BY <1>2 DEF TypeOK
<1> HIDE DEF plan, moved
<1> QED
  BY <1>2, <1>5, <1>7, <1>8, <1>9, LeavingKeeps

LEMMA CoderStopsKeeps == IInv /\ CoderStops => IInv'
<1> SUFFICES ASSUME IInv, CoderStops PROVE IInv'
  OBVIOUS
<1> USE InIInv
<1>1. /\ UNCHANGED <<issue, pulls, pads, tree, ledger, behind, edits, faults>>
      /\ pc' = "idle" /\ mem' = file' /\ actor' = "none"
      /\ file' \in {file, [file EXCEPT !.status = "attention"]}
  BY DEF CoderStops, github
<1>2. file' \in Lane /\ Sound(file', pulls)
  <2>1. "attention" \in Status
    BY DEF Status
  <2>2. [file EXCEPT !.status = "attention"] \in Lane
        /\ Sound([file EXCEPT !.status = "attention"], pulls)
    BY <2>1, StatusChanges
  <2> QED
    BY <1>1, <2>2
<1>3. LeaveTick(file')
  BY <1>1 DEF LeaveTick
<1>4. /\ issue' \in [labels : SUBSET Step, closed : BOOLEAN]
      /\ tree' \in {"none", "unhooked", "ready"} /\ ledger' \subseteq Move
  BY <1>1 DEF TypeOK
<1> QED
  BY <1>1, <1>2, <1>3, <1>4, LeavingKeeps

LEMMA CoderWaitsKeeps == IInv /\ CoderWaits => IInv'
<1> SUFFICES ASSUME IInv, CoderWaits PROVE IInv'
  OBVIOUS
<1> USE InIInv
<1>1. /\ UNCHANGED <<issue, pulls, pads, tree, ledger, behind, edits, faults>>
      /\ file.status = "running" /\ pc' = "idle" /\ mem' = file' /\ actor' = "none"
  BY DEF CoderWaits, github
<1>2. PICK l \in Answers(file) : file' = [l EXCEPT !.status = "waiting"]
  BY DEF CoderWaits
<1>3. l \in Lane /\ Sound(l, pulls)
  BY <1>1, AnswersKnow
<1>4. file' \in Lane /\ Sound(file', pulls)
  BY <1>2, <1>3, StatusChanges DEF Status
<1>5. LeaveTick(file')
  BY <1>1 DEF LeaveTick
<1>6. /\ issue' \in [labels : SUBSET Step, closed : BOOLEAN]
      /\ tree' \in {"none", "unhooked", "ready"} /\ ledger' \subseteq Move
  BY <1>1 DEF TypeOK
<1> QED
  BY <1>1, <1>4, <1>5, <1>6, LeavingKeeps

LEMMA CoderKilledKeeps == IInv /\ CoderKilled => IInv'
<1> SUFFICES ASSUME IInv, CoderKilled PROVE IInv'
  OBVIOUS
<1> USE InIInv
<1>1. /\ UNCHANGED <<issue, pulls, pads, tree, file, mem, ledger, pc, behind, edits>>
      /\ actor' = "none" /\ Fault
  BY DEF CoderKilled, github
<1>2. TickSaw' /\ DeliveredIsSaved' /\ OnePad'
  BY <1>1, PullsStay DEF TickSaw, DeliveredIsSaved, OnePad
<1>3. Sound(file, pulls)' /\ Sound(mem, pulls)' /\ InOrder(pulls)'
  BY <1>1, PullsStay
<1>4. TypeOK' /\ edits' \in Nat
  BY <1>1, FaultsCount DEF TypeOK
<1> QED
  BY <1>2, <1>3, <1>4 DEF IInv
-----------------------------------------------------------------------------
(* GitHub changes beside the tick *)

\* A tick that is overtaken is behind, and no lane's knowledge is undone.
LEMMA DisturbanceKeeps ==
    ASSUME IInv, Disturb, UNCHANGED <<pads, tree, file, mem, ledger, actor, pc>>,
           pulls' \in [PullNo -> PullRow], InOrder(pulls)', Grows(pulls, pulls'),
           issue' \in [labels : SUBSET Step, closed : BOOLEAN],
           edits' \in Nat, faults' \in 0..MaxFaults,
           edits' + faults' \in 0..MaxUpsets
    PROVE  IInv'
<1> USE InIInv
<1>1. Sound(file, pulls)' /\ Sound(mem, pulls)'
  BY SoundGrows
<1>2. behind' \in BOOLEAN /\ (pc # "idle" => behind')
  BY DEF Disturb, TypeOK
<1>3. TickSaw' /\ DeliveredIsSaved' /\ OnePad'
  BY <1>2 DEF TickSaw, DeliveredIsSaved, OnePad
<1>4. TypeOK'
  BY <1>2 DEF TypeOK, PullRow
<1> QED
  BY <1>1, <1>3, <1>4 DEF IInv

\* One open pull request is changed, and stays made.
LEMMA OneChanges ==
    ASSUME IInv, NEW n \in Open, NEW p \in PullRow, p.state # "none",
           pulls' = [pulls EXCEPT ![n] = p]
    PROVE  /\ pulls' \in [PullNo -> PullRow] /\ InOrder(pulls)'
           /\ Grows(pulls, pulls')
<1> USE InIInv
<1>1. n \in PullNo /\ pulls[n].state = "open" /\ pulls \in [PullNo -> PullRow]
  BY PullFields DEF Open
<1>2. \A m \in PullNo : pulls'[m] = IF m = n THEN p ELSE pulls[m]
  BY <1>1
<1>3. \A m \in PullNo : pulls'[m].state # "none" <=> pulls[m].state # "none"
  BY <1>1, <1>2
<1>4. InOrder(pulls)'
  BY <1>3 DEF InOrder
<1>5. Grows(pulls, pulls')
  BY <1>1, <1>2, <1>3 DEF Grows
<1> QED
  BY <1>1, <1>4, <1>5

\* The next pull request is made.
LEMMA OneIsMade ==
    ASSUME IInv, NEW n \in PullNo, n = Cardinality(Made) + 1,
           NEW p \in PullRow, p.state # "none",
           pulls' = [pulls EXCEPT ![n] = p]
    PROVE  /\ pulls' \in [PullNo -> PullRow] /\ InOrder(pulls)'
           /\ Grows(pulls, pulls')
<1> USE InIInv
<1>1. PICK c \in 0..MaxPulls : \A m \in PullNo : pulls[m].state # "none" <=> m <= c
  BY DEF InOrder
<1>2. c \in Int /\ MaxPulls \in Nat /\ c >= 0 /\ c <= MaxPulls
  BY DeliveryAssumption
<1>3. Made = 1..c
  BY <1>1, <1>2 DEF Made, PullNo
<1>4. Cardinality(Made) = c
  <2>1. 1 \in Int /\ (1 > c => c = 0) /\ c - 1 + 1 = c
    BY <1>2
  <2> QED
    BY <1>2, <1>3, <2>1, FS_Interval
<1>5. n = c + 1 /\ c + 1 \in 0..MaxPulls
  BY <1>2, <1>4, DeliveryAssumption DEF PullNo
<1>6. pulls \in [PullNo -> PullRow]
  BY DEF TypeOK, PullRow
<1>7. \A m \in PullNo : pulls'[m] = IF m = n THEN p ELSE pulls[m]
  BY <1>6
<1>8. \A m \in PullNo : pulls'[m].state # "none" <=> m <= c + 1
  BY <1>1, <1>2, <1>5, <1>7 DEF PullNo
<1>9. InOrder(pulls)'
  BY <1>5, <1>8 DEF InOrder
<1>10. pulls[n].state = "none"
  BY <1>1, <1>2, <1>5
<1>11. Grows(pulls, pulls')
  BY <1>7, <1>10 DEF Grows
<1> QED
  BY <1>6, <1>9, <1>11

LEMMA CoderPushesKeeps == IInv /\ CoderPushes => IInv'
<1> SUFFICES ASSUME IInv, CoderPushes PROVE IInv'
  OBVIOUS
<1> USE InIInv
<1>1. PICK n \in PullNo : \E blockers \in SUBSET Kinds :
        /\ IF Open = {} THEN n = Cardinality(Made) + 1 ELSE n \in Open
        /\ pulls' = [pulls EXCEPT ![n] = [state |-> "open", blockers |-> blockers]]
  <2>1. PICK n \in PullNo :
          /\ IF Open = {} THEN n = Cardinality(Made) + 1 ELSE n \in Open
          /\ \E kept \in {pulls[n].blockers \ {"merge_conflict", "check_failed"}} :
               \E checks \in SUBSET (Kinds \cap {"check_pending"}) :
                 pulls' = [pulls EXCEPT ![n] = [state |-> "open",
                                                blockers |-> kept \cup checks]]
    BY DEF CoderPushes
  <2>2. PICK checks \in SUBSET (Kinds \cap {"check_pending"}) :
          pulls' = [pulls EXCEPT ![n] = [state |-> "open", blockers |->
                      (pulls[n].blockers \ {"merge_conflict", "check_failed"}) \cup checks]]
    BY <2>1
  <2>3. (pulls[n].blockers \ {"merge_conflict", "check_failed"}) \cup checks \in SUBSET Kinds
    BY PullFields
  <2> QED
    BY <2>1, <2>2, <2>3
<1>2. PICK blockers \in SUBSET Kinds :
        pulls' = [pulls EXCEPT ![n] = [state |-> "open", blockers |-> blockers]]
  BY <1>1
<1>3. [state |-> "open", blockers |-> blockers] \in PullRow
  BY DEF PullRow
<1>4. /\ pulls' \in [PullNo -> PullRow] /\ InOrder(pulls)'
      /\ Grows(pulls, pulls')
  BY <1>1, <1>2, <1>3, OneIsMade, OneChanges
<1>5. /\ UNCHANGED <<issue, pads, tree, file, mem, ledger, actor, pc, edits, faults>>
      /\ Disturb
  BY DEF CoderPushes
<1>6. /\ issue' \in [labels : SUBSET Step, closed : BOOLEAN] /\ edits' \in Nat
      /\ faults' \in 0..MaxFaults /\ edits' + faults' \in 0..MaxUpsets
  BY <1>5 DEF TypeOK
<1> QED
  BY <1>4, <1>5, <1>6, DisturbanceKeeps

\* Nothing happens to any pull request.
LEMMA NoneChanges ==
    ASSUME IInv, pulls' = pulls
    PROVE  /\ pulls' \in [PullNo -> PullRow] /\ InOrder(pulls)'
           /\ Grows(pulls, pulls')
  BY InIInv, PullsStay DEF TypeOK, PullRow, Grows

LEMMA CoderMergesKeeps == IInv /\ CoderMerges => IInv'
<1> SUFFICES ASSUME IInv, CoderMerges PROVE IInv'
  OBVIOUS
<1> USE InIInv
<1>1. /\ UNCHANGED <<pads, tree, file, mem, ledger, actor, pc, edits, faults>>
      /\ Disturb
  BY DEF CoderMerges
<1>2. issue \in [labels : SUBSET Step, closed : BOOLEAN]
  BY DEF TypeOK
<1>3. /\ pulls' \in [PullNo -> PullRow] /\ InOrder(pulls)'
      /\ Grows(pulls, pulls')
  <2>1. CASE pulls' = pulls
    BY <2>1, NoneChanges
  <2>2. CASE \E n \in Open : pulls' = [pulls EXCEPT ![n].state = "merged"]
    <3>1. PICK n \in Open : pulls' = [pulls EXCEPT ![n].state = "merged"]
      BY <2>2
    <3> DEFINE p == [pulls[n] EXCEPT !.state = "merged"]
    <3>2. n \in PullNo /\ pulls \in [PullNo -> PullRow]
      BY PullFields DEF Open
    <3>3. pulls' = [pulls EXCEPT ![n] = p] /\ p \in PullRow /\ p.state # "none"
      BY <3>1, <3>2 DEF PullRow
    <3> QED
      BY <3>3, OneChanges
  <2> QED
    BY <2>1, <2>2 DEF CoderMerges
<1>4. issue' \in [labels : SUBSET Step, closed : BOOLEAN]
  BY <1>2 DEF CoderMerges
<1>5. /\ edits' \in Nat /\ faults' \in 0..MaxFaults
      /\ edits' + faults' \in 0..MaxUpsets
  BY <1>1 DEF TypeOK
<1> QED
  BY <1>1, <1>3, <1>4, <1>5, DisturbanceKeeps

LEMMA PeopleActKeeps == IInv /\ PeopleAct => IInv'
<1> SUFFICES ASSUME IInv, PeopleAct PROVE IInv'
  OBVIOUS
<1> USE InIInv
<1>1. /\ UNCHANGED <<pads, tree, file, mem, ledger, actor, pc, faults>>
      /\ Disturb /\ Room /\ edits' = edits + 1
  BY DEF PeopleAct
<1>2. /\ edits' \in Nat /\ faults' \in 0..MaxFaults
      /\ edits' + faults' \in 0..MaxUpsets
  <2>1. faults \in 0..MaxFaults /\ edits + faults \in 0..MaxUpsets
    BY DEF TypeOK
  <2> QED
    BY <1>1, <2>1, DeliveryAssumption DEF Room
<1>3. issue \in [labels : SUBSET Step, closed : BOOLEAN]
  BY DEF TypeOK
<1>4. \/ /\ \/ \E s \in Step : issue' = [issue EXCEPT !.labels = {s}]
            \/ issue' = [issue EXCEPT !.closed = ~@]
         /\ pulls' = pulls
      \/ /\ issue' = issue
         /\ \E n \in Open : \E p \in PullRow :
              p.state # "none" /\ pulls' = [pulls EXCEPT ![n] = p]
  <2>1. ASSUME NEW n \in Open,
               NEW p \in {[state |-> s, blockers |-> pulls[n].blockers] :
                            s \in {"closed", "merged"}}
                         \cup {[state |-> "open", blockers |-> b] : b \in SUBSET Kinds}
        PROVE  p \in PullRow /\ p.state # "none"
    <3>1. pulls[n].blockers \in SUBSET Kinds
      BY PullFields DEF Open
    <3> QED
      BY <2>1, <3>1 DEF PullRow
  <2> QED
    BY <2>1 DEF PeopleAct
<1>5. /\ pulls' \in [PullNo -> PullRow] /\ InOrder(pulls)'
      /\ Grows(pulls, pulls')
  BY <1>4, NoneChanges, OneChanges
<1>6. issue' \in [labels : SUBSET Step, closed : BOOLEAN]
  <2>1. \A s \in Step : [issue EXCEPT !.labels = {s}]
                            \in [labels : SUBSET Step, closed : BOOLEAN]
    BY <1>3
  <2>2. [issue EXCEPT !.closed = ~@] \in [labels : SUBSET Step, closed : BOOLEAN]
    <3>1. (~issue.closed) \in BOOLEAN
      OBVIOUS
    <3> QED
      BY <1>3, <3>1
  <2> QED
    BY <1>3, <1>4, <2>1, <2>2
<1> QED
  BY <1>1, <1>2, <1>5, <1>6, DisturbanceKeeps
-----------------------------------------------------------------------------
(* The theorems *)

LEMMA StutterKeeps == IInv /\ UNCHANGED vars => IInv'
<1> SUFFICES ASSUME IInv, UNCHANGED vars PROVE IInv'
  OBVIOUS
<1> USE InIInv
<1>1. UNCHANGED <<issue, pulls, pads, tree, file, mem, ledger, actor, pc, behind,
                  edits, faults>>
  BY DEF vars, github
<1>2. TickSaw' /\ DeliveredIsSaved' /\ OnePad'
  BY <1>1, PullsStay DEF TickSaw, DeliveredIsSaved, OnePad
<1>3. Sound(file, pulls)' /\ Sound(mem, pulls)' /\ InOrder(pulls)'
  BY <1>1, PullsStay
<1>4. TypeOK' /\ edits' \in Nat
  BY <1>1 DEF TypeOK
<1> QED
  BY <1>2, <1>3, <1>4 DEF IInv

LEMMA IInvStep == IInv /\ [Next]_vars => IInv'
<1> SUFFICES ASSUME IInv, [Next]_vars PROVE IInv'
  OBVIOUS
<1>1. CASE TickStep
  BY <1>1, RefreshKeeps, ListPullsKeeps, ReadSignalsKeeps, RepairPadKeeps, ClaimKeeps,
     MakePadKeeps, SaveLaneKeeps, QuietLeavesKeep, DispatchKeeps, MoveStepKeeps, ReleaseDoneKeeps
     DEF TickStep
<1>2. CASE TickKilled
  BY <1>2, QuietLeavesKeep
<1>3. CASE CoderPushes \/ CoderMerges \/ CoderIsDone \/ CoderStops \/ CoderWaits
           \/ CoderKilled
  BY <1>3, CoderPushesKeeps, CoderMergesKeeps, CoderIsDoneKeeps, CoderStopsKeeps,
     CoderWaitsKeeps, CoderKilledKeeps
<1>4. CASE PeopleAct
  BY <1>4, PeopleActKeeps
<1>5. CASE UNCHANGED vars
  BY <1>5, StutterKeeps
<1> QED
  BY <1>1, <1>2, <1>3, <1>4, <1>5 DEF Next

\* Every reachable state of the issue, the lane, the tick and the coder is one that
\* the inductive invariant allows: what a lane has for merged is merged, and a tick
\* that is not behind has passed over no open pull request.
THEOREM InductiveInvariant == Spec => []IInv
<1>1. Init => IInv
  BY InitIInv
<1>2. IInv /\ [Next]_vars => IInv'
  BY IInvStep
<1> QED
  BY <1>1, <1>2, PTL DEF Spec

\* Every variable keeps its type: a lane never names a pull request that was not
\* made, nor a step that is none.
THEOREM TypeCorrect == Spec => []TypeOK
<1>1. IInv => TypeOK
  BY DEF IInv
<1> QED
  BY <1>1, InductiveInvariant, PTL

\* There is never a second workpad comment, however often an answer is lost, a tick
\* is killed or the issue is claimed anew (ensure_workpad, find_workpad_comment).
THEOREM OnePadEver == Spec => []OnePad
<1>1. IInv => OnePad
  BY DEF IInv
<1> QED
  BY <1>1, InductiveInvariant, PTL

\* Only ReleaseDone delivers a lane, and it does so on what the lane knows.
LEMMA OnlyReleaseDelivers ==
    ASSUME IInv, Next, file.status # "delivered", file'.status = "delivered"
    PROVE  ReleaseDone
<1> USE InIInv
<1>1. mem.status # "delivered"
  BY DEF DeliveredIsSaved
<1>2. CASE \E m \in {mem, file} : LeaveTick(m)
  BY <1>1, <1>2 DEF LeaveTick
<1>3. CASE file' = file
  BY <1>3
<1>4. CASE RepairPad \/ MakePad \/ SaveLane
  BY <1>1, <1>3, <1>4 DEF RepairPad, MakePad, SaveLane
<1>5. CASE Claim
  <2>1. file' = file \/ \E labels : file' = NewLane("claimed", labels)
    BY <1>5 DEF Claim, LeaveTick
  <2>2. \A labels : NewLane("claimed", labels).status = "claimed"
    BY DEF NewLane
  <2> QED
    BY <2>1, <2>2
<1>6. CASE Dispatch
  <2>1. file'.status = "running"
    BY <1>6 DEF Dispatch, LeaveTick, Lane
  <2> QED
    BY <2>1
<1>7. CASE MoveStep
  <2>1. \/ \E m \in {mem, file} : LeaveTick(m)
        \/ \E labels : LeaveTick([mem EXCEPT !.status = "claimed", !.labels = labels])
    <3>1. PICK target \in MoveTarget(mem), end \in {"moved", "failed", "killed"} :
            LeaveTick(CASE end = "moved" -> [mem EXCEPT !.status = "claimed",
                              !.labels = Labelled(@, PlanFor(mem.labels, target))]
                        [] end = "failed" -> mem
                        [] OTHER -> file)
      BY <1>7 DEF MoveStep
    <3>2. CASE end = "moved"
      BY <3>1, <3>2
    <3>3. CASE end = "failed"
      BY <3>1, <3>3
    <3>4. CASE end = "killed"
      BY <3>1, <3>4
    <3> QED
      BY <3>2, <3>3, <3>4
  <2>2. CASE \E labels : LeaveTick([mem EXCEPT !.status = "claimed", !.labels = labels])
    <3>1. file'.status = "claimed"
      BY <2>2 DEF LeaveTick, Lane
    <3> QED
      BY <3>1
  <2> QED
    BY <1>2, <2>1, <2>2
<1>8. CASE CoderIsDone \/ CoderWaits
  <2>1. file.status = "running"
    BY <1>8 DEF CoderIsDone, CoderWaits
  <2>2. PICK l \in Answers(file) :
          \/ file' = file
          \/ \E labels : file' = [l EXCEPT !.status = "claimed", !.labels = labels]
          \/ file' = [l EXCEPT !.status = "waiting"]
    BY <1>8 DEF CoderIsDone, CoderWaits
  <2>3. l \in Lane
    BY <2>1, AnswersKnow
  <2>4. file'.status \in {file.status, "claimed", "waiting"}
    BY <2>2, <2>3 DEF Lane
  <2> QED
    BY <2>4
<1>9. CASE CoderStops
  <2>1. file' = file \/ file' = [file EXCEPT !.status = "attention"]
    BY <1>9 DEF CoderStops
  <2>2. file'.status \in {file.status, "attention"}
    BY <2>1 DEF Lane
  <2> QED
    BY <2>2
<1>10. CASE \/ Refresh \/ ListPulls \/ ReadSignals \/ CoderPushes \/ CoderMerges
            \/ CoderKilled \/ PeopleAct
  BY <1>3, <1>10 DEF Refresh, ListPulls, ReadSignals, CoderPushes, CoderMerges,
                     CoderKilled, PeopleAct
<1>11. CASE IdleTick \/ TreeFails \/ Hold \/ TickKilled
  BY <1>2, <1>11 DEF IdleTick, TreeFails, Hold, TickKilled
<1> QED
  BY <1>4, <1>5, <1>6, <1>7, <1>8, <1>9, <1>10, <1>11 DEF Next, TickStep

\* A lane that is released as done has had its pull request merged, whatever it has
\* read in which order, if coders answer what they see; and if nothing has overtaken
\* the tick, it leaves no other pull request of its branch open
\* (done_release_verified, release_lane).
THEOREM DeliveredIsMerged == Spec => DoneIsDelivered
<1>1. ASSUME IInv, Next PROVE DeliversMerged
  <2> USE <1>1, InIInv
  <2> SUFFICES ASSUME file.status # "delivered", file'.status = "delivered"
               PROVE  /\ mem.pr # 0 /\ pulls[mem.pr].state = "merged"
                      /\ ~behind => Open = {}
    BY DEF DeliversMerged
  <2>1. ReleaseDone
    BY OnlyReleaseDelivers
  <2>2. pc = "route" /\ Active(mem) /\ IsMerged(mem)
    BY <2>1 DEF ReleaseDone, Free, Active, Verified
  <2>3. mem.pr # 0 /\ pulls[mem.pr].state = "merged" /\ mem.branch
    BY <2>2 DEF Sound
  <2>4. ~behind => Saw(mem)
    BY <2>2 DEF TickSaw
  <2> QED
    BY <2>2, <2>3, <2>4 DEF Saw
<1>2. IInv /\ [Next]_vars => [DeliversMerged]_vars
  BY <1>1
<1> QED
  BY <1>2, InductiveInvariant, PTL DEF Spec, DoneIsDelivered, DeliversMerged
=============================================================================
