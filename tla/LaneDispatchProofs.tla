------------------------- MODULE LaneDispatchProofs -------------------------
(***************************************************************************)
(* For any number of dispatches, attempts and crashes: what LaneDispatch   *)
(* says of a lane and its actors, proved from one inductive invariant.     *)
(*                                                                         *)
(* IInv has two halves.  The first holds whatever crashes: each record, on *)
(* disk or in the hands of the lock's holder, is sound by itself (Sound),  *)
(* and the tick's place tells what the record it works on says (AtStage).  *)
(* The second holds while calm: the session follows the journal, the       *)
(* engine's rows agree with it, and every live actor is attended: the      *)
(* saved record names it, so that no tick gives it up or plans another.    *)
(***************************************************************************)
EXTENDS LaneDispatch, FiniteSetTheorems, TLAPS

\* The dispatches a journal holds open, and those it calls interrupted.
Opens(l) == {d \in Dispatch : l.journal[d] \in Active}
Redos(l) == {d \in Dispatch : l.journal[d] = "interrupted"}

OneOpen(l) == \A d, e \in Opens(l) : d = e
RunIsJournaled(l) == l.sess.run # NoDispatch => l.journal[l.sess.run] # "none"
SessionHasOpen(l) == l.sess.status = "running" => Opens(l) # {}

\* An attempt is counted for every interrupted dispatch, and one is left for a
\* lane that may be dispatched.
RedosCounted(l) ==
    /\ Cardinality(Redos(l) \cup Opens(l)) <= l.attempt
    /\ l.status \notin {"operator_attention", "released"} =>
         Cardinality(Redos(l)) + 1 <= l.attempt

Sound(l) ==
    /\ l \in Lane
    /\ OneOpen(l) /\ RunIsJournaled(l) /\ SessionHasOpen(l) /\ RedosCounted(l)
------------------------------------------------------------------------------
(* The operators on lane records.                                            *)

LEMMA LaneFields ==
    ASSUME NEW l \in Lane
    PROVE  /\ l.status \in {"open", "running", "retry_queued",
                            "operator_attention", "released"}
           /\ l.step \in {"act", "hold"}
           /\ l.attempt \in 1..MaxAttempts
           /\ l.pending \in BOOLEAN
           /\ l.journal \in [Dispatch -> {"none"} \cup Active \cup Final]
           /\ l.cur \in Dispatch \cup {NoDispatch}
           /\ l.sess \in Session
           /\ l.sess.status \in {"none", "running"} \cup Final
           /\ l.sess.run \in Dispatch \cup {NoDispatch}
           /\ l.sess.beat \in Dispatch \cup {NoDispatch}
           /\ l.sess.pid \in Dispatch \cup {NoDispatch}
  BY DEF Lane, Session

LEMMA DispatchNumbers ==
    /\ NoDispatch \notin Dispatch /\ Free \notin Dispatch
    /\ Ticking \notin Dispatch /\ Free # Ticking
  BY BoundAssumption DEF Dispatch, NoDispatch, Free, Ticking

LEMMA DispatchIsFinite == IsFiniteSet(Dispatch)
  BY BoundAssumption, FS_Interval DEF Dispatch

\* A change of the journal entry d and of nothing else but the current dispatch.
LEMMA AdvanceFields ==
    ASSUME NEW l \in Lane, NEW d \in Dispatch,
           NEW s \in {"none"} \cup Active \cup Final
    PROVE  LET m == Advance(l, d, s)
           IN  /\ m \in Lane
               /\ m.status = l.status /\ m.attempt = l.attempt
               /\ m.journal = [l.journal EXCEPT ![d] = s]
               /\ d = m.cur /\ m.sess = l.sess
  <1>1. Advance(l, d, s) = [l EXCEPT !.journal[d] = s, !.cur = d]
    BY DispatchNumbers DEF Advance
  <1>2. [l.journal EXCEPT ![d] = s] \in [Dispatch -> {"none"} \cup Active \cup Final]
    BY LaneFields
  <1>3. Advance(l, d, s) = [[l EXCEPT !.journal = [@ EXCEPT ![d] = s]] EXCEPT !.cur = d]
    BY <1>1 DEF Lane
  <1>4. QED
    BY <1>2, <1>3 DEF Lane

\* The dispatch a lane works on is the open one, if there is one.
LEMMA ActiveIsOpen ==
    ASSUME NEW l \in Lane, OneOpen(l)
    PROVE  /\ Opens(l) = {} <=> ActiveDispatch(l) = NoDispatch
           /\ Opens(l) # {} => ActiveDispatch(l) \in Opens(l)
  <1> DEFINE active == {d \in Dispatch : l.journal[d] \in Active}
  <1>1. active = Opens(l)
    BY DEF Opens
  <1>2. NoDispatch \notin active
    BY DispatchNumbers
  <1>3. CASE l.cur \in active
    BY <1>1, <1>2, <1>3 DEF ActiveDispatch
  <1>4. CASE l.cur \notin active /\ active = {}
    BY <1>1, <1>4 DEF ActiveDispatch
  <1>5. CASE l.cur \notin active /\ active # {}
    <2>1. PICK d \in active : TRUE
      BY <1>5
    <2>2. \A e \in active : e = d
      BY <1>1, <2>1 DEF OneOpen
    <2>3. \A e \in active : e <= d
      BY <2>1, <2>2 DEF Dispatch
    <2>4. (CHOOSE c \in active : \A e \in active : e <= c) \in active
      BY <2>1, <2>3
    <2>5. ActiveDispatch(l) = CHOOSE c \in active : \A e \in active : e <= c
      BY <1>5 DEF ActiveDispatch
    <2>6. QED
      BY <1>1, <1>2, <2>4, <2>5
  <1>6. QED
    BY <1>3, <1>4, <1>5

\* Sets of dispatches are finite, and smaller sets have smaller cardinality.
LEMMA CountMonotone ==
    ASSUME NEW S, NEW T, S \subseteq T, T \subseteq Dispatch
    PROVE  /\ Cardinality(S) \in Nat /\ Cardinality(T) \in Nat
           /\ Cardinality(S) <= Cardinality(T)
  <1>1. IsFiniteSet(T)
    BY DispatchIsFinite, FS_Subset
  <1>2. QED
    BY <1>1, FS_Subset, FS_CardinalityType

LEMMA CountOneMore ==
    ASSUME NEW S, S \subseteq Dispatch, NEW d \in Dispatch
    PROVE  Cardinality(S \cup {d}) <= Cardinality(S) + 1
  <1>1. IsFiniteSet(S)
    BY DispatchIsFinite, FS_Subset
  <1>2. Cardinality(S) \in Nat
    BY <1>1, FS_CardinalityType
  <1>3. Cardinality(S \cup {d})
          = IF d \in S THEN Cardinality(S) ELSE Cardinality(S) + 1
    BY <1>1, FS_AddElement, Zenon
  <1>4. QED
    BY <1>2, <1>3

\* A record whose journal, attempt and latest run are those of a sound record is
\* sound, unless it may be dispatched and the other may not.
LEMMA SoundTouched ==
    ASSUME NEW l, Sound(l), NEW m \in Lane,
           m.journal = l.journal, m.attempt = l.attempt,
           m.sess.run = l.sess.run,
           m.sess.status \in {l.sess.status, "interrupted"},
           \/ m.status \in {"operator_attention", "released"}
           \/ l.status \notin {"operator_attention", "released"}
    PROVE  Sound(m)
  <1>1. Opens(m) = Opens(l) /\ Redos(m) = Redos(l)
    BY DEF Opens, Redos
  <1>2. QED
    BY <1>1 DEF Sound, OneOpen, RunIsJournaled, SessionHasOpen, RedosCounted

\* An open entry stays open.
LEMMA SoundAdvanced ==
    ASSUME NEW l, Sound(l), NEW d \in Opens(l), NEW s \in Active
    PROVE  /\ Sound(Advance(l, d, s))
           /\ Opens(Advance(l, d, s)) = Opens(l)
  <1> DEFINE m == Advance(l, d, s)
  <1>0. l \in Lane /\ d \in Dispatch /\ s \in {"none"} \cup Active \cup Final
    BY DEF Sound, Opens
  <1>1. m \in Lane /\ m.journal = [l.journal EXCEPT ![d] = s] /\ m.sess = l.sess
        /\ m.status = l.status /\ m.attempt = l.attempt
    BY <1>0, AdvanceFields
  <1>2. Opens(m) = Opens(l) /\ Redos(m) = Redos(l)
    BY <1>0, <1>1, LaneFields DEF Opens, Redos, Active
  <1>3. RunIsJournaled(m)
    BY <1>0, <1>1, LaneFields DEF RunIsJournaled, Sound, Active
  <1>4. QED
    BY <1>1, <1>2, <1>3 DEF Sound, OneOpen, SessionHasOpen, RedosCounted

\* A first entry for a lane with an attempt left and nothing open.
LEMMA SoundPlanned ==
    ASSUME NEW l, Sound(l), Opens(l) = {},
           l.status \notin {"operator_attention", "released"},
           NEW d \in Dispatch, l.journal[d] = "none"
    PROVE  Sound(Planned(l, d)) /\ Opens(Planned(l, d)) = {d}
  <1> DEFINE m == Planned(l, d)
  <1>0. l \in Lane
    BY DEF Sound
  <1>1. m \in Lane /\ m.journal = [l.journal EXCEPT ![d] = "planned"]
        /\ m.sess = l.sess /\ m.status = l.status /\ m.attempt = l.attempt
    BY <1>0, AdvanceFields DEF Planned, Active
  <1>2. Opens(m) = {d} /\ Redos(m) = Redos(l)
    BY <1>0, <1>1, LaneFields DEF Opens, Redos, Active
  <1>3. RunIsJournaled(m)
    BY <1>0, <1>1, LaneFields DEF RunIsJournaled, Sound
  <1>4. Cardinality(Redos(m) \cup Opens(m)) <= m.attempt
    <2>1. Redos(l) \subseteq Dispatch
      BY DEF Redos
    <2>2. Cardinality(Redos(l) \cup {d}) <= Cardinality(Redos(l)) + 1
      BY <2>1, CountOneMore
    <2>3. /\ Cardinality(Redos(l)) \in Nat
          /\ Cardinality(Redos(l) \cup {d}) \in Nat
      BY <2>1, CountMonotone
    <2>4. Cardinality(Redos(l)) + 1 <= l.attempt /\ l.attempt \in Nat
      BY <1>0, LaneFields DEF Sound, RedosCounted
    <2>5. QED
      BY <1>1, <1>2, <2>2, <2>3, <2>4
  <1>5. QED
    BY <1>1, <1>2, <1>3, <1>4 DEF Sound, OneOpen, SessionHasOpen, RedosCounted

\* The fields of a record whose result is filed.
LEMMA CloseFields ==
    ASSUME NEW l \in Lane, NEW d \in Dispatch, NEW f \in Final
    PROVE  LET m == Close(l, d, f)
           IN  /\ m \in Lane
               /\ m.status = l.status /\ m.attempt = l.attempt
               /\ m.journal = [l.journal EXCEPT ![d] = f]
               /\ d = m.cur
               /\ f = m.sess.status /\ m.sess.run = l.sess.run
  <1> DEFINE k == [l EXCEPT !.sess.status = f]
  <1>1. /\ k \in Lane /\ k.status = l.status /\ k.attempt = l.attempt
        /\ k.journal = l.journal /\ k.sess.status = f /\ k.sess.run = l.sess.run
    BY DEF Lane, Session, Final
  <1>2. Close(l, d, f) = Advance(k, d, f)
    BY DEF Close
  <1>3. f \in {"none"} \cup Active \cup Final
    BY DEF Final
  <1> HIDE DEF k
  <1>4. QED
    BY <1>1, <1>2, <1>3, AdvanceFields

\* Filing a result takes an entry out of what is open or interrupted.
LEMMA SoundClosed ==
    ASSUME NEW l, Sound(l), NEW d \in Dispatch, NEW f \in {"completed", "failed"}
    PROVE  /\ Sound(Close(l, d, f))
           /\ Opens(Close(l, d, f)) = Opens(l) \ {d}
  <1> DEFINE m == Close(l, d, f)
  <1>0. l \in Lane /\ f \in Final
    BY DEF Sound, Final
  <1>1. m \in Lane /\ m.journal = [l.journal EXCEPT ![d] = f]
        /\ m.sess.status = f /\ m.sess.run = l.sess.run
        /\ m.status = l.status /\ m.attempt = l.attempt
    BY <1>0, CloseFields
  <1>2. Opens(m) = Opens(l) \ {d} /\ Redos(m) = Redos(l) \ {d}
    BY <1>0, <1>1, LaneFields DEF Opens, Redos, Active
  <1>3. RunIsJournaled(m)
    BY <1>0, <1>1, LaneFields DEF RunIsJournaled, Sound
  <1>4. RedosCounted(m)
    <2>1. Redos(l) \cup Opens(l) \subseteq Dispatch
      BY DEF Redos, Opens
    <2>2. /\ Cardinality(Redos(m)) <= Cardinality(Redos(l))
          /\ Cardinality(Redos(m)) \in Nat /\ Cardinality(Redos(l)) \in Nat
      BY <1>2, <2>1, CountMonotone
    <2>3. /\ Cardinality(Redos(m) \cup Opens(m))
               <= Cardinality(Redos(l) \cup Opens(l))
          /\ Cardinality(Redos(m) \cup Opens(m)) \in Nat
          /\ Cardinality(Redos(l) \cup Opens(l)) \in Nat
      BY <1>2, <2>1, CountMonotone
    <2>4. l.attempt \in Nat
      BY <1>0, LaneFields
    <2>5. QED
      BY <1>1, <2>2, <2>3, <2>4 DEF RedosCounted, Sound
  <1>5. QED
    BY <1>1, <1>2, <1>3, <1>4 DEF Sound, OneOpen, SessionHasOpen

LEMMA BecomeFields ==
    ASSUME NEW l \in Lane,
           NEW s \in {"open", "running", "retry_queued",
                      "operator_attention", "released"}
    PROVE  LET m == Become(l, s)
           IN  /\ m \in Lane /\ m.status = s /\ m.attempt = l.attempt
               /\ m.journal = l.journal /\ m.cur = l.cur /\ m.sess = l.sess
  BY DEF Become, Lane

\* Whatever a turn's outcome, the lane may go on or is the operator's.
LEMMA NoteFields ==
    ASSUME NEW l \in Lane, NEW o \in Outcome
    PROVE  LET m == Note(l, o)
           IN  /\ m \in Lane
               /\ m.status \in {"open", "operator_attention"}
               /\ o = "done" => m.status = "open"
               /\ m.attempt = l.attempt
               /\ m.journal = l.journal /\ m.cur = l.cur /\ m.sess = l.sess
  <1> DEFINE taken == IF o = "failed" THEN l ELSE [l EXCEPT !.pending = FALSE]
  <1>1. /\ taken \in Lane /\ taken.attempt = l.attempt
        /\ taken.journal = l.journal /\ taken.cur = l.cur /\ taken.sess = l.sess
    BY DEF Lane
  <1>2. Note(l, o) =
          IF o = "done" THEN [taken EXCEPT !.status = "open", !.step = "hold"]
          ELSE Become(taken, IF o = "waiting" THEN "open" ELSE "operator_attention")
    BY DEF Note
  <1> HIDE DEF taken
  <1>3. CASE o = "done"
    BY <1>1, <1>2, <1>3, ZenonT(40) DEF Lane
  <1>4. CASE o # "done"
    BY <1>1, <1>2, <1>4, BecomeFields
  <1>5. QED
    BY <1>3, <1>4

LEMMA FinalOfType == ASSUME NEW l PROVE FinalOf(l) \in {"completed", "failed"}
  BY DEF FinalOf

\* The journal of a lane whose open dispatch was given up.
GivenUp(l) == [d \in Dispatch |-> IF l.journal[d] \in Active THEN "interrupted"
                                  ELSE l.journal[d]]

LEMMA DispatchInterruptedFields ==
    ASSUME NEW l \in Lane, OneOpen(l)
    PROVE  LET m == DispatchInterrupted(l)
           IN  /\ m \in Lane /\ m.status = l.status
               /\ m.attempt = l.attempt
               /\ m.journal = GivenUp(l) /\ m.sess = l.sess
  <1> DEFINE a == ActiveDispatch(l)
             m == DispatchInterrupted(l)
  <1>1. CASE Opens(l) = {}
    <2>1. m = l
      BY <1>1, ActiveIsOpen DEF DispatchInterrupted, Advance
    <2>2. l.journal = GivenUp(l)
      BY <1>1, LaneFields DEF GivenUp, Opens
    <2>3. QED
      BY <2>1, <2>2
  <1>2. CASE Opens(l) # {}
    <2>1. a \in Opens(l) /\ a \in Dispatch
      BY <1>2, ActiveIsOpen DEF Opens
    <2>2. \A d \in Opens(l) : d = a
      BY <2>1 DEF OneOpen
    <2>3. "interrupted" \in {"none"} \cup Active \cup Final
      BY DEF Final
    <2> HIDE DEF a
    <2>4. m = Advance(l, a, "interrupted")
      BY DEF DispatchInterrupted, a
    <2>5. /\ m \in Lane /\ m.status = l.status /\ m.attempt = l.attempt
          /\ m.journal = [l.journal EXCEPT ![a] = "interrupted"]
          /\ m.sess = l.sess
      BY <2>1, <2>3, <2>4, AdvanceFields
    <2>6. [l.journal EXCEPT ![a] = "interrupted"] = GivenUp(l)
      BY <2>1, <2>2, LaneFields DEF GivenUp, Opens
    <2>7. QED
      BY <2>5, <2>6
  <1>3. QED
    BY <1>1, <1>2

LEMMA RuntimeInterruptedFields ==
    ASSUME NEW l \in Lane, OneOpen(l)
    PROVE  LET m == RuntimeInterrupted(l)
           IN  /\ m \in Lane /\ m.status = l.status
               /\ m.attempt = l.attempt
               /\ m.journal = GivenUp(l)
               /\ m.sess.run = l.sess.run /\ m.sess.status = "interrupted"
  <1> DEFINE k == [l EXCEPT !.sess.status = "interrupted"]
  <1>1. /\ k \in Lane /\ k.status = l.status /\ k.attempt = l.attempt
        /\ k.journal = l.journal
        /\ k.sess.status = "interrupted" /\ k.sess.run = l.sess.run
    BY DEF Lane, Session, Final
  <1>2. RuntimeInterrupted(l) = DispatchInterrupted(k)
    BY DEF RuntimeInterrupted
  <1> HIDE DEF k
  <1>3. OneOpen(k) /\ GivenUp(k) = GivenUp(l)
    BY <1>1 DEF OneOpen, Opens, GivenUp
  <1>4. QED
    BY <1>1, <1>2, <1>3, DispatchInterruptedFields

LEMMA QueueRetryFields ==
    ASSUME NEW l \in Lane
    PROVE  LET m == QueueRetry(l)
           IN  /\ m \in Lane
               /\ m.journal = l.journal /\ m.sess = l.sess
               /\ IF l.attempt >= MaxAttempts
                  THEN m.status = "operator_attention" /\ m.attempt = l.attempt
                  ELSE m.status = "retry_queued" /\ m.attempt = l.attempt + 1
  <1>1. CASE l.attempt >= MaxAttempts
    BY <1>1, BecomeFields DEF QueueRetry
  <1>2. CASE ~(l.attempt >= MaxAttempts)
    <2>1. l.attempt + 1 \in 1..MaxAttempts
      BY <1>2, LaneFields, BoundAssumption
    <2>2. QED
      BY <1>2, <2>1 DEF QueueRetry, Lane
  <1>3. QED
    BY <1>1, <1>2

\* What Interrupt makes of the lane.
Interrupted(l) ==
    QueueRetry(IF l.status = "running" \/ l.sess.status = "running"
               THEN RuntimeInterrupted(l) ELSE DispatchInterrupted(l))

\* A lane given up is sound: the attempt counted pays for the dispatch.
LEMMA InterruptedSound ==
    ASSUME NEW l, Sound(l)
    PROVE  LET m == Interrupted(l)
           IN  /\ Sound(m) /\ Opens(m) = {}
               /\ m.journal = GivenUp(l)
               /\ m.sess.run = l.sess.run /\ m.sess.status # "running"
               /\ m.status = IF l.attempt >= MaxAttempts
                             THEN "operator_attention" ELSE "retry_queued"
  <1> DEFINE k == IF l.status = "running" \/ l.sess.status = "running"
                  THEN RuntimeInterrupted(l) ELSE DispatchInterrupted(l)
             m == Interrupted(l)
  <1>0. l \in Lane /\ OneOpen(l)
    BY DEF Sound
  <1>1. /\ k \in Lane /\ k.attempt = l.attempt /\ k.journal = GivenUp(l)
        /\ k.sess.run = l.sess.run /\ k.sess.status # "running"
    BY <1>0, RuntimeInterruptedFields, DispatchInterruptedFields
  <1>2. m = QueueRetry(k)
    BY DEF Interrupted
  <1> HIDE DEF k
  <1>3. /\ m \in Lane /\ m.journal = GivenUp(l)
        /\ m.sess.run = l.sess.run /\ m.sess.status # "running"
        /\ IF l.attempt >= MaxAttempts
           THEN m.status = "operator_attention" /\ m.attempt = l.attempt
           ELSE m.status = "retry_queued" /\ m.attempt = l.attempt + 1
    BY <1>1, <1>2, QueueRetryFields
  <1> HIDE DEF m
  <1>4. Opens(m) = {} /\ Redos(m) = Redos(l) \cup Opens(l)
    BY <1>0, <1>3, LaneFields DEF Opens, Redos, GivenUp, Active
  <1>5. RunIsJournaled(m)
    <2>1. m.sess.run # NoDispatch => m.sess.run \in Dispatch
      BY <1>3, LaneFields
    <2>2. QED
      BY <1>3, <2>1 DEF RunIsJournaled, Sound, GivenUp
  <1>6. RedosCounted(m)
    <2>1. Cardinality(Redos(l) \cup Opens(l)) <= l.attempt /\ l.attempt \in Nat
      BY <1>0, LaneFields DEF Sound, RedosCounted
    <2>2. Cardinality(Redos(l) \cup Opens(l)) \in Nat
      <3>1. Redos(l) \cup Opens(l) \subseteq Dispatch
        BY DEF Redos, Opens
      <3>2. QED
        BY <3>1, CountMonotone
    <2>3. Redos(m) \cup Opens(m) = Redos(m)
      BY <1>4
    <2>4. QED
      BY <1>3, <1>4, <2>1, <2>2, <2>3 DEF RedosCounted
  <1>7. QED
    BY <1>3, <1>4, <1>5, <1>6 DEF Sound, OneOpen, SessionHasOpen, m

\* What OpenRun makes of the lane: the planned dispatch is the session's run.
Opened(l, s) ==
    Advance([l EXCEPT !.sess = [s EXCEPT !.status = "running", !.run = l.cur]],
            l.cur, "started")

LEMMA OpenedSound ==
    ASSUME NEW l, Sound(l), l.cur \in Opens(l), NEW s \in {l.sess, NoSession}
    PROVE  LET m == Opened(l, s)
           IN  /\ Sound(m) /\ Opens(m) = Opens(l)
               /\ m.journal = [l.journal EXCEPT ![l.cur] = "started"]
               /\ m.status = l.status /\ m.cur = l.cur
               /\ m.sess.run = l.cur /\ m.sess.status = "running"
  <1> DEFINE r == [s EXCEPT !.status = "running", !.run = l.cur]
             k == [l EXCEPT !.sess = r]
             m == Opened(l, s)
  <1>0. l \in Lane /\ l.cur \in Dispatch
    BY DEF Sound, Opens
  <1>s. s \in Session
    BY <1>0, LaneFields DEF Session, NoSession
  <1>1. r \in Session /\ r.status = "running" /\ r.run = l.cur
    BY <1>0, <1>s DEF Session
  <1> HIDE DEF r
  <1>2. /\ k \in Lane /\ k.status = l.status /\ k.attempt = l.attempt
        /\ k.journal = l.journal /\ k.cur = l.cur /\ k.sess = r
    BY <1>0, <1>1 DEF Lane
  <1>3. m = Advance(k, l.cur, "started")
    BY DEF Opened, r
  <1> HIDE DEF k
  <1>4. "started" \in {"none"} \cup Active \cup Final
    BY DEF Active
  <1>5. /\ m \in Lane /\ m.status = l.status /\ m.attempt = l.attempt
        /\ m.journal = [l.journal EXCEPT ![l.cur] = "started"]
        /\ m.cur = l.cur /\ m.sess = r
    BY <1>0, <1>2, <1>3, <1>4, AdvanceFields
  <1> HIDE DEF m
  <1>6. Opens(m) = Opens(l) /\ Redos(m) = Redos(l)
    BY <1>0, <1>5, LaneFields DEF Opens, Redos, Active
  <1>7. RunIsJournaled(m)
    BY <1>0, <1>1, <1>5, LaneFields DEF RunIsJournaled
  <1>8. QED
    BY <1>1, <1>5, <1>6, <1>7
    DEF Sound, OneOpen, SessionHasOpen, RedosCounted, m
------------------------------------------------------------------------------
(* The inductive invariant.                                                  *)

\* The places of the tick between the journal entry and the actor's result.
Dispatching == {"planned", "opened", "started", "marked", "markedInline",
                "prepared", "spawned", "inline", "inlineFiling"}

\* Whose the lock is: of the tick while it is under way, of the worker that files.
LockHeld ==
    /\ pc # "idle" <=> lock = Ticking
    /\ \A d \in Dispatch : lock = d <=> worker[d] \in {"filing", "closing"}

\* Where the copy is what was saved, and where only its journal and session are.
CopyIsSaved ==
    /\ lock = Free => mem = disk
    /\ pc \in {"routing", "planned", "started", "prepared", "spawned", "inline"} =>
         mem = disk
    /\ pc = "inlineFiling" \/ (\E d \in Dispatch : worker[d] = "filing") =>
         mem.journal = disk.journal /\ mem.sess = disk.sess

\* What the record says at each place of the tick.
AtStage ==
    /\ pc \in Dispatching => mem.cur \in Dispatch
    /\ pc = "planned" => mem.journal[mem.cur] = "planned"
    /\ pc \in Dispatching \ {"planned"} =>
         /\ mem.journal[mem.cur] \in {"started", "running"}
         /\ mem.sess.run = mem.cur /\ mem.sess.status = "running"
    /\ pc \in {"planned", "opened", "started"} =>
         /\ mem.status \in {"open", "retry_queued"}
         /\ mem.status = "retry_queued" => due
    /\ pc \in {"marked", "markedInline", "prepared", "spawned", "inline"} =>
         mem.status = "running"
    /\ pc \in {"marked", "prepared", "spawned"} => mem.sess.beat = mem.cur
    /\ pc \in {"inline", "inlineFiling"} =>
         worker[mem.cur] = "working" /\ disk.status \in {"running", "open"}
    /\ pc = "inlineFiling" => mem.status \in {"open", "operator_attention"}

\* A worker files a result only for a lane that was running.
FilesForRunning ==
    lock \in Dispatch =>
        /\ disk.status \in {"running", "open"}
        /\ mem.status \in {"open", "operator_attention"}

\* Journal entries come before the actor and the engine run, and never go away.
JournalComesFirst ==
    \A d \in Dispatch :
        disk.journal[d] = "none" => ~Alive(d) /\ run[d] = "none"

JournalGrows ==
    \A d \in Dispatch : disk.journal[d] # "none" => mem.journal[d] # "none"

\* The retry row is there before the lane waits for it, until it need not wait.
RowWaits(l) == l.status = "retry_queued" /\ ~due => retryRow

\* While calm, the latest session is that of the one dispatch under way.
SessionFollows(l) ==
    /\ \A d \in Dispatch : l.journal[d] \in {"started", "running"} =>
          l.sess.run = d /\ l.sess.status = "running"
    /\ l.sess.status = "running" =>
          /\ l.sess.run \in Dispatch
          /\ l.journal[l.sess.run] \in {"started", "running"}
    /\ l.status = "running" => l.sess.status = "running"

\* While calm, a closed entry has a closed run or none, a planned one has none.
RunsFollow(l) ==
    \A d \in Dispatch :
        l.journal[d] \in Final =>
            \/ run[d] = l.journal[d]
            \/ run[d] = "none" /\ l.journal[d] = "interrupted"

PlannedHasNoRun(l) ==
    \A d \in Dispatch : l.journal[d] = "planned" => run[d] = "none"

\* While calm, the saved record keeps a live actor in sight.
Attended(d) ==
    /\ disk.journal[d] \in {"started", "running"} /\ disk.sess.run = d
    /\ pc \notin {"planned", "opened", "started", "marked", "markedInline",
                  "prepared", "released"}
    /\ pc \in {"reconciled", "ending"} => mem = disk
    /\ ~Inline(d) =>
         /\ disk.sess.beat = d
         /\ pc # "spawned" => disk.sess.pid = d
         /\ lock # d => disk.status \in {"running", "released"}
         /\ disk.status = "running" => ~old

Calm ==
    /\ SessionFollows(disk) /\ SessionFollows(mem)
    /\ RunsFollow(disk) /\ RunsFollow(mem)
    /\ PlannedHasNoRun(mem) /\ (pc # "opened" => PlannedHasNoRun(disk))
    /\ \A d \in Dispatch : Alive(d) => Attended(d)
    /\ pc \in {"marked", "prepared", "spawned"} => ~old

Records == Sound(disk) /\ Sound(mem)

Rows == RowWaits(disk) /\ RowWaits(mem)

IInv ==
    /\ TypeOK /\ Records /\ LockHeld /\ CopyIsSaved /\ AtStage /\ FilesForRunning
    /\ JournalComesFirst /\ JournalGrows /\ Rows
    /\ calm => Calm

LEMMA InitIInv == Init => IInv
  <1> SUFFICES ASSUME Init PROVE IInv
    OBVIOUS
  <1> USE BoundAssumption, DispatchNumbers
  <1>1. disk \in Lane /\ mem = disk
    BY DEF Init, Lane, Session, NoSession
  <1>2. /\ disk.status = "open" /\ disk.attempt = 1
        /\ \A d \in Dispatch : disk.journal[d] = "none"
        /\ disk.sess.status = "none" /\ disk.sess.run = NoDispatch
    BY DEF Init, NoSession
  <1>3. Opens(disk) = {} /\ Redos(disk) = {}
    BY <1>2 DEF Opens, Redos, Active
  <1>4. Cardinality({}) = 0
    BY FS_EmptySet
  <1>5. Sound(disk)
    BY <1>1, <1>2, <1>3, <1>4
    DEF Sound, OneOpen, RunIsJournaled, SessionHasOpen, RedosCounted
  <1>6. TypeOK
    <2>1. worker \in [Dispatch -> Phase] /\ crashes \in 0..MaxCrashes
      BY DEF Init, Phase
    <2>2. /\ retryRow \in BOOLEAN /\ due \in BOOLEAN /\ old \in BOOLEAN
          /\ calm \in BOOLEAN
      BY Zenon DEF Init
    <2>3. /\ run \in [Dispatch -> {"none", "running"} \cup Final]
          /\ lock \in {Free, Ticking} \cup Dispatch /\ pc = "idle"
      BY DEF Init
    <2>4. QED
      BY <1>1, <2>1, <2>2, <2>3 DEF TypeOK
  <1>7. Records /\ LockHeld /\ CopyIsSaved /\ AtStage /\ FilesForRunning
    BY <1>1, <1>2, <1>5
    DEF Init, Records, LockHeld, CopyIsSaved, AtStage, FilesForRunning, Dispatching
  <1>8. JournalComesFirst /\ JournalGrows /\ Rows
    BY <1>1, <1>2
    DEF Init, JournalComesFirst, JournalGrows, Rows, RowWaits, Alive
  <1>9. Calm
    BY <1>1, <1>2
    DEF Init, Calm, SessionFollows, RunsFollow, PlannedHasNoRun, Alive, Final
  <1>10. QED
    BY <1>6, <1>7, <1>8, <1>9 DEF IInv
------------------------------------------------------------------------------
(* The steps of the tick, one lemma per action.                              *)

\* EndTick and TickRaises: the record is saved as it is and the lock given up.
LEMMA LeaveStep ==
    ASSUME IInv, EndTick \/ TickRaises
    PROVE  IInv'
  <1> USE DispatchNumbers DEF IInv
  <1>1. /\ disk' = mem /\ mem' = mem /\ lock' = Free /\ pc' = "idle"
        /\ pc \in {"routing", "ending", "planned", "opened", "started", "marked",
                   "markedInline", "released"}
        /\ UNCHANGED <<worker, run, retryRow, due, old, crashes, calm>>
    BY DEF EndTick, TickRaises, Save, LeaveTick
  <1>2. TypeOK'
    BY <1>1 DEF TypeOK
  <1>3. Records' /\ Rows'
    BY <1>1 DEF Records, Rows, RowWaits
  <1>4. LockHeld'
    BY <1>1 DEF LockHeld, TypeOK
  <1>5. CopyIsSaved' /\ AtStage' /\ FilesForRunning'
    BY <1>1, <1>4
    DEF CopyIsSaved, AtStage, FilesForRunning, Dispatching, LockHeld
  <1>6. JournalComesFirst' /\ JournalGrows'
    BY <1>1 DEF JournalComesFirst, JournalGrows, Alive
  <1>7. ASSUME calm' PROVE Calm'
    <2>1. Calm
      BY <1>1, <1>7
    <2>2. SessionFollows(mem)' /\ RunsFollow(mem)' /\ PlannedHasNoRun(mem)'
      BY <1>1, <2>1 DEF Calm, SessionFollows, RunsFollow, PlannedHasNoRun
    <2>3. ASSUME NEW d \in Dispatch, Alive(d)' PROVE Attended(d)'
      <3>1. Attended(d)
        BY <1>1, <2>1, <2>3 DEF Calm, Alive
      <3>2. mem = disk /\ ~Inline(d)
        BY <1>1, <3>1 DEF Attended, CopyIsSaved, Inline
      <3>3. lock # d
        BY <1>1 DEF LockHeld
      <3>4. QED
        BY <1>1, <3>1, <3>2, <3>3 DEF Attended
    <2>4. QED
      BY <1>1, <2>2, <2>3
      DEF Calm, SessionFollows, RunsFollow, PlannedHasNoRun
  <1>8. QED
    BY <1>2, <1>3, <1>4, <1>5, <1>6, <1>7

\* A lane the route does not hold has nothing open and may be dispatched.
LEMMA RouteIsFree ==
    ASSUME NEW l, Sound(l), ~RouteHolds(l)
    PROVE  /\ Opens(l) = {} /\ l.status \in {"open", "retry_queued"}
           /\ l.status = "retry_queued" => due
  <1>1. ActiveDispatch(l) = NoDispatch
    BY DEF RouteHolds
  <1>2. Opens(l) = {}
    BY <1>1, ActiveIsOpen DEF Sound
  <1>3. QED
    BY <1>2, LaneFields DEF RouteHolds, Sound

\* While calm, a lane with nothing open has no live actor.
LEMMA NothingOpenNobodyAlive ==
    ASSUME Calm, Opens(disk) = {}, NEW d \in Dispatch
    PROVE  ~Alive(d)
  BY DEF Calm, Attended, Opens, Active

\* RefreshTracker and MoveStep: another step or status is saved.
LEMMA TrackerStep ==
    ASSUME IInv, RefreshTracker \/ MoveStep
    PROVE  IInv'
  <1> USE DispatchNumbers DEF IInv
  <1> DEFINE open == pc = "routing" /\ ~RouteHolds(mem)
  <1>1. /\ mem \in Lane /\ Sound(mem)
        /\ UNCHANGED <<lock, worker, run, retryRow, due, old, crashes, calm>>
        /\ disk' = mem' /\ pc \in {"reconciled", "routing"}
        /\ pc' \in {"routing", "ending"}
    BY DEF RefreshTracker, MoveStep, Save, Records, TypeOK
  <1>2. /\ mem' \in Lane
        /\ mem'.journal = mem.journal /\ mem'.attempt = mem.attempt
        /\ mem'.sess = mem.sess /\ mem'.cur = mem.cur
        /\ \/ pc = "reconciled" /\ mem'.status \in {mem.status, "released"}
           \/ open /\ mem'.status = "open"
    <2>1. CASE RefreshTracker
      BY <1>1, <2>1, BecomeFields DEF RefreshTracker, Save, Lane
    <2>2. CASE MoveStep
      <3> DEFINE k == [mem EXCEPT !.step = "act"]
      <3>1. /\ k \in Lane /\ k.journal = mem.journal /\ k.attempt = mem.attempt
            /\ k.sess = mem.sess /\ k.cur = mem.cur
        BY <1>1 DEF Lane
      <3>2. mem' = Become(k, "open") /\ open
        BY <2>2 DEF MoveStep, Save
      <3> HIDE DEF k
      <3>3. QED
        BY <3>1, <3>2, BecomeFields
    <2>3. QED
      BY <2>1, <2>2
  <1>3. open => mem.status \in {"open", "retry_queued"} /\ Opens(mem) = {}
                /\ mem = disk
    BY <1>1, RouteIsFree DEF CopyIsSaved
  <1>4. Sound(mem')
    BY <1>1, <1>2, <1>3, SoundTouched
  <1>5. TypeOK'
    BY <1>1, <1>2 DEF TypeOK
  <1>6. Records' /\ Rows'
    BY <1>1, <1>2, <1>3, <1>4
    DEF Records, Rows, RowWaits, Opens
  <1>7. LockHeld'
    BY <1>1 DEF LockHeld
  <1>8. CopyIsSaved' /\ AtStage' /\ FilesForRunning'
    BY <1>1, <1>7
    DEF CopyIsSaved, AtStage, FilesForRunning, Dispatching, LockHeld
  <1>9. JournalComesFirst' /\ JournalGrows'
    BY <1>1, <1>2 DEF JournalComesFirst, JournalGrows, Alive
  <1>10. ASSUME calm' PROVE Calm'
    <2>1. Calm
      BY <1>1, <1>10
    <2>2. SessionFollows(mem)' /\ RunsFollow(mem)' /\ PlannedHasNoRun(mem)'
      BY <1>1, <1>2, <2>1 DEF Calm, SessionFollows, RunsFollow, PlannedHasNoRun
    <2>3. ASSUME NEW d \in Dispatch, Alive(d)' PROVE Attended(d)'
      <3>1. Alive(d) /\ Attended(d)
        BY <1>1, <2>1, <2>3 DEF Calm, Alive
      <3>2. ~open
        BY <1>3, <2>1, <3>1, NothingOpenNobodyAlive
      <3>3. mem = disk /\ ~Inline(d) /\ lock # d
        BY <1>1, <1>2, <3>1, <3>2 DEF Attended, Inline, LockHeld
      <3>4. QED
        BY <1>1, <1>2, <3>1, <3>2, <3>3 DEF Attended
    <2>4. QED
      BY <1>1, <2>2, <2>3
      DEF Calm, SessionFollows, RunsFollow, PlannedHasNoRun
  <1>11. QED
    BY <1>5, <1>6, <1>7, <1>8, <1>9, <1>10

\* ReleaseLane: the retry row is deleted while the saved lane may still wait, but
\* only when its retry is due.
LEMMA ReleaseStep ==
    ASSUME IInv, ReleaseLane
    PROVE  IInv'
  <1> USE DispatchNumbers DEF IInv
  <1> DEFINE k == [mem EXCEPT !.pending = FALSE]
  <1>1. /\ mem \in Lane /\ Sound(mem) /\ mem = disk
        /\ pc = "routing" /\ pc' = "released" /\ lock = Ticking
        /\ ~RouteHolds(mem) /\ mem' = Become(k, "released")
        /\ retryRow' = FALSE
        /\ UNCHANGED <<disk, lock, worker, run, due, old, crashes, calm>>
    BY DEF ReleaseLane, Records, TypeOK, CopyIsSaved, LockHeld
  <1>2. /\ k \in Lane /\ k.journal = mem.journal /\ k.attempt = mem.attempt
        /\ k.sess = mem.sess /\ k.cur = mem.cur
    BY <1>1 DEF Lane
  <1> HIDE DEF k
  <1>3. /\ mem' \in Lane /\ mem'.status = "released"
        /\ mem'.journal = mem.journal /\ mem'.attempt = mem.attempt
        /\ mem'.sess = mem.sess
    BY <1>1, <1>2, BecomeFields
  <1>4. Opens(mem) = {}
    BY <1>1, RouteIsFree
  <1>5. Sound(mem')
    BY <1>1, <1>3, SoundTouched
  <1>6. TypeOK'
    BY <1>1, <1>3 DEF TypeOK
  <1>7. Records' /\ Rows'
    BY <1>1, <1>3, <1>5 DEF Records, Rows, RowWaits, RouteHolds
  <1>8. LockHeld'
    BY <1>1 DEF LockHeld
  <1>9. CopyIsSaved' /\ AtStage' /\ FilesForRunning'
    BY <1>1, <1>3, <1>8
    DEF CopyIsSaved, AtStage, FilesForRunning, Dispatching, LockHeld
  <1>10. JournalComesFirst' /\ JournalGrows'
    BY <1>1, <1>3 DEF JournalComesFirst, JournalGrows, Alive
  <1>11. ASSUME calm' PROVE Calm'
    <2>1. Calm
      BY <1>1, <1>11
    <2>2. \A d \in Dispatch : ~Alive(d)
      BY <1>1, <1>4, <2>1, NothingOpenNobodyAlive
    <2>3. SessionFollows(mem)' /\ RunsFollow(mem)' /\ PlannedHasNoRun(mem)'
      BY <1>1, <1>3, <2>1 DEF Calm, SessionFollows, RunsFollow, PlannedHasNoRun
    <2>4. SessionFollows(disk)' /\ RunsFollow(disk)' /\ PlannedHasNoRun(disk)'
      BY <1>1, <2>1 DEF Calm, SessionFollows, RunsFollow, PlannedHasNoRun
    <2>5. QED
      BY <1>1, <2>2, <2>3, <2>4 DEF Calm, Alive
  <1>12. QED
    BY <1>6, <1>7, <1>8, <1>9, <1>10, <1>11

\* SaveRelease: the released lane reaches the disk; while calm nobody works on it.
LEMMA SaveReleaseStep ==
    ASSUME IInv, SaveRelease
    PROVE  IInv'
  <1> USE DispatchNumbers DEF IInv
  <1>1. /\ disk' = mem /\ mem' = mem /\ pc = "released" /\ pc' = "ending"
        /\ UNCHANGED <<lock, worker, run, retryRow, due, old, crashes, calm>>
    BY DEF SaveRelease, Save
  <1>2. TypeOK'
    BY <1>1 DEF TypeOK
  <1>3. Records' /\ Rows'
    BY <1>1 DEF Records, Rows, RowWaits
  <1>4. LockHeld'
    BY <1>1 DEF LockHeld
  <1>5. CopyIsSaved' /\ AtStage' /\ FilesForRunning'
    BY <1>1, <1>4
    DEF CopyIsSaved, AtStage, FilesForRunning, Dispatching, LockHeld
  <1>6. JournalComesFirst' /\ JournalGrows'
    BY <1>1 DEF JournalComesFirst, JournalGrows, Alive
  <1>7. ASSUME calm' PROVE Calm'
    <2>1. Calm
      BY <1>1, <1>7
    <2>2. \A d \in Dispatch : ~Alive(d)
      BY <1>1, <2>1 DEF Calm, Attended
    <2>3. SessionFollows(mem)' /\ RunsFollow(mem)' /\ PlannedHasNoRun(mem)'
      BY <1>1, <2>1 DEF Calm, SessionFollows, RunsFollow, PlannedHasNoRun
    <2>4. QED
      BY <1>1, <2>2, <2>3
      DEF Calm, SessionFollows, RunsFollow, PlannedHasNoRun, Alive
  <1>8. QED
    BY <1>2, <1>3, <1>4, <1>5, <1>6, <1>7

\* Plan: the guard meets no conflict, and a first journal entry is saved.
LEMMA PlanStep ==
    ASSUME IInv, Plan
    PROVE  IInv'
  <1> USE DispatchNumbers DEF IInv
  <1>1. /\ pc = "routing" /\ ~RouteHolds(mem) /\ mem = disk
        /\ mem \in Lane /\ Sound(mem)
        /\ UNCHANGED <<lock, worker, run, retryRow, due, crashes, calm>>
    BY DEF Plan, Records, TypeOK, CopyIsSaved
  <1>2. /\ Opens(mem) = {} /\ mem.status \in {"open", "retry_queued"}
        /\ mem.status = "retry_queued" => due
    BY <1>1, RouteIsFree
  <1>3. ~Conflict(mem)
    BY <1>1, <1>2, ActiveIsOpen DEF Conflict, Sound, SessionHasOpen
  <1>4. PICK d \in Dispatch : NextId(d) /\ Save(Planned(mem, d))
    BY <1>3 DEF Plan
  <1>5. pc' = "planned" /\ old' = FALSE
    BY <1>3 DEF Plan
  <1>6. mem.journal[d] = "none" /\ disk' = mem' /\ mem' = Planned(mem, d)
    BY <1>4 DEF NextId, Save
  <1>7. /\ mem' \in Lane /\ mem'.status = mem.status
        /\ mem'.journal = [mem.journal EXCEPT ![d] = "planned"]
        /\ mem'.cur = d /\ mem'.sess = mem.sess
    BY <1>1, <1>6, AdvanceFields DEF Planned, Active
  <1>8. Sound(mem') /\ Opens(mem') = {d}
    BY <1>1, <1>2, <1>6, SoundPlanned
  <1>9. TypeOK' /\ Records' /\ Rows'
    BY <1>1, <1>5, <1>6, <1>7, <1>8 DEF TypeOK, Records, Rows, RowWaits
  <1>10. LockHeld'
    BY <1>1, <1>5 DEF LockHeld
  <1>11. CopyIsSaved' /\ AtStage' /\ FilesForRunning'
    BY <1>1, <1>2, <1>5, <1>6, <1>7, <1>10, LaneFields
    DEF CopyIsSaved, AtStage, FilesForRunning, Dispatching, LockHeld
  <1>12. JournalComesFirst' /\ JournalGrows'
    BY <1>1, <1>6, <1>7, LaneFields DEF JournalComesFirst, JournalGrows, Alive
  <1>13. ASSUME calm' PROVE Calm'
    <2>1. Calm
      BY <1>1, <1>13
    <2>2. ~(mem.sess.status = "running")
      BY <1>2, <1>1 DEF Sound, SessionHasOpen
    <2>3. \A e \in Dispatch : mem.journal[e] \notin Active /\ run[d] = "none"
      BY <1>1, <1>2, <1>6 DEF Opens, JournalComesFirst
    <2>4. /\ SessionFollows(mem)' /\ RunsFollow(mem)' /\ PlannedHasNoRun(mem)'
      BY <1>1, <1>2, <1>7, <2>1, <2>2, <2>3, LaneFields
      DEF Calm, SessionFollows, RunsFollow, PlannedHasNoRun, Active, Final
    <2>5. \A e \in Dispatch : ~Alive(e)'
      BY <1>1, <1>2, <2>1, NothingOpenNobodyAlive DEF Alive
    <2>6. QED
      BY <1>5, <1>6, <2>4, <2>5
      DEF Calm, SessionFollows, RunsFollow, PlannedHasNoRun
  <1>14. QED
    BY <1>9, <1>10, <1>11, <1>12, <1>13

\* OpenRun: the engine has the run before the record says so.
LEMMA OpenRunStep ==
    ASSUME IInv, OpenRun
    PROVE  IInv'
  <1> USE DispatchNumbers DEF IInv
  <1>1. /\ pc = "planned" /\ pc' = "opened" /\ mem = disk
        /\ mem \in Lane /\ Sound(mem) /\ mem.cur \in Opens(mem)
        /\ mem.cur \in Dispatch /\ mem.journal[mem.cur] = "planned"
        /\ mem.status \in {"open", "retry_queued"}
        /\ run' = [run EXCEPT ![mem.cur] = "running"] /\ old' = FALSE
        /\ UNCHANGED <<disk, lock, worker, retryRow, due, crashes, calm>>
    BY DEF OpenRun, Records, TypeOK, CopyIsSaved, AtStage, Dispatching, Opens,
           Active, StartRun
  <1>2. PICK s \in {mem.sess, NoSession} : mem' = Opened(mem, s)
    BY DEF OpenRun, Opened
  <1>3. /\ Sound(mem') /\ Opens(mem') = Opens(mem)
        /\ mem'.journal = [mem.journal EXCEPT ![mem.cur] = "started"]
        /\ mem'.status = mem.status /\ mem'.cur = mem.cur
        /\ mem'.sess.run = mem.cur /\ mem'.sess.status = "running"
    BY <1>1, <1>2, OpenedSound
  <1>4. TypeOK' /\ Records' /\ Rows'
    BY <1>1, <1>3 DEF TypeOK, Records, Rows, RowWaits, Sound
  <1>5. LockHeld'
    BY <1>1 DEF LockHeld
  <1>6. CopyIsSaved' /\ AtStage' /\ FilesForRunning'
    BY <1>1, <1>3, <1>5, LaneFields
    DEF CopyIsSaved, AtStage, FilesForRunning, Dispatching, LockHeld
  <1>7. JournalComesFirst' /\ JournalGrows'
    BY <1>1, <1>3, LaneFields
    DEF JournalComesFirst, JournalGrows, Alive, TypeOK
  <1>8. ASSUME calm' PROVE Calm'
    <2>1. Calm
      BY <1>1, <1>8
    <2>2. \A e \in Dispatch : e # mem.cur => mem.journal[e] \notin Active
      BY <1>1 DEF Sound, OneOpen, Opens
    <2>3. SessionFollows(mem)' /\ RunsFollow(mem)' /\ PlannedHasNoRun(mem)'
      BY <1>1, <1>3, <2>1, <2>2, LaneFields
      DEF Calm, SessionFollows, RunsFollow, PlannedHasNoRun, Active, Final, TypeOK
    <2>4. SessionFollows(disk)' /\ RunsFollow(disk)'
      BY <1>1, <2>1 DEF Calm, SessionFollows, RunsFollow, Final, TypeOK
    <2>5. \A e \in Dispatch : ~Alive(e)'
      BY <1>1, <2>1 DEF Alive, Calm, Attended
    <2>6. QED
      BY <1>1, <2>3, <2>4, <2>5 DEF Calm
  <1>9. QED
    BY <1>4, <1>5, <1>6, <1>7, <1>8

\* SaveStart and SaveRunning, up to the process of an inline actor.
LEMMA SaveStep ==
    ASSUME IInv, SaveStart \/ SaveRunning
    PROVE  IInv'
  <1> USE DispatchNumbers DEF IInv
  <1>1. /\ disk' = mem /\ mem' = mem /\ mem \in Lane /\ lock = Ticking
        /\ UNCHANGED <<lock, run, retryRow, due, old, crashes, calm>>
        /\ \/ pc = "opened" /\ pc' = "started" /\ UNCHANGED worker
           \/ pc = "marked" /\ pc' = "prepared" /\ UNCHANGED worker
           \/ /\ pc = "markedInline" /\ pc' = "inline"
              /\ worker' = [worker EXCEPT ![mem.cur] = "working"]
    BY DEF SaveStart, SaveRunning, Save, LockHeld, TypeOK
  <1>2. mem.cur \in Dispatch /\ mem.journal[mem.cur] # "none"
    BY <1>1 DEF AtStage, Dispatching
  <1>3. worker' \in [Dispatch -> Phase]
    BY <1>1, <1>2 DEF TypeOK, Phase
  <1>4. TypeOK'
    BY <1>1, <1>3 DEF TypeOK
  <1>5. Records' /\ Rows'
    BY <1>1 DEF Records, Rows, RowWaits
  <1>6. LockHeld'
    BY <1>1, <1>2 DEF LockHeld, TypeOK
  <1>7. CopyIsSaved' /\ AtStage' /\ FilesForRunning'
    BY <1>1, <1>2, <1>6
    DEF CopyIsSaved, AtStage, FilesForRunning, Dispatching, LockHeld, TypeOK
  <1>8. JournalComesFirst' /\ JournalGrows'
    BY <1>1, <1>2 DEF JournalComesFirst, JournalGrows, Alive, TypeOK
  <1>9. ASSUME calm' PROVE Calm'
    <2>1. Calm
      BY <1>1, <1>9
    <2>2. SessionFollows(mem)' /\ RunsFollow(mem)' /\ PlannedHasNoRun(mem)'
      BY <1>1, <2>1 DEF Calm, SessionFollows, RunsFollow, PlannedHasNoRun
    <2>3. \A d \in Dispatch : ~Alive(d)
      BY <1>1, <2>1 DEF Calm, Attended
    <2>4. ASSUME NEW d \in Dispatch, Alive(d)' PROVE Attended(d)'
      <3>1. pc' = "inline" /\ d = mem.cur
        BY <1>1, <1>2, <2>3, <2>4 DEF Alive, TypeOK
      <3>2. QED
        BY <1>1, <3>1 DEF Attended, Inline, AtStage, Dispatching
    <2>5. pc' \in {"marked", "prepared", "spawned"} => ~old'
      BY <1>1, <2>1 DEF Calm
    <2>6. QED
      BY <1>1, <2>2, <2>4, <2>5
      DEF Calm, SessionFollows, RunsFollow, PlannedHasNoRun
  <1>10. QED
    BY <1>4, <1>5, <1>6, <1>7, <1>8, <1>9

\* What MarkRunning makes of the lane of a background dispatch.
LEMMA MarkedFields ==
    ASSUME NEW l \in Lane, l.cur \in Dispatch
    PROVE  LET k == Become([l EXCEPT !.pending = FALSE], "running")
               m == Advance([k EXCEPT !.sess.beat = l.cur], l.cur, "running")
           IN  /\ k \in Lane /\ k.status = "running" /\ k.attempt = l.attempt
               /\ k.journal = l.journal /\ k.cur = l.cur /\ k.sess = l.sess
               /\ m \in Lane /\ m.status = "running" /\ m.attempt = l.attempt
               /\ m.journal = [l.journal EXCEPT ![l.cur] = "running"]
               /\ m.cur = l.cur /\ m.sess.status = l.sess.status
               /\ m.sess.run = l.sess.run /\ m.sess.beat = l.cur
  <1> DEFINE p == [l EXCEPT !.pending = FALSE]
             k == Become(p, "running")
             b == [k EXCEPT !.sess.beat = l.cur]
             m == Advance(b, l.cur, "running")
  <1>1. /\ p \in Lane /\ p.attempt = l.attempt /\ p.journal = l.journal
        /\ p.cur = l.cur /\ p.sess = l.sess
    BY DEF Lane
  <1> HIDE DEF p
  <1>2. /\ k \in Lane /\ k.status = "running" /\ k.attempt = l.attempt
        /\ k.journal = l.journal /\ k.cur = l.cur /\ k.sess = l.sess
    BY <1>1, BecomeFields
  <1> HIDE DEF k
  <1>3. /\ b \in Lane /\ b.status = "running" /\ b.attempt = l.attempt
        /\ b.journal = l.journal /\ b.sess.status = l.sess.status
        /\ b.sess.run = l.sess.run /\ b.sess.beat = l.cur
    BY <1>2 DEF Lane, Session
  <1> HIDE DEF b
  <1>4. "running" \in {"none"} \cup Active \cup Final
    BY DEF Active
  <1>5. /\ m \in Lane /\ m.status = "running" /\ m.attempt = l.attempt
        /\ m.journal = [l.journal EXCEPT ![l.cur] = "running"]
        /\ m.cur = l.cur /\ m.sess = b.sess
    BY <1>3, <1>4, AdvanceFields
  <1>6. QED
    BY <1>2, <1>3, <1>5 DEF m, b, k, p

\* MarkRunning: the retry is consumed and the lane runs, not saved yet.
LEMMA MarkStep ==
    ASSUME IInv, MarkRunning
    PROVE  IInv'
  <1> USE DispatchNumbers DEF IInv
  <1>1. /\ pc = "started" /\ mem = disk /\ mem \in Lane /\ Sound(mem)
        /\ mem.cur \in Dispatch /\ mem.cur \in Opens(mem)
        /\ mem.journal[mem.cur] \in {"started", "running"}
        /\ mem.sess.run = mem.cur /\ mem.sess.status = "running"
        /\ mem.status \in {"open", "retry_queued"}
        /\ retryRow' \in BOOLEAN /\ old' = FALSE
        /\ UNCHANGED <<disk, lock, worker, run, due, crashes, calm>>
    BY DEF MarkRunning, Records, TypeOK, CopyIsSaved, AtStage, Dispatching,
           Opens, Active
  <1>2. /\ mem' \in Lane /\ mem'.status = "running" /\ mem'.attempt = mem.attempt
        /\ mem'.cur = mem.cur /\ mem'.sess.status = mem.sess.status
        /\ mem'.sess.run = mem.sess.run
        /\ \/ pc' = "markedInline" /\ mem'.journal = mem.journal
           \/ /\ pc' = "marked" /\ mem'.sess.beat = mem.cur
              /\ mem'.journal = [mem.journal EXCEPT ![mem.cur] = "running"]
    <2> DEFINE k == Become([mem EXCEPT !.pending = FALSE], "running")
               m == Advance([k EXCEPT !.sess.beat = mem.cur], mem.cur, "running")
    <2>1. mem \in Lane /\ mem.cur \in Dispatch
      BY <1>1
    <2>2. /\ k \in Lane /\ k.status = "running" /\ k.attempt = mem.attempt
          /\ k.journal = mem.journal /\ k.cur = mem.cur /\ k.sess = mem.sess
          /\ m \in Lane /\ m.status = "running" /\ m.attempt = mem.attempt
          /\ m.journal = [mem.journal EXCEPT ![mem.cur] = "running"]
          /\ m.cur = mem.cur /\ m.sess.status = mem.sess.status
          /\ m.sess.run = mem.sess.run /\ m.sess.beat = mem.cur
      BY <2>1, MarkedFields
    <2>3. \/ mem' = k /\ pc' = "markedInline"
          \/ mem' = m /\ pc' = "marked"
      BY DEF MarkRunning
    <2> HIDE DEF k, m
    <2>4. QED
      BY <2>2, <2>3
  <1>3. Opens(mem') = Opens(mem) /\ Redos(mem') = Redos(mem)
    BY <1>1, <1>2, LaneFields DEF Opens, Redos, Active
  <1>4. Sound(mem')
    BY <1>1, <1>2, <1>3, LaneFields
    DEF Sound, OneOpen, RunIsJournaled, SessionHasOpen, RedosCounted
  <1>5. TypeOK'
    BY <1>1, <1>2 DEF TypeOK
  <1>6. Records' /\ Rows'
    <2>1. disk.status = "retry_queued" => due
      BY DEF MarkRunning, CopyIsSaved, AtStage
    <2>2. QED
      BY <1>1, <1>2, <1>4, <2>1 DEF Records, Rows, RowWaits
  <1>7. LockHeld'
    BY <1>1, <1>2 DEF LockHeld
  <1>8. CopyIsSaved' /\ AtStage' /\ FilesForRunning'
    BY <1>1, <1>2, <1>7, LaneFields
    DEF CopyIsSaved, AtStage, FilesForRunning, Dispatching, LockHeld
  <1>9. JournalComesFirst' /\ JournalGrows'
    BY <1>1, <1>2, LaneFields DEF JournalComesFirst, JournalGrows, Alive
  <1>10. ASSUME calm' PROVE Calm'
    <2>1. Calm
      BY <1>1, <1>10
    <2>2. /\ mem'.journal[mem.cur] \in {"started", "running"}
          /\ \A d \in Dispatch : d # mem.cur => mem'.journal[d] = mem.journal[d]
      BY <1>1, <1>2, LaneFields
    <2>3. SessionFollows(mem)'
      BY <1>1, <1>2, <2>1, <2>2 DEF Calm, SessionFollows
    <2>4. RunsFollow(mem)' /\ PlannedHasNoRun(mem)'
      BY <1>1, <2>1, <2>2 DEF Calm, RunsFollow, PlannedHasNoRun, Final
    <2>5. \A d \in Dispatch : ~Alive(d)'
      BY <1>1, <2>1 DEF Calm, Attended, Alive
    <2>6. QED
      BY <1>1, <2>1, <2>3, <2>4, <2>5
      DEF Calm, SessionFollows, RunsFollow, PlannedHasNoRun
  <1>11. QED
    BY <1>5, <1>6, <1>7, <1>8, <1>9, <1>10

\* Spawn: the worker process of a record that is saved, but for its pid.
LEMMA SpawnStep ==
    ASSUME IInv, Spawn
    PROVE  IInv'
  <1> USE DispatchNumbers DEF IInv
  <1>1. /\ pc = "prepared" /\ pc' = "spawned" /\ mem = disk /\ lock = Ticking
        /\ mem.cur \in Dispatch /\ mem.status = "running"
        /\ mem.journal[mem.cur] \in {"started", "running"}
        /\ mem.sess.run = mem.cur /\ mem.sess.status = "running"
        /\ mem.sess.beat = mem.cur
        /\ worker' = [worker EXCEPT ![mem.cur] = "spawned"]
        /\ UNCHANGED <<disk, mem, lock, run, retryRow, due, old, crashes, calm>>
    BY DEF Spawn, TypeOK, CopyIsSaved, AtStage, Dispatching, LockHeld
  <1>2. TypeOK'
    <2>1. worker' \in [Dispatch -> Phase]
      BY <1>1 DEF TypeOK, Phase
    <2>2. QED
      BY <1>1, <2>1 DEF TypeOK
  <1>3. Records' /\ Rows'
    BY <1>1 DEF Records, Rows, RowWaits
  <1>4. LockHeld'
    BY <1>1 DEF LockHeld, TypeOK
  <1>5. CopyIsSaved' /\ AtStage' /\ FilesForRunning'
    BY <1>1, <1>4
    DEF CopyIsSaved, AtStage, FilesForRunning, Dispatching, LockHeld
  <1>6. JournalComesFirst' /\ JournalGrows'
    BY <1>1 DEF JournalComesFirst, JournalGrows, Alive, TypeOK
  <1>7. ASSUME calm' PROVE Calm'
    <2>1. Calm /\ ~old
      BY <1>1, <1>7 DEF Calm
    <2>2. ASSUME NEW d \in Dispatch, Alive(d)' PROVE Attended(d)'
      <3>1. ~Alive(d)
        BY <1>1, <2>1 DEF Calm, Attended
      <3>2. d = mem.cur
        BY <1>1, <2>2, <3>1 DEF Alive, TypeOK
      <3>3. QED
        BY <1>1, <2>1, <3>2 DEF Attended
    <2>3. QED
      BY <1>1, <2>1, <2>2
      DEF Calm, SessionFollows, RunsFollow, PlannedHasNoRun
  <1>8. QED
    BY <1>2, <1>3, <1>4, <1>5, <1>6, <1>7

\* RecordPid: the pid of the worker is saved.
LEMMA RecordPidStep ==
    ASSUME IInv, RecordPid
    PROVE  IInv'
  <1> USE DispatchNumbers DEF IInv
  <1>1. /\ pc = "spawned" /\ pc' = "ending" /\ mem = disk /\ lock = Ticking
        /\ mem \in Lane /\ Sound(mem) /\ mem.cur \in Dispatch
        /\ mem' = [mem EXCEPT !.sess.pid = mem.cur] /\ disk' = mem'
        /\ mem.status = "running" /\ mem.sess.run = mem.cur /\ old' = FALSE
        /\ UNCHANGED <<lock, worker, run, retryRow, due, crashes, calm>>
    BY DEF RecordPid, Save, Records, TypeOK, CopyIsSaved, AtStage, Dispatching,
           LockHeld
  <1>2. /\ mem' \in Lane /\ mem'.status = mem.status
        /\ mem'.attempt = mem.attempt /\ mem'.journal = mem.journal
        /\ mem'.sess.status = mem.sess.status /\ mem'.sess.run = mem.sess.run
        /\ mem'.sess.beat = mem.sess.beat /\ mem'.sess.pid = mem.cur
    BY <1>1 DEF Lane, Session
  <1>3. Sound(mem')
    BY <1>1, <1>2, SoundTouched
  <1>4. TypeOK' /\ Records' /\ Rows'
    BY <1>1, <1>2, <1>3 DEF TypeOK, Records, Rows, RowWaits, Opens
  <1>5. LockHeld'
    BY <1>1 DEF LockHeld
  <1>6. CopyIsSaved' /\ AtStage' /\ FilesForRunning'
    BY <1>1, <1>5
    DEF CopyIsSaved, AtStage, FilesForRunning, Dispatching, LockHeld
  <1>7. JournalComesFirst' /\ JournalGrows'
    BY <1>1, <1>2 DEF JournalComesFirst, JournalGrows, Alive
  <1>8. ASSUME calm' PROVE Calm'
    <2>1. Calm
      BY <1>1, <1>8
    <2>2. SessionFollows(mem)' /\ RunsFollow(mem)' /\ PlannedHasNoRun(mem)'
      BY <1>1, <1>2, <2>1
      DEF Calm, SessionFollows, RunsFollow, PlannedHasNoRun
    <2>3. ASSUME NEW d \in Dispatch, Alive(d)' PROVE Attended(d)'
      <3>1. Attended(d) /\ ~Inline(d)
        BY <1>1, <2>1, <2>3 DEF Calm, Alive, Inline
      <3>2. d = mem.cur
        BY <1>1, <3>1 DEF Attended
      <3>3. QED
        BY <1>1, <1>2, <3>1, <3>2 DEF Attended
    <2>4. QED
      BY <1>1, <2>2, <2>3
      DEF Calm, SessionFollows, RunsFollow, PlannedHasNoRun
  <1>9. QED
    BY <1>4, <1>5, <1>6, <1>7, <1>8

\* The lane as a failed dispatch leaves it.
LEMMA CloseFailed ==
    ASSUME NEW l \in Lane, l.cur \in Dispatch
    PROVE  LET k == Close(l, l.cur, "failed")
           IN  /\ k \in Lane /\ k.attempt = l.attempt
               /\ k.journal = [l.journal EXCEPT ![l.cur] = "failed"]
               /\ k.cur = l.cur /\ k.sess.status = "failed"
               /\ k.sess.run = l.sess.run
  <1>1. "failed" \in Final
    BY DEF Final
  <1>2. QED
    BY <1>1, CloseFields

\* SpawnFails: the run, the session and the entry are failed, and it is saved.
LEMMA SpawnFailsStep ==
    ASSUME IInv, SpawnFails
    PROVE  IInv'
  <1> USE DispatchNumbers DEF IInv
  <1> DEFINE k == Close(mem, mem.cur, "failed")
  <1>1. /\ pc = "prepared" /\ pc' = "idle" /\ mem = disk /\ lock' = Free
        /\ lock = Ticking /\ mem \in Lane /\ Sound(mem) /\ mem.cur \in Dispatch
        /\ mem' = Become(k, "operator_attention") /\ disk' = mem'
        /\ mem.journal[mem.cur] \in {"started", "running"}
        /\ mem.sess.run = mem.cur /\ old' = FALSE
        /\ UNCHANGED <<worker, retryRow, due, crashes, calm>>
    BY DEF SpawnFails, Save, LeaveTick, Records, TypeOK, CopyIsSaved, AtStage,
           Dispatching, LockHeld
  <1>2. run' = [run EXCEPT ![mem.cur] = "failed"]
    BY <1>1 DEF SpawnFails, FinishRun
  <1>3. "failed" \in Final /\ "failed" \in {"completed", "failed"}
    BY DEF Final
  <1>4. /\ k \in Lane /\ Sound(k) /\ k.attempt = mem.attempt
        /\ k.journal = [mem.journal EXCEPT ![mem.cur] = "failed"]
        /\ k.sess.status = "failed" /\ k.sess.run = mem.cur
        /\ k.cur = mem.cur
    <2>1. Sound(k)
      BY <1>1, <1>3, SoundClosed
    <2>2. mem \in Lane /\ mem.cur \in Dispatch /\ mem.sess.run = mem.cur
      BY <1>1
    <2>3. /\ k \in Lane /\ k.attempt = mem.attempt
          /\ k.journal = [mem.journal EXCEPT ![mem.cur] = "failed"]
          /\ k.cur = mem.cur /\ k.sess.status = "failed"
          /\ k.sess.run = mem.sess.run
      BY <2>2, CloseFailed
    <2>4. QED
      BY <2>1, <2>2, <2>3
  <1> HIDE DEF k
  <1>5. /\ mem' \in Lane /\ mem'.status = "operator_attention"
        /\ mem'.attempt = k.attempt /\ mem'.journal = k.journal
        /\ mem'.sess = k.sess
    BY <1>1, <1>4, BecomeFields
  <1>6. Sound(mem')
    BY <1>4, <1>5, SoundTouched
  <1>7. TypeOK'
    <2>1. run' \in [Dispatch -> {"none", "running"} \cup Final]
      BY <1>2, <1>3 DEF TypeOK
    <2>2. QED
      BY <1>1, <1>5, <2>1 DEF TypeOK
  <1>8. Records' /\ Rows'
    BY <1>1, <1>5, <1>6 DEF Records, Rows, RowWaits
  <1>9. LockHeld'
    BY <1>1 DEF LockHeld, TypeOK
  <1>10. CopyIsSaved' /\ AtStage' /\ FilesForRunning'
    BY <1>1, <1>9
    DEF CopyIsSaved, AtStage, FilesForRunning, Dispatching, LockHeld
  <1>11. JournalComesFirst' /\ JournalGrows'
    <2>1. \A d \in Dispatch :
            d # mem.cur => mem'.journal[d] = mem.journal[d] /\ run'[d] = run[d]
      BY <1>1, <1>2, <1>4, <1>5, LaneFields DEF TypeOK
    <2>2. mem'.journal[mem.cur] = "failed"
      BY <1>1, <1>4, <1>5, LaneFields
    <2>3. QED
      BY <1>1, <2>1, <2>2 DEF JournalComesFirst, JournalGrows, Alive
  <1>12. ASSUME calm' PROVE Calm'
    <2>1. Calm
      BY <1>1, <1>12
    <2>2. \A e \in Dispatch : e # mem.cur => mem.journal[e] \notin Active
      BY <1>1 DEF Sound, OneOpen, Opens, Active
    <2>3. /\ mem'.journal[mem.cur] = "failed" /\ run'[mem.cur] = "failed"
          /\ \A d \in Dispatch : d # mem.cur =>
               mem'.journal[d] = mem.journal[d] /\ run'[d] = run[d]
      BY <1>1, <1>2, <1>4, <1>5, LaneFields DEF TypeOK
    <2>4. SessionFollows(mem)'
      BY <1>4, <1>5, <2>2, <2>3 DEF SessionFollows, Active
    <2>5. RunsFollow(mem)' /\ PlannedHasNoRun(mem)'
      BY <2>1, <2>3 DEF Calm, RunsFollow, PlannedHasNoRun
    <2>6. \A d \in Dispatch : ~Alive(d)'
      BY <1>1, <2>1 DEF Calm, Attended, Alive
    <2>7. QED
      BY <1>1, <2>4, <2>5, <2>6
      DEF Calm, SessionFollows, RunsFollow, PlannedHasNoRun
  <1>13. QED
    BY <1>7, <1>8, <1>9, <1>10, <1>11, <1>12

\* Reconcile: the lane is given up, or loaded as it is.
LEMMA ReconcileStep ==
    ASSUME IInv, Reconcile
    PROVE  IInv'
  <1> USE DispatchNumbers DEF IInv
  <1>1. /\ pc = "idle" /\ lock = Free /\ mem = disk /\ disk.status # "released"
        /\ lock' = Ticking /\ pc' = "reconciled"
        /\ disk \in Lane /\ Sound(disk)
        /\ UNCHANGED <<disk, worker, crashes, calm>>
    BY DEF Reconcile, Records, TypeOK, CopyIsSaved
  <1>2. CASE Overdue(disk) /\ Interrupt(disk)
    <2> DEFINE has == disk.status = "running" \/ disk.sess.status = "running"
    <2>1. /\ mem' = Interrupted(disk)
          /\ run' = IF has THEN FinishRun(disk, "interrupted") ELSE run
          /\ old' = FALSE
          /\ IF disk.attempt < MaxAttempts THEN retryRow' = TRUE /\ due' = FALSE
             ELSE UNCHANGED <<retryRow, due>>
      BY <1>2 DEF Interrupt, Interrupted
    <2>2. /\ Sound(mem') /\ Opens(mem') = {} /\ mem'.journal = GivenUp(disk)
          /\ mem'.sess.run = disk.sess.run /\ mem'.sess.status # "running"
          /\ mem'.status = IF disk.attempt >= MaxAttempts
                           THEN "operator_attention" ELSE "retry_queued"
      BY <1>1, <2>1, InterruptedSound
    <2>3. mem' \in Lane /\ retryRow' \in BOOLEAN /\ due' \in BOOLEAN
      BY <2>1, <2>2 DEF Sound, TypeOK
    <2>4. disk.sess.run # NoDispatch =>
            disk.sess.run \in Dispatch /\ disk.journal[disk.sess.run] # "none"
      BY <1>1, LaneFields DEF Sound, RunIsJournaled
    <2>5. \A d \in Dispatch :
            run'[d] = IF has /\ d = disk.sess.run THEN "interrupted" ELSE run[d]
      BY <2>1, <2>4 DEF FinishRun, TypeOK
    <2>6. run' \in [Dispatch -> {"none", "running"} \cup Final]
      BY <2>1, <2>4 DEF FinishRun, TypeOK, Final
    <2>7. TypeOK'
      BY <1>1, <2>1, <2>3, <2>6 DEF TypeOK
    <2>8. Records' /\ Rows'
      BY <1>1, <2>1, <2>2, LaneFields, BoundAssumption
      DEF Records, Rows, RowWaits
    <2>9. LockHeld'
      BY <1>1 DEF LockHeld, TypeOK
    <2>10. CopyIsSaved' /\ AtStage' /\ FilesForRunning'
      BY <1>1, <2>9
      DEF CopyIsSaved, AtStage, FilesForRunning, Dispatching, LockHeld
    <2>11. JournalComesFirst' /\ JournalGrows'
      BY <1>1, <2>2, <2>4, <2>5
      DEF JournalComesFirst, JournalGrows, Alive, GivenUp
    <2>12. ASSUME calm' PROVE Calm'
      <3>1. Calm
        BY <1>1, <2>12
      <3>2. \A d \in Dispatch : ~Alive(d)
        <4> SUFFICES ASSUME NEW d \in Dispatch, Alive(d) PROVE FALSE
          OBVIOUS
        <4>1. Attended(d) /\ ~Inline(d) /\ lock # d
          BY <1>1, <3>1 DEF Calm, Inline
        <4>2. disk.sess.pid = d /\ disk.status = "running" /\ ~old
          BY <1>1, <4>1 DEF Attended
        <4>3. ~MayLookMissing(disk)
          BY <4>2 DEF MayLookMissing, Alive
        <4>4. QED
          BY <1>2, <4>2, <4>3 DEF Overdue
      <3>3. SessionFollows(mem)' /\ PlannedHasNoRun(mem)'
        BY <2>2 DEF SessionFollows, PlannedHasNoRun, Opens, Active
      <3>4. RunsFollow(mem)'
        <4> SUFFICES ASSUME NEW d \in Dispatch, mem'.journal[d] \in Final
                     PROVE  \/ run'[d] = mem'.journal[d]
                            \/ run'[d] = "none" /\ mem'.journal[d] = "interrupted"
          BY DEF RunsFollow
        <4>1. CASE disk.journal[d] \in {"started", "running"}
          <5>1. has /\ d = disk.sess.run
            BY <3>1, <4>1 DEF Calm, SessionFollows
          <5>2. QED
            BY <2>2, <2>5, <4>1, <5>1 DEF GivenUp, Active
        <4>2. CASE disk.journal[d] = "planned"
          <5>1. run[d] = "none" /\ mem'.journal[d] = "interrupted"
            BY <1>1, <2>2, <3>1, <4>2
            DEF Calm, PlannedHasNoRun, GivenUp, Active
          <5>2. QED
            BY <2>5, <5>1
        <4>3. CASE disk.journal[d] \notin Active
          <5>1. mem'.journal[d] = disk.journal[d]
            BY <2>2, <4>3 DEF GivenUp
          <5>2. ~(has /\ d = disk.sess.run)
            BY <3>1, <4>3 DEF Calm, SessionFollows, Active
          <5>3. QED
            BY <2>5, <3>1, <5>1, <5>2 DEF Calm, RunsFollow
        <4>4. QED
          BY <4>1, <4>2, <4>3 DEF Active
      <3>5. SessionFollows(disk)' /\ RunsFollow(disk)' /\ PlannedHasNoRun(disk)'
        <4>1. has => disk.journal[disk.sess.run] \in {"started", "running"}
          BY <3>1 DEF Calm, SessionFollows
        <4>2. QED
          BY <1>1, <2>5, <3>1, <4>1
          DEF Calm, SessionFollows, RunsFollow, PlannedHasNoRun, Final
      <3>6. QED
        BY <1>1, <3>2, <3>3, <3>4, <3>5 DEF Calm, Alive
    <2>13. QED
      BY <2>7, <2>8, <2>9, <2>10, <2>11, <2>12
  <1>3. CASE mem' = disk /\ UNCHANGED <<run, retryRow, due, old>>
    <2>1. TypeOK' /\ Records' /\ Rows'
      BY <1>1, <1>3 DEF TypeOK, Records, Rows, RowWaits
    <2>2. LockHeld'
      BY <1>1 DEF LockHeld, TypeOK
    <2>3. CopyIsSaved' /\ AtStage' /\ FilesForRunning'
      BY <1>1, <1>3, <2>2
      DEF CopyIsSaved, AtStage, FilesForRunning, Dispatching, LockHeld
    <2>4. JournalComesFirst' /\ JournalGrows'
      BY <1>1, <1>3 DEF JournalComesFirst, JournalGrows, Alive
    <2>5. ASSUME calm' PROVE Calm'
      <3>1. Calm
        BY <1>1, <2>5
      <3>2. ASSUME NEW d \in Dispatch, Alive(d)' PROVE Attended(d)'
        BY <1>1, <1>3, <3>1, <3>2 DEF Calm, Alive, Attended, Inline
      <3>3. QED
        BY <1>1, <1>3, <3>1, <3>2
        DEF Calm, SessionFollows, RunsFollow, PlannedHasNoRun
    <2>6. QED
      BY <2>1, <2>2, <2>3, <2>4, <2>5
  <1>4. QED
    BY <1>2, <1>3 DEF Reconcile
------------------------------------------------------------------------------
(* Results and turns.                                                        *)

\* InlineProgress: an inline actor that runs is saved as running.
LEMMA InlineProgressStep ==
    ASSUME IInv, InlineProgress
    PROVE  IInv'
  <1> USE DispatchNumbers DEF IInv
  <1>1. /\ pc = "inline" /\ mem = disk /\ lock = Ticking
        /\ mem \in Lane /\ Sound(mem) /\ mem.cur \in Dispatch
        /\ mem.cur \in Opens(mem) /\ mem.status = "running"
        /\ mem.sess.run = mem.cur /\ mem.sess.status = "running"
        /\ worker[mem.cur] = "working"
        /\ mem' = Advance(mem, mem.cur, "running") /\ disk' = mem'
        /\ old' = FALSE
        /\ UNCHANGED <<lock, pc, worker, run, retryRow, due, crashes, calm>>
    BY DEF InlineProgress, Save, Records, TypeOK, CopyIsSaved, AtStage,
           Dispatching, LockHeld, Opens, Active
  <1>2. /\ mem' \in Lane /\ mem'.status = mem.status
        /\ mem'.journal = [mem.journal EXCEPT ![mem.cur] = "running"]
        /\ mem'.cur = mem.cur /\ mem'.sess = mem.sess
    <2>1. "running" \in {"none"} \cup Active \cup Final
      BY DEF Active
    <2>2. /\ mem \in Lane /\ mem.cur \in Dispatch
          /\ mem' = Advance(mem, mem.cur, "running")
      BY <1>1
    <2>3. QED
      BY <2>1, <2>2, AdvanceFields
  <1>3. Sound(mem') /\ Opens(mem') = Opens(mem)
    BY <1>1, SoundAdvanced DEF Active
  <1>4. TypeOK' /\ Records' /\ Rows'
    BY <1>1, <1>2, <1>3 DEF TypeOK, Records, Rows, RowWaits
  <1>5. LockHeld'
    BY <1>1 DEF LockHeld
  <1>6. CopyIsSaved' /\ AtStage' /\ FilesForRunning'
    BY <1>1, <1>2, <1>5, LaneFields
    DEF CopyIsSaved, AtStage, FilesForRunning, Dispatching, LockHeld
  <1>7. /\ mem'.journal[mem.cur] = "running"
        /\ \A d \in Dispatch : d # mem.cur => mem'.journal[d] = mem.journal[d]
    BY <1>1, <1>2, LaneFields
  <1>8. JournalComesFirst' /\ JournalGrows'
    BY <1>1, <1>7 DEF JournalComesFirst, JournalGrows, Alive
  <1>9. ASSUME calm' PROVE Calm'
    <2>1. Calm
      BY <1>1, <1>9
    <2>2. SessionFollows(mem)'
      BY <1>1, <1>2, <1>7, <2>1 DEF Calm, SessionFollows
    <2>3. RunsFollow(mem)' /\ PlannedHasNoRun(mem)'
      BY <1>1, <1>7, <2>1 DEF Calm, RunsFollow, PlannedHasNoRun, Final
    <2>4. ASSUME NEW d \in Dispatch, Alive(d)' PROVE Attended(d)'
      <3>1. d = mem.cur
        BY <1>1, <2>1, <2>4 DEF Calm, Alive, Attended
      <3>2. QED
        BY <1>1, <1>2, <1>7, <3>1 DEF Attended, Inline
    <2>5. QED
      BY <1>1, <2>2, <2>3, <2>4
      DEF Calm, SessionFollows, RunsFollow, PlannedHasNoRun
  <1>10. QED
    BY <1>4, <1>5, <1>6, <1>8, <1>9

\* The lane while an inline actor runs: saved, running, and the actor's.
LEMMA InlineTurn ==
    ASSUME IInv, pc = "inline"
    PROVE  /\ mem = disk /\ lock = Ticking
           /\ mem \in Lane /\ Sound(mem) /\ mem.cur \in Dispatch
           /\ mem.journal[mem.cur] \in {"started", "running"}
           /\ mem.status = "running"
           /\ mem.sess.run = mem.cur /\ mem.sess.status = "running"
           /\ worker[mem.cur] = "working"
  BY DEF IInv, Records, TypeOK, CopyIsSaved, AtStage, Dispatching, LockHeld

\* InlineNotes: the outcome is noted, and saved if the step moved.
LEMMA InlineNotesStep ==
    ASSUME IInv, InlineNotes
    PROVE  IInv'
  <1> USE DispatchNumbers DEF IInv
  <1>1. /\ pc = "inline" /\ pc' = "inlineFiling"
        /\ UNCHANGED <<lock, worker, run, due, old, crashes, calm>>
    BY DEF InlineNotes
  <1>2. PICK o \in Outcome : /\ mem' = Note(mem, o)
                             /\ SaveIfMoved(Note(mem, o), o)
                             /\ ClearRetryFor(o)
    BY DEF InlineNotes
  <1>3. /\ mem' \in Lane /\ mem'.status \in {"open", "operator_attention"}
        /\ mem'.attempt = mem.attempt /\ mem'.journal = mem.journal
        /\ mem'.cur = mem.cur /\ mem'.sess = mem.sess
    BY <1>1, <1>2, InlineTurn, NoteFields
  <1>4. disk' = disk \/ (disk' = mem' /\ mem'.status = "open")
    <2>1. mem \in Lane
      BY <1>1, InlineTurn
    <2>2. o = "done" => mem'.status = "open"
      BY <1>2, <2>1, NoteFields
    <2>3. disk' = IF o = "done" THEN mem' ELSE disk
      BY <1>2 DEF SaveIfMoved
    <2>4. QED
      BY <2>2, <2>3
  <1>5. Sound(mem')
    BY <1>1, <1>3, InlineTurn, SoundTouched
  <1>6. retryRow' \in BOOLEAN
    BY <1>2 DEF ClearRetryFor
  <1>7. TypeOK'
    BY <1>1, <1>3, <1>4, <1>6 DEF TypeOK
  <1>8. Records' /\ Rows'
    BY <1>1, <1>3, <1>4, <1>5, InlineTurn DEF Records, Rows, RowWaits
  <1>9. LockHeld'
    BY <1>1 DEF LockHeld
  <1>10. CopyIsSaved' /\ AtStage' /\ FilesForRunning'
    BY <1>1, <1>3, <1>4, <1>9, InlineTurn
    DEF CopyIsSaved, AtStage, FilesForRunning, Dispatching, LockHeld
  <1>11. JournalComesFirst' /\ JournalGrows'
    BY <1>1, <1>3, <1>4, InlineTurn
    DEF JournalComesFirst, JournalGrows, Alive
  <1>12. ASSUME calm' PROVE Calm'
    <2>1. Calm
      BY <1>1, <1>12
    <2>2. SessionFollows(mem)' /\ RunsFollow(mem)' /\ PlannedHasNoRun(mem)'
      BY <1>1, <1>3, <2>1
      DEF Calm, SessionFollows, RunsFollow, PlannedHasNoRun
    <2>3. disk'.journal = disk.journal /\ disk'.sess = disk.sess
      BY <1>1, <1>3, <1>4, InlineTurn
    <2>4. SessionFollows(disk)' /\ RunsFollow(disk)' /\ PlannedHasNoRun(disk)'
      BY <1>1, <1>4, <2>1, <2>2, <2>3
      DEF Calm, SessionFollows, RunsFollow, PlannedHasNoRun
    <2>5. ASSUME NEW d \in Dispatch, Alive(d)' PROVE Attended(d)'
      <3>1. d = mem.cur
        BY <1>1, <2>1, <2>5, InlineTurn DEF Calm, Alive, Attended
      <3>2. QED
        BY <1>1, <1>3, <2>3, <3>1, InlineTurn DEF Attended, Inline
    <2>6. QED
      BY <1>1, <2>2, <2>4, <2>5 DEF Calm
  <1>13. QED
    BY <1>7, <1>8, <1>9, <1>10, <1>11, <1>12

\* InlineLabelFails: the open lane is saved, with its session and its entry.
LEMMA InlineLabelFailsStep ==
    ASSUME IInv, InlineLabelFails
    PROVE  IInv'
  <1> USE DispatchNumbers DEF IInv
  <1>1. /\ pc = "inline" /\ pc' = "idle" /\ lock' = Free
        /\ mem' = Note(mem, "waiting") /\ disk' = mem' /\ retryRow' = FALSE
        /\ worker' = [worker EXCEPT ![mem.cur] = "gone"]
        /\ UNCHANGED <<run, due, old, crashes, calm>>
    BY DEF InlineLabelFails, Save, LeaveTick
  <1>2. /\ mem' \in Lane /\ mem'.status \in {"open", "operator_attention"}
        /\ mem'.attempt = mem.attempt /\ mem'.journal = mem.journal
        /\ mem'.sess = mem.sess
    BY <1>1, InlineTurn, NoteFields DEF Outcome
  <1>3. Sound(mem')
    BY <1>1, <1>2, InlineTurn, SoundTouched
  <1>4. TypeOK'
    <2>1. worker' \in [Dispatch -> Phase]
      BY <1>1, InlineTurn DEF TypeOK, Phase
    <2>2. QED
      BY <1>1, <1>2, <2>1 DEF TypeOK
  <1>5. Records' /\ Rows'
    BY <1>1, <1>2, <1>3 DEF Records, Rows, RowWaits
  <1>6. LockHeld'
    BY <1>1, InlineTurn DEF LockHeld, TypeOK
  <1>7. CopyIsSaved' /\ AtStage' /\ FilesForRunning'
    BY <1>1, <1>6
    DEF CopyIsSaved, AtStage, FilesForRunning, Dispatching, LockHeld
  <1>8. JournalComesFirst' /\ JournalGrows'
    BY <1>1, <1>2, InlineTurn
    DEF JournalComesFirst, JournalGrows, Alive, TypeOK
  <1>9. ASSUME calm' PROVE Calm'
    <2>1. Calm
      BY <1>1, <1>9
    <2>2. SessionFollows(mem)' /\ RunsFollow(mem)' /\ PlannedHasNoRun(mem)'
      BY <1>1, <1>2, <2>1
      DEF Calm, SessionFollows, RunsFollow, PlannedHasNoRun
    <2>3. ASSUME NEW d \in Dispatch, Alive(d)' PROVE FALSE
      <3>1. d # mem.cur /\ Alive(d)
        BY <1>1, <2>3, InlineTurn DEF Alive, TypeOK
      <3>2. QED
        BY <1>1, <2>1, <3>1, InlineTurn DEF Calm, Attended
    <2>4. QED
      BY <1>1, <2>2, <2>3
      DEF Calm, SessionFollows, RunsFollow, PlannedHasNoRun
  <1>10. QED
    BY <1>4, <1>5, <1>6, <1>7, <1>8, <1>9

\* FinishRun ends the run of the latest session, if the lane has one.
LEMMA FinishRunRows ==
    ASSUME TypeOK, NEW l \in Lane, NEW f \in Final
    PROVE  /\ FinishRun(l, f) \in [Dispatch -> {"none", "running"} \cup Final]
           /\ \A d \in Dispatch :
                FinishRun(l, f)[d] = IF d = l.sess.run THEN f ELSE run[d]
  BY DispatchNumbers, LaneFields DEF FinishRun, TypeOK

\* While calm, the run a result ends is that of the entry it closes.
LEMMA CloseFollows ==
    ASSUME TypeOK, Sound(mem), SessionFollows(mem), RunsFollow(mem),
           PlannedHasNoRun(mem), NEW d \in Dispatch,
           mem.journal[d] \in {"started", "running"},
           NEW f \in {"completed", "failed"},
           mem.status # "running",
           mem' = Close(mem, d, f), run' = FinishRun(mem, f)
    PROVE  SessionFollows(mem)' /\ RunsFollow(mem)' /\ PlannedHasNoRun(mem)'
  <1>1. mem \in Lane /\ f \in Final
    BY DEF Sound, Final
  <1>2. /\ mem'.status = mem.status
        /\ mem'.journal = [mem.journal EXCEPT ![d] = f]
        /\ mem'.sess.status = f
    BY <1>1, CloseFields
  <1>3. \A e \in Dispatch : mem'.journal[e] = IF e = d THEN f ELSE mem.journal[e]
    BY <1>1, <1>2, LaneFields
  <1>4. mem.sess.run = d
    BY DEF SessionFollows
  <1>5. \A e \in Dispatch : run'[e] = IF e = d THEN f ELSE run[e]
    BY <1>1, <1>4, FinishRunRows
  <1>6. \A e \in Dispatch : e # d => mem.journal[e] \notin Active
    BY DEF Sound, OneOpen, Opens, Active
  <1>7. SessionFollows(mem)'
    BY <1>2, <1>3, <1>6 DEF SessionFollows, Active
  <1>8. RunsFollow(mem)' /\ PlannedHasNoRun(mem)'
    BY <1>3, <1>5 DEF RunsFollow, PlannedHasNoRun
  <1>9. QED
    BY <1>7, <1>8

\* The record saved before a result keeps following while the run is ended.
LEMMA SavedFollows ==
    ASSUME TypeOK, mem \in Lane, SessionFollows(disk), RunsFollow(disk),
           PlannedHasNoRun(disk),
           mem.journal = disk.journal, mem.sess = disk.sess,
           NEW d \in Dispatch, mem.journal[d] \in {"started", "running"},
           NEW f \in {"completed", "failed"},
           disk' = disk, run' = FinishRun(mem, f)
    PROVE  SessionFollows(disk)' /\ RunsFollow(disk)' /\ PlannedHasNoRun(disk)'
  <1>1. mem.sess.run = d /\ f \in Final
    BY DEF SessionFollows, Final
  <1>2. \A e \in Dispatch : run'[e] = IF e = d THEN f ELSE run[e]
    BY <1>1, FinishRunRows
  <1>3. RunsFollow(disk)' /\ PlannedHasNoRun(disk)'
    BY <1>2 DEF RunsFollow, PlannedHasNoRun, Final
  <1>4. QED
    BY <1>3 DEF SessionFollows

\* InlineCloses: the engine rows and the record are closed, not saved yet.
LEMMA InlineClosesStep ==
    ASSUME IInv, InlineCloses
    PROVE  IInv'
  <1> USE DispatchNumbers DEF IInv
  <1> DEFINE f == FinalOf(mem)
  <1>1. /\ pc = "inlineFiling" /\ pc' = "ending" /\ lock = Ticking
        /\ mem \in Lane /\ Sound(mem) /\ mem.cur \in Dispatch
        /\ mem.journal[mem.cur] \in {"started", "running"}
        /\ mem.sess.run = mem.cur
        /\ mem.status \in {"open", "operator_attention"}
        /\ mem.journal = disk.journal /\ mem.sess = disk.sess
        /\ run' = FinishRun(mem, f) /\ mem' = Close(mem, mem.cur, f)
        /\ worker' = [worker EXCEPT ![mem.cur] = "gone"] /\ old' = FALSE
        /\ UNCHANGED <<disk, lock, retryRow, due, crashes, calm>>
    BY DEF InlineCloses, Records, TypeOK, CopyIsSaved, AtStage, Dispatching,
           LockHeld
  <1>2. f \in {"completed", "failed"} /\ f \in Final
    BY FinalOfType DEF Final
  <1> HIDE DEF f
  <1>3. mem' \in Lane /\ mem'.status = mem.status
        /\ mem'.journal = [mem.journal EXCEPT ![mem.cur] = f]
    BY <1>1, <1>2, CloseFields
  <1>4. Sound(mem')
    BY <1>1, <1>2, SoundClosed
  <1>5. /\ run' \in [Dispatch -> {"none", "running"} \cup Final]
        /\ \A d \in Dispatch : run'[d] = IF d = mem.cur THEN f ELSE run[d]
    BY <1>1, <1>2, FinishRunRows
  <1>6. TypeOK'
    <2>1. worker' \in [Dispatch -> Phase]
      BY <1>1 DEF TypeOK, Phase
    <2>2. QED
      BY <1>1, <1>3, <1>5, <2>1 DEF TypeOK
  <1>7. Records' /\ Rows'
    BY <1>1, <1>3, <1>4 DEF Records, Rows, RowWaits
  <1>8. LockHeld'
    BY <1>1 DEF LockHeld, TypeOK
  <1>9. CopyIsSaved' /\ AtStage' /\ FilesForRunning'
    BY <1>1, <1>8
    DEF CopyIsSaved, AtStage, FilesForRunning, Dispatching, LockHeld
  <1>10. JournalComesFirst' /\ JournalGrows'
    BY <1>1, <1>2, <1>3, <1>5, LaneFields
    DEF JournalComesFirst, JournalGrows, Alive, TypeOK, Final
  <1>11. ASSUME calm' PROVE Calm'
    <2>1. Calm
      BY <1>1, <1>11
    <2>2. PlannedHasNoRun(disk)
      BY <1>1, <2>1 DEF Calm
    <2>3. SessionFollows(mem)' /\ RunsFollow(mem)' /\ PlannedHasNoRun(mem)'
      BY <1>1, <1>2, <2>1, CloseFollows DEF Calm
    <2>4. SessionFollows(disk)' /\ RunsFollow(disk)' /\ PlannedHasNoRun(disk)'
      BY <1>1, <1>2, <2>1, <2>2, SavedFollows DEF Calm
    <2>5. ASSUME NEW d \in Dispatch, Alive(d)' PROVE FALSE
      <3>1. d # mem.cur /\ Alive(d)
        BY <1>1, <2>5 DEF Alive, TypeOK
      <3>2. QED
        BY <1>1, <2>1, <3>1 DEF Calm, Attended
    <2>6. QED
      BY <1>1, <2>3, <2>4, <2>5 DEF Calm
  <1>12. QED
    BY <1>6, <1>7, <1>8, <1>9, <1>10, <1>11

\* A worker's turn moves on or its process ends, before it takes the lock.
LEMMA TurnStep ==
    ASSUME IInv, NEW d \in Dispatch,
           \/ WorkerStarts(d) \/ WorkerFinishes(d) \/ LockTimesOut(d)
           \/ WorkerLabelFails(d)
    PROVE  IInv'
  <1> USE DispatchNumbers DEF IInv
  <1>1. /\ worker[d] \in {"spawned", "working", "finished"} /\ ~Inline(d)
        /\ UNCHANGED <<disk, mem, lock, pc, run, due, old, crashes, calm>>
    BY DEF WorkerStarts, WorkerFinishes, LockTimesOut, WorkerLabelFails, Inline,
           AtStage
  <1>2. PICK w \in {"working", "finished", "gone"} :
          worker' = [worker EXCEPT ![d] = w]
    BY DEF WorkerStarts, WorkerFinishes, LockTimesOut, WorkerLabelFails
  <1>3. UNCHANGED retryRow \/ (retryRow' = FALSE /\ disk.status = "running"
                               /\ mem = disk)
    BY DEF WorkerStarts, WorkerFinishes, LockTimesOut, WorkerLabelFails, Accepts,
           CopyIsSaved
  <1>4. TypeOK'
    <2>1. worker' \in [Dispatch -> Phase]
      BY <1>2 DEF TypeOK, Phase
    <2>2. retryRow' \in BOOLEAN
      BY <1>3 DEF TypeOK
    <2>3. QED
      BY <1>1, <2>1, <2>2 DEF TypeOK
  <1>5. Records' /\ Rows'
    BY <1>1, <1>3 DEF Records, Rows, RowWaits
  <1>6. LockHeld'
    BY <1>1, <1>2 DEF LockHeld, TypeOK
  <1>7. CopyIsSaved' /\ AtStage' /\ FilesForRunning'
    BY <1>1, <1>2, <1>6
    DEF CopyIsSaved, AtStage, FilesForRunning, Dispatching, Inline, TypeOK
  <1>8. JournalComesFirst' /\ JournalGrows'
    BY <1>1, <1>2 DEF JournalComesFirst, JournalGrows, Alive, TypeOK
  <1>9. ASSUME calm' PROVE Calm'
    <2>1. Calm
      BY <1>1, <1>9
    <2>2. ASSUME NEW e \in Dispatch, Alive(e)' PROVE Attended(e)'
      <3>1. Alive(e)
        BY <1>1, <1>2, <2>2 DEF Alive, TypeOK
      <3>2. QED
        BY <1>1, <2>1, <3>1 DEF Calm, Attended, Inline
    <2>3. QED
      BY <1>1, <2>1, <2>2
      DEF Calm, SessionFollows, RunsFollow, PlannedHasNoRun
  <1>10. QED
    BY <1>4, <1>5, <1>6, <1>7, <1>8, <1>9

\* WorkerNotes: the lane takes the outcome, or the worker is turned away.
LEMMA WorkerNotesStep ==
    ASSUME IInv, NEW d \in Dispatch, WorkerNotes(d)
    PROVE  IInv'
  <1> USE DispatchNumbers DEF IInv
  <1>1. /\ worker[d] = "finished" /\ lock = Free /\ mem = disk
        /\ pc = "idle" /\ disk \in Lane /\ Sound(disk)
        /\ UNCHANGED <<pc, run, due, old, crashes, calm>>
    <2>1. worker[d] = "finished" /\ lock = Free
          /\ UNCHANGED <<pc, run, due, old, crashes, calm>>
      BY DEF WorkerNotes
    <2>2. pc = "idle" /\ mem = disk
      BY <2>1 DEF LockHeld, CopyIsSaved
    <2>3. QED
      BY <2>1, <2>2 DEF Records, TypeOK
  <1>2. PICK o \in Outcome :
          \/ /\ lock' = d /\ worker' = [worker EXCEPT ![d] = "filing"]
             /\ disk.status = "running" /\ mem' = Note(disk, o)
             /\ disk' = (IF o = "done" THEN Note(disk, o) ELSE disk)
             /\ retryRow' = (retryRow /\ o = "failed")
          \/ /\ worker' = [worker EXCEPT ![d] = "gone"]
             /\ UNCHANGED <<disk, mem, lock, retryRow>>
    BY DEF WorkerNotes, SaveIfMoved, ClearRetryFor, Accepts, Outcome
  <1>3. CASE lock' = d
    <2>1. /\ worker' = [worker EXCEPT ![d] = "filing"]
          /\ disk.status = "running" /\ mem' = Note(disk, o)
          /\ disk' = (IF o = "done" THEN mem' ELSE disk)
          /\ retryRow' \in BOOLEAN
      BY <1>1, <1>2, <1>3
    <2>2. /\ mem' \in Lane /\ mem'.status \in {"open", "operator_attention"}
          /\ o = "done" => mem'.status = "open"
          /\ mem'.attempt = disk.attempt /\ mem'.journal = disk.journal
          /\ mem'.sess = disk.sess
      BY <1>1, <2>1, NoteFields
    <2>3. disk' = disk \/ (disk' = mem' /\ mem'.status = "open")
      BY <2>1, <2>2
    <2>4. Sound(mem')
      BY <1>1, <2>1, <2>2, SoundTouched
    <2>5. TypeOK'
      <3>1. worker' \in [Dispatch -> Phase]
        BY <2>1 DEF TypeOK, Phase
      <3>2. QED
        BY <1>1, <1>3, <2>1, <2>2, <2>3, <3>1 DEF TypeOK
    <2>6. Records' /\ Rows'
      BY <2>1, <2>2, <2>3, <2>4 DEF Records, Rows, RowWaits
    <2>7. LockHeld'
      BY <1>1, <1>3, <2>1 DEF LockHeld, TypeOK
    <2>8. CopyIsSaved' /\ AtStage' /\ FilesForRunning'
      BY <1>1, <1>3, <2>1, <2>2, <2>3, <2>7
      DEF CopyIsSaved, AtStage, FilesForRunning, Dispatching, LockHeld
    <2>9. JournalComesFirst' /\ JournalGrows'
      BY <1>1, <2>1, <2>2, <2>3
      DEF JournalComesFirst, JournalGrows, Alive, TypeOK
    <2>10. ASSUME calm' PROVE Calm'
      <3>1. Calm
        BY <1>1, <2>10
      <3>2. SessionFollows(mem)' /\ RunsFollow(mem)' /\ PlannedHasNoRun(mem)'
        BY <1>1, <2>2, <3>1
        DEF Calm, SessionFollows, RunsFollow, PlannedHasNoRun
      <3>3. SessionFollows(disk)' /\ RunsFollow(disk)' /\ PlannedHasNoRun(disk)'
        BY <1>1, <2>3, <3>1, <3>2
        DEF Calm, SessionFollows, RunsFollow, PlannedHasNoRun
      <3>4. disk'.journal = disk.journal /\ disk'.sess = disk.sess
        BY <2>2, <2>3
      <3>5. ASSUME NEW e \in Dispatch, Alive(e)' PROVE Attended(e)'
        <4>1. Attended(e) /\ Attended(d) /\ ~Inline(e)
          BY <1>1, <2>1, <3>1, <3>5 DEF Calm, Alive, Inline, TypeOK
        <4>2. e = d
          BY <4>1 DEF Attended
        <4>3. disk'.status = "running" => ~old
          BY <2>3, <4>1, <2>1 DEF Attended
        <4>4. QED
          BY <1>1, <1>3, <3>4, <4>1, <4>2, <4>3 DEF Attended
      <3>6. QED
        BY <1>1, <3>2, <3>3, <3>5 DEF Calm
    <2>11. QED
      BY <2>5, <2>6, <2>7, <2>8, <2>9, <2>10
  <1>4. CASE lock' # d
    <2>1. /\ worker' = [worker EXCEPT ![d] = "gone"]
          /\ UNCHANGED <<disk, mem, lock, retryRow>>
      BY <1>2, <1>4
    <2>2. TypeOK'
      <3>1. worker' \in [Dispatch -> Phase]
        BY <2>1 DEF TypeOK, Phase
      <3>2. QED
        BY <1>1, <2>1, <3>1 DEF TypeOK
    <2>3. Records' /\ Rows'
      BY <1>1, <2>1 DEF Records, Rows, RowWaits
    <2>4. LockHeld'
      BY <1>1, <2>1 DEF LockHeld, TypeOK
    <2>5. CopyIsSaved' /\ AtStage' /\ FilesForRunning'
      BY <1>1, <2>1, <2>4
      DEF CopyIsSaved, AtStage, FilesForRunning, Dispatching, LockHeld
    <2>6. JournalComesFirst' /\ JournalGrows'
      BY <1>1, <2>1 DEF JournalComesFirst, JournalGrows, Alive, TypeOK
    <2>7. ASSUME calm' PROVE Calm'
      <3>1. Calm
        BY <1>1, <2>7
      <3>2. ASSUME NEW e \in Dispatch, Alive(e)' PROVE Attended(e)'
        <4>1. Alive(e)
          BY <1>1, <2>1, <3>2 DEF Alive, TypeOK
        <4>2. QED
          BY <1>1, <2>1, <3>1, <4>1 DEF Calm, Attended, Inline
      <3>3. QED
        BY <1>1, <2>1, <3>1, <3>2
        DEF Calm, SessionFollows, RunsFollow, PlannedHasNoRun
    <2>8. QED
      BY <2>2, <2>3, <2>4, <2>5, <2>6, <2>7
  <1>5. QED
    BY <1>3, <1>4

\* WorkerCloses: the engine rows and the worker's copy are closed.
LEMMA WorkerClosesStep ==
    ASSUME IInv, NEW d \in Dispatch, WorkerCloses(d)
    PROVE  IInv'
  <1> USE DispatchNumbers DEF IInv
  <1> DEFINE f == FinalOf(mem)
  <1>1. /\ worker[d] = "filing" /\ lock = d /\ pc = "idle"
        /\ mem \in Lane /\ Sound(mem)
        /\ mem.status \in {"open", "operator_attention"}
        /\ mem.journal = disk.journal /\ mem.sess = disk.sess
        /\ run' = FinishRun(mem, f) /\ mem' = Close(mem, d, f)
        /\ worker' = [worker EXCEPT ![d] = "closing"] /\ old' = FALSE
        /\ UNCHANGED <<disk, lock, pc, retryRow, due, crashes, calm>>
    <2>1. worker[d] = "filing" /\ lock = d
      BY DEF WorkerCloses, LockHeld
    <2>2. pc = "idle"
      BY <2>1 DEF LockHeld
    <2>3. QED
      BY <2>1, <2>2
      DEF WorkerCloses, Records, TypeOK, CopyIsSaved, FilesForRunning
  <1>2. f \in {"completed", "failed"} /\ f \in Final
    BY FinalOfType DEF Final
  <1> HIDE DEF f
  <1>3. mem' \in Lane /\ mem'.status = mem.status
        /\ mem'.journal = [mem.journal EXCEPT ![d] = f]
    BY <1>1, <1>2, CloseFields
  <1>4. Sound(mem')
    BY <1>1, <1>2, SoundClosed
  <1>5. /\ run' \in [Dispatch -> {"none", "running"} \cup Final]
        /\ \A e \in Dispatch : run'[e] = IF e = mem.sess.run THEN f ELSE run[e]
    BY <1>1, <1>2, FinishRunRows
  <1>6. TypeOK'
    <2>1. worker' \in [Dispatch -> Phase]
      BY <1>1 DEF TypeOK, Phase
    <2>2. QED
      BY <1>1, <1>3, <1>5, <2>1 DEF TypeOK
  <1>7. Records' /\ Rows'
    BY <1>1, <1>3, <1>4 DEF Records, Rows, RowWaits
  <1>8. LockHeld'
    BY <1>1 DEF LockHeld, TypeOK
  <1>9. CopyIsSaved' /\ AtStage' /\ FilesForRunning'
    BY <1>1, <1>3, <1>8
    DEF CopyIsSaved, AtStage, FilesForRunning, Dispatching, LockHeld, TypeOK
  <1>10. JournalComesFirst' /\ JournalGrows'
    <2>1. \A e \in Dispatch : e = mem.sess.run => disk.journal[e] # "none"
      BY <1>1 DEF Sound, RunIsJournaled
    <2>2. JournalComesFirst'
      BY <1>1, <1>5, <2>1 DEF JournalComesFirst, Alive, TypeOK
    <2>3. JournalGrows'
      BY <1>1, <1>2, <1>3, LaneFields DEF JournalGrows, Final
    <2>4. QED
      BY <2>2, <2>3
  <1>11. ASSUME calm' PROVE Calm'
    <2>1. Calm
      BY <1>1, <1>11
    <2>2. Attended(d) /\ PlannedHasNoRun(disk)
      BY <1>1, <2>1 DEF Calm, Alive
    <2>3. mem.journal[d] \in {"started", "running"}
      BY <1>1, <2>2 DEF Attended
    <2>4. mem.status # "running"
      BY <1>1
    <2>5. SessionFollows(mem)' /\ RunsFollow(mem)' /\ PlannedHasNoRun(mem)'
      BY <1>1, <1>2, <2>1, <2>3, <2>4, CloseFollows DEF Calm
    <2>6. SessionFollows(disk)' /\ RunsFollow(disk)' /\ PlannedHasNoRun(disk)'
      BY <1>1, <1>2, <2>1, <2>2, <2>3, SavedFollows DEF Calm
    <2>7. ASSUME NEW e \in Dispatch, Alive(e)' PROVE Attended(e)'
      <3>1. Alive(e)
        BY <1>1, <2>7 DEF Alive, TypeOK
      <3>2. QED
        BY <1>1, <2>1, <3>1 DEF Calm, Attended, Inline
    <2>8. QED
      BY <1>1, <2>5, <2>6, <2>7 DEF Calm
  <1>12. QED
    BY <1>6, <1>7, <1>8, <1>9, <1>10, <1>11

\* WorkerSaves: the worker's copy is saved, and its process is gone.
LEMMA WorkerSavesStep ==
    ASSUME IInv, NEW d \in Dispatch, WorkerSaves(d)
    PROVE  IInv'
  <1> USE DispatchNumbers DEF IInv
  <1>1. /\ worker[d] = "closing" /\ lock = d /\ lock' = Free
        /\ disk' = mem /\ mem' = mem
        /\ worker' = [worker EXCEPT ![d] = "gone"]
        /\ UNCHANGED <<pc, run, retryRow, due, old, crashes, calm>>
    BY DEF WorkerSaves, Save, LockHeld
  <1>2. pc = "idle"
    BY <1>1 DEF LockHeld
  <1>3. TypeOK'
    <2>1. worker' \in [Dispatch -> Phase]
      BY <1>1 DEF TypeOK, Phase
    <2>2. QED
      BY <1>1, <2>1 DEF TypeOK
  <1>4. Records' /\ Rows'
    BY <1>1 DEF Records, Rows, RowWaits
  <1>5. LockHeld'
    BY <1>1, <1>2 DEF LockHeld, TypeOK
  <1>6. CopyIsSaved' /\ AtStage' /\ FilesForRunning'
    BY <1>1, <1>2, <1>5
    DEF CopyIsSaved, AtStage, FilesForRunning, Dispatching, LockHeld
  <1>7. JournalComesFirst' /\ JournalGrows'
    BY <1>1 DEF JournalComesFirst, JournalGrows, Alive, TypeOK
  <1>8. ASSUME calm' PROVE Calm'
    <2>1. Calm
      BY <1>1, <1>8
    <2>2. SessionFollows(mem)' /\ RunsFollow(mem)' /\ PlannedHasNoRun(mem)'
      BY <1>1, <2>1 DEF Calm, SessionFollows, RunsFollow, PlannedHasNoRun
    <2>3. ASSUME NEW e \in Dispatch, Alive(e)' PROVE FALSE
      <3>1. e # d /\ Alive(e) /\ Alive(d)
        BY <1>1, <2>3 DEF Alive, TypeOK
      <3>2. QED
        BY <2>1, <3>1 DEF Calm, Attended
    <2>4. QED
      BY <1>1, <1>2, <2>2, <2>3
      DEF Calm, SessionFollows, RunsFollow, PlannedHasNoRun
  <1>9. QED
    BY <1>3, <1>4, <1>5, <1>6, <1>7, <1>8
------------------------------------------------------------------------------
(* Faults and time.                                                          *)

\* WorkerDies: what the process held is lost, and with it its copy.
LEMMA WorkerDiesStep ==
    ASSUME IInv, NEW d \in Dispatch, WorkerDies(d)
    PROVE  IInv'
  <1> USE DispatchNumbers DEF IInv
  <1>1. /\ Alive(d) /\ ~Inline(d)
        /\ worker' = [worker EXCEPT ![d] = "gone"]
        /\ \/ lock = d /\ lock' = Free /\ mem' = disk
           \/ lock # d /\ UNCHANGED <<lock, mem>>
        /\ UNCHANGED <<disk, pc, run, retryRow, due, old, crashes, calm>>
    BY DEF WorkerDies
  <1>2. lock = d => pc = "idle"
    BY DEF LockHeld
  <1>3. TypeOK'
    <2>1. worker' \in [Dispatch -> Phase]
      BY <1>1 DEF TypeOK, Phase
    <2>2. QED
      BY <1>1, <2>1 DEF TypeOK
  <1>4. Records' /\ Rows'
    BY <1>1 DEF Records, Rows, RowWaits
  <1>5. LockHeld'
    BY <1>1, <1>2 DEF LockHeld, TypeOK
  <1>6. CopyIsSaved' /\ AtStage' /\ FilesForRunning'
    BY <1>1, <1>2, <1>5
    DEF CopyIsSaved, AtStage, FilesForRunning, Dispatching, LockHeld, Inline, TypeOK
  <1>7. JournalComesFirst' /\ JournalGrows'
    BY <1>1 DEF JournalComesFirst, JournalGrows, Alive, TypeOK
  <1>8. ASSUME calm' PROVE Calm'
    <2>1. Calm
      BY <1>1, <1>8
    <2>2. SessionFollows(mem)' /\ RunsFollow(mem)' /\ PlannedHasNoRun(mem)'
      BY <1>1, <1>2, <2>1 DEF Calm, SessionFollows, RunsFollow, PlannedHasNoRun
    <2>3. ASSUME NEW e \in Dispatch, Alive(e)' PROVE Attended(e)'
      <3>1. e # d /\ Alive(e)
        BY <1>1, <2>3 DEF Alive, TypeOK
      <3>2. QED
        BY <1>1, <2>1, <3>1 DEF Calm, Attended
    <2>4. QED
      BY <1>1, <2>1, <2>2, <2>3
      DEF Calm, SessionFollows, RunsFollow, PlannedHasNoRun
  <1>9. QED
    BY <1>3, <1>4, <1>5, <1>6, <1>7, <1>8

\* TickCrashes: what the tick had not saved is lost, an inline actor with it.
LEMMA TickCrashesStep ==
    ASSUME IInv, TickCrashes
    PROVE  IInv'
  <1> USE DispatchNumbers DEF IInv
  <1>1. /\ lock = Ticking /\ lock' = Free /\ pc' = "idle" /\ mem' = disk
        /\ crashes < MaxCrashes /\ crashes' = crashes + 1 /\ calm' = FALSE
        /\ worker' = [d \in Dispatch |-> IF Inline(d) THEN "gone" ELSE worker[d]]
        /\ UNCHANGED <<disk, run, retryRow, due, old>>
    BY DEF TickCrashes, LeaveTick, LockHeld
  <1>2. TypeOK'
    <2>1. worker' \in [Dispatch -> Phase]
      BY <1>1 DEF TypeOK, Phase
    <2>2. crashes' \in 0..MaxCrashes
      BY <1>1, BoundAssumption DEF TypeOK
    <2>3. QED
      BY <1>1, <2>1, <2>2 DEF TypeOK
  <1>3. Records' /\ Rows'
    BY <1>1 DEF Records, Rows, RowWaits
  <1>4. LockHeld'
    BY <1>1 DEF LockHeld, TypeOK
  <1>5. CopyIsSaved' /\ AtStage' /\ FilesForRunning'
    BY <1>1, <1>4
    DEF CopyIsSaved, AtStage, FilesForRunning, Dispatching, LockHeld
  <1>6. JournalComesFirst' /\ JournalGrows'
    BY <1>1 DEF JournalComesFirst, JournalGrows, Alive
  <1>7. QED
    BY <1>1, <1>2, <1>3, <1>4, <1>5, <1>6

\* MarksGrowOld and RetryFallsDue: only a lane nobody beats for grows old calmly.
LEMMA TimeStep ==
    ASSUME IInv, MarksGrowOld \/ RetryFallsDue
    PROVE  IInv'
  <1> USE DispatchNumbers DEF IInv
  <1>1. UNCHANGED <<disk, mem, lock, pc, worker, run, retryRow, crashes>>
    BY DEF MarksGrowOld, RetryFallsDue
  <1>2. due' \in BOOLEAN /\ old' \in BOOLEAN /\ (due => due')
    BY DEF MarksGrowOld, RetryFallsDue, TypeOK
  <1>3. calm' \in BOOLEAN /\ (calm' => calm)
    BY DEF MarksGrowOld, RetryFallsDue, TypeOK
  <1>4. TypeOK'
    BY <1>1, <1>2, <1>3 DEF TypeOK
  <1>5. Records' /\ Rows' /\ LockHeld' /\ CopyIsSaved' /\ AtStage'
        /\ FilesForRunning'
    BY <1>1, <1>2
    DEF Records, Rows, RowWaits, LockHeld, CopyIsSaved, AtStage, FilesForRunning
  <1>6. JournalComesFirst' /\ JournalGrows'
    BY <1>1 DEF JournalComesFirst, JournalGrows, Alive
  <1>7. ASSUME calm' PROVE Calm'
    <2>1. Calm
      BY <1>3, <1>7
    <2>2. UNCHANGED old \/ (pc \in {"idle", "inline"}
                            /\ ~(disk.status = "running" /\ Beating(disk)))
      BY <1>7 DEF MarksGrowOld, RetryFallsDue
    <2>3. ASSUME NEW d \in Dispatch, Alive(d)' PROVE Attended(d)'
      <3>1. Alive(d) /\ Attended(d)
        BY <1>1, <2>1, <2>3 DEF Calm, Alive
      <3>2. ~Inline(d) => disk.sess.beat = d /\ Beating(disk)
        BY <3>1 DEF Attended, Beating
      <3>3. QED
        BY <1>1, <2>2, <3>1, <3>2 DEF Attended, Inline
    <2>4. QED
      BY <1>1, <2>1, <2>2, <2>3
      DEF Calm, SessionFollows, RunsFollow, PlannedHasNoRun
  <1>8. QED
    BY <1>4, <1>5, <1>6, <1>7
------------------------------------------------------------------------------
(* The theorems.                                                             *)

\* Every step of the specification keeps the invariant.
LEMMA IInvStep == IInv /\ [Next]_vars => IInv'
  <1> SUFFICES ASSUME IInv, [Next]_vars PROVE IInv'
    OBVIOUS
  <1>1. ASSUME TickStep PROVE IInv'
    BY <1>1, ReconcileStep, TrackerStep, LeaveStep, ReleaseStep, SaveReleaseStep,
       PlanStep, OpenRunStep, SaveStep, MarkStep, SpawnStep, RecordPidStep,
       InlineNotesStep, InlineClosesStep
    DEF TickStep
  <1>2. ASSUME \/ InlineProgress \/ TickRaises \/ SpawnFails
               \/ InlineLabelFails \/ TickCrashes
        PROVE  IInv'
    BY <1>2, InlineProgressStep, LeaveStep, SpawnFailsStep,
       InlineLabelFailsStep, TickCrashesStep
  <1>3. ASSUME NEW d \in Dispatch,
               WorkerStep(d) \/ WorkerLabelFails(d) \/ WorkerDies(d)
        PROVE  IInv'
    BY <1>3, TurnStep, WorkerNotesStep, WorkerClosesStep, WorkerSavesStep,
       WorkerDiesStep
    DEF WorkerStep
  <1>4. ASSUME MarksGrowOld \/ RetryFallsDue PROVE IInv'
    BY <1>4, TimeStep
  <1>5. ASSUME UNCHANGED vars PROVE IInv'
    <2> USE <1>5 DEF vars, IInv
    <2>1. /\ TypeOK' /\ Records' /\ Rows' /\ LockHeld' /\ CopyIsSaved' /\ AtStage'
          /\ FilesForRunning' /\ JournalComesFirst' /\ JournalGrows'
      BY DEF TypeOK, Records, Rows, RowWaits, LockHeld, CopyIsSaved, AtStage,
             FilesForRunning, JournalComesFirst, JournalGrows, Alive
    <2>2. calm' => Calm'
      BY DEF Calm, SessionFollows, RunsFollow, PlannedHasNoRun, Alive, Attended,
             Inline
    <2>3. QED
      BY <2>1, <2>2
  <1>6. QED
    BY <1>1, <1>2, <1>3, <1>4, <1>5 DEF Next

\* Every reachable state of a lane, its tick, its workers and the engine's rows is
\* one that the inductive invariant allows.
THEOREM InductiveInvariant == Spec => []IInv
  <1>1. Init => IInv
    BY InitIInv
  <1>2. IInv /\ [Next]_vars => IInv'
    BY IInvStep
  <1>3. QED
    BY <1>1, <1>2, PTL DEF Spec

\* Every variable keeps its type.
THEOREM TypeCorrect == Spec => []TypeOK
  <1>1. IInv => TypeOK
    BY DEF IInv
  <1>2. QED
    BY <1>1, InductiveInvariant, PTL

\* Until a tick is killed or a beat is late, no two actors work on the lane.
THEOREM CalmLaneSafe == Spec => []CalmLaneHasOneActor
  <1>1. IInv => CalmLaneHasOneActor
    BY DEF IInv, Calm, CalmLaneHasOneActor, OneActorPerLane, Acting, Alive,
           Attended
  <1>2. QED
    BY <1>1, InductiveInvariant, PTL

\* Until then the saved record names every live actor and holds its entry open.
THEOREM LiveActorKnown == Spec => []LiveActorIsKnown
  <1>1. IInv => LiveActorIsKnown
    BY DEF IInv, Calm, LiveActorIsKnown, Attended, Active
  <1>2. QED
    BY <1>1, InductiveInvariant, PTL

\* Until then the engine's rows say of a closed entry what the journal says.
THEOREM RunsAgree == Spec => []RunsAgreeWithJournal
  <1>1. IInv => RunsAgreeWithJournal
    BY DEF IInv, Calm, RunsAgreeWithJournal, RunsFollow
  <1>2. QED
    BY <1>1, InductiveInvariant, PTL

\* Whatever crashes: the entry is saved before its actor runs, the retry row is
\* there before the lane waits for it and for as long as it has to wait.
THEOREM RecordsFirst == Spec => []RecordsComeFirst
  <1>1. IInv => JournaledBeforeRun
    BY DEF IInv, JournalComesFirst, JournaledBeforeRun
  <1>2. IInv => RetryIsWoken
    BY DEF IInv, Rows, RowWaits, RetryIsWoken
  <1>3. QED
    BY <1>1, <1>2, InductiveInvariant, PTL DEF RecordsComeFirst

\* Whatever crashes: the guard meets no conflict the route did not see.
THEOREM GuardAgrees == Spec => []GuardAgreesWithRoute
  <1>1. IInv => GuardAgreesWithRoute
    <2> SUFFICES ASSUME IInv, ~RouteHolds(mem) PROVE ~Conflict(mem)
      BY DEF GuardAgreesWithRoute
    <2>1. Sound(mem)
      BY DEF IInv, Records
    <2>2. Opens(mem) = {} /\ mem.status \in {"open", "retry_queued"}
      BY <2>1, RouteIsFree
    <2>3. QED
      BY <2>1, <2>2, ActiveIsOpen DEF Conflict, Sound, SessionHasOpen
  <1>2. QED
    BY <1>1, InductiveInvariant, PTL

\* Whatever crashes: a lane is interrupted at most as often as it may be tried.
THEOREM RedoBounded == Spec => []RedoIsBounded
  <1>1. IInv => RedoIsBounded
    <2> SUFFICES ASSUME IInv PROVE Cardinality(Redos(disk)) <= MaxAttempts
      BY DEF RedoIsBounded, Redos
    <2>1. Sound(disk) /\ disk.attempt \in 1..MaxAttempts
      BY LaneFields DEF IInv, Records, Sound
    <2>2. Redos(disk) \subseteq Redos(disk) \cup Opens(disk)
      OBVIOUS
    <2>3. Redos(disk) \cup Opens(disk) \subseteq Dispatch
      BY DEF Redos, Opens
    <2>4. /\ Cardinality(Redos(disk)) \in Nat
          /\ Cardinality(Redos(disk) \cup Opens(disk)) \in Nat
          /\ Cardinality(Redos(disk)) <= Cardinality(Redos(disk) \cup Opens(disk))
      BY <2>2, <2>3, CountMonotone
    <2>5. QED
      BY <2>1, <2>4, BoundAssumption DEF Sound, RedosCounted
  <1>2. QED
    BY <1>1, InductiveInvariant, PTL
==============================================================================
