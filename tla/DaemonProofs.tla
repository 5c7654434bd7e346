---------------------------- MODULE DaemonProofs ----------------------------
(***************************************************************************)
(* The daemon and the engine tables, for any lanes, any daemon processes   *)
(* and any number of faults: one daemon at a time, tables that follow the  *)
(* state file, tick runs with their two events, no retry slept over.       *)
(*                                                                         *)
(* A holder of the state lock has a list of commits to do.  The invariant  *)
(* says of that list which commit comes after which, and of every table    *)
(* row that it is right or that the commit that makes it right is still on *)
(* the list.                                                               *)
(*                                                                         *)
(* At the end: what a prune of the event ledger leaves (Retention).        *)
(***************************************************************************)
EXTENDS Daemon, Retention, FiniteSetTheorems, SequenceTheorems, WellFoundedInduction, TLAPS
------------------------------------------------------------------------------
\* Lists of commits.

In(s, x) == \E i \in 1..Len(s) : s[i] = x

\* Every a of the list has a b behind it.
Followed(s, a, b) ==
    \A i \in 1..Len(s) : s[i] = a => \E j \in (i + 1)..Len(s) : s[j] = b

\* No b comes behind an a.
Barred(s, a, b) ==
    \A i \in 1..Len(s) : s[i] = a => \A j \in (i + 1)..Len(s) : s[j] # b

\* What every list keeps to: st is the stage of the holder, next the status
\* that the lane is to have.
Ordered(s, st, next) ==
    /\ Followed(s, "set", "item")
    /\ next = "claimed" \/ Followed(s, "set", "event")
    /\ Followed(s, "save", "snap")
    /\ st = "leave" => Followed(s, "set", "save") /\ Followed(s, "session", "snap")
    /\ Followed(s, "put", "set") /\ Followed(s, "clear", "set")
    /\ Barred(s, "set", "put")
    /\ In(s, "put") => next = "retry_queued"
    /\ In(s, "clear") => next # "retry_queued"

\* The commits that write the row of the tick or its events.
Accounts == {"start", "started", "ended", "completed", "failed"}

Plain(s) == \A x \in Accounts : ~In(s, x)
------------------------------------------------------------------------------
\* The inductive invariant.

\* An awake daemon owns the lease, and it has not run out.
Leased ==
    \A d \in Daemon :
        daemon[d].pc \in Awake =>
            /\ lease.owner = d /\ ~lease.released
            /\ lease.left + daemon[d].age >= TTL

\* The holder of the state lock, and what it can be at.
Holding ==
    /\ \A d \in Daemon : daemon[d].pc = "ticking" <=> holder = d
    /\ holder = NoOne <=> stage = "none"
    /\ stage = "none" => todo = <<>>
    /\ holder = Outside => stage = "leave"

TickOpens ==
    \/ todo = <<"start", "started">>
    \/ todo = <<"started">> /\ db.tick.status = "running" /\ db.tick.told = {}

TickGoes == Plain(todo) /\ db.tick.status = "running" /\ db.tick.told = {"started"}

TickCloses ==
    \/ /\ db.tick.status = "running" /\ db.tick.told = {"started"}
       /\ \E s \in {"completed", "failed"} :
             todo \in {<<"save", "snap", "ended", s>>, <<"snap", "ended", s>>, <<"ended", s>>}
    \/ /\ db.tick.status = "running" /\ db.tick.told = {"started", "ended"}
       /\ todo \in {<<"completed">>, <<"failed">>}
    \/ db.tick.status \in {"completed", "failed"} /\ todo = <<>>

\* The row of the tick, its events, and the list of the holder go together.
TickRows ==
    /\ holder \in Daemon /\ stage = "reconcile" => TickOpens \/ TickGoes
    /\ holder \in Daemon /\ stage \in {"intake", "route"} => TickGoes
    /\ holder \in Daemon /\ stage = "leave" => TickCloses
    /\ holder = Outside => Plain(todo)

\* With no upset there is one daemon, and the queue grows only while it ticks.
Alone ==
    upsets = 0 =>
        /\ \A c, d \in Daemon : daemon[c].pc # "down" /\ daemon[d].pc # "down" => c = d
        /\ \A d \in Daemon : daemon[d].pc = "down" => lease.owner # d
        /\ \A d \in Daemon : ~daemon[d].stop
        /\ holder = Outside => ~In(todo, "put")
        /\ doctor = "idle"

\* The lanes the tables follow.
Lanes == IF holder = NoOne THEN file ELSE mem

\* A lane may differ from the row that its list has still to write.
Due(l, step) == l = at /\ In(todo, step)

QueueFollows ==
    "retries" \notin torn /\ doctor # "cut" =>
        /\ \A l \in Lane : Lanes[l].status = "retry_queued" =>
              db.retry[l] = Lanes[l].due \/ Due(l, "set")
        /\ In(todo, "set") /\ to.status = "retry_queued" =>
              In(todo, "put") \/ db.retry[at] = to.due

ItemsFollow ==
    "items" \notin torn =>
        \A l \in Lane :
            /\ db.item[l] = Lanes[l].status \/ Due(l, "item")
            /\ Lanes[l].status \in {"none", "claimed", db.moved[l]} \/ Due(l, "event")

SchedulerFollows ==
    /\ "scheduler" \notin torn /\ doctor # "cut"
    /\ holder = NoOne \/ (stage = "leave" /\ ~In(todo, "snap"))
    => /\ db.running = RunningOf(file)
       /\ SchedulerPayload(db).sessions = ThreadOf(file)

\* Who is about to leave has saved, or has it on the list.
SavedOnLeave == stage = "leave" => file = mem \/ In(todo, "save")

\* What is torn of the items no snapshot repairs.
ItemsStayTorn == torn # {} => "items" \in torn

Unowned == lease.owner = NoOwner => lease.released

IInv ==
    /\ TypeOK
    /\ Leased /\ Unowned
    /\ Holding
    /\ Ordered(todo, stage, to.status)
    /\ TickRows /\ TickIsAccounted
    /\ Alone /\ WakesForRetry
    /\ SavedOnLeave /\ ItemsStayTorn
    /\ QueueFollows /\ ItemsFollow /\ SchedulerFollows
------------------------------------------------------------------------------
\* Lists of commits.

LEMMA TailElements ==
    ASSUME NEW s \in Seq(Commits), s # <<>>
    PROVE  /\ Len(s) \in Nat \ {0} /\ Head(s) = s[1]
           /\ Head(s) \in Commits /\ Tail(s) \in Seq(Commits)
           /\ Len(Tail(s)) = Len(s) - 1
           /\ \A i \in 1..Len(Tail(s)) : Tail(s)[i] = s[i + 1]
<1>1. Len(s) \in Nat \ {0}
  BY EmptySeq
<1>2. Head(s) = s[1]
  OBVIOUS
<1> QED
  BY <1>1, <1>2, HeadTailProperties

\* What is on a list is at its head or on the rest.
LEMMA InTail ==
    ASSUME NEW s \in Seq(Commits), s # <<>>
    PROVE  /\ In(s, Head(s))
           /\ \A x : In(Tail(s), x) => In(s, x)
           /\ \A x : In(s, x) => x = Head(s) \/ In(Tail(s), x)
<1>1. In(s, Head(s))
  BY TailElements DEF In
<1>2. ASSUME NEW x, In(Tail(s), x)
      PROVE  In(s, x)
  BY <1>2, TailElements DEF In
<1>3. ASSUME NEW x, In(s, x), x # Head(s)
      PROVE  In(Tail(s), x)
  <2>1. PICK i \in 1..Len(s) : s[i] = x
    BY <1>3 DEF In
  <2>2. i - 1 \in 1..Len(Tail(s)) /\ Tail(s)[i - 1] = x
    BY <1>3, <2>1, TailElements
  <2> QED
    BY <2>2 DEF In
<1> QED
  BY <1>1, <1>2, <1>3

\* The rest of a list keeps its order.
LEMMA FollowedTail ==
    ASSUME NEW s \in Seq(Commits), s # <<>>, NEW a, NEW b, Followed(s, a, b)
    PROVE  /\ Followed(Tail(s), a, b)
           /\ Head(s) = a => In(Tail(s), b)
           /\ In(Tail(s), a) => In(Tail(s), b)
<1>1. ASSUME NEW i \in 1..Len(Tail(s)), Tail(s)[i] = a
      PROVE  \E j \in (i + 1)..Len(Tail(s)) : Tail(s)[j] = b
  <2>1. i + 1 \in 1..Len(s) /\ s[i + 1] = a
    BY <1>1, TailElements
  <2>2. PICK j \in (i + 2)..Len(s) : s[j] = b
    BY <2>1 DEF Followed
  <2>3. j - 1 \in (i + 1)..Len(Tail(s)) /\ Tail(s)[j - 1] = b
    BY <2>2, TailElements
  <2> QED
    BY <2>3
<1>2. ASSUME Head(s) = a
      PROVE  In(Tail(s), b)
  <2>1. 1 \in 1..Len(s) /\ s[1] = a
    BY <1>2, TailElements
  <2>2. PICK j \in 2..Len(s) : s[j] = b
    BY <2>1 DEF Followed
  <2>3. j - 1 \in 1..Len(Tail(s)) /\ Tail(s)[j - 1] = b
    BY <2>2, TailElements
  <2> QED
    BY <2>3 DEF In
<1>3. ASSUME In(Tail(s), a)
      PROVE  In(Tail(s), b)
  <2>1. PICK i \in 1..Len(Tail(s)) : Tail(s)[i] = a
    BY <1>3 DEF In
  <2>2. PICK j \in (i + 1)..Len(Tail(s)) : Tail(s)[j] = b
    BY <1>1, <2>1
  <2> QED
    BY <2>2 DEF In
<1> QED
  BY <1>1, <1>2, <1>3 DEF Followed

LEMMA BarredTail ==
    ASSUME NEW s \in Seq(Commits), s # <<>>, NEW a, NEW b, Barred(s, a, b)
    PROVE  Barred(Tail(s), a, b) /\ (Head(s) = a => ~In(Tail(s), b))
<1>1. ASSUME NEW i \in 1..Len(Tail(s)), Tail(s)[i] = a,
             NEW j \in (i + 1)..Len(Tail(s))
      PROVE  Tail(s)[j] # b
  <2>1. i + 1 \in 1..Len(s) /\ s[i + 1] = a /\ j + 1 \in (i + 2)..Len(s)
        /\ j \in 1..Len(Tail(s))
    BY <1>1, TailElements
  <2>2. s[j + 1] # b
    BY <2>1 DEF Barred
  <2> QED
    BY <2>1, <2>2, TailElements
<1>2. ASSUME Head(s) = a, NEW j \in 1..Len(Tail(s))
      PROVE  Tail(s)[j] # b
  <2>1. 1 \in 1..Len(s) /\ s[1] = a /\ j + 1 \in (1 + 1)..Len(s)
    BY <1>2, TailElements
  <2>2. s[j + 1] # b
    BY <2>1 DEF Barred
  <2> QED
    BY <2>2, TailElements
<1>3. Barred(Tail(s), a, b)
  BY <1>1 DEF Barred
<1> QED
  BY <1>2, <1>3 DEF In

LEMMA OrderedTail ==
    ASSUME NEW s \in Seq(Commits), s # <<>>, NEW st, NEW next, Ordered(s, st, next)
    PROVE  Ordered(Tail(s), st, next)
  BY FollowedTail, BarredTail, InTail DEF Ordered

LEMMA PlainTail ==
    ASSUME NEW s \in Seq(Commits), s # <<>>, Plain(s)
    PROVE  Plain(Tail(s)) /\ Head(s) \notin Accounts
  BY InTail DEF Plain

LEMMA NothingIn ==
    /\ \A x : ~In(<<>>, x)
    /\ Plain(<<>>)
    /\ \A st, next : Ordered(<<>>, st, next)
  BY DEF In, Plain, Followed, Barred, Ordered
------------------------------------------------------------------------------
\* The lists that the operations begin with.

LEMMA OpeningOrdered ==
    ASSUME NEW s, s = <<"start", "started">>, NEW st, NEW next
    PROVE  s \in Seq(Commits) /\ Ordered(s, st, next) /\ ~In(s, "set") /\ ~In(s, "put")
  BY DEF Commits, Ordered, In, Followed, Barred

\* Saved, alone or before the end of a tick.
LEMMA SavedOrdered ==
    ASSUME NEW s, s = <<"save", "snap">>, NEW st, NEW next
    PROVE  /\ s \in Seq(Commits) /\ Plain(s) /\ Ordered(s, st, next)
           /\ ~In(s, "set") /\ ~In(s, "put")
           /\ In(s, "save") /\ In(s, "snap")
<1> USE DEF In, Followed, Barred
<1>1. s \in Seq(Commits)
  BY DEF Commits
<1>2. Plain(s)
  BY DEF Plain, Accounts
<1>3. Ordered(s, st, next)
  BY DEF Ordered
<1> QED
  BY <1>1, <1>2, <1>3

LEMMA ClosingOrdered ==
    ASSUME NEW s, NEW status \in {"completed", "failed"},
           s = <<"save", "snap", "ended", status>>, NEW st, NEW next
    PROVE  /\ s \in Seq(Commits) /\ Ordered(s, st, next)
           /\ ~In(s, "set") /\ ~In(s, "put")
           /\ In(s, "save") /\ In(s, "snap")
<1> USE DEF In, Followed, Barred
<1>1. s \in Seq(Commits)
  BY DEF Commits
<1>2. Ordered(s, st, next)
  BY DEF Ordered
<1> QED
  BY <1>1, <1>2

LEMMA Joined ==
    ASSUME NEW s \in Seq(Commits), NEW t \in Seq(Commits), NEW u \in Seq(Commits),
           Len(u) = Len(s) + Len(t),
           \A i \in 1..Len(s) : u[i] = s[i],
           \A i \in 1..Len(t) : u[Len(s) + i] = t[i]
    PROVE  s \o t = u
<1>1. s \o t \in Seq(Commits) /\ Len(s \o t) = Len(s) + Len(t)
      /\ \A i \in 1..(Len(s) + Len(t)) :
            (s \o t)[i] = IF i <= Len(s) THEN s[i] ELSE t[i - Len(s)]
  BY ConcatProperties
<1>2. Len(s) \in Nat /\ Len(t) \in Nat
  BY LenProperties
<1>3. ASSUME NEW i \in 1..Len(u)
      PROVE  (s \o t)[i] = u[i]
  <2>1. CASE i <= Len(s)
    BY <1>1, <1>2, <2>1
  <2>2. CASE i > Len(s)
    <3>1. i - Len(s) \in 1..Len(t) /\ Len(s) + (i - Len(s)) = i
      BY <1>2, <2>2
    <3> QED
      BY <1>1, <1>2, <2>2, <3>1
  <2> QED
    BY <1>2, <2>1, <2>2
<1> QED
  BY <1>1, <1>3, SeqEqual

LEMMA PutList ==
    <<"put">> \o Transition = <<"put", "set", "item", "event">>
<1> DEFINE s == <<"put">>
           u == <<"put", "set", "item", "event">>
<1>1. s \in Seq(Commits) /\ Transition \in Seq(Commits) /\ u \in Seq(Commits)
  BY DEF Commits, Transition
<1>2. Len(u) = Len(s) + Len(Transition)
  BY DEF Transition
<1>3. \A i \in 1..Len(s) : u[i] = s[i]
  OBVIOUS
<1>4. \A i \in 1..Len(Transition) : u[Len(s) + i] = Transition[i]
  BY DEF Transition
<1> HIDE DEF s, u
<1>5. s \o Transition = u
  BY <1>1, <1>2, <1>3, <1>4, Joined
<1> QED
  BY <1>5 DEF s, u

LEMMA ClearList ==
    <<"clear">> \o Transition = <<"clear", "set", "item", "event">>
<1> DEFINE s == <<"clear">>
           u == <<"clear", "set", "item", "event">>
<1>1. s \in Seq(Commits) /\ Transition \in Seq(Commits) /\ u \in Seq(Commits)
  BY DEF Commits, Transition
<1>2. Len(u) = Len(s) + Len(Transition)
  BY DEF Transition
<1>3. \A i \in 1..Len(s) : u[i] = s[i]
  OBVIOUS
<1>4. \A i \in 1..Len(Transition) : u[Len(s) + i] = Transition[i]
  BY DEF Transition
<1> HIDE DEF s, u
<1>5. s \o Transition = u
  BY <1>1, <1>2, <1>3, <1>4, Joined
<1> QED
  BY <1>5 DEF s, u

LEMMA PutSavedList ==
    <<"put", "set", "item", "event">> \o Saved = <<"put", "set", "item", "event", "save", "snap">>
<1> DEFINE s == <<"put", "set", "item", "event">>
           u == <<"put", "set", "item", "event", "save", "snap">>
<1>1. s \in Seq(Commits) /\ Saved \in Seq(Commits) /\ u \in Seq(Commits)
  BY DEF Commits, Saved
<1>2. Len(u) = Len(s) + Len(Saved)
  BY DEF Saved
<1>3. \A i \in 1..Len(s) : u[i] = s[i]
  OBVIOUS
<1>4. \A i \in 1..Len(Saved) : u[Len(s) + i] = Saved[i]
  BY DEF Saved
<1> HIDE DEF s, u
<1>5. s \o Saved = u
  BY <1>1, <1>2, <1>3, <1>4, Joined
<1> QED
  BY <1>5 DEF s, u

LEMMA ClearSavedList ==
    <<"clear", "set", "item", "event">> \o Saved = <<"clear", "set", "item", "event", "save", "snap">>
<1> DEFINE s == <<"clear", "set", "item", "event">>
           u == <<"clear", "set", "item", "event", "save", "snap">>
<1>1. s \in Seq(Commits) /\ Saved \in Seq(Commits) /\ u \in Seq(Commits)
  BY DEF Commits, Saved
<1>2. Len(u) = Len(s) + Len(Saved)
  BY DEF Saved
<1>3. \A i \in 1..Len(s) : u[i] = s[i]
  OBVIOUS
<1>4. \A i \in 1..Len(Saved) : u[Len(s) + i] = Saved[i]
  BY DEF Saved
<1> HIDE DEF s, u
<1>5. s \o Saved = u
  BY <1>1, <1>2, <1>3, <1>4, Joined
<1> QED
  BY <1>5 DEF s, u

LEMMA ItemList ==
    <<"clear", "set", "item", "event">> \o <<"item">> = <<"clear", "set", "item", "event", "item">>
<1> DEFINE s == <<"clear", "set", "item", "event">>
           t == <<"item">>
           u == <<"clear", "set", "item", "event", "item">>
<1>1. s \in Seq(Commits) /\ t \in Seq(Commits) /\ u \in Seq(Commits)
  BY DEF Commits
<1>2. Len(u) = Len(s) + Len(t)
  OBVIOUS
<1>3. \A i \in 1..Len(s) : u[i] = s[i]
  OBVIOUS
<1>4. \A i \in 1..Len(t) : u[Len(s) + i] = t[i]
  OBVIOUS
<1> HIDE DEF s, t, u
<1>5. s \o t = u
  BY <1>1, <1>2, <1>3, <1>4, Joined
<1> QED
  BY <1>5 DEF s, t, u

LEMMA ItemSavedList ==
    <<"clear", "set", "item", "event", "item">> \o Saved = <<"clear", "set", "item", "event", "item", "save", "snap">>
<1> DEFINE s == <<"clear", "set", "item", "event", "item">>
           u == <<"clear", "set", "item", "event", "item", "save", "snap">>
<1>1. s \in Seq(Commits) /\ Saved \in Seq(Commits) /\ u \in Seq(Commits)
  BY DEF Commits, Saved
<1>2. Len(u) = Len(s) + Len(Saved)
  BY DEF Saved
<1>3. \A i \in 1..Len(s) : u[i] = s[i]
  OBVIOUS
<1>4. \A i \in 1..Len(Saved) : u[Len(s) + i] = Saved[i]
  BY DEF Saved
<1> HIDE DEF s, u
<1>5. s \o Saved = u
  BY <1>1, <1>2, <1>3, <1>4, Joined
<1> QED
  BY <1>5 DEF s, u

LEMMA SessionList ==
    <<"clear", "set", "item", "event">> \o <<"session">> = <<"clear", "set", "item", "event", "session">>
<1> DEFINE s == <<"clear", "set", "item", "event">>
           t == <<"session">>
           u == <<"clear", "set", "item", "event", "session">>
<1>1. s \in Seq(Commits) /\ t \in Seq(Commits) /\ u \in Seq(Commits)
  BY DEF Commits
<1>2. Len(u) = Len(s) + Len(t)
  OBVIOUS
<1>3. \A i \in 1..Len(s) : u[i] = s[i]
  OBVIOUS
<1>4. \A i \in 1..Len(t) : u[Len(s) + i] = t[i]
  OBVIOUS
<1> HIDE DEF s, t, u
<1>5. s \o t = u
  BY <1>1, <1>2, <1>3, <1>4, Joined
<1> QED
  BY <1>5 DEF s, t, u

LEMMA SessionSavedList ==
    <<"clear", "set", "item", "event", "session">> \o Saved = <<"clear", "set", "item", "event", "session", "save", "snap">>
<1> DEFINE s == <<"clear", "set", "item", "event", "session">>
           u == <<"clear", "set", "item", "event", "session", "save", "snap">>
<1>1. s \in Seq(Commits) /\ Saved \in Seq(Commits) /\ u \in Seq(Commits)
  BY DEF Commits, Saved
<1>2. Len(u) = Len(s) + Len(Saved)
  BY DEF Saved
<1>3. \A i \in 1..Len(s) : u[i] = s[i]
  OBVIOUS
<1>4. \A i \in 1..Len(Saved) : u[Len(s) + i] = Saved[i]
  BY DEF Saved
<1> HIDE DEF s, u
<1>5. s \o Saved = u
  BY <1>1, <1>2, <1>3, <1>4, Joined
<1> QED
  BY <1>5 DEF s, u

LEMMA StartList ==
    <<"session">> \o Transition = <<"session", "set", "item", "event">>
<1> DEFINE s == <<"session">>
           u == <<"session", "set", "item", "event">>
<1>1. s \in Seq(Commits) /\ Transition \in Seq(Commits) /\ u \in Seq(Commits)
  BY DEF Commits, Transition
<1>2. Len(u) = Len(s) + Len(Transition)
  BY DEF Transition
<1>3. \A i \in 1..Len(s) : u[i] = s[i]
  OBVIOUS
<1>4. \A i \in 1..Len(Transition) : u[Len(s) + i] = Transition[i]
  BY DEF Transition
<1> HIDE DEF s, u
<1>5. s \o Transition = u
  BY <1>1, <1>2, <1>3, <1>4, Joined
<1> QED
  BY <1>5 DEF s, u

LEMMA StartedList ==
    <<"session", "set", "item", "event">> \o <<"session">> = <<"session", "set", "item", "event", "session">>
<1> DEFINE s == <<"session", "set", "item", "event">>
           t == <<"session">>
           u == <<"session", "set", "item", "event", "session">>
<1>1. s \in Seq(Commits) /\ t \in Seq(Commits) /\ u \in Seq(Commits)
  BY DEF Commits
<1>2. Len(u) = Len(s) + Len(t)
  OBVIOUS
<1>3. \A i \in 1..Len(s) : u[i] = s[i]
  OBVIOUS
<1>4. \A i \in 1..Len(t) : u[Len(s) + i] = t[i]
  OBVIOUS
<1> HIDE DEF s, t, u
<1>5. s \o t = u
  BY <1>1, <1>2, <1>3, <1>4, Joined
<1> QED
  BY <1>5 DEF s, t, u

LEMMA StartSavedList ==
    <<"session", "set", "item", "event", "session">> \o Saved = <<"session", "set", "item", "event", "session", "save", "snap">>
<1> DEFINE s == <<"session", "set", "item", "event", "session">>
           u == <<"session", "set", "item", "event", "session", "save", "snap">>
<1>1. s \in Seq(Commits) /\ Saved \in Seq(Commits) /\ u \in Seq(Commits)
  BY DEF Commits, Saved
<1>2. Len(u) = Len(s) + Len(Saved)
  BY DEF Saved
<1>3. \A i \in 1..Len(s) : u[i] = s[i]
  OBVIOUS
<1>4. \A i \in 1..Len(Saved) : u[Len(s) + i] = Saved[i]
  BY DEF Saved
<1> HIDE DEF s, u
<1>5. s \o Saved = u
  BY <1>1, <1>2, <1>3, <1>4, Joined
<1> QED
  BY <1>5 DEF s, u

LEMMA DueList ==
    <<"session">> \o <<"clear">> = <<"session", "clear">>
<1> DEFINE s == <<"session">>
           t == <<"clear">>
           u == <<"session", "clear">>
<1>1. s \in Seq(Commits) /\ t \in Seq(Commits) /\ u \in Seq(Commits)
  BY DEF Commits
<1>2. Len(u) = Len(s) + Len(t)
  OBVIOUS
<1>3. \A i \in 1..Len(s) : u[i] = s[i]
  OBVIOUS
<1>4. \A i \in 1..Len(t) : u[Len(s) + i] = t[i]
  OBVIOUS
<1> HIDE DEF s, t, u
<1>5. s \o t = u
  BY <1>1, <1>2, <1>3, <1>4, Joined
<1> QED
  BY <1>5 DEF s, t, u

LEMMA DueSetList ==
    <<"session", "clear">> \o Transition = <<"session", "clear", "set", "item", "event">>
<1> DEFINE s == <<"session", "clear">>
           u == <<"session", "clear", "set", "item", "event">>
<1>1. s \in Seq(Commits) /\ Transition \in Seq(Commits) /\ u \in Seq(Commits)
  BY DEF Commits, Transition
<1>2. Len(u) = Len(s) + Len(Transition)
  BY DEF Transition
<1>3. \A i \in 1..Len(s) : u[i] = s[i]
  OBVIOUS
<1>4. \A i \in 1..Len(Transition) : u[Len(s) + i] = Transition[i]
  BY DEF Transition
<1> HIDE DEF s, u
<1>5. s \o Transition = u
  BY <1>1, <1>2, <1>3, <1>4, Joined
<1> QED
  BY <1>5 DEF s, u

LEMMA DueStartedList ==
    <<"session", "clear", "set", "item", "event">> \o <<"session">> = <<"session", "clear", "set", "item", "event", "session">>
<1> DEFINE s == <<"session", "clear", "set", "item", "event">>
           t == <<"session">>
           u == <<"session", "clear", "set", "item", "event", "session">>
<1>1. s \in Seq(Commits) /\ t \in Seq(Commits) /\ u \in Seq(Commits)
  BY DEF Commits
<1>2. Len(u) = Len(s) + Len(t)
  OBVIOUS
<1>3. \A i \in 1..Len(s) : u[i] = s[i]
  OBVIOUS
<1>4. \A i \in 1..Len(t) : u[Len(s) + i] = t[i]
  OBVIOUS
<1> HIDE DEF s, t, u
<1>5. s \o t = u
  BY <1>1, <1>2, <1>3, <1>4, Joined
<1> QED
  BY <1>5 DEF s, t, u

LEMMA DueSavedList ==
    <<"session", "clear", "set", "item", "event", "session">> \o Saved = <<"session", "clear", "set", "item", "event", "session", "save", "snap">>
<1> DEFINE s == <<"session", "clear", "set", "item", "event", "session">>
           u == <<"session", "clear", "set", "item", "event", "session", "save", "snap">>
<1>1. s \in Seq(Commits) /\ Saved \in Seq(Commits) /\ u \in Seq(Commits)
  BY DEF Commits, Saved
<1>2. Len(u) = Len(s) + Len(Saved)
  BY DEF Saved
<1>3. \A i \in 1..Len(s) : u[i] = s[i]
  OBVIOUS
<1>4. \A i \in 1..Len(Saved) : u[Len(s) + i] = Saved[i]
  BY DEF Saved
<1> HIDE DEF s, u
<1>5. s \o Saved = u
  BY <1>1, <1>2, <1>3, <1>4, Joined
<1> QED
  BY <1>5 DEF s, u

LEMMA CompletedList ==
    <<"save", "snap">> \o <<"ended", "completed">> = <<"save", "snap", "ended", "completed">>
<1> DEFINE s == <<"save", "snap">>
           t == <<"ended", "completed">>
           u == <<"save", "snap", "ended", "completed">>
<1>1. s \in Seq(Commits) /\ t \in Seq(Commits) /\ u \in Seq(Commits)
  BY DEF Commits
<1>2. Len(u) = Len(s) + Len(t)
  OBVIOUS
<1>3. \A i \in 1..Len(s) : u[i] = s[i]
  OBVIOUS
<1>4. \A i \in 1..Len(t) : u[Len(s) + i] = t[i]
  OBVIOUS
<1> HIDE DEF s, t, u
<1>5. s \o t = u
  BY <1>1, <1>2, <1>3, <1>4, Joined
<1> QED
  BY <1>5 DEF s, t, u

LEMMA FailedList ==
    <<"save", "snap">> \o <<"ended", "failed">> = <<"save", "snap", "ended", "failed">>
<1> DEFINE s == <<"save", "snap">>
           t == <<"ended", "failed">>
           u == <<"save", "snap", "ended", "failed">>
<1>1. s \in Seq(Commits) /\ t \in Seq(Commits) /\ u \in Seq(Commits)
  BY DEF Commits
<1>2. Len(u) = Len(s) + Len(t)
  OBVIOUS
<1>3. \A i \in 1..Len(s) : u[i] = s[i]
  OBVIOUS
<1>4. \A i \in 1..Len(t) : u[Len(s) + i] = t[i]
  OBVIOUS
<1> HIDE DEF s, t, u
<1>5. s \o t = u
  BY <1>1, <1>2, <1>3, <1>4, Joined
<1> QED
  BY <1>5 DEF s, t, u

\* What the lists of the operations keep to, whatever the stage of the holder.

LEMMA ClaimOrdered ==
    ASSUME NEW s, s = <<"set", "item">>, NEW st, st # "leave"
    PROVE  s \in Seq(Commits) /\ s # <<>> /\ Plain(s) /\ Ordered(s, st, "claimed")
<1>1. s \in Seq(Commits) /\ s # <<>>
  BY DEF Commits
<1>2. Plain(s)
  BY DEF Plain, Accounts, In
<1>3. Ordered(s, st, "claimed")
  BY DEF In, Followed, Barred, Ordered
<1> QED
  BY <1>1, <1>2, <1>3

LEMMA RetryOrdered ==
    ASSUME NEW s, s = <<"put", "set", "item", "event">>,
           NEW st, st # "leave"
    PROVE  /\ s \in Seq(Commits) /\ s # <<>> /\ Plain(s)
           /\ Ordered(s, st, "retry_queued")
           /\ In(s, "put")
<1>1. s \in Seq(Commits) /\ s # <<>>
  BY DEF Commits
<1>2. Plain(s) /\ In(s, "put")
  BY DEF Plain, Accounts, In
<1>3. Ordered(s, st, "retry_queued")
  BY DEF In, Followed, Barred, Ordered
<1> QED
  BY <1>1, <1>2, <1>3

LEMMA RetrySavedOrdered ==
    ASSUME NEW s, s = <<"put", "set", "item", "event", "save", "snap">>,
           NEW st
    PROVE  /\ s \in Seq(Commits) /\ s # <<>> /\ Plain(s)
           /\ Ordered(s, st, "retry_queued")
           /\ In(s, "put") /\ In(s, "snap")
<1>1. s \in Seq(Commits) /\ s # <<>>
  BY DEF Commits
<1>2. Plain(s) /\ In(s, "put") /\ In(s, "snap")
  BY DEF Plain, Accounts, In
<1>3. Ordered(s, st, "retry_queued")
  BY DEF In, Followed, Barred, Ordered
<1> QED
  BY <1>1, <1>2, <1>3

LEMMA MoveOrdered ==
    ASSUME NEW s, s = <<"set", "item", "event">>,
           NEW st, st # "leave", NEW next, next # "retry_queued"
    PROVE  /\ s \in Seq(Commits) /\ s # <<>> /\ Plain(s)
           /\ Ordered(s, st, next)
           /\ ~In(s, "put")
<1>1. s \in Seq(Commits) /\ s # <<>>
  BY DEF Commits
<1>2. Plain(s) /\ ~In(s, "put")
  BY DEF Plain, Accounts, In
<1>3. Ordered(s, st, next)
  BY DEF In, Followed, Barred, Ordered
<1> QED
  BY <1>1, <1>2, <1>3

LEMMA StartOrdered ==
    ASSUME NEW s, s = <<"session", "set", "item", "event", "session", "save", "snap">>,
           NEW st, NEW next, next # "retry_queued"
    PROVE  /\ s \in Seq(Commits) /\ s # <<>> /\ Plain(s)
           /\ Ordered(s, st, next)
           /\ ~In(s, "put") /\ In(s, "snap")
<1>1. s \in Seq(Commits) /\ s # <<>>
  BY DEF Commits
<1>2. Plain(s) /\ ~In(s, "put") /\ In(s, "snap")
  BY DEF Plain, Accounts, In
<1>3. Ordered(s, st, next)
  BY DEF In, Followed, Barred, Ordered
<1> QED
  BY <1>1, <1>2, <1>3

LEMMA DueStartOrdered ==
    ASSUME NEW s, s = <<"session", "clear", "set", "item", "event", "session", "save", "snap">>,
           NEW st, NEW next, next # "retry_queued"
    PROVE  /\ s \in Seq(Commits) /\ s # <<>> /\ Plain(s)
           /\ Ordered(s, st, next)
           /\ ~In(s, "put") /\ In(s, "snap")
<1>1. s \in Seq(Commits) /\ s # <<>>
  BY DEF Commits
<1>2. Plain(s) /\ ~In(s, "put") /\ In(s, "snap")
  BY DEF Plain, Accounts, In
<1>3. Ordered(s, st, next)
  BY DEF In, Followed, Barred, Ordered
<1> QED
  BY <1>1, <1>2, <1>3

LEMMA DoneOrdered ==
    ASSUME NEW s, s = <<"clear", "set", "item", "event", "item", "save", "snap">>,
           NEW st, NEW next, next # "retry_queued"
    PROVE  /\ s \in Seq(Commits) /\ s # <<>> /\ Plain(s)
           /\ Ordered(s, st, next)
           /\ ~In(s, "put") /\ In(s, "snap")
<1>1. s \in Seq(Commits) /\ s # <<>>
  BY DEF Commits
<1>2. Plain(s) /\ ~In(s, "put") /\ In(s, "snap")
  BY DEF Plain, Accounts, In
<1>3. Ordered(s, st, next)
  BY DEF In, Followed, Barred, Ordered
<1> QED
  BY <1>1, <1>2, <1>3

LEMMA FiledOrdered ==
    ASSUME NEW s, s = <<"clear", "set", "item", "event", "session", "save", "snap">>,
           NEW st, NEW next, next # "retry_queued"
    PROVE  /\ s \in Seq(Commits) /\ s # <<>> /\ Plain(s)
           /\ Ordered(s, st, next)
           /\ ~In(s, "put") /\ In(s, "snap")
<1>1. s \in Seq(Commits) /\ s # <<>>
  BY DEF Commits
<1>2. Plain(s) /\ ~In(s, "put") /\ In(s, "snap")
  BY DEF Plain, Accounts, In
<1>3. Ordered(s, st, next)
  BY DEF In, Followed, Barred, Ordered
<1> QED
  BY <1>1, <1>2, <1>3

LEMMA SettledOrdered ==
    ASSUME NEW s, s = <<"clear", "set", "item", "event", "save", "snap">>,
           NEW st, NEW next, next # "retry_queued"
    PROVE  /\ s \in Seq(Commits) /\ s # <<>> /\ Plain(s)
           /\ Ordered(s, st, next)
           /\ ~In(s, "put") /\ In(s, "snap")
<1>1. s \in Seq(Commits) /\ s # <<>>
  BY DEF Commits
<1>2. Plain(s) /\ ~In(s, "put") /\ In(s, "snap")
  BY DEF Plain, Accounts, In
<1>3. Ordered(s, st, next)
  BY DEF In, Followed, Barred, Ordered
<1> QED
  BY <1>1, <1>2, <1>3

------------------------------------------------------------------------------
\* Numbers.

\* A set of naturals has a least one.
LEMMA LeastOf ==
    ASSUME NEW T, T \subseteq Nat, T # {}
    PROVE  MinOf(T) \in T /\ \A y \in T : MinOf(T) <= y
<1>1. OpToRel(<, Nat) = {ss \in Nat \X Nat : ss[1] < ss[2]}
  BY Zenon DEF OpToRel
<1>2. IsWellFoundedOn(OpToRel(<, Nat), Nat)
  BY NatLessThanWellFounded
<1>3. PICK x \in T : \A y \in T : <<y, x>> \notin OpToRel(<, Nat)
  BY <1>2, WFMin
<1>4. ASSUME NEW y \in T, y < x
      PROVE  FALSE
  <2>1. x \in Nat /\ y \in Nat
    OBVIOUS
  <2>2. <<y, x>> \in Nat \X Nat /\ <<y, x>>[1] < <<y, x>>[2]
    BY <1>4, <2>1
  <2>3. <<y, x>> \in {ss \in Nat \X Nat : ss[1] < ss[2]}
    BY <2>2
  <2> QED
    BY <1>1, <1>3, <2>3
<1>5. x \in T /\ \A y \in T : x <= y
  BY <1>4
<1> QED
  BY <1>5 DEF MinOf

LEMMA Bounds ==
    /\ TTL \in Nat \ {0} /\ MaxTick \in Nat /\ MaxTick < TTL
    /\ ActiveInterval \in Nat \ {0} /\ IdleInterval \in Nat \ {0}
    /\ ErrorInterval \in Nat \ {0} /\ MaxRetrySleep \in Nat \ {0}
    /\ Jitter \in Nat /\ MaxUpsets \in Nat
    /\ NoOwner \notin Daemon /\ NoOne \notin Daemon /\ Outside \notin Daemon
    /\ NoOne # Outside
  BY BoundAssumption DEF NoOne, Outside

LEMMA LongestSleep ==
    /\ Longest \in Nat \ {0}
    /\ ActiveInterval <= Longest /\ IdleInterval <= Longest /\ ErrorInterval <= Longest
<1> DEFINE S == {ActiveInterval, IdleInterval, ErrorInterval}
<1>1. \E n \in S : \A m \in S : m <= n
  BY Bounds
<1>2. Longest \in S /\ \A m \in S : m <= Longest
  BY <1>1 DEF Longest
<1> QED
  BY <1>2, Bounds

\* The sleep after a tick: no longer than the longest, and no longer than the
\* wait for the next retry and a second.
LEMMA SleepBounds ==
    ASSUME NEW active, NEW wait \in NotQueued..MaxDelay
    PROVE  /\ NextSleep(active, wait) \in 0..Longest
           /\ wait # NotQueued => NextSleep(active, wait) <= wait + 1
<1> DEFINE base == IF active THEN ActiveInterval ELSE IdleInterval
           S    == {base, MaxRetrySleep, wait}
<1>1. base \in Nat \ {0} /\ base <= Longest /\ Longest \in Nat
  BY Bounds, LongestSleep
<1>2. CASE wait = NotQueued
  BY <1>1, <1>2 DEF NextSleep
<1>3. CASE wait # NotQueued
  <2>1. wait \in Nat
    BY <1>3, PolicyAssumption DEF NotQueued
  <2>2. S \subseteq Nat /\ S # {}
    BY <1>1, <2>1, Bounds
  <2> HIDE DEF base
  <2>3. MinOf(S) \in Nat /\ MinOf(S) <= base /\ MinOf(S) <= wait
    BY <2>2, LeastOf
  <2>4. NextSleep(active, wait) = IF MinOf(S) = 0 THEN 1 ELSE MinOf(S)
    BY <1>3 DEF NextSleep, base
  <2> QED
    BY <1>1, <2>1, <2>3, <2>4
<1> QED
  BY <1>2, <1>3

LEMMA DelayBounds ==
    ASSUME NEW n
    PROVE  Delay(n) \in 0..MaxDelay
  BY PolicyAssumption DEF Delay

\* The daemon is told of the retry that is due first.
LEMMA NextDueIsFirst ==
    ASSUME NEW d \in Database, Queued(d) # {}
    PROVE  NextDue(d) \in 0..MaxDelay /\ \A l \in Queued(d) : NextDue(d) <= d.retry[l]
<1> DEFINE T == {d.retry[l] : l \in Queued(d)}
<1>1. d.retry \in [Lane -> NotQueued..MaxDelay]
  BY DEF Database
<1>2. \A l \in Queued(d) : l \in Lane /\ d.retry[l] \in 0..MaxDelay
  BY <1>1, PolicyAssumption DEF Queued, NotQueued
<1>3. T # {} /\ T \subseteq 0..MaxDelay
  BY <1>2
<1>4. T \subseteq Nat
  BY <1>3
<1> HIDE DEF T
<1>5. MinOf(T) \in T /\ \A y \in T : MinOf(T) <= y
  BY <1>3, <1>4, LeastOf
<1>6. NextDue(d) = MinOf(T)
  BY DEF NextDue, T
<1> QED
  BY <1>3, <1>5, <1>6 DEF T
------------------------------------------------------------------------------
\* Lanes and tables.

LEMMA LaneFields ==
    ASSUME NEW r \in LaneRecord
    PROVE  /\ r.status \in Status /\ r.attempt \in 1..MaxAttempts
           /\ r.thread \in BOOLEAN /\ r.due \in NotQueued..MaxDelay
  BY DEF LaneRecord

LEMMA NewLaneTyped ==
    NewLane \in LaneRecord /\ NewLane.status = "none"
<1>1. NewLane.status = "none" /\ "none" \in Status /\ 1 \in 1..MaxAttempts
      /\ NotQueued \in NotQueued..MaxDelay
  BY PolicyAssumption DEF NewLane, Status, NotQueued
<1> QED
  BY <1>1 DEF NewLane, LaneRecord

LEMMA TableFields ==
    ASSUME NEW d \in Database
    PROVE  /\ d.item \in [Lane -> Status] /\ d.moved \in [Lane -> Status]
           /\ d.running \in SUBSET Lane
           /\ d.session \in [Lane -> {"none", "blank", "thread"}]
           /\ d.retry \in [Lane -> NotQueued..MaxDelay]
           /\ d.tick \in TickRow
           /\ d.tick.status \in {"none", "running", "completed", "failed"}
           /\ d.tick.told \in SUBSET {"started", "ended"}
  BY DEF Database, TickRow

LEMMA TablesReplaced ==
    ASSUME NEW d \in Database, NEW r \in SUBSET Lane,
           NEW s \in [Lane -> {"none", "blank", "thread"}],
           NEW i \in [Lane -> Status]
    PROVE  [d EXCEPT !.running = r, !.session = s, !.item = i] \in Database
  BY DEF Database

LEMMA QueueReplaced ==
    ASSUME NEW d \in Database, NEW q \in [Lane -> NotQueued..MaxDelay]
    PROVE  [d EXCEPT !.retry = q] \in Database
  BY DEF Database

\* A commit writes the columns it is about, in the row of the lane it is about,
\* and leaves the others.
LEMMA CommitWrites ==
    ASSUME TypeOK, NEW step \in Commits, NEW d, d = Written(step)
    PROVE  /\ d \in Database
           /\ d.tick = CASE step = "start" -> [status |-> "running", told |-> {}]
                         [] step = "started" -> [db.tick EXCEPT !.told = @ \cup {"started"}]
                         [] step = "ended" -> [db.tick EXCEPT !.told = @ \cup {"ended"}]
                         [] step \in {"completed", "failed"} -> [db.tick EXCEPT !.status = step]
                         [] OTHER -> db.tick
           /\ d.retry = IF step = "put" THEN [db.retry EXCEPT ![at] = to.due]
                        ELSE IF step = "clear" THEN [db.retry EXCEPT ![at] = NotQueued]
                        ELSE db.retry
           /\ d.item = IF step \in {"put", "item", "session"}
                       THEN [db.item EXCEPT ![at] = mem[at].status]
                       ELSE IF step = "snap"
                       THEN [l \in Lane |-> IF l \in RunningOf(mem) \cup ThreadOf(mem)
                                            THEN mem[l].status ELSE db.item[l]]
                       ELSE db.item
           /\ d.moved = IF step = "event" THEN [db.moved EXCEPT ![at] = mem[at].status]
                        ELSE db.moved
           /\ d.running = IF step = "snap" THEN RunningOf(mem) ELSE db.running
           /\ step = "snap" => d.session = [l \in Lane |-> IF mem[l].thread THEN "thread" ELSE "none"]
           /\ step \notin {"snap", "session"} => d.session = db.session
<1> USE DEF Written
<1>0. /\ db \in Database /\ at \in Lane /\ to \in LaneRecord /\ mem[at] \in LaneRecord
      /\ mem \in [Lane -> LaneRecord]
      /\ to.due \in NotQueued..MaxDelay /\ mem[at].status \in Status
      /\ NotQueued \in NotQueued..MaxDelay
  BY LaneFields, PolicyAssumption DEF TypeOK, NotQueued
<1>1. CASE step = "start"
  BY <1>0, <1>1 DEF StartTick, Database, TickRow
<1>2. CASE step = "started"
  BY <1>0, <1>2 DEF TellTick, Database, TickRow
<1>3. CASE step = "clear"
  BY <1>0, <1>3 DEF ClearRetry, Database
<1>4. CASE step = "put"
  BY <1>0, <1>4 DEF PutRetry, RecordItem, Database
<1>5. CASE step \in {"set", "save"}
  BY <1>0, <1>5
<1>6. CASE step = "item"
  BY <1>0, <1>6 DEF RecordItem, Database
<1>7. CASE step = "event"
  BY <1>0, <1>7 DEF AppendTransition, Database
<1>8. CASE step = "session"
  BY <1>0, <1>8 DEF RecordSession, RecordItem, Database
<1>9. CASE step = "snap"
  <2>1. d = Snapshot(db, mem)
    BY <1>9
  <2>2. \A l \in Lane : mem[l].status \in Status
    BY <1>0, LaneFields
  <2>3. /\ d.tick = db.tick /\ d.retry = db.retry /\ d.moved = db.moved
        /\ d.running = RunningOf(mem)
        /\ d.session = [l \in Lane |-> IF mem[l].thread THEN "thread" ELSE "none"]
        /\ d.item = [l \in Lane |-> IF l \in RunningOf(mem) \cup ThreadOf(mem)
                                    THEN mem[l].status ELSE db.item[l]]
    BY <1>0, <2>1 DEF Snapshot, Database
  <2>4. RunningOf(mem) \in SUBSET Lane
    BY DEF RunningOf
  <2>5. d.item \in [Lane -> Status]
    <3>1. db.item \in [Lane -> Status]
      BY <1>0, TableFields
    <3>2. \A l \in Lane : (IF l \in RunningOf(mem) \cup ThreadOf(mem)
                           THEN mem[l].status ELSE db.item[l]) \in Status
      BY <2>2, <3>1
    <3> QED
      BY <2>3, <3>2
  <2>6. d.session \in [Lane -> {"none", "blank", "thread"}]
    BY <2>3
  <2>7. d \in Database
    <3>1. d = [db EXCEPT !.running = RunningOf(mem), !.session = d.session,
                         !.item = d.item]
      BY <2>1, <2>3 DEF Snapshot
    <3>2. [db EXCEPT !.running = RunningOf(mem), !.session = d.session,
                     !.item = d.item] \in Database
      BY <1>0, <2>4, <2>5, <2>6, TablesReplaced, Zenon
    <3> QED
      BY <3>1, <3>2, Zenon
  <2> QED
    BY <1>9, <2>3, <2>7
<1>10. CASE step = "ended"
  BY <1>0, <1>10 DEF TellTick, Database, TickRow
<1>11. CASE step \in {"completed", "failed"}
  BY <1>0, <1>11 DEF FinishTick, Database, TickRow
<1> QED
  BY <1>1, <1>2, <1>3, <1>4, <1>5, <1>6, <1>7, <1>8, <1>9, <1>10, <1>11 DEF Commits
------------------------------------------------------------------------------
\* The two halves of the invariant: what the processes are, and what the tables
\* are.  A step of one half leaves the other alone.

Process == [pc    : {"down", "ready", "asleep"} \cup Awake,
            sleep : 0..(Longest + Jitter),
            age   : 0..MaxTick,
            stop  : BOOLEAN]

TablesTyped ==
    /\ file \in [Lane -> LaneRecord] /\ mem \in [Lane -> LaneRecord]
    /\ copy \in [Lane -> LaneRecord]
    /\ db \in Database
    /\ stage \in {"none", "reconcile", "intake", "route", "leave"}
    /\ left \subseteq Lane
    /\ todo \in Seq(Commits)
    /\ at \in Lane /\ to \in LaneRecord
    /\ doctor \in {"idle", "read", "cut"}
    /\ torn \subseteq AllTables
    /\ ItemsStayTorn

ProcessesTyped ==
    /\ daemon \in [Daemon -> Process]
    /\ lease \in LeaseRow(Daemon, TTL)
    /\ holder \in {NoOne, Outside} \cup Daemon
    /\ upsets \in 0..MaxUpsets

Tables ==
    /\ TablesTyped
    /\ Ordered(todo, stage, to.status)
    /\ TickRows /\ TickIsAccounted
    /\ SavedOnLeave
    /\ QueueFollows /\ ItemsFollow /\ SchedulerFollows

Processes ==
    /\ ProcessesTyped
    /\ Leased /\ Unowned
    /\ Holding
    /\ Alone /\ WakesForRetry

LEMMA Halves == IInv <=> Tables /\ Processes
  BY DEF IInv, Tables, Processes, ItemsStayTorn, TypeOK, TablesTyped, ProcessesTyped, Process

LEMMA HalvesNext == Tables' /\ Processes' => IInv'
  BY DEF IInv, Tables, Processes, ItemsStayTorn, TypeOK, TablesTyped, ProcessesTyped, Process

tables == <<file, db, holder, lanes, repair, torn>>

LEMMA TablesKept ==
    ASSUME Tables, UNCHANGED tables
    PROVE  Tables'
<1> USE DEF tables, lanes, repair
<1>1. TablesTyped' /\ Ordered(todo, stage, to.status)'
  BY DEF Tables, TablesTyped, ItemsStayTorn, Ordered, In, Followed, Barred
<1>2. TickRows' /\ TickIsAccounted' /\ SavedOnLeave'
  BY DEF Tables, TickRows, TickOpens, TickGoes, TickCloses, TickIsAccounted,
         SavedOnLeave, Plain, In
<1>3. QueueFollows' /\ ItemsFollow' /\ SchedulerFollows'
  BY DEF Tables, QueueFollows, ItemsFollow, SchedulerFollows, Lanes, Due, In
<1> QED
  BY <1>1, <1>2, <1>3 DEF Tables

LEMMA ProcessFields ==
    ASSUME NEW p \in Process
    PROVE  /\ p.pc \in {"down", "ready", "asleep", "locking", "ticking", "ticked"}
           /\ p.sleep \in 0..(Longest + Jitter) /\ p.sleep \in Nat
           /\ p.age \in 0..MaxTick /\ p.stop \in BOOLEAN
<1>1. Longest + Jitter \in Nat
  BY Bounds, LongestSleep
<1> QED
  BY <1>1 DEF Process, Awake

\* A daemon that goes to sleep.
LEMMA SleepFields ==
    ASSUME daemon \in [Daemon -> Process], NEW d \in Daemon,
           NEW seconds \in 0..Longest, Sleeping(d, seconds)
    PROVE  /\ daemon' \in [Daemon -> Process]
           /\ daemon'[d].pc = "asleep" /\ daemon'[d].stop = daemon[d].stop
           /\ daemon'[d].sleep <= seconds + Jitter
           /\ \A c \in Daemon : c # d => daemon'[c] = daemon[c]
<1>1. PICK j \in 0..Jitter :
        daemon' = [daemon EXCEPT ![d].pc = "asleep", ![d].sleep = seconds + j,
                                 ![d].age = 0]
  BY DEF Sleeping
<1>2. Longest \in Nat /\ Jitter \in Nat /\ MaxTick \in Nat
  BY Bounds, LongestSleep
<1>3. seconds + j \in 0..(Longest + Jitter) /\ seconds + j <= seconds + Jitter
      /\ 0 \in 0..MaxTick
  BY <1>2
<1>4. daemon[d] \in Process
  OBVIOUS
<1>5. [daemon[d] EXCEPT !.pc = "asleep", !.sleep = seconds + j, !.age = 0] \in Process
  BY <1>3, <1>4 DEF Process
<1>6. daemon' = [daemon EXCEPT ![d] = [daemon[d] EXCEPT !.pc = "asleep",
                                       !.sleep = seconds + j, !.age = 0]]
  BY <1>1
<1>7. daemon' \in [Daemon -> Process]
  BY <1>5, <1>6
<1>8. /\ daemon'[d] = [daemon[d] EXCEPT !.pc = "asleep", !.sleep = seconds + j, !.age = 0]
      /\ \A c \in Daemon : c # d => daemon'[c] = daemon[c]
  BY <1>6
<1>9. /\ daemon'[d].pc = "asleep" /\ daemon'[d].stop = daemon[d].stop
      /\ daemon'[d].sleep = seconds + j
  BY <1>4, <1>8 DEF Process
<1> QED
  BY <1>3, <1>7, <1>8, <1>9

\* A daemon that changes its place.
LEMMA PlaceFields ==
    ASSUME daemon \in [Daemon -> Process], NEW d \in Daemon,
           NEW pc \in {"down", "ready", "asleep"} \cup Awake
    PROVE  LET new == [daemon EXCEPT ![d].pc = pc] IN
           /\ new \in [Daemon -> Process]
           /\ new[d].pc = pc /\ new[d].stop = daemon[d].stop
           /\ new[d].age = daemon[d].age /\ new[d].sleep = daemon[d].sleep
           /\ \A c \in Daemon : c # d => new[c] = daemon[c]
  BY DEF Process

LEMMA DownFields ==
    ASSUME daemon \in [Daemon -> Process], NEW d \in Daemon
    PROVE  LET new == [daemon EXCEPT ![d] = Down] IN
           /\ new \in [Daemon -> Process]
           /\ new[d].pc = "down" /\ ~new[d].stop
           /\ \A c \in Daemon : c # d => new[c] = daemon[c]
<1>1. Down \in Process
  BY Bounds, LongestSleep DEF Down, Process
<1> QED
  BY <1>1 DEF Down

LEMMA LeaseFields ==
    ASSUME NEW r \in LeaseRow(Daemon, TTL)
    PROVE  r.owner \in Daemon \cup {NoOwner} /\ r.left \in 0..TTL /\ r.left \in Nat
           /\ r.released \in BOOLEAN
  BY Bounds DEF LeaseRow
------------------------------------------------------------------------------
\* The loop of the daemon.

\* What keeps the halves of a daemon's own step: only daemon d has moved, neither
\* into a tick nor out of one.
LEMMA HoldingKept ==
    ASSUME Processes, NEW d \in Daemon, UNCHANGED <<holder, stage, todo>>,
           daemon[d].pc # "ticking", daemon'[d].pc # "ticking",
           \A c \in Daemon : c # d => daemon'[c] = daemon[c]
    PROVE  Holding'
  BY DEF Processes, Holding

\* A process that starts is alone, or one upset too many has been.
LEMMA StartKeeps ==
    ASSUME IInv, NEW d \in Daemon, Start(d)
    PROVE  IInv'
<1> USE Halves, HalvesNext DEF Start
<1>1. Unused(d)
  BY Zenon
<1>2. /\ daemon \in [Daemon -> Process] /\ daemon[d].pc = "down"
      /\ daemon' = [daemon EXCEPT ![d].pc = "ready"]
      /\ UNCHANGED <<file, db, lease, holder, lanes, repair, torn>>
  BY <1>1 DEF Unused, Processes, ProcessesTyped
<1>3. /\ daemon' \in [Daemon -> Process]
      /\ daemon'[d].pc = "ready" /\ daemon'[d].stop = daemon[d].stop
      /\ \A c \in Daemon : c # d => daemon'[c] = daemon[c]
  BY <1>2, PlaceFields, SMTT(30)
<1>4. Tables'
  BY <1>2, TablesKept DEF tables
<1>5. upsets' \in 0..MaxUpsets /\ (upsets' = 0 => upsets = 0 /\ \A c \in Daemon : daemon[c].pc = "down")
  BY Bounds DEF Processes, ProcessesTyped
<1>6. ProcessesTyped'
  BY <1>2, <1>3, <1>5 DEF Processes, ProcessesTyped
<1>7. Leased' /\ Unowned'
  BY <1>2, <1>3 DEF Processes, Leased, Unowned, Awake
<1>8. Holding'
  BY <1>2, <1>3, HoldingKept DEF lanes
<1>9. Alone'
  <2> SUFFICES ASSUME upsets' = 0
               PROVE  Alone'
    BY DEF Alone
  <2>1. \A c, e \in Daemon : daemon'[c].pc # "down" /\ daemon'[e].pc # "down" => c = e
    BY <1>3, <1>5
  <2>2. \A c \in Daemon : ~daemon'[c].stop
    BY <1>3, <1>5 DEF Processes, Alone
  <2>3. \A c \in Daemon : lease'.owner # c
    BY <1>2, <1>5 DEF Processes, Alone
  <2>4. (holder = Outside => ~In(todo, "put"))' /\ doctor' = "idle"
    BY <1>2, <1>5 DEF Processes, Alone, lanes, repair
  <2> QED
    BY <2>1, <2>2, <2>3, <2>4 DEF Alone
<1>10. WakesForRetry'
  BY <1>2, <1>3, <1>5 DEF Processes, WakesForRetry, Queued
<1> QED
  BY <1>4, <1>6, <1>7, <1>8, <1>9, <1>10 DEF Processes

\* Who is awake owns a lease that has not run out, so nobody else gets it.
LEMMA NobodyElseTakes ==
    ASSUME Processes, NEW d \in Daemon, MayTake(lease, d)
    PROVE  \A c \in Daemon : daemon[c].pc \in Awake => c = d
<1> SUFFICES ASSUME NEW c \in Daemon, daemon[c].pc \in Awake
             PROVE  c = d
  OBVIOUS
<1>1. lease.owner = c /\ ~lease.released /\ lease.left + daemon[c].age >= TTL
  BY DEF Processes, Leased
<1>2. daemon[c].age \in 0..MaxTick /\ lease.left \in Nat
  BY ProcessFields, LeaseFields DEF Processes, ProcessesTyped
<1>3. lease.left # 0
  BY <1>1, <1>2, Bounds
<1> QED
  BY <1>1, <1>3 DEF MayTake

LEMMA AcquireKeeps ==
    ASSUME IInv, NEW d \in Daemon, Acquire(d)
    PROVE  IInv'
<1> USE Halves, HalvesNext
<1>1. /\ daemon \in [Daemon -> Process] /\ daemon[d].pc = "ready"
      /\ lease' = AcquireLease(lease, d, TTL)
      /\ UNCHANGED <<file, db, holder, lanes, repair, upsets, torn>>
  BY DEF Acquire, Processes, ProcessesTyped
<1>2. Tables'
  BY <1>1, TablesKept DEF tables
<1>3. lease \in LeaseRow(Daemon, TTL)
  BY DEF Processes, ProcessesTyped
<1>4. CASE lease'.owner = d
  <2>1. daemon' = [daemon EXCEPT ![d].pc = "locking"]
    BY <1>4 DEF Acquire
  <2>2. /\ daemon' \in [Daemon -> Process]
        /\ daemon'[d].pc = "locking" /\ daemon'[d].stop = daemon[d].stop
        /\ daemon'[d].age = daemon[d].age
        /\ \A c \in Daemon : c # d => daemon'[c] = daemon[c]
    BY <1>1, <2>1, PlaceFields, ZenonT(40) DEF Awake
  <2>3. MayTake(lease, d)
    BY <1>1, <1>4 DEF AcquireLease, MayTake
  <2>4. lease' = [owner |-> d, left |-> TTL, released |-> FALSE]
    BY <1>1, <2>3 DEF AcquireLease
  <2>5. lease' \in LeaseRow(Daemon, TTL) /\ lease'.left = TTL
        /\ ~lease'.released /\ d # NoOwner
    BY <2>4, Bounds DEF LeaseRow
  <2>6. ProcessesTyped'
    BY <1>1, <2>2, <2>5 DEF Processes, ProcessesTyped
  <2>7. \A c \in Daemon : daemon[c].pc \in Awake => c = d
    BY <2>3, NobodyElseTakes
  <2>8. daemon'[d].age \in Nat
    BY <2>2, ProcessFields, Bounds
  <2>9. Leased' /\ Unowned'
    BY <1>4, <2>2, <2>5, <2>7, <2>8, Bounds DEF Leased, Unowned
  <2>10. Holding'
    BY <1>1, <2>2, HoldingKept DEF lanes
  <2>11. Alone'
    BY <1>1, <1>4, <2>2 DEF Processes, Alone, lanes, repair
  <2>12. WakesForRetry'
    BY <1>1, <2>2 DEF Processes, WakesForRetry, Queued
  <2> QED
    BY <1>2, <2>6, <2>9, <2>10, <2>11, <2>12 DEF Processes
<1>5. CASE lease'.owner # d
  <2>1. Sleeping(d, IdleInterval) /\ IdleInterval \in 0..Longest
    BY <1>5, Bounds, LongestSleep DEF Acquire
  <2>2. /\ daemon' \in [Daemon -> Process]
        /\ daemon'[d].pc = "asleep" /\ daemon'[d].stop = daemon[d].stop
        /\ \A c \in Daemon : c # d => daemon'[c] = daemon[c]
    BY <1>1, <2>1, SleepFields
  <2>3. ~MayTake(lease, d) /\ lease' = lease
    BY <1>1, <1>5 DEF AcquireLease
  <2>4. upsets # 0
    <3>1. ~lease.released /\ lease.owner # d
      BY <2>3 DEF MayTake
    <3>2. lease.owner \in Daemon
      BY <1>3, <3>1, LeaseFields DEF Processes, Unowned
    <3> QED
      BY <1>1, <3>1, <3>2 DEF Processes, Alone
  <2>5. ProcessesTyped' /\ Leased' /\ Unowned'
    BY <1>1, <2>2, <2>3 DEF Processes, ProcessesTyped, Leased, Unowned, Awake
  <2>6. Holding'
    BY <1>1, <2>2, HoldingKept DEF lanes
  <2>7. Alone' /\ WakesForRetry'
    BY <1>1, <2>4 DEF Alone, WakesForRetry
  <2> QED
    BY <1>2, <2>5, <2>6, <2>7 DEF Processes
<1> QED
  BY <1>4, <1>5

LEMMA LeaveLoopKeeps ==
    ASSUME IInv, NEW d \in Daemon, LeaveLoop(d)
    PROVE  IInv'
<1> USE Halves, HalvesNext
<1>1. /\ daemon \in [Daemon -> Process] /\ daemon[d].pc = "ready" /\ daemon[d].stop
      /\ lease' = ReleaseLease(lease, d)
      /\ daemon' = [daemon EXCEPT ![d] = Down]
      /\ UNCHANGED <<file, db, holder, lanes, repair, upsets, torn>>
  BY DEF LeaveLoop, Processes, ProcessesTyped
<1>2. Tables'
  BY <1>1, TablesKept DEF tables
<1>3. /\ daemon' \in [Daemon -> Process]
      /\ daemon'[d].pc = "down" /\ ~daemon'[d].stop
      /\ \A c \in Daemon : c # d => daemon'[c] = daemon[c]
  BY <1>1, DownFields
<1>4. upsets # 0
  BY <1>1 DEF Processes, Alone
<1>5. lease \in LeaseRow(Daemon, TTL)
  BY DEF Processes, ProcessesTyped
<1>6. /\ lease' \in LeaseRow(Daemon, TTL) /\ lease'.owner = lease.owner
      /\ lease'.left = lease.left
      /\ lease.owner # d => lease' = lease
      /\ lease.released => lease'.released
  BY <1>1, <1>5 DEF ReleaseLease, LeaseRow
<1>7. ProcessesTyped'
  BY <1>1, <1>3, <1>6 DEF Processes, ProcessesTyped
<1>8. Leased' /\ Unowned'
  BY <1>1, <1>3, <1>6 DEF Processes, Leased, Unowned, Awake
<1>9. Holding'
  BY <1>1, <1>3, HoldingKept DEF lanes
<1>10. Alone' /\ WakesForRetry'
  BY <1>1, <1>4 DEF Alone, WakesForRetry
<1> QED
  BY <1>2, <1>7, <1>8, <1>9, <1>10 DEF Processes

\* A daemon that goes to sleep where no retry is queued before it wakes.
LEMMA SleepKeeps ==
    ASSUME IInv, NEW d \in Daemon, daemon[d].pc \in {"locking", "ticked"},
           NEW seconds \in 0..Longest, Sleeping(d, seconds),
           \A l \in Queued(db) : seconds <= db.retry[l] + 1 \/ seconds <= ErrorInterval,
           UNCHANGED <<file, db, lease, holder, lanes, repair, upsets, torn>>
    PROVE  IInv'
<1> USE Halves, HalvesNext
<1>1. Tables'
  BY TablesKept DEF tables
<1>2. daemon \in [Daemon -> Process]
  BY DEF Processes, ProcessesTyped
<1>3. /\ daemon' \in [Daemon -> Process]
      /\ daemon'[d].pc = "asleep" /\ daemon'[d].stop = daemon[d].stop
      /\ daemon'[d].sleep <= seconds + Jitter
      /\ \A c \in Daemon : c # d => daemon'[c] = daemon[c]
  BY <1>2, SleepFields
<1>4. ProcessesTyped'
  BY <1>3 DEF Processes, ProcessesTyped
<1>5. Leased' /\ Unowned'
  BY <1>3 DEF Processes, Leased, Unowned, Awake
<1>6. Holding'
  BY <1>3, HoldingKept DEF lanes
<1>7. Alone'
  BY <1>3 DEF Processes, Alone, lanes, repair
<1>8. WakesForRetry'
  <2> SUFFICES ASSUME upsets = 0, NEW c \in Daemon, NEW l \in Queued(db),
                      daemon'[c].pc = "asleep"
               PROVE  \/ daemon'[c].sleep <= db.retry[l] + 1 + Jitter
                      \/ daemon'[c].sleep <= ErrorInterval + Jitter
    BY DEF WakesForRetry, Queued
  <2>1. CASE c = d
    <3>1. daemon'[d].sleep \in Nat
      BY <1>3, ProcessFields
    <3>2. db.retry[l] \in Int
      BY TableFields DEF Tables, TablesTyped, Queued
    <3> QED
      BY <1>3, <2>1, <3>1, <3>2, Bounds, LongestSleep
  <2>2. CASE c # d
    BY <1>3, <2>2 DEF Processes, WakesForRetry
  <2> QED
    BY <2>1, <2>2
<1> QED
  BY <1>1, <1>4, <1>5, <1>6, <1>7, <1>8 DEF Processes

LEMMA LockTimesOutKeeps ==
    ASSUME IInv, NEW d \in Daemon, LockTimesOut(d)
    PROVE  IInv'
<1>1. ErrorInterval \in 0..Longest /\ ErrorInterval <= ErrorInterval
  BY Bounds, LongestSleep
<1> QED
  BY <1>1, SleepKeeps DEF LockTimesOut

LEMMA FallAsleepKeeps ==
    ASSUME IInv, NEW d \in Daemon, FallAsleep(d)
    PROVE  IInv'
<1>1. CASE db.tick.status = "failed"
  <2>1. ErrorInterval \in 0..Longest /\ ErrorInterval <= ErrorInterval
    BY Bounds, LongestSleep
  <2> QED
    BY <1>1, <2>1, SleepKeeps DEF FallAsleep
<1>2. CASE db.tick.status # "failed"
  <2> DEFINE wait == IF Queued(db) = {} THEN NotQueued ELSE NextDue(db)
             seconds == NextSleep(ShownActive(db, file) # {}, wait)
  <2>1. db \in Database
    BY DEF IInv, TypeOK
  <2>2. wait \in NotQueued..MaxDelay
    BY <2>1, NextDueIsFirst, PolicyAssumption DEF NotQueued
  <2>3. seconds \in 0..Longest /\ (wait # NotQueued => seconds <= wait + 1)
    BY <2>2, SleepBounds
  <2>4. ASSUME NEW l \in Queued(db)
        PROVE  seconds <= db.retry[l] + 1
    <3>1. wait = NextDue(db) /\ wait \in 0..MaxDelay /\ wait <= db.retry[l]
      BY <2>1, <2>4, NextDueIsFirst
    <3>2. db.retry[l] \in Int /\ wait # NotQueued /\ wait \in Nat
      BY <2>1, <2>4, <3>1, TableFields, PolicyAssumption DEF Queued, NotQueued
    <3> HIDE DEF wait, seconds
    <3> QED
      BY <2>3, <3>1, <3>2, LongestSleep
  <2>5. Sleeping(d, seconds)
    BY <1>2 DEF FallAsleep
  <2> HIDE DEF seconds, wait
  <2> QED
    BY <2>3, <2>4, <2>5, SleepKeeps DEF FallAsleep
<1> QED
  BY <1>1, <1>2
LEMMA WakeKeeps ==
    ASSUME IInv, NEW d \in Daemon, Wake(d)
    PROVE  IInv'
<1> USE Halves, HalvesNext
<1>1. /\ daemon \in [Daemon -> Process] /\ daemon[d].pc = "asleep"
      /\ daemon' = [daemon EXCEPT ![d].pc = "ready", ![d].sleep = 0]
      /\ UNCHANGED <<file, db, lease, holder, lanes, repair, upsets, torn>>
  BY DEF Wake, Processes, ProcessesTyped
<1>2. Tables'
  BY <1>1, TablesKept DEF tables
<1>3. /\ daemon' \in [Daemon -> Process]
      /\ daemon'[d].pc = "ready" /\ daemon'[d].stop = daemon[d].stop
      /\ \A c \in Daemon : c # d => daemon'[c] = daemon[c]
  <2>1. daemon[d] \in Process /\ 0 \in 0..(Longest + Jitter)
    BY <1>1, Bounds, LongestSleep
  <2>2. [daemon[d] EXCEPT !.pc = "ready", !.sleep = 0] \in Process
    BY <2>1 DEF Process
  <2>3. daemon' = [daemon EXCEPT ![d] = [daemon[d] EXCEPT !.pc = "ready", !.sleep = 0]]
    BY <1>1
  <2>4. daemon' \in [Daemon -> Process]
    BY <1>1, <2>2, <2>3
  <2>5. /\ daemon'[d] = [daemon[d] EXCEPT !.pc = "ready", !.sleep = 0]
        /\ \A c \in Daemon : c # d => daemon'[c] = daemon[c]
    BY <1>1, <2>3
  <2> QED
    BY <2>1, <2>4, <2>5 DEF Process
<1>4. ProcessesTyped' /\ Leased' /\ Unowned'
  BY <1>1, <1>3 DEF Processes, ProcessesTyped, Leased, Unowned, Awake
<1>5. Holding'
  BY <1>1, <1>3, HoldingKept DEF lanes
<1>6. Alone'
  BY <1>1, <1>3 DEF Processes, Alone, lanes, repair
<1>7. WakesForRetry'
  BY <1>1, <1>3 DEF Processes, WakesForRetry, Queued
<1> QED
  BY <1>2, <1>4, <1>5, <1>6, <1>7 DEF Processes

LEMMA StopKeeps ==
    ASSUME IInv, NEW d \in Daemon, Stop(d)
    PROVE  IInv'
<1> USE Halves, HalvesNext
<1>1. /\ daemon \in [Daemon -> Process] /\ daemon[d].pc # "down"
      /\ daemon' = [daemon EXCEPT ![d].stop = TRUE]
      /\ upsets \in 0..MaxUpsets /\ upsets < MaxUpsets /\ upsets' = upsets + 1
      /\ UNCHANGED <<file, db, lease, holder, lanes, repair, torn>>
  BY DEF Stop, Processes, ProcessesTyped
<1>2. Tables'
  BY <1>1, TablesKept DEF tables
<1>3. /\ daemon' \in [Daemon -> Process]
      /\ \A c \in Daemon : daemon'[c].pc = daemon[c].pc /\ daemon'[c].age = daemon[c].age
  BY <1>1 DEF Process
<1>4. upsets' \in 0..MaxUpsets /\ upsets' # 0
  BY <1>1, Bounds
<1>5. ProcessesTyped' /\ Leased' /\ Unowned'
  BY <1>1, <1>3, <1>4 DEF Processes, ProcessesTyped, Leased, Unowned
<1>6. Holding'
  BY <1>1, <1>3 DEF Processes, Holding, lanes
<1>7. Alone' /\ WakesForRetry'
  BY <1>4 DEF Alone, WakesForRetry
<1> QED
  BY <1>2, <1>5, <1>6, <1>7 DEF Processes
------------------------------------------------------------------------------
\* Death.

\* What a dead holder of the state lock leaves: tables of which nothing is said.
LEMMA TornTables ==
    ASSUME Tables, UNCHANGED <<file, db>>, torn' = AllTables,
           mem' \in [Lane -> LaneRecord], copy' \in [Lane -> LaneRecord],
           stage' = "none" \/ stage' = stage, left' \subseteq Lane,
           at' \in Lane, to' \in LaneRecord, doctor' \in {"idle", "read", "cut"},
           \/ holder' = NoOne /\ todo' = <<>> /\ stage' = "none"
           \/ UNCHANGED <<holder, stage, todo, mem, to>>
    PROVE  Tables'
<1>1. TablesTyped'
  BY EmptySeq DEF Tables, TablesTyped, ItemsStayTorn, AllTables
<1>2. Ordered(todo, stage, to.status)'
  <2>1. CASE todo' = <<>>
    BY <2>1, NothingIn
  <2>2. CASE UNCHANGED <<stage, todo, to>>
    BY <2>2 DEF Tables
  <2> QED
    BY <2>1, <2>2
<1>3. "retries" \in torn' /\ "items" \in torn' /\ "scheduler" \in torn'
  BY DEF AllTables
<1>4. QueueFollows' /\ ItemsFollow' /\ SchedulerFollows'
  BY <1>3 DEF QueueFollows, ItemsFollow, SchedulerFollows
<1>5. TickIsAccounted'
  BY <1>3 DEF Tables, TickIsAccounted
<1>6. TickRows' /\ SavedOnLeave'
  <2>1. CASE holder' = NoOne /\ todo' = <<>> /\ stage' = "none"
    BY <2>1, Bounds DEF TickRows, SavedOnLeave
  <2>2. CASE UNCHANGED <<holder, stage, todo, mem, to>>
    BY <2>2 DEF Tables, TickRows, SavedOnLeave, TickOpens, TickGoes, TickCloses, Plain, In
  <2> QED
    BY <2>1, <2>2
<1> QED
  BY <1>1, <1>2, <1>4, <1>5, <1>6 DEF Tables

LEMMA SomeLaneTyped ==
    ASSUME TablesTyped
    PROVE  SomeLane \in Lane
  BY DEF TablesTyped, SomeLane

LEMMA KillKeeps ==
    ASSUME IInv, NEW d \in Daemon, Kill(d)
    PROVE  IInv'
<1> USE Halves, HalvesNext
<1>1. /\ daemon \in [Daemon -> Process] /\ daemon' = [daemon EXCEPT ![d] = Down]
      /\ upsets \in 0..MaxUpsets /\ upsets < MaxUpsets /\ upsets' = upsets + 1
      /\ holder \in {NoOne, Outside} \cup Daemon
      /\ UNCHANGED <<file, db, lease, repair>>
  BY DEF Kill, Processes, ProcessesTyped
<1>2. /\ daemon' \in [Daemon -> Process]
      /\ daemon'[d].pc = "down" /\ ~daemon'[d].stop
      /\ \A c \in Daemon : c # d => daemon'[c] = daemon[c]
  BY <1>1, DownFields
<1>3. upsets' \in 0..MaxUpsets /\ upsets' # 0
  BY <1>1, Bounds
<1>4. Leased' /\ Unowned'
  BY <1>1, <1>2 DEF Processes, Leased, Unowned, Awake
<1>5. Alone' /\ WakesForRetry'
  BY <1>3 DEF Alone, WakesForRetry
<1>6. CASE holder = d
  <2>1. /\ holder' = NoOne /\ stage' = "none" /\ left' = {} /\ todo' = <<>>
        /\ mem' = [l \in Lane |-> NewLane] /\ at' = SomeLane /\ to' = NewLane
        /\ torn' = AllTables
    BY <1>6 DEF Kill, Vanishes
  <2>2. Tables'
    BY <1>1, <2>1, TornTables, NewLaneTyped, SomeLaneTyped DEF Tables, TablesTyped, repair
  <2>3. ProcessesTyped'
    BY <1>1, <1>2, <1>3, <2>1 DEF Processes, ProcessesTyped
  <2>4. Holding'
    BY <1>2, <1>6, <2>1, Bounds DEF Processes, Holding
  <2> QED
    BY <1>4, <1>5, <2>2, <2>3, <2>4 DEF Processes
<1>7. CASE holder # d
  <2>1. UNCHANGED <<holder, lanes, torn>>
    BY <1>7 DEF Kill
  <2>2. Tables'
    BY <1>1, <2>1, TablesKept DEF tables
  <2>3. ProcessesTyped'
    BY <1>1, <1>2, <1>3, <2>1 DEF Processes, ProcessesTyped
  <2>4. Holding'
    BY <1>2, <1>7, <2>1, HoldingKept DEF Processes, Holding, lanes
  <2> QED
    BY <1>4, <1>5, <2>2, <2>3, <2>4 DEF Processes
<1> QED
  BY <1>6, <1>7

\* TickBreaks: the lock is given up as by a kill, and the daemon sleeps.
LEMMA TickBreaksKeeps ==
    ASSUME IInv, NEW d \in Daemon, TickBreaks(d)
    PROVE  IInv'
<1> USE Halves, HalvesNext
<1>1. /\ daemon \in [Daemon -> Process] /\ ErrorInterval \in 0..Longest
      /\ Sleeping(d, ErrorInterval) /\ holder = d
      /\ upsets \in 0..MaxUpsets /\ upsets < MaxUpsets /\ upsets' = upsets + 1
      /\ UNCHANGED <<file, db, lease, repair>>
  BY Bounds, LongestSleep DEF TickBreaks, Processes, ProcessesTyped
<1>2. /\ daemon' \in [Daemon -> Process] /\ daemon'[d].pc = "asleep"
      /\ \A c \in Daemon : c # d => daemon'[c] = daemon[c]
  BY <1>1, SleepFields
<1>3. /\ holder' = NoOne /\ stage' = "none" /\ left' = {} /\ todo' = <<>>
      /\ mem' = [l \in Lane |-> NewLane] /\ at' = SomeLane /\ to' = NewLane
      /\ torn' = AllTables
  BY DEF TickBreaks, Vanishes
<1>4. upsets' \in 0..MaxUpsets /\ upsets' # 0
  BY <1>1, Bounds
<1>5. Tables'
  BY <1>1, <1>3, TornTables, NewLaneTyped, SomeLaneTyped DEF Tables, TablesTyped, repair
<1>6. ProcessesTyped'
  BY <1>1, <1>2, <1>3, <1>4 DEF Processes, ProcessesTyped
<1>7. Leased' /\ Unowned'
  BY <1>1, <1>2 DEF Processes, Leased, Unowned, Awake
<1>8. Holding'
  BY <1>1, <1>2, <1>3, Bounds DEF Processes, Holding
<1>9. Alone' /\ WakesForRetry'
  BY <1>4 DEF Alone, WakesForRetry
<1> QED
  BY <1>5, <1>6, <1>7, <1>8, <1>9 DEF Processes

LEMMA KillOtherKeeps ==
    ASSUME IInv, KillOther
    PROVE  IInv'
<1> USE Halves, HalvesNext
<1>1. /\ upsets \in 0..MaxUpsets /\ upsets < MaxUpsets /\ upsets' = upsets + 1
      /\ torn' = AllTables
      /\ UNCHANGED <<file, db, lease, daemon>>
  BY DEF KillOther, Processes, ProcessesTyped
<1>2. upsets' \in 0..MaxUpsets /\ upsets' # 0
  BY <1>1, Bounds
<1>3. Leased' /\ Unowned'
  BY <1>1 DEF Processes, Leased, Unowned
<1>4. Alone' /\ WakesForRetry'
  BY <1>2 DEF Alone, WakesForRetry
<1>5. CASE /\ holder = Outside
           /\ holder' = NoOne /\ stage' = "none" /\ todo' = <<>>
           /\ mem' = [l \in Lane |-> NewLane] /\ at' = SomeLane /\ to' = NewLane
           /\ UNCHANGED <<left, repair>>
  <2>1. Tables'
    BY <1>1, <1>5, TornTables, NewLaneTyped, SomeLaneTyped DEF Tables, TablesTyped, repair
  <2>2. ProcessesTyped'
    BY <1>1, <1>2, <1>5 DEF Processes, ProcessesTyped
  <2>3. Holding'
    BY <1>1, <1>5, Bounds DEF Processes, Holding
  <2> QED
    BY <1>3, <1>4, <2>1, <2>2, <2>3 DEF Processes
<1>6. CASE /\ doctor = "cut" /\ doctor' = "idle"
           /\ copy' = [l \in Lane |-> NewLane]
           /\ UNCHANGED <<holder, lanes>>
  <2>1. Tables'
    BY <1>1, <1>6, TornTables, NewLaneTyped DEF Tables, TablesTyped, lanes
  <2>2. ProcessesTyped'
    BY <1>1, <1>2, <1>6 DEF Processes, ProcessesTyped
  <2>3. Holding'
    BY <1>1, <1>6 DEF Processes, Holding, lanes
  <2> QED
    BY <1>3, <1>4, <2>1, <2>2, <2>3 DEF Processes
<1> QED
  BY <1>5, <1>6 DEF KillOther
------------------------------------------------------------------------------
\* Taking and leaving the state lock.

\* Who takes the lock reads the file, and the tables follow what it has read.
LEMMA LockTaken ==
    ASSUME Tables, Holding, holder = NoOne, holder' # NoOne,
           mem' = file, UNCHANGED <<file, db, repair, torn>>,
           In(todo', "set") /\ to'.status = "retry_queued" => In(todo', "put"),
           stage' = "leave" => In(todo', "snap")
    PROVE  SavedOnLeave' /\ QueueFollows' /\ ItemsFollow' /\ SchedulerFollows'
<1>1. todo = <<>> /\ Lanes = file /\ Lanes' = file
  BY DEF Holding, Lanes
<1>2. \A l, x : ~Due(l, x)
  BY <1>1, NothingIn DEF Due
<1>3. QueueFollows'
  <2> SUFFICES ASSUME "retries" \notin torn, doctor # "cut"
               PROVE  QueueFollows'
    BY DEF QueueFollows, repair
  <2>1. \A l \in Lane : file[l].status = "retry_queued" => db.retry[l] = file[l].due
    BY <1>1, <1>2 DEF Tables, QueueFollows
  <2>2. \A l \in Lane : Lanes'[l].status = "retry_queued" => db'.retry[l] = Lanes'[l].due
    BY <1>1, <2>1
  <2> QED
    BY <2>2 DEF QueueFollows
<1>4. ItemsFollow'
  <2> SUFFICES ASSUME "items" \notin torn
               PROVE  ItemsFollow'
    BY DEF ItemsFollow
  <2>1. \A l \in Lane : /\ db.item[l] = file[l].status
                       /\ file[l].status \in {"none", "claimed", db.moved[l]}
    BY <1>1, <1>2 DEF Tables, ItemsFollow
  <2> QED
    BY <1>1, <2>1 DEF ItemsFollow
<1>5. SchedulerFollows' /\ SavedOnLeave'
  BY DEF SchedulerFollows, SavedOnLeave
<1> QED
  BY <1>3, <1>4, <1>5

LEMMA EnterTickKeeps ==
    ASSUME IInv, NEW d \in Daemon, EnterTick(d)
    PROVE  IInv'
<1> USE Halves, HalvesNext
<1>1. /\ daemon \in [Daemon -> Process] /\ daemon[d].pc = "locking" /\ holder = NoOne
      /\ holder' = d /\ daemon' = [daemon EXCEPT ![d].pc = "ticking"]
      /\ stage' = "reconcile" /\ left' = ActiveOf(file) /\ mem' = file
      /\ todo' = <<"start", "started">>
      /\ UNCHANGED <<file, db, lease, at, to, repair, upsets, torn>>
      /\ holder' # NoOne /\ holder' # Outside
  BY Bounds DEF EnterTick, LetIn, Processes, ProcessesTyped
<1>2. /\ daemon' \in [Daemon -> Process]
      /\ daemon'[d].pc = "ticking" /\ daemon'[d].stop = daemon[d].stop
      /\ daemon'[d].age = daemon[d].age
      /\ \A c \in Daemon : c # d => daemon'[c] = daemon[c]
  BY <1>1, PlaceFields, ZenonT(40) DEF Awake
<1>3. /\ todo' \in Seq(Commits) /\ Ordered(todo', stage', to'.status)
      /\ ~In(todo', "set") /\ ~In(todo', "put")
  BY <1>1, OpeningOrdered
<1>4. TablesTyped'
  BY <1>1, <1>3 DEF Tables, TablesTyped, ItemsStayTorn, repair, ActiveOf
<1>5. TickRows' /\ TickIsAccounted'
  BY <1>1 DEF Tables, TickRows, TickOpens, TickIsAccounted
<1>6. SavedOnLeave' /\ QueueFollows' /\ ItemsFollow' /\ SchedulerFollows'
  BY <1>1, <1>3, LockTaken DEF Processes
<1>7. Tables'
  BY <1>3, <1>4, <1>5, <1>6 DEF Tables
<1>8. ProcessesTyped'
  BY <1>1, <1>2 DEF Processes, ProcessesTyped
<1>9. Leased' /\ Unowned'
  BY <1>1, <1>2 DEF Processes, Leased, Unowned, Awake
<1>10. Holding'
  BY <1>1, <1>2, Bounds DEF Processes, Holding
<1>11. Alone'
  BY <1>1, <1>2 DEF Processes, Alone, repair
<1>12. WakesForRetry'
  BY <1>1, <1>2 DEF Processes, WakesForRetry, Queued
<1> QED
  BY <1>7, <1>8, <1>9, <1>10, <1>11, <1>12 DEF Processes

\* A worker or an operator takes the lock.
LEMMA OutsideEnters ==
    ASSUME IInv, LetIn, holder' = Outside, stage' = "leave", mem' = file,
           UNCHANGED <<file, db, lease, daemon, left, repair, torn>>,
           at' \in Lane, to' \in LaneRecord, todo' \in Seq(Commits),
           Ordered(todo', "leave", to'.status), Plain(todo'), In(todo', "snap"),
           to'.status = "retry_queued" => In(todo', "put"),
           upsets' \in 0..MaxUpsets,
           upsets' = 0 => upsets = 0 /\ ~In(todo', "put")
    PROVE  IInv'
<1> USE Halves, HalvesNext
<1>1. holder = NoOne /\ holder' # NoOne /\ holder' \notin Daemon
  BY Bounds DEF LetIn
<1>2. TablesTyped'
  BY DEF Tables, TablesTyped, ItemsStayTorn, repair
<1>3. Ordered(todo, stage, to.status)'
  OBVIOUS
<1>4. TickRows' /\ TickIsAccounted'
  BY <1>1, Bounds DEF Tables, TickRows, TickIsAccounted, Plain, In
<1>5. SavedOnLeave' /\ QueueFollows' /\ ItemsFollow' /\ SchedulerFollows'
  BY <1>1, LockTaken DEF Processes
<1>6. Tables'
  BY <1>2, <1>3, <1>4, <1>5 DEF Tables
<1>7. ProcessesTyped' /\ Leased' /\ Unowned'
  BY DEF Processes, ProcessesTyped, Leased, Unowned
<1>8. Holding'
  BY <1>1, Bounds DEF Processes, Holding
<1>9. Alone' /\ WakesForRetry'
  BY DEF Processes, Alone, WakesForRetry, Queued, repair
<1> QED
  BY <1>6, <1>7, <1>8, <1>9 DEF Processes

LEMMA FileKeeps ==
    ASSUME IInv, NEW l \in Lane, File(l)
    PROVE  IInv'
<1>1. file[l] \in LaneRecord /\ upsets \in 0..MaxUpsets
  BY DEF IInv, TypeOK
<1>2. PICK status \in {"claimed", "operator_attention"}, known \in {file[l].thread, TRUE} :
        /\ at' = l
        /\ to' = [file[l] EXCEPT !.status = status, !.thread = known]
        /\ todo' = <<"clear">> \o Transition \o <<"session">> \o Saved
  BY DEF File
<1>3. todo' = <<"clear", "set", "item", "event", "session", "save", "snap">>
  BY <1>2, ClearList, SessionList, SessionSavedList
<1>4. known \in BOOLEAN /\ status \in Status
  BY <1>1, LaneFields DEF Status
<1>5. to' \in LaneRecord /\ to'.status = status /\ status # "retry_queued"
  BY <1>1, <1>2, <1>4 DEF LaneRecord
<1>6. /\ todo' \in Seq(Commits) /\ Plain(todo') /\ Ordered(todo', "leave", to'.status)
      /\ ~In(todo', "put") /\ In(todo', "snap")
  BY <1>3, <1>5, FiledOrdered
<1> QED
  BY <1>1, <1>2, <1>5, <1>6, OutsideEnters DEF File

LEMMA OperateKeeps ==
    ASSUME IInv, NEW l \in Lane, Operate(l)
    PROVE  IInv'
<1>1. /\ file[l] \in LaneRecord /\ upsets \in 0..MaxUpsets
      /\ upsets < MaxUpsets /\ upsets' = upsets + 1
  BY DEF IInv, TypeOK, Operate
<1>2. upsets' \in 0..MaxUpsets /\ upsets' # 0
  BY <1>1, Bounds
<1>3. CASE /\ MayRetry(file[l].attempt)
           /\ to' = [file[l] EXCEPT !.status = "retry_queued", !.attempt = @ + 1,
                                    !.due = Delay(file[l].attempt + 1)]
           /\ todo' = <<"put">> \o Transition \o Saved
  <2>1. todo' = <<"put", "set", "item", "event", "save", "snap">>
    BY <1>3, PutList, PutSavedList
  <2>2. file[l].attempt + 1 \in 1..MaxAttempts
    BY <1>1, <1>3, LaneFields, PolicyAssumption DEF MayRetry
  <2>3. Delay(file[l].attempt + 1) \in NotQueued..MaxDelay
    BY DelayBounds, PolicyAssumption DEF NotQueued
  <2>4. to' \in LaneRecord /\ to'.status = "retry_queued"
    BY <1>1, <1>3, <2>2, <2>3 DEF LaneRecord, Status
  <2>5. /\ todo' \in Seq(Commits) /\ Plain(todo') /\ Ordered(todo', "leave", "retry_queued")
        /\ In(todo', "put") /\ In(todo', "snap")
    BY <2>1, RetrySavedOrdered
  <2> QED
    BY <1>2, <2>4, <2>5, OutsideEnters DEF Operate
<1>4. CASE /\ to' = [file[l] EXCEPT !.status = "released", !.due = NotQueued]
           /\ todo' = <<"clear">> \o Transition \o Saved
  <2>1. todo' = <<"clear", "set", "item", "event", "save", "snap">>
    BY <1>4, ClearList, ClearSavedList
  <2>2. NotQueued \in NotQueued..MaxDelay
    BY PolicyAssumption DEF NotQueued
  <2>3. to' \in LaneRecord /\ to'.status = "released"
    BY <1>1, <1>4, <2>2 DEF LaneRecord, Status, Terminal
  <2>4. /\ todo' \in Seq(Commits) /\ Plain(todo') /\ Ordered(todo', "leave", to'.status)
        /\ In(todo', "snap")
    BY <2>1, <2>3, SettledOrdered
  <2> QED
    BY <1>2, <2>3, <2>4, OutsideEnters DEF Operate
<1> QED
  BY <1>3, <1>4 DEF Operate

\* Who leaves has saved the lanes, so the tables follow the file again.
LEMMA LeaveKeeps ==
    ASSUME IInv, Leave
    PROVE  IInv'
<1> USE Halves, HalvesNext
<1>1. /\ stage = "leave" /\ todo = <<>> /\ holder' = NoOne /\ stage' = "none"
      /\ mem' = [l \in Lane |-> NewLane] /\ at' = SomeLane /\ to' = NewLane
      /\ UNCHANGED <<file, db, lease, left, todo, repair, upsets, torn>>
      /\ holder # NoOne /\ holder \in {NoOne, Outside} \cup Daemon
  BY DEF Leave, Processes, Holding, ProcessesTyped
<1>2. file = mem /\ Lanes = mem /\ Lanes' = file
  BY <1>1, NothingIn DEF Tables, SavedOnLeave, Lanes
<1>3. TablesTyped'
  BY <1>1, NewLaneTyped, SomeLaneTyped DEF Tables, TablesTyped, ItemsStayTorn, repair
<1>4. Ordered(todo, stage, to.status)'
  BY <1>1, NothingIn
<1>5. TickRows' /\ SavedOnLeave'
  BY <1>1, Bounds DEF TickRows, SavedOnLeave
<1>6. TickIsAccounted'
  <2>1. CASE holder \in Daemon
    <3>1. db.tick.status \in {"completed", "failed"}
      BY <1>1, <2>1 DEF Tables, TickRows, TickCloses
    <3> QED
      BY <1>1, <3>1 DEF Tables, TickIsAccounted
  <2>2. CASE holder \notin Daemon
    BY <1>1, <2>2 DEF Tables, TickIsAccounted
  <2> QED
    BY <2>1, <2>2
<1>7. \A l, x : ~Due(l, x)
  BY <1>1, NothingIn DEF Due
<1>8. QueueFollows'
  <2> SUFFICES ASSUME "retries" \notin torn, doctor # "cut"
               PROVE  QueueFollows'
    BY <1>1 DEF QueueFollows, repair
  <2>1. \A l \in Lane : file[l].status = "retry_queued" => db.retry[l] = file[l].due
    BY <1>2, <1>7 DEF Tables, QueueFollows
  <2>2. ~In(todo', "set")
    BY <1>1, NothingIn
  <2> QED
    BY <1>1, <1>2, <2>1, <2>2 DEF QueueFollows
<1>9. ItemsFollow'
  <2> SUFFICES ASSUME "items" \notin torn
               PROVE  ItemsFollow'
    BY <1>1 DEF ItemsFollow
  <2>1. \A l \in Lane : /\ db.item[l] = file[l].status
                       /\ file[l].status \in {"none", "claimed", db.moved[l]}
    BY <1>2, <1>7 DEF Tables, ItemsFollow
  <2> QED
    BY <1>1, <1>2, <2>1 DEF ItemsFollow
<1>10. SchedulerFollows'
  BY <1>1, NothingIn DEF Tables, SchedulerFollows, SchedulerPayload, repair
<1>11. Tables'
  BY <1>3, <1>4, <1>5, <1>6, <1>8, <1>9, <1>10 DEF Tables
<1>12. CASE holder = Outside
  <2>1. daemon' = daemon
    BY <1>12 DEF Leave
  <2>2. ProcessesTyped' /\ Leased' /\ Unowned'
    BY <1>1, <2>1 DEF Processes, ProcessesTyped, Leased, Unowned
  <2>3. Holding'
    BY <1>1, <1>12, <2>1, Bounds DEF Processes, Holding
  <2>4. Alone' /\ WakesForRetry'
    BY <1>1, <2>1, Bounds DEF Processes, Alone, WakesForRetry, Queued, repair
  <2> QED
    BY <1>11, <2>2, <2>3, <2>4 DEF Processes
<1>13. CASE holder \in Daemon
  <2>1. daemon' = [daemon EXCEPT ![holder].pc = "ticked"] /\ daemon[holder].pc = "ticking"
    BY <1>13, Bounds DEF Leave, Processes, Holding
  <2>2. /\ daemon' \in [Daemon -> Process]
        /\ daemon'[holder].pc = "ticked" /\ daemon'[holder].stop = daemon[holder].stop
        /\ daemon'[holder].age = daemon[holder].age
        /\ \A c \in Daemon : c # holder => daemon'[c] = daemon[c]
    BY <1>13, <2>1, PlaceFields, ZenonT(40) DEF Awake, Processes, ProcessesTyped
  <2>3. ProcessesTyped'
    BY <1>1, <2>2 DEF Processes, ProcessesTyped
  <2>4. Leased' /\ Unowned'
    BY <1>1, <1>13, <2>1, <2>2 DEF Processes, Leased, Unowned, Awake
  <2>5. Holding'
    BY <1>1, <1>13, <2>2, Bounds DEF Processes, Holding
  <2>6. Alone'
    BY <1>1, <1>13, <2>1, <2>2, Bounds DEF Processes, Alone, repair
  <2>7. WakesForRetry'
    BY <1>1, <1>13, <2>2 DEF Processes, WakesForRetry, Queued
  <2> QED
    BY <1>11, <2>3, <2>4, <2>5, <2>6, <2>7 DEF Processes
<1> QED
  BY <1>1, <1>12, <1>13
------------------------------------------------------------------------------
\* One commit.

\* The tables' rows are typed, and so is what is left of the list.
LEMMA CommitFields ==
    ASSUME Tables, Processes, Commit
    PROVE  /\ todo # <<>> /\ Head(todo) \in Commits
           /\ todo' = Tail(todo) /\ todo' \in Seq(Commits)
           /\ db' = Written(Head(todo)) /\ db' \in Database
           /\ holder # NoOne /\ Lanes = mem /\ Lanes' = mem'
           /\ mem' \in [Lane -> LaneRecord] /\ file' \in [Lane -> LaneRecord]
           /\ at \in Lane /\ to \in LaneRecord /\ mem[at] \in LaneRecord
           /\ at' \in Lane /\ to' \in LaneRecord
           /\ todo' # <<>> => UNCHANGED <<at, to>>
           /\ Head(todo) # "set" => mem' = mem
           /\ Head(todo) = "set" => mem' = [mem EXCEPT ![at] = to]
           /\ Head(todo) # "save" => file' = file
           /\ Head(todo) = "save" => file' = mem
           /\ UNCHANGED <<lease, daemon, holder, stage, left, repair, upsets>>
<1>1. todo # <<>> /\ todo \in Seq(Commits) /\ todo' = Tail(todo)
  BY DEF Commit, Tables, TablesTyped
<1>2. Head(todo) \in Commits /\ todo' \in Seq(Commits)
  BY <1>1, TailElements
<1>3. TypeOK
  BY Halves DEF Tables, Processes, TablesTyped, ProcessesTyped, TypeOK, Process
<1>4. db' = Written(Head(todo)) /\ db' \in Database
  BY <1>2, <1>3, CommitWrites DEF Commit
<1>5. holder # NoOne /\ Lanes = mem /\ Lanes' = mem'
  BY <1>1 DEF Commit, Processes, Holding, Lanes
<1>6. at \in Lane /\ to \in LaneRecord /\ mem[at] \in LaneRecord
  BY DEF Tables, TablesTyped
<1>7. mem' \in [Lane -> LaneRecord] /\ file' \in [Lane -> LaneRecord]
  BY <1>6 DEF Commit, Tables, TablesTyped
<1>8. at' \in Lane /\ to' \in LaneRecord /\ (todo' # <<>> => UNCHANGED <<at, to>>)
  BY <1>6, NewLaneTyped, SomeLaneTyped DEF Commit, Tables
<1> QED
  BY <1>1, <1>2, <1>4, <1>5, <1>6, <1>7, <1>8 DEF Commit

LEMMA CommitKeepsOrder ==
    ASSUME Tables, Processes, Commit
    PROVE  Ordered(todo, stage, to.status)'
<1>1. todo # <<>> /\ todo \in Seq(Commits) /\ todo' = Tail(todo) /\ stage' = stage
      /\ Ordered(todo, stage, to.status)
  BY DEF Commit, Tables, TablesTyped
<1>2. Ordered(todo', stage, to.status)
  BY <1>1, OrderedTail
<1>3. CASE todo' = <<>>
  BY <1>3, NothingIn
<1>4. CASE todo' # <<>>
  BY <1>1, <1>2, <1>4, CommitFields
<1> QED
  BY <1>3, <1>4

\* The row of the tick and its events.
LEMMA CommitKeepsTick ==
    ASSUME Tables, Processes, Commit
    PROVE  TickRows' /\ TickIsAccounted'
<1> DEFINE step == Head(todo)
<1>1. /\ todo # <<>> /\ todo \in Seq(Commits) /\ todo' = Tail(todo)
      /\ step \in Commits /\ db' = Written(step)
      /\ UNCHANGED <<holder, stage>>
      /\ torn' = IF step = "snap" THEN torn \ {"scheduler"} ELSE torn
      /\ holder \in {Outside} \cup Daemon /\ stage \in {"reconcile", "intake", "route", "leave"}
      /\ Outside \notin Daemon
  BY CommitFields, Bounds DEF Commit, Tables, TablesTyped, Processes, ProcessesTyped, Holding
<1>2. db \in Database /\ db.tick \in TickRow
      /\ db.tick.told \in SUBSET {"started", "ended"}
  BY TableFields DEF Tables, TablesTyped
<1>3. TypeOK
  BY Halves DEF Tables, Processes, TablesTyped, ProcessesTyped, TypeOK, Process
<1>4. /\ step = "start" => db'.tick.status = "running" /\ db'.tick.told = {}
      /\ step = "started" => db'.tick.status = db.tick.status
                              /\ db'.tick.told = db.tick.told \cup {"started"}
      /\ step = "ended" => db'.tick.status = db.tick.status
                            /\ db'.tick.told = db.tick.told \cup {"ended"}
      /\ step \in {"completed", "failed"} => db'.tick.status = step
                                             /\ db'.tick.told = db.tick.told
      /\ step \notin Accounts => db'.tick = db.tick
  <2>1. db'.tick = CASE step = "start" -> [status |-> "running", told |-> {}]
                     [] step = "started" -> [db.tick EXCEPT !.told = @ \cup {"started"}]
                     [] step = "ended" -> [db.tick EXCEPT !.told = @ \cup {"ended"}]
                     [] step \in {"completed", "failed"} -> [db.tick EXCEPT !.status = step]
                     [] OTHER -> db.tick
    BY <1>1, <1>3, CommitWrites
  <2> HIDE DEF step
  <2> QED
    BY <1>2, <2>1 DEF TickRow, Accounts
<1>5. torn' = {} => torn = {} \/ torn = {"scheduler"}
  BY <1>1 DEF Tables, TablesTyped, AllTables
<1>6. CASE TickOpens /\ holder \in Daemon /\ stage = "reconcile"
  <2>1. CASE todo = <<"start", "started">>
    <3>1. step = "start" /\ todo' = <<"started">>
      BY <1>1, <2>1
    <3> QED
      BY <1>1, <1>4, <1>6, <3>1 DEF TickRows, TickIsAccounted, TickOpens
  <2>2. CASE todo = <<"started">> /\ db.tick.status = "running" /\ db.tick.told = {}
    <3>1. step = "started" /\ todo' = <<>>
      BY <1>1, <2>2
    <3>2. Plain(todo') /\ db'.tick.status = "running" /\ db'.tick.told = {"started"}
      BY <1>4, <2>2, <3>1, NothingIn
    <3>3. TickGoes'
      BY <3>2 DEF TickGoes, Plain, In
    <3> QED
      BY <1>1, <1>6, <3>2, <3>3 DEF TickRows, TickIsAccounted
  <2> QED
    BY <1>6, <2>1, <2>2 DEF TickOpens
<1>7. CASE TickGoes /\ holder \in Daemon /\ stage # "leave"
  <2>1. Plain(todo') /\ step \notin Accounts
    BY <1>1, <1>7, PlainTail DEF TickGoes
  <2>2. db'.tick = db.tick
    BY <1>4, <2>1
  <2>3. TickGoes'
    BY <1>7, <2>1, <2>2 DEF TickGoes, Plain, In
  <2> QED
    BY <1>1, <1>7, <2>2, <2>3 DEF TickRows, TickIsAccounted, TickGoes
<1>8. CASE TickCloses /\ holder \in Daemon /\ stage = "leave"
  <2>1. CASE /\ db.tick.status = "running" /\ db.tick.told = {"started"}
             /\ \E s \in {"completed", "failed"} :
                   todo \in {<<"save", "snap", "ended", s>>, <<"snap", "ended", s>>,
                             <<"ended", s>>}
    <3>1. PICK s \in {"completed", "failed"} :
            todo \in {<<"save", "snap", "ended", s>>, <<"snap", "ended", s>>, <<"ended", s>>}
      BY <2>1
    <3>2. CASE todo \in {<<"save", "snap", "ended", s>>, <<"snap", "ended", s>>}
      <4>1. step \in {"save", "snap"}
            /\ todo' \in {<<"snap", "ended", s>>, <<"ended", s>>}
        <5>1. CASE todo = <<"save", "snap", "ended", s>>
          BY <1>1, <5>1
        <5>2. CASE todo = <<"snap", "ended", s>>
          BY <1>1, <5>2
        <5> QED
          BY <3>2, <5>1, <5>2
      <4>2. db'.tick = db.tick
        BY <1>4, <4>1 DEF Accounts
      <4>3. TickCloses'
        BY <2>1, <4>1, <4>2 DEF TickCloses
      <4> QED
        BY <1>1, <1>8, <2>1, <4>2, <4>3 DEF TickRows, TickIsAccounted
    <3>3. CASE todo = <<"ended", s>>
      <4>1. step = "ended" /\ todo' = <<s>>
        BY <1>1, <3>3
      <4>2. db'.tick.status = "running" /\ db'.tick.told = {"started", "ended"}
        BY <1>4, <2>1, <4>1
      <4>3. TickCloses'
        BY <4>1, <4>2 DEF TickCloses
      <4> QED
        BY <1>1, <1>8, <4>2, <4>3 DEF TickRows, TickIsAccounted
    <3> QED
      BY <3>1, <3>2, <3>3
  <2>2. CASE /\ db.tick.status = "running" /\ db.tick.told = {"started", "ended"}
             /\ todo \in {<<"completed">>, <<"failed">>}
    <3>1. step \in {"completed", "failed"} /\ todo' = <<>>
      BY <1>1, <2>2
    <3>2. db'.tick.status \in {"completed", "failed"} /\ db'.tick.told = {"started", "ended"}
      BY <1>4, <2>2, <3>1
    <3>3. TickCloses'
      BY <3>1, <3>2 DEF TickCloses
    <3> QED
      BY <1>1, <1>8, <3>2, <3>3 DEF TickRows, TickIsAccounted
  <2> QED
    BY <1>1, <1>8, <2>1, <2>2 DEF TickCloses
<1>9. CASE holder = Outside
  <2>1. Plain(todo') /\ step \notin Accounts
    BY <1>1, <1>9, PlainTail DEF Tables, TickRows
  <2>2. db'.tick = db.tick
    BY <1>4, <2>1
  <2>3. TickRows'
    BY <1>1, <1>9, <2>1 DEF TickRows, Plain, In
  <2>4. db.tick.status = "running" => torn # {} /\ torn # {"scheduler"}
    BY <1>1, <1>9 DEF Tables, TickIsAccounted, TablesTyped, ItemsStayTorn
  <2> QED
    BY <1>1, <1>5, <2>2, <2>3, <2>4 DEF Tables, TickIsAccounted
<1> QED
  BY <1>1, <1>6, <1>7, <1>8, <1>9 DEF Tables, TickRows

\* Who is about to leave has saved what it has set.
LEMMA CommitKeepsSaved ==
    ASSUME Tables, Processes, Commit
    PROVE  SavedOnLeave'
<1> SUFFICES ASSUME stage' = "leave", ~In(todo', "save")
             PROVE  file' = mem'
  BY DEF SavedOnLeave
<1>1. /\ todo # <<>> /\ todo \in Seq(Commits) /\ todo' = Tail(todo) /\ stage = "leave"
      /\ Followed(todo, "set", "save")
  BY CommitFields DEF Tables, TablesTyped, Ordered
<1>2. Head(todo) # "set"
  BY <1>1, FollowedTail
<1>3. CASE Head(todo) = "save"
  BY <1>2, <1>3, CommitFields
<1>4. CASE Head(todo) # "save"
  <2>1. ~In(todo, "save")
    BY <1>1, <1>4, InTail
  <2>2. file = mem
    BY <1>1, <2>1 DEF Tables, SavedOnLeave
  <2> QED
    BY <1>2, <1>4, <2>2, CommitFields
<1> QED
  BY <1>3, <1>4

\* A waiting lane has its row, or the list has still to settle the lane; a list
\* that makes a lane wait writes the row first.
LEMMA CommitKeepsQueue ==
    ASSUME Tables, Processes, Commit
    PROVE  QueueFollows'
<1> DEFINE step == Head(todo)
<1> SUFFICES ASSUME "retries" \notin torn', doctor # "cut"
             PROVE  QueueFollows'
  BY CommitFields DEF QueueFollows, repair
<1>1. /\ todo # <<>> /\ todo \in Seq(Commits) /\ todo' = Tail(todo)
      /\ step \in Commits /\ db' = Written(step) /\ at \in Lane
      /\ Lanes = mem /\ Lanes' = mem' /\ mem \in [Lane -> LaneRecord]
      /\ Ordered(todo, stage, to.status)
  BY CommitFields DEF Tables, TablesTyped
<1>2. TypeOK
  BY Halves DEF Tables, Processes, TablesTyped, ProcessesTyped, TypeOK, Process
<1>3. "retries" \notin torn
  BY DEF Commit
<1>4. /\ \A l \in Lane : mem[l].status = "retry_queued" =>
              db.retry[l] = mem[l].due \/ (l = at /\ In(todo, "set"))
      /\ In(todo, "set") /\ to.status = "retry_queued" =>
              In(todo, "put") \/ db.retry[at] = to.due
  BY <1>1, <1>3 DEF Tables, QueueFollows, Due
<1>5. db \in Database /\ db.retry \in [Lane -> NotQueued..MaxDelay]
  BY TableFields DEF Tables, TablesTyped
<1>6. /\ step = "put" => db'.retry = [db.retry EXCEPT ![at] = to.due]
      /\ step = "clear" => db'.retry = [db.retry EXCEPT ![at] = NotQueued]
      /\ step \notin {"put", "clear"} => db'.retry = db.retry
  <2>1. db'.retry = IF step = "put" THEN [db.retry EXCEPT ![at] = to.due]
                    ELSE IF step = "clear" THEN [db.retry EXCEPT ![at] = NotQueued]
                    ELSE db.retry
    BY <1>1, <1>2, CommitWrites
  <2> HIDE DEF step
  <2> QED
    BY <2>1
<1>7. /\ \A x : In(todo', x) => In(todo, x)
      /\ \A x : In(todo, x) => x = step \/ In(todo', x)
      /\ In(todo, step)
  BY <1>1, InTail
<1>8. /\ step = "put" => In(todo', "set") /\ to.status = "retry_queued"
      /\ step = "clear" => In(todo', "set") /\ to.status # "retry_queued"
      /\ step = "set" => ~In(todo', "put")
  BY <1>1, <1>7, FollowedTail, BarredTail DEF Ordered
<1>9. In(todo', "set") => at' = at /\ to' = to
  BY NothingIn, CommitFields
<1> HIDE DEF step
<1>10. ASSUME NEW l \in Lane, mem'[l].status = "retry_queued"
       PROVE  db'.retry[l] = mem'[l].due \/ (l = at' /\ In(todo', "set"))
  <2>1. CASE In(todo', "set") /\ l = at
    BY <1>9, <2>1
  <2>2. CASE ~In(todo', "set") /\ l = at /\ step = "set"
    <3>1. mem'[l] = to
      BY <1>1, <2>2, CommitFields DEF step
    <3>2. db.retry[at] = to.due
      BY <1>4, <1>7, <1>8, <1>10, <2>2, <3>1
    <3> QED
      BY <1>6, <2>2, <3>1, <3>2
  <2>3. CASE ~In(todo', "set") /\ l = at /\ step # "set"
    <3>1. mem' = mem /\ ~In(todo, "set") /\ step \notin {"put", "clear"}
      BY <1>7, <1>8, <2>3, CommitFields DEF step
    <3> QED
      BY <1>4, <1>6, <1>10, <2>3, <3>1
  <2>4. CASE l # at
    <3>1. mem'[l] = mem[l]
      BY <1>1, <2>4, CommitFields
    <3>2. db'.retry[l] = db.retry[l]
      BY <1>5, <1>6, <2>4
    <3> QED
      BY <1>4, <1>10, <2>4, <3>1, <3>2
  <2> QED
    BY <2>1, <2>2, <2>3, <2>4
<1>11. ASSUME In(todo', "set"), to'.status = "retry_queued"
       PROVE  In(todo', "put") \/ db'.retry[at'] = to'.due
  <2>1. at' = at /\ to' = to /\ In(todo, "set")
    BY <1>7, <1>9, <1>11
  <2>2. CASE step = "put"
    BY <1>1, <1>5, <1>6, <2>1, <2>2
  <2>3. CASE step # "put"
    <3>1. step # "clear"
      BY <1>8, <1>11, <2>1
    <3>2. In(todo', "put") \/ db.retry[at] = to.due
      BY <1>4, <1>7, <1>11, <2>1, <2>3
    <3> QED
      BY <1>6, <2>1, <2>3, <3>1, <3>2
  <2> QED
    BY <2>2, <2>3
<1> QED
  BY <1>1, <1>10, <1>11 DEF QueueFollows, Due

\* An item tells the status of its lane, and so does the newest transition, or
\* the list has still to write them.
LEMMA CommitKeepsItems ==
    ASSUME Tables, Processes, Commit
    PROVE  ItemsFollow'
<1> DEFINE step == Head(todo)
<1> SUFFICES ASSUME "items" \notin torn'
             PROVE  ItemsFollow'
  BY DEF ItemsFollow
<1>1. /\ todo # <<>> /\ todo \in Seq(Commits) /\ todo' = Tail(todo)
      /\ step \in Commits /\ db' = Written(step) /\ at \in Lane
      /\ Lanes = mem /\ Lanes' = mem' /\ mem \in [Lane -> LaneRecord]
      /\ Ordered(todo, stage, to.status)
  BY CommitFields DEF Tables, TablesTyped
<1>2. TypeOK
  BY Halves DEF Tables, Processes, TablesTyped, ProcessesTyped, TypeOK, Process
<1>3. "items" \notin torn
  BY DEF Commit
<1>4. \A l \in Lane :
         /\ db.item[l] = mem[l].status \/ (l = at /\ In(todo, "item"))
         /\ mem[l].status \in {"none", "claimed", db.moved[l]} \/ (l = at /\ In(todo, "event"))
  BY <1>1, <1>3 DEF Tables, ItemsFollow, Due
<1>5. db.item \in [Lane -> Status] /\ db.moved \in [Lane -> Status]
  BY TableFields DEF Tables, TablesTyped
<1>6. /\ step \in {"put", "item", "session"} => db'.item = [db.item EXCEPT ![at] = mem[at].status]
      /\ step = "snap" => \A l \in Lane : db'.item[l] = mem[l].status \/ db'.item[l] = db.item[l]
      /\ step \notin {"put", "item", "session", "snap"} => db'.item = db.item
      /\ step = "event" => db'.moved = [db.moved EXCEPT ![at] = mem[at].status]
      /\ step # "event" => db'.moved = db.moved
  <2>1. /\ db'.item = IF step \in {"put", "item", "session"}
                      THEN [db.item EXCEPT ![at] = mem[at].status]
                      ELSE IF step = "snap"
                      THEN [l \in Lane |-> IF l \in RunningOf(mem) \cup ThreadOf(mem)
                                           THEN mem[l].status ELSE db.item[l]]
                      ELSE db.item
        /\ db'.moved = IF step = "event" THEN [db.moved EXCEPT ![at] = mem[at].status]
                       ELSE db.moved
    BY <1>1, <1>2, CommitWrites
  <2> HIDE DEF step
  <2> QED
    BY <2>1
<1>7. \A x : In(todo, x) => x = step \/ In(todo', x)
  BY <1>1, InTail
<1>8. step = "set" => In(todo', "item") /\ (to.status = "claimed" \/ In(todo', "event"))
  BY <1>1, FollowedTail DEF Ordered
<1>9. In(todo', "item") \/ In(todo', "event") => at' = at
  BY NothingIn, CommitFields
<1>10. /\ step = "set" => mem' = [mem EXCEPT ![at] = to]
       /\ step # "set" => mem' = mem
  BY CommitFields
<1> HIDE DEF step
<1>11. ASSUME NEW l \in Lane
       PROVE  db'.item[l] = mem'[l].status \/ (l = at' /\ In(todo', "item"))
  <2>1. CASE step = "set"
    <3>1. In(todo', "item") /\ at' = at
      BY <1>8, <1>9, <2>1
    <3>2. CASE l = at
      BY <3>1, <3>2
    <3>3. CASE l # at
      BY <1>1, <1>4, <1>6, <1>10, <2>1, <3>3
    <3> QED
      BY <3>2, <3>3
  <2>2. CASE step \in {"put", "item", "session"}
    BY <1>1, <1>4, <1>5, <1>6, <1>10, <2>2
  <2>3. CASE step \notin {"set", "put", "item", "session"}
    <3>1. db'.item[l] = mem[l].status \/ db'.item[l] = db.item[l]
      BY <1>6, <2>3
    <3>2. In(todo, "item") => In(todo', "item")
      BY <1>7, <2>3
    <3> QED
      BY <1>4, <1>9, <1>10, <2>3, <3>1, <3>2
  <2> QED
    BY <2>1, <2>2, <2>3
<1>12. ASSUME NEW l \in Lane
       PROVE  \/ mem'[l].status \in {"none", "claimed", db'.moved[l]}
              \/ l = at' /\ In(todo', "event")
  <2>1. CASE step = "set"
    <3>1. In(todo', "event") => at' = at
      BY <1>9
    <3>2. CASE l = at
      BY <1>1, <1>8, <1>10, <2>1, <3>1, <3>2
    <3>3. CASE l # at
      BY <1>1, <1>4, <1>6, <1>10, <2>1, <3>3
    <3> QED
      BY <3>2, <3>3
  <2>2. CASE step = "event"
    BY <1>1, <1>4, <1>5, <1>6, <1>10, <2>2
  <2>3. CASE step \notin {"set", "event"}
    <3>1. In(todo, "event") => In(todo', "event")
      BY <1>7, <2>3
    <3> QED
      BY <1>4, <1>6, <1>9, <1>10, <2>3, <3>1
  <2> QED
    BY <2>1, <2>2, <2>3
<1> QED
  BY <1>1, <1>11, <1>12 DEF ItemsFollow, Due

\* After its last snapshot the holder has nothing more to save, so the running
\* work and the sessions are those of the file.
LEMMA CommitKeepsScheduler ==
    ASSUME Tables, Processes, Commit
    PROVE  SchedulerFollows'
<1> DEFINE step == Head(todo)
<1> SUFFICES ASSUME "scheduler" \notin torn', doctor # "cut", stage = "leave",
                    ~In(todo', "snap")
             PROVE  /\ db'.running = RunningOf(file')
                    /\ {l \in Lane : db'.session[l] = "thread"} = ThreadOf(file')
  BY CommitFields DEF SchedulerFollows, SchedulerPayload, repair
<1>1. /\ todo # <<>> /\ todo \in Seq(Commits) /\ todo' = Tail(todo)
      /\ step \in Commits /\ db' = Written(step)
      /\ Ordered(todo, stage, to.status)
  BY CommitFields DEF Tables, TablesTyped
<1>2. TypeOK
  BY Halves DEF Tables, Processes, TablesTyped, ProcessesTyped, TypeOK, Process
<1>3. ~In(todo', "save") /\ step \notin {"save", "session"}
  BY <1>1, FollowedTail DEF Ordered
<1>4. file' = mem' /\ file' = file
  BY <1>3, CommitKeepsSaved, CommitFields DEF SavedOnLeave
<1>5. CASE step = "snap"
  <2>1. /\ db'.running = RunningOf(mem)
        /\ db'.session = [l \in Lane |-> IF mem[l].thread THEN "thread" ELSE "none"]
    BY <1>1, <1>2, <1>5, CommitWrites, ZenonT(40)
  <2>2. mem = file
    BY <1>4, <1>5, CommitFields
  <2>3. \A l \in Lane : db'.session[l] = "thread" <=> mem[l].thread
    BY <2>1
  <2> QED
    BY <1>4, <2>1, <2>2, <2>3 DEF ThreadOf
<1>6. CASE step # "snap"
  <2>1. db'.running = db.running /\ db'.session = db.session
    BY <1>1, <1>2, <1>3, <1>6, CommitWrites, ZenonT(40)
  <2>2. ~In(todo, "snap") /\ "scheduler" \notin torn
    BY <1>1, <1>6, InTail DEF Commit
  <2>3. db.running = RunningOf(file) /\ {l \in Lane : db.session[l] = "thread"} = ThreadOf(file)
    BY <2>2 DEF Tables, SchedulerFollows, SchedulerPayload
  <2> QED
    BY <1>4, <2>1, <2>3
<1> QED
  BY <1>5, <1>6

LEMMA CommitKeeps ==
    ASSUME IInv, Commit
    PROVE  IInv'
<1> USE Halves, HalvesNext
<1>1. TablesTyped'
  <2>1. torn' \subseteq AllTables /\ ItemsStayTorn'
    BY DEF Commit, Tables, TablesTyped, ItemsStayTorn
  <2> QED
    BY <2>1, CommitFields DEF Tables, TablesTyped, repair
<1>2. Tables'
  BY <1>1, CommitKeepsOrder, CommitKeepsTick, CommitKeepsSaved, CommitKeepsQueue,
     CommitKeepsItems, CommitKeepsScheduler DEF Tables
<1>3. UNCHANGED <<lease, daemon, holder, stage, repair, upsets>> /\ holder # NoOne
  BY CommitFields
<1>4. ProcessesTyped' /\ Leased' /\ Unowned'
  BY <1>3 DEF Processes, ProcessesTyped, Leased, Unowned
<1>5. Holding'
  BY <1>3, Bounds DEF Processes, Holding
<1>6. /\ todo # <<>> /\ todo \in Seq(Commits) /\ todo' = Tail(todo) /\ Head(todo) \in Commits
      /\ db' = Written(Head(todo))
  BY CommitFields DEF Tables, TablesTyped
<1>7. In(todo', "put") => In(todo, "put")
  BY <1>6, InTail
<1>8. Alone'
  BY <1>3, <1>7 DEF Processes, Alone, repair
<1>9. WakesForRetry'
  <2> SUFFICES ASSUME upsets = 0, NEW d \in Daemon, NEW l \in Queued(db'),
                      daemon[d].pc = "asleep"
               PROVE  \/ daemon[d].sleep <= db'.retry[l] + 1 + Jitter
                      \/ daemon[d].sleep <= ErrorInterval + Jitter
    BY <1>3 DEF WakesForRetry
  <2>1. holder = Outside
    <3>1. holder \in {Outside} \cup Daemon
      BY <1>3 DEF Processes, ProcessesTyped
    <3>2. holder \in Daemon => daemon[holder].pc = "ticking"
      BY DEF Processes, Holding
    <3> QED
      BY <3>1, <3>2 DEF Processes, Alone
  <2>2. Head(todo) # "put"
    BY <1>6, <2>1, InTail DEF Processes, Alone
  <2>3. TypeOK
    BY DEF IInv
  <2>4. db'.retry = db.retry \/ db'.retry = [db.retry EXCEPT ![at] = NotQueued]
    BY <1>6, <2>2, <2>3, CommitWrites, ZenonT(40)
  <2>5. l \in Queued(db) /\ db'.retry[l] = db.retry[l]
    <3>1. db.retry \in [Lane -> NotQueued..MaxDelay]
      BY TableFields DEF Tables, TablesTyped
    <3> QED
      BY <2>4, <3>1 DEF Queued
  <2> QED
    BY <2>5 DEF Processes, WakesForRetry
<1> QED
  BY <1>2, <1>4, <1>5, <1>8, <1>9 DEF Processes
------------------------------------------------------------------------------
\* The tick begins a list of commits.

\* Between two lists the tables follow the lanes, and go on to when a list has
\* begun that keeps the order.
LEMMA ListBegun ==
    ASSUME IInv, holder \in Daemon, todo = <<>>,
           UNCHANGED <<file, db, lease, daemon, holder, mem, repair, torn>>,
           at' \in Lane, to' \in LaneRecord, left' \subseteq Lane,
           todo' \in Seq(Commits), Ordered(todo', stage', to'.status),
           In(todo', "set") /\ to'.status = "retry_queued" => In(todo', "put"),
           stage' \in {"reconcile", "intake", "route", "leave"},
           stage' = "leave" => In(todo', "save") /\ In(todo', "snap"),
           TickRows', upsets' \in 0..MaxUpsets, upsets' = 0 => upsets = 0
    PROVE  IInv'
<1> USE Halves, HalvesNext
<1>1. holder # NoOne /\ holder # Outside /\ Lanes = mem /\ Lanes' = mem
  BY Bounds DEF Lanes
<1>2. \A l, x : ~Due(l, x)
  BY NothingIn DEF Due
<1>3. TablesTyped'
  BY DEF Tables, TablesTyped, ItemsStayTorn, repair
<1>4. QueueFollows'
  <2> SUFFICES ASSUME "retries" \notin torn, doctor # "cut"
               PROVE  QueueFollows'
    BY DEF QueueFollows, repair
  <2>1. \A l \in Lane : mem[l].status = "retry_queued" => db.retry[l] = mem[l].due
    BY <1>1, <1>2 DEF Tables, QueueFollows
  <2> QED
    BY <1>1, <2>1 DEF QueueFollows
<1>5. ItemsFollow'
  <2> SUFFICES ASSUME "items" \notin torn
               PROVE  ItemsFollow'
    BY DEF ItemsFollow
  <2>1. \A l \in Lane : /\ db.item[l] = mem[l].status
                       /\ mem[l].status \in {"none", "claimed", db.moved[l]}
    BY <1>1, <1>2 DEF Tables, ItemsFollow
  <2> QED
    BY <1>1, <2>1 DEF ItemsFollow
<1>6. SchedulerFollows' /\ SavedOnLeave'
  BY <1>1 DEF SchedulerFollows, SavedOnLeave
<1>7. TickIsAccounted'
  BY DEF Tables, TickIsAccounted
<1>8. Tables'
  BY <1>3, <1>4, <1>5, <1>6, <1>7 DEF Tables
<1>9. ProcessesTyped' /\ Leased' /\ Unowned'
  BY DEF Processes, ProcessesTyped, Leased, Unowned
<1>10. Holding'
  BY <1>1 DEF Processes, Holding
<1>11. Alone'
  BY <1>1 DEF Processes, Alone, repair
<1>12. WakesForRetry'
  BY DEF Processes, WakesForRetry, Queued
<1> QED
  BY <1>8, <1>9, <1>10, <1>11, <1>12 DEF Processes

\* Between two lists of a tick that has begun its run is told as begun.
LEMMA TickGoesOn ==
    ASSUME Tables, holder \in Daemon, stage \in {"reconcile", "intake", "route"},
           todo = <<>>
    PROVE  db.tick.status = "running" /\ db.tick.told = {"started"}
  BY DEF Tables, TickRows, TickOpens, TickGoes

\* A list of the middle of a tick.
LEMMA MiddleBegun ==
    ASSUME IInv, holder \in Daemon, todo = <<>>,
           stage \in {"reconcile", "intake", "route"},
           stage' \in {"reconcile", "intake", "route"},
           UNCHANGED <<file, db, lease, daemon, holder, mem, repair, torn, upsets>>,
           at' \in Lane, to' \in LaneRecord, left' \subseteq Lane,
           todo' \in Seq(Commits), Plain(todo'), Ordered(todo', stage', to'.status),
           In(todo', "set") /\ to'.status = "retry_queued" => In(todo', "put")
    PROVE  IInv'
<1> USE Halves
<1>1. db.tick.status = "running" /\ db.tick.told = {"started"}
  BY TickGoesOn
<1>2. TickGoes'
  BY <1>1 DEF TickGoes, Plain, In
<1>3. TickRows' /\ upsets' \in 0..MaxUpsets
  BY <1>2, Bounds DEF TickRows, Processes, ProcessesTyped
<1> QED
  BY <1>3, ListBegun

\* A lane that is looked at and left alone.
LEMMA LaneLeftAlone ==
    ASSUME IInv, holder \in Daemon, todo = <<>>,
           stage \in {"reconcile", "intake", "route"},
           UNCHANGED <<tickEnv, stage, at, to, todo>>, left' \subseteq Lane
    PROVE  IInv'
<1>1. at \in Lane /\ to \in LaneRecord /\ todo \in Seq(Commits)
  BY DEF IInv, TypeOK
<1>2. Plain(todo') /\ Ordered(todo', stage', to'.status) /\ ~In(todo', "set")
  BY NothingIn
<1> QED
  BY <1>1, <1>2, MiddleBegun DEF tickEnv

LEMMA RequeueKeeps ==
    ASSUME IInv, holder \in Daemon, todo = <<>>, stage = "reconcile",
           NEW l \in Lane, Requeued(l), left' \subseteq Lane,
           UNCHANGED <<tickEnv, stage>>
    PROVE  IInv'
<1>1. mem[l] \in LaneRecord
  BY DEF IInv, TypeOK
<1>2. CASE MayRetry(mem[l].attempt)
  <2>1. /\ at' = l
        /\ to' = [mem[l] EXCEPT !.status = "retry_queued", !.attempt = @ + 1,
                                !.due = Delay(mem[l].attempt + 1)]
        /\ todo' = <<"put", "set", "item", "event">>
    BY <1>2, PutList DEF Requeued, Begin
  <2>2. mem[l].attempt + 1 \in 1..MaxAttempts
    BY <1>1, <1>2, LaneFields, PolicyAssumption DEF MayRetry
  <2>3. Delay(mem[l].attempt + 1) \in NotQueued..MaxDelay
    BY DelayBounds, PolicyAssumption DEF NotQueued
  <2>4. to' \in LaneRecord /\ to'.status = "retry_queued"
    BY <1>1, <2>1, <2>2, <2>3 DEF LaneRecord, Status
  <2>5. /\ todo' \in Seq(Commits) /\ Plain(todo')
        /\ Ordered(todo', stage', "retry_queued") /\ In(todo', "put")
    BY <2>1, RetryOrdered
  <2> QED
    BY <2>1, <2>4, <2>5, MiddleBegun DEF tickEnv
<1>3. CASE ~MayRetry(mem[l].attempt)
  <2>1. /\ at' = l /\ to' = [mem[l] EXCEPT !.status = "operator_attention"]
        /\ todo' = <<"set", "item", "event">>
    BY <1>3 DEF Requeued, Begin, Moved, Transition
  <2>2. to' \in LaneRecord /\ to'.status = "operator_attention"
    BY <1>1, <2>1 DEF LaneRecord, Status
  <2>3. /\ todo' \in Seq(Commits) /\ Plain(todo') /\ Ordered(todo', stage', to'.status)
    BY <2>1, <2>2, MoveOrdered
  <2> QED
    BY <2>1, <2>2, <2>3, MiddleBegun DEF tickEnv
<1> QED
  BY <1>2, <1>3

LEMMA ReconcileKeeps ==
    ASSUME IInv, NEW l \in Lane, Reconcile(l)
    PROVE  IInv'
<1>1. /\ holder \in Daemon /\ stage = "reconcile" /\ todo = <<>>
      /\ left' \subseteq Lane /\ UNCHANGED <<tickEnv, stage>> /\ mem[l] \in LaneRecord
  BY DEF Reconcile, InTick, Visit, IInv, TypeOK
<1>2. CASE Requeued(l)
  BY <1>1, <1>2, RequeueKeeps
<1>3. CASE Begin(l, Moved(l, "released"), Transition)
  <2>1. /\ at' = l /\ to' = [mem[l] EXCEPT !.status = "released"]
        /\ todo' = <<"set", "item", "event">>
    BY <1>3 DEF Begin, Moved, Transition
  <2>2. to' \in LaneRecord /\ to'.status = "released"
    BY <1>1, <2>1 DEF LaneRecord, Status, Terminal
  <2>3. /\ todo' \in Seq(Commits) /\ Plain(todo') /\ Ordered(todo', stage', to'.status)
    BY <1>1, <2>1, <2>2, MoveOrdered
  <2> QED
    BY <1>1, <2>1, <2>2, <2>3, MiddleBegun DEF tickEnv
<1>4. CASE UNCHANGED <<at, to, todo>>
  BY <1>1, <1>4, LaneLeftAlone
<1> QED
  BY <1>2, <1>3, <1>4 DEF Reconcile

LEMMA ReconcileEndsKeeps ==
    ASSUME IInv, ReconcileEnds
    PROVE  IInv'
<1>1. /\ holder \in Daemon /\ stage = "reconcile" /\ todo = <<>> /\ stage' = "intake"
      /\ left' \subseteq Lane /\ UNCHANGED <<tickEnv, todo, at, to>>
      /\ at \in Lane /\ to \in LaneRecord /\ todo \in Seq(Commits)
  BY DEF ReconcileEnds, InTick, IInv, TypeOK
<1>2. Plain(todo') /\ Ordered(todo', stage', to'.status) /\ ~In(todo', "set")
  BY <1>1, NothingIn
<1> QED
  BY <1>1, <1>2, MiddleBegun DEF tickEnv

LEMMA ClaimKeeps ==
    ASSUME IInv, NEW l \in Lane, Claim(l)
    PROVE  IInv'
<1>1. /\ holder \in Daemon /\ stage = "intake" /\ todo = <<>>
      /\ left' \subseteq Lane /\ UNCHANGED <<tickEnv, stage>>
  BY DEF Claim, InTick, Visit, IInv, TypeOK
<1>2. CASE Begin(l, [NewLane EXCEPT !.status = "claimed"], <<"set", "item">>)
  <2>1. at' = l /\ to' = [NewLane EXCEPT !.status = "claimed"] /\ todo' = <<"set", "item">>
    BY <1>2 DEF Begin
  <2>2. to' \in LaneRecord /\ to'.status = "claimed"
    BY <2>1, NewLaneTyped DEF LaneRecord, Status
  <2>3. /\ todo' \in Seq(Commits) /\ Plain(todo') /\ Ordered(todo', stage', to'.status)
    BY <1>1, <2>1, <2>2, ClaimOrdered
  <2> QED
    BY <1>1, <2>1, <2>2, <2>3, MiddleBegun DEF tickEnv
<1>3. CASE UNCHANGED <<at, to, todo>>
  BY <1>1, <1>3, LaneLeftAlone
<1> QED
  BY <1>2, <1>3 DEF Claim

LEMMA IntakeEndsKeeps ==
    ASSUME IInv, IntakeEnds
    PROVE  IInv'
<1>1. /\ holder \in Daemon /\ stage = "intake" /\ todo = <<>> /\ stage' = "route"
      /\ left' \subseteq Lane /\ UNCHANGED <<tickEnv, at, to>>
      /\ at \in Lane /\ to \in LaneRecord
      /\ todo' = <<"save", "snap">>
  BY DEF IntakeEnds, InTick, IInv, TypeOK, ActiveOf, Saved
<1>2. /\ todo' \in Seq(Commits) /\ Plain(todo') /\ Ordered(todo', stage', to'.status)
      /\ ~In(todo', "set")
  BY <1>1, SavedOrdered
<1> QED
  BY <1>1, <1>2, MiddleBegun DEF tickEnv

LEMMA RouteKeeps ==
    ASSUME IInv, NEW l \in Lane, Route(l)
    PROVE  IInv'
<1>1. /\ holder \in Daemon /\ stage = "route" /\ todo = <<>>
      /\ left' \subseteq Lane /\ UNCHANGED <<tickEnv, stage>> /\ mem[l] \in LaneRecord
  BY DEF Route, InTick, Visit, IInv, TypeOK
<1>2. NotQueued \in NotQueued..MaxDelay
  BY PolicyAssumption DEF NotQueued
<1>3. CASE Dispatched(l)
  <2> DEFINE clear == IF mem[l].due # NotQueued THEN <<"clear">> ELSE <<>>
  <2>1. /\ at' = l /\ to' = [mem[l] EXCEPT !.status = "running", !.due = NotQueued]
        /\ todo' = <<"session">> \o clear \o Transition \o <<"session">> \o Saved
    BY <1>3 DEF Dispatched, Begin, Settled
  <2>2. to' \in LaneRecord /\ to'.status = "running"
    BY <1>1, <1>2, <2>1 DEF LaneRecord, Status
  <2>3. \/ todo' = <<"session", "set", "item", "event", "session", "save", "snap">>
        \/ todo' = <<"session", "clear", "set", "item", "event", "session", "save", "snap">>
    <3>1. CASE clear = <<>>
      <4>1. <<"session">> \o <<>> = <<"session">>
        BY ConcatEmptySeq
      <4> QED
        BY <2>1, <3>1, <4>1, StartList, StartedList, StartSavedList
    <3>2. CASE clear = <<"clear">>
      BY <2>1, <3>2, DueList, DueSetList, DueStartedList, DueSavedList
    <3> QED
      BY <3>1, <3>2
  <2>4. /\ todo' \in Seq(Commits) /\ Plain(todo') /\ Ordered(todo', stage', to'.status)
    BY <2>2, <2>3, StartOrdered, DueStartOrdered
  <2> QED
    BY <1>1, <2>1, <2>2, <2>4, MiddleBegun DEF tickEnv
<1>4. CASE Begin(l, Settled(l, "released"),
                 <<"clear">> \o Transition \o <<"item">> \o Saved)
  <2>1. /\ at' = l /\ to' = [mem[l] EXCEPT !.status = "released", !.due = NotQueued]
        /\ todo' = <<"clear", "set", "item", "event", "item", "save", "snap">>
    BY <1>4, ClearList, ItemList, ItemSavedList DEF Begin, Settled
  <2>2. to' \in LaneRecord /\ to'.status = "released"
    BY <1>1, <1>2, <2>1 DEF LaneRecord, Status, Terminal
  <2>3. /\ todo' \in Seq(Commits) /\ Plain(todo') /\ Ordered(todo', stage', to'.status)
    BY <2>1, <2>2, DoneOrdered
  <2> QED
    BY <1>1, <2>1, <2>2, <2>3, MiddleBegun DEF tickEnv
<1>5. CASE UNCHANGED <<at, to, todo>>
  BY <1>1, <1>5, LaneLeftAlone
<1> QED
  BY <1>3, <1>4, <1>5 DEF Route

\* The list that ends a tick, whichever way it has gone.
LEMMA ClosingBegun ==
    ASSUME IInv, holder \in Daemon, stage \in {"reconcile", "intake", "route"},
           todo = <<>>, NEW status \in {"completed", "failed"},
           stage' = "leave", todo' = TickEnds(status), left' \subseteq Lane,
           UNCHANGED <<file, db, lease, daemon, holder, mem, at, to, repair, torn>>,
           upsets' \in 0..MaxUpsets, upsets' = 0 => upsets = 0
    PROVE  IInv'
<1> USE Halves
<1>1. todo' = <<"save", "snap", "ended", status>>
  BY CompletedList, FailedList DEF TickEnds, Saved
<1>2. /\ todo' \in Seq(Commits) /\ Ordered(todo', stage', to'.status)
      /\ ~In(todo', "set") /\ In(todo', "save") /\ In(todo', "snap")
  BY <1>1, ClosingOrdered
<1>3. db.tick.status = "running" /\ db.tick.told = {"started"}
  BY TickGoesOn
<1>4. TickCloses'
  BY <1>1, <1>3 DEF TickCloses
<1>5. TickRows'
  BY <1>4, Bounds DEF TickRows
<1>6. at \in Lane /\ to \in LaneRecord
  BY DEF IInv, TypeOK
<1> QED
  BY <1>2, <1>5, <1>6, ListBegun

LEMMA EndTickKeeps ==
    ASSUME IInv, EndTick
    PROVE  IInv'
<1>1. upsets \in 0..MaxUpsets /\ left \subseteq Lane
  BY DEF IInv, TypeOK
<1> QED
  BY <1>1, ClosingBegun DEF EndTick, InTick, tickEnv

LEMMA TickFailsKeeps ==
    ASSUME IInv, TickFails
    PROVE  IInv'
<1>1. upsets \in 0..MaxUpsets /\ upsets < MaxUpsets /\ upsets' = upsets + 1
  BY DEF IInv, TypeOK, TickFails
<1>2. upsets' \in 0..MaxUpsets /\ upsets' # 0
  BY <1>1, Bounds
<1> QED
  BY <1>2, ClosingBegun DEF TickFails
------------------------------------------------------------------------------
\* The repair.

LEMMA RepairFields ==
    ASSUME NEW d \in Database, NEW r \in [Lane -> LaneRecord]
    PROVE  /\ RepairCuts(d, r) \in Database
           /\ RepairCuts(d, r).tick = d.tick
           /\ RepairCuts(d, r).moved = d.moved
           /\ \A l \in Lane : \/ RepairCuts(d, r).item[l] = d.item[l]
                              \/ RepairCuts(d, r).item[l] = r[l].status
           /\ RepairEnds(d, r) \in Database
           /\ RepairEnds(d, r).tick = d.tick
           /\ RepairEnds(d, r).moved = d.moved
           /\ \A l \in Lane : \/ RepairEnds(d, r).item[l] = d.item[l]
                              \/ RepairEnds(d, r).item[l] = r[l].status
           /\ RepairEnds(d, r).running = RunningOf(r)
           /\ \A l \in Lane : RepairEnds(d, r).session[l] = "thread" <=> r[l].thread
           /\ \A l \in Lane : r[l].status = "retry_queued" =>
                                RepairEnds(d, r).retry[l] = r[l].due
<1>1. /\ d.item \in [Lane -> Status]
      /\ \A l \in Lane : r[l].status \in Status /\ r[l].due \in NotQueued..MaxDelay
      /\ NotQueued \in NotQueued..MaxDelay
      /\ RunningOf(r) \in SUBSET Lane
  BY TableFields, LaneFields, PolicyAssumption DEF NotQueued, RunningOf
<1>2. /\ RepairCuts(d, r) \in Database
      /\ RepairCuts(d, r).tick = d.tick
      /\ RepairCuts(d, r).moved = d.moved
      /\ RepairCuts(d, r).item =
            [l \in Lane |-> IF l \in RunningOf(r) THEN r[l].status ELSE d.item[l]]
  <2> DEFINE i == [l \in Lane |-> IF l \in RunningOf(r) THEN r[l].status ELSE d.item[l]]
             s == [l \in Lane |-> "none"]
             q == [l \in Lane |-> NotQueued]
             e == [d EXCEPT !.running = RunningOf(r), !.session = s, !.item = i]
  <2>1. i \in [Lane -> Status]
    BY <1>1
  <2>2. s \in [Lane -> {"none", "blank", "thread"}] /\ q \in [Lane -> NotQueued..MaxDelay]
    BY <1>1
  <2>3. RepairCuts(d, r) = [e EXCEPT !.retry = q]
    BY DEF RepairCuts
  <2> HIDE DEF i, s, q
  <2>4. e \in Database
    BY <1>1, <2>1, <2>2, TablesReplaced, Zenon
  <2>5. e.tick = d.tick /\ e.moved = d.moved /\ e.item = i
    BY DEF Database
  <2> HIDE DEF e
  <2>6. [e EXCEPT !.retry = q] \in Database
    BY <2>2, <2>4, QueueReplaced, Zenon
  <2>7. /\ [e EXCEPT !.retry = q].tick = e.tick /\ [e EXCEPT !.retry = q].moved = e.moved
        /\ [e EXCEPT !.retry = q].item = e.item
    BY <2>4 DEF Database
  <2> QED
    BY <2>3, <2>5, <2>6, <2>7 DEF i
<1>3. /\ RepairEnds(d, r) \in Database
      /\ RepairEnds(d, r).tick = d.tick
      /\ RepairEnds(d, r).moved = d.moved
      /\ RepairEnds(d, r).running = RunningOf(r)
      /\ RepairEnds(d, r).item =
            [l \in Lane |-> IF l \in RunningOf(r) \cup ThreadOf(r) \cup WaitingOf(r)
                            THEN r[l].status ELSE d.item[l]]
      /\ RepairEnds(d, r).session =
            [l \in Lane |-> IF r[l].thread THEN "thread" ELSE "none"]
      /\ RepairEnds(d, r).retry =
            [l \in Lane |-> IF l \in WaitingOf(r) THEN r[l].due ELSE NotQueued]
  <2> DEFINE i == [l \in Lane |-> IF l \in RunningOf(r) \cup ThreadOf(r) \cup WaitingOf(r)
                                  THEN r[l].status ELSE d.item[l]]
             s == [l \in Lane |-> IF r[l].thread THEN "thread" ELSE "none"]
             q == [l \in Lane |-> IF l \in WaitingOf(r) THEN r[l].due ELSE NotQueued]
             e == [d EXCEPT !.running = RunningOf(r), !.session = s, !.item = i]
  <2>1. i \in [Lane -> Status]
    BY <1>1
  <2>2. s \in [Lane -> {"none", "blank", "thread"}] /\ q \in [Lane -> NotQueued..MaxDelay]
    BY <1>1
  <2>3. RepairEnds(d, r) = [d EXCEPT !.running = RunningOf(r), !.session = s,
                                     !.retry = q, !.item = i]
    BY DEF RepairEnds
  <2> HIDE DEF i, s, q
  <2>4. RepairEnds(d, r) = [e EXCEPT !.retry = q]
    BY <2>3 DEF Database
  <2>5. e \in Database
    BY <1>1, <2>1, <2>2, TablesReplaced, Zenon
  <2>6. /\ e.tick = d.tick /\ e.moved = d.moved /\ e.item = i /\ e.session = s
        /\ e.running = RunningOf(r)
    BY DEF Database
  <2> HIDE DEF e
  <2>7. [e EXCEPT !.retry = q] \in Database
    BY <2>2, <2>5, QueueReplaced, Zenon
  <2>8. /\ [e EXCEPT !.retry = q].tick = e.tick /\ [e EXCEPT !.retry = q].moved = e.moved
        /\ [e EXCEPT !.retry = q].item = e.item /\ [e EXCEPT !.retry = q].session = e.session
        /\ [e EXCEPT !.retry = q].running = e.running /\ [e EXCEPT !.retry = q].retry = q
    BY <2>5 DEF Database
  <2>9. /\ RepairEnds(d, r) \in Database /\ RepairEnds(d, r).tick = d.tick
        /\ RepairEnds(d, r).moved = d.moved /\ RepairEnds(d, r).running = RunningOf(r)
        /\ RepairEnds(d, r).item = i /\ RepairEnds(d, r).session = s
        /\ RepairEnds(d, r).retry = q
    BY <2>4, <2>6, <2>7, <2>8
  <2> QED
    BY <2>9 DEF i, s, q
<1>4. \A l \in Lane : \/ RepairCuts(d, r).item[l] = d.item[l]
                      \/ RepairCuts(d, r).item[l] = r[l].status
  BY <1>2
<1>5. \A l \in Lane : \/ RepairEnds(d, r).item[l] = d.item[l]
                      \/ RepairEnds(d, r).item[l] = r[l].status
  BY <1>3
<1>6. \A l \in Lane : RepairEnds(d, r).session[l] = "thread" <=> r[l].thread
  BY <1>3
<1>7. \A l \in Lane : r[l].status = "retry_queued" => RepairEnds(d, r).retry[l] = r[l].due
  BY <1>3 DEF WaitingOf
<1> QED
  BY <1>2, <1>3, <1>4, <1>5, <1>6, <1>7

\* What a commit of the repair leaves alone.
LEMMA RepairFrame ==
    ASSUME IInv, doctor # "idle", db' \in Database, db'.tick = db.tick,
           db'.moved = db.moved,
           \A l \in Lane : db'.item[l] = db.item[l] \/ db'.item[l] = copy[l].status,
           doctor' \in {"idle", "cut"}, copy' \in [Lane -> LaneRecord],
           \/ Meets /\ torn' = AllTables
           \/ ~Meets /\ torn' = torn
           \/ ~Meets /\ torn' = torn \ {"retries", "scheduler"},
           UNCHANGED <<file, lease, daemon, holder, lanes, upsets>>
    PROVE  /\ TablesTyped' /\ Ordered(todo, stage, to.status)'
           /\ TickRows' /\ TickIsAccounted' /\ SavedOnLeave' /\ ItemsFollow'
           /\ Processes'
<1> USE Halves
<1>1. TablesTyped'
  BY DEF Tables, TablesTyped, ItemsStayTorn, AllTables, lanes
<1>2. Ordered(todo, stage, to.status)' /\ SavedOnLeave'
  BY DEF Tables, Ordered, SavedOnLeave, In, Followed, Barred, lanes
<1>3. TickRows'
  BY DEF Tables, TickRows, TickOpens, TickGoes, TickCloses, Plain, In, lanes
<1>4. torn' = {} => torn = {}
  BY DEF Tables, TablesTyped, ItemsStayTorn, AllTables
<1>5. TickIsAccounted'
  BY <1>4 DEF Tables, TickIsAccounted
<1>6. ItemsFollow'
  <2> SUFFICES ASSUME "items" \notin torn'
               PROVE  ItemsFollow'
    BY DEF ItemsFollow
  <2>1. ~Meets /\ "items" \notin torn
    BY DEF AllTables
  <2>2. holder = NoOne /\ copy = file /\ Lanes = file /\ Lanes' = file /\ todo = <<>>
    BY <2>1 DEF Meets, Lanes, Processes, Holding
  <2>3. \A l, x : ~Due(l, x)
    BY <2>2, NothingIn DEF Due
  <2>4. \A l \in Lane : /\ db.item[l] = file[l].status
                       /\ file[l].status \in {"none", "claimed", db.moved[l]}
    BY <2>1, <2>2, <2>3 DEF Tables, ItemsFollow
  <2>5. \A l \in Lane : /\ db'.item[l] = file[l].status
                       /\ file[l].status \in {"none", "claimed", db'.moved[l]}
    BY <2>2, <2>4
  <2> QED
    BY <2>2, <2>5 DEF ItemsFollow
<1>7. upsets # 0
  BY DEF Processes, Alone
<1>8. ProcessesTyped' /\ Leased' /\ Unowned' /\ Holding'
  BY DEF Processes, ProcessesTyped, Leased, Unowned, Holding, lanes
<1>9. Alone' /\ WakesForRetry'
  BY <1>7 DEF Alone, WakesForRetry
<1> QED
  BY <1>1, <1>2, <1>3, <1>5, <1>6, <1>8, <1>9 DEF Processes

LEMMA DoctorReadsKeeps ==
    ASSUME IInv, DoctorReads
    PROVE  IInv'
<1> USE Halves, HalvesNext
<1>1. /\ upsets \in 0..MaxUpsets /\ upsets < MaxUpsets /\ upsets' = upsets + 1
      /\ doctor = "idle" /\ doctor' = "read" /\ copy' = file
      /\ UNCHANGED <<file, db, lease, daemon, holder, lanes, torn>>
  BY DEF DoctorReads, Processes, ProcessesTyped
<1>2. upsets' \in 0..MaxUpsets /\ upsets' # 0
  BY <1>1, Bounds
<1>3. TablesTyped' /\ Ordered(todo, stage, to.status)'
  BY <1>1 DEF Tables, TablesTyped, ItemsStayTorn, Ordered, In, Followed, Barred, lanes
<1>4. TickRows' /\ TickIsAccounted' /\ SavedOnLeave'
  BY <1>1 DEF Tables, TickRows, TickOpens, TickGoes, TickCloses, TickIsAccounted,
              SavedOnLeave, Plain, In, lanes
<1>5. QueueFollows' /\ ItemsFollow' /\ SchedulerFollows'
  BY <1>1 DEF Tables, QueueFollows, ItemsFollow, SchedulerFollows, Lanes, Due, In, lanes
<1>6. ProcessesTyped' /\ Leased' /\ Unowned' /\ Holding'
  BY <1>1, <1>2 DEF Processes, ProcessesTyped, Leased, Unowned, Holding, lanes
<1>7. Alone' /\ WakesForRetry'
  BY <1>2 DEF Alone, WakesForRetry
<1> QED
  BY <1>3, <1>4, <1>5, <1>6, <1>7 DEF Tables, Processes

LEMMA DoctorCutsKeeps ==
    ASSUME IInv, DoctorCuts
    PROVE  IInv'
<1> USE Halves, HalvesNext
<1>1. db \in Database /\ copy \in [Lane -> LaneRecord]
  BY DEF IInv, TypeOK
<1>2. /\ db' = RepairCuts(db, copy) /\ doctor = "read" /\ doctor' = "cut" /\ copy' = copy
      /\ torn' = IF Meets THEN AllTables ELSE torn
      /\ UNCHANGED <<file, lease, daemon, holder, lanes, upsets>>
  BY DEF DoctorCuts
<1>3. /\ db' \in Database /\ db'.tick = db.tick /\ db'.moved = db.moved
      /\ \A l \in Lane : db'.item[l] = db.item[l] \/ db'.item[l] = copy[l].status
  BY <1>1, <1>2, RepairFields
<1>4. /\ TablesTyped' /\ Ordered(todo, stage, to.status)'
      /\ TickRows' /\ TickIsAccounted' /\ SavedOnLeave' /\ ItemsFollow'
      /\ Processes'
  BY <1>1, <1>2, <1>3, RepairFrame
<1>5. QueueFollows' /\ SchedulerFollows'
  BY <1>2 DEF QueueFollows, SchedulerFollows
<1> QED
  BY <1>4, <1>5 DEF Tables

LEMMA DoctorEndsKeeps ==
    ASSUME IInv, DoctorEnds
    PROVE  IInv'
<1> USE Halves, HalvesNext
<1>1. db \in Database /\ copy \in [Lane -> LaneRecord]
  BY DEF IInv, TypeOK
<1>2. /\ db' = RepairEnds(db, copy) /\ doctor # "idle" /\ doctor' = "idle"
      /\ copy' = [l \in Lane |-> NewLane]
      /\ torn' = IF Meets THEN AllTables ELSE torn \ {"retries", "scheduler"}
      /\ UNCHANGED <<file, lease, daemon, holder, lanes, upsets>>
  BY DEF DoctorEnds
<1>3. /\ db' \in Database /\ db'.tick = db.tick /\ db'.moved = db.moved
      /\ \A l \in Lane : db'.item[l] = db.item[l] \/ db'.item[l] = copy[l].status
      /\ db'.running = RunningOf(copy)
      /\ \A l \in Lane : db'.session[l] = "thread" <=> copy[l].thread
      /\ \A l \in Lane : copy[l].status = "retry_queued" => db'.retry[l] = copy[l].due
  BY <1>1, <1>2, RepairFields
<1>4. copy' \in [Lane -> LaneRecord]
  BY <1>2, NewLaneTyped
<1>5. /\ TablesTyped' /\ Ordered(todo, stage, to.status)'
      /\ TickRows' /\ TickIsAccounted' /\ SavedOnLeave' /\ ItemsFollow'
      /\ Processes'
  BY <1>1, <1>2, <1>3, <1>4, RepairFrame
<1>6. CASE Meets
  <2>1. "retries" \in torn' /\ "scheduler" \in torn'
    BY <1>2, <1>6 DEF AllTables
  <2>2. QueueFollows' /\ SchedulerFollows'
    BY <2>1 DEF QueueFollows, SchedulerFollows
  <2> QED
    BY <1>5, <2>2 DEF Tables
<1>7. CASE ~Meets
  <2>1. /\ holder = NoOne /\ copy = file /\ Lanes' = file /\ file' = file
        /\ todo = <<>> /\ todo' = <<>>
    BY <1>2, <1>7 DEF Meets, Lanes, Processes, Holding, lanes
  <2>2. ~In(todo', "set")
    BY <2>1, NothingIn
  <2>3. QueueFollows'
    BY <1>3, <2>1, <2>2 DEF QueueFollows
  <2>4. {l \in Lane : db'.session[l] = "thread"} = ThreadOf(file)
    BY <1>3, <2>1 DEF ThreadOf
  <2>5. SchedulerFollows'
    BY <1>3, <2>1, <2>4 DEF SchedulerFollows, SchedulerPayload
  <2> QED
    BY <1>5, <2>3, <2>5 DEF Tables
<1> QED
  BY <1>6, <1>7
------------------------------------------------------------------------------
\* A second.

LEMMA SoonerBounds ==
    ASSUME NEW due \in NotQueued..MaxDelay
    PROVE  /\ Sooner(due) \in NotQueued..MaxDelay
           /\ Sooner(due) = NotQueued <=> due = NotQueued
           /\ due # NotQueued => due <= Sooner(due) + 1
  BY PolicyAssumption DEF Sooner, NotQueued

LEMMA LaterFields ==
    ASSUME NEW r \in [Lane -> LaneRecord]
    PROVE  /\ Later(r) \in [Lane -> LaneRecord]
           /\ \A l \in Lane : /\ Later(r)[l].status = r[l].status
                              /\ Later(r)[l].thread = r[l].thread
                              /\ Later(r)[l].due = Sooner(r[l].due)
<1>1. ASSUME NEW l \in Lane
      PROVE  /\ Later(r)[l] \in LaneRecord
             /\ Later(r)[l].status = r[l].status
             /\ Later(r)[l].thread = r[l].thread
             /\ Later(r)[l].due = Sooner(r[l].due)
  <2>1. r[l] \in LaneRecord /\ Sooner(r[l].due) \in NotQueued..MaxDelay
    BY LaneFields, SoonerBounds
  <2>2. Later(r)[l] = [r[l] EXCEPT !.due = Sooner(r[l].due)]
    BY DEF Later
  <2> QED
    BY <2>1, <2>2 DEF LaneRecord
<1>2. Later(r) \in [Lane -> LaneRecord]
  BY <1>1 DEF Later
<1> QED
  BY <1>1, <1>2

LEMMA SecondTables ==
    ASSUME Tables, Second
    PROVE  Tables'
<1>1. /\ file \in [Lane -> LaneRecord] /\ mem \in [Lane -> LaneRecord]
      /\ copy \in [Lane -> LaneRecord] /\ to \in LaneRecord /\ db \in Database
  BY DEF Tables, TablesTyped
<1>2. /\ todo = <<>> /\ file' = Later(file) /\ mem' = Later(mem) /\ copy' = Later(copy)
      /\ to' = [to EXCEPT !.due = Sooner(@)]
      /\ db' = [db EXCEPT !.retry = [l \in Lane |-> Sooner(db.retry[l])]]
      /\ UNCHANGED <<holder, stage, left, todo, at, doctor, upsets, torn>>
  BY DEF Second, Settling
<1>3. to' \in LaneRecord
  <2>1. Sooner(to.due) \in NotQueued..MaxDelay
    BY <1>1, LaneFields, SoonerBounds
  <2> QED
    BY <1>1, <1>2, <2>1 DEF LaneRecord
<1>4. /\ file' \in [Lane -> LaneRecord] /\ mem' \in [Lane -> LaneRecord]
      /\ copy' \in [Lane -> LaneRecord]
  BY <1>1, <1>2, LaterFields
<1>5. /\ db' \in Database /\ db'.tick = db.tick /\ db'.item = db.item
      /\ db'.moved = db.moved /\ db'.running = db.running /\ db'.session = db.session
      /\ \A l \in Lane : db'.retry[l] = Sooner(db.retry[l])
  <2> DEFINE q == [l \in Lane |-> Sooner(db.retry[l])]
  <2>1. \A l \in Lane : Sooner(db.retry[l]) \in NotQueued..MaxDelay
    BY <1>1, TableFields, SoonerBounds
  <2>2. q \in [Lane -> NotQueued..MaxDelay]
    BY <2>1
  <2>3. \A l \in Lane : q[l] = Sooner(db.retry[l])
    OBVIOUS
  <2>4. db' = [db EXCEPT !.retry = q]
    BY <1>2
  <2> HIDE DEF q
  <2>5. db' \in Database
    BY <1>1, <2>2, <2>4, QueueReplaced, Zenon
  <2>6. /\ db'.tick = db.tick /\ db'.item = db.item /\ db'.moved = db.moved
        /\ db'.running = db.running /\ db'.session = db.session /\ db'.retry = q
    BY <1>1, <2>4 DEF Database
  <2> QED
    BY <2>3, <2>5, <2>6
<1>6. TablesTyped'
  BY <1>2, <1>3, <1>4, <1>5 DEF Tables, TablesTyped, ItemsStayTorn
<1>7. Ordered(todo, stage, to.status)'
  BY <1>2, NothingIn
<1>8. TickRows' /\ TickIsAccounted'
  BY <1>2, <1>5 DEF Tables, TickRows, TickOpens, TickGoes, TickCloses, TickIsAccounted,
                    Plain, In
<1>9. SavedOnLeave'
  BY <1>2, NothingIn DEF Tables, SavedOnLeave
<1>10. /\ Lanes \in [Lane -> LaneRecord]
       /\ \A l \in Lane : /\ Lanes'[l].status = Lanes[l].status
                          /\ Lanes'[l].due = Sooner(Lanes[l].due)
  BY <1>1, <1>2, LaterFields DEF Lanes
<1>11. \A l, x : ~Due(l, x)
  BY <1>2, NothingIn DEF Due
<1>12. QueueFollows'
  <2> SUFFICES ASSUME "retries" \notin torn, doctor # "cut"
               PROVE  QueueFollows'
    BY <1>2 DEF QueueFollows
  <2>1. \A l \in Lane : Lanes[l].status = "retry_queued" => db.retry[l] = Lanes[l].due
    BY <1>11 DEF Tables, QueueFollows
  <2>2. \A l \in Lane : Lanes'[l].status = "retry_queued" => db'.retry[l] = Lanes'[l].due
    BY <1>5, <1>10, <2>1
  <2>3. ~In(todo', "set")
    BY <1>2, NothingIn
  <2> QED
    BY <2>2, <2>3 DEF QueueFollows
<1>13. ItemsFollow'
  <2> SUFFICES ASSUME "items" \notin torn
               PROVE  ItemsFollow'
    BY <1>2 DEF ItemsFollow
  <2>1. \A l \in Lane : /\ db.item[l] = Lanes[l].status
                       /\ Lanes[l].status \in {"none", "claimed", db.moved[l]}
    BY <1>11 DEF Tables, ItemsFollow
  <2> QED
    BY <1>5, <1>10, <2>1 DEF ItemsFollow
<1>14. SchedulerFollows'
  <2>1. \A l \in Lane : file'[l].status = file[l].status /\ file'[l].thread = file[l].thread
    BY <1>1, <1>2, LaterFields
  <2>2. RunningOf(file') = RunningOf(file) /\ ThreadOf(file') = ThreadOf(file)
    BY <2>1 DEF RunningOf, ThreadOf
  <2>3. SchedulerPayload(db').sessions = SchedulerPayload(db).sessions
    BY <1>5 DEF SchedulerPayload
  <2>4. ~In(todo, "snap") /\ ~In(todo', "snap")
    BY <1>2, NothingIn
  <2> QED
    BY <1>2, <1>5, <2>2, <2>3, <2>4 DEF Tables, SchedulerFollows
<1> QED
  BY <1>6, <1>7, <1>8, <1>9, <1>12, <1>13, <1>14 DEF Tables

LEMMA SecondProcesses ==
    ASSUME Tables, Processes, Second
    PROVE  Processes'
<1>1. /\ daemon \in [Daemon -> Process] /\ lease \in LeaseRow(Daemon, TTL)
      /\ todo = <<>> /\ lease' = Aged(lease)
      /\ db' = [db EXCEPT !.retry = [l \in Lane |-> Sooner(db.retry[l])]]
      /\ daemon' = [d \in Daemon |->
                      [daemon[d] EXCEPT
                         !.age   = IF daemon[d].pc \in Awake THEN @ + 1 ELSE @,
                         !.sleep = IF daemon[d].pc = "asleep" THEN @ - 1 ELSE @]]
      /\ UNCHANGED <<holder, stage, left, todo, at, doctor, upsets, torn>>
  BY DEF Second, Settling, Processes, ProcessesTyped
<1>2. ASSUME NEW d \in Daemon
      PROVE  /\ daemon'[d] \in Process
             /\ daemon'[d].pc = daemon[d].pc /\ daemon'[d].stop = daemon[d].stop
             /\ daemon'[d].age = IF daemon[d].pc \in Awake THEN daemon[d].age + 1
                                 ELSE daemon[d].age
             /\ daemon'[d].sleep = IF daemon[d].pc = "asleep" THEN daemon[d].sleep - 1
                                   ELSE daemon[d].sleep
             /\ daemon[d].age \in Nat /\ daemon[d].age <= MaxTick /\ daemon[d].sleep \in Nat
             /\ daemon[d].pc \in Awake => daemon[d].age < MaxTick
  <2> DEFINE age   == IF daemon[d].pc \in Awake THEN daemon[d].age + 1 ELSE daemon[d].age
             sleep == IF daemon[d].pc = "asleep" THEN daemon[d].sleep - 1
                      ELSE daemon[d].sleep
  <2>1. /\ daemon[d] \in Process /\ daemon[d].age \in 0..MaxTick
        /\ daemon[d].sleep \in 0..(Longest + Jitter)
    BY <1>1, ProcessFields
  <2>2. /\ daemon[d].pc \in Awake => daemon[d].age < MaxTick
        /\ daemon[d].pc = "asleep" => daemon[d].sleep > 0
    BY DEF Second
  <2>3. age \in 0..MaxTick /\ sleep \in 0..(Longest + Jitter)
    BY <2>1, <2>2, Bounds, LongestSleep
  <2>4. daemon'[d] = [daemon[d] EXCEPT !.age = age, !.sleep = sleep]
    BY <1>1
  <2> HIDE DEF age, sleep
  <2>5. /\ daemon'[d] \in Process /\ daemon'[d].pc = daemon[d].pc
        /\ daemon'[d].stop = daemon[d].stop
        /\ daemon'[d].age = age /\ daemon'[d].sleep = sleep
    BY <2>1, <2>3, <2>4 DEF Process
  <2>6. /\ daemon[d].age \in Nat /\ daemon[d].age <= MaxTick /\ daemon[d].sleep \in Nat
    BY <2>1, Bounds, LongestSleep
  <2> QED
    BY <2>2, <2>5, <2>6 DEF age, sleep
<1>3. /\ lease' \in LeaseRow(Daemon, TTL) /\ lease'.owner = lease.owner
      /\ lease'.released = lease.released
      /\ lease'.left = IF lease.left = 0 THEN 0 ELSE lease.left - 1
      /\ lease.left \in Nat
  <2>1. lease.left \in 0..TTL /\ lease.left \in Nat
    BY <1>1, LeaseFields
  <2>2. (IF lease.left = 0 THEN 0 ELSE lease.left - 1) \in 0..TTL
    BY <2>1, Bounds
  <2> QED
    BY <1>1, <2>1, <2>2 DEF Aged, LeaseRow
<1>4. daemon' \in [Daemon -> Process]
  BY <1>1, <1>2
<1>5. ProcessesTyped'
  BY <1>1, <1>3, <1>4 DEF Processes, ProcessesTyped
<1>6. Leased'
  <2> SUFFICES ASSUME NEW d \in Daemon, daemon'[d].pc \in Awake
               PROVE  /\ lease'.owner = d /\ ~lease'.released
                      /\ lease'.left + daemon'[d].age >= TTL
    BY DEF Leased
  <2>1. /\ lease.owner = d /\ ~lease.released /\ lease.left + daemon[d].age >= TTL
        /\ daemon'[d].age = daemon[d].age + 1
    BY <1>2 DEF Processes, Leased
  <2>2. lease.left # 0
    BY <1>2, <2>1, Bounds
  <2> QED
    BY <1>2, <1>3, <2>1, <2>2, Bounds
<1>7. Unowned'
  BY <1>3 DEF Processes, Unowned
<1>8. Holding'
  BY <1>1, <1>2 DEF Processes, Holding
<1>9. Alone'
  <2> SUFFICES ASSUME upsets = 0
               PROVE  Alone'
    BY <1>1 DEF Alone
  <2>1. /\ \A c, d \in Daemon : daemon[c].pc # "down" /\ daemon[d].pc # "down" => c = d
        /\ \A d \in Daemon : daemon[d].pc = "down" => lease.owner # d
        /\ \A d \in Daemon : ~daemon[d].stop
        /\ doctor = "idle"
    BY DEF Processes, Alone
  <2>2. \A c, d \in Daemon : daemon'[c].pc # "down" /\ daemon'[d].pc # "down" => c = d
    BY <1>2, <2>1
  <2>3. \A d \in Daemon : daemon'[d].pc = "down" => lease'.owner # d
    BY <1>2, <1>3, <2>1
  <2>4. \A d \in Daemon : ~daemon'[d].stop
    BY <1>2, <2>1
  <2>5. ~In(todo', "put") /\ doctor' = "idle"
    BY <1>1, <2>1, NothingIn
  <2> QED
    BY <2>2, <2>3, <2>4, <2>5 DEF Alone
<1>10. WakesForRetry'
  <2> SUFFICES ASSUME upsets = 0, NEW d \in Daemon, NEW l \in Queued(db'),
                      daemon'[d].pc = "asleep"
               PROVE  \/ daemon'[d].sleep <= db'.retry[l] + 1 + Jitter
                      \/ daemon'[d].sleep <= ErrorInterval + Jitter
    BY <1>1 DEF WakesForRetry
  <2>1. db.retry \in [Lane -> NotQueued..MaxDelay] /\ db \in Database
    BY TableFields DEF Tables, TablesTyped
  <2>2. l \in Lane /\ db'.retry[l] = Sooner(db.retry[l]) /\ db'.retry[l] # NotQueued
    BY <1>1, <2>1 DEF Queued, Database
  <2>3. /\ db.retry[l] # NotQueued /\ db.retry[l] <= db'.retry[l] + 1
        /\ db.retry[l] \in Int /\ db'.retry[l] \in Int
    BY <2>1, <2>2, SoonerBounds, PolicyAssumption DEF NotQueued
  <2>4. l \in Queued(db)
    BY <2>2, <2>3 DEF Queued
  <2>5. \/ daemon[d].sleep <= db.retry[l] + 1 + Jitter
        \/ daemon[d].sleep <= ErrorInterval + Jitter
    BY <1>2, <2>4 DEF Processes, WakesForRetry
  <2>6. daemon'[d].sleep = daemon[d].sleep - 1 /\ daemon[d].sleep \in Nat
    BY <1>2
  <2> QED
    BY <2>3, <2>5, <2>6, Bounds
<1> QED
  BY <1>5, <1>6, <1>7, <1>8, <1>9, <1>10 DEF Processes

LEMMA SecondKeeps ==
    ASSUME IInv, Second
    PROVE  IInv'
  BY Halves, HalvesNext, SecondTables, SecondProcesses
------------------------------------------------------------------------------
\* Init and Next.

LEMMA IInvInit ==
    ASSUME Init
    PROVE  IInv
<1> USE DEF Init
<1>1. SomeLane \in Lane
  BY BoundAssumption DEF SomeLane
<1>2. file \in [Lane -> LaneRecord] /\ \A l \in Lane : file[l].status = "none" /\ ~file[l].thread
  BY NewLaneTyped DEF NewLane
<1>3. db \in Database
  <2>1. "none" \in Status /\ NotQueued \in NotQueued..MaxDelay
    BY PolicyAssumption DEF Status, NotQueued
  <2> QED
    BY <2>1 DEF EmptyDatabase, Database, TickRow
<1>4. TablesTyped
  BY <1>1, <1>2, <1>3, NewLaneTyped, EmptySeq DEF TablesTyped, ItemsStayTorn, AllTables
<1>5. ProcessesTyped
  <2>1. Down \in Process
    BY Bounds, LongestSleep DEF Down, Process
  <2>2. NoRow \in LeaseRow(Daemon, TTL)
    BY Bounds DEF NoRow, LeaseRow
  <2> QED
    BY <2>1, <2>2, Bounds DEF ProcessesTyped
<1>6. Ordered(todo, stage, to.status)
  BY NothingIn
<1>7. TickRows /\ TickIsAccounted /\ SavedOnLeave
  BY Bounds DEF TickRows, TickIsAccounted, SavedOnLeave, EmptyDatabase
<1>8. QueueFollows /\ ItemsFollow
  BY <1>2, NothingIn DEF QueueFollows, ItemsFollow, Lanes, EmptyDatabase
<1>9. SchedulerFollows
  BY <1>2 DEF SchedulerFollows, SchedulerPayload, RunningOf, ThreadOf, EmptyDatabase
<1>10. Leased /\ Unowned /\ Holding
  BY Bounds DEF Leased, Unowned, Holding, Awake, Down, NoRow
<1>11. Alone
  BY Bounds DEF Alone, Down, NoRow
<1>12. WakesForRetry
  BY DEF WakesForRetry, Down
<1> QED
  BY <1>4, <1>5, <1>6, <1>7, <1>8, <1>9, <1>10, <1>11, <1>12, Halves
     DEF Tables, Processes

LEMMA IInvStep ==
    ASSUME IInv, [Next]_vars
    PROVE  IInv'
<1>1. CASE UNCHANGED vars
  <2>1. Tables'
    BY <1>1, Halves, TablesKept DEF vars, tables
  <2>2. Processes'
    BY <1>1, Halves DEF vars, lanes, repair, Processes, ProcessesTyped, Leased, Unowned,
                        Holding, Alone, WakesForRetry, Queued, In
  <2> QED
    BY <2>1, <2>2, HalvesNext
<1>2. ASSUME NEW d \in Daemon,
             \/ Start(d) \/ Loop(d) \/ LockTimesOut(d) \/ Stop(d) \/ Kill(d)
             \/ TickBreaks(d)
      PROVE  IInv'
  BY <1>2, StartKeeps, AcquireKeeps, LeaveLoopKeeps, EnterTickKeeps, FallAsleepKeeps,
     WakeKeeps, LockTimesOutKeeps, StopKeeps, KillKeeps, TickBreaksKeeps DEF Loop
<1>3. CASE Work
  BY <1>3, CommitKeeps, ReconcileKeeps, ClaimKeeps, RouteKeeps, ReconcileEndsKeeps,
     IntakeEndsKeeps, EndTickKeeps, LeaveKeeps DEF Work
<1>4. CASE TickFails \/ \E l \in Lane : File(l) \/ Operate(l)
  BY <1>4, TickFailsKeeps, FileKeeps, OperateKeeps
<1>5. CASE DoctorReads \/ DoctorCuts \/ DoctorEnds \/ KillOther
  BY <1>5, DoctorReadsKeeps, DoctorCutsKeeps, DoctorEndsKeeps, KillOtherKeeps
<1>6. CASE Second
  BY <1>6, SecondKeeps
<1> QED
  BY <1>1, <1>2, <1>3, <1>4, <1>5, <1>6 DEF Next
------------------------------------------------------------------------------
\* The theorems.

\* Every reachable state of the daemon, the lock holders and the doctor is one
\* that the inductive invariant allows (run_workflow_daemon, save_scheduler).
THEOREM InductiveInvariant == Spec => []IInv
<1>1. Init => IInv
  BY IInvInit
<1>2. IInv /\ [Next]_vars => IInv'
  BY IInvStep
<1> QED
  BY <1>1, <1>2, PTL DEF Spec

\* Every table, list and process is of its type: no sleep, lease or due time
\* leaves its range, and no list has a commit nobody knows.
THEOREM TypeCorrect == Spec => []TypeOK
<1>1. IInv => TypeOK
  BY DEF IInv
<1> QED
  BY <1>1, InductiveInvariant, PTL

\* Two daemons of one workflow are never awake at once: who is awake owns the
\* lease, which has not run out since (run_workflow_daemon).
THEOREM OneDaemon == Spec => []OneDaemonAwake
<1>1. IInv => OneDaemonAwake
  BY DEF IInv, Leased, OneDaemonAwake
<1> QED
  BY <1>1, InductiveInvariant, PTL

\* When nobody is in the middle of anything no commit is left on a list, so the
\* tables that nothing has torn tell what the state file tells (schedule_retry,
\* record_engine_lane, save_scheduler_snapshot).
THEOREM TablesFollow == Spec => []TablesFollowFile
<1>1. ASSUME IInv
      PROVE  TablesFollowFile
  <2>1. Tables /\ Processes
    BY <1>1, Halves
  <2>2. Quiet => todo = <<>> /\ Lanes = file /\ doctor # "cut"
    BY <2>1 DEF Quiet, Processes, Holding, Lanes
  <2>3. Quiet => \A l, x : ~Due(l, x)
    BY <2>2, NothingIn DEF Due
  <2>4. WaitingLaneIsQueued
    BY <2>1, <2>2, <2>3 DEF Tables, QueueFollows, WaitingLaneIsQueued, WaitingOf
  <2>5. ItemsFollowFile
    <3> SUFFICES ASSUME Quiet, "items" \notin torn, NEW l \in Lane
                 PROVE  /\ db.item[l] = file[l].status
                        /\ db.item[l] \in {"none", "claimed", db.moved[l]}
      BY DEF ItemsFollowFile
    <3>1. /\ db.item[l] = Lanes[l].status
          /\ Lanes[l].status \in {"none", "claimed", db.moved[l]}
      BY <2>1, <2>3 DEF Tables, ItemsFollow
    <3> QED
      BY <2>2, <3>1
  <2>6. SchedulerFollowsFile
    BY <2>1, <2>2 DEF Tables, SchedulerFollows, SchedulerFollowsFile, Quiet
  <2> QED
    BY <2>4, <2>5, <2>6 DEF TablesFollowFile
<1> QED
  BY <1>1, InductiveInvariant, PTL

\* A tick run that is over has both its events, and one that is left running was
\* left by a kill or by a failure of its own handler (start_tick_journal, finish_tick_journal).
THEOREM TickAccounted == Spec => []TickIsAccounted
<1>1. IInv => TickIsAccounted
  BY DEF IInv
<1> QED
  BY <1>1, InductiveInvariant, PTL

\* A daemon that is left alone never sleeps past the queue it has looked at,
\* since only its own ticks make the queue longer (_next_sleep_seconds).
THEOREM RetryWakes == Spec => []WakesForRetry
<1>1. IInv => WakesForRetry
  BY DEF IInv
<1> QED
  BY <1>1, InductiveInvariant, PTL
------------------------------------------------------------------------------
(* The event ledger: what a prune leaves of it, for every ledger and every limit. *)

LEMMA NewerIsOrder ==
    ASSUME NEW events, IsLedger(events)
    PROVE  \A e, f, g \in events :
             /\ ~Newer(e, e)
             /\ Newer(e, f) /\ Newer(f, g) => Newer(e, g)
             /\ e # f => Newer(e, f) \/ Newer(f, e)
  BY DEF IsLedger, Event, Newer

LEMMA AboveIsFinite ==
    ASSUME NEW events, IsLedger(events), NEW e \in events
    PROVE  /\ IsFiniteSet(Above(events, e))
           /\ Cardinality(Above(events, e)) \in Nat
<1>1. Above(events, e) \subseteq events
  BY DEF Above
<1>2. IsFiniteSet(Above(events, e))
  BY <1>1, FS_Subset DEF IsLedger
<1> QED
  BY <1>2, FS_CardinalityType

\* Fewer rows are above the newer one of two.
LEMMA AboveShrinks ==
    ASSUME NEW events, IsLedger(events), NEW e \in events, NEW f \in events,
           Newer(f, e)
    PROVE  Cardinality(Above(events, f)) < Cardinality(Above(events, e))
<1>1. Above(events, f) \subseteq Above(events, e)
  BY NewerIsOrder DEF Above
<1>2. f \in Above(events, e) /\ f \notin Above(events, f)
  BY NewerIsOrder DEF Above
<1>3. Above(events, f) # Above(events, e)
  BY <1>2
<1>4. IsFiniteSet(Above(events, e))
  BY AboveIsFinite
<1>5. Cardinality(Above(events, f)) <= Cardinality(Above(events, e))
      /\ (Cardinality(Above(events, f)) = Cardinality(Above(events, e))
            => Above(events, f) = Above(events, e))
  BY <1>1, <1>4, FS_Subset
<1> QED
  BY <1>3, <1>5, AboveIsFinite

LEMMA YoungIsLedger ==
    ASSUME NEW events, IsLedger(events), NEW now \in Int,
           NEW age \in Nat \cup {NoLimit}
    PROVE  IsLedger(Young(events, now, age))
<1>1. Young(events, now, age) \subseteq events
  BY DEF Young
<1>2. IsFiniteSet(Young(events, now, age))
  BY <1>1, FS_Subset DEF IsLedger
<1> QED
  BY <1>1, <1>2 DEF IsLedger

\* The rows that are kept are not too many: they have different numbers of rows
\* above them, all below the limit.
LEMMA NewestAreFew ==
    ASSUME NEW events, IsLedger(events), NEW rows \in Nat
    PROVE  Cardinality(Newest(events, rows)) <= rows
<1> DEFINE kept == Newest(events, rows)
           place == [e \in kept |-> Cardinality(Above(events, e))]
           places == 0 .. (rows - 1)
<1>1. kept \subseteq events /\ rows # NoLimit
  BY DEF Newest, NoLimit
<1>2. \A e \in kept : place[e] \in places
  BY <1>1, AboveIsFinite DEF Newest
<1>3. \A e, f \in kept : e # f => place[e] # place[f]
  <2> SUFFICES ASSUME NEW e \in kept, NEW f \in kept, e # f
               PROVE  place[e] # place[f]
    OBVIOUS
  <2>1. Newer(e, f) \/ Newer(f, e)
    BY <1>1, NewerIsOrder
  <2>2. place[e] \in Nat /\ place[f] \in Nat
    BY <1>1, AboveIsFinite
  <2>3. CASE Newer(e, f)
    BY <1>1, <2>2, <2>3, AboveShrinks
  <2>4. CASE Newer(f, e)
    BY <1>1, <2>2, <2>4, AboveShrinks
  <2> QED
    BY <2>1, <2>3, <2>4
<1>4. place \in Injection(kept, places)
  BY <1>2, <1>3 DEF Injection, IsInjective
<1>5. IsFiniteSet(places) /\ Cardinality(places) = rows
  BY FS_Interval
<1>6. Cardinality(kept) <= Cardinality(places)
  BY <1>4, <1>5, FS_Injection
<1> QED
  BY <1>5, <1>6

\* After a prune the doctor has nothing to warn of: neither the age nor the
\* number of rows is over the limit it was configured with
\* (apply_event_retention, the check engine-event-retention).
THEOREM PruneSettles ==
    ASSUME NEW events, IsLedger(events), NEW now \in Int,
           NEW limits \in Limits, Configured(limits)
    PROVE  ~Warns(Applied(events, now, limits), now, limits)
<1> DEFINE young == Young(events, now, limits.age)
           kept  == Newest(young, limits.rows)
<1>1. Applied(events, now, limits) = kept
  BY DEF Applied, Pruned
<1>2. limits.age \in Nat \cup {NoLimit} /\ limits.rows \in Nat \cup {NoLimit}
  BY DEF Limits
<1>3. IsLedger(young)
  BY <1>2, YoungIsLedger
<1>4. IsFiniteSet(kept) /\ kept \subseteq young /\ Cardinality(kept) \in Nat
  <2>1. kept \subseteq young
    BY DEF Newest
  <2>2. IsFiniteSet(kept)
    BY <1>3, <2>1, FS_Subset DEF IsLedger
  <2> QED
    BY <2>1, <2>2, FS_CardinalityType
<1>5. ~ExcessRows(kept, limits.rows)
  <2>1. CASE limits.rows = NoLimit
    BY <2>1 DEF ExcessRows
  <2>2. CASE limits.rows \in Nat
    BY <1>3, <1>4, <2>2, NewestAreFew DEF ExcessRows
  <2> QED
    BY <1>2, <2>1, <2>2
<1>6. ~AgeOverdue(kept, now, limits.age)
  <2>1. CASE limits.age = NoLimit
    BY <2>1 DEF AgeOverdue
  <2>2. CASE limits.age \in Nat
    <3> SUFFICES ASSUME NEW e \in kept
                 PROVE  ~(now - e.at > limits.age)
      BY DEF AgeOverdue
    <3>1. e \in young /\ e.at \in Int
      BY <1>3, <1>4 DEF IsLedger, Event
    <3>2. e.at >= now - limits.age
      BY <2>2, <3>1 DEF Young, NoLimit
    <3> QED
      BY <2>2, <3>1, <3>2
  <2> QED
    BY <1>2, <2>1, <2>2
<1> QED
  BY <1>1, <1>5, <1>6 DEF Warns

\* A prune takes the oldest: no event goes while an older one stays, whichever
\* of the two limits it falls to.
THEOREM PruneTakesOldest ==
    ASSUME NEW events, IsLedger(events), NEW now \in Int,
           NEW limits \in Limits,
           NEW e \in Pruned(events, now, limits), NEW f \in events, Newer(f, e)
    PROVE  f \in Pruned(events, now, limits)
<1> DEFINE young == Young(events, now, limits.age)
<1>1. limits.age \in Nat \cup {NoLimit} /\ limits.rows \in Nat \cup {NoLimit}
  BY DEF Limits
<1>2. IsLedger(young) /\ e \in young /\ e \in events
  BY <1>1, YoungIsLedger DEF Pruned, Newest, Young
<1>3. f.at \in Int /\ e.at \in Int /\ f.at >= e.at
  BY <1>2 DEF IsLedger, Event, Newer
<1>4. f \in young
  BY <1>1, <1>2, <1>3 DEF Young
<1>5. CASE limits.rows = NoLimit
  BY <1>4, <1>5 DEF Pruned, Newest
<1>6. CASE limits.rows \in Nat
  <2>1. Cardinality(Above(young, e)) < limits.rows
    BY <1>6 DEF Pruned, Newest, NoLimit
  <2>2. Cardinality(Above(young, f)) < Cardinality(Above(young, e))
    BY <1>2, <1>4, AboveShrinks
  <2>3. Cardinality(Above(young, f)) < limits.rows
    BY <1>2, <1>4, <1>6, <2>1, <2>2, AboveIsFinite
  <2> QED
    BY <1>4, <2>3 DEF Pruned, Newest
<1> QED
  BY <1>1, <1>5, <1>6
=============================================================================
