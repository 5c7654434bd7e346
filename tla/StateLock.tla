------------------------------ MODULE StateLock ------------------------------
(***************************************************************************)
(* with_state_lock (workflows/state_io.py): the lock that ticks, actor     *)
(* workers and operator commands take around "load the workflow state,     *)
(* change it, save it".  The lock is a lease of the engine with a time to  *)
(* live, kept alive by a renewer thread, polled by waiters until a         *)
(* deadline.  The state file carries no version: nothing but the lock      *)
(* stops a callback from saving over an update it has not read.            *)
(*                                                                         *)
(* Processes may die at any point.  SpecTimed assumes that a live holder's *)
(* lease is rewritten or given up within MaxGap seconds; SpecLate drops    *)
(* that assumption (the process is suspended, or the renewer thread has    *)
(* ended on an exception).                                                 *)
(***************************************************************************)
EXTENDS Leases

CONSTANTS
    Proc,           \* processes that take the lock (ticks, workers, commands)
    Call,           \* the unique part of an owner id, one per call
    NoCall,         \* no call in progress
    TTL,            \* _STATE_LOCK_TTL_SECONDS
    RenewEvery,     \* _STATE_LOCK_RENEW_INTERVAL_SECONDS
    WaitLimit,      \* timeout_seconds of with_state_lock
    MaxGap          \* SpecTimed: most seconds between two writes of a live holder

ASSUME TimingAssumption ==
    /\ TTL \in Nat /\ RenewEvery \in Nat /\ WaitLimit \in Nat /\ MaxGap \in Nat
    /\ 0 < RenewEvery /\ RenewEvery <= MaxGap /\ MaxGap < TTL

ASSUME NameAssumption == NoCall \notin Call /\ NoOwner \notin Proc \X Call

\* owner_instance_id is role:pid:uuid, so an owner names its process.
Owner == Proc \X Call

VARIABLES
    lease,      \* the row of scope workflow-state for this workflow root
    pc,         \* where each process is in with_state_lock
    call,       \* the call each process is in
    wait,       \* seconds until a waiter's deadline
    renewer,    \* the renewer thread of each call
    since,      \* seconds since that thread, or its call, last wrote the lease
    copy        \* the state a callback has loaded: none, fresh or stale

vars == <<lease, pc, call, wait, renewer, since, copy>>

Own(p) == <<p, call[p]>>

\* p believes it holds the lock.
Inside(p) == pc[p] \in {"critical", "stopping"}

\* Types; and a lease is never more than TTL seconds from its expiry, which is how
\* long a dead holder can keep the others out (acquire_engine_lease).
TypeOK ==
    /\ lease \in LeaseRow(Owner, TTL)
    /\ pc \in [Proc -> {"idle", "waiting", "critical", "stopping"}]
    /\ call \in [Proc -> Call \cup {NoCall}]
    /\ \A p \in Proc : pc[p] # "idle" => call[p] \in Call
    /\ wait \in [Proc -> 0..WaitLimit]
    /\ renewer \in [Owner -> {"off", "sleeping", "calling", "told"}]
    /\ since \in [Owner -> 0..TTL]
    /\ copy \in [Proc -> {"none", "fresh", "stale"}]

Init ==
    /\ lease = NoRow
    /\ pc = [p \in Proc |-> "idle"]
    /\ call = [p \in Proc |-> NoCall]
    /\ wait = [p \in Proc |-> 0]
    /\ renewer = [o \in Owner |-> "off"]
    /\ since = [o \in Owner |-> 0]
    /\ copy = [p \in Proc |-> "none"]
------------------------------------------------------------------------------
\* A call begins: a new uuid, and a deadline.  An id is new when neither the
\* lease row nor a renewer thread still carries it.
Request(p) ==
    /\ pc[p] = "idle"
    /\ \E c \in Call :
         /\ lease.owner # <<p, c>>
         /\ renewer[<<p, c>>] = "off"
         /\ call' = [call EXCEPT ![p] = c]
    /\ pc' = [pc EXCEPT ![p] = "waiting"]
    /\ wait' = [wait EXCEPT ![p] = WaitLimit]
    /\ UNCHANGED <<lease, renewer, since, copy>>

\* Variant: the answer of acquire_lease is not looked at.
EnterUnasked(p) ==
    /\ pc[p] = "waiting"
    /\ lease' = AcquireLease(lease, Own(p), TTL)
    /\ pc' = [pc EXCEPT ![p] = "critical"]
    /\ renewer' = [renewer EXCEPT ![Own(p)] = "sleeping"]
    /\ since' = [since EXCEPT ![Own(p)] = 0]
    /\ wait' = [wait EXCEPT ![p] = 0]
    /\ UNCHANGED <<call, copy>>

\* The polling loop gets the lease and starts the renewer.
Enter(p) ==
    /\ pc[p] = "waiting"
    /\ MayTake(lease, Own(p))
    /\ lease' = AcquireLease(lease, Own(p), TTL)
    /\ pc' = [pc EXCEPT ![p] = "critical"]
    /\ renewer' = [renewer EXCEPT ![Own(p)] = "sleeping"]
    /\ since' = [since EXCEPT ![Own(p)] = 0]
    /\ wait' = [wait EXCEPT ![p] = 0]
    /\ UNCHANGED <<call, copy>>

\* The polling loop is refused once more at or after its deadline: TimeoutError.
GiveUp(p) ==
    /\ pc[p] = "waiting"
    /\ ~MayTake(lease, Own(p))
    /\ wait[p] = 0
    /\ pc' = [pc EXCEPT ![p] = "idle"]
    /\ call' = [call EXCEPT ![p] = NoCall]
    /\ UNCHANGED <<lease, wait, renewer, since, copy>>

\* Variant: the state is read before the lock is held.
LoadEarly(p) ==
    /\ pc[p] \in {"waiting", "critical"}
    /\ copy[p] = "none"
    /\ copy' = [copy EXCEPT ![p] = "fresh"]
    /\ UNCHANGED <<lease, pc, call, wait, renewer, since>>

\* The callback reads the state file.
Load(p) ==
    /\ pc[p] = "critical"
    /\ copy[p] = "none"
    /\ copy' = [copy EXCEPT ![p] = "fresh"]
    /\ UNCHANGED <<lease, pc, call, wait, renewer, since>>

\* The callback writes what it has: every other loaded copy is now stale.
Save(p) ==
    /\ pc[p] = "critical"
    /\ copy[p] # "none"
    /\ copy' = [q \in Proc |->
                  IF q = p THEN "fresh"
                  ELSE IF copy[q] = "none" THEN "none" ELSE "stale"]
    /\ UNCHANGED <<lease, pc, call, wait, renewer, since>>

\* The callback returned or raised: the renewer is told to stop and joined for
\* at most 0.2 seconds.  A thread past its stop check is not stopped by that.
StopRenewer(p) ==
    /\ pc[p] = "critical"
    /\ pc' = [pc EXCEPT ![p] = "stopping"]
    /\ renewer' = [renewer EXCEPT ![Own(p)] =
                     IF @ = "calling" THEN "told" ELSE "off"]
    /\ copy' = [copy EXCEPT ![p] = "none"]
    /\ UNCHANGED <<lease, call, wait, since>>

\* The lease is given back and with_state_lock returns.
Release(p) ==
    /\ pc[p] = "stopping"
    /\ lease' = ReleaseLease(lease, Own(p))
    /\ pc' = [pc EXCEPT ![p] = "idle"]
    /\ call' = [call EXCEPT ![p] = NoCall]
    /\ since' = [since EXCEPT ![Own(p)] = 0]
    /\ UNCHANGED <<wait, renewer, copy>>

\* acquire_lease or release_lease raises in the calling thread (a locked or
\* unreachable database): the call ends, and the lease row stays as it was.
StoreFails(p) ==
    /\ pc[p] \in {"waiting", "stopping"}
    /\ pc' = [pc EXCEPT ![p] = "idle"]
    /\ call' = [call EXCEPT ![p] = NoCall]
    /\ since' = [since EXCEPT ![Own(p)] = 0]
    /\ wait' = [wait EXCEPT ![p] = 0]
    /\ UNCHANGED <<lease, renewer, copy>>

\* stop.wait(RenewEvery) timed out without the stop event.
RenewerWakes(o) ==
    /\ renewer[o] = "sleeping"
    /\ since[o] >= RenewEvery
    /\ renewer' = [renewer EXCEPT ![o] = "calling"]
    /\ UNCHANGED <<lease, pc, call, wait, since, copy>>

\* The thread calls acquire_lease and ignores the answer.  Its call may come
\* after the lease was released: then it takes the lock again for nobody.
RenewerCalls(o) ==
    /\ renewer[o] \in {"calling", "told"}
    /\ lease' = AcquireLease(lease, o, TTL)
    /\ renewer' = [renewer EXCEPT ![o] = IF @ = "told" THEN "off" ELSE "sleeping"]
    /\ since' = [since EXCEPT ![o] = 0]
    /\ UNCHANGED <<pc, call, wait, copy>>

\* The process dies with all its threads, and is started again idle.
Crash(p) ==
    /\ pc[p] # "idle"
    /\ pc' = [pc EXCEPT ![p] = "idle"]
    /\ call' = [call EXCEPT ![p] = NoCall]
    /\ copy' = [copy EXCEPT ![p] = "none"]
    /\ renewer' = [o \in Owner |-> IF o[1] = p THEN "off" ELSE renewer[o]]
    /\ since' = [o \in Owner |-> IF o[1] = p THEN 0 ELSE since[o]]
    /\ wait' = [wait EXCEPT ![p] = 0]
    /\ UNCHANGED lease

\* acquire_lease raises in the renewer (a locked or unreachable database):
\* the thread ends, the callback goes on.
RenewerDies(o) ==
    /\ renewer[o] \in {"calling", "told"}
    /\ renewer' = [renewer EXCEPT ![o] = "off"]
    /\ UNCHANGED <<lease, pc, call, wait, since, copy>>

\* The calls whose time since the last write of the lease matters.
Timed(o) ==
    \/ renewer[o] \in {"sleeping", "calling"}
    \/ \E p \in Proc : Inside(p) /\ Own(p) = o

\* Variant: the deadline of a waiter is computed anew at every poll.
SecondNoDeadline ==
    /\ lease' = Aged(lease)
    /\ since' = [o \in Owner |->
                   IF Timed(o) /\ since[o] < TTL THEN since[o] + 1 ELSE since[o]]
    /\ UNCHANGED <<pc, call, wait, renewer, copy>>

\* One second passes for the lease, the waiters and the renewers.
Second ==
    /\ lease' = Aged(lease)
    /\ wait' = [p \in Proc |-> IF wait[p] = 0 THEN 0 ELSE wait[p] - 1]
    /\ since' = [o \in Owner |->
                   IF Timed(o) /\ since[o] < TTL THEN since[o] + 1 ELSE since[o]]
    /\ UNCHANGED <<pc, call, renewer, copy>>

\* No live holder lets MaxGap seconds go by without a write of the lease.
Punctual == \A p \in Proc : Inside(p) => since[Own(p)] < MaxGap

Tick == Punctual /\ Second

Step ==
    \/ \E p \in Proc :
         \/ Request(p) \/ Enter(p) \/ GiveUp(p)
         \/ Load(p) \/ Save(p) \/ StopRenewer(p)
         \/ Release(p) \/ StoreFails(p) \/ Crash(p)
    \/ \E o \in Owner : RenewerWakes(o) \/ RenewerCalls(o)

NextTimed == Step \/ Tick

NextLate == Step \/ Second \/ \E o \in Owner : RenewerDies(o)

\* Time passes, threads are scheduled and a returned callback releases; no
\* process is obliged to ask for the lock or to end its callback.
Fairness ==
    /\ WF_vars(Tick)
    /\ \A p \in Proc : WF_vars(Enter(p) \/ GiveUp(p)) /\ WF_vars(Release(p))
    /\ \A o \in Owner : WF_vars(RenewerWakes(o)) /\ WF_vars(RenewerCalls(o))

SpecTimed == Init /\ [][NextTimed]_vars

FairSpecTimed == SpecTimed /\ Fairness

SpecLate == Init /\ [][NextLate]_vars
------------------------------------------------------------------------------
\* Callbacks never overlap while live holders write their lease in time
\* (with_state_lock around every load and save of the state).
MutualExclusion == \A p, q \in Proc : Inside(p) /\ Inside(q) => p = q

\* No callback is about to save over an update it has not read: the JSON file
\* has no version, so a stale copy would silently undo another's save.
NoLostUpdate == \A p \in Proc : copy[p] # "stale"

\* with_state_lock implements the mutual exclusion its callers count on.
MutexSpec == INSTANCE Mutex WITH inside <- {p \in Proc : Inside(p)}

ImplementsMutex == MutexSpec!Spec

\* Every call that waits for the lock returns: it gets the lock or it raises
\* TimeoutError.
WaiterReturns == \A p \in Proc : pc[p] = "waiting" ~> pc[p] # "waiting"

\* A lease that blocks while nobody is inside: its holder died, or a renewer
\* called after the release.
Orphaned == Blocking(lease) /\ \A p \in Proc : Inside(p) => Own(p) # lease.owner

\* An orphaned lock does not stay locked: a renewer whose call has ended
\* writes the lease at most once more.
OrphanedLockOpens == Orphaned ~> ~Orphaned

\* Nobody is stuck at the lock: waiters return and abandoned locks open, whoever
\* dies and whenever (with_state_lock, _start_state_lock_renewer).
NobodyIsStuck == WaiterReturns /\ OrphanedLockOpens

\* Even when holders are late, a lease that still blocks is never taken from
\* its owner: not by a waiter, and not by the renewer of a call that lost it.
NoTheft == [][Blocking(lease) => lease'.owner = lease.owner]_lease
==============================================================================
