------------------------------- MODULE Leases -------------------------------
(***************************************************************************)
(* The lease table of the engine (engine/leases.py), one row at a time.    *)
(* A row is keyed by (scope, key); every component that uses leases uses   *)
(* one key, so a row is all a client sees.  Each operator is one SQLite    *)
(* transaction of the code.                                                *)
(*                                                                         *)
(* expires_at is kept as the whole seconds left until it: the code stores  *)
(* timestamps of whole seconds and compares them with the caller's "now".  *)
(* A missing row behaves as a released one that nobody owns.               *)
(***************************************************************************)
EXTENDS Integers

CONSTANT NoOwner        \* the owner column of a row that does not exist

\* No row is ever more than ttl seconds from its expiry: that is how long one whose
\* owner has died can keep others out.
LeaseRow(Owner, ttl) ==
    [owner : Owner \cup {NoOwner}, left : 0..ttl, released : BOOLEAN]

NoRow == [owner |-> NoOwner, left |-> 0, released |-> TRUE]

\* Variants of MayTake for the sensitivity runs (README, "Mutants"): the owner's
\* own row forgotten, a row taken a second before it expires, a row that does
\* not expire.
MayTakeNotOwn(row, o) == row.released \/ row.left = 0
MayTakeReleased(row, o) == row.owner = o \/ row.released
MayTakeEarly(row, o) == row.owner = o \/ row.released \/ row.left <= 1

\* The WHERE clause of the UPDATE: the caller's own row, a released row, or
\* expires_at <= now.
MayTake(row, o) ==
    \/ row.owner = o
    \/ row.released
    \/ row.left = 0

\* Variant: a renewal adds its time to what the lease has left, not to now.
AcquireLeaseExtends(row, o, ttl) ==
    IF MayTake(row, o)
    THEN [owner |-> o, left |-> row.left + ttl, released |-> FALSE]
    ELSE row

\* acquire_engine_lease: INSERT OR IGNORE, then the guarded UPDATE.  A row
\* the caller may not take is left as it is.
AcquireLease(row, o, ttl) ==
    IF MayTake(row, o)
    THEN [owner |-> o, left |-> ttl, released |-> FALSE]
    ELSE row

\* release_engine_lease: only the owner column is compared; an expired lease
\* may still be released by the owner it names.
ReleaseLease(row, o) ==
    IF row.owner = o THEN [row EXCEPT !.released = TRUE] ELSE row

\* A second passes on the clock that the callers' "now" is read from: expires_at
\* stays what it is and comes a second nearer.  An expired row stays expired.
Aged(row) == [row EXCEPT !.left = IF @ = 0 THEN 0 ELSE @ - 1]

\* acquire_engine_lease keeps everybody but the row's owner out.  (What status
\* shows of a lease, read_engine_lease, calls it expired a second later.)
Blocking(row) == ~row.released /\ row.left > 0
=============================================================================
