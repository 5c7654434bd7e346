------------------------------ MODULE MCDaemon ------------------------------
\* Two daemon processes and one lane, with the seconds scaled down.
EXTENDS Daemon, Retention

\* Every ledger of at most three events within three seconds, and every limit up
\* to its size: what DaemonProofs proves, and that a second prune does nothing.
Ledgers ==
    UNION {{{[id |-> i, at |-> f[i]] : i \in ids} : f \in [ids -> 0..3]} :
             ids \in SUBSET (1..3)}

ASSUME PruningIsDone ==
    \A events \in Ledgers, now \in 0..3 :
      \A limits \in [age : NoLimit..2, rows : NoLimit..3] :
        LET kept == Applied(events, now, limits) IN
        /\ kept \subseteq events
        /\ Applied(kept, now, limits) = kept
        /\ Configured(limits) => ~Warns(kept, now, limits)
        /\ \A e \in kept, f \in events : Newer(f, e) => f \in kept
=============================================================================
