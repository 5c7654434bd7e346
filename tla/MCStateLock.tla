----------------------------- MODULE MCStateLock -----------------------------
(* The state lock with seconds scaled down: a lease of TTL ticks, renewed     *)
(* every tick.  The two cfg files differ in whether holders keep time.        *)
EXTENDS StateLock
==============================================================================
