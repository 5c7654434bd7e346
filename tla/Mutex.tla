-------------------------------- MODULE Mutex --------------------------------
(***************************************************************************)
(* What with_state_lock promises its callers: the callbacks that load and  *)
(* save the workflow state run one at a time.  A process leaves because    *)
(* its callback returned, raised, or because it died.                      *)
(***************************************************************************)
CONSTANT Proc
VARIABLE inside         \* the processes whose callback is running

Init == inside = {}

Enter(p) == inside = {} /\ inside' = {p}

Leave(p) == p \in inside /\ inside' = inside \ {p}

Next == \E p \in Proc : Enter(p) \/ Leave(p)

Spec == Init /\ [][Next]_inside
==============================================================================
