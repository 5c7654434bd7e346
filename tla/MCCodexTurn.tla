---------------------------- MODULE MCCodexTurn ----------------------------
(* The codex runtime on a small instance, with the profiles it runs under. *)
EXTENDS CodexTurn

MCModes == {[profile |-> "managed", inline |-> FALSE],
            [profile |-> "kept", inline |-> TRUE]}
=============================================================================
