---------------------------- MODULE CodexService ----------------------------
(***************************************************************************)
(* The systemd user unit that keeps one codex app-server listening for     *)
(* every lane (services/codex_service.py).  A command of the operator is a *)
(* row of systemctl calls, each of which can fail and leaves what the      *)
(* earlier ones did.  systemd itself is external: it starts an enabled     *)
(* unit at boot and starts an active one again when its process dies       *)
(* (Restart=always).                                                       *)
(***************************************************************************)
EXTENDS Naturals

VARIABLE service

(***************************************************************************)
(* written, enabled: the unit file and its [Install] link.  active: systemd *)
(* wants the process alive.  listening: it answers on its endpoint.        *)
(* command: the last call of an operator's command that is not over.       *)
(***************************************************************************)
Service == [written : BOOLEAN, enabled : BOOLEAN, active : BOOLEAN,
            listening : BOOLEAN,
            command : {"none", "installed", "enabled", "stopped"}]

\* What `codex-app-server up` leaves when nothing fails.
Served == [written |-> TRUE, enabled |-> TRUE, active |-> TRUE,
           listening |-> TRUE, command |-> "none"]

-----------------------------------------------------------------------------

\* `install`, the first call of `up`: the file is on disk before the
\* daemon-reload that may fail.
Install ==
    /\ service.command = "none"
    /\ \E reloaded \in BOOLEAN :
         service' = [service EXCEPT !.written = TRUE,
                        !.command = IF reloaded THEN "installed" ELSE "none"]

EnableUnit ==
    /\ service.command = "installed"
    /\ \E ok \in BOOLEAN :
         service' = [service EXCEPT !.enabled = @ \/ ok,
                        !.command = IF ok THEN "enabled" ELSE "none"]

\* Type=simple: `start` succeeds when the process was forked, long before it
\* listens; `up` prints the readiness it finds and is "ok" either way.
StartUnit ==
    /\ service.command = "enabled"
    /\ \E ok \in BOOLEAN :
         service' = [service EXCEPT !.active = @ \/ ok, !.command = "none"]

\* `down` runs both calls whatever the first one returned.
StopUnit ==
    /\ service.command = "none"
    /\ \E ok \in BOOLEAN :
         service' = [service EXCEPT
                        !.active = @ /\ ~ok, !.listening = @ /\ ~ok,
                        !.command = "stopped"]

DisableUnit ==
    /\ service.command = "stopped"
    /\ \E ok \in BOOLEAN :
         service' = [service EXCEPT !.enabled = @ /\ ~ok, !.command = "none"]

\* `restart`: the process is replaced; a unit that was not active becomes so.
RestartUnit ==
    /\ service.command = "none" /\ service.written
    /\ service' = [service EXCEPT !.active = TRUE, !.listening = FALSE]

ServerDies ==
    /\ service.listening
    /\ service' = [service EXCEPT !.listening = FALSE]

\* The process that systemd started, or started again, reaches its listen call.
Listens ==
    /\ service.active /\ ~service.listening
    /\ service' = [service EXCEPT !.listening = TRUE]

\* GET /readyz, as the service's own status and the runtime's check read it.
Ready == service.listening
=============================================================================
