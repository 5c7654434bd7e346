------------------------------ MODULE CodexTurn ------------------------------
(***************************************************************************)
(* One lane's actor turns through the codex app-server runtime             *)
(* (runtimes/codex_app_server.py), as run_runtime_stage and the actor      *)
(* worker drive it: a run builds a runtime, connects to the server,        *)
(* initializes, starts or resumes a thread, starts a turn and reads        *)
(* messages until the turn ends, a deadline passes or the connection is    *)
(* lost.  The lane's session remembers the thread for its next run.        *)
(*                                                                         *)
(* The server is external: it answers requests, tells what its turns do,   *)
(* and, on an endpoint that other lanes share, tells what their turns do   *)
(* too.  Ids are numbers: NoId is Python's None, Stranger the thread and   *)
(* the turn of another lane, and the lane's own ids follow.                *)
(***************************************************************************)
EXTENDS CodexService, Sequences, FiniteSets

CONSTANTS
    Modes,          \* the runtime profiles, and where the actor runs
    MaxRuns,        \* runs of the lane's actor
    MaxInbox,       \* messages that wait in the client's queue
    MaxUpsets,      \* faults: lost connections, deaths, refusals, commands
    ReadTimeout,    \* read_timeout_ms, in ticks of the clock
    StallTimeout,   \* stall_timeout_ms
    TurnTimeout     \* turn_timeout_ms

\* kept: an external endpoint with keep_alive.  inline: the tick runs the actor
\* and records its progress; a background worker records only its end.
Mode == [profile : {"managed", "external", "kept"}, inline : BOOLEAN]

ASSUME CodexBounds ==
    /\ Modes \subseteq Mode
    /\ MaxRuns \in Nat \ {0} /\ MaxInbox \in Nat \ {0} /\ MaxUpsets \in Nat
    /\ ReadTimeout \in Nat \ {0} /\ StallTimeout \in Nat \ {0}
    /\ TurnTimeout \in Nat \ {0}

VARIABLES
    mode,      \* the runtime profile, and whether the tick runs the actor
    client,    \* the run's control state, its id state and its connection
    inbox,     \* client._messages
    clock,     \* ticks since the request, the turn and the last activity
    session,   \* the thread the lane's runtime session names, and who wrote it
    runs,      \* runs begun
    server,    \* what the server knows: its requests and its turns
    upsets     \* faults so far

vars == <<service, mode, client, inbox, clock, session, runs, server, upsets>>

NoId == 0
Stranger == 1
Own == 2 .. (2 * MaxRuns + 1)
Id == {NoId, Stranger} \cup Own

Asking == {"initializing", "opening", "starting", "interrupting"}
Why == {"none", "ok", "failed", "timed out", "stalled"}

Message == [m : {"reply", "refusal", "thread started", "turn started",
                 "delta", "completed", "turn failed", "error", "approval",
                 "asks", "protocol error", "EOF"},
            thread : Id, turn : Id]

\* _RunState, without what is only shown: the ids, and whose text is in
\* output_parts.
RunState == [thread : Id, turn : Id, output : SUBSET Id]
FreshState == [thread |-> NoId, turn |-> NoId, output |-> {}]

Request == [kind : {"none", "refused"} \cup Asking, thread : Id, turn : Id]
NoRequest == [kind |-> "none", thread |-> NoId, turn |-> NoId]

\* Types; the clocks within the configured times, and the client's queue of messages
\* within its bound (CodexAppServerClient).
TypeOK ==
    /\ service \in Service
    /\ mode \in Modes
    /\ client \in [pc : {"idle", "building", "reading"} \cup Asking,
                   run : RunState, resume : Id, attempt : 0 .. 1, why : Why,
                   opened : BOOLEAN, closed : BOOLEAN]
    /\ inbox \in Seq(Message) /\ Len(inbox) <= MaxInbox + 2
    /\ clock \in [asked : 0 .. ReadTimeout, turn : 0 .. TurnTimeout,
                  quiet : 0 .. StallTimeout]
    /\ session \in [thread : Id, strayed : BOOLEAN]
    /\ session.strayed => session.thread # NoId
    /\ runs \in 0 .. MaxRuns
    /\ server \in [link : {"none", "open", "breaking", "lost", "ended"},
                   asked : Request, threads : SUBSET Own, of : [Own -> Id],
                   running : SUBSET Own, completed : SUBSET Own,
                   prompted : SUBSET Own]
    /\ upsets \in 0 .. MaxUpsets

-----------------------------------------------------------------------------
(* Messages and the run's state *)

About(m, thread, turn) == [m |-> m, thread |-> thread, turn |-> turn]

\* Variants: every message is the run's; only the thread, or only the turn, is
\* compared.
MatchesAlways(msg, run) == TRUE
MatchesThread(msg, run) ==
    msg.thread = NoId \/ run.thread = NoId \/ msg.thread = run.thread
MatchesTurn(msg, run) ==
    msg.turn = NoId \/ run.turn = NoId \/ msg.turn = run.turn

\* _message_matches_active_run.
Matches(msg, run) ==
    /\ ~(/\ msg.m = "error" /\ msg.thread = NoId /\ msg.turn = NoId
         /\ run.thread # NoId /\ run.turn # NoId)
    /\ msg.thread = NoId \/ run.thread = NoId \/ msg.thread = run.thread
    /\ msg.turn = NoId \/ run.turn = NoId \/ msg.turn = run.turn
    /\ IF msg.thread # NoId /\ run.thread = NoId THEN msg.m = "thread started"
       ELSE msg.turn # NoId /\ run.turn = NoId => msg.m = "turn started"

\* _consume_message: what a message that matches leaves in the run's state ...
Told(msg, run) ==
    IF ~Matches(msg, run) THEN run
    ELSE CASE msg.m = "thread started" -> [run EXCEPT !.thread = msg.thread]
           [] msg.m \in {"turn started", "completed", "turn failed"} ->
                  [run EXCEPT !.turn = msg.turn]
           [] msg.m = "delta" -> [run EXCEPT !.output = @ \cup {msg.turn}]
           [] OTHER -> run

\* ... and whether it raises.  An error that the server means to retry (willRetry)
\* neither raises nor tells: it is taken like a message of another run.
Raises(msg, run) ==
    /\ Matches(msg, run)
    /\ msg.m \in {"error", "protocol error", "turn failed"}

-----------------------------------------------------------------------------
(* How a run ends *)

\* Variant: a run that knows of no thread overwrites the one on record.
RecordedAlways(run, opened) ==
    session' = [thread |-> run.thread,
                strayed |-> session.strayed \/ (run.thread = Stranger /\ ~opened)]

\* What record_actor_runtime_progress and record_actor_runtime_result write
\* into the lane's session: a thread that the run knows of.
Recorded(run, opened) ==
    session' = IF run.thread = NoId THEN session
               ELSE [thread |-> run.thread,
                     strayed |-> \/ session.strayed
                                \/ (run.thread = Stranger /\ ~opened)]

\* An inline actor's progress is recorded while it runs; the background
\* worker gives its runtime no progress callback.
Progress(run, opened) ==
    IF mode.inline THEN Recorded(run, opened) ELSE UNCHANGED session

\* Closing a managed client terminates the server it started, and its turns.
Closed(srv) ==
    IF mode.profile = "managed"
    THEN [srv EXCEPT !.link = "ended", !.asked = NoRequest, !.running = {}]
    ELSE [srv EXCEPT !.link = "ended"]

Quiet == [asked |-> 0, turn |-> 0, quiet |-> 0]

\* run_prompt_result returns, or raises to its caller: a keep_alive client is
\* not closed, and the next run, which builds a runtime of its own, does not
\* find it.  c is the client as the last message left it.
Returned(c, why) ==
    /\ client' = [c EXCEPT !.pc = "idle", !.why = why]
    /\ server' = IF mode.profile = "kept" /\ ~c.closed THEN server
                 ELSE Closed(server)
    /\ inbox' = <<>>
    /\ clock' = Quiet
    /\ Recorded(c.run, c.opened)

\* Variant: whatever has failed.
MayReplayAny(c) == mode.profile = "kept" /\ c.attempt = 0 /\ c.pc # "initializing"

MayReplay(c) ==
    mode.profile = "kept" /\ c.attempt = 0 /\ c.closed /\ c.pc # "initializing"

\* CodexAppServerError: a keep_alive run whose connection is closed is done
\* once more from the start, prompt included.
Failed(c) ==
    IF MayReplay(c)
    THEN /\ client' = [c EXCEPT !.pc = "building", !.run = FreshState,
                               !.attempt = 1, !.why = "none",
                               !.opened = FALSE, !.closed = FALSE]
         /\ server' = Closed(server)
         /\ inbox' = <<>>
         /\ clock' = Quiet
         /\ Progress(c.run, c.opened)
    ELSE Returned([c EXCEPT !.closed = @ \/ c.pc = "initializing"],
                  IF c.pc = "interrupting" THEN c.why ELSE "failed")

\* A request is written; rest is what then waits in the queue.  On a connection
\* that is lost and not yet seen to be, the write fails, or no one reads it.
\* Assumed: a write does not block, though the code gives it no timeout.
Sends(c, kind, rest) ==
    \/ /\ c.closed \/ server.link # "open"
       /\ Failed([c EXCEPT !.pc = IF c.closed THEN @ ELSE kind, !.closed = TRUE])
    \/ /\ ~c.closed
       /\ client' = [c EXCEPT !.pc = kind]
       /\ server' = IF server.link # "open" THEN server
                    ELSE [server EXCEPT !.asked =
                            [kind |-> kind,
                             thread |-> IF kind = "opening" THEN c.resume
                                        ELSE c.run.thread,
                             turn |-> IF kind = "interrupting" THEN c.run.turn
                                      ELSE NoId]]
       /\ inbox' = rest
       /\ clock' = [clock EXCEPT !.asked = 0, !.quiet = 0]
       /\ Progress(c.run, c.opened)

-----------------------------------------------------------------------------
(* The client's steps *)

ClientFrame == UNCHANGED <<service, mode, runs, upsets>>

\* _connect: the endpoint has accepted the handshake.
Dialled(srv) == [srv EXCEPT !.link = "open"]

\* An answer without an id leaves the one that is known.
OrKnown(id, known) == IF id = NoId THEN known ELSE id

\* run_runtime_stage: a new runtime for the run, asked to resume the thread that
\* the lane's session names.  What an earlier run asked for has begun by now, or
\* never does.
Begin ==
    /\ client.pc = "idle" /\ runs < MaxRuns
    /\ runs' = runs + 1
    /\ client' = [pc |-> "building", run |-> FreshState,
                  resume |-> session.thread, attempt |-> 0,
                  why |-> "none", opened |-> FALSE, closed |-> FALSE]
    /\ server' = [server EXCEPT !.asked = NoRequest, !.prompted = {},
                                !.completed = {}]
    /\ UNCHANGED <<service, mode, inbox, clock, session, upsets>>

\* _build_client: an external server must answer its health check, a managed
\* one is started; then `initialize`.
Connect ==
    /\ client.pc = "building"
    /\ mode.profile = "managed" \/ Ready
    /\ client' = [client EXCEPT !.pc = "initializing"]
    /\ server' = [Dialled(server) EXCEPT
                       !.asked = [NoRequest EXCEPT !.kind = "initializing"]]
    /\ clock' = Quiet
    /\ UNCHANGED <<inbox, session>>
    /\ ClientFrame

NotReady ==
    /\ client.pc = "building"
    /\ mode.profile # "managed" /\ ~Ready
    /\ Returned([client EXCEPT !.closed = TRUE], "failed")
    /\ ClientFrame

\* `request` gets the answer it waits for, and its caller goes on.
Answered ==
    /\ client.pc \in Asking /\ clock.asked < ReadTimeout
    /\ inbox # <<>> /\ Head(inbox).m = "reply"
    /\ LET msg == Head(inbox) IN
       CASE client.pc = "initializing" ->
              Sends([client EXCEPT !.run.thread = OrKnown(client.resume, @)],
                    "opening", Tail(inbox))
         [] client.pc = "opening" ->
              Sends([client EXCEPT !.run.thread = OrKnown(msg.thread, @),
                                   !.opened = TRUE],
                    "starting", Tail(inbox))
         [] client.pc = "starting" ->
              /\ client' = [client EXCEPT !.pc = "reading",
                                         !.run.turn = OrKnown(msg.turn, @)]
              /\ inbox' = Tail(inbox)
              /\ clock' = [clock EXCEPT !.turn = 0]
              /\ UNCHANGED <<session, server>>
         [] client.pc = "interrupting" -> Failed(client)
    /\ ClientFrame

\* Variant: a turn is only late when nothing is heard.
LateWhenQuiet == clock.quiet = StallTimeout

\* turn_timeout_ms, then stall_timeout_ms.
Late == clock.turn = TurnTimeout \/ clock.quiet = StallTimeout

\* Any other message that `request` or the reading loop takes: it raises, or
\* the run's state takes what it tells.  A server's request is rejected; one for
\* an approval also ends the run.
Takes ==
    /\ inbox # <<>> /\ client.pc \notin {"idle", "building"}
    /\ client.pc \in Asking => clock.asked < ReadTimeout
    /\ client.pc = "reading" => ~Late
    /\ LET msg == Head(inbox)
           c   == [client EXCEPT !.run = Told(msg, @)] IN
       /\ msg.m = "reply" => client.pc = "reading"
       /\ IF \/ Raises(msg, client.run)
             \/ msg.m \in {"EOF", "approval"}
             \/ msg.m = "refusal" /\ client.pc \in Asking
             \/ msg.m = "asks" /\ client.closed
          THEN Failed(c)
          ELSE IF /\ client.pc = "reading" /\ msg.m = "completed"
                  /\ Matches(msg, client.run)
          THEN Returned(c, "ok")
          ELSE /\ client' = c
               /\ inbox' = Tail(inbox)
               /\ UNCHANGED <<clock, server>>
               /\ Progress(c.run, c.opened)
    /\ ClientFrame

\* next_message: the request's one deadline has passed, whatever is queued.
RequestTimesOut ==
    /\ client.pc \in Asking /\ clock.asked = ReadTimeout
    /\ Failed(client)
    /\ ClientFrame

\* Variant: the run fails and the server is not told.
GivesUp(c) == Failed(c)

\* _interrupt_turn: the server is told to interrupt the turn, and the run fails
\* once it has answered, or has not.
Interrupts(c) == Sends(c, "interrupting", inbox)

\* A deadline has passed.  The third reason the code has, a cancel event, is left
\* out: no caller of run_runtime_stage gives it one.
StopTurn ==
    /\ client.pc = "reading" /\ Late
    /\ Interrupts([client EXCEPT !.pc = "interrupting",
                     !.why = IF clock.turn = TurnTimeout THEN "timed out"
                             ELSE "stalled"])
    /\ ClientFrame

\* The reader thread after a connection error: it has queued the error, and
\* only now marks the connection closed.  One whose run has ended marks a client
\* that no one looks at any more.
ReaderEnds ==
    /\ server.link = "breaking" /\ client.pc \notin {"idle", "building"}
    /\ server' = [server EXCEPT !.link = "lost"]
    /\ client' = [client EXCEPT !.closed = TRUE]
    /\ inbox' = Append(inbox, About("EOF", NoId, NoId))
    /\ UNCHANGED <<service, mode, clock, session, runs, upsets>>

\* The process that runs the actor is killed: nothing of the run is recorded.
\* A managed server loses its stdin, and may or may not end.
Killed ==
    /\ client.pc # "idle" /\ upsets < MaxUpsets
    /\ upsets' = upsets + 1
    /\ client' = [client EXCEPT !.pc = "idle", !.why = "none", !.closed = TRUE]
    /\ server' \in {Closed(server), [server EXCEPT !.link = "ended"]}
    /\ inbox' = <<>>
    /\ clock' = Quiet
    /\ UNCHANGED <<service, mode, session, runs>>

Tick ==
    /\ client.pc \in Asking \cup {"reading"}
    /\ clock' = [asked |-> IF client.pc \in Asking /\ clock.asked < ReadTimeout
                          THEN clock.asked + 1 ELSE clock.asked,
                 turn  |-> IF client.pc = "reading" /\ clock.turn < TurnTimeout
                          THEN clock.turn + 1 ELSE clock.turn,
                 quiet |-> IF client.pc = "reading" /\ clock.quiet < StallTimeout
                          THEN clock.quiet + 1 ELSE clock.quiet]
    /\ clock' # clock
    /\ UNCHANGED <<service, mode, client, inbox, session, runs, server, upsets>>

-----------------------------------------------------------------------------
(* The server's steps (external) *)

ServerFrame == UNCHANGED <<mode, session, runs>>

Listening == server.link = "open" /\ client.pc \notin {"idle", "building"}

\* The server writes a message: into the client's queue, or to no one.
Put(msg) ==
    IF Listening
    THEN /\ Len(inbox) < MaxInbox
         /\ inbox' = Append(inbox, msg)
         /\ clock' = [clock EXCEPT !.quiet = 0]
    ELSE UNCHANGED <<inbox, clock>>

Reply(thread, turn) == About("reply", thread, turn)

NewId(used) == CHOOSE i \in Own \ used : \A j \in Own \ used : i <= j

\* thread/start opens a thread and may announce it before it answers;
\* thread/resume answers with the thread it was given.
OpenThread ==
    /\ server.asked.kind = "opening" /\ server.asked.thread = NoId
    /\ LET t == NewId(server.threads) IN
       /\ server' = [server EXCEPT !.asked.thread = t, !.threads = @ \cup {t}]
       /\ \/ UNCHANGED <<inbox, clock>>
          \/ Put(About("thread started", t, NoId))
    /\ UNCHANGED <<service, client, upsets>> /\ ServerFrame

\* turn/start: the turn runs from now on, answered or not.
StartTurn ==
    /\ server.asked.kind = "starting" /\ server.asked.turn = NoId
    /\ LET t == NewId({u \in Own : server.of[u] # NoId}) IN
       /\ server' = [server EXCEPT !.asked.turn = t, !.of[t] = server.asked.thread,
                        !.running = @ \cup {t}, !.prompted = @ \cup {t}]
       /\ \/ UNCHANGED <<inbox, clock>>
          \/ Put(About("turn started", server.asked.thread, t))
    /\ UNCHANGED <<service, client, upsets>> /\ ServerFrame

Answer ==
    /\ LET r == server.asked IN
       /\ \/ r.kind = "initializing" /\ Put(Reply(NoId, NoId))
          \/ r.kind = "opening" /\ r.thread # NoId /\ Put(Reply(r.thread, NoId))
          \/ r.kind = "starting" /\ r.turn # NoId /\ Put(Reply(NoId, r.turn))
          \/ r.kind = "interrupting" /\ Put(Reply(NoId, NoId))
       /\ server' = [server EXCEPT !.asked = NoRequest,
                        !.running = IF r.kind = "interrupting" THEN @ \ {r.turn} ELSE @]
    /\ UNCHANGED <<service, client, upsets>> /\ ServerFrame

\* A request is refused.
Refuse ==
    /\ server.asked.kind \in Asking /\ upsets < MaxUpsets
    /\ upsets' = upsets + 1
    /\ Put(About("refusal", NoId, NoId))
    /\ server' = [server EXCEPT !.asked.kind = "refused"]
    /\ UNCHANGED <<service, client>> /\ ServerFrame

\* A turn of this lane, of this run or of an earlier one, says something, or ends
\* without being heard.
Speaks ==
    /\ \E t \in server.running, m \in {"delta", "completed", "turn failed"} :
         /\ Put(About(m, server.of[t], t))
         /\ server' = [server EXCEPT
                !.running   = IF m \in {"completed", "turn failed"} THEN @ \ {t} ELSE @,
                !.completed = IF m = "completed" THEN @ \cup ({t} \cap server.prompted) ELSE @]
    /\ UNCHANGED <<service, client, upsets>> /\ ServerFrame

\* A turn asks the client for something, or the stream holds what is no message.
Odd ==
    /\ Listening /\ upsets < MaxUpsets
    /\ upsets' = upsets + 1
    /\ \E m \in {"approval", "asks", "protocol error"} :
         /\ m = "protocol error" \/ server.running # {}
         /\ Put(About(m, NoId, NoId))
    /\ UNCHANGED <<service, client, server>> /\ ServerFrame

\* On an endpoint that other lanes share, their threads and turns are heard too.
OthersSpeak ==
    /\ mode.profile # "managed" /\ Listening
    /\ \E m \in {"thread started", "turn started", "delta", "completed",
                 "turn failed", "error"} :
         Put(CASE m = "thread started" -> About(m, Stranger, NoId)
                 [] m = "error" -> About(m, NoId, NoId)
                 [] OTHER -> About(m, Stranger, Stranger))
    /\ UNCHANGED <<service, client, server, upsets>> /\ ServerFrame

\* The reader meets the end of the stream, and marks the connection closed: the
\* server is gone, with its turns, or only the connection is.
EndOfStream(gone) ==
    /\ server' = LET link == IF server.link = "open" THEN "lost" ELSE server.link IN
                 IF gone THEN [server EXCEPT !.link = link, !.asked = NoRequest,
                                             !.running = {}]
                 ELSE [server EXCEPT !.link = link]
    /\ IF Listening
       THEN /\ client' = [client EXCEPT !.closed = TRUE]
            /\ inbox' = Append(inbox, About("EOF", NoId, NoId))
       ELSE UNCHANGED <<client, inbox>>

\* The connection ends while the server lives: with a close frame, or with an
\* error that the reader queues first.  A managed server's connection ends only
\* with the server, and its turns.
ConnectionLost ==
    /\ Listening /\ upsets < MaxUpsets
    /\ upsets' = upsets + 1
    /\ \/ EndOfStream(mode.profile = "managed")
       \/ /\ mode.profile # "managed"
          /\ server' = [server EXCEPT !.link = "breaking"]
          /\ inbox' = Append(inbox, About("protocol error", NoId, NoId))
          /\ UNCHANGED client
    /\ UNCHANGED <<service, clock>> /\ ServerFrame

\* The operator's commands and systemd: a listener that goes takes its turns
\* and its connections along.
Serviced(step, fault) ==
    /\ mode.profile # "managed"
    /\ fault => upsets < MaxUpsets
    /\ step
    /\ upsets' = IF fault THEN upsets + 1 ELSE upsets
    /\ IF service.listening /\ ~service'.listening
       THEN EndOfStream(TRUE)
       ELSE UNCHANGED <<server, client, inbox>>
    /\ UNCHANGED clock /\ ServerFrame

Operated == \/ Serviced(Install, TRUE) \/ Serviced(StopUnit, TRUE)
            \/ Serviced(RestartUnit, TRUE) \/ Serviced(ServerDies, TRUE)
            \/ Serviced(EnableUnit, FALSE) \/ Serviced(StartUnit, FALSE)
            \/ Serviced(DisableUnit, FALSE)
Recovers == Serviced(Listens, FALSE)

-----------------------------------------------------------------------------

Init ==
    /\ service = Served
    /\ mode \in Modes
    /\ client = [pc |-> "idle", run |-> FreshState, resume |-> NoId, attempt |-> 0,
                 why |-> "none", opened |-> FALSE, closed |-> FALSE]
    /\ inbox = <<>> /\ clock = Quiet
    /\ session = [thread |-> NoId, strayed |-> FALSE]
    /\ runs = 0 /\ upsets = 0
    /\ server = [link |-> "none", asked |-> NoRequest, threads |-> {},
                 of |-> [t \in Own |-> NoId], running |-> {},
                 completed |-> {}, prompted |-> {}]

RunSteps == \/ Connect \/ NotReady \/ Answered \/ Takes \/ RequestTimesOut
            \/ StopTurn \/ ReaderEnds
ServerSteps == \/ OpenThread \/ StartTurn \/ Answer \/ Refuse
               \/ Speaks \/ Odd \/ OthersSpeak \/ ConnectionLost

Next == Begin \/ RunSteps \/ Killed \/ Tick \/ ServerSteps \/ Operated \/ Recovers

Spec == Init /\ [][Next]_vars

\* The runtime's own steps are taken as soon as they can be, and time passes.
\* Nothing is asked of the server.
FairSpec == Spec /\ WF_vars(RunSteps) /\ WF_vars(Tick)

-----------------------------------------------------------------------------
(* Properties *)

\* A run that returns a result returns its own turn's: this run prompted it, on
\* the thread the run names, and the server completed it.  Another lane's
\* completion on the shared endpoint, and the completion of a turn that an
\* earlier run left behind, are never taken for it.
ResultIsOwn ==
    client.why = "ok" =>
        /\ client.run.turn \in server.prompted \cap server.completed
        /\ client.run.thread = server.of[client.run.turn]

\* Once a run has its turn's id, it takes text of no other turn.  (Before that it
\* may: see the README on a thread that is announced while the run opens one.)
TakesOnlyItsTurn ==
    [][client.pc = "reading" /\ client'.pc = "reading"
         => client'.run.output \subseteq client.run.output \cup {client.run.turn}]_vars

\* A prompt is given to the server again only by a kept client whose connection
\* was lost, and never a third time.
ReplaysOnlyLost ==
    [][/\ client'.attempt > client.attempt
            => mode.profile = "kept" /\ server.link # "open"
       /\ Cardinality(server'.prompted) <= client'.attempt + 1]_vars

\* A turn that still runs after its run has given it up, for its deadline or for
\* silence, has been told to stop, or could not be: the interrupt is on its way
\* or was refused, or the connection had ended.  And a managed run leaves no turn running.
GivenUpTurnIsTold ==
    client.pc = "idle" =>
        /\ client.why \in {"timed out", "stalled"}
               /\ client.run.turn \in server.running
             => \/ server.asked.kind \in {"interrupting", "refused"}
                \/ server.link # "open"
        /\ mode.profile = "managed" /\ client.why # "none" => server.running = {}

\* The thread that the lane's session names, and that its next run resumes, was
\* opened for this lane, unless a run failed between another lane's
\* thread/started and the answer to its own thread/start.
ResumesOwnThread ==
    session.thread # NoId => session.thread \in server.threads \/ session.strayed

\* Every run ends, whatever the server says or does not say: a busy endpoint
\* cannot keep a request or a turn waiting past its deadline.
RunEnds == client.pc # "idle" ~> client.pc = "idle"
=============================================================================
