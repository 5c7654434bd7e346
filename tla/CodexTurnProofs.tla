--------------------------- MODULE CodexTurnProofs ---------------------------
(***************************************************************************)
(* Runs over the Codex app server, for any number of runs, faults, queued  *)
(* messages and any timeouts: a run takes its own turn's result, resumes   *)
(* its own thread, and leaves no turn behind that was not told to stop.    *)
(*                                                                         *)
(* The invariant says of every message in the queue what it may still say, *)
(* and which request the server may still answer: at most one answer is on *)
(* its way, and it is the answer to what the client asked last.            *)
(***************************************************************************)
EXTENDS CodexTurn, SequenceTheorems, FiniteSetTheorems, WellFoundedInduction, TLAPS

Client == [pc : {"idle", "building", "reading"} \cup Asking,
           run : RunState, resume : Id, attempt : 0 .. 1, why : Why,
           opened : BOOLEAN, closed : BOOLEAN]

Server == [link : {"none", "open", "breaking", "lost", "ended"},
           asked : Request, threads : SUBSET Own, of : [Own -> Id],
           running : SUBSET Own, completed : SUBSET Own, prompted : SUBSET Own]

Idle == client.pc \in {"idle", "building"}

\* A thread that was opened for this lane, unless the session strays.
Known(thread) == thread \in server.threads \/ session.strayed

\* What a run may know as its thread before and after its own is open.
Knows(run, opened) ==
    /\ opened => run.thread # NoId
    /\ run.thread # NoId => Known(run.thread) \/ (run.thread = Stranger /\ ~opened)

Threads ==
    /\ session.thread # NoId => Known(session.thread)
    /\ client.resume # NoId => Known(client.resume)
    /\ Knows(client.run, client.opened)
    /\ server.asked.kind = "opening" /\ server.asked.thread # NoId
         => Known(server.asked.thread)
    /\ server.asked.kind = "starting" => server.asked.thread # NoId

\* Turns that have begun.
Used == {t \in Own : server.of[t] # NoId}

TurnsBegan ==
    /\ server.running \subseteq Used /\ server.prompted \subseteq Used
    /\ \A t \in server.prompted : server.of[t] # NoId

\* The client's place and the request the server knows of.
Asked ==
    /\ client.pc \in Asking => server.asked.kind \in {client.pc, "none", "refused"}
    /\ client.pc = "reading" => server.asked.kind = "none"
    /\ client.pc = "starting" /\ server.asked.kind = "starting" =>
         /\ server.asked.thread = client.run.thread
         /\ server.asked.turn # NoId =>
              /\ server.asked.turn \in server.prompted
              /\ server.of[server.asked.turn] = client.run.thread

\* From its start on a run knows its thread, and from the answer on its turn.
HasTurn(run) ==
    /\ run.turn \in server.prompted
    /\ server.of[run.turn] = run.thread

Started ==
    /\ client.pc \in {"starting", "reading", "interrupting"} =>
         client.run.thread # NoId /\ client.opened
    /\ client.pc \in {"reading", "interrupting"} => HasTurn(client.run)

\* What a message in the queue may say.
Says(msg) ==
    /\ msg.m = "thread started" => msg.thread = Stranger \/ msg.thread \in server.threads
    /\ msg.m \in {"turn started", "delta", "completed", "turn failed"} =>
         /\ msg.turn = Stranger \/ msg.turn \in Used
         /\ msg.thread # NoId
    /\ msg.m = "completed" /\ msg.turn \in server.prompted => msg.turn \in server.completed
    /\ msg.m = "reply" =>
         /\ server.asked.kind = "none"
         /\ client.pc = "opening" => msg.thread # NoId /\ Known(msg.thread)
         /\ client.pc = "starting" =>
              msg.turn \in server.prompted /\ server.of[msg.turn] = client.run.thread

OneReply(s) ==
    \A i, j \in 1..Len(s) : s[i].m = "reply" /\ s[j].m = "reply" => i = j

Mail ==
    /\ \A i \in 1..Len(inbox) : Says(inbox[i])
    /\ OneReply(inbox)
    /\ client.pc = "reading" => \A i \in 1..Len(inbox) : inbox[i].m # "reply"
    /\ Idle => inbox = <<>>
    /\ server.link = "open" => Len(inbox) <= MaxInbox
    /\ server.link = "breaking" => Len(inbox) <= MaxInbox + 1

\* How a run has ended, or will.
GaveUp(c) == c.pc = "interrupting" \/ (c.pc = "idle" /\ c.why \in {"timed out", "stalled"})

HasResult(run) ==
    HasTurn(run) /\ run.turn \in server.completed /\ run.thread # NoId

\* A turn that is given up and still runs is told to stop, or cannot be.
ToldToStop(run) ==
    /\ run.turn \in Used
    /\ server.asked.kind \in {"interrupting", "none", "refused"}
    /\ server.asked.kind = "interrupting" => server.asked.turn = run.turn
    /\ run.turn \in server.running /\ server.link = "open" =>
         server.asked.kind \in {"interrupting", "refused"}

Ends ==
    /\ client.closed /\ ~Idle => server.link # "open"
    /\ client.pc = "building" => ~client.closed
    /\ client.pc \notin {"idle", "interrupting"} => client.why = "none"
    /\ client.pc = "interrupting" => client.why \in {"timed out", "stalled"}
    /\ client.why = "ok" => HasResult(client.run)
    /\ GaveUp(client) => ToldToStop(client.run)
    /\ mode.profile = "managed" /\ client.pc = "idle" /\ client.why # "none" =>
         server.running = {} /\ server.asked.kind = "none"

\* Numbers of threads and of turns: one for each attempt, which the attempt may
\* still have before it.
Opening == IF server.asked.kind = "opening" /\ server.asked.thread = NoId THEN 1 ELSE 0
Starting == IF server.asked.kind = "starting" /\ server.asked.turn = NoId THEN 1 ELSE 0
ToOpen == IF client.pc \in {"building", "initializing"} THEN 1 ELSE 0
ToStart == IF client.pc \in {"building", "initializing", "opening"} THEN 1 ELSE 0

Counts ==
    LET most == IF client.pc = "idle" THEN 2 * runs ELSE 2 * runs - 1 + client.attempt IN
    /\ client.pc # "idle" => runs # 0
    /\ Cardinality(server.threads) + Opening + ToOpen <= most
    /\ Cardinality(Used) + Starting + ToStart <= most
    /\ Cardinality(server.prompted) + Starting + ToStart <= client.attempt + 1

IInv ==
    /\ TypeOK
    /\ Threads /\ TurnsBegan /\ Asked /\ Started /\ Mail /\ Ends /\ Counts
------------------------------------------------------------------------------
\* Types, and what little the updates of records do.

LEMMA Names ==
    /\ NoId \in Id /\ Stranger \in Id /\ Own \subseteq Id
    /\ NoId \notin Own /\ Stranger \notin Own /\ NoId # Stranger
    /\ \A t \in Own : t \in Int
    /\ runs \in Nat => 2 * runs \in Nat
  BY CodexBounds DEF NoId, Stranger, Own, Id

LEMMA OwnIsFinite == IsFiniteSet(Own) /\ Cardinality(Own) = 2 * MaxRuns
<1>1. 2 \in Int /\ 2 * MaxRuns + 1 \in Int /\ ~(2 > 2 * MaxRuns + 1)
      /\ (2 * MaxRuns + 1) - 2 + 1 = 2 * MaxRuns
  BY CodexBounds
<1> QED
  BY <1>1, FS_Interval DEF Own

LEMMA ClientFields ==
    ASSUME NEW c \in Client
    PROVE  /\ c.pc \in {"idle", "building", "reading"} \cup Asking
           /\ c.run \in RunState
           /\ c.run.thread \in Id /\ c.run.turn \in Id /\ c.run.output \in SUBSET Id
           /\ c.resume \in Id /\ c.attempt \in 0 .. 1 /\ c.why \in Why
           /\ c.opened \in BOOLEAN /\ c.closed \in BOOLEAN
  BY DEF Client, RunState

LEMMA ServerFields ==
    ASSUME NEW s \in Server
    PROVE  /\ s.link \in {"none", "open", "breaking", "lost", "ended"}
           /\ s.asked \in Request
           /\ s.asked.kind \in {"none", "refused"} \cup Asking
           /\ s.asked.thread \in Id /\ s.asked.turn \in Id
           /\ s.threads \in SUBSET Own /\ s.of \in [Own -> Id]
           /\ s.running \in SUBSET Own /\ s.completed \in SUBSET Own
           /\ s.prompted \in SUBSET Own
  BY DEF Server, Request

LEMMA FreshTyped ==
    /\ NoRequest \in Request /\ FreshState \in RunState
    /\ NoRequest.kind = "none" /\ FreshState.thread = NoId
    /\ Quiet \in [asked : 0 .. ReadTimeout, turn : 0 .. TurnTimeout, quiet : 0 .. StallTimeout]
  BY Names, CodexBounds DEF NoRequest, Request, FreshState, RunState, Quiet

LEMMA Typed ==
    TypeOK <=>
        /\ service \in Service /\ mode \in Modes
        /\ client \in Client /\ server \in Server
        /\ inbox \in Seq(Message) /\ Len(inbox) <= MaxInbox + 2
        /\ clock \in [asked : 0 .. ReadTimeout, turn : 0 .. TurnTimeout,
                      quiet : 0 .. StallTimeout]
        /\ session \in [thread : Id, strayed : BOOLEAN]
        /\ session.strayed => session.thread # NoId
        /\ runs \in 0 .. MaxRuns /\ upsets \in 0 .. MaxUpsets
  BY DEF TypeOK, Client, Server

LEMMA TypedNext ==
    TypeOK' <=>
        /\ service' \in Service /\ mode' \in Modes
        /\ client' \in Client /\ server' \in Server
        /\ inbox' \in Seq(Message) /\ Len(inbox') <= MaxInbox + 2
        /\ clock' \in [asked : 0 .. ReadTimeout, turn : 0 .. TurnTimeout,
                       quiet : 0 .. StallTimeout]
        /\ session' \in [thread : Id, strayed : BOOLEAN]
        /\ session'.strayed => session'.thread # NoId
        /\ runs' \in 0 .. MaxRuns /\ upsets' \in 0 .. MaxUpsets
  BY DEF TypeOK, Client, Server

LEMMA ClockReset ==
    ASSUME NEW c \in [asked : 0 .. ReadTimeout, turn : 0 .. TurnTimeout,
                      quiet : 0 .. StallTimeout]
    PROVE  /\ [c EXCEPT !.asked = 0, !.quiet = 0]
                 \in [asked : 0 .. ReadTimeout, turn : 0 .. TurnTimeout,
                      quiet : 0 .. StallTimeout]
           /\ [c EXCEPT !.quiet = 0]
                 \in [asked : 0 .. ReadTimeout, turn : 0 .. TurnTimeout,
                      quiet : 0 .. StallTimeout]
           /\ [c EXCEPT !.turn = 0]
                 \in [asked : 0 .. ReadTimeout, turn : 0 .. TurnTimeout,
                      quiet : 0 .. StallTimeout]
<1>1. 0 \in 0 .. ReadTimeout /\ 0 \in 0 .. TurnTimeout /\ 0 \in 0 .. StallTimeout
  BY CodexBounds
<1> QED
  BY <1>1

LEMMA TypedFields ==
    ASSUME TypeOK
    PROVE  /\ service \in Service /\ mode \in Modes /\ client \in Client /\ server \in Server
           /\ session \in [thread : Id, strayed : BOOLEAN]
           /\ session.strayed => session.thread # NoId
           /\ runs \in 0 .. MaxRuns /\ runs \in Nat /\ upsets \in 0 .. MaxUpsets
  BY CodexBounds DEF TypeOK, Client, Server

LEMMA ModeFields ==
    ASSUME TypeOK
    PROVE  mode.profile \in {"managed", "external", "kept"} /\ mode.inline \in BOOLEAN
<1>1. mode \in Mode
  BY CodexBounds DEF TypeOK
<1> QED
  BY <1>1 DEF Mode

LEMMA Emptied ==
    /\ <<>> \in Seq(Message) /\ Len(<<>>) = 0 /\ Len(<<>>) <= MaxInbox + 2
    /\ Len(<<>>) <= MaxInbox
    /\ OneReply(<<>>) /\ \A i \in 1..Len(<<>>) : FALSE
  BY CodexBounds, EmptySeq DEF OneReply

\* The client of a managed server takes it along, any other leaves it alone.
LEMMA ClosedFields ==
    ASSUME NEW s \in Server, NEW r, r = Closed(s)
    PROVE  /\ r \in Server /\ r.link = "ended"
           /\ r.threads = s.threads /\ r.of = s.of
           /\ r.completed = s.completed /\ r.prompted = s.prompted
           /\ \/ r.asked = s.asked /\ r.running = s.running
              \/ r.asked = NoRequest /\ r.running = {}
           /\ mode.profile = "managed" => r.running = {} /\ r.asked = NoRequest
  BY FreshTyped DEF Closed, Server

\* What is written into the session is a thread the run knows.
LEMMA RecordedFields ==
    ASSUME session \in [thread : Id, strayed : BOOLEAN],
           session.strayed => session.thread # NoId,
           session.thread # NoId => Known(session.thread),
           NEW run \in RunState, NEW opened \in BOOLEAN, Knows(run, opened),
           Recorded(run, opened) \/ UNCHANGED session
    PROVE  /\ session' \in [thread : Id, strayed : BOOLEAN]
           /\ session'.strayed => session'.thread # NoId
           /\ session.strayed => session'.strayed
           /\ session'.thread # NoId =>
                session'.thread \in server.threads \/ session'.strayed
<1>1. run.thread \in Id
  BY DEF RunState
<1>2. CASE UNCHANGED session
  BY <1>2 DEF Known
<1>3. CASE run.thread = NoId /\ Recorded(run, opened)
  BY <1>3 DEF Recorded, Known
<1>4. CASE run.thread # NoId /\ Recorded(run, opened)
  <2>1. session' = [thread |-> run.thread,
                    strayed |-> session.strayed \/ (run.thread = Stranger /\ ~opened)]
    BY <1>4 DEF Recorded
  <2>2. (session.strayed \/ (run.thread = Stranger /\ ~opened)) \in BOOLEAN
    OBVIOUS
  <2>3. /\ session' \in [thread : Id, strayed : BOOLEAN]
        /\ session'.thread = run.thread
        /\ session'.strayed <=> session.strayed \/ (run.thread = Stranger /\ ~opened)
    BY <1>1, <2>1, <2>2
  <2> QED
    BY <1>4, <2>3 DEF Knows, Known
<1> QED
  BY <1>2, <1>3, <1>4
------------------------------------------------------------------------------
\* The queue.

LEMMA Taken ==
    ASSUME NEW s \in Seq(Message), s # <<>>
    PROVE  /\ Head(s) \in Message /\ Tail(s) \in Seq(Message)
           /\ Head(s) = s[1] /\ 1 \in 1..Len(s)
           /\ Len(Tail(s)) <= Len(s)
           /\ \A i \in 1..Len(Tail(s)) : \E j \in 2..Len(s) : Tail(s)[i] = s[j]
           /\ OneReply(s) => OneReply(Tail(s))
           /\ OneReply(s) /\ Head(s).m = "reply" =>
                \A i \in 1..Len(Tail(s)) : Tail(s)[i].m # "reply"
<1>1. /\ Head(s) \in Message /\ Tail(s) \in Seq(Message)
      /\ Len(Tail(s)) = Len(s) - 1
      /\ \A i \in 1..Len(Tail(s)) : Tail(s)[i] = s[i + 1]
  BY HeadTailProperties
<1>2. Len(s) \in Nat \ {0} /\ Head(s) = s[1]
  BY EmptySeq
<1>3. \A i \in 1..Len(Tail(s)) : i + 1 \in 2..Len(s) /\ i + 1 \in 1..Len(s) /\ i + 1 # 1
  BY <1>1, <1>2
<1>4. 1 \in 1..Len(s) /\ Len(Tail(s)) <= Len(s)
  BY <1>1, <1>2
<1>5. OneReply(s) => OneReply(Tail(s))
  <2> SUFFICES ASSUME OneReply(s), NEW i \in 1..Len(Tail(s)), NEW j \in 1..Len(Tail(s)),
                      Tail(s)[i].m = "reply", Tail(s)[j].m = "reply"
               PROVE  i = j
    BY DEF OneReply
  <2>1. i + 1 = j + 1
    BY <1>1, <1>3 DEF OneReply
  <2> QED
    BY <1>1, <1>2, <2>1
<1>6. OneReply(s) /\ Head(s).m = "reply" =>
        \A i \in 1..Len(Tail(s)) : Tail(s)[i].m # "reply"
  BY <1>1, <1>2, <1>3, <1>4 DEF OneReply
<1> QED
  BY <1>1, <1>2, <1>3, <1>4, <1>5, <1>6

LEMMA Appended ==
    ASSUME NEW s \in Seq(Message), NEW msg \in Message
    PROVE  /\ Append(s, msg) \in Seq(Message)
           /\ Len(s) \in Nat
           /\ Len(Append(s, msg)) = Len(s) + 1
           /\ \A i \in 1..Len(Append(s, msg)) :
                \/ Append(s, msg)[i] = msg
                \/ i \in 1..Len(s) /\ Append(s, msg)[i] = s[i]
           /\ OneReply(s) /\ msg.m # "reply" => OneReply(Append(s, msg))
           /\ (\A i \in 1..Len(s) : s[i].m # "reply") => OneReply(Append(s, msg))
<1>1. /\ Append(s, msg) \in Seq(Message)
      /\ Len(Append(s, msg)) = Len(s) + 1
      /\ \A i \in 1..Len(s) : Append(s, msg)[i] = s[i]
      /\ Append(s, msg)[Len(s) + 1] = msg
  BY AppendProperties
<1>2. Len(s) \in Nat
  BY LenProperties
<1>3. \A i \in 1..Len(Append(s, msg)) : i \in 1..Len(s) \/ i = Len(s) + 1
  BY <1>1, <1>2
<1>4. OneReply(s) /\ msg.m # "reply" => OneReply(Append(s, msg))
  BY <1>1, <1>3 DEF OneReply
<1>5. (\A i \in 1..Len(s) : s[i].m # "reply") => OneReply(Append(s, msg))
  BY <1>1, <1>3 DEF OneReply
<1> QED
  BY <1>1, <1>2, <1>3, <1>4, <1>5
------------------------------------------------------------------------------
\* The numbers of threads and turns.

LEMMA Numbers ==
    ASSUME server \in Server
    PROVE  /\ Used \subseteq Own /\ IsFiniteSet(Used) /\ Cardinality(Used) \in Nat
           /\ IsFiniteSet(server.threads) /\ Cardinality(server.threads) \in Nat
           /\ IsFiniteSet(server.prompted) /\ Cardinality(server.prompted) \in Nat
           /\ Opening \in 0..1 /\ Starting \in 0..1 /\ ToOpen \in 0..1 /\ ToStart \in 0..1
<1>1. Used \subseteq Own /\ server.threads \subseteq Own /\ server.prompted \subseteq Own
  BY ServerFields DEF Used
<1>2. IsFiniteSet(Used) /\ IsFiniteSet(server.threads) /\ IsFiniteSet(server.prompted)
  BY <1>1, OwnIsFinite, FS_Subset
<1>3. Opening \in 0..1 /\ Starting \in 0..1 /\ ToOpen \in 0..1 /\ ToStart \in 0..1
  BY DEF Opening, Starting, ToOpen, ToStart
<1> QED
  BY <1>1, <1>2, <1>3, FS_CardinalityType

LEMMA SumKept ==
    ASSUME NEW n \in Nat, NEW most \in Int, NEW more \in Int,
           NEW o \in 0..1, NEW b \in 0..1, NEW p \in 0..1, NEW q \in 0..1,
           n + o + b <= most, p <= o,
           (q <= b /\ most <= more) \/ most + 1 <= more
    PROVE  n + p + q <= more
<1>1. CASE q <= b /\ most <= more
  BY <1>1
<1>2. CASE most + 1 <= more
  BY <1>2
<1> QED
  BY <1>1, <1>2

\* Most steps of a run touch no number, and a replay has an attempt of its own.
LEMMA CountsKept ==
    ASSUME Counts, server \in Server, client \in Client, runs \in Nat,
           server'.threads = server.threads, server'.of = server.of,
           server'.prompted = server.prompted,
           server'.asked \in {server.asked, NoRequest},
           client.pc # "idle", runs' = runs,
           \/ /\ client'.attempt = client.attempt
              /\ ToOpen' <= ToOpen /\ ToStart' <= ToStart
           \/ client.attempt = 0 /\ client'.attempt = 1
    PROVE  Counts'
<1> DEFINE mostOf == 2 * runs - 1 + client.attempt
           moreOf == IF client'.pc = "idle" THEN 2 * runs ELSE 2 * runs - 1 + client'.attempt
<1>1. Opening' <= Opening /\ Starting' <= Starting
      /\ Opening' \in 0..1 /\ Starting' \in 0..1
  BY FreshTyped DEF Opening, Starting
<1>2. Used' = Used
  BY DEF Used
<1>3. ToOpen' \in 0..1 /\ ToStart' \in 0..1
  BY DEF ToOpen, ToStart
<1>4. client.attempt \in 0..1
  BY ClientFields
<1>5. /\ Cardinality(server.threads) + Opening + ToOpen <= mostOf
      /\ Cardinality(Used) + Starting + ToStart <= mostOf
      /\ Cardinality(server.prompted) + Starting + ToStart <= client.attempt + 1
      /\ runs # 0
  BY DEF Counts
<1>6. /\ mostOf \in Int /\ moreOf \in Int
      /\ client.attempt + 1 \in Int /\ client'.attempt + 1 \in Int
      /\ \/ /\ ToOpen' <= ToOpen /\ ToStart' <= ToStart
            /\ mostOf <= moreOf /\ client'.attempt = client.attempt
         \/ mostOf + 1 <= moreOf /\ client.attempt + 2 <= client'.attempt + 1
  <2>1. CASE client'.attempt = client.attempt /\ ToOpen' <= ToOpen /\ ToStart' <= ToStart
    BY <1>4, <2>1
  <2>2. CASE client.attempt = 0 /\ client'.attempt = 1
    BY <2>2
  <2> QED
    BY <2>1, <2>2
<1> HIDE DEF mostOf, moreOf
<1>7. Cardinality(server.threads) + Opening' + ToOpen' <= moreOf
  BY <1>1, <1>3, <1>5, <1>6, Numbers, SumKept
<1>8. Cardinality(Used) + Starting' + ToStart' <= moreOf
  BY <1>1, <1>3, <1>5, <1>6, Numbers, SumKept
<1>9. Cardinality(server.prompted) + Starting' + ToStart' <= client'.attempt + 1
  <2>1. \/ ToStart' <= ToStart /\ client.attempt + 1 <= client'.attempt + 1
        \/ (client.attempt + 1) + 1 <= client'.attempt + 1
    BY <1>4, <1>6
  <2> QED
    BY <1>1, <1>3, <1>5, <1>6, <2>1, Numbers, SumKept
<1> QED
  BY <1>2, <1>5, <1>7, <1>8, <1>9 DEF Counts, moreOf

------------------------------------------------------------------------------
\* The end of a run.

LEMMA Emptiness ==
    ASSUME inbox' = <<>>, client'.pc # "reading"
    PROVE  Mail'
  BY Emptied, CodexBounds DEF Mail, OneReply

LEMMA NothingToCome ==
    ASSUME client'.pc = "idle"
    PROVE  ToOpen' <= ToOpen /\ ToStart' <= ToStart
<1>1. ToOpen' = 0 /\ ToStart' = 0
  BY DEF ToOpen, ToStart
<1>2. ToOpen \in 0..1 /\ ToStart \in 0..1
  BY DEF ToOpen, ToStart
<1> QED
  BY <1>1, <1>2

LEMMA RecordTyped ==
    ASSUME NEW r, NEW x \in Id, "none" \in Why, FreshState \in RunState,
           r = [pc |-> "building", run |-> FreshState, resume |-> x, attempt |-> 1,
                why |-> "none", opened |-> FALSE, closed |-> FALSE]
    PROVE  r \in Client
  BY DEF Client

LEMMA ReplayFields ==
    ASSUME NEW c \in Client, NEW r,
           r = [c EXCEPT !.pc = "building", !.run = FreshState, !.attempt = 1,
                         !.why = "none", !.opened = FALSE, !.closed = FALSE]
    PROVE  /\ r \in Client /\ r.pc = "building" /\ r.why = "none"
           /\ r.run = FreshState /\ r.resume = c.resume
           /\ r.attempt = 1 /\ r.closed = FALSE /\ r.opened = FALSE
<1>1. "none" \in Why /\ FreshState \in RunState
  BY FreshTyped DEF Why
<1>2. r = [pc |-> "building", run |-> FreshState, resume |-> c.resume, attempt |-> 1,
           why |-> "none", opened |-> FALSE, closed |-> FALSE]
  BY DEF Client
<1>3. c.resume \in Id
  BY ClientFields
<1>4. r \in Client
  BY <1>1, <1>2, <1>3, RecordTyped
<1> QED
  BY <1>2, <1>4

LEMMA StopKept ==
    ASSUME NEW run, ToldToStop(run), client'.run = run, Used' = Used,
           \/ server'.asked = server.asked /\ server'.running = server.running
           \/ server'.asked = NoRequest /\ server'.running = {},
           server'.link \in {server.link, "ended"}
    PROVE  ToldToStop(client.run)'
<1>1. NoRequest.kind = "none"
  BY FreshTyped
<1>2. CASE server'.asked = server.asked /\ server'.running = server.running
  BY <1>2 DEF ToldToStop
<1>3. CASE server'.asked = NoRequest /\ server'.running = {}
  BY <1>1, <1>3 DEF ToldToStop
<1> QED
  BY <1>2, <1>3

\* A run is over: it returned, raised, or was killed.
LEMMA OverKeeps ==
    ASSUME IInv, client.pc # "idle", NEW c \in Client, NEW why \in Why,
           c.attempt = client.attempt, c.resume = client.resume, Knows(c.run, c.opened),
           why = "ok" => HasResult(c.run),
           why \in {"timed out", "stalled"} => ToldToStop(c.run),
           client' = [c EXCEPT !.pc = "idle", !.why = why],
           server' \in {server, Closed(server), [server EXCEPT !.link = "ended"]},
           mode.profile = "managed" /\ why # "none" => server' = Closed(server),
           inbox' = <<>>, clock' = Quiet,
           Recorded(c.run, c.opened) \/ UNCHANGED session,
           upsets' \in 0 .. MaxUpsets, UNCHANGED <<service, mode, runs>>
    PROVE  IInv'
<1>1. /\ service \in Service /\ mode \in Modes /\ client \in Client /\ server \in Server
      /\ session \in [thread : Id, strayed : BOOLEAN]
      /\ session.strayed => session.thread # NoId
      /\ runs \in 0 .. MaxRuns /\ runs \in Nat
  BY TypedFields DEF IInv
<1>2. client' = [c EXCEPT !.pc = "idle", !.why = why]
  OBVIOUS
<1>3. /\ client' \in Client /\ client'.pc = "idle" /\ client'.why = why
      /\ client'.run = c.run /\ client'.resume = c.resume /\ client'.opened = c.opened
      /\ client'.attempt = client.attempt
  BY <1>2 DEF Client
<1>4. /\ server' \in Server /\ server'.threads = server.threads /\ server'.of = server.of
      /\ server'.completed = server.completed /\ server'.prompted = server.prompted
      /\ \/ server'.asked = server.asked /\ server'.running = server.running
         \/ server'.asked = NoRequest /\ server'.running = {}
      /\ server'.link \in {server.link, "ended"}
      /\ mode.profile = "managed" /\ why # "none" =>
           server'.running = {} /\ server'.asked = NoRequest
  <2>1. CASE server' \in {server, Closed(server)}
    BY <1>1, <2>1, ClosedFields
  <2>2. CASE server' = [server EXCEPT !.link = "ended"]
    <3>1. /\ server' \in Server /\ server'.threads = server.threads
          /\ server'.of = server.of /\ server'.completed = server.completed
          /\ server'.prompted = server.prompted /\ server'.asked = server.asked
          /\ server'.running = server.running /\ server'.link = "ended"
      BY <1>1, <2>2 DEF Server
    <3> QED
      BY <1>1, <3>1, ClosedFields
  <2> QED
    BY <2>1, <2>2
<1>5. /\ session' \in [thread : Id, strayed : BOOLEAN]
      /\ session'.strayed => session'.thread # NoId
      /\ session.strayed => session'.strayed
      /\ session'.thread # NoId => Known(session.thread)'
  <2>1. c.run \in RunState /\ c.opened \in BOOLEAN
    BY ClientFields
  <2>2. session.thread # NoId => Known(session.thread)
    BY DEF IInv, Threads
  <2>3. /\ session' \in [thread : Id, strayed : BOOLEAN]
        /\ session'.strayed => session'.thread # NoId
        /\ session.strayed => session'.strayed
        /\ session'.thread # NoId => session'.thread \in server.threads \/ session'.strayed
    BY <1>1, <2>1, <2>2, RecordedFields
  <2> QED
    BY <1>4, <2>3 DEF Known
<1>6. TypeOK'
  BY <1>1, <1>2, <1>3, <1>4, <1>5, Emptied, FreshTyped, TypedNext
<1>7. \A x : Known(x) => Known(x)'
  BY <1>4, <1>5 DEF Known
<1>8. Used' = Used
  BY <1>4 DEF Used
<1>9. Threads'
  <2>1. Knows(client.run, client.opened)'
    BY <1>3, <1>7 DEF Knows
  <2>2. client'.resume # NoId => Known(client.resume)'
    BY <1>3, <1>7 DEF IInv, Threads
  <2>3. /\ server'.asked.kind = "opening" /\ server'.asked.thread # NoId
             => Known(server.asked.thread)'
        /\ server'.asked.kind = "starting" => server'.asked.thread # NoId
    BY <1>4, <1>7, FreshTyped DEF IInv, Threads
  <2> QED
    BY <1>5, <2>1, <2>2, <2>3 DEF Threads
<1>10. TurnsBegan'
  BY <1>4, <1>8 DEF IInv, TurnsBegan
<1>11. Asked' /\ Started'
  BY <1>3 DEF Asked, Started, Asking
<1>12. Mail'
  BY <1>2, <1>3, Emptiness
<1>13. Ends'
  <2>1. why = "ok" => HasResult(client.run)'
    BY <1>3, <1>4 DEF HasResult, HasTurn
  <2>2. why \in {"timed out", "stalled"} => ToldToStop(client.run)'
    BY <1>3, <1>4, <1>8, StopKept
  <2> QED
    BY <1>3, <1>4, <2>1, <2>2, FreshTyped DEF Ends, Idle, GaveUp
<1>14. Counts'
  <2>1. server'.asked \in {server.asked, NoRequest}
    BY <1>4
  <2>2. ToOpen' <= ToOpen /\ ToStart' <= ToStart
    BY <1>3, NothingToCome
  <2> QED
    BY <1>1, <1>3, <1>4, <2>1, <2>2, CountsKept DEF IInv
<1> QED
  BY <1>6, <1>9, <1>10, <1>11, <1>12, <1>13, <1>14 DEF IInv

LEMMA ReturnedKeeps ==
    ASSUME IInv, client.pc # "idle", NEW c \in Client, NEW why \in Why, Returned(c, why),
           c.attempt = client.attempt, c.resume = client.resume, Knows(c.run, c.opened),
           why = "ok" => HasResult(c.run),
           why \in {"timed out", "stalled"} => ToldToStop(c.run),
           UNCHANGED <<service, mode, runs, upsets>>
    PROVE  IInv'
<1>1. /\ client' = [c EXCEPT !.pc = "idle", !.why = why]
      /\ server' \in {server, Closed(server)}
      /\ mode.profile = "managed" => server' = Closed(server)
      /\ inbox' = <<>> /\ clock' = Quiet /\ Recorded(c.run, c.opened)
  BY DEF Returned
<1>2. upsets' \in 0 .. MaxUpsets
  BY TypedFields DEF IInv
<1> QED
  BY <1>1, <1>2, OverKeeps

LEMMA FailedKeeps ==
    ASSUME IInv, client.pc # "idle", NEW c \in Client, Failed(c),
           c.attempt = client.attempt, c.resume = client.resume, Knows(c.run, c.opened),
           c.pc = "interrupting" =>
             c.why \in {"timed out", "stalled"} /\ ToldToStop(c.run),
           UNCHANGED <<service, mode, runs, upsets>>
    PROVE  IInv'
<1>1. /\ service \in Service /\ mode \in Modes /\ client \in Client /\ server \in Server
      /\ session \in [thread : Id, strayed : BOOLEAN]
      /\ session.strayed => session.thread # NoId
      /\ runs \in 0 .. MaxRuns /\ runs \in Nat /\ upsets \in 0 .. MaxUpsets
  BY TypedFields DEF IInv
<1>2. CASE ~MayReplay(c)
  <2> DEFINE d == [c EXCEPT !.closed = @ \/ c.pc = "initializing"]
             why == IF c.pc = "interrupting" THEN c.why ELSE "failed"
  <2>1. Returned(d, why)
    BY <1>2 DEF Failed
  <2>2. (c.closed \/ c.pc = "initializing") \in BOOLEAN
    OBVIOUS
  <2>3. /\ d \in Client /\ d.attempt = c.attempt /\ d.resume = c.resume
        /\ d.run = c.run /\ d.opened = c.opened
    BY <2>2 DEF Client
  <2>4. /\ why \in Why /\ why # "ok"
        /\ why \in {"timed out", "stalled"} => ToldToStop(d.run)
    BY <2>3 DEF Why
  <2> HIDE DEF d, why
  <2> QED
    BY <2>1, <2>3, <2>4, ReturnedKeeps
<1>3. CASE MayReplay(c)
  <2>1. /\ client' = [c EXCEPT !.pc = "building", !.run = FreshState, !.attempt = 1,
                              !.why = "none", !.opened = FALSE, !.closed = FALSE]
        /\ server' = Closed(server) /\ inbox' = <<>> /\ clock' = Quiet
        /\ Recorded(c.run, c.opened) \/ UNCHANGED session
    BY <1>3 DEF Failed, Progress
  <2>2. mode.profile = "kept" /\ client.attempt = 0
    BY <1>3 DEF MayReplay
  <2>3. /\ client' \in Client /\ client'.pc = "building" /\ client'.why = "none"
        /\ client'.run = FreshState /\ client'.resume = client.resume
        /\ client'.attempt = 1 /\ client'.closed = FALSE /\ client'.opened = FALSE
    BY <2>1, ReplayFields, ZenonT(40)
  <2>4. /\ server' \in Server /\ server'.threads = server.threads /\ server'.of = server.of
        /\ server'.completed = server.completed /\ server'.prompted = server.prompted
        /\ \/ server'.asked = server.asked /\ server'.running = server.running
           \/ server'.asked = NoRequest /\ server'.running = {}
        /\ server'.link = "ended"
    BY <1>1, <2>1, ClosedFields
  <2>5. /\ session' \in [thread : Id, strayed : BOOLEAN]
        /\ session'.strayed => session'.thread # NoId
        /\ session.strayed => session'.strayed
        /\ session'.thread # NoId => Known(session.thread)'
    BY <1>1, <2>1, <2>4, RecordedFields, ClientFields DEF IInv, Threads, Known
  <2>6. TypeOK'
    BY <1>1, <2>1, <2>3, <2>4, <2>5, Emptied, FreshTyped, TypedNext
  <2>7. \A x : Known(x) => Known(x)'
    BY <2>4, <2>5 DEF Known
  <2>8. Used' = Used
    BY <2>4 DEF Used
  <2>9. Threads'
    BY <2>3, <2>4, <2>5, <2>7, FreshTyped DEF IInv, Threads, Knows
  <2>10. TurnsBegan'
    BY <2>4, <2>8 DEF IInv, TurnsBegan
  <2>11. Asked' /\ Started' /\ Ends'
    BY <2>2, <2>3 DEF Asked, Started, Asking, Ends, Idle, GaveUp
  <2>12. Mail'
    BY <2>1, <2>3, Emptiness
  <2>13. Counts'
    <3>1. server'.asked \in {server.asked, NoRequest}
      BY <2>4
    <3> QED
      BY <1>1, <2>2, <2>3, <2>4, <3>1, CountsKept DEF IInv
  <2> QED
    BY <2>6, <2>9, <2>10, <2>11, <2>12, <2>13 DEF IInv
<1> QED
  BY <1>2, <1>3
------------------------------------------------------------------------------
\* A request is sent.

LEMMA SumMoved ==
    ASSUME NEW n \in Nat, NEW most \in Int, NEW more \in Int,
           NEW o \in 0..1, NEW b \in 0..1, NEW p \in 0..1, NEW q \in 0..1,
           n + o + b <= most, p + q <= o + b, most <= more
    PROVE  n + p + q <= more
  OBVIOUS

LEMMA CountsMoved ==
    ASSUME Counts, server \in Server, client \in Client, runs \in Nat,
           server'.threads = server.threads, server'.of = server.of,
           server'.prompted = server.prompted, runs' = runs,
           client.pc # "idle", client'.attempt = client.attempt,
           Opening' + ToOpen' <= Opening + ToOpen,
           Starting' + ToStart' <= Starting + ToStart
    PROVE  Counts'
<1> DEFINE mostOf == 2 * runs - 1 + client.attempt
           moreOf == IF client'.pc = "idle" THEN 2 * runs ELSE 2 * runs - 1 + client'.attempt
<1>1. Used' = Used
  BY DEF Used
<1>2. /\ Opening' \in 0..1 /\ Starting' \in 0..1 /\ ToOpen' \in 0..1 /\ ToStart' \in 0..1
  BY DEF Opening, Starting, ToOpen, ToStart
<1>3. client.attempt \in 0..1
  BY ClientFields
<1>4. /\ Cardinality(server.threads) + Opening + ToOpen <= mostOf
      /\ Cardinality(Used) + Starting + ToStart <= mostOf
      /\ Cardinality(server.prompted) + Starting + ToStart <= client.attempt + 1
      /\ runs # 0
  BY DEF Counts
<1>5. /\ mostOf \in Int /\ moreOf \in Int /\ mostOf <= moreOf
      /\ client.attempt + 1 \in Int
      /\ client.attempt + 1 <= client.attempt + 1
  BY <1>3
<1> HIDE DEF mostOf, moreOf
<1>6. Cardinality(server.threads) + Opening' + ToOpen' <= moreOf
  BY <1>2, <1>4, <1>5, Numbers, SumMoved
<1>7. Cardinality(Used) + Starting' + ToStart' <= moreOf
  BY <1>2, <1>4, <1>5, Numbers, SumMoved
<1>8. Cardinality(server.prompted) + Starting' + ToStart' <= client.attempt + 1
  BY <1>2, <1>4, <1>5, Numbers, SumMoved
<1> QED
  BY <1>1, <1>4, <1>6, <1>7, <1>8 DEF Counts, moreOf

\* What an answered client has left to read, or one that reads has before it.
Rests(rest) ==
    /\ rest \in Seq(Message) /\ Len(rest) <= Len(inbox)
    /\ \A i \in 1..Len(rest) :
         rest[i].m # "reply" /\ \E j \in 1..Len(inbox) : rest[i] = inbox[j]

\* What a client is like that sends a request of a kind.
MaySend(c, kind) ==
    /\ c \in Client /\ c.attempt = client.attempt /\ c.resume = client.resume
    /\ Knows(c.run, c.opened) /\ c.closed = client.closed
    /\ server.asked.kind = "none"
    /\ \/ kind = "opening" /\ client.pc = "initializing" /\ c.why = "none"
       \/ /\ kind = "starting" /\ client.pc = "opening" /\ c.why = "none"
          /\ c.run.thread # NoId /\ c.opened
       \/ /\ kind = "interrupting" /\ client.pc = "reading"
          /\ c.why \in {"timed out", "stalled"}
          /\ c.run.thread # NoId /\ c.opened /\ HasTurn(c.run)

LEMMA SentKeeps ==
    ASSUME IInv, NEW c, NEW kind, NEW rest, MaySend(c, kind), Rests(rest),
           ~c.closed, client' = [c EXCEPT !.pc = kind],
           server' = IF server.link # "open" THEN server
                     ELSE [server EXCEPT !.asked =
                             [kind |-> kind,
                              thread |-> IF kind = "opening" THEN c.resume ELSE c.run.thread,
                              turn |-> IF kind = "interrupting" THEN c.run.turn ELSE NoId]],
           inbox' = rest, clock' = [clock EXCEPT !.asked = 0, !.quiet = 0],
           Progress(c.run, c.opened), UNCHANGED <<service, mode, runs, upsets>>
    PROVE  IInv'
<1>1. /\ service \in Service /\ mode \in Modes /\ client \in Client /\ server \in Server
      /\ session \in [thread : Id, strayed : BOOLEAN]
      /\ session.strayed => session.thread # NoId
      /\ runs \in 0 .. MaxRuns /\ runs \in Nat /\ upsets \in 0 .. MaxUpsets
  BY TypedFields DEF IInv
<1>2. kind \in Asking /\ kind \in {"opening", "starting", "interrupting"} /\ client.pc # "idle"
  BY DEF MaySend, Asking
<1>3. /\ client' \in Client /\ client'.pc = kind /\ client'.run = c.run
      /\ client'.resume = client.resume /\ client'.attempt = client.attempt
      /\ client'.why = c.why /\ client'.opened = c.opened /\ client'.closed = FALSE
  BY <1>2 DEF MaySend, Client
<1>4. /\ server' \in Server /\ server'.threads = server.threads /\ server'.of = server.of
      /\ server'.completed = server.completed /\ server'.prompted = server.prompted
      /\ server'.running = server.running /\ server'.link = server.link
      /\ \/ server'.asked.kind = "none" /\ server.link # "open"
         \/ /\ server'.asked.kind = kind
            /\ kind = "opening" =>
                 server'.asked.thread = client.resume /\ server'.asked.turn = NoId
            /\ kind = "starting" =>
                 server'.asked.thread = c.run.thread /\ server'.asked.turn = NoId
            /\ kind = "interrupting" => server'.asked.turn = c.run.turn
  <2> DEFINE r == [kind |-> kind,
                   thread |-> IF kind = "opening" THEN c.resume ELSE c.run.thread,
                   turn |-> IF kind = "interrupting" THEN c.run.turn ELSE NoId]
  <2>1. c.resume \in Id /\ c.run.thread \in Id /\ c.run.turn \in Id /\ NoId \in Id
    BY ClientFields, Names DEF MaySend
  <2>2. r \in Request
    BY <1>2, <2>1 DEF Request
  <2>3. (server' = server /\ server.link # "open") \/ server' = [server EXCEPT !.asked = r]
    OBVIOUS
  <2> HIDE DEF r
  <2>4. /\ server' \in Server /\ server'.threads = server.threads /\ server'.of = server.of
        /\ server'.completed = server.completed /\ server'.prompted = server.prompted
        /\ server'.running = server.running /\ server'.link = server.link
        /\ (server'.asked = server.asked /\ server.link # "open") \/ server'.asked = r
    BY <1>1, <2>2, <2>3 DEF Server
  <2>5. /\ r.kind = kind
        /\ kind = "opening" => r.thread = c.resume /\ r.turn = NoId
        /\ kind = "starting" => r.thread = c.run.thread /\ r.turn = NoId
        /\ kind = "interrupting" => r.turn = c.run.turn
    BY DEF r
  <2>6. server.asked.kind = "none" /\ c.resume = client.resume
    BY DEF MaySend
  <2> QED
    BY <2>4, <2>5, <2>6
<1>5. /\ session' \in [thread : Id, strayed : BOOLEAN]
      /\ session'.strayed => session'.thread # NoId
      /\ session.strayed => session'.strayed
      /\ session'.thread # NoId => Known(session.thread)'
  <2>1. c.run \in RunState /\ c.opened \in BOOLEAN /\ Knows(c.run, c.opened)
    BY ClientFields DEF MaySend
  <2>2. Recorded(c.run, c.opened) \/ UNCHANGED session
    BY DEF Progress
  <2> QED
    BY <1>1, <1>4, <2>1, <2>2, RecordedFields DEF IInv, Threads, Known
<1>6. TypeOK'
  <2>1. /\ clock' \in [asked : 0 .. ReadTimeout, turn : 0 .. TurnTimeout,
                       quiet : 0 .. StallTimeout]
    BY ClockReset DEF IInv, TypeOK
  <2>2. inbox' \in Seq(Message) /\ Len(inbox') <= MaxInbox + 2
    <3>1. Len(inbox) <= MaxInbox + 2 /\ inbox \in Seq(Message)
      BY DEF IInv, TypeOK
    <3> QED
      BY <3>1, CodexBounds, LenProperties DEF Rests
  <2> QED
    BY <1>1, <1>3, <1>4, <1>5, <2>1, <2>2, TypedNext
<1>7. \A x : Known(x) => Known(x)'
  BY <1>4, <1>5 DEF Known
<1>8. Used' = Used
  BY <1>4 DEF Used
<1>9. Threads'
  <2>1. Knows(client.run, client.opened)'
    BY <1>3, <1>7 DEF Knows, MaySend
  <2>2. client'.resume # NoId => Known(client.resume)'
    BY <1>3, <1>7 DEF IInv, Threads
  <2>3. /\ server'.asked.kind = "opening" /\ server'.asked.thread # NoId
             => Known(server.asked.thread)'
        /\ server'.asked.kind = "starting" => server'.asked.thread # NoId
    BY <1>4, <1>7 DEF MaySend, IInv, Threads
  <2> QED
    BY <1>5, <2>1, <2>2, <2>3 DEF Threads
<1>10. TurnsBegan'
  BY <1>4, <1>8 DEF IInv, TurnsBegan
<1>11. Asked'
  BY <1>2, <1>3, <1>4 DEF Asked, MaySend
<1>12. Started'
  BY <1>2, <1>3, <1>4 DEF Started, MaySend, HasTurn
<1>13. Mail'
  <2>1. \A i \in 1..Len(inbox') : inbox'[i].m # "reply"
    BY DEF Rests
  <2>2. ASSUME NEW i \in 1..Len(inbox')
        PROVE  Says(inbox[i])'
    <3>1. PICK j \in 1..Len(inbox) : inbox'[i] = inbox[j]
      BY DEF Rests
    <3>2. Says(inbox[j])
      BY DEF IInv, Mail
    <3> QED
      BY <1>4, <1>8, <2>1, <3>1, <3>2 DEF Says
  <2>3. OneReply(inbox)'
    BY <2>1 DEF OneReply
  <2>4. /\ server'.link = "open" => Len(inbox') <= MaxInbox
        /\ server'.link = "breaking" => Len(inbox') <= MaxInbox + 1
    <3>1. Len(inbox') \in Nat /\ Len(inbox) \in Nat /\ Len(inbox') <= Len(inbox)
      BY LenProperties DEF IInv, TypeOK, Rests
    <3> QED
      BY <1>4, <3>1, CodexBounds DEF IInv, Mail
  <2>5. ~Idle'
    BY <1>2, <1>3 DEF Idle
  <2> QED
    BY <2>1, <2>2, <2>3, <2>4, <2>5 DEF Mail
<1>14. Ends'
  <2>1. kind = "interrupting" => ToldToStop(client.run)'
    BY <1>3, <1>4, <1>8 DEF ToldToStop, MaySend, HasTurn, IInv, TurnsBegan
  <2> QED
    BY <1>2, <1>3, <1>4, <2>1 DEF Ends, Idle, GaveUp, MaySend
<1>15. Counts'
  <2>1. Opening = 0 /\ Starting = 0
    BY DEF Opening, Starting, MaySend
  <2>2. CASE kind = "opening"
    <3>1. ToOpen = 1 /\ ToStart = 1 /\ ToOpen' = 0 /\ ToStart' = 1
      BY <1>3, <2>2 DEF ToOpen, ToStart, MaySend
    <3>2. Opening' \in 0..1 /\ Starting' = 0
      BY <1>4, <2>2 DEF Opening, Starting, MaySend
    <3> QED
      BY <1>1, <1>2, <1>3, <1>4, <2>1, <3>1, <3>2, CountsMoved DEF IInv
  <2>3. CASE kind = "starting"
    <3>1. ToOpen = 0 /\ ToStart = 1 /\ ToOpen' = 0 /\ ToStart' = 0
      BY <1>3, <2>3 DEF ToOpen, ToStart, MaySend
    <3>2. Opening' = 0 /\ Starting' \in 0..1
      BY <1>4, <2>3 DEF Opening, Starting, MaySend
    <3> QED
      BY <1>1, <1>2, <1>3, <1>4, <2>1, <3>1, <3>2, CountsMoved DEF IInv
  <2>4. CASE kind = "interrupting"
    <3>1. ToOpen = 0 /\ ToStart = 0 /\ ToOpen' = 0 /\ ToStart' = 0
      BY <1>3, <2>4 DEF ToOpen, ToStart, MaySend
    <3>2. Opening' = 0 /\ Starting' = 0
      BY <1>4, <2>4 DEF Opening, Starting, MaySend
    <3> QED
      BY <1>1, <1>2, <1>3, <1>4, <2>1, <3>1, <3>2, CountsMoved DEF IInv
  <2> QED
    BY <1>2, <2>2, <2>3, <2>4
<1> QED
  BY <1>6, <1>9, <1>10, <1>11, <1>12, <1>13, <1>14, <1>15 DEF IInv

LEMMA SendsKeeps ==
    ASSUME IInv, NEW c, NEW kind, NEW rest, MaySend(c, kind), Rests(rest),
           kind = "interrupting" => c.pc = "interrupting",
           kind # "interrupting" => c.pc # "interrupting",
           Sends(c, kind, rest), UNCHANGED <<service, mode, runs, upsets>>
    PROVE  IInv'
<1>1. CASE /\ c.closed \/ server.link # "open"
           /\ Failed([c EXCEPT !.pc = IF c.closed THEN @ ELSE kind, !.closed = TRUE])
  <2> DEFINE d == [c EXCEPT !.pc = IF c.closed THEN @ ELSE kind, !.closed = TRUE]
  <2>1. /\ d \in Client /\ d.attempt = client.attempt /\ d.resume = client.resume
        /\ d.run = c.run /\ d.opened = c.opened /\ d.why = c.why
        /\ d.pc = "interrupting" => kind = "interrupting"
    BY DEF MaySend, Client, Asking
  <2>2. Failed(d)
    BY <1>1
  <2>3. server.link # "open"
    BY <1>1 DEF MaySend, IInv, Ends, Idle
  <2> HIDE DEF d
  <2>4. Knows(d.run, d.opened) /\ client.pc # "idle"
    BY <2>1 DEF MaySend
  <2>5. d.pc = "interrupting" => d.why \in {"timed out", "stalled"} /\ ToldToStop(d.run)
    BY <2>1, <2>3 DEF MaySend, ToldToStop, HasTurn, IInv, TurnsBegan
  <2> QED
    BY <2>1, <2>2, <2>4, <2>5, FailedKeeps
<1>2. CASE /\ ~c.closed
           /\ client' = [c EXCEPT !.pc = kind]
           /\ server' = IF server.link # "open" THEN server
                        ELSE [server EXCEPT !.asked =
                                [kind |-> kind,
                                 thread |-> IF kind = "opening" THEN c.resume
                                            ELSE c.run.thread,
                                 turn |-> IF kind = "interrupting" THEN c.run.turn
                                          ELSE NoId]]
           /\ inbox' = rest
           /\ clock' = [clock EXCEPT !.asked = 0, !.quiet = 0]
           /\ Progress(c.run, c.opened)
  BY <1>2, SentKeeps
<1> QED
  BY <1>1, <1>2 DEF Sends
------------------------------------------------------------------------------
\* The steps of a run.

LEMMA InIInv ==
    ASSUME IInv
    PROVE  /\ TypeOK /\ Threads /\ TurnsBegan /\ Asked /\ Started /\ Mail /\ Ends /\ Counts
           /\ Knows(client.run, client.opened)
           /\ client \in Client /\ server \in Server /\ inbox \in Seq(Message)
           /\ runs \in Nat
  BY TypedFields DEF IInv, TypeOK, Threads

LEMMA BeginKeeps ==
    ASSUME IInv, Begin
    PROVE  IInv'
<1>1. /\ client.pc = "idle" /\ runs < MaxRuns /\ runs' = runs + 1
      /\ client' = [pc |-> "building", run |-> FreshState, resume |-> session.thread,
                    attempt |-> 0, why |-> "none", opened |-> FALSE, closed |-> FALSE]
      /\ server' = [server EXCEPT !.asked = NoRequest, !.prompted = {}, !.completed = {}]
      /\ UNCHANGED <<service, mode, inbox, clock, session, upsets>>
  BY DEF Begin
<1>2. /\ session.thread \in Id /\ runs \in Nat /\ runs' \in 0 .. MaxRuns /\ inbox = <<>>
  BY <1>1, InIInv, TypedFields, CodexBounds DEF Mail, Idle
<1>3. /\ client' \in Client /\ client'.pc = "building" /\ client'.run = FreshState
      /\ client'.resume = session.thread /\ client'.attempt = 0 /\ client'.why = "none"
      /\ client'.opened = FALSE /\ client'.closed = FALSE
  <2>1. "none" \in Why /\ FreshState \in RunState
    BY FreshTyped DEF Why
  <2>2. client' \in Client
    BY <1>1, <1>2, <2>1 DEF Client
  <2> QED
    BY <1>1, <2>2
<1>4. /\ server' \in Server /\ server'.asked = NoRequest /\ server'.prompted = {}
      /\ server'.threads = server.threads /\ server'.of = server.of
      /\ server'.running = server.running
  BY <1>1, InIInv, FreshTyped DEF Server
<1>5. TypeOK'
  BY <1>1, <1>2, <1>3, <1>4, InIInv, Typed, TypedNext
<1>6. Used' = Used /\ \A x : Known(x) => Known(x)'
  BY <1>1, <1>4 DEF Used, Known
<1>7. Threads'
  BY <1>1, <1>3, <1>4, <1>6, InIInv, FreshTyped DEF Threads, Knows
<1>8. TurnsBegan'
  BY <1>4, <1>6, InIInv DEF TurnsBegan
<1>9. Asked' /\ Started' /\ Ends'
  BY <1>3 DEF Asked, Started, Ends, Asking, Idle, GaveUp
<1>10. Mail'
  BY <1>1, <1>2, <1>3, Emptiness
<1>11. Counts'
  <2>1. /\ Opening' = 0 /\ Starting' = 0 /\ ToOpen' = 1 /\ ToStart' = 1
    BY <1>3, <1>4, FreshTyped DEF Opening, Starting, ToOpen, ToStart
  <2>2. /\ Cardinality(server.threads) \in Nat /\ Cardinality(Used) \in Nat
        /\ Cardinality(server.threads) <= 2 * runs /\ Cardinality(Used) <= 2 * runs
    <3>1. /\ Cardinality(server.threads) + Opening + ToOpen <= 2 * runs
          /\ Cardinality(Used) + Starting + ToStart <= 2 * runs
      BY <1>1, InIInv DEF Counts
    <3>2. 2 * runs \in Nat
      BY <1>2
    <3> QED
      BY <3>1, <3>2, InIInv, Numbers
  <2>3. Cardinality(server'.prompted) = 0
    BY <1>4, FS_EmptySet
  <2>4. 2 * runs' - 1 + client'.attempt = 2 * runs + 1 /\ runs' # 0
    BY <1>1, <1>2, <1>3
  <2>5. /\ Cardinality(server'.threads) + Opening' + ToOpen' <= 2 * runs' - 1 + client'.attempt
        /\ Cardinality(Used') + Starting' + ToStart' <= 2 * runs' - 1 + client'.attempt
    BY <1>2, <1>4, <1>6, <2>1, <2>2, <2>4
  <2>6. Cardinality(server'.prompted) + Starting' + ToStart' <= client'.attempt + 1
    BY <1>3, <2>1, <2>3
  <2> QED
    BY <1>3, <2>4, <2>5, <2>6 DEF Counts
<1> QED
  BY <1>5, <1>7, <1>8, <1>9, <1>10, <1>11 DEF IInv

LEMMA ConnectKeeps ==
    ASSUME IInv, Connect
    PROVE  IInv'
<1>1. /\ client.pc = "building" /\ client' = [client EXCEPT !.pc = "initializing"]
      /\ server' = [[server EXCEPT !.link = "open"] EXCEPT
                      !.asked = [NoRequest EXCEPT !.kind = "initializing"]]
      /\ clock' = Quiet
      /\ UNCHANGED <<inbox, session, service, mode, runs, upsets>>
  BY DEF Connect, Dialled, ClientFrame
<1>2. inbox = <<>> /\ ~client.closed /\ client.why = "none"
  BY <1>1, InIInv DEF Mail, Idle, Ends
<1>3. /\ client' \in Client /\ client'.pc = "initializing" /\ client'.run = client.run
      /\ client'.resume = client.resume /\ client'.attempt = client.attempt
      /\ client'.why = client.why /\ client'.opened = client.opened
      /\ client'.closed = client.closed
  BY <1>1, InIInv DEF Client, Asking
<1>4. /\ server' \in Server /\ server'.asked.kind = "initializing"
      /\ server'.threads = server.threads /\ server'.of = server.of
      /\ server'.running = server.running /\ server'.completed = server.completed
      /\ server'.prompted = server.prompted
  <2> DEFINE r == [NoRequest EXCEPT !.kind = "initializing"]
  <2>1. r \in Request /\ r.kind = "initializing"
    BY Names DEF NoRequest, Request, Asking
  <2> HIDE DEF r
  <2> QED
    BY <1>1, <2>1, InIInv DEF Server, r
<1>5. TypeOK'
  BY <1>1, <1>3, <1>4, InIInv, Typed, TypedNext, FreshTyped
<1>6. Used' = Used /\ \A x : Known(x) => Known(x)'
  BY <1>1, <1>4 DEF Used, Known
<1>7. Threads'
  BY <1>1, <1>3, <1>4, <1>6, InIInv DEF Threads, Knows
<1>8. TurnsBegan'
  BY <1>4, <1>6, InIInv DEF TurnsBegan
<1>9. Asked' /\ Started' /\ Ends'
  BY <1>2, <1>3, <1>4 DEF Asked, Started, Ends, Idle, GaveUp
<1>10. Mail'
  BY <1>1, <1>2, <1>3, Emptiness
<1>11. Counts'
  <2>1. /\ Opening' = 0 /\ Starting' = 0 /\ ToOpen' = ToOpen /\ ToStart' = ToStart
    BY <1>1, <1>3, <1>4 DEF Opening, Starting, ToOpen, ToStart
  <2>2. Opening' + ToOpen' <= Opening + ToOpen /\ Starting' + ToStart' <= Starting + ToStart
    BY <2>1, InIInv, Numbers
  <2> QED
    BY <1>1, <1>3, <1>4, <2>2, InIInv, CountsMoved
<1> QED
  BY <1>5, <1>7, <1>8, <1>9, <1>10, <1>11 DEF IInv

LEMMA NotReadyKeeps ==
    ASSUME IInv, NotReady
    PROVE  IInv'
<1> DEFINE c == [client EXCEPT !.closed = TRUE]
<1>1. /\ client.pc = "building" /\ Returned(c, "failed")
      /\ UNCHANGED <<service, mode, runs, upsets>>
  BY DEF NotReady, ClientFrame
<1>2. /\ c \in Client /\ c.attempt = client.attempt /\ c.resume = client.resume
      /\ c.run = client.run /\ c.opened = client.opened
  BY InIInv DEF Client
<1>3. "failed" \in Why
  BY DEF Why
<1> HIDE DEF c
<1> QED
  BY <1>1, <1>2, <1>3, InIInv, ReturnedKeeps

LEMMA RequestTimesOutKeeps ==
    ASSUME IInv, RequestTimesOut
    PROVE  IInv'
<1>1. /\ client.pc \in Asking /\ Failed(client) /\ UNCHANGED <<service, mode, runs, upsets>>
  BY DEF RequestTimesOut, ClientFrame
<1>2. client.pc # "idle"
  BY <1>1 DEF Asking
<1>3. client.pc = "interrupting" =>
        client.why \in {"timed out", "stalled"} /\ ToldToStop(client.run)
  BY InIInv DEF Ends, GaveUp
<1> QED
  BY <1>1, <1>2, <1>3, InIInv, FailedKeeps

LEMMA StopTurnKeeps ==
    ASSUME IInv, StopTurn
    PROVE  IInv'
<1> DEFINE why == IF clock.turn = TurnTimeout THEN "timed out" ELSE "stalled"
           c == [client EXCEPT !.pc = "interrupting", !.why = why]
<1>1. /\ client.pc = "reading" /\ Sends(c, "interrupting", inbox)
      /\ UNCHANGED <<service, mode, runs, upsets>>
  BY DEF StopTurn, Interrupts, ClientFrame
<1>2. why \in Why /\ why \in {"timed out", "stalled"}
  BY DEF Why
<1> HIDE DEF why
<1>3. /\ c \in Client /\ c.attempt = client.attempt /\ c.resume = client.resume
      /\ c.run = client.run /\ c.opened = client.opened /\ c.closed = client.closed
      /\ c.pc = "interrupting" /\ c.why = why
  BY <1>2, InIInv DEF Client, Asking
<1> HIDE DEF c
<1>4. MaySend(c, "interrupting")
  BY <1>1, <1>2, <1>3, InIInv DEF MaySend, Asked, Started
<1>5. Rests(inbox)
  BY <1>1, InIInv, LenProperties DEF Rests, Mail
<1> QED
  BY <1>1, <1>3, <1>4, <1>5, SendsKeeps

LEMMA AnsweredKeeps ==
    ASSUME IInv, Answered
    PROVE  IInv'
<1> DEFINE msg == Head(inbox)
<1>1. /\ client.pc \in Asking /\ inbox # <<>> /\ msg.m = "reply"
      /\ UNCHANGED <<service, mode, runs, upsets>>
  BY DEF Answered, ClientFrame
<1>2. /\ msg \in Message /\ Says(msg) /\ server.asked.kind = "none"
  <2>1. msg = inbox[1] /\ 1 \in 1..Len(inbox) /\ msg \in Message
    BY <1>1, InIInv, Taken
  <2>2. \A i \in 1..Len(inbox) : Says(inbox[i])
    BY InIInv DEF Mail
  <2>3. Says(msg)
    BY <2>1, <2>2
  <2> HIDE DEF msg
  <2>4. server.asked.kind = "none"
    BY <1>1, <2>3 DEF Says
  <2> QED
    BY <2>1, <2>3, <2>4
<1>3. Rests(Tail(inbox))
  <2>1. /\ Tail(inbox) \in Seq(Message) /\ Len(Tail(inbox)) <= Len(inbox)
        /\ \A i \in 1..Len(Tail(inbox)) : Tail(inbox)[i].m # "reply"
        /\ \A i \in 1..Len(Tail(inbox)) : \E j \in 2..Len(inbox) : Tail(inbox)[i] = inbox[j]
    BY <1>1, InIInv, Taken DEF Mail
  <2>2. 2..Len(inbox) \subseteq 1..Len(inbox)
    OBVIOUS
  <2> QED
    BY <2>1, <2>2 DEF Rests
<1>4. msg.thread \in Id /\ msg.turn \in Id
  BY <1>2 DEF Message
<1>5. client.pc # "idle"
  BY <1>1 DEF Asking
<1>6. CASE client.pc = "initializing"
  <2> DEFINE x == OrKnown(client.resume, client.run.thread)
             c == [client EXCEPT !.run.thread = x]
  <2>1. Sends(c, "opening", Tail(inbox))
    BY <1>6 DEF Answered
  <2>2. /\ x \in Id
        /\ x = IF client.resume = NoId THEN client.run.thread ELSE client.resume
    BY InIInv, ClientFields DEF OrKnown
  <2> HIDE DEF x
  <2>3. /\ c \in Client /\ c.attempt = client.attempt /\ c.resume = client.resume
        /\ c.run.thread = x /\ c.opened = client.opened /\ c.closed = client.closed
        /\ c.pc = client.pc /\ c.why = client.why
    <3>1. [client.run EXCEPT !.thread = x] \in RunState
          /\ [client.run EXCEPT !.thread = x].thread = x
      BY <2>2, InIInv, ClientFields DEF RunState
    <3>2. c = [client EXCEPT !.run = [client.run EXCEPT !.thread = x]]
      BY InIInv DEF Client
    <3> QED
      BY <3>1, <3>2, InIInv DEF Client
  <2> HIDE DEF c
  <2>4. Knows(c.run, c.opened)
    BY <2>2, <2>3, InIInv DEF Knows, Threads, Known
  <2>5. MaySend(c, "opening")
    BY <1>2, <1>6, <2>3, <2>4, InIInv DEF MaySend, Ends
  <2> QED
    BY <1>1, <1>3, <1>6, <2>1, <2>3, <2>5, SendsKeeps
<1>7. CASE client.pc = "opening"
  <2> DEFINE x == OrKnown(msg.thread, client.run.thread)
             c == [client EXCEPT !.run.thread = x, !.opened = TRUE]
  <2>1. Sends(c, "starting", Tail(inbox))
    BY <1>7 DEF Answered
  <2>2. x \in Id /\ x # NoId /\ Known(x)
    BY <1>1, <1>2, <1>4, <1>7 DEF OrKnown, Says
  <2> HIDE DEF x
  <2>3. /\ c \in Client /\ c.attempt = client.attempt /\ c.resume = client.resume
        /\ c.run.thread = x /\ c.opened = TRUE /\ c.closed = client.closed
        /\ c.pc = client.pc /\ c.why = client.why
    <3>1. [client.run EXCEPT !.thread = x] \in RunState
          /\ [client.run EXCEPT !.thread = x].thread = x
      BY <2>2, InIInv, ClientFields DEF RunState
    <3>2. c = [client EXCEPT !.run = [client.run EXCEPT !.thread = x], !.opened = TRUE]
      BY InIInv DEF Client
    <3> QED
      BY <3>1, <3>2, InIInv DEF Client
  <2> HIDE DEF c
  <2>4. Knows(c.run, c.opened)
    BY <2>2, <2>3 DEF Knows
  <2>5. MaySend(c, "starting")
    BY <1>2, <1>7, <2>2, <2>3, <2>4, InIInv DEF MaySend, Ends
  <2> QED
    BY <1>1, <1>3, <1>7, <2>1, <2>3, <2>5, SendsKeeps
<1>8. CASE client.pc = "starting"
  <2> DEFINE x == OrKnown(msg.turn, client.run.turn)
  <2>1. /\ client' = [client EXCEPT !.pc = "reading", !.run.turn = x]
        /\ inbox' = Tail(inbox) /\ clock' = [clock EXCEPT !.turn = 0]
        /\ UNCHANGED <<session, server, service, mode, runs, upsets>>
    BY <1>1, <1>8 DEF Answered
  <2>2. /\ x = msg.turn /\ x \in server.prompted
        /\ server.of[x] = client.run.thread /\ x \in Id
    <3>1. msg.turn \in server.prompted /\ server.of[msg.turn] = client.run.thread
      BY <1>1, <1>2, <1>8 DEF Says
    <3>2. msg.turn # NoId
      BY <3>1, InIInv, ServerFields, Names
    <3> QED
      BY <1>4, <3>1, <3>2 DEF OrKnown
  <2> HIDE DEF x
  <2>3. /\ client' \in Client /\ client'.pc = "reading"
        /\ client'.run.thread = client.run.thread /\ client'.run.turn = x
        /\ client'.attempt = client.attempt /\ client'.resume = client.resume
        /\ client'.opened = client.opened /\ client'.closed = client.closed
        /\ client'.why = client.why
    <3>1. /\ [client.run EXCEPT !.turn = x] \in RunState
          /\ [client.run EXCEPT !.turn = x].turn = x
          /\ [client.run EXCEPT !.turn = x].thread = client.run.thread
      BY <2>2, InIInv, ClientFields DEF RunState
    <3>2. client' = [client EXCEPT !.pc = "reading",
                                   !.run = [client.run EXCEPT !.turn = x]]
      BY <2>1, InIInv DEF Client
    <3> QED
      BY <3>1, <3>2, InIInv DEF Client
  <2>4. TypeOK'
    <3>1. clock' \in [asked : 0 .. ReadTimeout, turn : 0 .. TurnTimeout,
                      quiet : 0 .. StallTimeout]
      BY <2>1, InIInv, ClockReset DEF TypeOK
    <3>2. inbox' \in Seq(Message) /\ Len(inbox') <= MaxInbox + 2
      BY <2>1, <1>3, InIInv, LenProperties, CodexBounds, SMTT(30) DEF Rests, TypeOK
    <3> QED
      BY <2>1, <2>3, <3>1, <3>2, InIInv, Typed, TypedNext
  <2>5. Used' = Used /\ \A y : Known(y)' <=> Known(y)
    BY <2>1 DEF Used, Known
  <2>6. Threads' /\ TurnsBegan'
    BY <2>1, <2>3, <2>5, InIInv DEF Threads, TurnsBegan, Knows
  <2>7. Asked' /\ Started' /\ Ends'
    BY <1>2, <1>8, <2>1, <2>2, <2>3, InIInv
       DEF Asked, Started, Ends, HasTurn, Idle, GaveUp, Asking
  <2>8. Mail'
    <3>1. ASSUME NEW i \in 1..Len(inbox')
          PROVE  Says(inbox[i])' /\ inbox'[i].m # "reply"
      <4>1. PICK j \in 1..Len(inbox) : inbox'[i] = inbox[j] /\ inbox'[i].m # "reply"
        BY <1>3, <2>1 DEF Rests
      <4>2. Says(inbox[j])
        BY InIInv DEF Mail
      <4> QED
        BY <2>1, <2>5, <4>1, <4>2 DEF Says
    <3>2. OneReply(inbox)'
      BY <3>1 DEF OneReply
    <3>3. Len(inbox') \in Nat /\ Len(inbox) \in Nat /\ Len(inbox') <= Len(inbox)
      BY <1>3, <2>1, InIInv, LenProperties DEF Rests
    <3>4. /\ server'.link = "open" => Len(inbox') <= MaxInbox
          /\ server'.link = "breaking" => Len(inbox') <= MaxInbox + 1
      BY <2>1, <3>3, InIInv, CodexBounds DEF Mail
    <3>5. ~Idle'
      BY <2>3 DEF Idle
    <3> QED
      BY <3>1, <3>2, <3>4, <3>5 DEF Mail
  <2>9. Counts'
    <3>1. ToOpen' <= ToOpen /\ ToStart' <= ToStart
      <4>1. ToOpen' = 0 /\ ToStart' = 0
        BY <2>3 DEF ToOpen, ToStart
      <4> QED
        BY <4>1, InIInv, Numbers
    <3> QED
      BY <1>5, <2>1, <2>3, <3>1, InIInv, CountsKept
  <2> QED
    BY <2>4, <2>6, <2>7, <2>8, <2>9 DEF IInv
<1>9. CASE client.pc = "interrupting"
  <2>1. Failed(client)
    BY <1>9 DEF Answered
  <2>2. client.why \in {"timed out", "stalled"} /\ ToldToStop(client.run)
    BY <1>9, InIInv DEF Ends, GaveUp
  <2> QED
    BY <1>1, <1>5, <2>1, <2>2, InIInv, FailedKeeps
<1> QED
  BY <1>1, <1>6, <1>7, <1>8, <1>9 DEF Asking
------------------------------------------------------------------------------
\* A message is taken.

LEMMA ToldFields ==
    ASSUME NEW msg \in Message, NEW run \in RunState, Says(msg), server \in Server
    PROVE  /\ Told(msg, run) \in RunState
           /\ run.thread # NoId => Told(msg, run).thread = run.thread
           /\ run.turn # NoId => Told(msg, run).turn = run.turn
           /\ \/ Told(msg, run).thread = run.thread
              \/ Told(msg, run).thread = Stranger
              \/ Told(msg, run).thread \in server.threads
           /\ Told(msg, run).output \subseteq run.output \cup {msg.turn}
           /\ run.turn # NoId =>
                Told(msg, run).output \subseteq run.output \cup {run.turn}
<1>1. msg.thread \in Id /\ msg.turn \in Id
  BY DEF Message
<1>2. /\ run.thread \in Id /\ run.turn \in Id /\ run.output \in SUBSET Id
  BY DEF RunState
<1>3. Stranger # NoId /\ NoId \notin Used /\ NoId \notin server.threads
  BY Names, ServerFields DEF Used
<1>4. CASE ~Matches(msg, run)
  <2>1. Told(msg, run) = run
    BY <1>4 DEF Told
  <2> QED
    BY <2>1
<1>5. CASE Matches(msg, run) /\ msg.m = "thread started"
  <2>1. Told(msg, run) = [run EXCEPT !.thread = msg.thread]
    BY <1>5 DEF Told
  <2>2. run.thread # NoId => msg.thread = run.thread \/ msg.thread = NoId
    BY <1>5 DEF Matches
  <2>3. msg.thread = Stranger \/ msg.thread \in server.threads
    BY <1>5 DEF Says
  <2>4. Told(msg, run) \in RunState /\ Told(msg, run).thread = msg.thread
        /\ Told(msg, run).turn = run.turn /\ Told(msg, run).output = run.output
    BY <1>1, <2>1 DEF RunState
  <2>5. msg.thread # NoId
    BY <1>3, <2>3
  <2> QED
    BY <2>2, <2>3, <2>4, <2>5
<1>6. CASE Matches(msg, run) /\ msg.m \in {"turn started", "completed", "turn failed"}
  <2>1. Told(msg, run) = [run EXCEPT !.turn = msg.turn]
    BY <1>6 DEF Told
  <2>2. msg.turn # NoId
    BY <1>3, <1>6 DEF Says
  <2>3. run.turn # NoId => msg.turn = run.turn
    BY <1>6, <2>2 DEF Matches
  <2>4. Told(msg, run) \in RunState /\ Told(msg, run).thread = run.thread
        /\ Told(msg, run).turn = msg.turn /\ Told(msg, run).output = run.output
    BY <1>1, <2>1 DEF RunState
  <2> QED
    BY <2>3, <2>4
<1>7. CASE Matches(msg, run) /\ msg.m = "delta"
  <2>1. Told(msg, run) = [run EXCEPT !.output = @ \cup {msg.turn}]
    BY <1>7 DEF Told
  <2>2. msg.turn # NoId
    BY <1>3, <1>7 DEF Says
  <2>3. run.turn # NoId => msg.turn = run.turn
    BY <1>7, <2>2 DEF Matches
  <2>4. run.output \cup {msg.turn} \in SUBSET Id
    BY <1>1, <1>2
  <2>5. Told(msg, run) \in RunState /\ Told(msg, run).thread = run.thread
        /\ Told(msg, run).turn = run.turn
        /\ Told(msg, run).output = run.output \cup {msg.turn}
    BY <2>1, <2>4 DEF RunState
  <2> QED
    BY <2>3, <2>5
<1>8. CASE /\ Matches(msg, run)
           /\ msg.m \notin {"thread started", "turn started", "completed",
                            "turn failed", "delta"}
  <2>1. Told(msg, run) = run
    BY <1>8 DEF Told
  <2> QED
    BY <2>1
<1> QED
  BY <1>4, <1>5, <1>6, <1>7, <1>8

LEMMA ToldKnows ==
    ASSUME IInv, NEW msg \in Message, Says(msg)
    PROVE  Knows(Told(msg, client.run), client.opened)
<1> DEFINE run == Told(msg, client.run)
<1>1. client.run \in RunState
  BY InIInv, ClientFields
<1>2. /\ client.run.thread # NoId => run.thread = client.run.thread
      /\ \/ run.thread = client.run.thread
         \/ run.thread = Stranger
         \/ run.thread \in server.threads
  BY <1>1, InIInv, ToldFields
<1>3. Knows(client.run, client.opened)
  BY InIInv
<1> HIDE DEF run
<1> QED
  BY <1>2, <1>3 DEF Knows, Known, run

\* The message that is taken, and the run as it leaves it.
LEMMA TakesFields ==
    ASSUME IInv, inbox # <<>>, NEW msg, msg = Head(inbox), NEW c,
           c = [client EXCEPT !.run = Told(msg, client.run)]
    PROVE  /\ msg \in Message /\ Says(msg)
           /\ c \in Client /\ c.run = Told(msg, client.run)
           /\ c.attempt = client.attempt /\ c.resume = client.resume /\ c.pc = client.pc
           /\ c.why = client.why /\ c.opened = client.opened /\ c.closed = client.closed
           /\ Knows(c.run, c.opened)
           /\ client.run.thread # NoId => c.run.thread = client.run.thread
           /\ client.run.turn # NoId => c.run.turn = client.run.turn
<1>1. msg \in Message /\ Says(msg)
  <2>1. msg = inbox[1] /\ 1 \in 1..Len(inbox) /\ msg \in Message
    BY InIInv, Taken
  <2>2. \A i \in 1..Len(inbox) : Says(inbox[i])
    BY InIInv DEF Mail
  <2> QED
    BY <2>1, <2>2
<1>2. client.run \in RunState
  BY InIInv, ClientFields
<1> DEFINE run == Told(msg, client.run)
<1>3. /\ run \in RunState
      /\ client.run.thread # NoId => run.thread = client.run.thread
      /\ client.run.turn # NoId => run.turn = client.run.turn
  BY <1>1, <1>2, InIInv, ToldFields
<1>4. Knows(run, client.opened)
  BY <1>1, ToldKnows
<1> HIDE DEF run
<1>5. /\ c \in Client /\ c.run = run
      /\ c.attempt = client.attempt /\ c.resume = client.resume /\ c.pc = client.pc
      /\ c.why = client.why /\ c.opened = client.opened /\ c.closed = client.closed
  <2>1. c = [client EXCEPT !.run = run] /\ client \in Client
    BY InIInv DEF run
  <2> QED
    BY <1>3, <2>1 DEF Client
<1> QED
  BY <1>1, <1>3, <1>4, <1>5 DEF run

\* The turn that a run waits for is known by its id.
LEMMA TurnKnown ==
    ASSUME IInv, NEW run, HasTurn(run)
    PROVE  run.turn \in Own /\ run.turn # NoId /\ run.turn \in Used
  BY InIInv, ServerFields, Names DEF HasTurn, TurnsBegan

LEMMA TakenKeeps ==
    ASSUME IInv, inbox # <<>>, client.pc \notin {"idle", "building"}, NEW c \in Client,
           c.attempt = client.attempt, c.resume = client.resume, c.pc = client.pc,
           c.why = client.why, c.opened = client.opened, c.closed = client.closed,
           Knows(c.run, c.opened),
           client.run.thread # NoId => c.run.thread = client.run.thread,
           client.run.turn # NoId => c.run.turn = client.run.turn,
           client' = c, inbox' = Tail(inbox), Progress(c.run, c.opened),
           UNCHANGED <<service, mode, clock, runs, server, upsets>>
    PROVE  IInv'
<1>1. /\ service \in Service /\ mode \in Modes /\ client \in Client /\ server \in Server
      /\ session \in [thread : Id, strayed : BOOLEAN]
      /\ session.strayed => session.thread # NoId
      /\ runs \in 0 .. MaxRuns /\ runs \in Nat /\ upsets \in 0 .. MaxUpsets
      /\ inbox \in Seq(Message) /\ TypeOK
  BY TypedFields, InIInv
<1>2. /\ session' \in [thread : Id, strayed : BOOLEAN]
      /\ session'.strayed => session'.thread # NoId
      /\ session.strayed => session'.strayed
      /\ session'.thread # NoId => Known(session.thread)'
  <2>1. c.run \in RunState /\ c.opened \in BOOLEAN
    BY ClientFields
  <2>2. session.thread # NoId => Known(session.thread)
    BY InIInv DEF Threads
  <2>3. Recorded(c.run, c.opened) \/ UNCHANGED session
    BY DEF Progress
  <2> QED
    BY <1>1, <2>1, <2>2, <2>3, RecordedFields DEF Known
<1>3. /\ Tail(inbox) \in Seq(Message) /\ Len(Tail(inbox)) <= Len(inbox)
      /\ \A i \in 1..Len(Tail(inbox)) : \E j \in 2..Len(inbox) : Tail(inbox)[i] = inbox[j]
      /\ OneReply(Tail(inbox))
  BY <1>1, InIInv, Taken DEF Mail
<1>4. Len(inbox') \in Nat /\ Len(inbox) \in Nat /\ Len(inbox') <= Len(inbox)
  BY <1>1, <1>3, LenProperties
<1>5. TypeOK'
  <2>1. Len(inbox') <= MaxInbox + 2
    <3>1. Len(inbox) <= MaxInbox + 2 /\ MaxInbox \in Nat
      BY <1>1, Typed, CodexBounds
    <3> QED
      BY <1>4, <3>1
  <2> QED
    BY <1>1, <1>2, <1>3, <2>1, Typed, TypedNext
<1>6. Used' = Used /\ \A x : Known(x) => Known(x)'
  BY <1>2 DEF Used, Known
<1>7. Threads'
  BY <1>2, <1>6, InIInv DEF Threads, Knows
<1>8. TurnsBegan'
  BY <1>6, InIInv DEF TurnsBegan
<1>9. client.pc \in {"reading", "interrupting"} =>
        client'.run.turn = client.run.turn /\ client'.run.thread = client.run.thread
  BY InIInv, TurnKnown DEF Started
<1>10. client.pc = "starting" => client'.run.thread = client.run.thread
  BY InIInv DEF Started
<1>11. client'.pc = client.pc /\ client'.why = client.why /\ client'.opened = client.opened
       /\ client'.closed = client.closed /\ client'.attempt = client.attempt
  OBVIOUS
<1>12. Asked' /\ Started'
  <2>1. Asked'
    BY <1>10, <1>11, InIInv DEF Asked
  <2>2. Started'
    BY <1>9, <1>10, <1>11, InIInv DEF Started, HasTurn
  <2> QED
    BY <2>1, <2>2
<1>13. Mail'
  <2>1. ASSUME NEW i \in 1..Len(inbox')
        PROVE  /\ Says(inbox[i])'
               /\ client'.pc = "reading" => inbox'[i].m # "reply"
    <3>1. PICK j \in 2..Len(inbox) : inbox'[i] = inbox[j]
      BY <1>3
    <3>2. j \in 1..Len(inbox)
      BY <1>4
    <3>3. Says(inbox[j]) /\ (client.pc = "reading" => inbox[j].m # "reply")
      BY <3>2, InIInv DEF Mail
    <3> QED
      BY <1>6, <1>10, <1>11, <3>1, <3>3 DEF Says
  <2>2. ~Idle'
    BY <1>11 DEF Idle
  <2>3. /\ server'.link = "open" => Len(inbox') <= MaxInbox
        /\ server'.link = "breaking" => Len(inbox') <= MaxInbox + 1
    BY <1>4, InIInv, CodexBounds DEF Mail
  <2>4. OneReply(inbox)'
    BY <1>3 DEF OneReply
  <2> QED
    BY <2>1, <2>2, <2>3, <2>4 DEF Mail
<1>14. Ends'
  <2>1. client.pc = "interrupting" => ToldToStop(client.run)'
    BY <1>6, <1>9, InIInv DEF Ends, GaveUp, ToldToStop
  <2> QED
    BY <1>11, <2>1, InIInv DEF Ends, GaveUp, Idle
<1>15. Counts'
  <2>1. ToOpen' = ToOpen /\ ToStart' = ToStart /\ Opening' = Opening /\ Starting' = Starting
    BY <1>11 DEF ToOpen, ToStart, Opening, Starting
  <2> QED
    BY <1>6, <1>11, <2>1, InIInv DEF Counts
<1> QED
  BY <1>5, <1>7, <1>8, <1>12, <1>13, <1>14, <1>15 DEF IInv

LEMMA TakesKeeps ==
    ASSUME IInv, Takes
    PROVE  IInv'
<1> DEFINE msg == Head(inbox)
           c == [client EXCEPT !.run = Told(msg, client.run)]
<1>1. /\ inbox # <<>> /\ client.pc \notin {"idle", "building"}
      /\ UNCHANGED <<service, mode, runs, upsets>>
  BY DEF Takes, ClientFrame
<1>2. /\ msg \in Message /\ Says(msg)
      /\ c \in Client /\ c.run = Told(msg, client.run)
      /\ c.attempt = client.attempt /\ c.resume = client.resume /\ c.pc = client.pc
      /\ c.why = client.why /\ c.opened = client.opened /\ c.closed = client.closed
      /\ Knows(c.run, c.opened)
      /\ client.run.thread # NoId => c.run.thread = client.run.thread
      /\ client.run.turn # NoId => c.run.turn = client.run.turn
  BY <1>1, TakesFields
<1>3. client.pc \in {"reading", "interrupting"} =>
        c.run.turn = client.run.turn /\ c.run.thread = client.run.thread
  BY <1>2, InIInv, TurnKnown DEF Started
<1>4. \/ Failed(c)
      \/ /\ client.pc = "reading" /\ msg.m = "completed" /\ Matches(msg, client.run)
         /\ Returned(c, "ok")
      \/ /\ client' = c /\ inbox' = Tail(inbox) /\ UNCHANGED <<clock, server>>
         /\ Progress(c.run, c.opened)
  BY DEF Takes
<1> HIDE DEF c, msg
<1>5. CASE Failed(c)
  <2>1. c.pc = "interrupting" => c.why \in {"timed out", "stalled"} /\ ToldToStop(c.run)
    BY <1>2, <1>3, InIInv DEF Ends, GaveUp, ToldToStop
  <2> QED
    BY <1>1, <1>2, <1>5, <2>1, FailedKeeps
<1>6. CASE /\ client.pc = "reading" /\ msg.m = "completed" /\ Matches(msg, client.run)
           /\ Returned(c, "ok")
  <2>1. HasTurn(client.run) /\ client.run.thread # NoId
    BY <1>6, InIInv DEF Started
  <2>2. client.run.turn # NoId /\ msg.turn # NoId
    BY <1>2, <1>6, <2>1, TurnKnown, Names DEF Says, Used
  <2>3. msg.turn = client.run.turn
    BY <1>6, <2>2 DEF Matches
  <2>4. HasResult(c.run)
    BY <1>2, <1>3, <1>6, <2>1, <2>3 DEF HasResult, HasTurn, Says
  <2>5. "ok" \in Why
    BY DEF Why
  <2> QED
    BY <1>1, <1>2, <1>6, <2>4, <2>5, ReturnedKeeps
<1>7. CASE /\ client' = c /\ inbox' = Tail(inbox) /\ UNCHANGED <<clock, server>>
           /\ Progress(c.run, c.opened)
  BY <1>1, <1>2, <1>7, TakenKeeps
<1> QED
  BY <1>4, <1>5, <1>6, <1>7

LEMMA KilledKeeps ==
    ASSUME IInv, Killed
    PROVE  IInv'
<1> DEFINE c == [client EXCEPT !.closed = TRUE]
<1>1. /\ client.pc # "idle" /\ upsets < MaxUpsets /\ upsets' = upsets + 1
      /\ client' = [client EXCEPT !.pc = "idle", !.why = "none", !.closed = TRUE]
      /\ server' \in {Closed(server), [server EXCEPT !.link = "ended"]}
      /\ inbox' = <<>> /\ clock' = Quiet /\ UNCHANGED <<service, mode, session, runs>>
  BY DEF Killed
<1>2. /\ c \in Client /\ c.attempt = client.attempt /\ c.resume = client.resume
      /\ c.run = client.run /\ c.opened = client.opened
      /\ client' = [c EXCEPT !.pc = "idle", !.why = "none"]
  BY <1>1, InIInv DEF Client
<1>3. "none" \in Why
  BY DEF Why
<1>4. upsets' \in 0 .. MaxUpsets
  BY <1>1, InIInv, TypedFields, CodexBounds
<1> HIDE DEF c
<1> QED
  BY <1>1, <1>2, <1>3, <1>4, InIInv, OverKeeps
------------------------------------------------------------------------------
\* What the steps beside the run's own leave alone, and what they only add to.
Grows ==
    /\ client' \in Client /\ server' \in Server
    /\ client'.pc = client.pc /\ client'.run = client.run
    /\ client'.resume = client.resume /\ client'.attempt = client.attempt
    /\ client'.why = client.why /\ client'.opened = client.opened
    /\ client.pc = "building" => client'.closed = client.closed
    /\ client'.closed => client.closed \/ server'.link # "open"
    /\ UNCHANGED <<mode, session, runs>>
    /\ server.threads \subseteq server'.threads
    /\ \A t \in Used : server'.of[t] = server.of[t]
    /\ server.prompted \subseteq server'.prompted
    /\ server'.prompted \cap Used \subseteq server.prompted
    /\ server.completed \subseteq server'.completed
    /\ server'.link = "open" => server.link = "open"
    /\ server'.link = "breaking" => server.link \in {"open", "breaking"}

\* What they add to the queue, and for whom.
Hears ==
    \/ inbox' = inbox
    \/ \E msg \in Message :
         /\ inbox' = Append(inbox, msg) /\ ~Idle /\ Says(msg)'
         /\ msg.m = "reply" => server.asked.kind # "none" /\ client.pc # "reading"
         /\ server'.link = "open" => Len(inbox) < MaxInbox
         /\ server'.link = "breaking" => Len(inbox) <= MaxInbox
         /\ Len(inbox) <= MaxInbox + 1

LEMMA GrowsKeeps ==
    ASSUME IInv, Grows
    PROVE  /\ Used \subseteq Used' /\ \A x : Known(x) => Known(x)'
           /\ \A run : HasTurn(run) => HasTurn(run)'
           /\ \A run : HasResult(run) => HasResult(run)'
           /\ Started'
           /\ ToOpen' = ToOpen /\ ToStart' = ToStart
           /\ \A msg : /\ Says(msg) /\ (msg.m = "reply" => server'.asked.kind = "none")
                       => Says(msg)'
<1>1. Used \subseteq Used'
  <2> SUFFICES ASSUME NEW t \in Used
               PROVE  t \in Used'
    OBVIOUS
  <2>1. t \in Own /\ server.of[t] # NoId /\ server'.of[t] = server.of[t]
    BY DEF Used, Grows
  <2> QED
    BY <2>1 DEF Used
<1>2. \A x : Known(x) => Known(x)'
  BY DEF Known, Grows
<1>3. \A t \in server.prompted : t \in Used /\ t \in server'.prompted /\ server'.of[t] = server.of[t]
  BY InIInv DEF TurnsBegan, Grows
<1>4. \A run : HasTurn(run) => HasTurn(run)'
  BY <1>3 DEF HasTurn
<1>5. \A run : HasResult(run) => HasResult(run)'
  BY <1>4 DEF HasResult, Grows
<1>6. Started'
  <2>1. client'.pc = client.pc /\ client'.run = client.run /\ client'.opened = client.opened
    BY DEF Grows
  <2>2. /\ client.pc \in {"starting", "reading", "interrupting"} =>
             client.run.thread # NoId /\ client.opened
        /\ client.pc \in {"reading", "interrupting"} => HasTurn(client.run)'
    BY <1>4, InIInv, <2>1 DEF Started, HasTurn
  <2> QED
    BY <2>1, <2>2 DEF Started
<1>7. ToOpen' = ToOpen /\ ToStart' = ToStart
  BY DEF Grows, ToOpen, ToStart
<1>8. ASSUME NEW msg, Says(msg), msg.m = "reply" => server'.asked.kind = "none"
      PROVE  Says(msg)'
  <2>1. msg.m = "thread started" => msg.thread = Stranger \/ msg.thread \in server'.threads
    BY <1>8 DEF Says, Grows
  <2>2. msg.m \in {"turn started", "delta", "completed", "turn failed"} =>
          (msg.turn = Stranger \/ msg.turn \in Used') /\ msg.thread # NoId
    BY <1>1, <1>8 DEF Says
  <2>3. msg.m = "completed" /\ msg.turn \in server'.prompted => msg.turn \in server'.completed
    <3>1. Stranger \notin server'.prompted
      BY Names, ServerFields DEF Grows
    <3> QED
      BY <1>8, <3>1 DEF Says, Grows
  <2>4. msg.m = "reply" =>
          /\ server'.asked.kind = "none"
          /\ client.pc = "opening" => msg.thread # NoId /\ Known(msg.thread)'
          /\ client.pc = "starting" =>
               msg.turn \in server'.prompted /\ server'.of[msg.turn] = client.run.thread
    BY <1>2, <1>3, <1>8 DEF Says
  <2>5. client'.pc = client.pc /\ client'.run = client.run
    BY DEF Grows
  <2> QED
    BY <2>1, <2>2, <2>3, <2>4, <2>5 DEF Says
<1> QED
  BY <1>1, <1>2, <1>4, <1>5, <1>6, <1>7, <1>8

LEMMA HearsKeeps ==
    ASSUME IInv, Grows, Hears, server.asked.kind = "none" => server'.asked.kind = "none"
    PROVE  Mail' /\ inbox' \in Seq(Message) /\ Len(inbox') <= MaxInbox + 2
<1>1. /\ inbox \in Seq(Message) /\ Len(inbox) \in Nat /\ MaxInbox \in Nat
      /\ Len(inbox) <= MaxInbox + 2
  BY InIInv, LenProperties, CodexBounds DEF TypeOK
<1>2. \A msg : (\E i \in 1..Len(inbox) : msg = inbox[i]) => Says(msg)'
  <2> SUFFICES ASSUME NEW msg, NEW i \in 1..Len(inbox), msg = inbox[i]
               PROVE  Says(msg)'
    OBVIOUS
  <2>1. Says(msg)
    BY InIInv DEF Mail
  <2>2. msg.m = "reply" => server'.asked.kind = "none"
    BY <2>1 DEF Says
  <2> QED
    BY <2>1, <2>2, GrowsKeeps
<1>3. client'.pc = client.pc
  BY DEF Grows
<1>4. /\ OneReply(inbox)
      /\ client.pc = "reading" => \A i \in 1..Len(inbox) : inbox[i].m # "reply"
      /\ Idle => inbox = <<>>
      /\ server.link = "open" => Len(inbox) <= MaxInbox
      /\ server.link = "breaking" => Len(inbox) <= MaxInbox + 1
  BY InIInv DEF Mail
<1>5. CASE inbox' = inbox
  <2>1. /\ server'.link = "open" => Len(inbox) <= MaxInbox
        /\ server'.link = "breaking" => Len(inbox) <= MaxInbox + 1
    BY <1>1, <1>4 DEF Grows
  <2>2. \A i \in 1..Len(inbox') : Says(inbox[i])'
    BY <1>2, <1>5
  <2>3. Idle' => inbox' = <<>>
    BY <1>3, <1>4, <1>5 DEF Idle
  <2>4. OneReply(inbox)'
    BY <1>4, <1>5 DEF OneReply
  <2> QED
    BY <1>1, <1>3, <1>4, <1>5, <2>1, <2>2, <2>3, <2>4 DEF Mail
<1>6. CASE inbox' # inbox
  <2>1. PICK msg \in Message :
          /\ inbox' = Append(inbox, msg) /\ ~Idle /\ Says(msg)'
          /\ msg.m = "reply" => server.asked.kind # "none" /\ client.pc # "reading"
          /\ server'.link = "open" => Len(inbox) < MaxInbox
          /\ server'.link = "breaking" => Len(inbox) <= MaxInbox
          /\ Len(inbox) <= MaxInbox + 1
    BY <1>6 DEF Hears
  <2>2. /\ inbox' \in Seq(Message) /\ Len(inbox') = Len(inbox) + 1
        /\ \A i \in 1..Len(inbox') :
             \/ inbox'[i] = msg
             \/ i \in 1..Len(inbox) /\ inbox'[i] = inbox[i]
        /\ OneReply(inbox) /\ msg.m # "reply" => OneReply(Append(inbox, msg))
        /\ (\A i \in 1..Len(inbox) : inbox[i].m # "reply") => OneReply(Append(inbox, msg))
    BY <1>1, <2>1, Appended
  <2>3. msg.m = "reply" => \A i \in 1..Len(inbox) : inbox[i].m # "reply"
    <3>1. \A i \in 1..Len(inbox) : Says(inbox[i])
      BY InIInv DEF Mail
    <3>2. \A i \in 1..Len(inbox) : inbox[i].m = "reply" => server.asked.kind = "none"
      BY <3>1 DEF Says
    <3> QED
      BY <2>1, <3>2
  <2>4. OneReply(inbox)'
    BY <1>4, <2>1, <2>2, <2>3 DEF OneReply
  <2>5. \A i \in 1..Len(inbox') : Says(inbox[i])'
    BY <1>2, <2>1, <2>2
  <2>6. client'.pc = "reading" => \A i \in 1..Len(inbox') : inbox'[i].m # "reply"
    BY <1>3, <1>4, <2>1, <2>2
  <2>7. ~Idle'
    BY <1>3, <2>1 DEF Idle
  <2>8. /\ server'.link = "open" => Len(inbox') <= MaxInbox
        /\ server'.link = "breaking" => Len(inbox') <= MaxInbox + 1
        /\ Len(inbox') <= MaxInbox + 2
    BY <1>1, <2>1, <2>2
  <2> QED
    BY <2>2, <2>4, <2>5, <2>6, <2>7, <2>8 DEF Mail
<1> QED
  BY <1>5, <1>6

LEMMA Fewer ==
    ASSUME NEW o \in 0..1, NEW p \in 0..1, NEW b \in 0..1, p <= o
    PROVE  p + b <= o + b
  OBVIOUS

LEMMA TypesKept ==
    ASSUME IInv, Grows, service' \in Service, upsets' \in 0 .. MaxUpsets,
           clock' \in [asked : 0 .. ReadTimeout, turn : 0 .. TurnTimeout,
                       quiet : 0 .. StallTimeout],
           inbox' \in Seq(Message), Len(inbox') <= MaxInbox + 2
    PROVE  TypeOK'
<1>1. /\ mode \in Modes /\ session \in [thread : Id, strayed : BOOLEAN]
      /\ session.strayed => session.thread # NoId
      /\ runs \in 0 .. MaxRuns
  BY InIInv, TypedFields
<1> QED
  BY <1>1, TypedNext DEF Grows

\* A request is left as it is, refused, or over.
Settles ==
    \/ server'.asked = server.asked
    \/ server.asked.kind \in Asking /\ server'.asked = [server.asked EXCEPT !.kind = "refused"]
    \/ /\ server'.asked = NoRequest
       /\ \/ server'.running = {}
          \/ /\ server.asked.kind \in Asking
             /\ server.asked.kind = "interrupting" => server.asked.turn \notin server'.running

LEMMA SettlesFields ==
    ASSUME server \in Server, Settles
    PROVE  /\ \/ server'.asked = server.asked
              \/ /\ server.asked.kind \in Asking /\ server'.asked.kind = "refused"
                 /\ server'.asked.thread = server.asked.thread
                 /\ server'.asked.turn = server.asked.turn
              \/ /\ server'.asked.kind = "none" /\ server'.asked.thread = NoId
                 /\ \/ server'.running = {}
                    \/ /\ server.asked.kind \in Asking
                       /\ server.asked.kind = "interrupting" =>
                            server.asked.turn \notin server'.running
           /\ server.asked.kind = "none" => server'.asked.kind = "none"
           /\ Opening' \in 0..1 /\ Starting' \in 0..1
           /\ Opening' <= Opening /\ Starting' <= Starting
<1>1. NoRequest.kind = "none" /\ NoRequest.thread = NoId
  BY DEF NoRequest
<1>2. server.asked \in Request
  BY ServerFields
<1>3. CASE server'.asked = server.asked
  BY <1>3 DEF Opening, Starting
<1>4. CASE /\ server.asked.kind \in Asking
           /\ server'.asked = [server.asked EXCEPT !.kind = "refused"]
  <2>1. /\ server'.asked.kind = "refused" /\ server'.asked.thread = server.asked.thread
        /\ server'.asked.turn = server.asked.turn
    BY <1>2, <1>4 DEF Request
  <2> QED
    BY <1>4, <2>1 DEF Opening, Starting, Asking
<1>5. CASE /\ server'.asked = NoRequest
           /\ \/ server'.running = {}
              \/ /\ server.asked.kind \in Asking
                 /\ server.asked.kind = "interrupting" =>
                      server.asked.turn \notin server'.running
  BY <1>1, <1>5 DEF Opening, Starting
<1> QED
  BY <1>3, <1>4, <1>5 DEF Settles

LEMMA StopStill ==
    ASSUME server \in Server, Settles, ToldToStop(client.run), client'.run = client.run,
           Used \subseteq Used', server'.running \subseteq server.running,
           server'.link = "open" => server.link = "open"
    PROVE  ToldToStop(client.run)'
  BY SettlesFields DEF ToldToStop, Asking

LEMMA SettlesKeeps ==
    ASSUME IInv, Grows, Hears, Settles,
           server'.threads = server.threads, server'.of = server.of,
           server'.prompted = server.prompted, server'.running \subseteq server.running,
           service' \in Service, upsets' \in 0 .. MaxUpsets,
           clock' \in [asked : 0 .. ReadTimeout, turn : 0 .. TurnTimeout,
                       quiet : 0 .. StallTimeout]
    PROVE  IInv'
<1>1. /\ \/ server'.asked = server.asked
         \/ /\ server.asked.kind \in Asking /\ server'.asked.kind = "refused"
            /\ server'.asked.thread = server.asked.thread
            /\ server'.asked.turn = server.asked.turn
         \/ /\ server'.asked.kind = "none" /\ server'.asked.thread = NoId
            /\ \/ server'.running = {}
               \/ /\ server.asked.kind \in Asking
                  /\ server.asked.kind = "interrupting" =>
                       server.asked.turn \notin server'.running
      /\ server.asked.kind = "none" => server'.asked.kind = "none"
      /\ Opening' \in 0..1 /\ Starting' \in 0..1
      /\ Opening' <= Opening /\ Starting' <= Starting
  BY InIInv, SettlesFields
<1>2. /\ Used \subseteq Used' /\ \A x : Known(x) => Known(x)'
      /\ \A run : HasResult(run) => HasResult(run)'
      /\ Started' /\ ToOpen' = ToOpen /\ ToStart' = ToStart
  BY GrowsKeeps
<1>3. Mail' /\ inbox' \in Seq(Message) /\ Len(inbox') <= MaxInbox + 2
  BY <1>1, HearsKeeps
<1>4. TypeOK'
  BY <1>3, TypesKept
<1>5. /\ client'.pc = client.pc /\ client'.run = client.run
      /\ client'.resume = client.resume /\ client'.attempt = client.attempt
      /\ client'.why = client.why /\ client'.opened = client.opened
      /\ client.pc = "building" => client'.closed = client.closed
      /\ client'.closed => client.closed \/ server'.link # "open"
      /\ mode' = mode /\ session' = session /\ runs' = runs
      /\ server'.link = "open" => server.link = "open"
  BY DEF Grows
<1>6. Used' = Used
  BY DEF Used
<1>7. Threads'
  <2>1. /\ server'.asked.kind = "opening" /\ server'.asked.thread # NoId
             => Known(server.asked.thread)'
        /\ server'.asked.kind = "starting" => server'.asked.thread # NoId
    BY <1>1, <1>2, InIInv DEF Threads, Known
  <2>2. session'.thread # NoId => Known(session.thread)'
    BY <1>2, <1>5, InIInv DEF Threads
  <2>3. client'.resume # NoId => Known(client.resume)'
    BY <1>2, <1>5, InIInv DEF Threads
  <2>4. Knows(client.run, client.opened)'
    BY <1>2, <1>5, InIInv DEF Knows
  <2> QED
    BY <2>1, <2>2, <2>3, <2>4 DEF Threads
<1>8. TurnsBegan'
  BY <1>6, InIInv DEF TurnsBegan
<1>9. Asked'
  BY <1>1, <1>5, InIInv DEF Asked, Asking
<1>10. Ends'
  <2>1. GaveUp(client) => ToldToStop(client.run)'
    BY <1>2, <1>5, InIInv, StopStill DEF Ends
  <2>2. client.why = "ok" => HasResult(client.run)'
    BY <1>2, <1>5, InIInv DEF Ends
  <2>3. mode.profile = "managed" /\ client.pc = "idle" /\ client.why # "none" =>
          server'.running = {} /\ server'.asked.kind = "none"
    BY <1>1, InIInv DEF Ends
  <2>4. client'.closed /\ ~Idle' => server'.link # "open"
    BY <1>5, InIInv DEF Ends, Idle
  <2>5. /\ client'.pc = "building" => ~client'.closed
        /\ client'.pc \notin {"idle", "interrupting"} => client'.why = "none"
        /\ client'.pc = "interrupting" => client'.why \in {"timed out", "stalled"}
    BY <1>5, InIInv DEF Ends
  <2>6. GaveUp(client') <=> GaveUp(client)
    BY <1>5 DEF GaveUp
  <2> QED
    BY <1>5, <2>1, <2>2, <2>3, <2>4, <2>5, <2>6 DEF Ends
<1>11. Counts'
  <2> DEFINE most == IF client.pc = "idle" THEN 2 * runs ELSE 2 * runs - 1 + client.attempt
             tries == client.attempt + 1
  <2>1. /\ Cardinality(server.threads) + Opening + ToOpen <= most
        /\ Cardinality(Used) + Starting + ToStart <= most
        /\ Cardinality(server.prompted) + Starting + ToStart <= tries
        /\ client.pc # "idle" => runs # 0
    BY InIInv DEF Counts
  <2>2. most \in Int /\ tries \in Int
    <3>1. client.attempt \in Int /\ runs \in Int
      BY InIInv, ClientFields
    <3> QED
      BY <3>1
  <2> HIDE DEF most, tries
  <2>3. /\ Opening' + ToOpen <= Opening + ToOpen /\ Starting' + ToStart <= Starting + ToStart
        /\ most <= most /\ tries <= tries
    BY <1>1, <2>2, InIInv, Numbers, Fewer, SMTT(30)
  <2>4. Cardinality(server.threads) + Opening' + ToOpen <= most
    BY <1>1, <2>1, <2>2, <2>3, InIInv, Numbers, SumMoved
  <2>5. Cardinality(Used) + Starting' + ToStart <= most
    BY <1>1, <2>1, <2>2, <2>3, InIInv, Numbers, SumMoved
  <2>6. Cardinality(server.prompted) + Starting' + ToStart <= tries
    BY <1>1, <2>1, <2>2, <2>3, InIInv, Numbers, SumMoved
  <2> QED
    BY <1>2, <1>5, <1>6, <2>1, <2>4, <2>5, <2>6 DEF Counts, most, tries
<1> QED
  BY <1>2, <1>3, <1>4, <1>7, <1>8, <1>9, <1>10, <1>11 DEF IInv
------------------------------------------------------------------------------
\* The server's messages.

Kinds == {"reply", "refusal", "thread started", "turn started", "delta", "completed",
          "turn failed", "error", "approval", "asks", "protocol error", "EOF"}

LEMMA AboutTyped ==
    ASSUME NEW m \in Kinds, NEW thread \in Id, NEW turn \in Id
    PROVE  /\ About(m, thread, turn) \in Message
           /\ About(m, thread, turn).m = m
           /\ About(m, thread, turn).thread = thread
           /\ About(m, thread, turn).turn = turn
  BY DEF About, Message, Kinds

LEMMA PutHears ==
    ASSUME IInv, NEW msg \in Message, Put(msg), Says(msg)', server'.link = server.link,
           msg.m = "reply" => server.asked.kind # "none" /\ client.pc # "reading"
    PROVE  /\ Hears
           /\ clock' \in [asked : 0 .. ReadTimeout, turn : 0 .. TurnTimeout,
                          quiet : 0 .. StallTimeout]
<1>1. /\ clock \in [asked : 0 .. ReadTimeout, turn : 0 .. TurnTimeout,
                    quiet : 0 .. StallTimeout]
      /\ inbox \in Seq(Message) /\ Len(inbox) \in Nat /\ MaxInbox \in Nat
  BY InIInv, LenProperties, CodexBounds DEF TypeOK
<1>2. CASE Listening
  <2>1. /\ server.link = "open" /\ ~Idle /\ Len(inbox) < MaxInbox
        /\ inbox' = Append(inbox, msg) /\ clock' = [clock EXCEPT !.quiet = 0]
    BY <1>2 DEF Put, Listening, Idle
  <2>2. Len(inbox) <= MaxInbox + 1
    BY <1>1, <2>1
  <2>3. Hears
    BY <2>1, <2>2 DEF Hears
  <2> QED
    BY <1>1, <2>1, <2>3, ClockReset
<1>3. CASE ~Listening
  BY <1>1, <1>3 DEF Put, Hears
<1> QED
  BY <1>2, <1>3

\* A message that says nothing of threads or turns.
LEMMA Mute ==
    ASSUME NEW m \in {"refusal", "error", "approval", "asks", "protocol error", "EOF"}
    PROVE  /\ About(m, NoId, NoId) \in Message /\ Says(About(m, NoId, NoId))'
           /\ About(m, NoId, NoId).m # "reply"
<1>1. m \in Kinds /\ NoId \in Id
  BY Names DEF Kinds
<1> DEFINE msg == About(m, NoId, NoId)
<1>2. msg \in Message /\ msg.m = m
  BY <1>1 DEF About, Message, Kinds
<1> HIDE DEF msg
<1>3. Says(msg)' /\ msg.m # "reply"
  BY <1>2 DEF Says
<1> QED
  BY <1>2, <1>3 DEF msg

\* The client is as it was, or its connection is seen to be closed.
LEMMA SameClient ==
    ASSUME IInv, client' = client \/ client' = [client EXCEPT !.closed = TRUE]
    PROVE  /\ client' \in Client
           /\ client'.pc = client.pc /\ client'.run = client.run
           /\ client'.resume = client.resume /\ client'.attempt = client.attempt
           /\ client'.why = client.why /\ client'.opened = client.opened
           /\ client'.closed \in {client.closed, TRUE}
<1>1. client \in Client
  BY InIInv
<1>2. CASE client' = client
  BY <1>1, <1>2
<1>3. CASE client' = [client EXCEPT !.closed = TRUE]
  BY <1>1, <1>3 DEF Client
<1> QED
  BY <1>2, <1>3

LEMMA OneMore ==
    ASSUME IInv, upsets < MaxUpsets
    PROVE  upsets + 1 \in 0 .. MaxUpsets
  BY InIInv, TypedFields, CodexBounds

LEMMA TickKeeps ==
    ASSUME IInv, Tick
    PROVE  IInv'
<1>1. UNCHANGED <<service, mode, client, inbox, session, runs, server, upsets>>
  BY DEF Tick
<1>2. Grows /\ Hears /\ Settles
  BY <1>1, InIInv DEF Grows, Hears, Settles
<1>3. clock' \in [asked : 0 .. ReadTimeout, turn : 0 .. TurnTimeout,
                  quiet : 0 .. StallTimeout]
  <2>1. /\ clock.asked \in 0 .. ReadTimeout /\ clock.turn \in 0 .. TurnTimeout
        /\ clock.quiet \in 0 .. StallTimeout
    BY InIInv DEF TypeOK
  <2>2. /\ clock.asked < ReadTimeout => clock.asked + 1 \in 0 .. ReadTimeout
        /\ clock.turn < TurnTimeout => clock.turn + 1 \in 0 .. TurnTimeout
        /\ clock.quiet < StallTimeout => clock.quiet + 1 \in 0 .. StallTimeout
    BY <2>1, CodexBounds
  <2>3. /\ (IF client.pc \in Asking /\ clock.asked < ReadTimeout
            THEN clock.asked + 1 ELSE clock.asked) \in 0 .. ReadTimeout
        /\ (IF client.pc = "reading" /\ clock.turn < TurnTimeout
            THEN clock.turn + 1 ELSE clock.turn) \in 0 .. TurnTimeout
        /\ (IF client.pc = "reading" /\ clock.quiet < StallTimeout
            THEN clock.quiet + 1 ELSE clock.quiet) \in 0 .. StallTimeout
    BY <2>1, <2>2
  <2> QED
    BY <2>3 DEF Tick
<1>4. service' \in Service /\ upsets' \in 0 .. MaxUpsets
  BY <1>1, InIInv, TypedFields
<1> QED
  BY <1>1, <1>2, <1>3, <1>4, SettlesKeeps

LEMMA ReaderEndsKeeps ==
    ASSUME IInv, ReaderEnds
    PROVE  IInv'
<1>1. /\ server.link = "breaking" /\ ~Idle
      /\ server' = [server EXCEPT !.link = "lost"]
      /\ client' = [client EXCEPT !.closed = TRUE]
      /\ inbox' = Append(inbox, About("EOF", NoId, NoId))
      /\ UNCHANGED <<service, mode, clock, session, runs, upsets>>
  BY DEF ReaderEnds, Idle
<1>2. /\ server' \in Server /\ server'.link = "lost" /\ server'.asked = server.asked
      /\ server'.threads = server.threads /\ server'.of = server.of
      /\ server'.running = server.running /\ server'.completed = server.completed
      /\ server'.prompted = server.prompted
  BY <1>1, InIInv DEF Server
<1>3. Grows /\ Settles
  BY <1>1, <1>2, SameClient DEF Grows, Settles, Idle
<1>4. Hears
  <2>1. Len(inbox) <= MaxInbox + 1
    BY <1>1, InIInv DEF Mail
  <2> QED
    BY <1>1, <1>2, <2>1, Mute DEF Hears
<1>5. /\ service' \in Service /\ upsets' \in 0 .. MaxUpsets
      /\ clock' \in [asked : 0 .. ReadTimeout, turn : 0 .. TurnTimeout,
                     quiet : 0 .. StallTimeout]
  BY <1>1, InIInv, TypedFields DEF TypeOK
<1> QED
  BY <1>2, <1>3, <1>4, <1>5, SettlesKeeps

\* A step of the server that leaves threads and begun turns as they are.
LEMMA PutKeeps ==
    ASSUME IInv, NEW msg \in Message, Put(msg), Says(msg)',
           msg.m = "reply" => server.asked.kind # "none" /\ client.pc # "reading",
           Settles, server' \in Server, server'.link = server.link,
           server'.threads = server.threads, server'.of = server.of,
           server'.prompted = server.prompted, server'.running \subseteq server.running,
           server.completed \subseteq server'.completed,
           upsets' \in 0 .. MaxUpsets,
           UNCHANGED <<service, client, mode, session, runs>>
    PROVE  IInv'
<1>1. Grows
  BY InIInv DEF Grows
<1>2. /\ Hears
      /\ clock' \in [asked : 0 .. ReadTimeout, turn : 0 .. TurnTimeout,
                     quiet : 0 .. StallTimeout]
  BY PutHears
<1>3. service' \in Service
  BY InIInv, TypedFields
<1> QED
  BY <1>1, <1>2, <1>3, SettlesKeeps

LEMMA AnswerKeeps ==
    ASSUME IInv, Answer
    PROVE  IInv'
<1> DEFINE r == server.asked
<1>1. /\ server' = [server EXCEPT !.asked = NoRequest,
                       !.running = IF r.kind = "interrupting" THEN @ \ {r.turn} ELSE @]
      /\ UNCHANGED <<service, client, upsets, mode, session, runs>>
  BY DEF Answer, ServerFrame
<1>2. /\ server' \in Server /\ server'.asked = NoRequest /\ server'.link = server.link
      /\ server'.threads = server.threads /\ server'.of = server.of
      /\ server'.completed = server.completed /\ server'.prompted = server.prompted
      /\ server'.running \subseteq server.running
      /\ r.kind = "interrupting" => r.turn \notin server'.running
  <2> DEFINE left == IF r.kind = "interrupting" THEN server.running \ {r.turn}
                     ELSE server.running
  <2>1. left \in SUBSET Own /\ left \subseteq server.running
        /\ (r.kind = "interrupting" => r.turn \notin left)
    BY InIInv, ServerFields
  <2>2. server' = [server EXCEPT !.asked = NoRequest, !.running = left]
    BY <1>1, InIInv DEF Server
  <2> HIDE DEF left
  <2> QED
    BY <2>1, <2>2, InIInv, FreshTyped DEF Server
<1>3. PICK thread \in Id, turn \in Id :
        /\ Put(Reply(thread, turn))
        /\ r.kind \in Asking
        /\ r.kind = "opening" => thread = r.thread /\ r.thread # NoId
        /\ r.kind = "starting" => turn = r.turn /\ r.turn # NoId
  <2>1. NoId \in Id /\ r.thread \in Id /\ r.turn \in Id
    BY InIInv, ServerFields, Names
  <2>2. CASE r.kind = "initializing" /\ Put(Reply(NoId, NoId))
    BY <2>1, <2>2 DEF Asking
  <2>3. CASE r.kind = "opening" /\ r.thread # NoId /\ Put(Reply(r.thread, NoId))
    BY <2>1, <2>3 DEF Asking
  <2>4. CASE r.kind = "starting" /\ r.turn # NoId /\ Put(Reply(NoId, r.turn))
    BY <2>1, <2>4 DEF Asking
  <2>5. CASE r.kind = "interrupting" /\ Put(Reply(NoId, NoId))
    BY <2>1, <2>5 DEF Asking
  <2> QED
    BY <2>2, <2>3, <2>4, <2>5 DEF Answer
<1> DEFINE msg == Reply(thread, turn)
<1>4. /\ msg \in Message /\ msg.m = "reply" /\ msg.thread = thread /\ msg.turn = turn
      /\ Put(msg)
  <2>1. "reply" \in Kinds
    BY DEF Kinds
  <2>2. /\ msg \in Message /\ msg.m = "reply" /\ msg.thread = thread /\ msg.turn = turn
    BY <2>1, AboutTyped DEF Reply
  <2> QED
    BY <1>3, <2>2
<1>5. client.pc \in Asking => r.kind = client.pc
  BY <1>3, InIInv DEF Asked, Asking
<1>6. client.pc # "reading" /\ r.kind # "none"
  BY <1>3, InIInv DEF Asked, Asking
<1>7. Says(msg)'
  <2>1. server'.asked.kind = "none"
    BY <1>2, FreshTyped
  <2>2. client.pc = "opening" => msg.thread # NoId /\ Known(msg.thread)
    BY <1>3, <1>4, <1>5, InIInv DEF Threads, Asking
  <2>3. client.pc = "starting" =>
          msg.turn \in server.prompted /\ server.of[msg.turn] = client.run.thread
    BY <1>3, <1>4, <1>5, InIInv DEF Asked, Asking
  <2>4. client' = client /\ session' = session
    BY <1>1
  <2> HIDE DEF msg
  <2> QED
    BY <1>2, <1>4, <2>1, <2>2, <2>3, <2>4 DEF Says, Known
<1>8. Settles
  BY <1>2, <1>3 DEF Settles
<1>9. upsets' \in 0 .. MaxUpsets
  BY <1>1, InIInv, TypedFields
<1> HIDE DEF msg, r
<1> QED
  BY <1>1, <1>2, <1>4, <1>6, <1>7, <1>8, <1>9, PutKeeps DEF r

LEMMA RefuseKeeps ==
    ASSUME IInv, Refuse
    PROVE  IInv'
<1>1. /\ server.asked.kind \in Asking /\ upsets < MaxUpsets /\ upsets' = upsets + 1
      /\ Put(About("refusal", NoId, NoId))
      /\ server' = [server EXCEPT !.asked.kind = "refused"]
      /\ UNCHANGED <<service, client, mode, session, runs>>
  BY DEF Refuse, ServerFrame
<1> DEFINE r == [server.asked EXCEPT !.kind = "refused"]
<1>2. r \in Request
  BY InIInv, ServerFields DEF Request
<1>3. server' = [server EXCEPT !.asked = r]
  BY <1>1, InIInv DEF Server
<1> HIDE DEF r
<1>4. /\ server' \in Server /\ server'.asked = r /\ server'.link = server.link
      /\ server'.threads = server.threads /\ server'.of = server.of
      /\ server'.completed = server.completed /\ server'.prompted = server.prompted
      /\ server'.running = server.running
  BY <1>2, <1>3, InIInv DEF Server
<1>5. Settles
  BY <1>1, <1>4 DEF Settles, r
<1>6. upsets' \in 0 .. MaxUpsets
  BY <1>1, OneMore
<1> DEFINE msg == About("refusal", NoId, NoId)
<1>7. msg \in Message /\ Says(msg)' /\ msg.m # "reply" /\ Put(msg)
  BY <1>1, Mute
<1> HIDE DEF msg
<1> QED
  BY <1>1, <1>4, <1>5, <1>6, <1>7, PutKeeps

LEMMA SpeaksKeeps ==
    ASSUME IInv, Speaks
    PROVE  IInv'
<1>1. PICK t \in server.running, m \in {"delta", "completed", "turn failed"} :
         /\ Put(About(m, server.of[t], t))
         /\ server' = [server EXCEPT
                !.running   = IF m \in {"completed", "turn failed"} THEN @ \ {t} ELSE @,
                !.completed = IF m = "completed" THEN @ \cup ({t} \cap server.prompted) ELSE @]
  BY DEF Speaks
<1>2. UNCHANGED <<service, client, upsets, mode, session, runs>>
  BY DEF Speaks, ServerFrame
<1>3. t \in Own /\ t \in Used /\ server.of[t] \in Id /\ server.of[t] # NoId /\ t \in Id
  BY InIInv, ServerFields, Names DEF TurnsBegan, Used
<1> DEFINE left == IF m \in {"completed", "turn failed"} THEN server.running \ {t}
                   ELSE server.running
           done == IF m = "completed" THEN server.completed \cup ({t} \cap server.prompted)
                   ELSE server.completed
<1>4. /\ left \in SUBSET Own /\ left \subseteq server.running
      /\ done \in SUBSET Own /\ server.completed \subseteq done
      /\ m = "completed" /\ t \in server.prompted => t \in done
  BY <1>3, InIInv, ServerFields
<1>5. server' = [server EXCEPT !.running = left, !.completed = done]
  BY <1>1, InIInv DEF Server
<1> HIDE DEF left, done
<1>6. /\ server' \in Server /\ server'.asked = server.asked /\ server'.link = server.link
      /\ server'.threads = server.threads /\ server'.of = server.of
      /\ server'.prompted = server.prompted
      /\ server'.running = left /\ server'.completed = done
  BY <1>4, <1>5, InIInv DEF Server
<1>7. PICK msg \in Message :
        msg.m = m /\ msg.thread = server.of[t] /\ msg.turn = t /\ Put(msg)
  <2> DEFINE said == About(m, server.of[t], t)
  <2>1. /\ said \in Message /\ said.m = m /\ said.thread = server.of[t] /\ said.turn = t
    BY <1>3 DEF About, Message
  <2>2. Put(said)
    BY <1>1
  <2> HIDE DEF said
  <2> QED
    BY <2>1, <2>2
<1>8. Says(msg)' /\ msg.m # "reply"
  <2>1. Used' = Used
    BY <1>6 DEF Used
  <2>2. msg.m # "reply" /\ msg.m # "thread started"
    BY <1>7
  <2>3. (msg.turn = Stranger \/ msg.turn \in Used') /\ msg.thread # NoId
    BY <1>3, <1>7, <2>1
  <2>4. msg.m = "completed" /\ msg.turn \in server'.prompted => msg.turn \in server'.completed
    BY <1>4, <1>6, <1>7
  <2> QED
    BY <2>2, <2>3, <2>4 DEF Says
<1>9. Settles /\ upsets' \in 0 .. MaxUpsets
  BY <1>2, <1>6, InIInv, TypedFields DEF Settles
<1> QED
  BY <1>2, <1>4, <1>6, <1>7, <1>8, <1>9, PutKeeps

LEMMA OddKeeps ==
    ASSUME IInv, Odd
    PROVE  IInv'
<1>1. /\ upsets < MaxUpsets /\ upsets' = upsets + 1
      /\ UNCHANGED <<service, client, server, mode, session, runs>>
  BY DEF Odd, ServerFrame
<1>2. PICK m \in {"approval", "asks", "protocol error"} : Put(About(m, NoId, NoId))
  BY DEF Odd
<1> DEFINE msg == About(m, NoId, NoId)
<1>3. msg \in Message /\ Says(msg)' /\ msg.m # "reply" /\ Put(msg)
  BY <1>2, Mute
<1>4. Settles
  BY <1>1 DEF Settles
<1>5. upsets' \in 0 .. MaxUpsets
  BY <1>1, OneMore
<1> HIDE DEF msg
<1> QED
  BY <1>1, <1>3, <1>4, <1>5, InIInv, PutKeeps

LEMMA OthersSpeakKeeps ==
    ASSUME IInv, OthersSpeak
    PROVE  IInv'
<1>1. UNCHANGED <<service, client, server, upsets, mode, session, runs>>
  BY DEF OthersSpeak, ServerFrame
<1>2. PICK m \in {"thread started", "turn started", "delta", "completed",
                  "turn failed", "error"} :
         Put(CASE m = "thread started" -> About(m, Stranger, NoId)
                 [] m = "error" -> About(m, NoId, NoId)
                 [] OTHER -> About(m, Stranger, Stranger))
  BY DEF OthersSpeak
<1>3. PICK msg \in Message :
        /\ Put(msg) /\ msg.m = m
        /\ m = "thread started" => msg.thread = Stranger
        /\ m \notin {"thread started", "error"} => msg.thread = Stranger /\ msg.turn = Stranger
  <2>1. CASE m = "thread started"
    <3> DEFINE msg == About(m, Stranger, NoId)
    <3>1. Put(msg)
      BY <1>2, <2>1
    <3>2. /\ msg \in Message /\ msg.m = m /\ msg.thread = Stranger /\ msg.turn = NoId
      BY Names DEF About, Message
    <3> HIDE DEF msg
    <3> QED
      BY <2>1, <3>1, <3>2, Names
  <2>2. CASE m = "error"
    <3> DEFINE msg == About(m, NoId, NoId)
    <3>1. Put(msg)
      BY <1>2, <2>2
    <3>2. /\ msg \in Message /\ msg.m = m /\ msg.thread = NoId /\ msg.turn = NoId
      BY Names DEF About, Message
    <3> HIDE DEF msg
    <3> QED
      BY <2>2, <3>1, <3>2, Names
  <2>3. CASE m \notin {"thread started", "error"}
    <3> DEFINE msg == About(m, Stranger, Stranger)
    <3>1. Put(msg)
      BY <1>2, <2>3
    <3>2. /\ msg \in Message /\ msg.m = m /\ msg.thread = Stranger /\ msg.turn = Stranger
      BY Names DEF About, Message
    <3> HIDE DEF msg
    <3> QED
      BY <2>3, <3>1, <3>2, Names
  <2> QED
    BY <2>1, <2>2, <2>3
<1>4. Says(msg)' /\ msg.m # "reply"
  <2>1. Stranger \notin server.prompted /\ Stranger # NoId
    BY InIInv, ServerFields, Names
  <2> QED
    BY <1>1, <1>2, <1>3, <2>1 DEF Says
<1>5. Settles /\ upsets' \in 0 .. MaxUpsets
  BY <1>1, InIInv, TypedFields DEF Settles
<1> QED
  BY <1>1, <1>3, <1>4, <1>5, InIInv, PutKeeps

\* The end of the stream, whoever brought it about.
LEMMA EndKeeps ==
    ASSUME IInv, NEW gone \in BOOLEAN, EndOfStream(gone), service' \in Service,
           upsets' \in 0 .. MaxUpsets, UNCHANGED clock, ServerFrame
    PROVE  IInv'
<1> DEFINE link == IF server.link = "open" THEN "lost" ELSE server.link
<1>1. UNCHANGED <<clock, mode, session, runs>>
  BY DEF ServerFrame
<1>2. \/ server' = [server EXCEPT !.link = link, !.asked = NoRequest, !.running = {}]
      \/ server' = [server EXCEPT !.link = link]
  BY DEF EndOfStream
<1>3. /\ link \in {"none", "breaking", "lost", "ended"}
      /\ link = "breaking" => server.link = "breaking"
  BY InIInv, ServerFields
<1> HIDE DEF link
<1>4. /\ server' \in Server /\ server'.link = link
      /\ server'.threads = server.threads /\ server'.of = server.of
      /\ server'.completed = server.completed /\ server'.prompted = server.prompted
      /\ \/ server'.asked = server.asked /\ server'.running = server.running
         \/ server'.asked = NoRequest /\ server'.running = {}
  BY <1>2, <1>3, InIInv, FreshTyped DEF Server
<1>5. CASE Listening
  <2>1. /\ client' = [client EXCEPT !.closed = TRUE] /\ ~Idle /\ server.link = "open"
        /\ inbox' = Append(inbox, About("EOF", NoId, NoId))
    BY <1>5 DEF EndOfStream, Listening, Idle
  <2>2. Grows
    BY <1>1, <1>3, <1>4, <2>1, SameClient DEF Grows, Idle
  <2>3. Len(inbox) <= MaxInbox + 1
    <3>1. Len(inbox) <= MaxInbox /\ inbox \in Seq(Message) /\ MaxInbox \in Nat
      BY <2>1, InIInv, CodexBounds DEF Mail
    <3> QED
      BY <3>1, LenProperties
  <2>4. server'.link \notin {"open", "breaking"}
    BY <1>3, <1>4, <2>1
  <2>5. Hears
    BY <2>1, <2>3, <2>4, Mute DEF Hears
  <2> QED
    BY <1>1, <1>4, <2>2, <2>5, InIInv, SettlesKeeps DEF Settles, TypeOK
<1>6. CASE ~Listening
  <2>1. UNCHANGED <<client, inbox>>
    BY <1>6 DEF EndOfStream
  <2>2. Grows
    BY <1>1, <1>3, <1>4, <2>1, SameClient DEF Grows
  <2>3. Hears
    BY <2>1 DEF Hears
  <2> QED
    BY <1>1, <1>4, <2>2, <2>3, InIInv, SettlesKeeps DEF Settles, TypeOK
<1> QED
  BY <1>5, <1>6

LEMMA ConnectionLostKeeps ==
    ASSUME IInv, ConnectionLost
    PROVE  IInv'
<1>1. /\ Listening /\ upsets < MaxUpsets /\ upsets' = upsets + 1
      /\ UNCHANGED <<service, clock, mode, session, runs>> /\ ServerFrame
  BY DEF ConnectionLost, ServerFrame
<1>2. service' \in Service /\ upsets' \in 0 .. MaxUpsets
  BY <1>1, InIInv, TypedFields, CodexBounds
<1>3. CASE EndOfStream(mode.profile = "managed")
  BY <1>1, <1>2, <1>3, EndKeeps
<1>4. CASE /\ server' = [server EXCEPT !.link = "breaking"]
           /\ inbox' = Append(inbox, About("protocol error", NoId, NoId))
           /\ UNCHANGED client
  <2>1. /\ server' \in Server /\ server'.link = "breaking" /\ server'.asked = server.asked
        /\ server'.threads = server.threads /\ server'.of = server.of
        /\ server'.running = server.running /\ server'.completed = server.completed
        /\ server'.prompted = server.prompted
    BY <1>4, InIInv DEF Server
  <2>2. server.link = "open" /\ ~Idle
    BY <1>1 DEF Listening, Idle
  <2>3. Grows /\ Settles
    BY <1>1, <1>4, <2>1, <2>2, InIInv DEF Grows, Settles
  <2>4. Len(inbox) <= MaxInbox /\ Len(inbox) <= MaxInbox + 1
    <3>1. Len(inbox) <= MaxInbox /\ inbox \in Seq(Message) /\ MaxInbox \in Nat
      BY <2>2, InIInv, CodexBounds DEF Mail
    <3> QED
      BY <3>1, LenProperties
  <2>5. Hears
    BY <1>4, <2>1, <2>2, <2>4, Mute DEF Hears
  <2> QED
    BY <1>1, <1>2, <2>1, <2>3, <2>5, InIInv, SettlesKeeps DEF TypeOK
<1> QED
  BY <1>3, <1>4 DEF ConnectionLost
------------------------------------------------------------------------------
\* The unit that keeps the server.

LEMMA ServiceTyped ==
    ASSUME service \in Service,
           \/ Install \/ EnableUnit \/ StartUnit \/ StopUnit \/ DisableUnit
           \/ RestartUnit \/ ServerDies \/ Listens
    PROVE  service' \in Service
<1>1. CASE Install
  BY <1>1 DEF Install, Service
<1>2. CASE EnableUnit
  BY <1>2 DEF EnableUnit, Service
<1>3. CASE StartUnit
  BY <1>3 DEF StartUnit, Service
<1>4. CASE StopUnit
  BY <1>4 DEF StopUnit, Service
<1>5. CASE DisableUnit
  BY <1>5 DEF DisableUnit, Service
<1>6. CASE RestartUnit \/ ServerDies \/ Listens
  BY <1>6 DEF RestartUnit, ServerDies, Listens, Service
<1> QED
  BY <1>1, <1>2, <1>3, <1>4, <1>5, <1>6

LEMMA ServicedKeeps ==
    ASSUME IInv, Operated \/ Recovers
    PROVE  IInv'
<1>1. PICK fault \in BOOLEAN :
        /\ fault => upsets < MaxUpsets
        /\ upsets' = IF fault THEN upsets + 1 ELSE upsets
        /\ \/ Install \/ EnableUnit \/ StartUnit \/ StopUnit \/ DisableUnit
           \/ RestartUnit \/ ServerDies \/ Listens
        /\ IF service.listening /\ ~service'.listening
           THEN EndOfStream(TRUE)
           ELSE UNCHANGED <<server, client, inbox>>
        /\ UNCHANGED clock /\ ServerFrame
  BY DEF Operated, Recovers, Serviced
<1>2. service' \in Service
  BY <1>1, InIInv, TypedFields, ServiceTyped
<1>3. upsets' \in 0 .. MaxUpsets
  BY <1>1, InIInv, TypedFields, CodexBounds
<1>4. CASE EndOfStream(TRUE)
  BY <1>1, <1>2, <1>3, <1>4, EndKeeps
<1>5. CASE UNCHANGED <<server, client, inbox>>
  <2>1. UNCHANGED <<clock, mode, session, runs>>
    BY <1>1 DEF ServerFrame
  <2>2. Grows /\ Hears /\ Settles
    BY <1>5, <2>1, InIInv DEF Grows, Hears, Settles
  <2> QED
    BY <1>2, <1>3, <1>5, <2>1, <2>2, InIInv, SettlesKeeps DEF TypeOK
<1> QED
  BY <1>1, <1>4, <1>5
------------------------------------------------------------------------------
\* The server opens a thread, or begins a turn: there is an id for it.

LEMMA FreshId ==
    ASSUME NEW used \in SUBSET Own, Cardinality(used) + 1 <= 2 * MaxRuns
    PROVE  NewId(used) \in Own /\ NewId(used) \notin used
<1> DEFINE free == Own \ used
<1>1. free # {}
  <2> SUFFICES ASSUME used = Own
               PROVE  FALSE
    OBVIOUS
  <2>1. Cardinality(used) = 2 * MaxRuns /\ 2 * MaxRuns \in Nat
    BY OwnIsFinite, CodexBounds
  <2> QED
    BY <2>1
<1>2. free \subseteq Nat
  BY CodexBounds DEF Own
<1> HIDE DEF free
<1>3. OpToRel(<, Nat) = {ss \in Nat \X Nat : ss[1] < ss[2]}
  BY Zenon DEF OpToRel
<1>4. PICK i \in free : \A j \in free : ~(<<j, i>> \in OpToRel(<, Nat))
  BY <1>1, <1>2, NatLessThanWellFounded, WFMin
<1>5. \A j \in free : i <= j
  <2> SUFFICES ASSUME NEW j \in free
               PROVE  i <= j
    OBVIOUS
  <2>1. i \in Nat /\ j \in Nat
    BY <1>2
  <2>2. ~(j < i)
    BY <1>3, <1>4, <2>1
  <2> QED
    BY <2>1, <2>2
<1> QED
  BY <1>5 DEF NewId, free

\* The numbers leave room for one more.
LEMMA Room ==
    ASSUME NEW n \in Nat, NEW b \in 0..1, NEW most \in Int, NEW top \in Int,
           n + 1 + b <= most, most <= top
    PROVE  n + 1 <= top /\ (n + 1) + 0 + b <= most
  OBVIOUS

LEMMA MostRuns ==
    ASSUME IInv
    PROVE  (IF client.pc = "idle" THEN 2 * runs ELSE 2 * runs - 1 + client.attempt) \in Int
           /\ (IF client.pc = "idle" THEN 2 * runs ELSE 2 * runs - 1 + client.attempt)
                <= 2 * MaxRuns
<1>1. runs \in 0 .. MaxRuns /\ client.attempt \in 0 .. 1 /\ MaxRuns \in Nat
  BY InIInv, TypedFields, ClientFields, CodexBounds
<1> QED
  BY <1>1

LEMMA OneElementMore ==
    ASSUME NEW s, NEW t, IsFiniteSet(s), t \notin s
    PROVE  Cardinality(s \cup {t}) = Cardinality(s) + 1
  BY FS_AddElement

LEMMA OpenThreadKeeps ==
    ASSUME IInv, OpenThread
    PROVE  IInv'
<1> DEFINE most == IF client.pc = "idle" THEN 2 * runs ELSE 2 * runs - 1 + client.attempt
<1>1. /\ server.asked.kind = "opening" /\ server.asked.thread = NoId
      /\ UNCHANGED <<service, client, upsets, mode, session, runs>>
  BY DEF OpenThread, ServerFrame
<1>2. Opening = 1 /\ Starting = 0
  BY <1>1 DEF Opening, Starting
<1>3. /\ Cardinality(server.threads) + Opening + ToOpen <= most
      /\ Cardinality(Used) + Starting + ToStart <= most
      /\ Cardinality(server.prompted) + Starting + ToStart <= client.attempt + 1
      /\ client.pc # "idle" => runs # 0
      /\ most \in Int /\ most <= 2 * MaxRuns /\ 2 * MaxRuns \in Int
  BY InIInv, MostRuns, CodexBounds DEF Counts
<1> HIDE DEF most
<1>4. Cardinality(server.threads) + 1 <= 2 * MaxRuns
      /\ (Cardinality(server.threads) + 1) + 0 + ToOpen <= most
  BY <1>2, <1>3, InIInv, Numbers, Room
<1>5. PICK t \in Own :
        /\ t \notin server.threads
        /\ server' = [server EXCEPT !.asked.thread = t, !.threads = @ \cup {t}]
        /\ \/ UNCHANGED <<inbox, clock>>
           \/ Put(About("thread started", t, NoId))
  BY <1>4, InIInv, ServerFields, FreshId DEF OpenThread
<1> DEFINE r == [server.asked EXCEPT !.thread = t]
           opened == server.threads \cup {t}
<1>6. /\ t \in Id /\ t # NoId
      /\ r \in Request /\ r.kind = "opening" /\ r.thread = t /\ r.turn = server.asked.turn
      /\ opened \in SUBSET Own
  BY <1>1, <1>5, InIInv, ServerFields, Names DEF Request
<1>7. server' = [server EXCEPT !.asked = r, !.threads = opened]
  BY <1>5, InIInv DEF Server
<1> HIDE DEF r, opened
<1>8. /\ server' \in Server /\ server'.asked = r /\ server'.threads = opened
      /\ server'.link = server.link /\ server'.of = server.of
      /\ server'.running = server.running /\ server'.completed = server.completed
      /\ server'.prompted = server.prompted
  BY <1>6, <1>7, InIInv DEF Server
<1>9. server.threads \subseteq opened /\ t \in opened
  BY DEF opened
<1>10. Grows
  BY <1>1, <1>8, <1>9, InIInv DEF Grows
<1>11. /\ Hears
       /\ clock' \in [asked : 0 .. ReadTimeout, turn : 0 .. TurnTimeout,
                      quiet : 0 .. StallTimeout]
  <2>1. CASE UNCHANGED <<inbox, clock>>
    BY <2>1, InIInv DEF Hears, TypeOK
  <2>2. CASE Put(About("thread started", t, NoId))
    <3> DEFINE msg == About("thread started", t, NoId)
    <3>1. msg \in Message /\ msg.m = "thread started" /\ msg.thread = t
      BY <1>6, Names DEF About, Message
    <3>2. Put(msg)
      BY <2>2
    <3> HIDE DEF msg
    <3>3. Says(msg)' /\ msg.m # "reply"
      BY <1>8, <1>9, <3>1 DEF Says
    <3> QED
      BY <1>8, <3>1, <3>2, <3>3, PutHears
  <2> QED
    BY <1>5, <2>1, <2>2
<1>12. /\ Used \subseteq Used' /\ \A x : Known(x) => Known(x)'
       /\ \A run : HasResult(run) => HasResult(run)'
       /\ Started' /\ ToOpen' = ToOpen /\ ToStart' = ToStart
  BY <1>10, GrowsKeeps
<1>13. Mail' /\ inbox' \in Seq(Message) /\ Len(inbox') <= MaxInbox + 2
  BY <1>1, <1>10, <1>11, HearsKeeps
<1>14. TypeOK'
  <2>1. service' \in Service /\ upsets' \in 0 .. MaxUpsets
    BY <1>1, InIInv, TypedFields
  <2> QED
    BY <1>10, <1>11, <1>13, <2>1, TypesKept
<1>15. Used' = Used
  BY <1>8 DEF Used
<1>16. Threads'
  <2>1. Known(t)'
    BY <1>8, <1>9 DEF Known
  <2> QED
    BY <1>1, <1>6, <1>8, <1>12, <2>1, InIInv DEF Threads, Knows
<1>17. TurnsBegan'
  BY <1>8, <1>15, InIInv DEF TurnsBegan
<1>18. Asked'
  BY <1>1, <1>6, <1>8, InIInv DEF Asked
<1>19. Ends'
  <2>1. ~GaveUp(client)
    BY <1>1, InIInv DEF Ends, ToldToStop
  <2>2. ~(mode.profile = "managed" /\ client.pc = "idle" /\ client.why # "none")
    BY <1>1, InIInv DEF Ends
  <2>3. client.why = "ok" => HasResult(client.run)'
    BY <1>1, <1>12, InIInv DEF Ends
  <2> QED
    BY <1>1, <1>8, <2>1, <2>2, <2>3, InIInv DEF Ends, GaveUp, Idle
<1>20. Counts'
  <2>1. Opening' = 0 /\ Starting' = 0
    BY <1>6, <1>8 DEF Opening, Starting
  <2>2. Cardinality(opened) = Cardinality(server.threads) + 1
    BY <1>5, InIInv, Numbers, OneElementMore DEF opened
  <2>3. Cardinality(server'.threads) + Opening' + ToOpen' <= most
    BY <1>4, <1>8, <1>12, <2>1, <2>2
  <2> QED
    BY <1>1, <1>2, <1>3, <1>8, <1>12, <1>15, <2>1, <2>3 DEF Counts, most
<1> QED
  BY <1>12, <1>13, <1>14, <1>16, <1>17, <1>18, <1>19, <1>20 DEF IInv

LEMMA StartTurnKeeps ==
    ASSUME IInv, StartTurn
    PROVE  IInv'
<1> DEFINE most == IF client.pc = "idle" THEN 2 * runs ELSE 2 * runs - 1 + client.attempt
           tries == client.attempt + 1
<1>1. /\ server.asked.kind = "starting" /\ server.asked.turn = NoId
      /\ UNCHANGED <<service, client, upsets, mode, session, runs>>
  BY DEF StartTurn, ServerFrame
<1>2. Opening = 0 /\ Starting = 1
  BY <1>1 DEF Opening, Starting
<1>3. /\ Cardinality(server.threads) + Opening + ToOpen <= most
      /\ Cardinality(Used) + Starting + ToStart <= most
      /\ Cardinality(server.prompted) + Starting + ToStart <= tries
      /\ client.pc # "idle" => runs # 0
      /\ most \in Int /\ most <= 2 * MaxRuns /\ 2 * MaxRuns \in Int
      /\ tries \in Int /\ tries <= tries
  <2>1. client.attempt \in Int
    BY InIInv, ClientFields
  <2> QED
    BY <2>1, InIInv, MostRuns, CodexBounds DEF Counts
<1> HIDE DEF most, tries
<1>4. /\ Cardinality(Used) + 1 <= 2 * MaxRuns
      /\ (Cardinality(Used) + 1) + 0 + ToStart <= most
      /\ (Cardinality(server.prompted) + 1) + 0 + ToStart <= tries
  BY <1>2, <1>3, InIInv, Numbers, Room
<1>5. PICK t \in Own :
        /\ t \notin Used
        /\ server' = [server EXCEPT !.asked.turn = t, !.of[t] = server.asked.thread,
                         !.running = @ \cup {t}, !.prompted = @ \cup {t}]
        /\ \/ UNCHANGED <<inbox, clock>>
           \/ Put(About("turn started", server.asked.thread, t))
  <2>1. Used \in SUBSET Own
    BY InIInv, Numbers
  <2>2. NewId(Used) \in Own /\ NewId(Used) \notin Used
    BY <1>4, <2>1, FreshId
  <2> QED
    BY <2>2 DEF StartTurn, Used
<1> DEFINE r == [server.asked EXCEPT !.turn = t]
           home == server.asked.thread
           of == [server.of EXCEPT ![t] = home]
           running == server.running \cup {t}
           prompted == server.prompted \cup {t}
<1>6. home \in Id /\ home # NoId /\ t \in Id /\ t # NoId
  BY <1>1, <1>5, InIInv, ServerFields, Names DEF Threads
<1>7. /\ r \in Request /\ r.kind = "starting" /\ r.thread = home /\ r.turn = t
      /\ of \in [Own -> Id] /\ of[t] = home /\ \A u \in Own : u # t => of[u] = server.of[u]
      /\ running \in SUBSET Own /\ prompted \in SUBSET Own
  <2>1. r \in Request /\ r.kind = "starting" /\ r.thread = home /\ r.turn = t
    BY <1>1, <1>6, InIInv, ServerFields DEF Request
  <2>2. of \in [Own -> Id] /\ of[t] = home /\ \A u \in Own : u # t => of[u] = server.of[u]
    BY <1>5, <1>6, InIInv, ServerFields
  <2>3. running \in SUBSET Own /\ prompted \in SUBSET Own
    BY <1>5, InIInv, ServerFields
  <2> QED
    BY <2>1, <2>2, <2>3
<1>8. server' = [server EXCEPT !.asked = r, !.of = of, !.running = running,
                               !.prompted = prompted]
  BY <1>5, InIInv DEF Server
<1>9. PICK thread \in Id : thread = server.asked.thread
  BY <1>6
<1> HIDE DEF r, of, running, prompted, home
<1>10. /\ server' \in Server /\ server'.asked = r /\ server'.of = of
       /\ server'.running = running /\ server'.prompted = prompted
       /\ server'.link = server.link /\ server'.threads = server.threads
       /\ server'.completed = server.completed
  BY <1>7, <1>8, InIInv DEF Server
<1>11. Used' = Used \cup {t}
  BY <1>5, <1>6, <1>7, <1>10 DEF Used
<1>12. /\ server.prompted \subseteq Used /\ server.running \subseteq Used
       /\ prompted = server.prompted \cup {t} /\ running = server.running \cup {t}
  BY InIInv DEF TurnsBegan, prompted, running
<1>13. Grows
  <2>1. \A u \in Used : of[u] = server.of[u]
    BY <1>5, <1>7 DEF Used
  <2>2. server.prompted \subseteq prompted /\ prompted \cap Used \subseteq server.prompted
    BY <1>5, <1>12
  <2> QED
    BY <1>1, <1>10, <2>1, <2>2, InIInv DEF Grows
<1>14. /\ Hears
       /\ clock' \in [asked : 0 .. ReadTimeout, turn : 0 .. TurnTimeout,
                      quiet : 0 .. StallTimeout]
  <2>1. CASE UNCHANGED <<inbox, clock>>
    BY <2>1, InIInv DEF Hears, TypeOK
  <2>2. CASE Put(About("turn started", server.asked.thread, t))
    <3> DEFINE msg == About("turn started", thread, t)
    <3>1. msg \in Message /\ msg.m = "turn started" /\ msg.thread = thread /\ msg.turn = t
      BY <1>6, <1>9 DEF About, Message
    <3>2. Put(msg)
      BY <1>9, <2>2
    <3> HIDE DEF msg
    <3>3. Says(msg)' /\ msg.m # "reply"
      BY <1>6, <1>9, <1>11, <3>1 DEF Says, home
    <3> QED
      BY <1>10, <3>1, <3>2, <3>3, PutHears
  <2> QED
    BY <1>5, <2>1, <2>2
<1>15. /\ Used \subseteq Used' /\ \A x : Known(x) => Known(x)'
       /\ \A run : HasResult(run) => HasResult(run)'
       /\ Started' /\ ToOpen' = ToOpen /\ ToStart' = ToStart
  BY <1>13, GrowsKeeps
<1>16. Mail' /\ inbox' \in Seq(Message) /\ Len(inbox') <= MaxInbox + 2
  BY <1>1, <1>13, <1>14, HearsKeeps
<1>17. TypeOK'
  <2>1. service' \in Service /\ upsets' \in 0 .. MaxUpsets
    BY <1>1, InIInv, TypedFields
  <2> QED
    BY <1>13, <1>14, <1>16, <2>1, TypesKept
<1>18. Threads'
  BY <1>1, <1>6, <1>7, <1>10, <1>15, InIInv DEF Threads, Knows
<1>19. TurnsBegan'
  BY <1>10, <1>11, <1>12 DEF TurnsBegan, Used
<1>20. Asked'
  <2>1. client.pc = "starting" => home = client.run.thread
    BY <1>1, InIInv DEF Asked, home
  <2>2. client.pc # "reading" /\ (client.pc \in Asking => client.pc = "starting")
    BY <1>1, InIInv DEF Asked, Asking
  <2> QED
    BY <1>1, <1>7, <1>10, <1>12, <2>1, <2>2 DEF Asked
<1>21. Ends'
  <2>1. ~GaveUp(client)
    BY <1>1, InIInv DEF Ends, ToldToStop
  <2>2. ~(mode.profile = "managed" /\ client.pc = "idle" /\ client.why # "none")
    BY <1>1, InIInv DEF Ends
  <2>3. client.why = "ok" => HasResult(client.run)'
    BY <1>1, <1>15, InIInv DEF Ends
  <2> QED
    BY <1>1, <1>10, <2>1, <2>2, <2>3, InIInv DEF Ends, GaveUp, Idle
<1>22. Counts'
  <2>1. Opening' = 0 /\ Starting' = 0
    BY <1>6, <1>7, <1>10 DEF Opening, Starting
  <2>2. /\ Cardinality(Used') = Cardinality(Used) + 1
        /\ Cardinality(server'.prompted) = Cardinality(server.prompted) + 1
    <3>1. t \notin server.prompted
      BY <1>5, <1>12
    <3>2. IsFiniteSet(Used) /\ IsFiniteSet(server.prompted)
      BY InIInv, Numbers
    <3>3. Cardinality(Used \cup {t}) = Cardinality(Used) + 1
      BY <1>5, <3>2, OneElementMore
    <3>4. Cardinality(server.prompted \cup {t}) = Cardinality(server.prompted) + 1
      BY <3>1, <3>2, OneElementMore
    <3> QED
      BY <1>10, <1>11, <1>12, <3>3, <3>4
  <2>3. /\ Cardinality(Used') + Starting' + ToStart' <= most
        /\ Cardinality(server'.prompted) + Starting' + ToStart' <= tries
    BY <1>4, <1>15, <2>1, <2>2
  <2>4. Cardinality(server'.threads) + Opening' + ToOpen' <= most
    BY <1>2, <1>3, <1>10, <1>15, <2>1
  <2> QED
    BY <1>1, <1>3, <2>3, <2>4 DEF Counts, most, tries
<1> QED
  BY <1>15, <1>16, <1>17, <1>18, <1>19, <1>20, <1>21, <1>22 DEF IInv
------------------------------------------------------------------------------
\* The invariant.

LEMMA IInvInit ==
    ASSUME Init
    PROVE  IInv
<1>1. /\ client \in Client /\ client.pc = "idle" /\ client.run = FreshState
      /\ client.resume = NoId /\ client.attempt = 0 /\ client.why = "none"
      /\ client.opened = FALSE /\ client.closed = FALSE
  <2>1. client = [pc |-> "idle", run |-> FreshState, resume |-> NoId, attempt |-> 0,
                  why |-> "none", opened |-> FALSE, closed |-> FALSE]
    BY DEF Init
  <2>2. "none" \in Why /\ FreshState \in RunState /\ NoId \in Id
    BY FreshTyped, Names DEF Why
  <2> QED
    BY <2>1, <2>2 DEF Client
<1>2. /\ server \in Server /\ server.link = "none" /\ server.asked = NoRequest
      /\ server.threads = {} /\ server.of = [t \in Own |-> NoId]
      /\ server.running = {} /\ server.completed = {} /\ server.prompted = {}
  <2>1. server = [link |-> "none", asked |-> NoRequest, threads |-> {},
                  of |-> [t \in Own |-> NoId], running |-> {},
                  completed |-> {}, prompted |-> {}]
    BY DEF Init
  <2>2. NoRequest \in Request /\ [t \in Own |-> NoId] \in [Own -> Id]
    BY FreshTyped, Names
  <2> QED
    BY <2>1, <2>2 DEF Server
<1>3. /\ service = Served /\ mode \in Modes /\ inbox = <<>> /\ clock = Quiet
      /\ session = [thread |-> NoId, strayed |-> FALSE] /\ runs = 0 /\ upsets = 0
  BY DEF Init
<1>4. TypeOK
  <2>1. Served \in Service
    BY DEF Served, Service
  <2>2. runs \in 0 .. MaxRuns /\ upsets \in 0 .. MaxUpsets
    BY <1>3, CodexBounds
  <2> QED
    BY <1>1, <1>2, <1>3, <2>1, <2>2, Emptied, FreshTyped, Names, Typed
<1>5. Used = {} /\ NoRequest.kind = "none" /\ FreshState.thread = NoId
  BY <1>2, FreshTyped DEF Used
<1>6. Threads /\ TurnsBegan
  BY <1>1, <1>2, <1>3, <1>5 DEF Threads, TurnsBegan, Knows
<1>7. Asked /\ Started /\ Ends
  BY <1>1, <1>2, <1>5 DEF Asked, Started, Ends, Asking, Idle, GaveUp
<1>8. Mail
  BY <1>1, <1>3, Emptied, CodexBounds DEF Mail
<1>9. Counts
  <2>1. Opening = 0 /\ Starting = 0 /\ ToOpen = 0 /\ ToStart = 0
    BY <1>1, <1>2, <1>5 DEF Opening, Starting, ToOpen, ToStart
  <2>2. Cardinality({}) = 0
    BY FS_EmptySet
  <2> QED
    BY <1>1, <1>2, <1>3, <1>5, <2>1, <2>2 DEF Counts
<1> QED
  BY <1>4, <1>6, <1>7, <1>8, <1>9 DEF IInv

LEMMA IInvStep ==
    ASSUME IInv, [Next]_vars
    PROVE  IInv'
<1>1. CASE Begin
  BY <1>1, BeginKeeps
<1>2. CASE Connect
  BY <1>2, ConnectKeeps
<1>3. CASE NotReady
  BY <1>3, NotReadyKeeps
<1>4. CASE Answered
  BY <1>4, AnsweredKeeps
<1>5. CASE Takes
  BY <1>5, TakesKeeps
<1>6. CASE RequestTimesOut
  BY <1>6, RequestTimesOutKeeps
<1>7. CASE StopTurn
  BY <1>7, StopTurnKeeps
<1>8. CASE ReaderEnds
  BY <1>8, ReaderEndsKeeps
<1>9. CASE Killed
  BY <1>9, KilledKeeps
<1>10. CASE Tick
  BY <1>10, TickKeeps
<1>11. CASE OpenThread
  BY <1>11, OpenThreadKeeps
<1>12. CASE StartTurn
  BY <1>12, StartTurnKeeps
<1>13. CASE Answer
  BY <1>13, AnswerKeeps
<1>14. CASE Refuse
  BY <1>14, RefuseKeeps
<1>15. CASE Speaks
  BY <1>15, SpeaksKeeps
<1>16. CASE Odd
  BY <1>16, OddKeeps
<1>17. CASE OthersSpeak
  BY <1>17, OthersSpeakKeeps
<1>18. CASE ConnectionLost
  BY <1>18, ConnectionLostKeeps
<1>19. CASE Operated \/ Recovers
  BY <1>19, ServicedKeeps
<1>20. CASE UNCHANGED vars
  <2>1. UNCHANGED <<service, mode, client, inbox, clock, session, runs, server, upsets>>
    BY <1>20 DEF vars
  <2>2. Grows /\ Hears /\ Settles
    BY <2>1, InIInv DEF Grows, Hears, Settles
  <2>3. /\ service' \in Service /\ upsets' \in 0 .. MaxUpsets
        /\ clock' \in [asked : 0 .. ReadTimeout, turn : 0 .. TurnTimeout,
                       quiet : 0 .. StallTimeout]
    BY <2>1, InIInv, TypedFields DEF TypeOK
  <2> QED
    BY <2>1, <2>2, <2>3, SettlesKeeps
<1> QED
  BY <1>1, <1>2, <1>3, <1>4, <1>5, <1>6, <1>7, <1>8, <1>9, <1>10, <1>11, <1>12,
     <1>13, <1>14, <1>15, <1>16, <1>17, <1>18, <1>19, <1>20
     DEF Next, RunSteps, ServerSteps

\* What the client and the server know of each other, in every reachable state:
\* the request that may still be answered is the one the client waits for, at
\* most one answer is on its way, and every message in the queue is of a thread
\* and a turn that exist.
THEOREM InductiveInvariant == Spec => []IInv
<1>1. Init => IInv
  BY IInvInit
<1>2. IInv /\ [Next]_vars => IInv'
  BY IInvStep
<1> QED
  BY <1>1, <1>2, PTL DEF Spec

\* Every variable has its type, and the queue of the client holds at most the
\* messages the server may write and the two that end it.
THEOREM TypeCorrect == Spec => []TypeOK
<1>1. IInv => TypeOK
  BY DEF IInv
<1> QED
  BY <1>1, InductiveInvariant, PTL

\* A run that returns a result returns its own turn's, one that it prompted on
\* its thread and that the server completed, however many lanes share the
\* endpoint and whatever earlier runs have left running
\* (_message_matches_active_run).
THEOREM ResultOwn == Spec => []ResultIsOwn
<1>1. IInv => ResultIsOwn
  BY DEF IInv, Ends, HasResult, HasTurn, ResultIsOwn
<1> QED
  BY <1>1, InductiveInvariant, PTL

\* A turn that is given up for its deadline or for silence is told to stop, or
\* cannot be (_interrupt_turn), and a managed run leaves no turn running.
THEOREM GivenUpTold == Spec => []GivenUpTurnIsTold
<1>1. IInv => GivenUpTurnIsTold
  BY InIInv DEF Ends, GaveUp, ToldToStop, GivenUpTurnIsTold
<1> QED
  BY <1>1, InductiveInvariant, PTL

\* The thread that the session names for the next run was opened for this lane,
\* or the session has strayed by the way the property names.
THEOREM ResumesOwn == Spec => []ResumesOwnThread
<1>1. IInv => ResumesOwnThread
  BY InIInv DEF Threads, Known, ResumesOwnThread
<1> QED
  BY <1>1, InductiveInvariant, PTL
------------------------------------------------------------------------------
\* What single steps may do.

LEMMA FailedFields ==
    ASSUME NEW c \in Client, Failed(c)
    PROVE  /\ client'.pc \in {"idle", "building"}
           /\ client'.attempt = c.attempt \/ (mode.profile = "kept" /\ c.closed)
<1>1. CASE MayReplay(c)
  <2>1. client' = [c EXCEPT !.pc = "building", !.run = FreshState, !.attempt = 1,
                           !.why = "none", !.opened = FALSE, !.closed = FALSE]
    BY <1>1 DEF Failed
  <2> QED
    BY <1>1, <2>1, ReplayFields DEF MayReplay
<1>2. CASE ~MayReplay(c)
  <2> DEFINE d == [c EXCEPT !.closed = @ \/ c.pc = "initializing"]
             why == IF c.pc = "interrupting" THEN c.why ELSE "failed"
  <2>1. client' = [d EXCEPT !.pc = "idle", !.why = why]
    BY <1>2 DEF Failed, Returned
  <2>2. d \in Client /\ d.attempt = c.attempt
    <3>1. (c.closed \/ c.pc = "initializing") \in BOOLEAN
      OBVIOUS
    <3> QED
      BY <3>1 DEF Client
  <2> HIDE DEF d, why
  <2>3. client'.pc = "idle" /\ client'.attempt = d.attempt
    BY <2>1, <2>2 DEF Client
  <2> QED
    BY <2>2, <2>3
<1> QED
  BY <1>1, <1>2

LEMMA SendsFields ==
    ASSUME NEW c \in Client, NEW kind \in Asking, NEW rest, Sends(c, kind, rest)
    PROVE  /\ client'.pc \in {"idle", "building", kind}
           /\ \/ client'.attempt = c.attempt
              \/ mode.profile = "kept" /\ (c.closed \/ server.link # "open")
<1> DEFINE d == [c EXCEPT !.pc = IF c.closed THEN @ ELSE kind, !.closed = TRUE]
<1>1. CASE Failed(d) /\ (c.closed \/ server.link # "open")
  <2>1. d \in Client /\ d.attempt = c.attempt
    BY DEF Client
  <2> HIDE DEF d
  <2> QED
    BY <1>1, <2>1, FailedFields
<1>2. CASE client' = [c EXCEPT !.pc = kind]
  BY <1>2 DEF Client
<1> QED
  BY <1>1, <1>2 DEF Sends

\* A step that is not the run's own leaves its attempt and what it has read.
LEMMA OtherSteps ==
    ASSUME IInv, [Next]_vars, ~Answered, ~Takes, ~RequestTimesOut, ~StopTurn
    PROVE  /\ client'.attempt \in {0, client.attempt}
           /\ client.pc = "reading" /\ client'.pc = "reading" => client'.run = client.run
<1>1. client \in Client
  BY InIInv
<1>2. CASE Begin
  BY <1>2 DEF Begin
<1>3. CASE Connect
  BY <1>1, <1>3 DEF Connect, Client
<1>4. CASE NotReady
  <2> DEFINE c == [client EXCEPT !.closed = TRUE]
  <2>1. client' = [c EXCEPT !.pc = "idle", !.why = "failed"]
    BY <1>4 DEF NotReady, Returned
  <2>2. c \in Client /\ c.attempt = client.attempt
    BY <1>1 DEF Client
  <2> HIDE DEF c
  <2> QED
    BY <1>1, <2>1, <2>2 DEF Client
<1>5. CASE Killed
  BY <1>1, <1>5 DEF Killed, Client
<1>6. CASE ReaderEnds
  BY <1>6, SameClient DEF ReaderEnds
<1>7. CASE Tick \/ OpenThread \/ StartTurn \/ Answer \/ Refuse \/ Speaks \/ Odd \/ OthersSpeak
  BY <1>7 DEF Tick, OpenThread, StartTurn, Answer, Refuse, Speaks, Odd, OthersSpeak
<1>8. CASE ConnectionLost \/ Operated \/ Recovers
  <2>1. client' = client \/ client' = [client EXCEPT !.closed = TRUE]
    BY <1>8 DEF ConnectionLost, Operated, Recovers, Serviced, EndOfStream
  <2> QED
    BY <2>1, SameClient
<1>9. CASE UNCHANGED vars
  BY <1>9 DEF vars
<1> QED
  BY <1>2, <1>3, <1>4, <1>5, <1>6, <1>7, <1>8, <1>9 DEF Next, RunSteps, ServerSteps

\* The run's own steps, as far as its attempt and its text go.
LEMMA RunsSteps ==
    ASSUME IInv, Answered \/ Takes \/ RequestTimesOut \/ StopTurn
    PROVE  /\ \/ client'.attempt = client.attempt
              \/ mode.profile = "kept" /\ server.link # "open"
           /\ client.pc = "reading" /\ client'.pc = "reading" =>
                client'.run.output \subseteq client.run.output \cup {client.run.turn}
<1>1. client \in Client
  BY InIInv
<1>2. client.closed /\ ~Idle => server.link # "open"
  BY InIInv DEF Ends
<1>3. CASE Answered
  <2>1. client.pc \in Asking /\ client.pc # "reading" /\ ~Idle
    BY <1>3 DEF Answered, Asking, Idle
  <2> DEFINE x == OrKnown(client.resume, client.run.thread)
             y == OrKnown(Head(inbox).thread, client.run.thread)
             z == OrKnown(Head(inbox).turn, client.run.turn)
             asks == [client EXCEPT !.run.thread = x]
             opens == [client EXCEPT !.run.thread = y, !.opened = TRUE]
  <2>2. x \in Id /\ y \in Id
    <3>1. Head(inbox) \in Message
      BY <1>3, InIInv, Taken DEF Answered
    <3>2. Head(inbox).thread \in Id
      BY <3>1 DEF Message
    <3> QED
      BY <1>1, <3>2, ClientFields DEF OrKnown
  <2>3. \/ Sends(asks, "opening", Tail(inbox))
        \/ Sends(opens, "starting", Tail(inbox))
        \/ client' = [client EXCEPT !.pc = "reading", !.run.turn = z]
        \/ Failed(client)
    BY <1>3, <2>1 DEF Answered, Asking
  <2> HIDE DEF x, y, z
  <2>4. /\ asks \in Client /\ asks.attempt = client.attempt /\ asks.closed = client.closed
        /\ opens \in Client /\ opens.attempt = client.attempt /\ opens.closed = client.closed
    <3>1. /\ [client.run EXCEPT !.thread = x] \in RunState
          /\ [client.run EXCEPT !.thread = y] \in RunState
      BY <1>1, <2>2, ClientFields DEF RunState
    <3>2. /\ asks = [client EXCEPT !.run = [client.run EXCEPT !.thread = x]]
          /\ opens = [client EXCEPT !.run = [client.run EXCEPT !.thread = y], !.opened = TRUE]
      BY <1>1 DEF Client
    <3> QED
      BY <1>1, <3>1, <3>2 DEF Client
  <2>5. "opening" \in Asking /\ "starting" \in Asking
    BY DEF Asking
  <2> HIDE DEF asks, opens
  <2>6. CASE Sends(asks, "opening", Tail(inbox)) \/ Sends(opens, "starting", Tail(inbox))
    BY <1>2, <2>1, <2>4, <2>5, <2>6, SendsFields
  <2>7. CASE client' = [client EXCEPT !.pc = "reading", !.run.turn = z]
    BY <1>1, <2>1, <2>7 DEF Client
  <2>8. CASE Failed(client)
    BY <1>1, <1>2, <2>1, <2>8, FailedFields
  <2> QED
    BY <2>3, <2>6, <2>7, <2>8
<1>4. CASE Takes
  <2> DEFINE msg == Head(inbox)
             c == [client EXCEPT !.run = Told(msg, client.run)]
  <2>1. inbox # <<>> /\ ~Idle
    BY <1>4 DEF Takes, Idle
  <2>2. /\ msg \in Message /\ Says(msg) /\ c \in Client /\ c.run = Told(msg, client.run)
        /\ c.attempt = client.attempt /\ c.closed = client.closed
    BY <2>1, TakesFields
  <2>3. Failed(c) \/ Returned(c, "ok") \/ client' = c
    BY <1>4 DEF Takes
  <2>4. client.pc = "reading" =>
          c.run.output \subseteq client.run.output \cup {client.run.turn}
    <3> SUFFICES ASSUME client.pc = "reading"
                 PROVE  c.run.output \subseteq client.run.output \cup {client.run.turn}
      OBVIOUS
    <3>1. client.run.turn # NoId
      BY InIInv, TurnKnown DEF Started
    <3>2. client.run \in RunState /\ server \in Server
      BY InIInv, ClientFields
    <3> HIDE DEF c, msg
    <3> QED
      BY <2>2, <3>1, <3>2, ToldFields
  <2> HIDE DEF c, msg
  <2>5. CASE Failed(c)
    BY <1>2, <2>1, <2>2, <2>5, FailedFields
  <2>6. CASE Returned(c, "ok")
    <3>1. client' = [c EXCEPT !.pc = "idle", !.why = "ok"]
      BY <2>6 DEF Returned
    <3> QED
      BY <2>2, <3>1 DEF Client
  <2>7. CASE client' = c
    BY <2>2, <2>4, <2>7
  <2> QED
    BY <2>3, <2>5, <2>6, <2>7
<1>5. CASE RequestTimesOut
  <2>1. Failed(client) /\ ~Idle
    BY <1>5 DEF RequestTimesOut, Asking, Idle
  <2> QED
    BY <1>1, <1>2, <2>1, FailedFields
<1>6. CASE StopTurn
  <2> DEFINE why == IF clock.turn = TurnTimeout THEN "timed out" ELSE "stalled"
             c == [client EXCEPT !.pc = "interrupting", !.why = why]
  <2>1. Sends(c, "interrupting", inbox) /\ ~Idle
    BY <1>6 DEF StopTurn, Interrupts, Idle
  <2>2. why \in Why
    BY DEF Why
  <2> HIDE DEF why
  <2>3. c \in Client /\ c.attempt = client.attempt /\ c.closed = client.closed
    BY <1>1, <2>2 DEF Client, Asking
  <2>4. "interrupting" \in Asking
    BY DEF Asking
  <2> HIDE DEF c
  <2> QED
    BY <1>2, <2>1, <2>3, <2>4, SendsFields
<1> QED
  BY <1>3, <1>4, <1>5, <1>6

\* A run that knows its turn adds text of no other turn to its output, though
\* the queue holds that of other lanes and of earlier runs.
THEOREM TakesOwnTurn == Spec => TakesOnlyItsTurn
<1>1. IInv /\ [Next]_vars =>
        (client.pc = "reading" /\ client'.pc = "reading"
           => client'.run.output \subseteq client.run.output \cup {client.run.turn})
  BY OtherSteps, RunsSteps
<1> QED
  BY <1>1, InductiveInvariant, PTL DEF Spec, TakesOnlyItsTurn

\* A prompt is given again only over a lost connection of a kept client, and
\* there are never more turns prompted than attempts made.
THEOREM ReplaysLost == Spec => ReplaysOnlyLost
<1>1. ASSUME IInv, [Next]_vars
      PROVE  /\ client'.attempt > client.attempt
                  => mode.profile = "kept" /\ server.link # "open"
             /\ Cardinality(server'.prompted) <= client'.attempt + 1
  <2>1. client.attempt \in 0 .. 1
    BY <1>1, InIInv, ClientFields
  <2>2. \/ client'.attempt \in {0, client.attempt}
        \/ mode.profile = "kept" /\ server.link # "open"
    BY <1>1, OtherSteps, RunsSteps
  <2>3. IInv'
    BY <1>1, IInvStep
  <2>4. /\ server' \in Server /\ client' \in Client
        /\ Cardinality(server'.prompted) + Starting' + ToStart' <= client'.attempt + 1
    BY <2>3, TypedNext DEF IInv, Counts
  <2>5. /\ Cardinality(server'.prompted) \in Nat /\ client'.attempt \in 0 .. 1
        /\ Starting' \in 0..1 /\ ToStart' \in 0..1
    <3>1. server'.prompted \subseteq Own /\ client'.attempt \in 0 .. 1
      BY <2>4, ServerFields, ClientFields
    <3> QED
      BY <3>1, OwnIsFinite, FS_Subset, FS_CardinalityType DEF Starting, ToStart
  <2>6. Cardinality(server'.prompted) <= client'.attempt + 1
    BY <2>4, <2>5
  <2> QED
    BY <2>1, <2>2, <2>6
<1> QED
  BY <1>1, InductiveInvariant, PTL DEF Spec, ReplaysOnlyLost
=============================================================================
