----------------------------- MODULE IpcServer -----------------------------
(***************************************************************************)
(* The IPC server of the daemon (backend/internal/ipc/ipc.go) and the view *)
(* its clients have of the connection state (services/daemon_client.dart   *)
(* and refreshAll and applyEvent of state/app_store.dart).                 *)
(*                                                                         *)
(* A connection is served by a reader (serveConn), a writer and one        *)
(* goroutine per request, joined by the bounded channel c.send.  Every     *)
(* edge of the connection machine is broadcast while the machine is        *)
(* locked, so the edges are numbered, and a state is the number of the     *)
(* edge that led to it: event.state carries its own number, the answer to  *)
(* state.get the number of the last edge when the handler read the state.  *)
(*                                                                         *)
(* A frame that is delivered is applied by the client at once: the socket  *)
(* keeps the order.  A client that reconnects is a new client.             *)
(***************************************************************************)
EXTENDS Naturals, Sequences

CONSTANTS
  Clients,     \* connections
  Cap,         \* capacity of c.send (256)
  MaxFrames,   \* bound on the frames a client sends,
  MaxEdges     \* and on the edges of the machine

ASSUME CapAssumption == Cap \in Nat \ {0}
ASSUME BoundsAssumption == {MaxFrames, MaxEdges} \subseteq Nat

VARIABLES
  server,   \* "serving"; Close: "closing", then "waiting" for s.wg; "closed"
  edge,     \* the edges of the machine so far
  subs,     \* s.subs
  sock,     \* nc: "none", "backlog" until accepted, "open", "closed"
  reader,   \* serveConn, see Readers
  writer,   \* the writer, see Writers
  queue,    \* c.send
  calls,    \* the frames of a client and the handlers that answer them
  pending,  \* the client's _pending
  seen,     \* the last event delivered, or the last one before registration
  shown     \* the connectionState the client shows

vars == <<server, edge, subs, sock, reader, writer, queue, calls, pending, seen, shown>>

client == <<pending, seen, shown>>

\* "erring": about to queue an error answer; "draining": done is closed, and the
\* handlers are waited for; "ended": send is closed too.
Readers == {"none", "accepted", "reading", "erring", "draining", "ended"}
\* "broken": a flush has failed, which only the next write reports.
Writers == {"none", "alive", "broken", "gone"}
Stages  == {"unsent", "sent", "running", "ready", "queued", "answered", "lost"}

FrameIds == 1..MaxFrames
Edges    == 0..MaxEdges

\* A frame on c.send: an event with its edge, or the answer to a frame with the
\* edge of the snapshot ("answer") or without one ("error").
Frame == [kind : {"event", "answer", "error"}, id : {0} \cup FrameIds, edge : Edges]

\* kind "bad" stands for a frame that is not JSON, has another version or an unknown
\* method.  edge is the snapshot of a handler.
Call == [stage : Stages, kind : {"get", "bad"}, edge : Edges]

TypeOK ==
  /\ server \in {"serving", "closing", "waiting", "closed"}
  /\ edge \in Edges
  /\ subs \subseteq Clients
  /\ sock \in [Clients -> {"none", "backlog", "open", "closed"}]
  /\ reader \in [Clients -> Readers]
  /\ writer \in [Clients -> Writers]
  /\ queue \in [Clients -> Seq(Frame)] /\ \A c \in Clients : Len(queue[c]) <= Cap
  /\ calls \in [Clients -> [FrameIds -> Call]]
  /\ pending \in [Clients -> SUBSET FrameIds]
  /\ seen \in [Clients -> Edges] /\ shown \in [Clients -> Edges]

Init ==
  /\ server = "serving" /\ edge = 0 /\ subs = {}
  /\ sock = [c \in Clients |-> "none"]
  /\ reader = [c \in Clients |-> "none"] /\ writer = [c \in Clients |-> "none"]
  /\ queue = [c \in Clients |-> <<>>]
  /\ calls = [c \in Clients |-> [i \in FrameIds |->
                [stage |-> "unsent", kind |-> "get", edge |-> 0]]]
  /\ pending = [c \in Clients |-> {}]
  /\ seen = [c \in Clients |-> 0] /\ shown = [c \in Clients |-> 0]

----------------------------------------------------------------------------
\* Helpers

Stage(c, i) == calls[c][i].stage
ToStage(c, i, stage) == calls' = [calls EXCEPT ![c][i].stage = stage]

DoneClosed(c) == reader[c] \in {"draining", "ended"}
SendClosed(c) == reader[c] = "ended"
Room(c)       == Len(queue[c]) < Cap

\* c.send <- m, for a frame that answers i.
Enqueue(c, i, kind) ==
  /\ queue' = [queue EXCEPT ![c] =
                 Append(@, [kind |-> kind, id |-> i, edge |-> calls[c][i].edge])]
  /\ ToStage(c, i, "queued")

\* A frame has left the queue of c; f was its answer or an event.
Fate(c, f, stage) ==
  /\ queue' = [queue EXCEPT ![c] = Tail(@)]
  /\ IF f.kind = "event" THEN UNCHANGED calls ELSE ToStage(c, f.id, stage)

----------------------------------------------------------------------------
\* The clients

Connect(c) ==
  /\ server = "serving" /\ sock[c] = "none"
  /\ sock' = [sock EXCEPT ![c] = "backlog"]
  /\ UNCHANGED <<server, edge, subs, reader, writer, queue, calls, client>>

\* call, or a frame this daemon does not understand.
SendFrame(c, i, kind) ==
  /\ sock[c] \in {"backlog", "open"} /\ Stage(c, i) = "unsent"
  /\ \A j \in 1..(i - 1) : Stage(c, j) # "unsent"
  /\ calls' = [calls EXCEPT ![c][i].stage = "sent", ![c][i].kind = kind]
  /\ pending' = [pending EXCEPT ![c] = @ \cup {i}]
  /\ UNCHANGED <<server, edge, subs, sock, reader, writer, queue, seen, shown>>

\* The client gives a call up; a later answer is taken for an event of a type
\* that applyEvent ignores.
TimeOut(c, i) ==
  /\ i \in pending[c]
  /\ pending' = [pending EXCEPT ![c] = @ \ {i}]
  /\ UNCHANGED <<server, edge, subs, sock, reader, writer, queue, calls, seen, shown>>

\* _drop, or the client is killed.  (A frame beyond the scanner's buffer ends the
\* reader in the same way.)
Leave(c) ==
  /\ sock[c] \in {"backlog", "open"}
  /\ sock' = [sock EXCEPT ![c] = "closed"]
  /\ pending' = [pending EXCEPT ![c] = {}]
  /\ UNCHANGED <<server, edge, subs, reader, writer, queue, calls, seen, shown>>

----------------------------------------------------------------------------
\* The reader (serveConn)

\* Serve: s.wg counts the connection and its goroutine is started, even if the
\* client has left in the meantime.
Accept(c) ==
  /\ server = "serving" /\ sock[c] \in {"backlog", "closed"} /\ reader[c] = "none"
  /\ sock' = [sock EXCEPT ![c] = IF @ = "backlog" THEN "open" ELSE @]
  /\ reader' = [reader EXCEPT ![c] = "accepted"]
  /\ UNCHANGED <<server, edge, subs, writer, queue, calls, client>>

Register(c) ==
  /\ reader[c] = "accepted"
  /\ subs' = subs \cup {c}
  /\ reader' = [reader EXCEPT ![c] = "reading"]
  /\ writer' = [writer EXCEPT ![c] = "alive"]
  /\ seen' = [seen EXCEPT ![c] = edge]
  /\ UNCHANGED <<server, edge, sock, queue, calls, pending, shown>>

\* The next frame, which the scanner may still hold when the socket is closed.
NextFrame(c, i) ==
  /\ reader[c] = "reading" /\ Stage(c, i) = "sent"
  /\ \A j \in 1..(i - 1) : Stage(c, j) # "sent"

ReadRequest(c, i) ==
  /\ NextFrame(c, i) /\ calls[c][i].kind = "get"
  /\ ToStage(c, i, "running")
  /\ UNCHANGED <<server, edge, subs, sock, reader, writer, queue, client>>

ReadBad(c, i) ==
  /\ NextFrame(c, i) /\ calls[c][i].kind = "bad"
  /\ ToStage(c, i, "ready")
  /\ reader' = [reader EXCEPT ![c] = "erring"]
  /\ UNCHANGED <<server, edge, subs, sock, writer, queue, client>>

\* The error answer goes to the queue without a look at done.
SendError(c, i) ==
  /\ reader[c] = "erring" /\ Stage(c, i) = "ready" /\ calls[c][i].kind = "bad"
  /\ Room(c)
  /\ Enqueue(c, i, "error")
  /\ reader' = [reader EXCEPT ![c] = "reading"]
  /\ UNCHANGED <<server, edge, subs, sock, writer, client>>

\* The socket is closed, by whichever side: out of subs, and done is closed.
ReadEnds(c) ==
  /\ reader[c] = "reading" /\ sock[c] = "closed"
  /\ subs' = subs \ {c}
  /\ reader' = [reader EXCEPT ![c] = "draining"]
  /\ UNCHANGED <<server, edge, sock, writer, queue, calls, client>>

\* Mutation of Teardown: send is closed before the handlers are waited for.
TeardownEarly(c) ==
  /\ reader[c] = "draining"
  /\ reader' = [reader EXCEPT ![c] = "ended"]
  /\ UNCHANGED <<server, edge, subs, sock, writer, queue, calls, client>>

InFlight(c, i) == calls[c][i].kind = "get" /\ Stage(c, i) \in {"running", "ready"}

\* c.wg is down to zero: send is closed, and s.wg counts one less.
Teardown(c) ==
  /\ reader[c] = "draining"
  /\ \A i \in FrameIds : ~ InFlight(c, i)
  /\ reader' = [reader EXCEPT ![c] = "ended"]
  /\ UNCHANGED <<server, edge, subs, sock, writer, queue, calls, client>>

----------------------------------------------------------------------------
\* The handlers

\* hGetState reads the machine; the answer is made out later.
Handle(c, i) ==
  /\ calls[c][i].kind = "get" /\ Stage(c, i) = "running"
  /\ calls' = [calls EXCEPT ![c][i].stage = "ready", ![c][i].edge = edge]
  /\ UNCHANGED <<server, edge, subs, sock, reader, writer, queue, client>>

\* Mutations of Answer: it only waits for room; it drops what finds no room.
AnswerWaits(c, i) ==
  /\ calls[c][i].kind = "get" /\ Stage(c, i) = "ready"
  /\ Room(c)
  /\ Enqueue(c, i, "answer")
  /\ UNCHANGED <<server, edge, subs, sock, reader, writer, client>>

AnswerDrops(c, i) ==
  /\ calls[c][i].kind = "get" /\ Stage(c, i) = "ready"
  /\ \/ Room(c) /\ Enqueue(c, i, "answer")
     \/ ~ Room(c) /\ ToStage(c, i, "lost") /\ UNCHANGED queue
  /\ UNCHANGED <<server, edge, subs, sock, reader, writer, client>>

\* The select at the end of a request: room on c.send, or done.
Answer(c, i) ==
  /\ calls[c][i].kind = "get" /\ Stage(c, i) = "ready"
  /\ \/ Room(c) /\ Enqueue(c, i, "answer")
     \/ DoneClosed(c) /\ ToStage(c, i, "lost") /\ UNCHANGED queue
  /\ UNCHANGED <<server, edge, subs, sock, reader, writer, client>>

----------------------------------------------------------------------------
\* The writer, and what the client makes of a frame

Working(c) == writer[c] = "alive" /\ queue[c] # <<>>

\* The answer to a call of refreshAll that has not been given up.
Awaited(c, f) == f.kind = "answer" /\ f.id \in pending[c]

\* _onFrame: an awaited answer completes its call and its state is shown, an
\* event is applied, anything else is ignored.
Apply(c, f) ==
  /\ pending' = [pending EXCEPT ![c] = @ \ {f.id}]
  /\ seen' = IF f.kind = "event" THEN [seen EXCEPT ![c] = f.edge] ELSE seen
  /\ shown' = IF f.kind = "event" \/ Awaited(c, f)
              THEN [shown EXCEPT ![c] = f.edge] ELSE shown

Deliver(c) ==
  /\ Working(c) /\ sock[c] = "open"
  /\ Fate(c, Head(queue[c]), "answered")
  /\ Apply(c, Head(queue[c]))
  /\ UNCHANGED <<server, edge, subs, sock, reader, writer>>

\* The write or the flush fails: nobody reads for 5s, or the socket is closed.
\* Only a failed write ends the writer; nothing closes the socket.
WriteFails(c) ==
  /\ Working(c)
  /\ Fate(c, Head(queue[c]), "lost")
  /\ writer' \in {[writer EXCEPT ![c] = w] : w \in {"broken", "gone"}}
  /\ UNCHANGED <<server, edge, subs, sock, reader, client>>

\* The buffered writer remembers the failed flush.
WriterStops(c) ==
  /\ writer[c] = "broken" /\ queue[c] # <<>>
  /\ Fate(c, Head(queue[c]), "lost")
  /\ writer' = [writer EXCEPT ![c] = "gone"]
  /\ UNCHANGED <<server, edge, subs, sock, reader, client>>

\* send is closed and drained.
WriterEnds(c) ==
  /\ writer[c] \in {"alive", "broken"} /\ SendClosed(c) /\ queue[c] = <<>>
  /\ writer' = [writer EXCEPT ![c] = "gone"]
  /\ UNCHANGED <<server, edge, subs, sock, reader, queue, calls, client>>

----------------------------------------------------------------------------
\* Broadcast and Close

Event == [kind |-> "event", id |-> 0, edge |-> edge + 1]

\* Mutation of Broadcast: a full queue misses the event.
BroadcastSkips ==
  /\ edge < MaxEdges
  /\ edge' = edge + 1
  /\ queue' = [c \in Clients |->
                 IF c \in subs /\ Room(c) THEN Append(queue[c], Event) ELSE queue[c]]
  /\ UNCHANGED <<server, subs, sock, reader, writer, calls, client>>

\* An edge of the machine: everyone in subs gets the event, and who has no room
\* for it is dropped.
Broadcast ==
  /\ edge < MaxEdges
  /\ edge' = edge + 1
  /\ LET slow == {c \in subs : ~ Room(c)} IN
       /\ subs' = subs \ slow
       /\ sock' = [c \in Clients |-> IF c \in slow THEN "closed" ELSE sock[c]]
       /\ queue' = [c \in Clients |->
                      IF c \in subs \ slow THEN Append(queue[c], Event) ELSE queue[c]]
  /\ UNCHANGED <<server, reader, writer, calls, client>>

\* Close: the listener goes, with whoever it has not accepted.
CloseListener ==
  /\ server = "serving" /\ server' = "closing"
  /\ sock' = [c \in Clients |-> IF sock[c] = "backlog" THEN "closed" ELSE sock[c]]
  /\ UNCHANGED <<edge, subs, reader, writer, queue, calls, client>>

CloseConns ==
  /\ server = "closing" /\ server' = "waiting"
  /\ sock' = [c \in Clients |-> IF c \in subs THEN "closed" ELSE sock[c]]
  /\ UNCHANGED <<edge, subs, reader, writer, queue, calls, client>>

\* s.wg is down to zero: Close returns, and run with it.
CloseReturns ==
  /\ server = "waiting" /\ server' = "closed"
  /\ \A c \in Clients : reader[c] \in {"none", "ended"}
  /\ UNCHANGED <<edge, subs, sock, reader, writer, queue, calls, client>>

----------------------------------------------------------------------------
Handler(c, i) == Handle(c, i) \/ Answer(c, i)
Reader(c) ==
  \/ Accept(c) \/ Register(c) \/ ReadEnds(c) \/ Teardown(c)
  \/ \E i \in FrameIds : ReadRequest(c, i) \/ ReadBad(c, i) \/ SendError(c, i)
Writer(c) == Deliver(c) \/ WriteFails(c) \/ WriterStops(c) \/ WriterEnds(c)
Client(c) ==
  \/ Connect(c) \/ Leave(c)
  \/ \E i \in FrameIds : TimeOut(c, i) \/ \E kind \in {"get", "bad"} : SendFrame(c, i, kind)
Closing == CloseConns \/ CloseReturns

\* When Close has returned the process ends.
Next ==
  /\ server # "closed"
  /\ \/ \E c \in Clients : \/ Client(c) \/ Reader(c) \/ Writer(c)
                           \/ \E i \in FrameIds : Handler(c, i)
     \/ Broadcast \/ CloseListener \/ Closing

Spec == Init /\ [][Next]_vars

Running(A) == server # "closed" /\ A

\* Goroutines that can run do; a handler ends, for all it calls has a timeout.
\* Nothing is assumed of clients, nor that the machine moves.
Fairness ==
  /\ WF_vars(Closing)
  /\ \A c \in Clients : /\ WF_vars(Running(Reader(c))) /\ WF_vars(Running(Writer(c)))
                        /\ \A i \in FrameIds : WF_vars(Running(Handler(c, i)))

FairSpec == Spec /\ Fairness

----------------------------------------------------------------------------
\* Properties

\* Nobody is left who could send on a closed channel, which would end the daemon
\* ("never send-on-closed"): not a handler, not a broadcast, not the reader.
NoSendOnClosed ==
  \A c \in Clients : SendClosed(c) =>
    c \notin subs /\ \A i \in FrameIds : ~ InFlight(c, i)

\* A queue with every event after the edge `last' up to `now', in order.
Gapless(q, last, now) ==
  /\ \A e \in (last + 1)..now : \E k \in 1..Len(q) : q[k].kind = "event" /\ q[k].edge = e
  /\ \A k \in 1..Len(q) : q[k].kind = "event" =>
       /\ last < q[k].edge /\ q[k].edge <= now
       /\ \A j \in 1..(k - 1) : q[j].kind = "event" => q[j].edge < q[k].edge

\* A subscriber with a working writer misses no edge ("every state-machine edge"):
\* what it has seen and what is queued lead up to the last, in order.
StreamHasNoGap ==
  \A c \in subs : writer[c] = "alive" => Gapless(queue[c], seen[c], edge)

\* While a connection works, what the client asks is answered, however many
\* handlers and events compete for the queue.
AnswersArrive ==
  \A c \in Clients, i \in FrameIds :
    Stage(c, i) = "sent" ~>
      \/ Stage(c, i) = "answered"
      \/ sock[c] # "open" \/ writer[c] # "alive"

\* A teardown is not held up by a handler whose answer nobody takes any more
\* ("stop waiting on a dead writer via done instead of leaking").
TeardownEnds == \A c \in Clients : reader[c] = "draining" ~> reader[c] = "ended"
=============================================================================
