-------------------------- MODULE IpcServer_proofs --------------------------
(***************************************************************************)
(* Proofs about IpcServer, for any number of connections, any capacity of  *)
(* the queues and any number of frames and edges.                          *)
(***************************************************************************)
EXTENDS IpcServer, TLAPS

USE DEF client, Readers, Writers, Room, SendClosed, DoneClosed

\* What the properties leave out: until it is registered a connection has
\* neither queue nor handlers, and a connection being torn down has left subs.
Registered ==
  \A c \in Clients :
    /\ reader[c] \in {"none", "accepted"} =>
         queue[c] = <<>> /\ \A i \in FrameIds : ~ InFlight(c, i)
    /\ c \in subs => reader[c] \in {"reading", "erring"}

\* No subscriber has seen an edge that has not happened.
SeenPast == \A c \in subs : seen[c] <= edge

\* The inductive invariant of the server.
ServerInv == TypeOK /\ Registered /\ SeenPast /\ NoSendOnClosed /\ StreamHasNoGap

----------------------------------------------------------------------------
\* Types.

\* A function of functions stays one when one value is replaced.
LEMMA NestedType ==
  ASSUME NEW C, NEW I, NEW R, NEW g \in [C -> [I -> R]], NEW c \in C, NEW i, NEW r \in R
  PROVE  [g EXCEPT ![c] = [g[c] EXCEPT ![i] = r]] \in [C -> [I -> R]]
<1>1. [g[c] EXCEPT ![i] = r] \in [I -> R]  OBVIOUS
<1> QED  BY <1>1

\* A frame that gets on keeps its kind and its snapshot.
LEMMA StageType ==
  ASSUME TypeOK, NEW c \in Clients, NEW i, NEW stage \in Stages, ToStage(c, i, stage)
  PROVE  calls' \in [Clients -> [FrameIds -> Call]]
<1> DEFINE call == [calls[c][i] EXCEPT !.stage = stage]
<1>1. calls' = [calls EXCEPT ![c] = [calls[c] EXCEPT ![i] = call]]  BY DEF ToStage
<1>2. CASE i \in FrameIds
  <2>1. calls[c][i] \in Call  BY <1>2 DEF TypeOK
  <2>2. call \in Call  BY <2>1 DEF Call
  <2> HIDE DEF call
  <2> QED  BY <1>1, <2>2, NestedType DEF TypeOK
<1>3. CASE i \notin FrameIds
  <2> HIDE DEF call
  <2>1. calls[c] \in [FrameIds -> Call]  BY DEF TypeOK
  <2>2. [calls[c] EXCEPT ![i] = call] = calls[c]  BY <1>3, <2>1
  <2> QED  BY <1>1, <2>1, <2>2 DEF TypeOK
<1> QED  BY <1>2, <1>3

\* Queues stay queues.
LEMMA EnqueueType ==
  ASSUME TypeOK, NEW c \in Clients, NEW i \in FrameIds,
         NEW kind \in {"answer", "error"}, Room(c), Enqueue(c, i, kind)
  PROVE  /\ queue' \in [Clients -> Seq(Frame)]
         /\ \A d \in Clients : Len(queue'[d]) <= Cap
         /\ calls' \in [Clients -> [FrameIds -> Call]]
<1> DEFINE f == [kind |-> kind, id |-> i, edge |-> calls[c][i].edge]
<1>1. f \in Frame
  <2>1. calls[c][i] \in Call  BY DEF TypeOK
  <2> QED  BY <2>1 DEF Frame, Call
<1>2. queue' = [queue EXCEPT ![c] = Append(queue[c], f)]  BY DEF Enqueue
<1>3. calls' \in [Clients -> [FrameIds -> Call]]
  BY StageType DEF Enqueue, Stages
<1> HIDE DEF f
<1>4. queue[c] \in Seq(Frame) /\ queue \in [Clients -> Seq(Frame)]  BY DEF TypeOK
<1>5. Append(queue[c], f) \in Seq(Frame) /\ Len(Append(queue[c], f)) = Len(queue[c]) + 1
  BY <1>1, <1>4
<1>6. Len(queue[c]) \in Nat /\ Cap \in Nat  BY <1>4, CapAssumption
<1>7. \A d \in Clients : Len(queue'[d]) <= Cap
  <2> SUFFICES ASSUME NEW d \in Clients PROVE Len(queue'[d]) <= Cap  OBVIOUS
  <2>1. CASE d = c  BY <1>2, <1>4, <1>5, <1>6, <2>1
  <2>2. CASE d # c  BY <1>2, <1>4, <2>2 DEF TypeOK
  <2> QED  BY <2>1, <2>2
<1> QED  BY <1>2, <1>3, <1>4, <1>5, <1>7

\* A frame that leaves a queue leaves a queue behind.
LEMMA FateType ==
  ASSUME TypeOK, NEW c \in Clients, NEW stage \in Stages, queue[c] # <<>>,
         Fate(c, Head(queue[c]), stage)
  PROVE  /\ queue' = [queue EXCEPT ![c] = Tail(queue[c])]
         /\ queue' \in [Clients -> Seq(Frame)]
         /\ \A d \in Clients : Len(queue'[d]) <= Cap
         /\ calls' \in [Clients -> [FrameIds -> Call]]
<1>1. queue' = [queue EXCEPT ![c] = Tail(queue[c])]  BY DEF Fate
<1>2. queue[c] \in Seq(Frame) /\ queue \in [Clients -> Seq(Frame)]  BY DEF TypeOK
<1>3. /\ Tail(queue[c]) \in Seq(Frame) /\ Len(Tail(queue[c])) = Len(queue[c]) - 1
      /\ Len(queue[c]) \in Nat /\ Cap \in Nat
  BY <1>2, CapAssumption
<1>4. \A d \in Clients : Len(queue'[d]) <= Cap
  <2> SUFFICES ASSUME NEW d \in Clients PROVE Len(queue'[d]) <= Cap  OBVIOUS
  <2>1. Len(queue[c]) <= Cap  BY DEF TypeOK
  <2>2. CASE d = c  BY <1>1, <1>2, <1>3, <2>1, <2>2
  <2>3. CASE d # c  BY <1>1, <1>2, <2>3 DEF TypeOK
  <2> QED  BY <2>2, <2>3
<1>5. calls' \in [Clients -> [FrameIds -> Call]]
  <2>1. calls' = calls \/ ToStage(c, Head(queue[c]).id, stage)  BY DEF Fate
  <2>2. CASE calls' = calls  BY <2>2 DEF TypeOK
  <2>3. CASE ToStage(c, Head(queue[c]).id, stage)  BY <2>3, StageType
  <2> QED  BY <2>1, <2>2, <2>3
<1> QED  BY <1>1, <1>2, <1>3, <1>4, <1>5

\* One step keeps the types.
LEMMA TypeStep == ASSUME TypeOK, [Next]_vars PROVE TypeOK'
<1>1. ASSUME NEW c \in Clients, Client(c) PROVE TypeOK'
  <2>1. CASE Connect(c)  BY <2>1 DEF Connect, TypeOK
  <2>2. CASE Leave(c)  BY <2>2 DEF Leave, TypeOK
  <2>3. ASSUME NEW i \in FrameIds, TimeOut(c, i) PROVE TypeOK'
    BY <2>3 DEF TimeOut, TypeOK
  <2>4. ASSUME NEW i \in FrameIds, NEW kind \in {"get", "bad"}, SendFrame(c, i, kind)
        PROVE TypeOK'
    <3> DEFINE call == [calls[c][i] EXCEPT !.stage = "sent", !.kind = kind]
    <3>1. calls' = [calls EXCEPT ![c] = [calls[c] EXCEPT ![i] = call]]
      BY <2>4 DEF SendFrame
    <3>2. call \in Call
      <4>1. calls[c][i] \in Call  BY DEF TypeOK
      <4> QED  BY <4>1 DEF Call, Stages
    <3> HIDE DEF call
    <3>3. calls' \in [Clients -> [FrameIds -> Call]]
      BY <3>1, <3>2, NestedType DEF TypeOK
    <3>4. pending' \in [Clients -> SUBSET FrameIds]  BY <2>4 DEF SendFrame, TypeOK
    <3>5. UNCHANGED <<server, edge, subs, sock, reader, writer, queue, seen, shown>>
      BY <2>4 DEF SendFrame
    <3> QED  BY <3>3, <3>4, <3>5 DEF TypeOK
  <2> QED  BY <1>1, <2>1, <2>2, <2>3, <2>4 DEF Client
<1>2. ASSUME NEW c \in Clients, Reader(c) PROVE TypeOK'
  <2>1. CASE Accept(c)  BY <2>1 DEF Accept, TypeOK
  <2>2. CASE Register(c)  BY <2>2 DEF Register, TypeOK
  <2>3. CASE ReadEnds(c)  BY <2>3 DEF ReadEnds, TypeOK
  <2>4. CASE Teardown(c)  BY <2>4 DEF Teardown, TypeOK
  <2>5. ASSUME NEW i \in FrameIds, ReadRequest(c, i) \/ ReadBad(c, i) PROVE TypeOK'
    <3>1. calls' \in [Clients -> [FrameIds -> Call]]
      BY <2>5, StageType DEF ReadRequest, ReadBad, Stages
    <3>2. reader' \in [Clients -> Readers]  BY <2>5 DEF ReadRequest, ReadBad, TypeOK
    <3>3. UNCHANGED <<server, edge, subs, sock, writer, queue, client>>
      BY <2>5 DEF ReadRequest, ReadBad
    <3> QED  BY <3>1, <3>2, <3>3 DEF TypeOK
  <2>6. ASSUME NEW i \in FrameIds, SendError(c, i) PROVE TypeOK'
    <3>1. Room(c) /\ Enqueue(c, i, "error")  BY <2>6 DEF SendError
    <3>2. reader' \in [Clients -> Readers]  BY <2>6 DEF SendError, TypeOK
    <3>3. UNCHANGED <<server, edge, subs, sock, writer, client>>
      BY <2>6 DEF SendError
    <3> QED  BY <3>1, <3>2, <3>3, EnqueueType DEF TypeOK
  <2> QED  BY <1>2, <2>1, <2>2, <2>3, <2>4, <2>5, <2>6 DEF Reader
<1>3. ASSUME NEW c \in Clients, Writer(c) PROVE TypeOK'
  <2>1. CASE Deliver(c)
    <3> DEFINE f == Head(queue[c])
    <3>1. f \in Frame /\ queue[c] # <<>>  BY <2>1 DEF Deliver, Working, TypeOK
    <3>2. Fate(c, f, "answered") /\ Apply(c, f)  BY <2>1 DEF Deliver
    <3>3. UNCHANGED <<server, edge, subs, sock, reader, writer>>  BY <2>1 DEF Deliver
    <3>4. /\ queue' \in [Clients -> Seq(Frame)] /\ \A d \in Clients : Len(queue'[d]) <= Cap
          /\ calls' \in [Clients -> [FrameIds -> Call]]
      BY <3>1, <3>2, FateType DEF Stages
    <3> HIDE DEF f
    <3>5. /\ pending' \in [Clients -> SUBSET FrameIds]
          /\ seen' \in [Clients -> Edges] /\ shown' \in [Clients -> Edges]
      BY <3>1, <3>2 DEF Apply, TypeOK, Frame
    <3> QED  BY <3>3, <3>4, <3>5 DEF TypeOK
  <2>2. CASE WriteFails(c) \/ WriterStops(c)
    <3>1. queue[c] # <<>> /\ Fate(c, Head(queue[c]), "lost")
      BY <2>2 DEF WriteFails, WriterStops, Working
    <3>2. writer' \in [Clients -> Writers]  BY <2>2 DEF WriteFails, WriterStops, TypeOK
    <3>3. UNCHANGED <<server, edge, subs, sock, reader, client>>
      BY <2>2 DEF WriteFails, WriterStops
    <3> QED  BY <3>1, <3>2, <3>3, FateType DEF TypeOK, Stages
  <2>3. CASE WriterEnds(c)  BY <2>3 DEF WriterEnds, TypeOK
  <2> QED  BY <1>3, <2>1, <2>2, <2>3 DEF Writer
<1>4. ASSUME NEW c \in Clients, NEW i \in FrameIds, Handler(c, i) PROVE TypeOK'
  <2>1. CASE Handle(c, i)
    <3> DEFINE call == [calls[c][i] EXCEPT !.stage = "ready", !.edge = edge]
    <3>1. calls' = [calls EXCEPT ![c] = [calls[c] EXCEPT ![i] = call]]
      BY <2>1 DEF Handle
    <3>2. call \in Call
      <4>1. calls[c][i] \in Call /\ edge \in Edges  BY DEF TypeOK
      <4> QED  BY <4>1 DEF Call, Stages
    <3> HIDE DEF call
    <3>3. calls' \in [Clients -> [FrameIds -> Call]]
      BY <3>1, <3>2, NestedType DEF TypeOK
    <3>4. UNCHANGED <<server, edge, subs, sock, reader, writer, queue, client>>
      BY <2>1 DEF Handle
    <3> QED  BY <3>3, <3>4 DEF TypeOK
  <2>2. CASE Answer(c, i)
    <3>1. UNCHANGED <<server, edge, subs, sock, reader, writer, client>>
      BY <2>2 DEF Answer
    <3>2. CASE Room(c) /\ Enqueue(c, i, "answer")
      BY <3>1, <3>2, EnqueueType DEF TypeOK
    <3>3. CASE ToStage(c, i, "lost") /\ UNCHANGED queue
      BY <3>1, <3>3, StageType DEF TypeOK, Stages
    <3> QED  BY <2>2, <3>2, <3>3 DEF Answer
  <2> QED  BY <1>4, <2>1, <2>2 DEF Handler
<1>5. ASSUME Broadcast PROVE TypeOK'
  <2> DEFINE slow == {c \in subs : ~ Room(c)}
  <2>1. /\ edge' \in Edges /\ subs' \subseteq Clients
        /\ sock' \in [Clients -> {"none", "backlog", "open", "closed"}]
        /\ UNCHANGED <<server, reader, writer, calls, client>>
    BY <1>5, BoundsAssumption DEF Broadcast, TypeOK, Edges
  <2>2. Event \in Frame
    <3>1. edge + 1 \in Edges  BY <1>5, BoundsAssumption DEF Broadcast, TypeOK, Edges
    <3> QED  BY <3>1 DEF Event, Frame
  <2>3. queue' = [c \in Clients |-> IF c \in subs \ slow THEN Append(queue[c], Event)
                                                        ELSE queue[c]]
    BY <1>5 DEF Broadcast
  <2> HIDE DEF slow
  <2>4. \A c \in Clients :
          /\ Append(queue[c], Event) \in Seq(Frame)
          /\ Len(Append(queue[c], Event)) = Len(queue[c]) + 1
          /\ Len(queue[c]) \in Nat /\ Cap \in Nat
    BY <2>2, CapAssumption DEF TypeOK
  <2>5. queue' \in [Clients -> Seq(Frame)]  BY <2>3, <2>4 DEF TypeOK
  <2>6. \A c \in Clients : Len(queue'[c]) <= Cap
    BY <2>3, <2>4 DEF TypeOK, slow
  <2> QED  BY <2>1, <2>5, <2>6 DEF TypeOK
<1>6. CASE CloseListener \/ Closing
  BY <1>6 DEF CloseListener, Closing, CloseConns, CloseReturns, TypeOK
<1>7. CASE UNCHANGED vars  BY <1>7 DEF vars, TypeOK
<1> QED  BY <1>1, <1>2, <1>3, <1>4, <1>5, <1>6, <1>7 DEF Next

\* It starts well typed.
LEMMA InitType == Init => TypeOK
<1>1. 0 \in Edges /\ <<>> \in Seq(Frame) /\ Len(<<>>) <= Cap
  BY CapAssumption, BoundsAssumption DEF Edges
<1>2. [stage |-> "unsent", kind |-> "get", edge |-> 0] \in Call
  BY <1>1 DEF Call, Stages
<1> QED  BY <1>1, <1>2 DEF Init, TypeOK

\* Every variable keeps its type: no queue grows beyond its capacity.
THEOREM SpecTypeOK == Spec => []TypeOK
<1> QED  BY InitType, TypeStep, PTL DEF Spec

----------------------------------------------------------------------------
\* Handlers: only a reader that reads starts one.

\* ToStage moves one frame and changes no kind.
LEMMA StageFacts ==
  ASSUME TypeOK, NEW c \in Clients, NEW i, NEW stage, ToStage(c, i, stage),
         NEW d \in Clients, NEW j \in FrameIds
  PROVE  /\ calls'[d][j].kind = calls[d][j].kind
         /\ calls'[d][j].stage = IF d = c /\ j = i THEN stage ELSE calls[d][j].stage
<1>1. calls \in [Clients -> [FrameIds -> Call]]  BY DEF TypeOK
<1>2. calls' = [calls EXCEPT ![c] = [calls[c] EXCEPT ![i] =
                  [calls[c][i] EXCEPT !.stage = stage]]]
  BY DEF ToStage
<1>3. calls[c] \in [FrameIds -> Call] /\ calls[c][j] \in Call  BY <1>1
<1>4. CASE d = c /\ j = i
  <2>1. calls'[d][j] = [calls[c][j] EXCEPT !.stage = stage]  BY <1>1, <1>2, <1>3, <1>4
  <2> QED  BY <2>1, <1>3, <1>4 DEF Call
<1>5. CASE ~ (d = c /\ j = i)  BY <1>1, <1>2, <1>3, <1>5
<1> QED  BY <1>4, <1>5

\* What is in flight after a step was so before, or was started by a reader that reads.
LEMMA FlightStep ==
  ASSUME TypeOK, [Next]_vars, NEW d \in Clients, NEW j \in FrameIds, InFlight(d, j)'
  PROVE  InFlight(d, j) \/ (reader[d] = "reading" /\ reader'[d] = "reading")
<1>1. CASE UNCHANGED calls  BY <1>1 DEF InFlight, Stage
<1>2. ASSUME NEW c \in Clients, NEW i, NEW stage \in {"queued", "answered", "lost"},
             ToStage(c, i, stage)
      PROVE  InFlight(d, j)
  BY <1>2, StageFacts DEF InFlight, Stage
<1>3. ASSUME NEW c \in Clients, Client(c) PROVE InFlight(d, j)
  <2>1. CASE UNCHANGED calls  BY <2>1 DEF InFlight, Stage
  <2>2. ASSUME NEW i \in FrameIds, NEW kind \in {"get", "bad"}, SendFrame(c, i, kind)
        PROVE  InFlight(d, j)
    <3>1. calls' = [calls EXCEPT ![c] = [calls[c] EXCEPT ![i] =
                     [calls[c][i] EXCEPT !.stage = "sent", !.kind = kind]]]
      BY <2>2 DEF SendFrame
    <3>2. calls \in [Clients -> [FrameIds -> Call]] /\ calls[c][i] \in Call  BY DEF TypeOK
    <3>3. calls'[c][i].stage = "sent"
      <4>1. calls'[c][i] = [calls[c][i] EXCEPT !.stage = "sent", !.kind = kind]
        BY <3>1, <3>2
      <4> QED  BY <4>1, <3>2 DEF Call
    <3>4. ~ (d = c /\ j = i)  BY <3>3 DEF InFlight, Stage
    <3>5. calls'[d][j] = calls[d][j]  BY <3>1, <3>2, <3>4
    <3> QED  BY <3>5 DEF InFlight, Stage
  <2> QED  BY <1>3, <2>1, <2>2 DEF Client, Connect, Leave, TimeOut
<1>4. ASSUME NEW c \in Clients, Reader(c)
      PROVE  InFlight(d, j) \/ (reader[d] = "reading" /\ reader'[d] = "reading")
  <2>1. ASSUME NEW i \in FrameIds, ReadRequest(c, i)
        PROVE  InFlight(d, j) \/ (reader[d] = "reading" /\ reader'[d] = "reading")
    BY <2>1, StageFacts DEF ReadRequest, NextFrame, InFlight, Stage
  <2>2. ASSUME NEW i \in FrameIds, ReadBad(c, i) PROVE InFlight(d, j)
    BY <2>2, StageFacts DEF ReadBad, NextFrame, InFlight, Stage
  <2>3. ASSUME NEW i \in FrameIds, SendError(c, i) PROVE InFlight(d, j)
    BY <2>3, <1>2 DEF SendError, Enqueue
  <2> QED  BY <1>1, <1>4, <2>1, <2>2, <2>3 DEF Reader, Accept, Register, ReadEnds, Teardown
<1>5. ASSUME NEW c \in Clients, Writer(c) PROVE InFlight(d, j)
  <2>1. UNCHANGED calls \/ \E stage \in {"answered", "lost"} : ToStage(c, Head(queue[c]).id, stage)
    BY <1>5 DEF Writer, Deliver, WriteFails, WriterStops, WriterEnds, Fate
  <2> QED  BY <1>1, <1>2, <2>1 DEF InFlight, Stage
<1>6. ASSUME NEW c \in Clients, NEW i \in FrameIds, Handler(c, i) PROVE InFlight(d, j)
  <2>1. CASE Handle(c, i)
    <3>1. calls' = [calls EXCEPT ![c] = [calls[c] EXCEPT ![i] =
                     [calls[c][i] EXCEPT !.stage = "ready", !.edge = edge]]]
      BY <2>1 DEF Handle
    <3>2. calls \in [Clients -> [FrameIds -> Call]]  BY DEF TypeOK
    <3>3. CASE d = c /\ j = i  BY <2>1, <3>3 DEF Handle, InFlight, Stage
    <3>4. CASE ~ (d = c /\ j = i)
      <4>1. calls'[d][j] = calls[d][j]  BY <3>1, <3>2, <3>4
      <4> QED  BY <4>1 DEF InFlight, Stage
    <3> QED  BY <3>3, <3>4
  <2>2. CASE Answer(c, i)  BY <2>2, <1>2 DEF Answer, Enqueue
  <2> QED  BY <1>6, <2>1, <2>2 DEF Handler
<1>7. CASE Broadcast \/ CloseListener \/ Closing \/ UNCHANGED vars
  BY <1>1, <1>7 DEF Broadcast, CloseListener, Closing, CloseConns, CloseReturns, vars
<1> QED  BY <1>3, <1>4, <1>5, <1>6, <1>7 DEF Next

\* Only a connection that reads, or has a handler, gets a frame queued.
LEMMA QueueStep ==
  ASSUME TypeOK, Registered, [Next]_vars, NEW d \in Clients,
         reader[d] \in {"none", "accepted"}
  PROVE  queue'[d] = <<>>
<1>1. queue[d] = <<>> /\ d \notin subs /\ \A i \in FrameIds : ~ InFlight(d, i)
  BY DEF Registered
<1>2. ASSUME NEW c \in Clients, NEW i, NEW kind, Enqueue(c, i, kind), c # d
      PROVE  queue'[d] = queue[d]
  BY <1>2 DEF Enqueue, TypeOK
<1>3. ASSUME NEW c \in Clients, Client(c) PROVE queue'[d] = queue[d]
  BY <1>3 DEF Client, Connect, Leave, TimeOut, SendFrame
<1>4. ASSUME NEW c \in Clients, Reader(c) PROVE queue'[d] = queue[d]
  <2>1. ASSUME NEW i \in FrameIds, SendError(c, i) PROVE queue'[d] = queue[d]
    BY <2>1, <1>2 DEF SendError
  <2> QED  BY <1>4, <2>1 DEF Reader, Accept, Register, ReadEnds, Teardown, ReadRequest, ReadBad
<1>5. ASSUME NEW c \in Clients, Writer(c) PROVE queue'[d] = queue[d]
  <2>1. CASE UNCHANGED queue  BY <2>1
  <2>2. CASE queue[c] # <<>> /\ \E stage : Fate(c, Head(queue[c]), stage)
    BY <2>2, <1>1 DEF Fate, TypeOK
  <2> QED
    BY <1>5, <2>1, <2>2 DEF Writer, Deliver, WriteFails, WriterStops, WriterEnds, Working
<1>6. ASSUME NEW c \in Clients, NEW i \in FrameIds, Handler(c, i) PROVE queue'[d] = queue[d]
  <2>1. CASE Handle(c, i)  BY <2>1 DEF Handle
  <2>2. CASE Answer(c, i)
    <3>1. InFlight(c, i)  BY <2>2 DEF Answer, InFlight
    <3>2. c # d  BY <3>1, <1>1
    <3> QED  BY <2>2, <3>2, <1>2 DEF Answer
  <2> QED  BY <1>6, <2>1, <2>2 DEF Handler
<1>7. CASE Broadcast  BY <1>7, <1>1 DEF Broadcast
<1>8. CASE CloseListener \/ Closing \/ UNCHANGED vars
  BY <1>1, <1>8 DEF CloseListener, Closing, CloseConns, CloseReturns, vars
<1> QED  BY <1>1, <1>3, <1>4, <1>5, <1>6, <1>7, <1>8 DEF Next

\* How readers and subs move together.
LEMMA ReaderStep ==
  ASSUME TypeOK, Registered, [Next]_vars, NEW d \in Clients
  PROVE  /\ reader'[d] \in {"none", "accepted"} => reader[d] \in {"none", "accepted"}
         /\ d \in subs' => reader'[d] \in {"reading", "erring"}
         /\ reader'[d] = "ended" =>
              \/ reader[d] = "ended"
              \/ UNCHANGED calls /\ \A i \in FrameIds : ~ InFlight(d, i)
<1>1. CASE UNCHANGED <<subs, reader>>  BY <1>1 DEF Registered
<1>2. ASSUME NEW c \in Clients, Reader(c)
      PROVE  /\ reader'[d] \in {"none", "accepted"} => reader[d] \in {"none", "accepted"}
             /\ d \in subs' => reader'[d] \in {"reading", "erring"}
             /\ reader'[d] = "ended" =>
                  \/ reader[d] = "ended"
                  \/ UNCHANGED calls /\ \A i \in FrameIds : ~ InFlight(d, i)
  <2>0. reader \in [Clients -> Readers] /\ (d \in subs => reader[d] \in {"reading", "erring"})
    BY DEF TypeOK, Registered
  <2>1. CASE Accept(c)  BY <2>0, <2>1 DEF Accept
  <2>2. CASE Register(c)  BY <2>0, <2>2 DEF Register
  <2>3. CASE ReadEnds(c)  BY <2>0, <2>3 DEF ReadEnds
  <2>4. CASE Teardown(c)  BY <2>0, <2>4 DEF Teardown
  <2>5. ASSUME NEW i \in FrameIds, ReadRequest(c, i) \/ ReadBad(c, i) \/ SendError(c, i)
        PROVE  /\ reader'[d] \in {"none", "accepted"} => reader[d] \in {"none", "accepted"}
               /\ d \in subs' => reader'[d] \in {"reading", "erring"}
               /\ reader'[d] = "ended" => reader[d] = "ended"
    BY <2>0, <2>5 DEF ReadRequest, ReadBad, SendError, NextFrame
  <2> QED  BY <1>2, <2>1, <2>2, <2>3, <2>4, <2>5 DEF Reader
<1>3. CASE Broadcast  BY <1>3 DEF Broadcast, Registered
<1>4. ASSUME NEW c \in Clients,
             Client(c) \/ Writer(c) \/ \E i \in FrameIds : Handler(c, i)
      PROVE  UNCHANGED <<subs, reader>>
  BY <1>4 DEF Client, Connect, Leave, TimeOut, SendFrame, Writer, Deliver, WriteFails,
              WriterStops, WriterEnds, Handler, Handle, Answer
<1>5. CASE CloseListener \/ Closing \/ UNCHANGED vars
  BY <1>1, <1>5 DEF CloseListener, Closing, CloseConns, CloseReturns, vars
<1> QED  BY <1>1, <1>2, <1>3, <1>4, <1>5 DEF Next

\* A step keeps Registered, and with it NoSendOnClosed.
LEMMA RegisteredStep ==
  ASSUME TypeOK, Registered, NoSendOnClosed, [Next]_vars
  PROVE  Registered' /\ NoSendOnClosed'
<1>1. ASSUME NEW d \in Clients, reader'[d] \in {"none", "accepted"}
      PROVE  queue'[d] = <<>> /\ \A i \in FrameIds : ~ InFlight(d, i)'
  BY <1>1, ReaderStep, QueueStep, FlightStep DEF Registered
<1>2. ASSUME NEW d \in Clients, d \in subs' PROVE reader'[d] \in {"reading", "erring"}
  BY <1>2, ReaderStep
<1>3. ASSUME NEW d \in Clients, reader'[d] = "ended", NEW i \in FrameIds, InFlight(d, i)'
      PROVE  FALSE
  <2>1. InFlight(d, i)  BY <1>3, FlightStep
  <2>2. reader[d] # "ended"  BY <2>1 DEF NoSendOnClosed
  <2> QED  BY <1>3, <2>1, <2>2, ReaderStep
<1>4. Registered'  BY <1>1, <1>2 DEF Registered
<1>5. NoSendOnClosed'  BY <1>2, <1>3 DEF NoSendOnClosed
<1> QED  BY <1>4, <1>5

----------------------------------------------------------------------------
\* The stream of events.

\* Edges on a queue are numbers.
LEMMA EdgeNat == \A q \in Seq(Frame) : \A k \in 1..Len(q) : q[k].edge \in Nat
<1>1. Edges \subseteq Nat  BY BoundsAssumption DEF Edges
<1>2. \A f \in Frame : f.edge \in Nat  BY <1>1 DEF Frame
<1> QED  BY <1>2

\* An answer leaves the stream of events as it is,
LEMMA AppendAnswer ==
  ASSUME NEW q \in Seq(Frame), NEW last \in Nat, NEW now \in Nat, NEW f,
         f.kind # "event", Gapless(q, last, now)
  PROVE  Gapless(Append(q, f), last, now)
<1>1. /\ Len(Append(q, f)) = Len(q) + 1 /\ Len(q) \in Nat
      /\ \A k \in 1..Len(q) : Append(q, f)[k] = q[k]
      /\ Append(q, f)[Len(q) + 1] = f
  OBVIOUS
<1> QED  BY <1>1 DEF Gapless

\* the next event carries it on,
LEMMA AppendEvent ==
  ASSUME NEW q \in Seq(Frame), NEW last \in Nat, NEW now \in Nat, last <= now, NEW f,
         f.kind = "event", f.edge = now + 1, Gapless(q, last, now)
  PROVE  Gapless(Append(q, f), last, now + 1)
<1> DEFINE r == Append(q, f)
<1>1. /\ Len(r) = Len(q) + 1 /\ Len(q) \in Nat
      /\ \A k \in 1..Len(q) : r[k] = q[k]
      /\ r[Len(q) + 1] = f
  OBVIOUS
<1>2. \A k \in 1..Len(q) : q[k].edge \in Nat
  BY EdgeNat
<1> HIDE DEF r
<1>3. ASSUME NEW e \in (last + 1)..(now + 1)
      PROVE  \E k \in 1..Len(r) : r[k].kind = "event" /\ r[k].edge = e
  <2>1. CASE e = now + 1  BY <1>1, <2>1
  <2>2. CASE e # now + 1
    <3>1. e \in (last + 1)..now  BY <2>2
    <3>2. PICK k \in 1..Len(q) : q[k].kind = "event" /\ q[k].edge = e
      BY <3>1 DEF Gapless
    <3> QED  BY <1>1, <3>2
  <2> QED  BY <2>1, <2>2
<1>4. ASSUME NEW k \in 1..Len(r), r[k].kind = "event"
      PROVE  /\ last < r[k].edge /\ r[k].edge <= now + 1
             /\ \A j \in 1..(k - 1) : r[j].kind = "event" => r[j].edge < r[k].edge
  <2>1. CASE k \in 1..Len(q)
    <3>1. /\ last < q[k].edge /\ q[k].edge <= now
          /\ \A j \in 1..(k - 1) : q[j].kind = "event" => q[j].edge < q[k].edge
      BY <1>1, <1>4, <2>1 DEF Gapless
    <3>2. \A j \in 1..(k - 1) : r[j] = q[j]  BY <1>1, <2>1
    <3> QED  BY <1>1, <1>2, <2>1, <3>1, <3>2
  <2>2. CASE k = Len(q) + 1
    <3>1. \A j \in 1..(k - 1) : r[j] = q[j] /\ (q[j].kind = "event" => q[j].edge <= now)
      BY <1>1, <2>2 DEF Gapless
    <3>2. r[k].edge = now + 1  BY <1>1, <2>2
    <3>3. \A j \in 1..(k - 1) : q[j].edge \in Nat  BY <1>1, <1>2, <2>2
    <3> QED  BY <3>1, <3>2, <3>3
  <2> QED  BY <1>1, <2>1, <2>2
<1>5. Gapless(r, last, now + 1)  BY <1>3, <1>4 DEF Gapless
<1> QED  BY <1>5 DEF r

\* and the frame that leaves leaves a stream that goes on where it ended.
LEMMA TakeHead ==
  ASSUME NEW q \in Seq(Frame), q # <<>>, NEW last \in Nat, NEW now \in Nat,
         Gapless(q, last, now)
  PROVE  Gapless(Tail(q), IF Head(q).kind = "event" THEN Head(q).edge ELSE last, now)
<1> DEFINE r == Tail(q)
           next == IF Head(q).kind = "event" THEN Head(q).edge ELSE last
<1>1. /\ Len(q) \in Nat /\ Len(q) >= 1 /\ Len(r) = Len(q) - 1 /\ Head(q) = q[1]
      /\ \A k \in 1..Len(r) : r[k] = q[k + 1]
  OBVIOUS
<1>2. \A k \in 1..Len(q) : q[k].edge \in Nat
  BY EdgeNat
<1> HIDE DEF r
<1>3. next \in Nat /\ last <= next  BY <1>1, <1>2 DEF Gapless
<1>4. ASSUME NEW e \in (next + 1)..now
      PROVE  \E k \in 1..Len(r) : r[k].kind = "event" /\ r[k].edge = e
  <2>1. e \in (last + 1)..now /\ e # next  BY <1>3
  <2>2. PICK k \in 1..Len(q) : q[k].kind = "event" /\ q[k].edge = e
    BY <2>1 DEF Gapless
  <2>3. k # 1  BY <1>1, <2>1, <2>2
  <2>4. k - 1 \in 1..Len(r) /\ (k - 1) + 1 = k  BY <1>1, <2>3
  <2> QED  BY <1>1, <2>2, <2>4
<1>5. ASSUME NEW k \in 1..Len(r), r[k].kind = "event"
      PROVE  /\ next < r[k].edge /\ r[k].edge <= now
             /\ \A j \in 1..(k - 1) : r[j].kind = "event" => r[j].edge < r[k].edge
  <2>1. k + 1 \in 1..Len(q) /\ r[k] = q[k + 1] /\ 1 \in 1..((k + 1) - 1)
    BY <1>1
  <2>2. /\ last < q[k + 1].edge /\ q[k + 1].edge <= now
        /\ \A j \in 1..((k + 1) - 1) : q[j].kind = "event" => q[j].edge < q[k + 1].edge
    BY <1>5, <2>1 DEF Gapless
  <2>3. next < r[k].edge  BY <1>1, <2>1, <2>2
  <2>4. ASSUME NEW j \in 1..(k - 1), r[j].kind = "event" PROVE r[j].edge < r[k].edge
    <3>1. r[j] = q[j + 1] /\ j + 1 \in 1..((k + 1) - 1)  BY <1>1
    <3> QED  BY <2>1, <2>2, <2>4, <3>1
  <2> QED  BY <2>1, <2>2, <2>3, <2>4
<1>6. Gapless(r, next, now)  BY <1>4, <1>5 DEF Gapless
<1> QED  BY <1>6 DEF r

\* A step keeps the stream without a gap.
LEMMA StreamStep == ASSUME ServerInv, [Next]_vars PROVE StreamHasNoGap' /\ SeenPast'
<1>0. /\ TypeOK /\ edge \in Nat /\ \A d \in Clients : seen[d] \in Nat
      /\ \A d \in Clients : queue[d] \in Seq(Frame)
      /\ queue \in [Clients -> Seq(Frame)] /\ seen \in [Clients -> Edges]
      /\ writer \in [Clients -> Writers] /\ subs \subseteq Clients
  BY BoundsAssumption DEF ServerInv, TypeOK, Edges
<1>1. \A d \in subs : seen[d] <= edge  BY DEF ServerInv, SeenPast
<1>2. \A d \in subs : writer[d] = "alive" => Gapless(queue[d], seen[d], edge)
  BY DEF ServerInv, StreamHasNoGap
<1>3. ASSUME UNCHANGED <<edge, seen>>, subs' \subseteq subs,
             \A d \in subs' : writer'[d] = "alive" =>
               /\ writer[d] = "alive"
               /\ \/ queue'[d] = queue[d]
                  \/ \E f : f.kind # "event" /\ queue'[d] = Append(queue[d], f)
      PROVE  StreamHasNoGap' /\ SeenPast'
  <2>1. SeenPast'  BY <1>1, <1>3 DEF SeenPast
  <2>2. ASSUME NEW d \in subs', writer'[d] = "alive"
        PROVE  Gapless(queue'[d], seen'[d], edge')
    <3>1. d \in subs /\ writer[d] = "alive" /\ d \in Clients  BY <1>0, <1>3, <2>2
    <3>2. Gapless(queue[d], seen[d], edge)  BY <1>2, <3>1
    <3>3. CASE queue'[d] = queue[d]  BY <3>2, <3>3, <1>3
    <3>4. ASSUME NEW f, f.kind # "event", queue'[d] = Append(queue[d], f)
          PROVE  Gapless(queue'[d], seen'[d], edge')
      <4>1. Gapless(Append(queue[d], f), seen[d], edge)
        BY <1>0, <3>1, <3>2, <3>4, AppendAnswer
      <4> QED  BY <4>1, <3>4, <1>3
    <3> QED  BY <3>3, <3>4, <1>3, <2>2
  <2> QED  BY <2>1, <2>2 DEF StreamHasNoGap
<1>4. ASSUME NEW c \in Clients, NEW i, NEW kind \in {"answer", "error"}, Enqueue(c, i, kind),
             UNCHANGED <<edge, subs, writer, client>>
      PROVE  StreamHasNoGap' /\ SeenPast'
  <2> DEFINE f == [kind |-> kind, id |-> i, edge |-> calls[c][i].edge]
  <2>1. f.kind # "event"  OBVIOUS
  <2>2. queue' = [queue EXCEPT ![c] = Append(queue[c], f)]  BY <1>4 DEF Enqueue
  <2> HIDE DEF f
  <2>3. \A d \in Clients : queue'[d] = queue[d] \/ queue'[d] = Append(queue[d], f)
    BY <1>0, <2>2
  <2> QED  BY <1>0, <1>3, <1>4, <2>1, <2>3
<1>5. ASSUME NEW c \in Clients, Client(c) PROVE StreamHasNoGap' /\ SeenPast'
  <2>1. UNCHANGED <<edge, subs, writer, queue, seen>>
    BY <1>5 DEF Client, Connect, Leave, TimeOut, SendFrame
  <2> QED  BY <2>1, <1>3
<1>6. ASSUME NEW c \in Clients, Reader(c) PROVE StreamHasNoGap' /\ SeenPast'
  <2>1. CASE Register(c)
    <3>1. queue[c] = <<>>  BY <2>1 DEF Register, ServerInv, Registered
    <3>2. /\ subs' = subs \cup {c} /\ edge' = edge /\ queue' = queue
          /\ seen' = [seen EXCEPT ![c] = edge] /\ writer' = [writer EXCEPT ![c] = "alive"]
      BY <2>1 DEF Register
    <3>3. SeenPast'  BY <1>0, <1>1, <3>2 DEF SeenPast
    <3>4. Gapless(<<>>, edge, edge)  BY <1>0 DEF Gapless
    <3>5. ASSUME NEW d \in subs', writer'[d] = "alive"
          PROVE  Gapless(queue'[d], seen'[d], edge')
      <4>1. CASE d = c  BY <1>0, <3>1, <3>2, <3>4, <4>1
      <4>2. CASE d # c  BY <1>0, <1>2, <3>2, <3>5, <4>2
      <4> QED  BY <4>1, <4>2
    <3> QED  BY <3>3, <3>5 DEF StreamHasNoGap
  <2>2. ASSUME NEW i \in FrameIds, SendError(c, i) PROVE StreamHasNoGap' /\ SeenPast'
    BY <2>2, <1>4 DEF SendError
  <2>3. CASE UNCHANGED <<edge, writer, queue, seen>> /\ subs' \subseteq subs
    BY <2>3, <1>3
  <2> QED
    BY <1>6, <2>1, <2>2, <2>3
    DEF Reader, Accept, ReadEnds, Teardown, ReadRequest, ReadBad
<1>7. ASSUME NEW c \in Clients, NEW i \in FrameIds, Handler(c, i)
      PROVE  StreamHasNoGap' /\ SeenPast'
  <2>1. CASE Handle(c, i)  BY <2>1, <1>3 DEF Handle
  <2>2. CASE Answer(c, i)
    <3>1. CASE Enqueue(c, i, "answer")  BY <2>2, <3>1, <1>4 DEF Answer
    <3>2. CASE UNCHANGED queue  BY <2>2, <3>2, <1>3 DEF Answer
    <3> QED  BY <2>2, <3>1, <3>2 DEF Answer
  <2> QED  BY <1>7, <2>1, <2>2 DEF Handler
<1>8. ASSUME NEW c \in Clients, Writer(c) PROVE StreamHasNoGap' /\ SeenPast'
  <2>1. CASE Deliver(c)
    <3> DEFINE h == Head(queue[c])
    <3>1. queue[c] # <<>> /\ Fate(c, h, "answered") /\ Apply(c, h) /\ writer[c] = "alive"
      BY <2>1 DEF Deliver, Working
    <3>2. edge' = edge /\ subs' = subs /\ writer' = writer  BY <2>1 DEF Deliver
    <3>3. queue' = [queue EXCEPT ![c] = Tail(queue[c])]  BY <3>1 DEF Fate
    <3>4. seen' = [seen EXCEPT ![c] = IF h.kind = "event" THEN h.edge ELSE seen[c]]
      BY <1>0, <3>1 DEF Apply
    <3> HIDE DEF h
    <3>5. h \in Frame /\ Edges \subseteq Nat
      BY <1>0, <3>1, BoundsAssumption DEF h, Edges
    <3>6. c \in subs => Gapless(Tail(queue[c]), seen'[c], edge)
      <4>1. ASSUME c \in subs
            PROVE  Gapless(Tail(queue[c]), IF h.kind = "event" THEN h.edge ELSE seen[c], edge)
        BY <1>0, <1>2, <3>1, <4>1, TakeHead DEF h
      <4> QED  BY <1>0, <3>4, <4>1
    <3>7. ASSUME NEW d \in subs', writer'[d] = "alive"
          PROVE  Gapless(queue'[d], seen'[d], edge')
      <4>1. CASE d = c  BY <1>0, <3>2, <3>3, <3>6, <3>7, <4>1
      <4>2. CASE d # c  BY <1>0, <1>2, <3>2, <3>3, <3>4, <3>7, <4>2
      <4> QED  BY <4>1, <4>2
    <3>8. ASSUME NEW d \in subs' PROVE seen'[d] <= edge'
      <4>1. CASE d = c /\ h.kind = "event"
        <5>1. 1 \in 1..Len(queue[c]) /\ h = queue[c][1]  BY <1>0, <3>1 DEF h
        <5>2. h.edge <= edge  BY <1>2, <3>1, <3>2, <3>8, <4>1, <5>1 DEF Gapless
        <5> QED  BY <1>0, <3>2, <3>4, <4>1, <5>2
      <4>2. CASE ~ (d = c /\ h.kind = "event")
        BY <1>0, <1>1, <3>2, <3>4, <3>8, <4>2
      <4> QED  BY <4>1, <4>2
    <3> QED  BY <3>7, <3>8 DEF StreamHasNoGap, SeenPast
  <2>2. ASSUME UNCHANGED <<edge, subs, seen>>, writer'[c] # "alive",
               \A d \in Clients : d # c => queue'[d] = queue[d] /\ writer'[d] = writer[d]
        PROVE  StreamHasNoGap' /\ SeenPast'
    BY <1>0, <1>3, <2>2
  <2>3. CASE WriteFails(c) \/ WriterStops(c)
    <3>1. UNCHANGED <<edge, subs, seen>> /\ Fate(c, Head(queue[c]), "lost")
      BY <2>3 DEF WriteFails, WriterStops
    <3>2. \E w \in {"broken", "gone"} : writer' = [writer EXCEPT ![c] = w]
      BY <2>3 DEF WriteFails, WriterStops
    <3>3. queue' = [queue EXCEPT ![c] = Tail(queue[c])]  BY <3>1 DEF Fate
    <3> QED  BY <1>0, <2>2, <3>1, <3>2, <3>3
  <2>4. CASE WriterEnds(c)
    <3>1. writer' = [writer EXCEPT ![c] = "gone"] /\ UNCHANGED <<edge, subs, seen, queue>>
      BY <2>4 DEF WriterEnds
    <3> QED  BY <1>0, <2>2, <3>1
  <2> QED  BY <1>8, <2>1, <2>3, <2>4 DEF Writer
<1>9. CASE Broadcast
  <2> DEFINE slow == {d \in subs : ~ Room(d)}
  <2>1. /\ edge' = edge + 1 /\ subs' = subs \ slow /\ writer' = writer /\ seen' = seen
        /\ queue' = [d \in Clients |-> IF d \in subs \ slow THEN Append(queue[d], Event)
                                                             ELSE queue[d]]
    BY <1>9 DEF Broadcast
  <2> HIDE DEF slow
  <2>2. SeenPast'  BY <1>0, <1>1, <2>1 DEF SeenPast
  <2>3. Event.kind = "event" /\ Event.edge = edge + 1  BY DEF Event
  <2>4. ASSUME NEW d \in subs', writer'[d] = "alive"
        PROVE  Gapless(queue'[d], seen'[d], edge')
    <3>1. d \in Clients /\ d \in subs /\ queue'[d] = Append(queue[d], Event)
      BY <1>0, <2>1, <2>4
    <3>2. Gapless(queue[d], seen[d], edge) /\ seen[d] <= edge  BY <1>1, <1>2, <2>1, <2>4, <3>1
    <3>3. Gapless(Append(queue[d], Event), seen[d], edge + 1)
      BY <1>0, <2>3, <3>1, <3>2, AppendEvent
    <3> QED  BY <2>1, <3>1, <3>3
  <2> QED  BY <2>2, <2>4 DEF StreamHasNoGap
<1>10. CASE CloseListener \/ Closing \/ UNCHANGED vars
  <2>1. UNCHANGED <<edge, subs, writer, queue, seen>>
    BY <1>10 DEF CloseListener, Closing, CloseConns, CloseReturns, vars
  <2> QED  BY <2>1, <1>3
<1> QED  BY <1>5, <1>6, <1>7, <1>8, <1>9, <1>10 DEF Next

----------------------------------------------------------------------------
\* The invariant, and what it gives.

\* The invariant holds at first,
LEMMA ServerInit == Init => ServerInv
<1> SUFFICES ASSUME Init PROVE ServerInv  OBVIOUS
<1>1. TypeOK  BY InitType
<1>2. \A c \in Clients, i \in FrameIds : ~ InFlight(c, i)  BY DEF Init, InFlight, Stage
<1>3. /\ subs = {} /\ \A c \in Clients : reader[c] = "none" /\ queue[c] = <<>>  BY DEF Init
<1> QED  BY <1>1, <1>2, <1>3 DEF ServerInv, Registered, SeenPast, NoSendOnClosed, StreamHasNoGap

\* is kept by every step,
LEMMA ServerStep == ServerInv /\ [Next]_vars => ServerInv'
BY TypeStep, RegisteredStep, StreamStep DEF ServerInv

\* and so always holds.
LEMMA SpecServerInv == Spec => []ServerInv
BY ServerInit, ServerStep, PTL DEF Spec

\* Nobody is left who could send on a closed channel: whoever closes c.send has
\* waited for the handlers and has left subs before.
THEOREM SpecNoSendOnClosed == Spec => []NoSendOnClosed
<1>1. ServerInv => NoSendOnClosed  BY DEF ServerInv
<1> QED  BY <1>1, SpecServerInv, PTL

\* A subscriber that is written to misses no edge of the machine, in order.
THEOREM SpecStreamHasNoGap == Spec => []StreamHasNoGap
<1>1. ServerInv => StreamHasNoGap  BY DEF ServerInv
<1> QED  BY <1>1, SpecServerInv, PTL
=============================================================================
