--------------------------- MODULE WebSocketProofs ---------------------------
(***************************************************************************)
(* Proofs about WebSocket, for every set of senders and closers and every  *)
(* bound: the frames on the wire; then what is read and reported, which is *)
(* its types, the messages delivered, the pongs, the protocol errors, and  *)
(* that it is a message channel.                                           *)
(***************************************************************************)
EXTENDS WebSocket, SequenceTheorems, FiniteSetTheorems, TLAPS

Writing == {"header", "payload"}
Back == {"none", "idle", "done", "loop", "finally", "ended"}
OutFrame == [op : FrameOp \union {"None"}, data : Id \union {NoId}]
InFrame == [op : FrameOp, fin : BOOLEAN, data : 1..MaxFrames]
Written == [by : Thread, op : FrameOp \union {"None"}, data : Id \union {NoId},
            part : {"header", "payload"}]

(* The types that the exclusion of writers rests on; a call never returns  *)
(* into the middle of a write.                                             *)
WriterType ==
  /\ monitor \in Thread \union {NoThread}
  /\ pc \in [Thread -> Place]
  /\ resume \in [Thread -> Back]
  /\ out \in [Thread -> OutFrame]
  /\ wire \in Seq(Written)
  /\ inbound \in Seq(InFrame)
  /\ count \in 0..MaxFrames /\ calls \in 0..MaxCalls

(* Only the holder of the monitor writes.                                  *)
WriterInv == \A t \in Thread : pc[t] \in Writing => monitor = t

Writable == ~broken /\ ~streamsClosed

(* While the stream can be written, its end is the header of the thread    *)
(* that is about to write the payload, or the end of a frame.              *)
TailInv ==
  Writable =>
    /\ \A t \in Thread : pc[t] = "payload" =>
         /\ Len(wire) % 2 = 1
         /\ wire[Len(wire)] = [by |-> t, op |-> out[t].op, data |-> out[t].data,
                               part |-> "header"]
    /\ (\A t \in Thread : pc[t] # "payload") => Len(wire) % 2 = 0

(* Until onOpen no other thread has the socket.                            *)
OpenInv ==
  pc[Reader] = "handshake" => \A t \in Thread \ {Reader} : pc[t] = "none"

WireInv == WriterType /\ WriterInv /\ OpenInv /\ TailInv /\ WholeFrames

(* What a step of t that writes nothing and goes to p does to this state.  *)
Quiet(t, p) ==
  /\ pc[t] \notin Writing \union {"none"}
  /\ p \in Place \ (Writing \union {"handshake"})
  /\ pc' = [pc EXCEPT ![t] = p]
  /\ out' = out \/ \E f \in OutFrame : out' = [out EXCEPT ![t] = f]
  /\ resume' = resume \/ \E b \in Back : resume' = [resume EXCEPT ![t] = b]
  /\ inbound' = inbound \/ (inbound # <<>> /\ inbound' = Tail(inbound))
  /\ UNCHANGED <<monitor, wire, broken, count>>
  /\ calls' = calls \/ (calls < MaxCalls /\ calls' = calls + 1)
  /\ streamsClosed' = streamsClosed \/ streamsClosed' = TRUE

-----------------------------------------------------------------------------
(* A quiet step keeps the order of writers and what is on the wire.        *)
LEMMA QuietStep ==
  ASSUME NEW t \in Thread, NEW p, WireInv, Quiet(t, p)
  PROVE  WireInv'
<1>1. /\ p \in Place \ (Writing \union {"handshake"})
      /\ pc' = [pc EXCEPT ![t] = p]
  BY DEF Quiet
<1>2. \A u \in Thread : pc'[u] \in Writing => pc[u] = pc'[u] /\ u # t
  BY <1>1 DEF WireInv, WriterType
<1>3. \A u \in Thread \ {t} : out'[u] = out[u]
  BY DEF Quiet, WireInv, WriterType
<1>4. WriterInv'
  BY <1>2 DEF WireInv, WriterInv, Quiet
<1>5. ASSUME Writable' PROVE Writable
  BY <1>5 DEF Writable, Quiet
<1>6. \A u \in Thread : (pc[u] = "payload") = (pc'[u] = "payload")
  BY <1>1, <1>2 DEF Quiet, Writing, WireInv, WriterType
<1>7. TailInv'
  BY <1>2, <1>3, <1>5, <1>6 DEF TailInv, WireInv, Quiet, Writing
<1>8. WholeFrames'
  BY DEF WireInv, WholeFrames, Quiet
<1>9. OpenInv'
  BY <1>1 DEF OpenInv, WireInv, WriterType, Quiet, Thread
<1>10. WriterType'
  <2>1. pc' \in [Thread -> Place] /\ resume' \in [Thread -> Back]
    BY <1>1 DEF Quiet, WireInv, WriterType
  <2>2. out' \in [Thread -> OutFrame]
    BY DEF Quiet, WireInv, WriterType
  <2>3. inbound' \in Seq(InFrame)
    <3>1. inbound \in Seq(InFrame)
      BY DEF WireInv, WriterType
    <3>2. inbound # <<>> => Tail(inbound) \in Seq(InFrame)
      BY <3>1, HeadTailProperties, Zenon
    <3> QED BY <3>1, <3>2, Zenon DEF Quiet
  <2>4. calls' \in 0..MaxCalls
    BY WebSocketAssumption DEF WebSocketAssumption, Quiet, WireInv, WriterType
  <2> QED
    BY <2>1, <2>2, <2>3, <2>4 DEF Quiet, WireInv, WriterType
<1> QED
  BY <1>4, <1>7, <1>8, <1>9, <1>10 DEF WireInv

(* The socket starts in the invariant.                                     *)
LEMMA InitWireInv == Init => WireInv
<1>. SUFFICES ASSUME Init PROVE WireInv
  OBVIOUS
<1>1. WriterType
  BY WebSocketAssumption
  DEF WebSocketAssumption, Init, WriterType, Place, Back, NoFrame, Thread, OutFrame
<1>2. WriterInv /\ OpenInv /\ WholeFrames
  BY DEF Init, WriterInv, OpenInv, WholeFrames, Writing
<1>3. TailInv
  BY DEF Init, TailInv
<1> QED
  BY <1>1, <1>2, <1>3 DEF WireInv

-----------------------------------------------------------------------------
(* The steps of sendFrame.                                                 *)

(* Entering the monitor makes a writer of a thread while there is none.    *)
LEMMA EnterMonitorStep ==
  ASSUME NEW t \in Thread, WireInv, EnterMonitor(t)
  PROVE  WireInv'
<1>1. WriterType'
  BY DEF EnterMonitor, Goto, WireInv, WriterType, line, peer, Place
<1>2. \A u \in Thread : pc[u] \notin Writing
  BY WebSocketAssumption DEF WebSocketAssumption, EnterMonitor, WireInv, WriterInv, Thread
<1>3. /\ pc' = [pc EXCEPT ![t] = "header"] /\ monitor' = t
      /\ UNCHANGED <<wire, broken, streamsClosed, out>>
  BY DEF EnterMonitor, Goto, line
<1>4. WriterInv'
  BY <1>2, <1>3 DEF WireInv, WriterType, WriterInv
<1>5. OpenInv'
  BY <1>3 DEF EnterMonitor, WireInv, WriterType, OpenInv, Thread
<1>6. TailInv'
  BY <1>2, <1>3 DEF WireInv, WriterType, TailInv, Writable, Writing
<1>7. WholeFrames'
  BY <1>3 DEF WireInv, WholeFrames
<1> QED
  BY <1>1, <1>4, <1>5, <1>6, <1>7 DEF WireInv

(* The header is written after the end of a frame.                         *)
LEMMA WriteHeaderStep ==
  ASSUME NEW t \in Thread, WireInv, WriteHeader(t)
  PROVE  WireInv'
<1>1. /\ pc[t] = "header" /\ pc' = [pc EXCEPT ![t] = "payload"] /\ Writable
      /\ UNCHANGED <<monitor, broken, streamsClosed, out>>
      /\ wire' = Append(wire, [by |-> t, op |-> out[t].op, data |-> out[t].data,
                               part |-> "header"])
  BY DEF WriteHeader, Write, Goto, line, Writable, lock
<1>2. WriterType'
  BY <1>1 DEF WriteHeader, line, peer, locals, WireInv, WriterType, Place, Written,
                    OutFrame
<1>3. \A u \in Thread : pc[u] \in Writing => u = t
  BY <1>1 DEF WireInv, WriterInv, Writing
<1>4. WriterInv'
  BY <1>1, <1>3 DEF WireInv, WriterType, WriterInv, Writing
<1>5. OpenInv'
  BY <1>1 DEF WireInv, WriterType, OpenInv, Thread
<1>6. Len(wire) % 2 = 0
  BY <1>1, <1>3 DEF WireInv, TailInv, Writing
<1>7. Len(wire') = Len(wire) + 1 /\ Len(wire) \in Nat
  BY <1>1 DEF WireInv, WriterType
<1>8. (Len(wire) + 1) % 2 = 1
  BY <1>6, <1>7
<1>9. \A u \in Thread : pc'[u] = "payload" => u = t
  BY <1>1, <1>3 DEF WireInv, WriterType, Writing
<1>10. pc'[t] = "payload"
  BY <1>1 DEF WireInv, WriterType
<1>11. wire'[Len(wire')] = [by |-> t, op |-> out'[t].op, data |-> out'[t].data,
                            part |-> "header"]
  BY <1>1, <1>7 DEF WireInv, WriterType
<1>12. TailInv'
  BY <1>7, <1>8, <1>9, <1>10, <1>11 DEF TailInv
<1>13. WholeFrames'
  <2>. SUFFICES ASSUME NEW i \in DOMAIN wire'
                PROVE  IF i % 2 = 1 THEN wire'[i].part = "header"
                       ELSE /\ wire'[i].part = "payload"
                            /\ wire'[i].by = wire'[i - 1].by
                            /\ wire'[i].op = wire'[i - 1].op
                            /\ wire'[i].data = wire'[i - 1].data
    BY DEF WholeFrames
  <2>1. i \in 1..Len(wire) + 1 /\ wire \in Seq(Written)
    BY <1>1 DEF WireInv, WriterType
  <2>2. CASE i = Len(wire) + 1
    BY <2>2, <1>7, <1>8, <1>11
  <2>3. CASE i # Len(wire) + 1
    <3>1. i \in DOMAIN wire /\ wire'[i] = wire[i]
      BY <2>1, <2>3, <1>1
    <3>2. i % 2 # 1 => i - 1 \in DOMAIN wire /\ wire'[i - 1] = wire[i - 1]
      BY <2>1, <2>3, <1>1
    <3> QED BY <3>1, <3>2 DEF WireInv, WholeFrames
  <2> QED BY <2>2, <2>3
<1> QED
  BY <1>2, <1>4, <1>5, <1>12, <1>13 DEF WireInv

(* The payload completes the frame whose header the same thread wrote.     *)
LEMMA WritePayloadStep ==
  ASSUME NEW t \in Thread, WireInv, WritePayload(t)
  PROVE  WireInv'
<1>1. /\ pc[t] = "payload" /\ pc' = [pc EXCEPT ![t] = resume[t]] /\ Writable
      /\ monitor' = NoThread /\ UNCHANGED <<broken, streamsClosed>>
      /\ wire' = Append(wire, [by |-> t, op |-> out[t].op, data |-> out[t].data,
                               part |-> "payload"])
  BY DEF WritePayload, Write, LeaveMonitor, Goto, line, Writable
<1>2. resume[t] \in Back
  BY DEF WireInv, WriterType
<1>3. WriterType'
  BY <1>1, <1>2 DEF WritePayload, peer, WireInv, WriterType, Place, Back, Written,
                    NoFrame, OutFrame
<1>4. \A u \in Thread : pc[u] \in Writing => u = t
  BY <1>1 DEF WireInv, WriterInv, Writing
<1>5. \A u \in Thread : pc'[u] \notin Writing
  BY <1>1, <1>2, <1>4 DEF WireInv, WriterType, Writing, Back
<1>6. OpenInv'
  BY <1>1, <1>2 DEF WireInv, WriterType, OpenInv, Thread, Back
<1>7. /\ Len(wire) % 2 = 1
      /\ wire[Len(wire)] = [by |-> t, op |-> out[t].op, data |-> out[t].data,
                            part |-> "header"]
  BY <1>1 DEF WireInv, TailInv
<1>8. Len(wire') = Len(wire) + 1 /\ Len(wire) \in Nat
  BY <1>1 DEF WireInv, WriterType
<1>9. (Len(wire) + 1) % 2 = 0 /\ Len(wire) # 0
  BY <1>7, <1>8
<1>10. TailInv'
  BY <1>5, <1>8, <1>9 DEF TailInv, Writing
<1>11. WholeFrames'
  <2>. SUFFICES ASSUME NEW i \in DOMAIN wire'
                PROVE  IF i % 2 = 1 THEN wire'[i].part = "header"
                       ELSE /\ wire'[i].part = "payload"
                            /\ wire'[i].by = wire'[i - 1].by
                            /\ wire'[i].op = wire'[i - 1].op
                            /\ wire'[i].data = wire'[i - 1].data
    BY DEF WholeFrames
  <2>1. i \in 1..Len(wire) + 1 /\ wire \in Seq(Written)
    BY <1>1 DEF WireInv, WriterType
  <2>2. CASE i = Len(wire) + 1
    <3>1. wire'[i] = [by |-> t, op |-> out[t].op, data |-> out[t].data,
                      part |-> "payload"]
      BY <2>1, <2>2, <1>1
    <3>2. wire'[i - 1] = wire[Len(wire)]
      BY <2>1, <2>2, <1>1, <1>8, <1>9
    <3> QED BY <2>2, <3>1, <3>2, <1>7, <1>9
  <2>3. CASE i # Len(wire) + 1
    <3>1. i \in DOMAIN wire /\ wire'[i] = wire[i]
      BY <2>1, <2>3, <1>1
    <3>2. i % 2 # 1 => i - 1 \in DOMAIN wire /\ wire'[i - 1] = wire[i - 1]
      BY <2>1, <2>3, <1>1
    <3> QED BY <3>1, <3>2 DEF WireInv, WholeFrames
  <2> QED BY <2>2, <2>3
<1> QED
  BY <1>3, <1>5, <1>6, <1>10, <1>11 DEF WireInv, WriterInv

(* After a failed write nothing is written any more.                       *)
LEMMA WriteFailsStep ==
  ASSUME NEW t \in Thread, WireInv, WriteFails(t)
  PROVE  WireInv'
<1>1. /\ pc[t] \in Writing /\ pc' = [pc EXCEPT ![t] = Thrown(t)]
      /\ monitor' = NoThread /\ broken' = TRUE /\ UNCHANGED wire
  BY DEF WriteFails, LeaveMonitor, Goto, Writing
<1>2. Thrown(t) \in {"ioexception", "idle", "done"}
  BY DEF Thrown, Rest
<1>3. WriterType'
  BY <1>1, <1>2 DEF WriteFails, peer, WireInv, WriterType, Place, Back, NoFrame,
                         OutFrame
<1>4. \A u \in Thread : pc'[u] \notin Writing
  BY <1>1, <1>2 DEF WireInv, WriterType, WriterInv, Writing
<1>5. OpenInv'
  BY <1>1, <1>2 DEF WireInv, WriterType, OpenInv, Thread, Writing
<1>6. TailInv' /\ WholeFrames'
  BY <1>1 DEF TailInv, Writable, WireInv, WholeFrames
<1> QED
  BY <1>3, <1>4, <1>5, <1>6 DEF WireInv, WriterInv

-----------------------------------------------------------------------------
(* The steps that write nothing.                                           *)

(* Where a call returns to, nothing is being written and the socket is     *)
(* open.                                                                   *)
LEMMA CalmPlaces ==
  ASSUME NEW p \in Back
  PROVE  p \in Place \ (Writing \union {"handshake"})
BY DEF Place, Back, Writing

(* close and doClose.                                                      *)
LEMMA ClosingQuiet ==
  ASSUME NEW t \in Thread, WireInv, Closing(t)
  PROVE  \E p : Quiet(t, p)
<1>. USE DEF Goto, line, lock, peer
<1>0. resume[t] \in Place \ (Writing \union {"handshake"})
  BY CalmPlaces DEF WireInv, WriterType
<1>1. CASE CloseReads(t)
  <2>1. Quiet(t, "closeWrites")
    BY <1>1 DEF CloseReads, Quiet, Writing, Place
  <2> QED BY <2>1
<1>2. CASE CloseWrites(t)
  <2>1. CASE args[t].open
    <3>1. [op |-> "Close", data |-> NoId] \in OutFrame
      BY DEF OutFrame, FrameOp
    <3>2. resume[t] \in Back
      BY DEF WireInv, WriterType
    <3>3. Quiet(t, "sendFrame")
      BY <1>2, <2>1, <3>1, <3>2 DEF CloseWrites, CallSendFrame, Quiet, Writing, Place
    <3> QED BY <3>3
  <2>2. CASE ~args[t].open
    <3>1. Quiet(t, "doClose")
      BY <1>2, <2>2 DEF CloseWrites, Quiet, Writing, Place
    <3> QED BY <3>1
  <2> QED BY <2>1, <2>2
<1>3. CASE DoCloseTests(t)
  <2>1. CASE Return(t)
    <3>1. Quiet(t, resume[t])
      BY <1>0, <1>3, <2>1 DEF DoCloseTests, Return, Quiet, Writing, Back
    <3> QED BY <3>1
  <2>2. CASE Goto(t, "streams") /\ UNCHANGED resume
    <3>1. Quiet(t, "streams")
      BY <1>3, <2>2 DEF DoCloseTests, Quiet, Writing, Place
    <3> QED BY <3>1
  <2> QED BY <1>3, <2>1, <2>2 DEF DoCloseTests
<1>4. CASE CloseStreams(t)
  <2>1. Quiet(t, "onClose")
    BY <1>4 DEF CloseStreams, Quiet, Writing, Place
  <2> QED BY <2>1
<1>5. CASE OnClose(t)
  <2>1. Quiet(t, resume[t])
    BY <1>0, <1>5 DEF OnClose, Return, Quiet, Writing, Back
  <2> QED BY <2>1
<1> QED
  BY <1>1, <1>2, <1>3, <1>4, <1>5 DEF Closing

(* readWebsocket.                                                          *)
LEMMA ReadWebsocketQuiet ==
  ASSUME WireInv, ReadWebsocket
  PROVE  \E p : Quiet(Reader, p)
<1>. USE DEF Goto, line, lock, peer, locals
<1>1. CASE TestOpen
  <2>1. PICK s \in State : Goto(Reader, IF s = "OPEN" THEN "read" ELSE "finally")
    BY <1>1 DEF TestOpen
  <2>2. Quiet(Reader, IF s = "OPEN" THEN "read" ELSE "finally")
    BY <1>1, <2>1 DEF TestOpen, Quiet, Writing, Place
  <2> QED BY <2>2
<1>2. CASE ReadFails
  <2>1. Quiet(Reader, "ioexception")
    BY <1>2 DEF ReadFails, Quiet, Writing, Place
  <2> QED BY <2>1
<1>3. CASE HandleDataFrame
  <2>. DEFINE f == Head(inbound)
  <2>1. Goto(Reader, "loop") \/ Goto(Reader, "websocketexception")
    BY <1>3 DEF HandleDataFrame, FirstFragment, IntermediateFragment, LastFragment,
                WholeMessage, OutOfSequence
  <2>2. ASSUME NEW p \in {"loop", "websocketexception"}, Goto(Reader, p)
        PROVE  Quiet(Reader, p)
    BY <1>3, <2>2 DEF HandleDataFrame, ReadFrame, Quiet, Writing, Place
  <2> QED BY <2>1, <2>2
<1>4. CASE HandlePing
  <2>1. [op |-> "Pong", data |-> Head(inbound).data] \in OutFrame
    <3>1. Head(inbound) \in InFrame
      BY <1>4, HeadTailProperties DEF HandlePing, ReadFrame, WireInv, WriterType
    <3> QED BY <3>1 DEF InFrame, OutFrame, FrameOp, Id
  <2>2. "loop" \in Back
    BY DEF Back
  <2>3. Quiet(Reader, "sendFrame")
    BY <1>4, <2>1, <2>2
    DEF HandlePing, ReadFrame, CallSendFrame, Quiet, Writing, Place
  <2> QED BY <2>3
<1>5. CASE HandlePong
  <2>1. Quiet(Reader, "loop")
    BY <1>5 DEF HandlePong, ReadFrame, Quiet, Writing, Place
  <2> QED BY <2>1
<1>6. CASE HandleCloseFrame
  <2>1. PICK place \in {"close", "doClose"}, remote \in BOOLEAN :
             CallClose(Reader, place, "Peer", remote, "loop")
    BY <1>6 DEF HandleCloseFrame
  <2>2. Quiet(Reader, place)
    BY <1>6, <2>1 DEF HandleCloseFrame, ReadFrame, CallClose, Quiet, Writing, Place,
                      Back
  <2> QED BY <2>2
<1>7. CASE RefuseFrame
  <2>1. Quiet(Reader, "websocketexception")
    BY <1>7 DEF RefuseFrame, ReadFrame, Quiet, Writing, Place
  <2> QED BY <2>1
<1>8. CASE CatchWebSocketException
  <2>1. Quiet(Reader, "doClose")
    BY <1>8 DEF CatchWebSocketException, CallClose, Quiet, Writing, Place, Back
  <2> QED BY <2>1
<1>9. CASE CatchIOException
  <2>1. Quiet(Reader, "finally")
    BY <1>9 DEF CatchIOException, Quiet, Writing, Place
  <2> QED BY <2>1
<1>10. CASE Finally
  <2>1. Quiet(Reader, "doClose")
    BY <1>10 DEF Finally, CallClose, Quiet, Writing, Place, Back
  <2> QED BY <2>1
<1> QED
  BY <1>1, <1>2, <1>3, <1>4, <1>5, <1>6, <1>7, <1>8, <1>9, <1>10 DEF ReadWebsocket

(* The calls of other threads.                                             *)
LEMMA CallsQuiet ==
  ASSUME NEW t \in Thread, WireInv, CallSend(t) \/ CallPublicClose(t)
  PROVE  \E p : Quiet(t, p)
<1>. USE DEF Goto, line, lock, peer
<1>1. CASE CallSend(t)
  <2>1. PICK op \in CallOp :
             CallSendFrame(t, [op |-> op, data |-> calls + 1], "idle")
    BY <1>1 DEF CallSend
  <2>2. [op |-> op, data |-> calls + 1] \in OutFrame
    <3>1. calls + 1 \in Id
      BY <1>1, WebSocketAssumption
      DEF WebSocketAssumption, CallSend, WireInv, WriterType, Id
    <3>2. op \in FrameOp
      BY WebSocketAssumption DEF WebSocketAssumption, FrameOp, DataOp
    <3> QED BY <3>1, <3>2 DEF OutFrame
  <2>3. Quiet(t, "sendFrame")
    BY <1>1, <2>1, <2>2 DEF CallSend, CallSendFrame, Quiet, Writing, Place, Back
  <2> QED BY <2>3
<1>2. CASE CallPublicClose(t)
  <2>1. Quiet(t, "close")
    BY <1>2 DEF CallPublicClose, CallClose, Quiet, Writing, Place, Back
  <2> QED BY <2>1
<1> QED
  BY <1>1, <1>2

(* The handshake lets the other threads in.                                *)
LEMMA OpenStep ==
  ASSUME WireInv, Open
  PROVE  WireInv'
<1>1. /\ pc[Reader] = "handshake"
      /\ pc' = [t \in Thread |-> IF t = Reader THEN "loop" ELSE "idle"]
      /\ UNCHANGED <<monitor, wire, broken, streamsClosed, out>>
  BY DEF Open, line, lock
<1>2. WriterType'
  BY <1>1 DEF Open, line, lock, peer, WireInv, WriterType, Place
<1>3. \A u \in Thread : pc[u] \notin Writing /\ pc'[u] \notin Writing
  BY <1>1 DEF WireInv, OpenInv, Writing, Thread
<1>4. OpenInv'
  BY <1>1 DEF OpenInv, Thread
<1>5. TailInv' /\ WholeFrames'
  BY <1>1, <1>3 DEF WireInv, TailInv, Writable, WholeFrames, Writing
<1> QED
  BY <1>2, <1>3, <1>4, <1>5 DEF WireInv, WriterInv

(* The peer changes none of this but what is on its way here.              *)
LEMMA PeerStep ==
  ASSUME WireInv,
         PeerEnds \/ \E op \in FrameOp, fin \in BOOLEAN : PeerSends(op, fin)
  PROVE  WireInv'
<1>1. UNCHANGED <<monitor, pc, resume, out, wire, broken, streamsClosed, calls>>
  BY DEF PeerEnds, PeerSends, lock, locals, line
<1>2. inbound' \in Seq(InFrame) /\ count' \in 0..MaxFrames
  <2>1. CASE PeerEnds
    BY <2>1 DEF PeerEnds, peer, WireInv, WriterType
  <2>2. ASSUME NEW op \in FrameOp, NEW fin \in BOOLEAN, PeerSends(op, fin)
        PROVE  inbound' \in Seq(InFrame) /\ count' \in 0..MaxFrames
    <3>1. count + 1 \in 1..MaxFrames
      BY <2>2, WebSocketAssumption
      DEF WebSocketAssumption, PeerSends, WireInv, WriterType
    <3>2. [op |-> op, fin |-> fin, data |-> count + 1] \in InFrame
      BY <3>1 DEF InFrame
    <3>3. inbound \in Seq(InFrame)
      BY DEF WireInv, WriterType
    <3>4. inbound' = Append(inbound, [op |-> op, fin |-> fin, data |-> count + 1])
      BY <2>2 DEF PeerSends
    <3>5. inbound' \in Seq(InFrame)
      BY <3>2, <3>3, <3>4, AppendProperties
    <3> QED BY <2>2, <3>1, <3>5 DEF PeerSends
  <2> QED BY <2>1, <2>2
<1> QED
  BY <1>1, <1>2 DEF WireInv, WriterType, WriterInv, OpenInv, TailInv, Writable,
                    WholeFrames

-----------------------------------------------------------------------------
(* Every step keeps the invariant.                                         *)
LEMMA NextWireInv == WireInv /\ [Next]_vars => WireInv'
<1>. SUFFICES ASSUME WireInv, [Next]_vars PROVE WireInv'
  OBVIOUS
<1>1. ASSUME NEW t \in Thread, ThreadStep(t) PROVE WireInv'
  <2>1. CASE SendFrame(t)
    BY <2>1, EnterMonitorStep, WriteHeaderStep, WritePayloadStep, WriteFailsStep
    DEF SendFrame
  <2>2. CASE Closing(t)
    BY <2>2, ClosingQuiet, QuietStep DEF WireInv
  <2>3. CASE t = Reader /\ Open
    BY <2>3, OpenStep
  <2>4. CASE t = Reader /\ ReadWebsocket
    BY <2>4, ReadWebsocketQuiet, QuietStep DEF WireInv
  <2> QED
    BY <1>1, <2>1, <2>2, <2>3, <2>4 DEF ThreadStep
<1>2. ASSUME NEW t \in Sender, CallSend(t) PROVE WireInv'
  BY <1>2, CallsQuiet, QuietStep DEF Thread, WireInv
<1>3. ASSUME NEW t \in Closer, CallPublicClose(t) PROVE WireInv'
  BY <1>3, CallsQuiet, QuietStep DEF Thread, WireInv
<1>4. CASE PeerEnds \/ \E op \in FrameOp, fin \in BOOLEAN : PeerSends(op, fin)
  BY <1>4, PeerStep
<1>5. CASE UNCHANGED vars
  BY <1>5 DEF vars, field, lock, line, peer, locals, WireInv, WriterType, WriterInv,
              OpenInv, TailInv, Writable, WholeFrames
<1> QED
  BY <1>1, <1>2, <1>3, <1>4, <1>5 DEF Next

(* Frames are written whole, whatever the number of threads that send and  *)
(* close, and wherever the connection breaks (NanoWSD.java:269).           *)
THEOREM FramesAreWhole == Spec => []WholeFrames
<1>1. WireInv => WholeFrames
  BY DEF WireInv
<1> QED
  BY <1>1, InitWireInv, NextWireInv, PTL DEF Spec

-----------------------------------------------------------------------------
Sending == {"sendFrame", "header", "payload"}
ClosingPlace == {"close", "closeWrites", "doClose", "streams", "onClose"}

-----------------------------------------------------------------------------
(* Types.                                                                  *)

FieldInv ==
  /\ writes \in Seq(State)
  /\ seen \in [Thread -> 1..Len(writes)]
  /\ released \in 1..Len(writes)

(* What a call of sendFrame, close or doClose has been given.              *)
CallInv ==
  /\ args \in [Thread -> [code : Code \union {"None"}, remote : BOOLEAN,
                          open : BOOLEAN]]
  /\ closes \in Seq([code : Code, remote : BOOLEAN])
  /\ wire \in Seq([by : Thread, op : FrameOp, data : Id \union {NoId},
                   part : {"header", "payload"}])
  /\ \A t \in Thread : pc[t] \in Sending => out[t].op \in FrameOp
  /\ \A t \in Thread : pc[t] \in ClosingPlace => args[t].code \in Code
  /\ streamsClosed \in BOOLEAN /\ ended \in BOOLEAN /\ broken \in BOOLEAN

(* The messages of the peer, and how far each side is with one.            *)
MessageInv ==
  /\ sent \in Seq(Message) /\ delivered \in Seq(Message)
  /\ partial \in [op : DataOp \union {"None"}, parts : Seq(1..MaxFrames)]
  /\ partial.op = "None" => partial.parts = <<>>
  /\ continuousOpCode \in DataOp \union {"None"}
  /\ continuousFrames \in Seq(1..MaxFrames)
  /\ continuousOpCode = "None" => continuousFrames = <<>>
  /\ pings \in Seq(1..MaxFrames)
  /\ proper \in BOOLEAN

TypeInv == WireInv /\ FieldInv /\ CallInv /\ MessageInv

LEMMA TypeInvTypeOK == TypeInv => TypeOK
<1>. SUFFICES ASSUME TypeInv PROVE TypeOK
  OBVIOUS
<1>1. resume \in [Thread -> Place]
  <2>1. Back \subseteq Place
    BY DEF Back, Place
  <2>. QED
    BY <2>1 DEF TypeInv, WireInv, WriterType
<1>. QED
  BY <1>1 DEF TypeInv, WireInv, WriterType, FieldInv, CallInv, MessageInv, TypeOK,
              OutFrame, InFrame

LEMMA InitTypeInv == Init => TypeInv
<1>. SUFFICES ASSUME Init PROVE TypeInv
  OBVIOUS
<1>1. WireInv
  BY InitWireInv
<1>2. FieldInv
  BY DEF Init, FieldInv, State
<1>3. CallInv
  <2>1. args \in [Thread -> [code : Code \union {"None"}, remote : BOOLEAN, open : BOOLEAN]]
    BY DEF Init, NoArgs
  <2>2. \A t \in Thread : pc[t] \notin Sending /\ pc[t] \notin ClosingPlace
    BY DEF Init, Sending, ClosingPlace
  <2>3. closes = <<>> /\ wire = <<>>
    BY DEF Init
  <2>4. streamsClosed \in BOOLEAN /\ ended \in BOOLEAN /\ broken \in BOOLEAN
    BY DEF Init
  <2>. QED
    BY <2>1, <2>2, <2>3, <2>4 DEF CallInv
<1>4. MessageInv
  BY DEF Init, MessageInv, NoPartial
<1>. QED
  BY <1>1, <1>2, <1>3, <1>4 DEF TypeInv

(* How a step changes the field and the monitor.                           *)
LEMMA FieldChange ==
  ASSUME [Next]_vars
  PROVE  \/ UNCHANGED <<writes, seen, released>>
         \/ \E t \in Thread : \E s \in State : ReadState(t, s) /\ UNCHANGED released
         \/ \E t \in Thread : \E s \in State : WriteState(t, s) /\ UNCHANGED released
         \/ \E t \in Thread : EnterMonitor(t)
         \/ \E t \in Thread : LeaveMonitor(t) /\ UNCHANGED field
         \/ Open
<1>. DEFINE Change ==
         \/ UNCHANGED <<writes, seen, released>>
         \/ \E t \in Thread : \E s \in State : ReadState(t, s) /\ UNCHANGED released
         \/ \E t \in Thread : \E s \in State : WriteState(t, s) /\ UNCHANGED released
         \/ \E t \in Thread : EnterMonitor(t)
         \/ \E t \in Thread : LeaveMonitor(t) /\ UNCHANGED field
         \/ Open
<1>. USE DEF field, lock
<1>1. ASSUME NEW t \in Thread, SendFrame(t) PROVE Change
  BY <1>1, Zenon DEF SendFrame, WriteHeader, WritePayload, WriteFails
<1>2. ASSUME NEW t \in Thread, Closing(t) PROVE Change
  <2>1. "CLOSING" \in State /\ "CLOSED" \in State
    BY DEF State
  <2>. QED
    BY <1>2, <2>1, Zenon
    DEF Closing, CloseReads, CloseWrites, DoCloseTests, CloseStreams, OnClose
<1>3. ASSUME ReadWebsocket PROVE Change
  <2>1. Reader \in Thread
    BY DEF Thread
  <2>. QED
    BY <1>3, <2>1, Zenon
    DEF ReadWebsocket, TestOpen, ReadFails, HandleDataFrame, HandlePing, HandlePong,
        HandleCloseFrame, RefuseFrame, CatchWebSocketException, CatchIOException, Finally
<1>4. ASSUME NEW t, CallSend(t) \/ CallPublicClose(t) PROVE Change
  BY <1>4, Zenon DEF CallSend, CallPublicClose
<1>5. ASSUME PeerEnds \/ \E op \in FrameOp, fin \in BOOLEAN : PeerSends(op, fin) PROVE Change
  BY <1>5, Zenon DEF PeerEnds, PeerSends
<1>6. ASSUME UNCHANGED vars PROVE Change
  BY <1>6, Zenon DEF vars
<1>7. ASSUME Open PROVE Change
  BY <1>7, Zenon
<1>. HIDE DEF Change, field, lock
<1>8. Change
  BY <1>1, <1>2, <1>3, <1>4, <1>5, <1>6, <1>7, Zenon DEF Next, ThreadStep
<1>. QED
  BY <1>8 DEF Change

LEMMA FieldStep ==
  ASSUME WriterType, FieldInv, [Next]_vars
  PROVE  FieldInv' /\ Len(writes) <= Len(writes')
<1>. USE DEF FieldInv
<1>0. Len(writes) \in Nat
  OBVIOUS
<1>1. CASE UNCHANGED <<writes, seen, released>>
  BY <1>0, <1>1
<1>2. ASSUME NEW t \in Thread, NEW s \in State, ReadState(t, s), UNCHANGED released
      PROVE  FieldInv' /\ Len(writes) <= Len(writes')
  BY <1>0, <1>2 DEF ReadState
<1>3. ASSUME NEW t \in Thread, NEW s \in State, WriteState(t, s), UNCHANGED released
      PROVE  FieldInv' /\ Len(writes) <= Len(writes')
  <2>1. writes' \in Seq(State) /\ Len(writes') = Len(writes) + 1
    BY <1>3, AppendProperties DEF WriteState
  <2>2. seen' = [seen EXCEPT ![t] = Len(writes) + 1]
    BY <1>3 DEF WriteState
  <2>3. 1..Len(writes) \subseteq 1..Len(writes') /\ Len(writes) + 1 \in 1..Len(writes')
    BY <1>0, <2>1
  <2>. QED
    BY <1>0, <1>3, <2>1, <2>2, <2>3
<1>4. ASSUME NEW t \in Thread, EnterMonitor(t)
      PROVE  FieldInv' /\ Len(writes) <= Len(writes')
  BY <1>0, <1>4 DEF EnterMonitor
<1>5. ASSUME NEW t \in Thread, LeaveMonitor(t), UNCHANGED field
      PROVE  FieldInv' /\ Len(writes) <= Len(writes')
  BY <1>0, <1>5 DEF LeaveMonitor, field
<1>6. ASSUME Open PROVE FieldInv' /\ Len(writes) <= Len(writes')
  <2>1. writes' = writes \o <<"CONNECTING", "OPEN">>
        /\ <<"CONNECTING", "OPEN">> \in Seq(State) /\ Len(<<"CONNECTING", "OPEN">>) = 2
    BY <1>6 DEF Open, State
  <2>2. writes' \in Seq(State) /\ Len(writes') = Len(writes) + 2
    BY <2>1, ConcatProperties
  <2>3. seen' \in [Thread -> 1..Len(writes')]
    <3>1. seen' = [t \in Thread |-> 3] /\ 1 <= Len(writes)
      BY <1>0, <1>6 DEF Open
    <3>. QED
      BY <1>0, <2>2, <3>1
  <2>4. released' = released
    BY <1>6 DEF Open, lock
  <2>. QED
    BY <1>0, <2>2, <2>3, <2>4
<1>. HIDE DEF FieldInv
<1>. QED
  BY <1>1, <1>2, <1>3, <1>4, <1>5, <1>6, FieldChange, Zenon

(* The calls that a thread is in: each action for itself.                  *)
LEMMA SendFrameCalls ==
  ASSUME WriterType, CallInv, NEW t \in Thread, SendFrame(t)
  PROVE  CallInv'
<1>. USE DEF Goto, CallInv, line
<1>. pc \in [Thread -> Place] /\ out \in [Thread -> OutFrame] /\ resume \in [Thread -> Back]
  BY DEF WriterType
<1>1. CASE EnterMonitor(t)
  BY <1>1 DEF EnterMonitor, Sending, ClosingPlace
<1>. DEFINE part(p) == [by |-> t, op |-> out[t].op, data |-> out[t].data, part |-> p]
            Parts == [by : Thread, op : FrameOp, data : Id \union {NoId},
                      part : {"header", "payload"}]
<1>2. ASSUME NEW p \in {"header", "payload"}, pc[t] \in Sending
      PROVE  Append(wire, part(p)) \in Seq(Parts)
  <2>1. part(p) \in Parts
    BY <1>2 DEF OutFrame
  <2>. QED
    BY <2>1, AppendProperties
<1>3. CASE WriteHeader(t)
  <2>1. wire' = Append(wire, part("header")) /\ pc[t] \in Sending
    BY <1>3 DEF WriteHeader, Write, Sending
  <2>2. wire' \in Seq(Parts)
    BY <1>2, <2>1
  <2>. QED
    BY <1>3, <2>2 DEF WriteHeader, Write, Sending, ClosingPlace
<1>4. CASE WritePayload(t)
  <2>1. wire' = Append(wire, part("payload")) /\ pc[t] \in Sending
    BY <1>4 DEF WritePayload, Write, Sending
  <2>2. wire' \in Seq(Parts)
    BY <1>2, <2>1
  <2>3. pc' = [pc EXCEPT ![t] = resume[t]] /\ resume[t] \notin Sending
        /\ resume[t] \notin ClosingPlace /\ out' = [out EXCEPT ![t] = NoFrame]
    BY <1>4 DEF WritePayload, Write, Sending, ClosingPlace, Back
  <2>. QED
    BY <1>4, <2>2, <2>3 DEF WritePayload
<1>5. CASE WriteFails(t)
  <2>1. pc' = [pc EXCEPT ![t] = Thrown(t)] /\ Thrown(t) \notin Sending
        /\ Thrown(t) \notin ClosingPlace /\ out' = [out EXCEPT ![t] = NoFrame]
    BY <1>5 DEF WriteFails, Thrown, Rest, Sending, ClosingPlace
  <2>. QED
    BY <1>5, <2>1 DEF WriteFails
<1>. QED
  BY <1>1, <1>3, <1>4, <1>5 DEF SendFrame

LEMMA ClosingCalls ==
  ASSUME WriterType, CallInv, NEW t \in Thread, Closing(t)
  PROVE  CallInv'
<1>. USE DEF Goto, CallInv, line, lock, peer
<1>. pc \in [Thread -> Place] /\ out \in [Thread -> OutFrame] /\ resume \in [Thread -> Back]
  BY DEF WriterType
<1>0. resume[t] \notin Sending /\ resume[t] \notin ClosingPlace
  BY DEF Sending, ClosingPlace, Back
<1>1. CASE CloseReads(t)
  <2>1. PICK b \in BOOLEAN : args' = [args EXCEPT ![t].open = b]
    BY <1>1 DEF CloseReads
  <2>2. /\ pc[t] = "close" /\ pc' = [pc EXCEPT ![t] = "closeWrites"]
        /\ UNCHANGED <<out, closes, wire, streamsClosed, ended, broken>>
    BY <1>1 DEF CloseReads
  <2>. QED
    BY <2>1, <2>2 DEF Sending, ClosingPlace
<1>2. CASE CloseWrites(t)
  <2>1. CASE args[t].open
    <3>1. /\ pc' = [pc EXCEPT ![t] = "sendFrame"] /\ args' = [args EXCEPT ![t] = NoArgs]
          /\ out' = [out EXCEPT ![t] = [op |-> "Close", data |-> NoId]]
          /\ UNCHANGED <<closes, wire, streamsClosed, ended, broken>>
      BY <1>2, <2>1 DEF CloseWrites, CallSendFrame
    <3>2. NoArgs \in [code : Code \union {"None"}, remote : BOOLEAN, open : BOOLEAN]
      BY DEF NoArgs
    <3>3. args' \in [Thread -> [code : Code \union {"None"}, remote : BOOLEAN, open : BOOLEAN]]
      BY <3>1, <3>2
    <3>4. \A u \in Thread : pc'[u] \in Sending => out'[u].op \in FrameOp
      BY <3>1 DEF Sending, FrameOp
    <3>5. \A u \in Thread : pc'[u] \in ClosingPlace => args'[u].code \in Code
      BY <3>1 DEF ClosingPlace
    <3>. QED
      BY <3>1, <3>3, <3>4, <3>5
  <2>2. CASE ~args[t].open
    BY <1>2, <2>2 DEF CloseWrites, Sending, ClosingPlace
  <2>. QED
    BY <2>1, <2>2
<1>3. CASE DoCloseTests(t)
  <2>1. CASE Return(t)
    BY <1>0, <1>3, <2>1 DEF DoCloseTests, Return, NoArgs
  <2>2. CASE Goto(t, "streams") /\ UNCHANGED <<resume, args>>
    BY <1>3, <2>2 DEF DoCloseTests, Sending, ClosingPlace
  <2>. QED
    BY <1>3, <2>1, <2>2 DEF DoCloseTests
<1>4. CASE CloseStreams(t)
  BY <1>4 DEF CloseStreams, Sending, ClosingPlace
<1>5. CASE OnClose(t)
  <2>1. [code |-> args[t].code, remote |-> args[t].remote] \in [code : Code, remote : BOOLEAN]
    BY <1>5 DEF OnClose, ClosingPlace
  <2>2. closes' \in Seq([code : Code, remote : BOOLEAN])
    BY <1>5, <2>1, AppendProperties DEF OnClose
  <2>. QED
    BY <1>0, <1>5, <2>2 DEF OnClose, Return, NoArgs
<1>. QED
  BY <1>1, <1>2, <1>3, <1>4, <1>5 DEF Closing

LEMMA ReadWebsocketCalls ==
  ASSUME WriterType, CallInv, ReadWebsocket
  PROVE  CallInv'
<1>. USE DEF Goto, CallInv, line, lock, peer, locals
<1>. Reader \in Thread
  BY DEF Thread
<1>. pc \in [Thread -> Place] /\ out \in [Thread -> OutFrame] /\ resume \in [Thread -> Back]
  BY DEF WriterType
<1>. DEFINE Plain(p) == /\ p \in {"read", "finally", "ioexception", "loop", "websocketexception"}
                        /\ pc' = [pc EXCEPT ![Reader] = p]
                        /\ UNCHANGED <<args, out, closes, wire, streamsClosed, ended, broken>>
<1>1. ASSUME NEW p, Plain(p) PROVE CallInv'
  BY <1>1 DEF Sending, ClosingPlace
<1>2. CASE TestOpen
  <2>1. Plain("read") \/ Plain("finally")
    BY <1>2 DEF TestOpen
  <2>. QED
    BY <1>1, <2>1
<1>3. CASE ReadFails
  BY <1>1, <1>3 DEF ReadFails
<1>4. CASE HandleDataFrame
  <2>1. Plain("loop") \/ Plain("websocketexception")
    BY <1>4 DEF HandleDataFrame, FirstFragment, IntermediateFragment, LastFragment,
                WholeMessage, OutOfSequence
  <2>. QED
    BY <1>1, <2>1
<1>5. CASE HandlePing
  BY <1>5 DEF HandlePing, CallSendFrame, Sending, ClosingPlace, FrameOp
<1>6. CASE HandlePong
  BY <1>1, <1>6 DEF HandlePong
<1>7. CASE RefuseFrame
  BY <1>1, <1>7 DEF RefuseFrame
<1>8. CASE CatchIOException
  BY <1>1, <1>8 DEF CatchIOException
<1>9. ASSUME NEW place \in {"close", "doClose"}, NEW code \in Code, NEW remote \in BOOLEAN,
             NEW back, CallClose(Reader, place, code, remote, back),
             UNCHANGED <<out, closes, wire, streamsClosed, ended, broken>>
      PROVE  CallInv'
  BY <1>9 DEF CallClose, Sending, ClosingPlace
<1>10. CASE HandleCloseFrame
  BY <1>9, <1>10 DEF HandleCloseFrame, Code
<1>11. CASE CatchWebSocketException
  BY <1>9, <1>11 DEF CatchWebSocketException, Code
<1>12. CASE Finally
  BY <1>9, <1>12 DEF Finally, Code
<1>. QED
  BY <1>2, <1>3, <1>4, <1>5, <1>6, <1>7, <1>8, <1>10, <1>11, <1>12 DEF ReadWebsocket

LEMMA CallStep ==
  ASSUME WriterType, CallInv, [Next]_vars
  PROVE  CallInv'
<1>. pc \in [Thread -> Place] /\ out \in [Thread -> OutFrame] /\ resume \in [Thread -> Back]
  BY DEF WriterType
<1>1. ASSUME NEW t \in Thread, ThreadStep(t) PROVE CallInv'
  <2>1. ASSUME Open PROVE CallInv'
    BY <2>1 DEF Open, line, lock, peer, CallInv, Sending, ClosingPlace
  <2>. QED
    BY <1>1, <2>1, SendFrameCalls, ClosingCalls, ReadWebsocketCalls DEF ThreadStep
<1>2. ASSUME NEW t \in Sender, CallSend(t) PROVE CallInv'
  <2>1. PICK op \in CallOp : CallSendFrame(t, [op |-> op, data |-> calls + 1], "idle")
    BY <1>2 DEF CallSend
  <2>2. op \in FrameOp
    BY WebSocketAssumption DEF FrameOp, DataOp
  <2>. QED
    BY <1>2, <2>1, <2>2
    DEF CallSend, CallSendFrame, Goto, line, lock, peer, CallInv, Sending, ClosingPlace
<1>3. ASSUME NEW t \in Closer, CallPublicClose(t) PROVE CallInv'
  BY <1>3 DEF CallPublicClose, CallClose, Goto, line, lock, peer, CallInv, Sending,
              ClosingPlace, Code, Thread
<1>4. ASSUME NEW op \in FrameOp, NEW fin \in BOOLEAN, PeerSends(op, fin) PROVE CallInv'
  BY <1>4 DEF PeerSends, line, locals, CallInv
<1>5. CASE PeerEnds
  BY <1>5 DEF PeerEnds, peer, locals, CallInv
<1>6. CASE UNCHANGED vars
  BY <1>6 DEF vars, line, locals, CallInv
<1>. QED
  BY <1>1, <1>2, <1>3, <1>4, <1>5, <1>6 DEF Next

-----------------------------------------------------------------------------
(* How a step changes what is on the way, assembled and delivered.         *)
ControlOp == {"Ping", "Pong", "Close"}
AnyOp == DataOp \union {"Continuation"}

Still == UNCHANGED <<inbound, fragments, delivered, peer>>

(* The server thread takes a control frame.                                *)
TakeControl ==
  /\ ReadFrame(ControlOp)
  /\ HandlePing \/ HandlePong \/ HandleCloseFrame
  /\ UNCHANGED <<fragments, delivered, peer>>

PeerFrame ==
  \E op \in FrameOp, fin \in BOOLEAN :
    /\ op \in ControlOp => fin
    /\ PeerSends(op, fin)

LEMMA MessageChange ==
  ASSUME [Next]_vars
  PROVE  Still \/ HandleDataFrame \/ TakeControl \/ RefuseFrame \/ PeerFrame
<1>. DEFINE Change == Still \/ HandleDataFrame \/ TakeControl \/ RefuseFrame \/ PeerFrame
<1>1. ASSUME NEW t \in Thread, SendFrame(t) PROVE Change
  BY <1>1, Zenon DEF SendFrame, EnterMonitor, WriteHeader, WritePayload, WriteFails, Still
<1>2. ASSUME NEW t \in Thread, Closing(t) PROVE Change
  BY <1>2, Zenon
  DEF Closing, CloseReads, CloseWrites, DoCloseTests, CloseStreams, OnClose, Still
<1>3. ASSUME ReadWebsocket PROVE Change
  <2>1. ASSUME HandlePing \/ HandlePong \/ HandleCloseFrame PROVE TakeControl
    <3>1. ReadFrame(ControlOp)
      BY <2>1 DEF HandlePing, HandlePong, HandleCloseFrame, ReadFrame, ControlOp
    <3>. QED
      BY <2>1, <3>1, Zenon DEF TakeControl, HandlePing, HandlePong, HandleCloseFrame
  <2>. QED
    BY <1>3, <2>1, Zenon
    DEF ReadWebsocket, TestOpen, ReadFails, CatchWebSocketException, CatchIOException,
        Finally, Still
<1>4. ASSUME NEW t, CallSend(t) \/ CallPublicClose(t) PROVE Change
  BY <1>4, Zenon DEF CallSend, CallPublicClose, Still
<1>5. ASSUME PeerEnds \/ Open \/ UNCHANGED vars PROVE Change
  BY <1>5, Zenon DEF PeerEnds, Open, vars, Still
<1>6. ASSUME NEW op \in FrameOp, NEW fin \in BOOLEAN, op \in ControlOp => fin,
             PeerSends(op, fin)
      PROVE  Change
  BY <1>6 DEF PeerFrame
<1>. HIDE DEF Change
<1>7. Change
  BY <1>1, <1>2, <1>3, <1>4, <1>5, <1>6 DEF Next, ThreadStep, ControlOp
<1>. QED
  BY <1>7 DEF Change

LEMMA MessageStep ==
  ASSUME WriterType, MessageInv, [Next]_vars
  PROVE  MessageInv'
<1>. USE DEF fragments, peer
<1>. DEFINE Ids == 1..MaxFrames
<1>1. CASE Still
  BY <1>1 DEF Still, MessageInv
<1>2. CASE HandleDataFrame
  <2>. DEFINE f == Head(inbound)
  <2>1. f \in InFrame /\ f.data \in Ids /\ f.op \in AnyOp
    <3>1. f \in InFrame
      BY <1>2, HeadTailProperties DEF HandleDataFrame, ReadFrame, WriterType
    <3>. QED
      BY <1>2, <3>1 DEF InFrame, HandleDataFrame, ReadFrame, AnyOp
  <2>2. UNCHANGED <<sent, partial, pings, proper>>
    BY <1>2 DEF HandleDataFrame
  <2>3. FirstFragment(f) \/ IntermediateFragment(f) \/ LastFragment(f)
        \/ WholeMessage(f) \/ OutOfSequence(f)
    BY <1>2, Zenon DEF HandleDataFrame
  <2>. HIDE DEF f, Ids
  <2>. DEFINE more == Append(continuousFrames, f.data)
  <2>4. /\ continuousFrames \in Seq(Ids) /\ delivered \in Seq(Message)
        /\ continuousOpCode \in DataOp \union {"None"}
        /\ continuousOpCode = "None" => continuousFrames = <<>>
    BY DEF MessageInv, Ids
  <2>5. more \in Seq(Ids) /\ <<f.data>> \in Seq(Ids)
    BY <2>1, <2>4, AppendProperties
  <2>. HIDE DEF more
  <2>6. ASSUME NEW op \in DataOp, NEW parts \in Seq(Ids)
        PROVE  Append(delivered, [op |-> op, parts |-> parts]) \in Seq(Message)
    <3>1. [op |-> op, parts |-> parts] \in Message
      BY DEF Message, Ids
    <3>. QED
      BY <2>4, <3>1, AppendProperties
  <2>7. /\ continuousFrames' \in Seq(Ids) /\ delivered' \in Seq(Message)
        /\ continuousOpCode' \in DataOp \union {"None"}
        /\ continuousOpCode' = "None" => continuousFrames' = <<>>
    <3>1. CASE FirstFragment(f)
      BY <2>4, <2>5, <3>1 DEF FirstFragment, DataOp
    <3>2. CASE IntermediateFragment(f)
      BY <2>4, <2>5, <3>2 DEF IntermediateFragment, more
    <3>3. CASE LastFragment(f)
      <4>1. continuousOpCode \in DataOp
        BY <2>4, <3>3 DEF LastFragment
      <4>2. /\ delivered' = Append(delivered, [op |-> continuousOpCode, parts |-> more])
            /\ continuousOpCode' = "None" /\ continuousFrames' = <<>>
        BY <3>3 DEF LastFragment, more
      <4>3. delivered' \in Seq(Message)
        BY <2>5, <2>6, <4>1, <4>2, Zenon
      <4>. QED
        BY <4>2, <4>3
    <3>4. CASE WholeMessage(f)
      BY <2>4, <2>5, <2>6, <3>4 DEF WholeMessage
    <3>5. CASE OutOfSequence(f)
      BY <2>4, <3>5 DEF OutOfSequence
    <3>. QED
      BY <2>3, <3>1, <3>2, <3>3, <3>4, <3>5
  <2>. QED
    BY <2>2, <2>7 DEF MessageInv, Ids
<1>3. CASE TakeControl
  BY <1>3 DEF TakeControl, MessageInv
<1>4. CASE RefuseFrame
  BY <1>4 DEF RefuseFrame, MessageInv
<1>5. ASSUME NEW op \in FrameOp, NEW fin \in BOOLEAN, PeerSends(op, fin)
      PROVE  MessageInv'
  <2>1. count + 1 \in Ids
    BY <1>5, WebSocketAssumption DEF PeerSends, WriterType
  <2>. DEFINE id == count + 1
              more == Append(partial.parts, id)
  <2>i. id \in Ids
    BY <2>1
  <2>. HIDE DEF id, Ids
  <2>2. /\ sent \in Seq(Message) /\ pings \in Seq(Ids) /\ proper \in BOOLEAN
        /\ partial.op \in DataOp \union {"None"} /\ partial.parts \in Seq(Ids)
        /\ partial \in [op : DataOp \union {"None"}, parts : Seq(Ids)]
        /\ partial.op = "None" => partial.parts = <<>>
    BY DEF MessageInv, Ids
  <2>3. pings' \in Seq(Ids)
    <3>1. pings' = pings \/ pings' = Append(pings, id)
      BY <1>5 DEF PeerSends, id
    <3>2. Append(pings, id) \in Seq(Ids)
      BY <2>2, <2>i, AppendProperties, Zenon
    <3>. QED
      BY <2>2, <3>1, <3>2, Zenon
  <2>4. more \in Seq(Ids)
    BY <2>i, <2>2, AppendProperties
  <2>. HIDE DEF more
  <2>5. /\ sent' \in Seq(Message)
        /\ partial' \in [op : DataOp \union {"None"}, parts : Seq(Ids)]
        /\ partial'.op = "None" => partial'.parts = <<>>
    <3>1. CASE UNCHANGED <<sent, partial>>
      BY <2>2, <3>1
    <3>2. CASE proper' /\ op \in AnyOp
      <4>1. proper /\ InSequence(op)
        BY <1>5, <3>2 DEF PeerSends
      <4>. DEFINE whole == IF op = "Continuation" THEN partial.op ELSE op
      <4>2. whole \in DataOp
        BY <2>2, <3>2, <4>1 DEF InSequence, AnyOp, DataOp
      <4>3. Extended(op, id) = [op |-> whole, parts |-> more]
        BY DEF Extended, more
      <4>. HIDE DEF whole
      <4>4. Extended(op, id) \in Message
        BY <2>4, <4>2, <4>3 DEF Message, Ids
      <4>5. CASE fin
        <5>1. sent' = Append(sent, Extended(op, id)) /\ partial' = NoPartial
          BY <1>5, <3>2, <4>5, Zenon DEF PeerSends, AnyOp, id
        <5>2. sent' \in Seq(Message)
          BY <2>2, <4>4, <5>1, AppendProperties
        <5>. QED
          BY <5>1, <5>2 DEF NoPartial
      <4>6. CASE ~fin
        <5>1. partial' = [op |-> whole, parts |-> more] /\ sent' = sent
          BY <1>5, <3>2, <4>3, <4>6, Zenon DEF PeerSends, AnyOp, id
        <5>. QED
          BY <2>2, <2>4, <4>2, <5>1 DEF DataOp
      <4>. QED
        BY <4>5, <4>6
    <3>. QED
      BY <1>5, <3>1, <3>2, Zenon DEF PeerSends, AnyOp
  <2>6. proper' \in BOOLEAN /\ UNCHANGED <<fragments, delivered>>
    BY <1>5 DEF PeerSends
  <2>. QED
    BY <2>3, <2>5, <2>6 DEF MessageInv, Ids
<1>. QED
  BY <1>1, <1>2, <1>3, <1>4, <1>5, MessageChange, Zenon DEF PeerFrame

LEMMA NextTypeInv == TypeInv /\ [Next]_vars => TypeInv'
  BY NextWireInv, FieldStep, CallStep, MessageStep DEF TypeInv, WireInv

(* Every variable has its type in every state: in particular onMessage is  *)
(* given text or binary and never a continuation, and no thread has seen a *)
(* value of the state that was not written (NanoWSD.java, lines 117-300).  *)
THEOREM SocketIsTyped == Spec => []TypeOK
  BY InitTypeInv, NextTypeInv, TypeInvTypeOK, PTL DEF Spec

-----------------------------------------------------------------------------
(* What is on its way is what the peer sent after what was read: reading   *)
(* the frames in box takes a reader from one state to the next.  A state   *)
(* is how many messages are complete and what there is of the next.        *)
Extension(a, f) ==
  [op |-> IF f.op = "Continuation" THEN a.op ELSE f.op, parts |-> Append(a.parts, f.data)]

OutOfTurn(a, f) == f.op = "Continuation" <=> a.op = "None"

Reads(a, f, b, s) ==
  \/ f.op \in ControlOp /\ b = a
  \/ /\ f.op \in AnyOp /\ ~OutOfTurn(a, f)
     /\ f.fin
     /\ b = [done |-> a.done + 1, op |-> "None", parts |-> <<>>]
     /\ b.done \in 1..Len(s) /\ s[b.done] = Extension(a, f)
  \/ /\ f.op \in AnyOp /\ ~OutOfTurn(a, f)
     /\ ~f.fin
     /\ b = [done |-> a.done, op |-> Extension(a, f).op, parts |-> Extension(a, f).parts]

Refuses(a, f) == f.op = "Bad" \/ (f.op \in AnyOp /\ OutOfTurn(a, f))

Parse(st, n, box, from, to, s) ==
  /\ n \in 0..Len(box)
  /\ st[0] = from /\ st[n] = to
  /\ \A i \in 1..n : Reads(st[i - 1], box[i], st[i], s)

LEMMA ReadsOrRefuses ==
  ASSUME NEW a, NEW f, NEW b, NEW s, Reads(a, f, b, s)
  PROVE  ~Refuses(a, f)
  BY DEF Reads, Refuses, ControlOp, AnyOp, DataOp

LEMMA ParseKeeps ==
  ASSUME NEW S, NEW box \in Seq(S), NEW f \in S, NEW st, NEW n, NEW from, NEW to, NEW s,
         Parse(st, n, box, from, to, s)
  PROVE  /\ Parse(st, n, Append(box, f), from, to, s)
         /\ n < Len(box) => Append(box, f)[n + 1] = box[n + 1]
<1>1. Len(Append(box, f)) = Len(box) + 1 /\ \A i \in 1..Len(box) : Append(box, f)[i] = box[i]
  BY AppendProperties
<1>2. Len(box) \in Nat /\ n \in 0..Len(box)
  BY DEF Parse
<1>3. n \in 0..(Len(box) + 1) /\ (\A i \in 1..n : i \in 1..Len(box))
      /\ (n < Len(box) => n + 1 \in 1..Len(box))
  BY <1>2
<1>. QED
  BY <1>1, <1>3, Zenon DEF Parse

LEMMA ParseGrows ==
  ASSUME NEW S, NEW box \in Seq(S), NEW f \in S, NEW st, NEW from, NEW to, NEW next, NEW s,
         Parse(st, Len(box), box, from, to, s), Reads(to, f, next, s)
  PROVE  \E c : Parse(c, Len(Append(box, f)), Append(box, f), from, next, s)
<1>. DEFINE n == Len(box)
            more == Append(box, f)
            c == [i \in 0..(n + 1) |-> IF i = n + 1 THEN next ELSE st[i]]
<1>1. n \in Nat /\ Len(more) = n + 1 /\ more[n + 1] = f /\ \A i \in 1..n : more[i] = box[i]
  BY AppendProperties
<1>2. st[0] = from /\ st[n] = to /\ \A i \in 1..n : Reads(st[i - 1], box[i], st[i], s)
  BY DEF Parse
<1>3. c[n + 1] = next /\ c[0] = from /\ \A i \in 0..n : c[i] = st[i]
  <2>. HIDE DEF n
  <2>. QED
    BY <1>1, <1>2
<1>. HIDE DEF c, n, more
<1>4. ASSUME NEW i \in 1..(n + 1) PROVE Reads(c[i - 1], more[i], c[i], s)
  <2>1. CASE i = n + 1
    <3>1. i - 1 = n /\ n \in 0..n
      BY <1>1, <2>1
    <3>. QED
      BY <1>1, <1>2, <1>3, <2>1, <3>1 DEF n
  <2>2. CASE i # n + 1
    <3>1. i \in 1..n /\ i \in 0..n /\ i - 1 \in 0..n
      BY <1>1, <2>2
    <3>. QED
      BY <1>1, <1>2, <1>3, <3>1, Zenon
  <2>. QED
    BY <2>1, <2>2
<1>5. n + 1 \in 0..Len(more)
  BY <1>1
<1>6. Parse(c, n + 1, more, from, next, s)
  BY <1>3, <1>4, <1>5, Zenon DEF Parse
<1>. QED
  BY <1>1, <1>6 DEF more

LEMMA ParseSends ==
  ASSUME NEW S, NEW s \in Seq(S), NEW m \in S,
         NEW st, NEW n, NEW box, NEW from, NEW to, Parse(st, n, box, from, to, s)
  PROVE  Parse(st, n, box, from, to, Append(s, m))
<1>. DEFINE t == Append(s, m)
<1>1. /\ Len(s) \in Nat /\ Len(t) = Len(s) + 1 /\ t[Len(s) + 1] = m
      /\ \A i \in 1..Len(s) : t[i] = s[i]
  BY AppendProperties
<1>2. \A i \in 1..Len(s) : i \in 1..Len(t)
  BY <1>1
<1>. HIDE DEF t
<1>3. ASSUME NEW a, NEW f, NEW b, Reads(a, f, b, s) PROVE Reads(a, f, b, t)
  BY <1>1, <1>2, <1>3, Zenon DEF Reads
<1>4. Parse(st, n, box, from, to, t)
  BY <1>3, Zenon DEF Parse
<1>. QED
  BY <1>4 DEF t

LEMMA ParseTakes ==
  ASSUME NEW S, NEW box \in Seq(S), box # <<>>,
         NEW st, NEW n, NEW from, NEW to, NEW s, Parse(st, n, box, from, to, s), n # 0
  PROVE  /\ n - 1 \in Nat
         /\ Reads(from, Head(box), st[1], s)
         /\ Len(Tail(box)) = Len(box) - 1
         /\ n < Len(box) => Tail(box)[(n - 1) + 1] = box[n + 1]
         /\ \E c : Parse(c, n - 1, Tail(box), st[1], to, s)
<1>. DEFINE rest == Tail(box)
            c == [i \in 0..(n - 1) |-> st[i + 1]]
<1>1. /\ Len(box) \in Nat /\ n \in 1..Len(box) /\ st[0] = from /\ st[n] = to
      /\ \A i \in 1..n : Reads(st[i - 1], box[i], st[i], s)
  BY DEF Parse
<1>2. /\ Head(box) = box[1] /\ rest \in Seq(S) /\ Len(rest) = Len(box) - 1
      /\ \A i \in 1..Len(rest) : rest[i] = box[i + 1]
  BY HeadTailProperties
<1>3. n - 1 \in Nat /\ n - 1 \in 0..Len(rest) /\ 1 \in 1..n /\ 1 - 1 = 0
  BY <1>1, <1>2
<1>4. Reads(from, Head(box), st[1], s)
  BY <1>1, <1>2, <1>3
<1>5. c[0] = st[1] /\ c[n - 1] = to /\ \A i \in 0..(n - 1) : c[i] = st[i + 1]
  BY <1>1, <1>3
<1>. HIDE DEF c, rest
<1>6. ASSUME NEW i \in 1..(n - 1) PROVE Reads(c[i - 1], rest[i], c[i], s)
  <2>1. /\ i + 1 \in 1..n /\ i \in 1..Len(rest) /\ i - 1 \in 0..(n - 1) /\ i \in 0..(n - 1)
        /\ (i + 1) - 1 = i /\ (i - 1) + 1 = i
    BY <1>1, <1>2, <1>3
  <2>2. Reads(st[(i + 1) - 1], box[i + 1], st[i + 1], s)
    BY <1>1, <2>1, Zenon
  <2>3. c[i - 1] = st[(i - 1) + 1] /\ c[i] = st[i + 1] /\ rest[i] = box[i + 1]
    BY <1>2, <1>5, <2>1, Zenon
  <2>. QED
    BY <2>1, <2>2, <2>3, Zenon
<1>7. Parse(c, n - 1, rest, st[1], to, s)
  BY <1>3, <1>5, <1>6, Zenon DEF Parse
<1>8. n < Len(box) => rest[(n - 1) + 1] = box[n + 1]
  BY <1>1, <1>2
<1>. QED
  BY <1>2, <1>3, <1>4, <1>7, <1>8 DEF rest

-----------------------------------------------------------------------------
(* The server thread has refused a frame, or has left the loop: it reads   *)
(* no more.                                                                *)
Stopped ==
  \/ pc[Reader] \in {"websocketexception", "finally", "ended"}
  \/ pc[Reader] \in {"doClose", "streams", "onClose"} /\ resume[Reader] \in {"finally", "ended"}

LEMMA ReaderPlace ==
  ASSUME WriterType, [Next]_vars
  PROVE  /\ Stopped => Stopped'
         /\ pc'[Reader] = "websocketexception" =>
              pc[Reader] = "websocketexception" \/ HandleDataFrame \/ RefuseFrame
<1>. DEFINE Goal == /\ Stopped => Stopped'
                    /\ pc'[Reader] = "websocketexception" =>
                         pc[Reader] = "websocketexception" \/ HandleDataFrame \/ RefuseFrame
<1>. USE DEF Goto
<1>. /\ pc \in [Thread -> Place] /\ resume \in [Thread -> Back] /\ Reader \in Thread
     /\ "websocketexception" \notin Back
  BY DEF WriterType, Thread, Back
<1>1. ASSUME pc'[Reader] = pc[Reader], resume'[Reader] = resume[Reader] PROVE Goal
  BY <1>1 DEF Stopped
<1>2. ASSUME NEW t \in Thread, SendFrame(t) PROVE Goal
  <2>1. CASE t = Reader
    <3>1. pc[Reader] \in Sending /\ pc'[Reader] # "websocketexception"
      <4>1. CASE EnterMonitor(t)
        BY <2>1, <4>1 DEF EnterMonitor, Sending
      <4>2. CASE WriteHeader(t)
        BY <2>1, <4>2 DEF WriteHeader, Write, Sending
      <4>3. CASE WritePayload(t)
        BY <2>1, <4>3 DEF WritePayload, Write, Sending
      <4>4. CASE WriteFails(t)
        BY <2>1, <4>4 DEF WriteFails, Thrown, Rest, Sending
      <4>. QED
        BY <1>2, <4>1, <4>2, <4>3, <4>4 DEF SendFrame
    <3>. QED
      BY <3>1 DEF Stopped, Sending
  <2>2. CASE t # Reader
    <3>1. pc'[Reader] = pc[Reader] /\ resume'[Reader] = resume[Reader]
      BY <1>2, <2>2
      DEF SendFrame, EnterMonitor, WriteHeader, WritePayload, WriteFails, Write
    <3>. QED
      BY <1>1, <3>1
  <2>. QED
    BY <2>1, <2>2
<1>3. ASSUME NEW t \in Thread, Closing(t) PROVE Goal
  <2>1. CASE t # Reader
    <3>1. pc'[Reader] = pc[Reader] /\ resume'[Reader] = resume[Reader]
      <4>1. CASE CloseWrites(t)
        BY <2>1, <4>1 DEF CloseWrites, CallSendFrame
      <4>2. CASE ~CloseWrites(t)
        BY <1>3, <2>1, <4>2
        DEF Closing, CloseReads, DoCloseTests, Return, CloseStreams, OnClose
      <4>. QED
        BY <4>1, <4>2
    <3>. QED
      BY <1>1, <3>1
  <2>2. CASE t = Reader
    <3>1. CASE CloseReads(t)
      BY <2>2, <3>1 DEF CloseReads, Stopped
    <3>2. CASE CloseWrites(t)
      <4>1. pc[Reader] = "closeWrites" /\ pc'[Reader] \in {"sendFrame", "doClose"}
        BY <2>2, <3>2 DEF CloseWrites, CallSendFrame
      <4>. QED
        BY <4>1 DEF Stopped
    <3>3. CASE DoCloseTests(t)
      <4>1. CASE Return(t)
        BY <2>2, <3>3, <4>1 DEF DoCloseTests, Return, Stopped
      <4>2. CASE Goto(t, "streams") /\ UNCHANGED <<resume, args>>
        BY <2>2, <3>3, <4>2 DEF DoCloseTests, Stopped
      <4>. QED
        BY <3>3, <4>1, <4>2 DEF DoCloseTests
    <3>4. CASE CloseStreams(t)
      BY <2>2, <3>4 DEF CloseStreams, Stopped
    <3>5. CASE OnClose(t)
      BY <2>2, <3>5 DEF OnClose, Return, Stopped
    <3>. QED
      BY <1>3, <3>1, <3>2, <3>3, <3>4, <3>5 DEF Closing
  <2>. QED
    BY <2>1, <2>2
<1>4. ASSUME ReadWebsocket PROVE Goal
  <2>1. CASE TestOpen \/ ReadFails \/ HandlePing \/ HandlePong \/ HandleCloseFrame
    <3>1. pc[Reader] \in {"loop", "read"} /\ pc'[Reader] # "websocketexception"
      BY <2>1 DEF TestOpen, ReadFails, HandlePing, HandlePong, HandleCloseFrame, ReadFrame,
                  CallSendFrame, CallClose
    <3>. QED
      BY <3>1 DEF Stopped
  <2>2. CASE HandleDataFrame \/ RefuseFrame
    <3>1. pc[Reader] = "read"
      BY <2>2 DEF HandleDataFrame, RefuseFrame, ReadFrame
    <3>. QED
      BY <2>2, <3>1 DEF Stopped
  <2>3. CASE CatchWebSocketException
    BY <2>3 DEF CatchWebSocketException, CallClose, Stopped
  <2>4. CASE CatchIOException
    BY <2>4 DEF CatchIOException, Stopped
  <2>5. CASE Finally
    BY <2>5 DEF Finally, CallClose, Stopped
  <2>. QED
    BY <1>4, <2>1, <2>2, <2>3, <2>4, <2>5, Zenon DEF ReadWebsocket
<1>5. ASSUME Open PROVE Goal
  BY <1>5 DEF Open, Stopped
<1>6. ASSUME NEW t \in Sender \union Closer, CallSend(t) \/ CallPublicClose(t) PROVE Goal
  <2>1. t # Reader /\ t \in Thread
    BY WebSocketAssumption DEF Thread
  <2>. QED
    BY <1>1, <1>6, <2>1 DEF CallSend, CallSendFrame, CallPublicClose, CallClose
<1>7. ASSUME PeerEnds \/ UNCHANGED vars PROVE Goal
  BY <1>1, <1>7 DEF PeerEnds, vars, locals
<1>8. ASSUME NEW op, NEW fin, PeerSends(op, fin) PROVE Goal
  BY <1>1, <1>8 DEF PeerSends, locals
<1>. HIDE DEF Goal
<1>9. Goal
  BY <1>2, <1>3, <1>4, <1>5, <1>6, <1>7, <1>8, Zenon DEF Next, ThreadStep
<1>. QED
  BY <1>9 DEF Goal

Here == [done |-> Len(delivered), op |-> continuousOpCode, parts |-> continuousFrames]
There == [done |-> Len(sent), op |-> partial.op, parts |-> partial.parts]

(* Reading the first n frames on the way completes what the peer sent; if  *)
(* it broke the protocol, with the frame after them.                       *)
OnTheWay(st, n) ==
  /\ Parse(st, n, inbound, Here, There, sent)
  /\ \/ proper /\ n = Len(inbound)
     \/ ~proper /\ n < Len(inbound) /\ Refuses(There, inbound[n + 1])

DeliveryInv ==
  /\ Len(delivered) <= Len(sent)
  /\ \A i \in 1..Len(delivered) : delivered[i] = sent[i]
  /\ \/ ~proper /\ Stopped
     \/ \E st, n : OnTheWay(st, n)

(* A frame that is read is one that the peer sent in its turn, or the one  *)
(* by which it broke the protocol.                                         *)
LEMMA NextOnTheWay ==
  ASSUME WriterType, MessageInv, DeliveryInv, pc[Reader] = "read", inbound # <<>>
  PROVE  \/ ~proper /\ Refuses(Here, Head(inbound))
         \/ \E a : /\ Reads(Here, Head(inbound), a, sent)
                   /\ \E st, n :
                        /\ Parse(st, n, Tail(inbound), a, There, sent)
                        /\ \/ proper /\ n = Len(Tail(inbound))
                           \/ ~proper /\ n < Len(Tail(inbound))
                                      /\ Refuses(There, Tail(inbound)[n + 1])
<1>1. PICK st, n : OnTheWay(st, n)
  BY DEF DeliveryInv, Stopped
<1>2. Parse(st, n, inbound, Here, There, sent) /\ inbound \in Seq(InFrame)
  BY <1>1 DEF OnTheWay, WriterType
<1>3. Len(inbound) \in Nat /\ Len(inbound) # 0 /\ n \in 0..Len(inbound)
      /\ Head(inbound) = inbound[1]
  BY <1>2 DEF Parse
<1>4. CASE n = 0
  <2>1. Here = There
    BY <1>2, <1>4 DEF Parse
  <2>2. ~proper /\ Refuses(There, inbound[1])
    <3>1. 0 + 1 = 1
      OBVIOUS
    <3>. QED
      BY <1>1, <1>3, <1>4, <3>1 DEF OnTheWay
  <2>. QED
    BY <1>3, <2>1, <2>2
<1>5. CASE n # 0
  <2>1. /\ n - 1 \in Nat
        /\ Reads(Here, Head(inbound), st[1], sent)
        /\ Len(Tail(inbound)) = Len(inbound) - 1
        /\ n < Len(inbound) => Tail(inbound)[(n - 1) + 1] = inbound[n + 1]
        /\ \E c : Parse(c, n - 1, Tail(inbound), st[1], There, sent)
    BY <1>2, <1>5, ParseTakes, Zenon
  <2>2. \/ proper /\ n - 1 = Len(Tail(inbound))
        \/ ~proper /\ n - 1 < Len(Tail(inbound))
                   /\ Refuses(There, Tail(inbound)[(n - 1) + 1])
    <3>1. CASE proper /\ n = Len(inbound)
      BY <1>3, <2>1, <3>1
    <3>2. CASE ~proper /\ n < Len(inbound) /\ Refuses(There, inbound[n + 1])
      <4>1. n - 1 < Len(Tail(inbound))
        BY <1>3, <2>1, <3>2
      <4>. QED
        BY <2>1, <3>2, <4>1, Zenon
    <3>. QED
      BY <1>1, <3>1, <3>2 DEF OnTheWay
  <2>. QED
    BY <2>1, <2>2, Zenon
<1>. QED
  BY <1>4, <1>5

LEMMA ControlDelivery ==
  ASSUME WriterType, MessageInv, DeliveryInv, TakeControl
  PROVE  DeliveryInv'
<1>1. /\ pc[Reader] = "read" /\ inbound # <<>> /\ Head(inbound).op \in ControlOp
      /\ inbound' = Tail(inbound) /\ UNCHANGED <<fragments, delivered, peer>>
  BY DEF TakeControl, ReadFrame
<1>2. ~Refuses(Here, Head(inbound))
  BY <1>1 DEF Refuses, ControlOp, AnyOp, DataOp
<1>3. PICK a, st, n : /\ Reads(Here, Head(inbound), a, sent)
                      /\ Parse(st, n, Tail(inbound), a, There, sent)
                      /\ \/ proper /\ n = Len(Tail(inbound))
                         \/ ~proper /\ n < Len(Tail(inbound))
                                    /\ Refuses(There, Tail(inbound)[n + 1])
  BY <1>1, <1>2, NextOnTheWay, Zenon
<1>4. a = Here
  BY <1>1, <1>3 DEF Reads, ControlOp, AnyOp, DataOp
<1>5. /\ Here' = Here /\ There' = There /\ sent' = sent /\ proper' = proper
      /\ delivered' = delivered
  BY <1>1 DEF Here, There, fragments, peer
<1>6. OnTheWay(st, n)'
  BY <1>1, <1>3, <1>4, <1>5, Zenon DEF OnTheWay
<1>. QED
  BY <1>5, <1>6, Zenon DEF DeliveryInv

LEMMA RefusedDelivery ==
  ASSUME WriterType, MessageInv, DeliveryInv, RefuseFrame
  PROVE  DeliveryInv' /\ ~proper
<1>1. /\ pc[Reader] = "read" /\ inbound # <<>> /\ Head(inbound).op = "Bad"
      /\ pc' = [pc EXCEPT ![Reader] = "websocketexception"]
      /\ UNCHANGED <<sent, proper, delivered>>
  BY DEF RefuseFrame, ReadFrame, Goto, peer
<1>2. ~proper
  <2>1. \A a : ~Reads(Here, Head(inbound), a, sent)
    BY <1>1, ReadsOrRefuses, Zenon DEF Refuses
  <2>. QED
    BY <1>1, <2>1, NextOnTheWay, Zenon
<1>3. Stopped'
  BY <1>1 DEF WriterType, Stopped, Thread
<1>. QED
  BY <1>1, <1>2, <1>3, Zenon DEF DeliveryInv

LEMMA DataDelivery ==
  ASSUME WriterType, MessageInv, DeliveryInv, HandleDataFrame
  PROVE  /\ DeliveryInv'
         /\ pc'[Reader] = "websocketexception" => ~proper
         /\ \/ delivered' = delivered
            \/ /\ Len(delivered) < Len(sent)
               /\ delivered' = Append(delivered, sent[Len(delivered) + 1])
<1>. DEFINE f == Head(inbound)
<1>1. /\ pc[Reader] = "read" /\ inbound # <<>> /\ f.op \in AnyOp
      /\ inbound' = Tail(inbound) /\ UNCHANGED <<sent, partial, proper>>
  BY DEF HandleDataFrame, ReadFrame, peer, AnyOp
<1>2. FirstFragment(f) \/ IntermediateFragment(f) \/ LastFragment(f)
      \/ WholeMessage(f) \/ OutOfSequence(f)
  BY Zenon DEF HandleDataFrame
<1>3. \/ ~proper /\ Refuses(Here, f)
      \/ \E a : /\ Reads(Here, f, a, sent)
                /\ \E st, n :
                     /\ Parse(st, n, Tail(inbound), a, There, sent)
                     /\ \/ proper /\ n = Len(Tail(inbound))
                        \/ ~proper /\ n < Len(Tail(inbound))
                                   /\ Refuses(There, Tail(inbound)[n + 1])
  BY <1>1, NextOnTheWay, Zenon
<1>. HIDE DEF f
<1>4. Here.op = continuousOpCode /\ Here.parts = continuousFrames /\ Here.done = Len(delivered)
  BY DEF Here
<1>5. "Bad" \notin AnyOp /\ AnyOp \intersect ControlOp = {} /\ "Continuation" \notin DataOp
  BY DEF AnyOp, DataOp, ControlOp
<1>6. CASE ~proper /\ Refuses(Here, f)
  <2>1. OutOfTurn(Here, f)
    BY <1>1, <1>5, <1>6 DEF Refuses
  <2>2. OutOfSequence(f)
    <3>1. f.op = "Continuation" <=> continuousOpCode = "None"
      BY <1>4, <2>1 DEF OutOfTurn
    <3>. QED
      BY <1>2, <1>5, <3>1
      DEF FirstFragment, IntermediateFragment, LastFragment, WholeMessage
  <2>3. pc' = [pc EXCEPT ![Reader] = "websocketexception"] /\ delivered' = delivered
    BY <2>2 DEF OutOfSequence, Goto
  <2>4. Stopped'
    BY <2>3 DEF WriterType, Stopped, Thread
  <2>. QED
    BY <1>1, <1>6, <2>3, <2>4, Zenon DEF DeliveryInv
<1>7. ASSUME NEW a, NEW st, NEW n, Reads(Here, f, a, sent),
             Parse(st, n, Tail(inbound), a, There, sent),
             \/ proper /\ n = Len(Tail(inbound))
             \/ ~proper /\ n < Len(Tail(inbound)) /\ Refuses(There, Tail(inbound)[n + 1])
      PROVE  /\ DeliveryInv'
             /\ pc'[Reader] # "websocketexception"
             /\ \/ delivered' = delivered
                \/ /\ Len(delivered) < Len(sent)
                   /\ delivered' = Append(delivered, sent[Len(delivered) + 1])
  <2>1. ~(f.op = "Continuation" <=> continuousOpCode = "None") /\ f.op \notin ControlOp
    BY <1>1, <1>4, <1>5, <1>7 DEF Reads, OutOfTurn
  <2>2. ~OutOfSequence(f)
    BY <2>1 DEF OutOfSequence
  <2>3. pc' = [pc EXCEPT ![Reader] = "loop"]
    BY <1>2, <2>2, Zenon
    DEF FirstFragment, IntermediateFragment, LastFragment, WholeMessage, Goto
  <2>4. pc'[Reader] # "websocketexception"
    BY <2>3 DEF WriterType, Thread
  <2>5. continuousOpCode = "None" => continuousFrames = <<>>
    BY DEF MessageInv
  <2>6. delivered \in Seq(Message) /\ Len(delivered) \in Nat /\ sent \in Seq(Message)
    BY DEF MessageInv
  <2>7. Append(<<>>, f.data) = <<f.data>>
    OBVIOUS
  <2>8. Extension(Here, f) =
          [op |-> IF f.op = "Continuation" THEN continuousOpCode ELSE f.op,
           parts |-> Append(continuousFrames, f.data)]
    BY <1>4, Zenon DEF Extension
  <2>9. CASE ~f.fin
    <3>1. a = [done |-> Len(delivered), op |-> Extension(Here, f).op,
               parts |-> Extension(Here, f).parts]
      BY <1>4, <1>7, <2>1, <2>9, Zenon DEF Reads
    <3>2. FirstFragment(f) \/ IntermediateFragment(f)
      BY <1>2, <2>2, <2>9, Zenon DEF LastFragment, WholeMessage
    <3>3. /\ delivered' = delivered /\ continuousOpCode' = Extension(Here, f).op
          /\ continuousFrames' = Extension(Here, f).parts
      <4>1. CASE FirstFragment(f)
        BY <1>5, <2>5, <2>7, <2>8, <4>1 DEF FirstFragment
      <4>2. CASE IntermediateFragment(f)
        BY <2>8, <4>2 DEF IntermediateFragment
      <4>. QED
        BY <3>2, <4>1, <4>2
    <3>4. Here' = a /\ There' = There
      BY <1>1, <3>1, <3>3, Zenon DEF Here, There
    <3>5. OnTheWay(st, n)'
      BY <1>1, <1>7, <3>4, Zenon DEF OnTheWay
    <3>6. DeliveryInv'
      BY <1>1, <3>3, <3>5, Zenon DEF DeliveryInv
    <3>. QED
      BY <2>4, <3>3, <3>6
  <2>10. CASE f.fin
    <3>1. /\ a = [done |-> Len(delivered) + 1, op |-> "None", parts |-> <<>>]
          /\ Len(delivered) + 1 \in 1..Len(sent)
          /\ sent[Len(delivered) + 1] = Extension(Here, f)
      BY <1>4, <1>7, <2>1, <2>10 DEF Reads
    <3>2. LastFragment(f) \/ WholeMessage(f)
      BY <1>2, <2>2, <2>10, Zenon DEF FirstFragment, IntermediateFragment
    <3>3. /\ delivered' = Append(delivered, Extension(Here, f))
          /\ continuousOpCode' = "None" /\ continuousFrames' = <<>>
      <4>1. CASE LastFragment(f)
        BY <2>8, <4>1 DEF LastFragment
      <4>2. CASE WholeMessage(f)
        BY <1>5, <2>5, <2>7, <2>8, <4>2 DEF WholeMessage, fragments
      <4>. QED
        BY <3>2, <4>1, <4>2
    <3>4. delivered' = Append(delivered, sent[Len(delivered) + 1])
      BY <3>1, <3>3
    <3>5. /\ Len(delivered') = Len(delivered) + 1
          /\ delivered'[Len(delivered) + 1] = sent[Len(delivered) + 1]
          /\ \A i \in 1..Len(delivered) : delivered'[i] = delivered[i]
      <4>1. sent[Len(delivered) + 1] \in Message
        BY <2>6, <3>1
      <4>. QED
        BY <2>6, <3>4, <4>1, AppendProperties
    <3>6. Len(delivered) < Len(sent) /\ Len(delivered') <= Len(sent)
      BY <2>6, <3>1, <3>5
    <3>7. \A i \in 1..Len(delivered') : delivered'[i] = sent[i]
      <4>1. \A i \in 1..Len(delivered') : i = Len(delivered) + 1 \/ i \in 1..Len(delivered)
        BY <2>6, <3>5
      <4>. QED
        BY <3>5, <4>1, Zenon DEF DeliveryInv
    <3>8. Here' = a /\ There' = There
      BY <1>1, <3>1, <3>3, <3>5, Zenon DEF Here, There
    <3>9. OnTheWay(st, n)'
      BY <1>1, <1>7, <3>8, Zenon DEF OnTheWay
    <3>10. DeliveryInv'
      BY <1>1, <3>6, <3>7, <3>9, Zenon DEF DeliveryInv
    <3>. QED
      BY <2>4, <3>4, <3>6, <3>10
  <2>. QED
    BY <2>9, <2>10
<1>. QED
  BY <1>3, <1>6, <1>7, Zenon

LEMMA ExtendedMessage ==
  ASSUME WriterType, MessageInv, NEW op \in AnyOp, NEW fin, PeerSends(op, fin), InSequence(op)
  PROVE  Extended(op, count + 1) \in Message
<1>. DEFINE whole == IF op = "Continuation" THEN partial.op ELSE op
            more == Append(partial.parts, count + 1)
<1>1. count + 1 \in 1..MaxFrames
  BY WebSocketAssumption DEF PeerSends, WriterType
<1>2. partial.op \in DataOp \union {"None"} /\ partial.parts \in Seq(1..MaxFrames)
  BY DEF MessageInv
<1>3. whole \in DataOp
  BY <1>2 DEF InSequence, AnyOp, DataOp
<1>4. more \in Seq(1..MaxFrames)
  BY <1>1, <1>2, AppendProperties
<1>5. Extended(op, count + 1) = [op |-> whole, parts |-> more]
  BY DEF Extended
<1>. HIDE DEF whole, more
<1>. QED
  BY <1>3, <1>4, <1>5 DEF Message

LEMMA PeerDelivery ==
  ASSUME WriterType, MessageInv, DeliveryInv, Stopped => Stopped',
         NEW op \in FrameOp, NEW fin \in BOOLEAN, PeerSends(op, fin)
  PROVE  DeliveryInv'
<1>. DEFINE f == [op |-> op, fin |-> fin, data |-> count + 1]
            Sends == proper /\ InSequence(op)
<1>1. /\ inbound' = Append(inbound, f) /\ UNCHANGED <<fragments, delivered, pc, resume>>
      /\ proper' = (proper /\ InSequence(op))
  BY Zenon DEF PeerSends, locals
<1>2. f \in InFrame /\ inbound \in Seq(InFrame) /\ proper \in BOOLEAN
  <2>1. count + 1 \in 1..MaxFrames
    BY WebSocketAssumption DEF PeerSends, WriterType
  <2>. QED
    BY <2>1 DEF InFrame, WriterType, MessageInv
<1>3. f.op = op /\ f.fin = fin /\ f.data = count + 1
  OBVIOUS
<1>4. /\ partial.op \in DataOp \union {"None"} /\ sent \in Seq(Message)
      /\ Len(sent) \in Nat /\ Len(delivered) \in Nat /\ Len(inbound) \in Nat
  BY <1>2 DEF MessageInv
<1>5. There.op = partial.op /\ There.parts = partial.parts /\ There.done = Len(sent)
  BY Zenon DEF There
<1>. HIDE DEF f
<1>6. Len(inbound') = Len(inbound) + 1 /\ inbound'[Len(inbound) + 1] = f
  BY <1>1, <1>2, AppendProperties
<1>7. Here' = Here
  BY <1>1 DEF Here, fragments
<1>8. CASE ~Sends
  <2>1. sent' = sent /\ partial' = partial /\ ~proper'
    BY <1>1, <1>8, Zenon DEF PeerSends
  <2>2. There' = There
    BY <2>1 DEF There
  <2>3. CASE ~proper /\ Stopped
    BY <1>1, <2>1, <2>3, Zenon DEF DeliveryInv
  <2>4. ASSUME NEW st, NEW n, OnTheWay(st, n)
        PROVE  OnTheWay(st, n)'
    <3>1. Parse(st, n, inbound, Here, There, sent)
      BY <2>4 DEF OnTheWay
    <3>2. /\ Parse(st, n, inbound', Here, There, sent)
          /\ n < Len(inbound) => inbound'[n + 1] = inbound[n + 1]
      BY <1>1, <1>2, <3>1, ParseKeeps, Zenon
    <3>3. n < Len(inbound') /\ Refuses(There, inbound'[n + 1])
      <4>1. CASE proper /\ n = Len(inbound)
        <5>1. Refuses(There, f)
          <6>1. ~InSequence(op)
            BY <1>8, <4>1
          <6>. QED
            BY <1>3, <1>4, <1>5, <6>1
            DEF InSequence, Refuses, OutOfTurn, FrameOp, AnyOp, DataOp
        <5>. QED
          BY <1>4, <1>6, <4>1, <5>1
      <4>2. CASE ~proper /\ n < Len(inbound) /\ Refuses(There, inbound[n + 1])
        <5>1. n < Len(inbound')
          BY <1>4, <1>6, <3>1, <4>2 DEF Parse
        <5>. QED
          BY <3>2, <4>2, <5>1
      <4>. QED
        BY <2>4, <4>1, <4>2 DEF OnTheWay
    <3>. QED
      BY <1>7, <2>1, <2>2, <3>2, <3>3, Zenon DEF OnTheWay
  <2>5. ASSUME NEW st, NEW n, OnTheWay(st, n) PROVE DeliveryInv'
    BY <1>1, <2>1, <2>4, <2>5, Zenon DEF DeliveryInv
  <2>. QED
    BY <2>3, <2>5, Zenon DEF DeliveryInv
<1>9. CASE Sends
  <2>1. proper /\ InSequence(op) /\ proper'
    BY <1>1, <1>9
  <2>2. PICK st : Parse(st, Len(inbound), inbound, Here, There, sent)
    BY <2>1, Zenon DEF DeliveryInv, OnTheWay
  <2>3. op \in AnyOp => ~OutOfTurn(There, f)
    BY <1>3, <1>4, <1>5, <2>1 DEF InSequence, OutOfTurn, AnyOp, DataOp
  <2>4. op \in AnyOp \union ControlOp
    BY <2>1 DEF InSequence, AnyOp, ControlOp
  <2>5. Extended(op, count + 1) = Extension(There, f)
    BY <1>3, <1>5, Zenon DEF Extended, Extension
  <2>6. \E st2 : Parse(st2, Len(inbound'), inbound', Here, There', sent')
    <3>1. CASE op \in ControlOp
      <4>1. sent' = sent /\ partial' = partial
        <5>1. op \notin DataOp \union {"Continuation"}
          BY <3>1 DEF ControlOp, DataOp
        <5>. QED
          BY <5>1, Zenon DEF PeerSends
      <4>2. There' = There
        BY <4>1 DEF There
      <4>3. Reads(There, f, There, sent)
        BY <1>3, <3>1, Zenon DEF Reads
      <4>. QED
        BY <1>1, <1>2, <2>2, <4>1, <4>2, <4>3, ParseGrows, Zenon
    <3>2. CASE op \in AnyOp /\ ~fin
      <4>1. sent' = sent /\ partial' = Extended(op, count + 1)
        BY <2>1, <3>2, Zenon DEF PeerSends, AnyOp
      <4>2. There' = [done |-> There.done, op |-> Extension(There, f).op,
                      parts |-> Extension(There, f).parts]
        BY <1>5, <2>5, <4>1, Zenon DEF There
      <4>3. Reads(There, f, There', sent)
        BY <1>3, <2>3, <3>2, <4>2, Zenon DEF Reads
      <4>. QED
        BY <1>1, <1>2, <2>2, <4>1, <4>3, ParseGrows, Zenon
    <3>3. CASE op \in AnyOp /\ fin
      <4>1. sent' = Append(sent, Extended(op, count + 1)) /\ partial' = NoPartial
        BY <2>1, <3>3, Zenon DEF PeerSends, AnyOp
      <4>2. Extended(op, count + 1) \in Message
        BY <2>1, <3>3, ExtendedMessage
      <4>3. Parse(st, Len(inbound), inbound, Here, There, sent')
        BY <1>4, <2>2, <4>1, <4>2, ParseSends, Zenon
      <4>4. Len(sent') = Len(sent) + 1 /\ sent'[Len(sent) + 1] = Extended(op, count + 1)
        BY <1>4, <4>1, <4>2, AppendProperties
      <4>5. There' = [done |-> There.done + 1, op |-> "None", parts |-> <<>>]
        <5>1. partial'.op = "None" /\ partial'.parts = <<>>
          BY <4>1 DEF NoPartial
        <5>. QED
          BY <1>5, <4>4, <5>1, Zenon DEF There
      <4>6. Reads(There, f, There', sent')
        <5>1. There'.done = Len(sent) + 1 /\ Len(sent) + 1 \in 1..Len(sent')
          BY <1>4, <1>5, <4>4, <4>5
        <5>2. sent'[There'.done] = Extension(There, f)
          BY <2>5, <4>4, <5>1
        <5>. QED
          BY <1>3, <2>3, <3>3, <4>5, <5>1, <5>2, Zenon DEF Reads
      <4>. QED
        BY <1>1, <1>2, <4>3, <4>6, ParseGrows, Zenon
    <3>. QED
      BY <2>4, <3>1, <3>2, <3>3
  <2>7. /\ Len(delivered) <= Len(sent')
        /\ \A i \in 1..Len(delivered) : delivered[i] = sent'[i]
    <3>1. CASE sent' = sent
      BY <3>1 DEF DeliveryInv
    <3>2. CASE op \in AnyOp /\ sent' = Append(sent, Extended(op, count + 1))
      <4>1. Extended(op, count + 1) \in Message
        BY <2>1, <3>2, ExtendedMessage
      <4>2. Len(sent') = Len(sent) + 1 /\ \A i \in 1..Len(sent) : sent'[i] = sent[i]
        BY <1>4, <3>2, <4>1, AppendProperties
      <4>3. Len(delivered) <= Len(sent) /\ \A i \in 1..Len(delivered) : delivered[i] = sent[i]
        BY DEF DeliveryInv
      <4>. QED
        BY <1>4, <4>2, <4>3
    <3>. QED
      BY <3>1, <3>2, Zenon DEF PeerSends, AnyOp
  <2>8. ASSUME NEW c, NEW n, n = Len(inbound'), Parse(c, n, inbound', Here, There', sent')
        PROVE  OnTheWay(c, n)'
    BY <1>7, <2>1, <2>8, Zenon DEF OnTheWay
  <2>. QED
    BY <1>1, <2>6, <2>7, <2>8, Zenon DEF DeliveryInv
<1>. QED
  BY <1>8, <1>9

LEMMA StillDelivery ==
  ASSUME DeliveryInv, Still, Stopped => Stopped'
  PROVE  DeliveryInv'
<1>1. /\ UNCHANGED <<inbound, sent, proper, delivered>> /\ Here' = Here /\ There' = There
  BY DEF Still, peer, fragments, Here, There
<1>2. ASSUME NEW st, NEW n, OnTheWay(st, n) PROVE OnTheWay(st, n)'
  BY <1>1, <1>2, Zenon DEF OnTheWay
<1>. QED
  BY <1>1, <1>2, Zenon DEF DeliveryInv

LEMMA DeliveryStep ==
  ASSUME WriterType, MessageInv, DeliveryInv, [Next]_vars
  PROVE  DeliveryInv'
<1>1. Stopped => Stopped'
  BY ReaderPlace
<1>. QED
  BY <1>1, MessageChange, StillDelivery, DataDelivery, ControlDelivery, RefusedDelivery,
     PeerDelivery, Zenon DEF PeerFrame

LEMMA InitDelivery == Init => DeliveryInv
<1>. SUFFICES ASSUME Init PROVE DeliveryInv
  OBVIOUS
<1>1. /\ inbound = <<>> /\ sent = <<>> /\ delivered = <<>> /\ proper
      /\ continuousOpCode = "None" /\ continuousFrames = <<>> /\ partial = NoPartial
  BY DEF Init
<1>2. Here = There
  BY <1>1 DEF Here, There, NoPartial
<1>3. Parse([i \in {0} |-> Here], 0, inbound, Here, There, sent)
  <2>1. [i \in {0} |-> Here][0] = Here /\ 0 \in 0..Len(inbound) /\ 1..0 = {}
    BY <1>1
  <2>. QED
    BY <1>2, <2>1, Zenon DEF Parse
<1>4. OnTheWay([i \in {0} |-> Here], 0)
  BY <1>1, <1>3 DEF OnTheWay
<1>. QED
  BY <1>1, <1>4 DEF DeliveryInv

(* Messages arrive whole, in order and once: however many threads send and *)
(* close, whatever the peer sends, and wherever the reading ends           *)
(* (NanoWSD.java, lines 188-231).                                          *)
THEOREM MessagesAreDelivered == Spec => []DeliveredIsPrefix
<1>1. Init => TypeInv /\ DeliveryInv
  BY InitTypeInv, InitDelivery
<1>2. (TypeInv /\ DeliveryInv) /\ [Next]_vars => (TypeInv /\ DeliveryInv)'
  BY NextTypeInv, DeliveryStep DEF TypeInv, WireInv
<1>3. TypeInv /\ DeliveryInv => DeliveredIsPrefix
  <2>. SUFFICES ASSUME TypeInv, DeliveryInv PROVE DeliveredIsPrefix
    OBVIOUS
  <2>1. /\ sent \in Seq(Message) /\ delivered \in Seq(Message)
        /\ Len(sent) \in Nat /\ Len(delivered) \in Nat
        /\ Len(delivered) <= Len(sent)
        /\ \A i \in 1..Len(delivered) : delivered[i] = sent[i]
    BY DEF TypeInv, MessageInv, DeliveryInv
  <2>. DEFINE first == SubSeq(sent, 1, Len(delivered))
  <2>2. first \in Seq(Message) /\ Len(first) = Len(delivered)
        /\ \A i \in 1..Len(delivered) : first[i] = sent[i]
    BY <2>1
  <2>. HIDE DEF first
  <2>3. delivered = first
    BY <2>1, <2>2, SeqEqual, Zenon
  <2>. QED
    BY <2>1, <2>3 DEF DeliveredIsPrefix, first
<1>. QED
  BY <1>1, <1>2, <1>3, PTL DEF Spec

-----------------------------------------------------------------------------
(* What the closes are told of the peer.                                   *)
BlameInv ==
  /\ pc[Reader] = "websocketexception" => ~proper
  /\ \A t \in Thread : args[t].code = "ProtocolError" => ~proper
  /\ ProperPeerNotBlamed

LEMMA ArgsChange ==
  ASSUME CallInv, [Next]_vars
  PROVE  /\ \A u \in Thread : args'[u].code = "ProtocolError" =>
              args[u].code = "ProtocolError" \/ pc[Reader] = "websocketexception"
         /\ closes' = closes \/ \E t \in Thread : OnClose(t)
<1>. DEFINE Goal == /\ \A u \in Thread : args'[u].code = "ProtocolError" =>
                         args[u].code = "ProtocolError" \/ pc[Reader] = "websocketexception"
                    /\ closes' = closes \/ \E t \in Thread : OnClose(t)
<1>. args \in [Thread -> [code : Code \union {"None"}, remote : BOOLEAN, open : BOOLEAN]]
  BY DEF CallInv
<1>1. ASSUME args' = args, closes' = closes PROVE Goal
  BY <1>1
<1>2. ASSUME NEW t \in Thread, args' = [args EXCEPT ![t] = NoArgs],
             closes' = closes \/ OnClose(t)
      PROVE  Goal
  BY <1>2 DEF NoArgs
<1>3. ASSUME NEW t \in Thread, NEW place, NEW code, NEW remote, NEW back,
             CallClose(t, place, code, remote, back), closes' = closes,
             code # "ProtocolError" \/ pc[Reader] = "websocketexception"
      PROVE  Goal
  BY <1>3 DEF CallClose
<1>4. ASSUME NEW t \in Thread, SendFrame(t) PROVE Goal
  BY <1>1, <1>4, Zenon DEF SendFrame, EnterMonitor, WriteHeader, WritePayload, WriteFails
<1>5. ASSUME NEW t \in Thread, Closing(t) PROVE Goal
  <2>1. CASE CloseReads(t)
    <3>1. PICK b \in BOOLEAN : args' = [args EXCEPT ![t].open = b]
      BY <2>1 DEF CloseReads
    <3>2. closes' = closes
      BY <2>1 DEF CloseReads
    <3>. QED
      BY <3>1, <3>2
  <2>2. CASE CloseWrites(t)
    <3>1. closes' = closes /\ (args' = args \/ args' = [args EXCEPT ![t] = NoArgs])
      BY <2>2, Zenon DEF CloseWrites
    <3>. QED
      BY <1>1, <1>2, <3>1, Zenon
  <2>3. CASE DoCloseTests(t)
    <3>1. closes' = closes /\ (args' = args \/ args' = [args EXCEPT ![t] = NoArgs])
      BY <2>3, Zenon DEF DoCloseTests, Return
    <3>. QED
      BY <1>1, <1>2, <3>1, Zenon
  <2>4. CASE CloseStreams(t)
    BY <1>1, <2>4, Zenon DEF CloseStreams
  <2>5. CASE OnClose(t)
    BY <1>2, <2>5, Zenon DEF OnClose, Return
  <2>. QED
    BY <1>5, <2>1, <2>2, <2>3, <2>4, <2>5, Zenon DEF Closing
<1>6. ASSUME ReadWebsocket PROVE Goal
  <2>. Reader \in Thread
    BY DEF Thread
  <2>1. CASE HandleCloseFrame
    <3>1. PICK place, remote : CallClose(Reader, place, "Peer", remote, "loop")
      BY <2>1, Zenon DEF HandleCloseFrame
    <3>2. closes' = closes /\ "Peer" # "ProtocolError"
      BY <2>1 DEF HandleCloseFrame
    <3>. QED
      BY <1>3, <3>1, <3>2, Zenon
  <2>2. CASE CatchWebSocketException
    BY <1>3, <2>2, Zenon DEF CatchWebSocketException
  <2>3. CASE Finally
    <3>1. "InternalServerError" # "ProtocolError"
      OBVIOUS
    <3>. QED
      BY <1>3, <2>3, <3>1, Zenon DEF Finally
  <2>. QED
    BY <1>1, <1>6, <2>1, <2>2, <2>3, Zenon
    DEF ReadWebsocket, TestOpen, ReadFails, HandleDataFrame, HandlePing, HandlePong,
        RefuseFrame, CatchIOException
<1>7. ASSUME NEW t \in Thread, CallPublicClose(t) PROVE Goal
  <2>1. "Own" # "ProtocolError"
    OBVIOUS
  <2>. QED
    BY <1>3, <1>7, <2>1, Zenon DEF CallPublicClose
<1>8. ASSUME NEW t, CallSend(t) PROVE Goal
  BY <1>1, <1>8, Zenon DEF CallSend
<1>9. ASSUME NEW op, NEW fin, PeerSends(op, fin) PROVE Goal
  BY <1>1, <1>9, Zenon DEF PeerSends, locals
<1>10. ASSUME Open \/ PeerEnds \/ UNCHANGED vars PROVE Goal
  BY <1>1, <1>10, Zenon DEF Open, PeerEnds, vars, locals
<1>11. Closer \subseteq Thread
  BY DEF Thread
<1>. HIDE DEF Goal
<1>12. Goal
  BY <1>4, <1>5, <1>6, <1>7, <1>8, <1>9, <1>10, <1>11, Zenon DEF Next, ThreadStep
<1>. QED
  BY <1>12 DEF Goal

LEMMA BlameStep ==
  ASSUME WriterType, CallInv, MessageInv, DeliveryInv, BlameInv, [Next]_vars
  PROVE  BlameInv'
<1>1. ~proper => ~proper'
  BY MessageChange
  DEF Still, HandleDataFrame, TakeControl, RefuseFrame, PeerFrame, PeerSends, peer
<1>2. pc'[Reader] = "websocketexception" => ~proper'
  BY <1>1, ReaderPlace, DataDelivery, RefusedDelivery, Zenon DEF BlameInv
<1>3. \A t \in Thread : args'[t].code = "ProtocolError" => ~proper'
  BY <1>1, ArgsChange, Zenon DEF BlameInv
<1>4. ProperPeerNotBlamed'
  <2>1. CASE closes' = closes
    BY <1>1, <2>1 DEF BlameInv, ProperPeerNotBlamed
  <2>2. ASSUME NEW t \in Thread, OnClose(t) PROVE ProperPeerNotBlamed'
    <3>. DEFINE c == [code |-> args[t].code, remote |-> args[t].remote]
    <3>1. /\ closes \in Seq([code : Code, remote : BOOLEAN])
          /\ c \in [code : Code, remote : BOOLEAN] /\ c.code = args[t].code
      BY <2>2 DEF CallInv, OnClose, ClosingPlace
    <3>2. closes' = Append(closes, c)
      BY <2>2 DEF OnClose
    <3>. HIDE DEF c
    <3>3. DOMAIN closes' = 1..(Len(closes) + 1) /\ Len(closes) \in Nat
          /\ closes'[Len(closes) + 1] = c
          /\ \A i \in 1..Len(closes) : closes'[i] = closes[i] /\ i \in DOMAIN closes
      BY <3>1, <3>2
    <3>4. ASSUME NEW i \in DOMAIN closes', closes'[i].code = "ProtocolError" PROVE ~proper'
      <4>1. CASE i = Len(closes) + 1
        BY <1>1, <3>1, <3>3, <3>4, <4>1, Zenon DEF BlameInv
      <4>2. CASE i # Len(closes) + 1
        <5>1. i \in 1..Len(closes)
          BY <3>3, <4>2
        <5>. QED
          BY <1>1, <3>3, <3>4, <5>1, Zenon DEF BlameInv, ProperPeerNotBlamed
      <4>. QED
        BY <4>1, <4>2
    <3>. QED
      BY <3>4 DEF ProperPeerNotBlamed
  <2>. QED
    BY <2>1, <2>2, ArgsChange, Zenon
<1>. QED
  BY <1>2, <1>3, <1>4 DEF BlameInv

(* A peer that keeps to the protocol is told of no protocol error, whatever *)
(* it mixes and whoever closes (NanoWSD.java, lines 188-259).               *)
THEOREM ProperPeersAreNotBlamed == Spec => []ProperPeerNotBlamed
<1>. DEFINE Inv == TypeInv /\ DeliveryInv /\ BlameInv
<1>1. Init => Inv
  <2>1. Init => BlameInv
    <3>. SUFFICES ASSUME Init PROVE BlameInv
      OBVIOUS
    <3>1. Reader \in Thread
      BY DEF Thread
    <3>. QED
      BY <3>1 DEF Init, BlameInv, ProperPeerNotBlamed, NoArgs
  <2>. QED
    BY <2>1, InitTypeInv, InitDelivery
<1>2. Inv /\ [Next]_vars => Inv'
  BY NextTypeInv, DeliveryStep, BlameStep DEF TypeInv, WireInv
<1>3. Inv => ProperPeerNotBlamed
  BY DEF BlameInv
<1>. QED
  BY <1>1, <1>2, <1>3, PTL DEF Spec

-----------------------------------------------------------------------------
(* The pings on the way, and the pongs on the wire.                        *)
IsPong(w) == w.op = "Pong" /\ w.part = "header"
PongsIn(w, n) == { i \in 1..n : IsPong(w[i]) }

LEMMA PongsFinite ==
  ASSUME NEW w, NEW n \in Nat
  PROVE  IsFiniteSet(PongsIn(w, n)) /\ Cardinality(PongsIn(w, n)) \in Nat
<1>1. IsFiniteSet(1..n)
  BY FS_Interval
<1>2. PongsIn(w, n) \subseteq 1..n
  BY DEF PongsIn
<1>3. IsFiniteSet(PongsIn(w, n))
  BY <1>1, <1>2, FS_Subset, Zenon
<1>. QED
  BY <1>3, FS_CardinalityType, Zenon

LEMMA PongsGrow ==
  ASSUME NEW S, NEW w \in Seq(S), NEW x \in S
  PROVE  LET v == Append(w, x)
         IN  /\ Len(w) \in Nat /\ Len(v) = Len(w) + 1 /\ v[Len(v)] = x
             /\ \A i \in 1..Len(w) : v[i] = w[i]
             /\ \A n \in 0..Len(w) : PongsIn(v, n) = PongsIn(w, n)
             /\ IsPong(x) => Cardinality(PongsIn(v, Len(v))) = Cardinality(PongsIn(w, Len(w))) + 1
             /\ ~IsPong(x) => PongsIn(v, Len(v)) = PongsIn(w, Len(w))
<1>. DEFINE v == Append(w, x)
            k == Len(w)
<1>1. k \in Nat /\ Len(v) = k + 1 /\ v[k + 1] = x /\ \A i \in 1..k : v[i] = w[i]
  BY AppendProperties
<1>. HIDE DEF v, k
<1>2. ASSUME NEW n \in 0..k PROVE PongsIn(v, n) = PongsIn(w, n)
  <2>1. \A i \in 1..n : v[i] = w[i]
    BY <1>1
  <2>. QED
    BY <2>1, Zenon DEF PongsIn
<1>3. 1..(k + 1) = (1..k) \union {k + 1} /\ k + 1 \notin 1..k
  BY <1>1
<1>4. PongsIn(v, k + 1) = PongsIn(w, k) \union (IF IsPong(x) THEN {k + 1} ELSE {})
  <2>1. \A i \in 1..(k + 1) : (i \in 1..k /\ v[i] = w[i]) \/ (i = k + 1 /\ v[i] = x)
    BY <1>1, <1>3
  <2>. QED
    BY <1>1, <1>3, <2>1 DEF PongsIn
<1>5. IsPong(x) => Cardinality(PongsIn(v, k + 1)) = Cardinality(PongsIn(w, k)) + 1
  <2>1. IsFiniteSet(PongsIn(w, k)) /\ k + 1 \notin PongsIn(w, k)
    BY <1>1, <1>3, PongsFinite, Zenon DEF PongsIn
  <2>2. Cardinality(PongsIn(w, k) \union {k + 1}) = Cardinality(PongsIn(w, k)) + 1
    BY <2>1, FS_AddElement, Zenon
  <2>. QED
    BY <1>4, <2>2
<1>6. ~IsPong(x) => PongsIn(v, k + 1) = PongsIn(w, k)
  BY <1>4, Zenon
<1>. QED
  BY <1>1, <1>2, <1>5, <1>6 DEF v, k

(* Reading the frames in box takes the number of pings read from one to    *)
(* another; every ping read is the next of p.                              *)
Counts(at, box, from, to, p) ==
  /\ at[0] = from /\ at[Len(box)] = to
  /\ \A i \in 1..Len(box) :
       IF box[i].op = "Ping"
         THEN at[i] = at[i - 1] + 1 /\ at[i] \in 1..Len(p) /\ p[at[i]] = box[i].data
         ELSE at[i] = at[i - 1]

LEMMA CountsTakes ==
  ASSUME NEW S, NEW box \in Seq(S), box # <<>>, NEW at, NEW from, NEW to, NEW p,
         Counts(at, box, from, to, p)
  PROVE  /\ \E c : Counts(c, Tail(box), at[1], to, p)
         /\ IF Head(box).op = "Ping"
              THEN at[1] = from + 1 /\ at[1] \in 1..Len(p) /\ p[at[1]] = Head(box).data
              ELSE at[1] = from
<1>. DEFINE n == Len(box)
            rest == Tail(box)
            c == [i \in 0..(n - 1) |-> at[i + 1]]
<1>1. /\ n \in Nat /\ n # 0 /\ Head(box) = box[1] /\ Len(rest) = n - 1
      /\ \A i \in 1..Len(rest) : rest[i] = box[i + 1]
  BY HeadTailProperties
<1>2. /\ at[0] = from /\ at[n] = to
      /\ \A i \in 1..n :
           IF box[i].op = "Ping"
             THEN at[i] = at[i - 1] + 1 /\ at[i] \in 1..Len(p) /\ p[at[i]] = box[i].data
             ELSE at[i] = at[i - 1]
  BY DEF Counts
<1>. HIDE DEF n, rest
<1>3. c[0] = at[1] /\ c[n - 1] = to /\ \A i \in 0..(n - 1) : c[i] = at[i + 1]
  BY <1>1, <1>2
<1>. HIDE DEF c
<1>4. ASSUME NEW i \in 1..Len(rest)
      PROVE  IF rest[i].op = "Ping"
               THEN c[i] = c[i - 1] + 1 /\ c[i] \in 1..Len(p) /\ p[c[i]] = rest[i].data
               ELSE c[i] = c[i - 1]
  <2>1. /\ i + 1 \in 1..n /\ i \in 0..(n - 1) /\ i - 1 \in 0..(n - 1)
        /\ (i - 1) + 1 = i /\ (i + 1) - 1 = i
    BY <1>1
  <2>2. c[i] = at[i + 1] /\ c[i - 1] = at[i] /\ rest[i] = box[i + 1]
    <3>1. c[i - 1] = at[(i - 1) + 1]
      BY <1>3, <2>1, Zenon
    <3>. QED
      BY <1>1, <1>3, <2>1, <3>1, Zenon
  <2>3. IF box[i + 1].op = "Ping"
          THEN /\ at[i + 1] = at[(i + 1) - 1] + 1 /\ at[i + 1] \in 1..Len(p)
               /\ p[at[i + 1]] = box[i + 1].data
          ELSE at[i + 1] = at[(i + 1) - 1]
    BY <1>2, <2>1, Zenon
  <2>. QED
    BY <2>1, <2>2, <2>3, Zenon
<1>5. Counts(c, rest, at[1], to, p)
  BY <1>1, <1>3, <1>4, Zenon DEF Counts
<1>6. IF Head(box).op = "Ping"
        THEN at[1] = from + 1 /\ at[1] \in 1..Len(p) /\ p[at[1]] = Head(box).data
        ELSE at[1] = from
  <2>1. 1 \in 1..n /\ 1 - 1 = 0
    BY <1>1
  <2>. QED
    BY <1>1, <1>2, <2>1, Zenon
<1>. QED
  BY <1>5, <1>6 DEF rest

LEMMA CountsGrow ==
  ASSUME NEW S, NEW box \in Seq(S), NEW f \in S, NEW at, NEW from, NEW to, NEW p,
         Counts(at, box, from, to, p),
         NEW p2, NEW to2, Len(p) \in Nat, Len(p2) \in Nat, Len(p) <= Len(p2),
         \A i \in 1..Len(p) : p2[i] = p[i],
         IF f.op = "Ping" THEN to2 = to + 1 /\ to2 \in 1..Len(p2) /\ p2[to2] = f.data
                          ELSE to2 = to
  PROVE  \E c : Counts(c, Append(box, f), from, to2, p2)
<1>. DEFINE n == Len(box)
            more == Append(box, f)
            c == [i \in 0..(n + 1) |-> IF i = n + 1 THEN to2 ELSE at[i]]
<1>1. n \in Nat /\ Len(more) = n + 1 /\ more[n + 1] = f /\ \A i \in 1..n : more[i] = box[i]
  BY AppendProperties
<1>2. /\ at[0] = from /\ at[n] = to
      /\ \A i \in 1..n :
           IF box[i].op = "Ping"
             THEN at[i] = at[i - 1] + 1 /\ at[i] \in 1..Len(p) /\ p[at[i]] = box[i].data
             ELSE at[i] = at[i - 1]
  BY DEF Counts
<1>0. n \in Nat /\ (n + 1) - 1 = n /\ n \in 0..n
  OBVIOUS
<1>. HIDE DEF n, more
<1>3. c[n + 1] = to2 /\ c[0] = from /\ \A i \in 0..n : c[i] = at[i]
  BY <1>1, <1>2
<1>. HIDE DEF c
<1>4. ASSUME NEW i \in 1..(n + 1)
      PROVE  IF more[i].op = "Ping"
               THEN c[i] = c[i - 1] + 1 /\ c[i] \in 1..Len(p2) /\ p2[c[i]] = more[i].data
               ELSE c[i] = c[i - 1]
  <2>1. CASE i = n + 1
    <3>1. i - 1 = n /\ n \in 0..n
      BY <1>0, <2>1
    <3>2. c[i] = to2 /\ c[i - 1] = to /\ more[i] = f
      BY <1>1, <1>2, <1>3, <2>1, <3>1
    <3>. QED
      BY <3>2, Zenon
  <2>2. CASE i # n + 1
    <3>1. i \in 1..n /\ i \in 0..n /\ i - 1 \in 0..n
      BY <1>1, <2>2
    <3>2. c[i] = at[i] /\ c[i - 1] = at[i - 1] /\ more[i] = box[i]
      BY <1>1, <1>3, <3>1, Zenon
    <3>3. \A k \in 1..Len(p) : k \in 1..Len(p2) /\ p2[k] = p[k]
      OBVIOUS
    <3>. QED
      BY <1>2, <3>1, <3>2, <3>3, Zenon
  <2>. QED
    BY <2>1, <2>2
<1>5. Counts(c, more, from, to2, p2)
  BY <1>1, <1>3, <1>4, Zenon DEF Counts
<1>. QED
  BY <1>5 DEF more

-----------------------------------------------------------------------------
(* The pong that the server thread is about to write; the pings read, which *)
(* is the pongs written and that one.                                       *)
Waiting == pc[Reader] \in {"sendFrame", "header"} /\ out[Reader].op = "Pong"
PingsRead == Cardinality(PongsIn(wire, Len(wire))) + (IF Waiting THEN 1 ELSE 0)

Answers(w, p) ==
  \A i \in PongsIn(w, Len(w)) :
    /\ Cardinality(PongsIn(w, i)) <= Len(p)
    /\ w[i].data = p[Cardinality(PongsIn(w, i))]

(* While pongs can be written, the pings read and those on the way are the *)
(* pings sent.                                                             *)
PongInv ==
  /\ Answers(wire, pings)
  /\ \A t \in Thread \ {Reader} : out[t].op # "Pong"
  /\ Writable =>
       /\ \E at : Counts(at, inbound, PingsRead, Len(pings), pings)
       /\ Waiting => PingsRead \in 1..Len(pings) /\ pings[PingsRead] = out[Reader].data

(* Nothing is written, read or sent.                                       *)
Calm ==
  /\ UNCHANGED <<wire, inbound, pings>>
  /\ Writable' => /\ Writable /\ (Waiting' <=> Waiting)
                  /\ Waiting => out'[Reader] = out[Reader]

(* The server thread takes a frame that is not a ping.                     *)
TakeOther ==
  /\ ReadFrame(FrameOp \ {"Ping"})
  /\ pc'[Reader] \notin {"sendFrame", "header"}
  /\ UNCHANGED <<wire, pings, broken, streamsClosed>>

LEMMA PongChange ==
  ASSUME WriterType, [Next]_vars
  PROVE  \/ Calm \/ TakeOther \/ HandlePing \/ PeerFrame
         \/ \E t \in Thread : WriteHeader(t) \/ WritePayload(t)
<1>. DEFINE Change == \/ Calm \/ TakeOther \/ HandlePing \/ PeerFrame
                      \/ \E t \in Thread : WriteHeader(t) \/ WritePayload(t)
<1>. pc \in [Thread -> Place] /\ out \in [Thread -> OutFrame] /\ resume \in [Thread -> Back]
  BY DEF WriterType
<1>. Reader \in Thread
  BY DEF Thread
<1>. USE DEF line, lock, peer, locals, Goto
<1>1. ASSUME UNCHANGED <<wire, inbound, pings>>, UNCHANGED <<pc, out>>,
             Writable' => Writable
      PROVE  Calm
  BY <1>1 DEF Calm, Waiting
<1>2. ASSUME UNCHANGED <<wire, inbound, pings>>, Writable' => Writable,
             NEW t \in Thread \ {Reader},
             pc'[Reader] = pc[Reader], out'[Reader] = out[Reader]
      PROVE  Calm
  BY <1>2 DEF Calm, Waiting
<1>3. ASSUME UNCHANGED <<wire, inbound, pings>>, Writable' => Writable,
             pc[Reader] \notin {"sendFrame", "header"},
             pc'[Reader] \notin {"sendFrame", "header"} \/ out'[Reader].op # "Pong"
      PROVE  Calm
  BY <1>3 DEF Calm, Waiting
<1>4. ASSUME NEW t \in Thread, SendFrame(t) PROVE Change
  <2>1. CASE EnterMonitor(t)
    <3>1. UNCHANGED <<wire, inbound, pings, out, broken, streamsClosed>>
          /\ pc[t] = "sendFrame" /\ pc' = [pc EXCEPT ![t] = "header"]
      BY <2>1 DEF EnterMonitor
    <3>. QED
      BY <3>1 DEF Calm, Waiting, Writable
  <2>2. CASE WriteFails(t)
    BY <2>2 DEF WriteFails, Calm, Writable
  <2>. QED
    BY <1>4, <2>1, <2>2, Zenon DEF SendFrame
<1>5. ASSUME NEW t \in Thread, Closing(t) PROVE Change
  <2>1. /\ UNCHANGED <<wire, inbound, pings, broken>> /\ (streamsClosed' = streamsClosed \/ streamsClosed')
    BY <1>5, Zenon DEF Closing, CloseReads, CloseWrites, DoCloseTests, CloseStreams, OnClose
  <2>2. Writable' => Writable
    BY <2>1 DEF Writable
  <2>3. /\ pc[t] \in ClosingPlace
        /\ (out' = out \/ out' = [out EXCEPT ![t] = [op |-> "Close", data |-> NoId]])
        /\ \/ /\ \E p \in ClosingPlace \union Back : pc' = [pc EXCEPT ![t] = p]
           \/ /\ pc' = [pc EXCEPT ![t] = "sendFrame"]
              /\ out' = [out EXCEPT ![t] = [op |-> "Close", data |-> NoId]]
    <3>. USE DEF ClosingPlace
    <3>1. CASE CloseReads(t)
      BY <3>1 DEF CloseReads
    <3>2. CASE CloseWrites(t)
      BY <3>2 DEF CloseWrites, CallSendFrame
    <3>3. CASE DoCloseTests(t)
      BY <3>3 DEF DoCloseTests, Return
    <3>4. CASE CloseStreams(t)
      BY <3>4 DEF CloseStreams
    <3>5. CASE OnClose(t)
      BY <3>5 DEF OnClose, Return
    <3>. QED
      BY <1>5, <3>1, <3>2, <3>3, <3>4, <3>5 DEF Closing
  <2>4. CASE t = Reader
    BY <1>3, <2>1, <2>2, <2>3, <2>4 DEF ClosingPlace, Back
  <2>5. CASE t # Reader
    <3>1. pc'[Reader] = pc[Reader] /\ out'[Reader] = out[Reader]
      BY <2>3, <2>5
    <3>. QED
      BY <1>2, <2>1, <2>2, <2>5, <3>1
  <2>. QED
    BY <2>4, <2>5
<1>6. ASSUME ReadWebsocket PROVE Change
  <2>1. CASE TestOpen \/ ReadFails \/ CatchWebSocketException \/ CatchIOException \/ Finally
    <3>1. UNCHANGED <<wire, inbound, pings, broken, streamsClosed>>
      BY <2>1, Zenon
      DEF TestOpen, ReadFails, CatchWebSocketException, CatchIOException, Finally
    <3>2. pc[Reader] \notin {"sendFrame", "header"} /\ pc'[Reader] \notin {"sendFrame", "header"}
      BY <2>1
      DEF TestOpen, ReadFails, CatchWebSocketException, CatchIOException, Finally, CallClose
    <3>. QED
      BY <1>3, <3>1, <3>2 DEF Writable
  <2>2. CASE HandleDataFrame
    <3>1. Goto(Reader, "loop") \/ Goto(Reader, "websocketexception")
      BY <2>2 DEF HandleDataFrame, FirstFragment, IntermediateFragment, LastFragment,
                  WholeMessage, OutOfSequence
    <3>. QED
      BY <2>2, <3>1 DEF HandleDataFrame, ReadFrame, TakeOther, FrameOp, DataOp
  <2>3. CASE HandlePong
    BY <2>3 DEF HandlePong, ReadFrame, TakeOther, FrameOp
  <2>4. CASE HandleCloseFrame
    BY <2>4 DEF HandleCloseFrame, ReadFrame, CallClose, TakeOther, FrameOp
  <2>5. CASE RefuseFrame
    BY <2>5 DEF RefuseFrame, ReadFrame, TakeOther, FrameOp
  <2>. QED
    BY <1>6, <2>1, <2>2, <2>3, <2>4, <2>5, Zenon DEF ReadWebsocket
<1>7. ASSUME NEW t \in Thread, CallSend(t) \/ CallPublicClose(t) PROVE Change
  <2>1. UNCHANGED <<wire, inbound, pings, broken, streamsClosed>> /\ pc[t] = "idle"
    BY <1>7, Zenon DEF CallSend, CallPublicClose
  <2>2. t # Reader => pc'[Reader] = pc[Reader] /\ out'[Reader] = out[Reader]
    BY <1>7 DEF CallSend, CallSendFrame, CallPublicClose, CallClose
  <2>3. t = Reader => out'[Reader].op # "Pong" \/ pc'[Reader] = "close"
    BY <1>7, WebSocketAssumption DEF CallSend, CallSendFrame, CallPublicClose, CallClose
  <2>. QED
    BY <1>2, <1>3, <2>1, <2>2, <2>3 DEF Writable
<1>8. ASSUME Open PROVE Change
  <2>1. UNCHANGED <<wire, inbound, pings, broken, streamsClosed>>
    BY <1>8, Zenon DEF Open
  <2>2. pc[Reader] = "handshake" /\ pc'[Reader] = "loop"
    BY <1>8 DEF Open
  <2>. QED
    BY <1>3, <2>1, <2>2 DEF Writable
<1>9. ASSUME PeerEnds \/ UNCHANGED vars PROVE Change
  <2>1. UNCHANGED <<wire, inbound, pings, broken, streamsClosed, pc, out>>
    BY <1>9, Zenon DEF PeerEnds, vars
  <2>. QED
    BY <1>1, <2>1 DEF Writable
<1>10. ASSUME NEW op \in FrameOp, NEW fin \in BOOLEAN, op \in ControlOp => fin,
              PeerSends(op, fin)
       PROVE  Change
  BY <1>10, Zenon DEF PeerFrame
<1>11. Sender \subseteq Thread /\ Closer \subseteq Thread
  BY DEF Thread
<1>. HIDE DEF Change
<1>12. Change
  BY <1>4, <1>5, <1>6, <1>7, <1>8, <1>9, <1>10, <1>11 DEF Next, ThreadStep, ControlOp
<1>. QED
  BY <1>12 DEF Change

(* Only the server thread answers pings.                                   *)
LEMMA OnlyReaderPongs ==
  ASSUME WriterType, \A t \in Thread \ {Reader} : out[t].op # "Pong", [Next]_vars
  PROVE  \A t \in Thread \ {Reader} : out'[t].op # "Pong"
<1>. DEFINE Goal == \A u \in Thread \ {Reader} : out'[u].op # "Pong"
<1>. out \in [Thread -> OutFrame]
  BY DEF WriterType
<1>1. ASSUME NEW t, NEW f, out' = out \/ out' = [out EXCEPT ![t] = f], f.op # "Pong"
      PROVE  Goal
  BY <1>1
<1>2. ASSUME NEW f, out' = out \/ out' = [out EXCEPT ![Reader] = f] PROVE Goal
  BY <1>2
<1>3. NoFrame.op # "Pong" /\ [op |-> "Close", data |-> NoId].op # "Pong"
  BY DEF NoFrame
<1>. HIDE DEF Goal, NoFrame
<1>4. ASSUME NEW t \in Thread, SendFrame(t) PROVE Goal
  BY <1>1, <1>3, <1>4, Zenon DEF SendFrame, EnterMonitor, WriteHeader, WritePayload, WriteFails
<1>5. ASSUME NEW t \in Thread, Closing(t) PROVE Goal
  BY <1>1, <1>3, <1>5, Zenon
  DEF Closing, CloseReads, CloseWrites, CallSendFrame, DoCloseTests, CloseStreams, OnClose
<1>6. ASSUME ReadWebsocket PROVE Goal
  BY <1>2, <1>6, Zenon
  DEF ReadWebsocket, TestOpen, ReadFails, HandleDataFrame, HandlePing, CallSendFrame,
      HandlePong, HandleCloseFrame, RefuseFrame, CatchWebSocketException,
      CatchIOException, Finally
<1>7. ASSUME NEW t, CallSend(t) PROVE Goal
  <2>1. PICK op \in CallOp : CallSendFrame(t, [op |-> op, data |-> calls + 1], "idle")
    BY <1>7, Zenon DEF CallSend
  <2>2. [op |-> op, data |-> calls + 1].op # "Pong"
    BY <2>1, WebSocketAssumption
  <2>. QED
    BY <1>1, <2>1, <2>2, Zenon DEF CallSendFrame
<1>8. ASSUME NEW t, CallPublicClose(t) PROVE Goal
  BY <1>2, <1>8, Zenon DEF CallPublicClose
<1>9. ASSUME Open \/ PeerEnds \/ UNCHANGED vars PROVE Goal
  BY <1>2, <1>9, Zenon DEF Open, PeerEnds, vars, locals
<1>10. ASSUME NEW op, NEW fin, PeerSends(op, fin) PROVE Goal
  BY <1>2, <1>10, Zenon DEF PeerSends, locals
<1>11. Goal
  BY <1>4, <1>5, <1>6, <1>7, <1>8, <1>9, <1>10, Zenon DEF Next, ThreadStep
<1>. QED
  BY <1>11 DEF Goal

LEMMA CalmPong ==
  ASSUME PongInv, Calm, \A t \in Thread \ {Reader} : out'[t].op # "Pong"
  PROVE  PongInv'
<1>1. wire' = wire /\ inbound' = inbound /\ pings' = pings
  BY DEF Calm
<1>2. Answers(wire, pings)'
  BY <1>1 DEF PongInv
<1>3. ASSUME Writable'
      PROVE  /\ \E at : Counts(at, inbound', PingsRead', Len(pings'), pings')
             /\ Waiting' => PingsRead' \in 1..Len(pings') /\ pings'[PingsRead'] = out'[Reader].data
  <2>1. Writable /\ (Waiting' <=> Waiting) /\ (Waiting => out'[Reader] = out[Reader])
    BY <1>3 DEF Calm
  <2>2. PingsRead' = PingsRead
    BY <1>1, <2>1 DEF PingsRead
  <2>. QED
    BY <1>1, <2>1, <2>2 DEF PongInv
<1>. QED
  BY <1>2, <1>3 DEF PongInv

LEMMA TakeOtherPong ==
  ASSUME WriterType, PongInv, TakeOther, \A t \in Thread \ {Reader} : out'[t].op # "Pong"
  PROVE  PongInv'
<1>1. /\ wire' = wire /\ pings' = pings /\ inbound # <<>> /\ inbound' = Tail(inbound)
      /\ Head(inbound).op # "Ping" /\ inbound \in Seq(InFrame)
  BY DEF TakeOther, ReadFrame, WriterType
<1>2. ~Waiting /\ ~Waiting' /\ (Writable' => Writable)
  BY DEF TakeOther, ReadFrame, Waiting, Writable
<1>3. PingsRead' = PingsRead
  BY <1>1, <1>2 DEF PingsRead
<1>4. ASSUME Writable PROVE \E at : Counts(at, inbound', PingsRead', Len(pings'), pings')
  <2>1. PICK at : Counts(at, inbound, PingsRead, Len(pings), pings)
    BY <1>4 DEF PongInv
  <2>2. at[1] = PingsRead /\ \E c : Counts(c, Tail(inbound), at[1], Len(pings), pings)
    BY <1>1, <2>1, CountsTakes, Zenon
  <2>. QED
    BY <1>1, <1>3, <2>2
<1>5. Answers(wire, pings)'
  BY <1>1 DEF PongInv
<1>. QED
  BY <1>2, <1>4, <1>5 DEF PongInv

LEMMA HandlePingPong ==
  ASSUME WriterType, PongInv, HandlePing, \A t \in Thread \ {Reader} : out'[t].op # "Pong"
  PROVE  PongInv'
<1>. Reader \in Thread
  BY DEF Thread
<1>1. /\ wire' = wire /\ pings' = pings /\ inbound # <<>> /\ inbound' = Tail(inbound)
      /\ Head(inbound).op = "Ping" /\ inbound \in Seq(InFrame) /\ wire \in Seq(Written)
  BY DEF HandlePing, ReadFrame, WriterType, peer
<1>2. ~Waiting /\ Waiting' /\ (Writable' => Writable) /\ out'[Reader].data = Head(inbound).data
  BY DEF HandlePing, ReadFrame, CallSendFrame, Goto, Waiting, Writable, WriterType, line
<1>3. PingsRead' = PingsRead + 1
  <2>1. Cardinality(PongsIn(wire, Len(wire))) \in Nat
    BY <1>1, PongsFinite
  <2>. QED
    BY <1>1, <1>2, <2>1 DEF PingsRead
<1>4. ASSUME Writable
      PROVE  /\ \E at : Counts(at, inbound', PingsRead', Len(pings'), pings')
             /\ PingsRead' \in 1..Len(pings') /\ pings'[PingsRead'] = out'[Reader].data
  <2>1. PICK at : Counts(at, inbound, PingsRead, Len(pings), pings)
    BY <1>4 DEF PongInv
  <2>2. /\ \E c : Counts(c, Tail(inbound), at[1], Len(pings), pings)
        /\ at[1] = PingsRead + 1 /\ at[1] \in 1..Len(pings) /\ pings[at[1]] = Head(inbound).data
    BY <1>1, <2>1, CountsTakes, Zenon
  <2>. QED
    BY <1>1, <1>2, <1>3, <2>2
<1>5. Answers(wire, pings)'
  BY <1>1 DEF PongInv
<1>. QED
  BY <1>2, <1>4, <1>5 DEF PongInv

LEMMA PeerPong ==
  ASSUME WriterType, MessageInv, PongInv, PeerFrame,
         \A t \in Thread \ {Reader} : out'[t].op # "Pong"
  PROVE  PongInv'
<1>1. PICK op \in FrameOp, fin \in BOOLEAN : PeerSends(op, fin)
  BY DEF PeerFrame
<1>. DEFINE id == count + 1
            f == [op |-> op, fin |-> fin, data |-> id]
<1>2. /\ inbound' = Append(inbound, f) /\ wire' = wire
      /\ UNCHANGED <<pc, out, broken, streamsClosed>>
      /\ pings' = IF op = "Ping" THEN Append(pings, id) ELSE pings
      /\ id \in 1..MaxFrames /\ f \in InFrame /\ inbound \in Seq(InFrame)
  BY <1>1, WebSocketAssumption DEF PeerSends, WriterType, InFrame, locals, line
<1>3. f.op = op /\ f.data = id
  OBVIOUS
<1>. HIDE DEF id, f
<1>4. PingsRead' = PingsRead /\ (Waiting' <=> Waiting) /\ (Writable' <=> Writable)
  BY <1>2 DEF PingsRead, Waiting, Writable
<1>5. /\ Len(pings) \in Nat /\ Len(pings') \in Nat /\ Len(pings) <= Len(pings')
      /\ \A i \in 1..Len(pings) : pings'[i] = pings[i]
      /\ IF f.op = "Ping" THEN /\ Len(pings') = Len(pings) + 1 /\ Len(pings') \in 1..Len(pings')
                               /\ pings'[Len(pings')] = f.data
                          ELSE Len(pings') = Len(pings)
  <2>1. pings \in Seq(1..MaxFrames)
    BY DEF MessageInv
  <2>2. CASE op = "Ping"
    <3>1. pings' = Append(pings, id)
      BY <1>2, <2>2
    <3>. QED
      BY <1>2, <1>3, <2>1, <2>2, <3>1, AppendProperties
  <2>3. CASE op # "Ping"
    BY <1>2, <1>3, <2>1, <2>3
  <2>. QED
    BY <2>2, <2>3
<1>6. ASSUME Writable
      PROVE  \E at : Counts(at, inbound', PingsRead', Len(pings'), pings')
  <2>1. PICK at : Counts(at, inbound, PingsRead, Len(pings), pings)
    BY <1>6 DEF PongInv
  <2>2. ASSUME NEW q, q = pings'
        PROVE  \E c : Counts(c, Append(inbound, f), PingsRead, Len(q), q)
    <3>1. /\ Len(q) \in Nat /\ Len(pings) <= Len(q)
          /\ \A i \in 1..Len(pings) : q[i] = pings[i]
          /\ IF f.op = "Ping" THEN /\ Len(q) = Len(pings) + 1 /\ Len(q) \in 1..Len(q)
                                   /\ q[Len(q)] = f.data
                              ELSE Len(q) = Len(pings)
      BY <1>5, <2>2
    <3>. QED
      BY <1>2, <1>5, <2>1, <3>1, CountsGrow, Zenon
  <2>. QED
    BY <1>2, <1>4, <2>2
<1>7. ASSUME Writable, Waiting
      PROVE  PingsRead' \in 1..Len(pings') /\ pings'[PingsRead'] = out'[Reader].data
  <2>1. PingsRead \in 1..Len(pings) /\ pings[PingsRead] = out[Reader].data
    BY <1>7 DEF PongInv
  <2>. QED
    BY <1>2, <1>4, <1>5, <2>1
<1>8. Answers(wire, pings)'
  <2>. SUFFICES ASSUME NEW i \in PongsIn(wire, Len(wire))
                PROVE  /\ Cardinality(PongsIn(wire, i)) <= Len(pings')
                       /\ wire[i].data = pings'[Cardinality(PongsIn(wire, i))]
    BY <1>2 DEF Answers
  <2>. DEFINE k == Cardinality(PongsIn(wire, i))
  <2>1. k <= Len(pings) /\ wire[i].data = pings[k]
    BY DEF PongInv, Answers
  <2>2. k \in Nat /\ k # 0
    <3>1. i \in 1..Len(wire) /\ Len(wire) \in Nat /\ i \in PongsIn(wire, i)
      BY DEF PongsIn, WriterType
    <3>2. IsFiniteSet(PongsIn(wire, i)) /\ k \in Nat
      BY <3>1, PongsFinite
    <3>. QED
      BY <3>1, <3>2, FS_EmptySet
  <2>. HIDE DEF k
  <2>3. k \in 1..Len(pings)
    BY <1>5, <2>1, <2>2
  <2>. QED
    BY <1>5, <2>1, <2>3 DEF k
<1>. QED
  BY <1>4, <1>6, <1>7, <1>8 DEF PongInv

LEMMA WritePong ==
  ASSUME WriterType, PongInv, NEW t \in Thread, WriteHeader(t) \/ WritePayload(t),
         \A u \in Thread \ {Reader} : out'[u].op # "Pong"
  PROVE  PongInv'
<1>. pc \in [Thread -> Place] /\ out \in [Thread -> OutFrame] /\ resume \in [Thread -> Back]
     /\ wire \in Seq(Written) /\ Reader \in Thread
  BY DEF WriterType, Thread
<1>0. pc[t] \in {"header", "payload"}
  BY DEF WriteHeader, WritePayload
<1>. DEFINE x == [by |-> t, op |-> out[t].op, data |-> out[t].data, part |-> pc[t]]
            n == Cardinality(PongsIn(wire, Len(wire)))
<1>1. x \in Written /\ x.op = out[t].op /\ x.data = out[t].data /\ x.part = pc[t]
  BY <1>0 DEF Written, OutFrame
<1>2. /\ wire' = Append(wire, x) /\ UNCHANGED <<inbound, pings, broken, streamsClosed>>
      /\ Writable /\ Writable'
  BY DEF WriteHeader, WritePayload, Write, line, peer, Writable
<1>3. IsPong(x) <=> t = Reader /\ Waiting /\ pc[t] = "header"
  BY <1>0, <1>1 DEF IsPong, Waiting, PongInv
<1>4. Waiting' <=> Waiting /\ ~IsPong(x)
  <2>1. CASE t = Reader
    <3>1. pc'[Reader] \notin {"sendFrame", "header"}
      BY <2>1 DEF WriteHeader, WritePayload, Write, Goto, Back
    <3>2. Waiting => IsPong(x)
      BY <1>0, <1>3, <2>1 DEF Waiting
    <3>. QED
      BY <3>1, <3>2 DEF Waiting
  <2>2. CASE t # Reader
    <3>1. pc'[Reader] = pc[Reader] /\ out'[Reader] = out[Reader]
      BY <2>2 DEF WriteHeader, WritePayload, Write, Goto
    <3>. QED
      BY <1>3, <2>2, <3>1 DEF Waiting
  <2>. QED
    BY <2>1, <2>2
<1>5. Waiting' => out'[Reader] = out[Reader]
  <2>1. t # Reader => out'[Reader] = out[Reader]
    BY DEF WriteHeader, WritePayload
  <2>2. t = Reader => out'[Reader] = out[Reader] \/ pc'[Reader] \notin {"sendFrame", "header"}
    BY DEF WriteHeader, WritePayload, Write, Goto, Back
  <2>. QED
    BY <2>1, <2>2 DEF Waiting
<1>. HIDE DEF x
<1>6. /\ Len(wire) \in Nat /\ Len(wire') = Len(wire) + 1 /\ wire'[Len(wire')] = x
      /\ \A i \in 1..Len(wire) : wire'[i] = wire[i]
      /\ \A i \in 0..Len(wire) : PongsIn(wire', i) = PongsIn(wire, i)
      /\ IsPong(x) => Cardinality(PongsIn(wire', Len(wire'))) = n + 1
      /\ ~IsPong(x) => PongsIn(wire', Len(wire')) = PongsIn(wire, Len(wire))
  <2>1. ASSUME NEW v, v = Append(wire, x)
        PROVE  /\ Len(wire) \in Nat /\ Len(v) = Len(wire) + 1 /\ v[Len(v)] = x
               /\ \A i \in 1..Len(wire) : v[i] = wire[i]
               /\ \A i \in 0..Len(wire) : PongsIn(v, i) = PongsIn(wire, i)
               /\ IsPong(x) => Cardinality(PongsIn(v, Len(v))) = n + 1
               /\ ~IsPong(x) => PongsIn(v, Len(v)) = PongsIn(wire, Len(wire))
    BY <1>1, <2>1, PongsGrow
  <2>. QED
    BY <1>2, <2>1
<1>7. n \in Nat
  BY <1>6, PongsFinite
<1>8. PingsRead' = PingsRead
  <2>1. CASE IsPong(x)
    <3>1. PingsRead = n + 1
      BY <1>3, <2>1 DEF PingsRead
    <3>2. PingsRead' = (n + 1) + 0
      BY <1>4, <1>6, <2>1 DEF PingsRead
    <3>. QED
      BY <1>7, <3>1, <3>2
  <2>2. CASE ~IsPong(x)
    BY <1>4, <1>6, <2>2 DEF PingsRead
  <2>. QED
    BY <2>1, <2>2
<1>9. /\ \E at : Counts(at, inbound', PingsRead', Len(pings'), pings')
      /\ Waiting' => PingsRead' \in 1..Len(pings') /\ pings'[PingsRead'] = out'[Reader].data
  BY <1>2, <1>4, <1>5, <1>8 DEF PongInv
<1>10. Answers(wire, pings)'
  <2>. SUFFICES ASSUME NEW i \in PongsIn(wire', Len(wire'))
                PROVE  /\ Cardinality(PongsIn(wire', i)) <= Len(pings)
                       /\ wire'[i].data = pings[Cardinality(PongsIn(wire', i))]
    BY <1>2 DEF Answers
  <2>1. i \in 1..Len(wire') /\ IsPong(wire'[i])
    BY DEF PongsIn
  <2>2. CASE i = Len(wire')
    <3>1. IsPong(x) /\ wire'[i] = x /\ Cardinality(PongsIn(wire', i)) = n + 1
      BY <1>6, <2>1, <2>2
    <3>2. t = Reader /\ Waiting /\ PingsRead = n + 1
      BY <1>3, <3>1 DEF PingsRead
    <3>3. n + 1 \in 1..Len(pings) /\ pings[n + 1] = out[Reader].data
      BY <1>2, <3>2 DEF PongInv
    <3>. QED
      BY <1>1, <1>7, <3>1, <3>2, <3>3
  <2>3. CASE i # Len(wire')
    <3>1. i \in 1..Len(wire) /\ i \in 0..Len(wire)
      BY <1>6, <2>1, <2>3
    <3>2. wire'[i] = wire[i] /\ PongsIn(wire', i) = PongsIn(wire, i)
      BY <1>6, <3>1
    <3>3. i \in PongsIn(wire, Len(wire))
      BY <2>1, <3>1, <3>2 DEF PongsIn
    <3>. QED
      BY <3>2, <3>3 DEF PongInv, Answers
  <2>. QED
    BY <2>2, <2>3
<1>. QED
  BY <1>9, <1>10 DEF PongInv

LEMMA PongStep ==
  ASSUME WriterType, MessageInv, PongInv, [Next]_vars
  PROVE  PongInv'
<1>1. \A t \in Thread \ {Reader} : out'[t].op # "Pong"
  BY OnlyReaderPongs DEF PongInv
<1>. QED
  BY <1>1, PongChange, CalmPong, TakeOtherPong, HandlePingPong, PeerPong, WritePong, Zenon

LEMMA InitPong == Init => PongInv
<1>. SUFFICES ASSUME Init PROVE PongInv
  OBVIOUS
<1>1. /\ wire = <<>> /\ inbound = <<>> /\ pings = <<>> /\ ~Waiting
      /\ \A t \in Thread : out[t].op # "Pong"
  <2>1. Reader \in Thread
    BY DEF Thread
  <2>. QED
    BY <2>1 DEF Init, Waiting, NoFrame
<1>2. PongsIn(wire, Len(wire)) = {}
  BY <1>1 DEF PongsIn
<1>3. PingsRead = 0
  BY <1>1, <1>2, FS_EmptySet DEF PingsRead
<1>4. Counts([i \in {0} |-> 0], inbound, PingsRead, Len(pings), pings)
  <2>1. [i \in {0} |-> 0][0] = 0 /\ Len(inbound) = 0 /\ Len(pings) = 0 /\ 1..0 = {}
    BY <1>1
  <2>. QED
    BY <1>3, <2>1, Zenon DEF Counts
<1>. QED
  BY <1>1, <1>2, <1>4 DEF PongInv, Answers

(* The pongs written answer the pings of the peer, each once and in order, *)
(* whatever other threads write between and wherever the connection breaks *)
(* (NanoWSD.java, lines 219-220 and 269-293).                              *)
THEOREM PongsMatchPings == Spec => []PongsAnswerPings
<1>1. Init => TypeInv /\ PongInv
  BY InitTypeInv, InitPong
<1>2. (TypeInv /\ PongInv) /\ [Next]_vars => (TypeInv /\ PongInv)'
  BY NextTypeInv, PongStep DEF TypeInv, WireInv
<1>3. PongInv => PongsAnswerPings
  <2>1. \A n : Pongs(n) = PongsIn(wire, n)
    BY DEF Pongs, PongsIn, IsPong
  <2>. QED
    BY <2>1 DEF PongInv, Answers, PongsAnswerPings
<1>. QED
  BY <1>1, <1>2, <1>3, PTL DEF Spec

-----------------------------------------------------------------------------
(* Without a Closer only the server thread closes: it has seen the last    *)
(* value of the state, and after onClose it finds CLOSED wherever it looks. *)
Reported == Len(closes) = 1 /\ writes[Len(writes)] = "CLOSED"
            /\ pc[Reader] \in {"loop", "finally", "doClose", "ended"}

SoloInv ==
  /\ \A t \in Sender : /\ pc[t] \in {"none", "idle"} \union Sending
                       /\ pc[t] \in Sending => resume[t] = "idle"
  /\ seen[Reader] = Len(writes)
  /\ pc[Reader] = "handshake" => Len(writes) = 1
  /\ closes = <<>> \/ Reported
  /\ pc[Reader] \in ClosingPlace => resume[Reader] \in {"loop", "finally", "ended"}

LEMMA SenderSolo ==
  ASSUME WriterType, FieldInv, SoloInv, NEW t \in Sender, SendFrame(t) \/ CallSend(t)
  PROVE  SoloInv'
<1>. pc \in [Thread -> Place] /\ resume \in [Thread -> Back] /\ t \in Thread /\ t # Reader
     /\ seen \in [Thread -> 1..Len(writes)] /\ Reader \in Thread /\ Sender \subseteq Thread
  BY WebSocketAssumption DEF WriterType, FieldInv, Thread
<1>1. /\ UNCHANGED <<writes, closes>> /\ seen'[Reader] = seen[Reader]
      /\ pc'[Reader] = pc[Reader] /\ resume'[Reader] = resume[Reader]
      /\ \A u \in Sender \ {t} : pc'[u] = pc[u] /\ resume'[u] = resume[u]
  <2>. USE DEF Goto, field
  <2>1. CASE EnterMonitor(t)
    BY <2>1 DEF EnterMonitor
  <2>2. CASE WriteHeader(t)
    BY <2>2 DEF WriteHeader, Write
  <2>3. CASE WritePayload(t)
    BY <2>3 DEF WritePayload, Write
  <2>4. CASE WriteFails(t)
    BY <2>4 DEF WriteFails
  <2>5. CASE CallSend(t)
    BY <2>5 DEF CallSend, CallSendFrame
  <2>. QED
    BY <2>1, <2>2, <2>3, <2>4, <2>5 DEF SendFrame
<1>2. /\ pc'[t] \in {"none", "idle"} \union Sending
      /\ pc'[t] \in Sending => resume'[t] = "idle"
  <2>. USE DEF Goto, Sending, SoloInv
  <2>1. CASE EnterMonitor(t)
    BY <2>1 DEF EnterMonitor
  <2>2. CASE WriteHeader(t)
    BY <2>2 DEF WriteHeader, Write
  <2>3. CASE WritePayload(t)
    BY <2>3 DEF WritePayload, Write
  <2>4. CASE WriteFails(t)
    BY <2>4 DEF WriteFails, Thrown, Rest
  <2>5. CASE CallSend(t)
    BY <2>5 DEF CallSend, CallSendFrame
  <2>. QED
    BY <2>1, <2>2, <2>3, <2>4, <2>5 DEF SendFrame
<1>. QED
  BY <1>1, <1>2 DEF SoloInv, Reported

(* A step of the server thread.                                            *)
LEMMA ReaderSolo ==
  ASSUME WriterType, FieldInv, SoloInv,
         \A t \in Sender : pc'[t] = pc[t] /\ resume'[t] = resume[t],
         seen'[Reader] = Len(writes'),
         pc'[Reader] # "handshake",
         closes' = <<>> \/ Reported',
         pc'[Reader] \in ClosingPlace => resume'[Reader] \in {"loop", "finally", "ended"}
  PROVE  SoloInv'
  BY DEF SoloInv

LEMMA ReaderSends ==
  ASSUME WriterType, FieldInv, SoloInv, SendFrame(Reader)
  PROVE  SoloInv'
<1>. pc \in [Thread -> Place] /\ resume \in [Thread -> Back] /\ Reader \in Thread
     /\ seen \in [Thread -> 1..Len(writes)] /\ (\A t \in Sender : t \in Thread /\ t # Reader)
     /\ released \in 1..Len(writes) /\ Len(writes) \in Nat
  BY WebSocketAssumption DEF WriterType, FieldInv, Thread
<1>. USE DEF Goto, field
<1>1. /\ UNCHANGED <<writes, closes>> /\ seen'[Reader] = Len(writes)
      /\ pc[Reader] \in Sending /\ pc'[Reader] \in Sending \union Back \union {"ioexception"}
      /\ \A u \in Sender : pc'[u] = pc[u] /\ resume'[u] = resume[u]
  <2>. USE DEF Sending
  <2>0. seen[Reader] = Len(writes)
    BY DEF SoloInv
  <2>1. CASE EnterMonitor(Reader)
    <3>1. seen'[Reader] = IF seen[Reader] < released THEN released ELSE seen[Reader]
      BY <2>1 DEF EnterMonitor
    <3>2. ~(Len(writes) < released)
      OBVIOUS
    <3>3. seen'[Reader] = Len(writes)
      BY <2>0, <3>1, <3>2, Zenon
    <3>. QED
      BY <2>1, <3>3 DEF EnterMonitor
  <2>2. CASE WriteHeader(Reader)
    BY <2>0, <2>2 DEF WriteHeader, Write
  <2>3. CASE WritePayload(Reader)
    BY <2>0, <2>3 DEF WritePayload, Write
  <2>4. CASE WriteFails(Reader)
    BY <2>0, <2>4 DEF WriteFails, Thrown
  <2>. QED
    BY <2>1, <2>2, <2>3, <2>4 DEF SendFrame
<1>2. closes = <<>>
  BY <1>1 DEF SoloInv, Reported, Sending
<1>. QED
  BY <1>1, <1>2, ReaderSolo DEF Sending, Back, ClosingPlace

LEMMA ReaderCloses ==
  ASSUME WriterType, FieldInv, CallInv, SoloInv, Closing(Reader)
  PROVE  SoloInv'
<1>. pc \in [Thread -> Place] /\ resume \in [Thread -> Back] /\ Reader \in Thread
     /\ seen \in [Thread -> 1..Len(writes)] /\ (\A t \in Sender : t \in Thread /\ t # Reader)
     /\ Len(writes) \in Nat /\ writes \in Seq(State)
  BY WebSocketAssumption DEF WriterType, FieldInv, Thread
<1>0. seen[Reader] = Len(writes)
  BY DEF SoloInv
<1>1. pc[Reader] \in ClosingPlace /\ resume[Reader] \in {"loop", "finally", "ended"}
  <2>1. pc[Reader] \in ClosingPlace
    BY DEF Closing, CloseReads, CloseWrites, DoCloseTests, CloseStreams, OnClose, ClosingPlace
  <2>. QED
    BY <2>1 DEF SoloInv
<1>. USE DEF Goto, field, ClosingPlace
<1>2. ASSUME NEW s, ReadState(Reader, s)
      PROVE  writes' = writes /\ seen'[Reader] = Len(writes') /\ writes[Len(writes)] = s
  BY <1>0, <1>2 DEF ReadState
<1>3. ASSUME NEW s \in State, WriteState(Reader, s)
      PROVE  /\ Len(writes') = Len(writes) + 1 /\ writes'[Len(writes')] = s
             /\ seen'[Reader] = Len(writes')
  <2>1. writes' = Append(writes, s) /\ seen' = [seen EXCEPT ![Reader] = Len(writes) + 1]
    BY <1>3 DEF WriteState
  <2>. QED
    BY <2>1
<1>4. CASE CloseReads(Reader)
  <2>1. closes = <<>> /\ closes' = closes
    BY <1>4 DEF CloseReads, SoloInv, Reported
  <2>. QED
    BY <1>1, <1>2, <1>4, <2>1, ReaderSolo DEF CloseReads
<1>5. CASE CloseWrites(Reader)
  <2>1. closes = <<>> /\ closes' = closes
    BY <1>5 DEF CloseWrites, SoloInv, Reported
  <2>2. seen'[Reader] = Len(writes')
    BY <1>3, <1>5 DEF CloseWrites, State
  <2>3. /\ pc'[Reader] # "handshake"
        /\ pc'[Reader] \in ClosingPlace => resume'[Reader] \in {"loop", "finally", "ended"}
        /\ \A u \in Sender : pc'[u] = pc[u] /\ resume'[u] = resume[u]
    BY <1>1, <1>5 DEF CloseWrites, CallSendFrame
  <2>. QED
    BY <2>1, <2>2, <2>3, ReaderSolo
<1>6. CASE DoCloseTests(Reader)
  <2>1. PICK s \in State : /\ ReadState(Reader, s)
                           /\ IF s = "CLOSED" THEN Return(Reader)
                                ELSE Goto(Reader, "streams") /\ UNCHANGED <<resume, args>>
    BY <1>6 DEF DoCloseTests
  <2>2. /\ writes' = writes /\ seen'[Reader] = Len(writes') /\ writes[Len(writes)] = s
        /\ closes' = closes
    BY <1>2, <1>6, <2>1 DEF DoCloseTests
  <2>3. CASE s = "CLOSED"
    <3>1. pc'[Reader] \in {"loop", "finally", "ended"}
          /\ \A u \in Sender : pc'[u] = pc[u] /\ resume'[u] = resume[u]
      BY <1>1, <2>1, <2>3 DEF Return
    <3>2. closes' = <<>> \/ Reported'
      BY <2>2, <3>1 DEF SoloInv, Reported
    <3>. QED
      BY <2>2, <3>1, <3>2, ReaderSolo
  <2>4. CASE s # "CLOSED"
    <3>1. pc'[Reader] = "streams" /\ resume' = resume
          /\ \A u \in Sender : pc'[u] = pc[u] /\ resume'[u] = resume[u]
      BY <2>1, <2>4
    <3>2. closes' = <<>>
      BY <2>2, <2>4 DEF SoloInv, Reported
    <3>. QED
      BY <1>1, <2>2, <3>1, <3>2, ReaderSolo
  <2>. QED
    BY <2>3, <2>4
<1>7. CASE CloseStreams(Reader)
  <2>1. closes = <<>> /\ closes' = closes
    BY <1>7 DEF CloseStreams, SoloInv, Reported
  <2>. QED
    BY <1>0, <1>1, <1>7, <2>1, ReaderSolo DEF CloseStreams
<1>8. CASE OnClose(Reader)
  <2>1. closes = <<>>
    BY <1>8 DEF OnClose, SoloInv, Reported
  <2>2. /\ pc'[Reader] \in {"loop", "finally", "ended"}
        /\ \A u \in Sender : pc'[u] = pc[u] /\ resume'[u] = resume[u]
    BY <1>1, <1>8 DEF OnClose, Return
  <2>3. seen'[Reader] = Len(writes') /\ writes'[Len(writes')] = "CLOSED"
    BY <1>3, <1>8 DEF OnClose, State
  <2>4. Len(closes') = 1
    BY <1>8, <2>1 DEF OnClose
  <2>. QED
    BY <2>2, <2>3, <2>4, ReaderSolo DEF Reported
<1>. QED
  BY <1>4, <1>5, <1>6, <1>7, <1>8 DEF Closing

LEMMA ReaderReads ==
  ASSUME WriterType, FieldInv, SoloInv, ReadWebsocket
  PROVE  SoloInv'
<1>. pc \in [Thread -> Place] /\ resume \in [Thread -> Back] /\ Reader \in Thread
     /\ seen \in [Thread -> 1..Len(writes)] /\ (\A t \in Sender : t \in Thread /\ t # Reader)
     /\ Len(writes) \in Nat
  BY WebSocketAssumption DEF WriterType, FieldInv, Thread
<1>0. seen[Reader] = Len(writes)
  BY DEF SoloInv
<1>. USE DEF Goto, field, locals
<1>1. ASSUME NEW s, ReadState(Reader, s)
      PROVE  writes' = writes /\ seen'[Reader] = Len(writes') /\ writes[Len(writes)] = s
  BY <1>0, <1>1 DEF ReadState
<1>2. CASE TestOpen
  <2>1. PICK s \in State : /\ ReadState(Reader, s)
                           /\ Goto(Reader, IF s = "OPEN" THEN "read" ELSE "finally")
    BY <1>2 DEF TestOpen
  <2>2. /\ writes' = writes /\ seen'[Reader] = Len(writes') /\ writes[Len(writes)] = s
        /\ closes' = closes /\ resume' = resume
    BY <1>1, <1>2, <2>1 DEF TestOpen
  <2>3. /\ pc'[Reader] = IF s = "OPEN" THEN "read" ELSE "finally"
        /\ \A u \in Sender : pc'[u] = pc[u] /\ resume'[u] = resume[u]
    BY <2>1, <2>2
  <2>4. closes' = <<>> \/ Reported'
    BY <2>2, <2>3 DEF SoloInv, Reported
  <2>. QED
    BY <2>2, <2>3, <2>4, ReaderSolo DEF ClosingPlace
<1>3. ASSUME writes' = writes, seen'[Reader] = Len(writes), closes' = closes,
             \A u \in Sender : pc'[u] = pc[u] /\ resume'[u] = resume[u],
             pc[Reader] \in {"read", "websocketexception", "ioexception"},
             pc'[Reader] \notin ClosingPlace \union {"handshake"} \/
               (pc'[Reader] \in ClosingPlace /\ resume'[Reader] \in {"loop", "finally"})
      PROVE  SoloInv'
  <2>1. closes = <<>>
    BY <1>3 DEF SoloInv, Reported
  <2>. QED
    BY <1>3, <2>1, ReaderSolo DEF ClosingPlace
<1>4. CASE ReadFails
  BY <1>0, <1>3, <1>4 DEF ReadFails, ClosingPlace
<1>5. CASE HandleDataFrame
  <2>1. Goto(Reader, "loop") \/ Goto(Reader, "websocketexception")
    BY <1>5 DEF HandleDataFrame, FirstFragment, IntermediateFragment, LastFragment,
                WholeMessage, OutOfSequence
  <2>. QED
    BY <1>0, <1>3, <1>5, <2>1 DEF HandleDataFrame, ReadFrame, ClosingPlace
<1>6. CASE HandlePing
  BY <1>0, <1>3, <1>6 DEF HandlePing, ReadFrame, CallSendFrame, ClosingPlace
<1>7. CASE HandlePong
  BY <1>0, <1>3, <1>7 DEF HandlePong, ReadFrame, ClosingPlace
<1>8. CASE HandleCloseFrame
  BY <1>1, <1>3, <1>8 DEF HandleCloseFrame, ReadFrame, CallClose, ClosingPlace
<1>9. CASE RefuseFrame
  BY <1>0, <1>3, <1>9 DEF RefuseFrame, ReadFrame, ClosingPlace
<1>10. CASE CatchWebSocketException
  BY <1>0, <1>3, <1>10 DEF CatchWebSocketException, CallClose, ClosingPlace
<1>11. CASE CatchIOException
  BY <1>0, <1>3, <1>11 DEF CatchIOException, ClosingPlace
<1>12. CASE Finally
  <2>1. /\ pc'[Reader] = "doClose" /\ resume'[Reader] = "ended"
        /\ UNCHANGED <<writes, seen, closes>>
        /\ \A u \in Sender : pc'[u] = pc[u] /\ resume'[u] = resume[u]
    BY <1>12 DEF Finally, CallClose
  <2>2. closes' = <<>> \/ Reported'
    BY <2>1 DEF SoloInv, Reported
  <2>. QED
    BY <1>0, <2>1, <2>2, ReaderSolo
<1>. QED
  BY <1>2, <1>4, <1>5, <1>6, <1>7, <1>8, <1>9, <1>10, <1>11, <1>12 DEF ReadWebsocket

LEMMA SoloStep ==
  ASSUME Closer = {}, TypeInv, SoloInv, [Next]_vars
  PROVE  SoloInv'
<1>. WriterType /\ FieldInv /\ CallInv /\ OpenInv
  BY DEF TypeInv, WireInv
<1>1. ASSUME NEW t \in Sender, ThreadStep(t) PROVE SoloInv'
  <2>1. ~Closing(t) /\ t # Reader
    BY WebSocketAssumption
    DEF SoloInv, Sending, Closing, CloseReads, CloseWrites, DoCloseTests, CloseStreams, OnClose
  <2>. QED
    BY <1>1, <2>1, SenderSolo DEF ThreadStep
<1>2. ASSUME Open PROVE SoloInv'
  <2>. pc \in [Thread -> Place] /\ resume \in [Thread -> Back] /\ Reader \in Thread
       /\ writes \in Seq(State) /\ \A t \in Sender : t \in Thread /\ t # Reader
    BY WebSocketAssumption DEF WriterType, FieldInv, Thread
  <2>1. /\ pc[Reader] = "handshake" /\ seen'[Reader] = 3
        /\ pc'[Reader] = "loop" /\ \A u \in Sender : pc'[u] = "idle"
        /\ closes' = closes
    BY <1>2 DEF Open
  <2>2. closes = <<>> /\ Len(writes) = 1
    BY <2>1 DEF SoloInv, Reported
  <2>3. Len(writes') = 3
    <3>1. writes' = writes \o <<"CONNECTING", "OPEN">>
      BY <1>2 DEF Open
    <3>. DEFINE more == <<"CONNECTING", "OPEN">>
    <3>2. more \in Seq(State) /\ Len(more) = 2
      BY DEF State
    <3>. HIDE DEF more
    <3>3. Len(writes \o more) = Len(writes) + Len(more)
      BY <3>2, ConcatProperties, Zenon
    <3>4. writes' = writes \o more
      BY <3>1 DEF more
    <3>. QED
      BY <2>2, <3>2, <3>3, <3>4
  <2>. QED
    BY <2>1, <2>2, <2>3 DEF SoloInv, Sending, ClosingPlace
<1>3. ASSUME ThreadStep(Reader) PROVE SoloInv'
  BY <1>2, <1>3, ReaderSends, ReaderCloses, ReaderReads DEF ThreadStep
<1>4. ASSUME NEW t \in Sender, CallSend(t) PROVE SoloInv'
  BY <1>4, SenderSolo
<1>5. ASSUME UNCHANGED <<writes, seen, pc, resume, closes>> PROVE SoloInv'
  BY <1>5 DEF SoloInv, Reported
<1>6. ASSUME NEW op \in FrameOp, NEW fin \in BOOLEAN, PeerSends(op, fin) PROVE SoloInv'
  BY <1>5, <1>6, Zenon DEF PeerSends, field, locals
<1>7. ASSUME PeerEnds \/ UNCHANGED vars PROVE SoloInv'
  BY <1>5, <1>7, Zenon DEF PeerEnds, vars, field, locals
<1>8. \A t \in Thread : t = Reader \/ t \in Sender
  BY DEF Thread
<1>9. ~ \E t \in Closer : CallPublicClose(t)
  OBVIOUS
<1>. QED
  BY <1>1, <1>3, <1>4, <1>6, <1>7, <1>8, <1>9, Zenon DEF Next

LEMMA InitSolo == Init => SoloInv
<1>. SUFFICES ASSUME Init PROVE SoloInv
  OBVIOUS
<1>1. Reader \in Thread /\ \A t \in Sender : t \in Thread /\ t # Reader
  BY WebSocketAssumption DEF Thread
<1>. QED
  BY <1>1 DEF Init, SoloInv, Sending, ClosingPlace

(* A step of the socket sends, delivers or reports, or the channel does not *)
(* see it.                                                                 *)
LEMMA ChannelStep ==
  ASSUME Closer = {}, TypeInv, DeliveryInv, SoloInv, [Next]_vars
  PROVE  [Channel!Next]_Channel!vars
<1>. WriterType /\ CallInv /\ MessageInv /\ FieldInv
  BY DEF TypeInv, WireInv
<1>0. Len(sent) \in Nat /\ Len(delivered) \in Nat /\ sent \in Seq(Message)
  BY DEF MessageInv
<1>1. ASSUME delivered' = delivered, sent' = sent, closes' = closes
      PROVE  [Channel!Next]_Channel!vars
  BY <1>1 DEF Channel!vars
<1>2. CASE Still
  <2>1. delivered' = delivered /\ sent' = sent
    BY <1>2 DEF Still, peer
  <2>2. ASSUME NEW t \in Thread, OnClose(t) PROVE Channel!End
    <3>1. t = Reader
      <4>1. pc[t] = "onClose"
        BY <2>2 DEF OnClose
      <4>. QED
        BY <4>1 DEF SoloInv, Sending, Thread
    <3>2. closes = <<>>
      BY <2>2, <3>1 DEF OnClose, SoloInv, Reported
    <3>3. Len(closes) = 0 /\ Len(closes') = 1
      BY <2>2, <3>2 DEF OnClose
    <3>. QED
      BY <2>1, <3>3 DEF Channel!End
  <2>. QED
    BY <1>1, <2>1, <2>2, ArgsChange, Zenon DEF Channel!Next
<1>3. CASE HandleDataFrame
  <2>1. pc[Reader] = "read" /\ closes' = closes /\ sent' = sent
    BY <1>3 DEF HandleDataFrame, ReadFrame, peer
  <2>2. Len(closes) = 0
    BY <2>1 DEF SoloInv, Reported
  <2>3. CASE delivered' = delivered
    BY <1>1, <2>1, <2>3
  <2>4. CASE /\ Len(delivered) < Len(sent)
             /\ delivered' = Append(delivered, sent[Len(delivered) + 1])
    BY <2>1, <2>2, <2>4 DEF Channel!Deliver, Channel!Next
  <2>. QED
    BY <1>3, <2>3, <2>4, DataDelivery
<1>4. CASE TakeControl
  <2>1. closes' = closes
    BY <1>4, Zenon DEF TakeControl, HandlePing, HandlePong, HandleCloseFrame
  <2>. QED
    BY <1>1, <1>4, <2>1, Zenon DEF TakeControl, peer
<1>5. CASE RefuseFrame
  BY <1>1, <1>5, Zenon DEF RefuseFrame, peer
<1>6. ASSUME NEW op \in FrameOp, NEW fin \in BOOLEAN, PeerSends(op, fin)
      PROVE  [Channel!Next]_Channel!vars
  <2>1. delivered' = delivered /\ closes' = closes
    BY <1>6 DEF PeerSends
  <2>2. CASE sent' = sent
    BY <1>1, <2>1, <2>2
  <2>3. CASE op \in AnyOp /\ proper' /\ sent' = Append(sent, Extended(op, count + 1))
    <3>1. InSequence(op)
      BY <1>6, <2>3 DEF PeerSends
    <3>2. Extended(op, count + 1) \in Message
      BY <1>6, <2>3, <3>1, ExtendedMessage
    <3>. DEFINE m == Extended(op, count + 1)
                s == Append(sent, m)
    <3>. HIDE DEF m
    <3>3. Len(s) = Len(sent) + 1 /\ s \in Seq(Message) /\ \A i \in 1..Len(sent) : s[i] = sent[i]
      BY <1>0, <3>2, AppendProperties DEF m
    <3>. HIDE DEF s
    <3>4. SubSeq(s, 1, Len(sent)) = sent
      <4>. DEFINE first == SubSeq(s, 1, Len(sent))
      <4>1. first \in Seq(Message) /\ Len(first) = Len(sent)
            /\ \A i \in 1..Len(sent) : first[i] = sent[i]
        BY <1>0, <3>3
      <4>. HIDE DEF first
      <4>2. first = sent
        BY <1>0, <4>1, SeqEqual, Zenon
      <4>. QED
        BY <4>2 DEF first
    <3>5. sent' = s
      BY <2>3 DEF s, m
    <3>. QED
      BY <2>1, <3>3, <3>4, <3>5 DEF Channel!Send, Channel!Next
  <2>. QED
    BY <1>6, <2>2, <2>3, Zenon DEF PeerSends, AnyOp
<1>. QED
  BY <1>2, <1>3, <1>4, <1>5, <1>6, MessageChange, Zenon DEF PeerFrame

(* Used as the inspector uses it, where no thread calls close(), a socket  *)
(* is a message channel: whatever senders and peer do, each message comes  *)
(* whole and in order, nothing comes after onClose, and onClose comes once *)
(* (NanoWSD.java, lines 117-231 and 243-259).                              *)
THEOREM SocketIsAChannel ==
  ASSUME Closer = {}
  PROVE  Spec => ChannelSpec
<1>. DEFINE Inv == TypeInv /\ DeliveryInv /\ SoloInv
<1>1. Init => Inv
  BY InitTypeInv, InitDelivery, InitSolo
<1>2. Inv /\ [Next]_vars => Inv'
  BY NextTypeInv, DeliveryStep, SoloStep DEF TypeInv, WireInv
<1>3. Init => Channel!Init
  BY DEF Init, Channel!Init
<1>4. Inv /\ [Next]_vars => [Channel!Next]_Channel!vars
  BY ChannelStep
<1>. QED
  BY <1>1, <1>2, <1>3, <1>4, PTL DEF Spec, ChannelSpec, Channel!Spec
=============================================================================
