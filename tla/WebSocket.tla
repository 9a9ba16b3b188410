------------------------------ MODULE WebSocket ------------------------------
(***************************************************************************)
(* One websocket of the inspector's server: NanoWSD.WebSocket between the  *)
(* peer's frames and the listener's callbacks.  Three kinds of thread use  *)
(* it:                                                                     *)
(*                                                                         *)
(*   Reader     the server thread: the handshake, then readWebsocket;      *)
(*   a Sender   a thread that sends (the threads the debugger runs on);    *)
(*   a Closer   a thread that calls close(); the inspector has none.       *)
(*                                                                         *)
(* The field state is neither volatile nor guarded.  writes is the         *)
(* sequence of its values; a thread may read any value from the one it     *)
(* last saw on, and sees what was written before a monitor it enters was   *)
(* left.  The transport keeps order and may break at any time.             *)
(***************************************************************************)
EXTENDS Naturals, Sequences, FiniteSets

CONSTANTS Reader, Sender, Closer, NoThread,
          CallOp,      \* opcodes of the frames that Senders send
          MaxFrames,   \* bound: frames of the peer
          MaxCalls     \* bound: calls of Senders

ASSUME WebSocketAssumption ==
  /\ Reader \notin Sender \union Closer
  /\ Sender \intersect Closer = {}
  /\ NoThread \notin {Reader} \union Sender \union Closer
  /\ CallOp \subseteq {"Text", "Binary", "Ping"}
  /\ MaxFrames \in Nat /\ MaxCalls \in Nat

Thread == {Reader} \union Sender \union Closer
Id == 1..MaxFrames \union 1..MaxCalls
NoId == 0

DataOp == {"Text", "Binary"}
(* What the peer may send; "Bad" is a frame that WebSocketFrame.read       *)
(* refuses: reserved bits, an unknown opcode, a fragmented control frame,  *)
(* a length that is too large or not minimal; or a last fragment with      *)
(* which the message would be longer than an array can be: the constructor *)
(* of the whole frame refuses that, with the same exception.               *)
FrameOp == DataOp \union {"Continuation", "Close", "Ping", "Pong", "Bad"}

VARIABLES
  writes, seen,      \* the values of state, and the one each thread saw last
  monitor, released, \* holder of the socket's monitor; what it publishes
  streamsClosed,     \* in and out were closed by doClose
  continuousOpCode, continuousFrames,
  pc, resume,        \* where each thread is, and where its call returns to
  out, args,         \* the frame it sends, the arguments of its close
  inbound,           \* frames on the way to us
  ended, broken,     \* the peer or the line is gone; a write has failed
  wire,              \* history: what we wrote
  sent, partial,     \* history: the peer's messages, and the unfinished one
  pings,             \* history: the pings of the peer
  proper,            \* history: the peer has kept to the protocol
  count, calls,      \* frames sent by the peer, calls begun by Senders
  delivered, closes  \* history: the calls of onMessage and of onClose

field == <<writes, seen>>
lock == <<monitor, released>>
fragments == <<continuousOpCode, continuousFrames>>
locals == <<pc, resume, out, args>>
line == <<ended, broken>>
peer == <<sent, partial, pings, proper, count>>
vars == <<field, lock, streamsClosed, fragments, locals, inbound, line, wire,
          peer, calls, delivered, closes>>

State == {"UNCONNECTED", "CONNECTING", "OPEN", "CLOSING", "CLOSED"}
NoFrame == [op |-> "None", data |-> NoId]
NoArgs == [code |-> "None", remote |-> FALSE, open |-> FALSE]
NoPartial == [op |-> "None", parts |-> <<>>]

Init ==
  /\ writes = <<"UNCONNECTED">> /\ seen = [t \in Thread |-> 1]
  /\ monitor = NoThread /\ released = 1
  /\ streamsClosed = FALSE
  /\ continuousOpCode = "None" /\ continuousFrames = <<>>
  /\ pc = [t \in Thread |-> IF t = Reader THEN "handshake" ELSE "none"]
  /\ resume = [t \in Thread |-> "none"]
  /\ out = [t \in Thread |-> NoFrame] /\ args = [t \in Thread |-> NoArgs]
  /\ inbound = <<>> /\ ended = FALSE /\ broken = FALSE /\ wire = <<>>
  /\ sent = <<>> /\ partial = NoPartial /\ pings = <<>> /\ proper = TRUE
  /\ count = 0 /\ calls = 0
  /\ delivered = <<>> /\ closes = <<>>

-----------------------------------------------------------------------------
(* The field state.                                                        *)

ReadState(t, value) ==
  \E i \in seen[t]..Len(writes) :
    /\ writes[i] = value
    /\ seen' = [seen EXCEPT ![t] = i]
    /\ UNCHANGED writes

WriteState(t, value) ==
  /\ writes' = Append(writes, value)
  /\ seen' = [seen EXCEPT ![t] = Len(writes) + 1]

Goto(t, place) == pc' = [pc EXCEPT ![t] = place]

(* Where a Sender or a Closer is after its call, and where an IOException *)
(* leads: the Reader's is caught in readWebsocket, another thread's is     *)
(* thrown to its caller.                                                   *)
Rest(t) == IF t \in Sender THEN "idle" ELSE "done"
Thrown(t) == IF t = Reader THEN "ioexception" ELSE Rest(t)

-----------------------------------------------------------------------------
(* sendFrame: a synchronized method that writes a frame in several calls.  *)

CallSendFrame(t, frame, back) ==
  /\ out' = [out EXCEPT ![t] = frame]
  /\ resume' = [resume EXCEPT ![t] = back]
  /\ Goto(t, "sendFrame")

(* Faulty variant: sendFrame is not synchronized.                          *)
EnterUnlocked(t) ==
  /\ pc[t] = "sendFrame"
  /\ Goto(t, "header")
  /\ UNCHANGED <<field, lock, streamsClosed, fragments, resume, out, args,
                 inbound, line, wire, peer, calls, delivered, closes>>

EnterMonitor(t) ==
  /\ pc[t] = "sendFrame"
  /\ monitor = NoThread
  /\ monitor' = t
  /\ seen' = [seen EXCEPT ![t] = IF @ < released THEN released ELSE @]
  /\ Goto(t, "header")
  /\ UNCHANGED <<writes, released, streamsClosed, fragments, resume, out, args,
                 inbound, line, wire, peer, calls, delivered, closes>>

LeaveMonitor(t) ==
  /\ monitor' = NoThread
  /\ released' = IF released < seen[t] THEN seen[t] ELSE released

(* A write may succeed although the peer is gone, until one has failed.    *)
Write(t, part, place) ==
  /\ ~streamsClosed /\ ~broken
  /\ wire' = Append(wire, [by |-> t, op |-> out[t].op, data |-> out[t].data,
                           part |-> part])
  /\ Goto(t, place)

WriteHeader(t) ==
  /\ pc[t] = "header"
  /\ Write(t, "header", "payload")
  /\ UNCHANGED <<field, lock, streamsClosed, fragments, resume, out, args,
                 inbound, line, peer, calls, delivered, closes>>

WritePayload(t) ==
  /\ pc[t] = "payload"
  /\ Write(t, "payload", resume[t])
  /\ LeaveMonitor(t)
  /\ resume' = [resume EXCEPT ![t] = "none"]
  /\ out' = [out EXCEPT ![t] = NoFrame]
  /\ UNCHANGED <<field, streamsClosed, fragments, args, inbound, line, peer,
                 calls, delivered, closes>>

WriteFails(t) ==
  /\ pc[t] \in {"header", "payload"}
  /\ ended \/ streamsClosed
  /\ broken' = TRUE
  /\ LeaveMonitor(t)
  /\ Goto(t, Thrown(t))
  /\ resume' = [resume EXCEPT ![t] = "none"]
  /\ out' = [out EXCEPT ![t] = NoFrame]
  /\ UNCHANGED <<field, streamsClosed, fragments, args, inbound, ended, wire,
                 peer, calls, delivered, closes>>

SendFrame(t) ==
  EnterMonitor(t) \/ WriteHeader(t) \/ WritePayload(t) \/ WriteFails(t)

-----------------------------------------------------------------------------
(* close and doClose.                                                      *)

CallClose(t, place, code, remote, back) ==
  /\ args' = [args EXCEPT ![t] = [code |-> code, remote |-> remote, open |-> FALSE]]
  /\ resume' = [resume EXCEPT ![t] = back]
  /\ Goto(t, place)

(* close: the old state is read before CLOSING is written.                 *)
CloseReads(t) ==
  /\ pc[t] = "close"
  /\ \E s \in State :
       /\ ReadState(t, s)
       /\ args' = [args EXCEPT ![t].open = (s = "OPEN")]
  /\ Goto(t, "closeWrites")
  /\ UNCHANGED <<lock, streamsClosed, fragments, resume, out, inbound, line,
                 wire, peer, calls, delivered, closes>>

CloseWrites(t) ==
  /\ pc[t] = "closeWrites"
  /\ WriteState(t, "CLOSING")
  /\ IF args[t].open
       THEN /\ CallSendFrame(t, [op |-> "Close", data |-> NoId], resume[t])
            /\ args' = [args EXCEPT ![t] = NoArgs]
       ELSE Goto(t, "doClose") /\ UNCHANGED <<resume, out, args>>
  /\ UNCHANGED <<lock, streamsClosed, fragments, inbound, line, wire, peer,
                 calls, delivered, closes>>

Return(t) ==
  /\ Goto(t, resume[t])
  /\ resume' = [resume EXCEPT ![t] = "none"]
  /\ args' = [args EXCEPT ![t] = NoArgs]

(* Faulty variant: doClose does not test the state.                        *)
DoCloseUntested(t) ==
  /\ pc[t] = "doClose"
  /\ Goto(t, "streams")
  /\ UNCHANGED <<field, lock, streamsClosed, fragments, resume, args, out,
                 inbound, line, wire, peer, calls, delivered, closes>>

DoCloseTests(t) ==
  /\ pc[t] = "doClose"
  /\ \E s \in State :
       /\ ReadState(t, s)
       /\ IF s = "CLOSED" THEN Return(t)
                          ELSE Goto(t, "streams") /\ UNCHANGED <<resume, args>>
  /\ UNCHANGED <<lock, streamsClosed, fragments, out, inbound, line, wire,
                 peer, calls, delivered, closes>>

CloseStreams(t) ==
  /\ pc[t] = "streams"
  /\ streamsClosed' = TRUE
  /\ Goto(t, "onClose")
  /\ UNCHANGED <<field, lock, fragments, resume, args, out, inbound, line,
                 wire, peer, calls, delivered, closes>>

OnClose(t) ==
  /\ pc[t] = "onClose"
  /\ WriteState(t, "CLOSED")
  /\ closes' = Append(closes, [code |-> args[t].code, remote |-> args[t].remote])
  /\ Return(t)
  /\ UNCHANGED <<lock, streamsClosed, fragments, out, inbound, line, wire,
                 peer, calls, delivered>>

Closing(t) ==
  CloseReads(t) \/ CloseWrites(t) \/ DoCloseTests(t) \/ CloseStreams(t) \/ OnClose(t)

-----------------------------------------------------------------------------
(* The server thread: the handshake and readWebsocket.                     *)

(* handshakeResponse.send: an error in writing the response is swallowed.  *)
(* onOpen hands the socket to the other threads.                           *)
Open ==
  /\ pc[Reader] = "handshake"
  /\ writes' = writes \o <<"CONNECTING", "OPEN">>
  /\ seen' = [t \in Thread |-> 3]
  /\ pc' = [t \in Thread |-> IF t = Reader THEN "loop" ELSE "idle"]
  /\ UNCHANGED <<lock, streamsClosed, fragments, resume, out, args, inbound,
                 line, wire, peer, calls, delivered, closes>>

TestOpen ==
  /\ pc[Reader] = "loop"
  /\ \E s \in State :
       /\ ReadState(Reader, s)
       /\ Goto(Reader, IF s = "OPEN" THEN "read" ELSE "finally")
  /\ UNCHANGED <<lock, streamsClosed, fragments, resume, out, args, inbound,
                 line, wire, peer, calls, delivered, closes>>

(* A read that doClose overtakes may still return its frame or fail.       *)
ReadFrame(ops) ==
  /\ pc[Reader] = "read"
  /\ inbound # <<>>
  /\ Head(inbound).op \in ops
  /\ inbound' = Tail(inbound)

ReadFails ==
  /\ pc[Reader] = "read"
  /\ ended \/ streamsClosed
  /\ Goto(Reader, "ioexception")
  /\ UNCHANGED <<field, lock, streamsClosed, fragments, resume, out, args,
                 inbound, line, wire, peer, calls, delivered, closes>>

FirstFragment(f) ==
  /\ ~f.fin /\ f.op \in DataOp
  /\ continuousOpCode = "None"
  /\ continuousOpCode' = f.op
  /\ continuousFrames' = <<f.data>>
  /\ Goto(Reader, "loop")
  /\ UNCHANGED delivered

IntermediateFragment(f) ==
  /\ ~f.fin /\ f.op = "Continuation"
  /\ continuousOpCode # "None"
  /\ continuousFrames' = Append(continuousFrames, f.data)
  /\ Goto(Reader, "loop")
  /\ UNCHANGED <<continuousOpCode, delivered>>

(* Faulty variant: the sequence is not ended.                              *)
LastFragmentKept(f) ==
  /\ f.fin /\ f.op = "Continuation"
  /\ continuousOpCode # "None"
  /\ delivered' = Append(delivered, [op |-> continuousOpCode,
                                     parts |-> Append(continuousFrames, f.data)])
  /\ continuousFrames' = <<>>
  /\ Goto(Reader, "loop")
  /\ UNCHANGED continuousOpCode

(* The fragments fit into one array; when they do not: RefuseFrame.        *)
LastFragment(f) ==
  /\ f.fin /\ f.op = "Continuation"
  /\ continuousOpCode # "None"
  /\ delivered' = Append(delivered, [op |-> continuousOpCode,
                                     parts |-> Append(continuousFrames, f.data)])
  /\ continuousOpCode' = "None" /\ continuousFrames' = <<>>
  /\ Goto(Reader, "loop")

(* Faulty variant: a whole message is taken amid the fragments of another. *)
WholeMessageAmid(f) ==
  /\ f.fin /\ f.op \in DataOp
  /\ delivered' = Append(delivered, [op |-> f.op, parts |-> <<f.data>>])
  /\ Goto(Reader, "loop")
  /\ UNCHANGED fragments

WholeMessage(f) ==
  /\ f.fin /\ f.op \in DataOp
  /\ continuousOpCode = "None"
  /\ delivered' = Append(delivered, [op |-> f.op, parts |-> <<f.data>>])
  /\ Goto(Reader, "loop")
  /\ UNCHANGED fragments

(* "Previous continuous frame sequence not completed", "was not started".  *)
OutOfSequence(f) ==
  /\ (f.op = "Continuation") = (continuousOpCode = "None")
  /\ Goto(Reader, "websocketexception")
  /\ UNCHANGED <<fragments, delivered>>

HandleDataFrame ==
  /\ ReadFrame(DataOp \union {"Continuation"})
  /\ LET f == Head(inbound) IN
       \/ FirstFragment(f)
       \/ IntermediateFragment(f)
       \/ LastFragment(f)
       \/ WholeMessage(f)
       \/ OutOfSequence(f)
  /\ UNCHANGED <<field, lock, streamsClosed, resume, out, args, line, wire,
                 peer, calls, closes>>

(* Faulty variant: every ping and pong is answered.                        *)
AnswerPingsAndPongs ==
  /\ ReadFrame({"Ping", "Pong"})
  /\ CallSendFrame(Reader, [op |-> "Pong", data |-> Head(inbound).data], "loop")
  /\ UNCHANGED <<field, lock, streamsClosed, fragments, args, line, wire, peer,
                 calls, delivered, closes>>

HandlePing ==
  /\ ReadFrame({"Ping"})
  /\ CallSendFrame(Reader, [op |-> "Pong", data |-> Head(inbound).data], "loop")
  /\ UNCHANGED <<field, lock, streamsClosed, fragments, args, line, wire, peer,
                 calls, delivered, closes>>

(* onPong does nothing in the inspector.                                   *)
HandlePong ==
  /\ ReadFrame({"Pong"})
  /\ Goto(Reader, "loop")
  /\ UNCHANGED <<field, lock, streamsClosed, fragments, resume, out, args, line,
                 wire, peer, calls, delivered, closes>>

(* handleCloseFrame.                                                       *)
HandleCloseFrame ==
  /\ ReadFrame({"Close"})
  /\ \E s \in State :
       /\ ReadState(Reader, s)
       /\ IF s = "CLOSING" THEN CallClose(Reader, "doClose", "Peer", FALSE, "loop")
                           ELSE CallClose(Reader, "close", "Peer", TRUE, "loop")
  /\ UNCHANGED <<lock, streamsClosed, fragments, out, line, wire, peer, calls,
                 delivered, closes>>

RefuseFrame ==
  /\ ReadFrame({"Bad"})
  /\ Goto(Reader, "websocketexception")
  /\ UNCHANGED <<field, lock, streamsClosed, fragments, resume, out, args, line,
                 wire, peer, calls, delivered, closes>>

(* The catch clauses call onException; only a WebSocketException closes.   *)
CatchWebSocketException ==
  /\ pc[Reader] = "websocketexception"
  /\ CallClose(Reader, "doClose", "ProtocolError", FALSE, "finally")
  /\ UNCHANGED <<field, lock, streamsClosed, fragments, out, inbound, line,
                 wire, peer, calls, delivered, closes>>

CatchIOException ==
  /\ pc[Reader] = "ioexception"
  /\ Goto(Reader, "finally")
  /\ UNCHANGED <<field, lock, streamsClosed, fragments, resume, out, args,
                 inbound, line, wire, peer, calls, delivered, closes>>

(* Faulty variant: the finally clause is missing.                          *)
FinallyMissing ==
  /\ pc[Reader] = "finally"
  /\ Goto(Reader, "ended")
  /\ UNCHANGED <<field, lock, streamsClosed, fragments, resume, out, args,
                 inbound, line, wire, peer, calls, delivered, closes>>

Finally ==
  /\ pc[Reader] = "finally"
  /\ CallClose(Reader, "doClose", "InternalServerError", FALSE, "ended")
  /\ UNCHANGED <<field, lock, streamsClosed, fragments, out, inbound, line,
                 wire, peer, calls, delivered, closes>>

ReadWebsocket ==
  \/ TestOpen \/ ReadFails
  \/ HandleDataFrame \/ HandlePing \/ HandlePong \/ HandleCloseFrame \/ RefuseFrame
  \/ CatchWebSocketException \/ CatchIOException \/ Finally

-----------------------------------------------------------------------------
(* The other threads.                                                      *)

(* send(String), send(byte[]) and ping, which do not look at the state.    *)
CallSend(t) ==
  /\ pc[t] = "idle"
  /\ calls < MaxCalls
  /\ \E op \in CallOp :
       CallSendFrame(t, [op |-> op, data |-> calls + 1], "idle")
  /\ calls' = calls + 1
  /\ UNCHANGED <<field, lock, streamsClosed, fragments, args, inbound, line,
                 wire, peer, delivered, closes>>

CallPublicClose(t) ==
  /\ pc[t] = "idle"
  /\ CallClose(t, "close", "Own", FALSE, "done")
  /\ UNCHANGED <<field, lock, streamsClosed, fragments, out, inbound, line,
                 wire, peer, calls, delivered, closes>>

-----------------------------------------------------------------------------
(* The peer: any frames at all.  sent has the messages it completed while  *)
(* it kept to the protocol.                                                *)

InSequence(op) ==
  \/ op \in {"Ping", "Pong", "Close"}
  \/ op \in DataOp /\ partial.op = "None"
  \/ op = "Continuation" /\ partial.op # "None"

Extended(op, id) ==
  [op |-> IF op = "Continuation" THEN partial.op ELSE op,
   parts |-> Append(partial.parts, id)]

PeerSends(op, fin) ==
  /\ ~ended
  /\ count < MaxFrames
  /\ count' = count + 1
  /\ inbound' = Append(inbound, [op |-> op, fin |-> fin, data |-> count + 1])
  /\ proper' = (proper /\ InSequence(op))
  /\ pings' = IF op = "Ping" THEN Append(pings, count + 1) ELSE pings
  /\ IF proper' /\ op \in DataOp \union {"Continuation"}
       THEN IF fin THEN /\ sent' = Append(sent, Extended(op, count + 1))
                        /\ partial' = NoPartial
                   ELSE partial' = Extended(op, count + 1) /\ UNCHANGED sent
       ELSE UNCHANGED <<sent, partial>>
  /\ UNCHANGED <<field, lock, streamsClosed, fragments, locals, line, wire,
                 calls, delivered, closes>>

(* The peer closes its end, or the connection is lost.                     *)
PeerEnds ==
  /\ ~ended
  /\ ended' = TRUE
  /\ UNCHANGED <<field, lock, streamsClosed, fragments, locals, inbound, broken, wire,
                 peer, calls, delivered, closes>>

-----------------------------------------------------------------------------

ThreadStep(t) ==
  \/ SendFrame(t) \/ Closing(t)
  \/ t = Reader /\ (Open \/ ReadWebsocket)

Next ==
  \/ \E t \in Thread : ThreadStep(t)
  \/ \E t \in Sender : CallSend(t)
  \/ \E t \in Closer : CallPublicClose(t)
  \/ \E op \in FrameOp, fin \in BOOLEAN :
       /\ op \in {"Close", "Ping", "Pong"} => fin
       /\ PeerSends(op, fin)
  \/ PeerEnds

Spec == Init /\ [][Next]_vars

(* A write waits for a peer that does not read.  Once the peer is gone     *)
(* nothing blocks, and every thread is scheduled.                          *)
FairSpec == Spec /\ \A t \in Thread : WF_vars(ended /\ ThreadStep(t))

-----------------------------------------------------------------------------
Message == [op : DataOp, parts : Seq(1..MaxFrames)]

Place == {"handshake", "none", "idle", "done", "loop", "read", "finally", "ended",
          "ioexception", "websocketexception", "sendFrame", "header", "payload",
          "close", "closeWrites", "doClose", "streams", "onClose"}
Code == {"Peer", "Own", "ProtocolError", "InternalServerError"}

(* Types; in particular a message given to onMessage is text or binary,    *)
(* never a continuation, and a thread has seen a value that was written.   *)
TypeOK ==
  /\ writes \in Seq(State)
  /\ seen \in [Thread -> 1..Len(writes)]
  /\ monitor \in Thread \union {NoThread}
  /\ released \in 1..Len(writes)
  /\ streamsClosed \in BOOLEAN
  /\ continuousOpCode \in DataOp \union {"None"}
  /\ continuousFrames \in Seq(1..MaxFrames)
  /\ pc \in [Thread -> Place]
  /\ resume \in [Thread -> Place]
  /\ out \in [Thread -> [op : FrameOp \union {"None"}, data : Id \union {NoId}]]
  /\ args \in [Thread -> [code : Code \union {"None"}, remote : BOOLEAN,
                          open : BOOLEAN]]
  /\ inbound \in Seq([op : FrameOp, fin : BOOLEAN, data : 1..MaxFrames])
  /\ ended \in BOOLEAN /\ broken \in BOOLEAN
  /\ wire \in Seq([by : Thread, op : FrameOp, data : Id \union {NoId},
                   part : {"header", "payload"}])
  /\ sent \in Seq(Message)
  /\ partial \in [op : DataOp \union {"None"}, parts : Seq(1..MaxFrames)]
  /\ pings \in Seq(1..MaxFrames)
  /\ proper \in BOOLEAN
  /\ count \in 0..MaxFrames /\ calls \in 0..MaxCalls
  /\ delivered \in Seq(Message)
  /\ closes \in Seq([code : Code, remote : BOOLEAN])

(* Frames are written whole (NanoWSD.java:269): on the wire every header   *)
(* is followed by its own payload, whoever else sends at the time, and     *)
(* only the last frame may be cut off.                                     *)
WholeFrames ==
  \A i \in DOMAIN wire :
    IF i % 2 = 1
      THEN wire[i].part = "header"
      ELSE /\ wire[i].part = "payload"
           /\ wire[i].by = wire[i - 1].by
           /\ wire[i].op = wire[i - 1].op
           /\ wire[i].data = wire[i - 1].data

(* The first n parts on the wire: where the pongs begin.                   *)
Pongs(n) == { i \in 1..n : wire[i].op = "Pong" /\ wire[i].part = "header" }

(* The pongs written answer pings that the peer sent, each once and in     *)
(* order, though other frames are read and written between                 *)
(* (NanoWSD.java:219).                                                     *)
PongsAnswerPings ==
  \A i \in Pongs(Len(wire)) :
    LET k == Cardinality(Pongs(i))   \* it is the k-th pong
    IN  k <= Len(pings) /\ wire[i].data = pings[k]

(* A peer that kept to the protocol, whatever fragments and control frames *)
(* it mixed, is never told of a protocol error (NanoWSD.java:188-231).     *)
ProperPeerNotBlamed ==
  \A i \in DOMAIN closes : closes[i].code = "ProtocolError" => ~proper

(* Messages arrive whole, in order and once, also when another thread      *)
(* closes the socket (NanoWSD.java:188-231).                               *)
DeliveredIsPrefix ==
  /\ Len(delivered) <= Len(sent)
  /\ delivered = SubSeq(sent, 1, Len(delivered))

(* Without a Closer the socket is a message channel: nothing is delivered  *)
(* after onClose, and onClose comes once (NanoWSD.java:141-161, 243-259).  *)
Channel == INSTANCE MessageChannel WITH reports <- Len(closes)
ChannelSpec == Channel!Spec

(* When the peer is gone, the listener hears of it, whatever a sender that *)
(* holds the monitor, an exception or a second close does meanwhile        *)
(* (NanoWSD.java:243-259).                                                 *)
EndIsReported == ended ~> (closes # <<>>)
=============================================================================
