--------------------------- MODULE InspectorProofs ---------------------------
(***************************************************************************)
(* Proofs about the debugger connection, for every set of websockets, kind *)
(* of message and bound on messages.                                       *)
(***************************************************************************)
EXTENDS Inspector, FiniteSetTheorems, SequenceTheorems, TLAPS

-----------------------------------------------------------------------------
(* Types.                                                                  *)

SessionType == [open : BOOLEAN, enabled : BOOLEAN, skip : BOOLEAN,
                active : BOOLEAN, reason : BOOLEAN]

AgentTypes ==
  /\ session \in SessionType
  /\ paused \in BOOLEAN /\ breakRequested \in BOOLEAN /\ toLocation \in BOOLEAN
  /\ terminated \in BOOLEAN /\ released \in BOOLEAN

LEMMA ContinueTypes == AgentTypes /\ ContinueProgram => terminated' \in BOOLEAN /\ released' \in BOOLEAN
  BY DEF AgentTypes, ContinueProgram

LEMMA SessionTypes ==
  /\ NewSession \in SessionType /\ NewSession.open
  /\ NoSession \in SessionType /\ ~NoSession.open
  /\ \A n \in {NewSession, NoSession} : ~n.enabled /\ ~n.reason
  BY DEF NewSession, NoSession, SessionType

LEMMA DisableTypes ==
  ASSUME AgentTypes, NEW n \in {NewSession, NoSession}, DisableAgent(n)
  PROVE  AgentTypes'
  BY SessionTypes, ContinueTypes DEF AgentTypes, DisableAgent

(* The other variables.                                                    *)
QueueTypes ==
  /\ hand \in [Thread -> Id \union {NoMessage}]
  /\ sent \in Seq(Kind) /\ Len(sent) <= MaxMessages
  /\ inbox \in Seq(Id) /\ parked \in Seq(Id)
  /\ handled \subseteq Id

ControlTypes ==
  /\ process \in {"alive", "dead"}
  /\ client \in {"none", "foreign", "js"}
  /\ connection \in Socket \union {NoSocket}
  /\ pc \in [Thread -> {"none", "reading", "offered", "parking", "closing",
                        "closed", "idle", "draining", "resuming",
                        "resetting", "reconnecting", "waiting", "breaking", "done", "boot",
                        "running", "pausing", "loop", "taking", "leaving"}]
  /\ ready \in BOOLEAN
  /\ looper \in Seq({"drain", "disconnect"})

LEMMA TypeParts == TypeOK <=> AgentTypes /\ QueueTypes /\ ControlTypes
  BY DEF TypeOK, AgentTypes, SessionType, QueueTypes, ControlTypes

messages == <<sent, inbox, parked, hand, handled>>

(* A message that a thread holds is given to the session, or dropped.      *)
Handle(t) ==
  /\ hand[t] # NoMessage
  /\ handled' = handled \union {hand[t]}
  /\ hand' = [hand EXCEPT ![t] = NoMessage]
  /\ UNCHANGED <<sent, inbox, parked>>

Take(t) == Poll(t) /\ UNCHANGED <<sent, parked, handled>>

(* What a step can do with messages: receive one, poll one, park one, take *)
(* a parked one or handle one.                                             *)
LEMMA MessageMoves ==
  ASSUME Next
  PROVE  \/ \E s \in Socket : OnMessage(s) \/ ParkOffer(s)
         \/ \E t \in Thread : Take(t) \/ Handle(t)
         \/ ProcessDebugBreakMessages
         \/ UNCHANGED messages
<1>. USE DEF messages, queues
<1>1. ASSUME NEW s \in Socket, Connect(s) \/ OnMessage(s) \/ Park(s) \/ OnClose(s)
      PROVE  \/ OnMessage(s) \/ ParkOffer(s) \/ Take(s) \/ UNCHANGED messages
  BY <1>1 DEF Connect, Park, PostDrain, ParkPoll, ParkEnd, OnClose, Take
<1>2. ASSUME NEW t \in Socket \union {Main}, Disconnect(t) PROVE UNCHANGED messages
  BY <1>2 DEF Disconnect, DisconnectBegin, DisconnectResume, DisconnectReset, CreateInspectorSession, Crash
<1>3. ASSUME NEW t \in Thread, DispatchMessage(t) PROVE Handle(t) \/ UNCHANGED messages
  BY <1>3 DEF DispatchMessage, Handle, Crash
<1>4. Main \in Thread /\ Starter \in Thread /\ Js \in Thread /\ \A s \in Socket : s \in Thread
  BY DEF Thread
<1>5. CASE Drain
  BY <1>3, <1>4, <1>5 DEF Drain, DrainBegin, DrainPoll, DrainEnd, Take
<1>6. CASE WaitForDebugger \/ ProcessDebugBreak \/ InspectorInit \/ Require
           \/ RunScript \/ HandleProgramBreak \/ ScriptEnd
  BY <1>6 DEF WaitForDebugger, ProcessDebugBreak, InspectorInit, Require, RunScript,
              HandleProgramBreak, ScriptEnd, Crash
<1>7. CASE NestedLoop
  <2>1. CASE RunMessageLoop \/ LoopTest \/ DidContinue
    BY <2>1 DEF RunMessageLoop, LoopTest, DidContinue, Crash
  <2>2. CASE GetInspectorMessage
    BY <1>4, <2>2 DEF GetInspectorMessage, Take
  <2>3. CASE LoopDispatch
    BY <1>4, <2>3 DEF LoopDispatch, Handle
  <2>. QED BY <1>7, <2>1, <2>2, <2>3 DEF NestedLoop
<1>. QED
  BY <1>1, <1>2, <1>3, <1>4, <1>5, <1>6, <1>7 DEF Next, Break

LEMMA QueueStep ==
  ASSUME QueueTypes, Next
  PROVE  QueueTypes'
<1>1. ASSUME NEW s \in Socket, OnMessage(s) PROVE QueueTypes'
  <2>1. PICK k \in Kind : sent' = Append(sent, k)
    BY <1>1 DEF OnMessage
  <2>2. sent' \in Seq(Kind) /\ Len(sent') = Len(sent) + 1 /\ Len(sent') <= MaxMessages
    BY <1>1, <2>1, InspectorAssumption DEF QueueTypes, OnMessage
  <2>3. Len(sent') \in Id
    BY <2>2, InspectorAssumption DEF QueueTypes, Id
  <2>4. inbox' \in Seq(Id)
    BY <1>1, <2>3 DEF QueueTypes, OnMessage
  <2>. QED BY <1>1, <2>2, <2>4 DEF QueueTypes, OnMessage
<1>2. ASSUME NEW t \in Thread, Take(t) PROVE QueueTypes'
  <2>1. Head(inbox) \in Id /\ Tail(inbox) \in Seq(Id)
    BY <1>2, HeadTailProperties DEF QueueTypes, Take, Poll
  <2>. QED BY <1>2, <2>1 DEF QueueTypes, Take, Poll
<1>3. ASSUME NEW s \in Socket, ParkOffer(s) PROVE QueueTypes'
  <2>1. s \in Thread /\ hand[s] \in Id
    BY <1>3 DEF QueueTypes, ParkOffer, Thread
  <2>. QED BY <1>3, <2>1 DEF QueueTypes, ParkOffer
<1>4. CASE ProcessDebugBreakMessages
  <2>1. Head(parked) \in Id /\ Tail(parked) \in Seq(Id)
    BY <1>4, HeadTailProperties DEF QueueTypes, ProcessDebugBreakMessages
  <2>. QED BY <1>4, <2>1 DEF QueueTypes, ProcessDebugBreakMessages
<1>5. ASSUME NEW t \in Thread, Handle(t) PROVE QueueTypes'
  BY <1>5 DEF QueueTypes, Handle
<1>6. CASE UNCHANGED messages
  BY <1>6 DEF QueueTypes, messages
<1>. QED
  BY <1>1, <1>2, <1>3, <1>4, <1>5, <1>6, MessageMoves

-----------------------------------------------------------------------------
(* What a step can do to the agent.                                        *)

(* What a message or a scheduled pause does to the agent, short of         *)
(* disabling it: it opens no session, pauses no script, notes a reason     *)
(* only for an agent that is enabled, and loses no pause.                  *)
Tune ==
  /\ session' \in SessionType
  /\ breakRequested' \in BOOLEAN /\ toLocation' \in BOOLEAN
  /\ session'.open = session.open
  /\ session'.enabled => session.enabled \/ session.open
  /\ session'.reason => session'.enabled \/ session.reason
  /\ session.enabled => session'.enabled
  /\ PauseLost' => PauseLost
  /\ UNCHANGED paused
  /\ ContinueProgram \/ UNCHANGED <<terminated, released>>

LEMMA NoteTunes ==
  ASSUME AgentTypes, Pause \/ SchedulePause
  PROVE  Tune
<1>1. CASE session.enabled /\ NoteReason /\ UNCHANGED <<paused, toLocation, terminated, released>>
  BY <1>1 DEF AgentTypes, SessionType, NoteReason, Tune, PauseLost
<1>2. CASE UNCHANGED <<session, breakRequested, paused, toLocation, terminated, released>>
  BY <1>2 DEF AgentTypes, Tune, PauseLost
<1>. QED
  BY <1>1, <1>2 DEF Pause, SchedulePause, AcceptsPause

LEMMA EnableTunes ==
  ASSUME AgentTypes, session.open, Enable
  PROVE  Tune
<1>1. CASE session.enabled
  BY <1>1 DEF AgentTypes, Enable, Tune, PauseLost
<1>2. CASE ~session.enabled
  BY <1>2 DEF AgentTypes, SessionType, Enable, Tune, PauseLost
<1>. QED BY <1>1, <1>2

LEMMA ActiveTunes ==
  ASSUME AgentTypes, NEW active \in BOOLEAN, SetBreakpointsActive(active)
  PROVE  Tune
<1>1. CASE session.enabled /\ session.active # active
  BY <1>1 DEF AgentTypes, SessionType, SetBreakpointsActive, Tune, PauseLost
<1>2. CASE ~(session.enabled /\ session.active # active)
  BY <1>2 DEF AgentTypes, SetBreakpointsActive, Tune, PauseLost
<1>. QED BY <1>1, <1>2

LEMMA DispatchMoves ==
  ASSUME AgentTypes, NEW k, DoDispatchMessage(k)
  PROVE  Tune \/ DisableAgent(NewSession) \/ UNCHANGED debugger
<1>1. CASE ~session.open
  BY <1>1 DEF DoDispatchMessage
<1>. SUFFICES ASSUME session.open PROVE Tune \/ DisableAgent(NewSession) \/ UNCHANGED debugger
  BY <1>1
<1>2. CASE Enable
  BY <1>2, EnableTunes
<1>3. CASE Pause
  BY <1>3, NoteTunes
<1>4. CASE ContinueProgram /\ toLocation' \in BOOLEAN /\ UNCHANGED <<session, paused, breakRequested>>
  BY <1>4 DEF AgentTypes, Tune, PauseLost
<1>5. CASE UNCHANGED <<session, paused, breakRequested, terminated, released, toLocation>>
  BY <1>5 DEF debugger
<1>6. CASE /\ session' = [session EXCEPT !.skip = (k = "skip")]
           /\ UNCHANGED <<paused, breakRequested, toLocation, terminated, released>>
  BY <1>6 DEF AgentTypes, SessionType, Tune, PauseLost
<1>7. CASE SetBreakpointsActive(k = "activate")
  BY <1>7, ActiveTunes
<1>. QED
  BY <1>2, <1>3, <1>4, <1>5, <1>6, <1>7 DEF DoDispatchMessage, AgentTypes

LEMMA AgentMoves ==
  ASSUME AgentTypes, Next
  PROVE  \/ Tune \/ DisableAgent(NewSession)
         \/ \E t \in Socket \union {Main} : DisconnectReset(t)
         \/ HandleProgramBreak \/ RunMessageLoop \/ LoopTest \/ DidContinue
         \/ UNCHANGED debugger
<1>. USE DEF debugger
<1>1. ASSUME NEW s \in Socket, Connect(s) \/ OnMessage(s) \/ Park(s) \/ OnClose(s)
      PROVE  UNCHANGED debugger
  BY <1>1 DEF Connect, OnMessage, Park, PostDrain, ParkPoll, ParkOffer, ParkEnd, OnClose
<1>2. ASSUME NEW t \in Socket \union {Main}, Disconnect(t)
      PROVE  Tune \/ DisconnectReset(t) \/ DisableAgent(NewSession) \/ UNCHANGED debugger
  <2>1. CASE ContinueProgram /\ UNCHANGED <<session, paused, breakRequested, toLocation>>
    BY <2>1 DEF AgentTypes, Tune, PauseLost
  <2>. QED
    BY <1>2, <2>1 DEF Disconnect, DisconnectBegin, DisconnectResume, CreateInspectorSession, Crash
<1>3. ASSUME NEW t \in Thread, DispatchMessage(t)
      PROVE  Tune \/ DisableAgent(NewSession) \/ UNCHANGED debugger
  BY <1>3, DispatchMoves DEF DispatchMessage, Crash
<1>4. Main \in Thread /\ Starter \in Thread
  BY DEF Thread
<1>5. CASE Drain
  BY <1>3, <1>4, <1>5 DEF Drain, DrainBegin, DrainPoll, DrainEnd
<1>6. CASE WaitForDebugger \/ ProcessDebugBreak \/ InspectorInit \/ Require \/ RunScript
           \/ ScriptEnd \/ ProcessDebugBreakMessages
  BY <1>6, NoteTunes DEF WaitForDebugger, ProcessDebugBreak, InspectorInit, Require, RunScript,
              ScriptEnd, Crash, ProcessDebugBreakMessages
<1>7. CASE NestedLoop
  <2>1. CASE GetInspectorMessage
    BY <2>1 DEF GetInspectorMessage
  <2>2. CASE LoopDispatch
    BY <2>2, DispatchMoves DEF LoopDispatch
  <2>. QED BY <1>7, <2>1, <2>2 DEF NestedLoop
<1>. QED
  BY <1>1, <1>2, <1>3, <1>4, <1>5, <1>6, <1>7 DEF Next, Break

LEMMA AgentStep ==
  ASSUME AgentTypes, Next
  PROVE  AgentTypes'
<1>1. CASE Tune
  BY <1>1, ContinueTypes DEF AgentTypes, Tune
<1>2. CASE DisableAgent(NewSession)
  BY <1>2, DisableTypes
<1>3. ASSUME NEW t \in Socket \union {Main}, DisconnectReset(t) PROVE AgentTypes'
  BY <1>3, DisableTypes DEF DisconnectReset
<1>4. CASE HandleProgramBreak
  <2>1. CASE UNCHANGED <<paused, released, toLocation, session>>
    BY <1>4, <2>1 DEF AgentTypes, HandleProgramBreak
  <2>2. CASE /\ paused' = TRUE /\ released' = FALSE /\ toLocation' = FALSE
             /\ session' = [session EXCEPT !.reason = FALSE]
    BY <1>4, <2>2 DEF AgentTypes, SessionType, HandleProgramBreak
  <2>. QED BY <1>4, <2>1, <2>2 DEF HandleProgramBreak
<1>5. CASE RunMessageLoop \/ LoopTest \/ UNCHANGED debugger
  BY <1>5 DEF AgentTypes, RunMessageLoop, LoopTest, Crash, debugger
<1>6. CASE DidContinue
  BY <1>6 DEF AgentTypes, SessionType, DidContinue
<1>. QED
  BY <1>1, <1>2, <1>3, <1>4, <1>5, <1>6, AgentMoves

LEMMA ControlStep ==
  ASSUME ControlTypes, Next
  PROVE  ControlTypes'
<1>. USE DEF ControlTypes, Goto, queues
<1>0. /\ \A t \in Thread : t \in Socket \union {Main} \/ t \in {Starter, Js}
      /\ Main \in Thread /\ Starter \in Thread /\ Js \in Thread
      /\ \A s \in Socket : s \in Thread
  BY DEF Thread
<1>1. ASSUME NEW s \in Socket, Connect(s) \/ OnMessage(s) \/ ParkPoll(s) \/ ParkOffer(s) \/ ParkEnd(s)
      PROVE  ControlTypes'
  BY <1>0, <1>1 DEF Connect, OnMessage, ParkPoll, ParkOffer, ParkEnd
<1>2. ASSUME NEW s \in Socket, PostDrain(s) \/ OnClose(s) PROVE ControlTypes'
  <2>1. <<"drain">> \o looper \in Seq({"drain", "disconnect"})
        /\ Append(looper, "disconnect") \in Seq({"drain", "disconnect"})
    OBVIOUS
  <2>. QED BY <1>0, <1>2, <2>1 DEF PostDrain, OnClose
<1>3. ASSUME NEW t \in Socket \union {Main}, DisconnectBegin(t) PROVE ControlTypes'
  <2>1. looper' \in Seq({"drain", "disconnect"})
    <3>1. t = Main => looper # <<>>
      BY <1>3, InspectorAssumption DEF DisconnectBegin, MayDisconnect
    <3>. QED BY <1>3, <3>1, HeadTailProperties DEF DisconnectBegin, DisconnectTask
  <2>. QED BY <1>0, <1>3, <2>1 DEF DisconnectBegin, AfterDisconnect
<1>4. ASSUME NEW t \in Socket \union {Main},
             DisconnectResume(t) \/ DisconnectReset(t) \/ CreateInspectorSession(t)
      PROVE  ControlTypes'
  BY <1>0, <1>4 DEF DisconnectResume, DisconnectReset, CreateInspectorSession, AfterDisconnect, Crash
<1>5. CASE DrainBegin
  BY <1>0, <1>5, HeadTailProperties DEF DrainBegin
<1>6. CASE DrainPoll \/ DrainEnd
  BY <1>0, <1>6 DEF DrainPoll, DrainEnd
<1>7. ASSUME NEW t, DispatchMessage(t) PROVE ControlTypes'
  BY <1>7 DEF DispatchMessage, Crash
<1>8. CASE WaitForDebugger \/ ProcessDebugBreakMessages \/ ProcessDebugBreak
  BY <1>0, <1>8 DEF WaitForDebugger, ProcessDebugBreakMessages, ProcessDebugBreak, Crash
<1>9. CASE InspectorInit \/ Require \/ RunScript \/ HandleProgramBreak \/ ScriptEnd
  BY <1>0, <1>9 DEF InspectorInit, Require, RunScript, HandleProgramBreak, ScriptEnd, Crash
<1>10. CASE NestedLoop
  BY <1>0, <1>10 DEF NestedLoop, RunMessageLoop, LoopTest, GetInspectorMessage, LoopDispatch,
                     DidContinue, Crash
<1>. QED
  BY <1>1, <1>2, <1>3, <1>4, <1>5, <1>6, <1>7, <1>8, <1>9, <1>10
     DEF Next, Park, Disconnect, Drain, Break

(* Types of the queues, of the debugger and of where each thread is.       *)
THEOREM TypeCorrect == Spec => []TypeOK
<1>1. Init => TypeOK
  <2>. SUFFICES ASSUME Init PROVE TypeOK
    OBVIOUS
  <2>1. AgentTypes
    BY SessionTypes DEF Init, AgentTypes
  <2>2. QueueTypes
    BY InspectorAssumption DEF Init, QueueTypes
  <2>3. ControlTypes
    <3>1. looper = <<>> /\ ready = FALSE /\ connection = NoSocket
      BY DEF Init
    <3>2. \A t \in Thread : pc[t] \in {"none", "boot", "idle"}
      BY DEF Init
    <3>3. pc = [t \in Thread |-> pc[t]]
      BY DEF Init
    <3>4. pc \in [Thread -> {"none", "reading", "offered", "parking", "closing",
                            "closed", "idle", "draining", "resuming",
                            "resetting", "reconnecting", "waiting", "breaking", "done", "boot",
                            "running", "pausing", "loop", "taking", "leaving"}]
      BY <3>2, <3>3
    <3>5. process = "alive" /\ client = "none"
      BY DEF Init
    <3>6. looper \in Seq({"drain", "disconnect"})
      BY <3>1
    <3>7. process \in {"alive", "dead"} /\ client \in {"none", "foreign", "js"}
      BY <3>5
    <3>8. connection \in Socket \union {NoSocket} /\ ready \in BOOLEAN
      BY <3>1
    <3>. QED BY <3>4, <3>6, <3>7, <3>8, Zenon DEF ControlTypes
  <2>. QED BY <2>1, <2>2, <2>3, TypeParts
<1>2. TypeOK /\ [Next]_vars => TypeOK'
  <2>1. TypeOK /\ Next => TypeOK'
    <3>1. AgentTypes' /\ QueueTypes' /\ ControlTypes' => TypeOK'
      BY DEF TypeOK, AgentTypes, SessionType, QueueTypes, ControlTypes
    <3>. QED BY <3>1, TypeParts, AgentStep, QueueStep, ControlStep
  <2>2. TypeOK /\ UNCHANGED vars => TypeOK'
    BY DEF TypeOK, vars, debugger, queues
  <2>. QED BY <2>1, <2>2
<1>. QED
  BY <1>1, <1>2, PTL DEF Spec

-----------------------------------------------------------------------------
(* Pauses.                                                                 *)

(* Who moves the JavaScript thread.                                        *)
LEMMA JsMoves ==
  ASSUME ControlTypes, Next
  PROVE  \/ pc'[Js] = pc[Js]
         \/ InspectorInit \/ Require \/ RunScript \/ HandleProgramBreak \/ RunMessageLoop \/ LoopTest
         \/ GetInspectorMessage \/ DidContinue \/ ScriptEnd
<1>. USE DEF ControlTypes, Goto
<1>0. Js \notin Socket \union {Main, Starter} /\ Js \in Thread
  BY InspectorAssumption DEF Thread
<1>1. ASSUME NEW s \in Socket, Connect(s) \/ OnMessage(s) \/ Park(s) \/ OnClose(s)
      PROVE  pc'[Js] = pc[Js]
  BY <1>0, <1>1 DEF Connect, OnMessage, Park, PostDrain, ParkPoll, ParkOffer, ParkEnd, OnClose
<1>2. ASSUME NEW t \in Socket \union {Main}, Disconnect(t) PROVE pc'[Js] = pc[Js]
  BY <1>0, <1>2 DEF Disconnect, DisconnectBegin, DisconnectResume, DisconnectReset, CreateInspectorSession, Crash
<1>3. ASSUME NEW t, DispatchMessage(t) PROVE pc'[Js] = pc[Js]
  BY <1>3 DEF DispatchMessage, Crash
<1>4. CASE DrainBegin \/ DrainPoll \/ DrainEnd
  BY <1>0, <1>4 DEF DrainBegin, DrainPoll, DrainEnd
<1>5. CASE WaitForDebugger \/ ProcessDebugBreakMessages \/ ProcessDebugBreak
  BY <1>0, <1>5 DEF WaitForDebugger, ProcessDebugBreakMessages, ProcessDebugBreak, Crash
<1>6. CASE LoopDispatch
  BY <1>6 DEF LoopDispatch
<1>. QED
  BY <1>1, <1>2, <1>3, <1>4, <1>5, <1>6 DEF Next, Drain, Break, NestedLoop

(* A quit that the loop can see is one for the present pause: terminated_  *)
(* was reset after that pause began, and since then every quit is also a   *)
(* release of it.                                                          *)
LoopInv == pc[Js] \in {"loop", "taking"} /\ terminated => released

LEMMA LoopStep ==
  ASSUME ControlTypes, AgentTypes, LoopInv, Next
  PROVE  LoopInv'
<1>. USE DEF LoopInv
<1>0. Js \in Thread
  BY DEF Thread
<1>1. CASE pc'[Js] = pc[Js]
  <2>1. CASE Tune
    <3>1. ContinueProgram \/ UNCHANGED <<terminated, released>>
      BY <2>1 DEF Tune
    <3>. QED BY <1>1, <3>1 DEF ContinueProgram, AgentTypes
  <2>2. ASSUME NEW n, DisableAgent(n) PROVE LoopInv'
    BY <1>1, <2>2 DEF DisableAgent, ContinueProgram, AgentTypes
  <2>3. ASSUME NEW t \in Socket \union {Main}, DisconnectReset(t) PROVE LoopInv'
    BY <2>2, <2>3 DEF DisconnectReset
  <2>4. CASE HandleProgramBreak
    BY <1>1, <2>4 DEF HandleProgramBreak
  <2>5. CASE RunMessageLoop \/ LoopTest \/ DidContinue \/ UNCHANGED debugger
    BY <1>1, <2>5 DEF RunMessageLoop, LoopTest, DidContinue, Crash, debugger
  <2>. QED BY <2>1, <2>2, <2>3, <2>4, <2>5, AgentMoves
<1>2. CASE InspectorInit \/ Require \/ RunScript \/ HandleProgramBreak \/ DidContinue
           \/ ScriptEnd
  BY <1>0, <1>2 DEF ControlTypes, Goto, InspectorInit, Require, RunScript, HandleProgramBreak,
                    DidContinue, ScriptEnd, Crash, debugger
<1>3. CASE RunMessageLoop \/ LoopTest \/ GetInspectorMessage
  BY <1>0, <1>3 DEF ControlTypes, Goto, RunMessageLoop, LoopTest, GetInspectorMessage, Crash, debugger
<1>. QED
  BY <1>1, <1>2, <1>3, JsMoves

(* A pause ends only when it was told to, whatever other threads do in     *)
(* between (InspectorClient.cpp, lines 86 to 125).                         *)
THEOREM PausesEndWhenReleased == Spec => ContinuesOnlyIfReleased
<1>1. Init => LoopInv
  <2>1. Init => pc[Js] \notin {"loop", "taking"}
    BY DEF Init, Thread
  <2>. QED BY <2>1 DEF LoopInv
<1>2. TypeOK /\ LoopInv /\ [Next]_vars => LoopInv'
  <2>1. LoopInv /\ UNCHANGED vars => LoopInv'
    BY DEF LoopInv, vars, debugger
  <2>. QED BY <2>1, TypeParts, LoopStep
<1>3. TypeOK /\ LoopInv /\ [Next]_vars
        => [pc[Js] = "loop" /\ pc'[Js] = "leaving" => released]_vars
  <2>. SUFFICES ASSUME ControlTypes, LoopInv, Next, pc[Js] = "loop", pc'[Js] = "leaving"
                PROVE  released
    BY TypeParts
  <2>0. Js \in Thread
    BY DEF Thread
  <2>1. CASE LoopTest
    BY <2>0, <2>1 DEF LoopTest, LoopInv, ControlTypes, Goto, Crash
  <2>2. CASE InspectorInit \/ Require \/ RunScript \/ HandleProgramBreak \/ RunMessageLoop
             \/ GetInspectorMessage \/ DidContinue \/ ScriptEnd
    BY <2>0, <2>2 DEF InspectorInit, Require, RunScript, HandleProgramBreak, RunMessageLoop,
                      GetInspectorMessage, DidContinue, ScriptEnd
  <2>. QED BY <2>1, <2>2, JsMoves
<1>. QED
  BY <1>1, <1>2, <1>3, TypeCorrect, PTL DEF Spec, ContinuesOnlyIfReleased

-----------------------------------------------------------------------------
(* Disconnects.                                                            *)

(* A thread that is about to make a session stays so until it has.         *)
LEMMA MakerStays ==
  ASSUME ControlTypes, Next, NEW t \in Socket \union {Main}, pc[t] = "reconnecting"
  PROVE  pc'[t] = "reconnecting" \/ session' = NewSession
<1>. USE DEF ControlTypes, Goto
<1>0. t \in Thread /\ t \notin {Starter, Js}
  BY InspectorAssumption DEF Thread
<1>1. ASSUME NEW s \in Socket, Connect(s) \/ OnMessage(s) \/ Park(s) \/ OnClose(s)
      PROVE  pc'[t] = "reconnecting"
  BY <1>0, <1>1 DEF Connect, OnMessage, Park, PostDrain, ParkPoll, ParkOffer, ParkEnd, OnClose
<1>2. ASSUME NEW u \in Socket \union {Main},
             DisconnectBegin(u) \/ DisconnectResume(u) \/ DisconnectReset(u)
      PROVE  pc'[t] = "reconnecting"
  BY <1>0, <1>2 DEF DisconnectBegin, DisconnectResume, MayDisconnect, DisconnectReset, Crash
<1>3. ASSUME NEW u \in Socket \union {Main}, CreateInspectorSession(u)
      PROVE  session' = NewSession
  BY <1>3 DEF CreateInspectorSession, DisableAgent
<1>4. ASSUME NEW u, DispatchMessage(u) PROVE pc'[t] = "reconnecting"
  BY <1>4 DEF DispatchMessage, Crash
<1>5. CASE DrainBegin \/ DrainPoll \/ DrainEnd
  BY <1>0, <1>5 DEF DrainBegin, DrainPoll, DrainEnd
<1>6. CASE WaitForDebugger \/ ProcessDebugBreakMessages \/ ProcessDebugBreak
  BY <1>0, <1>6 DEF WaitForDebugger, ProcessDebugBreakMessages, ProcessDebugBreak, Crash
<1>7. CASE InspectorInit \/ Require \/ RunScript \/ HandleProgramBreak \/ ScriptEnd
  BY <1>0, <1>7 DEF InspectorInit, Require, RunScript, HandleProgramBreak, ScriptEnd, Crash
<1>8. CASE NestedLoop
  BY <1>0, <1>8 DEF NestedLoop, RunMessageLoop, LoopTest, GetInspectorMessage, LoopDispatch,
                    DidContinue, Crash
<1>. QED
  BY <1>1, <1>2, <1>3, <1>4, <1>5, <1>6, <1>7, <1>8 DEF Next, Disconnect, Drain, Break

(* The client of the JavaScript thread comes with its session.             *)
LEMMA ClientMoves ==
  ASSUME Next
  PROVE  client' \in {client, "foreign"} \/ session' = NewSession
<1>1. ASSUME NEW s \in Socket, Connect(s) \/ OnMessage(s) \/ Park(s) \/ OnClose(s)
      PROVE  client' \in {client, "foreign"}
  BY <1>1 DEF Connect, OnMessage, Park, PostDrain, ParkPoll, ParkOffer, ParkEnd, OnClose
<1>2. ASSUME NEW t \in Socket \union {Main}, Disconnect(t) PROVE client' = client
  BY <1>2 DEF Disconnect, DisconnectBegin, DisconnectResume, DisconnectReset, CreateInspectorSession, Crash
<1>3. ASSUME NEW t, DispatchMessage(t) PROVE client' = client
  BY <1>3 DEF DispatchMessage, Crash
<1>4. CASE DrainBegin \/ DrainPoll \/ DrainEnd
  BY <1>4 DEF DrainBegin, DrainPoll, DrainEnd
<1>5. CASE WaitForDebugger \/ ProcessDebugBreakMessages \/ ProcessDebugBreak
  BY <1>5 DEF WaitForDebugger, ProcessDebugBreakMessages, ProcessDebugBreak, Crash
<1>6. CASE InspectorInit
  BY <1>6 DEF InspectorInit, DisableAgent, Crash
<1>7. CASE Require \/ RunScript \/ HandleProgramBreak \/ ScriptEnd \/ NestedLoop
  BY <1>7 DEF Require, RunScript, HandleProgramBreak, ScriptEnd, NestedLoop, RunMessageLoop, LoopTest,
              GetInspectorMessage, LoopDispatch, DidContinue, Crash
<1>. QED
  BY <1>1, <1>2, <1>3, <1>4, <1>5, <1>6, <1>7 DEF Next, Drain, Break

(* A session is closed only by a thread that then is about to make one.    *)
LEMMA SessionMoves ==
  ASSUME ControlTypes, AgentTypes, Next
  PROVE  \/ session'.open = session.open \/ session'.open
         \/ \E t \in Socket \union {Main} : pc'[t] = "reconnecting"
<1>1. CASE Tune
  BY <1>1 DEF Tune
<1>2. CASE DisableAgent(NewSession)
  BY <1>2, SessionTypes DEF DisableAgent
<1>3. ASSUME NEW t \in Socket \union {Main}, DisconnectReset(t)
      PROVE  pc'[t] = "reconnecting"
  BY <1>3 DEF DisconnectReset, Goto, ControlTypes, Thread
<1>4. CASE HandleProgramBreak \/ DidContinue
  BY <1>4 DEF HandleProgramBreak, DidContinue, AgentTypes, SessionType
<1>5. CASE RunMessageLoop \/ LoopTest \/ UNCHANGED debugger
  BY <1>5 DEF RunMessageLoop, LoopTest, Crash, debugger
<1>. QED
  BY <1>1, <1>2, <1>3, <1>4, <1>5, AgentMoves

(* However disconnects overlap, the debugger has a session or somebody is  *)
(* about to make one (InspectorClient.cpp, lines 58 to 75).                *)
THEOREM SessionComesBack == Spec => []SessionReturns
<1>1. Init => SessionReturns
  BY DEF Init, SessionReturns
<1>2. TypeOK /\ SessionReturns /\ [Next]_vars => SessionReturns'
  <2>1. SessionReturns /\ UNCHANGED vars => SessionReturns'
    BY DEF SessionReturns, vars, debugger
  <2>2. ASSUME ControlTypes, AgentTypes, SessionReturns, Next, client' = "js", ~session'.open
        PROVE  \E t \in Socket \union {Main} : pc'[t] = "reconnecting"
    <3>1. session' # NewSession
      BY <2>2 DEF NewSession
    <3>2. client = "js"
      BY <2>2, <3>1, ClientMoves
    <3>3. CASE session.open
      BY <2>2, <3>3, SessionMoves
    <3>4. CASE ~session.open
      BY <2>2, <3>1, <3>2, <3>4, MakerStays DEF SessionReturns
    <3>. QED BY <3>3, <3>4
  <2>. QED BY <2>1, <2>2, TypeParts DEF SessionReturns
<1>. QED
  BY <1>1, <1>2, TypeCorrect, PTL DEF Spec

-----------------------------------------------------------------------------
(* Messages.                                                               *)

Values(q) == {q[n] : n \in 1..Len(q)}
Injective(q) == \A m, n \in 1..Len(q) : q[m] = q[n] => m = n
Held == {hand[t] : t \in Thread} \ {NoMessage}

(* Where messages are: in places that have none in common, nowhere twice,  *)
(* and no others than those received.                                      *)
MessageInv ==
  /\ Injective(inbox) /\ Injective(parked)
  /\ \A t, u \in Thread : hand[t] = hand[u] /\ hand[t] # NoMessage => t = u
  /\ Values(inbox) \intersect Values(parked) = {}
  /\ (Values(inbox) \union Values(parked)) \intersect (Held \union handled) = {}
  /\ Held \intersect handled = {}
  /\ Values(inbox) \union Values(parked) \union Held \union handled = 1..Len(sent)

LEMMA AppendValues ==
  ASSUME NEW S, NEW q \in Seq(S), NEW v \in S, Injective(q), v \notin Values(q)
  PROVE  Injective(Append(q, v)) /\ Values(Append(q, v)) = Values(q) \union {v}
<1>1. /\ Len(Append(q, v)) = Len(q) + 1 /\ Len(q) \in Nat
      /\ \A n \in 1..Len(q) : Append(q, v)[n] = q[n]
      /\ Append(q, v)[Len(q) + 1] = v
  OBVIOUS
<1>2. 1..(Len(q) + 1) = 1..Len(q) \union {Len(q) + 1} /\ Len(q) + 1 \notin 1..Len(q)
  BY <1>1
<1>3. Values(Append(q, v)) = Values(q) \union {v}
  <2> DEFINE r == Append(q, v)
             len == Len(q) + 1
  <2>1. Len(r) = len /\ r[len] = v /\ (\A n \in 1..Len(q) : r[n] = q[n])
        /\ 1..len = 1..Len(q) \union {len}
    BY <1>1, <1>2
  <2> HIDE DEF r, len
  <2>2. Values(r) = Values(q) \union {v}
    BY <2>1 DEF Values
  <2>. QED BY <2>2 DEF r
<1>4. Injective(Append(q, v))
  BY <1>1, <1>2 DEF Injective, Values
<1>. QED BY <1>3, <1>4

LEMMA TailValues ==
  ASSUME NEW S, NEW q \in Seq(S), q # <<>>, Injective(q)
  PROVE  /\ Injective(Tail(q)) /\ Head(q) \notin Values(Tail(q))
         /\ Values(q) = Values(Tail(q)) \union {Head(q)}
<1>1. /\ Len(q) \in Nat /\ Len(q) >= 1 /\ Len(Tail(q)) = Len(q) - 1 /\ Head(q) = q[1]
      /\ \A n \in 1..(Len(q) - 1) : Tail(q)[n] = q[n + 1]
  BY HeadTailProperties
<1>2. Injective(Tail(q)) /\ Head(q) \notin Values(Tail(q))
  BY <1>1 DEF Injective, Values
<1>3. ASSUME NEW v \in Values(q) PROVE v \in Values(Tail(q)) \union {Head(q)}
  <2>1. PICK n \in 1..Len(q) : v = q[n]
    BY DEF Values
  <2>2. CASE n = 1
    BY <1>1, <2>1, <2>2
  <2>3. CASE n # 1
    <3>1. n - 1 \in 1..(Len(q) - 1) /\ (n - 1) + 1 = n
      BY <1>1, <2>3
    <3>. QED BY <1>1, <2>1, <3>1 DEF Values
  <2>. QED BY <2>2, <2>3
<1>4. ASSUME NEW v \in Values(Tail(q)) \union {Head(q)} PROVE v \in Values(q)
  <2>1. CASE v = Head(q)
    BY <1>1, <2>1 DEF Values
  <2>2. CASE v \in Values(Tail(q))
    <3>1. PICK n \in 1..(Len(q) - 1) : v = q[n + 1]
      BY <1>1, <2>2 DEF Values
    <3>2. n + 1 \in 1..Len(q)
      BY <1>1
    <3>. QED BY <3>1, <3>2 DEF Values
  <2>. QED BY <2>1, <2>2
<1>. QED BY <1>2, <1>3, <1>4

OneHolder == \A t, u \in Thread : hand[t] = hand[u] /\ hand[t] # NoMessage => t = u

LEMMA TakeInHand ==
  ASSUME QueueTypes, OneHolder, NEW t \in Thread, hand[t] = NoMessage,
         NEW v \in Id, v \notin Held, hand' = [hand EXCEPT ![t] = v]
  PROVE  OneHolder' /\ Held' = Held \union {v}
<1>1. v # NoMessage
  BY DEF Id, NoMessage
<1>2. hand'[t] = v /\ \A u \in Thread : u # t => hand'[u] = hand[u]
  BY DEF QueueTypes
<1>3. OneHolder'
  BY <1>1, <1>2 DEF OneHolder, Held
<1>4. Held' = Held \union {v}
  BY <1>1, <1>2 DEF Held
<1>. QED BY <1>3, <1>4

LEMMA PassOn ==
  ASSUME QueueTypes, OneHolder, NEW t \in Thread, hand[t] # NoMessage,
         hand' = [hand EXCEPT ![t] = NoMessage]
  PROVE  OneHolder' /\ Held' = Held \ {hand[t]} /\ hand[t] \in Held
<1>1. hand'[t] = NoMessage /\ \A u \in Thread : u # t => hand'[u] = hand[u]
  BY DEF QueueTypes
<1>2. OneHolder'
  BY <1>1 DEF OneHolder
<1>3. Held' = Held \ {hand[t]} /\ hand[t] \in Held
  BY <1>1 DEF OneHolder, Held
<1>. QED BY <1>2, <1>3

LEMMA MessageStep ==
  ASSUME QueueTypes, MessageInv, Next
  PROVE  MessageInv'
<1>0. OneHolder /\ Injective(inbox) /\ Injective(parked)
  BY DEF MessageInv, OneHolder
<1>a. inbox \in Seq(Id) /\ parked \in Seq(Id) /\ Len(sent) \in Nat
  BY DEF QueueTypes
<1>1. ASSUME NEW s \in Socket, OnMessage(s) PROVE MessageInv'
  <2>1. PICK k \in Kind : sent' = Append(sent, k)
    BY <1>1 DEF OnMessage
  <2>2. Len(sent') = Len(sent) + 1 /\ Len(sent) < MaxMessages /\ inbox' = Append(inbox, Len(sent'))
        /\ UNCHANGED <<hand, parked, handled>>
    BY <1>1, <2>1 DEF QueueTypes, OnMessage
  <2>3. Len(sent') \in Id /\ Len(sent') \notin 1..Len(sent)
        /\ 1..Len(sent') = 1..Len(sent) \union {Len(sent')}
    BY <1>a, <2>2, InspectorAssumption DEF Id
  <2>4. Len(sent') \notin Values(inbox) \union Values(parked) \union Held \union handled
    BY <2>3 DEF MessageInv
  <2>5. Injective(inbox') /\ Values(inbox') = Values(inbox) \union {Len(sent')}
    BY <1>0, <1>a, <2>2, <2>3, <2>4, AppendValues
  <2>6. Held' = Held /\ OneHolder' /\ parked' = parked /\ handled' = handled
    BY <1>0, <2>2 DEF Held, OneHolder
  <2>. QED BY <2>3, <2>4, <2>5, <2>6 DEF MessageInv, OneHolder
<1>2. ASSUME NEW t \in Thread, Take(t) PROVE MessageInv'
  <2>1. inbox # <<>> /\ hand[t] = NoMessage /\ inbox' = Tail(inbox)
        /\ hand' = [hand EXCEPT ![t] = Head(inbox)] /\ UNCHANGED <<sent, parked, handled>>
    BY <1>2 DEF Take, Poll
  <2>2. /\ Injective(inbox') /\ Head(inbox) \notin Values(inbox')
        /\ Values(inbox) = Values(inbox') \union {Head(inbox)}
    BY <1>0, <1>a, <2>1, TailValues
  <2>3. Head(inbox) \in Id /\ Head(inbox) \notin Held
    BY <1>a, <2>1, <2>2, HeadTailProperties DEF MessageInv
  <2>4. OneHolder' /\ Held' = Held \union {Head(inbox)}
    BY <1>0, <2>1, <2>3, TakeInHand
  <2>. QED BY <1>0, <2>1, <2>2, <2>4 DEF MessageInv, OneHolder
<1>3. ASSUME NEW s \in Socket, ParkOffer(s) PROVE MessageInv'
  <2>1. /\ s \in Thread /\ hand[s] # NoMessage /\ hand[s] \in Id
        /\ parked' = Append(parked, hand[s]) /\ hand' = [hand EXCEPT ![s] = NoMessage]
        /\ UNCHANGED <<sent, inbox, handled>>
    BY <1>3 DEF ParkOffer, Thread, QueueTypes
  <2>2. OneHolder' /\ Held' = Held \ {hand[s]} /\ hand[s] \in Held
    BY <1>0, <2>1, PassOn
  <2>3. hand[s] \notin Values(parked)
    BY <2>2 DEF MessageInv
  <2>4. Injective(parked') /\ Values(parked') = Values(parked) \union {hand[s]}
    BY <1>0, <1>a, <2>1, <2>3, AppendValues
  <2>. QED BY <1>0, <2>1, <2>2, <2>4 DEF MessageInv, OneHolder
<1>4. CASE ProcessDebugBreakMessages
  <2>1. /\ Starter \in Thread /\ hand[Starter] = NoMessage /\ parked # <<>>
        /\ parked' = Tail(parked) /\ hand' = [hand EXCEPT ![Starter] = Head(parked)]
        /\ UNCHANGED <<sent, inbox, handled>>
    BY <1>4 DEF ProcessDebugBreakMessages, Thread
  <2>2. /\ Injective(parked') /\ Head(parked) \notin Values(parked')
        /\ Values(parked) = Values(parked') \union {Head(parked)}
    BY <1>0, <1>a, <2>1, TailValues
  <2>3. Head(parked) \in Id /\ Head(parked) \notin Held
    BY <1>a, <2>1, <2>2, HeadTailProperties DEF MessageInv
  <2>4. OneHolder' /\ Held' = Held \union {Head(parked)}
    BY <1>0, <2>1, <2>3, TakeInHand
  <2>. QED BY <1>0, <2>1, <2>2, <2>4 DEF MessageInv, OneHolder
<1>5. ASSUME NEW t \in Thread, Handle(t) PROVE MessageInv'
  <2>1. /\ hand[t] # NoMessage /\ hand' = [hand EXCEPT ![t] = NoMessage]
        /\ handled' = handled \union {hand[t]} /\ UNCHANGED <<sent, inbox, parked>>
    BY <1>5 DEF Handle
  <2>2. OneHolder' /\ Held' = Held \ {hand[t]} /\ hand[t] \in Held
    BY <1>0, <2>1, PassOn
  <2>. QED BY <1>0, <2>1, <2>2 DEF MessageInv, OneHolder
<1>6. CASE UNCHANGED messages
  BY <1>6 DEF MessageInv, Held, messages
<1>. QED
  BY <1>1, <1>2, <1>3, <1>4, <1>5, <1>6, MessageMoves

(* What Count says of a place where no message is twice.                   *)
LEMMA CountIsOne ==
  ASSUME NEW D, NEW f, NEW i,
         \A m, n \in D : f[m] = i /\ f[n] = i => m = n
  PROVE  Cardinality({n \in D : f[n] = i}) = IF \E n \in D : f[n] = i THEN 1 ELSE 0
<1>1. CASE \E n \in D : f[n] = i
  <2>1. PICK n \in D : f[n] = i
    BY <1>1
  <2>2. {m \in D : f[m] = i} = {n}
    BY <2>1
  <2>. QED BY <1>1, <2>2, FS_Singleton
<1>2. CASE ~\E n \in D : f[n] = i
  <2>1. {n \in D : f[n] = i} = {}
    BY <1>2
  <2>. QED BY <1>2, <2>1, FS_EmptySet
<1>. QED BY <1>1, <1>2

LEMMA Accounted ==
  ASSUME QueueTypes, MessageInv
  PROVE  MessageAccounted
<1>. SUFFICES ASSUME NEW i \in 1..Len(sent)
              PROVE  Count(i, inbox) + Count(i, parked) + Count(i, hand)
                       + (IF i \in handled THEN 1 ELSE 0) = 1
  BY DEF MessageAccounted
<1>0. DOMAIN inbox = 1..Len(inbox) /\ DOMAIN parked = 1..Len(parked) /\ DOMAIN hand = Thread
      /\ i # NoMessage
  BY DEF QueueTypes, NoMessage
<1>1. Count(i, inbox) = IF i \in Values(inbox) THEN 1 ELSE 0
  <2>1. \A m, n \in DOMAIN inbox : inbox[m] = i /\ inbox[n] = i => m = n
    BY <1>0 DEF MessageInv, Injective
  <2>2. Cardinality({n \in DOMAIN inbox : inbox[n] = i})
          = IF \E n \in DOMAIN inbox : inbox[n] = i THEN 1 ELSE 0
    BY <2>1, CountIsOne, Zenon
  <2>3. (\E n \in DOMAIN inbox : inbox[n] = i) <=> i \in Values(inbox)
    BY <1>0 DEF Values
  <2>. QED BY <2>2, <2>3 DEF Count
<1>2. Count(i, parked) = IF i \in Values(parked) THEN 1 ELSE 0
  <2>1. \A m, n \in DOMAIN parked : parked[m] = i /\ parked[n] = i => m = n
    BY <1>0 DEF MessageInv, Injective
  <2>2. Cardinality({n \in DOMAIN parked : parked[n] = i})
          = IF \E n \in DOMAIN parked : parked[n] = i THEN 1 ELSE 0
    BY <2>1, CountIsOne, Zenon
  <2>3. (\E n \in DOMAIN parked : parked[n] = i) <=> i \in Values(parked)
    BY <1>0 DEF Values
  <2>. QED BY <2>2, <2>3 DEF Count
<1>3. Count(i, hand) = IF i \in Held THEN 1 ELSE 0
  <2>1. \A t, u \in DOMAIN hand : hand[t] = i /\ hand[u] = i => t = u
    BY <1>0 DEF MessageInv
  <2>2. Cardinality({n \in DOMAIN hand : hand[n] = i})
          = IF \E n \in DOMAIN hand : hand[n] = i THEN 1 ELSE 0
    BY <2>1, CountIsOne, Zenon
  <2>3. (\E n \in DOMAIN hand : hand[n] = i) <=> i \in Held
    BY <1>0 DEF Held
  <2>. QED BY <2>2, <2>3 DEF Count
<1>. QED
  BY <1>1, <1>2, <1>3 DEF MessageInv

LEMMA InitMessages == Init => MessageInv
<1>. SUFFICES ASSUME Init PROVE MessageInv
  OBVIOUS
<1>1. Len(sent) = 0 /\ Len(inbox) = 0 /\ Len(parked) = 0 /\ handled = {} /\ Held = {}
  BY DEF Init, Held
<1>2. \A t \in Thread : hand[t] = NoMessage
  BY DEF Init
<1>. QED BY <1>1, <1>2 DEF MessageInv, Values, Injective

(* A message received is queued once, parked once, held by one thread or   *)
(* handled, and never two of these (V8Inspector.java, lines 98 to 240).    *)
THEOREM EveryMessageHasItsPlace == Spec => []MessageAccounted
<1>1. Init => MessageInv
  BY InitMessages
<1>2. TypeOK /\ MessageInv /\ [Next]_vars => MessageInv'
  <2>1. MessageInv /\ UNCHANGED vars => MessageInv'
    BY DEF MessageInv, Held, vars, queues
  <2>. QED BY <2>1, TypeParts, MessageStep
<1>3. TypeOK /\ MessageInv => MessageAccounted
  BY TypeParts, Accounted
<1>. QED
  BY <1>1, <1>2, <1>3, TypeCorrect, PTL DEF Spec

-----------------------------------------------------------------------------
(* What a front end sees.                                                  *)

(* paused is the place of the JavaScript thread, a loop that was left had  *)
(* been released, only a session that is open has an enabled agent, and    *)
(* only an enabled agent has noted a reason.                               *)
PauseInv ==
  /\ session.enabled => session.open
  /\ session.reason => session.enabled
  /\ paused <=> pc[Js] \in {"pausing", "loop", "taking", "leaving"}
  /\ pc[Js] = "leaving" => released

LEMMA PauseStep ==
  ASSUME ControlTypes, AgentTypes, LoopInv, PauseInv, Next
  PROVE  PauseInv'
<1>. USE DEF PauseInv
<1>0. Js \in Thread
  BY DEF Thread
<1>1. CASE pc'[Js] = pc[Js]
  <2>1. CASE Tune
    BY <1>1, <2>1 DEF Tune, ContinueProgram, AgentTypes
  <2>2. ASSUME NEW n \in {NewSession, NoSession}, DisableAgent(n) PROVE PauseInv'
    BY <1>1, <2>2, SessionTypes DEF DisableAgent, ContinueProgram, AgentTypes
  <2>3. ASSUME NEW t \in Socket \union {Main}, DisconnectReset(t) PROVE PauseInv'
    BY <2>2, <2>3 DEF DisconnectReset
  <2>4. CASE HandleProgramBreak \/ DidContinue
    BY <1>0, <1>1, <2>4 DEF HandleProgramBreak, DidContinue, Goto, ControlTypes, AgentTypes,
                            SessionType
  <2>5. CASE RunMessageLoop \/ LoopTest \/ UNCHANGED debugger
    BY <1>1, <2>5 DEF RunMessageLoop, LoopTest, Crash, debugger
  <2>. QED BY <2>1, <2>2, <2>3, <2>4, <2>5, AgentMoves
<1>2. CASE InspectorInit
  <2>1. CASE Crash
    BY <2>1 DEF Crash, debugger
  <2>2. CASE DisableAgent(NewSession) /\ Goto(Js, "idle") /\ pc[Js] = "boot"
    BY <1>0, <2>2, SessionTypes DEF ControlTypes, Goto, DisableAgent, ContinueProgram
  <2>. QED BY <1>2, <2>1, <2>2 DEF InspectorInit
<1>3. CASE Require \/ RunScript
  <2>1. CASE UNCHANGED <<debugger, pc>>
    BY <2>1 DEF debugger
  <2>2. CASE Tune /\ released' = released /\ pc[Js] = "idle" /\ pc'[Js] = "running"
    BY <2>2 DEF Tune
  <2>3. Require => (UNCHANGED <<debugger, pc>>) \/ (SchedulePause /\ Goto(Js, "running") /\ pc[Js] = "idle")
    BY DEF Require, Crash
  <2>4. SchedulePause => released' = released
    BY DEF SchedulePause
  <2>5. CASE RunScript
    BY <1>0, <2>5 DEF RunScript, Goto, ControlTypes, debugger
  <2>. QED BY <1>0, <1>3, <2>1, <2>2, <2>3, <2>4, <2>5, NoteTunes DEF Goto, ControlTypes
<1>4. CASE HandleProgramBreak \/ DidContinue
  BY <1>0, <1>4 DEF ControlTypes, AgentTypes, SessionType, Goto, HandleProgramBreak, DidContinue
<1>5. CASE ScriptEnd \/ RunMessageLoop \/ LoopTest \/ GetInspectorMessage
  BY <1>0, <1>5 DEF ControlTypes, Goto, LoopInv, ScriptEnd, RunMessageLoop, LoopTest,
                    GetInspectorMessage, Crash, debugger
<1>. QED
  BY <1>1, <1>2, <1>3, <1>4, <1>5, JsMoves

LEMMA PauseInvariant == Spec => [](TypeOK /\ LoopInv /\ PauseInv)
<1>1. Init => LoopInv /\ PauseInv
  <2>1. Js \in Thread /\ Js \notin Socket
    BY InspectorAssumption DEF Thread
  <2>. QED BY <2>1, SessionTypes DEF Init, LoopInv, PauseInv
<1>2. TypeOK /\ LoopInv /\ PauseInv /\ [Next]_vars => LoopInv' /\ PauseInv'
  <2>1. CASE UNCHANGED vars
    BY <2>1 DEF LoopInv, PauseInv, vars, debugger
  <2>2. CASE Next
    BY <2>2, TypeParts, LoopStep, PauseStep
  <2>. QED BY <2>1, <2>2
<1>. QED
  BY <1>1, <1>2, TypeCorrect, PTL DEF Spec

(* A noted reason loses its interrupt only in a break that was refused:    *)
(* while all pauses are skipped, or at the breakpoint of a                 *)
(* continueToLocation (v8-debugger-agent-impl.cc, lines 465 to 482 and 795 *)
(* to 1000, v8-debugger.cc, lines 251 to 263 and 415 to 480).              *)
THEOREM OnlyRefusedBreaksLosePauses == Spec => PausesAreLostOnlyIfRefused
<1>1. TypeOK /\ PauseInv /\ [Next]_vars
        => [~PauseLost /\ PauseLost' =>
              pc[Js] = "running" /\ ~paused' /\ (session.skip \/ toLocation)]_vars
  <2>. SUFFICES ASSUME AgentTypes, PauseInv, Next, ~PauseLost, PauseLost'
                PROVE  pc[Js] = "running" /\ ~paused' /\ (session.skip \/ toLocation)
    BY TypeParts
  <2>1. ~Tune
    BY DEF Tune
  <2>2. ASSUME NEW n \in {NewSession, NoSession}, DisableAgent(n) PROVE FALSE
    BY <2>2, SessionTypes DEF DisableAgent, PauseLost
  <2>3. ASSUME NEW t \in Socket \union {Main}, DisconnectReset(t) PROVE FALSE
    BY <2>2, <2>3 DEF DisconnectReset
  <2>4. CASE HandleProgramBreak
    <3>1. session'.reason => session' = session
      BY <2>4 DEF HandleProgramBreak, AgentTypes, SessionType
    <3>2. session' = session /\ session.reason /\ session.enabled /\ pc[Js] = "running" /\ ~paused
      BY <2>4, <3>1 DEF PauseLost, PauseInv, HandleProgramBreak
    <3>3. PICK isOOMBreak, otherFrame \in BOOLEAN :
            IF AcceptsPause(isOOMBreak) /\ ~(toLocation /\ otherFrame)
              THEN session' = [session EXCEPT !.reason = FALSE]
              ELSE paused' = paused
      BY <2>4 DEF HandleProgramBreak
    <3>4. ~(AcceptsPause(isOOMBreak) /\ ~(toLocation /\ otherFrame))
      BY <3>2, <3>3 DEF AgentTypes, SessionType
    <3>. QED BY <3>2, <3>3, <3>4 DEF AcceptsPause
  <2>5. CASE RunMessageLoop \/ LoopTest \/ UNCHANGED debugger
    BY <2>5 DEF RunMessageLoop, LoopTest, Crash, debugger, PauseLost
  <2>6. CASE DidContinue
    BY <2>6 DEF DidContinue, PauseLost, PauseInv, AgentTypes, SessionType
  <2>. QED BY <2>1, <2>2, <2>3, <2>4, <2>5, <2>6, AgentMoves
<1>. QED
  BY <1>1, PauseInvariant, PTL DEF Spec, PausesAreLostOnlyIfRefused

(* What hides behind the view of a front end.                              *)
LEMMA Unseen ==
  ASSUME UNCHANGED <<process, sent, handled, session, paused, released>>,
         paused \/ pc'[Js] = pc[Js]
  PROVE  UNCHANGED Target!vars
  BY DEF Target!vars, Alive, Agent, Script, InScript

LEMMA CrashIsSeen == Alive /\ Crash => Target!Next
<1>. SUFFICES ASSUME Alive, Crash PROVE Target!Die
  BY DEF Target!Next
<1>. QED
  BY DEF Crash, Target!Die, Alive, Agent, Script, InScript, debugger, queues

(* The parts of a step that touch the agent.                               *)
LEMMA NoteView ==
  ASSUME AgentTypes, Pause \/ SchedulePause
  PROVE  UNCHANGED <<Agent, paused, released>>
<1>. USE DEF AgentTypes, SessionType
<1>1. UNCHANGED <<paused, released>>
  BY DEF Pause, SchedulePause
<1>2. session'.open = session.open /\ session'.enabled = session.enabled
  BY DEF Pause, SchedulePause, NoteReason
<1>. QED BY <1>1, <1>2 DEF Agent

LEMMA ContinueView == ContinueProgram => Target!Release
  BY DEF ContinueProgram, Target!Release, Script

LEMMA BecomeView ==
  ASSUME AgentTypes, PauseInv, NEW n \in {NewSession, NoSession}, DisableAgent(n)
  PROVE  Target!Become(IF n = NewSession THEN "off" ELSE "gone") /\ UNCHANGED paused
<1>1. Agent' = IF n = NewSession THEN "off" ELSE "gone"
  BY SessionTypes DEF DisableAgent, Agent
<1>2. Agent = "on" <=> session.enabled
  BY DEF Agent, PauseInv
<1>3. Script = "paused" <=> paused
  BY DEF Script
<1>4. released' = (released \/ (session.enabled /\ paused)) /\ UNCHANGED paused
  BY DEF AgentTypes, DisableAgent, ContinueProgram
<1>. QED
  BY <1>1, <1>2, <1>3, <1>4 DEF Target!Become

LEMMA EffectView ==
  ASSUME AgentTypes, PauseInv, NEW k, DoDispatchMessage(k)
  PROVE  Target!Effect(k) /\ UNCHANGED paused
<1>0. Agent = "gone" <=> ~session.open
  BY DEF Agent
<1>1. CASE ~session.open
  BY <1>0, <1>1 DEF DoDispatchMessage, debugger, Target!Effect, Agent
<1>2. CASE session.open
  <2>1. CASE k = "enable" /\ Enable
    <3>1. session'.open /\ session'.enabled
      BY <1>2, <2>1 DEF Enable, AgentTypes, SessionType
    <3>2. Agent' = "on" /\ UNCHANGED <<released, paused>>
      BY <2>1, <3>1 DEF Agent, Enable
    <3>. QED BY <1>0, <1>2, <2>1, <3>2 DEF Target!Effect
  <2>2. CASE k = "disable" /\ session.enabled /\ DisableAgent(NewSession)
    BY <1>0, <1>2, <2>2, BecomeView DEF Target!Effect
  <2>3. CASE k = "disable" /\ ~session.enabled /\ UNCHANGED debugger
    <3>1. Agent = "off" /\ Agent' = "off" /\ UNCHANGED <<released, paused>>
      BY <1>2, <2>3 DEF Agent, debugger
    <3>2. Target!Become("off")
      BY <2>3, <3>1 DEF Target!Become, AgentTypes, debugger
    <3>. QED BY <1>0, <1>2, <2>3, <3>1, <3>2 DEF Target!Effect
  <2>4. CASE k = "pause" /\ Pause
    BY <1>0, <1>2, <2>4, NoteView DEF Target!Effect
  <2>5. CASE k \in {"resume", "continueTo"} /\ ContinueProgram /\ UNCHANGED <<session, paused>>
    <3>1. UNCHANGED Agent
      BY <2>5 DEF Agent
    <3>. QED BY <1>0, <1>2, <2>5, <3>1, ContinueView DEF Target!Effect
  <2>6. CASE /\ k \in {"continueTo", "skip", "unskip", "activate", "deactivate"}
             /\ session'.open = session.open /\ session'.enabled = session.enabled
             /\ UNCHANGED <<paused, released>>
    <3>1. UNCHANGED Agent
      BY <2>6 DEF Agent
    <3>. QED BY <1>0, <1>2, <2>6, <3>1 DEF Target!Effect
  <2>7. CASE k = "continueTo" /\ UNCHANGED <<session, paused, released>>
    BY <2>6, <2>7
  <2>8. CASE /\ k \in {"skip", "unskip"} /\ session' = [session EXCEPT !.skip = (k = "skip")]
             /\ UNCHANGED <<paused, released>>
    BY <2>6, <2>8 DEF AgentTypes, SessionType
  <2>9. CASE k \in {"activate", "deactivate"} /\ SetBreakpointsActive(k = "activate")
    <3>1. session'.open = session.open /\ session'.enabled = session.enabled
          /\ UNCHANGED <<paused, released>>
      BY <2>9 DEF SetBreakpointsActive, AgentTypes, SessionType
    <3>. QED BY <2>6, <2>9, <3>1
  <2>. QED
    BY <1>2, <2>1, <2>2, <2>3, <2>4, <2>5, <2>7, <2>8, <2>9 DEF DoDispatchMessage
<1>. QED BY <1>1, <1>2

(* A message that a thread holds was sent and is not yet handled.          *)
LEMMA HandleView ==
  ASSUME AgentTypes, PauseInv, MessageInv, Alive, InScript,
         NEW t \in Thread, hand[t] # NoMessage, DoDispatchMessage(sent[hand[t]]),
         handled' = handled \union {hand[t]}, UNCHANGED <<process, pc, sent>>
  PROVE  Target!Next
<1>1. hand[t] \in (1..Len(sent)) \ handled
  BY DEF MessageInv, Held
<1>2. Target!Effect(sent[hand[t]]) /\ UNCHANGED paused
  BY EffectView
<1>3. Script # "idle"
  BY DEF Script
<1>4. UNCHANGED <<Alive, sent, Script>>
  BY <1>2 DEF Alive, Script, InScript
<1>5. Target!Handle
  BY <1>1, <1>2, <1>3, <1>4 DEF Target!Handle
<1>. QED BY <1>5 DEF Target!Next

LEMMA ReplaceView ==
  ASSUME AgentTypes, PauseInv, Alive, NEW n \in {NewSession, NoSession}, DisableAgent(n),
         UNCHANGED <<process, sent, handled>>, pc'[Js] = pc[Js]
  PROVE  Target!Next
<1>1. Target!Become(IF n = NewSession THEN "off" ELSE "gone") /\ UNCHANGED paused
  BY BecomeView
<1>2. UNCHANGED <<Alive, sent, handled, Script>>
  BY <1>1 DEF Alive, Script, InScript
<1>3. Target!Replace
  BY <1>1, <1>2 DEF Target!Replace
<1>. QED BY <1>3 DEF Target!Next

(* Server threads and disconnects.                                         *)
LEMMA SocketView ==
  ASSUME ControlTypes, NEW s \in Socket, Connect(s) \/ OnMessage(s) \/ Park(s) \/ OnClose(s)
  PROVE  [Target!Next]_Target!vars
<1>0. Js # s /\ Js \in Thread
  BY InspectorAssumption DEF Thread
<1>1. CASE OnMessage(s)
  <2>1. UNCHANGED <<Alive, handled, Agent, Script, released>>
    BY <1>0, <1>1 DEF OnMessage, Goto, ControlTypes, Alive, Agent, Script, InScript, debugger
  <2>2. Target!Receive
    BY <1>1, <2>1 DEF OnMessage, Target!Receive
  <2>. QED BY <1>1, <2>2 DEF OnMessage, Target!Next
<1>2. CASE Connect(s) \/ Park(s) \/ OnClose(s)
  <2>1. UNCHANGED <<process, sent, handled, session, paused, released>>
    BY <1>2 DEF Connect, Park, PostDrain, ParkPoll, ParkOffer, ParkEnd, OnClose, debugger, queues
  <2>2. pc'[Js] = pc[Js]
    BY <1>0, <1>2 DEF ControlTypes, Goto, Connect, Park, PostDrain, ParkPoll, ParkOffer,
                      ParkEnd, OnClose
  <2>. QED BY <2>1, <2>2, Unseen
<1>. QED BY <1>1, <1>2

LEMMA DisconnectView ==
  ASSUME ControlTypes, AgentTypes, PauseInv, NEW t \in Socket \union {Main}, Disconnect(t)
  PROVE  [Target!Next]_Target!vars
<1>0. Js # t /\ Js \in Thread /\ t \in Thread
  BY InspectorAssumption DEF Thread
<1>1. CASE DisconnectResume(t)
  <2>1. CASE Crash
    BY <1>1, <2>1, CrashIsSeen DEF DisconnectResume
  <2>2. CASE /\ ContinueProgram /\ Goto(t, "resetting")
             /\ UNCHANGED <<process, session, paused, sent, handled>>
    <3>1. UNCHANGED <<Alive, sent, handled, Agent, Script>>
      BY <1>0, <2>2 DEF Alive, Agent, Script, InScript, Goto, ControlTypes
    <3>2. Target!Leave
      BY <2>2, <3>1, ContinueView DEF Target!Leave
    <3>. QED BY <1>1, <3>2 DEF DisconnectResume, Target!Next
  <2>. QED BY <1>1, <2>1, <2>2 DEF DisconnectResume, queues
<1>3. CASE DisconnectBegin(t)
  <2>1. UNCHANGED <<process, sent, handled, session, paused, released>>
    BY <1>3 DEF DisconnectBegin, debugger
  <2>2. pc'[Js] = pc[Js]
    BY <1>0, <1>3 DEF DisconnectBegin, Goto, ControlTypes
  <2>. QED BY <2>1, <2>2, Unseen
<1>2. CASE DisconnectReset(t) \/ CreateInspectorSession(t)
  <2>1. /\ Alive /\ UNCHANGED <<process, sent, handled>>
        /\ DisableAgent(NoSession) \/ DisableAgent(NewSession)
    BY <1>2 DEF DisconnectReset, CreateInspectorSession, queues
  <2>2. pc'[Js] = pc[Js]
    BY <1>0, <1>2 DEF ControlTypes, Goto, DisconnectReset, CreateInspectorSession
  <2>. QED BY <2>1, <2>2, ReplaceView
<1>. QED BY <1>1, <1>2, <1>3 DEF Disconnect

(* The main thread and the starter.                                        *)
LEMMA HelperView ==
  ASSUME ControlTypes, AgentTypes, PauseInv, MessageInv,
         Drain \/ WaitForDebugger \/ Break
  PROVE  [Target!Next]_Target!vars
<1>0. Js \notin {Main, Starter} /\ Js \in Thread /\ Main \in Thread /\ Starter \in Thread
  BY InspectorAssumption DEF Thread
<1>1. ASSUME NEW t \in {Main, Starter}, DispatchMessage(t) PROVE Target!Next
  <2>1. CASE Crash
    BY <1>1, <2>1, CrashIsSeen DEF DispatchMessage
  <2>2. CASE /\ InScript
             /\ DoDispatchMessage(sent[hand[t]])
             /\ handled' = handled \union {hand[t]}
             /\ UNCHANGED <<process, pc, sent>>
    BY <1>0, <1>1, <2>2, HandleView DEF DispatchMessage
  <2>. QED BY <1>1, <2>1, <2>2 DEF DispatchMessage, queues
<1>2. CASE DrainBegin \/ DrainPoll \/ DrainEnd \/ WaitForDebugger \/ ProcessDebugBreakMessages
  <2>1. UNCHANGED <<process, sent, handled, session, paused, released>>
    BY <1>2 DEF DrainBegin, DrainPoll, DrainEnd, WaitForDebugger, ProcessDebugBreakMessages,
                debugger, queues
  <2>2. pc'[Js] = pc[Js]
    BY <1>0, <1>2 DEF ControlTypes, Goto, DrainBegin, DrainPoll, DrainEnd, WaitForDebugger,
                      ProcessDebugBreakMessages
  <2>. QED BY <2>1, <2>2, Unseen
<1>3. CASE ProcessDebugBreak
  <2>1. CASE Crash
    BY <1>3, <2>1, CrashIsSeen DEF ProcessDebugBreak
  <2>2. CASE SchedulePause /\ Goto(Starter, "done") /\ UNCHANGED <<process, sent, handled>>
    <3>1. UNCHANGED <<Agent, paused, released>>
      BY <2>2, NoteView
    <3>2. pc'[Js] = pc[Js]
      BY <1>0, <2>2 DEF Goto, ControlTypes
    <3>3. UNCHANGED <<Alive, sent, handled, Script>>
      BY <2>2, <3>1, <3>2 DEF Alive, Script, InScript
    <3>. QED BY <3>1, <3>3 DEF Target!vars
  <2>. QED BY <1>3, <2>1, <2>2 DEF ProcessDebugBreak, queues
<1>. QED BY <1>1, <1>2, <1>3 DEF Drain, Break

(* The JavaScript thread outside of its nested loop.                       *)
LEMMA ScriptView ==
  ASSUME ControlTypes, AgentTypes, PauseInv,
         InspectorInit \/ Require \/ RunScript \/ HandleProgramBreak \/ ScriptEnd
  PROVE  [Target!Next]_Target!vars
<1>0. Js \in Thread
  BY DEF Thread
<1>1. CASE Crash
  BY <1>1, CrashIsSeen DEF InspectorInit, Require, RunScript, HandleProgramBreak, ScriptEnd
<1>2. CASE InspectorInit /\ ~Crash
  <2>1. /\ Alive /\ DisableAgent(NewSession) /\ pc[Js] = "boot" /\ pc' = [pc EXCEPT ![Js] = "idle"]
        /\ UNCHANGED <<process, sent, handled>>
    BY <1>2 DEF InspectorInit, Goto, queues
  <2>2. Target!Become("off") /\ UNCHANGED paused
    BY <2>1, BecomeView
  <2>3. UNCHANGED <<Alive, sent, handled, Script>>
    BY <1>0, <2>1, <2>2 DEF Alive, Script, InScript, ControlTypes
  <2>4. Target!Replace
    BY <2>2, <2>3 DEF Target!Replace
  <2>. QED BY <2>1, <2>4 DEF Target!Next
<1>3. CASE (Require \/ RunScript) /\ ~Crash
  <2>1. /\ Alive /\ (SchedulePause \/ UNCHANGED debugger)
        /\ pc[Js] = "idle" /\ pc' = [pc EXCEPT ![Js] = "running"]
        /\ UNCHANGED <<process, sent, handled>>
    BY <1>3 DEF Require, RunScript, Goto, queues
  <2>2. UNCHANGED <<Agent, paused, released>>
    BY <2>1, NoteView DEF Agent, debugger
  <2>3. ~paused
    BY <2>1 DEF PauseInv
  <2>4. UNCHANGED <<Alive, sent, handled>> /\ Script = "idle" /\ Script' = "running"
    BY <1>0, <2>1, <2>2, <2>3 DEF Alive, Script, InScript, ControlTypes
  <2>5. Target!Begin
    BY <2>2, <2>4 DEF Target!Begin
  <2>. QED BY <2>1, <2>5 DEF Target!Next
<1>4. CASE HandleProgramBreak
  <2>1. /\ Alive /\ pc[Js] = "running"
        /\ UNCHANGED <<process, sent, handled>>
        /\ session'.open = session.open /\ session'.enabled = session.enabled
    BY <1>4 DEF HandleProgramBreak, AgentTypes, SessionType, queues
  <2>2. ~paused /\ Script = "running" /\ UNCHANGED <<Alive, Agent>>
    BY <2>1 DEF PauseInv, Script, InScript, Alive, Agent
  <2>3. CASE session.enabled /\ paused' = TRUE /\ released' = FALSE
    <3>1. Agent = "on" /\ Script' = "paused" /\ released' = FALSE
      BY <2>3 DEF PauseInv, Agent, Script
    <3>2. Target!Break
      BY <2>1, <2>2, <3>1 DEF Target!Break
    <3>. QED BY <2>1, <3>2 DEF Target!Next
  <2>4. CASE UNCHANGED <<paused, released, session, pc>>
    BY <2>1, <2>4, Unseen
  <2>. QED BY <1>4, <2>3, <2>4 DEF HandleProgramBreak, AcceptsPause
<1>5. CASE ScriptEnd
  <2>1. /\ Alive /\ pc[Js] = "running" /\ pc' = [pc EXCEPT ![Js] = "idle"]
        /\ UNCHANGED <<process, sent, handled, session, paused, released>>
    BY <1>5 DEF ScriptEnd, Goto, debugger, queues
  <2>2. ~paused
    BY <2>1 DEF PauseInv
  <2>3. Script = "running" /\ Script' = "idle" /\ UNCHANGED <<Alive, Agent>>
    BY <1>0, <2>1, <2>2 DEF Script, InScript, Alive, Agent, ControlTypes
  <2>4. Target!End
    BY <2>1, <2>3 DEF Target!End
  <2>. QED BY <2>1, <2>4 DEF Target!Next
<1>. QED BY <1>1, <1>2, <1>3, <1>4, <1>5

(* In the nested loop the script is paused until DidContinue.              *)
LEMMA LoopView ==
  ASSUME ControlTypes, AgentTypes, PauseInv, MessageInv, NestedLoop
  PROVE  [Target!Next]_Target!vars
<1>0. Js \in Thread
  BY DEF Thread
<1>1. CASE RunMessageLoop \/ LoopTest \/ GetInspectorMessage
  <2>1. CASE Crash
    BY <1>1, <2>1, CrashIsSeen DEF RunMessageLoop, LoopTest, GetInspectorMessage
  <2>2. CASE ~Crash
    <3>1. UNCHANGED <<process, sent, handled, session, paused, released>>
      BY <1>1, <2>2 DEF RunMessageLoop, LoopTest, GetInspectorMessage, debugger, queues
    <3>2. paused
      BY <1>1 DEF RunMessageLoop, LoopTest, GetInspectorMessage, PauseInv
    <3>. QED BY <3>1, <3>2, Unseen
  <2>. QED BY <2>1, <2>2
<1>2. CASE LoopDispatch
  <2>1. /\ Alive /\ InScript /\ hand[Js] # NoMessage /\ DoDispatchMessage(sent[hand[Js]])
        /\ handled' = handled \union {hand[Js]} /\ UNCHANGED <<process, pc, sent>>
    BY <1>2 DEF LoopDispatch, InScript, queues
  <2>. QED BY <1>0, <2>1, HandleView
<1>3. CASE DidContinue
  <2>1. /\ Alive /\ pc[Js] = "leaving" /\ pc' = [pc EXCEPT ![Js] = "running"]
        /\ paused' = FALSE /\ UNCHANGED <<process, sent, handled, released>>
        /\ session'.open = session.open /\ session'.enabled = session.enabled
    BY <1>3 DEF DidContinue, Goto, AgentTypes, SessionType, queues
  <2>2. paused /\ released
    BY <2>1 DEF PauseInv
  <2>3. Script = "paused" /\ Script' = "running" /\ UNCHANGED <<Alive, Agent>>
    BY <1>0, <2>1, <2>2 DEF Script, InScript, Alive, Agent, ControlTypes
  <2>4. Target!Continue
    BY <2>1, <2>2, <2>3 DEF Target!Continue
  <2>. QED BY <2>1, <2>4 DEF Target!Next
<1>. QED BY <1>1, <1>2, <1>3 DEF NestedLoop

LEMMA TargetStep ==
  ASSUME TypeOK, PauseInv, MessageInv, [Next]_vars
  PROVE  [Target!Next]_Target!vars
<1>. ControlTypes /\ AgentTypes
  BY TypeParts
<1>1. CASE UNCHANGED vars
  BY <1>1, Unseen DEF vars, debugger, queues
<1>2. ASSUME NEW s \in Socket, Connect(s) \/ OnMessage(s) \/ Park(s) \/ OnClose(s)
      PROVE  [Target!Next]_Target!vars
  BY <1>2, SocketView
<1>3. ASSUME NEW t \in Socket \union {Main}, Disconnect(t) PROVE [Target!Next]_Target!vars
  BY <1>3, DisconnectView
<1>4. CASE Drain \/ WaitForDebugger \/ Break
  BY <1>4, HelperView
<1>5. CASE InspectorInit \/ Require \/ RunScript \/ HandleProgramBreak \/ ScriptEnd
  BY <1>5, ScriptView
<1>6. CASE NestedLoop
  BY <1>6, LoopView
<1>. QED
  BY <1>1, <1>2, <1>3, <1>4, <1>5, <1>6 DEF Next

(* Server, main, starter and JavaScript threads, the queues between them   *)
(* and the flag of the nested loop implement what a front end may rely on  *)
(* (V8Inspector.java, lines 90 to 235, InspectorClient.cpp, lines 40-135). *)
THEOREM ImplementsTarget == Spec => TargetSpec
<1>1. TypeOK /\ MessageInv /\ [Next]_vars => MessageInv'
  <2>1. CASE UNCHANGED vars
    BY <2>1 DEF MessageInv, Held, vars, queues
  <2>2. CASE Next
    BY <2>2, TypeParts, MessageStep
  <2>. QED BY <2>1, <2>2
<1>2. Init => Target!Init
  <2>1. Js \in Thread /\ Js \notin Socket
    BY InspectorAssumption DEF Thread
  <2>. QED BY <2>1, SessionTypes DEF Init, Target!Init, Alive, Agent, Script, InScript
<1>. QED
  BY <1>1, <1>2, InitMessages, TargetStep, PauseInvariant, PTL DEF Spec, TargetSpec, Target!Spec
=============================================================================
