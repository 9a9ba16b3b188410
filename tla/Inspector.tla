----------------------------- MODULE Inspector -----------------------------
(***************************************************************************)
(* The debugger connection: V8Inspector (Java), InspectorClient (C++) and  *)
(* what the two use of V8's debugger agent.  Four kinds of thread meet:    *)
(*                                                                         *)
(*   a Socket    the server thread of one websocket of the front end;      *)
(*   Main        the Android main thread, whose looper serves the drain    *)
(*               and disconnect Runnables;                                 *)
(*   Starter     the thread of MainActivity that calls waitForDebugger;    *)
(*   Js          the JavaScript thread, which runs scripts and, when one   *)
(*               pauses, the nested loop of InspectorClient.               *)
(*                                                                         *)
(* All of them call into one InspectorClient without a lock.  A step of    *)
(* this module is what lies between two points where that matters; two     *)
(* threads inside V8 at the same time is reported (OneThreadInIsolate) and *)
(* not explored further.  running_nested_loop_ is TRUE exactly while jpc   *)
(* is in the loop and is left out.                                         *)
(***************************************************************************)
EXTENDS Naturals, Sequences, FiniteSets

CONSTANTS Socket, Main, Starter, Js, NoSocket,
          Kind,          \* what a protocol message may ask for
          ShouldBreak,   \* the arguments of waitForDebugger
          MaxMessages    \* bound: messages the front end sends

ASSUME InspectorAssumption ==
  /\ Main # Starter /\ Main # Js /\ Starter # Js
  /\ {Main, Starter, Js} \intersect Socket = {}
  /\ NoSocket \notin Socket
  /\ Kind \subseteq {"enable", "disable", "pause", "resume", "continueTo",
                     "skip", "unskip", "activate", "deactivate"}
  /\ ShouldBreak \subseteq BOOLEAN
  /\ MaxMessages \in Nat

Thread == Socket \union {Main, Starter, Js}
Id == 1..MaxMessages
NoMessage == 0

VARIABLES
  process,        \* "alive", or "dead" after a null dereference
  client,         \* InspectorClient::instance, by the thread that made it
  session,        \* session_, with its debugger agent's m_enabled,
                  \* m_skipAllPauses, m_breakpointsActive and whether its
                  \* m_breakReason is not empty
  connection,     \* InspectorClient::connection
  paused,         \* V8Debugger::m_pausedContextGroupId # 0
  breakRequested, \* an interrupt to break at the next statement is pending
  toLocation,     \* V8Debugger::m_continueToLocationBreakpointId is set
  terminated,     \* InspectorClient::terminated_
  released,       \* history: the current pause was told to end
  pc,             \* where each thread is
  hand,           \* the message each thread has polled and not passed on
  ready,          \* ReadyToProcessMessages
  sent,           \* the kinds of the messages received so far, in order
  inbox,          \* inspectorMessages
  parked,         \* pendingInspectorMessages
  looper,         \* Runnables in the queue of the main looper
  handled         \* history: messages given to dispatchProtocolMessage,
                  \* or dropped there because no session exists

debugger == <<session, paused, breakRequested, toLocation, terminated, released>>
queues == <<sent, inbox, parked, looper>>
vars == <<process, client, connection, debugger, pc, hand, ready, queues,
          handled>>

NewSession == [open |-> TRUE, enabled |-> FALSE, skip |-> FALSE,
               active |-> FALSE, reason |-> FALSE]
NoSession == [open |-> FALSE, enabled |-> FALSE, skip |-> FALSE,
              active |-> FALSE, reason |-> FALSE]

Init ==
  /\ process = "alive"
  /\ client = "none"
  /\ session = NoSession
  /\ connection = NoSocket
  /\ paused = FALSE /\ breakRequested = FALSE /\ toLocation = FALSE
  /\ released = FALSE
  /\ terminated \in BOOLEAN      \* the constructor does not set it
  /\ pc = [t \in Thread |-> IF t \in Socket THEN "none"
                            ELSE IF t = Js THEN "boot" ELSE "idle"]
  /\ hand = [t \in Thread |-> NoMessage]
  /\ ready = FALSE
  /\ sent = <<>> /\ inbox = <<>> /\ parked = <<>> /\ looper = <<>>
  /\ handled = {}

Alive == process = "alive"

Goto(t, place) == pc' = [pc EXCEPT ![t] = place]

(* A null dereference, wherever it happens, ends the process.              *)
Crash ==
  /\ process' = "dead"
  /\ UNCHANGED <<client, connection, debugger, pc, hand, ready, queues, handled>>

(* The context of the isolate is current from the start of a script to its *)
(* end; the nested loop runs inside the script it pauses.                  *)
InScript == pc[Js] \in {"running", "pausing", "loop", "taking", "leaving"}

-----------------------------------------------------------------------------
(* What V8's debugger does for this client.                                *)

(* Faulty variant: the client does not end its loop.                       *)
ContinueWithoutQuit ==
  /\ released' = (released \/ paused)
  /\ UNCHANGED terminated

(* V8Debugger::continueProgram and quitMessageLoopOnPause.                 *)
ContinueProgram ==
  /\ terminated' = (terminated \/ paused)
  /\ released' = (released \/ paused)

(* The agent takes a break: always when V8 runs out of memory, otherwise   *)
(* unless the front end had all pauses skipped.                            *)
AcceptsPause(isOOMBreak) == session.enabled /\ (isOOMBreak \/ ~session.skip)

(* An interrupt is requested unless a reason for one is already noted.     *)
NoteReason ==
  /\ breakRequested' = (breakRequested \/ ~session.reason)
  /\ session' = [session EXCEPT !.reason = TRUE]

(* pause() of the agent, which a front end calls.                          *)
Pause ==
  /\ IF session.enabled /\ ~paused THEN NoteReason
                                   ELSE UNCHANGED <<breakRequested, session>>
  /\ UNCHANGED <<paused, toLocation, terminated, released>>

(* schedulePauseOnNextStatement(), which scheduleBreak calls.              *)
SchedulePause ==
  /\ IF AcceptsPause(FALSE) /\ ~paused /\ session.active
       THEN NoteReason
       ELSE UNCHANGED <<breakRequested, session>>
  /\ UNCHANGED <<paused, toLocation, terminated, released>>

Enable ==
  /\ session' = IF session.enabled THEN session
                ELSE [session EXCEPT !.enabled = TRUE, !.active = TRUE,
                                     !.reason = @ /\ ~paused]
  /\ UNCHANGED <<paused, breakRequested, toLocation, terminated, released>>

(* disable() of an agent whose session goes on as newSession.              *)
DisableAgent(newSession) ==
  /\ IF session.enabled
       THEN ContinueProgram /\ toLocation' = FALSE
       ELSE UNCHANGED <<terminated, released, toLocation>>
  /\ session' = newSession
  /\ UNCHANGED <<paused, breakRequested>>

(* Faulty variant: the reasons of the break that is taken back are kept.   *)
CancelKeepsReasons(active) ==
  /\ IF session.enabled /\ session.active # active
       THEN /\ session' = [session EXCEPT !.active = active]
            /\ breakRequested' = (breakRequested /\ (active \/ paused \/ ~session.reason))
       ELSE UNCHANGED <<session, breakRequested>>
  /\ UNCHANGED <<paused, toLocation, terminated, released>>

(* With breakpoints off a break that was asked for is taken back.          *)
SetBreakpointsActive(active) ==
  /\ IF session.enabled /\ session.active # active
       THEN /\ session' = [session EXCEPT !.active = active, !.reason = @ /\ active]
            /\ breakRequested' = (breakRequested /\ (active \/ paused \/ ~session.reason))
       ELSE UNCHANGED <<session, breakRequested>>
  /\ UNCHANGED <<paused, toLocation, terminated, released>>

(* doDispatchMessage: without a session the message is dropped.  "resume"  *)
(* stands for the steps too; the location of "continueTo" may be unknown.  *)
DoDispatchMessage(kind) ==
  IF ~session.open THEN UNCHANGED debugger ELSE
  \/ kind = "enable" /\ Enable
  \/ /\ kind = "disable"
     /\ IF session.enabled THEN DisableAgent(NewSession) ELSE UNCHANGED debugger
  \/ kind = "pause" /\ Pause
  \/ /\ kind = "resume"
     /\ ContinueProgram
     /\ UNCHANGED <<session, paused, breakRequested, toLocation>>
  \/ /\ kind = "continueTo"
     /\ \/ session.enabled /\ paused /\ ContinueProgram /\ toLocation' = TRUE
        \/ UNCHANGED <<terminated, released, toLocation>>
     /\ UNCHANGED <<session, paused, breakRequested>>
  \/ /\ kind \in {"skip", "unskip"}
     /\ session' = [session EXCEPT !.skip = (kind = "skip")]
     /\ UNCHANGED <<paused, breakRequested, toLocation, terminated, released>>
  \/ kind \in {"activate", "deactivate"} /\ SetBreakpointsActive(kind = "activate")

-----------------------------------------------------------------------------
(* The server thread of a websocket.                                       *)

(* onOpen: connect.  The first thread to call GetInstance makes the client *)
(* for the isolate that is current on it; on a server thread that is none. *)
Connect(s) ==
  /\ Alive
  /\ pc[s] = "none"
  /\ connection' = s
  /\ client' = IF client = "none" THEN "foreign" ELSE client
  /\ Goto(s, "reading")
  /\ UNCHANGED <<process, debugger, hand, ready, queues, handled>>

(* onMessage, first half: the text is offered to the queue.                *)
OnMessage(s) ==
  /\ Alive
  /\ pc[s] = "reading" /\ Len(sent) < MaxMessages
  /\ \E k \in Kind : sent' = Append(sent, k)
  /\ inbox' = Append(inbox, Len(sent'))
  /\ Goto(s, "offered")
  /\ UNCHANGED <<process, client, connection, debugger, hand, ready, parked,
                 looper, handled>>

(* Faulty variant: with a script paused the nested loop is trusted to take *)
(* the message.                                                            *)
PostDrainUnlessPaused(s) ==
  /\ Alive
  /\ pc[s] = "offered"
  /\ IF ready
       THEN /\ looper' = IF paused THEN looper ELSE <<"drain">> \o looper
            /\ Goto(s, "reading")
       ELSE UNCHANGED looper /\ Goto(s, "parking")
  /\ UNCHANGED <<process, client, connection, debugger, hand, ready, sent,
                 inbox, parked, handled>>

(* onMessage, second half: ask the main thread to drain the queue, in      *)
(* front of whatever it has to do; or, not ready, park what is queued.     *)
PostDrain(s) ==
  /\ Alive
  /\ pc[s] = "offered"
  /\ IF ready
       THEN looper' = <<"drain">> \o looper /\ Goto(s, "reading")
       ELSE UNCHANGED looper /\ Goto(s, "parking")
  /\ UNCHANGED <<process, client, connection, debugger, hand, ready, sent,
                 inbox, parked, handled>>

(* Faulty variant: the head of the queue is read and not removed.          *)
PollByPeek(t) ==
  /\ hand[t] = NoMessage /\ inbox # <<>>
  /\ hand' = [hand EXCEPT ![t] = Head(inbox)]
  /\ UNCHANGED inbox

Poll(t) ==
  /\ hand[t] = NoMessage /\ inbox # <<>>
  /\ hand' = [hand EXCEPT ![t] = Head(inbox)]
  /\ inbox' = Tail(inbox)

ParkPoll(s) ==
  /\ Alive
  /\ pc[s] = "parking"
  /\ Poll(s)
  /\ UNCHANGED <<process, client, connection, debugger, pc, ready, sent, parked,
                 looper, handled>>

ParkOffer(s) ==
  /\ Alive
  /\ pc[s] = "parking" /\ hand[s] # NoMessage
  /\ parked' = Append(parked, hand[s])
  /\ hand' = [hand EXCEPT ![s] = NoMessage]
  /\ UNCHANGED <<process, client, connection, debugger, pc, ready, sent, inbox,
                 looper, handled>>

(* The queue is empty.  The notify that follows "Debugger.enable" is not   *)
(* modelled: it only ends a wait that may end at any time.                 *)
ParkEnd(s) ==
  /\ Alive
  /\ pc[s] = "parking" /\ hand[s] = NoMessage /\ inbox = <<>>
  /\ Goto(s, "reading")
  /\ UNCHANGED <<process, client, connection, debugger, hand, ready, queues,
                 handled>>

(* onClose: the disconnect is posted to the main thread.                   *)
OnClose(s) ==
  /\ Alive
  /\ pc[s] \in {"reading", "closing"}
  /\ looper' = Append(looper, "disconnect")
  /\ Goto(s, "closed")
  /\ UNCHANGED <<process, client, connection, debugger, hand, ready, sent,
                 inbox, parked, handled>>

-----------------------------------------------------------------------------
(* InspectorClient::disconnect, called by the main thread for a posted     *)
(* onClose and by a server thread itself from onException.                 *)

AfterDisconnect(t) == IF t = Main THEN "idle" ELSE "closing"

MayDisconnect(t) ==
  \/ t \in Socket /\ pc[t] = "reading"
  \/ t = Main /\ pc[Main] = "idle" /\ looper # <<>> /\ Head(looper) = "disconnect"

DisconnectTask(t) == looper' = IF t = Main THEN Tail(looper) ELSE looper

(* With no connection there is nothing to do.                              *)
DisconnectBegin(t) ==
  /\ Alive
  /\ MayDisconnect(t)
  /\ DisconnectTask(t)
  /\ Goto(t, IF connection = NoSocket THEN AfterDisconnect(t) ELSE "resuming")
  /\ UNCHANGED <<process, client, connection, debugger, hand, ready, sent,
                 inbox, parked, handled>>

(* The isolate of the client is entered, then session_->resume().          *)
DisconnectResume(t) ==
  /\ Alive
  /\ pc[t] = "resuming"
  /\ IF client = "foreign" \/ ~session.open
       THEN Crash
       ELSE /\ ContinueProgram
            /\ Goto(t, "resetting")
            /\ UNCHANGED <<process, client, connection, session, paused,
                           breakRequested, toLocation, hand, ready, queues,
                           handled>>

(* session_.reset(): the destructor disables the debugger agent.           *)
DisconnectReset(t) ==
  /\ Alive
  /\ pc[t] = "resetting"
  /\ DisableAgent(NoSession)
  /\ Goto(t, "reconnecting")
  /\ UNCHANGED <<process, client, connection, hand, ready, queues, handled>>

(* Faulty variant: the connection is forgotten and no session is made.     *)
ForgetConnectionOnly(t) ==
  /\ Alive
  /\ pc[t] = "reconnecting"
  /\ connection' = NoSocket
  /\ Goto(t, AfterDisconnect(t))
  /\ UNCHANGED <<process, client, debugger, hand, ready, queues, handled>>

(* The connection is forgotten and a new session takes the place of the    *)
(* old one: none, or one that an overlapping disconnect made and the front *)
(* end may have enabled, whose destructor disables its agent too.          *)
CreateInspectorSession(t) ==
  /\ Alive
  /\ pc[t] = "reconnecting"
  /\ connection' = NoSocket
  /\ DisableAgent(NewSession)
  /\ Goto(t, AfterDisconnect(t))
  /\ UNCHANGED <<process, client, hand, ready, queues, handled>>

-----------------------------------------------------------------------------
(* The main thread and the starter.                                        *)

DrainBegin ==
  /\ Alive
  /\ pc[Main] = "idle" /\ looper # <<>> /\ Head(looper) = "drain"
  /\ looper' = Tail(looper)
  /\ Goto(Main, "draining")
  /\ UNCHANGED <<process, client, connection, debugger, hand, ready, sent,
                 inbox, parked, handled>>

DrainPoll ==
  /\ Alive
  /\ pc[Main] = "draining"
  /\ Poll(Main)
  /\ UNCHANGED <<process, client, connection, debugger, pc, ready, sent, parked,
                 looper, handled>>

DrainEnd ==
  /\ Alive
  /\ pc[Main] = "draining" /\ hand[Main] = NoMessage /\ inbox = <<>>
  /\ Goto(Main, "idle")
  /\ UNCHANGED <<process, client, connection, debugger, hand, ready, queues,
                 handled>>

(* dispatchMessage enters the isolate and its current context.  There is   *)
(* none unless the JS thread is in a script: the handle is then empty.     *)
DispatchMessage(t) ==
  /\ Alive
  /\ t \in {Main, Starter} /\ hand[t] # NoMessage
  /\ IF client # "js" \/ ~InScript
       THEN Crash
       ELSE /\ DoDispatchMessage(sent[hand[t]])
            /\ handled' = handled \union {hand[t]}
            /\ hand' = [hand EXCEPT ![t] = NoMessage]
            /\ UNCHANGED <<process, client, connection, pc, ready, queues>>

(* waitForDebugger(false) only raises the flag; waitForDebugger(true)      *)
(* waits for the front end, at most thirty seconds, and then raises it.    *)
WaitForDebugger ==
  /\ Alive
  /\ \/ /\ pc[Starter] = "idle"
        /\ \E shouldBreak \in ShouldBreak :
             IF shouldBreak THEN Goto(Starter, "waiting") /\ UNCHANGED ready
                            ELSE Goto(Starter, "done") /\ ready' = TRUE
     \/ /\ pc[Starter] = "waiting"
        /\ ready' = TRUE
        /\ Goto(Starter, "breaking")
  /\ UNCHANGED <<process, client, connection, debugger, hand, queues, handled>>

(* processDebugBreakMessages: the parked messages, one after the other.    *)
ProcessDebugBreakMessages ==
  /\ Alive
  /\ pc[Starter] = "breaking" /\ hand[Starter] = NoMessage /\ parked # <<>>
  /\ hand' = [hand EXCEPT ![Starter] = Head(parked)]
  /\ parked' = Tail(parked)
  /\ UNCHANGED <<process, client, connection, debugger, pc, ready, sent, inbox,
                 looper, handled>>

(* scheduleBreak, at the end of processDebugBreak.  Without a client made  *)
(* by the JS thread, or without a session, it dereferences null.           *)
ProcessDebugBreak ==
  /\ Alive
  /\ pc[Starter] = "breaking" /\ hand[Starter] = NoMessage /\ parked = <<>>
  /\ IF ~session.open
       THEN Crash
       ELSE /\ SchedulePause
            /\ Goto(Starter, "done")
            /\ UNCHANGED <<process, client, connection, hand, ready, queues,
                           handled>>

-----------------------------------------------------------------------------
(* The JS thread.                                                          *)

(* createIsolate ends with GetInstance()->init(), which enters the isolate *)
(* the client was made for.                                                *)
InspectorInit ==
  /\ Alive
  /\ pc[Js] = "boot"
  /\ IF client = "foreign"
       THEN Crash
       ELSE /\ client' = "js"
            /\ DisableAgent(NewSession)
            /\ Goto(Js, "idle")
            /\ UNCHANGED <<process, connection, hand, ready, queues, handled>>

(* V8Runtime::require: scheduleBreak, then the script is run.              *)
Require ==
  /\ Alive
  /\ pc[Js] = "idle"
  /\ IF ~session.open
       THEN Crash
       ELSE /\ SchedulePause
            /\ Goto(Js, "running")
            /\ UNCHANGED <<process, client, connection, hand, ready, queues,
                           handled>>

(* runScript, and every function called into: no break is scheduled.       *)
RunScript ==
  /\ Alive
  /\ pc[Js] = "idle"
  /\ Goto(Js, "running")
  /\ UNCHANGED <<process, client, connection, debugger, hand, ready, queues,
                 handled>>

(* Faulty variant: the script pauses whether an agent is enabled or not.   *)
BreakForAnyone ==
  /\ Alive
  /\ pc[Js] = "running" /\ (breakRequested \/ session.enabled)
  /\ breakRequested' = FALSE
  /\ paused' = TRUE /\ released' = FALSE /\ toLocation' = FALSE
  /\ session' = [session EXCEPT !.reason = FALSE]
  /\ Goto(Js, "pausing")
  /\ UNCHANGED <<process, client, connection, terminated, hand, ready, queues,
                 handled>>

(* A break: the interrupt that was asked for or, while the agent is        *)
(* enabled and so V8 has its delegate, a breakpoint, a debugger statement, *)
(* an exception, a step or want of memory.  The script pauses unless the   *)
(* agent does not accept that, or continueToLocation put the breakpoint    *)
(* and meant another frame; didPause clears the reasons.                   *)
HandleProgramBreak ==
  /\ Alive
  /\ pc[Js] = "running" /\ (breakRequested \/ session.enabled)
  /\ breakRequested' = FALSE
  /\ \E isOOMBreak, otherFrame \in BOOLEAN :
       IF AcceptsPause(isOOMBreak) /\ ~(toLocation /\ otherFrame)
         THEN /\ paused' = TRUE /\ released' = FALSE /\ toLocation' = FALSE
              /\ session' = [session EXCEPT !.reason = FALSE]
              /\ Goto(Js, "pausing")
         ELSE UNCHANGED <<paused, released, toLocation, session, pc>>
  /\ UNCHANGED <<process, client, connection, terminated, hand, ready, queues,
                 handled>>

(* Faulty variant: terminated_ is not reset before the loop.               *)
RunMessageLoopAsIs ==
  /\ Alive
  /\ pc[Js] = "pausing"
  /\ Goto(Js, "loop")
  /\ UNCHANGED <<process, client, connection, debugger, hand, ready, queues,
                 handled>>

(* runMessageLoop from its entry to the loop.                              *)
RunMessageLoop ==
  /\ Alive
  /\ pc[Js] = "pausing"
  /\ terminated' = FALSE
  /\ Goto(Js, "loop")
  /\ UNCHANGED <<process, client, connection, session, paused, breakRequested,
                 toLocation, released, hand, ready, queues, handled>>

(* The loop's test and the call of getInspectorMessage: without connection *)
(* that is a null pointer in Java, which nobody catches.                   *)
LoopTest ==
  /\ Alive
  /\ pc[Js] = "loop" /\ hand[Js] = NoMessage
  /\ \/ /\ ~terminated /\ connection # NoSocket
        /\ Goto(Js, "taking")
        /\ UNCHANGED <<process, client, connection, debugger, hand, ready,
                       queues, handled>>
     \/ ~terminated /\ connection = NoSocket /\ Crash
     \/ /\ terminated
        /\ terminated' = FALSE
        /\ Goto(Js, "leaving")
        /\ UNCHANGED <<process, client, connection, session, paused,
                       breakRequested, toLocation, released, hand, ready,
                       queues, handled>>

(* getInspectorMessage: inspectorMessages.take() blocks on an empty queue. *)
GetInspectorMessage ==
  /\ Alive
  /\ pc[Js] = "taking"
  /\ Poll(Js)
  /\ Goto(Js, "loop")
  /\ UNCHANGED <<process, client, connection, debugger, ready, sent, parked,
                 looper, handled>>

LoopDispatch ==
  /\ Alive
  /\ pc[Js] = "loop" /\ hand[Js] # NoMessage
  /\ DoDispatchMessage(sent[hand[Js]])
  /\ handled' = handled \union {hand[Js]}
  /\ hand' = [hand EXCEPT ![Js] = NoMessage]
  /\ UNCHANGED <<process, client, connection, pc, ready, queues>>

(* The end of handleProgramBreak.                                          *)
DidContinue ==
  /\ Alive
  /\ pc[Js] = "leaving"
  /\ paused' = FALSE
  /\ session' = [session EXCEPT !.reason = @ /\ ~session.enabled]
  /\ Goto(Js, "running")
  /\ UNCHANGED <<process, client, connection, breakRequested, toLocation,
                 terminated, released, hand, ready, queues, handled>>

ScriptEnd ==
  /\ Alive
  /\ pc[Js] = "running"
  /\ Goto(Js, "idle")
  /\ UNCHANGED <<process, client, connection, debugger, hand, ready, queues,
                 handled>>

-----------------------------------------------------------------------------
Disconnect(t) ==
  DisconnectBegin(t) \/ DisconnectResume(t) \/ DisconnectReset(t)
    \/ CreateInspectorSession(t)

(* What a server thread goes on to do by itself.                           *)
Park(s) == PostDrain(s) \/ ParkPoll(s) \/ ParkOffer(s) \/ ParkEnd(s)

OnException(s) == pc[s] # "reading" /\ (Disconnect(s) \/ OnClose(s))

Drain == DrainBegin \/ DrainPoll \/ DrainEnd \/ DispatchMessage(Main)

Break == ProcessDebugBreakMessages \/ DispatchMessage(Starter) \/ ProcessDebugBreak

NestedLoop == RunMessageLoop \/ LoopTest \/ GetInspectorMessage \/ LoopDispatch
                \/ DidContinue

Next ==
  \/ \E s \in Socket : Connect(s) \/ OnMessage(s) \/ Park(s) \/ OnClose(s)
  \/ \E t \in Socket \union {Main} : Disconnect(t)
  \/ Drain \/ WaitForDebugger \/ Break
  \/ InspectorInit \/ Require \/ RunScript \/ HandleProgramBreak \/ NestedLoop
  \/ ScriptEnd

Spec == Init /\ [][Next]_vars

(* Every thread goes on with what it has begun.  Nothing makes the front   *)
(* end connect, send or leave, nor a script begin or end.                  *)
Fairness ==
  /\ \A s \in Socket : WF_vars(Park(s) \/ OnException(s))
  /\ WF_vars(Drain \/ Disconnect(Main))
  /\ WF_vars(WaitForDebugger \/ Break)
  /\ WF_vars(InspectorInit \/ NestedLoop)

FairSpec == Spec /\ Fairness
-----------------------------------------------------------------------------
(* Properties.                                                             *)

TypeOK ==
  /\ process \in {"alive", "dead"}
  /\ client \in {"none", "foreign", "js"}
  /\ session \in [open : BOOLEAN, enabled : BOOLEAN, skip : BOOLEAN,
                  active : BOOLEAN, reason : BOOLEAN]
  /\ connection \in Socket \union {NoSocket}
  /\ paused \in BOOLEAN /\ breakRequested \in BOOLEAN /\ toLocation \in BOOLEAN
  /\ terminated \in BOOLEAN /\ released \in BOOLEAN
  /\ pc \in [Thread -> {"none", "reading", "offered", "parking", "closing",
                        "closed", "idle", "draining", "resuming",
                        "resetting", "reconnecting", "waiting", "breaking", "done", "boot",
                        "running", "pausing", "loop", "taking", "leaving"}]
  /\ hand \in [Thread -> Id \union {NoMessage}]
  /\ ready \in BOOLEAN
  /\ sent \in Seq(Kind) /\ Len(sent) <= MaxMessages
  /\ inbox \in Seq(Id) /\ parked \in Seq(Id)
  /\ looper \in Seq({"drain", "disconnect"})
  /\ handled \subseteq Id

(* Four kinds of thread poll one queue, park, take and dispatch: a message *)
(* that was received is still in exactly one place.                        *)
Count(i, queue) == Cardinality({n \in DOMAIN queue : queue[n] = i})

MessageAccounted ==
  \A i \in 1..Len(sent) :
    Count(i, inbox) + Count(i, parked) + Count(i, hand)
      + (IF i \in handled THEN 1 ELSE 0) = 1

(* The agent asks for an interrupt only if it has noted no reason before:  *)
(* while a reason is noted whose interrupt is gone, a pause of the front   *)
(* end does nothing.  It comes to that where a break was refused, because  *)
(* the front end had all pauses skipped or at the breakpoint of a          *)
(* continueToLocation, and in no other way.                                *)
PauseLost == session.reason /\ ~breakRequested

PausesAreLostOnlyIfRefused ==
  [][~PauseLost /\ PauseLost' =>
       pc[Js] = "running" /\ ~paused' /\ (session.skip \/ toLocation)]_vars

(* However disconnects of several sockets overlap, one of them is about to *)
(* make the new session whenever the debugger has none.                    *)
SessionReturns ==
  client = "js" /\ ~session.open =>
    \E t \in Socket \union {Main} : pc[t] = "reconnecting"

(* A paused script goes on only if this pause was ended by a resume, a     *)
(* disable or a disconnect: a quit meant for an earlier pause, or the      *)
(* value terminated_ starts with, does not end it.                         *)
ContinuesOnlyIfReleased ==
  [][pc[Js] = "loop" /\ pc'[Js] = "leaving" => released]_vars

(* The whole of it, seen by a front end: whichever thread passes a message *)
(* on, it has its effect once and while a script runs; the script pauses   *)
(* only for an agent that is enabled, and goes on only when released.      *)
(* terminated_ and the noted reasons, by which the code arranges this, do  *)
(* not show.                                                               *)
Agent == IF ~session.open THEN "gone" ELSE IF session.enabled THEN "on" ELSE "off"

Script == IF paused THEN "paused" ELSE IF InScript THEN "running" ELSE "idle"

Target == INSTANCE DebugTarget
            WITH alive <- Alive, agent <- Agent, script <- Script
TargetSpec == Target!Spec

(* Every message the front end sends is given to the session, or is parked *)
(* for waitForDebugger; or an error ends the process.                      *)
EveryMessageSettles ==
  \A i \in Id :
    i <= Len(sent) ~>
      (process = "dead" \/ i \in handled \/ Count(i, parked) > 0)

(* Back at the test of its loop, the JavaScript thread leaves a pause that *)
(* any thread released, and one that the message it took itself releases   *)
(* unless a disconnect replaces the session meanwhile.  That take() brings  *)
(* it back to the test is not promised: only a message does that, one that *)
(* the main thread does not drain first.                                   *)
ResumeEndsPause ==
  (/\ pc[Js] = "loop"
   /\ terminated \/ (hand[Js] # NoMessage /\ sent[hand[Js]] = "resume"))
    ~> (process = "dead" \/ pc[Js] = "running" \/ (~terminated /\ ~session.open))

(* What V8 says of itself: all access to a runtime comes from the same     *)
(* thread, unless that gives up control with the V8Locker.  The JS thread  *)
(* never releases the locker, and the inspector enters the isolate from    *)
(* other threads without it.                                               *)
InIsolate ==
  {t \in {Main, Starter} : hand[t] # NoMessage}
    \union {t \in Thread : pc[t] \in {"resuming", "resetting", "reconnecting"}}
    \union (IF InScript THEN {Js} ELSE {})

OneThreadInIsolate == Cardinality(InIsolate) <= 1
=============================================================================
