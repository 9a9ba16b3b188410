----------------------------- MODULE Dispatcher -----------------------------
(****************************************************************************)
(* How a request of the debugging protocol gets its answer. A dispatcher    *)
(* answers when a handler returns; an asynchronous command hands the agent  *)
(* a callback, which waits for a promise, for the end of the script that is *)
(* being terminated, or for the next asynchronous task, and which answers   *)
(* only while the dispatcher of its session lives. Frames of the stack are  *)
(* scripts, the loop of a pause, and handlers that may run JavaScript.      *)
(* Requests come while a script runs or is paused (else: Inspector.Crash);  *)
(* threads that dispatch beside the JavaScript thread are Inspector's too.  *)
(****************************************************************************)
EXTENDS Integers, Sequences, FiniteSets

CONSTANTS Requests, NoRequest, Script, Pause,
          MaxSessions,  \* bound: sessions that are made, one after the other
          MaxDepth      \* bound: frames on the stack

ASSUME DispatcherAssumption ==
    /\ {NoRequest, Script, Pause} \cap Requests = {}
    /\ NoRequest # Script /\ NoRequest # Pause /\ Script # Pause
    /\ MaxSessions \in Nat /\ MaxDepth \in Nat

Kinds == {"malformed", "refused", "sync", "enable", "disable", "evaluate", "terminate", "step"}

VARIABLES
    session,    \* how many sessions were made
    connected,  \* InspectorClient::connection is set
    asked,      \* what each request is, or "none" before it is dispatched
    heard,      \* history: requests of this session that came while a front end was there
    live,       \* requests whose callback or handler still has its weak pointer
    answers,    \* how many answers to each request were sent
    stack,      \* frames of the JavaScript thread
    enabled,    \* the debugger's delegate is set
    waiting,    \* m_evaluateCallbacks of the injected scripts
    terminate,  \* m_terminateExecutionCallback
    step        \* m_stepIntoAsyncCallback

connection == <<session, connected>>
replies == <<live, answers>>
holders == <<stack, waiting, terminate, step>>
vars == <<connection, asked, heard, replies, enabled, holders>>

Init ==
    /\ session = 1 /\ connected = FALSE
    /\ asked = [r \in Requests |-> "none"]
    /\ heard = {} /\ live = {}
    /\ answers = [r \in Requests |-> 0]
    /\ stack = <<>> /\ enabled = FALSE
    /\ waiting = {} /\ terminate = NoRequest /\ step = NoRequest

Top == stack[Len(stack)]
Push(frame) == stack' = Append(stack, frame)
Drop == stack' = SubSeq(stack, 1, Len(stack) - 1)
Frames == {stack[i] : i \in 1..Len(stack)}
Paused == Pause \in Frames

(* What goes to sendNotification reaches somebody only over a connection. *)
Sent(S) == [r \in Requests |-> IF r \in S /\ connected THEN answers[r] + 1 ELSE answers[r]]

(* sendIfActive: whoever has lost its dispatcher stays silent, and nobody answers twice. *)
Answer(S) == answers' = Sent(S \cap live) /\ live' = live \ S

----------------------------------------------------------------------------
(* UberDispatcher::dispatch and the handlers. *)

Arrives(r, kind) ==
    /\ asked[r] = "none"
    /\ stack # <<>>
    /\ asked' = [asked EXCEPT ![r] = kind]
    /\ heard' = IF connected /\ kind # "malformed" THEN heard \cup {r} ELSE heard

(* No JSON, no object or no id: an error without an id, which answers nobody. *)
Malformed(r) == Arrives(r, "malformed") /\ UNCHANGED <<connection, replies, enabled, holders>>

(* No such method, or wrong parameters. *)
Refuse(r) ==
    /\ Arrives(r, "refused")
    /\ answers' = Sent({r})
    /\ UNCHANGED <<connection, live, enabled, holders>>

(* A handler that may run JavaScript before it returns. *)
Call(r, kind) ==
    /\ Len(stack) < MaxDepth
    /\ Arrives(r, kind)
    /\ live' = live \cup {r}
    /\ Push(r)
    /\ UNCHANGED <<connection, answers, enabled, waiting, terminate, step>>

(* Debugger.enable and disable, which leaves m_stepIntoAsyncCallback as it is. *)
SetEnabled(r, kind) ==
    /\ Arrives(r, kind)
    /\ answers' = Sent({r})
    /\ enabled' = (kind = "enable")
    /\ UNCHANGED <<connection, live, holders>>

TerminateIsDropped(r) ==
    /\ Arrives(r, "terminate")
    /\ IF terminate # NoRequest
       THEN UNCHANGED <<live, answers, terminate>>
       ELSE terminate' = r /\ live' = live \cup {r} /\ UNCHANGED answers
    /\ UNCHANGED <<connection, enabled, stack, waiting, step>>

(* There is one termination at a time: another is refused, whoever asked for the first. *)
TerminateExecution(r) ==
    /\ Arrives(r, "terminate")
    /\ IF terminate # NoRequest
       THEN answers' = Sent({r}) /\ UNCHANGED <<live, terminate>>
       ELSE terminate' = r /\ live' = live \cup {r} /\ UNCHANGED answers
    /\ UNCHANGED <<connection, enabled, stack, waiting, step>>

StepOverwritten(r) ==
    /\ Arrives(r, "step")
    /\ IF Paused
       THEN answers' = answers /\ live' = live \cup {r} /\ step' = r
       ELSE answers' = Sent({r}) /\ UNCHANGED <<live, step>>
    /\ UNCHANGED <<connection, enabled, stack, waiting, terminate>>

(* A second request to step into async takes the place of the first, which fails. *)
ScheduleStepIntoAsync(r) ==
    /\ Arrives(r, "step")
    /\ IF Paused
       THEN answers' = Sent({step} \cap live) /\ live' = (live \ {step}) \cup {r} /\ step' = r
       ELSE answers' = Sent({r}) /\ UNCHANGED <<live, step>>
    /\ UNCHANGED <<connection, enabled, stack, waiting, terminate>>

(* A handler returns. One that evaluated looks for its session again: the script may have cost
   it; and it may leave the callback to a promise. *)
Return ==
    /\ stack # <<>> /\ Top \in Requests
    /\ Drop
    /\ \/ Answer({Top}) /\ UNCHANGED waiting
       \/ /\ asked[Top] = "evaluate" /\ Top \in live
          /\ waiting' = waiting \cup {Top}
          /\ UNCHANGED replies
    /\ UNCHANGED <<connection, asked, heard, enabled, terminate, step>>

----------------------------------------------------------------------------
(* JavaScript. *)

StartScript ==
    /\ stack = <<>>
    /\ Push(Script)
    /\ UNCHANGED <<connection, asked, heard, replies, enabled, waiting, terminate, step>>

EndScriptForLive ==
    /\ stack = <<Script>>
    /\ Drop
    /\ IF terminate \in live THEN Answer({terminate}) /\ terminate' = NoRequest
                             ELSE UNCHANGED <<replies, terminate>>
    /\ UNCHANGED <<connection, asked, heard, enabled, waiting, step>>

(* terminateExecutionCompletedCallback runs when no call into V8 is left. *)
EndScript ==
    /\ stack = <<Script>>
    /\ Drop
    /\ Answer({terminate})
    /\ terminate' = NoRequest
    /\ UNCHANGED <<connection, asked, heard, enabled, waiting, step>>

NestedPause(accepted) ==
    /\ enabled /\ stack # <<>> /\ Len(stack) < MaxDepth
    /\ IF accepted THEN Push(Pause) ELSE UNCHANGED stack
    /\ Answer({step})
    /\ step' = NoRequest
    /\ UNCHANGED <<connection, asked, heard, enabled, waiting, terminate>>

(* handleProgramBreak: no break within a break; a break that no agent accepts does not pause,
   but whoever waits to step into an asynchronous task has waited in vain either way. *)
HandleProgramBreak(accepted) ==
    /\ ~Paused
    /\ NestedPause(accepted)

(* The loop of a pause ends, on a resume or on a disconnect; or it does not: after either it
   may stay in take() for as long as no further message comes (module Inspector). *)
Continue ==
    /\ stack # <<>> /\ Top = Pause
    /\ Drop
    /\ UNCHANGED <<connection, asked, heard, replies, enabled, waiting, terminate, step>>

(* asyncTaskCandidateForStepping *)
AsyncTaskScheduled ==
    /\ enabled /\ step # NoRequest
    /\ stack # <<>> /\ Top # Pause
    /\ Answer({step})
    /\ step' = NoRequest
    /\ UNCHANGED <<connection, asked, heard, enabled, stack, waiting, terminate>>

(* A promise is fulfilled, rejected or collected. *)
PromiseEnds(r) ==
    /\ r \in waiting
    /\ waiting' = waiting \ {r}
    /\ Answer({r})
    /\ UNCHANGED <<connection, asked, heard, enabled, stack, terminate, step>>

----------------------------------------------------------------------------
(* The connection. *)

Connect ==
    /\ ~connected
    /\ connected' = TRUE
    /\ UNCHANGED <<session, asked, heard, replies, enabled, holders>>

DisposeFirst ==
    /\ connected /\ session < MaxSessions
    /\ answers' = answers
    /\ live' = {} /\ waiting' = {} /\ heard' = {}
    /\ connected' = FALSE /\ session' = session + 1 /\ enabled' = FALSE
    /\ UNCHANGED <<asked, stack, terminate, step>>

DisconnectKeepsWeak ==
    /\ connected /\ session < MaxSessions
    /\ answers' = Sent(waiting)
    /\ live' = live \ waiting /\ waiting' = {} /\ heard' = {}
    /\ connected' = FALSE /\ session' = session + 1 /\ enabled' = FALSE
    /\ UNCHANGED <<asked, stack, terminate, step>>

(* InspectorClient::disconnect: the old session discards its injected scripts, whose callbacks
   fail, then its dispatchers go and with them every weak pointer; a new session is made. *)
Disconnect ==
    /\ connected /\ session < MaxSessions
    /\ answers' = Sent(waiting \cap live)
    /\ live' = {} /\ waiting' = {} /\ heard' = {}
    /\ connected' = FALSE /\ session' = session + 1 /\ enabled' = FALSE
    /\ UNCHANGED <<asked, stack, terminate, step>>

----------------------------------------------------------------------------
Dispatch(r) ==
    \/ Malformed(r) \/ Refuse(r)
    \/ \E kind \in {"sync", "evaluate"} : Call(r, kind)
    \/ \E kind \in {"enable", "disable"} : SetEnabled(r, kind)
    \/ TerminateExecution(r) \/ ScheduleStepIntoAsync(r)

JavaScript ==
    \/ StartScript \/ EndScript \/ Continue \/ AsyncTaskScheduled
    \/ \E accepted \in BOOLEAN : HandleProgramBreak(accepted)

Next ==
    \/ \E r \in Requests : Dispatch(r) \/ PromiseEnds(r)
    \/ Return \/ JavaScript \/ Connect \/ Disconnect

Spec == Init /\ [][Next]_vars

(* TerminateExecution interrupts the script and the handlers that run, and nothing else is
   owed: nobody has to let go of a pause. *)
Terminating == terminate # NoRequest
Fairness ==
    /\ WF_vars(Terminating /\ EndScript)
    /\ WF_vars(Terminating /\ Return)
FairSpec == Spec /\ Fairness

----------------------------------------------------------------------------
TypeOK ==
    /\ session \in Nat /\ connected \in BOOLEAN /\ enabled \in BOOLEAN
    /\ asked \in [Requests -> Kinds \cup {"none"}]
    /\ heard \subseteq Requests /\ live \subseteq Requests /\ waiting \subseteq Requests
    /\ answers \in [Requests -> Nat]
    /\ stack \in Seq({Script, Pause} \cup Requests)
    /\ \A i, j \in 1..Len(stack) : stack[i] = stack[j] => i = j
    /\ terminate \in Requests \cup {NoRequest} /\ step \in Requests \cup {NoRequest}

(* A callback that may still answer is held in exactly one place from which an event will take
   it: nothing is leaked by overriding, disabling or disconnecting, and nothing is held twice. *)
LiveIsHeld ==
    /\ live \subseteq Frames \cup waiting \cup {terminate, step}
    /\ waiting \cap Frames = {}
    /\ {terminate, step} \cap (Frames \cup waiting) = {}
    /\ terminate = step => terminate = NoRequest

(* Every request is answered at most once; and one that came over a connection which is still
   there has been answered unless its callback is still held. *)
RepliesAddUp ==
    /\ \A r \in Requests : answers[r] <= 1
    /\ \A r \in heard : (answers[r] = 1) <=> (r \notin live)

(* A front end that goes gets an answer to everything that still waits for a promise, before
   its connection does: the failures are sent while the dispatchers are alive. *)
DisconnectAnswersWaiting ==
    [][session' # session => \A r \in waiting : answers'[r] = 1]_vars

(* A request is lost only with its session or for want of a listener, and one that is lost is
   not answered in a later session, though the two slots of the debugger outlive sessions. *)
Status ==
    [r \in Requests |-> IF asked[r] \in {"none", "malformed"} THEN "idle"
                       ELSE IF answers[r] > 0 THEN "answered"
                       ELSE IF r \in live THEN "pending"
                       ELSE "lost"]
Replies == INSTANCE RequestReply WITH status <- Status, listening <- connected
ReplySpec == Replies!Spec

(* Whoever asked for it, a termination comes to its end and the slot is free for the next one,
   unless the debugger holds the script in a pause for good or time and again: a session that
   is gone does not keep it. *)
TerminationEnds == Terminating ~> (~Terminating \/ []<>Paused)
=============================================================================
