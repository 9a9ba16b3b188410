---------------------------- MODULE EngineThread ----------------------------
(***************************************************************************)
(* The JavaScript thread of the application and everything that posts to   *)
(* it: V8Engine, V8ThreadPolicy and its Looper, SquareEngine, the click    *)
(* and surface callbacks of the activities.                                *)
(*                                                                         *)
(* Threads.  Caller holds the threads that use V8Engine (Main is the       *)
(* Android main thread, the one the activities run on).  JsThread holds    *)
(* the Thread objects V8ThreadPolicy may allocate: the code means to       *)
(* allocate one, and that it does so is a property, not an assumption.     *)
(*                                                                         *)
(* V8ThreadPolicy.handler is a plain field: the JS thread writes it once   *)
(* and the others read it with no synchronisation, so a read after the     *)
(* write may still return null.  `aware` holds the threads that have seen  *)
(* the written value; as the memory of the devices is coherent, a thread   *)
(* that saw it does not see null again.                                    *)
(*                                                                         *)
(* Time.  `now` is SystemClock.uptimeMillis in coarse units; a Looper      *)
(* serves its messages by due time and then in the order they were posted. *)
(***************************************************************************)
EXTENDS Naturals

CONSTANTS Caller, Main, JsThread,
          Delay,          \* the delays callers pass to postOnJSThread
          MaxTime,        \* bound: no message is due later
          MaxPosts,       \* bound: calls that reach runDelegateRunnable
          NoCaller, NoThread, NoMessage

ASSUME EngineAssumption ==
  /\ Main \in Caller
  /\ NoCaller \notin Caller
  /\ NoThread \notin JsThread
  /\ MaxTime \in Nat /\ MaxPosts \in Nat
  /\ Delay \subseteq Nat /\ 0 \in Delay

(* What the posted Runnables do: register call_to_java or call_to_flutter, *)
(* require app.js or test.js, evaluate the script of callToJavaClick,      *)
(* V8.onSurfaceCreate, and any other Runnable.                             *)
Register == {"call_to_java", "call_to_flutter"}
Script   == {"app.js", "test.js", "eval"}
Op       == Register \union Script \union {"surface", "run"}
Message  == [op : Op, due : 0..MaxTime, seq : 1..MaxPosts]

ASSUME NoMessageAssumption == NoMessage \notin Message

VARIABLES
  monitor,     \* the thread inside a synchronized method of V8Engine
  pc,          \* where each caller is
  jsThread,    \* V8ThreadPolicy.jsThread
  tpc,         \* where each JS thread is in V8EngineRunnable.run
  handler,     \* V8ThreadPolicy.handler: the thread whose Looper it feeds
  aware,       \* the callers that have seen handler # null
  v8,          \* V8Engine.v8: the thread that created the runtime
  queue,       \* the message queue of each JS thread's Looper
  running,     \* the message each JS thread is handling
  paused,      \* the JS threads whose script the debugger has stopped
  posts,       \* calls of runDelegateRunnable so far
  now,
  methods,     \* Java methods registered on the global object
  canvas,      \* Canvas::globalCanvas # nullptr
  outbox,      \* invokeMethod Runnables in the main looper
  invoked,     \* method-channel calls made on the main thread
  process,     \* "alive", or "dead" once an error ended the process
  refused,     \* history: the callers with a call dropped so far
  finished     \* history: messages handled to the end

caller == <<monitor, pc, jsThread>>
effects == <<methods, canvas, outbox, invoked>>
vars == <<caller, tpc, handler, aware, v8, queue, running, paused, posts, now,
          effects, process, refused, finished>>

(* The posts that a SquareEngine.start in progress has still to make; the   *)
(* bound MaxPosts leaves room for them.                                    *)
Owed == IF pc[Main] = "registered_one" THEN 2
        ELSE IF pc[Main] = "registered_two" THEN 1 ELSE 0

CallerPc == {"idle", "locked", "null", "registered_one", "registered_two"}
ThreadPc == {"unused", "new", "published", "looping"}

TypeOK ==
  /\ monitor \in Caller \union {NoCaller}
  /\ pc \in [Caller -> CallerPc]
  /\ jsThread \in JsThread \union {NoThread}
  /\ tpc \in [JsThread -> ThreadPc]
  /\ handler \in JsThread \union {NoThread}
  /\ aware \subseteq Caller
  /\ v8 \in JsThread \union {NoThread}
  /\ queue \in [JsThread -> SUBSET Message]
  /\ running \in [JsThread -> Message \union {NoMessage}]
  /\ paused \subseteq JsThread
  /\ posts \in Nat /\ posts + Owed <= MaxPosts
  /\ now \in 0..MaxTime
  /\ methods \subseteq Register
  /\ canvas \in BOOLEAN
  /\ outbox \in Nat /\ invoked \in Nat
  /\ process \in {"alive", "dead"}
  /\ refused \subseteq Caller
  /\ finished \subseteq Message

Init ==
  /\ monitor = NoCaller
  /\ pc = [c \in Caller |-> "idle"]
  /\ jsThread = NoThread
  /\ tpc = [t \in JsThread |-> "unused"]
  /\ handler = NoThread
  /\ aware = {}
  /\ v8 = NoThread
  /\ queue = [t \in JsThread |-> {}]
  /\ running = [t \in JsThread |-> NoMessage]
  /\ paused = {}
  /\ posts = 0 /\ now = 0
  /\ methods = {} /\ canvas = FALSE
  /\ outbox = 0 /\ invoked = 0
  /\ process = "alive"
  /\ refused = {} /\ finished = {}

-----------------------------------------------------------------------------
(* V8Engine.startEngine: a synchronized method around startV8Thread, which *)
(* tests jsThread and then creates and starts the thread.                  *)

EnterStartUnlocked(c) ==
  /\ pc[c] = "idle"
  /\ pc' = [pc EXCEPT ![c] = "locked"]
  /\ UNCHANGED <<monitor, jsThread, tpc>>

EnterStart(c) ==
  /\ pc[c] = "idle"
  /\ monitor = NoCaller
  /\ monitor' = c
  /\ pc' = [pc EXCEPT ![c] = "locked"]
  /\ UNCHANGED <<jsThread, tpc>>

TestJsThread(c) ==
  /\ pc[c] = "locked"
  /\ IF jsThread = NoThread
       THEN /\ pc' = [pc EXCEPT ![c] = "null"]
            /\ UNCHANGED monitor
       ELSE /\ pc' = [pc EXCEPT ![c] = "idle"]
            /\ monitor' = NoCaller
  /\ UNCHANGED <<jsThread, tpc>>

CreateJsThread(c) ==
  /\ pc[c] = "null"
  /\ \E t \in JsThread :
       /\ tpc[t] = "unused"
       /\ jsThread' = t
       /\ tpc' = [tpc EXCEPT ![t] = "new"]
  /\ monitor' = NoCaller
  /\ pc' = [pc EXCEPT ![c] = "idle"]

(* Bound: no new call of startEngine once the handler is published.  Such  *)
(* a call finds jsThread set, takes the monitor and gives it back.         *)
StartBound(c) == pc[c] = "idle" => handler = NoThread

StartEngine(c) ==
  /\ process = "alive" /\ StartBound(c)
  /\ EnterStart(c) \/ TestJsThread(c) \/ CreateJsThread(c)
  /\ UNCHANGED <<handler, aware, v8, queue, running, paused, posts, now,
                 effects, process, refused, finished>>

-----------------------------------------------------------------------------
(* V8EngineRunnable.run: prepare a Looper and publish the handler, create  *)
(* the runtime, then loop.                                                 *)

(* Faulty variant: the runtime is made lazily, after Looper.loop() begins.  *)
PublishThenLoop(t) ==
  /\ tpc[t] = "new"
  /\ handler' = t
  /\ tpc' = [tpc EXCEPT ![t] = "looping"]
  /\ UNCHANGED v8

PublishHandler(t) ==
  /\ tpc[t] = "new"
  /\ handler' = t
  /\ tpc' = [tpc EXCEPT ![t] = "published"]
  /\ UNCHANGED v8

(* Faulty variant: the thread ends instead of entering Looper.loop().      *)
StartEngineInternalOnly(t) ==
  /\ tpc[t] = "published"
  /\ v8' = t
  /\ tpc' = [tpc EXCEPT ![t] = "ended"]
  /\ UNCHANGED handler

StartEngineInternal(t) ==
  /\ tpc[t] = "published"
  /\ v8' = t
  /\ tpc' = [tpc EXCEPT ![t] = "looping"]
  /\ UNCHANGED handler

Boot(t) ==
  /\ process = "alive"
  /\ PublishHandler(t) \/ StartEngineInternal(t)
  /\ UNCHANGED <<caller, aware, queue, running, paused, posts, now, effects,
                 process, refused, finished>>

-----------------------------------------------------------------------------
(* V8ThreadPolicy.runDelegateRunnable: with no handler the call returns    *)
(* without a trace, otherwise the Runnable is queued on the handler.       *)

Drop(c) ==
  /\ handler = NoThread \/ c \notin aware
  /\ refused' = refused \union {c}
  /\ UNCHANGED <<aware, queue>>

(* Faulty variant: an absolute time is passed where a delay is expected.   *)
EnqueueAbsolute(c, op, delay) ==
  /\ handler # NoThread
  /\ queue' = [queue EXCEPT ![handler] =
       @ \union {[op |-> op, due |-> now + now + delay, seq |-> posts + 1]}]
  /\ aware' = aware \union {c}
  /\ UNCHANGED refused

Enqueue(c, op, delay) ==
  /\ handler # NoThread
  /\ queue' = [queue EXCEPT ![handler] =
                 @ \union {[op |-> op, due |-> now + delay, seq |-> posts + 1]}]
  /\ aware' = aware \union {c}
  /\ UNCHANGED refused

RunDelegateRunnable(c, op, delay) ==
  /\ process = "alive"
  /\ now + delay <= MaxTime
  /\ posts' = posts + 1
  /\ Drop(c) \/ Enqueue(c, op, delay)
  /\ UNCHANGED <<monitor, jsThread, tpc, handler, v8, running, paused, now,
                 effects, process, finished>>

(* postOnJSThread and runOnJSThread: both only post, with or without delay. *)
PostOnJSThread(c) ==
  /\ pc[c] = "idle" /\ posts + Owed < MaxPosts
  /\ \E delay \in Delay : RunDelegateRunnable(c, "run", delay)
  /\ UNCHANGED pc

(* The callbacks of the activities, on the main thread.  The activity has  *)
(* called startEngine before any of them.                                  *)
MainPost(op) ==
  /\ pc[Main] = "idle" /\ jsThread # NoThread
  /\ posts < MaxPosts
  /\ RunDelegateRunnable(Main, op, 0)
  /\ UNCHANGED pc

OnTestClick == MainPost("test.js")     \* the button of MainActivity
CallToJavaClick == MainPost("eval")
SurfaceCreated == MainPost("surface")

MainCallback == OnTestClick \/ CallToJavaClick \/ SurfaceCreated

(* Faulty variant of SquareStart below: the require is posted first.        *)
SquareStartRequireFirst ==
  /\ \/ /\ pc[Main] = "idle" /\ jsThread # NoThread
        /\ posts + 3 <= MaxPosts
        /\ RunDelegateRunnable(Main, "app.js", 0)
        /\ pc' = [pc EXCEPT ![Main] = "registered_one"]
     \/ /\ pc[Main] = "registered_one"
        /\ RunDelegateRunnable(Main, "call_to_java", 0)
        /\ pc' = [pc EXCEPT ![Main] = "registered_two"]
     \/ /\ pc[Main] = "registered_two"
        /\ RunDelegateRunnable(Main, "call_to_flutter", 0)
        /\ pc' = [pc EXCEPT ![Main] = "idle"]

(* SquareEngine.start: two registrations and a require, one post each.     *)
(* The constructor of SquareEngine has called startEngine.                 *)
SquareStart ==
  /\ \/ /\ pc[Main] = "idle" /\ jsThread # NoThread
        /\ posts + 3 <= MaxPosts
        /\ RunDelegateRunnable(Main, "call_to_java", 0)
        /\ pc' = [pc EXCEPT ![Main] = "registered_one"]
     \/ /\ pc[Main] = "registered_one"
        /\ RunDelegateRunnable(Main, "call_to_flutter", 0)
        /\ pc' = [pc EXCEPT ![Main] = "registered_two"]
     \/ /\ pc[Main] = "registered_two"
        /\ RunDelegateRunnable(Main, "app.js", 0)
        /\ pc' = [pc EXCEPT ![Main] = "idle"]

-----------------------------------------------------------------------------
(* Looper.loop: take the earliest message that is due and handle it.       *)

(* Faulty variant: messages due at the same time in no particular order.   *)
BeforeByTime(m, n) == m.due <= n.due

Before(m, n) ==
  \/ m.due < n.due
  \/ m.due = n.due /\ m.seq < n.seq

TakeMessage(t) ==
  /\ process = "alive"
  /\ tpc[t] = "looping" /\ running[t] = NoMessage
  /\ \E m \in queue[t] :
       /\ m.due <= now
       /\ \A n \in queue[t] \ {m} : Before(m, n)
       /\ queue' = [queue EXCEPT ![t] = @ \ {m}]
       /\ running' = [running EXCEPT ![t] = m]
  /\ UNCHANGED <<caller, tpc, handler, aware, v8, paused, posts, now, effects,
                 process, refused, finished>>

(* A script that throws ends the process where the caller takes the result *)
(* with ToLocalChecked, as runScript does; require() itself swallows it.   *)
EvalFails(op) == op = "eval" /\ "call_to_java" \notin methods

(* Context2d::New, which test.js calls, dereferences Canvas::globalCanvas.  *)
NewContext2dFails(op) == op = "test.js" /\ ~canvas

Fatal(op) == EvalFails(op) \/ NewContext2dFails(op)

(* Faulty variant: registering a method replaces the earlier registrations. *)
RegisterOnlyMethod(op) ==
  /\ op \in Register
  /\ methods' = {op}
  /\ UNCHANGED <<canvas, outbox>>

RegisterJavaMethod(op) ==
  /\ op \in Register
  /\ methods' = methods \union {op}
  /\ UNCHANGED <<canvas, outbox>>

(* Every surface makes a new globalCanvas; none is ever taken away.        *)
OnSurfaceCreate(op) ==
  /\ op = "surface"
  /\ canvas' = TRUE
  /\ UNCHANGED <<methods, outbox>>

(* require and runScript, from the first statement of the script to the    *)
(* return.  app.js pushes a page with call_to_flutter, whose JavaCallback  *)
(* posts to the main looper.                                               *)
RunScript(op) ==
  /\ op \in Script
  /\ outbox' = IF op = "app.js" /\ "call_to_flutter" \in methods
                 THEN outbox + 1 ELSE outbox
  /\ UNCHANGED <<methods, canvas>>

(* A script stops: at its first statement, for the break that require      *)
(* schedules, or at any break while a front end is connected.  The JS      *)
(* thread is then in runMessageLoop, inside the Runnable, and its Looper   *)
(* serves nothing.                                                         *)
PauseScript(t) ==
  /\ process = "alive"
  /\ running[t] # NoMessage /\ running[t].op \in Script
  /\ t \notin paused
  /\ paused' = paused \union {t}
  /\ UNCHANGED <<caller, tpc, handler, aware, v8, queue, running, posts, now,
                 effects, process, refused, finished>>

(* runMessageLoop returns and the script goes on.  Nothing makes it return: *)
(* take() waits for a message of the front end (module Inspector).         *)
ResumeScript(t) ==
  /\ process = "alive"
  /\ t \in paused
  /\ paused' = paused \ {t}
  /\ UNCHANGED <<caller, tpc, handler, aware, v8, queue, running, posts, now,
                 effects, process, refused, finished>>

RunOther(op) == op = "run" /\ UNCHANGED <<methods, canvas, outbox>>

HandleMessage(t) ==
  /\ process = "alive"
  /\ running[t] # NoMessage /\ ~Fatal(running[t].op)
  /\ t \notin paused
  /\ \/ RegisterJavaMethod(running[t].op)
     \/ OnSurfaceCreate(running[t].op)
     \/ RunScript(running[t].op)
     \/ RunOther(running[t].op)
  /\ running' = [running EXCEPT ![t] = NoMessage]
  /\ finished' = finished \union {running[t]}
  /\ UNCHANGED <<caller, tpc, handler, aware, v8, queue, paused, posts, now,
                 invoked, process, refused>>

ScriptFails(t) ==
  /\ process = "alive"
  /\ running[t] # NoMessage /\ Fatal(running[t].op)
  /\ t \notin paused
  /\ process' = "dead"
  /\ UNCHANGED <<caller, tpc, handler, aware, v8, queue, running, paused, posts,
                 now, effects, refused, finished>>

(* The Runnable call_to_flutter posted to the main looper.                 *)
InvokeMethod ==
  /\ process = "alive"
  /\ pc[Main] = "idle" /\ outbox > 0
  /\ outbox' = outbox - 1
  /\ invoked' = invoked + 1
  /\ UNCHANGED <<caller, tpc, handler, aware, v8, queue, running, paused, posts,
                 now, methods, canvas, process, refused, finished>>

Tick ==
  /\ process = "alive"
  /\ now < MaxTime
  /\ now' = now + 1
  /\ UNCHANGED <<caller, tpc, handler, aware, v8, queue, running, paused, posts,
                 effects, process, refused, finished>>

Next ==
  \/ \E c \in Caller : StartEngine(c) \/ PostOnJSThread(c)
  \/ MainCallback \/ SquareStart
  \/ \E t \in JsThread :
       \/ Boot(t) \/ TakeMessage(t) \/ HandleMessage(t) \/ ScriptFails(t)
       \/ PauseScript(t) \/ ResumeScript(t)
  \/ InvokeMethod
  \/ Tick

Spec == Init /\ [][Next]_vars

(* Every thread that can take a step eventually does, and time passes.     *)
(* Nothing makes a caller begin a call, and nothing resumes a script: only  *)
(* one that is not stopped must come to its end.                           *)
Fairness ==
  /\ \A c \in Caller : WF_vars(StartEngine(c) /\ pc[c] # "idle")
  /\ WF_vars(SquareStart /\ pc[Main] # "idle")
  /\ \A t \in JsThread :
       /\ WF_vars(Boot(t))
       /\ WF_vars(TakeMessage(t) \/ HandleMessage(t) \/ ScriptFails(t))
  /\ WF_vars(InvokeMethod)
  /\ WF_vars(Tick)

FairSpec == Spec /\ Fairness

-----------------------------------------------------------------------------
(* Properties.                                                             *)

Pending == IF jsThread = NoThread THEN {} ELSE queue[jsThread]
Current == IF jsThread = NoThread THEN NoMessage ELSE running[jsThread]

(* However many threads call startEngine at once, one JS thread exists:    *)
(* startV8Thread's test and its assignment are not separated.              *)
OneJSThread == \A t \in JsThread : tpc[t] # "unused" => t = jsThread

(* No Runnable runs before V8.createRuntime has returned on the thread     *)
(* that runs it, although Runnables are accepted before that.              *)
TaskOnReadyRuntime == \A t \in JsThread : running[t] # NoMessage => v8 = t

(* A script finds every Java method whose registration was posted before   *)
(* it: registrations are not overtaken and not undone.                     *)
MethodsBeforeScript ==
  \A t \in JsThread :
    running[t] # NoMessage /\ running[t].op \in Script =>
      \A m \in queue[t] \union finished :
        m.op \in Register /\ Before(m, running[t]) => m.op \in methods

(* Once one of a thread's Runnables was accepted none of its later ones    *)
(* is dropped, so SquareEngine.start is never cut in its middle.           *)
AcceptedStaysAccepted ==
  [][\A c \in aware : c \in refused' => c \in refused]_vars

(* The handler, the Looper and the JS thread together are a serial         *)
(* executor that serves Runnables by due time and then by arrival.         *)
Executor == INSTANCE TaskExecutor
  WITH Task <- Message, NoTask <- NoMessage,
       pending <- Pending, current <- Current, finished <- finished
ExecutorSpec == Executor!Spec

(* An error has ended the process, or the debugger stops a script for good *)
(* or time and again: every Runnable behind it waits as long.              *)
Stuck == process = "dead" \/ []<>(paused # {})

(* Every accepted Runnable is handled, unless an error ends the process or *)
(* a script is stopped in the debugger and not let go.                     *)
AcceptedIsHandled ==
  \A s \in 1..MaxPosts :
    (\E m \in Pending : m.seq = s)
      ~> (Stuck \/ \E m \in finished : m.seq = s)

(* If SquareEngine.start found the handler, the page app.js pushes reaches *)
(* the method channel on the main thread, with the same two exceptions.    *)
PageIsPushed ==
  (Main \notin refused /\ \E m \in Pending : m.op = "app.js")
    ~> (Stuck \/ invoked > 0)

(* What IJSRuntime says of postOnJSThread: the Runnable is posted to the   *)
(* JS thread.  The code drops it while the handler is not there, which the *)
(* callbacks of an activity meet although it called startEngine before.    *)
EveryPostIsAccepted == jsThread = NoThread \/ Main \notin refused
=============================================================================
