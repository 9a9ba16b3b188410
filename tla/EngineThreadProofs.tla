------------------------- MODULE EngineThreadProofs -------------------------
(* Proofs about EngineThread, for every set of callers and threads, every  *)
(* bound and every set of delays.                                          *)
EXTENDS EngineThread, TLAPS

USE EngineAssumption, NoMessageAssumption DEF EngineAssumption, NoMessageAssumption

-----------------------------------------------------------------------------
(* The inductive invariant, in three parts.                                *)

(* The monitor separates the test of jsThread from its assignment, and the *)
(* fields the JS thread writes name that thread only.                      *)
ThreadInv ==
  /\ \A c \in Caller : pc[c] \in {"locked", "null"} => monitor = c
  /\ \A c \in Caller : pc[c] = "null" => jsThread = NoThread
  /\ \A t \in JsThread : tpc[t] # "unused" => t = jsThread
  /\ handler # NoThread => handler = jsThread
  /\ \A t \in JsThread : tpc[t] \in {"published", "looping"} => handler = t
  /\ \A t \in JsThread : tpc[t] = "looping" => v8 = t
  /\ aware # {} => handler # NoThread

(* Messages are only where the Looper can serve them, carry the number of  *)
(* a call already made, and none in the queue precedes the one running.    *)
MessageInv ==
  /\ \A t \in JsThread : queue[t] # {} => handler = t
  /\ \A t \in JsThread : running[t] # NoMessage => tpc[t] = "looping"
  /\ \A t \in JsThread : \A m \in queue[t] : m.seq <= posts
  /\ \A m \in finished : m.seq <= posts
  /\ \A t \in JsThread : running[t] # NoMessage =>
       /\ running[t].due <= now
       /\ running[t].seq <= posts
       /\ \A m \in queue[t] : ~Before(m, running[t])

(* A registration that was handled is in force.                            *)
MethodInv == \A m \in finished : m.op \in Register => m.op \in methods

IInv == TypeOK /\ ThreadInv /\ MessageInv /\ MethodInv

-----------------------------------------------------------------------------
(* What a message of a Looper carries.                                     *)
LEMMA MessageFields ==
  ASSUME NEW m \in Message
  PROVE  /\ m.op \in Op /\ m.due \in Nat /\ m.seq \in Nat
         /\ m.due <= MaxTime /\ m.seq <= MaxPosts
BY DEF Message

(* The application starts in the inductive invariant.                      *)
LEMMA InitIInv == Init => IInv
<1>. SUFFICES ASSUME Init PROVE IInv
  OBVIOUS
<1>1. TypeOK
  <2>1. Owed = 0
    BY DEF Init, Owed
  <2>2. posts \in Nat /\ posts + Owed <= MaxPosts /\ now \in 0..MaxTime
    BY <2>1 DEF Init
  <2>. QED BY <2>2 DEF Init, TypeOK, CallerPc, ThreadPc
<1>2. ThreadInv
  BY DEF Init, ThreadInv
<1>3. MessageInv
  BY DEF Init, MessageInv
<1>4. MethodInv
  BY DEF Init, MethodInv
<1>. QED BY <1>1, <1>2, <1>3, <1>4 DEF IInv

(* What a call of runDelegateRunnable does to the state, whoever calls it. *)
LEMMA PostCases ==
  ASSUME NEW c \in Caller, NEW op, NEW delay, RunDelegateRunnable(c, op, delay)
  PROVE  \/ /\ handler = NoThread \/ c \notin aware
            /\ refused' = refused \union {c}
            /\ aware' = aware /\ queue' = queue
         \/ /\ handler # NoThread
            /\ queue' = [queue EXCEPT ![handler] = @ \union
                 {[op |-> op, due |-> now + delay, seq |-> posts + 1]}]
            /\ aware' = aware \union {c}
            /\ refused' = refused
BY DEF RunDelegateRunnable, Drop, Enqueue

(* Type correctness of a call of runDelegateRunnable, given what the       *)
(* caller's own program counter guarantees about the bound.                *)
LEMMA PostType ==
  ASSUME TypeOK, NEW c \in Caller, NEW op \in Op, NEW delay \in Delay,
         RunDelegateRunnable(c, op, delay), posts < MaxPosts,
         pc' \in [Caller -> CallerPc], posts + 1 + Owed' <= MaxPosts
  PROVE  TypeOK'
<1>1. [op |-> op, due |-> now + delay, seq |-> posts + 1] \in Message
  BY DEF TypeOK, RunDelegateRunnable, Message
<1>2. queue' \in [JsThread -> SUBSET Message] /\ aware' \subseteq Caller
      /\ refused' \subseteq Caller
  BY <1>1, PostCases DEF TypeOK
<1>3. posts' \in Nat /\ posts' + Owed' <= MaxPosts
  BY DEF RunDelegateRunnable, TypeOK
<1>. QED BY <1>2, <1>3 DEF TypeOK, RunDelegateRunnable, effects

(* The callbacks of the activities are calls of runDelegateRunnable.       *)
LEMMA MainCallbackPosts ==
  ASSUME MainCallback
  PROVE  /\ pc[Main] = "idle" /\ posts < MaxPosts /\ UNCHANGED pc
         /\ \E op \in Op : RunDelegateRunnable(Main, op, 0)
BY DEF MainCallback, OnTestClick, CallToJavaClick, SurfaceCreated, MainPost,
       Op, Script

(* A Runnable changes nothing but the methods, the canvas and the outbox.  *)
LEMMA HandlerEffects ==
  ASSUME NEW t \in JsThread, HandleMessage(t)
  PROVE  /\ methods' = IF running[t].op \in Register
                         THEN methods \union {running[t].op} ELSE methods
         /\ canvas' \in {canvas, TRUE}
         /\ outbox' \in {outbox, outbox + 1}
BY DEF HandleMessage, RegisterJavaMethod, OnSurfaceCreate, RunScript, RunOther,
       Register, Script

(* Every step of every thread keeps the types.                             *)
LEMMA TypeStep == TypeOK /\ [Next]_vars => TypeOK'
<1>. SUFFICES ASSUME TypeOK, [Next]_vars PROVE TypeOK'
  OBVIOUS
<1>. USE DEF effects, caller
<1>1. ASSUME NEW c \in Caller, StartEngine(c) PROVE TypeOK'
  <2>1. monitor' \in Caller \union {NoCaller} /\ pc' \in [Caller -> CallerPc]
        /\ jsThread' \in JsThread \union {NoThread}
        /\ tpc' \in [JsThread -> ThreadPc]
    BY <1>1 DEF StartEngine, EnterStart, TestJsThread, CreateJsThread, TypeOK,
                CallerPc, ThreadPc
  <2>2. Owed' = Owed
    BY <1>1 DEF StartEngine, EnterStart, TestJsThread, CreateJsThread, TypeOK,
                Owed, CallerPc
  <2>. QED BY <1>1, <2>1, <2>2 DEF StartEngine, TypeOK
<1>2. ASSUME NEW c \in Caller, PostOnJSThread(c) PROVE TypeOK'
  <2>1. Owed' = Owed /\ posts < MaxPosts /\ posts + 1 + Owed <= MaxPosts
    BY <1>2 DEF PostOnJSThread, Owed, TypeOK
  <2>2. PICK delay \in Delay : RunDelegateRunnable(c, "run", delay)
    BY <1>2 DEF PostOnJSThread
  <2>3. pc' \in [Caller -> CallerPc]
    BY <1>2 DEF PostOnJSThread, TypeOK
  <2>. QED BY <2>1, <2>2, <2>3, PostType DEF Op
<1>3. CASE MainCallback
  <2>1. Owed = 0 /\ Owed' = 0 /\ posts < MaxPosts
    BY <1>3, MainCallbackPosts DEF Owed
  <2>2. PICK op \in Op : RunDelegateRunnable(Main, op, 0)
    BY <1>3, MainCallbackPosts
  <2>3. pc' \in [Caller -> CallerPc] /\ posts + 1 + Owed' <= MaxPosts
    BY <1>3, <2>1, MainCallbackPosts DEF TypeOK
  <2>. QED BY <2>1, <2>2, <2>3, PostType
<1>4. CASE SquareStart
  <2>1. pc' \in [Caller -> CallerPc] /\ posts < MaxPosts
        /\ posts + 1 + Owed' <= MaxPosts
    BY <1>4 DEF SquareStart, TypeOK, CallerPc, Owed
  <2>2. \E op \in {"call_to_java", "call_to_flutter", "app.js"} :
          RunDelegateRunnable(Main, op, 0)
    BY <1>4 DEF SquareStart
  <2>. QED BY <2>1, <2>2, PostType DEF Op, Script, Register
<1>5. ASSUME NEW t \in JsThread, Boot(t) PROVE TypeOK'
  BY <1>5 DEF Boot, PublishHandler, StartEngineInternal, TypeOK, ThreadPc, Owed
<1>6. ASSUME NEW t \in JsThread, TakeMessage(t) PROVE TypeOK'
  BY <1>6 DEF TakeMessage, TypeOK, Owed
<1>7. ASSUME NEW t \in JsThread, HandleMessage(t) PROVE TypeOK'
  <2>1. running[t] \in Message
    BY <1>7 DEF HandleMessage, TypeOK
  <2>2. methods' \subseteq Register /\ canvas' \in BOOLEAN /\ outbox' \in Nat
    <3>1. methods' \subseteq methods \union Register
      BY <1>7, HandlerEffects
    <3>2. canvas' \in BOOLEAN
      <4>1. canvas' = canvas \/ canvas' = TRUE
        BY <1>7, HandlerEffects
      <4>. QED BY <4>1 DEF TypeOK
    <3>3. outbox' = outbox \/ outbox' = outbox + 1
      BY <1>7, HandlerEffects
    <3>. QED BY <3>1, <3>2, <3>3 DEF TypeOK
  <2>. QED BY <1>7, <2>1, <2>2 DEF HandleMessage, TypeOK, Owed
<1>8. ASSUME NEW t \in JsThread, ScriptFails(t) PROVE TypeOK'
  BY <1>8 DEF ScriptFails, TypeOK, Owed
<1>9. ASSUME NEW t \in JsThread, PauseScript(t) \/ ResumeScript(t)
      PROVE  TypeOK'
  BY <1>9 DEF PauseScript, ResumeScript, TypeOK, Owed
<1>10. CASE InvokeMethod
  BY <1>10 DEF InvokeMethod, TypeOK, Owed
<1>11. CASE Tick
  BY <1>11 DEF Tick, TypeOK, Owed
<1>12. CASE UNCHANGED vars
  BY <1>12 DEF vars, TypeOK, Owed
<1>. QED
  BY <1>1, <1>2, <1>3, <1>4, <1>5, <1>6, <1>7, <1>8, <1>9, <1>10, <1>11,
     <1>12 DEF Next

(* Every variable keeps its type: in particular no message is due after    *)
(* the bound and the calls owed by SquareEngine.start stay within it.      *)
THEOREM TypeCorrect == Spec => []TypeOK
<1>1. Init => TypeOK
  BY InitIInv DEF IInv
<1>. QED BY <1>1, TypeStep, PTL DEF Spec

-----------------------------------------------------------------------------
(* Every post, whoever makes it, is a call of runDelegateRunnable that     *)
(* leaves the program counters outside startEngine alone.                  *)
LEMMA PostSteps ==
  ASSUME (\E c \in Caller : PostOnJSThread(c)) \/ MainCallback \/ SquareStart
  PROVE  \E c \in Caller, op \in Op, delay \in Delay :
           /\ RunDelegateRunnable(c, op, delay)
           /\ pc[c] \notin {"locked", "null"}
           /\ pc' = pc \/ pc' = [pc EXCEPT ![c] = "registered_one"]
                \/ pc' = [pc EXCEPT ![c] = "registered_two"]
                \/ pc' = [pc EXCEPT ![c] = "idle"]
BY MainCallbackPosts
   DEF PostOnJSThread, SquareStart, Op, Script, Register

(* Every step keeps one JS thread and the order in which it comes up.      *)
LEMMA ThreadStep == TypeOK /\ ThreadInv /\ [Next]_vars => ThreadInv'
<1>. SUFFICES ASSUME TypeOK, ThreadInv, [Next]_vars PROVE ThreadInv'
  OBVIOUS
<1>. USE DEF caller
<1>1. ASSUME NEW c \in Caller, StartEngine(c) PROVE ThreadInv'
  <2>1. CASE EnterStart(c)
    BY <1>1, <2>1 DEF StartEngine, EnterStart, ThreadInv, TypeOK
  <2>2. CASE TestJsThread(c)
    BY <1>1, <2>2 DEF StartEngine, TestJsThread, ThreadInv, TypeOK
  <2>3. CASE CreateJsThread(c)
    <3>1. PICK t \in JsThread : jsThread' = t /\ tpc' = [tpc EXCEPT ![t] = "new"]
      BY <2>3 DEF CreateJsThread
    <3>2. jsThread = NoThread /\ \A u \in JsThread : tpc[u] = "unused"
      BY <2>3 DEF CreateJsThread, ThreadInv
    <3>3. handler = NoThread
      BY <3>2 DEF ThreadInv
    <3>. QED BY <1>1, <2>3, <3>1, <3>2, <3>3
             DEF StartEngine, CreateJsThread, ThreadInv, TypeOK
  <2>. QED BY <1>1, <2>1, <2>2, <2>3 DEF StartEngine
<1>2. CASE (\E c \in Caller : PostOnJSThread(c)) \/ MainCallback \/ SquareStart
  <2>1. PICK c \in Caller, op \in Op, delay \in Delay :
           /\ RunDelegateRunnable(c, op, delay)
           /\ pc[c] \notin {"locked", "null"}
           /\ pc' = pc \/ pc' = [pc EXCEPT ![c] = "registered_one"]
                \/ pc' = [pc EXCEPT ![c] = "registered_two"]
                \/ pc' = [pc EXCEPT ![c] = "idle"]
    BY <1>2, PostSteps
  <2>2. aware' # {} => handler # NoThread
    BY <2>1, PostCases DEF ThreadInv
  <2>3. \A d \in Caller : pc'[d] \in {"locked", "null"} => pc'[d] = pc[d]
    BY <2>1 DEF TypeOK
  <2>. QED BY <2>1, <2>2, <2>3 DEF RunDelegateRunnable, ThreadInv
<1>3. ASSUME NEW t \in JsThread, Boot(t) PROVE ThreadInv'
  BY <1>3 DEF Boot, PublishHandler, StartEngineInternal, ThreadInv, TypeOK,
              ThreadPc
<1>4. ASSUME NEW t \in JsThread,
             \/ TakeMessage(t) \/ HandleMessage(t) \/ ScriptFails(t)
             \/ PauseScript(t) \/ ResumeScript(t)
      PROVE  ThreadInv'
  BY <1>4 DEF TakeMessage, HandleMessage, ScriptFails, PauseScript,
              ResumeScript, ThreadInv
<1>5. CASE InvokeMethod \/ Tick \/ UNCHANGED vars
  BY <1>5 DEF InvokeMethod, Tick, vars, ThreadInv
<1>. QED BY <1>1, <1>2, <1>3, <1>4, <1>5 DEF Next

(* No interleaving of callers makes a second JS thread.                    *)
THEOREM SingleThread == Spec => []OneJSThread
<1>1. Init => TypeOK /\ ThreadInv
  BY InitIInv DEF IInv
<1>2. TypeOK /\ ThreadInv /\ [Next]_vars => (TypeOK /\ ThreadInv)'
  BY TypeStep, ThreadStep
<1>3. ThreadInv => OneJSThread
  BY DEF ThreadInv, OneJSThread
<1>. QED BY <1>1, <1>2, <1>3, PTL DEF Spec

-----------------------------------------------------------------------------
(* Every step keeps the messages of a Looper served in their order.        *)
LEMMA MessageStep ==
  TypeOK /\ ThreadInv /\ MessageInv /\ [Next]_vars => MessageInv'
<1>. SUFFICES ASSUME TypeOK, ThreadInv, MessageInv, [Next]_vars
              PROVE  MessageInv'
  OBVIOUS
<1>. USE DEF caller
<1>1. ASSUME NEW c \in Caller, StartEngine(c) PROVE MessageInv'
  BY <1>1 DEF StartEngine, EnterStart, TestJsThread, CreateJsThread,
              MessageInv, TypeOK
<1>2. CASE (\E c \in Caller : PostOnJSThread(c)) \/ MainCallback \/ SquareStart
  <2>1. PICK c \in Caller, op \in Op, delay \in Delay :
           RunDelegateRunnable(c, op, delay)
    BY <1>2, PostSteps
  <2>2. posts' = posts + 1 /\ posts \in Nat /\ now \in Nat /\ delay \in Nat
        /\ UNCHANGED <<tpc, handler, running, now, finished>>
    BY <2>1 DEF RunDelegateRunnable, TypeOK
  <2>3. CASE queue' = queue
    BY <2>2, <2>3, MessageFields DEF MessageInv, TypeOK
  <2>4. CASE /\ handler # NoThread
             /\ queue' = [queue EXCEPT ![handler] = @ \union
                  {[op |-> op, due |-> now + delay, seq |-> posts + 1]}]
    <3>. DEFINE new == [op |-> op, due |-> now + delay, seq |-> posts + 1]
    <3>1. \A t \in JsThread : \A m \in queue'[t] : m \in queue[t] \/ m = new
      BY <2>4 DEF TypeOK
    <3>2. \A t \in JsThread : queue'[t] # {} => handler = t
      BY <2>4 DEF MessageInv, TypeOK
    <3>3. \A t \in JsThread : \A m \in queue'[t] : m.seq <= posts'
      BY <2>2, <3>1, MessageFields DEF MessageInv, TypeOK
    <3>4. \A t \in JsThread : running[t] # NoMessage =>
            \A m \in queue'[t] : ~Before(m, running[t])
      <4>. SUFFICES ASSUME NEW t \in JsThread, running[t] # NoMessage
                    PROVE  ~Before(new, running[t])
        BY <3>1 DEF MessageInv
      <4>1. running[t] \in Message /\ running[t].due <= now
            /\ running[t].seq <= posts
        BY DEF MessageInv, TypeOK
      <4>. QED BY <2>2, <4>1, MessageFields DEF Before
    <3>5. \A m \in finished' : m.seq <= posts'
      BY <2>2, MessageFields DEF MessageInv, TypeOK
    <3>6. \A t \in JsThread : running'[t] # NoMessage =>
            running'[t].seq <= posts' /\ running'[t].due <= now'
      BY <2>2, MessageFields DEF MessageInv, TypeOK
    <3>. QED BY <2>2, <3>2, <3>3, <3>4, <3>5, <3>6 DEF MessageInv
  <2>. QED BY <2>1, <2>3, <2>4, PostCases
<1>3. ASSUME NEW t \in JsThread, Boot(t) PROVE MessageInv'
  BY <1>3 DEF Boot, PublishHandler, StartEngineInternal, MessageInv, ThreadInv,
              TypeOK
<1>4. ASSUME NEW t \in JsThread, TakeMessage(t) PROVE MessageInv'
  <2>1. PICK m \in queue[t] :
          /\ m.due <= now
          /\ \A n \in queue[t] \ {m} : Before(m, n)
          /\ queue' = [queue EXCEPT ![t] = @ \ {m}]
          /\ running' = [running EXCEPT ![t] = m]
    BY <1>4 DEF TakeMessage
  <2>2. m \in Message /\ queue[t] \subseteq Message
    BY DEF TypeOK
  <2>3. \A n \in queue'[t] : ~Before(n, m)
    BY <2>1, <2>2, MessageFields DEF Before, TypeOK
  <2>4. UNCHANGED <<tpc, handler, posts, now, finished>> /\ tpc[t] = "looping"
    BY <1>4 DEF TakeMessage
  <2>5. m.seq <= posts
    BY DEF MessageInv
  <2>. QED BY <2>1, <2>3, <2>4, <2>5 DEF MessageInv, TypeOK
<1>5. ASSUME NEW t \in JsThread, HandleMessage(t) PROVE MessageInv'
  BY <1>5 DEF HandleMessage, MessageInv, TypeOK
<1>6. ASSUME NEW t \in JsThread,
             ScriptFails(t) \/ PauseScript(t) \/ ResumeScript(t)
      PROVE  MessageInv'
  BY <1>6 DEF ScriptFails, PauseScript, ResumeScript, MessageInv
<1>7. CASE InvokeMethod \/ UNCHANGED vars
  BY <1>7 DEF InvokeMethod, vars, MessageInv
<1>8. CASE Tick
  BY <1>8, MessageFields DEF Tick, MessageInv, TypeOK
<1>. QED BY <1>1, <1>2, <1>3, <1>4, <1>5, <1>6, <1>7, <1>8 DEF Next

(* Registrations handled to the end stay registered.                       *)
LEMMA MethodStep == TypeOK /\ MethodInv /\ [Next]_vars => MethodInv'
<1>. SUFFICES ASSUME TypeOK, MethodInv, [Next]_vars PROVE MethodInv'
  OBVIOUS
<1>1. ASSUME NEW t \in JsThread, HandleMessage(t) PROVE MethodInv'
  BY <1>1, HandlerEffects DEF HandleMessage, MethodInv
<1>2. CASE UNCHANGED <<finished, methods>>
  BY <1>2 DEF MethodInv
<1>3. CASE (\E c \in Caller : PostOnJSThread(c)) \/ MainCallback \/ SquareStart
  BY <1>2, <1>3, PostSteps DEF RunDelegateRunnable, effects
<1>. QED
  BY <1>1, <1>2, <1>3
     DEF Next, StartEngine, Boot, TakeMessage, ScriptFails, PauseScript,
         ResumeScript, InvokeMethod, Tick, effects, vars

(* The inductive invariant holds in every reachable state.                 *)
THEOREM Inductive == Spec => []IInv
<1>1. IInv /\ [Next]_vars => IInv'
  BY TypeStep, ThreadStep, MessageStep, MethodStep DEF IInv
<1>. QED BY <1>1, InitIInv, PTL DEF Spec

(* No Runnable runs before its runtime exists.                             *)
THEOREM RunsOnReadyRuntime == Spec => []TaskOnReadyRuntime
<1>1. IInv => TaskOnReadyRuntime
  BY DEF IInv, ThreadInv, MessageInv, TaskOnReadyRuntime
<1>. QED BY <1>1, Inductive, PTL

(* A script runs after every registration posted before it.                *)
THEOREM ScriptsFindMethods == Spec => []MethodsBeforeScript
<1>1. IInv => MethodsBeforeScript
  BY DEF IInv, MessageInv, MethodInv, MethodsBeforeScript
<1>. QED BY <1>1, Inductive, PTL

(* A caller whose Runnable was accepted has none dropped later.            *)
THEOREM NoLaterDrop == Spec => AcceptedStaysAccepted
<1>1. TypeOK /\ ThreadInv /\ [Next]_vars =>
        [\A c \in aware : c \in refused' => c \in refused]_vars
  <2>. SUFFICES ASSUME TypeOK, ThreadInv, [Next]_vars, ~UNCHANGED vars,
                       NEW c \in aware, c \in refused'
                PROVE  c \in refused
    OBVIOUS
  <2>1. CASE (\E d \in Caller : PostOnJSThread(d)) \/ MainCallback
             \/ SquareStart
    <3>1. PICK d \in Caller, op \in Op, delay \in Delay :
             RunDelegateRunnable(d, op, delay)
      BY <2>1, PostSteps
    <3>. QED BY <3>1, PostCases DEF ThreadInv
  <2>2. CASE UNCHANGED refused
    BY <2>2
  <2>. QED
    BY <2>1, <2>2 DEF Next, StartEngine, Boot, TakeMessage, HandleMessage,
                      ScriptFails, PauseScript, ResumeScript, InvokeMethod,
                      Tick, vars
<1>. QED BY <1>1, Inductive, PTL DEF AcceptedStaysAccepted, Spec, IInv

-----------------------------------------------------------------------------
(* Refinement: every step of the threads is a step of the serial executor, *)
(* or leaves what the executor sees unchanged.                             *)

(* Before startEngine the executor has no task.                            *)
LEMMA ExecutorInit == Init => Executor!Init
BY DEF Init, Executor!Init, Pending, Current

(* Every step is one of the executor, or changes nothing it can see.       *)
LEMMA ExecutorStep == IInv /\ [Next]_vars => [Executor!Next]_(Executor!vars)
<1>. SUFFICES ASSUME IInv, [Next]_vars PROVE [Executor!Next]_(Executor!vars)
  OBVIOUS
<1>. USE DEF caller
<1>t. TypeOK /\ ThreadInv /\ MessageInv
  BY DEF IInv
<1>1. CASE UNCHANGED <<jsThread, queue, running, finished>>
  BY <1>1 DEF Executor!vars, Pending, Current
<1>2. ASSUME NEW c \in Caller, CreateJsThread(c), StartEngine(c)
      PROVE  [Executor!Next]_(Executor!vars)
  <2>1. jsThread = NoThread /\ handler = NoThread
    BY <1>2, <1>t DEF CreateJsThread, ThreadInv
  <2>2. PICK t \in JsThread : jsThread' = t /\ tpc[t] = "unused"
    BY <1>2 DEF CreateJsThread
  <2>3. queue[t] = {} /\ running[t] = NoMessage
    BY <1>t, <2>1, <2>2 DEF MessageInv
  <2>4. UNCHANGED <<queue, running, finished>>
    BY <1>2 DEF StartEngine
  <2>. QED BY <2>1, <2>2, <2>3, <2>4 DEF Executor!vars, Pending, Current
<1>3. CASE (\E c \in Caller : PostOnJSThread(c)) \/ MainCallback \/ SquareStart
  <2>1. PICK c \in Caller, op \in Op, delay \in Delay :
          /\ RunDelegateRunnable(c, op, delay)
          /\ UNCHANGED <<jsThread, running, finished, handler>>
    BY <1>3, PostSteps DEF RunDelegateRunnable
  <2>2. CASE queue' = queue
    BY <1>1, <2>1, <2>2
  <2>3. CASE /\ handler # NoThread
             /\ queue' = [queue EXCEPT ![handler] = @ \union
                  {[op |-> op, due |-> now + delay, seq |-> posts + 1]}]
    <3>. DEFINE new == [op |-> op, due |-> now + delay, seq |-> posts + 1]
    <3>1. handler = jsThread /\ handler \in JsThread
      BY <1>t, <2>3 DEF ThreadInv, TypeOK
    <3>2. Pending = queue[jsThread] /\ Current = running[jsThread]
          /\ Pending' = queue[jsThread] \union {new} /\ Current' = Current
      BY <1>t, <2>1, <2>3, <3>1 DEF Pending, Current, TypeOK
    <3>3. new \in Message
      <4>1. new \in queue'[jsThread] /\ TypeOK'
        BY <1>t, <2>3, <3>1, TypeStep DEF TypeOK
      <4>. QED BY <4>1, <3>1 DEF TypeOK
    <3>4. new.seq = posts + 1 /\ posts \in Nat
      BY <1>t DEF TypeOK
    <3>5. new \notin queue[jsThread] /\ new \notin finished
      BY <1>t, <3>1, <3>4 DEF MessageInv
    <3>6. new # Current
      <4>1. CASE Current = NoMessage
        BY <3>3, <4>1
      <4>2. CASE Current # NoMessage
        BY <1>t, <3>1, <3>2, <3>4, <4>2 DEF MessageInv
      <4>. QED BY <4>1, <4>2
    <3>7. Executor!Submit
      BY <2>1, <3>2, <3>3, <3>5, <3>6 DEF Executor!Submit
    <3>. QED BY <3>7 DEF Executor!Next
  <2>. QED BY <2>1, <2>2, <2>3, PostCases
<1>4. ASSUME NEW t \in JsThread, TakeMessage(t)
      PROVE  [Executor!Next]_(Executor!vars)
  <2>1. t = jsThread /\ jsThread # NoThread
    BY <1>4, <1>t DEF TakeMessage, ThreadInv
  <2>2. Pending = queue[t] /\ Current = NoMessage
        /\ Pending' = queue'[t] /\ Current' = running'[t]
    BY <1>4, <2>1 DEF TakeMessage, Pending, Current
  <2>3. PICK m \in queue[t] :
          /\ \A n \in queue[t] \ {m} : Before(m, n)
          /\ queue'[t] = queue[t] \ {m} /\ running'[t] = m
    BY <1>4, <1>t DEF TakeMessage, TypeOK
  <2>4. Executor!Begin
    BY <1>4, <2>2, <2>3 DEF TakeMessage, Executor!Begin, Executor!Earlier, Before
  <2>. QED BY <2>4 DEF Executor!Next
<1>5. ASSUME NEW t \in JsThread, HandleMessage(t)
      PROVE  [Executor!Next]_(Executor!vars)
  <2>1. tpc[t] = "looping"
    BY <1>5, <1>t DEF HandleMessage, MessageInv
  <2>2. t = jsThread /\ jsThread # NoThread
    BY <2>1, <1>t DEF ThreadInv
  <2>3. Current = running[t] /\ Current' = NoMessage /\ Pending' = Pending
        /\ Current # NoMessage
    BY <1>5, <1>t, <2>2 DEF HandleMessage, Pending, Current, TypeOK
  <2>4. Executor!End
    BY <1>5, <2>3 DEF HandleMessage, Executor!End
  <2>. QED BY <2>4 DEF Executor!Next
<1>. QED
  BY <1>1, <1>2, <1>3, <1>4, <1>5
     DEF Next, StartEngine, EnterStart, TestJsThread, Boot, ScriptFails,
         PauseScript, ResumeScript, InvokeMethod, Tick, vars

(* The engine thread implements the serial executor.                       *)
THEOREM ImplementsExecutor == Spec => ExecutorSpec
<1>. QED BY ExecutorInit, ExecutorStep, Inductive, PTL
         DEF Spec, ExecutorSpec, Executor!Spec
=============================================================================
