# Verification of android-v8-canvas

The repository embeds V8 in an Android application: a JavaScript thread with a
Looper, Java methods registered for scripts, a debugger connection over a
websocket, a canvas drawn by Skia, scripts extracted from the package, and a
Flutter module that shows pages a script describes. This directory holds TLA+
models of its concurrent and persistent parts and of the debugging protocol it
speaks, TLC configurations that check them on small instances, and TLAPS proofs
of what matters most for every value of the constants.

`tlc -config X.cfg M` checks module `M`; `tlapm M.tla` checks its proofs.

## Inventory

| Component | State it keeps | Operations | Talks to |
|---|---|---|---|
| Engine thread (`V8Engine`, `V8ThreadPolicy`) | `jsThread`, `handler`, `v8`; the Looper's queue | `startEngine`, `runOnJSThread`, `postOnJSThread`, `registerJavaMethod`, `requireJSFile`, `evalJavascript` | posts Runnables to its own thread; the JS thread calls V8 |
| Square engine, activities | the method channel, the main handler | `start`, clicks, surface callbacks | post to the engine; the registered methods post back to the main looper |
| JS runtime (`V8`, `V8Runtime.cpp`) | isolate, context, global object, `functionRegistry` | `createRuntime`, `require`, `runScript`, `registerJavaMethod` | runs on the JS thread; calls Java from scripts |
| V8 handles (`V8Value` and below, `V8Locker`) | native handles, `objectReference`, the locker's thread | create, get, `close`, `acquire`, `release` | JNI |
| Inspector (`V8Inspector.java`, `InspectorClient`) | two message queues, `ReadyToProcessMessages`, connection, session, `terminated_` | connect, receive, drain, dispatch, `waitForDebugger`, disconnect, nested loop | server threads, main looper, starter thread and JS thread all enter it |
| V8 debugger agent (vendored) | enabled, pauses skipped, breakpoints active, paused, break reasons, pending interrupt | enable, disable, pause, resume, continue to a location, skip pauses, breakpoints on and off, program break | calls the client back on a pause |
| Debugging protocol (vendored, generated, `inspector/protocol`) | the values and texts of one message, the error path | build, `toValue`, `fromValue`, `clone`, write, parse | every request, answer and notification passes through it |
| Request dispatch and callbacks (vendored) | the dispatcher's weak pointers, promises waited for, a termination, a step into async | dispatch, answer, fail, disconnect | agents hold its callbacks; scripts, promises and pauses answer them |
| Websocket (vendored, `NanoWSD`) | connection state, fragments, the two streams | read and write frames, close handshake | calls the inspector's `onOpen`, `onMessage`, `onClose`, `onException` |
| HTTP server (vendored, `NanoHTTPD`) | the server socket, the runner's list of clients | accept, serve a request, stop | a thread per connection, which becomes the websocket's |
| Asset extraction | `files/app`, the `assetsThumb` file | `createJSDir` at every start of the process | package manager, backups, the file system |
| Canvas | the global canvas, GL context, wrapped contexts | `onSurfaceCreate`, `Context2D` methods | JS thread only |
| Colour parser, console, JNI helpers, Dart bridge | none or caches | conversions | called from the above |
| Flutter module | context stack, registered widgets | `pushPage`, `popPage`, build | the method channel |

What makes a component correct:

* Engine thread: one JS thread; a Runnable on a ready runtime, once, in order,
  never lost once accepted; a page is pushed when the start succeeds.
* Inspector: every message is dispatched, parked or left with a session that
  ended, none twice; pausing works until a break is refused, and a pause ends
  when told to and not before; one thread in the isolate.
* Debugging protocol: what one side wrote the other reads, and a request that
  is wrong is told where.
* Dispatch: every request is answered once, in its own session; no callback is
  forgotten, whatever scripts, pauses and sessions end in between.
* Websocket: frames whole on the wire, messages whole and in order to the
  listener, the end reported once; a length is read as it was written.
* HTTP server: every client is closed by `stop`, no thread outlives it.
* Asset extraction: what a running process loads is the installed package.
* V8 handles: each native handle released at most once and not used after;
  reference count and live values agree.
* Canvas: a surface is drawn on only while its GL context is current.
* Flutter module: the context used for a page is that of the page shown, and
  no page is lost.
* Colour parser: a notation gives the colour that CSS says.

What is hard in this code is concurrency without locks. The engine publishes a
handler to other threads through a plain field before the runtime exists; the
inspector is entered by four kinds of thread; and the extraction must survive a
kill at any step with nothing but a small file to remember what it did.
`PROJECT.json` lists these hazards line by line, with the properties that
cover them.

## Modules

### Engine thread: `TaskExecutor`, `EngineThread`, `EngineThreadProofs`

`EngineThread` has the calling threads (with the Android main thread among
them) and the Thread objects that could be allocated for JavaScript. `monitor`
and `pc` are the monitor of `V8Engine` and where a caller is in
`startEngine` or `SquareEngine.start`; `tpc` is where a JS thread is in
`V8EngineRunnable.run`; `queue`, `running` and `now` are the Looper's queue,
the message being handled and the clock. `handler` is written once by the JS
thread and read by the others with no synchronisation, so a read may still
return null after the write; `aware` holds the threads that have seen it. A
thread that has seen it does not see null again: memory is coherent for one
variable.

Each posting operation is one call of `RunDelegateRunnable`, which drops or
queues. A Runnable's effect is one of `RegisterJavaMethod`, `OnSurfaceCreate`,
`RunScript` or none; `ScriptFails` ends the process where the code takes an
empty result or dereferences a canvas that is not there. `PauseScript` stops
the script of a Runnable in the nested loop of the debugger, at the break that
`require` schedules or at any other, and `ResumeScript` lets it go on; a thread
in `paused` handles nothing. What makes a pause end is `Inspector`'s, and here
nothing does.

`TaskExecutor` is what this promises: accepted tasks are pending, one runs at a
time, each at most once, always the earliest by due time and then by arrival.
`ExecutorSpec` is that specification under the refinement mapping
`pending <- queue[jsThread]`, `current <- running[jsThread]`.

### Inspector: `DebugTarget`, `Inspector`, `InspectorProofs`

Processes are the server threads of the websockets, the main thread, the
thread that calls `waitForDebugger` and the JS thread. Every step lies between
two points at which another thread can interfere: offering a message and
looking at `ReadyToProcessMessages` are two steps, as are polling a message
and passing it on, and the parts of `InspectorClient::disconnect`. `hand` is a
message between its poll and its next place. The debugger agent is the record
`session` (enabled, all pauses skipped, breakpoints active, a reason noted) with
`paused`, `breakRequested` and `toLocation`; its operations are those of
`v8-debugger-agent-impl.cc` and `v8-debugger.cc` that the client's protocol
rests on. `Require` schedules a break before its script and `RunScript` does
not. `HandleProgramBreak` is every break that V8 reports: the interrupt that was
asked for and, while an agent is enabled, a breakpoint, a statement, an
exception, a step or want of memory. It takes the interrupt in any case, and
pauses unless no agent accepts that or a `continueToLocation` meant another
frame; what was noted before such a refused break stays noted, and pausing is
then lost until something clears it (`PauseLost`). A null dereference is the
action `Crash`. Two threads inside V8 at
once is undefined; the model reports it (`OneThreadInIsolate`) and keeps each
operation of the agent a step.

`released` and `handled` are history variables. `terminated` starts with
either value, as the constructor leaves it unset.

A new session takes the place of whatever `session_` holds, whose destructor
disables its agent: when disconnects overlap, that may be a session made by the
other one, enabled by a new front end and with a script paused for it.

`DebugTarget` is what a front end may rely on: a message takes effect once and
only while a script runs, though not in the order sent; a script pauses only
when its agent is on, whatever makes it break, and goes on only when that
pause was released, by a resume, a continueToLocation, a disable, a disconnect
or a new session. It has no threads, queues, noted reasons or `terminated_`.
`TargetSpec` is that specification under the mapping `alive <- Alive`,
`agent <- Agent`, `script <- Script`. It promises no more than safety: a message
may be parked for ever, and the process may die.

### Asset extraction: `PackageStore`, `AssetExtraction`, `AssetExtractionProofs`

The contents of `files/app` are one of: absent, partial, or the whole file of
an installation. `pc` is the position of `createJSDir`. `Crash` and `Update`
may end the process at every step, with a partial file or a torn thumb behind
it; `RestoreBackup` puts back arbitrary files and no thumb, as the thumb is in
the directory that is not backed up. `damaged` records that the latest
extraction met an input-output error, which the code ignores, or followed one:
the right thumb that cannot be read makes `ShouldExtract` call for an extraction
and stays in place meanwhile. `lastUpdateTime`
is the number of the installation; `versionCode` is a constant that may stay
the same over an update.

`PackageStore` is the promise: a running process reads exactly the installed
package. `StoreSpec` is that specification under the mapping that shows the
files of a process that is up and met no error.

### Debugging protocol: `WireTypes`, `Protocol*`, `JsonText`, `JsonExchange`, `JsonExchangeProofs`, `Protocol`, `ProtocolExchange`

The sources under `inspector/protocol` are generated: a class for each object,
a handler for each command, a function for each notification. Each is one
definition of the module of its domain (`ProtocolRuntime`, `ProtocolDebugger`
and so on), in the vocabulary of `WireTypes`: a type is the fields that its
`fromValue` reads and its `toValue` writes, in their order and with their kinds;
its builder is the set of fields whose setters the state mask demands before
`build()`; a command is the parameters that its handler in the `.cpp` reads and
the results it writes; a notification is the message its function builds. The
names of types and commands are the source's. These are tables read off the
`.cpp` and `.h` one by one, and the runs look for what does not fit: a field
read that is not written, a builder that does not demand what `fromValue`
demands, a reference to a type of another domain that is not there.

`Protocol` is the code all of them use (`Protocol.h`): `ValueConversions` by
kind, arrays, the fields of an object, the error path with its pushes and pops.
`JsonText` is the tree of values, the writer and the recursive parser of
`Protocol.cpp` over tokens, with the depth at which the parser gives up
(`StackLimit`, the code's 1000). Writer and parser are functions of a level:
`Written[d]` gives the texts of the values nested at most `d` deep, and
`Builder` what is read at each position of a text with so many levels left;
`MaxNesting` is how deep values are that are ever written, as large as one
likes. `JsonExchange` takes one text through the parser: one that this side
wrote, or any that a front end sends. `ProtocolExchange` extends it to one
message of the tables, whose value is written and whose reader converts what
was parsed back to an object; each of its steps is one of `JsonExchange` or
leaves text and value alone. Strings are values, and a double is one of few:
a whole one, which comes back as an int, a fraction, and those that the writer
has no text for, NaN and the infinities. A text that is received may all the
same have a number too large for a double: `toDouble` makes an infinity of it.

DOM and Network are not wired to an agent, and `Network.cpp` is not compiled:
DOM's types are used by Page and Overlay, Network's are declared for an agent
that is not there. Their objects and notifications are checked as the others'
are; their commands are recorded in the tables and no request names them.

### Dispatch: `RequestReply`, `Dispatcher`, `DispatcherProofs`

`Dispatcher` is what happens to requests between arrival and answer. `stack` is
the JavaScript thread's: scripts, the loop of a pause, and handlers that run
JavaScript themselves, in which requests may arrive again. A callback is in one
of the places that hold it: a frame, `waiting` (the injected script's
`m_evaluateCallbacks`, for a promise), `terminate` (for the end of the script)
or `step` (for the next asynchronous task). `live` are those whose weak pointer
still finds its dispatcher. `terminate` and `step` belong to the debugger and
outlive a session, the others do not. `heard` and `answers` are histories.
Requests come while a script runs or is paused; that a dispatch without one
crashes, and that other threads enter the isolate, is `Inspector`'s.

`RequestReply` is the promise: a request is answered once, and lost only with
its session or because nobody listens. `ReplySpec` is that specification under
`status <- Status` and `listening <- connected`.

### Flutter module: `DynamicNavigation`, `DynamicNavigationProofs`

`routes` are the Navigator's pages, of which the lowest `built` have an
element; `leaving` are popped pages that an exit animation still shows, whose
elements a context may still name; `contextStack` is DynamicApp's. A
`pushPage` message whose context is unusable throws in the handler and its page
is `lost`. `settled` is a history: how many pages at the bottom may have lost
their own entry since an older page was built again. Flutter may build a page
again at any time: the manifest keeps the activity over a change of locale, and
the FlutterEngine is kept by the application. The system's back button does not
reach Flutter (`SquareActivity` is no FlutterActivity), so pages leave only by
the button in the bar.

### Websocket: `MessageChannel`, `WebSocket`, `WebSocketProofs`, `FrameCodec`, `FrameCodecProofs`

`WebSocket` begins where a session sends the response of the handshake. Its
threads are the server thread (`Reader`), threads that send and threads that
call `close()`; the inspector has none of the last kind, and a run of its own
has one. `pc` is where a thread is in `readWebsocket`, `sendFrame`, `close` or
`doClose`, and `resume` where its call returns to. The field `state` is neither
volatile nor guarded: `writes` is the sequence of its values and a thread may
read any from the one it saw last (`seen`), except that entering the monitor
of `sendFrame` shows what was written before the monitor was left. A frame is
written in two calls, header and payload, between which others may come.

The peer sends any frames at all, `"Bad"` standing for those that
`WebSocketFrame.read` refuses. `ended` says that the peer or the line is gone
and `broken` that a write has failed: a write to a peer that is gone may
succeed at first, as TCP lets it, and none does after a failure. `sent`,
`partial`, `pings` and `proper` are histories of what the peer did, `wire`,
`delivered` and `closes` of what we did. Every message of the peer is a list of
the numbers of its frames, so a fragment lost, doubled or given to another
message shows.

`MessageChannel` is the promise: messages arrive whole, in order and once, and
the end is reported once and last. `ChannelSpec` is that specification with
`reports <- Len(closes)`. It holds as the inspector uses the socket; a thread
that calls `close()` may make `onClose` come twice, so the run with a `Closer`
checks what is left of the promise.

`"Bad"` is also a last fragment with which the message would be longer than an
array can be: the constructor of the whole frame refuses it with the same
exception as `read`.

`catch (CharacterCodingException)` is not an action: the decoding of text is
`new String`, which never throws. Masking, text and the accept key are left
out, as is what the listener does in a callback, which is `Inspector`'s.

`FrameCodec` is the header of a frame byte by byte, as `write` makes it and
`read` takes it, with Java's arithmetic: of the eight bytes of a long length
four are shifted as `long` and four as `int`, so the fifth carries its sign
upwards. The sender is `write` itself or another implementation with headers
of its own.

## Runs

| Run | Instance | Shows |
|---|---|---|
| `engine_thread` | 2 callers, 2 JS threads, 4 posts, 2 instants, fairness | `OneJSThread`, `TaskOnReadyRuntime`, `MethodsBeforeScript`, `ExecutorSpec`, `AcceptedIsHandled`, `PageIsPushed` |
| `dropped_post` | the same | a post after `startEngine` is dropped (violation) |
| `inspector` | 2 websockets, 2 messages of enable, pause, resume, continueTo, skip and deactivate, both forms of `waitForDebugger` | `MessageAccounted`, `PausesAreLostOnlyIfRefused`, `SessionReturns`, `ContinuesOnlyIfReleased`, `TargetSpec` |
| `inspector_live` | 1 websocket, 3 messages of enable, disable, pause and resume, `waitForDebugger(false)` as the application calls it, fairness | `EveryMessageSettles`, `ResumeEndsPause` |
| `inspector_threads` | 1 websocket, 2 messages | two threads in the isolate (violation) |
| `websocket` | 1 sender, no closer, 3 frames of the peer, 1 send, fairness | `WholeFrames`, `PongsAnswerPings`, `ProperPeerNotBlamed`, `ChannelSpec`, `EndIsReported` |
| `websocket_closer` | 1 sender, 1 closer, 2 frames, 1 send or ping | `DeliveredIsPrefix` |
| `frame_codec` | 2 frames of 15 lengths, or one of some 1100 foreign headers | `RoundTrip`, `Canonical` |
| `protocol` | every type, notification and command of ten domains; every set of none, one or all optional fields; values nested around the limit; every text of up to 5 tokens of nine kinds, objects of two entries, lists of numbers with an infinity, and brackets around the limit | `CloneIsEqual`, `SurvivesTheWire`, `ReadableWithinLimit`, `FaultsAreNamed`, `AcceptedIsCanonical` |
| `dispatcher` | 3 requests of any kind, 2 sessions, 4 frames, fairness | `LiveIsHeld`, `RepliesAddUp`, `DisconnectAnswersWaiting`, `ReplySpec`, `TerminationEnds` |
| `navigation` | 4 messages, 6 contexts | `PagesHaveTheirContexts`, `LostOnlyWhenStale` |
| `asset_extraction` | 3 files, 3 installations: the second drops and adds a file and keeps the version code, fairness | `UpIsComplete`, `ThumbMeansComplete`, `StartEnds`, `StoreSpec` |

Bounds. Four posts hold a whole `SquareEngine.start` and one more Runnable from
anywhere, which is what it takes to overtake or to come between; a second JS
thread is enough to make one too many; two instants give delayed and immediate
Runnables both orders. Two websockets are what it takes for two disconnects to
overlap or for a late close to hit a newer connection, and the symmetry of the
two is used only in the run without liveness. Two messages make an enable and
what comes after it; the break need not be asked for by a message, as a script
of `require` has one scheduled, so enable and skip are enough to refuse one.
Three messages make an enable, a pause and a resume. Three frames of the peer are a first
fragment, something in between and a last one; with a closer, whose steps may
fall anywhere, two are enough for a frame and the Close after or before it. One
send meets the server thread in the monitor, before and after a Close. The
lengths of `frame_codec` lie on both sides of 125, 65535 and 2^31 - 1, the
foreign ones also of 2^31 and 2^63, and every first byte occurs. In `protocol`
the parser's limit is 7 where the code has 1000, above the deepest message the
tables make, and values and texts nest to both sides of it, arrays and objects
by turns; five tokens hold an object with one entry, a list of two and every way
to misplace one separator, and the longer texts repeat a key or lose a part of
an entry; each request is tried right, with each parameter missing, and with each
and with all of three wrong values. Three requests are one for each of the
debugger's slots, or two for one slot and one beside it, or one waiting in
each kind of place; four frames hold a script, a handler, a pause in it and a
handler in the pause; two sessions are one that ends and one that must not hear
of it. Four pages are one that is shown, one under it, one that leaves and one
not yet built, and six contexts leave room for rebuilds. Three
installations make an update after an update, so that
the files left over may be those of either.

Deadlock is checked for the extraction and the dispatcher. The other systems stop when the bounds
are used up or when an error ended the process, and their configurations say
so.

Fairness. In `EngineThread` and `Inspector` every thread that has begun an
operation goes on with it, as the Android scheduler lets every runnable thread
run, and the Looper's clock advances. Nothing makes a user click, a front end
connect or send, or a caller begin a call. In `EngineThread` a Runnable that is
being run ends, the scripts of this application being short; but nothing lets a
stopped script go: `ResumeScript` has no fairness, and `AcceptedIsHandled` and
`PageIsPushed` except a script that stays stopped or is stopped time and again
(`Stuck`). In `Inspector` nothing makes a script begin or end, and in the nested
loop `take()` waits for as long as no message comes: `ResumeEndsPause` starts
where it has come back. In `AssetExtraction` the process continues `createJSDir`
while it is not killed.
In `WebSocket` a write may wait for ever for a peer that does not read, so
nothing is promised while the peer is there; when it is gone no step blocks,
and threads are scheduled: weak fairness of `ended /\ ThreadStep(t)`. In
`Dispatcher` nothing is owed unless a termination is under way: V8 then
interrupts whatever script runs, at its next check, so a script and a handler
that runs one come to their end: weak fairness of `Terminating /\ EndScript` and
`Terminating /\ Return`. Nothing ends a pause (`Continue` has no fairness), and
`TerminationEnds` excepts a script that is held in one for good or time and
again. Weak fairness is enough everywhere: such a step stays enabled until it is
taken, or until the debugger stops the script. The monitor of `sendFrame` is the
one thing that others may take again, and the bound on sends stands for senders
that do not send without a pause.

Each property of a passing run has a faulty variant of a definition in the
modules (`EnterStartUnlocked`, `PollByPeek`, `ThumbOfCode` and so on) that
violates it: a test that the property can fail.

## What the violations show

* A Runnable posted after `startEngine` returned may be dropped silently
  (`V8ThreadPolicy.java:32`). `SquareEngine.start` comes three seconds after
  the start for that reason; the click and surface callbacks do not wait.
* The inspector enters the isolate from three kinds of thread without a
  `Locker`, against what `V8.java` says of itself.

`PROJECT.json` lists further disagreements and faults met while modelling, with
the states of the models that show them: a message that a server thread parks
after `waitForDebugger(true)` read the parked ones (`V8Inspector.java:111`); a
close by handshake reported as a handler that terminated without closing
(`NanoWSD.java:257`); a length of 2^31 or more refused as not minimal rather
than too big (`NanoWSD.java:620`); requests of a front end that is gone, which
the next session answers to the next front end (`InspectorClient.cpp:42`); a
context that is not that of the page shown (`dynamic_app.dart:87`); a quit that
`runMessageLoop` overwrites (`InspectorClient.cpp:93`), or that the JS thread does
not see because it waits in `take()` (`InspectorClient.cpp:96`); pauses that do
nothing after a refused break (`v8-debugger-agent-impl.cc:993`); an infinity
that is accepted and written as null (`string-util.cc:104`); a thumb that stays
beside a half-made directory because it could not be read
(`DefaultExtractPolicy.java:85`); a required dictionary that is missing
dereferenced (`Protocol.h:489`, which no wired command reaches); a second `onClose` when `close()` meets the server thread's own (`NanoWSD.java:142`),
and data frames written after a Close (`NanoWSD.java:269`).

## Proofs

`EngineThreadProofs` proves, for every set of callers, threads and delays and
every bound, `TypeOK`, `OneJSThread`, `TaskOnReadyRuntime`,
`MethodsBeforeScript`, `AcceptedStaysAccepted` and `ExecutorSpec`. None of the
invariants is inductive alone. The invariant `IInv` adds to the types that

* a caller between the test of `jsThread` and its assignment holds the monitor
  and has seen null, and `handler` and `v8` name only the one JS thread, in the
  order in which its `run` sets them (`ThreadInv`);
* a queue is fed only through the handler, messages are numbered by posts
  already made, and none in the queue precedes the one being handled
  (`MessageInv`), which makes serving by due time and arrival stable under
  new posts: a new message is due no earlier than now and numbered last;
* a registration that was handled is in force (`MethodInv`).

`AssetExtractionProofs` proves, for every set of files, number of installations
and contents of the packages, `TypeOK`, `UpIsComplete`, `ThumbMeansComplete`
and `StoreSpec`. Its invariant says that a thumb never belongs to a later
installation and that a faultless extraction runs only without the thumb of its
own (`ThumbInv`); which entries a faultless extraction has written (`ExtractInv`);
and that the files are complete from the saving of the thumb on, and at the
next start if that thumb is found (`CompleteInv`).

`WebSocketProofs` proves `WholeFrames` for every set of senders and closers and
every number of frames. The history of the wire alone is not inductive. `WireInv`
adds that a thread between header and payload holds the monitor (`WriterInv`);
that, while the stream can still be written, the wire ends with the header of
the thread that is about to write its payload, or else with a whole frame
(`TailInv`), so that a header cut off by a failure is never followed; and that
no other thread has the socket before `onOpen` (`OpenInv`). The steps that
write nothing share one lemma (`QuietStep`).

It goes on from there: for every set of senders and
closers and every number of frames and calls, `TypeOK`, `DeliveredIsPrefix`,
`ProperPeerNotBlamed` and `PongsAnswerPings`, and, where there are no closers,
`ChannelSpec`. None of the four is inductive, because what is read now was sent
earlier: between the two lie the frames on their way.

* `DeliveryInv` says that reading them takes the reader from where it is (how
  many messages it has delivered, and the fragments of the next) to where the
  peer is (how many it has completed, and its unfinished one), frame by frame
  (`Parse`, with the states between as a witness). After a breach it is so up
  to the frame that broke the protocol, until the reader has refused it and
  reads no more (`Stopped`). Delivery follows, and that only a peer that broke
  the protocol meets the exception; `BlameInv` carries that through the
  arguments of `close`.
* `PongInv` counts: the pongs on the wire, the one about to be written and the
  pings on the way are the pings sent, while the stream can be written, and each
  ping on the way is the next one by its number (`Counts`).
* `SoloInv` is the discipline that the absence of closers gives: only the
  server thread writes `state`, so it always reads the last value, and after
  `onClose` it finds `CLOSED` wherever it looks. With a closer the thread may
  have seen less and `onClose` may come twice, which is why the theorem
  `SocketIsAChannel` has the hypothesis `Closer = {}`; no thread of the
  inspector calls `close()`.

`FrameCodecProofs` proves `RoundTrip` and `Canonical`, the first for every length up to `Integer.MAX_VALUE`,
every masking key and every number of frames in the stream. The arithmetic is in
lemmas of its own: two and four bytes put a length together again
(`ShortBytes`, `LongBytes`), where the fields of a header lie (`HeaderAt`), and
that reading a stream that begins with the header of a frame gives that frame
and its size (`HeaderIsRead`). The invariant `OwnStream` says that the stream
can be cut into the headers of the frames written and not yet read (`Cuts`);
with `RoundTrip` alone nothing would be known of what the next read finds.
`Canonical` is the other direction, for a sender that is not `write`: whatever
two bytes, length and key begin its header, if `read` accepts it then the header
is the one `write` makes of the frame read (`AcceptedIsWritten`). It rests on
the two refusals of a length that would fit a shorter form, and on the sign that
the fifth byte of a long length carries upwards: it makes the length negative
and so refused, and one that is accepted has 31 bits (`AcceptedLength`).

`JsonExchangeProofs` proves `ReadableWithinLimit` and `AcceptedIsCanonical` for
every limit of the parser, every set of values however deep, and every set of
texts of tokens however long. `ParseWritten` and `ParseAccepts` say the same of
the operators `WriteJSON` and `ParseJSON`, and `ExchangeInv` (the text is what
was written of the value or what was sent, the value what the parser makes of
it) carries them to the steps of `JsonExchange`.

* Values, writer, loops and parser are functions on the natural numbers, by
  levels of nesting, items of a list and passes of a loop. Each is first shown
  to satisfy its equation (`ValuesRec`, `WrittenRec`, `JoinedRec`, `PassesRec`,
  `BuilderRec`): finite approximations exist up to every number and agree, so
  the function that `CHOOSE` names exists. The argument is written out for each,
  as a lemma cannot be given the step of a recursion as an operator. The
  induction is `SetInduction`: a set with zero and with each number the next is
  all of `Nat`, from the order of `Nat` being well founded.
* Reading what was written: where a text holds what was written of a list and
  the list ends there, the loop reads it item by item up to the first that is
  refused (`ListRead`), for arrays and objects alike. An object also needs that
  its keys differ, else `SetValue` would not append. Then a value that stands at
  a position is read with `n` levels left if it is nested no deeper, and refused
  otherwise (`LevelRoundTrips`, by induction `AllRoundTrip`). The statement
  speaks of every position, level and text at once: the one for a whole text
  says nothing of the values inside it.
* Accepting only what is written goes from the text to the value: each pass
  leaves the list read so far sound (`ListAccepted`), which means that reading
  what is written of it gives it back, with null for an infinity, and, in a text
  without repeated keys, fractions of whole numbers and numbers too large for a
  double, that its own text stands there. For an object
  soundness includes that its keys differ and that each stands in the text
  before the position reached; this is what makes a key that comes again visible
  to `KeysOnce`. `LevelsAccepted` is the induction over levels. What the writer
  makes of a value does not depend on the level it is asked at (`LevelsAgree`).

`DispatcherProofs` proves, for every set of requests and every number of
sessions and frames, `TypeOK`, `LiveIsHeld`, `RepliesAddUp`,
`DisconnectAnswersWaiting` and `ReplySpec`. What is inductive is the
conjunction of the first three with `AskedInv`: a request that has not arrived
is held nowhere and unanswered, a live one has arrived and is unanswered, one
that was heard belongs to the present connection, and whatever waits for a
promise is live. Without the last a disconnect could be silent about it;
without the first a request that arrives might already be on the stack. That no
frame is twice on the stack is part of `TypeOK` and needs it. The refinement
rests on one table of how each request may move in a step (`Moves`).

`InspectorProofs` proves, for every set of sockets, number and kind of messages,
`TypeOK`, `PausesAreLostOnlyIfRefused`, `ContinuesOnlyIfReleased`,
`SessionReturns`, `MessageAccounted` and `TargetSpec`. Each invariant has a
strengthening of its own, and the refinement rests on all but that of
`SessionReturns`.

* Where the JS thread is while it is paused, that a loop it left had been
  released, that only an open session has an enabled agent and only an enabled
  agent a noted reason (`PauseInv`). With the last, of all the ways in which the
  agent changes (`AgentMoves`) only a refused break separates a reason from its
  interrupt: one that finds the agent disabled has no reason to leave behind.
* A quit seen in the nested loop is a release of the present pause (`LoopInv`),
  because `terminated_` is reset after the pause began; only the JS thread moves
  itself (`JsMoves`).
* A thread between closing a session and making the next stays there until it
  has (`MakerStays`), and nobody else closes one (`SessionMoves`).
* Inbox, parked list, the hands of the threads and the messages handled are
  disjoint, hold nothing twice and make up what was sent (`MessageInv`), from
  which the count of `MessageAccounted` follows. All steps reduce to five
  moves of one message (`MessageMoves`).
* `TargetSpec` needs each of them where its mapping forgets something: without
  `MessageInv` a message could take effect again, without `LoopInv` a pause
  could end on its own, and without `PauseInv` a step of the JS thread would not
  show as the one of the script that it is.

`DynamicNavigationProofs` proves `PagesHaveTheirContexts` and
`LostOnlyWhenStale` for every number of pages and contexts. With the types the
first is inductive as it stands, because `settled` remembers which pages it
speaks of; the second follows as the last page built since has a mounted
element and its context at the end (`FreshIsUsable`).

The assumptions are those named in the modules (`EngineAssumption`,
`NoMessageAssumption`, `AssetAssumption`, `WebSocketAssumption`,
`CodecAssumption`, `RawAssumption`, `DispatcherAssumption`, `InspectorAssumption`,
`NavigationAssumption`, `StackLimitAssumption`, `MaxNestingAssumption`,
`MadeAssumption`, `ReceivedAssumption`): the constants have their types and the special values
are not members of the sets they are special to; `RawAssumption` says that what
a foreign sender begins with is one header, as long as its own length bits say,
with the one masking key of the model; `MaxNestingAssumption` says that values
may be nested as deep as the parser follows at least, and the last two that
values are made of the code's kinds and texts of its tokens. TLC evaluates them in the runs.

No run checks `AcceptedStaysAccepted` and the types of `Inspector`,
`DynamicNavigation` and `WebSocket`, which are proved.

Only model-checked: the liveness properties (`AcceptedIsHandled`, `PageIsPushed`,
`EveryMessageSettles`, `ResumeEndsPause`, `EndIsReported`, `TerminationEnds` and
`StartEnds`), which are beyond the prover; and of the protocol `CloneIsEqual`,
`SurvivesTheWire` and `FaultsAreNamed`. Those three speak of the conversions
between objects and values, which follow types that refer to themselves and to
each other in tables of ten domains; they are written with recursive operators,
which the prover does not take, and hold for these tables and not for any. TLC
goes through every type and command of the tables. Every other invariant and action property of the
runs, and every refinement, is proved.

## Plan

In this order; each module is written to be checked and proved about.

1. `HttpServer`: the accept loop, the runner's list of clients and `stop`.
2. `V8Handles`: creation and `close` of values, parameter arrays, the
   reference count, the locker's Java owner and its native lock.
3. `CanvasLifecycle`: surfaces, the global canvas, wrapped contexts and their
   weak handles.
4. `ColorParser`: `to_color` as a function with 8-bit components, against the
   notation it reads.
5. `EngineSystem`: the engine thread and the inspector composed, so that the
   crash of a dispatch with no script running and the block of the JS thread
   show in the Runnables that wait behind it.

Done: `EngineThread`, `Inspector`, `AssetExtraction`, `WebSocket`, `FrameCodec`,
the protocol, `Dispatcher` and `DynamicNavigation`, and the proofs above. Worth
proving next: of 1, that a client leaves the runner's list once; of 2, that it
keeps its count; and of `Protocol`, that conversions over any tables whose
builders demand what `fromValue` demands lose nothing.

## Not modelled

The HTTP server under the websocket is planned and not yet modelled (the
application never stops it); nor are the parts the plan names from 2 on. The
vendored engines (Skia, V8, the rest of V8's inspector) are used and not
modelled: breakpoints, scopes, previews and profiles are what the agents
compute, and `Dispatcher` has only when they answer. Of the protocol, the CSS,
Log and Security domains are left out, which nothing wires, and so are the
digits of numbers, escapes and comments in texts, and the values of string
enumerations. The tree of widgets made of a page is a conversion. JNI and string helpers have no state. The Dart bridge stores
functions that nothing calls. `V8EngineCache` is filled before any reader
exists and used from the main thread only. The console and the HTTP listing
are formatting. Loss of power, which may undo writes that the process saw
succeed, is left out of `AssetExtraction`.
