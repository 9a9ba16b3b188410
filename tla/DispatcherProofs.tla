-------------------------- MODULE DispatcherProofs --------------------------
(* Proofs about Dispatcher, for every set of requests and every bound.     *)
EXTENDS Dispatcher, SequenceTheorems, TLAPS

USE DispatcherAssumption DEF DispatcherAssumption

-----------------------------------------------------------------------------
(* The inductive invariant: what is held was asked, only a connected front  *)
(* end was heard, and no callback that can still answer has answered.       *)
AskedInv ==
  /\ \A r \in Requests : asked[r] = "none" =>
       /\ r \notin Frames /\ r \notin live /\ r # terminate /\ r # step
       /\ answers[r] = 0
  /\ \A r \in live : asked[r] \notin {"none", "malformed"} /\ answers[r] = 0
  /\ \A r \in heard : asked[r] \notin {"none", "malformed"}
  /\ heard # {} => connected
  /\ waiting \subseteq live

IInv == TypeOK /\ LiveIsHeld /\ AskedInv /\ RepliesAddUp

-----------------------------------------------------------------------------
Distinct(s) == \A i, j \in 1..Len(s) : s[i] = s[j] => i = j
Frame == {Script, Pause} \cup Requests

(* A frame that is pushed joins those on the stack.                        *)
LEMMA PushStack ==
  ASSUME TypeOK, NEW f \in Frame, f \notin Frames, Push(f)
  PROVE  stack' \in Seq(Frame) /\ Distinct(stack)' /\ Frames' = Frames \cup {f}
<1>1. stack \in Seq(Frame) /\ Distinct(stack)
  BY DEF TypeOK, Distinct, Frame
<1>2. /\ stack' = Append(stack, f)
      /\ stack' \in Seq(Frame)
      /\ Len(stack') = Len(stack) + 1
      /\ \A i \in 1..Len(stack) : stack'[i] = stack[i]
      /\ stack'[Len(stack) + 1] = f
  BY <1>1 DEF Push
<1>3. Len(stack) \in Nat
  BY <1>1
<1>4. Frames' = Frames \cup {f}
  BY <1>2, <1>3 DEF Frames
<1>5. Distinct(stack)'
  BY <1>1, <1>2, <1>3 DEF Distinct, Frames
<1>. QED BY <1>2, <1>4, <1>5

(* The frame that is dropped leaves the stack, which held it once.         *)
LEMMA DropStack ==
  ASSUME TypeOK, stack # <<>>, Drop
  PROVE  /\ stack' \in Seq(Frame) /\ Distinct(stack)'
         /\ Frames' = Frames \ {Top} /\ Top \in Frames
<1>1. stack \in Seq(Frame) /\ Distinct(stack)
  BY DEF TypeOK, Distinct, Frame
<1>2. Len(stack) \in Nat \ {0}
  BY <1>1
<1>3. /\ stack' \in Seq(Frame)
      /\ Len(stack') = Len(stack) - 1
      /\ \A i \in 1..(Len(stack) - 1) : stack'[i] = stack[i]
  <2>. DEFINE n == Len(stack) - 1
               rest == SubSeq(stack, 1, n)
  <2>1. n \in Nat /\ 1 \in Int /\ n \in Int
    BY <1>2
  <2>2. \A i \in 1..n : stack[i] \in Frame
    BY <1>1, <1>2
  <2>. HIDE DEF n
  <2>3. /\ rest \in Seq(Frame)
        /\ Len(rest) = IF 1 <= n THEN n - 1 + 1 ELSE 0
        /\ \A i \in 1..(n - 1 + 1) : rest[i] = stack[1 + i - 1]
    BY <2>1, <2>2, SubSeqProperties
  <2>. HIDE DEF rest
  <2>4. /\ rest \in Seq(Frame) /\ Len(rest) = n
        /\ \A i \in 1..n : rest[i] = stack[i]
    BY <2>1, <2>3
  <2>5. stack' = rest
    BY DEF Drop, rest, n
  <2>. QED BY <2>4, <2>5 DEF n
<1>4. Top \in Frames
  BY <1>2 DEF Top, Frames
<1>5. Frames' = Frames \ {Top}
  BY <1>1, <1>2, <1>3 DEF Frames, Top, Distinct
<1>6. Distinct(stack)'
  BY <1>1, <1>2, <1>3 DEF Distinct
<1>. QED BY <1>3, <1>4, <1>5, <1>6

(* Without a frame nothing is on the stack, and a stack of one frame holds that one. *)
LEMMA SmallStacks == /\ stack = <<>> => Frames = {}
                     /\ stack = <<Script>> => stack # <<>> /\ Top = Script
BY DEF Frames, Top

(* The initial state satisfies the inductive invariant.                    *)
LEMMA InitIInv == Init => IInv
<1>. SUFFICES ASSUME Init PROVE IInv
  OBVIOUS
<1>1. stack \in Seq({Script, Pause} \cup Requests) /\ Len(stack) = 0 /\ Frames = {}
  BY SmallStacks DEF Init
<1>2. TypeOK
  <2>1. session \in Nat /\ connected \in BOOLEAN /\ enabled \in BOOLEAN
    BY DEF Init
  <2>2. asked \in [Requests -> Kinds \cup {"none"}] /\ answers \in [Requests -> Nat]
    BY DEF Init
  <2>. QED BY <1>1, <2>1, <2>2 DEF Init, TypeOK
<1>. QED BY <1>1, <1>2 DEF Init, IInv, LiveIsHeld, AskedInv, RepliesAddUp

(* Every step keeps the inductive invariant. Only three handlers and a break
   push a frame, and none of these can be on the stack already.            *)
LEMMA IndStep == IInv /\ Next => IInv'
<1>. SUFFICES ASSUME IInv, Next PROVE IInv'
  OBVIOUS
<1>0. TypeOK /\ LiveIsHeld /\ AskedInv /\ RepliesAddUp
  BY DEF IInv
<1>a. NoRequest \notin Frames
  BY <1>0 DEF TypeOK, Frames
<1>1. ASSUME NEW r \in Requests, Malformed(r) PROVE IInv'
  <2>1. stack' \in Seq(Frame) /\ Distinct(stack)' /\ Frames' = Frames
    BY <1>0, <1>1 DEF Malformed, holders, Frames, TypeOK, Distinct, Frame
  <2>2. TypeOK'
    BY <1>0, <1>1, <2>1 DEF Malformed, Arrives, replies, connection, holders, TypeOK, Kinds, Distinct, Frame
  <2>3. LiveIsHeld'
    BY <1>0, <1>a, <1>1, <2>1 DEF Malformed, Arrives, replies, connection, holders, TypeOK, LiveIsHeld, AskedInv
  <2>4. AskedInv'
    BY <1>0, <1>1, <2>1 DEF Malformed, Arrives, replies, connection, holders, TypeOK, LiveIsHeld, AskedInv, RepliesAddUp
  <2>5. RepliesAddUp'
    BY <1>0, <1>1, <2>1 DEF Malformed, Arrives, replies, connection, holders, TypeOK, AskedInv, RepliesAddUp
  <2>. QED BY <2>2, <2>3, <2>4, <2>5 DEF IInv
<1>2. ASSUME NEW r \in Requests, Refuse(r) PROVE IInv'
  <2>1. stack' \in Seq(Frame) /\ Distinct(stack)' /\ Frames' = Frames
    BY <1>0, <1>2 DEF Refuse, holders, Frames, TypeOK, Distinct, Frame
  <2>2. TypeOK'
    BY <1>0, <1>2, <2>1 DEF Refuse, Arrives, Sent, connection, holders, TypeOK, Kinds, Distinct, Frame
  <2>3. LiveIsHeld'
    BY <1>0, <1>a, <1>2, <2>1 DEF Refuse, Arrives, Sent, connection, holders, TypeOK, LiveIsHeld, AskedInv
  <2>4. AskedInv'
    BY <1>0, <1>2, <2>1 DEF Refuse, Arrives, Sent, connection, holders, TypeOK, LiveIsHeld, AskedInv, RepliesAddUp
  <2>5. RepliesAddUp'
    BY <1>0, <1>2, <2>1 DEF Refuse, Arrives, Sent, connection, holders, TypeOK, AskedInv, RepliesAddUp
  <2>. QED BY <2>2, <2>3, <2>4, <2>5 DEF IInv
<1>3. ASSUME NEW r \in Requests, NEW k \in {"sync", "evaluate"}, Call(r, k) PROVE IInv'
  <2>0. r \notin Frames /\ r \in Frame /\ Push(r)
    BY <1>0, <1>3 DEF Call, Arrives, AskedInv, Frame
  <2>1. stack' \in Seq(Frame) /\ Distinct(stack)' /\ Frames' = Frames \cup {r}
    BY <1>0, <2>0, PushStack
  <2>2. TypeOK'
    BY <1>0, <1>3, <2>1 DEF Call, Arrives, connection, TypeOK, Kinds, Distinct, Frame
  <2>3. LiveIsHeld'
    BY <1>0, <1>a, <1>3, <2>1 DEF Call, Arrives, connection, TypeOK, LiveIsHeld, AskedInv
  <2>4. AskedInv'
    BY <1>0, <1>3, <2>1 DEF Call, Arrives, connection, TypeOK, LiveIsHeld, AskedInv, RepliesAddUp
  <2>5. RepliesAddUp'
    BY <1>0, <1>3, <2>1 DEF Call, Arrives, connection, TypeOK, AskedInv, RepliesAddUp
  <2>. QED BY <2>2, <2>3, <2>4, <2>5 DEF IInv
<1>4. ASSUME NEW r \in Requests, NEW k \in {"enable", "disable"}, SetEnabled(r, k) PROVE IInv'
  <2>1. stack' \in Seq(Frame) /\ Distinct(stack)' /\ Frames' = Frames
    BY <1>0, <1>4 DEF SetEnabled, holders, Frames, TypeOK, Distinct, Frame
  <2>2. TypeOK'
    BY <1>0, <1>4, <2>1 DEF SetEnabled, Arrives, Sent, connection, holders, TypeOK, Kinds, Distinct, Frame
  <2>3. LiveIsHeld'
    BY <1>0, <1>a, <1>4, <2>1 DEF SetEnabled, Arrives, Sent, connection, holders, TypeOK, LiveIsHeld, AskedInv
  <2>4. AskedInv'
    BY <1>0, <1>4, <2>1 DEF SetEnabled, Arrives, Sent, connection, holders, TypeOK, LiveIsHeld, AskedInv, RepliesAddUp
  <2>5. RepliesAddUp'
    BY <1>0, <1>4, <2>1 DEF SetEnabled, Arrives, Sent, connection, holders, TypeOK, AskedInv, RepliesAddUp
  <2>. QED BY <2>2, <2>3, <2>4, <2>5 DEF IInv
<1>5. ASSUME NEW r \in Requests, TerminateExecution(r) PROVE IInv'
  <2>1. stack' \in Seq(Frame) /\ Distinct(stack)' /\ Frames' = Frames
    BY <1>0, <1>5 DEF TerminateExecution, holders, Frames, TypeOK, Distinct, Frame
  <2>2. TypeOK'
    BY <1>0, <1>5, <2>1 DEF TerminateExecution, Arrives, Sent, connection, TypeOK, Kinds, Distinct, Frame
  <2>3. LiveIsHeld'
    BY <1>0, <1>a, <1>5, <2>1 DEF TerminateExecution, Arrives, Sent, connection, TypeOK, LiveIsHeld, AskedInv
  <2>4. AskedInv'
    BY <1>0, <1>5, <2>1 DEF TerminateExecution, Arrives, Sent, connection, TypeOK, LiveIsHeld, AskedInv, RepliesAddUp
  <2>5. RepliesAddUp'
    BY <1>0, <1>5, <2>1 DEF TerminateExecution, Arrives, Sent, connection, TypeOK, AskedInv, RepliesAddUp
  <2>. QED BY <2>2, <2>3, <2>4, <2>5 DEF IInv
<1>6. ASSUME NEW r \in Requests, ScheduleStepIntoAsync(r) PROVE IInv'
  <2>1. stack' \in Seq(Frame) /\ Distinct(stack)' /\ Frames' = Frames
    BY <1>0, <1>6 DEF ScheduleStepIntoAsync, holders, Frames, TypeOK, Distinct, Frame
  <2>2. TypeOK'
    BY <1>0, <1>6, <2>1 DEF ScheduleStepIntoAsync, Arrives, Sent, connection, TypeOK, Kinds, Distinct, Frame
  <2>3. LiveIsHeld'
    BY <1>0, <1>a, <1>6, <2>1 DEF ScheduleStepIntoAsync, Arrives, Sent, connection, TypeOK, LiveIsHeld, AskedInv
  <2>4. AskedInv'
    BY <1>0, <1>6, <2>1 DEF ScheduleStepIntoAsync, Arrives, Sent, connection, TypeOK, LiveIsHeld, AskedInv, RepliesAddUp
  <2>5. RepliesAddUp'
    BY <1>0, <1>6, <2>1 DEF ScheduleStepIntoAsync, Arrives, Sent, connection, TypeOK, AskedInv, RepliesAddUp
  <2>. QED BY <2>2, <2>3, <2>4, <2>5 DEF IInv
<1>7. ASSUME NEW r \in Requests, PromiseEnds(r) PROVE IInv'
  <2>1. stack' \in Seq(Frame) /\ Distinct(stack)' /\ Frames' = Frames
    BY <1>0, <1>7 DEF PromiseEnds, holders, Frames, TypeOK, Distinct, Frame
  <2>2. TypeOK'
    BY <1>0, <1>7, <2>1 DEF PromiseEnds, Answer, Sent, connection, TypeOK, Kinds, Distinct, Frame
  <2>3. LiveIsHeld'
    BY <1>0, <1>a, <1>7, <2>1 DEF PromiseEnds, Answer, Sent, connection, TypeOK, LiveIsHeld, AskedInv
  <2>4. AskedInv'
    BY <1>0, <1>7, <2>1 DEF PromiseEnds, Answer, Sent, connection, TypeOK, LiveIsHeld, AskedInv, RepliesAddUp
  <2>5. RepliesAddUp'
    BY <1>0, <1>7, <2>1 DEF PromiseEnds, Answer, Sent, connection, TypeOK, AskedInv, RepliesAddUp
  <2>. QED BY <2>2, <2>3, <2>4, <2>5 DEF IInv
<1>8. CASE Return
  <2>0. stack # <<>> /\ Drop
    BY <1>8 DEF Return
  <2>1. stack' \in Seq(Frame) /\ Distinct(stack)' /\ Frames' = Frames \ {Top} /\ Top \in Frames
    BY <1>0, <2>0, DropStack
  <2>2. TypeOK'
    BY <1>0, <1>8, <2>1 DEF Return, Answer, Sent, replies, connection, TypeOK, Kinds, Distinct, Frame
  <2>3. LiveIsHeld'
    BY <1>0, <1>a, <1>8, <2>1 DEF Return, Answer, Sent, replies, connection, TypeOK, LiveIsHeld, AskedInv
  <2>4. AskedInv'
    BY <1>0, <1>8, <2>1 DEF Return, Answer, Sent, replies, connection, TypeOK, LiveIsHeld, AskedInv, RepliesAddUp
  <2>5. RepliesAddUp'
    <3>1. Top \in Requests /\ heard' = heard
      BY <1>8 DEF Return
    <3>2. CASE Answer({Top})
      <4>1. \A r \in Requests : r # Top => answers'[r] = answers[r] /\ (r \in live' <=> r \in live)
        BY <1>0, <3>1, <3>2 DEF Answer, Sent, TypeOK
      <4>2. Top \in live => answers[Top] = 0 /\ answers'[Top] = (IF connected THEN 1 ELSE 0)
        BY <1>0, <3>1, <3>2 DEF Answer, Sent, TypeOK, AskedInv
      <4>3. Top \notin live => answers'[Top] = answers[Top]
        BY <1>0, <3>1, <3>2 DEF Answer, Sent, TypeOK
      <4>4. Top \notin live' /\ (Top \in heard => connected)
        BY <1>0, <3>2 DEF Answer, AskedInv
      <4>. QED BY <1>0, <3>1, <4>1, <4>2, <4>3, <4>4 DEF RepliesAddUp, TypeOK
    <3>3. CASE UNCHANGED replies
      BY <1>0, <3>1, <3>3 DEF replies, RepliesAddUp
    <3>. QED BY <1>8, <3>2, <3>3 DEF Return
  <2>. QED BY <2>2, <2>3, <2>4, <2>5 DEF IInv
<1>9. CASE StartScript
  <2>0. Script \notin Frames /\ Script \in Frame /\ Push(Script)
    BY <1>9, SmallStacks DEF StartScript, Frame
  <2>1. stack' \in Seq(Frame) /\ Distinct(stack)' /\ Frames' = Frames \cup {Script}
    BY <1>0, <2>0, PushStack
  <2>2. TypeOK'
    BY <1>0, <1>9, <2>1 DEF StartScript, replies, connection, TypeOK, Kinds, Distinct, Frame
  <2>3. LiveIsHeld'
    BY <1>0, <1>a, <1>9, <2>1 DEF StartScript, replies, connection, TypeOK, LiveIsHeld, AskedInv
  <2>4. AskedInv'
    BY <1>0, <1>9, <2>1 DEF StartScript, replies, connection, TypeOK, LiveIsHeld, AskedInv, RepliesAddUp
  <2>5. RepliesAddUp'
    BY <1>0, <1>9, <2>1 DEF StartScript, replies, connection, TypeOK, AskedInv, RepliesAddUp
  <2>. QED BY <2>2, <2>3, <2>4, <2>5 DEF IInv
<1>10. CASE EndScript
  <2>0. stack # <<>> /\ Drop /\ Top = Script
    BY <1>10, SmallStacks DEF EndScript
  <2>1. stack' \in Seq(Frame) /\ Distinct(stack)' /\ Frames' = Frames \ {Script} /\ Script \in Frames
    BY <1>0, <2>0, DropStack
  <2>2. TypeOK'
    BY <1>0, <1>10, <2>1 DEF EndScript, Answer, Sent, connection, TypeOK, Kinds, Distinct, Frame
  <2>3. LiveIsHeld'
    BY <1>0, <1>a, <1>10, <2>1 DEF EndScript, Answer, Sent, connection, TypeOK, LiveIsHeld, AskedInv
  <2>4. AskedInv'
    BY <1>0, <1>10, <2>1 DEF EndScript, Answer, Sent, connection, TypeOK, LiveIsHeld, AskedInv, RepliesAddUp
  <2>5. RepliesAddUp'
    BY <1>0, <1>10, <2>1 DEF EndScript, Answer, Sent, connection, TypeOK, AskedInv, RepliesAddUp
  <2>. QED BY <2>2, <2>3, <2>4, <2>5 DEF IInv
<1>11. CASE Continue
  <2>0. stack # <<>> /\ Drop /\ Top = Pause
    BY <1>11 DEF Continue
  <2>1. stack' \in Seq(Frame) /\ Distinct(stack)' /\ Frames' = Frames \ {Pause} /\ Pause \in Frames
    BY <1>0, <2>0, DropStack
  <2>2. TypeOK'
    BY <1>0, <1>11, <2>1 DEF Continue, replies, connection, TypeOK, Kinds, Distinct, Frame
  <2>3. LiveIsHeld'
    BY <1>0, <1>a, <1>11, <2>1 DEF Continue, replies, connection, TypeOK, LiveIsHeld, AskedInv
  <2>4. AskedInv'
    BY <1>0, <1>11, <2>1 DEF Continue, replies, connection, TypeOK, LiveIsHeld, AskedInv, RepliesAddUp
  <2>5. RepliesAddUp'
    BY <1>0, <1>11, <2>1 DEF Continue, replies, connection, TypeOK, AskedInv, RepliesAddUp
  <2>. QED BY <2>2, <2>3, <2>4, <2>5 DEF IInv
<1>12. CASE AsyncTaskScheduled
  <2>1. stack' \in Seq(Frame) /\ Distinct(stack)' /\ Frames' = Frames
    BY <1>0, <1>12 DEF AsyncTaskScheduled, holders, Frames, TypeOK, Distinct, Frame
  <2>2. TypeOK'
    BY <1>0, <1>12, <2>1 DEF AsyncTaskScheduled, Answer, Sent, connection, TypeOK, Kinds, Distinct, Frame
  <2>3. LiveIsHeld'
    BY <1>0, <1>a, <1>12, <2>1 DEF AsyncTaskScheduled, Answer, Sent, connection, TypeOK, LiveIsHeld, AskedInv
  <2>4. AskedInv'
    BY <1>0, <1>12, <2>1 DEF AsyncTaskScheduled, Answer, Sent, connection, TypeOK, LiveIsHeld, AskedInv, RepliesAddUp
  <2>5. RepliesAddUp'
    BY <1>0, <1>12, <2>1 DEF AsyncTaskScheduled, Answer, Sent, connection, TypeOK, AskedInv, RepliesAddUp
  <2>. QED BY <2>2, <2>3, <2>4, <2>5 DEF IInv
<1>13. ASSUME NEW b \in BOOLEAN, HandleProgramBreak(b) PROVE IInv'
  <2>1. /\ stack' \in Seq(Frame) /\ Distinct(stack)'
        /\ Frames' = Frames \/ Frames' = Frames \cup {Pause}
    <3>1. CASE b
      BY <1>0, <1>13, <3>1, PushStack DEF HandleProgramBreak, NestedPause, Paused, Frame
    <3>2. CASE ~b
      BY <1>0, <1>13, <3>2 DEF HandleProgramBreak, NestedPause, Frames, TypeOK, Distinct, Frame
    <3>. QED BY <3>1, <3>2
  <2>2. TypeOK'
    BY <1>0, <1>13, <2>1 DEF HandleProgramBreak, NestedPause, Answer, Sent, connection, TypeOK, Kinds, Distinct, Frame
  <2>3. LiveIsHeld'
    BY <1>0, <1>a, <1>13, <2>1 DEF HandleProgramBreak, NestedPause, Answer, Sent, connection, TypeOK, LiveIsHeld, AskedInv
  <2>4. AskedInv'
    BY <1>0, <1>13, <2>1 DEF HandleProgramBreak, NestedPause, Answer, Sent, connection, TypeOK, LiveIsHeld, AskedInv, RepliesAddUp
  <2>5. RepliesAddUp'
    BY <1>0, <1>13, <2>1 DEF HandleProgramBreak, NestedPause, Answer, Sent, connection, TypeOK, AskedInv, RepliesAddUp
  <2>. QED BY <2>2, <2>3, <2>4, <2>5 DEF IInv
<1>14. CASE Connect
  <2>1. stack' \in Seq(Frame) /\ Distinct(stack)' /\ Frames' = Frames
    BY <1>0, <1>14 DEF Connect, holders, Frames, TypeOK, Distinct, Frame
  <2>2. TypeOK'
    BY <1>0, <1>14, <2>1 DEF Connect, replies, holders, TypeOK, Kinds, Distinct, Frame
  <2>3. LiveIsHeld'
    BY <1>0, <1>a, <1>14, <2>1 DEF Connect, replies, holders, TypeOK, LiveIsHeld, AskedInv
  <2>4. AskedInv'
    BY <1>0, <1>14, <2>1 DEF Connect, replies, holders, TypeOK, LiveIsHeld, AskedInv, RepliesAddUp
  <2>5. RepliesAddUp'
    BY <1>0, <1>14, <2>1 DEF Connect, replies, holders, TypeOK, AskedInv, RepliesAddUp
  <2>. QED BY <2>2, <2>3, <2>4, <2>5 DEF IInv
<1>15. CASE Disconnect
  <2>1. stack' \in Seq(Frame) /\ Distinct(stack)' /\ Frames' = Frames
    BY <1>0, <1>15 DEF Disconnect, holders, Frames, TypeOK, Distinct, Frame
  <2>2. TypeOK'
    <3>0. connected' = FALSE /\ enabled' = FALSE /\ session' = session + 1
      BY <1>15 DEF Disconnect
    <3>1. session' \in Nat
      BY <1>0, <3>0 DEF TypeOK
    <3>4. connected' \in BOOLEAN /\ enabled' \in BOOLEAN
      BY <3>0, Zenon
    <3>2. answers' \in [Requests -> Nat] /\ live' = {} /\ waiting' = {} /\ heard' = {}
      BY <1>0, <1>15 DEF Disconnect, Sent, TypeOK
    <3>3. UNCHANGED <<asked, terminate, step>>
      BY <1>15 DEF Disconnect
    <3>. QED BY <1>0, <2>1, <3>1, <3>2, <3>3, <3>4 DEF TypeOK, Distinct, Frame
  <2>3. LiveIsHeld'
    BY <1>0, <1>a, <1>15, <2>1 DEF Disconnect, Sent, TypeOK, LiveIsHeld, AskedInv
  <2>4. AskedInv'
    BY <1>0, <1>15, <2>1 DEF Disconnect, Sent, TypeOK, LiveIsHeld, AskedInv, RepliesAddUp
  <2>5. RepliesAddUp'
    BY <1>0, <1>15, <2>1 DEF Disconnect, Sent, TypeOK, AskedInv, RepliesAddUp
  <2>. QED BY <2>2, <2>3, <2>4, <2>5 DEF IInv
<1>. QED BY <1>1, <1>2, <1>3, <1>4, <1>5, <1>6, <1>7, <1>8, <1>9, <1>10, <1>11, <1>12, <1>13, <1>14, <1>15 DEF Next, Dispatch, JavaScript

-----------------------------------------------------------------------------
LEMMA Invariant == Spec => []IInv
<1>1. IInv /\ UNCHANGED vars => IInv'
  <2>. SUFFICES ASSUME IInv, UNCHANGED vars PROVE IInv'
    OBVIOUS
  <2>1. UNCHANGED <<session, connected, asked, heard, live, answers, enabled, stack, waiting, terminate, step>>
    BY DEF vars, connection, replies, holders
  <2>2. Frames' = Frames
    BY <2>1 DEF Frames
  <2>. QED BY <2>1, <2>2 DEF IInv, TypeOK, LiveIsHeld, AskedInv, RepliesAddUp
<1>. QED BY InitIInv, IndStep, <1>1, PTL DEF Spec

(* The variables keep their types, and no frame is on the stack twice: there is
   one pause at most.                                                      *)
THEOREM TypeCorrect == Spec => []TypeOK
BY Invariant, PTL DEF IInv

(* Every callback that may still answer is held in exactly one place: a handler
   on the stack, a promise, or one of the debugger's two slots.            *)
THEOREM CallbacksAreHeld == Spec => []LiveIsHeld
BY Invariant, PTL DEF IInv

(* No request is answered twice, and one heard over a connection that is still
   there has been answered unless its callback is held.                    *)
THEOREM EveryRequestOnce == Spec => []RepliesAddUp
BY Invariant, PTL DEF IInv

(* A disconnect answers whatever waits for a promise before the connection goes. *)
THEOREM WaitingAreAnswered == Spec => DisconnectAnswersWaiting
<1>1. IInv /\ [Next]_vars => (session' # session => \A r \in waiting : answers'[r] = 1)
  <2>. SUFFICES ASSUME IInv, [Next]_vars, session' # session, NEW r \in waiting
                PROVE  answers'[r] = 1
    OBVIOUS
  <2>1. Disconnect
    BY DEF Next, vars, connection, Dispatch, JavaScript, Malformed, Refuse, Call, SetEnabled,
           TerminateExecution, ScheduleStepIntoAsync, PromiseEnds, Return, StartScript, EndScript,
           Continue, AsyncTaskScheduled, HandleProgramBreak, NestedPause, Connect
  <2>2. r \in Requests /\ r \in live /\ answers[r] = 0 /\ connected
    BY <2>1 DEF Disconnect, IInv, TypeOK, AskedInv
  <2>. QED BY <2>1, <2>2 DEF Disconnect, Sent
<1>. QED BY Invariant, <1>1, PTL DEF Spec, DisconnectAnswersWaiting

-----------------------------------------------------------------------------
(* How the status of requests moves when one request comes in, or when some of
   those that are held are answered.                                       *)
LEMMA Moves ==
  ASSUME TypeOK, AskedInv, RepliesAddUp, UNCHANGED connected,
         \A r \in Requests :
           \/ asked'[r] = asked[r] /\ answers'[r] = answers[r] /\ (r \in live' <=> r \in live)
           \/ /\ asked'[r] = asked[r] /\ r \in live /\ r \notin live'
              /\ answers'[r] = IF connected THEN 1 ELSE 0
           \/ asked[r] = "none" /\ asked'[r] = "malformed"
           \/ /\ asked[r] = "none" /\ asked'[r] \notin {"none", "malformed"}
              /\ \/ answers'[r] = 0 /\ r \in live'
                 \/ answers'[r] = (IF connected THEN 1 ELSE 0) /\ r \notin live'
  PROVE  Replies!Serve
<1>1. ASSUME NEW r \in Requests PROVE Replies!Progress(r)
  BY <1>1 DEF Replies!Progress, Status, AskedInv, TypeOK
<1>. QED BY <1>1 DEF Replies!Serve, Status

(* Every step of the dispatcher is one of the abstract specification, or none. *)
LEMMA StepRefines == IInv /\ Next => [Replies!Next]_Replies!vars
<1>. SUFFICES ASSUME IInv, Next PROVE Replies!Serve \/ Replies!Listen \/ Replies!End
  BY DEF Replies!Next
<1>0. TypeOK /\ LiveIsHeld /\ AskedInv /\ RepliesAddUp
  BY DEF IInv
<1>1. ASSUME NEW r \in Requests, Malformed(r) PROVE Replies!Serve
  BY <1>0, <1>1, Moves DEF Malformed, Arrives, replies, connection, holders, TypeOK, LiveIsHeld, AskedInv
<1>2. ASSUME NEW r \in Requests, Refuse(r) PROVE Replies!Serve
  BY <1>0, <1>2, Moves DEF Refuse, Arrives, Sent, connection, holders, TypeOK, LiveIsHeld, AskedInv
<1>3. ASSUME NEW r \in Requests, NEW k \in {"sync", "evaluate"}, Call(r, k) PROVE Replies!Serve
  BY <1>0, <1>3, Moves DEF Call, Arrives, connection, TypeOK, LiveIsHeld, AskedInv
<1>4. ASSUME NEW r \in Requests, NEW k \in {"enable", "disable"}, SetEnabled(r, k) PROVE Replies!Serve
  BY <1>0, <1>4, Moves DEF SetEnabled, Arrives, Sent, connection, holders, TypeOK, LiveIsHeld, AskedInv
<1>5. ASSUME NEW r \in Requests, TerminateExecution(r) PROVE Replies!Serve
  BY <1>0, <1>5, Moves DEF TerminateExecution, Arrives, Sent, connection, TypeOK, LiveIsHeld, AskedInv
<1>6. ASSUME NEW r \in Requests, ScheduleStepIntoAsync(r) PROVE Replies!Serve
  BY <1>0, <1>6, Moves DEF ScheduleStepIntoAsync, Arrives, Sent, connection, TypeOK, LiveIsHeld, AskedInv
<1>7. ASSUME NEW r \in Requests, PromiseEnds(r) PROVE Replies!Serve
  BY <1>0, <1>7, Moves DEF PromiseEnds, Answer, Sent, connection, TypeOK, LiveIsHeld, AskedInv
<1>8. ASSUME Return PROVE Replies!Serve
  BY <1>0, <1>8, Moves DEF Return, Answer, Sent, replies, connection, TypeOK, LiveIsHeld, AskedInv
<1>9. ASSUME StartScript PROVE Replies!Serve
  BY <1>0, <1>9, Moves DEF StartScript, replies, connection, TypeOK, LiveIsHeld, AskedInv
<1>10. ASSUME EndScript PROVE Replies!Serve
  BY <1>0, <1>10, Moves DEF EndScript, Answer, Sent, connection, TypeOK, LiveIsHeld, AskedInv
<1>11. ASSUME Continue PROVE Replies!Serve
  BY <1>0, <1>11, Moves DEF Continue, replies, connection, TypeOK, LiveIsHeld, AskedInv
<1>12. ASSUME AsyncTaskScheduled PROVE Replies!Serve
  BY <1>0, <1>12, Moves DEF AsyncTaskScheduled, Answer, Sent, connection, TypeOK, LiveIsHeld, AskedInv
<1>13. ASSUME NEW b \in BOOLEAN, HandleProgramBreak(b) PROVE Replies!Serve
  BY <1>0, <1>13, Moves DEF HandleProgramBreak, NestedPause, Answer, Sent, connection, TypeOK, LiveIsHeld, AskedInv
<1>14. ASSUME Connect PROVE Replies!Listen
  BY <1>14 DEF Connect, replies, Replies!Listen, Status
<1>15. ASSUME Disconnect PROVE Replies!End
  BY <1>0, <1>15 DEF Disconnect, Sent, TypeOK, AskedInv, Replies!End, Status
<1>. QED BY <1>1, <1>2, <1>3, <1>4, <1>5, <1>6, <1>7, <1>8, <1>9, <1>10, <1>11, <1>12, <1>13, <1>14, <1>15 DEF Next, Dispatch, JavaScript

(* The dispatcher keeps the promise of RequestReply.                       *)
THEOREM Refinement == Spec => ReplySpec
<1>1. Init => Replies!Init
  BY DEF Init, Replies!Init, Status
<1>2. UNCHANGED vars => UNCHANGED Replies!vars
  BY DEF vars, connection, replies, Replies!vars, Status
<1>. QED BY Invariant, StepRefines, <1>1, <1>2, PTL DEF Spec, ReplySpec, Replies!Spec

=============================================================================
