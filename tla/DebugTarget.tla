---------------------------- MODULE DebugTarget ----------------------------
(***************************************************************************)
(* What the debugger connection promises to a front end, independently of  *)
(* threads, queues, sockets and the nested loop: a script pauses only for  *)
(* an agent that is on, a pause lasts until it is released, and messages   *)
(* have their effect once, while a script runs, in any order.  What makes  *)
(* a script break is left open: a breakpoint, a step, an exception or a    *)
(* break that was asked for.  A message may wait for ever and the process  *)
(* may die: this is safety only.  Inspector refines this specification.    *)
(***************************************************************************)
EXTENDS Naturals, Sequences

CONSTANT Kind    \* what a message may ask for

VARIABLES
  alive,    \* the process has not died
  sent,     \* the kinds of the messages received so far, in order
  handled,  \* the messages that had their effect
  agent,    \* the debugger agent: "gone", "off" or "on"
  script,   \* "idle", "running" or "paused"
  released  \* the present pause was told to end

vars == <<alive, sent, handled, agent, script, released>>

Init ==
  /\ alive = TRUE
  /\ sent = <<>> /\ handled = {}
  /\ agent = "gone"
  /\ script = "idle"
  /\ released = FALSE

(* The script, if it is paused, is let go.                                 *)
Release == released' = (released \/ script = "paused")

(* Whoever takes the agent away or turns it off lets the script go.        *)
Become(next) ==
  /\ agent' = next
  /\ released' = (released \/ (agent = "on" /\ script = "paused"))

(* A message without an agent is dropped; one that tells when to break     *)
(* changes nothing else.                                                   *)
Effect(kind) ==
  IF agent = "gone" THEN UNCHANGED <<agent, released>> ELSE
  \/ kind = "enable" /\ agent' = "on" /\ UNCHANGED released
  \/ kind = "disable" /\ Become("off")
  \/ kind \in {"resume", "continueTo"} /\ Release /\ UNCHANGED agent
  \/ kind \notin {"enable", "disable", "resume"} /\ UNCHANGED <<agent, released>>

Receive ==
  /\ \E k \in Kind : sent' = Append(sent, k)
  /\ UNCHANGED <<alive, handled, agent, script, released>>

Handle ==
  /\ script # "idle"
  /\ \E i \in (1..Len(sent)) \ handled :
       Effect(sent[i]) /\ handled' = handled \union {i}
  /\ UNCHANGED <<alive, sent, script>>

(* A front end leaves, and a session ends or another takes its place.      *)
Leave ==
  /\ Release
  /\ UNCHANGED <<alive, sent, handled, agent, script>>

Replace ==
  /\ \E next \in {"gone", "off"} : Become(next)
  /\ UNCHANGED <<alive, sent, handled, script>>

Begin ==
  /\ script = "idle"
  /\ script' = "running"
  /\ UNCHANGED <<alive, sent, handled, agent, released>>

Break ==
  /\ script = "running" /\ agent = "on"
  /\ script' = "paused" /\ released' = FALSE
  /\ UNCHANGED <<alive, sent, handled, agent>>

Continue ==
  /\ script = "paused" /\ released
  /\ script' = "running"
  /\ UNCHANGED <<alive, sent, handled, agent, released>>

End ==
  /\ script = "running"
  /\ script' = "idle"
  /\ UNCHANGED <<alive, sent, handled, agent, released>>

Die ==
  /\ alive' = FALSE
  /\ UNCHANGED <<sent, handled, agent, script, released>>

Next ==
  /\ alive
  /\ \/ Receive \/ Handle
     \/ Leave \/ Replace
     \/ Begin \/ Break \/ Continue \/ End
     \/ Die

Spec == Init /\ [][Next]_vars
=============================================================================
