--------------------------- MODULE MessageChannel ---------------------------
(***************************************************************************)
(* What a websocket promises to its listener, independently of frames,     *)
(* fragments, states and threads: the messages of the peer arrive whole,   *)
(* in order and once, and the end of the channel is reported once, after   *)
(* the last message.  Messages may be lost at the end and only there.      *)
(* WebSocket refines this specification when it is used as the inspector   *)
(* uses it.                                                                *)
(***************************************************************************)
EXTENDS Naturals, Sequences

VARIABLES sent,      \* complete messages of the peer
          delivered, \* messages given to the listener
          reports    \* how often the listener was told of the end

vars == <<sent, delivered, reports>>

Init == sent = <<>> /\ delivered = <<>> /\ reports = 0

(* The peer sends one more message, whatever it is.                        *)
Send ==
  /\ Len(sent') = Len(sent) + 1
  /\ SubSeq(sent', 1, Len(sent)) = sent
  /\ UNCHANGED <<delivered, reports>>

Deliver ==
  /\ reports = 0
  /\ Len(delivered) < Len(sent)
  /\ delivered' = Append(delivered, sent[Len(delivered) + 1])
  /\ UNCHANGED <<sent, reports>>

End ==
  /\ reports = 0
  /\ reports' = 1
  /\ UNCHANGED <<sent, delivered>>

Next == Send \/ Deliver \/ End

Spec == Init /\ [][Next]_vars
=============================================================================
