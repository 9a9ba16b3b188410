---------------------------- MODULE RequestReply ----------------------------
(****************************************************************************)
(* What the protocol promises a front end, whatever serves it: a request is *)
(* answered once, and one that is still pending is lost only with the       *)
(* session it belongs to, or because nobody listens. Dispatcher refines     *)
(* this specification.                                                      *)
(****************************************************************************)

CONSTANT Requests

VARIABLES status,    \* of each request
          listening  \* a front end is there to hear answers

vars == <<status, listening>>

Init == status = [r \in Requests |-> "idle"] /\ listening = FALSE

(* How one request may get on when nothing ends. *)
Progress(r) ==
    \/ status'[r] = status[r]
    \/ status[r] = "idle" /\ status'[r] = "pending"
    \/ /\ status[r] \in {"idle", "pending"}
       /\ status'[r] = IF listening THEN "answered" ELSE "lost"

Serve == /\ UNCHANGED listening
         /\ DOMAIN status' = Requests
         /\ \A r \in Requests : Progress(r)

Listen == listening' = TRUE /\ UNCHANGED status

(* The session ends: its last answers go out and nothing of it stays pending. *)
End == /\ listening
       /\ listening' = FALSE
       /\ DOMAIN status' = Requests
       /\ \A r \in Requests : IF status[r] = "pending" THEN status'[r] \in {"answered", "lost"}
                                                       ELSE status'[r] = status[r]

Next == Serve \/ Listen \/ End
Spec == Init /\ [][Next]_vars
=============================================================================
