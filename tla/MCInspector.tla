---------------------------- MODULE MCInspector ----------------------------
(* Two websockets, as when a front end reconnects before the server has    *)
(* noticed that the first connection broke.                                *)
EXTENDS Inspector, TLC

CONSTANTS s1, s2, main, starter, js

MCSocket == {s1, s2}
MCOneSocket == {s1}
MCSymmetry == Permutations(MCSocket)
MCKind == {"enable", "pause", "resume", "continueTo", "skip", "deactivate"}
MCLiveKind == {"enable", "disable", "pause", "resume"}
MCShouldBreak == {FALSE, TRUE}
MCNoBreak == {FALSE}
=============================================================================
