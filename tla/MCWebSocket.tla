---------------------------- MODULE MCWebSocket ----------------------------
(* The server thread, one thread that sends, and one that closes or none.  *)
EXTENDS WebSocket

CONSTANTS reader, s1, c1

MCSender == {s1}
MCNoCloser == {}
MCCloser == {c1}
MCCallOp == {"Text", "Ping"}
MCTextOnly == {"Text"}
=============================================================================
