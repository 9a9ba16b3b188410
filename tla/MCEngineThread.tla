--------------------------- MODULE MCEngineThread ---------------------------
(* Two threads that use the engine, and room for the second JS thread that *)
(* must never be allocated.                                                *)
EXTENDS EngineThread

CONSTANTS main, worker, js1, js2

MCCaller == {main, worker}
MCJsThread == {js1, js2}
MCDelay == {0, 1}
=============================================================================
