------------------------------ MODULE MCDemoPage ------------------------------
(* Two questions; room for two calls of ask(), so that a second one could   *)
(* start if the buttons allowed it.                                         *)
EXTENDS DemoPage

CONSTANTS q02, q07, a1, a2

MCQuestion == {q02, q07}
MCCall == {a1, a2}
=============================================================================
