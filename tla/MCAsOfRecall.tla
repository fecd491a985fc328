---------------------------- MODULE MCAsOfRecall ----------------------------
(* A stamp ten seconds old (the Lambda's), one just taken, one two seconds  *)
(* and one a minute in the future.                                          *)
EXTENDS AsOfRecall

MCOffsets == {-40, 0, 8, 240}
MCStartAt == {40, 41}
=============================================================================
