---------------------------- MODULE MCMemoryStore ----------------------------
(* Two keys, two concurrent teaches, two resets; lessons with no rule, one  *)
(* rule, two rules in either order, and the same key twice (distill can     *)
(* return it: two added predicates can share a key).  The last one lets a   *)
(* teach supersede its own rule while the other one competes for it.        *)
EXTENDS MemoryStore

CONSTANTS k1, k2, t1, t2

MCKey == {k1, k2}
MCTeacher == {t1, t2}
MCLesson == {<<>>, <<k1>>, <<k1, k2>>, <<k2, k1>>, <<k1, k1>>}
=============================================================================
