------------------------------ MODULE RuleBook ------------------------------
(***************************************************************************)
(* What the agent's rule memory promises to whoever teaches it and to      *)
(* whoever recalls from it: a book with at most one current rule per key,  *)
(* whose every past state can be read again and never changes.             *)
(* MemoryStore implements this module.                                     *)
(***************************************************************************)
EXTENDS Naturals

CONSTANT Key                  \* rule keys, e.g. "metric:revenue"

VARIABLES
    now,      \* the last committed instant
    book,     \* book[k]: the instant at which k's current rule was learnt, 0 if none
    past      \* past[i]: the book as of instant i

vars == <<now, book, past>>

Blank == [k \in Key |-> 0]

Init ==
    /\ now = 0
    /\ book = Blank
    /\ past = [i \in {0} |-> Blank]

\* One commit: the book becomes b and every earlier page stays as it was.
TurnPage(b) ==
    /\ now' = now + 1
    /\ book' = b
    /\ past' = [i \in 0 .. now + 1 |-> IF i = now + 1 THEN b ELSE past[i]]

\* A rule for k is learnt and takes the place of k's current one, if any.
Learn(k) == TurnPage([book EXCEPT ![k] = now + 1])

\* The whole book is cleared at once.
Clear == TurnPage(Blank)

\* Something else is committed (an episode): the rules do not change.
Elapse == TurnPage(book)

Next == Clear \/ Elapse \/ \E k \in Key : Learn(k)

Spec == Init /\ [][Next]_vars
=============================================================================
