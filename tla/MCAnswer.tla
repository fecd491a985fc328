-------------------------------- MODULE MCAnswer --------------------------------
(* Two questions and one job.  One  text for each way through the guard and  *)
(* the warehouse: right and wrong queries, a query with a keyword in it that *)
(* is refused for nothing, WITH ... DELETE, which only the keyword search    *)
(* stops, a DELETE, two statements, nothing at all, a query that fails, one  *)
(* that never ends.                                                          *)
EXTENDS Answer

T(selects, keyword, does) ==
    [empty |-> FALSE, semicolon |-> FALSE, selects |-> selects, keyword |-> keyword, does |-> does]

MCHouse == {T(TRUE, FALSE, "right"), T(TRUE, FALSE, "wrong")}
MCText ==
    MCHouse \cup
    {T(TRUE, TRUE, "right"), T(TRUE, TRUE, "writes"), T(FALSE, TRUE, "writes"),
     [T(TRUE, FALSE, "fails") EXCEPT !.semicolon = TRUE],
     [T(FALSE, FALSE, "wrong") EXCEPT !.empty = TRUE],
     T(TRUE, FALSE, "fails"), T(TRUE, FALSE, "endless")}

\* A stamp from before the job (the Lambda's), one just taken, one half a lag
\* in the future, one that the wait gives up on.
MCOffsets == {-4, 0, 1, 60}
MCStartAt == {5}
=============================================================================
