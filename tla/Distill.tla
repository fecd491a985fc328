-------------------------------- MODULE Distill --------------------------------
(***************************************************************************)
(* distill.distill: the rule candidates in the difference between a wrong  *)
(* SQL text and its correction.  A text is what distill reads off it: its  *)
(* WHERE and ON conjuncts, its dates, its tables, whether it joins regions *)
(* on product_id, and whether it mentions refunds.  A conjunct is its rank *)
(* among the rendered conjuncts and what a substring search finds in it; a *)
(* date is whether it starts a fiscal quarter and a rank of its own.       *)
(*                                                                         *)
(* Also the corrections taught in the first place: the naive and gold      *)
(* texts of the exam items educate.CURRICULUM names; and the gold and bait *)
(* texts of the items that are marked regression_bait.                     *)
(***************************************************************************)
EXTENDS Naturals, Sequences, FiniteSets

CONSTANTS
    R,            \* metric:revenue
    S,            \* filter:orders_soft_delete
    C,            \* filter:orders_not_cancelled
    F,            \* calendar:fiscal
    J             \* join:orders_customers_regions

ASSUME KeysAssumption ==
    R \notin {S, C, F, J} /\ S \notin {C, F, J} /\ C \notin {F, J} /\ F # J

Rule == {R, S, C, F, J}

-----------------------------------------------------------------------------
\* A conjunct that is a candidate: it has no date and names one of the columns.
IsRule(p) == "date" \notin p.says /\ p.says \cap {"deleted_at", "cancelled"} # {}

\* The element of ps with n - 1 others before it in the text's sort order.
Nth(ps, n) == CHOOSE p \in ps : Cardinality({q \in ps : q.rank < p.rank}) = n - 1

\* One candidate per added filter, in sorted order; two may share a key.
FilterRules(added) ==
    LET kept == {p \in added : IsRule(p)}
    IN  [n \in 1 .. Cardinality(kept) |->
            IF "deleted_at" \in Nth(kept, n).says THEN S ELSE C]

\* Some added date starts a fiscal quarter (-02-01, -05-01, -08-01, -11-01).
MovesCalendar(attempt, gold) == \E d \in gold.dates \ attempt.dates : d.fiscal

\* Mutation of CorrectsJoin: that customers are named is taken for a correction.
NamesCustomers(attempt, gold) == "customers" \in gold.tables

\* The correction goes through customers; the attempt did not, or it joined
\* regions on product_id.
CorrectsJoin(attempt, gold) ==
    /\ "customers" \in gold.tables
    /\ "customers" \notin attempt.tables \/ attempt.regionOnProduct

\* distill(attempt_sql, gold_sql), the rule_key of each candidate
Candidates(attempt, gold) ==
    FilterRules(gold.preds \ attempt.preds)
    \o (IF MovesCalendar(attempt, gold) THEN <<F>> ELSE <<>>)
    \o (IF CorrectsJoin(attempt, gold) THEN <<J>> ELSE <<>>)
    \o (IF gold.refund /\ ~attempt.refund THEN <<R>> ELSE <<>>)

KeysOf(candidates) == {candidates[n] : n \in DOMAIN candidates}

-----------------------------------------------------------------------------
(* questions.json: naive_sql and gold_sql of the items of CURRICULUM *)

NotDeleted == [rank |-> 1, says |-> {"deleted_at"}]
NotCancelled == [rank |-> 2, says |-> {"cancelled"}]

\* An ordered_at window; the refund subquery repeats it with both filters.
Window(quarter) == [rank |-> 2 + quarter, says |-> {"date"}]
RefundsOf == [rank |-> 7, says |-> {"deleted_at", "cancelled", "date"}]

Date(n) == [rank |-> n, fiscal |-> TRUE]
Calendar(n) == [rank |-> n, fiscal |-> FALSE]

Text(preds, dates, tables) ==
    [preds |-> preds, dates |-> dates, tables |-> tables, regionOnProduct |-> FALSE, refund |-> FALSE]

Orders == {"order_lines", "orders"}
ByRegion == Orders \cup {"customers", "regions"}
ThisYear == {Calendar(1), Calendar(2)}

\* The correction that item q teaches: <<naive_sql, gold_sql>>.
Correction(q) ==
    CASE q = "q08" -> <<Text({Window(1)}, ThisYear, ByRegion),
                        Text({Window(1), NotDeleted, NotCancelled}, ThisYear, ByRegion)>>
      [] q = "q11" -> <<Text({Window(1)}, ThisYear, Orders \cup {"products"}),
                        Text({Window(1), NotDeleted, NotCancelled}, ThisYear, Orders \cup {"products"})>>
      [] q = "q01" -> <<Text({Window(1)}, {Calendar(3), Calendar(4)}, ByRegion),
                        [Text({Window(2), NotDeleted, NotCancelled}, {Date(5), Date(6)},
                              ByRegion \cup {"refunds"}) EXCEPT !.refund = TRUE]>>
      [] q = "q02" -> <<Text({Window(1)}, {Calendar(7), Calendar(3)}, Orders),
                        [Text({Window(2), NotDeleted, NotCancelled, RefundsOf}, {Date(8), Date(5)},
                              Orders \cup {"refunds"}) EXCEPT !.refund = TRUE]>>
      [] q = "q06" -> <<[Text({Window(1)}, {Date(9), Date(10)}, Orders \cup {"products", "regions"})
                              EXCEPT !.regionOnProduct = TRUE],
                        Text({Window(1), NotDeleted, NotCancelled}, {Date(9), Date(10)},
                             ByRegion \cup {"products"})>>

\* teach_item's candidates for item q
ItemCandidates(q) == Candidates(Correction(q)[1], Correction(q)[2])

CURRICULUM == << <<"q08", "q11">>, <<"q01", "q02">>, <<"q06">> >>

\* Taught[n]: the rules that the first n lessons teach.
Taught == [n \in 0 .. Len(CURRICULUM) |->
    UNION {UNION {KeysOf(ItemCandidates(CURRICULUM[i][j])) : j \in DOMAIN CURRICULUM[i]} : i \in 1 .. n}]

-----------------------------------------------------------------------------
(* questions.json: gold_sql and bait_sql of the items marked regression_bait *)

\* The items that ask for cancelled and for deleted orders.
IsDeleted == [rank |-> 0, says |-> {"deleted_at"}]
IsCancelled == [rank |-> 10, says |-> {"cancelled"}]

NetOfRefunds(text) == [text EXCEPT !.tables = @ \cup {"refunds"}, !.refund = TRUE]

\* What item i's bait makes of its gold text: <<gold_sql, bait_sql>>.
Overgeneralization(i) ==
    CASE i = 3 -> <<Text({IsCancelled, Window(1)}, ThisYear, {"orders"}),
                    Text({IsCancelled, NotCancelled, Window(1)}, ThisYear, {"orders"})>>
      [] i = 7 -> <<Text({IsDeleted}, {}, {"orders"}),
                    Text({IsDeleted, NotDeleted}, {}, {"orders"})>>
      [] i = 31 -> LET gross == {NotDeleted, NotCancelled, Window(2)}
                       dates == {Date(8), Date(5)}
                   IN  <<Text(gross, dates, Orders),
                         NetOfRefunds(Text(gross \cup {RefundsOf}, dates, Orders))>>
      [] i = 36 -> LET refunds(quarter) == [RefundsOf EXCEPT !.rank = @ + quarter]
                       net(quarter, dates) ==
                           NetOfRefunds(Text({NotDeleted, NotCancelled, Window(quarter),
                                              refunds(quarter)}, dates, Orders))
                   IN  <<net(1, {Calendar(3), Calendar(4)}), net(2, {Date(5), Date(6)})>>
      [] i = 47 -> <<Text({IsDeleted}, {}, Orders), Text({IsDeleted, NotDeleted}, {}, Orders)>>
      [] i = 50 -> <<Text({NotDeleted, Window(1)}, ThisYear, {"orders"}),
                     Text({NotDeleted, NotCancelled, Window(1)}, ThisYear, {"orders"})>>

\* The rules that the bait applies where the gold text does not.
Overapplied(i) == KeysOf(Candidates(Overgeneralization(i)[1], Overgeneralization(i)[2]))
=============================================================================
