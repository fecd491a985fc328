-------------------------------- MODULE MCExam --------------------------------
(* All fifty items and two exams.  Corrections are those of CURRICULUM and   *)
(* every pair of texts with or without each thing distill looks for, so that *)
(* every set of rules is learnt, and Reset lets the two exams cover every    *)
(* ordered pair of them.                                                     *)
EXTENDS Exam

MCText ==
    {t \in [preds : SUBSET {NotDeleted, NotCancelled}, dates : {{Calendar(1)}, {Date(2)}},
            tables : {Orders, Orders \cup {"regions"}, ByRegion},
            regionOnProduct : BOOLEAN, refund : BOOLEAN] :
        t.regionOnProduct => "regions" \in t.tables}

MCCorrections ==
    (MCText \X MCText) \cup {Correction(q) : q \in {"q08", "q11", "q01", "q02", "q06"}}

\* Signatures as cmd_verify finds them: an item's label, or one of the body's own.
MCLabel == [i \in Item |-> <<i, "label">>]
MCSignature ==
    [i \in Item |-> [body \in {"gold", "naive", "bait"} |->
        IF body = "gold" \/ (body = "naive" /\ i \in Unaffected) THEN MCLabel[i]
        ELSE <<i, body>>]]
=============================================================================
