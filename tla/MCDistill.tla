------------------------------ MODULE MCDistill -----------------------------
(***************************************************************************)
(* Small instances of Distill.                                             *)
(***************************************************************************)
EXTENDS Distill

Structured(src, slot, obj, at) ==
    [source |-> src, slot |-> slot, object |-> obj, polarity |-> TRUE,
     structured |-> TRUE, valid_at |-> at]
Extracted(src, slot, obj, at) ==
    [source |-> src, slot |-> slot, object |-> obj, polarity |-> TRUE,
     structured |-> FALSE, valid_at |-> at]
Negated(c) == [c EXCEPT !.polarity = FALSE]

Paris == Structured(0, "lives_in", "paris", 1)
Rome  == Structured(1, "lives_in", "rome", 2)
Oslo  == Structured(7, "lives_in", "oslo", 3)

\* One functional slot with facts that arrive in and out of the order of their
\* world times, structured and extracted, dated and undated; a functional slot
\* with undated facts only; and a slot that is not functional with both
\* polarities of one triple.
MixedWindows ==
    {<<Paris>>, <<Rome, Paris>>, <<Oslo>>,
     <<Extracted(2, "lives_in", "oslo", None), Extracted(3, "lives_in", "rome", None)>>,
     <<Extracted(0, "works_at", "acme", None), Extracted(1, "works_at", "bolt", None)>>,
     <<Extracted(4, "likes", "tea", None), Negated(Extracted(5, "likes", "tea", None)),
       Extracted(6, "likes", "jam", None)>>}

FunctionalSlots == {"lives_in", "works_at"}
=============================================================================
