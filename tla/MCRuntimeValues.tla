--------------------------- MODULE MCRuntimeValues ---------------------------
EXTENDS RuntimeValues

\* -1234567.5, which %g writes as -1.23457e+06.
MCScalars == {Store!F64(-2469135)}

\* The numerals 1.5 and -1.5e+06.
MCLiterals == {Store!Numeral(3), Store!Scientific(-3000000)}

\* No action reads `last`, nor a buffer behind its count: states that differ in
\* them alone have the same successors.  TLC still checks each step of them.
InUse == <<[a \in Arrays |-> <<Len(items[a]), SubSeq(items[a], 1, count[a])>>],
           [o \in Objects |-> <<Len(entries[o]), SubSeq(entries[o], 1, size[o])>>],
           cell, held>>
=============================================================================
