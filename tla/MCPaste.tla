------------------------------ MODULE MCPaste ------------------------------
(***************************************************************************)
(* A small instance of PastePage: a paste of one line and one of three,    *)
(* fragments inside, across and past their ends, two locales.              *)
(***************************************************************************)
EXTENDS PastePage

MCLines == [c \in Codes |-> IF c = "a" THEN 1 ELSE 3]
MCHashes == {<<>>, <<1>>, <<3, 1>>, <<2, 9>>}

Ranges == {Range(i, j) : i, j \in 1 .. 5} \cap {r \in [start : 1 .. 5, end : 1 .. 5] : r.start <= r.end}

\* A fragment reads back as the range it was written from; a shift-click up selects
\* what the same click down does; and a click leaves a range that can be written.
ASSUME RangeAssumption ==
    /\ \A r \in Ranges : parseLineHash(formatLineHash(r)) = r
    /\ \A i, j \in 1 .. 5 :
          selectLine(Range(i, i), j, TRUE) = selectLine(Range(j, j), i, TRUE)
    /\ \A r \in Ranges \cup {NoRange}, line \in 1 .. 5, extend \in BOOLEAN :
          selectLine(r, line, extend) \in Ranges
=============================================================================
