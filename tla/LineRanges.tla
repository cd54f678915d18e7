----------------------------- MODULE LineRanges -----------------------------
(***************************************************************************)
(* web: lib/lines.ts.  The fragment that selects lines of a paste: #L17,   *)
(* #L17-L25.  A fragment is the sequence of the numbers it spells; what    *)
(* does not match the pattern spells none.                                 *)
(***************************************************************************)
EXTENDS Naturals, Sequences

NoRange == <<>>

Lower(x, y) == IF x <= y THEN x ELSE y
Higher(x, y) == IF x <= y THEN y ELSE x

Range(first, last) == [start |-> first, end |-> last]

\* parseLineHash: one number is a line, two are a range whichever way round.
parseLineHash(hash) ==
    IF Len(hash) \notin 1 .. 2 \/ \E i \in DOMAIN hash : hash[i] < 1 THEN NoRange
    ELSE Range(Lower(hash[1], hash[Len(hash)]), Higher(hash[1], hash[Len(hash)]))

\* formatLineHash
formatLineHash(range) ==
    IF range.start = range.end THEN <<range.start>> ELSE <<range.start, range.end>>

\* selectLine: a click, which with shift extends what is selected.
selectLine(current, line, extend) ==
    IF ~extend \/ current = NoRange THEN Range(line, line)
    ELSE Range(Lower(current.start, line), Higher(current.start, line))

\* clampRange: what lies past the end of the content is dropped.
clampRange(range, lineCount) ==
    IF range = NoRange THEN NoRange
    ELSE IF range.start > lineCount THEN NoRange
    ELSE Range(range.start, Lower(range.end, lineCount))
=============================================================================
