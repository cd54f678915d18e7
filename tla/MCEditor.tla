------------------------------ MODULE MCEditor ------------------------------
(***************************************************************************)
(* A small instance of EditorPage.  Three texts: the empty one; one of a   *)
(* single astral character that reads as Go; and one of two code points,   *)
(* half a surrogate pair among them, that reads as nothing and is over the *)
(* server's limit though not over the fallback's.                          *)
(***************************************************************************)
EXTENDS EditorPage

Text(units, marks) == [units |-> units, marks |-> marks, lines |-> <<>>]

MCEmpty == Text(<<>>, {})
MCTexts == {MCEmpty, Text(<<"high", "low">>, {"package", "func"}),
            Text(<<"high", "x">>, {})}
MCFiles == {Text(<<"high", "x">>, {})}
MCTitles == {<<>>, <<"x", "x">>}
MCFallback == [maxChars |-> 2, maxTitleChars |-> 1, expiries |-> {1, 2}]
MCServer == [maxChars |-> 1, maxTitleChars |-> 1, expiries |-> {1}]

\* The client counts as the server does, for every text of up to six units.
ASSUME CountAssumption ==
    \A s \in UNION {[1 .. n -> Units] : n \in 0 .. 6} : countCodePoints(s) = Runes(s)

\* A blank line or a comment anywhere changes none of the detector's verdicts that count
\* lines, for every text of up to four others.
MCLines == {Skipped, Line(TRUE, FALSE, FALSE, 1), Line(FALSE, TRUE, FALSE, 1),
            Line(FALSE, TRUE, TRUE, 0)}

ASSUME SkippingAssumption ==
    \A s \in UNION {[1 .. n -> MCLines] : n \in 0 .. 4} : \A i \in 1 .. Len(s) + 1 :
        LET t == InsertAt(s, i, Skipped)
        IN  isLog(t) = isLog(s) /\ isYaml(t) = isYaml(s) /\ isCsv(t) = isCsv(s)
=============================================================================
