----------------------------- MODULE CodeEditor -----------------------------
(***************************************************************************)
(* web: the editor's coloured layer.  Its effect asks for the highlighter  *)
(* whenever the language changes or the text crosses the size limit; the   *)
(* layer is coloured once the answer for this very language is in.         *)
(***************************************************************************)
EXTENDS Highlighter

CONSTANT Languages    \* what the language prop can be

NoEditor == "none"

ASSUME LayerAssumption == PLAIN \in Languages /\ NoEditor \notin Languages

VARIABLES
    language,         \* the prop; NoEditor while the editor is not mounted
    large,            \* value.length > LIVE_HIGHLIGHT_LIMIT
    ready,            \* the language of the `ready` state, or NoEditor
    awaited,          \* the language the live effect waits for, or NoEditor
    abandoned         \* the languages cancelled effects still wait for

layerVars == <<language, large, ready, awaited, abandoned>>

LayerInit ==
    /\ language = NoEditor /\ large = FALSE
    /\ ready = NoEditor /\ awaited = NoEditor /\ abandoned = {}

Superseded == IF awaited = NoEditor THEN {} ELSE {awaited}

\* An effect that runs for the size alone.
ShowBySize(lang, big) ==
    /\ <<lang, big>> # <<language, large>>
    /\ language' = lang /\ large' = big
    /\ IF big THEN awaited' = NoEditor /\ UNCHANGED engine
       ELSE IF language # NoEditor /\ ~large THEN UNCHANGED <<awaited, engine>>
       ELSE awaited' = lang /\ AskForEngine
    /\ abandoned' = abandoned \cup (Superseded \ {awaited'})
    /\ UNCHANGED loaded

\* A commit that changes the language or the side of the limit the text is on, and
\* the effect after it: the cleanup cancels the one before.
Show(lang, big) ==
    /\ <<lang, big>> # <<language, large>>
    /\ language' = lang /\ large' = big
    /\ abandoned' = abandoned \cup Superseded
    /\ IF big
       THEN awaited' = NoEditor /\ UNCHANGED engine
       ELSE awaited' = lang /\ AskForEngine
    /\ UNCHANGED loaded

OpenLayer(lang, big) ==
    /\ language = NoEditor
    /\ Show(lang, big)
    /\ ready' = NoEditor

ChangeLayer(lang, big) ==
    /\ language # NoEditor
    /\ Show(lang, big)
    /\ UNCHANGED ready

CloseLayer ==
    /\ language' = NoEditor /\ large' = FALSE /\ ready' = NoEditor
    /\ awaited' = NoEditor /\ abandoned' = abandoned \cup Superseded
    /\ UNCHANGED highlighterVars

\* The promise of the live effect resolves or, with the engine, rejects.
Answered ==
    /\ awaited # NoEditor
    /\ \/ EnsureGrammar(awaited) /\ ready' = awaited
       \/ engine = "rejected" /\ UNCHANGED <<ready, highlighterVars>>
    /\ awaited' = NoEditor
    /\ UNCHANGED <<language, large, abandoned>>

\* An effect that answers although it was cancelled.
AnsweredLateAnyway(lang) ==
    /\ lang \in abandoned
    /\ \/ EnsureGrammar(lang) /\ ready' = IF language = NoEditor THEN ready ELSE lang
       \/ engine = "rejected" /\ UNCHANGED <<ready, highlighterVars>>
    /\ abandoned' = abandoned \ {lang}
    /\ UNCHANGED <<language, large, awaited>>

\* The promise of a cancelled effect resolves: its grammar is loaded all the same.
AnsweredLate(lang) ==
    /\ lang \in abandoned
    /\ \/ EnsureGrammar(lang)
       \/ engine = "rejected" /\ UNCHANGED highlighterVars
    /\ abandoned' = abandoned \ {lang}
    /\ UNCHANGED <<language, large, ready, awaited>>

\* html, as the language it is coloured in; NoEditor is the uncoloured <pre>.
LayerColour ==
    IF large \/ ready # language \/ language = NoEditor THEN NoEditor
    ELSE ColouredAs(language)

-----------------------------------------------------------------------------
\* A text small enough is coloured for the language it has now, or that answer is
\* still awaited, or there is no engine: no order of late grammars leaves the layer
\* plain for good, since the effect will not run again (code-editor.tsx:60-76).
ColouredOrAwaited ==
    language # NoEditor /\ ~large =>
        LayerColour # NoEditor \/ awaited = language \/ engine = "rejected"

\* The visible text gets its colour.
ColourArrives ==
    \A l \in Languages : (language = l /\ ~large) ~> (ready = l \/ language # l \/ large \/ engine = "rejected")
=============================================================================
