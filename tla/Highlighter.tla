---------------------------- MODULE Highlighter ----------------------------
(***************************************************************************)
(* web: lib/highlighter.ts.  One engine per tab behind a cached promise,   *)
(* and the grammars it has been given so far.                              *)
(***************************************************************************)
CONSTANTS
    Grammars,         \* the languages loaderFor knows
    PLAIN             \* the language that needs no grammar

VARIABLES
    engine,           \* highlighterPromise
    loaded            \* loadedLanguages

highlighterVars == <<engine, loaded>>

Engines == {"null", "creating", "ready", "rejected"}

HighlighterInit ==
    /\ engine = "null"
    /\ loaded = {}

\* `highlighterPromise ??= create()`: a rejected promise is not null, so it stays.
AskForEngine == engine' = IF engine = "null" THEN "creating" ELSE engine

\* create(): the engine's chunks arrive, or one of them does not.
EngineSettles ==
    /\ engine = "creating"
    /\ engine' \in {"ready", "rejected"}
    /\ UNCHANGED loaded

\* What is left of ensureHighlighter(language) once the engine is there: the grammar
\* is loaded unless it has one already or none exists; a failure is swallowed.
EnsureGrammar(language) ==
    /\ engine = "ready"
    /\ \/ language \in Grammars \ loaded /\ loaded' = loaded \cup {language}
       \/ UNCHANGED loaded
    /\ UNCHANGED engine

\* highlightSync: the language the code is coloured as.
ColouredAs(language) == IF language \in loaded THEN language ELSE PLAIN

HighlighterTypeOK ==
    /\ engine \in Engines
    /\ loaded \subseteq Grammars
=============================================================================
