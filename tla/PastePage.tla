----------------------------- MODULE PastePage -----------------------------
(***************************************************************************)
(* web: routes/paste.tsx with code-view.tsx: one paste by its code, its    *)
(* lines addressed by the fragment, coloured when the grammar comes.       *)
(*                                                                         *)
(* The page outlives a change of code (the same route matches), so an      *)
(* effect has to notice that what is shown is not what is asked for.  A    *)
(* commit and its effects are two steps, and events, answers and other     *)
(* navigations come in between; what an effect sets is committed with it.  *)
(***************************************************************************)
EXTENDS LineRanges

CONSTANTS
    Codes,            \* share codes, of which any may turn out to be missing
    Lines,            \* how many lines the paste behind each has
    Hashes,           \* bound: the fragments that occur
    Locales

None == "none"

ASSUME PasteAssumption ==
    /\ None \notin Codes /\ None \notin Locales
    /\ Lines \in [Codes -> Nat \ {0}]
    /\ Hashes \subseteq Seq(Nat)

VARIABLES
    route,            \* "paste", or another page of the client
    code,             \* useParams: the code asked for
    hash,             \* location.hash
    t,                \* the translator: made anew when the locale or the preference changes
    paste,            \* the paste shown, by its key, or None
    error,            \* the error shown: None, "missing" or "failed"
    live,             \* the code of the fetch that will be heard, or None
    cancelled,        \* the codes of fetches that will not
    view,             \* the state of the CodeView and the lines marked in its DOM
    job,              \* the highlighting that will be heard, by its locale, or None
    cancelledJobs,    \* the highlightings that will not, by code and locale
    keys,             \* the listeners for bare keys and what they closed over
    tab,              \* document.title
    due,              \* whether effects of the last commit have yet to run
    ran               \* what the effects saw when they last ran, or NotRun

pageVars == <<code, hash, paste, error>>
asyncVars == <<live, cancelled, job, cancelledJobs>>
pasteVars == <<route, t, pageVars, asyncVars, view, keys, tab, due, ran>>

Product == <<"Haste">>
Organisation == <<"ExpTech Studio">>

\* "none" while there is no CodeView; html is None or the locale of its labels.
NoView == [mounted |-> FALSE, of |-> None, html |-> None, marked |-> NoRange]
FreshView(key) == [NoView EXCEPT !.mounted = TRUE, !.of = key]

\* What useT may return: the preference is a locale, or left to the browser.
Translators == [locale : Locales, automatic : BOOLEAN]

NotRun == [first |-> TRUE]

-----------------------------------------------------------------------------
(* What a render computes. *)

lineCount == IF paste = None THEN 0 ELSE Lines[paste]
selection == clampRange(parseLineHash(hash), lineCount)

\* The object the memo hands down: an equal range from another fragment is another.
Selected ==
    [range |-> selection,
     from  |-> IF selection = NoRange THEN <<>> ELSE <<hash, lineCount>>]

\* The title, which without a name is a summary in the reader's language.
TitleOf(key, loc) == IF key = None THEN Product ELSE <<key, loc>>

\* What the effects of PastePage and CodeView depend on.
Deps == [code |-> code, paste |-> paste, error |-> error, t |-> t,
         selection |-> Selected, view |-> view.mounted, html |-> view.html]

\* CodeView renders again with every render of the page, and hands React a new object
\* around the same markup: React 19 compares the objects and writes the markup again,
\* without the marks.  The elements of the plain rendering stay as they are.
Rerendered == IF view.html = None THEN view ELSE [view EXCEPT !.marked = NoRange]

\* The view after a commit that shows `key`, or an error instead.
ViewAfter(key, err) ==
    IF key = None \/ err # None THEN NoView
    ELSE IF (view.mounted /\ view.of = key) THEN Rerendered ELSE FreshView(key)

-----------------------------------------------------------------------------
PasteInit ==
    /\ route = "editor" /\ code = None /\ hash = <<>> /\ t \in Translators
    /\ paste = None /\ error = None /\ live = None /\ cancelled = {}
    /\ view = NoView /\ job = None /\ cancelledJobs = {}
    /\ keys = {} /\ tab = Organisation /\ due = FALSE /\ ran = NotRun

Here == route = "paste"

\* React runs the effects that are due before it renders again.
Commit == Here /\ ~due /\ due' = TRUE /\ UNCHANGED <<route, ran, keys, tab>>

\* The page is mounted: from the editor with the paste it has just created in the
\* location's state, by a link without, or by the back button with that state again.
Arrive(asked, at, handoff) ==
    /\ ~Here
    /\ route' = "paste" /\ code' = asked /\ hash' = at
    /\ paste' = IF handoff THEN asked ELSE None
    /\ error' = None
    /\ view' = IF handoff THEN FreshView(asked) ELSE NoView
    /\ due' = TRUE /\ ran' = NotRun /\ keys' = {}
    /\ UNCHANGED <<t, asyncVars, tab>>

\* The address changes under the mounted page: the back button between two pastes, or
\* a fragment edited by hand.
Readdress(asked, at) ==
    /\ <<asked, at>> # <<code, hash>>
    /\ Commit
    /\ code' = asked /\ hash' = at
    /\ view' = Rerendered
    /\ UNCHANGED <<paste, error, t, asyncVars>>

\* onSelectLine: a click on a line number replaces the fragment.  The location is a new
\* one even if the line is selected already, so the page renders.
SelectLine(line, extend) ==
    /\ view.mounted /\ line \in 1 .. lineCount
    /\ Commit
    /\ hash' = formatLineHash(selectLine(selection, line, extend))
    /\ view' = Rerendered
    /\ UNCHANGED <<code, paste, error, t, asyncVars>>

\* The reader picks a locale, by name or by leaving it to the browser, or the browser's
\* changes.  The translator is a new one even if the locale stays.
SwitchLocale(next) ==
    /\ next # t
    /\ Commit
    /\ t' = next
    /\ view' = Rerendered
    /\ UNCHANGED <<pageVars, asyncVars>>

\* A page that shows only the errors the service explains: a broken connection is none.
AnswerSwallowed ==
    /\ live # None
    /\ Commit
    /\ \/ paste' = live /\ UNCHANGED error
       \/ error' \in {"missing", None} /\ UNCHANGED paste
    /\ view' = ViewAfter(paste', error')
    /\ live' = None
    /\ UNCHANGED <<code, hash, t, cancelled, job, cancelledJobs>>

\* fetchPaste is answered: the paste, a 404, or anything else that is an error.
Answer ==
    /\ live # None
    /\ Commit
    /\ \/ paste' = live /\ UNCHANGED error
       \/ error' \in {"missing", "failed"} /\ UNCHANGED paste
    /\ view' = ViewAfter(paste', error')
    /\ live' = None
    /\ UNCHANGED <<code, hash, t, cancelled, job, cancelledJobs>>

\* A fetch whose effect was cleaned up: nobody listens.
AnswerLate(key) ==
    /\ key \in cancelled
    /\ cancelled' = cancelled \ {key}
    /\ UNCHANGED <<route, pageVars, t, live, job, cancelledJobs, view, keys, tab, due, ran>>

\* highlight() is done: the markup replaces the plain rendering, marks and all.
Highlighted ==
    /\ job # None
    /\ Commit
    /\ view' = [view EXCEPT !.html = job, !.marked = NoRange]
    /\ job' = None
    /\ UNCHANGED <<pageVars, t, live, cancelled, cancelledJobs>>

\* It fails: the plain rendering is left in place, and nothing renders.
HighlightFailed ==
    /\ job # None
    /\ job' = None
    /\ UNCHANGED <<route, pageVars, t, live, cancelled, cancelledJobs, view, keys, tab, due, ran>>

\* A highlighting that is heard although its effect was cleaned up.
HighlightHeardLate(loc) ==
    /\ loc \in cancelledJobs
    /\ cancelledJobs' = cancelledJobs \ {loc}
    /\ IF view.mounted
       THEN Commit /\ view' = [view EXCEPT !.html = loc, !.marked = NoRange]
       ELSE UNCHANGED <<route, ran, keys, tab, due, view>>
    /\ UNCHANGED <<pageVars, t, live, cancelled, job>>

HighlightLate(loc) ==
    /\ loc \in cancelledJobs
    /\ cancelledJobs' = cancelledJobs \ {loc}
    /\ UNCHANGED <<route, pageVars, t, live, cancelled, job, view, keys, tab, due, ran>>

-----------------------------------------------------------------------------
(* The effects. *)

Changed(fields) == ran = NotRun \/ \E f \in fields : ran[f] # Deps[f]
Cancel(set, one) == IF one = None THEN set ELSE set \cup {one}

\* A fetch effect that depends on what it sets alone.
FetchForPaste ==
    IF ~Changed({"paste"})
    THEN UNCHANGED <<paste, error, live, cancelled>>
    ELSE /\ cancelled' = Cancel(cancelled, live)
         /\ IF paste = code
            THEN live' = None /\ UNCHANGED <<paste, error>>
            ELSE live' = code /\ paste' = None /\ error' = None

\* A fetch effect that leaves the answer to the first of its two fetches, which it has
\* just cancelled.
FetchOnce ==
    IF ~Changed({"code", "paste"})
    THEN UNCHANGED <<paste, error, live, cancelled>>
    ELSE /\ cancelled' = Cancel(cancelled, live)
         /\ IF paste = code \/ ~Changed({"code"})
            THEN live' = None /\ UNCHANGED <<paste, error>>
            ELSE live' = code /\ paste' = None /\ error' = None

\* The fetch effect.  Setting paste to null changes its own dependencies, so a change
\* of code fetches twice and cancels the first.
FetchEffect ==
    IF ~Changed({"code", "paste"})
    THEN UNCHANGED <<paste, error, live, cancelled>>
    ELSE /\ cancelled' = Cancel(cancelled, live)
         /\ IF paste = code
            THEN live' = None /\ UNCHANGED <<paste, error>>
            ELSE live' = code /\ paste' = None /\ error' = None

\* CodeView's first effect: highlight again, from the plain rendering.
Rehighlight == view.mounted /\ (Changed({"view", "t"}) \/ view.of # ran.paste)

JobEffect ==
    IF ~view.mounted \/ Rehighlight
    THEN /\ cancelledJobs' = Cancel(cancelledJobs, job)
         /\ job' = IF view.mounted /\ view'.mounted THEN t.locale ELSE None
    ELSE UNCHANGED <<job, cancelledJobs>>

\* An effect that forgets that new markup carries no marks.
MarkedBySelection ==
    IF Changed({"selection", "view"}) THEN selection ELSE view.marked

\* CodeView's second effect, on the markup of the commit.
Marked == IF Changed({"selection", "html", "view"}) THEN selection ELSE view.marked

ViewEffects ==
    view' = IF ViewAfter(paste', error') = NoView THEN NoView
            ELSE IF Rehighlight /\ view.html # None
            THEN [view EXCEPT !.html = None, !.marked = NoRange]
            ELSE [view EXCEPT !.marked = Marked]

\* The page's listener for bare keys; on an error there is none, since NotFound brings
\* its own.
PageKeys == IF error # None THEN {}
            ELSE {[owner |-> "page", paste |-> paste, selection |-> selection]}

NotFoundKeys == IF error # None THEN {[owner |-> "not-found"]} ELSE {}

OldPageKeys == {k \in keys : k.owner = "page"}

\* A listener that is not bound again when the selection it copies changes.
KeysForSelection ==
    (IF Changed({"paste", "error", "t"}) THEN PageKeys ELSE OldPageKeys) \cup NotFoundKeys

\* The page's listener is taken away and bound again when anything it closes over
\* changes; NotFound's comes and goes with it.
KeysAfter ==
    (IF Changed({"paste", "error", "selection", "t"}) THEN PageKeys ELSE OldPageKeys)
        \cup NotFoundKeys

RunEffects ==
    /\ Here /\ due
    /\ FetchEffect
    /\ ViewEffects
    /\ JobEffect
    /\ keys' = KeysAfter
    /\ tab' = TitleOf(paste, t.locale)
    /\ ran' = Deps
    /\ due' = (<<paste', error', view'.html, view'.mounted>>
                 # <<paste, error, view.html, view.mounted>>)
    /\ UNCHANGED <<route, code, hash, t>>

\* Another page of the client: everything is cleaned up.  The editor names the tab,
\* the API reference and the catch-all do not.
Leave(to) ==
    /\ Here
    /\ route' = to
    /\ code' = None /\ hash' = <<>> /\ paste' = None /\ error' = None
    /\ live' = None /\ cancelled' = Cancel(cancelled, live)
    /\ job' = None /\ cancelledJobs' = Cancel(cancelledJobs, job)
    /\ view' = NoView /\ keys' = {}
    /\ tab' = IF to = "editor" THEN Organisation ELSE tab
    /\ due' = FALSE /\ ran' = NotRun
    /\ UNCHANGED t

PasteNext ==
    \/ \E asked \in Codes, at \in Hashes, handoff \in BOOLEAN : Arrive(asked, at, handoff)
    \/ \E asked \in Codes, at \in Hashes : Readdress(asked, at)
    \/ \E key \in Codes : \E line \in 1 .. Lines[key], extend \in BOOLEAN : SelectLine(line, extend)
    \/ \E next \in Translators : SwitchLocale(next)
    \/ \E loc \in Locales : HighlightLate(loc)
    \/ Answer
    \/ \E key \in Codes : AnswerLate(key)
    \/ Highlighted \/ HighlightFailed
    \/ RunEffects
    \/ \E to \in {"editor", "docs"} : Leave(to)

PasteSpec == PasteInit /\ [][PasteNext]_pasteVars

\* Effects that are due are run, and a fetch is answered one way or the other.
PasteFairSpec == PasteSpec /\ WF_pasteVars(RunEffects) /\ SF_pasteVars(Answer)

-----------------------------------------------------------------------------
Settled == Here /\ ~due

\* Whatever order answers come in and however fast the codes change, what is shown is
\* the paste the address asks for (paste.tsx:56-77).
ShownIsAsked == Settled /\ paste # None => paste = code

\* A page that says it is loading has a request for this very code that it will hear,
\* and one that shows something waits for nothing.
LoadingIsBacked ==
    Settled => live = IF paste = None /\ error = None THEN code ELSE None

\* It does not load for ever.
LoadingEnds ==
    \A c \in Codes : (Here /\ code = c /\ paste = None /\ error = None)
        ~> (~Here \/ code # c \/ paste # None \/ error # None)

\* A key press meets one listener, and the one that knows what is on the screen: after
\* a selection, a new paste, an error or the recovery from one (paste.tsx:132-165,
\* not-found.tsx:43-54).
KeysAreCurrent ==
    Settled =>
        keys = IF error # None THEN {[owner |-> "not-found"]}
               ELSE {[owner |-> "page", paste |-> paste, selection |-> selection]}

\* The lines that look selected are the selection, plain or coloured, whatever comes
\* first (code-view.tsx:53-68).  One case is left: a render for which nothing changed, as
\* by a click on what is selected already, writes the markup again and no effect redraws
\* the marks.  Then no line looks selected; never another one does.
MarksFollow ==
    [][Settled' /\ view'.mounted /\ view'.marked # selection' =>
         view'.marked = NoRange /\ view'.html # None /\ ran' = ran]_pasteVars

\* The markup's labels are in the reader's language, or on their way to be.
LabelsAreTranslated ==
    Settled /\ view.mounted /\ view.html # None => view.html = t.locale

\* The tab describes the page one is on (use-document-title.ts:7-12): off the paste
\* page it names no paste.
TabDescribesThePage == ~Here => tab \in {Product, Organisation}
=============================================================================
