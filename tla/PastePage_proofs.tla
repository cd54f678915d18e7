-------------------------- MODULE PastePage_proofs --------------------------
(***************************************************************************)
(* The paste page, for any pastes, fragments and locales.  The argument is *)
(* the one React asks of its users: what the effects saw when they last    *)
(* ran (`ran`) says what they have left in place, and a commit that        *)
(* changes nothing they depend on may rely on it.                          *)
(***************************************************************************)
EXTENDS PastePage, TLAPS

Written == {r \in [start : Nat \ {0}, end : Nat \ {0}] : r.start <= r.end}
Marks == Written \cup {NoRange}

\* A range that is written into a fragment is read back from it (lines.ts:16-34).
THEOREM HashRoundTrip ==
    ASSUME NEW r \in Written
    PROVE  /\ formatLineHash(r) \in Seq(Nat)
           /\ parseLineHash(formatLineHash(r)) = r
<1>1. r = [start |-> r.start, end |-> r.end] /\ r.start \in Nat /\ r.end \in Nat
      /\ r.start >= 1 /\ r.end >= 1 /\ r.start <= r.end
  BY DEF Written
<1>2. CASE r.start = r.end
  <2>1. formatLineHash(r) = <<r.start>>
    BY <1>2 DEF formatLineHash
  <2>2. parseLineHash(<<r.start>>) = Range(Lower(r.start, r.start), Higher(r.start, r.start))
    BY <1>1 DEF parseLineHash
  <2>3. QED
    BY <1>1, <1>2, <2>1, <2>2 DEF Range, Lower, Higher
<1>3. CASE r.start # r.end
  <2>1. formatLineHash(r) = <<r.start, r.end>>
    BY <1>3 DEF formatLineHash
  <2>2. parseLineHash(<<r.start, r.end>>) = Range(Lower(r.start, r.end), Higher(r.start, r.end))
    BY <1>1 DEF parseLineHash
  <2>3. QED
    BY <1>1, <2>1, <2>2 DEF Range, Lower, Higher
<1>4. QED
  BY <1>2, <1>3

\* Whatever the fragment, it spells a range or none.
LEMMA ParsedIsRange ==
    ASSUME NEW h \in Seq(Nat)
    PROVE  parseLineHash(h) \in Marks
<1>1. CASE Len(h) \notin 1 .. 2 \/ \E i \in DOMAIN h : h[i] < 1
  BY <1>1 DEF parseLineHash, Marks
<1>2. CASE Len(h) \in 1 .. 2 /\ \A i \in DOMAIN h : ~(h[i] < 1)
  <2>1. 1 \in DOMAIN h /\ Len(h) \in DOMAIN h
    BY <1>2
  <2>2. h[1] \in Nat \ {0} /\ h[Len(h)] \in Nat \ {0}
    BY <1>2, <2>1
  <2>3. parseLineHash(h) = Range(Lower(h[1], h[Len(h)]), Higher(h[1], h[Len(h)]))
    BY <1>2 DEF parseLineHash
  <2>4. QED
    BY <2>2, <2>3 DEF Marks, Written, Range, Lower, Higher
<1>3. QED
  BY <1>1, <1>2

\* Clamping keeps a range inside the content, or drops it.
LEMMA ClampedIsInside ==
    ASSUME NEW r \in Marks, NEW n \in Nat
    PROVE  /\ clampRange(r, n) \in Marks
           /\ clampRange(r, n) # NoRange => clampRange(r, n).end <= n
<1>1. CASE r = NoRange \/ r.start > n
  BY <1>1 DEF clampRange, Marks
<1>2. CASE r # NoRange /\ ~(r.start > n)
  <2>1. r \in Written
    BY <1>2 DEF Marks
  <2>2. clampRange(r, n) = Range(r.start, Lower(r.end, n))
    BY <1>2 DEF clampRange
  <2>3. QED
    BY <1>2, <2>1, <2>2 DEF Marks, Written, Range, Lower
<1>3. QED
  BY <1>1, <1>2

\* A click selects a range that ends inside the content.
LEMMA ClickedIsInside ==
    ASSUME NEW r \in Marks, NEW n \in Nat, NEW line \in 1 .. n, NEW extend \in BOOLEAN,
           r # NoRange => r.end <= n
    PROVE  /\ selectLine(r, line, extend) \in Written
           /\ selectLine(r, line, extend).end <= n
<1>1. CASE ~extend \/ r = NoRange
  BY <1>1 DEF selectLine, Range, Written
<1>2. CASE extend /\ r # NoRange
  <2>1. r \in Written
    BY <1>2 DEF Marks
  <2>2. QED
    BY <1>2, <2>1 DEF selectLine, Range, Written, Lower, Higher
<1>3. QED
  BY <1>1, <1>2

-----------------------------------------------------------------------------
(* The inductive invariant. *)

Views == [mounted : BOOLEAN, of : Codes \cup {None}, html : Locales \cup {None},
          marked : Marks]

PageType ==
    /\ hash \in Seq(Nat)
    /\ paste \in Codes \cup {None} /\ live \in Codes \cup {None}
    /\ Here => code \in Codes
    /\ t \in Translators /\ job \in Locales \cup {None}
    /\ view \in Views

\* What holds between the state's parts at every moment.
Shape ==
    /\ paste # None => error = None
    /\ live # None => Here /\ paste = None /\ error = None
    /\ view.mounted <=> paste # None
    /\ view.mounted => view.of = paste
    /\ job # None => view.html = None
    /\ ~Here => job = None

Backed ==
    /\ paste # None => paste = code
    /\ live = IF paste = None /\ error = None THEN code ELSE None

KeysOf(seen) ==
    IF seen.error # None THEN {[owner |-> "not-found"]}
    ELSE {[owner |-> "page", paste |-> seen.paste, selection |-> seen.selection.range]}

\* What was seen is all that effects depend on, and a view that is there still was of the
\* paste of its code.
SeenIsWhole ==
    /\ ran = [code |-> ran.code, paste |-> ran.paste, error |-> ran.error, t |-> ran.t,
              selection |-> ran.selection, view |-> ran.view, html |-> ran.html]
    /\ view.mounted /\ ran.view => ran.code = ran.paste /\ ran.error = None

\* The marks are the selection, or wiped by a render of the coloured view.
MarksAreRight ==
    /\ view.marked \in {selection, NoRange}
    /\ view.html = None => view.marked = selection

\* What the effects have left in place, as far as what they saw still stands.
Seen ==
    /\ ran = NotRun => job = None /\ view.html = None
    /\ ran # NotRun =>
          /\ SeenIsWhole
          /\ ran.code = code /\ ran.paste = paste => Backed
          /\ keys = KeysOf(ran)
          /\ job # None => job = ran.t.locale
          /\ view.html # None => view.html = ran.t.locale
          /\ view.mounted /\ ran.view /\ ran.html = view.html /\ ran.selection = Selected
                => MarksAreRight

\* Nothing has changed since effects that are not due.
Rest == Settled => ran = Deps /\ ran # NotRun

PageInv == PageType /\ Shape /\ Seen /\ Rest

-----------------------------------------------------------------------------
LEMMA DepsFields ==
    /\ Deps # NotRun
    /\ Deps.code = code /\ Deps.paste = paste /\ Deps.error = error
    /\ Deps.t = t /\ Deps.selection = Selected /\ Deps.selection.range = selection
    /\ Deps.view = view.mounted /\ Deps.html = view.html
<1>1. "code" \in DOMAIN Deps /\ "code" \notin DOMAIN NotRun
  BY DEF Deps, NotRun
<1>2. QED
  BY <1>1 DEF Deps, Selected

LEMMA SelectionIsInside ==
    ASSUME PageType
    PROVE  /\ lineCount \in Nat
           /\ selection \in Marks
           /\ selection # NoRange => selection.end <= lineCount
<1>1. lineCount \in Nat
  BY PasteAssumption DEF PageType, lineCount
<1>2. parseLineHash(hash) \in Marks
  BY ParsedIsRange DEF PageType
<1>3. QED
  BY <1>1, <1>2, ClampedIsInside DEF selection

LEMMA ViewTypes ==
    /\ NoView \in Views /\ ~NoView.mounted /\ NoView.html = None
    /\ \A key \in Codes :
          /\ FreshView(key) \in Views /\ FreshView(key).mounted
          /\ FreshView(key).of = key /\ FreshView(key).html = None
  BY DEF Views, NoView, FreshView, Marks

\* A render of the view touches its marks alone, and none but those of the markup.
LEMMA RerenderedKeeps ==
    ASSUME view \in Views
    PROVE  /\ Rerendered \in Views
           /\ Rerendered.mounted = view.mounted /\ Rerendered.of = view.of
           /\ Rerendered.html = view.html
           /\ Rerendered.marked \in {view.marked, NoRange}
           /\ view.html = None => Rerendered.marked = view.marked
  BY DEF Rerendered, Views, Marks

LEMMA ViewAfterShows ==
    ASSUME PageType, Shape, NEW key \in Codes \cup {None}, NEW err
    PROVE  /\ ViewAfter(key, err) = NoView <=> key = None \/ err # None
           /\ ViewAfter(key, err) \in Views
<1>1. ~NoView.mounted
  BY ViewTypes
<1>2. CASE key = None \/ err # None
  BY <1>2, ViewTypes DEF ViewAfter
<1>3. CASE key # None /\ err = None /\ view.mounted /\ view.of = key
  BY <1>1, <1>3, RerenderedKeeps DEF ViewAfter, PageType
<1>4. CASE key # None /\ err = None /\ ~(view.mounted /\ view.of = key)
  BY <1>1, <1>4, ViewTypes DEF ViewAfter
<1>5. QED
  BY <1>2, <1>3, <1>4

LEMMA InitHolds == PasteInit => PageInv
  BY PasteAssumption, ViewTypes
  DEF PasteInit, PageInv, PageType, Shape, Seen, Rest, Settled, Here, NoView

LEMMA QuietStep ==
    ASSUME PageInv,
           UNCHANGED <<route, t, pageVars, live, job, view, keys, due, ran>>
    PROVE  PageInv'
  BY DEF PageInv, PageType, Shape, Backed, KeysOf, SeenIsWhole, MarksAreRight, Seen, Rest,
         Settled, Here, Deps, Selected, selection, lineCount, pageVars

LEMMA StepArrive ==
    ASSUME PageInv, NEW asked \in Codes, NEW at \in Hashes, NEW handoff \in BOOLEAN,
           Arrive(asked, at, handoff)
    PROVE  PageInv'
<1>1. hash' \in Seq(Nat) /\ paste' \in Codes \cup {None} /\ error' = None /\ code' \in Codes
  BY PasteAssumption DEF Arrive
<1>2. live = None /\ job = None /\ live' = None /\ job' = None /\ t' = t
  BY DEF Arrive, PageInv, Shape, asyncVars
<1>3. /\ view' \in Views /\ view'.html = None
      /\ view'.mounted <=> paste' # None
      /\ view'.mounted => view'.of = paste'
  BY ViewTypes, PasteAssumption DEF Arrive
<1>4. PageType' /\ Shape'
  BY <1>1, <1>2, <1>3 DEF PageInv, PageType, Shape
<1>5. Seen' /\ Rest'
  BY <1>2, <1>3 DEF Arrive, Seen, Rest, Settled
<1>6. QED
  BY <1>4, <1>5 DEF PageInv

\* A commit that leaves alone what the effects work with: only the address or the
\* language changes, and the marks may be wiped.
LEMMA StepAddress ==
    ASSUME PageInv, Commit, code' \in Codes, hash' \in Seq(Nat), t' \in Translators,
           view' = Rerendered, UNCHANGED <<paste, error, live, job>>
    PROVE  PageInv'
<1>1. Settled /\ Here' /\ due' = TRUE /\ UNCHANGED <<route, ran, keys>>
  BY DEF Commit, Settled, Here
<1>2. ran = Deps /\ ran # NotRun
  BY <1>1 DEF PageInv, Rest
<1>3. /\ view' \in Views
      /\ UNCHANGED <<view.mounted, view.of, view.html>>
      /\ view'.marked \in {view.marked, NoRange}
      /\ view.html = None => UNCHANGED view.marked
  BY RerenderedKeeps DEF PageInv, PageType
<1>4. PageType' /\ Shape'
  BY <1>1, <1>3 DEF PageInv, PageType, Shape, Here
<1>5. ran.code = code /\ ran.paste = paste /\ ran.html = view.html /\ ran.selection = Selected
  BY <1>2, DepsFields
<1>6. Backed /\ (view.mounted /\ ran.view => MarksAreRight)
  BY <1>2, <1>5 DEF PageInv, Seen
<1>7. Seen'
  <2>1. ran'.code = code' => Backed'
    BY <1>1, <1>5, <1>6 DEF Backed
  <2>2. keys' = KeysOf(ran')
    BY <1>1, <1>2 DEF PageInv, Seen
  <2>3. ASSUME ran'.selection = Selected', view'.mounted, ran'.view
        PROVE  MarksAreRight'
    <3>1. selection' = selection
      BY <1>1, <1>5, <2>3 DEF Selected
    <3>2. QED
      BY <1>1, <1>3, <1>6, <2>3, <3>1 DEF MarksAreRight
  <2>4. SeenIsWhole'
    BY <1>1, <1>2, <1>3 DEF PageInv, Seen, SeenIsWhole
  <2>5. QED
    BY <1>1, <1>2, <1>3, <2>1, <2>2, <2>3, <2>4 DEF PageInv, Seen
<1>8. QED
  BY <1>1, <1>4, <1>7 DEF PageInv, Rest, Settled

LEMMA StepSelectLine ==
    ASSUME PageInv, NEW line \in Nat, NEW extend \in BOOLEAN, SelectLine(line, extend)
    PROVE  PageInv'
<1>1. line \in 1 .. lineCount /\ Commit
  BY DEF SelectLine
<1>2. /\ lineCount \in Nat /\ selection \in Marks
      /\ selection # NoRange => selection.end <= lineCount
  BY SelectionIsInside DEF PageInv
<1>3. selectLine(selection, line, extend) \in Written
  BY <1>1, <1>2, ClickedIsInside
<1>4. hash' \in Seq(Nat)
  BY <1>3, HashRoundTrip DEF SelectLine
<1>5. code' \in Codes /\ t' \in Translators
  BY <1>1 DEF SelectLine, PageInv, PageType, Commit
<1>6. QED
  BY <1>1, <1>4, <1>5, StepAddress DEF SelectLine, asyncVars

LEMMA StepAnswer ==
    ASSUME PageInv, Answer
    PROVE  PageInv'
<1>1. /\ Settled /\ Here' /\ due' = TRUE /\ live # None /\ live \in Codes
      /\ UNCHANGED <<route, code, hash, t, job, ran, keys>>
  BY DEF Answer, Commit, Settled, Here, PageInv, PageType
<1>2. ran = Deps /\ ran # NotRun
  BY <1>1 DEF PageInv, Rest
<1>3. paste = None /\ error = None /\ ~view.mounted /\ Here
  BY <1>1 DEF PageInv, Shape
<1>4. ran.code = code /\ ran.paste = None /\ ran.view = FALSE /\ ran.html = view.html
  BY <1>2, <1>3, DepsFields DEF PageInv, PageType, Views
<1>5. live' = None
  BY DEF Answer
<1>6. \/ paste' = live /\ error' = None
      \/ paste' = None /\ error' # None
  <2>1. None # "missing" /\ None # "failed"
    BY DEF None
  <2>2. QED
    BY <1>3, <2>1 DEF Answer
<1>7. /\ view' \in Views
      /\ view'.mounted <=> paste' # None
      /\ view'.mounted => view'.of = paste'
      /\ view'.html = None
  <2>1. view' = ViewAfter(paste', error')
    BY DEF Answer
  <2>2. CASE paste' = live /\ error' = None
    <3>1. view' = FreshView(paste')
      BY <1>1, <1>3, <2>1, <2>2 DEF ViewAfter
    <3>2. QED
      BY <1>1, <2>2, <3>1, ViewTypes
  <2>3. CASE paste' = None /\ error' # None
    <3>1. view' = NoView
      BY <2>1, <2>3 DEF ViewAfter
    <3>2. QED
      BY <2>3, <3>1, ViewTypes
  <2>4. QED
    BY <1>6, <2>2, <2>3
<1>8. PageType' /\ Shape'
  BY <1>1, <1>3, <1>5, <1>6, <1>7 DEF PageInv, PageType, Shape
<1>9. Seen'
  <2>1. ran'.paste = paste' => Backed'
    BY <1>1, <1>4, <1>5, <1>6 DEF Backed
  <2>2. keys' = KeysOf(ran') /\ (job' # None => job' = ran'.t.locale)
    BY <1>1, <1>2 DEF PageInv, Seen
  <2>3. ran'.view = FALSE /\ view'.html = None
    BY <1>1, <1>4, <1>7
  <2>4. SeenIsWhole'
    BY <1>1, <1>2, <2>3 DEF PageInv, Seen, SeenIsWhole
  <2>5. QED
    BY <1>1, <1>2, <2>1, <2>2, <2>3, <2>4 DEF Seen
<1>10. QED
  BY <1>1, <1>8, <1>9 DEF PageInv, Rest, Settled

LEMMA StepHighlighted ==
    ASSUME PageInv, Highlighted
    PROVE  PageInv'
<1>1. /\ Settled /\ Here' /\ due' = TRUE /\ job # None /\ job' = None
      /\ UNCHANGED <<route, code, hash, paste, error, t, live, ran, keys>>
  BY DEF Highlighted, Commit, Settled, Here, pageVars
<1>2. /\ ran = Deps /\ ran # NotRun /\ view.html = None
      /\ job = ran.t.locale /\ job \in Locales
  BY <1>1 DEF PageInv, Rest, Shape, Seen, PageType
<1>3. ran.html = None
  BY <1>2, DepsFields
<1>4. /\ view' \in Views /\ view'.html = job
      /\ view'.mounted = view.mounted /\ view'.of = view.of
  <2>1. view \in Views /\ NoRange \in Marks
    BY DEF PageInv, PageType, Marks
  <2>2. QED
    BY <1>2, <2>1 DEF Highlighted, Views
<1>5. PageType' /\ Shape'
  BY <1>1, <1>4 DEF PageInv, PageType, Shape, Here
<1>6. Seen'
  <2>1. ran'.code = code' /\ ran'.paste = paste' => Backed'
    BY <1>1, <1>2 DEF PageInv, Seen, Backed
  <2>2. keys' = KeysOf(ran')
    BY <1>1, <1>2 DEF PageInv, Seen
  <2>3. SeenIsWhole'
    BY <1>1, <1>2, <1>4 DEF PageInv, Seen, SeenIsWhole
  <2>4. QED
    BY <1>1, <1>2, <1>3, <1>4, <2>1, <2>2, <2>3 DEF Seen
<1>7. QED
  BY <1>1, <1>5, <1>6 DEF PageInv, Rest, Settled

LEMMA StepHighlightFailed ==
    ASSUME PageInv, HighlightFailed
    PROVE  PageInv'
<1>1. job' = None /\ UNCHANGED <<route, code, hash, paste, error, t, live, view, keys, due, ran>>
  BY DEF HighlightFailed, pageVars
<1>2. PageType' /\ Shape'
  BY <1>1 DEF PageInv, PageType, Shape, Here
<1>3. UNCHANGED <<selection, Selected, Deps>>
  BY <1>1 DEF selection, lineCount, Selected, Deps
<1>4. Seen' /\ Rest'
  BY <1>1, <1>3
  DEF PageInv, Seen, SeenIsWhole, MarksAreRight, Backed, KeysOf, Rest, Settled, Here
<1>5. QED
  BY <1>2, <1>4 DEF PageInv

LEMMA StepLeave ==
    ASSUME PageInv, NEW to \in {"editor", "docs"}, Leave(to)
    PROVE  PageInv'
<1>1. /\ ~Here' /\ hash' = <<>> /\ paste' = None /\ live' = None /\ job' = None
      /\ view' = NoView /\ ran' = NotRun /\ t' = t /\ error' = None
  BY DEF Leave, Here
<1>2. PageType' /\ Shape'
  BY <1>1, ViewTypes DEF PageInv, PageType, Shape
<1>3. Seen' /\ Rest'
  BY <1>1, ViewTypes DEF Seen, Rest, Settled
<1>4. QED
  BY <1>2, <1>3 DEF PageInv

-----------------------------------------------------------------------------
(* The effects. *)

LEMMA ChangedFields ==
    /\ Changed({"code", "paste"}) <=>
          ran = NotRun \/ ran.code # code \/ ran.paste # paste
    /\ Changed({"view", "t"}) <=>
          ran = NotRun \/ ran.view # view.mounted \/ ran.t # t
    /\ Changed({"selection", "html", "view"}) <=>
          \/ ran = NotRun \/ ran.selection # Selected
          \/ ran.html # view.html \/ ran.view # view.mounted
    /\ Changed({"paste", "error", "selection", "t"}) <=>
          \/ ran = NotRun \/ ran.paste # paste \/ ran.error # error
          \/ ran.selection # Selected \/ ran.t # t
  BY DepsFields DEF Changed

\* Whatever was asked for before, the fetch effect leaves the page with the paste of its
\* code, with an error for it, or with a request for it.
LEMMA FetchLeavesBacked ==
    ASSUME PageInv, Here, FetchEffect, UNCHANGED code
    PROVE  /\ Backed'
           /\ \/ UNCHANGED <<paste, error>>
              \/ paste' = None /\ error' = None
           /\ live' \in {None, code}
           /\ live' # None => paste' = None /\ error' = None
<1>1. code \in Codes /\ code # None
  BY PasteAssumption DEF PageInv, PageType
<1>2. CASE ~Changed({"code", "paste"})
  <2>1. UNCHANGED <<paste, error, live>>
    BY <1>2 DEF FetchEffect
  <2>2. ran # NotRun /\ ran.code = code /\ ran.paste = paste
    BY <1>2, ChangedFields
  <2>3. Backed
    BY <2>2 DEF PageInv, Seen
  <2>4. QED
    BY <2>1, <2>3 DEF Backed
<1>3. CASE Changed({"code", "paste"}) /\ paste = code
  BY <1>1, <1>3 DEF FetchEffect, Backed
<1>4. CASE Changed({"code", "paste"}) /\ paste # code
  BY <1>1, <1>4 DEF FetchEffect, Backed
<1>5. QED
  BY <1>2, <1>3, <1>4

LEMMA ViewEffectsKeepShape ==
    ASSUME PageInv, Here, FetchEffect, ViewEffects, UNCHANGED code
    PROVE  /\ view' \in Views
           /\ view'.mounted <=> paste' # None
           /\ view'.mounted =>
                 /\ view.mounted /\ paste' = paste /\ view'.of = paste'
                 /\ Rehighlight => view'.html = None
                 /\ ~Rehighlight => view'.html = view.html
                 /\ view'.html = view.html => view'.marked = Marked
           /\ ~view'.mounted => view' = NoView
<1> USE DEF PageInv
<1>1. /\ \/ UNCHANGED <<paste, error>>
         \/ paste' = None /\ error' = None
      /\ paste' \in Codes \cup {None}
      /\ paste' # None => error' = None
  BY FetchLeavesBacked DEF PageType, Shape
<1>2. ViewAfter(paste', error') = NoView <=> paste' = None
  BY <1>1, ViewAfterShows
<1>3. CASE paste' = None
  BY <1>2, <1>3, ViewTypes DEF ViewEffects
<1>4. CASE paste' # None
  <2>1. paste' = paste /\ view.mounted /\ view.of = paste
    BY <1>1, <1>4 DEF Shape
  <2>2. view' = IF Rehighlight /\ view.html # None
                THEN [view EXCEPT !.html = None, !.marked = NoRange]
                ELSE [view EXCEPT !.marked = Marked]
    BY <1>2, <1>4 DEF ViewEffects
  <2>3. view \in Views /\ Marked \in Marks /\ NoRange \in Marks
    BY SelectionIsInside DEF PageType, Marked, Views, Marks
  <2>4. /\ view' \in Views /\ view'.mounted = view.mounted /\ view'.of = view.of
        /\ Rehighlight => view'.html = None
        /\ ~Rehighlight => view'.html = view.html
        /\ view'.html = view.html => view'.marked = Marked
    <3>1. CASE Rehighlight /\ view.html # None
      BY <2>2, <2>3, <3>1 DEF Views
    <3>2. CASE ~(Rehighlight /\ view.html # None)
      BY <2>2, <2>3, <3>2 DEF Views
    <3>3. QED
      BY <3>1, <3>2
  <2>5. QED
    BY <1>4, <2>1, <2>4
<1>5. QED
  BY <1>3, <1>4

LEMMA StepRunEffects ==
    ASSUME PageInv, RunEffects
    PROVE  PageInv'
<1>1. /\ Here /\ Here' /\ FetchEffect /\ ViewEffects /\ JobEffect
      /\ UNCHANGED <<route, code, hash, t>>
      /\ ran' = Deps /\ keys' = KeysAfter
      /\ due' = (<<paste', error', view'.html, view'.mounted>>
                   # <<paste, error, view.html, view.mounted>>)
  BY DEF RunEffects, Here
<1>2. /\ Backed'
      /\ \/ UNCHANGED <<paste, error>>
         \/ paste' = None /\ error' = None
      /\ live' \in {None, code}
      /\ live' # None => paste' = None /\ error' = None
  BY <1>1, FetchLeavesBacked
<1>3. /\ view' \in Views
      /\ view'.mounted <=> paste' # None
      /\ view'.mounted =>
            /\ view.mounted /\ paste' = paste /\ view'.of = paste'
            /\ Rehighlight => view'.html = None
            /\ ~Rehighlight => view'.html = view.html
            /\ view'.html = view.html => view'.marked = Marked
      /\ ~view'.mounted => view'.html = None
  BY <1>1, ViewEffectsKeepShape, ViewTypes
<1>4. code \in Codes /\ t.locale \in Locales /\ None \notin Locales
  BY <1>1, PasteAssumption DEF PageInv, PageType, Translators
<1>5. /\ job' \in {job, t.locale, None}
      /\ job' # None /\ ~(view.mounted /\ Rehighlight) => job' = job /\ ~Rehighlight
      /\ job' # None /\ Rehighlight => job' = t.locale
  BY <1>1, <1>4 DEF JobEffect, Rehighlight
<1>6. ~Rehighlight /\ view.mounted => ran # NotRun /\ ran.t = t
  BY ChangedFields DEF Rehighlight
<1>7. job' # None => view'.html = None /\ job' = t.locale
  <2>1. CASE view.mounted /\ Rehighlight
    BY <1>3, <1>5, <2>1
  <2>2. CASE ~(view.mounted /\ Rehighlight)
    <3>1. job' # None => view.mounted /\ job' = job /\ ~Rehighlight
      BY <1>1, <2>2 DEF JobEffect, Rehighlight
    <3>2. QED
      BY <1>3, <1>6, <3>1 DEF PageInv, Shape, Seen
  <2>3. QED
    BY <2>1, <2>2
<1>8. PageType'
  BY <1>1, <1>2, <1>3, <1>4, <1>5 DEF PageInv, PageType
<1>9. Shape'
  BY <1>1, <1>2, <1>3, <1>7 DEF PageInv, Shape
<1>10. /\ ran' # NotRun
       /\ ran'.code = code /\ ran'.paste = paste /\ ran'.error = error
       /\ ran'.t = t /\ ran'.selection = Selected /\ ran'.selection.range = selection
       /\ ran'.view = view.mounted /\ ran'.html = view.html
  BY <1>1, DepsFields
<1>11. Seen'
  <2>1. keys' = KeysOf(ran')
    <3>1. PageKeys \cup NotFoundKeys = KeysOf(ran')
      BY <1>10 DEF PageKeys, NotFoundKeys, KeysOf
    <3>2. CASE Changed({"paste", "error", "selection", "t"})
      BY <1>1, <3>1, <3>2 DEF KeysAfter
    <3>3. CASE ~Changed({"paste", "error", "selection", "t"})
      <4>1. /\ ran # NotRun /\ ran.paste = paste /\ ran.error = error
            /\ ran.selection = Selected
        BY <3>3, ChangedFields
      <4>2. keys = KeysOf(ran) /\ ran.selection.range = selection
        BY <4>1 DEF PageInv, Seen, Selected
      <4>3. keys = PageKeys \cup NotFoundKeys
        BY <4>1, <4>2 DEF KeysOf, PageKeys, NotFoundKeys
      <4>4. OldPageKeys = PageKeys
        BY <4>3 DEF OldPageKeys, PageKeys, NotFoundKeys
      <4>5. QED
        BY <1>1, <3>1, <3>3, <4>4 DEF KeysAfter
    <3>4. QED
      BY <3>2, <3>3
  <2>2. view'.html # None => view'.html = t.locale
    BY <1>3, <1>6 DEF PageInv, Seen
  <2>3. ASSUME view'.mounted, ran'.view, ran'.html = view'.html, ran'.selection = Selected'
        PROVE  MarksAreRight'
    <3>1. /\ view.mounted /\ view'.marked = Marked
          /\ selection' = selection /\ view'.html = view.html
      BY <1>3, <1>10, <2>3 DEF Selected
    <3>2. CASE Changed({"selection", "html", "view"})
      BY <3>1, <3>2 DEF Marked, MarksAreRight
    <3>3. CASE ~Changed({"selection", "html", "view"})
      <4>1. /\ ran # NotRun /\ ran.selection = Selected
            /\ ran.html = view.html /\ ran.view = view.mounted
        BY <3>3, ChangedFields
      <4>2. MarksAreRight /\ view'.marked = view.marked
        BY <3>1, <3>3, <4>1 DEF PageInv, Seen, Marked
      <4>3. QED
        BY <3>1, <4>2 DEF MarksAreRight
    <3>4. QED
      BY <3>2, <3>3
  <2>4. SeenIsWhole'
    <3>1. ran' = [code |-> ran'.code, paste |-> ran'.paste, error |-> ran'.error,
                  t |-> ran'.t, selection |-> ran'.selection, view |-> ran'.view,
                  html |-> ran'.html]
      BY <1>1 DEF Deps
    <3>2. view'.mounted => code = paste /\ error = None
      BY <1>1, <1>2, <1>3 DEF Backed, PageInv, Shape
    <3>3. QED
      BY <1>10, <3>1, <3>2 DEF SeenIsWhole
  <2>5. QED
    BY <1>2, <1>7, <1>10, <2>1, <2>2, <2>3, <2>4 DEF Seen
<1>12. Rest'
  <2>1. SUFFICES ASSUME ~due' PROVE ran' = Deps'
    BY <1>10 DEF Rest, Settled
  <2>2. UNCHANGED <<paste, error>> /\ view'.html = view.html /\ view'.mounted = view.mounted
    BY <1>1, <2>1
  <2>3. QED
    BY <1>1, <2>2 DEF Deps, Selected, selection, lineCount
<1>13. QED
  BY <1>8, <1>9, <1>11, <1>12 DEF PageInv

-----------------------------------------------------------------------------
LEMMA PageInvIsInductive == PageInv /\ [PasteNext]_pasteVars => PageInv'
<1> SUFFICES ASSUME PageInv, [PasteNext]_pasteVars
             PROVE  PageInv'
  OBVIOUS
<1>1. ASSUME NEW asked \in Codes, NEW at \in Hashes, NEW handoff \in BOOLEAN,
             Arrive(asked, at, handoff)
      PROVE  PageInv'
  BY <1>1, StepArrive
<1>2. ASSUME NEW asked \in Codes, NEW at \in Hashes, Readdress(asked, at)
      PROVE  PageInv'
  <2>1. code' \in Codes /\ hash' \in Seq(Nat) /\ t' \in Translators
    BY <1>2, PasteAssumption DEF Readdress, PageInv, PageType
  <2>2. QED
    BY <1>2, <2>1, StepAddress DEF Readdress, asyncVars
<1>3. ASSUME NEW key \in Codes, NEW line \in 1 .. Lines[key], NEW extend \in BOOLEAN,
             SelectLine(line, extend)
      PROVE  PageInv'
  <2>1. line \in Nat
    BY PasteAssumption
  <2>2. QED
    BY <1>3, <2>1, StepSelectLine
<1>4. ASSUME NEW next \in Translators, SwitchLocale(next)
      PROVE  PageInv'
  <2>1. code' \in Codes /\ hash' \in Seq(Nat) /\ t' = next
    BY <1>4 DEF SwitchLocale, PageInv, PageType, Commit, pageVars
  <2>2. QED
    BY <1>4, <2>1, StepAddress DEF SwitchLocale, pageVars, asyncVars
<1>5. ASSUME NEW loc \in Locales, HighlightLate(loc)
      PROVE  PageInv'
  BY <1>5, QuietStep DEF HighlightLate
<1>6. CASE Answer
  BY <1>6, StepAnswer
<1>7. ASSUME NEW key \in Codes, AnswerLate(key)
      PROVE  PageInv'
  BY <1>7, QuietStep DEF AnswerLate
<1>8. CASE Highlighted
  BY <1>8, StepHighlighted
<1>9. CASE HighlightFailed
  BY <1>9, StepHighlightFailed
<1>10. CASE RunEffects
  BY <1>10, StepRunEffects
<1>11. ASSUME NEW to \in {"editor", "docs"}, Leave(to)
       PROVE  PageInv'
  BY <1>11, StepLeave
<1>12. CASE UNCHANGED pasteVars
  BY <1>12, QuietStep DEF pasteVars, asyncVars
<1>13. QED
  BY <1>1, <1>2, <1>3, <1>4, <1>5, <1>6, <1>7, <1>8, <1>9, <1>10, <1>11, <1>12 DEF PasteNext

\* Whatever order commits, effects, answers and navigations come in, the page's parts
\* belong together, and what its effects left in place stands until they are due again
\* (paste.tsx:56-165, code-view.tsx:39-68).
THEOREM PageInvariant == PasteSpec => []PageInv
<1>1. PasteInit => PageInv
  BY InitHolds
<1>2. PageInv /\ [PasteNext]_pasteVars => PageInv'
  BY PageInvIsInductive
<1>3. QED
  BY <1>1, <1>2, PTL DEF PasteSpec

LEMMA FetchAtRest == PageInv => ShownIsAsked /\ LoadingIsBacked
<1>1. ASSUME PageInv, Settled
      PROVE  Backed
  <2>1. ran # NotRun /\ ran.code = code /\ ran.paste = paste
    BY <1>1, DepsFields DEF PageInv, Rest
  <2>2. QED
    BY <1>1, <2>1 DEF PageInv, Seen
<1>2. QED
  BY <1>1 DEF ShownIsAsked, LoadingIsBacked, Backed

\* At rest the page shows the paste its address asks for or an error for it, never
\* what an earlier address was answered (paste.tsx:56-77).
THEOREM FetchIsRight == PasteSpec => []ShownIsAsked
  BY FetchAtRest, PageInvariant, PTL

\* At rest a page that still says it is loading has the request for its address under
\* way, so the reader is not left with a spinner (paste.tsx:56-77).
THEOREM SpinnerHasARequest == PasteSpec => []LoadingIsBacked
  BY FetchAtRest, PageInvariant, PTL

\* At rest one listener hears the bare keys and knows what is on the screen
\* (paste.tsx:132-165, not-found.tsx:43-54).
THEOREM KeysKnowTheScreen == PasteSpec => []KeysAreCurrent
<1>1. PageInv => KeysAreCurrent
  <2>1. ASSUME PageInv, Settled
        PROVE  keys = KeysOf(Deps)
    BY <2>1 DEF PageInv, Rest, Seen
  <2>2. QED
    BY <2>1, DepsFields DEF KeysAreCurrent, KeysOf
<1>2. QED
  BY <1>1, PageInvariant, PTL

LEMMA ViewAtRest ==
    ASSUME PageInv, Settled, view.mounted
    PROVE  MarksAreRight /\ (view.html # None => view.html = t.locale)
<1>1. /\ ran # NotRun /\ ran.view /\ ran.html = view.html
      /\ ran.selection = Selected /\ ran.t = t
  BY DepsFields DEF PageInv, Rest
<1>2. QED
  BY <1>1 DEF PageInv, Seen

\* Effects that leave a coloured view without the marks of its selection had nothing to
\* do: all they depend on is as they saw it last.
LEMMA UnmarkedIsUnchanged ==
    ASSUME PageInv, RunEffects, ~due', view'.mounted, view'.html # None,
           view'.marked # selection
    PROVE  ran' = ran
<1>1. /\ Here /\ FetchEffect /\ ViewEffects /\ UNCHANGED code /\ ran' = Deps
      /\ UNCHANGED <<paste, error>> /\ view'.html = view.html
  BY DEF RunEffects
<1>2. view.mounted /\ ~Rehighlight /\ view'.marked = Marked /\ paste # None
  BY <1>1, ViewEffectsKeepShape
<1>3. /\ ran # NotRun /\ ran.selection = Selected
      /\ ran.html = view.html /\ ran.view = view.mounted
  BY <1>2, ChangedFields DEF Marked
<1>4. ran.t = t /\ ran.paste = paste
  BY <1>2, ChangedFields DEF Rehighlight, PageInv, Shape
<1>5. SeenIsWhole /\ error = None
  BY <1>2, <1>3 DEF PageInv, Seen, Shape
<1>6. ran.code = paste /\ ran.error = None
  BY <1>2, <1>3, <1>4, <1>5 DEF SeenIsWhole
<1>7. paste = code
  BY <1>1, <1>2, FetchLeavesBacked DEF Backed
<1>8. QED
  BY <1>1, <1>3, <1>4, <1>5, <1>6, <1>7 DEF SeenIsWhole, Deps

\* Whenever the page comes to rest, the lines that look selected are the selection, but
\* for a render of the coloured view for which nothing has changed: it wipes the marks
\* and leaves none (code-view.tsx:53-68, 116).
THEOREM ViewFollows == PasteSpec => MarksFollow
<1> DEFINE Follow == Settled' /\ view'.mounted /\ view'.marked # selection' =>
                         view'.marked = NoRange /\ view'.html # None /\ ran' = ran
<1>1. ASSUME PageInv, PageInv', [PasteNext]_pasteVars
      PROVE  Follow
  <2>1. SUFFICES ASSUME Settled', view'.mounted, view'.marked # selection'
                 PROVE  view'.marked = NoRange /\ view'.html # None /\ ran' = ran
    OBVIOUS
  <2>2. (PageInv /\ Settled /\ view.mounted => MarksAreRight)'
    BY ViewAtRest, PTL
  <2>3. view'.marked = NoRange /\ view'.html # None
    BY <1>1, <2>1, <2>2 DEF MarksAreRight
  <2>4. Here' /\ ~due'
    BY <2>1 DEF Settled
  <2>5. CASE RunEffects
    <3>1. UNCHANGED selection
      BY <2>4, <2>5 DEF RunEffects, selection, lineCount
    <3>2. ran' = ran
      BY <1>1, <2>1, <2>3, <2>4, <2>5, <3>1, UnmarkedIsUnchanged
    <3>3. QED
      BY <2>3, <3>2
  <2>6. CASE UNCHANGED ran
    BY <2>3, <2>6
  <2>7. QED
    BY <1>1, <2>4, <2>5, <2>6
    DEF PasteNext, Arrive, Readdress, SelectLine, SwitchLocale, HighlightLate, Answer,
        AnswerLate, Highlighted, HighlightFailed, Leave, Commit, Here, pasteVars
<1>2. QED
  BY <1>1, PageInvariant, PTL DEF PasteSpec, MarksFollow

\* At rest the labels of the coloured view are in the reader's language, whichever of
\* the grammar and the locale changed last (code-view.tsx:39-51).
THEOREM LabelsFollow == PasteSpec => []LabelsAreTranslated
<1>1. PageInv => LabelsAreTranslated
  BY ViewAtRest DEF LabelsAreTranslated
<1>2. QED
  BY <1>1, PageInvariant, PTL

\* What lines.ts says a click selects is what the page has selected after it.
Clicked ==
    \A line \in Nat, extend \in BOOLEAN :
        SelectLine(line, extend) => selection' = selectLine(selection, line, extend)

\* A click selects what it was meant to: going through the fragment and back through
\* clamping loses nothing (paste.tsx:90-113, lines.ts:16-55).
THEOREM ClickSelects == PasteSpec => [][Clicked]_pasteVars
<1>1. ASSUME PageInv, NEW line \in Nat, NEW extend \in BOOLEAN, SelectLine(line, extend)
      PROVE  selection' = selectLine(selection, line, extend)
  <2> DEFINE clicked == selectLine(selection, line, extend)
  <2>1. line \in 1 .. lineCount /\ UNCHANGED paste /\ hash' = formatLineHash(clicked)
    BY <1>1 DEF SelectLine
  <2>2. /\ lineCount \in Nat /\ selection \in Marks
        /\ selection # NoRange => selection.end <= lineCount
    BY <1>1, SelectionIsInside DEF PageInv
  <2>3. clicked \in Written /\ clicked.end <= lineCount
    BY <2>1, <2>2, ClickedIsInside
  <2>4. parseLineHash(hash') = clicked
    BY <2>1, <2>3, HashRoundTrip
  <2>5. lineCount' = lineCount
    BY <2>1 DEF lineCount
  <2>6. selection' = clampRange(clicked, lineCount)
    BY <2>4, <2>5 DEF selection
  <2>7. clicked = Range(clicked.start, clicked.end) /\ ~(clicked.start > lineCount)
    BY <2>2, <2>3 DEF Written, Range
  <2>8. clampRange(clicked, lineCount) = clicked
    <3>1. Lower(clicked.end, lineCount) = clicked.end
      BY <2>3 DEF Lower
    <3>2. CASE clicked = NoRange
      BY <3>2 DEF clampRange
    <3>3. CASE clicked # NoRange
      <4>1. clampRange(clicked, lineCount) = Range(clicked.start, Lower(clicked.end, lineCount))
        BY <2>7, <3>3 DEF clampRange
      <4>2. QED
        BY <2>7, <3>1, <4>1
    <3>4. QED
      BY <3>2, <3>3
  <2>9. QED
    BY <2>6, <2>8
<1>2. PageInv => Clicked
  BY <1>1 DEF Clicked
<1>3. QED
  BY <1>2, PageInvariant, PTL
=============================================================================
