----------------------------- MODULE EditorPage -----------------------------
(***************************************************************************)
(* web: routes/editor.tsx with its save dialog and pickers, from the first *)
(* keystroke to the redirect.                                              *)
(*                                                                         *)
(* What makes it hard is React's timing.  A handler passed as a prop is    *)
(* the one of the last commit, but the window's key listener is put there  *)
(* by an effect and keeps the state of the render it closed over.  After a *)
(* commit caused by a discrete event (a key, a click) the effects run      *)
(* before the next event, so they are part of its step; after any other    *)
(* commit (a promise, a deferred render) they run some time later, and     *)
(* events may come first.                                                  *)
(***************************************************************************)
EXTENDS Languages, SequencesExt

CONSTANTS
    Texts,            \* what can be typed or dropped; the empty text is one
    EmptyText,
    Titles,           \* what can be typed as a title
    Fallback,         \* FALLBACK of use-server-config
    Files,            \* bound: what the dropped files hold
    Picks,            \* bound: the lifetimes that are picked
    LanguageChoices,  \* bound: what is picked as the language
    Server,           \* what /api/config answers, and what the server enforces
    MaxPosts          \* bound: requests under way at once

ASSUME LimitsAssumption ==
    /\ Server.maxChars \in Nat
    /\ \A text \in Texts \cup Files \cup {EmptyText} : text.units \in Seq(Units)

AUTO == "auto"
NO_EXPIRY == 0
EmptyTitle == <<>>

VARIABLES
    route,            \* "editor", "paste" after a redirect, "away" anywhere else
    page,             \* the state of the mounted EditorPage
    due,              \* whether the effects of its last commit have yet to run
    listener,         \* the state the key listener closed over, or NoListener
    reading,          \* the file whose text is being read, or NoFile
    posts             \* the POSTs under way: whose they are, and what is worth
                      \* remembering of what they sent

editorVars == <<route, page, due, listener, reading, posts>>

Fresh == [content |-> EmptyText, deferred |-> EmptyText, choice |-> AUTO,
          expiresIn |-> NO_EXPIRY, title |-> EmptyTitle, confirming |-> FALSE,
          saving |-> FALSE, config |-> Fallback]

NoListener == [none |-> TRUE]
NoFile == [none |-> TRUE]

-----------------------------------------------------------------------------
(* What a render computes. *)

detected(p) == detectLanguage(p.deferred)
language(p) == IF p.choice = AUTO THEN detected(p) ELSE p.choice
overLimit(p) == countCodePoints(p.content.units) > p.config.maxChars
empty(p) == Trim(p.content.units) = <<>>
tooLong(p) == countCodePoints(Trim(p.title)) > p.config.maxTitleChars

\* expiryOptions: no expiry first, then the ladder.
expiryOptions(p) == {NO_EXPIRY} \cup {s \in p.config.expiries : s > 0}

\* The drop-expiry effect: a lifetime the ladder does not offer is taken back.
DropExpiry(p) ==
    IF p.expiresIn \in expiryOptions(p) THEN p ELSE [p EXCEPT !.expiresIn = NO_EXPIRY]

\* Plain text goes without a name.
Named(id) == IF id = PLAIN THEN "" ELSE id

\* The body of createPaste.
Payload(p) ==
    [content |-> p.content, language |-> Named(language(p)),
     title |-> Trim(p.title), expiresIn |-> p.expiresIn]

\* Store.Create: what the server takes.
AcceptsContent(sent) ==
    Runes(sent.content.units) \in 1 .. Server.maxChars
AcceptsExpiry(sent) == sent.expiresIn \in {NO_EXPIRY} \cup Server.expiries
AcceptsTitle(sent) == Runes(sent.title) <= Server.maxTitleChars

-----------------------------------------------------------------------------
EditorInit ==
    /\ route = "editor" /\ page = Fresh /\ due = TRUE
    /\ listener = NoListener /\ reading = NoFile /\ posts = <<>>

Live == route = "editor"

\* An effect without its dependencies: the listener keeps the first text it saw.
ListenOnce(p) ==
    IF listener = NoListener THEN p ELSE [p EXCEPT !.content = listener.content]

\* The effect that puts the listener on the window depends on all that it uses.
Listen(p) == p

\* The effects of a commit, and the commit of what they set.
Settle(p) ==
    /\ page' = DropExpiry(p)
    /\ listener' = Listen(DropExpiry(p))
    /\ due' = FALSE

\* A discrete event: effects still due run before its commit, its own right after.
Discrete(update(_)) ==
    /\ Live
    /\ IF update(page) = page THEN UNCHANGED <<page, due, listener>>
       ELSE Settle(update(DropExpiry(page)))

\* A commit that no event asked for; React runs the effects that are due first.
Deferred(update(_)) ==
    /\ Live /\ ~due
    /\ page' = update(page) /\ due' = TRUE
    /\ UNCHANGED listener

RunEffects ==
    /\ Live /\ due
    /\ Settle(page)
    /\ UNCHANGED <<route, reading, posts>>

-----------------------------------------------------------------------------
(* The editor. *)

\* The dialog is modal: while it is open the page beneath takes no input.
Type(text) ==
    /\ ~page.confirming /\ text # page.content
    /\ Discrete(LAMBDA p : [p EXCEPT !.content = text])
    /\ UNCHANGED <<route, reading, posts>>

\* The deferred render catches up with the content.
Detect ==
    /\ page.deferred # page.content
    /\ Deferred(LAMBDA p : [p EXCEPT !.deferred = p.content])
    /\ UNCHANGED <<route, reading, posts>>

ConfigArrives ==
    /\ page.config # Server
    /\ Deferred(LAMBDA p : [p EXCEPT !.config = Server])
    /\ UNCHANGED <<route, reading, posts>>

\* onDrop, and readFile up to its await; `dragging` goes back to false, and the commit
\* of that runs the effects that are due.
DropFile(text) ==
    /\ Live /\ ~page.confirming /\ reading = NoFile
    /\ reading' = text
    /\ IF due THEN Settle(page) ELSE UNCHANGED <<page, due, listener>>
    /\ UNCHANGED <<route, posts>>

\* The rest of readFile: it sets the content of a page that may have moved on.
FileRead ==
    /\ reading # NoFile /\ reading' = NoFile
    /\ Deferred(LAMBDA p : [p EXCEPT !.content = reading])
    /\ UNCHANGED <<route, posts>>

PickLanguage(choice) ==
    /\ choice # page.choice
    /\ Discrete(LAMBDA p : [p EXCEPT !.choice = choice])
    /\ UNCHANGED <<route, reading, posts>>

-----------------------------------------------------------------------------
(* Saving. *)

\* askToSave, as closed over `seen`.
askToSave(seen) ==
    /\ Discrete(LAMBDA p : IF seen.saving \/ empty(seen) \/ overLimit(seen) THEN p
                           ELSE [p EXCEPT !.confirming = TRUE])
    /\ UNCHANGED posts

Post(seen) ==
    LET sent == Payload(seen)
    IN  [mine |-> TRUE, settled |-> ~due /\ page.config = Server,
         asShown |-> sent = Payload(page),
         within |-> AcceptsContent(sent) /\ AcceptsExpiry(sent),
         titled |-> AcceptsTitle(sent)]

\* A save that does not look whether one is under way.
saveAgain(seen) ==
    IF empty(seen) \/ overLimit(seen)
    THEN Discrete(LAMBDA p : p) /\ UNCHANGED posts
    ELSE /\ Len(posts) < MaxPosts
         /\ Discrete(LAMBDA p : [p EXCEPT !.saving = TRUE])
         /\ posts' = Append(posts, Post(seen))

\* A save that leaves the limit to askToSave.
saveUnlimited(seen) ==
    IF seen.saving \/ empty(seen)
    THEN Discrete(LAMBDA p : p) /\ UNCHANGED posts
    ELSE /\ Len(posts) < MaxPosts
         /\ Discrete(LAMBDA p : [p EXCEPT !.saving = TRUE])
         /\ posts' = Append(posts, Post(seen))

\* save, as closed over `seen`, up to its await.
save(seen) ==
    IF seen.saving \/ empty(seen) \/ overLimit(seen)
    THEN Discrete(LAMBDA p : p) /\ UNCHANGED posts
    ELSE /\ Len(posts) < MaxPosts
         /\ Discrete(LAMBDA p : [p EXCEPT !.saving = TRUE])
         /\ posts' = Append(posts, Post(seen))

\* The Save button of the status bar, disabled while saving and while there is nothing.
ClickSave ==
    /\ ~page.confirming /\ ~page.saving /\ ~empty(page)
    /\ askToSave(page)
    /\ UNCHANGED <<route, reading>>

\* The chord reaches the listener on the window, wherever the focus is.
Chord ==
    /\ Live /\ listener # NoListener
    /\ IF listener.confirming THEN save(listener) ELSE askToSave(listener)
    /\ UNCHANGED <<route, reading>>

TypeTitle(title) ==
    /\ page.confirming /\ title # page.title
    /\ Discrete(LAMBDA p : [p EXCEPT !.title = title])
    /\ UNCHANGED <<route, reading, posts>>

\* ExpiryPicker: the menu lists the ladder of the config the page has.
PickExpiry(seconds) ==
    /\ page.confirming /\ seconds \in Picks \cap expiryOptions(page)
    /\ Discrete(LAMBDA p : [p EXCEPT !.expiresIn = seconds])
    /\ UNCHANGED <<route, reading, posts>>

\* The dialog's button, or Enter in its title field.
Confirm ==
    /\ page.confirming /\ ~page.saving /\ ~tooLong(page)
    /\ save(page)
    /\ UNCHANGED <<route, reading>>

\* A dialog that can be dismissed at any time.
CancelAnyway ==
    /\ page.confirming
    /\ Discrete(LAMBDA p : [p EXCEPT !.confirming = FALSE])
    /\ UNCHANGED <<route, reading, posts>>

\* Cancel, Escape, the cross or a click beside the dialog.
Cancel ==
    /\ page.confirming
    /\ Discrete(LAMBDA p : IF page.saving THEN p ELSE [p EXCEPT !.confirming = FALSE])
    /\ UNCHANGED <<route, reading, posts>>

\* A POST of a page that is gone: all that matters is how it will be answered.
Disowned(s) ==
    [i \in DOMAIN s |-> [s[i] EXCEPT !.mine = FALSE, !.settled = FALSE, !.asShown = TRUE]]

Unmounted == page' = Fresh /\ due' = FALSE /\ listener' = NoListener

\* The answer of post i is a paste: `navigate` works on whatever page is there by now.
Saved(i) ==
    /\ posts[i].within /\ posts[i].titled
    /\ posts' = Disowned(RemoveAt(posts, i))
    /\ route' = "paste"
    /\ Unmounted
    /\ UNCHANGED reading

\* A failure after which the page goes on saving.
FailedSilently(i) ==
    /\ Live /\ posts[i].mine /\ ~due
    /\ posts' = RemoveAt(posts, i)
    /\ UNCHANGED <<route, page, due, listener, reading>>

\* The answer of post i is an error: a refusal, or the network, before or after the
\* server has stored the paste.  The dialog stays open.
Failed(i) ==
    /\ posts[i].mine
    /\ Deferred(LAMBDA p : [p EXCEPT !.saving = FALSE])
    /\ posts' = RemoveAt(posts, i)
    /\ UNCHANGED <<route, reading>>

\* The same for a page that is gone.
FailedElsewhere(i) ==
    /\ ~posts[i].mine
    /\ posts' = RemoveAt(posts, i)
    /\ UNCHANGED <<route, page, due, listener, reading>>

-----------------------------------------------------------------------------
(* Coming and going. *)

\* A link, a key or the back button; requests and file reads go on.
Leave ==
    /\ Live
    /\ route' = "away"
    /\ Unmounted
    /\ reading' = NoFile
    /\ posts' = Disowned(posts)

\* Back on "/" with a fresh page; the config comes from the shared promise, by a
\* callback, after the first render.
Return ==
    /\ ~Live
    /\ route' = "editor" /\ page' = Fresh /\ due' = TRUE
    /\ listener' = NoListener /\ reading' = NoFile
    /\ UNCHANGED posts

EditorNext ==
    \/ RunEffects
    \/ \E text \in Texts : Type(text)
    \/ \E text \in Files : DropFile(text)
    \/ Detect
    \/ ConfigArrives
    \/ FileRead
    \/ \E choice \in LanguageChoices : PickLanguage(choice)
    \/ ClickSave
    \/ Chord
    \/ \E title \in Titles : TypeTitle(title)
    \/ \E seconds \in Picks : PickExpiry(seconds)
    \/ Confirm
    \/ Cancel
    \/ \E i \in DOMAIN posts : Saved(i) \/ Failed(i) \/ FailedElsewhere(i)
    \/ Leave
    \/ Return

EditorSpec == EditorInit /\ [][EditorNext]_editorVars

\* Effects that are due are run, and a request is answered one way or the other.
EditorFairSpec ==
    /\ EditorSpec
    /\ WF_editorVars(RunEffects)
    /\ SF_editorVars(\E i \in DOMAIN posts : Saved(i) \/ Failed(i))

-----------------------------------------------------------------------------
\* The page is saving exactly while one POST of its own is under way: neither a chord
\* held down nor a click beside it publishes a paste twice (editor.tsx:92, 104-106).
SavingMeansOnePost ==
    LET own == {i \in DOMAIN posts : posts[i].mine}
    IN  Cardinality(own) = IF page.saving THEN 1 ELSE 0

\* While the answer is out the dialog stands, so that a refusal finds the field to fix
\* (editor.tsx:251, comment at 110-111).
DialogStaysWhileSaving == page.saving => page.confirming

\* Once the effects have run, what is sent is what the page shows, whether a click or
\* the listener on the window sent it (editor.tsx:119, 135).
SentIsShown ==
    \A i \in DOMAIN posts : posts[i].settled => posts[i].asShown

\* With the server's limits known and the effects run, the server refuses neither the
\* text nor the lifetime (comments at editor.tsx:61-63 and 70).  It may refuse the title:
\* the chord does not look at its length.
SentIsWithinLimits ==
    \A i \in DOMAIN posts : posts[i].settled => posts[i].within

\* A save ends: the page is left, or it can be tried again.
SavingEnds == page.saving ~> ~page.saving
=============================================================================
