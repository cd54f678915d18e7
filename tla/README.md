# A TLA+ model of haste-server

haste-server stores short texts ("pastes") behind share codes. A Go process keeps
them in one SQLite file, compressed, under a byte cap and three kinds of expiry; a
React frontend writes and shows them. This directory holds TLA+ modules of both, the
TLC configurations that model-check them and TLAPS proofs of what matters most.
Paths below are relative to `src/`.

## The system

| part | state it keeps | operations | what makes it correct |
|---|---|---|---|
| store: rows and accounting (`internal/store`) | table `pastes`, counters `paste_seq` and `stored_bytes`; in memory the map `access` | `Open`, `Create`, `Get`, `Meta`, `FlushAccess`, `Sweep`, `Stats`, `Close` | the counter is the sum of the rows; the cap holds at every commit; eviction is least recently used and minimal; sweep and readers agree; numbers are never reused; expired pastes go |
| store: write admission | `writeSlots` (semaphore), `queued` (atomic) | `acquireWrite`, `releaseWrite` | limits hold; no slot and no place in line leaks; nobody waits for ever |
| id: share codes (`internal/id/slug.go`) | tier tables, key, minimum length, reserved words | `NewGenerator`, `Code`, `IsReserved`, `Capacity`, `Valid` | a bijection from numbers onto each tier: no collision, no waste, shortest first |
| process (`cmd/haste/main.go`) | the sweeper goroutine, the server, two contexts | start, sweep, flush, shut down | a sweep at start, flushes between sweeps, nothing lost at shutdown |
| HTTP handlers (`internal/httpapi`) | requests in flight | create, read, raw, download, describe, stats, config, previews | every request ends; refusals change nothing; what the store promises holds of requests |
| rate limiter (`ratelimit.go`) | a map from addresses to buckets, a call counter | `allow` | forgetting idle addresses gives nobody a token and costs nobody one |
| stats cache (`handlers.go`) | the last scan and its time | `cachedStats` | answers are recent although the time is read before the mutex; waiters share a scan |
| caches in front (`setCacheControl`, `response.go`) | one copy with a lifetime | find, miss, renew | no copy outlives its paste |
| editor (`web/src/routes/editor.tsx`) | text, deferred text, language, lifetime, title, dialog, `saving`; a window listener; file reads; POSTs | type, drop, pick, save, cancel, answers | one POST per save, of what is shown and of what the server takes; saving ends |
| paste page (`routes/paste.tsx`, `code-view.tsx`) | paste, error, selection, markup; a fetch; a highlighting; a key listener; the title | arrive, readdress, select, answers, effects | late answers never show; keys, marks and labels belong to what is shown; loading ends |
| shared state of the client | promise of `/api/config`, the highlighter's engine and grammars, theme and locale | hooks, `ensureHighlighter`, providers | a failed request does not stick; text gets its colour; the document follows the choice |
| countdown, API reference | an interval; rows and their "try it" panels | ticks; open, close, send | the countdown never promises too much; one answer per panel |
| config (`internal/config`) | environment, `.id_secret` | parse, validate, persist the secret | invalid settings refused; the secret survives restarts |
| compress, webui, corpus, previews, messages | a codec, embedded files, test data, text | | round trip |

How they interact: a request goroutine runs a handler, which calls the store directly.
`Create` passes the rate limiter, then write admission, then waits for the only writer
connection. `Get` reads through a pool of read-only connections and leaves the time of
the access in a map. The sweeper goroutine swaps that map out, writes it back on the
writer connection, and sweeps on it. The frontend talks to the handlers only; within it,
pages come and go while promises, timers and listeners of theirs are still pending.
What is hard is therefore: creates, flushes and sweeps interleaving with readers that
hold times and rows from before; a transaction that stops half-way; a cancelled request
at every point; a process that dies with times still in memory and starts again with
other settings; times read before a mutex and used under it; closures a render old,
effects that run after the next event, answers for a page that shows something else.

Every hazard found is listed in `PROJECT.json`, at its line, with the properties that
cover it or the reason none does.

## The modules

```
ShareCodes <- CodeAllocation                                        (share codes)
PasteRows, WriteGate <- PasteStore <- PasteReads                    (store, sweeper)
PasteRows <- AtomicStore                  PasteStore implements AtomicStore
WriteGate <- Serving <- RateLimiter, StatsCache, EdgeCache <- HttpApi
                        RateLimiter implements TokenBuckets         (HTTP)
TextUnits <- Languages <- EditorPage                                (editor)
LineRanges <- PastePage                                             (paste page)
Highlighter <- CodeEditor \
SharedConfig, ExpiryBadge, Docs, Preference  >- Site                (client as a whole)
```

### Store

`PasteRows` is the table as a value and what the SQL asks of it: totals, the recency
order, the eviction statement, the filter of `Get`, the conditions of the sweep, the
guarded update of a flush. A body is its size. A total is the cardinality of a set of
byte positions, so deleting rows from a total is removing elements from a set, which
is also what makes it provable.

`WriteGate` is `acquireWrite`/`releaseWrite`. A caller's `place` is its program counter:
`queued.Add(1)` and its comparison are `Enter`, the two branches of the `select` are `Take`
and `GiveUp`, the deferred `Add(-1)` is `Depart`, `releaseWrite` is `Release`.

`PasteStore` is the store, on top of both. Its state and the code's:

| variable | code |
|---|---|
| `db` | what is committed: rows, `paste_seq`, `stored_bytes` |
| `tx` | the transaction on the writer connection: its owner, its private database, `need` and `freed` of `evict`; `owner = NoOne` is a free connection (`SetMaxOpenConns(1)`) |
| `access` | `Store.access` |
| `maxBytes` | `Options.MaxBytes` of this process |
| `create`, `read` | program counter and locals of each `Create` and `Get` |
| `sweeper` | the sweeper goroutine, with the swapped-out map in `pending` |
| `place`, `queued`, `slots` | write admission (`INSTANCE WriteGate`) |
| `clock`, `faults` | the second, and how many faults there have been |

`Create` is `Enter`/`InLine` (admission), `Stamp` (compress, refuse what can never fit, take
the time), `BeginCreate` (begin, reckon the need), `EvictStep` (one batch), `SkipReserved` (one
turn of the loop over numbers), `CommitCreate`, or `FailCreate` anywhere after the stamp,
and `ReturnCreate`. Refusals of the arguments (`store.go:369-380`) come before any state
is touched and are left out. `Get` is `BeginGet` (the time), `QueryGet` (the row), `RecordGet`
(the queued access), or `FailGet`. `Meta` is `QueryGet` without a record and changes nothing.
The sweeper is `SwapAccess`, `WriteFlush`, `BeginSweep`, `EvictStep`, `CommitSweep`, or
`FailSweeper`. Steps inside a transaction that neither loop nor change what anybody else can
see are one action; a failure between them is covered by `FailCreate` and `FailSweeper`,
since a rollback leaves no trace of how far it got. `Restart` is the death of the process and
the next `Open`, with any other cap and perhaps rows removed from the file by hand.
A share code is written as its sequence number: the map between them is `ShareCodes`.

`AtomicStore` is what all that promises to whoever does not look inside: a table that changes
in four ways, each all at once. `Publish` adds one paste under the next number that is not
reserved and removes the shortest prefix of the recency order that makes room; `Renew` makes some
rows more recently used; `Retain` is a whole sweep, its conditions in the code's order; `Reopen`
is the file under another cap. `FailWrite` changes nothing. There is no connection, no queue of
access times, no batch, no counter and no line. `PasteStore` implements it with what is
committed (`ChangesAllAtOnce`). Both count faults, or `Reopen`, which may miss rows, would pass
for any step that loses some.

`PasteReads` is the same behaviour with three history variables: what reads have queued, what
a sweep took with it, what was lost. They are never read by a guard.

`ShareCodes` is `slug.go` as functions: tiers, the Feistel network, cycle walking, encoding.
`Mac` is a constant operator: nothing that is claimed may depend on the hash.
`CodeAllocation` gives codes out: one transaction of `Create` reduced to its codes, removal,
and restarts under another secret or minimum length.

### HTTP

`Serving` holds the requests in flight, one goroutine each: `at` is how far a request has
come and `stamp` the `now` it read on arrival and goes on using. A goroutine that waits for a
mutex waits between two actions, with its old stamp.

`RateLimiter` is `allow`: `ArriveCreate` reads the clock, `Allow` is everything under the
mutex (the walk that drops idle entries, the entry, the token), `Refuse` writes the 429. A
tick is the time one token takes. `golang.org/x/time/rate` is external, modelled as `allow`
uses it. `TokenBuckets` is the abstract specification: a bucket for every address, for ever.

`StatsCache` is `cachedStats`: the totals are represented by the moment at which they were
true, so staleness is a comparison of times. `ReuseStats`, `StartScan`, `FinishScan`, `FailScan`
are the branches under `statsMu`; the scan keeps the mutex.

`EdgeCache` is one paste read through a shared cache that honours `Cache-Control`: `Find` is
`Get`, `TellPaste` is `setCacheControl` at the time the answer is ready, `Miss` the 404. The copy's age
is counted from that moment; a cache that counts from its request, as HTTP asks, drops it sooner.

`HttpApi` composes them with `WriteGate`: a create goes from the limiter through its body into
`acquireWrite`, and what `Create` does between admission and release is the business of
`PasteStore`. Creates, stats and reads run at once over the same callers and clock.

### Client

`EditorPage` and `PastePage` model React's timing, which is where such code goes wrong. A
render is a commit (`page`, or the variables of `PastePage`), its effects are a later step
(`RunEffects`) while `due` holds. In the editor, effects of a commit caused by a key or a click
run before the next event, so they are part of its step (`Discrete`); after a commit caused by
a promise or a deferred render, events may come first (`Deferred`). A handler given as a prop
sees the last commit; the listener on the window sees the state it closed over (`listener`,
`keys`), and both are in the state. An effect with dependencies runs when what it saw last
(`ran`) differs: by the identity of what it depends on, so the translator `t` is a new one when
the preference changes and the locale does not, and `Selected` is the memoised range with the
fragment it was made from. Every commit of the paste page renders `CodeView` too, and React, which is
external, writes its markup again (`Rerendered`). Listeners for bare keys are a set, since the
page and `NotFound` each bind their own. A POST or a fetch is remembered by what is worth knowing of it when it is
answered: whose it is, whether it still has a listener, and how what it sent compares with
what the page showed at that moment.

`Languages` has the catalogue, the grammars and the detector as an ordered table of rules;
a regular expression is a mark that a text carries or not, and the rules that count (log, YAML,
CSV) are written out. `TextUnits` has UTF-16 units, what the client counts and trims, and what
the server counts of the same text. `LineRanges` is `lines.ts`.

`Site` is `App.tsx`: one page mounted at a time, and around it what outlives a page.
`SharedConfig` is the module's promise and each hook's copy of the limits; `Highlighter` the
cached engine promise and the grammars, `CodeEditor` the coloured layer of the editor with its
live and its cancelled effects; `ExpiryBadge` the countdown, in parts of a second, with the two
rates of its interval; `Docs` the API reference; `Preference` the common shape of the theme and
locale providers. `Visit` unmounts one page and mounts the next in one step of all of them; the
badge of a paste also goes when another is asked for under the same route (`HideBadge`). In
`Preference` the first render and the subscription to the browser's changes are one step, and
storage that refuses is not run.

### Instances, proofs, altered operators

`MCPasteStore`, `MCPasteReads`, `MCCodeAllocation`, `MCEditor`, `MCPaste`, `MCSite` give TLC its
constants. Some also check pure functions against a reference over bounded inputs, as
assumptions TLC evaluates: the client counts characters as the server does, for every text of up to
six units (`CountAssumption`, proved of all texts in `EditorPage_proofs`); a blank line or a comment anywhere changes no verdict of the
detector that counts lines (`SkippingAssumption`); fragments and clicks round-trip
(`RangeAssumption`); every language the detector names has a grammar and is offered
(`CatalogueAssumption`), and no two words beside a log's stamp, C#'s `using System` or Dart's mark
change the verdict (`OrderAssumption`).

`*_proofs` modules hold the theorems. Definitions whose comment describes a slip of the pen
(`TakeUnbounded`, `saveAgain`, `FetchOnce`...) are altered forms of the definition next to them; no
specification uses them, and `PROJECT.json` says which property fails when one takes its
place.

## The runs

| run | question | bounds |
|---|---|---|
| `http` | does a limiter that forgets keep its promise, are shared scans recent and a window apart, do caches honour expiry, are writes bounded, does every request end? | 2 callers, 1 slot and a line of 1, bursts of 2, a walk every 2 calls, a silence of 2, a window of 2, expiry at 3, 2 ticks to a second, 3 ticks in all, a create waits at most 1 for the mutex |
| `gate_refusal` | is a caller refused only when all slots are taken? **No** | 2 callers, 2 slots, a line of 1 |
| `store_cap` | cap, counter, minimal eviction, fresh numbers; does every end of `Create` give back what it took; is the whole a table that changes all at once? | 2 creates, bodies of 1 and 3 against caps of 2 and 3 (one that never fits, one that evicts up to three rows), batches of 2, lifetimes of 2 s, 5 numbers with one reserved, 2 slots and a line of 1, one fault |
| `store_lifetimes` | recency never goes back, dead links stay dead but for a read in time that is written late, expired pastes go | 1 create, 1 reader, a cap of one row, lifetimes of 2 s and none, access TTL of 2 s, 2 numbers, 3 seconds, one fault |
| `reads_sweep` | does a queued read count in the sweep that follows it, and does the sweep take what readers no longer see? | 1 create, 2 readers, access TTL of 2 s, 3 seconds, one fault |
| `reads_lost_flush` | does a lost flush cost recency only? **No** | 1 reader, access TTL of 2 s, one fault |
| `codes` | no collision, no waste, no early growth, also after the minimum is raised | 3 letters, lengths up to 2, 3 secrets under 2 minimum lengths, all codes used up |
| `codes_lowered` | no collision after it is lowered? **No** | the same |
| `web_editor` | one POST per save, of what is shown and allowed; does the dialog stand and the save end? | 3 texts (empty; one astral character; two characters, a lone surrogate among them, which is too long for the server and not for the fallback), 2 choices of language, 2 lifetimes of which the server offers one, 2 titles of which one is too long, 2 POSTs at once |
| `web_paste` | is what is shown what is asked for, with its keys, marks and labels, and does loading end? | 2 codes (1 and 3 lines), 4 fragments (none, inside, reversed, past the end), 2 locales, each chosen or left to the browser |
| `tab_title` | does the tab describe the page one is on? **No** | the same |
| `web_site` | does the fallback end, the preference apply, the colour come, the countdown keep up, one panel have one answer? | 2 endpoints, one language with a grammar, 2 choices; 2 parts to a second, 2 seconds to a minute, 4 to an hour, 8 to a day, lifetimes of seconds, minutes and hours |

Why the bounds are enough. Store: eviction is decided by the order of rows and by what a
batch covers, and three rows with batches of two meet a batch that covers, one that does
not, and a table that runs out. Every comparison of times is met with both sides equal and
one second apart. One fault at every step is what separates a recovery that works from one
that does not; the proofs have no bound on faults. Three letters give tiers of 3 and 9
codes in blocks of 4 and 16, so both walk cycles. HTTP: a bucket is emptied, refills, falls
silent, is dropped and asked again while another request waits with an older time; scans
are shared, stale and failed. Two callers meet every race here, since each is of one request
with the state the others left; the proofs have no bound on them. Client: two POSTs are enough
for a second save to overtake the first, two codes for an answer to be late, and two of anything
that is remembered for the wrong one to be. The countdown's units are shortened and not removed,
so every crossing (day, hour, minute, expiry) is made, on and off a tick. Symmetry is declared for
creators and readers, which the actions never tell apart, and only in runs without liveness
properties. The `codes` runs stop when the codes are used up (`CHECK_DEADLOCK FALSE`); so does
the program.

### What the code does otherwise than its documents say

* `gate_refusal`: `acquireWrite` counts callers that are about to take a free slot as
  waiting, so a burst on an idle server can be refused.
* `reads_lost_flush`: under an access TTL a failed flush (or a crash) makes the next sweep erase
  pastes that were read in time. `store.go:611` says never data.
* `codes_lowered`: with a lower `HASTE_CODE_MIN_LEN` numbers fall on offsets of their tier that were
  used before. The insert then meets the unique index, the rollback takes the counter back, and
  `Create` fails until the older paste goes. It needs as many pastes as the new, shorter tier
  holds, so only small lengths are exposed. Raising is safe (`codes`). Another secret,
  being another permutation, can repeat a code in the same way.
* `tab_title`: the API reference and the catch-all page never set the title and nothing resets
  it, so the tab goes on naming the paste that was left. `use-document-title.ts:7` says it
  describes the page one is on.

Limits of what holds:

* Under an access TTL a dead link can come back within the flush interval, because `Get` compares
  with the stored access time while newer ones wait in memory. `DeadLinksStayDead` allows exactly
  that: a flush that writes a read from inside the window, of a paste that nothing else had ended.
* A click on a line that is selected already navigates to the same fragment: `CodeView` renders
  again with an unchanged selection and unchanged markup, React 19 writes the markup anew
  because the object around it is a new one (`code-view.tsx:116`), and the effect that marks lines
  does not run (`code-view.tsx:68`). In the coloured view the highlight disappears until the
  selection or the markup changes. No document promises otherwise, so this is no finding;
  `MarksFollow` allows it and nothing else: the marks are the selection, or none are left after a
  render for which nothing changed.
* The client may send a title that the server refuses, because the chord does not look at its
  length while the dialog's button does: `SentIsWithinLimits` speaks of the text and the lifetime.
* `SentIsShown` speaks of saves asked for while the page is at rest. A chord pressed after a
  deferred commit and before its effects meets the listener of the render before, and sends that
  render's text or choice; such saves are in the model and left out of the property.

### Fairness

* `FairSpec` of `WriteGate`: Go serves senders blocked on a channel in order, so a caller that
  stays is eventually admitted (strong fairness of `Take`); goroutines run on, and `Create`
  always reaches its deferred release (weak fairness of `Depart`, `Release`). `GiveUp` and `Enter`
  are never forced.
* `FairSpec` of `PasteStore`: the sweeper's goroutine runs on; its `select` takes a ready ticker at
  random and `database/sql` hands the connection to waiters, so its steps that wait for a ticker
  or the connection are strongly fair; whoever holds the connection goes on to its commit or
  rollback (request contexts and statements end); time passes. Faults are finite in number;
  requests and clients are never forced to do anything.
* `ApiFairSpec`: each request in progress proceeds, strongly fair because the mutex and the slot it
  waits for come and go (`sync.Mutex` hands itself to a starving waiter, channels are served in
  order); statements and bodies are bounded by contexts and timeouts. Clients neither come nor
  give up by force.
* `EditorFairSpec`, `PasteFairSpec`: effects that are due run; a request of a page that stays is
  answered one way or the other, as the browser promises of a fetch (strong fairness, because a
  commit that is due can delay the callback).
* `SiteFairSpec`: imports settle and their callbacks run. The reader owes nothing.

## The proofs

All for every value of the constants, from the named assumptions of the modules, which TLC
evaluates in every run. Every safety property that a passing run checks is stated by a theorem.
Most assumptions are types. The others:

* `LimiterAssumption` asks for `Burst + LockWait <= IdleTTL + 1`: that a bucket refills within the
  silence after which it is dropped, less what a create may wait for the mutex. The code does
  not enforce it, but its defaults (20 tokens, one a second, ten minutes) keep it with room; with
  a burst larger than what ten minutes refill, forgetting an address would give it tokens.
* `NoCodeIsSharedTwice` assumes that a restart keeps the secret and never lowers the minimum length
  (`RaisesOnly`), for the reason above.
* `LimitsAssumption` says the server's limit is a number and `AllocationAssumption` that the HMAC
  yields one, and that no route is the empty word. `DocsAssumption`, `BadgeAssumption` and the like
  say which constants of the client are which.

* `WriteGate_proofs`: `AdmissionHolds`. Inductive invariant: the counter and the channel are the
  cardinalities of two disjoint sets of callers; each action moves one caller, and the lemmas say
  what that does to a cardinality. The queue's limit needs in addition that whoever stands in
  line was let in by the comparison.
* `PasteStore_proofs`: `TypeCorrect`, `CounterIsExact`, `AdmissionSurvivesCreate`, `NoTransactionIsOrphaned`,
  `RecencyIsMonotone`, `NumbersAreFresh`, `CapIsHard`, `LinksDieForGood`, from one inductive invariant
  `StoreInv`. `StoredBytesExact` alone is not inductive: a commit publishes the transaction's private
  counter, about which it says nothing. `Branch(db, tx)` says an open transaction is the committed
  database with some rows deleted, some numbers burnt and a counter that lags by exactly `freed`;
  `ConnectionHasALiveOwner` that the owner is the operation whose program counter says so, so that
  its locals are the ones the commit uses; `CreatesFit` that the need of `evict` was reckoned for
  the very body to be inserted and that this body fits an empty store. With these the cap is
  arithmetic: when the loop is over, either `freed >= need` and the sum fits, or nothing is left
  and the body alone fits. Every step then either keeps the database, deletes rows of it, ages
  them, or inserts one number above all others, and lemmas about `Bytes`, `Touch`, `Without` and
  `With` say what each does. `LinksDieForGood` follows from freshness and immutability: the row a
  reader finds later was there before, with the same creation and expiry, and what it is compared
  with has only grown (`CutoffOnlyRises`); so only its access time can have revived it, which a
  flush alone changes, to the time that was queued (`OnlyFlushRenews`).
* `Retention_proofs`: `EvictionIsMinimal`, `SweepIsFair`, `QueuedReadsAreCounted`, `ImplementsAtomicStore`.
  `RetentionInv` adds to `StoreInv` what an open transaction has deleted so far: a create, a prefix
  of the recency order of which nothing shorter would do (`CreateBranch`); a sweep, what lifetimes
  took, and more only when the rest does not fit (`SweepBranch`). A batch takes a prefix of what is
  left, and a prefix of the rest of a prefix is a prefix, which is the step where a batch could
  have gone wrong. `ReadsInv` follows a queued time from the map to the swapped-out batch to the
  row, in each of which it may be only overtaken.

  The refinement needs more than the properties say (`AtomicInv`): that a sweep's evictions too are
  a shortest prefix, of what lifetimes left (`SweepCount`); that a number a create passes over is
  reserved (`BurntAreReserved`), and not, say, left by a rollback; and that every time somebody goes
  by, in a map, in a batch or in a local, was taken earlier (`TimesArePast`). A create then maps to
  stutters and one `Publish` at its commit, a flush to a `Renew`, a sweep to a `Retain`, a death to a
  `Reopen`, and a failure anywhere to a `FailWrite`.
* `CodeAllocation_proofs`: about the functions, for any alphabet, longest code and `Mac`,
  `PermuteIsAPermutation`, `LaterCodesDiffer`, `EveryWordIsACode`; of the behaviour, `NoCodeIsSharedTwice`,
  `EveryCodeIsUsed`, `ShortCodesFirst`. A Feistel round can be undone whatever its function is; a
  cycle walk that starts in a tier returns to it, because an injection of a finite set into itself
  comes back, and two walks that end together started together; encoding a number in base
  `Base` is a bijection onto the words of one length; the tiers partition the numbers. Induction goes
  through sets of numbers that have zero and every successor (`InductiveSet`) or a least
  counterexample, so no operator is passed to a theorem. `AllocInv` keeps the generator that of the
  setting; `LadderInv` that every code ever shared is that of its number in a ladder that starts no
  higher than today's, which is what raising preserves and lowering does not. `FirstLifeInv` says
  which codes the numbers so far used up. `NoCodeIsWasted` and `LengthGrowsOnlyWhenFull` speak of one
  setting only: with two letters and lengths up to three, TLC finds that raising the minimum
  from one to two uses codes of three letters while some of two are left.
* `HttpApi_proofs`: `LimiterForgetsNothing` is the refinement of `TokenBuckets`: the invariant says an
  entry was marked as seen at most `LockWait` before it was last used, so that one dropped for its
  silence is full, and an absent entry stands for a full bucket. `StatsStayRecent` and
  `StampsMoveByWindows` need that stamps are older than what they stand for and that one request
  scans at a time; `ExpiryHoldsEverywhere` that whole seconds round down. `WritesThroughTheGate` is a
  second refinement: `HttpApi` implements `WriteGate`, so `AdmissionHolds` carries over. `ApiTypes` is
  the type invariant.
* `EditorPage_proofs`: `OneSaveAtATime`, `DialogOutlastsSave`, `WhatIsShownIsSent`, `NothingIsRefused`,
  `ClientCountsRunes`. The listener is a render behind, so the invariant says how far: it knows
  whether the dialog is open, and may believe in a save that has just failed but never miss one
  under way (`ListenerKnows`). That nothing is refused needs that once the effects have run the
  lifetime is one the ladder offers (`ExpiryIsOffered`), that the limits a page at rest goes by are
  the server's, and that its count is the server's: `ClientCountsRunes` follows the loop of
  `countCodePoints` over any text, lone surrogates included, with an invariant of its place in it.
* `PastePage_proofs`: `PageInvariant`, `FetchIsRight`, `SpinnerHasARequest`, `KeysKnowTheScreen`, `ViewFollows`,
  `LabelsFollow`, `ClickSelects`, `HashRoundTrip`. `Seen` says that whatever the effects left in place
  still fits what they saw (`ran`), and `Rest` that nothing has changed since when they are not due;
  at rest the two say that the fetch, the keys, the marks and the labels are those of what is
  shown (`FetchAtRest`, `ViewAtRest`). `ViewFollows` needs more, that a view without its marks means
  nothing has changed: what was seen is all that effects depend on, and a view that is still there
  was of the paste of its code (`SeenIsWhole`), so effects that leave the marks alone saw last time
  the very values of now (`UnmarkedIsUnchanged`).
* `Site_proofs`: `FallbackHasARequest`, `PreferenceApplied`, `OneAnswerAPanel`, `ColourIsComing`,
  `CountdownKeepsUp`, `GoneWithThePage`, each from an invariant of its component, preserved by every
  step of `Site`. The last needs `Mounted`, which ties hooks, layer, clock and panels to the route,
  and `HooksAreApart`: no row of the reference shares its hook with a page or another row.

Only model-checked: liveness (`ExpiredAreErased`, `RequestsEnd`, `SavingEnds`, `LoadingEnds`,
`ColourArrives`), which rests on fairness and so is out of the prover's reach; what the tables of
rules and languages say, which is evaluated (`CatalogueAssumption`, `OrderAssumption`,
`SkippingAssumption`); and the runs that are expected to fail.

## Not modelled

* Text: wording and codes of errors, layout, messages and translations, link previews
  (`head.go`), file extensions, the curl examples, timestamps and file names.
* The codec, embedded files, test data, CORS, gzip, comparison of entity tags: wrappers of
  libraries, or without state. The parsing of the environment and of proxy headers.
* Orderly shutdown: it happens once, in a straight line, and what it can lose is less than
  what `Restart` loses at any moment. A power loss that falls back to an earlier commit
  (`synchronous(NORMAL)`) would break `SeqsAreFresh`, and the column migration of `Open` runs before
  anything else does.
* Modes that answer at once: a disabled limiter, stats that are off or need a token, the
  legacy read that sets no `Cache-Control`.
* The client's StrictMode, which doubles effects in development only; tab indentation,
  clipboard and scrolling, which change nothing that is modelled; what shiki makes of a text.
* Bounds: clocks (`EndTime`, `Horizon`), numbers (`LastSeq`), faults, restarts (`MaxRestarts`), POSTs
  under way (`MaxPosts`), the fragments, files, picks and titles that occur.
