-------------------------- MODULE EditorPage_proofs --------------------------
(***************************************************************************)
(* Saving from the editor, for any texts, limits and number of requests.   *)
(* The key listener lives on the window and may be a commit behind; the    *)
(* argument is about the two fields in which it may not.  What the client  *)
(* counts of a text is what the server counts, by induction on the text.   *)
(***************************************************************************)
EXTENDS EditorPage, FiniteSetTheorems, SequenceTheorems, TLAPS

Contents == Texts \cup Files \cup {EmptyText}

Pages == [content : Contents, deferred : Contents, choice : LanguageChoices \cup {AUTO},
          expiresIn : Picks \cup {NO_EXPIRY}, title : Titles \cup {EmptyTitle},
          confirming : BOOLEAN, saving : BOOLEAN, config : {Fallback, Server}]

Requests == [mine : BOOLEAN, settled : BOOLEAN, asShown : BOOLEAN, within : BOOLEAN,
             titled : BOOLEAN]

EditorType ==
    /\ page \in Pages
    /\ listener \in Pages \cup {NoListener}
    /\ reading \in Files \cup {NoFile}
    /\ posts \in Seq(Requests)

\* A listener a commit behind still knows whether the dialog is open, and may think that
\* a save is under way when it has just failed, but not the reverse.
ListenerKnows ==
    Live /\ listener # NoListener =>
        /\ listener.confirming = page.confirming
        /\ page.saving => listener.saving

\* Once the effects have run it is not behind at all.
ListenerIsCurrent ==
    Live /\ ~due => listener = page

OnePost ==
    /\ page.saving =>
          \E k \in DOMAIN posts : \A i \in DOMAIN posts : posts[i].mine <=> i = k
    /\ ~page.saving => \A i \in DOMAIN posts : ~posts[i].mine

AwayIsFresh == ~Live => ~page.saving

\* Once the effects have run, the lifetime is one of those the ladder offers.
ExpiryIsOffered == Live /\ ~due => page.expiresIn \in expiryOptions(page)

\* What was sent while the page was at rest is what it showed, and will be accepted but
\* for its title.
SentIsFit ==
    \A i \in DOMAIN posts : posts[i].settled => posts[i].asShown /\ posts[i].within

EditorInv ==
    /\ EditorType /\ ListenerKnows /\ ListenerIsCurrent /\ AwayIsFresh
    /\ ExpiryIsOffered
    /\ OnePost /\ DialogStaysWhileSaving /\ SentIsFit

-----------------------------------------------------------------------------
(* Counting: the client takes one off the length for every pair it meets   *)
(* on its way through the text, the server counts all but the second       *)
(* halves.                                                                 *)

\* A set of numbers with zero and every successor has them all.
LEMMA InductiveSet ==
    ASSUME NEW S, 0 \in S, \A n \in Nat : n \in S => n + 1 \in S
    PROVE  Nat \subseteq S
<1> DEFINE R == OpToRel(<, Nat)
<1> SUFFICES ASSUME Nat \ S # {} PROVE FALSE
  OBVIOUS
<1>1. IsWellFoundedOn(R, Nat)
  BY NatLessThanWellFounded
<1>2. PICK x \in Nat \ S : \A y \in Nat \ S : ~(<<y, x>> \in R)
  BY <1>1, WFMin
<1>3. \A y \in Nat \ S : ~(y < x)
  BY <1>2 DEF OpToRel
<1>4. x \in Nat /\ x # 0
  OBVIOUS
<1>5. x - 1 \in Nat /\ x - 1 < x /\ x = (x - 1) + 1
  BY <1>4
<1>6. QED
  BY <1>3, <1>5

\* Where the second halves of pairs are, after position i.
Seconds(s, i) == {j \in i + 1 .. Len(s) : PairAt(s, j - 1)}

LEMMA SecondsAreFinite ==
    ASSUME NEW s \in Seq(Units), NEW i \in Nat
    PROVE  IsFiniteSet(Seconds(s, i)) /\ Cardinality(Seconds(s, i)) \in Nat
<1>1. IsFiniteSet(i + 1 .. Len(s))
  BY FS_Interval
<1>2. Seconds(s, i) \in SUBSET (i + 1 .. Len(s))
  BY DEF Seconds
<1>3. QED
  BY <1>1, <1>2, FS_Subset, FS_CardinalityType

\* How many there are, one position at a time: no unit is in two pairs.
LEMMA SecondsFromHere ==
    ASSUME NEW s \in Seq(Units), NEW i \in 1 .. Len(s) + 1
    PROVE  Cardinality(Seconds(s, i)) =
              IF i >= Len(s) THEN 0
              ELSE IF PairAt(s, i) THEN 1 + Cardinality(Seconds(s, i + 2))
              ELSE Cardinality(Seconds(s, i + 1))
<1>1. CASE i >= Len(s)
  <2>1. Seconds(s, i) = {}
    BY <1>1 DEF Seconds
  <2>2. QED
    BY <1>1, <2>1, FS_EmptySet
<1>2. CASE i < Len(s) /\ PairAt(s, i)
  <2>1. ~PairAt(s, i + 1)
    BY <1>2 DEF PairAt
  <2>2. i + 1 \in Seconds(s, i) /\ i + 2 \notin Seconds(s, i)
    BY <1>2, <2>1 DEF Seconds
  <2>3. Seconds(s, i) = Seconds(s, i + 2) \cup {i + 1}
    BY <2>2 DEF Seconds
  <2>4. i + 1 \notin Seconds(s, i + 2)
    BY DEF Seconds
  <2>5. IsFiniteSet(Seconds(s, i + 2))
    BY SecondsAreFinite
  <2>6. Cardinality(Seconds(s, i)) = Cardinality(Seconds(s, i + 2)) + 1
    BY <2>3, <2>4, <2>5, FS_AddElement
  <2>7. Cardinality(Seconds(s, i + 2)) \in Nat
    BY SecondsAreFinite
  <2>8. QED
    BY <1>2, <2>6, <2>7
<1>3. CASE i < Len(s) /\ ~PairAt(s, i)
  <2>1. i + 1 \notin Seconds(s, i)
    BY <1>3 DEF Seconds
  <2>2. Seconds(s, i) = Seconds(s, i + 1)
    BY <2>1 DEF Seconds
  <2>3. QED
    BY <1>3, <2>2
<1>4. QED
  BY <1>1, <1>2, <1>3

\* The client's loop takes off as many as there are second halves.
LEMMA LoopCountsPairs ==
    ASSUME NEW s \in Seq(Units)
    PROVE  countCodePoints(s) = Len(s) - Cardinality(Seconds(s, 1))
<1> DEFINE n == Len(s)
           body(g) == [i \in 1 .. n + 1 |->
                         IF i >= n THEN 0
                         ELSE IF PairAt(s, i) THEN 1 + g[i + 2] ELSE g[i + 1]]
           pairs == CHOOSE g : g = body(g)
           f == [i \in 1 .. n + 1 |-> Cardinality(Seconds(s, i))]
<1>1. n \in Nat
  OBVIOUS
<1>2. f = body(f)
  <2>1. ASSUME NEW i \in 1 .. n + 1
        PROVE  f[i] = body(f)[i]
    <3>1. i < n => i + 1 \in 1 .. n + 1 /\ i + 2 \in 1 .. n + 1
      BY <1>1
    <3>2. QED
      BY <1>1, <3>1, SecondsFromHere
  <2>2. QED
    BY <2>1
<1>3. countCodePoints(s) = Len(s) - pairs[1]
  BY Zenon DEF countCodePoints
<1>4. pairs = body(pairs)
  <2> HIDE DEF body, f
  <2>1. QED
    BY <1>2, Zenon
<1> DEFINE Agreed == {k \in Nat : \A i \in 1 .. n + 1 : i >= n - k => pairs[i] = f[i]}
<1> HIDE DEF pairs
<1>5. \A i \in 1 .. n + 1 : pairs[i] = IF i >= n THEN 0
                                       ELSE IF PairAt(s, i) THEN 1 + pairs[i + 2]
                                       ELSE pairs[i + 1]
  BY <1>4
<1>6. \A i \in 1 .. n + 1 : f[i] = IF i >= n THEN 0
                                   ELSE IF PairAt(s, i) THEN 1 + f[i + 2]
                                   ELSE f[i + 1]
  BY <1>2
<1> HIDE DEF f, body
<1>7. 0 \in Agreed
  BY <1>1, <1>5, <1>6
<1>8. ASSUME NEW k \in Nat, k \in Agreed
      PROVE  k + 1 \in Agreed
  <2>1. ASSUME NEW i \in 1 .. n + 1, i >= n - (k + 1)
        PROVE  pairs[i] = f[i]
    <3>1. CASE i >= n
      BY <1>5, <1>6, <3>1
    <3>2. CASE i < n
      <4>1. /\ i + 1 \in 1 .. n + 1 /\ i + 1 >= n - k
            /\ i + 2 \in 1 .. n + 1 /\ i + 2 >= n - k
        BY <1>1, <2>1, <3>2
      <4>2. pairs[i + 1] = f[i + 1] /\ pairs[i + 2] = f[i + 2]
        BY <1>8, <4>1
      <4>3. QED
        BY <1>1, <1>5, <1>6, <3>2, <4>2
    <3>3. QED
      BY <1>1, <3>1, <3>2
  <2>2. QED
    BY <2>1
<1>9. Nat \subseteq Agreed
  <2> HIDE DEF Agreed
  <2>1. QED
    BY <1>7, <1>8, InductiveSet
<1>10. pairs[1] = f[1]
  <2>1. n \in Agreed
    BY <1>1, <1>9
  <2>2. 1 \in 1 .. n + 1 /\ 1 >= n - n
    BY <1>1
  <2>3. QED
    BY <2>1, <2>2
<1>11. QED
  BY <1>1, <1>3, <1>10 DEF f

\* What the client measures against the limit is what the server measures, surrogates
\* without their other half included (utils.ts:22-33, store.go:369).
THEOREM ClientCountsRunes ==
    ASSUME NEW s \in Seq(Units)
    PROVE  countCodePoints(s) = Runes(s)
<1> DEFINE all == 1 .. Len(s)
           firsts == {i \in DOMAIN s : ~(s[i] = "low" /\ i > 1 /\ s[i - 1] = "high")}
<1>1. IsFiniteSet(all) /\ Cardinality(all) = Len(s)
  <2>1. Len(s) \in Nat /\ Len(s) \in Int /\ 1 \in Int
    OBVIOUS
  <2>2. /\ IsFiniteSet(1 .. Len(s))
        /\ Cardinality(1 .. Len(s)) = IF 1 > Len(s) THEN 0 ELSE Len(s) - 1 + 1
    BY <2>1, FS_Interval, Zenon
  <2>3. QED
    BY <2>1, <2>2
<1>2. firsts = all \ Seconds(s, 1) /\ Seconds(s, 1) \subseteq all
  BY DEF Seconds, PairAt
<1>3. Cardinality(all \ Seconds(s, 1)) = Cardinality(all) - Cardinality(all \cap Seconds(s, 1))
  BY <1>1, SecondsAreFinite, FS_Difference
<1>4. all \cap Seconds(s, 1) = Seconds(s, 1)
  BY <1>2
<1>5. QED
  BY <1>1, <1>2, <1>3, <1>4, LoopCountsPairs DEF Runes

\* A text that is more than blanks has something for the server to count.
LEMMA InkIsCounted ==
    ASSUME NEW s \in Seq(Units), Trim(s) # <<>>
    PROVE  Runes(s) \in Nat /\ Runes(s) >= 1
<1> DEFINE firsts == {i \in DOMAIN s : ~(s[i] = "low" /\ i > 1 /\ s[i - 1] = "high")}
<1>1. DOMAIN s # {}
  BY DEF Trim
<1>2. 1 \in firsts /\ firsts \in SUBSET (1 .. Len(s))
  BY <1>1
<1>3. IsFiniteSet(firsts)
  BY <1>2, FS_Interval, FS_Subset
<1>4. Cardinality(firsts) \in Nat /\ Cardinality(firsts) # 0
  BY <1>2, <1>3, FS_CardinalityType, FS_EmptySet
<1>5. QED
  BY <1>4 DEF Runes

-----------------------------------------------------------------------------
(* Data. *)

\* What is left of a sequence without its i-th element.
LEMMA RemoveAtElements ==
    ASSUME NEW S, NEW s \in Seq(S), NEW i \in 1 .. Len(s)
    PROVE  /\ RemoveAt(s, i) \in Seq(S)
           /\ Len(RemoveAt(s, i)) = Len(s) - 1
           /\ \A j \in 1 .. Len(s) - 1 :
                 RemoveAt(s, i)[j] = IF j < i THEN s[j] ELSE s[j + 1]
<1> DEFINE a == SubSeq(s, 1, i - 1)
           b == SubSeq(s, i + 1, Len(s))
<1>1. /\ a \in Seq(S) /\ Len(a) = i - 1
      /\ \A j \in 1 .. i - 1 : a[j] = s[j]
  OBVIOUS
<1>2. /\ b \in Seq(S) /\ Len(b) = Len(s) - i
      /\ \A j \in 1 .. Len(s) - i : b[j] = s[i + j]
  OBVIOUS
<1>3. RemoveAt(s, i) = a \o b
  BY DEF RemoveAt
<1> HIDE DEF a, b
<1>4. /\ a \o b \in Seq(S) /\ Len(a \o b) = Len(a) + Len(b)
      /\ \A j \in 1 .. Len(a) + Len(b) :
            (a \o b)[j] = IF j <= Len(a) THEN a[j] ELSE b[j - Len(a)]
  BY <1>1, <1>2, ConcatProperties
<1>5. ASSUME NEW j \in 1 .. Len(s) - 1
      PROVE  (a \o b)[j] = IF j < i THEN s[j] ELSE s[j + 1]
  <2>1. CASE j < i
    BY <1>1, <1>2, <1>4, <2>1
  <2>2. CASE ~(j < i)
    <3>1. j - (i - 1) \in 1 .. Len(s) - i /\ i + (j - (i - 1)) = j + 1
      BY <2>2
    <3>2. (a \o b)[j] = b[j - (i - 1)]
      <4>1. j \in 1 .. Len(a) + Len(b) /\ ~(j <= Len(a)) /\ Len(a) = i - 1
        BY <1>1, <1>2, <2>2
      <4>2. QED
        BY <1>4, <4>1
    <3>3. QED
      BY <1>2, <2>2, <3>1, <3>2
  <2>3. QED
    BY <2>1, <2>2
<1>6. QED
  BY <1>1, <1>2, <1>3, <1>4, <1>5

LEMMA FreshIsPage ==
    Fresh \in Pages /\ ~Fresh.saving /\ ~Fresh.confirming
  BY DEF Fresh, Pages, Contents

\* Taking back a lifetime changes nothing else.
LEMMA DropExpiryKeeps ==
    ASSUME NEW p \in Pages
    PROVE  /\ DropExpiry(p) \in Pages
           /\ DropExpiry(p).saving = p.saving
           /\ DropExpiry(p).confirming = p.confirming
           /\ DropExpiry(p).expiresIn \in expiryOptions(DropExpiry(p))
  BY DEF DropExpiry, Pages, expiryOptions

\* One POST for a page that is saving, none for one that is not, is what the invariant
\* of the run counts.
LEMMA OnePostCounts ==
    ASSUME EditorType, OnePost
    PROVE  SavingMeansOnePost
<1> DEFINE own == {i \in DOMAIN posts : posts[i].mine}
<1>1. CASE page.saving
  <2>1. PICK k \in DOMAIN posts : \A i \in DOMAIN posts : posts[i].mine <=> i = k
    BY <1>1 DEF OnePost
  <2>2. own = {k}
    BY <2>1
  <2>3. QED
    BY <1>1, <2>2, FS_Singleton DEF SavingMeansOnePost
<1>2. CASE ~page.saving
  <2>1. own = {}
    BY <1>2 DEF OnePost
  <2>2. QED
    BY <1>2, <2>1, FS_EmptySet DEF SavingMeansOnePost
<1>3. QED
  BY <1>1, <1>2

-----------------------------------------------------------------------------
(* The shapes a step can have. *)

\* A commit whose effects run with it.
LEMMA SettledStep ==
    ASSUME EditorInv, Live, Live', NEW p \in Pages, Settle(p),
           p.saving = page.saving, p.saving => p.confirming,
           reading' \in Files \cup {NoFile}, posts' = posts
    PROVE  EditorInv'
<1>1. /\ page' \in Pages /\ page'.saving = page.saving
      /\ page'.saving => page'.confirming
      /\ listener' = page' /\ due' = FALSE
      /\ page'.expiresIn \in expiryOptions(page')
  BY DropExpiryKeeps DEF Settle, Listen
<1>2. EditorType' /\ ListenerKnows' /\ ListenerIsCurrent' /\ AwayIsFresh' /\ ExpiryIsOffered'
  BY <1>1 DEF EditorInv, EditorType, ListenerKnows, ListenerIsCurrent, AwayIsFresh, ExpiryIsOffered
<1>3. OnePost' /\ DialogStaysWhileSaving' /\ SentIsFit'
  BY <1>1 DEF EditorInv, OnePost, DialogStaysWhileSaving, SentIsFit
<1>4. QED
  BY <1>2, <1>3 DEF EditorInv

\* A commit whose effects run later.
LEMMA DeferredStep ==
    ASSUME EditorInv, Live, ~due, Live', due' = TRUE, page' \in Pages,
           page'.saving = page.saving, page'.confirming = page.confirming,
           reading' \in Files \cup {NoFile}, UNCHANGED <<listener, posts>>
    PROVE  EditorInv'
<1>1. EditorType' /\ ListenerKnows' /\ ListenerIsCurrent' /\ AwayIsFresh' /\ ExpiryIsOffered'
  BY DEF EditorInv, EditorType, ListenerKnows, ListenerIsCurrent, AwayIsFresh, ExpiryIsOffered
<1>2. OnePost' /\ DialogStaysWhileSaving' /\ SentIsFit'
  BY DEF EditorInv, OnePost, DialogStaysWhileSaving, SentIsFit
<1>3. QED
  BY <1>1, <1>2 DEF EditorInv

\* Nothing but a file comes or goes.
LEMMA StillStep ==
    ASSUME EditorInv, UNCHANGED <<route, page, due, listener, posts>>,
           reading' \in Files \cup {NoFile}
    PROVE  EditorInv'
  BY DEF EditorInv, EditorType, ListenerKnows, ListenerIsCurrent, AwayIsFresh, ExpiryIsOffered,
         OnePost, DialogStaysWhileSaving, SentIsFit, Live

-----------------------------------------------------------------------------
(* Saving. *)

LEMMA PostSays ==
    ASSUME EditorInv, Live, NEW seen, seen \in {page, listener}, ~empty(seen), ~overLimit(seen)
    PROVE  /\ Post(seen) \in Requests
           /\ Post(seen).mine
           /\ Post(seen).settled => Post(seen).asShown /\ Post(seen).within
<1>1. Post(seen) \in Requests /\ Post(seen).mine
  BY DEF Post, Requests, AcceptsContent, AcceptsExpiry, AcceptsTitle
<1>2. ASSUME Post(seen).settled
      PROVE  Post(seen).asShown /\ Post(seen).within
  <2>1. ~due /\ page.config = Server
    BY <1>2 DEF Post
  <2>2. seen = page /\ page \in Pages
    BY <2>1 DEF EditorInv, EditorType, ListenerIsCurrent
  <2> DEFINE units == page.content.units
  <2>3. units \in Seq(Units)
    <3>1. page.content \in Texts \cup Files \cup {EmptyText}
      BY <2>2 DEF Pages, Contents
    <3>2. QED
      BY <3>1, LimitsAssumption
  <2>4. Runes(units) \in Nat /\ Runes(units) >= 1
    BY <2>2, <2>3, InkIsCounted DEF empty
  <2>5. Runes(units) <= Server.maxChars
    <3>1. ~(countCodePoints(units) > Server.maxChars)
      BY <2>1, <2>2 DEF overLimit
    <3>2. countCodePoints(units) = Runes(units)
      BY <2>3, ClientCountsRunes
    <3>3. QED
      BY <2>4, <3>1, <3>2, LimitsAssumption
  <2>6. page.expiresIn \in {NO_EXPIRY} \cup Server.expiries
    BY <2>1 DEF EditorInv, ExpiryIsOffered, expiryOptions
  <2>7. Payload(page).content.units = units /\ Payload(page).expiresIn = page.expiresIn
    BY DEF Payload
  <2>8. Runes(units) \in 1 .. Server.maxChars
    BY <2>4, <2>5, LimitsAssumption
  <2>9. AcceptsContent(Payload(page)) /\ AcceptsExpiry(Payload(page))
    BY <2>6, <2>7, <2>8 DEF AcceptsContent, AcceptsExpiry
  <2>10. QED
    BY <2>2, <2>9 DEF Post
<1>3. QED
  BY <1>1, <1>2

\* What one more POST of this page does to those under way.
LEMMA SaveStep ==
    ASSUME EditorInv, Live, Live', ~page.saving, page.confirming,
           NEW seen, seen \in {page, listener}, ~empty(seen), ~overLimit(seen),
           NEW p \in Pages, p.saving, p.confirming, Settle(p),
           posts' = Append(posts, Post(seen)), reading' = reading
    PROVE  EditorInv'
<1>1. /\ page' \in Pages /\ page'.saving /\ page'.confirming
      /\ listener' = page' /\ due' = FALSE
      /\ page'.expiresIn \in expiryOptions(page')
  BY DropExpiryKeeps DEF Settle, Listen
<1>2. /\ posts \in Seq(Requests) /\ Post(seen) \in Requests /\ Post(seen).mine
      /\ Post(seen).settled => Post(seen).asShown /\ Post(seen).within
  BY PostSays DEF EditorInv, EditorType
<1>3. /\ posts' \in Seq(Requests) /\ Len(posts') = Len(posts) + 1
      /\ \A i \in 1 .. Len(posts) : posts'[i] = posts[i]
      /\ posts'[Len(posts) + 1] = Post(seen)
  BY <1>2, AppendProperties
<1>4. /\ DOMAIN posts = 1 .. Len(posts) /\ Len(posts) \in Nat
      /\ DOMAIN posts' = 1 .. Len(posts) + 1
  BY <1>2, <1>3
<1>5. \A i \in DOMAIN posts : ~posts[i].mine
  BY DEF EditorInv, OnePost
<1>6. \A i \in DOMAIN posts' : i \in DOMAIN posts \/ i = Len(posts) + 1
  BY <1>4
<1>7. \A i \in DOMAIN posts' : posts'[i].mine <=> i = Len(posts) + 1
  <2>1. ASSUME NEW i \in DOMAIN posts
        PROVE  ~posts'[i].mine /\ i # Len(posts) + 1
    BY <1>3, <1>4, <1>5
  <2>2. QED
    BY <1>2, <1>3, <1>6, <2>1
<1>8. OnePost'
  <2>1. Len(posts) + 1 \in DOMAIN posts'
    BY <1>4
  <2>2. QED
    BY <1>1, <1>7, <2>1 DEF OnePost
<1>9. SentIsFit'
  <2>1. ASSUME NEW i \in DOMAIN posts', posts'[i].settled
        PROVE  posts'[i].asShown /\ posts'[i].within
    <3>1. CASE i \in DOMAIN posts
      BY <1>3, <1>4, <2>1, <3>1 DEF EditorInv, SentIsFit
    <3>2. CASE i = Len(posts) + 1
      BY <1>2, <1>3, <2>1, <3>2
    <3>3. QED
      BY <1>6, <3>1, <3>2
  <2>2. QED
    BY <2>1 DEF SentIsFit
<1>10. EditorType' /\ ListenerKnows' /\ ListenerIsCurrent' /\ AwayIsFresh' /\ ExpiryIsOffered'
  BY <1>1, <1>3 DEF EditorInv, EditorType, ListenerKnows, ListenerIsCurrent, AwayIsFresh, ExpiryIsOffered
<1>11. QED
  BY <1>1, <1>8, <1>9, <1>10 DEF EditorInv, DialogStaysWhileSaving

LEMMA StepAskToSave ==
    ASSUME EditorInv, NEW seen, askToSave(seen), UNCHANGED <<route, reading>>
    PROVE  EditorInv'
<1> DEFINE refused == seen.saving \/ empty(seen) \/ overLimit(seen)
           asked(p) == IF refused THEN p ELSE [p EXCEPT !.confirming = TRUE]
<1>1. /\ Live /\ UNCHANGED posts
      /\ \/ UNCHANGED <<page, due, listener>>
         \/ Settle(asked(DropExpiry(page)))
  BY DEF askToSave, Discrete
<1>2. page \in Pages /\ reading' \in Files \cup {NoFile} /\ (page.saving => page.confirming)
  BY DEF EditorInv, EditorType, DialogStaysWhileSaving
<1>3. DropExpiry(page) \in Pages /\ DropExpiry(page).saving = page.saving
      /\ DropExpiry(page).confirming = page.confirming
  BY <1>2, DropExpiryKeeps
<1>4. /\ asked(DropExpiry(page)) \in Pages
      /\ asked(DropExpiry(page)).saving = page.saving
      /\ asked(DropExpiry(page)).saving => asked(DropExpiry(page)).confirming
  <2>1. CASE refused
    BY <1>2, <1>3, <2>1
  <2>2. CASE ~refused
    BY <1>3, <2>2 DEF Pages
  <2>3. QED
    BY <2>1, <2>2
<1>5. Live'
  BY <1>1 DEF Live
<1> HIDE DEF asked
<1>6. QED
  BY <1>1, <1>2, <1>4, <1>5, SettledStep, StillStep

LEMMA StepSave ==
    ASSUME EditorInv, NEW seen, save(seen), seen \in {page, listener},
           seen.confirming, page.confirming, page.saving => seen.saving,
           UNCHANGED <<route, reading>>
    PROVE  EditorInv'
<1>1. Live /\ Live'
  BY DEF save, Discrete, Live
<1>2. page \in Pages /\ reading' \in Files \cup {NoFile}
  BY DEF EditorInv, EditorType
<1>3. CASE seen.saving \/ empty(seen) \/ overLimit(seen)
  <2>1. Discrete(LAMBDA p : p) /\ UNCHANGED posts
    BY <1>3 DEF save
  <2>2. UNCHANGED <<page, due, listener>>
    BY <2>1 DEF Discrete
  <2>3. QED
    BY <1>2, <2>1, <2>2, StillStep
<1>4. CASE ~(seen.saving \/ empty(seen) \/ overLimit(seen))
  <2> DEFINE p == [DropExpiry(page) EXCEPT !.saving = TRUE]
  <2>1. ~page.saving
    BY <1>4
  <2>2. /\ Discrete(LAMBDA q : [q EXCEPT !.saving = TRUE])
        /\ posts' = Append(posts, Post(seen))
    BY <1>4 DEF save
  <2>3. [page EXCEPT !.saving = TRUE] # page
    BY <1>2, <2>1 DEF Pages
  <2>4. Settle(p)
    BY <2>2, <2>3 DEF Discrete
  <2>5. p \in Pages /\ p.saving /\ p.confirming
    <3>1. DropExpiry(page) \in Pages /\ DropExpiry(page).confirming
      BY <1>2, DropExpiryKeeps
    <3>2. QED
      BY <3>1 DEF Pages
  <2> HIDE DEF p
  <2>6. QED
    BY <1>1, <1>4, <2>1, <2>2, <2>4, <2>5, SaveStep
<1>5. QED
  BY <1>3, <1>4

\* The two ways to confirm: the dialog's button with the state of the page, and the
\* chord with that of the listener.
LEMMA StepChord ==
    ASSUME EditorInv, Chord
    PROVE  EditorInv'
<1>1. Live /\ listener # NoListener /\ UNCHANGED <<route, reading>>
  BY DEF Chord
<1>2. listener.confirming = page.confirming /\ (page.saving => listener.saving)
  BY <1>1 DEF EditorInv, ListenerKnows
<1>3. CASE listener.confirming
  BY <1>1, <1>2, <1>3, StepSave DEF Chord
<1>4. CASE ~listener.confirming
  BY <1>1, <1>4, StepAskToSave DEF Chord
<1>5. QED
  BY <1>3, <1>4

\* What an answer leaves of the POSTs under way.
LEMMA AnswerLeaves ==
    ASSUME EditorInv, NEW i \in DOMAIN posts
    PROVE  /\ RemoveAt(posts, i) \in Seq(Requests)
           /\ \A j \in DOMAIN RemoveAt(posts, i) :
                 \E k \in DOMAIN posts : /\ k # i /\ RemoveAt(posts, i)[j] = posts[k]
                                         /\ j = IF k < i THEN k ELSE k - 1
           /\ \A k \in DOMAIN posts : k # i =>
                 \E j \in DOMAIN RemoveAt(posts, i) : /\ RemoveAt(posts, i)[j] = posts[k]
                                                     /\ j = IF k < i THEN k ELSE k - 1
<1> DEFINE rest == RemoveAt(posts, i)
<1>1. posts \in Seq(Requests) /\ i \in 1 .. Len(posts) /\ Len(posts) \in Nat
  BY DEF EditorInv, EditorType
<1>2. /\ rest \in Seq(Requests) /\ Len(rest) = Len(posts) - 1
      /\ \A j \in 1 .. Len(posts) - 1 : rest[j] = IF j < i THEN posts[j] ELSE posts[j + 1]
  BY <1>1, RemoveAtElements
<1>3. DOMAIN rest = 1 .. Len(posts) - 1 /\ DOMAIN posts = 1 .. Len(posts)
  BY <1>1, <1>2
<1> HIDE DEF rest
<1>4. ASSUME NEW j \in DOMAIN rest
      PROVE  \E k \in DOMAIN posts : /\ k # i /\ rest[j] = posts[k]
                                     /\ j = IF k < i THEN k ELSE k - 1
  <2>1. CASE j < i
    <3>1. j \in DOMAIN posts /\ j # i /\ rest[j] = posts[j]
      BY <1>1, <1>2, <1>3, <2>1
    <3>2. QED
      BY <2>1, <3>1
  <2>2. CASE ~(j < i)
    <3>1. /\ j + 1 \in DOMAIN posts /\ j + 1 # i /\ rest[j] = posts[j + 1]
          /\ ~(j + 1 < i) /\ j = (j + 1) - 1
      BY <1>1, <1>2, <1>3, <2>2
    <3>2. QED
      BY <3>1
  <2>3. QED
    BY <2>1, <2>2
<1>5. ASSUME NEW k \in DOMAIN posts, k # i
      PROVE  \E j \in DOMAIN rest : rest[j] = posts[k] /\ j = IF k < i THEN k ELSE k - 1
  <2>1. CASE k < i
    BY <1>1, <1>2, <1>3, <2>1
  <2>2. CASE ~(k < i)
    <3>1. k - 1 \in DOMAIN rest /\ ~(k - 1 < i) /\ k - 1 + 1 = k
      BY <1>1, <1>3, <1>5, <2>2
    <3>2. rest[k - 1] = posts[k]
      BY <1>2, <1>3, <3>1
    <3>3. QED
      BY <2>2, <3>1, <3>2
  <2>3. QED
    BY <2>1, <2>2
<1>6. QED
  BY <1>2, <1>4, <1>5 DEF rest

\* After the page that owns the POSTs is gone none of them is anybody's.
LEMMA DisownedPosts ==
    ASSUME NEW s \in Seq(Requests)
    PROVE  /\ Disowned(s) \in Seq(Requests)
           /\ \A i \in DOMAIN Disowned(s) : ~Disowned(s)[i].mine /\ ~Disowned(s)[i].settled
<1>1. \A i \in DOMAIN s : s[i] \in Requests
  OBVIOUS
<1>2. \A i \in DOMAIN s :
         /\ [s[i] EXCEPT !.mine = FALSE, !.settled = FALSE, !.asShown = TRUE] \in Requests
         /\ ~[s[i] EXCEPT !.mine = FALSE, !.settled = FALSE, !.asShown = TRUE].mine
         /\ ~[s[i] EXCEPT !.mine = FALSE, !.settled = FALSE, !.asShown = TRUE].settled
  BY <1>1 DEF Requests
<1>3. DOMAIN s = 1 .. Len(s) /\ Len(s) \in Nat
  OBVIOUS
<1>4. DOMAIN Disowned(s) = 1 .. Len(s)
  BY <1>3 DEF Disowned
<1>5. \A i \in 1 .. Len(s) : Disowned(s)[i] =
         [s[i] EXCEPT !.mine = FALSE, !.settled = FALSE, !.asShown = TRUE]
  BY <1>3 DEF Disowned
<1>6. Disowned(s) \in [1 .. Len(s) -> Requests]
  <2>1. \A i \in 1 .. Len(s) : Disowned(s)[i] \in Requests
    BY <1>2, <1>3, <1>5
  <2>2. Disowned(s) = [i \in 1 .. Len(s) |-> Disowned(s)[i]]
    BY <1>3 DEF Disowned
  <2>3. QED
    BY <2>1, <2>2
<1>7. Disowned(s) \in Seq(Requests)
  BY <1>3, <1>6
<1>8. ASSUME NEW i \in DOMAIN Disowned(s)
      PROVE  ~Disowned(s)[i].mine /\ ~Disowned(s)[i].settled
  <2>1. i \in 1 .. Len(s) /\ i \in DOMAIN s
    BY <1>3, <1>4
  <2>2. QED
    BY <1>2, <1>5, <2>1
<1>9. QED
  BY <1>7, <1>8

\* A page without POSTs that has just been unmounted, or is about to be mounted.
LEMMA FreshStep ==
    ASSUME EditorInv, page' = Fresh, listener' = NoListener,
           due' \in BOOLEAN, Live' => due',
           reading' \in Files \cup {NoFile}, posts' \in Seq(Requests),
           \A i \in DOMAIN posts' : ~posts'[i].mine,
           \A i \in DOMAIN posts' : posts'[i].settled => posts'[i].asShown /\ posts'[i].within
    PROVE  EditorInv'
<1>1. page' \in Pages /\ ~page'.saving /\ ~page'.confirming
  BY FreshIsPage
<1>2. EditorType' /\ ListenerKnows' /\ ListenerIsCurrent' /\ AwayIsFresh' /\ ExpiryIsOffered'
  BY <1>1 DEF EditorType, ListenerKnows, ListenerIsCurrent, AwayIsFresh, ExpiryIsOffered
<1>3. OnePost' /\ DialogStaysWhileSaving' /\ SentIsFit'
  BY <1>1 DEF OnePost, DialogStaysWhileSaving, SentIsFit
<1>4. QED
  BY <1>2, <1>3 DEF EditorInv

LEMMA StepSaved ==
    ASSUME EditorInv, NEW i \in DOMAIN posts, Saved(i)
    PROVE  EditorInv'
<1>1. RemoveAt(posts, i) \in Seq(Requests)
  BY AnswerLeaves
<1>2. /\ posts' \in Seq(Requests)
      /\ \A j \in DOMAIN posts' : ~posts'[j].mine /\ ~posts'[j].settled
  BY <1>1, DisownedPosts DEF Saved
<1>3. page' = Fresh /\ listener' = NoListener /\ due' \in BOOLEAN /\ ~Live' /\ reading' = reading
  BY DEF Saved, Unmounted, Live
<1>4. reading \in Files \cup {NoFile}
  BY DEF EditorInv, EditorType
<1>5. QED
  BY <1>2, <1>3, <1>4, FreshStep

LEMMA StepFailed ==
    ASSUME EditorInv, NEW i \in DOMAIN posts, Failed(i)
    PROVE  EditorInv'
<1> DEFINE rest == RemoveAt(posts, i)
<1>1. /\ posts[i].mine /\ posts' = rest /\ UNCHANGED <<route, reading, listener>>
      /\ Live /\ ~due /\ due' = TRUE /\ page' = [page EXCEPT !.saving = FALSE]
  BY DEF Failed, Deferred
<1>2. /\ rest \in Seq(Requests)
      /\ \A j \in DOMAIN rest : \E k \in DOMAIN posts : k # i /\ rest[j] = posts[k]
  BY AnswerLeaves
<1> HIDE DEF rest
<1>3. page \in Pages /\ page' \in Pages /\ ~page'.saving /\ page'.confirming = page.confirming
  BY <1>1 DEF EditorInv, EditorType, Pages
<1>4. \A k \in DOMAIN posts : k # i => ~posts[k].mine
  BY <1>1 DEF EditorInv, OnePost
<1>5. OnePost'
  BY <1>1, <1>2, <1>3, <1>4 DEF OnePost
<1>6. SentIsFit'
  BY <1>1, <1>2 DEF EditorInv, SentIsFit
<1>7. EditorType' /\ ListenerKnows' /\ ListenerIsCurrent' /\ AwayIsFresh' /\ ExpiryIsOffered'
  BY <1>1, <1>2, <1>3
  DEF EditorInv, EditorType, ListenerKnows, ListenerIsCurrent, AwayIsFresh, ExpiryIsOffered, Live
<1>8. QED
  BY <1>3, <1>5, <1>6, <1>7 DEF EditorInv, DialogStaysWhileSaving

LEMMA StepFailedElsewhere ==
    ASSUME EditorInv, NEW i \in DOMAIN posts, FailedElsewhere(i)
    PROVE  EditorInv'
<1> DEFINE rest == RemoveAt(posts, i)
           place(k) == IF k < i THEN k ELSE k - 1
<1>1. /\ ~posts[i].mine /\ posts' = rest
      /\ UNCHANGED <<route, page, due, listener, reading>>
  BY DEF FailedElsewhere
<1>2. /\ rest \in Seq(Requests)
      /\ \A j \in DOMAIN rest :
            \E k \in DOMAIN posts : k # i /\ rest[j] = posts[k] /\ j = place(k)
      /\ \A k \in DOMAIN posts : k # i =>
            \E j \in DOMAIN rest : rest[j] = posts[k] /\ j = place(k)
  BY AnswerLeaves
<1> HIDE DEF rest, place
<1>3. OnePost'
  <2>1. CASE page.saving
    <3>1. PICK k \in DOMAIN posts : \A n \in DOMAIN posts : posts[n].mine <=> n = k
      BY <2>1 DEF EditorInv, OnePost
    <3>2. k # i
      BY <1>1, <3>1
    <3>3. place(k) \in DOMAIN rest /\ rest[place(k)] = posts[k]
      BY <1>2, <3>2
    <3>4. \A j \in DOMAIN rest : rest[j].mine <=> j = place(k)
      BY <1>2, <3>1, <3>3
    <3>5. QED
      BY <1>1, <2>1, <3>3, <3>4 DEF OnePost
  <2>2. CASE ~page.saving
    BY <1>1, <1>2, <2>2 DEF EditorInv, OnePost
  <2>3. QED
    BY <2>1, <2>2
<1>4. SentIsFit'
  BY <1>1, <1>2 DEF EditorInv, SentIsFit
<1>5. EditorType' /\ ListenerKnows' /\ ListenerIsCurrent' /\ AwayIsFresh' /\ ExpiryIsOffered'
  BY <1>1, <1>2
  DEF EditorInv, EditorType, ListenerKnows, ListenerIsCurrent, AwayIsFresh, ExpiryIsOffered, Live
<1>6. QED
  BY <1>1, <1>3, <1>4, <1>5 DEF EditorInv, DialogStaysWhileSaving

LEMMA StepLeave ==
    ASSUME EditorInv, Leave
    PROVE  EditorInv'
<1>1. posts \in Seq(Requests)
  BY DEF EditorInv, EditorType
<1>2. /\ posts' \in Seq(Requests)
      /\ \A j \in DOMAIN posts' : ~posts'[j].mine /\ ~posts'[j].settled
  BY <1>1, DisownedPosts DEF Leave
<1>3. page' = Fresh /\ listener' = NoListener /\ due' \in BOOLEAN /\ ~Live' /\ reading' = NoFile
  BY DEF Leave, Unmounted, Live
<1>4. QED
  BY <1>2, <1>3, FreshStep

LEMMA StepReturn ==
    ASSUME EditorInv, Return
    PROVE  EditorInv'
<1>1. /\ page' = Fresh /\ listener' = NoListener /\ due' = TRUE /\ reading' = NoFile
      /\ posts' = posts /\ ~Live
  BY DEF Return
<1>2. posts \in Seq(Requests) /\ ~page.saving
  BY <1>1 DEF EditorInv, EditorType, AwayIsFresh
<1>3. /\ \A i \in DOMAIN posts : ~posts[i].mine
      /\ \A i \in DOMAIN posts : posts[i].settled => posts[i].asShown /\ posts[i].within
  BY <1>2 DEF EditorInv, OnePost, SentIsFit
<1>4. QED
  BY <1>1, <1>2, <1>3, FreshStep

-----------------------------------------------------------------------------
LEMMA EditorInitHolds == EditorInit => EditorInv
<1> SUFFICES ASSUME EditorInit PROVE EditorInv
  OBVIOUS
<1>1. /\ page \in Pages /\ ~page.saving /\ ~page.confirming
      /\ listener = NoListener /\ reading = NoFile /\ posts = <<>> /\ due
  BY FreshIsPage DEF EditorInit
<1>2. posts \in Seq(Requests) /\ DOMAIN posts = {}
  BY <1>1
<1>3. QED
  BY <1>1, <1>2 DEF EditorInv, EditorType, ListenerKnows, ListenerIsCurrent, AwayIsFresh, ExpiryIsOffered,
     OnePost, DialogStaysWhileSaving, SentIsFit

\* Discrete events that set one field and leave a save under way alone.
LEMMA StepInput ==
    ASSUME EditorInv,
           \/ \E text \in Texts : Type(text)
           \/ \E choice \in LanguageChoices : PickLanguage(choice)
           \/ \E title \in Titles : TypeTitle(title)
           \/ \E seconds \in Picks : PickExpiry(seconds)
    PROVE  EditorInv'
<1>1. page \in Pages /\ reading \in Files \cup {NoFile} /\ (page.saving => page.confirming)
  BY DEF EditorInv, EditorType, DialogStaysWhileSaving
<1>2. DropExpiry(page) \in Pages /\ DropExpiry(page).saving = page.saving
      /\ DropExpiry(page).confirming = page.confirming
  BY <1>1, DropExpiryKeeps
<1>3. ASSUME NEW p \in Pages, p.saving = page.saving, p.confirming = page.confirming,
             Live, UNCHANGED <<route, reading, posts>>,
             UNCHANGED <<page, due, listener>> \/ Settle(p)
      PROVE  EditorInv'
  BY <1>1, <1>3, SettledStep, StillStep DEF Live
<1>4. ASSUME NEW text \in Texts, Type(text)
      PROVE  EditorInv'
  <2> DEFINE p == [DropExpiry(page) EXCEPT !.content = text]
  <2>1. p \in Pages /\ p.saving = page.saving /\ p.confirming = page.confirming
    BY <1>2 DEF Pages, Contents
  <2>2. /\ Live /\ UNCHANGED <<route, reading, posts>>
        /\ UNCHANGED <<page, due, listener>> \/ Settle(p)
    BY <1>4 DEF Type, Discrete
  <2> HIDE DEF p
  <2>3. QED
    BY <1>3, <2>1, <2>2
<1>5. ASSUME NEW choice \in LanguageChoices, PickLanguage(choice)
      PROVE  EditorInv'
  <2> DEFINE p == [DropExpiry(page) EXCEPT !.choice = choice]
  <2>1. p \in Pages /\ p.saving = page.saving /\ p.confirming = page.confirming
    BY <1>2 DEF Pages
  <2>2. /\ Live /\ UNCHANGED <<route, reading, posts>>
        /\ UNCHANGED <<page, due, listener>> \/ Settle(p)
    BY <1>5 DEF PickLanguage, Discrete
  <2> HIDE DEF p
  <2>3. QED
    BY <1>3, <2>1, <2>2
<1>6. ASSUME NEW title \in Titles, TypeTitle(title)
      PROVE  EditorInv'
  <2> DEFINE p == [DropExpiry(page) EXCEPT !.title = title]
  <2>1. p \in Pages /\ p.saving = page.saving /\ p.confirming = page.confirming
    BY <1>2 DEF Pages
  <2>2. /\ Live /\ UNCHANGED <<route, reading, posts>>
        /\ UNCHANGED <<page, due, listener>> \/ Settle(p)
    BY <1>6 DEF TypeTitle, Discrete
  <2> HIDE DEF p
  <2>3. QED
    BY <1>3, <2>1, <2>2
<1>7. ASSUME NEW seconds \in Picks, PickExpiry(seconds)
      PROVE  EditorInv'
  <2> DEFINE p == [DropExpiry(page) EXCEPT !.expiresIn = seconds]
  <2>1. p \in Pages /\ p.saving = page.saving /\ p.confirming = page.confirming
    BY <1>2 DEF Pages
  <2>2. /\ Live /\ UNCHANGED <<route, reading, posts>>
        /\ UNCHANGED <<page, due, listener>> \/ Settle(p)
    BY <1>7 DEF PickExpiry, Discrete
  <2> HIDE DEF p
  <2>3. QED
    BY <1>3, <2>1, <2>2
<1>8. QED
  BY <1>4, <1>5, <1>6, <1>7

LEMMA StepCancel ==
    ASSUME EditorInv, Cancel
    PROVE  EditorInv'
<1> DEFINE shut(p) == IF page.saving THEN p ELSE [p EXCEPT !.confirming = FALSE]
<1>1. /\ Live /\ UNCHANGED <<route, reading, posts>>
      /\ UNCHANGED <<page, due, listener>> \/ Settle(shut(DropExpiry(page)))
  BY DEF Cancel, Discrete
<1>2. page \in Pages /\ reading \in Files \cup {NoFile} /\ (page.saving => page.confirming)
  BY DEF EditorInv, EditorType, DialogStaysWhileSaving
<1>3. /\ shut(DropExpiry(page)) \in Pages
      /\ shut(DropExpiry(page)).saving = page.saving
      /\ shut(DropExpiry(page)).saving => shut(DropExpiry(page)).confirming
  <2>1. DropExpiry(page) \in Pages /\ DropExpiry(page).saving = page.saving
        /\ DropExpiry(page).confirming = page.confirming
    BY <1>2, DropExpiryKeeps
  <2>2. CASE page.saving
    BY <1>2, <2>1, <2>2
  <2>3. CASE ~page.saving
    BY <2>1, <2>3 DEF Pages
  <2>4. QED
    BY <2>2, <2>3
<1> HIDE DEF shut
<1>4. QED
  BY <1>1, <1>2, <1>3, SettledStep, StillStep DEF Live

\* The commits that no event asks for, and the dropped file.
LEMMA StepBackground ==
    ASSUME EditorInv,
           RunEffects \/ Detect \/ ConfigArrives \/ FileRead
              \/ \E text \in Files : DropFile(text)
    PROVE  EditorInv'
<1>1. page \in Pages /\ reading \in Files \cup {NoFile} /\ (page.saving => page.confirming)
  BY DEF EditorInv, EditorType, DialogStaysWhileSaving
<1>2. CASE RunEffects
  BY <1>1, <1>2, SettledStep DEF RunEffects, Live
<1>3. ASSUME NEW text \in Files, DropFile(text)
      PROVE  EditorInv'
  BY <1>1, <1>3, SettledStep, StillStep DEF DropFile, Live
<1>4. CASE Detect
  <2>1. /\ Live /\ ~due /\ due' = TRUE /\ page' = [page EXCEPT !.deferred = page.content]
        /\ UNCHANGED <<listener, route, reading, posts>>
    BY <1>4 DEF Detect, Deferred
  <2>2. page' \in Pages /\ page'.saving = page.saving /\ page'.confirming = page.confirming
    BY <1>1, <2>1 DEF Pages
  <2>3. QED
    BY <1>1, <2>1, <2>2, DeferredStep DEF Live
<1>5. CASE ConfigArrives
  <2>1. /\ Live /\ ~due /\ due' = TRUE /\ page' = [page EXCEPT !.config = Server]
        /\ UNCHANGED <<listener, route, reading, posts>>
    BY <1>5 DEF ConfigArrives, Deferred
  <2>2. page' \in Pages /\ page'.saving = page.saving /\ page'.confirming = page.confirming
    BY <1>1, <2>1 DEF Pages
  <2>3. QED
    BY <1>1, <2>1, <2>2, DeferredStep DEF Live
<1>6. CASE FileRead
  <2>1. /\ Live /\ ~due /\ due' = TRUE /\ page' = [page EXCEPT !.content = reading]
        /\ reading \in Files /\ reading' = NoFile
        /\ UNCHANGED <<listener, route, posts>>
    BY <1>1, <1>6 DEF FileRead, Deferred
  <2>2. page' \in Pages /\ page'.saving = page.saving /\ page'.confirming = page.confirming
    BY <1>1, <2>1 DEF Pages, Contents
  <2>3. QED
    BY <2>1, <2>2, DeferredStep DEF Live
<1>7. QED
  BY <1>2, <1>3, <1>4, <1>5, <1>6

LEMMA EditorInvIsInductive == EditorInv /\ [EditorNext]_editorVars => EditorInv'
<1> SUFFICES ASSUME EditorInv, [EditorNext]_editorVars
             PROVE  EditorInv'
  OBVIOUS
<1>1. CASE ClickSave
  BY <1>1, StepAskToSave DEF ClickSave
<1>2. CASE Confirm
  BY <1>2, StepSave DEF Confirm
<1>3. CASE Chord
  BY <1>3, StepChord
<1>4. CASE Cancel
  BY <1>4, StepCancel
<1>5. ASSUME NEW i \in DOMAIN posts, Saved(i) \/ Failed(i) \/ FailedElsewhere(i)
      PROVE  EditorInv'
  BY <1>5, StepSaved, StepFailed, StepFailedElsewhere
<1>6. CASE Leave
  BY <1>6, StepLeave
<1>7. CASE Return
  BY <1>7, StepReturn
<1>8. CASE UNCHANGED editorVars
  BY <1>8, StillStep DEF editorVars, EditorInv, EditorType
<1>9. QED
  BY <1>1, <1>2, <1>3, <1>4, <1>5, <1>6, <1>7, <1>8, StepInput, StepBackground DEF EditorNext

\* What the page believes of its dialog, its drop counter, its keys and its saves holds
\* together, however clicks, keys, drags and answers interleave (editor.tsx:29-185).
THEOREM EditorInvariant == EditorSpec => []EditorInv
  BY EditorInitHolds, EditorInvIsInductive, PTL DEF EditorSpec

\* A page publishes one paste at a time, whatever is held down, clicked, left or
\* refused in whatever order (editor.tsx:91-119).
THEOREM OneSaveAtATime == EditorSpec => []SavingMeansOnePost
<1>1. EditorInv => SavingMeansOnePost
  BY OnePostCounts DEF EditorInv
<1>2. QED
  BY <1>1, EditorInvariant, PTL

\* The dialog outlasts the save it started (editor.tsx:117-118, 251-260).
THEOREM DialogOutlastsSave == EditorSpec => []DialogStaysWhileSaving
<1>1. EditorInv => DialogStaysWhileSaving
  BY DEF EditorInv
<1>2. QED
  BY <1>1, EditorInvariant, PTL

\* The listener on the window sends what the page shows (editor.tsx:121-135).
THEOREM WhatIsShownIsSent == EditorSpec => []SentIsShown
<1>1. EditorInv => SentIsShown
  BY DEF EditorInv, SentIsFit, SentIsShown
<1>2. QED
  BY <1>1, EditorInvariant, PTL

\* Whatever was typed, dropped or picked before or after the server's limits arrived,
\* what the page sends at rest is a text the server counts as neither empty nor too
\* long and a lifetime it knows (editor.tsx:59-76, 91-119).
THEOREM NothingIsRefused == EditorSpec => []SentIsWithinLimits
<1>1. EditorInv => SentIsWithinLimits
  BY DEF EditorInv, SentIsFit, SentIsWithinLimits
<1>2. QED
  BY <1>1, EditorInvariant, PTL
=============================================================================
