----------------------------- MODULE Site_proofs -----------------------------
(***************************************************************************)
(* What outlives a page, and what is gone with it: the parts of the client *)
(* that App.tsx composes, for any hooks, endpoints, languages, choices and *)
(* intervals.  Each part has an inductive invariant of its own, and one    *)
(* lemma says that no step of the client disturbs it.                      *)
(***************************************************************************)
EXTENDS Site, TLAPS

-----------------------------------------------------------------------------
(* The shared config. *)

ConfigInv == ConfigTypeOK /\ FallbackIsTemporary

LEMMA RemountKeepsConfig ==
    ASSUME ConfigInv, NEW gone, NEW come, Remount(gone, come)
    PROVE  ConfigInv'
<1>1. come # {} => pending' \in {"requested", "fulfilled"}
  BY DEF ConfigInv, ConfigTypeOK, Promises, NoPromise, Remount
<1>2. pending' \in Promises /\ (pending \in {"requested", "fulfilled"} => pending' = pending)
  BY DEF ConfigInv, ConfigTypeOK, Promises, NoPromise, Remount
<1>3. ConfigTypeOK'
  BY <1>2 DEF ConfigInv, ConfigTypeOK, Limits, Remount
<1>4. FallbackIsTemporary'
  BY <1>1, <1>2 DEF ConfigInv, FallbackIsTemporary, Remount
<1>5. QED
  BY <1>3, <1>4 DEF ConfigInv

LEMMA ConfigKept == ConfigInv /\ [SiteNext]_siteVars => ConfigInv'
<1> SUFFICES ASSUME ConfigInv, [SiteNext]_siteVars
             PROVE  ConfigInv'
  OBVIOUS
<1>1. ASSUME NEW to \in Routes, Visit(to)
      PROVE  ConfigInv'
  BY <1>1, RemountKeepsConfig DEF Visit
<1>2. CASE ReloadSite
  BY <1>2 DEF ReloadSite, ConfigInv, ConfigTypeOK, FallbackIsTemporary, Promises, NoPromise,
     Limits
<1>3. CASE ConfigStep
  <2>1. CASE Fulfil
    BY <2>1 DEF Fulfil, ConfigInv, ConfigTypeOK, FallbackIsTemporary, Promises
  <2>2. CASE Reject
    BY <2>2 DEF Reject, ConfigInv, ConfigTypeOK, FallbackIsTemporary, Promises, NoPromise, Limits
  <2>3. ASSUME NEW h \in Hooks, Adopt(h)
        PROVE  ConfigInv'
    BY <2>3 DEF Adopt, ConfigInv, ConfigTypeOK, FallbackIsTemporary, Limits
  <2>4. QED
    BY <1>3, <2>1, <2>2, <2>3 DEF ConfigStep
<1>4. CASE RowStep
  <2>1. \/ \E gone, come : Remount(gone, come)
        \/ UNCHANGED configVars
    BY <1>4 DEF RowStep
  <2>2. QED
    BY <2>1, RemountKeepsConfig DEF ConfigInv, ConfigTypeOK, FallbackIsTemporary, configVars
<1>5. CASE ShowBadge \/ HideBadge
  BY <1>5, RemountKeepsConfig DEF ShowBadge, HideBadge
<1>6. CASE UNCHANGED configVars
  BY <1>6 DEF ConfigInv, ConfigTypeOK, FallbackIsTemporary, configVars
<1>7. EditorStep \/ ColourStep \/ BadgeStep \/ PreferenceStep \/ UNCHANGED siteVars
        => UNCHANGED configVars
  BY DEF EditorStep, ColourStep, BadgeStep, PreferenceStep, siteVars
<1>8. QED
  BY <1>1, <1>2, <1>3, <1>4, <1>5, <1>6, <1>7 DEF SiteNext

\* Nobody is left with the fallback limits by a request that others have seen fail:
\* as long as a component waits there is something to wait for
\* (use-server-config.ts:23-33).
THEOREM FallbackHasARequest == SiteSpec => []FallbackIsTemporary
<1>1. SiteInit => ConfigInv
  BY DEF SiteInit, ConfigInit, ConfigInv, ConfigTypeOK, FallbackIsTemporary, Promises,
     NoPromise, Limits
<1>2. ConfigInv => FallbackIsTemporary
  BY DEF ConfigInv
<1>3. QED
  BY <1>1, <1>2, ConfigKept, PTL DEF SiteSpec

-----------------------------------------------------------------------------
(* Theme and locale. *)

PreferenceInv ==
    /\ browser \in Choices
    /\ ambient = browser
    /\ chosen \in Choices \cup {Automatic}
    /\ AppliedIsWanted

LEMMA PreferenceKept == PreferenceInv /\ [SiteNext]_siteVars => PreferenceInv'
<1> SUFFICES ASSUME PreferenceInv, [SiteNext]_siteVars
             PROVE  PreferenceInv'
  OBVIOUS
<1> USE PreferenceAssumption DEF PreferenceInv, AppliedIsWanted
<1>1. ASSUME NEW value \in Choices, BrowserChanges(value)
      PROVE  PreferenceInv'
  BY <1>1 DEF BrowserChanges
<1>2. ASSUME NEW value \in Choices \cup {Automatic}, SetPreference(value)
      PROVE  PreferenceInv'
  BY <1>2 DEF SetPreference
<1>3. CASE Reload
  BY <1>3 DEF Reload, ReadStored
<1>4. CASE UNCHANGED preferenceVars
  BY <1>4 DEF preferenceVars
<1>5. \/ Reload
      \/ \E value \in Choices : BrowserChanges(value)
      \/ \E value \in Choices \cup {Automatic} : SetPreference(value)
      \/ UNCHANGED preferenceVars
  BY DEF SiteNext, Visit, ReloadSite, ConfigStep, EditorStep, ColourStep, RowStep, ShowBadge,
     HideBadge, BadgeStep, PreferenceStep, siteVars
<1>6. QED
  BY <1>1, <1>2, <1>3, <1>4, <1>5

\* The document always carries what the reader asked for, by name or through the
\* browser (theme-provider.tsx:23-55, i18n/index.tsx:87-126).
THEOREM PreferenceApplied == SiteSpec => []AppliedIsWanted
<1>1. SiteInit => PreferenceInv
  BY PreferenceAssumption
  DEF SiteInit, PreferenceInit, PreferenceInv, AppliedIsWanted, Resolved, ReadStored
<1>2. PreferenceInv => AppliedIsWanted
  BY DEF PreferenceInv
<1>3. QED
  BY <1>1, <1>2, PreferenceKept, PTL DEF SiteSpec

-----------------------------------------------------------------------------
(* The try-it panels. *)

DocsInv ==
    /\ panels \in [Watched -> Panels]
    /\ sent \in [Watched -> Nat]
    /\ \A e \in Watched : panels[e].sending => panels[e].open
    /\ TryItSingleFlight

LEMMA DocsKept == DocsInv /\ [SiteNext]_siteVars => DocsInv'
<1> SUFFICES ASSUME DocsInv, [SiteNext]_siteVars
             PROVE  DocsInv'
  OBVIOUS
<1> USE DEF DocsInv, TryItSingleFlight, Panels
<1>1. ASSUME NEW e \in Watched, NEW public \in BOOLEAN, OpenRow(e, public)
      PROVE  DocsInv'
  BY <1>1 DEF OpenRow, Fresh, Closed
<1>2. ASSUME NEW e \in Watched, CloseRow(e)
      PROVE  DocsInv'
  BY <1>2 DEF CloseRow, Closed
<1>3. ASSUME NEW e \in Watched, TypeCode(e)
      PROVE  DocsInv'
  BY <1>3 DEF TypeCode
<1>4. ASSUME NEW e \in Watched, Send(e)
      PROVE  DocsInv'
  <2>1. panels[e] \in Panels /\ panels[e].open /\ ~panels[e].sending /\ sent[e] = 0
    BY <1>4 DEF Send
  <2>2. panels' = [panels EXCEPT ![e] = [panels[e] EXCEPT !.sending = TRUE, !.result = "none"]]
    BY <1>4 DEF Send
  <2>3. sent' = [sent EXCEPT ![e] = 1]
    BY <1>4, <2>1 DEF Send
  <2>4. /\ [panels[e] EXCEPT !.sending = TRUE, !.result = "none"] \in Panels
        /\ [panels[e] EXCEPT !.sending = TRUE, !.result = "none"].sending
        /\ [panels[e] EXCEPT !.sending = TRUE, !.result = "none"].open
    BY <2>1
  <2>5. QED
    BY <2>2, <2>3, <2>4
<1>5. ASSUME NEW e \in Watched, Settle(e)
      PROVE  DocsInv'
  <2>1. panels[e] \in Panels /\ sent[e] = 1 /\ panels[e].sending
    BY <1>5 DEF Settle
  <2>2. PICK outcome \in {"response", "failure"} :
          panels' = [panels EXCEPT ![e] =
                       [panels[e] EXCEPT !.sending = FALSE, !.result = outcome]]
    BY <1>5 DEF Settle
  <2>3. sent' = [sent EXCEPT ![e] = 0]
    BY <1>5, <2>1 DEF Settle
  <2>4. /\ [panels[e] EXCEPT !.sending = FALSE, !.result = outcome] \in Panels
        /\ ~[panels[e] EXCEPT !.sending = FALSE, !.result = outcome].sending
    BY <2>1
  <2>5. QED
    BY <2>2, <2>3, <2>4
<1>6. CASE CloseDocs
  BY <1>6 DEF CloseDocs, Closed
<1>7. CASE UNCHANGED docsVars
  BY <1>7 DEF docsVars
<1>8. CASE RowStep
  BY <1>1, <1>2, <1>3, <1>4, <1>5, <1>8 DEF RowStep
<1>9. ~RowStep => CloseDocs \/ UNCHANGED docsVars
  BY DEF SiteNext, Visit, ReloadSite, ConfigStep, EditorStep, ColourStep, ShowBadge,
     HideBadge, BadgeStep, PreferenceStep, siteVars
<1>10. QED
  BY <1>6, <1>7, <1>8, <1>9

\* No two answers compete for one panel, however rows are closed, reopened and left
\* (docs.tsx:339-369).
THEOREM OneAnswerAPanel == SiteSpec => []TryItSingleFlight
<1>1. SiteInit => DocsInv
  BY DEF SiteInit, DocsInit, DocsInv, TryItSingleFlight, Panels, Closed
<1>2. DocsInv => TryItSingleFlight
  BY DEF DocsInv
<1>3. QED
  BY <1>1, <1>2, DocsKept, PTL DEF SiteSpec

-----------------------------------------------------------------------------
(* The editor's coloured layer. *)

LayerInv ==
    /\ language \in Languages \cup {NoEditor}
    /\ awaited \in {NoEditor, language}
    /\ language # NoEditor /\ ~large =>
          ready = language \/ awaited = language \/ engine = "rejected"

LEMMA ShowKeepsLayer ==
    ASSUME LayerInv, NEW lang \in Languages, NEW big \in BOOLEAN, Show(lang, big)
    PROVE  LayerInv'
  BY LayerAssumption DEF LayerInv, Show

LEMMA LayerKept == LayerInv /\ [SiteNext]_siteVars => LayerInv'
<1> SUFFICES ASSUME LayerInv, [SiteNext]_siteVars
             PROVE  LayerInv'
  OBVIOUS
<1>1. ASSUME NEW lang \in Languages, NEW big \in BOOLEAN, Show(lang, big)
      PROVE  LayerInv'
  BY <1>1, ShowKeepsLayer
<1>2. CASE language' = NoEditor /\ awaited' = NoEditor
  BY <1>2 DEF LayerInv
<1>3. CASE Answered
  <2>1. awaited = language /\ language # NoEditor
    BY <1>3 DEF Answered, LayerInv
  <2>2. UNCHANGED <<language, large>> /\ awaited' = NoEditor
    BY <1>3 DEF Answered
  <2>3. ready' = language \/ engine' = "rejected"
    BY <1>3, <2>1 DEF Answered, highlighterVars
  <2>4. QED
    BY <2>2, <2>3 DEF LayerInv
<1>4. CASE /\ UNCHANGED layerVars
           /\ engine = "rejected" => engine' = "rejected"
  BY <1>4 DEF LayerInv, layerVars
<1>5. ASSUME NEW lang, AnsweredLate(lang)
      PROVE  LayerInv'
  BY <1>5 DEF AnsweredLate, EnsureGrammar, highlighterVars, LayerInv
<1>6. EngineSettles => engine = "creating"
  BY DEF EngineSettles
<1>7. ASSUME NEW to \in Routes, Visit(to)
      PROVE  LayerInv'
  <2>1. CASE to = "/"
    <3>1. Show(PLAIN, FALSE)
      BY <1>7, <2>1 DEF Visit, Relayer, OpenLayer
    <3>2. QED
      BY <1>1, <3>1, LayerAssumption
  <2>2. CASE to # "/"
    BY <1>2, <1>7, <2>2 DEF Visit, Relayer, CloseLayer
  <2>3. QED
    BY <2>1, <2>2
<1>8. CASE ReloadSite
  BY <1>2, <1>8 DEF ReloadSite
<1>9. CASE EditorStep
  BY <1>1, <1>9 DEF EditorStep, ChangeLayer
<1>10. CASE ColourStep
  BY <1>3, <1>4, <1>5, <1>6, <1>10 DEF ColourStep
<1>11. ConfigStep \/ RowStep \/ ShowBadge \/ HideBadge \/ BadgeStep \/ PreferenceStep
      \/ UNCHANGED siteVars
         => UNCHANGED <<layerVars, highlighterVars>>
  BY DEF ConfigStep, RowStep, ShowBadge, HideBadge, BadgeStep, PreferenceStep, siteVars
<1>12. UNCHANGED <<layerVars, highlighterVars>> => LayerInv'
  BY <1>4 DEF highlighterVars
<1>13. QED
  BY <1>7, <1>8, <1>9, <1>10, <1>11, <1>12 DEF SiteNext

\* However grammars arrive and languages change, a text small enough is coloured for
\* its language, or will be, unless there is no engine (code-editor.tsx:60-76).
THEOREM ColourIsComing == SiteSpec => []ColouredOrAwaited
<1>1. SiteInit => LayerInv
  BY DEF SiteInit, LayerInit, LayerInv
<1>2. LayerInv => ColouredOrAwaited
  <2>1. NoEditor \notin Languages /\ PLAIN \in Languages
    BY LayerAssumption
  <2>2. QED
    BY <2>1 DEF LayerInv, ColouredOrAwaited, LayerColour, ColouredAs
<1>3. QED
  BY <1>1, <1>2, LayerKept, PTL DEF SiteSpec

-----------------------------------------------------------------------------
(* The countdown. *)

BadgeInv ==
    /\ deadline \in Nat \cup {NoBadge}
    /\ deadline # NoBadge =>
          /\ clock \in Nat /\ now \in Nat /\ now <= clock
          /\ period = Period(deadline, now)
          /\ nextTick = now + period * Second
          /\ clock <= nextTick

LEMMA PeriodIsPositive ==
    ASSUME NEW at \in Nat, NEW t \in Nat
    PROVE  Period(at, t) \in Nat \ {0} /\ Period(at, t) * Second \in Nat \ {0}
<1>1. Period(at, t) \in Nat \ {0} /\ Second \in Nat \ {0}
  BY BadgeAssumption DEF Period
<1>2. \A x, y \in Nat \ {0} : x * y \in Nat \ {0}
  OBVIOUS
<1>3. QED
  BY <1>1, <1>2

LEMMA BadgeKept == BadgeInv /\ [SiteNext]_siteVars => BadgeInv'
<1> SUFFICES ASSUME BadgeInv, [SiteNext]_siteVars
             PROVE  BadgeInv'
  OBVIOUS
<1>1. CASE CloseBadge
  BY <1>1 DEF CloseBadge, BadgeInv
<1>2. ASSUME NEW left \in Lifetimes, OpenBadge(left)
      PROVE  BadgeInv'
  <2>1. left \in Nat
    BY SiteAssumption
  <2>2. Period(left, 0) * Second \in Nat
    BY <2>1, PeriodIsPositive
  <2>3. QED
    BY <1>2, <2>1, <2>2 DEF OpenBadge, BadgeInv
<1>3. CASE TickBadge
  <2>1. /\ deadline \in Nat /\ clock \in Nat /\ deadline' = deadline /\ clock' = clock
        /\ now' = clock /\ period' = Period(deadline, clock)
        /\ nextTick' = clock + Period(deadline, clock) * Second
    BY <1>3 DEF TickBadge, BadgeInv
  <2>2. Period(deadline, clock) * Second \in Nat
    BY <2>1, PeriodIsPositive
  <2>3. QED
    BY <2>1, <2>2 DEF BadgeInv
<1>4. CASE TimePasses
  <2>1. /\ deadline \in Nat /\ clock \in Nat /\ now \in Nat /\ now <= clock
        /\ period = Period(deadline, now) /\ nextTick = now + period * Second
        /\ clock < nextTick /\ clock' = clock + 1
        /\ UNCHANGED <<deadline, now, period, nextTick>>
    BY <1>4 DEF TimePasses, BadgeInv
  <2>2. period * Second \in Nat
    BY <2>1, PeriodIsPositive
  <2>3. nextTick \in Nat /\ clock + 1 <= nextTick
    BY <2>1, <2>2
  <2>4. QED
    BY <2>1, <2>3 DEF BadgeInv
<1>5. CASE UNCHANGED badgeVars
  BY <1>5 DEF badgeVars, BadgeInv
<1>6. \/ CloseBadge \/ TickBadge \/ TimePasses \/ UNCHANGED badgeVars
      \/ \E left \in Lifetimes : OpenBadge(left)
  BY DEF SiteNext, Visit, ReloadSite, ConfigStep, EditorStep, ColourStep, RowStep, ShowBadge,
     HideBadge, BadgeStep, PreferenceStep, siteVars
<1>7. QED
  BY <1>1, <1>2, <1>3, <1>4, <1>5, <1>6

\* What the badge spells is never more than what was left when it last looked.
LEMMA CountdownIsModest ==
    ASSUME NEW at \in Nat, NEW t \in Nat, t < at
    PROVE  Countdown(at, t) * Second <= at - t
<1> DEFINE total == SecondsLeft(at, t)
<1>1. Second \in Nat \ {0} /\ at - t \in Nat
  BY BadgeAssumption
<1>2. total \in Nat /\ total * Second <= at - t
  <2>1. \A x \in Nat, d \in Nat \ {0} : x \div d \in Nat /\ (x \div d) * d <= x
    OBVIOUS
  <2>2. total = (at - t) \div Second
    BY DEF SecondsLeft
  <2>3. QED
    BY <1>1, <2>1, <2>2
<1>3. Grain(total) \in Nat \ {0}
  BY BadgeAssumption DEF Grain
<1>4. total % Grain(total) \in Nat /\ total % Grain(total) <= total
  <2>1. \A x \in Nat, d \in Nat \ {0} : x % d \in Nat /\ x % d <= x
    OBVIOUS
  <2>2. QED
    BY <1>2, <1>3, <2>1
<1>5. Countdown(at, t) = total - (total % Grain(total))
  BY DEF Countdown
<1>6. Countdown(at, t) \in Nat /\ Countdown(at, t) <= total
  BY <1>2, <1>4, <1>5
<1>7. \A a, b, c \in Nat : a <= b => a * c <= b * c
  OBVIOUS
<1>8. Countdown(at, t) * Second <= total * Second
  BY <1>1, <1>2, <1>6, <1>7
<1>9. Countdown(at, t) * Second \in Nat /\ total * Second \in Nat
  BY <1>1, <1>2, <1>6
<1>10. QED
  BY <1>1, <1>2, <1>8, <1>9

\* The badge promises at most what is left plus one interval and notices the deadline
\* within a second, whatever the two rates and the units (paste.tsx:449-467).
THEOREM CountdownKeepsUp == SiteSpec => []BadgeKeepsUp
<1>1. SiteInit => BadgeInv
  BY DEF SiteInit, BadgeInit, BadgeInv
<1>2. BadgeInv => BadgeKeepsUp
  <2>1. SUFFICES ASSUME BadgeInv, deadline # NoBadge
                 PROVE  /\ \/ Countdown(deadline, now) = Expired
                           \/ Countdown(deadline, now) * Second
                                <= deadline - clock + period * Second
                        /\ clock > deadline + Second => Countdown(deadline, now) = Expired
    BY DEF BadgeKeepsUp
  <2>2. /\ deadline \in Nat /\ clock \in Nat /\ now \in Nat
        /\ period = Period(deadline, now) /\ clock <= now + period * Second
    BY <2>1 DEF BadgeInv
  <2>3. Second \in Nat \ {0} /\ period * Second \in Nat
    BY <2>2, PeriodIsPositive, BadgeAssumption
  <2>4. CASE deadline <= now
    BY <2>2, <2>4 DEF Countdown
  <2>5. CASE now < deadline
    <3>1. Countdown(deadline, now) * Second <= deadline - now
      BY <2>2, <2>5, CountdownIsModest
    <3>2. Countdown(deadline, now) \in Int
      BY <2>2, <2>3, <2>5, BadgeAssumption DEF Countdown, SecondsLeft, Grain
    <3>3. Countdown(deadline, now) * Second <= deadline - clock + period * Second
      BY <2>2, <2>3, <3>1, <3>2
    <3>4. clock <= deadline + Second
      <4>1. CASE deadline - now < Hour * Second
        BY <2>2, <2>3, <2>5, <4>1 DEF Period
      <4>2. CASE ~(deadline - now < Hour * Second)
        <5>1. period = Coarse
          BY <2>2, <4>2 DEF Period
        <5>2. Coarse \in Nat /\ Hour \in Nat /\ Coarse < Hour
          BY BadgeAssumption
        <5>3. \A a, b, c \in Nat : a < b => a * c <= b * c
          OBVIOUS
        <5>4. Coarse * Second <= Hour * Second /\ Coarse * Second \in Nat
              /\ Hour * Second \in Nat
          BY <2>3, <5>2, <5>3
        <5>5. QED
          BY <2>2, <2>3, <4>2, <5>1, <5>4
      <4>3. QED
        BY <4>1, <4>2
    <3>5. QED
      BY <2>2, <2>3, <3>3, <3>4
  <2>6. QED
    BY <2>2, <2>4, <2>5
<1>3. QED
  BY <1>1, <1>2, BadgeKept, PTL DEF SiteSpec

-----------------------------------------------------------------------------
(* What belongs to a page is gone with it. *)

HighlighterKeeps == HighlighterTypeOK /\ [SiteNext]_siteVars

LEMMA HighlighterKept == HighlighterKeeps => HighlighterTypeOK'
<1> SUFFICES ASSUME HighlighterKeeps
             PROVE  HighlighterTypeOK'
  OBVIOUS
<1> USE DEF HighlighterKeeps, HighlighterTypeOK, Engines
<1>1. ASSUME NEW lang, NEW big, Show(lang, big)
      PROVE  HighlighterTypeOK'
  BY <1>1 DEF Show, AskForEngine
<1>2. ASSUME NEW lang, EnsureGrammar(lang)
      PROVE  HighlighterTypeOK'
  BY <1>2 DEF EnsureGrammar
<1>3. CASE UNCHANGED highlighterVars
  BY <1>3 DEF highlighterVars
<1>4. CASE ReloadSite
  BY <1>4 DEF ReloadSite
<1>5. CASE EngineSettles
  BY <1>5 DEF EngineSettles
<1>6. ASSUME NEW to \in Routes, Visit(to)
      PROVE  HighlighterTypeOK'
  BY <1>1, <1>3, <1>6 DEF Visit, Relayer, OpenLayer, CloseLayer
<1>7. CASE EditorStep
  BY <1>1, <1>7 DEF EditorStep, ChangeLayer
<1>8. CASE ColourStep
  BY <1>2, <1>3, <1>5, <1>8 DEF ColourStep, Answered, AnsweredLate
<1>9. ConfigStep \/ RowStep \/ ShowBadge \/ HideBadge \/ BadgeStep \/ PreferenceStep
      \/ UNCHANGED siteVars
        => UNCHANGED highlighterVars
  BY DEF ConfigStep, RowStep, ShowBadge, HideBadge, BadgeStep, PreferenceStep, siteVars
<1>10. QED
  BY <1>3, <1>4, <1>6, <1>7, <1>8, <1>9 DEF HighlighterKeeps, SiteNext

Up(h) == limits[h] # "unmounted"

Mounted ==
    /\ route \in Routes \cup {"start"}
    /\ language # NoEditor <=> route = "/"
    /\ Up("editor") <=> route = "/"
    /\ Up("docs") <=> route = "/docs"
    /\ Up("badge") <=> deadline # NoBadge
    /\ \A e \in Watched : HasFields(e) => (Up(e.path) <=> panels[e].open)

SiteInv == ConfigInv /\ DocsInv /\ LayerInv /\ BadgeInv /\ HighlighterTypeOK /\ Mounted

\* No row shares its hook with a page, the badge or another row.
LEMMA HooksAreApart ==
    /\ Once \subseteq Hooks
    /\ \A e \in Watched : HasFields(e) => e.path \in Hooks /\ e.path \notin Once
    /\ \A e, f \in Watched : HasFields(e) /\ HasFields(f) /\ e.path = f.path => e = f
<1>1. Hooks = Once \cup UNION {FieldsHook(e) : e \in Watched}
  BY SiteAssumption DEF AllHooks
<1>2. \A e \in Watched : HasFields(e) => e.path \in FieldsHook(e)
  BY DEF FieldsHook
<1>3. \A e \in Watched : e \in ENDPOINTS \/ e = STATS
  BY DocsAssumption
<1>4. ASSUME NEW e \in Watched, HasFields(e)
      PROVE  \/ e = Endpoint("POST", "/api/pastes", FALSE, TRUE)
             \/ e = Endpoint("GET", "/api/pastes/{code}", TRUE, FALSE)
             \/ e = Endpoint("GET", "/raw/{code}", TRUE, FALSE)
             \/ e = Endpoint("GET", "/download/{code}", TRUE, FALSE)
             \/ e = Endpoint("GET", "/documents/{code}", TRUE, FALSE)
  <2>1. ~HasFields(STATS) /\ \A m, p : ~HasFields(Endpoint(m, p, FALSE, FALSE))
    BY DEF STATS, HasFields, Endpoint
  <2>2. QED
    BY <1>3, <1>4, <2>1, Zenon DEF ENDPOINTS
<1>5. ASSUME NEW e \in Watched, HasFields(e)
      PROVE  /\ e.path = "/api/pastes" => e = Endpoint("POST", "/api/pastes", FALSE, TRUE)
             /\ e.path # "/api/pastes" => e = Endpoint("GET", e.path, TRUE, FALSE)
             /\ e.path \notin Once
  <2>1. CASE e = Endpoint("POST", "/api/pastes", FALSE, TRUE)
    BY <2>1 DEF Endpoint, Once
  <2>2. CASE e = Endpoint("GET", "/api/pastes/{code}", TRUE, FALSE)
    BY <2>2 DEF Endpoint, Once
  <2>3. CASE e = Endpoint("GET", "/raw/{code}", TRUE, FALSE)
    BY <2>3 DEF Endpoint, Once
  <2>4. CASE e = Endpoint("GET", "/download/{code}", TRUE, FALSE)
    BY <2>4 DEF Endpoint, Once
  <2>5. CASE e = Endpoint("GET", "/documents/{code}", TRUE, FALSE)
    BY <2>5 DEF Endpoint, Once
  <2>6. QED
    BY <1>4, <1>5, <2>1, <2>2, <2>3, <2>4, <2>5
<1>6. ASSUME NEW e \in Watched, NEW f \in Watched, HasFields(e), HasFields(f), e.path = f.path
      PROVE  e = f
  BY <1>5, <1>6
<1>7. QED
  BY <1>1, <1>2, <1>5, <1>6

\* After a commit, what came is up, what went is down and the rest is as it was.
LEMMA RemountMoves ==
    ASSUME ConfigTypeOK, NEW gone, NEW come, Remount(gone, come), NEW h \in Hooks
    PROVE  Up(h)' <=> h \in come \/ (h \notin gone /\ Up(h))
  BY DEF Remount, Up, ConfigTypeOK

LEMMA MountedKept == SiteInv /\ [SiteNext]_siteVars => Mounted'
<1> SUFFICES ASSUME SiteInv, [SiteNext]_siteVars
             PROVE  Mounted'
  OBVIOUS
<1>1. /\ ConfigTypeOK /\ Mounted
      /\ panels \in [Watched -> Panels]
      /\ PLAIN \in Languages /\ NoEditor \notin Languages
  BY LayerAssumption DEF SiteInv, ConfigInv, DocsInv
<1>2. {"editor", "docs", "badge"} \subseteq Hooks
  BY HooksAreApart DEF Once
<1>3. ASSUME NEW to \in Routes, Visit(to)
      PROVE  Mounted'
  <2>1. \A h \in Hooks : Up(h)' <=> h \in PageHook(to)
    BY <1>1, <1>3, RemountMoves DEF Visit
  <2>2. route' = to /\ deadline' = NoBadge /\ \A e \in Watched : panels'[e].open = FALSE
    BY <1>3 DEF Visit, CloseBadge, CloseDocs, Closed
  <2>3. language' # NoEditor <=> to = "/"
    BY <1>1, <1>3 DEF Visit, Relayer, OpenLayer, Show, CloseLayer
  <2>4. \A e \in Watched : HasFields(e) => ~Up(e.path)'
    BY <2>1, HooksAreApart DEF PageHook, Once
  <2>5. /\ Up("editor")' <=> to = "/"
        /\ Up("docs")' <=> to = "/docs"
        /\ ~Up("badge")'
    BY <1>2, <2>1 DEF PageHook, Routes
  <2>6. QED
    BY <2>2, <2>3, <2>4, <2>5 DEF Mounted
<1>4. CASE ReloadSite
  <2>1. \A h \in Hooks : ~Up(h)'
    BY <1>4 DEF ReloadSite, Up
  <2>2. /\ route' = "start" /\ deadline' = NoBadge /\ language' = NoEditor
        /\ \A e \in Watched : panels'[e].open = FALSE
    BY <1>4 DEF ReloadSite, CloseBadge, CloseDocs, Closed
  <2>3. QED
    BY <1>2, <2>1, <2>2, HooksAreApart DEF Mounted
<1>5. ASSUME \A h \in Hooks : Up(h)' <=> Up(h), UNCHANGED route,
             language' = NoEditor <=> language = NoEditor,
             deadline' = NoBadge <=> deadline = NoBadge,
             \A e \in Watched : panels'[e].open = panels[e].open
      PROVE  Mounted'
  BY <1>1, <1>2, <1>5, HooksAreApart DEF Mounted
<1>6. UNCHANGED configVars => \A h \in Hooks : Up(h)' <=> Up(h)
  BY DEF configVars, Up
<1>7. UNCHANGED docsVars => \A e \in Watched : panels'[e].open = panels[e].open
  BY DEF docsVars
<1>8. CASE ConfigStep
  <2>1. \A h \in Hooks : Up(h)' <=> Up(h)
    BY <1>1, <1>8 DEF ConfigStep, Fulfil, Reject, Adopt, Up, ConfigTypeOK
  <2>2. QED
    BY <1>5, <1>7, <1>8, <2>1 DEF ConfigStep, layerVars, badgeVars
<1>9. CASE EditorStep
  <2>1. language # NoEditor /\ language' # NoEditor
    BY <1>1, <1>9 DEF EditorStep, ChangeLayer, Show
  <2>2. QED
    BY <1>5, <1>6, <1>7, <1>9, <2>1 DEF EditorStep, badgeVars
<1>10. CASE ColourStep
  BY <1>5, <1>6, <1>7, <1>10
  DEF ColourStep, Answered, AnsweredLate, layerVars, badgeVars
<1>11. CASE BadgeStep
  BY <1>5, <1>6, <1>7, <1>11 DEF BadgeStep, TickBadge, TimePasses, layerVars
<1>12. CASE PreferenceStep \/ UNCHANGED siteVars
  BY <1>5, <1>6, <1>7, <1>12 DEF PreferenceStep, siteVars, layerVars, badgeVars
<1>13. CASE ShowBadge
  <2>1. \A h \in Hooks : Up(h)' <=> h = "badge" \/ Up(h)
    BY <1>1, <1>13, RemountMoves DEF ShowBadge
  <2>2. deadline' # NoBadge
    BY <1>13, SiteAssumption DEF ShowBadge, OpenBadge, NoBadge
  <2>3. UNCHANGED <<route, language, panels>>
    BY <1>13 DEF ShowBadge, layerVars, docsVars
  <2>4. QED
    BY <1>1, <1>2, <2>1, <2>2, <2>3, HooksAreApart DEF Mounted, Once
<1>14. CASE HideBadge
  <2>1. \A h \in Hooks : Up(h)' <=> h # "badge" /\ Up(h)
    BY <1>1, <1>14, RemountMoves DEF HideBadge
  <2>2. deadline' = NoBadge
    BY <1>14 DEF HideBadge, CloseBadge
  <2>3. UNCHANGED <<route, language, panels>>
    BY <1>14 DEF HideBadge, layerVars, docsVars
  <2>4. QED
    BY <1>1, <1>2, <2>1, <2>2, <2>3, HooksAreApart DEF Mounted, Once
<1>15. CASE RowStep
  <2>1. UNCHANGED <<route, language, deadline>>
    BY <1>15 DEF RowStep, layerVars, badgeVars
  <2>2. PICK e \in Watched :
          \/ OpenRow(e, StatsPublic /\ limits["docs"] = "server") /\ Remount({}, FieldsHook(e))
          \/ CloseRow(e) /\ Remount(FieldsHook(e), {})
          \/ (TypeCode(e) \/ Send(e) \/ Settle(e)) /\ UNCHANGED configVars
    BY <1>15 DEF RowStep
  <2>3. ASSUME NEW up \in BOOLEAN,
               \A f \in Watched : panels'[f].open = IF f = e THEN up ELSE panels[f].open,
               \A h \in Hooks : Up(h)' <=> IF h \in FieldsHook(e) THEN up ELSE Up(h)
        PROVE  Mounted'
    <3>1. \/ FieldsHook(e) = {e.path} /\ HasFields(e)
          \/ FieldsHook(e) = {} /\ ~HasFields(e)
      BY DEF FieldsHook
    <3>2. \A h \in Once : Up(h)' <=> Up(h)
      BY <2>3, <3>1, HooksAreApart
    <3>3. \A f \in Watched : HasFields(f) => (Up(f.path)' <=> panels'[f].open)
      BY <1>1, <2>3, <3>1, HooksAreApart DEF Mounted
    <3>4. QED
      BY <1>1, <2>1, <3>2, <3>3 DEF Mounted, Once
  <2>4. CASE OpenRow(e, StatsPublic /\ limits["docs"] = "server") /\ Remount({}, FieldsHook(e))
    <3>1. \A f \in Watched : panels'[f].open = IF f = e THEN TRUE ELSE panels[f].open
      BY <1>1, <2>4 DEF OpenRow, Fresh, Closed
    <3>2. \A h \in Hooks : Up(h)' <=> IF h \in FieldsHook(e) THEN TRUE ELSE Up(h)
      BY <1>1, <2>4, RemountMoves
    <3>3. QED
      BY <2>3, <3>1, <3>2
  <2>5. CASE CloseRow(e) /\ Remount(FieldsHook(e), {})
    <3>1. \A f \in Watched : panels'[f].open = IF f = e THEN FALSE ELSE panels[f].open
      BY <1>1, <2>5 DEF CloseRow, Closed
    <3>2. \A h \in Hooks : Up(h)' <=> IF h \in FieldsHook(e) THEN FALSE ELSE Up(h)
      BY <1>1, <2>5, RemountMoves
    <3>3. QED
      BY <2>3, <3>1, <3>2
  <2>6. CASE (TypeCode(e) \/ Send(e) \/ Settle(e)) /\ UNCHANGED configVars
    <3>1. \A f \in Watched : panels'[f].open = panels[f].open
      BY <1>1, <2>6 DEF TypeCode, Send, Settle, Panels
    <3>2. QED
      BY <1>5, <1>6, <2>1, <2>6, <3>1
  <2>7. QED
    BY <2>2, <2>4, <2>5, <2>6
<1>16. QED
  BY <1>3, <1>4, <1>8, <1>9, <1>10, <1>11, <1>12, <1>13, <1>14, <1>15 DEF SiteNext

\* Whatever pages, rows and badges the reader opens and closes, and whatever answers
\* come in between, a component has its copy of the limits, its panel, its layer and
\* its clock exactly while it is on the screen (App.tsx, use-server-config.ts:20-41,
\* docs.tsx:177-216).
THEOREM GoneWithThePage == SiteSpec => []SiteTypeOK
<1>1. SiteInit => SiteInv
  <2>1. SiteInit => ConfigInv
    BY DEF SiteInit, ConfigInit, ConfigInv, ConfigTypeOK, FallbackIsTemporary, Promises,
       NoPromise, Limits
  <2>2. SiteInit => DocsInv
    BY DEF SiteInit, DocsInit, DocsInv, TryItSingleFlight, Panels, Closed
  <2>3. SiteInit => LayerInv /\ BadgeInv /\ HighlighterTypeOK
    BY DEF SiteInit, LayerInit, LayerInv, BadgeInit, BadgeInv, HighlighterInit,
       HighlighterTypeOK, Engines
  <2>4. SiteInit => Mounted
    <3>1. {"editor", "docs", "badge"} \subseteq Hooks
      BY HooksAreApart DEF Once
    <3>2. SiteInit => \A h \in Hooks : ~Up(h)
      BY DEF SiteInit, ConfigInit, Up
    <3>3. SiteInit => \A e \in Watched : panels[e].open = FALSE
      BY DEF SiteInit, DocsInit, Closed
    <3>4. QED
      BY <3>1, <3>2, <3>3, HooksAreApart DEF SiteInit, Mounted, LayerInit, BadgeInit
  <2>5. QED
    BY <2>1, <2>2, <2>3, <2>4 DEF SiteInv
<1>2. SiteInv /\ [SiteNext]_siteVars => SiteInv'
  BY ConfigKept, DocsKept, LayerKept, BadgeKept, HighlighterKept, MountedKept
  DEF SiteInv, HighlighterKeeps
<1>3. SiteInv => SiteTypeOK
  <2>1. DocsInv => DocsTypeOK
    BY DEF DocsInv, DocsTypeOK, TryItSingleFlight
  <2>2. Mounted => \A e \in Watched : \A h \in FieldsHook(e) : limits[h] # "unmounted" <=> panels[e].open
    BY DEF Mounted, FieldsHook, Up
  <2>3. QED
    BY <2>1, <2>2 DEF SiteInv, ConfigInv, SiteTypeOK, Mounted, Up
<1>4. QED
  BY <1>1, <1>2, <1>3, PTL DEF SiteSpec
=============================================================================
