-------------------------------- MODULE Site --------------------------------
(***************************************************************************)
(* web: the client as App.tsx composes it.  One page is mounted at a time; *)
(* what outlives a page is module state (the config promise, the           *)
(* highlighter's engine and grammars) and the providers above the router.  *)
(* The pages themselves are seen here only as far as they use those: the   *)
(* editor and the paste page have modules of their own.                    *)
(***************************************************************************)
EXTENDS SharedConfig, CodeEditor, ExpiryBadge, Docs, Preference

CONSTANTS
    Lifetimes,        \* bound: how much longer the pastes shown may live, in parts
    StatsPublic       \* what the server answers for statsPublic

VARIABLE route        \* the route whose element is mounted

siteVars == <<configVars, highlighterVars, layerVars, badgeVars, docsVars,
              preferenceVars, route>>

Routes == {"/", "/docs", "/:code", "*"}

\* The components that call useServerConfig: three that are there once, and the
\* Fields of every open row.
Once == {"editor", "docs", "badge"}
FieldsHook(e) == IF HasFields(e) THEN {e.path} ELSE {}
AllHooks == Once \cup UNION {FieldsHook(e) : e \in Watched}

ASSUME SiteAssumption == Hooks = AllHooks /\ Lifetimes \subseteq Nat

\* The hook a page calls as soon as it is mounted.
PageHook(r) ==
    CASE r = "/" -> {"editor"} [] r = "/docs" -> {"docs"} [] OTHER -> {}

SiteInit ==
    /\ ConfigInit /\ HighlighterInit /\ BadgeInit /\ DocsInit /\ PreferenceInit
    /\ LayerInit
    /\ route = "start"

\* The layer of an editor that has just been mounted, or its removal.  An empty editor
\* is plain text.
Relayer(to) ==
    IF to = "/" THEN OpenLayer(PLAIN, FALSE) ELSE CloseLayer

\* The router commits another page, whether by a link in the header, a key, the back
\* button or the first render: everything of the old page is unmounted.
Visit(to) ==
    /\ route # to /\ route' = to
    /\ Remount(Hooks, PageHook(to))
    /\ Relayer(to)
    /\ CloseBadge /\ CloseDocs
    /\ UNCHANGED preferenceVars

\* A reload of the tab: module state and the pages start over, storage remains.
ReloadSite ==
    /\ route \in Routes /\ route' = "start"
    /\ pending' = NoPromise /\ limits' = [h \in Hooks |-> "unmounted"]
    /\ engine' = "null" /\ loaded' = {}
    /\ language' = NoEditor /\ large' = FALSE /\ ready' = NoEditor
    /\ awaited' = NoEditor /\ abandoned' = {}
    /\ CloseBadge /\ CloseDocs
    /\ Reload

-----------------------------------------------------------------------------
ConfigStep ==
    /\ Fulfil \/ Reject \/ \E h \in Hooks : Adopt(h)
    /\ UNCHANGED <<highlighterVars, layerVars, badgeVars, docsVars, preferenceVars, route>>

EditorStep ==
    /\ route = "/"
    /\ \E lang \in Languages, big \in BOOLEAN : ChangeLayer(lang, big)
    /\ UNCHANGED <<configVars, badgeVars, docsVars, preferenceVars, route>>

ColourStep ==
    /\ \/ Answered
       \/ \E lang \in Languages : AnsweredLate(lang)
       \/ EngineSettles /\ UNCHANGED layerVars
    /\ UNCHANGED <<configVars, badgeVars, docsVars, preferenceVars, route>>

\* The row's Fields is mounted and unmounted with it.
RowStep ==
    /\ route = "/docs"
    /\ \E e \in Watched :
          \/ /\ OpenRow(e, StatsPublic /\ limits["docs"] = "server")
             /\ Remount({}, FieldsHook(e))
          \/ CloseRow(e) /\ Remount(FieldsHook(e), {})
          \/ (TypeCode(e) \/ Send(e) \/ Settle(e)) /\ UNCHANGED configVars
    /\ UNCHANGED <<highlighterVars, layerVars, badgeVars, preferenceVars, route>>

\* The paste has arrived and has a lifetime: its badge appears.
ShowBadge ==
    /\ route = "/:code"
    /\ \E left \in Lifetimes : OpenBadge(left)
    /\ Remount({}, {"badge"})
    /\ UNCHANGED <<highlighterVars, layerVars, docsVars, preferenceVars, route>>

\* Another paste is asked for under the same route, and the page goes back to loading.
HideBadge ==
    /\ deadline # NoBadge
    /\ CloseBadge
    /\ Remount({"badge"}, {})
    /\ UNCHANGED <<highlighterVars, layerVars, docsVars, preferenceVars, route>>

BadgeStep ==
    /\ TickBadge \/ TimePasses
    /\ UNCHANGED <<configVars, highlighterVars, layerVars, docsVars, preferenceVars, route>>

PreferenceStep ==
    /\ \/ \E value \in Choices : BrowserChanges(value)
       \/ \E value \in Choices \cup {Automatic} : SetPreference(value)
    /\ UNCHANGED <<configVars, highlighterVars, layerVars, badgeVars, docsVars, route>>

SiteNext ==
    \/ \E to \in Routes : Visit(to)
    \/ ReloadSite
    \/ ConfigStep
    \/ EditorStep
    \/ ColourStep
    \/ RowStep
    \/ ShowBadge
    \/ HideBadge
    \/ BadgeStep
    \/ PreferenceStep

SiteSpec == SiteInit /\ [][SiteNext]_siteVars

\* Imports and requests settle and their callbacks run, as the browser promises; the
\* reader owes nothing.
SiteFairSpec == SiteSpec /\ WF_siteVars(ColourStep)

-----------------------------------------------------------------------------
\* Every part of the client stays well formed, and what belongs to a page is gone with it.
SiteTypeOK ==
    /\ ConfigTypeOK /\ HighlighterTypeOK /\ DocsTypeOK
    /\ route \in Routes \cup {"start"}
    /\ language # NoEditor <=> route = "/"
    /\ limits["editor"] # "unmounted" <=> route = "/"
    /\ limits["docs"] # "unmounted" <=> route = "/docs"
    /\ limits["badge"] # "unmounted" <=> deadline # NoBadge
    /\ \A e \in Watched : \A h \in FieldsHook(e) : limits[h] # "unmounted" <=> panels[e].open
=============================================================================
