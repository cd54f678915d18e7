----------------------------- MODULE Preference -----------------------------
(***************************************************************************)
(* web: a choice kept in localStorage with an automatic value that follows *)
(* the browser: the theme (ThemeProvider) and, in the same shape, the      *)
(* locale (I18nProvider).                                                  *)
(***************************************************************************)
CONSTANTS
    Choices,          \* what can be chosen by name: themes, or locales
    Automatic,        \* "system", or "auto"
    Storable          \* FALSE in a private window: localStorage throws

ASSUME PreferenceAssumption == Automatic \notin Choices

VARIABLES
    chosen,           \* theme / preference
    ambient,          \* systemPreference / detected, as the provider last heard
    browser,          \* what the browser would say now
    stored,           \* localStorage, or Nothing / Unknown
    applied           \* what the document element carries

preferenceVars == <<chosen, ambient, browser, stored, applied>>

Nothing == "nothing"
Unknown == "unknown"  \* a value this version of the page does not know

\* resolvedTheme / locale
Resolved == IF chosen = Automatic THEN ambient ELSE chosen

\* readStoredTheme / storedPreference
ReadStored(value) ==
    IF Storable /\ value \in Choices \cup {Automatic} THEN value ELSE Automatic

\* The first render and its effects.
PreferenceInit ==
    /\ browser \in Choices
    /\ stored \in Choices \cup {Automatic, Nothing, Unknown}
    /\ chosen = ReadStored(stored)
    /\ ambient = browser
    /\ applied = Resolved

\* A listener that is installed only while the choice is automatic.
BrowserChangesUnheard(value) ==
    /\ value \in Choices \ {browser}
    /\ browser' = value
    /\ ambient' = IF chosen = Automatic THEN value ELSE ambient
    /\ applied' = IF chosen = Automatic THEN value ELSE chosen
    /\ UNCHANGED <<chosen, stored>>

\* The listeners that follow the browser: the provider and, through its effect,
\* the document.
BrowserChanges(value) ==
    /\ value \in Choices \ {browser}
    /\ browser' = value
    /\ ambient' = value
    /\ applied' = IF chosen = Automatic THEN value ELSE chosen
    /\ UNCHANGED <<chosen, stored>>

\* setTheme / setPreference.
SetPreference(value) ==
    /\ value \in Choices \cup {Automatic}
    /\ chosen' = value
    /\ stored' = IF Storable THEN value ELSE stored
    /\ applied' = IF value = Automatic THEN ambient ELSE value
    /\ UNCHANGED <<ambient, browser>>

\* A reload, or another tab: the provider starts over from what is stored.
Reload ==
    /\ chosen' = ReadStored(stored)
    /\ ambient' = browser
    /\ applied' = IF ReadStored(stored) = Automatic THEN browser ELSE ReadStored(stored)
    /\ UNCHANGED <<browser, stored>>

-----------------------------------------------------------------------------
\* What the document carries is what the reader chose by name, and otherwise what
\* the browser asks for now: also right after switching back to automatic
\* (theme-provider.tsx:34-35) and after a reload that finds an unknown value.
AppliedIsWanted ==
    applied = IF chosen \in Choices THEN chosen ELSE browser
=============================================================================
