--------------------------- MODULE AccountSettings --------------------------
(***************************************************************************)
(* The account settings page: a strip of tabs that a deep link may choose, *)
(* the name card whose edit survives a change of tab, the warning before   *)
(* an edit is lost, and the card that deletes the account.                 *)
(*                                                                         *)
(* The highlight of the strip is the state of the Tabs component, the      *)
(* panel on screen that of the page.  The profile query answers what the   *)
(* server holds when it is asked.                                          *)
(***************************************************************************)
EXTENDS Naturals, FiniteSets

CONSTANTS
    SettingsTabs, \* the tabs of the strip, "profile" and "danger" among them
    Names,        \* names a person may have
    MaxSteps      \* bound: openings, edits, saves and renames elsewhere

ASSUME SettingsAssumption ==
    /\ {"profile", "danger"} \subseteq SettingsTabs /\ "none" \notin SettingsTabs
    /\ "none" \notin Names /\ MaxSteps \in Nat

VARIABLES
    opened,       \* the page is mounted
    urlTab,       \* ?tab= of the address, or "none"
    storedTab,    \* accountSettingsUiStore.activeTab
    strip,        \* the tab the strip highlights
    tab,          \* the tab whose panel is not hidden
    visited,      \* the tabs whose panels are mounted
    name,         \* the name in the auth store
    edited,       \* the name in the card's field
    nameDirty,    \* what the card reported last
    saving,       \* the name a save is sending, or "none"
    server,       \* the name the server holds
    profileAsked, \* the profile query is in flight: the name it will answer
    deletion,     \* where the delete card is
    steps         \* bound

settingsVars == <<opened, urlTab, storedTab, strip, tab, visited, name, edited,
                  nameDirty, saving, server, profileAsked, deletion, steps>>

tabVars == <<opened, urlTab, storedTab, strip, tab, visited>>
cardVars == <<edited, nameDirty>>

DeleteStates == {"form", "confirm", "pending", "pendingClosed", "mailed", "gone"}

SettingsTypeOK ==
    /\ opened \in BOOLEAN /\ {urlTab, storedTab} \subseteq SettingsTabs \cup {"none"}
    /\ {strip, tab} \subseteq SettingsTabs /\ visited \subseteq SettingsTabs
    /\ {name, edited, server} \subseteq Names /\ nameDirty \in BOOLEAN
    /\ {saving, profileAsked} \subseteq Names \cup {"none"}
    /\ deletion \in DeleteStates /\ steps \in 0..MaxSteps

SettingsInit ==
    /\ opened = FALSE /\ urlTab = "none" /\ storedTab = "none"
    /\ strip = "profile" /\ tab = "profile" /\ visited = {}
    /\ \E n \in Names : name = n /\ edited = n /\ server = n
    /\ nameDirty = FALSE /\ saving = "none" /\ profileAsked = "none"
    /\ deletion = "form" /\ steps = 0

Step == steps < MaxSteps /\ steps' = steps + 1

\* The link's tab, else the tab last open, else the profile.
InitialTab(hash) ==
    IF hash # "none" THEN hash
    ELSE IF storedTab # "none" THEN storedTab ELSE "profile"

\* The name card mounts with the name of the store and reports a clean field.
CardMounts == edited' = name /\ nameDirty' = FALSE

\* As if the effect of the card looked at the field alone.
ReportsOfField == nameDirty' = IF edited' # edited THEN edited' # name' ELSE nameDirty

\* The effect of the card: it reports whenever the comparison changes.
Reports == nameDirty' = (edited' # name')

-----------------------------------------------------------------------------
(* The tabs *)

AccountSettingsPage(hash) ==
    /\ ~opened /\ Step
    /\ opened' = TRUE /\ urlTab' = hash
    /\ strip' = InitialTab(hash) /\ tab' = InitialTab(hash)
    /\ visited' = {InitialTab(hash)}
    /\ CardMounts /\ deletion' = "form"
    /\ UNCHANGED <<storedTab, name, saving, server, profileAsked>>

handleTabChange(t) ==
    /\ opened /\ t # strip
    /\ strip' = t /\ tab' = t /\ storedTab' = t
    /\ visited' = visited \cup {t}
    /\ IF t = "profile" /\ t \notin visited THEN CardMounts ELSE UNCHANGED cardVars
    /\ UNCHANGED <<opened, urlTab, name, saving, server, profileAsked, deletion, steps>>

\* Another link to the page while it is open: the key of the strip changes and
\* the strip is mounted anew, and the panels in it, those visited before; which
\* of them is shown is the page's state and stays.
FollowLink(hash) ==
    /\ opened /\ hash # urlTab /\ Step
    /\ urlTab' = hash /\ strip' = InitialTab(hash)
    /\ IF "profile" \in visited THEN CardMounts ELSE UNCHANGED cardVars
    /\ deletion' = IF deletion = "gone" THEN deletion ELSE "form"
    /\ UNCHANGED <<opened, storedTab, tab, visited, name, saving, server, profileAsked>>

LeaveSettings ==
    /\ opened /\ opened' = FALSE /\ urlTab' = "none" /\ visited' = {}
    /\ deletion' = IF deletion = "gone" THEN deletion ELSE "form"
    /\ nameDirty' = FALSE /\ edited' = name
    /\ UNCHANGED <<storedTab, strip, tab, name, saving, server, profileAsked, steps>>

-----------------------------------------------------------------------------
(* The name card *)

EditName(n) ==
    /\ opened /\ "profile" \in visited /\ Step
    /\ edited' = n /\ UNCHANGED name /\ Reports
    /\ UNCHANGED <<tabVars, saving, server, profileAsked, deletion>>

\* handleNameSubmit sends only a name that differs from the one shown.
ProfileNameCard ==
    /\ opened /\ "profile" \in visited /\ saving = "none" /\ edited # name
    /\ saving' = edited
    /\ UNCHANGED <<tabVars, cardVars, name, server, profileAsked, deletion, steps>>

\* Saved: the profile is asked for again, and the field takes the name saved if
\* the card that sent it is still mounted.
NameSaved ==
    /\ saving # "none" /\ server' = saving /\ profileAsked' = saving /\ saving' = "none"
    /\ \/ /\ opened /\ "profile" \in visited /\ edited' = saving
       \/ UNCHANGED edited
    /\ UNCHANGED name /\ IF opened /\ "profile" \in visited THEN Reports
                         ELSE UNCHANGED nameDirty
    /\ UNCHANGED <<tabVars, deletion, steps>>

NameNotSaved ==
    /\ saving # "none" /\ saving' = "none"
    /\ server' \in {server, saving}
    /\ UNCHANGED <<tabVars, cardVars, name, profileAsked, deletion, steps>>

\* Another device saves a name, and an event has the profile asked for again.
RenamedElsewhere(n) ==
    /\ n # server /\ Step
    /\ server' = n /\ profileAsked' = n
    /\ UNCHANGED <<tabVars, cardVars, name, saving, deletion>>

ProfileAnswers ==
    /\ profileAsked # "none" /\ name' = profileAsked /\ profileAsked' = "none"
    /\ IF opened /\ "profile" \in visited THEN UNCHANGED edited /\ Reports
       ELSE edited' = name' /\ UNCHANGED nameDirty
    /\ UNCHANGED <<tabVars, saving, server, deletion, steps>>

-----------------------------------------------------------------------------
(* The delete card *)

\* handleRequestDelete opens the dialog, handleConfirmDelete sends; the dialog
\* may be closed while the request is on its way.
DeleteAccountCard ==
    /\ opened /\ "danger" \in visited
    /\ \/ deletion = "form" /\ deletion' = "confirm"
       \/ deletion = "confirm" /\ deletion' \in {"form", "pending"}
       \/ deletion = "pending" /\ deletion' = "pendingClosed"
    /\ UNCHANGED <<tabVars, cardVars, name, saving, server, profileAsked, steps>>

\* A deletion that needs a confirmation by mail leaves its note; one done at
\* once signs out and leaves the page.
DeletionAnswered ==
    /\ deletion \in {"pending", "pendingClosed"}
    /\ \/ deletion' \in {"form", "mailed"} /\ UNCHANGED <<tabVars, cardVars>>
       \/ /\ deletion' = "gone" /\ opened' = FALSE /\ urlTab' = "none"
          /\ visited' = {} /\ nameDirty' = FALSE /\ edited' = name
          /\ UNCHANGED <<storedTab, strip, tab>>
    /\ UNCHANGED <<name, saving, server, profileAsked, steps>>

SettingsNext ==
    \/ \E l \in SettingsTabs \cup {"none"} : AccountSettingsPage(l) \/ FollowLink(l)
    \/ \E t \in SettingsTabs : handleTabChange(t)
    \/ LeaveSettings
    \/ \E n \in Names : EditName(n) \/ RenamedElsewhere(n)
    \/ ProfileNameCard \/ NameSaved \/ NameNotSaved \/ ProfileAnswers
    \/ DeleteAccountCard \/ DeletionAnswered

SettingsSpec == SettingsInit /\ [][SettingsNext]_settingsVars

-----------------------------------------------------------------------------
(* Properties *)

\* useUnsavedChangesWarning: while the field of the card holds a name other than
\* the one shown everywhere else, closing the browser tab asks first - whether
\* it was the field that changed or the profile behind it.
EditGuarded ==
    opened /\ "profile" \in visited => (nameDirty <=> edited # name)

\* AccountSettingsPage.tsx:107-108: the key "forces Tabs to pick up a new
\* initialTab on a fresh deep link", so the tab a link asks for is shown.
TabShowsItsPanel == opened => strip = tab

\* What the page promises of the name card, and the types of its state.
SettingsSafe == SettingsTypeOK /\ EditGuarded
=============================================================================
