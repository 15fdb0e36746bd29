----------------------------- MODULE Appearance -----------------------------
(***************************************************************************)
(* What a person may choose about the looks of the application: the brand  *)
(* colour, which is previewed, saved to the profile and mirrored back from *)
(* it, and the language, whose texts are loaded on demand.                 *)
(***************************************************************************)
EXTENDS Naturals, FiniteSets

CONSTANTS
    Colours,   \* colours that can be picked, beside the default
    Default,   \* no colour of one's own
    Languages, \* languages with texts to load
    English,   \* the language whose texts are there from the start
    MaxPicks,  \* bound: picks, saves and changes elsewhere
    MaxModes   \* bound: language changes

ASSUME AppearanceAssumption ==
    /\ Default \notin Colours /\ English \notin Languages
    /\ {"none", "invalid"} \cap (Colours \cup {Default}) = {}
    /\ {MaxPicks, MaxModes} \subseteq Nat

VARIABLES
    card,     \* the card is mounted
    draft,    \* its field: a colour, Default, or "invalid"
    timer,    \* the pick waiting to be applied, or "none"
    brand,    \* appearanceStore.brandColor, and its copy in localStorage
    sending,  \* the colour a save or reset is sending, or "none"
    saved,    \* the colour the server holds
    profile,  \* the colour of the profile last answered
    me,       \* the profile query in flight: the colour it will answer, or "none"
    preview,  \* history: a pick was applied since brand was last set otherwise
    failed,   \* history: a save failed, or was lost, since the last that did not
    picks,    \* bound
    mode,     \* languageStore: the language chosen
    onScreen, \* the language on screen
    loaded,   \* the languages whose texts are there
    loads,    \* the loads in flight: a language and the version it was asked at
    version,  \* languageLoadVersion
    missed    \* history: the last load failed

brandVars == <<card, draft, timer, brand, sending, saved, profile, me, preview,
               failed, picks>>
languageVars == <<mode, onScreen, loaded, loads, version, missed>>
lookVars == <<card, draft, timer, brand, sending, saved, profile, me, preview,
              failed, picks, mode, onScreen, loaded, loads, version, missed>>

ColourChoices == Colours \cup {Default}
Tongues == Languages \cup {English}

LookTypeOK ==
    /\ card \in BOOLEAN /\ draft \in ColourChoices \cup {"invalid"}
    /\ {timer, sending, me} \subseteq ColourChoices \cup {"none"}
    /\ {brand, saved} \subseteq ColourChoices /\ profile \in ColourChoices \cup {"none"}
    /\ {preview, failed, missed} \subseteq BOOLEAN /\ picks \in 0..MaxPicks
    /\ {mode, onScreen} \subseteq Tongues /\ loaded \subseteq Tongues
    /\ loads \subseteq Tongues \X (1..MaxModes + 1)

LookInit ==
    /\ card = FALSE /\ draft = Default /\ timer = "none" /\ sending = "none"
    /\ brand \in ColourChoices /\ saved \in ColourChoices
    /\ profile = "none" /\ me = saved
    /\ preview = FALSE /\ failed = FALSE /\ picks = 0
    /\ mode \in Tongues /\ onScreen = English /\ loaded = {English}
    /\ loads = {<<mode, 1>>} /\ version = 1 /\ missed = FALSE

Picks == picks < MaxPicks /\ picks' = picks + 1

-----------------------------------------------------------------------------
(* The brand colour *)

\* appearanceStore: the value, its cached copy and the icon change together.
setBrandColor(c) == brand' = c

OpenAppearance ==
    /\ ~card /\ profile # "none" /\ card' = TRUE /\ draft' = brand
    /\ UNCHANGED <<timer, brand, sending, saved, profile, me, preview, failed,
                   picks, languageVars>>

\* Unmounting clears the timer, and with it a pick not yet applied.
CloseAppearance ==
    /\ card /\ card' = FALSE /\ timer' = "none"
    /\ UNCHANGED <<draft, brand, sending, saved, profile, me, preview, failed,
                   picks, languageVars>>

\* A pick restarts the timer; a half-typed one leaves the timer running.
handleBrandPick ==
    /\ card /\ Picks
    /\ \/ draft' \in Colours /\ timer' = draft'
       \/ draft' = "invalid" /\ UNCHANGED timer
    /\ UNCHANGED <<card, brand, sending, saved, profile, me, preview, failed,
                   languageVars>>

CommitPick ==
    /\ timer # "none" /\ setBrandColor(timer) /\ timer' = "none"
    /\ preview' = TRUE
    /\ UNCHANGED <<card, draft, sending, saved, profile, me, failed, picks,
                   languageVars>>

handleSave ==
    /\ card /\ sending = "none" /\ draft # "invalid" /\ Picks
    /\ timer' = "none" /\ setBrandColor(draft) /\ sending' = draft
    /\ preview' = FALSE
    /\ UNCHANGED <<card, draft, saved, profile, me, failed, languageVars>>

handleReset ==
    /\ card /\ sending = "none" /\ Picks
    /\ ~(brand = Default /\ draft = Default)
    /\ timer' = "none" /\ draft' = Default /\ setBrandColor(Default)
    /\ sending' = Default /\ preview' = FALSE
    /\ UNCHANGED <<card, saved, profile, me, failed, languageVars>>

\* Saved: the profile is asked for anew, and an answer under way is dropped.
ColourSaved ==
    /\ sending # "none" /\ saved' = sending /\ sending' = "none"
    /\ me' = saved' /\ failed' = FALSE
    /\ UNCHANGED <<card, draft, timer, brand, profile, preview, picks,
                   languageVars>>

\* Refused, or the answer lost after the colour was saved: the error stays on
\* screen, and the colour with it.
ColourNotSaved ==
    /\ sending # "none" /\ sending' = "none" /\ failed' = TRUE
    /\ saved' \in {saved, sending}
    /\ UNCHANGED <<card, draft, timer, brand, profile, me, preview, picks,
                   languageVars>>

\* The profile is asked for again, when the window is focused or by an event;
\* another device may have changed it.
AskProfile ==
    /\ me = "none" /\ Picks
    /\ \E c \in ColourChoices : saved' = c /\ me' = c
    /\ UNCHANGED <<card, draft, timer, brand, sending, profile, preview, failed,
                   languageVars>>

\* useAuthSession: the effect runs when the answer differs from the last one.
useAuthSession ==
    /\ me # "none" /\ me' = "none" /\ profile' = me
    /\ IF me # profile THEN setBrandColor(me) /\ preview' = FALSE
       ELSE UNCHANGED <<brand, preview>>
    /\ UNCHANGED <<card, draft, timer, sending, saved, failed, picks,
                   languageVars>>

-----------------------------------------------------------------------------
(* The language *)

\* setMode stores the choice and asks for its texts under a new version.
setMode ==
    /\ version <= MaxModes
    /\ mode' \in Tongues \ {mode} /\ version' = version + 1
    /\ loads' = loads \cup {<<mode', version'>>}
    /\ missed' = FALSE
    /\ UNCHANGED <<onScreen, loaded, brandVars>>

\* As if every load that ends changed the language on screen.
loadLanguageAnyhow(l) ==
    /\ l \in loads /\ loads' = loads \ {l}
    /\ loaded' = loaded \cup {l[1]} /\ onScreen' = l[1]
    /\ UNCHANGED <<mode, version, missed, brandVars>>

\* A load ends, in whatever order; only the last one asked for changes the
\* language on screen.  Texts already there need no request.
loadLanguage(l) ==
    /\ l \in loads /\ loads' = loads \ {l}
    /\ loaded' = loaded \cup {l[1]}
    /\ onScreen' = IF l[2] = version THEN l[1] ELSE onScreen
    /\ UNCHANGED <<mode, version, missed, brandVars>>

LoadFails(l) ==
    /\ l \in loads /\ l[1] \notin loaded /\ loads' = loads \ {l}
    /\ missed' = (missed \/ l[2] = version)
    /\ UNCHANGED <<mode, onScreen, loaded, version, brandVars>>

LookNext ==
    \/ OpenAppearance \/ CloseAppearance \/ handleBrandPick \/ CommitPick
    \/ handleSave \/ handleReset \/ ColourSaved \/ ColourNotSaved
    \/ AskProfile \/ useAuthSession
    \/ setMode \/ \E l \in loads : loadLanguage(l) \/ LoadFails(l)

LookSpec == LookInit /\ [][LookNext]_lookVars

-----------------------------------------------------------------------------
(* Properties *)

\* Once nothing is on its way, the colour of the application is the colour of
\* the profile, unless a pick was applied and never saved, or a save failed:
\* no late timer or answer leaves an older colour behind.
SavedColourShows ==
    sending = "none" /\ me = "none" /\ ~preview /\ ~failed => brand = saved

\* However the loads of several languages overtake each other, the last one
\* chosen is the one on screen in the end.
LastLanguageShows == loads = {} /\ ~missed => onScreen = mode

\* What the page and the session promise of colour and language.
LookSafe == LookTypeOK /\ SavedColourShows /\ LastLanguageShows

-----------------------------------------------------------------------------
(* The inductive invariant of the proofs *)

\* An answer under way is what the server holds ...
MeKnows == ~failed /\ me # "none" => me = saved

\* ... and when the colour that is being sent, or the one under way, is that of
\* the profile, whose arrival then changes nothing, it is on screen already.
BrandKnown ==
    ~preview =>
        /\ sending # "none" /\ profile = sending => brand = sending
        /\ ~failed /\ sending = "none" =>
              IF me = "none" THEN brand = saved /\ profile = saved
              ELSE me = profile => brand = me

\* The texts of the language chosen last are being loaded, have failed to load,
\* or are on screen.
LoadsKnown ==
    /\ version \in 1..MaxModes + 1
    /\ \A l \in loads : l[2] <= version /\ (l[2] = version => l[1] = mode)
    /\ <<mode, version>> \in loads \/ missed \/ onScreen = mode

LookInv == LookTypeOK /\ MeKnows /\ BrandKnown /\ LoadsKnown
=============================================================================
