---------------------------- MODULE ActiveSessions --------------------------
(***************************************************************************)
(* The card that lists a person's sessions and ends them: one, those       *)
(* ticked, this device's by logging out, or all.  The list is a query that *)
(* is asked for again after every success and at every session event;      *)
(* asking again drops an answer that is under way.                         *)
(***************************************************************************)
EXTENDS Naturals, FiniteSets

CONSTANTS
    Devices,    \* sessions there may be
    ThisDevice, \* the session of this browser
    NoDevice,   \* no session
    MaxOutside  \* bound: logins and revocations elsewhere

ASSUME DevicesAssumption ==
    /\ ThisDevice \in Devices /\ NoDevice \notin Devices
    /\ IsFiniteSet(Devices) /\ MaxOutside \in Nat

VARIABLES
    live,       \* server: the sessions that have not ended
    list,       \* the list on screen
    asked,      \* the list query in flight
    listAnswer, \* the sessions its answer holds; {} while the server has not read
    selected,   \* ticked sessions
    ending,     \* the session whose dialog is open
    revoking,   \* the session being ended, or NoDevice
    bulkOpen,   \* the dialog of the bulk action is open
    bulk,       \* the sessions of the bulk action still to be answered
    refused,    \* the sessions it could not end
    out,        \* logging out: "no", "here", "everywhere", or "done"
    outside,    \* bound, and logins and revocations whose event was lost
    byCard      \* history: sessions ended through a revocation of this card

cardListVars == <<list, asked, listAnswer>>
deviceVars == <<live, list, asked, listAnswer, selected, ending, revoking, bulkOpen,
                bulk, refused, out, outside, byCard>>

DevicesTypeOK ==
    /\ {live, list, listAnswer, selected, bulk, refused, byCard} \subseteq SUBSET Devices
    /\ {asked, bulkOpen} \subseteq BOOLEAN
    /\ {ending, revoking} \subseteq Devices \cup {NoDevice}
    /\ out \in {"no", "here", "everywhere", "done"}
    /\ outside.n \in 0..MaxOutside

DevicesInit ==
    /\ live \in {S \in SUBSET Devices : ThisDevice \in S} /\ list = live
    /\ asked = FALSE /\ listAnswer = {} /\ selected = {}
    /\ ending = NoDevice /\ revoking = NoDevice
    /\ bulkOpen = FALSE /\ bulk = {} /\ refused = {}
    /\ out = "no" /\ outside = [n |-> 0, lost |-> FALSE] /\ byCard = {}

Here == out # "done"

\* As if an answer under way were kept when the query is asked for again.
InvalidatedLate == asked' = TRUE /\ UNCHANGED <<list, listAnswer>>

\* invalidateQueries: the query is asked for (again).
Invalidated == asked' = TRUE /\ listAnswer' = {} /\ UNCHANGED list

\* The current session is never one that can be ticked.
Tickable == list \ {ThisDevice}

-----------------------------------------------------------------------------
(* The list *)

\* The server reads the sessions of the user.
useSessionsQuery ==
    /\ Here /\ asked /\ listAnswer = {} /\ ThisDevice \in live /\ listAnswer' = live
    /\ UNCHANGED <<live, list, asked, selected, ending, revoking, bulkOpen, bulk,
                   refused, out, outside, byCard>>

ListAnswers ==
    /\ Here /\ asked /\ listAnswer # {} /\ list' = listAnswer
    /\ asked' = FALSE /\ listAnswer' = {}
    /\ UNCHANGED <<live, selected, ending, revoking, bulkOpen, bulk, refused,
                   out, outside, byCard>>

\* A login or a revocation elsewhere; its event asks for the list, unless the
\* stream has dropped, when the poll will.
ElsewhereChanges ==
    /\ Here /\ outside.n < MaxOutside
    /\ \E d \in Devices \ {ThisDevice} :
          live' = IF d \in live THEN live \ {d} ELSE live \cup {d}
    /\ \/ Invalidated /\ outside' = [outside EXCEPT !.n = @ + 1]
       \/ /\ outside' = [n |-> outside.n + 1, lost |-> TRUE]
          /\ UNCHANGED cardListVars
    /\ UNCHANGED <<selected, ending, revoking, bulkOpen, bulk, refused, out, byCard>>

SessionsPoll ==
    /\ Here /\ outside.lost /\ outside' = [outside EXCEPT !.lost = FALSE]
    /\ Invalidated
    /\ UNCHANGED <<live, selected, ending, revoking, bulkOpen, bulk, refused,
                   out, byCard>>

-----------------------------------------------------------------------------
(* One session *)

\* The button of a row, which createActiveSessionColumns disables while that
\* session is being ended; closing the dialog stops nothing.
createActiveSessionColumns(d) ==
    /\ Here /\ ~bulkOpen /\ ending = NoDevice
    /\ d \in list /\ d # revoking /\ ending' = d
    /\ UNCHANGED <<live, cardListVars, selected, revoking, bulkOpen, bulk,
                   refused, out, outside, byCard>>

CloseDialog ==
    /\ Here /\ (ending # NoDevice \/ bulkOpen)
    /\ ending' = NoDevice /\ bulkOpen' = FALSE
    /\ UNCHANGED <<live, cardListVars, selected, revoking, bulk, refused, out,
                   outside, byCard>>

\* handleConfirm: this device is logged out, another session is revoked.
handleConfirm ==
    /\ Here /\ ending # NoDevice
    /\ IF ending = ThisDevice
       THEN out = "no" /\ out' = "here" /\ ending' = NoDevice /\ UNCHANGED revoking
       ELSE revoking = NoDevice /\ revoking' = ending /\ UNCHANGED <<out, ending>>
    /\ UNCHANGED <<live, cardListVars, selected, bulkOpen, bulk, refused,
                   outside, byCard>>

\* What the server does with a revocation: the session of the request itself and
\* one that is not there are refused.
Revoked(d) == IF d = ThisDevice THEN live ELSE live \ {d}
Accepted(d) == d \in live /\ d # ThisDevice

\* useRevokeSessionMutation: a success asks for the list again.  Either way the
\* dialog closes, whichever is open by now.
useRevokeSessionMutation ==
    /\ Here /\ revoking # NoDevice
    /\ live' = Revoked(revoking) /\ byCard' = byCard \cup (live \ live')
    /\ IF Accepted(revoking) THEN Invalidated ELSE UNCHANGED cardListVars
    /\ revoking' = NoDevice /\ ending' = NoDevice
    /\ UNCHANGED <<selected, bulkOpen, bulk, refused, out, outside>>

-----------------------------------------------------------------------------
(* Several sessions *)

TickSession(d) ==
    /\ Here /\ ending = NoDevice /\ ~bulkOpen /\ Cardinality(list) > 1
    /\ d \in Tickable
    /\ selected' = IF d \in selected THEN selected \ {d} ELSE selected \cup {d}
    /\ UNCHANGED <<live, cardListVars, ending, revoking, bulkOpen, bulk, refused,
                   out, outside, byCard>>

\* The checkbox of the header, and the button that clears the selection.
TickSessions ==
    /\ Here /\ ending = NoDevice /\ ~bulkOpen /\ Cardinality(list) > 1
    /\ \/ selected' = IF Tickable # {} /\ Tickable \subseteq selected
                      THEN selected \ Tickable ELSE selected \cup Tickable
       \/ selected' = {}
    /\ UNCHANGED <<live, cardListVars, ending, revoking, bulkOpen, bulk, refused,
                   out, outside, byCard>>

OpenBulk ==
    /\ Here /\ ending = NoDevice /\ selected # {} /\ bulkOpen' = TRUE
    /\ UNCHANGED <<live, cardListVars, selected, ending, revoking, bulk, refused,
                   out, outside, byCard>>

\* handleBulkConfirm sends a request for each ticked session.
handleBulkConfirm ==
    /\ Here /\ bulkOpen /\ bulk = {} /\ selected # {}
    /\ bulk' = selected /\ refused' = {}
    /\ UNCHANGED <<live, cardListVars, selected, ending, revoking, bulkOpen, out,
                   outside, byCard>>

\* The requests are answered in any order; allSettled waits for the last one,
\* whatever became of the others.
useBulkRevokeSessionsMutation(d) ==
    /\ Here /\ d \in bulk /\ bulk' = bulk \ {d}
    /\ live' = Revoked(d) /\ byCard' = byCard \cup (live \ live')
    /\ refused' = IF Accepted(d) THEN refused ELSE refused \cup {d}
    /\ IF bulk' = {} THEN Invalidated /\ selected' = {} /\ bulkOpen' = FALSE
       ELSE UNCHANGED <<cardListVars, selected, bulkOpen>>
    /\ UNCHANGED <<ending, revoking, out, outside>>

-----------------------------------------------------------------------------
(* Logging out *)

useLogoutAllMutation ==
    /\ Here /\ out = "no" /\ ending = NoDevice /\ ~bulkOpen /\ out' = "everywhere"
    /\ UNCHANGED <<live, cardListVars, selected, ending, revoking, bulkOpen, bulk,
                   refused, outside, byCard>>

\* Answered or failed, the caches are cleared and the login page follows.
LogoutLeaves ==
    /\ out \in {"here", "everywhere"} /\ out' = "done"
    /\ live' \in {live, IF out = "here" THEN live \ {ThisDevice} ELSE {}}
    /\ UNCHANGED <<cardListVars, selected, ending, revoking, bulkOpen, bulk,
                   refused, outside, byCard>>

DevicesNext ==
    \/ useSessionsQuery \/ ListAnswers \/ ElsewhereChanges \/ SessionsPoll
    \/ \E d \in Devices : \/ createActiveSessionColumns(d) \/ TickSession(d)
                          \/ useBulkRevokeSessionsMutation(d)
    \/ CloseDialog \/ handleConfirm \/ useRevokeSessionMutation
    \/ TickSessions \/ OpenBulk \/ handleBulkConfirm
    \/ useLogoutAllMutation \/ LogoutLeaves

DevicesSpec == DevicesInit /\ [][DevicesNext]_deviceVars

-----------------------------------------------------------------------------
(* Properties *)

\* Once nothing is on its way the list is the truth: an answer read before a
\* session ended never stays on screen after it, however the requests of a bulk
\* action, an event and a poll fall.
ListSettles ==
    Here /\ ~asked /\ bulk = {} /\ ~outside.lost => list = live

\* Ticking all, ending them, ticking again while the list is being asked for:
\* this device is never among the sessions the card revokes.
OwnSessionSpared == ThisDevice \notin selected \cup bulk \cup refused \cup byCard

\* What the card promises.
DevicesSafe == DevicesTypeOK /\ ListSettles /\ OwnSessionSpared

-----------------------------------------------------------------------------
(* The inductive invariant of the proofs *)

OutsideOK == outside \in [n : 0..MaxOutside, lost : BOOLEAN]

\* The list, or the answer that will replace it, is the truth, unless the query
\* has yet to be read again, a bulk action is half done, or an event was lost.
ListKnown ==
    Here /\ bulk = {} /\ ~outside.lost =>
        /\ ~asked => list = live
        /\ asked /\ listAnswer # {} => listAnswer = live

DevicesInv == DevicesTypeOK /\ OutsideOK /\ ListKnown /\ OwnSessionSpared
=============================================================================
