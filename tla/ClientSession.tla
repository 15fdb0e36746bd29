---------------------------- MODULE ClientSession ---------------------------
(***************************************************************************)
(* One browser tab's view of the signed-in session: the auth store, the    *)
(* current-user query mirrored into it, the axios interceptor with its     *)
(* single-flight refresh and its two one-shot retries, the login, logout   *)
(* and password-change mutations, the server-sent permission events and    *)
(* the route guard that reads all of it.                                   *)
(*                                                                         *)
(* Every request is sent with the cookies of that moment, answered by the  *)
(* server at a later one and delivered at a third, so answers overtake     *)
(* each other.  A session token is a version number: the server accepts    *)
(* exactly one, `valid', and 0 stands for no session and no cookie.  An    *)
(* answer and the effect that mirrors it into the store are one step, and  *)
(* a retry carries both of its "already retried" marks.                    *)
(***************************************************************************)
EXTENDS Naturals, FiniteSets

CONSTANTS
    MaxVersion,   \* bound: session versions issued by logins and passwords
    MaxEvents     \* bound: what users and time do in one behaviour

ASSUME ClientAssumption == MaxVersion \in Nat \ {0} /\ MaxEvents \in Nat

VARIABLES
    valid,     \* server: the session version it accepts, 0 when none
    last,      \* server: the last version it issued
    granted,   \* server: the account holds the guarded page's permission
    cookie,    \* browser: the version in the cookie jar
    expired,   \* browser: the access token in the jar has expired
    auth,      \* store: isAuthenticated, "unchecked" for null
    allowed,   \* store: permissions contains the guarded page's
    pending,   \* store: permissionsPending
    req,       \* requests in the interceptor's care
    login,     \* login mutation
    logout,    \* logout mutation: its phase and the cookie it was sent with
    grace,     \* within RECENTLY_ROTATED_GRACE_MS of a settled rotation
    events,    \* permission events on the open stream, by who caused them
    selfMark,  \* lastSelfMutationAt: "due" until the mutation is answered
    route,     \* what the router shows
    wasAllowed,\* ProtectedRoute: wasEverAllowed
    hist,      \* history: what the properties look back at
    happened   \* how much of MaxEvents is used

server == <<valid, last, granted>>
store == <<auth, allowed, pending>>
page == <<route, wasAllowed>>
stream == <<events, selfMark>>
vars == <<valid, last, granted, cookie, expired, auth, allowed, pending, req,
          login, logout, grace, events, selfMark, route, wasAllowed, hist,
          happened>>

\* Requests that refresh on a 401: the current-user query's, one of its that
\* was cancelled while the interceptor holds it, the profile a login asks for
\* and a password change.  "refresh" itself does not.
Ordinary == {"me", "ghost", "profile", "password"}
Reqs == Ordinary \cup {"refresh"}
Versions == 0..MaxVersion
Who == {"own", "foreign"}

Idle == [at |-> "idle", ver |-> 0, yes |-> FALSE,
         afterRefresh |-> FALSE, afterRotation |-> FALSE]

TypeOK ==
    /\ {valid, last, cookie} \subseteq Versions
    /\ {granted, expired, allowed, pending, grace, wasAllowed} \subseteq BOOLEAN
    /\ auth \in {"unchecked", "in", "out"}
    /\ req \in [Reqs -> [at : {"idle", "sent", "ok", "401", "fail", "refresh",
                               "rotation"},
                         ver : Versions, yes : BOOLEAN,
                         afterRefresh : BOOLEAN, afterRotation : BOOLEAN]]
    /\ login \in {"idle", "sent", "ok", "refused", "profile"}
    /\ logout \in [at : {"idle", "sent", "ok", "lost"}, ver : Versions]
    /\ selfMark \in {"none", "due", "armed"}
    /\ events \in [Who -> 0..MaxEvents]
    /\ route \in {"login", "dashboard", "page", "notAuthorized"}

Init ==
    /\ last = 1 /\ valid \in {0, 1} /\ cookie \in {1, valid}
    /\ granted = TRUE /\ expired = FALSE
    /\ auth = "unchecked" /\ allowed = FALSE /\ pending = FALSE
    /\ req = [r \in Reqs |-> IF r = "me"
                             THEN [Idle EXCEPT !.at = "sent", !.ver = cookie]
                             ELSE Idle]
    /\ login = "idle" /\ logout = [at |-> "idle", ver |-> 0] /\ grace = FALSE
    /\ events = [w \in Who |-> 0] /\ selfMark = "none"
    /\ route = "dashboard" /\ wasAllowed = FALSE
    /\ hist = [own |-> 0, skipped |-> 0, lost |-> FALSE, bounced |-> FALSE]
    /\ happened = 0

-----------------------------------------------------------------------------
(* The store, and requests leaving with the cookies of the moment *)

setAuthenticatedFalse == auth' = "out" /\ allowed' = FALSE /\ pending' = FALSE
setProfile(yes) == auth' = "in" /\ allowed' = yes /\ pending' = FALSE

\* The version a request carries: an expired access token carries none, the
\* refresh goes by its own cookie.  A cancelled request fails when sent again.
SentWith(r, rec, ck, exp) ==
    IF r = "ghost" THEN [rec EXCEPT !.at = "fail"]
    ELSE [rec EXCEPT !.at = "sent", !.yes = FALSE,
                     !.ver = IF exp /\ r # "refresh" THEN 0 ELSE ck]
Fresh(r) == SentWith(r, Idle, cookie, expired)

\* Cancelling the query: a request on the wire is dropped, one the interceptor
\* holds stays there with an aborted signal.
Cancelled(q) ==
    [q EXCEPT !["me"] = Idle,
              !["ghost"] = IF q["me"].at \in {"refresh", "rotation"}
                           THEN q["me"] ELSE @]

-----------------------------------------------------------------------------
(* The interceptor *)

\* pendingRotation is set from the sending of a password change to its end.
Rotating == req["password"].at # "idle"

\* As if only the grace after a rotation counted.
MayRetryInGrace(rec) == ~rec.afterRotation /\ grace

MayRetryRotation(rec) == ~rec.afterRotation /\ (Rotating \/ grace)

AfterRotation(r, rec) ==
    IF Rotating THEN [rec EXCEPT !.at = "rotation", !.afterRotation = TRUE]
    ELSE SentWith(r, [rec EXCEPT !.afterRotation = TRUE], cookie, expired)

\* The requests of S that end here: no rotation is left to wait for.
GivingUp(S) == {r \in S : ~MayRetryRotation(req[r])}

\* The end of the requests `over': a password change that ends, well or badly,
\* sends everybody who waited for it again.
Ended(q, over) ==
    [r \in Reqs |->
       IF r \in over THEN Idle
       ELSE IF "password" \in over /\ q[r].at = "rotation"
            THEN SentWith(r, q[r], cookie', expired')
            ELSE q[r]]

\* The requests of S have failed: they wait for a rotation or end.
Fall(S) ==
    Ended([r \in Reqs |-> IF r \in S \ GivingUp(S)
                          THEN AfterRotation(r, req[r]) ELSE req[r]],
          GivingUp(S))

\* What the callers of requests that end in failure do.
CallersSee(over) ==
    /\ login' = IF "profile" \in over THEN "idle" ELSE login
    /\ grace' = (grace \/ "password" \in over)

\* The end of the handler: the session is taken to be over.
SignOut(over) ==
    /\ IF over = {} THEN UNCHANGED store ELSE setAuthenticatedFalse
    /\ UNCHANGED hist

others == <<server, logout, stream, page>>

\* A 401 of a request not yet retried: it joins the refresh in flight or starts
\* one.
JoinRefresh(r) ==
    /\ req[r].at = "401" /\ ~req[r].afterRefresh
    /\ req' = [req EXCEPT
          ![r].at = "refresh",
          !["refresh"] = IF @.at = "idle" THEN Fresh("refresh") ELSE @]
    /\ UNCHANGED <<others, cookie, expired, store, login, grace, hist>>

\* A retried request failed, whatever the status of its failure: the catch
\* around the retry does not look at it.
RetryFails(r) ==
    /\ \/ req[r].at \in {"401", "fail"} /\ req[r].afterRefresh
       \/ req[r].at = "fail" /\ req[r].afterRotation
    /\ UNCHANGED <<others, cookie, expired>>
    /\ req' = Fall({r})
    /\ SignOut(GivingUp({r}))
    /\ CallersSee(GivingUp({r}))

\* The refresh was answered 200: its cookies land and everybody waiting for it
\* is sent again.
RefreshSucceeds ==
    /\ req["refresh"].at = "ok"
    /\ cookie' = req["refresh"].ver /\ expired' = FALSE
    /\ req' = [r \in Reqs |->
          IF r = "refresh" THEN Idle
          ELSE IF req[r].at = "refresh"
               THEN SentWith(r, [req[r] EXCEPT !.afterRefresh = TRUE],
                             cookie', FALSE)
               ELSE req[r]]
    /\ UNCHANGED <<others, store, login, grace, hist>>

\* The refresh failed.  Its own 401 passes the interceptor first, which may
\* hold it for a rotation; otherwise those who waited for it fall through, and
\* a 401 of the refresh has already ended the session.
RefreshFails ==
    LET self == req["refresh"]
        waiting == {r \in Ordinary : req[r].at = "refresh"}
        over == GivingUp(waiting)
        held == self.at = "401" /\ MayRetryRotation(self)
    IN /\ self.at \in {"401", "fail"}
       /\ UNCHANGED <<others, cookie, expired>>
       /\ \/ /\ held
             /\ req' = [req EXCEPT !["refresh"] = AfterRotation("refresh", self)]
             /\ UNCHANGED <<store, login, grace, hist>>
          \/ /\ ~held
             /\ req' = [Fall(waiting) EXCEPT !["refresh"] = Idle]
             /\ SignOut(IF self.at = "401" \/ self.afterRotation
                        THEN over \cup {"refresh"} ELSE over)
             /\ CallersSee(over)

\* An answer the interceptor lets through to its caller: a success, or a
\* failure other than 401 of a request it has not touched.
LetThrough(r) ==
    \/ req[r].at = "ok"
    \/ req[r].at = "fail" /\ ~req[r].afterRefresh /\ ~req[r].afterRotation

\* As if the failure of the query were not mirrored.
DeliverMeAnswers ==
    /\ LetThrough("me")
    /\ IF req["me"].at = "ok" THEN setProfile(req["me"].yes) ELSE UNCHANGED store
    /\ req' = [req EXCEPT !["me"] = Idle]
    /\ UNCHANGED <<others, cookie, expired, login, grace, hist>>

\* useAuthSession mirrors the query's answer, and its failure, into the store.
DeliverMe ==
    /\ LetThrough("me")
    /\ IF req["me"].at = "ok" THEN setProfile(req["me"].yes)
       ELSE setAuthenticatedFalse
    /\ req' = [req EXCEPT !["me"] = Idle]
    /\ UNCHANGED <<others, cookie, expired, login, grace, hist>>

\* useLoginMutation's onSuccess.
DeliverProfile ==
    /\ LetThrough("profile")
    /\ IF req["profile"].at = "ok" THEN setProfile(req["profile"].yes)
       ELSE UNCHANGED store
    /\ login' = "idle"
    /\ req' = [req EXCEPT !["profile"] = Idle]
    /\ UNCHANGED <<others, cookie, expired, grace, hist>>

\* The password change ends: its cookies land, whoever waited is sent again,
\* and the grace starts.
DeliverPassword ==
    /\ LetThrough("password")
    /\ IF req["password"].at = "ok"
       THEN cookie' = req["password"].ver /\ expired' = FALSE
       ELSE UNCHANGED <<cookie, expired>>
    /\ req' = Ended(req, {"password"})
    /\ grace' = TRUE
    /\ UNCHANGED <<others, store, login, hist>>

\* RECENTLY_ROTATED_GRACE_MS passes.
GraceEnds ==
    /\ grace /\ grace' = FALSE
    /\ UNCHANGED <<others, cookie, expired, store, req, login, hist>>

-----------------------------------------------------------------------------
(* The server *)

\* The server answers r by the version it carries.  "fail" stands for every
\* failure but 401: forbidden, invalid, unavailable or timed out.  A password
\* change bumps the account's version and answers with the new one.
Answer(r) ==
    LET live == req[r].ver = valid /\ valid # 0
        bump == r = "password" /\ last < MaxVersion
    IN /\ req[r].at = "sent"
       /\ \/ /\ live /\ (r = "password" => bump)
             /\ last' = IF bump THEN last + 1 ELSE last
             /\ valid' = IF bump THEN last + 1 ELSE valid
             /\ req' = [req EXCEPT ![r].at = "ok", ![r].ver = valid',
                          ![r].yes = r \in {"me", "profile"} /\ granted]
          \/ /\ req' = [req EXCEPT ![r].at = IF live THEN "fail" ELSE "401"]
             /\ UNCHANGED <<valid, last>>
    /\ UNCHANGED <<granted, cookie, expired, store, login, logout, grace, stream,
                   page, hist>>

\* The request or its answer is lost, or times out.
Lost(r) ==
    /\ req[r].at = "sent" /\ r # "ghost"
    /\ req' = [req EXCEPT ![r].at = "fail"]
    /\ UNCHANGED <<others, cookie, expired, store, login, grace, hist>>

tab == <<cookie, expired, store, req, login, logout, grace>>

\* The page's permission or another of the account's is granted or revoked, by
\* this tab or by somebody else, and published to the stream if it is open.
ChangeGrant(who) ==
    /\ who = "own" => auth = "in" /\ cookie = valid /\ valid # 0 /\ selfMark # "due"
    /\ granted' \in BOOLEAN
    /\ events' = IF auth = "in" THEN [events EXCEPT ![who] = @ + 1] ELSE events
    /\ selfMark' = IF who = "own" THEN "due" ELSE selfMark
    /\ hist' = [hist EXCEPT !.own = IF who = "own" THEN @ + 1 ELSE @,
                            !.lost = @ \/ ~granted']
    /\ UNCHANGED <<valid, last, tab, page>>

\* The session is revoked from another device.
RevokedElsewhere ==
    /\ valid # 0 /\ valid' = 0
    /\ UNCHANGED <<last, granted, tab, stream, page, hist>>

AccessExpires ==
    /\ cookie # 0 /\ ~expired /\ expired' = TRUE
    /\ UNCHANGED <<others, cookie, store, req, login, grace, hist>>

-----------------------------------------------------------------------------
(* The current-user query, login, logout, password change *)

\* As if the query were not asked for again.
PollOnce ==
    /\ req["me"].at = "idle" /\ auth = "unchecked"
    /\ req' = [req EXCEPT !["me"] = Fresh("me")]
    /\ UNCHANGED <<others, cookie, expired, store, login, grace, hist>>

\* The two-minute poll, a refetch on focus, an invalidation.
Poll ==
    /\ req["me"].at = "idle"
    /\ req' = [req EXCEPT !["me"] = Fresh("me")]
    /\ UNCHANGED <<others, cookie, expired, store, login, grace, hist>>

\* The query's request is cancelled before the credentials are sent.
Login ==
    /\ login = "idle" /\ auth = "out" /\ route = "login"
    /\ login' = "sent" /\ req' = Cancelled(req)
    /\ UNCHANGED <<others, cookie, expired, store, grace, hist>>

LoginAnswered ==
    /\ login = "sent"
    /\ \/ /\ last < MaxVersion /\ last' = last + 1 /\ valid' = last'
          /\ login' = "ok"
       \/ login' = "refused" /\ UNCHANGED <<last, valid>>
    /\ UNCHANGED <<granted, cookie, expired, store, req, logout, grace, stream,
                   page, hist>>

\* The cookies land and the profile is asked for.
LoginLands ==
    /\ login = "ok" /\ login' = "profile"
    /\ cookie' = last /\ expired' = FALSE
    /\ req' = [req EXCEPT !["profile"] = SentWith("profile", Idle, last, FALSE)]
    /\ UNCHANGED <<others, store, grace, hist>>

\* A refused login is an error on the form; its 401 passes the interceptor,
\* which empties the store, and any other failure does not.
LoginRefused ==
    /\ login = "refused" /\ login' = "idle"
    /\ setAuthenticatedFalse \/ UNCHANGED store
    /\ UNCHANGED <<others, cookie, expired, req, grace, hist>>

Logout ==
    /\ logout.at = "idle" /\ auth = "in"
    /\ logout' = [at |-> "sent", ver |-> cookie]
    /\ UNCHANGED <<server, cookie, expired, store, req, login, grace, stream,
                   page, hist>>

LogoutAnswered ==
    /\ logout.at = "sent"
    /\ \/ /\ logout' = [logout EXCEPT !.at = "ok"]
          /\ valid' = IF logout.ver = valid THEN 0 ELSE valid
       \/ logout' = [logout EXCEPT !.at = "lost"] /\ UNCHANGED valid
    /\ UNCHANGED <<last, granted, cookie, expired, store, req, login, grace,
                   stream, page, hist>>

\* onSettled runs whether the request succeeded or not.
LogoutSettles ==
    /\ logout.at \in {"ok", "lost"} /\ logout' = [at |-> "idle", ver |-> 0]
    /\ IF logout.at = "ok" THEN cookie' = 0 /\ expired' = FALSE
       ELSE UNCHANGED <<cookie, expired>>
    /\ setAuthenticatedFalse
    /\ UNCHANGED <<server, req, login, grace, stream, page, hist>>

ChangePassword ==
    /\ req["password"].at = "idle" /\ auth = "in"
    /\ req' = [req EXCEPT !["password"] = Fresh("password")]
    /\ UNCHANGED <<others, cookie, expired, store, login, grace, hist>>

-----------------------------------------------------------------------------
(* Server-sent events *)

\* permissions_changed: drop the permissions unless the guard takes the event
\* for this tab's own echo, and reset every query, which cancels the query's
\* request and sends a new one.
PermissionEvent(who) ==
    /\ auth = "in" /\ events[who] > 0
    /\ events' = [events EXCEPT ![who] = @ - 1]
    /\ IF selfMark = "armed"
       THEN /\ selfMark' = "none"
            /\ hist' = [hist EXCEPT !.skipped =
                          IF who = "foreign" THEN @ + 1 ELSE @]
            /\ UNCHANGED <<allowed, pending>>
       ELSE allowed' = FALSE /\ pending' = TRUE /\ UNCHANGED <<selfMark, hist>>
    /\ req' = [Cancelled(req) EXCEPT !["me"] = Fresh("me")]
    /\ UNCHANGED <<server, cookie, expired, auth, login, logout, grace, page>>

\* markSelfPermissionMutation, in the answer of this tab's own mutation; the
\* event may have come first.
MarkSelfMutation ==
    /\ selfMark = "due" /\ selfMark' = "armed"
    /\ UNCHANGED <<server, tab, events, page, hist>>

\* RECENT_SELF_MUTATION_WINDOW_MS passes.
SelfMarkExpires ==
    /\ selfMark = "armed" /\ selfMark' = "none"
    /\ UNCHANGED <<server, tab, events, page, hist>>

\* The stream closes with the session: what it had not delivered is lost.
StreamCloses ==
    /\ auth # "in" /\ \E w \in Who : events[w] > 0
    /\ events' = [w \in Who |-> 0]
    /\ UNCHANGED <<server, tab, selfMark, page, hist>>

-----------------------------------------------------------------------------
(* Routing *)

isAllowed(p) == auth = "in" /\ (p = "page" => allowed)

\* The login page goes home once signed in.
LeaveLoginPage ==
    /\ route = "login" /\ auth = "in"
    /\ route' = "dashboard" /\ wasAllowed' = TRUE
    /\ UNCHANGED <<server, tab, stream, hist>>

\* As if the guard did not wait for permissions that are being fetched.
RedirectAtOnce ==
    /\ route = "page" /\ auth = "in" /\ ~allowed
    /\ route' = IF wasAllowed THEN "dashboard" ELSE "notAuthorized"
    /\ hist' = [hist EXCEPT !.bounced = @ \/ wasAllowed]
    /\ UNCHANGED <<server, tab, stream, wasAllowed>>

\* ProtectedRoute around a page on screen: signed out, it goes to the login
\* page; a caller it once allowed goes home when the permission is known to be
\* gone, and one it never allowed sees the 403 page.
Redirect ==
    /\ UNCHANGED <<server, tab, stream>>
    /\ \/ /\ route \in {"dashboard", "page"} /\ auth = "out"
          /\ route' = "login" /\ wasAllowed' = FALSE /\ UNCHANGED hist
       \/ /\ route = "page" /\ auth = "in" /\ ~allowed
          /\ ~(wasAllowed /\ pending)
          /\ route' = IF wasAllowed THEN "dashboard" ELSE "notAuthorized"
          /\ wasAllowed' = wasAllowed
          /\ hist' = [hist EXCEPT !.bounced = @ \/ wasAllowed]

\* wasEverAllowed is adjusted while rendering.
Remember ==
    /\ route \in {"page", "dashboard"} /\ isAllowed(route) /\ ~wasAllowed
    /\ wasAllowed' = TRUE
    /\ UNCHANGED <<server, tab, stream, route, hist>>

Visit(p) ==
    /\ route \notin {p, "login"} /\ auth # "unchecked"
    /\ route' = p /\ wasAllowed' = isAllowed(p)
    /\ UNCHANGED <<server, tab, stream, hist>>

-----------------------------------------------------------------------------
\* What users, other devices and the clock do, as often as MaxEvents allows.
Happens ==
    /\ happened < MaxEvents /\ happened' = happened + 1
    /\ \/ Login \/ Logout \/ ChangePassword
       \/ RevokedElsewhere \/ AccessExpires
       \/ \E who \in Who : ChangeGrant(who)
       \/ \E r \in Reqs : Lost(r)

\* What follows from it.
Proceeds ==
    /\ UNCHANGED happened
    /\ \/ \E r \in Reqs : Answer(r)
       \/ \E r \in Ordinary : JoinRefresh(r) \/ RetryFails(r)
       \/ RefreshSucceeds \/ RefreshFails
       \/ DeliverMe \/ DeliverProfile \/ DeliverPassword \/ GraceEnds
       \/ Poll \/ LoginAnswered \/ LoginLands \/ LoginRefused
       \/ LogoutAnswered \/ LogoutSettles
       \/ \E who \in Who : PermissionEvent(who)
       \/ MarkSelfMutation \/ SelfMarkExpires \/ StreamCloses
       \/ LeaveLoginPage \/ Redirect \/ Remember
       \/ \E p \in {"dashboard", "page"} : Visit(p)

Next == Happens \/ Proceeds

Spec == Init /\ [][Next]_vars

\* The life of one request in the interceptor's care, and of the refresh.
Settles(r, deliver) == Answer(r) \/ JoinRefresh(r) \/ RetryFails(r) \/ deliver
RefreshSettles == Answer("refresh") \/ RefreshSucceeds \/ RefreshFails

\* The server answers or the client's 15 s timeout fires, promises settle, and
\* the poll comes round.  A person owes nothing.
FairSpec ==
    /\ Spec
    /\ WF_vars(Proceeds /\ (Poll \/ Settles("me", DeliverMe)))
    /\ WF_vars(Proceeds /\ Settles("password", DeliverPassword))
    /\ WF_vars(Proceeds /\ RefreshSettles)

-----------------------------------------------------------------------------
(* Properties *)

\* The refresh waits for a password change that waits for the refresh.
Stuck == req["refresh"].at = "rotation" /\ req["password"].at = "refresh"

\* The single-use mark of selfPermissionMutationGuard takes at most one event of
\* somebody else's for the tab's own echo per change the tab made itself.
SkippedEchoBounded == hist.skipped <= hist.own

\* ProtectedRoute sends a caller home from a page it was on only when the
\* account really lost the page's permission: a refetch, a cancelled request or
\* an unrelated event never does.
BounceIsReal == hist.bounced => hist.lost

\* Once a password change has succeeded on the server, the failure of another
\* request, or of the refresh and of those who wait for it, does not sign the tab
\* out before the new cookies land, unless a request that fails has already used
\* its one retry after a rotation, the one of an earlier password change.
RotationSpared ==
    [][/\ req["password"].at = "ok"
       /\ \/ \E r \in Ordinary : RetryFails(r) /\ ~req[r].afterRotation
          \/ /\ RefreshFails
             /\ \A r \in Reqs : r = "refresh" \/ req[r].at = "refresh"
                              => ~req[r].afterRotation
       => auth' = auth]_vars

\* The loader that dropPermissions puts over the page goes away.
PendingResolves == pending ~> (~pending \/ Stuck)

\* A revoked permission leaves the store, also when its event was taken for the
\* tab's own echo or lost with the stream.
RevokeTakesEffect == ~granted ~> (granted \/ ~allowed \/ Stuck)

\* A session that ended on the server ends in the tab.
DeadSessionNoticed ==
    (valid = 0 /\ auth = "in") ~> (auth # "in" \/ valid # 0 \/ Stuck)

\* setupAuthInterceptor.ts:76-80 promises that only a 401 ends the session:
\* "Deliberately 401-only, not 401-or-403 ... the session is fine".
OnlyA401SignsOut ==
    [][\/ RefreshFails /\ req["refresh"].at = "fail"
       \/ \E r \in Ordinary : RetryFails(r) /\ req[r].at = "fail"
       => (auth = "in" => auth' = "in")]_vars

\* sessionRotationGuard.ts:14-16 promises that the guard "never suppresses a
\* genuinely terminal 401": the refresh that answers one is not kept waiting for
\* the request that waits for it.
Terminal401Surfaces == ~Stuck

\* What ends on the server, the permission or the session, ends in the tab.
EndsAreNoticed == RevokeTakesEffect /\ DeadSessionNoticed

\* What the tab shows of the session, and the types of its state.
SessionShown == TypeOK /\ SkippedEchoBounded /\ BounceIsReal

-----------------------------------------------------------------------------
(* The inductive invariant of the proofs *)

HistOK == hist \in [own : Nat, skipped : Nat, lost : BOOLEAN, bounced : BOOLEAN]

\* The stream holds no more events than changes were made.
EventsCounted ==
    /\ happened \in 0..MaxEvents
    /\ \A w \in Who : events[w] <= happened

\* Each mark comes from a change of this tab's own, and is used once.
MarksCounted ==
    hist.skipped + (IF selfMark = "none" THEN 0 ELSE 1) <= hist.own

\* While the account has never lost the permission, every answer says so and
\* the store does, except while it waits for one.
GrantKnown ==
    ~hist.lost =>
        /\ granted
        /\ (auth = "in" /\ ~pending) => allowed
        /\ \A r \in {"me", "profile"} : req[r].at = "ok" => req[r].yes

SessionInv ==
    TypeOK /\ HistOK /\ EventsCounted /\ MarksCounted /\ GrantKnown
           /\ BounceIsReal
=============================================================================
