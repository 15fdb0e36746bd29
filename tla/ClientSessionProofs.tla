------------------------ MODULE ClientSessionProofs ------------------------
(***************************************************************************)
(* Proofs about ClientSession: whatever the order in which answers, events *)
(* and cookies reach the tab, the guard sends a caller home from a page    *)
(* only when the account lost the permission, the echo guard swallows at   *)
(* most one event per change of this tab's own, and a first failure during *)
(* a password change does not sign the tab out.                            *)
(***************************************************************************)
EXTENDS ClientSession, TLAPS

Recs == [at : {"idle", "sent", "ok", "401", "fail", "refresh", "rotation"},
         ver : Versions, yes : BOOLEAN,
         afterRefresh : BOOLEAN, afterRotation : BOOLEAN]

(* Every answer of q about the caller says that the permission is held.    *)
Answers(q) == \A r \in {"me", "profile"} : q[r].at = "ok" => q[r].yes

(* What may become of the store, while nothing has been lost.              *)
StoreMoves ==
  \/ UNCHANGED store
  \/ setAuthenticatedFalse
  \/ \E yes \in BOOLEAN : setProfile(yes) /\ (~hist.lost => yes)

(* The clock of the behaviour: a step uses up one event or none.           *)
Ticks == happened' \in 0..MaxEvents /\ happened' >= happened

LEMMA Types ==
  ASSUME TypeOK
  PROVE  /\ req \in [Reqs -> Recs]
         /\ valid \in Versions /\ last \in Versions /\ cookie \in Versions
         /\ granted \in BOOLEAN /\ expired \in BOOLEAN /\ grace \in BOOLEAN
         /\ 0 \in Versions
         /\ \A r \in Reqs : req[r] \in Recs
BY ClientAssumption DEF TypeOK, Recs, Versions

LEMMA IdleType == Idle \in Recs
BY ClientAssumption DEF Idle, Recs, Versions

---------------------------------------------------------------------------
(* The operators on requests *)

LEMMA SentType ==
  ASSUME NEW r, NEW rec \in Recs, NEW ck \in Versions, NEW exp \in BOOLEAN
  PROVE  /\ SentWith(r, rec, ck, exp) \in Recs
         /\ SentWith(r, rec, ck, exp).at # "ok"
<1>1. PICK v \in Versions : v = IF exp /\ r # "refresh" THEN 0 ELSE ck
  BY ClientAssumption DEF Versions
<1>2. \/ SentWith(r, rec, ck, exp) = [rec EXCEPT !.at = "fail"]
      \/ SentWith(r, rec, ck, exp) = [rec EXCEPT !.at = "sent", !.yes = FALSE, !.ver = v]
  BY <1>1 DEF SentWith
<1> QED BY <1>2 DEF Recs

LEMMA FreshType ==
  ASSUME TypeOK, NEW r
  PROVE  Fresh(r) \in Recs /\ Fresh(r).at # "ok"
BY Types, IdleType, SentType DEF Fresh

LEMMA CancelledType ==
  ASSUME NEW q \in [Reqs -> Recs]
  PROVE  /\ Cancelled(q) \in [Reqs -> Recs]
         /\ Answers(q) => Answers(Cancelled(q))
<1>1. Cancelled(q) \in [Reqs -> Recs]
  BY IdleType DEF Cancelled, Reqs, Ordinary
<1>2. Cancelled(q)["me"] = Idle /\ Cancelled(q)["profile"] = q["profile"]
  BY DEF Cancelled, Reqs, Ordinary
<1>3. Cancelled(q)["me"].at # "ok"
  BY <1>2 DEF Idle
<1>4. ASSUME Answers(q), Cancelled(q)["profile"].at = "ok"
      PROVE  Cancelled(q)["profile"].yes
  BY <1>2, <1>4 DEF Answers
<1> QED BY <1>1, <1>3, <1>4 DEF Answers

(* A request that moves to anything but an answer.                         *)
LEMMA OneMoves ==
  ASSUME NEW q \in [Reqs -> Recs], NEW r \in Reqs, NEW f \in Recs,
         f.at # "ok" \/ r \notin {"me", "profile"}
  PROVE  /\ [q EXCEPT ![r] = f] \in [Reqs -> Recs]
         /\ Answers(q) => Answers([q EXCEPT ![r] = f])
BY DEF Answers, Reqs, Ordinary

(* The end of some requests makes no answer.                               *)
LEMMA EndedType ==
  ASSUME NEW q \in [Reqs -> Recs], NEW over, cookie' \in Versions,
         expired' \in BOOLEAN
  PROVE  /\ Ended(q, over) \in [Reqs -> Recs]
         /\ Answers(q) => Answers(Ended(q, over))
<1>1. ASSUME NEW r \in Reqs
      PROVE  /\ SentWith(r, q[r], cookie', expired') \in Recs
             /\ SentWith(r, q[r], cookie', expired').at # "ok"
  BY SentType
<1>2. Ended(q, over) \in [Reqs -> Recs]
  BY <1>1, IdleType DEF Ended
<1>3. ASSUME NEW r \in Reqs
      PROVE  Ended(q, over)[r] = q[r] \/ Ended(q, over)[r].at # "ok"
  BY <1>1 DEF Ended, Idle
<1> QED BY <1>2, <1>3 DEF Answers, Reqs, Ordinary

LEMMA AfterRotationType ==
  ASSUME TypeOK, NEW r \in Reqs
  PROVE  /\ AfterRotation(r, req[r]) \in Recs
         /\ AfterRotation(r, req[r]).at # "ok"
<1>1. req[r] \in Recs
  BY Types
<1>2. /\ [req[r] EXCEPT !.at = "rotation", !.afterRotation = TRUE] \in Recs
      /\ [req[r] EXCEPT !.at = "rotation", !.afterRotation = TRUE].at # "ok"
      /\ [req[r] EXCEPT !.afterRotation = TRUE] \in Recs
  BY <1>1 DEF Recs
<1> QED BY <1>2, Types, SentType DEF AfterRotation

LEMMA FallType ==
  ASSUME TypeOK, NEW S, cookie' \in Versions, expired' \in BOOLEAN
  PROVE  /\ Fall(S) \in [Reqs -> Recs]
         /\ Answers(req) => Answers(Fall(S))
<1> DEFINE q == [r \in Reqs |-> IF r \in S \ GivingUp(S)
                                THEN AfterRotation(r, req[r]) ELSE req[r]]
<1>1. q \in [Reqs -> Recs]
  BY Types, AfterRotationType
<1>2. Answers(req) => Answers(q)
  BY AfterRotationType DEF Answers, Reqs, Ordinary
<1>3. Fall(S) = Ended(q, GivingUp(S))
  BY DEF Fall
<1> HIDE DEF q
<1> QED BY <1>1, <1>2, <1>3, EndedType

---------------------------------------------------------------------------
(* The kinds of step *)

LEMMA InitInv == Init => SessionInv
<1> SUFFICES ASSUME Init PROVE SessionInv
  OBVIOUS
<1>1. /\ 0 \in Versions /\ 1 \in Versions /\ cookie \in Versions
      /\ valid \in Versions /\ 0 \in 0..MaxEvents
  BY ClientAssumption DEF Init, Versions
<1>2. Idle \in Recs /\ [Idle EXCEPT !.at = "sent", !.ver = cookie] \in Recs
  BY <1>1, IdleType DEF Recs
<1>3. req \in [Reqs -> Recs] /\ \A r \in Reqs : req[r].at # "ok"
  BY <1>2 DEF Init, Idle
<1>4. TypeOK
  BY <1>1, <1>3 DEF Init, TypeOK, Recs
<1> QED
  BY <1>1, <1>3, <1>4
  DEF Init, SessionInv, HistOK, EventsCounted, MarksCounted, GrantKnown, BounceIsReal,
      Reqs, Ordinary

(* Requests, cookies, the login form and the store move; the server, the   *)
(* stream and the page do not.                                             *)
LEMMA TabMoves ==
  ASSUME SessionInv, Ticks, UNCHANGED others, UNCHANGED hist, StoreMoves,
         req' \in [Reqs -> Recs], Answers(req) => Answers(req'),
         cookie' \in Versions, expired' \in BOOLEAN, grace' \in BOOLEAN,
         login' \in {"idle", "sent", "ok", "refused", "profile"}
  PROVE  SessionInv'
<1>1. /\ UNCHANGED <<valid, last, granted, logout, events, selfMark, route>>
      /\ UNCHANGED <<wasAllowed, hist>>
  BY DEF others, server, stream, page
<1>2. TypeOK'
  BY <1>1 DEF SessionInv, TypeOK, StoreMoves, store, setAuthenticatedFalse, setProfile,
              Recs
<1>3. ASSUME ~hist.lost
      PROVE  granted /\ (auth' = "in" /\ ~pending' => allowed') /\ Answers(req')
  BY <1>3
  DEF SessionInv, GrantKnown, Answers, StoreMoves, store, setAuthenticatedFalse,
      setProfile
<1>4. GrantKnown'
  BY <1>1, <1>3 DEF GrantKnown, Answers
<1>5. HistOK' /\ MarksCounted' /\ BounceIsReal'
  BY <1>1 DEF SessionInv, HistOK, MarksCounted, BounceIsReal
<1>6. EventsCounted'
  <2>1. happened \in Nat /\ happened' \in Nat /\ \A w \in Who : events[w] \in Nat
    BY ClientAssumption DEF SessionInv, EventsCounted, TypeOK, Ticks
  <2> QED BY <1>1, <2>1 DEF SessionInv, EventsCounted, Ticks
<1> QED BY <1>2, <1>4, <1>5, <1>6 DEF SessionInv

LEMMA RetryInv ==
  ASSUME SessionInv, Ticks, NEW r \in Ordinary, JoinRefresh(r) \/ RetryFails(r)
  PROVE  SessionInv'
<1>1. /\ cookie' \in Versions /\ expired' \in BOOLEAN /\ UNCHANGED others
      /\ TypeOK /\ UNCHANGED hist
  BY Types DEF SessionInv, JoinRefresh, RetryFails, SignOut
<1>2. CASE JoinRefresh(r)
  <2>1. PICK f \in Recs, g \in Recs :
             /\ g = [req[r] EXCEPT !.at = "refresh"]
             /\ req' = [req EXCEPT ![r] = g, !["refresh"] = f]
    <3>0. r \in Reqs
      BY DEF Reqs
    <3>1. PICK g \in Recs : g = [req[r] EXCEPT !.at = "refresh"]
      BY <1>1, <3>0, Types DEF Recs
    <3>2. CASE req["refresh"].at = "idle"
      BY <1>1, <1>2, <3>1, <3>2, FreshType, Types DEF JoinRefresh, Reqs, Ordinary
    <3>3. CASE req["refresh"].at # "idle"
      BY <1>1, <1>2, <3>1, <3>3, FreshType, Types DEF JoinRefresh, Reqs, Ordinary
    <3> QED BY <3>2, <3>3
  <2>2. req' \in [Reqs -> Recs] /\ (Answers(req) => Answers(req'))
    <3>1. [req EXCEPT ![r] = g] \in [Reqs -> Recs]
          /\ (Answers(req) => Answers([req EXCEPT ![r] = g]))
      BY <1>1, <2>1, OneMoves, Types DEF Recs, Reqs
    <3> QED BY <2>1, <3>1, OneMoves DEF Reqs
  <2>3. UNCHANGED <<store, login, grace>>
    BY <1>2 DEF JoinRefresh
  <2> QED BY <1>1, <2>2, <2>3, TabMoves DEF StoreMoves, SessionInv, TypeOK
<1>3. CASE RetryFails(r)
  <2>1. StoreMoves
    BY <1>3 DEF RetryFails, SignOut, StoreMoves
  <2>2. /\ login' \in {"idle", "sent", "ok", "refused", "profile"}
        /\ grace' \in BOOLEAN
    BY <1>1, <1>3 DEF RetryFails, CallersSee, TypeOK
  <2>3. req' \in [Reqs -> Recs] /\ (Answers(req) => Answers(req'))
    BY <1>1, <1>3, FallType DEF RetryFails
  <2> QED BY <1>1, <2>1, <2>2, <2>3, TabMoves
<1> QED BY <1>2, <1>3

LEMMA RefreshInv ==
  ASSUME SessionInv, Ticks, RefreshSucceeds \/ RefreshFails
  PROVE  SessionInv'
<1>1. TypeOK /\ UNCHANGED others /\ UNCHANGED hist
  BY DEF SessionInv, RefreshSucceeds, RefreshFails, SignOut
<1>2. CASE RefreshSucceeds
  <2>1. cookie' \in Versions /\ expired' \in BOOLEAN
    BY <1>1, <1>2, Types DEF RefreshSucceeds, Recs, Reqs
  <2>2. ASSUME NEW r \in Reqs
        PROVE  /\ SentWith(r, [req[r] EXCEPT !.afterRefresh = TRUE], cookie', FALSE)
                    \in Recs
               /\ SentWith(r, [req[r] EXCEPT !.afterRefresh = TRUE], cookie', FALSE).at
                    # "ok"
    <3>1. [req[r] EXCEPT !.afterRefresh = TRUE] \in Recs
      BY <1>1, Types DEF Recs
    <3> QED BY <2>1, <3>1, SentType
  <2>3. req' \in [Reqs -> Recs]
    BY <1>1, <1>2, <2>2, Types, IdleType DEF RefreshSucceeds
  <2>4. Answers(req) => Answers(req')
    BY <1>2, <2>2 DEF RefreshSucceeds, Answers, Reqs, Ordinary
  <2>5. UNCHANGED <<store, login, grace>>
    BY <1>2 DEF RefreshSucceeds
  <2> QED BY <1>1, <2>1, <2>3, <2>4, <2>5, TabMoves DEF StoreMoves, SessionInv, TypeOK
<1>3. CASE RefreshFails
  <2>1. cookie' \in Versions /\ expired' \in BOOLEAN
    BY <1>1, <1>3, Types DEF RefreshFails
  <2>2. /\ login' \in {"idle", "sent", "ok", "refused", "profile"}
        /\ grace' \in BOOLEAN
    BY <1>1, <1>3 DEF RefreshFails, CallersSee, TypeOK
  <2>3. StoreMoves
    BY <1>3 DEF RefreshFails, SignOut, StoreMoves
  <2>4. \A f \in Recs : f.at # "ok" =>
          /\ [req EXCEPT !["refresh"] = f] \in [Reqs -> Recs]
          /\ Answers(req) => Answers([req EXCEPT !["refresh"] = f])
    BY <1>1, Types DEF Answers, Reqs, Ordinary
  <2>5. ASSUME NEW S
        PROVE  /\ [Fall(S) EXCEPT !["refresh"] = Idle] \in [Reqs -> Recs]
               /\ Answers(req) => Answers([Fall(S) EXCEPT !["refresh"] = Idle])
    <3> DEFINE q == Fall(S)
    <3>1. q \in [Reqs -> Recs] /\ (Answers(req) => Answers(q))
      BY <1>1, <2>1, FallType
    <3> HIDE DEF q
    <3>2. [q EXCEPT !["refresh"] = Idle] \in [Reqs -> Recs]
      BY <3>1, IdleType
    <3>3. Answers(q) => Answers([q EXCEPT !["refresh"] = Idle])
      BY <3>1 DEF Answers, Reqs, Ordinary
    <3> QED BY <3>1, <3>2, <3>3 DEF q
  <2>6. "refresh" \in Reqs
    BY DEF Reqs
  <2>7. req' \in [Reqs -> Recs] /\ (Answers(req) => Answers(req'))
    BY <1>1, <1>3, <2>4, <2>5, <2>6, AfterRotationType DEF RefreshFails
  <2> QED BY <1>1, <2>1, <2>2, <2>3, <2>7, TabMoves
<1> QED BY <1>2, <1>3

LEMMA DeliverInv ==
  ASSUME SessionInv, Ticks, DeliverMe \/ DeliverProfile \/ DeliverPassword
  PROVE  SessionInv'
<1>1. TypeOK /\ UNCHANGED others /\ UNCHANGED hist
  BY DEF SessionInv, DeliverMe, DeliverProfile, DeliverPassword
<1>2. cookie' \in Versions /\ expired' \in BOOLEAN
  BY <1>1, Types DEF DeliverMe, DeliverProfile, DeliverPassword, Recs, Reqs, Ordinary
<1>3. grace' \in BOOLEAN /\ login' \in {"idle", "sent", "ok", "refused", "profile"}
  BY <1>1 DEF DeliverMe, DeliverProfile, DeliverPassword, TypeOK
<1>4. req' \in [Reqs -> Recs] /\ (Answers(req) => Answers(req'))
  <2>1. CASE DeliverPassword
    BY <1>1, <1>2, <2>1, Types, EndedType DEF DeliverPassword
  <2>2. CASE DeliverMe \/ DeliverProfile
    <3>1. Idle.at # "ok"
      BY DEF Idle
    <3> QED
      BY <1>1, <2>2, <3>1, Types, IdleType, OneMoves
      DEF DeliverMe, DeliverProfile, Reqs, Ordinary
  <2> QED BY <2>1, <2>2
<1>5. StoreMoves
  <2>1. ASSUME NEW r \in {"me", "profile"}, req[r].at = "ok"
        PROVE  req[r].yes \in BOOLEAN /\ (~hist.lost => req[r].yes)
    BY <1>1, <2>1, Types DEF SessionInv, GrantKnown, Recs, Reqs, Ordinary
  <2> QED BY <2>1 DEF DeliverMe, DeliverProfile, DeliverPassword, StoreMoves
<1> QED BY <1>1, <1>2, <1>3, <1>4, <1>5, TabMoves

(* Requests that leave, are lost or are cancelled, cookies that expire, and *)
(* the login's answer.                                                      *)
LEMMA RequestInv ==
  ASSUME SessionInv, Ticks,
         \/ GraceEnds \/ AccessExpires \/ Poll \/ Login \/ ChangePassword
         \/ LoginLands \/ LoginRefused
         \/ \E r \in Reqs : Lost(r)
  PROVE  SessionInv'
<1>1. TypeOK /\ UNCHANGED others /\ UNCHANGED hist
  BY DEF SessionInv, GraceEnds, AccessExpires, Poll, Login, ChangePassword, LoginLands,
         LoginRefused, Lost
<1>2. cookie' \in Versions /\ expired' \in BOOLEAN
  BY <1>1, Types DEF GraceEnds, AccessExpires, Poll, Login, ChangePassword, LoginLands,
         LoginRefused, Lost
<1>3. grace' \in BOOLEAN /\ login' \in {"idle", "sent", "ok", "refused", "profile"}
  BY <1>1 DEF GraceEnds, AccessExpires, Poll, Login, ChangePassword, LoginLands,
         LoginRefused, Lost, TypeOK
<1>4. StoreMoves
  BY DEF GraceEnds, AccessExpires, Poll, Login, ChangePassword, LoginLands, LoginRefused,
         Lost, StoreMoves
<1>5. ASSUME NEW r \in Reqs, NEW f \in Recs, f.at # "ok",
             req' = [req EXCEPT ![r] = f]
      PROVE  req' \in [Reqs -> Recs] /\ (Answers(req) => Answers(req'))
  <2>1. req \in [Reqs -> Recs]
    BY <1>1, Types
  <2> QED BY <1>5, <2>1, OneMoves
<1>6. req' \in [Reqs -> Recs] /\ (Answers(req) => Answers(req'))
  <2>1. CASE Poll \/ ChangePassword
    BY <1>1, <1>5, <2>1, FreshType DEF Poll, ChangePassword, Reqs, Ordinary
  <2>2. CASE Login
    BY <1>1, <2>2, Types, CancelledType DEF Login
  <2>3. CASE LoginLands
    <3>1. /\ SentWith("profile", Idle, last, FALSE) \in Recs
          /\ SentWith("profile", Idle, last, FALSE).at # "ok"
      BY <1>1, Types, IdleType, SentType
    <3> QED BY <1>5, <2>3, <3>1 DEF LoginLands, Reqs, Ordinary
  <2>4. ASSUME NEW r \in Reqs, Lost(r)
        PROVE  req' \in [Reqs -> Recs] /\ (Answers(req) => Answers(req'))
    <3>1. PICK f \in Recs : f = [req[r] EXCEPT !.at = "fail"]
      BY <1>1, Types DEF Recs
    <3>2. f.at # "ok" /\ req' = [req EXCEPT ![r] = f]
      BY <1>1, <2>4, <3>1, Types DEF Lost, Recs
    <3> QED BY <1>5, <3>1, <3>2
  <2>5. CASE GraceEnds \/ AccessExpires \/ LoginRefused
    BY <1>1, <2>5, Types DEF GraceEnds, AccessExpires, LoginRefused
  <2> QED BY <2>1, <2>2, <2>3, <2>4, <2>5
<1> QED BY <1>1, <1>2, <1>3, <1>4, <1>6, TabMoves

(* The server answers, issues a session or ends one; the stream, the page  *)
(* and the permission stay.                                                *)
LEMMA ServerMoves ==
  ASSUME SessionInv, Ticks, UNCHANGED <<granted, stream, page, hist>>,
         UNCHANGED <<cookie, expired, grace>>, StoreMoves,
         req' \in [Reqs -> Recs], Answers(req) /\ granted => Answers(req'),
         valid' \in Versions, last' \in Versions,
         login' \in {"idle", "sent", "ok", "refused", "profile"},
         logout' \in [at : {"idle", "sent", "ok", "lost"}, ver : Versions]
  PROVE  SessionInv'
<1>1. UNCHANGED <<events, selfMark, route, wasAllowed>>
  BY DEF stream, page
<1>2. TypeOK'
  BY <1>1 DEF SessionInv, TypeOK, StoreMoves, store, setAuthenticatedFalse, setProfile,
              Recs
<1>3. ASSUME ~hist.lost
      PROVE  granted /\ (auth' = "in" /\ ~pending' => allowed') /\ Answers(req')
  BY <1>3
  DEF SessionInv, GrantKnown, Answers, StoreMoves, store, setAuthenticatedFalse,
      setProfile
<1>4. GrantKnown'
  BY <1>1, <1>3 DEF GrantKnown, Answers
<1>5. HistOK' /\ MarksCounted' /\ BounceIsReal'
  BY <1>1 DEF SessionInv, HistOK, MarksCounted, BounceIsReal
<1>6. EventsCounted'
  <2>1. happened \in Nat /\ happened' \in Nat /\ \A w \in Who : events[w] \in Nat
    BY ClientAssumption DEF SessionInv, EventsCounted, TypeOK, Ticks
  <2> QED BY <1>1, <2>1 DEF SessionInv, EventsCounted, Ticks
<1> QED BY <1>2, <1>4, <1>5, <1>6 DEF SessionInv

LEMMA AnswerInv ==
  ASSUME SessionInv, Ticks, NEW r \in Reqs, Answer(r)
  PROVE  SessionInv'
<1>1. TypeOK /\ UNCHANGED <<granted, stream, page, hist>>
      /\ UNCHANGED <<cookie, expired, grace, login, logout, store>>
  BY DEF SessionInv, Answer
<1>2. valid' \in Versions /\ last' \in Versions
  BY <1>1, Types, ClientAssumption DEF Answer, Versions
<1>3. PICK f \in Recs : /\ req' = [req EXCEPT ![r] = f]
                        /\ f.at # "ok" \/ f.yes = (r \in {"me", "profile"} /\ granted)
  <2>1. req[r] \in Recs
    BY <1>1, Types
  <2>2. CASE /\ req' = [req EXCEPT ![r].at = "ok", ![r].ver = valid',
                          ![r].yes = r \in {"me", "profile"} /\ granted]
    <3>1. PICK y \in BOOLEAN : y = (r \in {"me", "profile"} /\ granted)
      OBVIOUS
    <3>2. req' = [req EXCEPT ![r] = [req[r] EXCEPT !.at = "ok", !.ver = valid', !.yes = y]]
      BY <1>1, <2>2, <3>1, Types
    <3>3. [req[r] EXCEPT !.at = "ok", !.ver = valid', !.yes = y] \in Recs
      BY <1>2, <2>1 DEF Recs
    <3>4. [req[r] EXCEPT !.at = "ok", !.ver = valid', !.yes = y].yes = y
      BY <2>1 DEF Recs
    <3> QED BY <3>1, <3>2, <3>3, <3>4
  <2>3. CASE \E a \in {"fail", "401"} : req' = [req EXCEPT ![r].at = a]
    <3>1. PICK a \in {"fail", "401"} : req' = [req EXCEPT ![r] = [req[r] EXCEPT !.at = a]]
      BY <1>1, <2>3, Types
    <3>2. [req[r] EXCEPT !.at = a] \in Recs
      BY <2>1 DEF Recs
    <3>3. [req[r] EXCEPT !.at = a].at # "ok"
      BY <2>1 DEF Recs
    <3> QED BY <3>1, <3>2, <3>3
  <2> QED BY <2>2, <2>3 DEF Answer
<1>4. req' \in [Reqs -> Recs]
  BY <1>1, <1>3, Types
<1>5. Answers(req) /\ granted => Answers(req')
  BY <1>1, <1>3, Types DEF Answers, Reqs, Ordinary
<1> QED
  BY <1>1, <1>2, <1>4, <1>5, ServerMoves DEF StoreMoves, SessionInv, TypeOK

LEMMA SessionsInv ==
  ASSUME SessionInv, Ticks,
         \/ LoginAnswered \/ RevokedElsewhere
         \/ Logout \/ LogoutAnswered
  PROVE  SessionInv'
<1>1. TypeOK /\ UNCHANGED <<granted, stream, page, hist>>
      /\ UNCHANGED <<cookie, expired, grace, req, store>>
  BY DEF SessionInv, LoginAnswered, RevokedElsewhere, Logout, LogoutAnswered, tab,
         server
<1>2. valid' \in Versions /\ last' \in Versions
  BY <1>1, Types, ClientAssumption
  DEF LoginAnswered, RevokedElsewhere, Logout, LogoutAnswered, server, Versions
<1>3. /\ login' \in {"idle", "sent", "ok", "refused", "profile"}
      /\ logout' \in [at : {"idle", "sent", "ok", "lost"}, ver : Versions]
  BY <1>1, Types DEF LoginAnswered, RevokedElsewhere, Logout, LogoutAnswered, tab, TypeOK
<1> QED BY <1>1, <1>2, <1>3, Types, ServerMoves DEF StoreMoves

LEMMA SettlesInv ==
  ASSUME SessionInv, Ticks, LogoutSettles
  PROVE  SessionInv'
<1>1. TypeOK /\ UNCHANGED <<server, stream, page, hist, req, login, grace>>
      /\ setAuthenticatedFalse
  BY DEF SessionInv, LogoutSettles
<1>2. UNCHANGED <<valid, last, granted, events, selfMark, route, wasAllowed>>
  BY <1>1 DEF server, stream, page
<1>3. /\ cookie' \in Versions /\ expired' \in BOOLEAN
      /\ logout' \in [at : {"idle", "sent", "ok", "lost"}, ver : Versions]
  BY <1>1, Types DEF LogoutSettles
<1>4. TypeOK'
  BY <1>1, <1>2, <1>3 DEF TypeOK, setAuthenticatedFalse
<1>5. GrantKnown'
  BY <1>1, <1>2 DEF SessionInv, GrantKnown, setAuthenticatedFalse
<1>6. HistOK' /\ MarksCounted' /\ BounceIsReal'
  BY <1>1, <1>2 DEF SessionInv, HistOK, MarksCounted, BounceIsReal
<1>7. EventsCounted'
  <2>1. happened \in Nat /\ happened' \in Nat /\ \A w \in Who : events[w] \in Nat
    BY ClientAssumption DEF SessionInv, EventsCounted, TypeOK, Ticks
  <2> QED BY <1>2, <2>1 DEF SessionInv, EventsCounted, Ticks
<1> QED BY <1>4, <1>5, <1>6, <1>7 DEF SessionInv

---------------------------------------------------------------------------
(* The stream of permission events *)

LEMMA GrantInv ==
  ASSUME SessionInv, NEW who \in Who, ChangeGrant(who), happened < MaxEvents,
         happened' = happened + 1
  PROVE  SessionInv'
<1>1. /\ TypeOK /\ UNCHANGED <<valid, last, route, wasAllowed>>
      /\ UNCHANGED <<cookie, expired, auth, allowed, pending, req, login, logout, grace>>
  BY DEF SessionInv, ChangeGrant, tab, store, page
<1>2. happened \in 0..MaxEvents /\ MaxEvents \in Nat /\ granted' \in BOOLEAN
  BY ClientAssumption DEF SessionInv, EventsCounted, ChangeGrant
<1>3. EventsCounted' /\ events' \in [Who -> 0..MaxEvents]
  BY <1>1, <1>2 DEF SessionInv, EventsCounted, ChangeGrant, TypeOK
<1>4. PICK n \in Nat, m \in Nat :
        /\ n = hist.own /\ m = hist.skipped
        /\ m + (IF selfMark = "none" THEN 0 ELSE 1) <= n
  BY DEF SessionInv, HistOK, MarksCounted
<1>5. /\ selfMark' \in {"none", "due", "armed"} /\ HistOK'
      /\ hist'.skipped = m /\ hist'.own = (IF who = "own" THEN n + 1 ELSE n)
      /\ selfMark' = (IF who = "own" THEN "due" ELSE selfMark)
      /\ hist'.bounced = hist.bounced /\ hist'.lost = (hist.lost \/ ~granted')
  <2>1. selfMark' = (IF who = "own" THEN "due" ELSE selfMark)
    BY DEF ChangeGrant
  <2>2. PICK b \in BOOLEAN : b = (hist.lost \/ ~granted')
    OBVIOUS
  <2>3. PICK k \in Nat : k = IF who = "own" THEN n + 1 ELSE n
    OBVIOUS
  <2>4. hist' = [hist EXCEPT !.own = k, !.lost = b]
    BY <1>4, <2>2, <2>3 DEF SessionInv, HistOK, ChangeGrant
  <2>5. /\ HistOK' /\ hist'.skipped = m /\ hist'.own = k
        /\ hist'.bounced = hist.bounced /\ hist'.lost = b
    BY <1>4, <2>4 DEF SessionInv, HistOK
  <2> QED BY <1>1, <2>1, <2>2, <2>3, <2>5 DEF TypeOK
<1>6. MarksCounted'
  BY <1>1, <1>4, <1>5 DEF MarksCounted, TypeOK
<1>7. TypeOK'
  BY <1>1, <1>2, <1>3, <1>5 DEF TypeOK
<1>8. GrantKnown' /\ BounceIsReal'
  BY <1>1, <1>2, <1>5 DEF SessionInv, GrantKnown, BounceIsReal
<1> QED BY <1>3, <1>5, <1>6, <1>7, <1>8 DEF SessionInv

LEMMA EventInv ==
  ASSUME SessionInv, NEW who \in Who, PermissionEvent(who), UNCHANGED happened
  PROVE  SessionInv'
<1>1. /\ TypeOK /\ UNCHANGED <<valid, last, granted, route, wasAllowed>>
      /\ UNCHANGED <<cookie, expired, auth, login, logout, grace>>
  BY DEF SessionInv, PermissionEvent, server, page
<1>2. req' \in [Reqs -> Recs] /\ (Answers(req) => Answers(req'))
  <2>1. "me" \in Reqs
    BY DEF Reqs, Ordinary
  <2> QED BY <1>1, <2>1, CancelledType, FreshType, OneMoves, Types DEF PermissionEvent
<1>3. EventsCounted' /\ events' \in [Who -> 0..MaxEvents]
  BY <1>1, ClientAssumption DEF SessionInv, EventsCounted, PermissionEvent, TypeOK
<1>4. PICK n \in Nat, m \in Nat :
        /\ n = hist.own /\ m = hist.skipped
        /\ m + (IF selfMark = "none" THEN 0 ELSE 1) <= n
  BY DEF SessionInv, HistOK, MarksCounted
<1>5. CASE selfMark = "armed"
  <2>1. /\ UNCHANGED <<allowed, pending>> /\ selfMark' = "none"
        /\ HistOK' /\ hist'.own = n
        /\ hist'.skipped = (IF who = "foreign" THEN m + 1 ELSE m)
        /\ hist'.bounced = hist.bounced /\ hist'.lost = hist.lost
    BY <1>4, <1>5 DEF SessionInv, HistOK, PermissionEvent
  <2>2. TypeOK'
    BY <1>1, <1>2, <1>3, <2>1 DEF TypeOK, Recs
  <2>3. MarksCounted'
    BY <1>4, <1>5, <2>1 DEF MarksCounted
  <2>4. GrantKnown' /\ BounceIsReal'
    BY <1>1, <1>2, <2>1 DEF SessionInv, GrantKnown, BounceIsReal, Answers
  <2> QED BY <1>3, <2>1, <2>2, <2>3, <2>4 DEF SessionInv
<1>6. CASE selfMark # "armed"
  <2>1. UNCHANGED <<selfMark, hist>> /\ allowed' = FALSE /\ pending' = TRUE
    BY <1>6 DEF PermissionEvent
  <2>2. TypeOK'
    BY <1>1, <1>2, <1>3, <2>1 DEF TypeOK, Recs
  <2>3. GrantKnown' /\ BounceIsReal' /\ MarksCounted' /\ HistOK'
    BY <1>1, <1>2, <2>1
    DEF SessionInv, GrantKnown, BounceIsReal, Answers, MarksCounted, HistOK
  <2> QED BY <1>3, <2>2, <2>3 DEF SessionInv
<1> QED BY <1>5, <1>6

LEMMA StreamInv ==
  ASSUME SessionInv, MarkSelfMutation \/ SelfMarkExpires \/ StreamCloses,
         UNCHANGED happened
  PROVE  SessionInv'
<1>1. /\ TypeOK /\ UNCHANGED <<valid, last, granted, route, wasAllowed, hist>>
      /\ UNCHANGED <<cookie, expired, auth, allowed, pending, req, login, logout, grace>>
  BY DEF SessionInv, MarkSelfMutation, SelfMarkExpires, StreamCloses, server, page, tab,
         store
<1>2. EventsCounted' /\ events' \in [Who -> 0..MaxEvents]
  BY <1>1, ClientAssumption
  DEF SessionInv, EventsCounted, MarkSelfMutation, SelfMarkExpires, StreamCloses, TypeOK
<1>3. selfMark' \in {"none", "due", "armed"} /\ (selfMark = "none" => selfMark' = "none")
  BY <1>1 DEF MarkSelfMutation, SelfMarkExpires, StreamCloses, TypeOK
<1>4. HistOK /\ MarksCounted
  BY DEF SessionInv
<1>5. MarksCounted'
  BY <1>1, <1>3, <1>4 DEF MarksCounted, HistOK
<1>6. TypeOK'
  BY <1>1, <1>2, <1>3 DEF TypeOK
<1>7. GrantKnown' /\ BounceIsReal' /\ HistOK'
  BY <1>1 DEF SessionInv, GrantKnown, BounceIsReal, HistOK
<1> QED BY <1>2, <1>5, <1>6, <1>7 DEF SessionInv

---------------------------------------------------------------------------
(* The route guard *)

(* The guard sends home a caller whose permission is known to be gone; the *)
(* store knows that only if it was lost.                                   *)
LEMMA PageInv ==
  ASSUME SessionInv, UNCHANGED happened,
         \/ LeaveLoginPage \/ Redirect \/ Remember
         \/ \E p \in {"dashboard", "page"} : Visit(p)
  PROVE  SessionInv'
<1>1. TypeOK /\ UNCHANGED <<server, tab, stream>>
  BY DEF SessionInv, LeaveLoginPage, Redirect, Remember, Visit
<1>2. /\ UNCHANGED <<valid, last, granted, cookie, expired, auth, allowed, pending>>
      /\ UNCHANGED <<req, login, logout, grace, events, selfMark>>
  BY <1>1 DEF server, tab, store, stream
<1>3. route' \in {"login", "dashboard", "page", "notAuthorized"} /\ wasAllowed' \in BOOLEAN
  BY <1>1 DEF LeaveLoginPage, Redirect, Remember, Visit, isAllowed, TypeOK
<1>4. TypeOK'
  BY <1>1, <1>2, <1>3 DEF TypeOK
<1>5. CASE UNCHANGED hist
  BY <1>2, <1>4, <1>5
  DEF SessionInv, HistOK, EventsCounted, MarksCounted, GrantKnown, BounceIsReal
<1>6. CASE hist' = [hist EXCEPT !.bounced = @ \/ wasAllowed] /\ Redirect
  <2>1. HistOK /\ wasAllowed \in BOOLEAN
    BY <1>1 DEF SessionInv, TypeOK
  <2>2. PICK b \in BOOLEAN : b = (hist.bounced \/ wasAllowed)
    OBVIOUS
  <2>3. hist' = [hist EXCEPT !.bounced = b]
    BY <1>6, <2>2
  <2>4. /\ HistOK' /\ hist'.bounced = b /\ hist'.lost = hist.lost
        /\ hist'.own = hist.own /\ hist'.skipped = hist.skipped
    BY <2>1, <2>3 DEF HistOK
  <2>5. wasAllowed => hist.lost
    <3>1. CASE auth = "in" /\ ~allowed /\ ~(wasAllowed /\ pending)
      BY <3>1 DEF SessionInv, GrantKnown
    <3>2. CASE hist' = hist
      BY <2>1, <2>2, <2>4, <3>2 DEF SessionInv, BounceIsReal
    <3> QED BY <1>6, <3>1, <3>2 DEF Redirect
  <2>6. BounceIsReal'
    BY <2>2, <2>4, <2>5 DEF SessionInv, BounceIsReal
  <2>7. EventsCounted' /\ MarksCounted' /\ GrantKnown'
    BY <1>2, <2>4 DEF SessionInv, EventsCounted, MarksCounted, GrantKnown
  <2> QED BY <1>4, <2>4, <2>6, <2>7 DEF SessionInv
<1> QED BY <1>5, <1>6 DEF LeaveLoginPage, Redirect, Remember, Visit

---------------------------------------------------------------------------
(* The theorems *)

LEMMA NextInv == SessionInv /\ [Next]_vars => SessionInv'
<1> SUFFICES ASSUME SessionInv, [Next]_vars PROVE SessionInv'
  OBVIOUS
<1>1. CASE UNCHANGED vars
  BY <1>1
  DEF vars, SessionInv, TypeOK, HistOK, EventsCounted, MarksCounted, GrantKnown,
      BounceIsReal
<1>2. happened \in 0..MaxEvents /\ MaxEvents \in Nat
  BY ClientAssumption DEF SessionInv, EventsCounted
<1>3. CASE Happens
  <2>1. Ticks /\ happened < MaxEvents /\ happened' = happened + 1
    BY <1>2, <1>3 DEF Happens, Ticks
  <2> QED
    BY <1>3, <2>1, RequestInv, SessionsInv, GrantInv DEF Happens
<1>4. CASE Proceeds
  <2>1. Ticks /\ UNCHANGED happened
    BY <1>2, <1>4 DEF Proceeds, Ticks
  <2> QED
    BY <1>4, <2>1, AnswerInv, RetryInv, RefreshInv, DeliverInv, RequestInv, SessionsInv,
       SettlesInv, EventInv, StreamInv, PageInv
    DEF Proceeds
<1> QED BY <1>1, <1>3, <1>4 DEF Next

(* The inductive invariant holds of every behaviour, whatever the bounds.  *)
THEOREM SessionInvAlways == Spec => []SessionInv
<1> QED BY InitInv, NextInv, PTL DEF Spec

(* The guard of the routes bounces a caller only from a page whose         *)
(* permission the account really lost, and the guard against a tab's own   *)
(* echoes takes at most one event of somebody else's per change it made.   *)
THEOREM SessionAlwaysShown == Spec => []SessionShown
<1>1. SessionInv => SessionShown
  <2> SUFFICES ASSUME SessionInv PROVE SessionShown
    OBVIOUS
  <2>1. HistOK /\ MarksCounted
    BY DEF SessionInv
  <2>2. SkippedEchoBounded
    BY <2>1 DEF HistOK, MarksCounted, SkippedEchoBounded
  <2> QED BY <2>2 DEF SessionInv, SessionShown
<1> QED BY <1>1, InitInv, NextInv, PTL DEF Spec

(* While a password change has succeeded and its cookies have not landed,  *)
(* a request that has a retry left waits for them instead of ending the    *)
(* session, and so do the refresh and those who wait for it.               *)
THEOREM RotationAlwaysSpared == Spec => RotationSpared
<1>1. ASSUME req["password"].at = "ok",
             \/ \E r \in Ordinary : RetryFails(r) /\ ~req[r].afterRotation
             \/ /\ RefreshFails
                /\ \A r \in Reqs : r = "refresh" \/ req[r].at = "refresh"
                                 => ~req[r].afterRotation
      PROVE  auth' = auth
  <2>1. Rotating
    BY <1>1 DEF Rotating
  <2>2. ASSUME NEW S, \A r \in S : ~req[r].afterRotation
        PROVE  GivingUp(S) = {}
    BY <2>1, <2>2 DEF GivingUp, MayRetryRotation
  <2>3. CASE \E r \in Ordinary : RetryFails(r) /\ ~req[r].afterRotation
    <3>1. PICK r \in Ordinary : RetryFails(r) /\ ~req[r].afterRotation
      BY <2>3
    <3>2. GivingUp({r}) = {}
      BY <2>2, <3>1
    <3> QED BY <3>1, <3>2 DEF RetryFails, SignOut, store
  <2>4. CASE /\ RefreshFails
             /\ \A r \in Reqs : r = "refresh" \/ req[r].at = "refresh"
                              => ~req[r].afterRotation
    <3> DEFINE waiting == {r \in Ordinary : req[r].at = "refresh"}
    <3>1. ~req["refresh"].afterRotation /\ MayRetryRotation(req["refresh"])
      BY <2>1, <2>4 DEF MayRetryRotation, Reqs
    <3>2. GivingUp(waiting) = {}
      BY <2>2, <2>4 DEF Reqs
    <3>3. CASE req["refresh"].at = "401"
      BY <2>4, <3>1, <3>3 DEF RefreshFails, store
    <3>4. CASE req["refresh"].at # "401"
      <4>1. SignOut(GivingUp(waiting)) \/ UNCHANGED store
        BY <2>4, <3>1, <3>4 DEF RefreshFails
      <4> QED BY <3>2, <4>1 DEF SignOut, store
    <3> QED BY <3>3, <3>4
  <2> QED BY <1>1, <2>3, <2>4
<1> QED BY <1>1, PTL DEF Spec, RotationSpared
=============================================================================
