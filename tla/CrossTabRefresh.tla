--------------------------- MODULE CrossTabRefresh --------------------------
(***************************************************************************)
(* The serialisation of refresh-token rotation across the tabs of one      *)
(* browser (auth/session_lifecycle/crossTabRefresh.ts): Web Locks where    *)
(* the browser has them, otherwise a lease kept in localStorage.           *)
(*                                                                         *)
(* A tab's storage calls are steps of their own in the lease path: two     *)
(* tabs of one origin may run in different processes, and nothing makes a  *)
(* read and the write after it one step.  The server rotates a single-use  *)
(* token: a request sent with a token already used is answered 401.        *)
(***************************************************************************)
EXTENDS Integers, FiniteSets

CONSTANTS
    Tabs,       \* tabs of the browser
    None,       \* no tab: a free lock, an absent lease
    MaxCalls,   \* bound: refresh calls of one tab
    MaxCrashes  \* bound: tabs closed or crashed in the middle of a call

ASSUME CrossTabAssumption ==
    /\ None \notin Tabs
    /\ MaxCalls \in Nat
    /\ MaxCrashes \in Nat

\* LEASE_MS over HEARTBEAT_MS: a lease outlives three missed heartbeats.
LeaseBeats == 3

VARIABLES
    mode,       \* "locks" or "lease": what the browser offers, fixed
    pc,         \* where each tab's call of runCrossTabRefresh stands
    before,     \* rotationBefore of the call
    lock,       \* owner of the Web Lock
    lease,      \* the lease in localStorage: owner and heartbeats left
    result,     \* the rotation result in localStorage: epoch and success
    cookie,     \* the refresh token in the browser's cookie jar
    sent,       \* the token each tab's request was sent with
    valid,      \* the token the server accepts
    outcome,    \* how the latest call of each tab ended
    rotated,    \* history: a rotation succeeded since the tab's call started
    calls,      \* calls made by each tab (bound)
    replays     \* history: requests the server answered as a replay

vars == <<mode, pc, before, lock, lease, result, cookie, sent, valid,
          outcome, rotated, calls, replays>>

Steps == {"idle", "queued", "check", "waiting", "write", "verify",
          "request", "done", "refused", "gone"}

NoLease == [owner |-> None, left |-> 0]
\* Inside the two fields the call tells apart.
Sending == {"request", "done", "refused"}

TypeOK ==
    /\ mode \in {"locks", "lease"}
    /\ pc \in [Tabs -> Steps]
    /\ before \in [Tabs -> Nat]
    /\ lock \in Tabs \cup {None}
    /\ lease \in [owner : Tabs \cup {None}, left : 0..LeaseBeats]
    /\ result \in [epoch : Nat, success : BOOLEAN]
    /\ cookie \in Nat /\ valid \in Nat
    /\ sent \in [Tabs -> Nat]
    /\ outcome \in [Tabs -> {"none", "ok", "failed"}]
    /\ rotated \in [Tabs -> BOOLEAN]
    /\ calls \in [Tabs -> Nat]
    /\ replays \in Nat

Init ==
    /\ mode \in {"locks", "lease"}
    /\ pc = [t \in Tabs |-> "idle"]
    /\ before = [t \in Tabs |-> 0]
    /\ lock = None
    /\ lease = NoLease
    /\ result = [epoch |-> 0, success |-> FALSE]
    /\ cookie = 1 /\ valid = 1
    /\ sent = [t \in Tabs |-> 0]
    /\ outcome = [t \in Tabs |-> "none"]
    /\ rotated = [t \in Tabs |-> FALSE]
    /\ calls = [t \in Tabs |-> 0]
    /\ replays = 0

-----------------------------------------------------------------------------
\* As if a failed rotation counted.
rotationSettledAfter(t) == result.epoch # before[t]

rotationCompletedAfter(t) == result.epoch # before[t] /\ result.success

Goto(t, step) == pc' = [pc EXCEPT ![t] = step]
Settle(t, how) ==
    /\ Goto(t, "idle")
    /\ outcome' = [outcome EXCEPT ![t] = how]

releaseLease(t) == IF lease.owner = t THEN NoLease ELSE lease

\* A 401 made this tab refresh: runCrossTabRefresh notes the last rotation and
\* queues for the lock, or enters the lease loop.
runCrossTabRefresh(t) ==
    /\ pc[t] = "idle" /\ calls[t] < MaxCalls
    /\ calls' = [calls EXCEPT ![t] = @ + 1]
    /\ before' = [before EXCEPT ![t] = result.epoch]
    /\ rotated' = [rotated EXCEPT ![t] = FALSE]
    /\ outcome' = [outcome EXCEPT ![t] = "none"]
    /\ Goto(t, IF mode = "locks" THEN "queued" ELSE "check")
    /\ UNCHANGED <<mode, lock, lease, result, cookie, sent, valid, replays>>

\* As if the lock were asked for in shared mode.
LockShared(t) ==
    /\ pc[t] = "queued"
    /\ \/ rotationCompletedAfter(t) /\ Settle(t, "ok") /\ UNCHANGED <<lock, sent>>
       \/ /\ ~rotationCompletedAfter(t) /\ lock' = t
          /\ sent' = [sent EXCEPT ![t] = cookie]
          /\ Goto(t, "request") /\ UNCHANGED outcome
    /\ UNCHANGED <<mode, before, lease, result, cookie, valid, rotated, calls,
                   replays>>

\* The browser grants the exclusive lock; the callback looks whether another
\* tab rotated meanwhile and otherwise sends the request.
LockGranted(t) ==
    /\ pc[t] = "queued" /\ lock = None
    /\ \/ /\ rotationCompletedAfter(t)
          /\ Settle(t, "ok")
          /\ UNCHANGED <<lock, sent>>
       \/ /\ ~rotationCompletedAfter(t)
          /\ lock' = t
          /\ sent' = [sent EXCEPT ![t] = cookie]
          /\ Goto(t, "request")
          /\ UNCHANGED outcome
    /\ UNCHANGED <<mode, before, lease, result, cookie, valid, rotated, calls,
                   replays>>

\* readLease at the head of the loop: a live lease of another tab makes this
\* one wait, otherwise it goes on to write its own.
CheckLease(t) ==
    /\ pc[t] = "check"
    /\ Goto(t, IF lease.owner \notin {None, t} /\ lease.left > 0
               THEN "waiting" ELSE "write")
    /\ UNCHANGED <<mode, before, lock, lease, result, cookie, sent, valid,
                   outcome, rotated, calls, replays>>

\* waitForAnotherTab resolves on the other tab's message, on the removal of
\* the lease or after LEASE_MS, so at any moment.
Wake(t) ==
    /\ pc[t] = "waiting"
    /\ \/ rotationCompletedAfter(t) /\ Settle(t, "ok")
       \/ ~rotationCompletedAfter(t) /\ Goto(t, "check") /\ UNCHANGED outcome
    /\ UNCHANGED <<mode, before, lock, lease, result, cookie, sent, valid,
                   rotated, calls, replays>>

\* writeLease, first half: the item is set.
WriteLease(t) ==
    /\ pc[t] = "write"
    /\ lease' = [owner |-> t, left |-> LeaseBeats]
    /\ Goto(t, "verify")
    /\ UNCHANGED <<mode, before, lock, result, cookie, sent, valid, outcome,
                   rotated, calls, replays>>

\* writeLease, second half: the item is read back.  A tab that finds another
\* owner sleeps 25 ms and loops; one that finds itself looks once more for a
\* finished rotation and sends its request.
VerifyLease(t) ==
    /\ pc[t] = "verify"
    /\ \/ /\ lease.owner # t
          /\ Goto(t, "check")
          /\ UNCHANGED <<lease, sent, outcome>>
       \/ /\ lease.owner = t /\ rotationCompletedAfter(t)
          /\ lease' = releaseLease(t)
          /\ Settle(t, "ok")
          /\ UNCHANGED sent
       \/ /\ lease.owner = t /\ ~rotationCompletedAfter(t)
          /\ sent' = [sent EXCEPT ![t] = cookie]
          /\ Goto(t, "request")
          /\ UNCHANGED <<lease, outcome>>
    /\ UNCHANGED <<mode, before, lock, result, cookie, valid, rotated, calls,
                   replays>>

\* The interval timer of a tab whose request is out.
Heartbeat(t) ==
    /\ mode = "lease" /\ pc[t] \in Sending /\ lease.owner = t
    /\ lease.left < LeaseBeats
    /\ lease' = [lease EXCEPT !.left = LeaseBeats]
    /\ UNCHANGED <<mode, pc, before, lock, result, cookie, sent, valid,
                   outcome, rotated, calls, replays>>

\* HEARTBEAT_MS pass.  The timer of a live holder fires in time, so its lease
\* never runs down to nothing.
Tick ==
    /\ lease.left > 0
    /\ lease.left = 1 => lease.owner \notin {t \in Tabs : pc[t] \in Sending}
    /\ lease' = [lease EXCEPT !.left = @ - 1]
    /\ UNCHANGED <<mode, pc, before, lock, result, cookie, sent, valid,
                   outcome, rotated, calls, replays>>

-----------------------------------------------------------------------------
\* POST /auth/refresh at the server: the token is single use.
ServerRotates(t) ==
    /\ pc[t] = "request" /\ sent[t] = valid
    /\ valid' = valid + 1
    /\ Goto(t, "done")
    /\ UNCHANGED <<mode, before, lock, lease, result, cookie, sent, outcome,
                   rotated, calls, replays>>

\* A used token is a replay; a request can also be lost or refused.
ServerRefuses(t) ==
    /\ pc[t] = "request"
    /\ replays' = IF sent[t] # valid THEN replays + 1 ELSE replays
    /\ Goto(t, "refused")
    /\ UNCHANGED <<mode, before, lock, lease, result, cookie, sent, valid,
                   outcome, rotated, calls>>

publishRotationResult(ok) ==
    result' = [epoch |-> result.epoch + 1, success |-> ok]

\* As if the lock were kept.
ReleaseLease(t) == lease' = releaseLease(t) /\ UNCHANGED lock

\* The lock is released, or the lease if it is still this tab's.
Release(t) ==
    /\ lock' = IF lock = t THEN None ELSE lock
    /\ lease' = releaseLease(t)

\* The answer lands: its cookie replaces the old one, the result is published
\* and the call resolves.  Every call still waiting has now seen a rotation.
Resolve(t) ==
    /\ pc[t] = "done"
    /\ cookie' = sent[t] + 1
    /\ publishRotationResult(TRUE)
    /\ Release(t)
    /\ rotated' = [u \in Tabs |-> rotated[u] \/ pc[u] \notin {"idle", "gone"}]
    /\ Settle(t, "ok")
    /\ UNCHANGED <<mode, before, sent, valid, calls, replays>>

Reject(t) ==
    /\ pc[t] = "refused"
    /\ publishRotationResult(FALSE)
    /\ Release(t)
    /\ Settle(t, "failed")
    /\ UNCHANGED <<mode, before, cookie, sent, valid, rotated, calls, replays>>

\* The tab is closed in the middle of its call: the browser frees its lock, and
\* its lease stays until it expires.
Crash(t) ==
    /\ pc[t] \notin {"idle", "gone"}
    /\ Cardinality({u \in Tabs : pc[u] = "gone"}) < MaxCrashes
    /\ pc' = [pc EXCEPT ![t] = "gone"]
    /\ outcome' = [outcome EXCEPT ![t] = "failed"]
    /\ lock' = IF lock = t THEN None ELSE lock
    /\ UNCHANGED <<mode, before, lease, result, cookie, sent, valid, rotated,
                   calls, replays>>

Next ==
    \/ \E t \in Tabs :
          \/ runCrossTabRefresh(t) \/ Crash(t) \/ Heartbeat(t)
          \/ LockGranted(t) \/ CheckLease(t) \/ Wake(t) \/ WriteLease(t)
          \/ VerifyLease(t) \/ ServerRotates(t) \/ ServerRefuses(t)
          \/ Resolve(t) \/ Reject(t)
    \/ Tick

Spec == Init /\ [][Next]_vars

\* A pending promise, storage event or timer of an open tab eventually runs,
\* the server or the request's own timeout answers, and time passes.  The lock
\* queue is first come, first served, so a waiter is granted the lock.  A lease
\* is read back in the task that wrote it, so a rival's write cannot come
\* between the two every single time.
Fairness ==
    /\ \A t \in Tabs : WF_vars(CheckLease(t) \/ Wake(t) \/ WriteLease(t)
                               \/ VerifyLease(t) \/ ServerRotates(t)
                               \/ ServerRefuses(t) \/ Resolve(t) \/ Reject(t))
    /\ \A t \in Tabs : SF_vars(LockGranted(t))
    /\ \A t \in Tabs : SF_vars(lease.owner = t /\ VerifyLease(t))
    /\ \A t \in Tabs : WF_vars(Heartbeat(t))
    /\ WF_vars(Tick)

FairSpec == Spec /\ Fairness

-----------------------------------------------------------------------------
\* At most one tab has a refresh request out, in a browser with Web Locks
\* (crossTabRefresh.ts:162, "Serialize refresh-token rotation across tabs").
LockSerialises ==
    mode = "locks" => \A t, u \in Tabs :
        pc[t] \in Sending /\ pc[u] \in Sending => t = u

\* No tab's refresh is ever answered as a replay of another tab's, so that no
\* tab is signed out by its sibling, as long as no tab was closed with a
\* rotation on its way (crossTabRefresh.ts:164-178, setupAuthInterceptor.ts:42).
NoReplayBetweenTabs ==
    mode = "locks" /\ (\A t \in Tabs : pc[t] # "gone") => replays = 0

\* A call never hangs, whatever tab closed while holding the lock or the lease
\* (crossTabRefresh.ts:119, "a crashed tab cannot hold the lease forever").
CallsSettle ==
    \A t \in Tabs : pc[t] \notin {"idle", "gone"} ~> pc[t] \in {"idle", "gone"}

\* The lease comment's claim (crossTabRefresh.ts:119): the write-then-read
\* verification keeps two tabs from rotating at once when neither crashed.
LeaseSerialises ==
    mode = "lease" /\ (\A t \in Tabs : pc[t] # "gone") =>
        \A t, u \in Tabs : pc[t] \in Sending /\ pc[u] \in Sending => t = u

\* What callers rely on, as an abstract specification: a call that resolves
\* saw a rotation since it started (crossTabRefresh.ts:80-83).
Promise == INSTANCE RefreshPromise WITH
    open <- [t \in Tabs |-> pc[t] \notin {"idle", "gone"}]

ImplementsPromise == Promise!Spec

\* With Web Locks whoever has a request out holds the lock, and nobody is in
\* the lease loop.
LockHeld ==
    mode = "locks" => \A t \in Tabs :
        /\ pc[t] \in Sending => lock = t
        /\ pc[t] \notin {"check", "waiting", "write", "verify"}

\* As long as no tab was closed, the cookie jar holds the token the server
\* accepts, except between a rotation and the landing of its answer.
CookieCurrent ==
    mode = "locks" /\ (\A t \in Tabs : pc[t] # "gone") =>
        /\ \A t \in Tabs : /\ pc[t] = "request" => sent[t] = valid
                           /\ pc[t] = "done" => sent[t] + 1 = valid
        /\ (\A t \in Tabs : pc[t] # "done") => cookie = valid

\* A rotation result that a waiting call takes for another tab's success is one.
ResultIsReal ==
    \A t \in Tabs : pc[t] \notin {"idle", "gone"} /\ rotationCompletedAfter(t)
                      => rotated[t]

\* What serialising the rotations is for, and what it rests on: an inductive
\* invariant.
RefreshSafe ==
    /\ TypeOK /\ LockSerialises /\ NoReplayBetweenTabs
    /\ LockHeld /\ CookieCurrent /\ ResultIsReal
=============================================================================
