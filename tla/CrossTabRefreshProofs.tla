------------------------ MODULE CrossTabRefreshProofs -----------------------
(***************************************************************************)
(* Proofs about CrossTabRefresh for any set of tabs and any bounds: what   *)
(* the Web Lock keeps, and that a call resolves only on a rotation it saw, *)
(* with Web Locks and with the lease alike.                                *)
(***************************************************************************)
EXTENDS CrossTabRefresh, TLAPS

(* No tab has called yet and nothing is stored.                            *)
LEMMA InitSafe == Init => RefreshSafe
BY CrossTabAssumption
   DEF Init, RefreshSafe, TypeOK, LockSerialises, NoReplayBetweenTabs,
       LockHeld, CookieCurrent, ResultIsReal, Steps, NoLease, LeaseBeats,
       Sending, rotationCompletedAfter

(* Every step keeps the types.                                             *)
LEMMA NextTypeOK == TypeOK /\ [Next]_vars => TypeOK'
<1> SUFFICES ASSUME TypeOK, [Next]_vars
             PROVE  TypeOK'
  OBVIOUS
<1> USE CrossTabAssumption DEF TypeOK, Goto, Settle, releaseLease, NoLease,
        LeaseBeats, Steps, Sending
<1>1. CASE UNCHANGED vars
  BY <1>1 DEF vars
<1>2. ASSUME NEW t \in Tabs, runCrossTabRefresh(t) PROVE TypeOK'
  BY <1>2 DEF runCrossTabRefresh
<1>3. ASSUME NEW t \in Tabs, Crash(t) PROVE TypeOK'
  BY <1>3 DEF Crash
<1>4. ASSUME NEW t \in Tabs, Heartbeat(t) PROVE TypeOK'
  BY <1>4 DEF Heartbeat
<1>5. ASSUME NEW t \in Tabs, LockGranted(t) PROVE TypeOK'
  BY <1>5 DEF LockGranted
<1>6. ASSUME NEW t \in Tabs, CheckLease(t) PROVE TypeOK'
  BY <1>6 DEF CheckLease
<1>7. ASSUME NEW t \in Tabs, Wake(t) PROVE TypeOK'
  BY <1>7 DEF Wake
<1>8. ASSUME NEW t \in Tabs, WriteLease(t) PROVE TypeOK'
  BY <1>8 DEF WriteLease
<1>9. ASSUME NEW t \in Tabs, VerifyLease(t) PROVE TypeOK'
  BY <1>9 DEF VerifyLease
<1>10. ASSUME NEW t \in Tabs, ServerRotates(t) PROVE TypeOK'
  BY <1>10 DEF ServerRotates
<1>11. ASSUME NEW t \in Tabs, ServerRefuses(t) PROVE TypeOK'
  BY <1>11 DEF ServerRefuses
<1>12. ASSUME NEW t \in Tabs, Resolve(t) PROVE TypeOK'
  BY <1>12 DEF Resolve, Release, publishRotationResult
<1>13. ASSUME NEW t \in Tabs, Reject(t) PROVE TypeOK'
  BY <1>13 DEF Reject, Release, publishRotationResult
<1>14. CASE Tick
  BY <1>14 DEF Tick
<1> QED
  BY <1>1, <1>2, <1>3, <1>4, <1>5, <1>6, <1>7, <1>8, <1>9, <1>10, <1>11,
     <1>12, <1>13, <1>14 DEF Next

(* The exclusive lock is granted to one tab at a time, and only its owner  *)
(* sends.                                                                  *)
LEMMA NextLockHeld ==
  TypeOK /\ LockHeld /\ [Next]_vars => LockHeld'
<1> SUFFICES ASSUME TypeOK, LockHeld, [Next]_vars
             PROVE  LockHeld'
  OBVIOUS
<1> USE CrossTabAssumption DEF TypeOK, LockHeld, Goto, Settle, Steps, Sending
<1>1. CASE UNCHANGED vars
  BY <1>1 DEF vars
<1>2. ASSUME NEW t \in Tabs, runCrossTabRefresh(t) PROVE LockHeld'
  BY <1>2 DEF runCrossTabRefresh
<1>3. ASSUME NEW t \in Tabs, Crash(t) PROVE LockHeld'
  BY <1>3 DEF Crash
<1>4. ASSUME NEW t \in Tabs, Heartbeat(t) PROVE LockHeld'
  BY <1>4 DEF Heartbeat
<1>5. ASSUME NEW t \in Tabs, LockGranted(t) PROVE LockHeld'
  BY <1>5 DEF LockGranted
<1>6. ASSUME NEW t \in Tabs, CheckLease(t) PROVE LockHeld'
  BY <1>6 DEF CheckLease
<1>7. ASSUME NEW t \in Tabs, Wake(t) PROVE LockHeld'
  BY <1>7 DEF Wake
<1>8. ASSUME NEW t \in Tabs, WriteLease(t) PROVE LockHeld'
  BY <1>8 DEF WriteLease
<1>9. ASSUME NEW t \in Tabs, VerifyLease(t) PROVE LockHeld'
  BY <1>9 DEF VerifyLease
<1>10. ASSUME NEW t \in Tabs, ServerRotates(t) PROVE LockHeld'
  BY <1>10 DEF ServerRotates
<1>11. ASSUME NEW t \in Tabs, ServerRefuses(t) PROVE LockHeld'
  BY <1>11 DEF ServerRefuses
<1>12. ASSUME NEW t \in Tabs, Resolve(t) PROVE LockHeld'
  BY <1>12 DEF Resolve, Release, publishRotationResult
<1>13. ASSUME NEW t \in Tabs, Reject(t) PROVE LockHeld'
  BY <1>13 DEF Reject, Release, publishRotationResult
<1>14. CASE Tick
  BY <1>14 DEF Tick
<1> QED
  BY <1>1, <1>2, <1>3, <1>4, <1>5, <1>6, <1>7, <1>8, <1>9,
     <1>10, <1>11, <1>12, <1>13, <1>14 DEF Next

(* The token the owner of the lock sends is the one the server accepts:    *)
(* every rotation before it has landed.                                    *)
LEMMA NextCookieCurrent ==
  TypeOK /\ LockHeld /\ CookieCurrent /\ [Next]_vars => CookieCurrent'
<1> SUFFICES ASSUME TypeOK, LockHeld, CookieCurrent, [Next]_vars
             PROVE  CookieCurrent'
  OBVIOUS
<1> USE CrossTabAssumption DEF TypeOK, LockHeld, CookieCurrent, Goto, Settle,
        Steps, Sending
<1>1. CASE UNCHANGED vars
  BY <1>1 DEF vars
<1>2. ASSUME NEW t \in Tabs, runCrossTabRefresh(t) PROVE CookieCurrent'
  BY <1>2 DEF runCrossTabRefresh
<1>3. ASSUME NEW t \in Tabs, Crash(t) PROVE CookieCurrent'
  BY <1>3 DEF Crash
<1>4. ASSUME NEW t \in Tabs, Heartbeat(t) PROVE CookieCurrent'
  BY <1>4 DEF Heartbeat
<1>5. ASSUME NEW t \in Tabs, LockGranted(t) PROVE CookieCurrent'
  BY <1>5 DEF LockGranted
<1>6. ASSUME NEW t \in Tabs, CheckLease(t) PROVE CookieCurrent'
  BY <1>6 DEF CheckLease
<1>7. ASSUME NEW t \in Tabs, Wake(t) PROVE CookieCurrent'
  BY <1>7 DEF Wake
<1>8. ASSUME NEW t \in Tabs, WriteLease(t) PROVE CookieCurrent'
  BY <1>8 DEF WriteLease
<1>9. ASSUME NEW t \in Tabs, VerifyLease(t) PROVE CookieCurrent'
  BY <1>9 DEF VerifyLease
<1>10. ASSUME NEW t \in Tabs, ServerRotates(t) PROVE CookieCurrent'
  BY <1>10 DEF ServerRotates
<1>11. ASSUME NEW t \in Tabs, ServerRefuses(t) PROVE CookieCurrent'
  BY <1>11 DEF ServerRefuses
<1>12. ASSUME NEW t \in Tabs, Resolve(t) PROVE CookieCurrent'
  BY <1>12 DEF Resolve, Release, publishRotationResult
<1>13. ASSUME NEW t \in Tabs, Reject(t) PROVE CookieCurrent'
  BY <1>13 DEF Reject, Release, publishRotationResult
<1>14. CASE Tick
  BY <1>14 DEF Tick
<1> QED
  BY <1>1, <1>2, <1>3, <1>4, <1>5, <1>6, <1>7, <1>8, <1>9,
     <1>10, <1>11, <1>12, <1>13, <1>14 DEF Next

(* So the server never sees a replay.                                      *)
LEMMA NextNoReplay ==
  TypeOK /\ CookieCurrent /\ NoReplayBetweenTabs /\ [Next]_vars
    => NoReplayBetweenTabs'
<1> SUFFICES ASSUME TypeOK, CookieCurrent, NoReplayBetweenTabs, [Next]_vars
             PROVE  NoReplayBetweenTabs'
  OBVIOUS
<1> USE DEF TypeOK, CookieCurrent, NoReplayBetweenTabs, Goto, Settle, Steps
<1>1. CASE UNCHANGED vars
  BY <1>1 DEF vars
<1>2. ASSUME NEW t \in Tabs, runCrossTabRefresh(t) PROVE NoReplayBetweenTabs'
  BY <1>2 DEF runCrossTabRefresh
<1>3. ASSUME NEW t \in Tabs, Crash(t) PROVE NoReplayBetweenTabs'
  BY <1>3 DEF Crash
<1>4. ASSUME NEW t \in Tabs, Heartbeat(t) PROVE NoReplayBetweenTabs'
  BY <1>4 DEF Heartbeat
<1>5. ASSUME NEW t \in Tabs, LockGranted(t) PROVE NoReplayBetweenTabs'
  BY <1>5 DEF LockGranted
<1>6. ASSUME NEW t \in Tabs, CheckLease(t) PROVE NoReplayBetweenTabs'
  BY <1>6 DEF CheckLease
<1>7. ASSUME NEW t \in Tabs, Wake(t) PROVE NoReplayBetweenTabs'
  BY <1>7 DEF Wake
<1>8. ASSUME NEW t \in Tabs, WriteLease(t) PROVE NoReplayBetweenTabs'
  BY <1>8 DEF WriteLease
<1>9. ASSUME NEW t \in Tabs, VerifyLease(t) PROVE NoReplayBetweenTabs'
  BY <1>9 DEF VerifyLease
<1>10. ASSUME NEW t \in Tabs, ServerRotates(t) PROVE NoReplayBetweenTabs'
  BY <1>10 DEF ServerRotates
<1>11. ASSUME NEW t \in Tabs, ServerRefuses(t) PROVE NoReplayBetweenTabs'
  BY <1>11 DEF ServerRefuses
<1>12. ASSUME NEW t \in Tabs, Resolve(t) PROVE NoReplayBetweenTabs'
  BY <1>12 DEF Resolve, Release, publishRotationResult
<1>13. ASSUME NEW t \in Tabs, Reject(t) PROVE NoReplayBetweenTabs'
  BY <1>13 DEF Reject, Release, publishRotationResult
<1>14. CASE Tick
  BY <1>14 DEF Tick
<1> QED
  BY <1>1, <1>2, <1>3, <1>4, <1>5, <1>6, <1>7, <1>8, <1>9,
     <1>10, <1>11, <1>12, <1>13, <1>14 DEF Next

(* A published success has been seen by every call that was waiting.       *)
LEMMA NextResultIsReal ==
  TypeOK /\ ResultIsReal /\ [Next]_vars => ResultIsReal'
<1> SUFFICES ASSUME TypeOK, ResultIsReal, [Next]_vars
             PROVE  ResultIsReal'
  OBVIOUS
<1> USE DEF TypeOK, ResultIsReal, rotationCompletedAfter, Goto, Settle, Steps
<1>1. CASE UNCHANGED vars
  BY <1>1 DEF vars
<1>2. ASSUME NEW t \in Tabs, runCrossTabRefresh(t) PROVE ResultIsReal'
  BY <1>2 DEF runCrossTabRefresh
<1>3. ASSUME NEW t \in Tabs, Crash(t) PROVE ResultIsReal'
  BY <1>3 DEF Crash
<1>4. ASSUME NEW t \in Tabs, Heartbeat(t) PROVE ResultIsReal'
  BY <1>4 DEF Heartbeat
<1>5. ASSUME NEW t \in Tabs, LockGranted(t) PROVE ResultIsReal'
  BY <1>5 DEF LockGranted
<1>6. ASSUME NEW t \in Tabs, CheckLease(t) PROVE ResultIsReal'
  BY <1>6 DEF CheckLease
<1>7. ASSUME NEW t \in Tabs, Wake(t) PROVE ResultIsReal'
  BY <1>7 DEF Wake
<1>8. ASSUME NEW t \in Tabs, WriteLease(t) PROVE ResultIsReal'
  BY <1>8 DEF WriteLease
<1>9. ASSUME NEW t \in Tabs, VerifyLease(t) PROVE ResultIsReal'
  BY <1>9 DEF VerifyLease
<1>10. ASSUME NEW t \in Tabs, ServerRotates(t) PROVE ResultIsReal'
  BY <1>10 DEF ServerRotates
<1>11. ASSUME NEW t \in Tabs, ServerRefuses(t) PROVE ResultIsReal'
  BY <1>11 DEF ServerRefuses
<1>12. ASSUME NEW t \in Tabs, Resolve(t) PROVE ResultIsReal'
  BY <1>12 DEF Resolve, Release, publishRotationResult
<1>13. ASSUME NEW t \in Tabs, Reject(t) PROVE ResultIsReal'
  BY <1>13 DEF Reject, Release, publishRotationResult
<1>14. CASE Tick
  BY <1>14 DEF Tick
<1> QED
  BY <1>1, <1>2, <1>3, <1>4, <1>5, <1>6, <1>7, <1>8, <1>9,
     <1>10, <1>11, <1>12, <1>13, <1>14 DEF Next

(* The safety of the serialisation, for any number of tabs and calls: one  *)
(* rotation at a time and no replay of a token (crossTabRefresh.ts).       *)
THEOREM RefreshAlwaysSafe == Spec => []RefreshSafe
<1>1. Init => RefreshSafe
  BY InitSafe
<1>2. RefreshSafe /\ [Next]_vars => RefreshSafe'
  <2> SUFFICES ASSUME RefreshSafe, [Next]_vars
               PROVE  RefreshSafe'
    OBVIOUS
  <2>1. TypeOK' /\ LockHeld' /\ CookieCurrent' /\ NoReplayBetweenTabs'
          /\ ResultIsReal'
    BY NextTypeOK, NextLockHeld, NextCookieCurrent, NextNoReplay,
       NextResultIsReal DEF RefreshSafe
  \* Two tabs that both send would both own the lock.
  <2>2. LockSerialises'
    BY <2>1 DEF LockHeld, LockSerialises
  <2> QED BY <2>1, <2>2 DEF RefreshSafe
<1> QED BY <1>1, <1>2, PTL DEF Spec

-----------------------------------------------------------------------------
(* The implementation of RefreshPromise                                    *)

(* The calls are idle and nothing has rotated.                             *)
LEMMA InitPromised == Init => Promise!Init
BY DEF Init, Promise!Init

(* Every step is a step of the promise, or none of its business.           *)
LEMMA StepPromised ==
  RefreshSafe /\ [Next]_vars => [Promise!Next]_(Promise!vars)
<1> SUFFICES ASSUME TypeOK, ResultIsReal, [Next]_vars
             PROVE  [Promise!Next]_(Promise!vars)
  BY DEF RefreshSafe
<1> USE DEF TypeOK, Goto, Settle, Steps, Promise!vars
<1>1. CASE UNCHANGED vars
  BY <1>1 DEF vars
<1>2. ASSUME NEW t \in Tabs, runCrossTabRefresh(t) PROVE Promise!Call(t)
  BY <1>2 DEF runCrossTabRefresh, Promise!Call
<1>3. ASSUME NEW t \in Tabs, Crash(t) PROVE Promise!Fail(t)
  BY <1>3 DEF Crash, Promise!Fail
<1>4. ASSUME NEW t \in Tabs, Heartbeat(t) PROVE UNCHANGED Promise!vars
  BY <1>4 DEF Heartbeat
<1>5. ASSUME NEW t \in Tabs, LockGranted(t)
      PROVE  Promise!Share(t) \/ UNCHANGED Promise!vars
  BY <1>5 DEF LockGranted, Promise!Share, ResultIsReal
<1>6. ASSUME NEW t \in Tabs, CheckLease(t) PROVE UNCHANGED Promise!vars
  BY <1>6 DEF CheckLease
<1>7. ASSUME NEW t \in Tabs, Wake(t)
      PROVE  Promise!Share(t) \/ UNCHANGED Promise!vars
  BY <1>7 DEF Wake, Promise!Share, ResultIsReal
<1>8. ASSUME NEW t \in Tabs, WriteLease(t) PROVE UNCHANGED Promise!vars
  BY <1>8 DEF WriteLease
<1>9. ASSUME NEW t \in Tabs, VerifyLease(t)
      PROVE  Promise!Share(t) \/ UNCHANGED Promise!vars
  BY <1>9 DEF VerifyLease, Promise!Share, ResultIsReal
<1>10. ASSUME NEW t \in Tabs, ServerRotates(t) PROVE UNCHANGED Promise!vars
  BY <1>10 DEF ServerRotates
<1>11. ASSUME NEW t \in Tabs, ServerRefuses(t) PROVE UNCHANGED Promise!vars
  BY <1>11 DEF ServerRefuses
<1>12. ASSUME NEW t \in Tabs, Resolve(t) PROVE Promise!Rotate(t)
  BY <1>12 DEF Resolve, Promise!Rotate
<1>13. ASSUME NEW t \in Tabs, Reject(t) PROVE Promise!Fail(t)
  BY <1>13 DEF Reject, Promise!Fail
<1>14. CASE Tick
  BY <1>14 DEF Tick
<1> QED
  BY <1>1, <1>2, <1>3, <1>4, <1>5, <1>6, <1>7, <1>8, <1>9, <1>10, <1>11,
     <1>12, <1>13, <1>14 DEF Next, Promise!Next

(* A call that resolves saw a rotation since it started, for any number of *)
(* tabs, with the lock and with the lease (crossTabRefresh.ts:80-83).      *)
THEOREM RefreshKeepsPromise == Spec => ImplementsPromise
<1>1. Init => Promise!Init
  BY InitPromised
<1>2. RefreshSafe /\ [Next]_vars => [Promise!Next]_(Promise!vars)
  BY StepPromised
<1>3. Spec => []RefreshSafe
  BY RefreshAlwaysSafe
<1> QED BY <1>1, <1>2, <1>3, PTL DEF Spec, ImplementsPromise, Promise!Spec
=============================================================================
