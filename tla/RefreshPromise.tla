--------------------------- MODULE RefreshPromise ---------------------------
(***************************************************************************)
(* What runCrossTabRefresh promises its callers, with nothing about locks, *)
(* leases or storage: a call that resolves successfully saw the browser's  *)
(* refresh token rotated between its start and its end, by itself or by    *)
(* another tab.  A call may also fail, or end with its tab.                *)
(***************************************************************************)
CONSTANT Tabs

VARIABLES
    open,       \* open[t]: tab t awaits the promise of a refresh call
    rotated,    \* rotated[t]: a rotation succeeded since t's call started
    outcome     \* outcome[t]: how t's latest call ended

vars == <<open, rotated, outcome>>

Outcomes == {"none", "ok", "failed"}

Init ==
    /\ open = [t \in Tabs |-> FALSE]
    /\ rotated = [t \in Tabs |-> FALSE]
    /\ outcome = [t \in Tabs |-> "none"]

Call(t) ==
    /\ ~open[t]
    /\ open' = [open EXCEPT ![t] = TRUE]
    /\ rotated' = [rotated EXCEPT ![t] = FALSE]
    /\ outcome' = [outcome EXCEPT ![t] = "none"]

\* t's own request rotated the token: its call resolves, and every call that
\* was waiting has now seen a rotation.
Rotate(t) ==
    /\ open[t]
    /\ open' = [open EXCEPT ![t] = FALSE]
    /\ rotated' = [u \in Tabs |-> rotated[u] \/ open[u]]
    /\ outcome' = [outcome EXCEPT ![t] = "ok"]

\* t resolves on the strength of another tab's rotation.
Share(t) ==
    /\ open[t] /\ rotated[t]
    /\ open' = [open EXCEPT ![t] = FALSE]
    /\ outcome' = [outcome EXCEPT ![t] = "ok"]
    /\ UNCHANGED rotated

Fail(t) ==
    /\ open[t]
    /\ open' = [open EXCEPT ![t] = FALSE]
    /\ outcome' = [outcome EXCEPT ![t] = "failed"]
    /\ UNCHANGED rotated

Next == \E t \in Tabs : Call(t) \/ Rotate(t) \/ Share(t) \/ Fail(t)

Spec == Init /\ [][Next]_vars
=============================================================================
