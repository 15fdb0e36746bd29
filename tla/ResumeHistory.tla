--------------------------- MODULE ResumeHistory ---------------------------
(***************************************************************************)
(* What the resume builder promises about a workspace's history, with      *)
(* nothing about requests, jobs, numbers or interleavings: a list of       *)
(* revisions that only grows at its end, whose last entry is the current   *)
(* one, until the workspace is deleted.  A revision id is used once, also  *)
(* after its workspace is gone.                                            *)
(***************************************************************************)
EXTENDS Sequences

CONSTANTS Workspace, Ids

VARIABLES
    status,     \* status[w]: "absent", "draft", "approved" or "deleted"
    current,    \* current[w]: the current revision, 0 for none
    history,    \* history[w]: the ids of the revisions, oldest first
    used        \* the ids handed out so far

vars == <<status, current, history, used>>

Init ==
    /\ status = [w \in Workspace |-> "absent"]
    /\ current = [w \in Workspace |-> 0]
    /\ history = [w \in Workspace |-> <<>>]
    /\ used = {}

Add(w, id) ==
    /\ id \in Ids \ used
    /\ used' = used \cup {id}
    /\ current' = [current EXCEPT ![w] = id]
    /\ history' = [history EXCEPT ![w] = Append(@, id)]

Create(w) ==
    /\ status[w] = "absent"
    /\ status' = [status EXCEPT ![w] = "draft"]
    /\ \E id \in Ids : Add(w, id)

Approve(w) ==
    /\ status[w] = "draft"
    /\ status' = [status EXCEPT ![w] = "approved"]
    /\ UNCHANGED <<current, history, used>>

Revise(w) ==
    /\ status[w] \in {"draft", "approved"}
    /\ \E id \in Ids : Add(w, id)
    /\ UNCHANGED status

Delete(w) ==
    /\ status[w] \in {"draft", "approved"}
    /\ status' = [status EXCEPT ![w] = "deleted"]
    /\ current' = [current EXCEPT ![w] = 0]
    /\ history' = [history EXCEPT ![w] = <<>>]
    /\ UNCHANGED used

Next == \E w \in Workspace : Create(w) \/ Approve(w) \/ Revise(w) \/ Delete(w)

Spec == Init /\ [][Next]_vars
=============================================================================
