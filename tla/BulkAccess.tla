----------------------------- MODULE BulkAccess -----------------------------
(***************************************************************************)
(* The bulk access dialog of the users page and the bulk policy routes.    *)
(*                                                                         *)
(* A run sends one request per chosen policy and chunk of users, one after *)
(* the other.  Each request is one transaction that reports on every item. *)
(* A removal of the superuser policy locks its assignments first, so that  *)
(* no two bulk removals together take the last one away.                   *)
(*                                                                         *)
(* Permissions run like policies, and roles like one policy; the tabs      *)
(* differ in what they list.                                               *)
(***************************************************************************)
EXTENDS Naturals, Sequences, FiniteSets, SequencesExt

CONSTANTS
    Members,     \* the selected users, numbered in the order of the selection
    Bundles,     \* names of policies that can be chosen
    Superuser,   \* the policy that must keep a holder
    ChunkSize,   \* BULK_REQUEST_CHUNK_SIZE
    MaxBulkClicks,
    MaxRivals    \* bound: removals by other administrators

ASSUME BulkAssumption ==
    /\ IsFiniteSet(Members) /\ Members = 1..Cardinality(Members)
    /\ IsFiniteSet(Bundles) /\ Superuser \in Bundles /\ ChunkSize \in Nat \ {0}
    /\ {MaxBulkClicks, MaxRivals} \subseteq Nat

VARIABLES
    holds,       \* policies each user holds
    shownTab,    \* "none" (closed), "policies" or "roles"
    picked,      \* selectedPolicies
    lastAction,  \* the run whose report is shown: "none", "assign" or "remove"
    reportOpen,
    runs,        \* the mutation of each kind of run
    ours, rival, \* transactions of our run's request and of another one
    bulkClicks, rivals,
    unlocked     \* history: the single-user route has removed a superuser

bulkVars == <<holds, shownTab, picked, lastAction, reportOpen, runs, ours, rival,
              bulkClicks, rivals, unlocked>>
bulkServer == <<holds, ours, rival, rivals, unlocked>>
bulkScreen == <<shownTab, picked, lastAction, reportOpen, bulkClicks>>

Runs == {"assign", "remove"}
Outcomes == [user : Members, policy : Bundles,
             status : {"success", "already_held", "error"}]
Requests == [policy : Bundles, users : SUBSET Members]
NoTransaction == [at |-> "none", users |-> {}]
BulkRun == [at : {"idle", "running", "done", "failed"}, todo : Seq(Requests),
            done : SUBSET Outcomes, of : SUBSET Bundles, watched : BOOLEAN]
IdleRun == [at |-> "idle", todo |-> <<>>, done |-> {}, of |-> {}, watched |-> FALSE]

BulkTypeOK ==
    /\ holds \in [Members -> SUBSET Bundles]
    /\ shownTab \in {"none", "policies", "roles"} /\ picked \subseteq Bundles
    /\ lastAction \in Runs \cup {"none"} /\ reportOpen \in BOOLEAN
    /\ runs \in [Runs -> BulkRun]
    /\ ours \in [at : {"none"} \cup Runs, users : SUBSET Members]
    /\ rival \in [at : {"none", "locked", "counted"}, users : SUBSET Members]
    /\ bulkClicks \in 0..MaxBulkClicks /\ rivals \in 0..MaxRivals
    /\ unlocked \in BOOLEAN

BulkInit ==
    /\ holds \in {h \in [Members -> SUBSET Bundles] :
                     \E u \in Members : Superuser \in h[u]}
    /\ shownTab = "none" /\ picked = {} /\ lastAction = "none" /\ reportOpen = FALSE
    /\ runs = [k \in Runs |-> IdleRun]
    /\ ours = NoTransaction /\ rival = NoTransaction
    /\ bulkClicks = 0 /\ rivals = 0 /\ unlocked = FALSE

-----------------------------------------------------------------------------
(* The dialog *)

BulkClick == bulkClicks < MaxBulkClicks /\ bulkClicks' = bulkClicks + 1

\* result: the data of the run named last; a failed run has none.
Result(k) == IF k \in Runs /\ runs[k].at = "done" /\ runs[k].watched
             THEN runs[k].done ELSE {}
ReportShown == reportOpen /\ Result(lastAction) # {}

OpenBulkDialog ==
    /\ BulkClick /\ shownTab = "none" /\ shownTab' = "policies"
    /\ UNCHANGED <<bulkServer, picked, lastAction, reportOpen, runs>>

\* Closing forgets the runs; one that is under way goes on unseen.
BulkUserAccessDialog ==
    /\ BulkClick /\ shownTab # "none" /\ ~ReportShown
    /\ shownTab' = "none" /\ reportOpen' = FALSE /\ lastAction' = "none"
    /\ runs' = [k \in Runs |-> IF runs[k].at = "running"
                               THEN [runs[k] EXCEPT !.watched = FALSE] ELSE IdleRun]
    /\ UNCHANGED <<bulkServer, picked>>

activateTab(t) ==
    /\ BulkClick /\ shownTab # "none" /\ ~ReportShown /\ t # shownTab
    /\ shownTab' = t /\ lastAction' = "none"
    /\ UNCHANGED <<bulkServer, picked, reportOpen, runs>>

BulkPolicyTab(p) ==
    /\ BulkClick /\ shownTab = "policies" /\ ~ReportShown
    /\ picked' = IF p \in picked THEN picked \ {p} ELSE picked \cup {p}
    /\ UNCHANGED <<bulkServer, shownTab, lastAction, reportOpen, runs>>

CloseReport ==
    /\ BulkClick /\ ReportShown /\ reportOpen' = FALSE
    /\ UNCHANGED <<bulkServer, shownTab, picked, lastAction, runs>>

-----------------------------------------------------------------------------
(* A run *)

chunk(i) == {u \in Members : (u - 1) \div ChunkSize = i - 1}
Chunks == (Cardinality(Members) + ChunkSize - 1) \div ChunkSize

\* runChunkedBulk for each name: requests in sequence, never in parallel.
RequestsFor(names) ==
    [n \in 1..(Chunks * Len(names)) |->
        [policy |-> names[((n - 1) \div Chunks) + 1],
         users |-> chunk(((n - 1) % Chunks) + 1)]]

\* A button with a run of its own kind under way is disabled.  (Bound: also
\* when that run was left behind by closing the dialog.)
runPolicy(k) ==
    /\ BulkClick /\ shownTab = "policies" /\ picked # {} /\ ~ReportShown
    /\ runs[k].at # "running"
    /\ lastAction' = k
    /\ runs' = [runs EXCEPT ![k] =
                  [at |-> "running", todo |-> RequestsFor(SetToSeq(picked)), done |-> {},
                   of |-> picked, watched |-> TRUE]]
    /\ UNCHANGED <<bulkServer, shownTab, picked, reportOpen>>

Holders(p) == {u \in Members : p \in holds[u]}
Locked == rival.at = "locked" \/ ours.at = "remove"

\* bulk_assign_policies commits at once.
bulk_assign_policies ==
    LET r == Head(runs["assign"].todo)
    IN /\ runs["assign"].at = "running" /\ runs["assign"].todo # <<>>
       /\ holds' = [u \in Members |->
                      IF u \in r.users THEN holds[u] \cup {r.policy} ELSE holds[u]]
       /\ runs' = [runs EXCEPT !["assign"].todo = Tail(@), !["assign"].done = @ \cup
                     {[user |-> u, policy |-> r.policy,
                       status |-> IF r.policy \in holds[u] THEN "already_held"
                                  ELSE "success"] : u \in r.users}]
       /\ UNCHANGED <<bulkScreen, ours, rival, rivals, unlocked>>

\* As if the count allowed the last holder too.
RemovableAndLast(p, users) ==
    {u \in users : Superuser # p \/ u \notin Holders(p)
        \/ Cardinality({v \in users \cap Holders(p) : v <= u}) <= Cardinality(Holders(p))}

\* The holders that may go: in the order of the request, all but the last one.
Removable(p, users) ==
    {u \in users : Superuser # p \/ u \notin Holders(p)
        \/ Cardinality({v \in users \cap Holders(p) : v <= u}) < Cardinality(Holders(p))}

\* bulk_remove_policies locks the superuser's assignments, whatever it removes,
\* checks every item, ...
bulk_remove_policies ==
    LET r == Head(runs["remove"].todo)
    IN /\ runs["remove"].at = "running" /\ runs["remove"].todo # <<>>
       /\ ours = NoTransaction /\ ~Locked
       /\ ours' = [at |-> "remove", users |-> Removable(r.policy, r.users)]
       /\ UNCHANGED <<bulkScreen, holds, runs, rival, rivals, unlocked>>

\* ... and commits.
RemovalCommits ==
    LET r == Head(runs["remove"].todo)
        gone == ours.users \cap Holders(r.policy)
    IN /\ ours.at = "remove" /\ ours' = NoTransaction
       /\ holds' = [u \in Members |->
                      IF u \in gone THEN holds[u] \ {r.policy} ELSE holds[u]]
       /\ runs' = [runs EXCEPT !["remove"].todo = Tail(@), !["remove"].done = @ \cup
                     {[user |-> u, policy |-> r.policy,
                       status |-> IF u \in gone THEN "success" ELSE "error"] :
                      u \in r.users}]
       /\ UNCHANGED <<bulkScreen, rival, rivals, unlocked>>

\* A request that fails ends its run: what the earlier requests did stays done,
\* their results are lost.
RequestFails(k) ==
    /\ runs[k].at = "running" /\ runs[k].todo # <<>> /\ ours.at # k
    /\ runs' = [runs EXCEPT ![k].at = "failed", ![k].todo = <<>>, ![k].done = {}]
    /\ UNCHANGED <<bulkServer, bulkScreen>>

\* A result of the run named last opens the report.
RunEnds(k) ==
    /\ runs[k].at = "running" /\ runs[k].todo = <<>>
    /\ runs' = [runs EXCEPT ![k].at = IF runs[k].watched THEN "done" ELSE "idle"]
    /\ reportOpen' = (reportOpen \/ (k = lastAction /\ runs[k].watched))
    /\ UNCHANGED <<bulkServer, shownTab, picked, lastAction, bulkClicks>>

-----------------------------------------------------------------------------
(* Other administrators *)

RivalBulkRemoval(users) ==
    /\ rivals < MaxRivals /\ rivals' = rivals + 1
    /\ rival = NoTransaction /\ ~Locked
    /\ rival' = [at |-> "locked", users |-> Removable(Superuser, users)]
    /\ UNCHANGED <<bulkScreen, holds, runs, ours, unlocked>>

\* The route for one user counts the holders and takes no lock.
remove_superuser_from(u) ==
    /\ rivals < MaxRivals /\ rivals' = rivals + 1
    /\ rival = NoTransaction
    /\ u \in Holders(Superuser) /\ Cardinality(Holders(Superuser)) > 1
    /\ rival' = [at |-> "counted", users |-> {u}]
    /\ UNCHANGED <<bulkScreen, holds, runs, ours, unlocked>>

RivalCommits ==
    /\ rival.at # "none" /\ (rival.at = "counted" => ~Locked)
    /\ holds' = [u \in Members |->
                   IF u \in rival.users THEN holds[u] \ {Superuser} ELSE holds[u]]
    /\ unlocked' = (unlocked \/ rival.at = "counted")
    /\ rival' = NoTransaction
    /\ UNCHANGED <<bulkScreen, runs, ours, rivals>>

BulkNext ==
    \/ OpenBulkDialog \/ BulkUserAccessDialog \/ CloseReport
    \/ \E t \in {"policies", "roles"} : activateTab(t)
    \/ \E p \in Bundles : BulkPolicyTab(p)
    \/ \E k \in Runs : runPolicy(k) \/ RequestFails(k) \/ RunEnds(k)
    \/ bulk_assign_policies \/ bulk_remove_policies \/ RemovalCommits
    \/ \E users \in SUBSET Members : RivalBulkRemoval(users)
    \/ \E u \in Members : remove_superuser_from(u)
    \/ RivalCommits

BulkSpec == BulkInit /\ [][BulkNext]_bulkVars

-----------------------------------------------------------------------------
(* Properties *)

\* bulk_remove_policies: bulk removals, ours and another administrator's, leave
\* the superuser policy a holder, whatever their chunks and their order.
SuperuserRemains == ~unlocked => Holders(Superuser) # {}

\* remove_policy_from_user: the last remaining assignment is never removed.
SuperuserAlwaysHeld == Holders(Superuser) # {}

\* A report that is shown accounts for each selected user and each policy of
\* its run exactly once.
ReportIsComplete ==
    ReportShown =>
        /\ {<<r.user, r.policy>> : r \in Result(lastAction)}
              = Members \X runs[lastAction].of
        /\ Cardinality(Result(lastAction))
              = Cardinality(Members) * Cardinality(runs[lastAction].of)

\* What bulk runs and their report promise, and the types of their state.
BulkSafe == BulkTypeOK /\ SuperuserRemains /\ ReportIsComplete

-----------------------------------------------------------------------------
(* Why they hold *)

IsFor(r, u, p) == r.policy = p /\ u \in r.users

\* Of a run that has not failed, each user and policy is in one request that is
\* still to be made, or in one result.
EachOnce(run) ==
    run.at \in {"running", "done"} =>
        /\ run.at = "done" => run.todo = <<>>
        /\ \A i \in DOMAIN run.todo : run.todo[i].policy \in run.of
        /\ \A o \in run.done : o.policy \in run.of
        /\ \A u \in Members, p \in run.of :
              \/ \E o \in run.done : o.user = u /\ o.policy = p
              \/ \E i \in DOMAIN run.todo : IsFor(run.todo[i], u, p)
        /\ \A o, q \in run.done : o.user = q.user /\ o.policy = q.policy => o = q
        /\ \A o \in run.done, i \in DOMAIN run.todo :
              ~IsFor(run.todo[i], o.user, o.policy)
        /\ \A i, j \in DOMAIN run.todo, u \in Members, p \in Bundles :
              IsFor(run.todo[i], u, p) /\ IsFor(run.todo[j], u, p) => i = j

\* A removal under way is that of the request at the head of its run.
RemovalUnderWay ==
    /\ ours.at = "remove" => runs["remove"].at = "running" /\ runs["remove"].todo # <<>>
    /\ ~(ours.at = "remove" /\ rival.at = "locked")

\* Whoever holds the lock spares a holder, and nobody else takes one away.
HolderSpared ==
    ~unlocked =>
        /\ Holders(Superuser) # {}
        /\ rival.at = "locked" => Holders(Superuser) \ rival.users # {}
        /\ ours.at = "remove" /\ Head(runs["remove"].todo).policy = Superuser
             => Holders(Superuser) \ ours.users # {}

BulkInv ==
    /\ BulkTypeOK /\ (\A k \in Runs : EachOnce(runs[k]))
    /\ RemovalUnderWay /\ HolderSpared
=============================================================================
