----------------------------- MODULE UserAccess -----------------------------
(***************************************************************************)
(* The access dialog of a user: its lists of policies and direct           *)
(* permissions, the switches that assign, revoke, grant and carve, their   *)
(* undo, and what the server makes of each request.                        *)
(*                                                                         *)
(* A permission is a pair of an action and a resource type, "*" for any.   *)
(* A direct one is held with no condition ("open") or with one ("narrow"). *)
(* The two lists are read by queries of their own; the reading and the     *)
(* arrival of an answer are one step, since an invalidation cancels an     *)
(* answer under way.                                                       *)
(***************************************************************************)
EXTENDS Naturals, FiniteSets

CONSTANTS
    Catalog,        \* the permissions there are
    Policies,       \* the policies there are
    Contents,       \* permissions of a policy
    Conditions,     \* the condition of a policy: "open" or "narrow"
    ProtectedNames, \* PROTECTED_POLICY_NAMES
    HeldCodes,      \* actions the caller may pass on
    Slots,          \* requests that may be under way at once
    MaxSwitches     \* bound: switches clicked, and changes by others

ASSUME AccessAssumption ==
    /\ Contents \in [Policies -> SUBSET (Catalog \cup {<<c[1], "*">> : c \in Catalog})]
    /\ IsFiniteSet(Catalog) /\ Catalog # {} /\ Policies # {}
    /\ Conditions \in [Policies -> {"open", "narrow"}]
    /\ ProtectedNames \subseteq Policies /\ MaxSwitches \in Nat

VARIABLES
    isSelf,     \* the dialog is about the caller
    active,     \* server: policies that are active
    assigned,   \* server: policies of the user
    direct,     \* server: the user's direct grants
    dialogOpen, \* the dialog is open
    seen,       \* the two lists on screen
    stale,      \* lists to be read again
    foreign,    \* lists others changed since they were read
    sent,       \* requests under way
    offers,     \* toasts that offer an undo
    spinning,   \* toasts left loading although their request has ended
    toggles,    \* bound
    accessHist  \* history: the last change of the user's access; an undo that
                \* did not restore

accessServer == <<active, assigned, direct>>
accessVars == <<isSelf, active, assigned, direct, dialogOpen, seen, stale,
                foreign, sent, offers, spinning, toggles, accessHist>>

Lists == {"policies", "direct"}
Grants == Catalog \cup {<<c[1], "*">> : c \in Catalog}
Grades == {"no", "open", "narrow"}
Kinds == {"assign", "revoke", "carve", "grant", "ungrant"}
SomePolicy == CHOOSE p \in Policies : TRUE
SomeEntry == CHOOSE e \in Catalog : TRUE
NoRequest == [kind |-> "none", policy |-> SomePolicy, entry |-> SomeEntry,
              cond |-> "no", was |-> "no", toast |-> FALSE, heard |-> FALSE,
              undo |-> FALSE, step |-> "idle"]
InverseOf(kind) == CASE kind = "assign" -> "revoke" [] kind = "revoke" -> "assign"
                   [] kind = "grant" -> "ungrant" [] kind = "ungrant" -> "grant"
                   [] OTHER -> "none"

\* The last change of the user's access: which switch made it, and from what.
LastCall(r, before) == [kind |-> r.kind, policy |-> r.policy, entry |-> r.entry,
                    was |-> r.was, before |-> before]
NoLast == LastCall(NoRequest, <<{}, [e \in Grants |-> "no"]>>)

AccessTypeOK ==
    /\ {isSelf, dialogOpen} \subseteq BOOLEAN
    /\ active \subseteq Policies /\ assigned \subseteq Policies
    /\ direct \in [Grants -> Grades]
    /\ seen.policies \subseteq Policies /\ seen.direct \in [Grants -> Grades]
    /\ stale \subseteq Lists /\ foreign \subseteq Lists
    /\ \A s \in Slots : sent[s].kind \in Kinds \cup {"none"}
                        /\ sent[s].step \in {"idle", "sent", "done"}
    /\ spinning \in Nat /\ toggles \in 0..MaxSwitches

AccessInit ==
    /\ isSelf \in BOOLEAN /\ active = Policies
    /\ assigned \in SUBSET Policies
    /\ direct \in {[e \in Grants |-> "no"],
                   [e \in Grants |-> IF e \in Catalog THEN "narrow" ELSE "no"]}
    /\ dialogOpen = TRUE
    /\ seen = [policies |-> assigned, direct |-> direct]
    /\ stale = {} /\ foreign = {} /\ sent = [s \in Slots |-> NoRequest]
    /\ offers = {} /\ spinning = 0 /\ toggles = 0
    /\ accessHist = [last |-> NoLast, undoOff |-> FALSE]

-----------------------------------------------------------------------------
(* What the lists say *)

buildEffectiveGrantKeySet(policies, grants) ==
    UNION {Contents[p] : p \in policies} \cup {e \in Grants : grants[e] # "no"}

hasEffectiveGrant(keys, e) == e \in keys \/ <<e[1], "*">> \in keys
policyAddsNothingNew(p, keys) == \A e \in Contents[p] : hasEffectiveGrant(keys, e)
canGrantPolicy(p) == \A e \in Contents[p] : e[1] \in HeldCodes

Keys == buildEffectiveGrantKeySet(seen.policies, seen.direct)

\* What the user may really do.
Access(policies, grants) ==
    LET keys == buildEffectiveGrantKeySet(policies \cap active, grants)
    IN {e \in Catalog : hasEffectiveGrant(keys, e)}

\* The row's switch works.
canTogglePolicy(p) ==
    LET on == p \in seen.policies
    IN /\ ~(on /\ isSelf /\ p \in ProtectedNames)
       /\ on \/ ~policyAddsNothingNew(p, Keys)
       /\ canGrantPolicy(p)

PermissionEntrySwitch(e) ==
    /\ e[1] \in HeldCodes
    /\ seen.direct[e] # "no" \/ ~hasEffectiveGrant(Keys, e)

-----------------------------------------------------------------------------
(* The switches *)

\* A mutation hook tells only its latest call how it ended.
Mutate(r) ==
    \E s \in Slots :
        /\ sent[s] = NoRequest /\ \A q \in Slots : q < s => sent[q] # NoRequest
        /\ sent' = [q \in Slots |->
                      IF q = s THEN [r EXCEPT !.heard = TRUE, !.step = "sent"]
                      ELSE IF sent[q].kind = r.kind THEN [sent[q] EXCEPT !.heard = FALSE]
                      ELSE sent[q]]

Clicks(r) ==
    /\ dialogOpen /\ toggles < MaxSwitches /\ toggles' = toggles + 1 /\ Mutate(r)
    /\ UNCHANGED <<isSelf, accessServer, dialogOpen, seen, stale, foreign, offers,
                   spinning, accessHist>>

togglePolicy(p) ==
    /\ canTogglePolicy(p)
    /\ LET on == p \in seen.policies
       IN Clicks([NoRequest EXCEPT !.kind = IF on THEN "revoke" ELSE "assign",
                                   !.policy = p, !.was = IF on THEN "open" ELSE "no"])

\* One way: there is no inverse, so no undo.
requestRevokePolicyAction(p, e) ==
    /\ p \in seen.policies /\ e \in Contents[p]
    /\ ~(isSelf /\ p \in ProtectedNames)
    /\ Clicks([NoRequest EXCEPT !.kind = "carve", !.policy = p, !.entry = e])

\* A loading toast is shown until the request ends.
toggleDirectPermission(e) ==
    /\ PermissionEntrySwitch(e)
    /\ LET was == seen.direct[e]
       IN Clicks([NoRequest EXCEPT !.kind = IF was = "no" THEN "grant" ELSE "ungrant",
                                   !.entry = e, !.cond = "open", !.was = was,
                                   !.toast = TRUE])

\* The undo of a toast: the inverse, for a direct grant with its condition.
Undo(o) ==
    /\ o \in offers /\ offers' = offers \ {o}
    /\ Mutate([NoRequest EXCEPT !.kind = InverseOf(o.kind), !.policy = o.policy,
                                !.entry = o.entry, !.cond = o.was, !.undo = TRUE])
    /\ UNCHANGED <<isSelf, accessServer, dialogOpen, seen, stale, foreign, spinning,
                   toggles, accessHist>>

\* Toasts time out, or are closed: then an undo is offered no more, and the
\* end of a request no longer finds its toast.
ToastCloses ==
    /\ \/ \E o \in offers : offers' = offers \ {o} /\ UNCHANGED <<sent, spinning>>
       \/ \E s \in Slots : sent[s].toast /\ sent' = [sent EXCEPT ![s].toast = FALSE]
                           /\ UNCHANGED <<offers, spinning>>
       \/ spinning > 0 /\ spinning' = spinning - 1 /\ UNCHANGED <<offers, sent>>
    /\ UNCHANGED <<isSelf, accessServer, dialogOpen, seen, stale, foreign, toggles,
                   accessHist>>

-----------------------------------------------------------------------------
(* The server *)

\* The access a request leaves, if the user holds what it takes away.
assign_policy_to_user(r) == <<assigned \cup {r.policy}, direct>>
remove_policy_from_user(r) == <<assigned \ {r.policy}, direct>>
grant_permission_to_user(r) == <<assigned, [direct EXCEPT ![r.entry] = r.cond]>>
revoke_permission_from_user(r) == <<assigned, [direct EXCEPT ![r.entry] = "no"]>>

\* The policy goes; its other actions stay as direct grants, with its condition.
revoke_single_action(r) ==
    <<assigned \ {r.policy},
      [e \in Grants |-> IF e \in Contents[r.policy] \ {r.entry}
                         THEN Conditions[r.policy] ELSE direct[e]]>>

Outcome(r) ==
    CASE r.kind = "assign" -> assign_policy_to_user(r)
      [] r.kind = "revoke" -> remove_policy_from_user(r)
      [] r.kind = "carve" -> revoke_single_action(r)
      [] r.kind = "grant" -> grant_permission_to_user(r)
      [] r.kind = "ungrant" -> revoke_permission_from_user(r)

Holds(r) ==
    /\ r.kind \in {"revoke", "carve"} => r.policy \in assigned
    /\ r.kind = "ungrant" => direct[r.entry] # "no"

\* Nothing changed since the click that the switch did not show.
AsShown(r) ==
    CASE r.kind \in {"assign", "revoke"} -> (r.was # "no") = (r.policy \in assigned)
      [] r.kind \in {"grant", "ungrant"} -> r.was = direct[r.entry]
      [] OTHER -> FALSE

\* The undo of the last change of all.
UndoesLast(r) ==
    LET l == accessHist.last
    IN /\ r.undo /\ r.kind = InverseOf(l.kind) /\ r.policy = l.policy
       /\ r.entry = l.entry /\ r.cond = l.was

Applies(s) ==
    LET r == sent[s]
        next == Outcome(r)
    IN /\ r.step = "sent" /\ Holds(r)
       /\ assigned' = next[1] /\ direct' = next[2]
       /\ sent' = [sent EXCEPT ![s].step = "done"]
       /\ accessHist' = [accessHist EXCEPT
            !.last = IF ~r.undo /\ AsShown(r) THEN LastCall(r, <<assigned, direct>>)
                     ELSE NoLast,
            !.undoOff = @ \/ (UndoesLast(r) /\ next # accessHist.last.before)]
       /\ UNCHANGED <<isSelf, active, dialogOpen, seen, stale, foreign, offers,
                      spinning, toggles>>

\* As if taking an action out of a policy invalidated the policies alone.
InvalidatedByKind(kind) ==
    IF kind \in {"assign", "revoke", "carve"} THEN {"policies"} ELSE {"direct"}

\* The lists of the answered request are invalidated, whoever still listens.
InvalidatedList(kind) ==
    CASE kind \in {"assign", "revoke"} -> {"policies"}
      [] kind = "carve" -> Lists
      [] OTHER -> {"direct"}

\* How it ends for the dialog: well, or with an error, when it was refused or
\* its answer lost.  A good answer brings a toast with an undo to the latest call
\* of its hook, if the toast it replaces is still there; a loading toast that
\* nobody tells stays.
MutationEnds(s, ok) ==
    LET r == sent[s]
        loading == r.kind \in {"grant", "ungrant"} /\ ~r.undo
        offered == ok /\ r.heard /\ ~r.undo /\ r.kind # "carve" /\ (loading => r.toast)
    IN /\ r.step # "idle" /\ (ok => r.step = "done")
       /\ sent' = [sent EXCEPT ![s] = NoRequest]
       /\ stale' = IF ok THEN stale \cup InvalidatedList(r.kind) ELSE stale
       /\ foreign' = IF r.step = "done" /\ ~ok THEN Lists ELSE foreign
       /\ spinning' = IF loading /\ r.toast /\ ~r.heard THEN spinning + 1 ELSE spinning
       /\ offers' = IF offered
                    THEN offers \cup {[kind |-> r.kind, policy |-> r.policy,
                                       entry |-> r.entry, was |-> r.was]}
                    ELSE offers
       /\ UNCHANGED <<isSelf, accessServer, dialogOpen, seen, toggles, accessHist>>

-----------------------------------------------------------------------------
(* The lists *)

useUserPoliciesQuery ==
    /\ dialogOpen /\ "policies" \in stale
    /\ seen' = [seen EXCEPT !.policies = assigned]
    /\ stale' = stale \ {"policies"} /\ foreign' = foreign \ {"policies"}
    /\ UNCHANGED <<isSelf, accessServer, dialogOpen, sent, offers, spinning, toggles,
                   accessHist>>

useUserPermissionsQuery ==
    /\ dialogOpen /\ "direct" \in stale
    /\ seen' = [seen EXCEPT !.direct = direct]
    /\ stale' = stale \ {"direct"} /\ foreign' = foreign \ {"direct"}
    /\ UNCHANGED <<isSelf, accessServer, dialogOpen, sent, offers, spinning, toggles,
                   accessHist>>

\* Opened again, the dialog may find its lists old enough to read them again.
UserAccessDialog ==
    /\ dialogOpen' = ~dialogOpen
    /\ stale' \in (IF dialogOpen THEN {stale} ELSE {stale, Lists})
    /\ UNCHANGED <<isSelf, accessServer, seen, foreign, sent, offers, spinning,
                   toggles, accessHist>>

\* Others assign, grant, or switch a policy off.
OthersChangeAccess ==
    /\ toggles < MaxSwitches /\ toggles' = toggles + 1
    /\ accessHist' = [accessHist EXCEPT !.last = NoLast]
    /\ \/ \E p \in Policies \ ProtectedNames :
             /\ \/ assigned' = assigned \cup {p} /\ UNCHANGED active
                \/ assigned' = assigned \ {p} /\ UNCHANGED active
                \/ active' = active \ {p} /\ UNCHANGED assigned
             /\ UNCHANGED direct
       \/ \E e \in Catalog, g \in Grades :
             direct' = [direct EXCEPT ![e] = g] /\ UNCHANGED <<active, assigned>>
    /\ foreign' = Lists
    /\ UNCHANGED <<isSelf, dialogOpen, seen, stale, sent, offers, spinning>>

AccessNext ==
    \/ \E p \in Policies : \/ togglePolicy(p)
                           \/ \E e \in Contents[p] : requestRevokePolicyAction(p, e)
    \/ \E e \in Catalog : toggleDirectPermission(e)
    \/ \E o \in offers : Undo(o)
    \/ ToastCloses \/ UserAccessDialog \/ OthersChangeAccess
    \/ \E s \in Slots : Applies(s) \/ \E ok \in BOOLEAN : MutationEnds(s, ok)
    \/ useUserPoliciesQuery \/ useUserPermissionsQuery

AccessSpec == AccessInit /\ [][AccessNext]_accessVars

-----------------------------------------------------------------------------
(* Properties *)

\* Once the requests have been answered and the lists read again, they show the
\* user's access, however the requests overlapped, for all that nobody else
\* changed it: each request invalidates every list it changes.
AccessListsSettle ==
    /\ \A s \in Slots : sent[s] = NoRequest
    /\ dialogOpen /\ stale = {} /\ foreign = {}
    => seen = [policies |-> assigned, direct |-> direct]

\* An undo gives back exactly the access there was before the switch, with the
\* condition of a direct grant, when the switch was clicked on what the server
\* had and nothing changed in between.
UndoRestores == ~accessHist.undoOff

\* policy_action_revocation_service.py:29-31: the other actions become direct
\* grants "so the user's effective access is unchanged except for the revoked
\* action".
CarvingKeepsTheRest ==
    [][\A s \in Slots :
         sent[s].kind = "carve" /\ sent[s].step = "sent" /\ sent'[s].step = "done" =>
           {e \in Access(assigned', direct') : e[1] # sent[s].entry[1]}
             = {e \in Access(assigned, direct) : e[1] # sent[s].entry[1]}]_accessVars

\* userAccessDialogHandlers.ts:130-132: a toggle "reports the result immediately":
\* no loading toast outlives its request.
ToastsReportTheResult == spinning = 0

\* What the dialog promises of its lists and its undo.
AccessSafe == AccessTypeOK /\ AccessListsSettle /\ UndoRestores

-----------------------------------------------------------------------------
(* Why they hold *)

AccessRequests ==
    [kind : Kinds \cup {"none"}, policy : Policies, entry : Grants, cond : Grades,
     was : Grades, toast : BOOLEAN, heard : BOOLEAN, undo : BOOLEAN,
     step : {"idle", "sent", "done"}]

\* A request under way knows what the switch that sent it showed.
SwitchesKnown ==
    /\ sent \in [Slots -> AccessRequests]
    /\ offers \subseteq [kind : Kinds \ {"carve"}, policy : Policies, entry : Grants,
                         was : Grades]
    /\ \A s \in Slots :
          LET r == sent[s]
          IN /\ r.step # "idle" => r.kind \in Kinds
             /\ r.step # "idle" /\ ~r.undo /\ r.kind \in {"assign", "revoke"}
                  => (r.was = "no" <=> r.kind = "assign")
             /\ r.step # "idle" /\ ~r.undo /\ r.kind = "grant" => r.was = "no"

\* A list differs from what the server holds only while somebody knows: it is to
\* be read again, others changed it, or the request that did is not yet answered.
Shows(l) == IF l = "policies" THEN seen.policies = assigned ELSE seen.direct = direct

ListsKnown ==
    /\ seen \in [policies : SUBSET Policies, direct : [Grants -> Grades]]
    /\ \A l \in Lists :
          \/ Shows(l) \/ l \in stale \cup foreign
          \/ \E s \in Slots :
                sent[s].step = "done" /\ l \in InvalidatedList(sent[s].kind)

\* The access the user has is the one the last change made of the access before it.
LastKnown ==
    LET l == accessHist.last
        was == l.before
    IN /\ accessHist \in
            [last : [kind : Kinds \cup {"none"}, policy : Policies, entry : Grants,
                     was : Grades,
                     before : (SUBSET Policies) \X [Grants -> Grades]],
             undoOff : {FALSE}]
       /\ l.kind = "assign" => l.policy \notin was[1] /\ direct = was[2]
                               /\ assigned = was[1] \cup {l.policy}
       /\ l.kind = "revoke" => l.policy \in was[1] /\ direct = was[2]
                               /\ assigned = was[1] \ {l.policy}
       /\ l.kind \in {"grant", "ungrant"} =>
            /\ assigned = was[1] /\ l.was = was[2][l.entry]
            /\ \A e \in Grants \ {l.entry} : direct[e] = was[2][e]
       /\ l.kind = "grant" => l.was = "no"

AccessInv == AccessTypeOK /\ SwitchesKnown /\ ListsKnown /\ LastKnown
=============================================================================
