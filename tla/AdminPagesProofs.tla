-------------------------- MODULE AdminPagesProofs -------------------------
(***************************************************************************)
(* Proofs about what administrators do with users, for every set of users, *)
(* policies and permissions and any number of requests under way, and about *)
(* the audit log they read.                                                *)
(***************************************************************************)
EXTENDS UserAccess, BulkAccess, UsersPage, AuditTrail, FiniteSetTheorems,
        SequenceTheorems, TLAPS

---------------------------------------------------------------------------
(* The access dialog of a user *)

LEMMA AccessTypes ==
  ASSUME AccessInv
  PROVE  /\ isSelf \in BOOLEAN /\ dialogOpen \in BOOLEAN /\ active \subseteq Policies
         /\ assigned \subseteq Policies /\ direct \in [Grants -> Grades]
         /\ seen \in [policies : SUBSET Policies, direct : [Grants -> Grades]]
         /\ stale \subseteq Lists /\ foreign \subseteq Lists
         /\ sent \in [Slots -> AccessRequests]
         /\ spinning \in Nat /\ toggles \in 0..MaxSwitches
BY DEF AccessInv, AccessTypeOK, SwitchesKnown, ListsKnown

LEMMA GrantsOfPolicies ==
  /\ Catalog \subseteq Grants /\ {"no", "open", "narrow"} = Grades
  /\ \A p \in Policies : Contents[p] \subseteq Grants /\ Conditions[p] \in Grades
BY AccessAssumption DEF Grants, Grades

LEMMA NoRequestType ==
  /\ NoRequest \in AccessRequests /\ NoRequest.step = "idle" /\ NoRequest.kind = "none"
  /\ NoRequest.undo = FALSE
<1>1. SomePolicy \in Policies /\ SomeEntry \in Grants
  BY AccessAssumption, GrantsOfPolicies DEF SomePolicy, SomeEntry
<1> QED BY <1>1 DEF NoRequest, AccessRequests, Grades

LEMMA NoLastType ==
  /\ NoLast \in [kind : Kinds \cup {"none"}, policy : Policies, entry : Grants,
                 was : Grades, before : (SUBSET Policies) \X [Grants -> Grades]]
  /\ NoLast.kind = "none"
<1>1. SomePolicy \in Policies /\ SomeEntry \in Grants
  BY AccessAssumption, GrantsOfPolicies DEF SomePolicy, SomeEntry
<1>2. <<{}, [e \in Grants |-> "no"]>> \in (SUBSET Policies) \X [Grants -> Grades]
  BY DEF Grades
<1> QED BY <1>1, <1>2 DEF NoLast, LastCall, NoRequest, Grades

(* The types of the state that the handlers and queries keep.              *)
LEMMA AccessTypesOK ==
  ASSUME isSelf \in BOOLEAN, dialogOpen \in BOOLEAN, active \subseteq Policies,
         assigned \subseteq Policies, direct \in [Grants -> Grades],
         seen \in [policies : SUBSET Policies, direct : [Grants -> Grades]],
         stale \subseteq Lists, foreign \subseteq Lists,
         sent \in [Slots -> AccessRequests], spinning \in Nat, toggles \in 0..MaxSwitches
  PROVE  AccessTypeOK
<1>1. ASSUME NEW s \in Slots
      PROVE  sent[s].kind \in Kinds \cup {"none"} /\ sent[s].step \in {"idle", "sent", "done"}
  BY DEF AccessRequests
<1> QED BY <1>1 DEF AccessTypeOK

LEMMA AccessInitInv == AccessInit => AccessInv
<1> SUFFICES ASSUME AccessInit PROVE AccessInv
  OBVIOUS
<1>1. direct \in [Grants -> Grades] /\ assigned \subseteq Policies
  BY DEF AccessInit, Grades
<1>2. sent \in [Slots -> AccessRequests] /\ \A s \in Slots : sent[s].step = "idle"
  BY NoRequestType DEF AccessInit
<1>3. seen \in [policies : SUBSET Policies, direct : [Grants -> Grades]]
  BY <1>1 DEF AccessInit
<1>4. isSelf \in BOOLEAN /\ dialogOpen \in BOOLEAN /\ active \subseteq Policies
      /\ stale \subseteq Lists /\ foreign \subseteq Lists /\ spinning \in Nat
      /\ toggles \in 0..MaxSwitches
  BY AccessAssumption DEF AccessInit
<1>5. AccessTypeOK
  BY <1>1, <1>2, <1>3, <1>4 DEF AccessTypeOK, AccessRequests
<1>6. SwitchesKnown
  BY <1>2 DEF AccessInit, SwitchesKnown
<1>7. ListsKnown
  BY <1>3 DEF AccessInit, ListsKnown, Shows
<1>8. LastKnown
  BY NoLastType DEF AccessInit, LastKnown
<1> QED BY <1>5, <1>6, <1>7, <1>8 DEF AccessInv

(* What a request sent leaves of those under way.                          *)
LEMMA MutateKeeps ==
  ASSUME AccessInv, NEW r \in AccessRequests, r.kind \in Kinds, Mutate(r),
         ~r.undo /\ r.kind \in {"assign", "revoke"} => (r.was = "no" <=> r.kind = "assign"),
         ~r.undo /\ r.kind = "grant" => r.was = "no"
  PROVE  /\ sent' \in [Slots -> AccessRequests]
         /\ \A s \in Slots :
              /\ sent[s].step = "done" => sent'[s].step = "done" /\ sent'[s].kind = sent[s].kind
              /\ sent'[s].step # "idle" => sent'[s].kind \in Kinds
              /\ sent'[s].step # "idle" /\ ~sent'[s].undo /\ sent'[s].kind \in {"assign", "revoke"}
                   => (sent'[s].was = "no" <=> sent'[s].kind = "assign")
              /\ sent'[s].step # "idle" /\ ~sent'[s].undo /\ sent'[s].kind = "grant"
                   => sent'[s].was = "no"
<1>1. PICK z \in Slots :
        /\ sent[z] = NoRequest
        /\ sent' = [q \in Slots |->
                      IF q = z THEN [r EXCEPT !.heard = TRUE, !.step = "sent"]
                      ELSE IF sent[q].kind = r.kind THEN [sent[q] EXCEPT !.heard = FALSE]
                      ELSE sent[q]]
  BY DEF Mutate
<1>2. PICK new : new = [r EXCEPT !.heard = TRUE, !.step = "sent"]
  OBVIOUS
<1>3. /\ new \in AccessRequests /\ new.kind = r.kind /\ new.was = r.was
      /\ new.undo = r.undo
  BY <1>2 DEF AccessRequests
<1>4. ASSUME NEW q \in Slots
      PROVE  LET k == [sent[q] EXCEPT !.heard = FALSE]
             IN k \in AccessRequests /\ k.kind = sent[q].kind /\ k.was = sent[q].was
                /\ k.undo = sent[q].undo /\ k.step = sent[q].step
  BY AccessTypes DEF AccessRequests
<1>5. ASSUME NEW q \in Slots
      PROVE  /\ sent'[q] \in AccessRequests
             /\ \/ q = z /\ sent'[q] = new
                \/ /\ sent'[q].kind = sent[q].kind /\ sent'[q].was = sent[q].was
                   /\ sent'[q].undo = sent[q].undo /\ sent'[q].step = sent[q].step
  <2>1. CASE q = z
    BY <1>1, <1>2, <1>3, <2>1
  <2>2. CASE q # z
    BY <1>1, <1>4, <2>2, AccessTypes
  <2> QED BY <2>1, <2>2
<1>6. sent' \in [Slots -> AccessRequests]
  BY <1>1, <1>5
<1>7. ASSUME NEW s \in Slots
      PROVE  /\ sent[s].step = "done" => sent'[s].step = "done" /\ sent'[s].kind = sent[s].kind
             /\ sent'[s].step # "idle" => sent'[s].kind \in Kinds
             /\ sent'[s].step # "idle" /\ ~sent'[s].undo /\ sent'[s].kind \in {"assign", "revoke"}
                  => (sent'[s].was = "no" <=> sent'[s].kind = "assign")
             /\ sent'[s].step # "idle" /\ ~sent'[s].undo /\ sent'[s].kind = "grant"
                  => sent'[s].was = "no"
  <2>1. CASE s = z /\ sent'[s] = new
    BY <1>1, <1>3, <2>1, NoRequestType
  <2>2. CASE /\ sent'[s].kind = sent[s].kind /\ sent'[s].was = sent[s].was
             /\ sent'[s].undo = sent[s].undo /\ sent'[s].step = sent[s].step
    BY <2>2 DEF AccessInv, SwitchesKnown
  <2> QED BY <1>5, <2>1, <2>2
<1> QED BY <1>6, <1>7

(* Switches clicked and undone.                                            *)
LEMMA SwitchInv ==
  ASSUME AccessInv,
         \/ \E p \in Policies : \/ togglePolicy(p)
                                \/ \E e \in Contents[p] : requestRevokePolicyAction(p, e)
         \/ \E e \in Catalog : toggleDirectPermission(e)
         \/ \E o \in offers : Undo(o)
  PROVE  AccessInv'
<1> DEFINE Fit(r) ==
      /\ r \in AccessRequests /\ r.kind \in Kinds
      /\ ~r.undo /\ r.kind \in {"assign", "revoke"} => (r.was = "no" <=> r.kind = "assign")
      /\ ~r.undo /\ r.kind = "grant" => r.was = "no"
<1>1. /\ UNCHANGED <<isSelf, accessServer, dialogOpen, seen, stale, foreign, spinning,
                     accessHist>>
      /\ offers' \subseteq offers
  BY DEF togglePolicy, requestRevokePolicyAction, toggleDirectPermission, Clicks, Undo
<1>2. toggles' \in 0..MaxSwitches
  <2>1. toggles' = toggles \/ (toggles < MaxSwitches /\ toggles' = toggles + 1)
    BY DEF togglePolicy, requestRevokePolicyAction, toggleDirectPermission, Clicks, Undo
  <2> QED BY <2>1, AccessTypes, AccessAssumption
<1>3. \E r : Fit(r) /\ Mutate(r)
  <2>1. ASSUME NEW p \in Policies, togglePolicy(p)
        PROVE  \E r : Fit(r) /\ Mutate(r)
    <3>1. PICK k \in {"assign", "revoke"}, w \in {"no", "open"} :
            /\ k = IF p \in seen.policies THEN "revoke" ELSE "assign"
            /\ w = IF p \in seen.policies THEN "open" ELSE "no"
            /\ w = "no" <=> k = "assign"
      OBVIOUS
    <3>2. PICK r : r = [NoRequest EXCEPT !.kind = k, !.policy = p, !.was = w]
      OBVIOUS
    <3>3. r \in AccessRequests /\ r.kind = k /\ r.was = w
      BY <3>2, NoRequestType DEF AccessRequests, Kinds, Grades
    <3>4. Mutate(r)
      BY <2>1, <3>1, <3>2 DEF togglePolicy, Clicks
    <3>5. r.kind \in Kinds
      BY <3>3 DEF Kinds
    <3> QED BY <3>1, <3>3, <3>4, <3>5
  <2>2. ASSUME NEW p \in Policies, NEW e \in Contents[p], requestRevokePolicyAction(p, e)
        PROVE  \E r : Fit(r) /\ Mutate(r)
    <3>1. PICK r : r = [NoRequest EXCEPT !.kind = "carve", !.policy = p, !.entry = e]
      OBVIOUS
    <3>2. e \in Grants
      BY GrantsOfPolicies
    <3>3. r \in AccessRequests /\ r.kind = "carve"
      BY <3>1, <3>2, NoRequestType DEF AccessRequests, Kinds
    <3>4. Mutate(r)
      BY <2>2, <3>1 DEF requestRevokePolicyAction, Clicks
    <3> QED BY <3>3, <3>4 DEF Kinds
  <2>3. ASSUME NEW e \in Catalog, toggleDirectPermission(e)
        PROVE  \E r : Fit(r) /\ Mutate(r)
    <3>1. PICK was : was = seen.direct[e]
      OBVIOUS
    <3>2. e \in Grants /\ was \in Grades
      BY <3>1, AccessTypes, GrantsOfPolicies
    <3>3. PICK r : r = [NoRequest EXCEPT !.kind = IF was = "no" THEN "grant" ELSE "ungrant",
                                   !.entry = e, !.cond = "open", !.was = was,
                                   !.toast = TRUE]
      OBVIOUS
    <3>4. /\ r \in AccessRequests /\ r.was = was
          /\ r.kind = IF was = "no" THEN "grant" ELSE "ungrant"
      BY <3>2, <3>3, NoRequestType DEF AccessRequests, Kinds, Grades
    <3>5. Mutate(r)
      BY <2>3, <3>1, <3>3 DEF toggleDirectPermission, Clicks
    <3> QED BY <3>4, <3>5 DEF Kinds
  <2>4. ASSUME NEW o \in offers, Undo(o)
        PROVE  \E r : Fit(r) /\ Mutate(r)
    <3>1. /\ o.kind \in Kinds \ {"carve"} /\ o.policy \in Policies /\ o.entry \in Grants
          /\ o.was \in Grades
      BY DEF AccessInv, SwitchesKnown
    <3>2. InverseOf(o.kind) \in Kinds
      BY <3>1 DEF InverseOf, Kinds
    <3>3. PICK r : r = [NoRequest EXCEPT !.kind = InverseOf(o.kind), !.policy = o.policy,
                                !.entry = o.entry, !.cond = o.was, !.undo = TRUE]
      OBVIOUS
    <3>4. r \in AccessRequests /\ r.undo = TRUE /\ r.kind = InverseOf(o.kind)
      BY <3>1, <3>2, <3>3, NoRequestType DEF AccessRequests
    <3>5. Mutate(r)
      BY <2>4, <3>3 DEF Undo
    <3> QED BY <3>2, <3>4, <3>5
  <2> QED BY <2>1, <2>2, <2>3, <2>4
<1>4. PICK r : Fit(r) /\ Mutate(r)
  BY <1>3
<1>5. /\ sent' \in [Slots -> AccessRequests]
      /\ \A s \in Slots :
           /\ sent[s].step = "done" => sent'[s].step = "done" /\ sent'[s].kind = sent[s].kind
           /\ sent'[s].step # "idle" => sent'[s].kind \in Kinds
           /\ sent'[s].step # "idle" /\ ~sent'[s].undo /\ sent'[s].kind \in {"assign", "revoke"}
                => (sent'[s].was = "no" <=> sent'[s].kind = "assign")
           /\ sent'[s].step # "idle" /\ ~sent'[s].undo /\ sent'[s].kind = "grant"
                => sent'[s].was = "no"
  BY <1>4, MutateKeeps
<1>6. AccessTypeOK'
  BY <1>1, <1>2, <1>5, AccessTypes DEF AccessTypeOK, AccessRequests, accessServer
<1>7. SwitchesKnown'
  BY <1>1, <1>5 DEF AccessInv, SwitchesKnown
<1>8. ListsKnown'
  BY <1>1, <1>5 DEF AccessInv, ListsKnown, Shows, accessServer
<1>9. LastKnown'
  BY <1>1 DEF AccessInv, LastKnown, accessServer
<1> QED BY <1>6, <1>7, <1>8, <1>9 DEF AccessInv

(* What each request makes of the access.                                  *)
LEMMA OutcomeOf ==
  ASSUME AccessInv, NEW r \in AccessRequests, r.kind \in Kinds
  PROVE  \E a \in SUBSET Policies, d \in [Grants -> Grades] :
           /\ Outcome(r) = <<a, d>>
           /\ r.kind = "assign" => a = assigned \cup {r.policy} /\ d = direct
           /\ r.kind = "revoke" => a = assigned \ {r.policy} /\ d = direct
           /\ r.kind = "grant" => a = assigned /\ d = [direct EXCEPT ![r.entry] = r.cond]
           /\ r.kind = "ungrant" => a = assigned /\ d = [direct EXCEPT ![r.entry] = "no"]
<1>1. /\ r.policy \in Policies /\ r.entry \in Grants /\ r.cond \in Grades
      /\ "no" \in Grades /\ Conditions[r.policy] \in Grades
  BY GrantsOfPolicies DEF AccessRequests, Grades
<1>2. CASE r.kind = "assign"
  <2>1. Outcome(r) = <<assigned \cup {r.policy}, direct>>
    BY <1>2 DEF Outcome, assign_policy_to_user
  <2> QED BY <1>1, <1>2, <2>1, AccessTypes
<1>3. CASE r.kind = "revoke"
  <2>1. Outcome(r) = <<assigned \ {r.policy}, direct>>
    BY <1>3 DEF Outcome, remove_policy_from_user
  <2> QED BY <1>1, <1>3, <2>1, AccessTypes
<1>4. CASE r.kind = "grant"
  <2>1. Outcome(r) = <<assigned, [direct EXCEPT ![r.entry] = r.cond]>>
    BY <1>4 DEF Outcome, grant_permission_to_user
  <2>2. [direct EXCEPT ![r.entry] = r.cond] \in [Grants -> Grades]
    BY <1>1, AccessTypes
  <2> QED BY <1>4, <2>1, <2>2, AccessTypes
<1>5. CASE r.kind = "ungrant"
  <2>1. Outcome(r) = <<assigned, [direct EXCEPT ![r.entry] = "no"]>>
    BY <1>5 DEF Outcome, revoke_permission_from_user
  <2>2. [direct EXCEPT ![r.entry] = "no"] \in [Grants -> Grades]
    BY <1>1, AccessTypes
  <2> QED BY <1>5, <2>1, <2>2, AccessTypes
<1>6. CASE r.kind = "carve"
  <2> DEFINE d == [e \in Grants |-> IF e \in Contents[r.policy] \ {r.entry}
                                    THEN Conditions[r.policy] ELSE direct[e]]
  <2>1. Outcome(r) = <<assigned \ {r.policy}, d>>
    BY <1>6 DEF Outcome, revoke_single_action
  <2>2. d \in [Grants -> Grades]
    BY <1>1, AccessTypes
  <2> HIDE DEF d
  <2> QED BY <1>6, <2>1, <2>2, AccessTypes
<1> QED BY <1>2, <1>3, <1>4, <1>5, <1>6 DEF Kinds

(* The undo of the last change gives back the access before it.            *)
LEMMA UndoBringsBack ==
  ASSUME AccessInv, NEW r \in AccessRequests, r.kind \in Kinds, UndoesLast(r)
  PROVE  Outcome(r) = accessHist.last.before
<1>1. PICK l : l = accessHist.last
  OBVIOUS
<1>2. /\ l.kind \in Kinds \cup {"none"} /\ l.entry \in Grants
      /\ l.before \in (SUBSET Policies) \X [Grants -> Grades]
  BY <1>1 DEF AccessInv, LastKnown
<1>3. PICK b \in SUBSET Policies, g \in [Grants -> Grades] :
        l.before = <<b, g>> /\ l.before[1] = b /\ l.before[2] = g
  BY <1>2
<1>4. /\ r.kind = InverseOf(l.kind) /\ r.policy = l.policy /\ r.entry = l.entry
      /\ r.cond = l.was
  BY <1>1 DEF UndoesLast
<1>5. l.kind \in {"assign", "revoke", "grant", "ungrant"}
  BY <1>2, <1>4 DEF InverseOf, Kinds
<1>6. PICK a \in SUBSET Policies, d \in [Grants -> Grades] :
           /\ Outcome(r) = <<a, d>>
           /\ r.kind = "assign" => a = assigned \cup {r.policy} /\ d = direct
           /\ r.kind = "revoke" => a = assigned \ {r.policy} /\ d = direct
           /\ r.kind = "grant" => a = assigned /\ d = [direct EXCEPT ![r.entry] = r.cond]
           /\ r.kind = "ungrant" => a = assigned /\ d = [direct EXCEPT ![r.entry] = "no"]
  BY OutcomeOf
<1>7. CASE l.kind \in {"assign", "revoke"}
  <2>1. \/ /\ r.kind = "revoke" /\ l.policy \notin b /\ direct = g
           /\ assigned = b \cup {l.policy}
        \/ /\ r.kind = "assign" /\ l.policy \in b /\ direct = g
           /\ assigned = b \ {l.policy}
    BY <1>1, <1>3, <1>4, <1>7 DEF AccessInv, LastKnown, InverseOf
  <2>2. a = b /\ d = g
    BY <1>4, <1>6, <2>1
  <2> QED BY <1>1, <1>3, <1>6, <2>2
<1>8. CASE l.kind \in {"grant", "ungrant"}
  <2>1. /\ assigned = b /\ l.was = g[l.entry]
        /\ \A e \in Grants \ {l.entry} : direct[e] = g[e]
        /\ l.kind = "grant" => l.was = "no"
    BY <1>1, <1>3, <1>8 DEF AccessInv, LastKnown
  <2>2. r.kind = IF l.kind = "grant" THEN "ungrant" ELSE "grant"
    BY <1>4, <1>8 DEF InverseOf
  <2>3. a = b /\ d = [direct EXCEPT ![l.entry] = g[l.entry]]
    BY <1>4, <1>6, <1>8, <2>1, <2>2
  <2>4. d = g
    BY <1>2, <2>1, <2>3, AccessTypes
  <2> QED BY <1>1, <1>3, <1>6, <2>3, <2>4
<1> QED BY <1>5, <1>7, <1>8

LEMMA AppliesInv ==
  ASSUME AccessInv, NEW s \in Slots, Applies(s)
  PROVE  AccessInv'
<1>1. PICK r : r = sent[s]
  OBVIOUS
<1>2. r \in AccessRequests /\ r.step = "sent" /\ r.kind \in Kinds
  BY <1>1, AccessTypes DEF Applies, AccessInv, SwitchesKnown
<1>3. PICK a \in SUBSET Policies, d \in [Grants -> Grades] :
           /\ Outcome(r) = <<a, d>>
           /\ r.kind = "assign" => a = assigned \cup {r.policy} /\ d = direct
           /\ r.kind = "revoke" => a = assigned \ {r.policy} /\ d = direct
           /\ r.kind = "grant" => a = assigned /\ d = [direct EXCEPT ![r.entry] = r.cond]
           /\ r.kind = "ungrant" => a = assigned /\ d = [direct EXCEPT ![r.entry] = "no"]
  BY <1>2, OutcomeOf
<1>4. /\ assigned' = a /\ direct' = d
      /\ sent' = [sent EXCEPT ![s].step = "done"]
      /\ UNCHANGED <<isSelf, active, dialogOpen, seen, stale, foreign, offers,
                     spinning, toggles>>
  BY <1>1, <1>3 DEF Applies
<1>5. PICK new : new = [r EXCEPT !.step = "done"]
  OBVIOUS
<1>6. /\ new \in AccessRequests /\ new.kind = r.kind /\ new.was = r.was
      /\ new.undo = r.undo /\ new.step = "done"
  BY <1>2, <1>5 DEF AccessRequests
<1>7. sent' \in [Slots -> AccessRequests] /\ sent'[s] = new
      /\ \A q \in Slots \ {s} : sent'[q] = sent[q]
  BY <1>1, <1>4, <1>5, <1>6, AccessTypes
<1>8. AccessTypeOK'
  BY <1>4, <1>7, AccessTypes DEF AccessTypeOK, AccessRequests
<1>9. SwitchesKnown'
  <2>1. ASSUME NEW q \in Slots
        PROVE  /\ sent'[q].step # "idle" => sent'[q].kind \in Kinds
               /\ sent'[q].step # "idle" /\ ~sent'[q].undo /\ sent'[q].kind \in {"assign", "revoke"}
                    => (sent'[q].was = "no" <=> sent'[q].kind = "assign")
               /\ sent'[q].step # "idle" /\ ~sent'[q].undo /\ sent'[q].kind = "grant"
                    => sent'[q].was = "no"
    <3>1. CASE q = s
      BY <1>1, <1>2, <1>6, <1>7, <3>1 DEF AccessInv, SwitchesKnown
    <3>2. CASE q # s
      BY <1>7, <3>2 DEF AccessInv, SwitchesKnown
    <3> QED BY <3>1, <3>2
  <2> QED BY <1>4, <1>7, <2>1 DEF AccessInv, SwitchesKnown
<1>10. ListsKnown'
  <2>1. ASSUME NEW l \in Lists
        PROVE  \/ Shows(l)' \/ l \in (stale \cup foreign)'
               \/ \E q \in Slots :
                    sent'[q].step = "done" /\ l \in InvalidatedList(sent'[q].kind)
    <3>1. CASE l \in InvalidatedList(r.kind)
      BY <1>6, <1>7, <3>1
    <3>2. CASE l \notin InvalidatedList(r.kind)
      <4>1. Shows(l) => Shows(l)'
        BY <1>2, <1>3, <1>4, <3>2, <2>1 DEF Shows, InvalidatedList, Kinds, Lists
      <4>2. ASSUME NEW q \in Slots, sent[q].step = "done"
            PROVE  sent'[q] = sent[q]
        BY <1>1, <1>2, <1>7, <4>2
      <4> QED BY <1>4, <4>1, <4>2 DEF AccessInv, ListsKnown
    <3> QED BY <3>1, <3>2
  <2> QED BY <1>4, <2>1, AccessTypes DEF ListsKnown
<1>11. LastKnown'
  <2>1. accessHist \in [last : [kind : Kinds \cup {"none"}, policy : Policies,
                                entry : Grants, was : Grades,
                                before : (SUBSET Policies) \X [Grants -> Grades]],
                        undoOff : {FALSE}]
    BY DEF AccessInv, LastKnown
  <2>2. PICK l : l = IF ~r.undo /\ AsShown(r) THEN LastCall(r, <<assigned, direct>>)
                     ELSE NoLast
    OBVIOUS
  <2>3. ~(UndoesLast(r) /\ Outcome(r) # accessHist.last.before)
    BY <1>2, UndoBringsBack
  <2>4. accessHist' = [accessHist EXCEPT !.last = l, !.undoOff = FALSE]
    BY <1>1, <2>1, <2>2, <2>3 DEF Applies
  <2>5. accessHist'.last = l /\ accessHist'.undoOff = FALSE
        /\ accessHist' = [last |-> l, undoOff |-> FALSE]
    BY <2>1, <2>4
  <2>6. CASE ~r.undo /\ AsShown(r)
    <3>1. l = [kind |-> r.kind, policy |-> r.policy, entry |-> r.entry,
               was |-> r.was, before |-> <<assigned, direct>>]
      BY <2>2, <2>6 DEF LastCall
    <3>2. <<assigned, direct>> \in (SUBSET Policies) \X [Grants -> Grades]
      BY AccessTypes
    <3>3. l \in [kind : Kinds \cup {"none"}, policy : Policies, entry : Grants,
                 was : Grades, before : (SUBSET Policies) \X [Grants -> Grades]]
      BY <1>2, <3>1, <3>2 DEF AccessRequests
    <3>4. l.kind = r.kind /\ l.policy = r.policy /\ l.entry = r.entry /\ l.was = r.was
          /\ l.before[1] = assigned /\ l.before[2] = direct
      BY <3>1
    <3>5. /\ r.kind \in {"assign", "revoke"} => (r.was = "no" <=> r.kind = "assign")
          /\ r.kind = "grant" => r.was = "no"
      BY <1>1, <1>2, <2>6 DEF AccessInv, SwitchesKnown
    <3>6. /\ r.kind = "assign" => r.policy \notin assigned
          /\ r.kind = "revoke" => r.policy \in assigned
          /\ r.kind \in {"grant", "ungrant"} => r.was = direct[r.entry]
      BY <2>6, <3>5 DEF AsShown
    <3>7. r.kind \in {"grant", "ungrant"} => \A e \in Grants \ {r.entry} : d[e] = direct[e]
      BY <1>3, AccessTypes
    <3> QED BY <1>3, <1>4, <2>5, <3>3, <3>4, <3>5, <3>6, <3>7 DEF LastKnown
  <2>7. CASE ~(~r.undo /\ AsShown(r))
    <3>1. l = NoLast
      BY <2>2, <2>7
    <3> QED BY <2>5, <3>1, NoLastType DEF LastKnown
  <2> QED BY <2>6, <2>7
<1> QED BY <1>8, <1>9, <1>10, <1>11 DEF AccessInv

LEMMA EndsInv ==
  ASSUME AccessInv, NEW s \in Slots, NEW ok \in BOOLEAN, MutationEnds(s, ok)
  PROVE  AccessInv'
<1>1. PICK r : r = sent[s]
  OBVIOUS
<1>2. r \in AccessRequests /\ r.step # "idle" /\ r.kind \in Kinds
      /\ (ok => r.step = "done")
  BY <1>1, AccessTypes DEF MutationEnds, AccessInv, SwitchesKnown
<1>4. /\ sent' = [sent EXCEPT ![s] = NoRequest]
      /\ stale' = IF ok THEN stale \cup InvalidatedList(r.kind) ELSE stale
      /\ foreign' = IF r.step = "done" /\ ~ok THEN Lists ELSE foreign
      /\ spinning' \in {spinning, spinning + 1}
      /\ UNCHANGED <<isSelf, accessServer, dialogOpen, seen, toggles, accessHist>>
  BY <1>1 DEF MutationEnds
<1>5. \/ offers' = offers
      \/ /\ r.kind # "carve"
         /\ offers' = offers \cup {[kind |-> r.kind, policy |-> r.policy,
                                    entry |-> r.entry, was |-> r.was]}
  BY <1>1 DEF MutationEnds
<1>6. /\ sent' \in [Slots -> AccessRequests] /\ sent'[s] = NoRequest
      /\ \A q \in Slots \ {s} : sent'[q] = sent[q]
  BY <1>4, AccessTypes, NoRequestType
<1>7. stale' \subseteq Lists /\ foreign' \subseteq Lists /\ spinning' \in Nat
  BY <1>2, <1>4, AccessTypes DEF InvalidatedList, Lists
<1>8. AccessTypeOK'
  BY <1>4, <1>6, <1>7, AccessTypes DEF AccessTypeOK, AccessRequests, accessServer
<1>9. SwitchesKnown'
  <2>1. offers' \subseteq [kind : Kinds \ {"carve"}, policy : Policies, entry : Grants,
                           was : Grades]
    <3>1. r.kind # "carve" =>
            [kind |-> r.kind, policy |-> r.policy, entry |-> r.entry, was |-> r.was]
              \in [kind : Kinds \ {"carve"}, policy : Policies, entry : Grants, was : Grades]
      BY <1>2 DEF AccessRequests
    <3> QED BY <1>5, <3>1 DEF AccessInv, SwitchesKnown
  <2>2. ASSUME NEW q \in Slots
        PROVE  /\ sent'[q].step # "idle" => sent'[q].kind \in Kinds
               /\ sent'[q].step # "idle" /\ ~sent'[q].undo /\ sent'[q].kind \in {"assign", "revoke"}
                    => (sent'[q].was = "no" <=> sent'[q].kind = "assign")
               /\ sent'[q].step # "idle" /\ ~sent'[q].undo /\ sent'[q].kind = "grant"
                    => sent'[q].was = "no"
    <3>1. CASE q = s
      BY <1>6, <3>1, NoRequestType
    <3>2. CASE q # s
      BY <1>6, <3>2 DEF AccessInv, SwitchesKnown
    <3> QED BY <3>1, <3>2
  <2> QED BY <1>6, <2>1, <2>2 DEF SwitchesKnown
<1>10. ListsKnown'
  <2>1. ASSUME NEW l \in Lists
        PROVE  \/ Shows(l)' \/ l \in (stale \cup foreign)'
               \/ \E q \in Slots :
                    sent'[q].step = "done" /\ l \in InvalidatedList(sent'[q].kind)
    <3>1. CASE Shows(l)
      BY <1>4, <3>1 DEF Shows, accessServer
    <3>2. CASE l \in stale \cup foreign
      BY <1>4, <2>1, <3>2
    <3>3. ASSUME NEW q \in Slots, sent[q].step = "done", l \in InvalidatedList(sent[q].kind)
          PROVE  \/ l \in (stale \cup foreign)' \/ sent'[q] = sent[q]
      <4>1. CASE q = s
        BY <1>1, <1>2, <1>4, <2>1, <3>3, <4>1
      <4>2. CASE q # s
        BY <1>6, <4>2
      <4> QED BY <4>1, <4>2
    <3> QED BY <3>1, <3>2, <3>3 DEF AccessInv, ListsKnown
  <2> QED BY <1>4, <2>1, AccessTypes DEF ListsKnown
<1>11. LastKnown'
  BY <1>4 DEF AccessInv, LastKnown, accessServer
<1> QED BY <1>8, <1>9, <1>10, <1>11 DEF AccessInv

(* The two lists read, the dialog opened and closed, toasts that go.       *)
LEMMA ReadingInv ==
  ASSUME AccessInv,
         useUserPoliciesQuery \/ useUserPermissionsQuery \/ UserAccessDialog
  PROVE  AccessInv'
<1>1. UNCHANGED <<isSelf, accessServer, sent, offers, spinning, toggles, accessHist>>
  BY DEF useUserPoliciesQuery, useUserPermissionsQuery, UserAccessDialog
<1>2. /\ stale' \subseteq Lists /\ foreign' \subseteq Lists /\ dialogOpen' \in BOOLEAN
  BY AccessTypes DEF useUserPoliciesQuery, useUserPermissionsQuery, UserAccessDialog
<1>3. seen' \in [policies : SUBSET Policies, direct : [Grants -> Grades]]
  <2>1. /\ [seen EXCEPT !.policies = assigned]
             \in [policies : SUBSET Policies, direct : [Grants -> Grades]]
        /\ [seen EXCEPT !.direct = direct]
             \in [policies : SUBSET Policies, direct : [Grants -> Grades]]
    BY AccessTypes
  <2> QED
    BY <2>1, AccessTypes DEF useUserPoliciesQuery, useUserPermissionsQuery, UserAccessDialog
<1>4. AccessTypeOK'
  BY <1>1, <1>2, <1>3, AccessTypes DEF AccessTypeOK, AccessRequests, accessServer
<1>5. ASSUME NEW l \in Lists
      PROVE  \/ Shows(l)'
             \/ /\ Shows(l) => Shows(l)'
                /\ l \in stale => l \in stale'
                /\ l \in foreign => l \in foreign'
  <2>1. CASE useUserPoliciesQuery
    <3>1. seen'.policies = assigned /\ seen'.direct = seen.direct
      BY <2>1, AccessTypes DEF useUserPoliciesQuery
    <3> QED BY <1>1, <2>1, <3>1 DEF useUserPoliciesQuery, Shows, Lists, accessServer
  <2>2. CASE useUserPermissionsQuery
    <3>1. seen'.policies = seen.policies /\ seen'.direct = direct
      BY <2>2, AccessTypes DEF useUserPermissionsQuery
    <3> QED BY <1>1, <2>2, <3>1 DEF useUserPermissionsQuery, Shows, Lists, accessServer
  <2>3. CASE UserAccessDialog
    BY <2>3 DEF UserAccessDialog, Shows, accessServer
  <2> QED BY <2>1, <2>2, <2>3
<1>6. ListsKnown'
  BY <1>1, <1>3, <1>5 DEF AccessInv, ListsKnown
<1>7. SwitchesKnown' /\ LastKnown'
  BY <1>1 DEF AccessInv, SwitchesKnown, LastKnown, accessServer
<1> QED BY <1>4, <1>6, <1>7 DEF AccessInv

LEMMA ToastInv ==
  ASSUME AccessInv, ToastCloses
  PROVE  AccessInv'
<1>1. /\ UNCHANGED <<isSelf, accessServer, dialogOpen, seen, stale, foreign, toggles,
                     accessHist>>
      /\ offers' \subseteq offers
      /\ spinning' \in Nat
  BY AccessTypes DEF ToastCloses
<1>2. /\ sent' \in [Slots -> AccessRequests]
      /\ \A q \in Slots : /\ sent'[q].kind = sent[q].kind /\ sent'[q].was = sent[q].was
                          /\ sent'[q].undo = sent[q].undo /\ sent'[q].step = sent[q].step
  <2>1. CASE UNCHANGED sent
    BY <2>1, AccessTypes
  <2>2. ASSUME NEW s \in Slots, sent' = [sent EXCEPT ![s].toast = FALSE]
        PROVE  <1>2!1 /\ <1>2!2
    <3>1. LET k == [sent[s] EXCEPT !.toast = FALSE]
          IN k \in AccessRequests /\ k.kind = sent[s].kind /\ k.was = sent[s].was
             /\ k.undo = sent[s].undo /\ k.step = sent[s].step
      BY AccessTypes DEF AccessRequests
    <3> QED BY <2>2, <3>1, AccessTypes
  <2> QED BY <2>1, <2>2 DEF ToastCloses
<1>3. AccessTypeOK'
  BY <1>1, <1>2, AccessTypes DEF AccessTypeOK, AccessRequests, accessServer
<1>4. SwitchesKnown'
  BY <1>1, <1>2 DEF AccessInv, SwitchesKnown
<1>5. ListsKnown'
  BY <1>1, <1>2 DEF AccessInv, ListsKnown, Shows, accessServer
<1>6. LastKnown'
  BY <1>1 DEF AccessInv, LastKnown, accessServer
<1> QED BY <1>3, <1>4, <1>5, <1>6 DEF AccessInv

LEMMA OthersInv ==
  ASSUME AccessInv, OthersChangeAccess
  PROVE  AccessInv'
<1>1. /\ UNCHANGED <<isSelf, dialogOpen, seen, stale, sent, offers, spinning>>
      /\ foreign' = Lists /\ toggles < MaxSwitches /\ toggles' = toggles + 1
      /\ accessHist' = [accessHist EXCEPT !.last = NoLast]
  BY DEF OthersChangeAccess
<1>2. active' \subseteq Policies /\ assigned' \subseteq Policies
  BY AccessTypes DEF OthersChangeAccess
<1>3. direct' \in [Grants -> Grades]
  <2>1. ASSUME NEW e \in Catalog, NEW g \in Grades
        PROVE  [direct EXCEPT ![e] = g] \in [Grants -> Grades]
    BY AccessTypes, GrantsOfPolicies
  <2> QED BY <2>1, AccessTypes DEF OthersChangeAccess
<1>4. toggles' \in 0..MaxSwitches
  BY <1>1, AccessTypes, AccessAssumption
<1>5. AccessTypeOK'
  BY <1>1, <1>2, <1>3, <1>4, AccessTypes DEF AccessTypeOK, AccessRequests
<1>6. SwitchesKnown' /\ ListsKnown'
  BY <1>1 DEF AccessInv, SwitchesKnown, ListsKnown
<1>7. LastKnown'
  <2>1. accessHist' = [last |-> NoLast, undoOff |-> FALSE]
        /\ accessHist'.last = NoLast
    BY <1>1 DEF AccessInv, LastKnown
  <2> QED BY <2>1, NoLastType DEF LastKnown
<1> QED BY <1>5, <1>6, <1>7 DEF AccessInv

LEMMA AccessNextInv == AccessInv /\ [AccessNext]_accessVars => AccessInv'
<1>1. AccessInv /\ UNCHANGED accessVars => AccessInv'
  BY DEF AccessInv, accessVars, accessServer, AccessTypeOK, SwitchesKnown, ListsKnown,
         LastKnown, Shows
<1>2. AccessInv /\ AccessNext => AccessInv'
  BY SwitchInv, AppliesInv, EndsInv, ReadingInv, ToastInv, OthersInv DEF AccessNext
<1> QED BY <1>1, <1>2

(* However switches, undos, answers, losses and changes by others overlap, *)
(* the two lists show the user's access in the end, and the undo of the    *)
(* last change gives back the access there was before it.                  *)
THEOREM AccessAlwaysSafe == AccessSpec => []AccessSafe
<1>1. AccessInv => AccessSafe
  <2> SUFFICES ASSUME AccessInv PROVE AccessSafe
    OBVIOUS
  <2>1. UndoRestores
    BY DEF AccessInv, LastKnown, UndoRestores
  <2>2. AccessListsSettle
    <3>1. SUFFICES ASSUME \A s \in Slots : sent[s] = NoRequest,
                          stale = {}, foreign = {}
                   PROVE  seen = [policies |-> assigned, direct |-> direct]
      BY DEF AccessListsSettle
    <3>2. \A s \in Slots : sent[s].step # "done"
      BY <3>1, NoRequestType
    <3>3. Shows("policies") /\ Shows("direct")
      BY <3>1, <3>2 DEF AccessInv, ListsKnown, Lists
    <3> QED BY <3>3, AccessTypes DEF Shows
  <2> QED BY <2>1, <2>2 DEF AccessInv, AccessSafe
<1> QED BY <1>1, AccessInitInv, AccessNextInv, PTL DEF AccessSpec

---------------------------------------------------------------------------
(* Bulk runs and their report *)

(* Arithmetic of positions in rows of equal length. *)
LEMMA DivMod ==
  ASSUME NEW a \in Nat, NEW c \in Nat \ {0}
  PROVE  /\ a \div c \in Nat /\ a % c \in 0..(c - 1)
         /\ a = c * (a \div c) + (a % c)
OBVIOUS

LEMMA DivUnique ==
  ASSUME NEW q \in Nat, NEW c \in Nat \ {0}, NEW r \in 0..(c - 1)
  PROVE  (c * q + r) \div c = q /\ (c * q + r) % c = r
OBVIOUS

LEMMA ProductSmaller ==
  ASSUME NEW a \in Nat, NEW b \in Nat, NEW c \in Nat \ {0}, c * a < c * b
  PROVE  a < b
OBVIOUS

LEMMA RowFits ==
  ASSUME NEW q \in Nat, NEW l \in Nat, NEW c \in Nat \ {0}, NEW r \in 0..(c - 1), q < l
  PROVE  c * q + r \in Nat /\ c * q + r < c * l
OBVIOUS

(* A set put in some order has each element once.                          *)
LEMMA InSomeOrder ==
  ASSUME NEW S, IsFiniteSet(S)
  PROVE  LET s == SetToSeq(S)
         IN /\ s \in Seq(S) /\ Len(s) \in Nat /\ DOMAIN s = 1..Len(s)
            /\ \A i, j \in 1..Len(s) : s[i] = s[j] => i = j
            /\ \A x \in S : \E i \in 1..Len(s) : s[i] = x
<1>1. PICK n \in Nat : n = Cardinality(S) /\ ExistsBijection(1..n, S)
  BY FS_CardinalityType
<1>2. \E f \in [1..n -> S] : IsInjective(f)
  BY <1>1 DEF ExistsBijection, Bijection, Injection
<1>3. PICK s : s = SetToSeq(S) /\ s \in [1..n -> S] /\ IsInjective(s)
  BY <1>1, <1>2 DEF SetToSeq
<1>4. IsFiniteSet(1..n) /\ Cardinality(1..n) = n
  <2>1. 1 \in Int /\ n \in Int
    OBVIOUS
  <2>2. Cardinality(1..n) = IF 1 > n THEN 0 ELSE n - 1 + 1
    BY <2>1, FS_Interval
  <2> QED BY <2>1, <2>2, FS_Interval
<1>5. s \in Injection(1..n, S)
  BY <1>3 DEF Injection
<1>6. s \in Surjection(1..n, S)
  BY <1>1, <1>4, <1>5, FS_Injection
<1>7. \A x \in S : \E i \in 1..n : s[i] = x
  BY <1>6 DEF Surjection
<1>8. s \in Seq(S) /\ Len(s) = n /\ DOMAIN s = 1..n
  BY <1>3
<1>9. \A i, j \in 1..n : s[i] = s[j] => i = j
  BY <1>3 DEF IsInjective
<1> QED BY <1>3, <1>7, <1>8, <1>9

(* Each user is in one of the chunks.                                      *)
LEMMA ChunksCover ==
  /\ Chunks \in Nat /\ \A i : chunk(i) \subseteq Members
  /\ \A u \in Members : \E j \in 0..(Chunks - 1) : u \in chunk(j + 1)
  /\ \A u \in Members, i \in Nat, j \in Nat : u \in chunk(i + 1) /\ u \in chunk(j + 1) => i = j
<1>1. PICK m \in Nat, c \in Nat \ {0} : m = Cardinality(Members) /\ c = ChunkSize
  BY BulkAssumption, FS_CardinalityType
<1>2. Members = 1..m
  BY <1>1, BulkAssumption
<1>3. PICK k : k = Chunks /\ k = (m + c - 1) \div c
  BY <1>1 DEF Chunks
<1>4. k \in Nat /\ c * k >= m
  <2>1. m + c - 1 \in Nat
    OBVIOUS
  <2>2. PICK r \in 0..(c - 1) : k \in Nat /\ m + c - 1 = c * k + r
    BY <1>3, <2>1, DivMod
  <2>3. PICK z \in Int : z = c * k
    BY <2>2
  <2> QED BY <2>2, <2>3
<1>5. \A i : chunk(i) = {u \in Members : (u - 1) \div c = i - 1}
  BY <1>1 DEF chunk
<1>6. ASSUME NEW u \in Members
      PROVE  \E j \in 0..(k - 1) : u \in chunk(j + 1)
  <2>1. u - 1 \in Nat /\ u - 1 < m
    BY <1>2
  <2>2. PICK j \in Nat, r \in 0..(c - 1) : j = (u - 1) \div c /\ u - 1 = c * j + r
    BY <2>1, DivMod
  <2>3. PICK y \in Int, z \in Int : y = c * j /\ z = c * k
    BY <1>4
  <2>4. c * j < c * k
    BY <1>4, <2>1, <2>2, <2>3
  <2>5. j < k
    BY <1>4, <2>4, ProductSmaller
  <2>6. u \in chunk(j + 1) /\ j \in 0..(k - 1)
    BY <1>4, <1>5, <2>2, <2>5
  <2> QED BY <2>6
<1>7. ASSUME NEW u \in Members, NEW i \in Nat, NEW j \in Nat,
             u \in chunk(i + 1), u \in chunk(j + 1)
      PROVE  i = j
  BY <1>5, <1>7
<1> QED BY <1>3, <1>4, <1>5, <1>6, <1>7

(* The requests of a run ask for each name and each user once.             *)
LEMMA RequestsOnce ==
  ASSUME NEW S \in SUBSET Bundles
  PROVE  LET t == RequestsFor(SetToSeq(S))
         IN /\ t \in Seq(Requests)
            /\ \A i \in DOMAIN t : t[i].policy \in S
            /\ \A u \in Members, p \in S : \E i \in DOMAIN t : IsFor(t[i], u, p)
            /\ \A i, j \in DOMAIN t, u \in Members, p \in Bundles :
                  IsFor(t[i], u, p) /\ IsFor(t[j], u, p) => i = j
<1>1. IsFiniteSet(S)
  BY BulkAssumption, FS_Subset
<1>2. PICK s : /\ s = SetToSeq(S) /\ s \in Seq(S) /\ Len(s) \in Nat /\ DOMAIN s = 1..Len(s)
               /\ \A i, j \in 1..Len(s) : s[i] = s[j] => i = j
               /\ \A x \in S : \E i \in 1..Len(s) : s[i] = x
  BY <1>1, InSomeOrder
<1>3. PICK l \in Nat : l = Len(s)
  BY <1>2
<1>4. /\ s = SetToSeq(S) /\ s \in Seq(S) /\ l = Len(s) /\ DOMAIN s = 1..l
      /\ \A i, j \in 1..l : s[i] = s[j] => i = j
      /\ \A x \in S : \E i \in 1..l : s[i] = x
      /\ \A i \in 1..l : s[i] \in S
  BY <1>2, <1>3
<1>5. PICK c \in Nat : c = Chunks
  BY ChunksCover
<1>6. PICK t : t = RequestsFor(SetToSeq(S))
               /\ t = [n \in 1..(c * l) |->
                         [policy |-> s[((n - 1) \div c) + 1],
                          users |-> chunk(((n - 1) % c) + 1)]]
  BY <1>4, <1>5 DEF RequestsFor
<1>7. PICK len \in Nat : len = c * l
  OBVIOUS
<1>8. ASSUME NEW n \in 1..len
      PROVE  \E q \in Nat, r \in Nat :
               /\ c # 0 /\ r \in 0..(c - 1) /\ n - 1 = c * q + r /\ q + 1 \in 1..l
               /\ t[n].policy = s[q + 1] /\ t[n].users = chunk(r + 1)
               /\ t[n] = [policy |-> s[q + 1], users |-> chunk(r + 1)]
  <2>1. c # 0
    BY <1>7
  <2>2. n - 1 \in Nat /\ n - 1 < len
    BY <1>7
  <2>3. PICK q \in Nat, r \in 0..(c - 1) :
               q = (n - 1) \div c /\ r = (n - 1) % c /\ n - 1 = c * q + r
    BY <2>1, <2>2, DivMod
  <2>4. PICK y \in Int : y = c * q
    OBVIOUS
  <2>5. c * q < c * l
    BY <1>7, <2>2, <2>3, <2>4
  <2>6. q < l
    BY <2>1, <2>5, ProductSmaller
  <2>7. q + 1 \in 1..l /\ r \in Nat
    BY <2>1, <2>6
  <2>8. t[n] = [policy |-> s[q + 1], users |-> chunk(r + 1)]
    BY <1>6, <1>7, <2>3
  <2>9. t[n].policy = s[q + 1] /\ t[n].users = chunk(r + 1)
    BY <2>8
  <2>10. /\ c # 0 /\ r \in 0..(c - 1) /\ n - 1 = c * q + r /\ q + 1 \in 1..l
         /\ t[n].policy = s[q + 1] /\ t[n].users = chunk(r + 1)
         /\ t[n] = [policy |-> s[q + 1], users |-> chunk(r + 1)]
    BY <2>1, <2>3, <2>7, <2>8, <2>9
  <2> QED BY <2>7, <2>10, Zenon
<1>9. t \in Seq(Requests) /\ DOMAIN t = 1..len
  <2>1. ASSUME NEW n \in 1..len PROVE t[n] \in Requests
    <3>1. PICK q \in Nat, r \in Nat :
             q + 1 \in 1..l /\ t[n] = [policy |-> s[q + 1], users |-> chunk(r + 1)]
      BY <1>8
    <3>2. s[q + 1] \in Bundles /\ chunk(r + 1) \subseteq Members
      BY <1>4, <3>1, ChunksCover
    <3> QED BY <3>1, <3>2 DEF Requests
  <2>2. t \in [1..len -> Requests]
    BY <1>6, <1>7, <2>1
  <2> QED BY <2>2
<1>10. ASSUME NEW n \in 1..len PROVE t[n].policy \in S
  <2>1. PICK q \in Nat : q + 1 \in 1..l /\ t[n].policy = s[q + 1]
    BY <1>8
  <2> QED BY <1>4, <2>1
<1>11. ASSUME NEW u \in Members, NEW p \in S
      PROVE  \E i \in 1..len : IsFor(t[i], u, p)
  <2>1. PICK k \in 1..l : s[k] = p
    BY <1>4
  <2>2. PICK r \in 0..(c - 1) : u \in chunk(r + 1)
    BY <1>5, ChunksCover
  <2>3. PICK q \in Nat : q = k - 1 /\ q < l /\ c # 0
    BY <1>5, <2>2
  <2>4. PICK a \in Nat : a = c * q + r /\ a < len
    BY <1>7, <2>3, RowFits
  <2>5. a \div c = q /\ a % c = r
    BY <2>3, <2>4, DivUnique
  <2>6. a + 1 \in 1..len /\ (a + 1) - 1 = a
    BY <2>4
  <2>7. t[a + 1] = [policy |-> s[q + 1], users |-> chunk(r + 1)]
    BY <1>6, <1>7, <2>5, <2>6
  <2>8. IsFor(t[a + 1], u, p)
    BY <2>1, <2>2, <2>3, <2>7 DEF IsFor
  <2> QED BY <2>6, <2>8
<1>12. ASSUME NEW i \in 1..len, NEW j \in 1..len, NEW u \in Members, NEW p \in Bundles,
              IsFor(t[i], u, p), IsFor(t[j], u, p)
       PROVE  i = j
  <2>1. PICK a \in Nat, b \in Nat :
          /\ i - 1 = c * a + b /\ a + 1 \in 1..l
          /\ t[i].policy = s[a + 1] /\ t[i].users = chunk(b + 1)
    BY <1>8
  <2>2. PICK d \in Nat, e \in Nat :
          /\ j - 1 = c * d + e /\ d + 1 \in 1..l
          /\ t[j].policy = s[d + 1] /\ t[j].users = chunk(e + 1)
    BY <1>8
  <2>3. a + 1 = d + 1
    BY <1>4, <1>12, <2>1, <2>2 DEF IsFor
  <2>4. b = e
    BY <1>12, <2>1, <2>2, ChunksCover DEF IsFor
  <2>5. i - 1 = j - 1
    BY <2>1, <2>2, <2>3, <2>4
  <2> QED BY <2>5
<1> QED BY <1>6, <1>9, <1>10, <1>11, <1>12

(* A run that begins has everything before it ...                          *)
LEMMA RunStarts ==
  ASSUME NEW S \in SUBSET Bundles, NEW r,
         r = [at |-> "running", todo |-> RequestsFor(SetToSeq(S)), done |-> {},
              of |-> S, watched |-> TRUE]
  PROVE  r \in BulkRun /\ EachOnce(r)
<1>1. r.todo \in Seq(Requests) /\ r.done = {} /\ r.of = S /\ r.at = "running"
  BY RequestsOnce
<1>2. r \in BulkRun
  BY <1>1 DEF BulkRun
<1> QED BY <1>1, <1>2, RequestsOnce DEF EachOnce

(* ... and an answered request turns what it asked for into results.       *)
LEMMA RunAdvances ==
  ASSUME NEW run \in BulkRun, EachOnce(run), run.at = "running", run.todo # <<>>,
         NEW got \in SUBSET Outcomes, NEW r \in BulkRun,
         r = [run EXCEPT !.todo = Tail(@), !.done = @ \cup got],
         \A o \in got : o.policy = Head(run.todo).policy /\ o.user \in Head(run.todo).users,
         \A u \in Head(run.todo).users : \E o \in got : o.user = u,
         \A o, q \in got : o.user = q.user => o = q
  PROVE  EachOnce(r)
<1>1. PICK t \in Seq(Requests), d \in SUBSET Outcomes :
         t = run.todo /\ d = run.done /\ t # <<>>
  BY DEF BulkRun
<1>2. /\ r.at = "running" /\ r.todo = Tail(t) /\ r.done = d \cup got /\ r.of = run.of
  BY <1>1 DEF BulkRun
<1>3. PICK n \in Nat : /\ n = Len(t) /\ n >= 1 /\ DOMAIN t = 1..n
                       /\ Head(t) = t[1] /\ t[1] \in Requests
  BY <1>1
<1>4. /\ DOMAIN Tail(t) = 1..(n - 1)
      /\ \A i \in 1..(n - 1) : Tail(t)[i] = t[i + 1] /\ i + 1 \in 1..n /\ i + 1 # 1
  BY <1>1, <1>3
<1>5. \A i \in 1..n : i = 1 \/ (i - 1 \in 1..(n - 1) /\ Tail(t)[i - 1] = t[i])
  BY <1>1, <1>3
<1>6. \A o \in got : IsFor(t[1], o.user, o.policy)
  BY <1>1, <1>3 DEF IsFor
<1>7. t[1].policy \in Bundles /\ t[1].users \subseteq Members /\ t[1].policy \in run.of
  BY <1>1, <1>3 DEF Requests, EachOnce
<1>8. \A o \in got \cup d : o.user \in Members /\ o.policy \in Bundles
  BY DEF Outcomes
<1>9. \A i \in DOMAIN r.todo : r.todo[i].policy \in r.of
  BY <1>1, <1>2, <1>3, <1>4 DEF EachOnce
<1>10. \A o \in r.done : o.policy \in r.of
  BY <1>1, <1>2, <1>3, <1>7 DEF EachOnce
<1>11. ASSUME NEW u \in Members, NEW p \in r.of
       PROVE  \/ \E o \in r.done : o.user = u /\ o.policy = p
              \/ \E i \in DOMAIN r.todo : IsFor(r.todo[i], u, p)
  <2>1. CASE \E o \in d : o.user = u /\ o.policy = p
    BY <1>2, <2>1
  <2>2. CASE \E i \in 1..n : IsFor(t[i], u, p)
    <3>1. PICK i \in 1..n : IsFor(t[i], u, p)
      BY <2>2
    <3>2. CASE i = 1
      <4>1. u \in Head(run.todo).users /\ p = Head(run.todo).policy
        BY <1>1, <1>3, <3>1, <3>2 DEF IsFor
      <4> QED BY <1>2, <4>1
    <3>3. CASE i # 1
      BY <1>2, <1>4, <1>5, <3>1, <3>3
    <3> QED BY <3>2, <3>3
  <2> QED BY <1>1, <1>2, <1>3, <2>1, <2>2 DEF EachOnce
<1>12. ASSUME NEW o \in r.done, NEW q \in r.done, o.user = q.user, o.policy = q.policy
       PROVE  o = q
  <2>1. ASSUME NEW x \in got, NEW y \in d, x.user = y.user, x.policy = y.policy PROVE FALSE
    <3>1. IsFor(t[1], y.user, y.policy)
      BY <1>6, <2>1
    <3> QED BY <1>1, <1>3, <3>1 DEF EachOnce
  <2>2. o \in d /\ q \in d => o = q
    BY <1>1, <1>12 DEF EachOnce
  <2> QED BY <1>2, <1>12, <2>1, <2>2
<1>13. ASSUME NEW o \in r.done, NEW i \in DOMAIN r.todo
       PROVE  ~IsFor(r.todo[i], o.user, o.policy)
  <2>1. i \in 1..(n - 1) /\ r.todo[i] = t[i + 1] /\ i + 1 \in 1..n /\ i + 1 # 1
    BY <1>2, <1>4
  <2>2. CASE o \in d
    BY <1>1, <1>3, <2>1, <2>2 DEF EachOnce
  <2>3. CASE o \in got
    BY <1>1, <1>3, <1>6, <1>8, <2>1, <2>3 DEF EachOnce
  <2> QED BY <1>2, <2>2, <2>3
<1>14. ASSUME NEW i \in DOMAIN r.todo, NEW j \in DOMAIN r.todo, NEW u \in Members,
              NEW p \in Bundles, IsFor(r.todo[i], u, p), IsFor(r.todo[j], u, p)
       PROVE  i = j
  <2>1. /\ i \in 1..(n - 1) /\ r.todo[i] = t[i + 1] /\ i + 1 \in 1..n
        /\ j \in 1..(n - 1) /\ r.todo[j] = t[j + 1] /\ j + 1 \in 1..n
    BY <1>2, <1>4
  <2>2. i + 1 = j + 1
    BY <1>1, <1>3, <1>14, <2>1 DEF EachOnce
  <2> QED BY <2>1, <2>2
<1> QED BY <1>2, <1>9, <1>10, <1>11, <1>12, <1>13, <1>14 DEF EachOnce

LEMMA HoldersFinite ==
  ASSUME NEW p
  PROVE  /\ Holders(p) \subseteq Members /\ IsFiniteSet(Holders(p)) /\ Members \subseteq Nat
BY BulkAssumption, FS_Subset, FS_CardinalityType DEF Holders

(* What the count of a bulk removal lets go is never all there is: were    *)
(* every holder to go, two of them would be counted alike.                 *)
LEMMA RemovableSpares ==
  ASSUME NEW users, Holders(Superuser) # {}
  PROVE  Holders(Superuser) \ Removable(Superuser, users) # {}
<1> DEFINE H == Holders(Superuser)
           Upto(u) == {v \in H : v <= u}
           n == Cardinality(H)
           c == [u \in H |-> Cardinality(Upto(u))]
<1>1. H \subseteq Nat /\ IsFiniteSet(H)
  BY HoldersFinite
<1>2. n \in Nat /\ n # 0
  BY <1>1, FS_CardinalityType, FS_EmptySet
<1>3. SUFFICES ASSUME H \subseteq Removable(Superuser, users) PROVE FALSE
  OBVIOUS
<1>4. users \cap Holders(Superuser) = H
  BY <1>3 DEF Removable
<1>5. ASSUME NEW u \in H
      PROVE  /\ IsFiniteSet(Upto(u)) /\ Cardinality(Upto(u)) \in Nat
             /\ Cardinality(Upto(u)) < n /\ Cardinality(Upto(u)) # 0
  <2>1. Upto(u) \in SUBSET H /\ u \in Upto(u)
    BY <1>1
  <2>2. IsFiniteSet(Upto(u))
    BY <1>1, <2>1, FS_Subset
  <2>3. Cardinality(Upto(u)) \in Nat /\ Cardinality(Upto(u)) # 0
    BY <2>1, <2>2, FS_CardinalityType, FS_EmptySet
  <2>4. Cardinality({v \in users \cap Holders(Superuser) : v <= u})
          < Cardinality(Holders(Superuser))
    BY <1>3 DEF Removable
  <2> QED BY <1>4, <2>2, <2>3, <2>4
<1>6. IsFiniteSet(1..(n - 1)) /\ Cardinality(1..(n - 1)) < n
  <2> HIDE DEF n
  <2>1. n - 1 \in Int /\ 1 \in Int
    BY <1>2
  <2>2. /\ IsFiniteSet(1..(n - 1))
        /\ Cardinality(1..(n - 1)) = IF 1 > n - 1 THEN 0 ELSE (n - 1) - 1 + 1
    BY <2>1, FS_Interval
  <2> QED BY <1>2, <2>2
<1>7. c \in [H -> 1..(n - 1)]
  <2> HIDE DEF Upto, n
  <2> QED BY <1>2, <1>5
<1>8. PICK x \in H, y \in H : x # y /\ c[x] = c[y]
  <2> HIDE DEF c
  <2> QED BY <1>1, <1>6, <1>7, FS_PigeonHole
<1>9. PICK a \in H, b \in H : a < b /\ Cardinality(Upto(a)) = Cardinality(Upto(b))
  <2>1. Cardinality(Upto(x)) = Cardinality(Upto(y))
    BY <1>8
  <2>2. x < y \/ y < x
    BY <1>1, <1>8
  <2> QED BY <2>1, <2>2
<1>10. Upto(a) \in SUBSET Upto(b) /\ b \in Upto(b) /\ b \notin Upto(a)
  BY <1>1, <1>9
<1>11. Upto(a) = Upto(b)
  <2> HIDE DEF Upto
  <2> QED BY <1>5, <1>9, <1>10, FS_Subset
<1> QED BY <1>10, <1>11

LEMMA BulkTypes ==
  ASSUME BulkInv
  PROVE  /\ holds \in [Members -> SUBSET Bundles] /\ runs \in [Runs -> BulkRun]
         /\ picked \subseteq Bundles /\ lastAction \in Runs \cup {"none"}
         /\ reportOpen \in BOOLEAN /\ shownTab \in {"none", "policies", "roles"}
         /\ ours \in [at : {"none"} \cup Runs, users : SUBSET Members]
         /\ rival \in [at : {"none", "locked", "counted"}, users : SUBSET Members]
         /\ bulkClicks \in 0..MaxBulkClicks /\ rivals \in 0..MaxRivals
         /\ unlocked \in BOOLEAN /\ \A k \in Runs : EachOnce(runs[k])
BY DEF BulkInv, BulkTypeOK

LEMMA RemovableAreMembers ==
  ASSUME NEW p, NEW users \in SUBSET Members
  PROVE  Removable(p, users) \in SUBSET Members
BY DEF Removable

LEMMA IdleRunOK == IdleRun \in BulkRun /\ EachOnce(IdleRun)
<1>1. <<>> \in Seq(Requests)
  OBVIOUS
<1> QED BY <1>1 DEF IdleRun, BulkRun, EachOnce

LEMMA BulkInitInv == BulkInit => BulkInv
<1> SUFFICES ASSUME BulkInit PROVE BulkInv
  OBVIOUS
<1>1. BulkTypeOK /\ \A k \in Runs : EachOnce(runs[k])
  <2>1. /\ holds \in [Members -> SUBSET Bundles] /\ \E u \in Members : Superuser \in holds[u]
        /\ shownTab = "none" /\ picked = {} /\ lastAction = "none" /\ reportOpen = FALSE
        /\ runs = [k \in Runs |-> IdleRun] /\ ours = NoTransaction /\ rival = NoTransaction
        /\ bulkClicks = 0 /\ rivals = 0 /\ unlocked = FALSE
    BY DEF BulkInit
  <2>2. runs \in [Runs -> BulkRun] /\ \A k \in Runs : EachOnce(runs[k])
    BY <2>1, IdleRunOK
  <2>3. /\ ours \in [at : {"none"} \cup Runs, users : SUBSET Members]
        /\ rival \in [at : {"none", "locked", "counted"}, users : SUBSET Members]
    BY <2>1 DEF NoTransaction
  <2>4. 0 \in 0..MaxBulkClicks /\ 0 \in 0..MaxRivals
    BY BulkAssumption
  <2>5. /\ holds \in [Members -> SUBSET Bundles]
        /\ shownTab \in {"none", "policies", "roles"} /\ picked \subseteq Bundles
        /\ lastAction \in Runs \cup {"none"} /\ reportOpen \in BOOLEAN
        /\ bulkClicks \in 0..MaxBulkClicks /\ rivals \in 0..MaxRivals
        /\ unlocked \in BOOLEAN
    BY <2>1, <2>4
  <2>6. BulkTypeOK
    BY <2>2, <2>3, <2>5 DEF BulkTypeOK
  <2> QED BY <2>2, <2>6
<1>2. RemovalUnderWay
  BY DEF BulkInit, RemovalUnderWay, NoTransaction
<1>3. HolderSpared
  BY DEF BulkInit, HolderSpared, Holders, NoTransaction
<1> QED BY <1>1, <1>2, <1>3 DEF BulkInv

LEMMA RunReplaced ==
  ASSUME BulkInv, NEW k \in Runs, NEW r \in BulkRun, EachOnce(r),
         runs' = [runs EXCEPT ![k] = r]
  PROVE  /\ runs' \in [Runs -> BulkRun] /\ \A q \in Runs : EachOnce(runs'[q])
         /\ runs'[k] = r /\ \A q \in Runs \ {k} : runs'[q] = runs[q]
<1>1. runs \in [Runs -> BulkRun] /\ \A q \in Runs : EachOnce(runs[q])
  BY BulkTypes
<1>2. runs'[k] = r /\ \A q \in Runs \ {k} : runs'[q] = runs[q]
  BY <1>1
<1> QED BY <1>1, <1>2

(* Nothing of the dialog, of the runs' ends or of an assignment takes a    *)
(* holder away or disturbs a removal under way.                            *)
LEMMA BulkKeeps ==
  ASSUME BulkInv, BulkTypeOK', \A k \in Runs : EachOnce(runs'[k]),
         UNCHANGED <<ours, rival, unlocked>>,
         Holders(Superuser) \subseteq Holders(Superuser)',
         ours.at = "remove" =>
           runs'["remove"].at = "running" /\ runs'["remove"].todo = runs["remove"].todo
  PROVE  BulkInv'
<1>1. RemovalUnderWay'
  BY DEF BulkInv, RemovalUnderWay
<1>2. HolderSpared'
  BY DEF BulkInv, HolderSpared
<1>3. (\A k \in Runs : EachOnce(runs[k]))'
  OBVIOUS
<1> QED BY <1>1, <1>2, <1>3 DEF BulkInv

LEMMA DialogInv ==
  ASSUME BulkInv,
         \/ OpenBulkDialog \/ BulkUserAccessDialog \/ CloseReport
         \/ \E t \in {"policies", "roles"} : activateTab(t)
         \/ \E p \in Bundles : BulkPolicyTab(p)
  PROVE  BulkInv'
<1>1. UNCHANGED <<holds, ours, rival, rivals, unlocked>>
      /\ Holders(Superuser)' = Holders(Superuser)
  BY DEF OpenBulkDialog, BulkUserAccessDialog, CloseReport, activateTab, BulkPolicyTab,
         bulkServer, Holders
<1>2. /\ shownTab' \in {"none", "policies", "roles"} /\ picked' \subseteq Bundles
      /\ lastAction' \in Runs \cup {"none"} /\ reportOpen' \in BOOLEAN
      /\ bulkClicks' \in 0..MaxBulkClicks
  <2>1. bulkClicks' \in 0..MaxBulkClicks
    BY BulkTypes, BulkAssumption DEF OpenBulkDialog, BulkUserAccessDialog, CloseReport,
       activateTab, BulkPolicyTab, BulkClick
  <2> QED
    BY <2>1, BulkTypes DEF OpenBulkDialog, BulkUserAccessDialog, CloseReport, activateTab,
       BulkPolicyTab
<1>3. /\ runs' \in [Runs -> BulkRun] /\ \A k \in Runs : EachOnce(runs'[k])
      /\ \A k \in Runs : runs[k].at = "running" =>
            runs'[k].at = "running" /\ runs'[k].todo = runs[k].todo
  <2>1. CASE UNCHANGED runs
    BY <2>1, BulkTypes
  <2>2. CASE BulkUserAccessDialog
    <3>1. runs' = [k \in Runs |-> IF runs[k].at = "running"
                                  THEN [runs[k] EXCEPT !.watched = FALSE] ELSE IdleRun]
      BY <2>2 DEF BulkUserAccessDialog
    <3>2. ASSUME NEW k \in Runs
          PROVE  /\ runs'[k] \in BulkRun /\ EachOnce(runs'[k])
                 /\ runs[k].at = "running" =>
                      runs'[k].at = "running" /\ runs'[k].todo = runs[k].todo
      <4>1. PICK o \in BulkRun : o = runs[k] /\ EachOnce(o)
        BY BulkTypes
      <4>2. PICK unwatched : unwatched = [o EXCEPT !.watched = FALSE]
        OBVIOUS
      <4>3. /\ unwatched \in BulkRun /\ unwatched.at = o.at /\ unwatched.todo = o.todo
            /\ unwatched.done = o.done /\ unwatched.of = o.of
        BY <4>1, <4>2 DEF BulkRun
      <4>4. EachOnce(unwatched)
        BY <4>1, <4>3 DEF EachOnce
      <4>5. runs'[k] = IF o.at = "running" THEN unwatched ELSE IdleRun
        BY <3>1, <4>1, <4>2
      <4> QED BY <4>1, <4>3, <4>4, <4>5, IdleRunOK
    <3>3. DOMAIN runs' = Runs /\ runs' = [k \in Runs |-> runs'[k]]
      BY <3>1
    <3> QED BY <3>2, <3>3
  <2> QED
    BY <2>1, <2>2 DEF OpenBulkDialog, CloseReport, activateTab, BulkPolicyTab
<1>4. BulkTypeOK'
  BY <1>1, <1>2, <1>3, BulkTypes DEF BulkTypeOK
<1> QED BY <1>1, <1>3, <1>4, BulkKeeps DEF BulkInv, RemovalUnderWay, Runs

LEMMA RunsInv ==
  ASSUME BulkInv,
         \E k \in Runs : runPolicy(k) \/ RequestFails(k) \/ RunEnds(k)
  PROVE  BulkInv'
<1>1. PICK k \in Runs : runPolicy(k) \/ RequestFails(k) \/ RunEnds(k)
  OBVIOUS
<1>2. PICK o \in BulkRun : o = runs[k] /\ EachOnce(o)
  BY BulkTypes
<1>3. UNCHANGED <<holds, ours, rival, rivals, unlocked>>
      /\ Holders(Superuser)' = Holders(Superuser)
  BY <1>1 DEF runPolicy, RequestFails, RunEnds, bulkServer, Holders
<1>4. /\ shownTab' \in {"none", "policies", "roles"} /\ picked' \subseteq Bundles
      /\ lastAction' \in Runs \cup {"none"} /\ reportOpen' \in BOOLEAN
      /\ bulkClicks' \in 0..MaxBulkClicks
  <2>1. CASE runPolicy(k)
    BY <2>1, BulkTypes, BulkAssumption DEF runPolicy, BulkClick
  <2>2. CASE RequestFails(k)
    BY <2>2, BulkTypes DEF RequestFails, bulkScreen
  <2>3. CASE RunEnds(k)
    BY <2>3, BulkTypes DEF RunEnds
  <2> QED BY <1>1, <2>1, <2>2, <2>3
<1>5. \E r \in BulkRun : /\ EachOnce(r) /\ runs' = [runs EXCEPT ![k] = r]
                         /\ ~(ours.at = "remove" /\ k = "remove")
  <2>1. CASE runPolicy(k)
    <3>1. PICK r : r = [at |-> "running", todo |-> RequestsFor(SetToSeq(picked)),
                        done |-> {}, of |-> picked, watched |-> TRUE]
      OBVIOUS
    <3>2. picked \in SUBSET Bundles
      BY BulkTypes
    <3>3. r \in BulkRun /\ EachOnce(r)
      BY <3>1, <3>2, RunStarts
    <3> QED BY <2>1, <3>1, <3>3 DEF runPolicy, BulkInv, RemovalUnderWay
  <2>2. CASE RequestFails(k)
    <3>1. PICK r : r = [o EXCEPT !.at = "failed", !.todo = <<>>, !.done = {}]
      OBVIOUS
    <3>2. r \in BulkRun /\ r.at = "failed"
      <4>1. <<>> \in Seq(Requests)
        OBVIOUS
      <4> QED BY <3>1, <4>1 DEF BulkRun
    <3>3. EachOnce(r)
      BY <3>2 DEF EachOnce
    <3> QED BY <1>2, <2>2, <3>1, <3>2, <3>3 DEF RequestFails
  <2>3. CASE RunEnds(k)
    <3>1. PICK r : r = [o EXCEPT !.at = IF o.watched THEN "done" ELSE "idle"]
      OBVIOUS
    <3>2. o.at = "running" /\ o.todo = <<>> /\ runs' = [runs EXCEPT ![k] = r]
      BY <1>2, <2>3, <3>1 DEF RunEnds
    <3>3. r \in BulkRun /\ r.at \in {"done", "idle"} /\ r.todo = <<>> /\ r.done = o.done
          /\ r.of = o.of
      BY <3>1, <3>2 DEF BulkRun
    <3>4. EachOnce(r)
      BY <1>2, <3>2, <3>3 DEF EachOnce
    <3>5. ~(ours.at = "remove" /\ k = "remove")
      BY <1>2, <3>2 DEF BulkInv, RemovalUnderWay
    <3> QED BY <3>2, <3>3, <3>4, <3>5
  <2> QED BY <1>1, <2>1, <2>2, <2>3
<1>6. /\ runs' \in [Runs -> BulkRun] /\ \A q \in Runs : EachOnce(runs'[q])
      /\ \A q \in Runs \ {k} : runs'[q] = runs[q]
  BY <1>5, RunReplaced
<1>7. BulkTypeOK'
  BY <1>3, <1>4, <1>6, BulkTypes DEF BulkTypeOK
<1>8. ours.at = "remove" => runs'["remove"] = runs["remove"]
  BY <1>5, <1>6 DEF Runs
<1> QED BY <1>3, <1>6, <1>7, <1>8, BulkKeeps DEF BulkInv, RemovalUnderWay

(* One request at the head of a run is answered.                           *)
LEMMA AnswerTaken ==
  ASSUME BulkInv, NEW k \in Runs, runs[k].at = "running", runs[k].todo # <<>>,
         NEW st \in [Members -> {"success", "already_held", "error"}],
         runs' = [runs EXCEPT ![k].todo = Tail(@), ![k].done = @ \cup
                    {[user |-> u, policy |-> Head(runs[k].todo).policy, status |-> st[u]] :
                     u \in Head(runs[k].todo).users}]
  PROVE  /\ runs' \in [Runs -> BulkRun] /\ \A q \in Runs : EachOnce(runs'[q])
         /\ \A q \in Runs \ {k} : runs'[q] = runs[q]
<1>1. PICK o \in BulkRun : o = runs[k] /\ EachOnce(o) /\ runs \in [Runs -> BulkRun]
  BY BulkTypes
<1>2. PICK t \in Seq(Requests) : t = o.todo /\ t # <<>>
  BY <1>1 DEF BulkRun
<1>3. PICK h \in Requests : h = Head(t) /\ Tail(t) \in Seq(Requests)
  BY <1>2
<1>4. h.policy \in Bundles /\ h.users \subseteq Members
  BY DEF Requests
<1>5. PICK got : got = {[user |-> u, policy |-> h.policy, status |-> st[u]] : u \in h.users}
  OBVIOUS
<1>6. /\ got \in SUBSET Outcomes
      /\ \A x \in got : x.policy = h.policy /\ x.user \in h.users
      /\ \A u \in h.users : \E x \in got : x.user = u
      /\ \A x, y \in got : x.user = y.user => x = y
  <2>1. ASSUME NEW u \in h.users
        PROVE  [user |-> u, policy |-> h.policy, status |-> st[u]] \in Outcomes
    <3>1. u \in Members /\ st[u] \in {"success", "already_held", "error"}
      BY <1>4
    <3> QED BY <1>4, <3>1 DEF Outcomes
  <2>2. \A x \in got : \E u \in h.users :
           x = [user |-> u, policy |-> h.policy, status |-> st[u]]
    BY <1>5
  <2>3. \A x \in got : x.policy = h.policy /\ x.user \in h.users
    BY <2>2
  <2>4. ASSUME NEW u \in h.users PROVE \E x \in got : x.user = u
    <3>1. [user |-> u, policy |-> h.policy, status |-> st[u]] \in got
      BY <1>5
    <3>2. [user |-> u, policy |-> h.policy, status |-> st[u]].user = u
      OBVIOUS
    <3> QED BY <3>1, <3>2
  <2>5. \A x, y \in got : x.user = y.user => x = y
    BY <2>2
  <2> QED BY <2>1, <2>2, <2>3, <2>4, <2>5
<1>7. PICK r : r = [o EXCEPT !.todo = Tail(@), !.done = @ \cup got]
  OBVIOUS
<1>8. r \in BulkRun
  BY <1>2, <1>3, <1>6, <1>7 DEF BulkRun
<1>9. runs' = [runs EXCEPT ![k].todo = Tail(@), ![k].done = @ \cup got]
  BY <1>1, <1>2, <1>3, <1>5
<1>10. runs' = [runs EXCEPT ![k] = r]
  BY <1>1, <1>7, <1>9
<1>11. EachOnce(r)
  <2>1. o.at = "running" /\ o.todo # <<>> /\ Head(o.todo) = h
    BY <1>1, <1>2, <1>3
  <2>2. /\ \A x \in got : x.policy = Head(o.todo).policy /\ x.user \in Head(o.todo).users
        /\ \A u \in Head(o.todo).users : \E x \in got : x.user = u
    BY <1>6, <2>1
  <2> QED BY <1>1, <1>6, <1>7, <1>8, <2>1, <2>2, RunAdvances
<1> QED BY <1>8, <1>10, <1>11, RunReplaced

LEMMA AssignInv ==
  ASSUME BulkInv, bulk_assign_policies
  PROVE  BulkInv'
<1>1. /\ runs["assign"].at = "running" /\ runs["assign"].todo # <<>> /\ "assign" \in Runs
      /\ runs' = [runs EXCEPT !["assign"].todo = Tail(@), !["assign"].done = @ \cup
                    {[user |-> u, policy |-> Head(runs["assign"].todo).policy,
                      status |-> IF Head(runs["assign"].todo).policy \in holds[u]
                                 THEN "already_held" ELSE "success"] :
                     u \in Head(runs["assign"].todo).users}]
  BY DEF bulk_assign_policies, Runs
<1>2. PICK st \in [Members -> {"success", "already_held", "error"}] :
         \A u \in Members : st[u] = IF Head(runs["assign"].todo).policy \in holds[u]
                                    THEN "already_held" ELSE "success"
  <2> WITNESS [u \in Members |-> IF Head(runs["assign"].todo).policy \in holds[u]
                                 THEN "already_held" ELSE "success"]
                \in [Members -> {"success", "already_held", "error"}]
  <2> QED OBVIOUS
<1>3. /\ runs' \in [Runs -> BulkRun] /\ \A q \in Runs : EachOnce(runs'[q])
      /\ runs'["remove"] = runs["remove"]
  <2>1. Head(runs["assign"].todo) \in Requests
    BY <1>1, BulkTypes DEF BulkRun
  <2>2. {[user |-> u, policy |-> Head(runs["assign"].todo).policy,
          status |-> IF Head(runs["assign"].todo).policy \in holds[u]
                     THEN "already_held" ELSE "success"] :
          u \in Head(runs["assign"].todo).users}
        = {[user |-> u, policy |-> Head(runs["assign"].todo).policy, status |-> st[u]] :
           u \in Head(runs["assign"].todo).users}
    BY <1>2, <2>1 DEF Requests
  <2>3. runs' = [runs EXCEPT !["assign"].todo = Tail(@), !["assign"].done = @ \cup
                    {[user |-> u, policy |-> Head(runs["assign"].todo).policy,
                      status |-> st[u]] : u \in Head(runs["assign"].todo).users}]
    BY <1>1, <2>2
  <2>4. /\ runs' \in [Runs -> BulkRun] /\ \A q \in Runs : EachOnce(runs'[q])
        /\ \A q \in Runs \ {"assign"} : runs'[q] = runs[q]
    BY <1>1, <2>3, AnswerTaken
  <2> QED BY <2>4 DEF Runs
<1>4. PICK h \in Requests : h = Head(runs["assign"].todo)
  BY <1>1, BulkTypes DEF BulkRun
<1>5. /\ holds' = [u \in Members |->
                     IF u \in h.users THEN holds[u] \cup {h.policy} ELSE holds[u]]
      /\ UNCHANGED <<shownTab, picked, lastAction, reportOpen, bulkClicks, ours, rival,
                     rivals, unlocked>>
  BY <1>4 DEF bulk_assign_policies, bulkScreen
<1>6. h.policy \in Bundles
  BY DEF Requests
<1>7. holds' \in [Members -> SUBSET Bundles]
      /\ Holders(Superuser) \subseteq Holders(Superuser)'
  BY <1>5, <1>6, BulkTypes DEF Holders
<1>8. BulkTypeOK'
  BY <1>3, <1>5, <1>7, BulkTypes DEF BulkTypeOK
<1> QED BY <1>3, <1>5, <1>7, <1>8, BulkKeeps DEF BulkInv, RemovalUnderWay

LEMMA RemovalInv ==
  ASSUME BulkInv, bulk_remove_policies \/ RemovalCommits
  PROVE  BulkInv'
<1>1. CASE bulk_remove_policies
  <2>1. PICK r : r = Head(runs["remove"].todo)
    OBVIOUS
  <2>2. /\ runs["remove"].at = "running" /\ runs["remove"].todo # <<>> /\ ~Locked
        /\ ours' = [at |-> "remove", users |-> Removable(r.policy, r.users)]
        /\ UNCHANGED <<shownTab, picked, lastAction, reportOpen, bulkClicks, holds, runs,
                       rival, rivals, unlocked>>
    BY <1>1, <2>1 DEF bulk_remove_policies, bulkScreen
  <2>3. r \in Requests
    BY <2>1, <2>2, BulkTypes DEF BulkRun, Runs
  <2>4. Removable(r.policy, r.users) \in SUBSET Members
    BY <2>3, RemovableAreMembers DEF Requests
  <2>5. ours'.at = "remove" /\ ours'.users = Removable(r.policy, r.users)
        /\ rival.at # "locked" /\ Holders(Superuser)' = Holders(Superuser)
    BY <2>2 DEF Locked, Holders
  <2>6. HolderSpared'
    BY <2>1, <2>2, <2>5, RemovableSpares DEF BulkInv, HolderSpared
  <2>7. RemovalUnderWay'
    BY <2>2, <2>5 DEF RemovalUnderWay
  <2>8. BulkTypeOK'
    BY <2>2, <2>4, BulkTypes DEF BulkTypeOK, Runs
  <2> QED BY <2>2, <2>6, <2>7, <2>8 DEF BulkInv
<1>2. CASE RemovalCommits
  <2>1. PICK r, gone : r = Head(runs["remove"].todo)
                       /\ gone = ours.users \cap Holders(r.policy)
    OBVIOUS
  <2>2. /\ ours.at = "remove" /\ ours' = NoTransaction
        /\ holds' = [u \in Members |->
                       IF u \in gone THEN holds[u] \ {r.policy} ELSE holds[u]]
        /\ UNCHANGED <<shownTab, picked, lastAction, reportOpen, bulkClicks, rival,
                       rivals, unlocked>>
    BY <1>2, <2>1 DEF RemovalCommits, bulkScreen
  <2>3. runs' \in [Runs -> BulkRun] /\ \A q \in Runs : EachOnce(runs'[q])
    <3>1. /\ runs["remove"].at = "running" /\ runs["remove"].todo # <<>> /\ "remove" \in Runs
      BY <2>2 DEF BulkInv, RemovalUnderWay, Runs
    <3>2. PICK st \in [Members -> {"success", "already_held", "error"}] :
             \A u \in Members : st[u] = IF u \in gone THEN "success" ELSE "error"
      <4> WITNESS [u \in Members |-> IF u \in gone THEN "success" ELSE "error"]
                    \in [Members -> {"success", "already_held", "error"}]
      <4> QED OBVIOUS
    <3>3. r \in Requests /\ r.users \subseteq Members
      <4>1. r \in Requests
        BY <2>1, <3>1, BulkTypes DEF BulkRun
      <4> QED BY <4>1 DEF Requests
    <3>4. runs' = [runs EXCEPT !["remove"].todo = Tail(@), !["remove"].done = @ \cup
                     {[user |-> u, policy |-> r.policy,
                       status |-> IF u \in gone THEN "success" ELSE "error"] :
                      u \in r.users}]
      BY <1>2, <2>1 DEF RemovalCommits
    <3>5. {[user |-> u, policy |-> r.policy,
            status |-> IF u \in gone THEN "success" ELSE "error"] : u \in r.users}
          = {[user |-> u, policy |-> r.policy, status |-> st[u]] : u \in r.users}
      BY <3>2, <3>3
    <3>6. runs' = [runs EXCEPT !["remove"].todo = Tail(@), !["remove"].done = @ \cup
                     {[user |-> u, policy |-> Head(runs["remove"].todo).policy,
                       status |-> st[u]] : u \in Head(runs["remove"].todo).users}]
      <4>1. runs' = [runs EXCEPT !["remove"].todo = Tail(@), !["remove"].done = @ \cup
                       {[user |-> u, policy |-> r.policy, status |-> st[u]] : u \in r.users}]
        BY <3>4, <3>5
      <4>2. r = Head(runs["remove"].todo)
        BY <2>1
      <4> QED BY <4>1, <4>2
    <3>7. /\ runs' \in [Runs -> BulkRun] /\ \A q \in Runs : EachOnce(runs'[q])
          /\ \A q \in Runs \ {"remove"} : runs'[q] = runs[q]
      BY <3>1, <3>6, AnswerTaken
    <3> QED BY <3>7
  <2>4. RemovalUnderWay'
    BY <2>2 DEF RemovalUnderWay, NoTransaction
  <2>5. ~unlocked => Holders(Superuser)' # {}
    <3>1. CASE r.policy = Superuser
      <4>1. Holders(Superuser) \ ours.users \subseteq Holders(Superuser)'
        BY <2>1, <2>2 DEF Holders
      <4> QED BY <2>1, <2>2, <3>1, <4>1 DEF BulkInv, HolderSpared
    <3>2. CASE r.policy # Superuser
      <4>1. Holders(Superuser) \subseteq Holders(Superuser)'
        BY <2>2, <3>2 DEF Holders
      <4> QED BY <4>1 DEF BulkInv, HolderSpared
    <3> QED BY <3>1, <3>2
  <2>6. HolderSpared'
    BY <2>2, <2>5 DEF BulkInv, RemovalUnderWay, HolderSpared, NoTransaction
  <2>7. holds' \in [Members -> SUBSET Bundles]
    BY <2>2, BulkTypes
  <2>8. ours' \in [at : {"none"} \cup Runs, users : SUBSET Members]
    BY <2>2 DEF NoTransaction
  <2>9. BulkTypeOK'
    BY <2>2, <2>3, <2>7, <2>8, BulkTypes DEF BulkTypeOK
  <2> QED BY <2>3, <2>4, <2>6, <2>9 DEF BulkInv
<1> QED BY <1>1, <1>2

LEMMA RivalInv ==
  ASSUME BulkInv,
         \/ \E users \in SUBSET Members : RivalBulkRemoval(users)
         \/ \E u \in Members : remove_superuser_from(u)
         \/ RivalCommits
  PROVE  BulkInv'
<1>1. UNCHANGED <<shownTab, picked, lastAction, reportOpen, bulkClicks, runs, ours>>
      /\ \A k \in Runs : EachOnce(runs'[k])
  BY BulkTypes DEF RivalBulkRemoval, remove_superuser_from, RivalCommits, bulkScreen
<1>2. ASSUME NEW users \in SUBSET Members, RivalBulkRemoval(users)
      PROVE  BulkInv'
  <2>1. /\ rival' = [at |-> "locked", users |-> Removable(Superuser, users)]
        /\ ours.at # "remove" /\ UNCHANGED <<holds, unlocked>>
        /\ rivals < MaxRivals /\ rivals' = rivals + 1
    BY <1>2 DEF RivalBulkRemoval, Locked
  <2>2. Holders(Superuser)' = Holders(Superuser)
    BY <2>1 DEF Holders
  <2>3. HolderSpared'
    BY <1>1, <2>1, <2>2, RemovableSpares DEF BulkInv, HolderSpared
  <2>4. Removable(Superuser, users) \in SUBSET Members /\ rivals' \in 0..MaxRivals
    BY <2>1, RemovableAreMembers, BulkTypes, BulkAssumption
  <2>5. BulkTypeOK'
    BY <1>1, <2>1, <2>4, BulkTypes DEF BulkTypeOK
  <2> QED BY <1>1, <2>1, <2>3, <2>5 DEF BulkInv, RemovalUnderWay
<1>3. ASSUME NEW u \in Members, remove_superuser_from(u)
      PROVE  BulkInv'
  <2>1. /\ rival' = [at |-> "counted", users |-> {u}] /\ UNCHANGED <<holds, unlocked>>
        /\ rivals < MaxRivals /\ rivals' = rivals + 1
    BY <1>3 DEF remove_superuser_from
  <2>2. Holders(Superuser)' = Holders(Superuser)
    BY <2>1 DEF Holders
  <2>3. rivals' \in 0..MaxRivals
    BY <2>1, BulkTypes, BulkAssumption
  <2>4. BulkTypeOK'
    BY <1>1, <2>1, <2>3, BulkTypes DEF BulkTypeOK
  <2>5. RemovalUnderWay' /\ HolderSpared'
    BY <1>1, <2>1, <2>2 DEF BulkInv, RemovalUnderWay, HolderSpared
  <2> QED BY <1>1, <2>4, <2>5 DEF BulkInv
<1>4. CASE RivalCommits
  <2>1. /\ rival.at # "none" /\ rival' = NoTransaction /\ rivals' = rivals
        /\ holds' = [u \in Members |->
                       IF u \in rival.users THEN holds[u] \ {Superuser} ELSE holds[u]]
        /\ unlocked' = (unlocked \/ rival.at = "counted")
        /\ rival.at = "counted" => ~Locked
    BY <1>4 DEF RivalCommits
  <2>2. Holders(Superuser) \ rival.users \subseteq Holders(Superuser)'
    BY <2>1 DEF Holders
  <2>3. unlocked' \in BOOLEAN /\ (~unlocked' => ~unlocked /\ rival.at # "counted")
    BY <2>1, BulkTypes
  <2>4. rival.at \in {"locked", "counted"} /\ (rival.at = "locked" => ours.at # "remove")
        /\ rival'.at = "none"
    BY <2>1, BulkTypes DEF BulkInv, RemovalUnderWay, NoTransaction
  <2>5. HolderSpared'
    BY <1>1, <2>1, <2>2, <2>3, <2>4 DEF BulkInv, HolderSpared
  <2>6. holds' \in [Members -> SUBSET Bundles]
        /\ rival' \in [at : {"none", "locked", "counted"}, users : SUBSET Members]
    BY <2>1, BulkTypes DEF NoTransaction
  <2>7. BulkTypeOK'
    BY <1>1, <2>1, <2>3, <2>6, BulkTypes DEF BulkTypeOK
  <2>8. RemovalUnderWay'
    BY <1>1, <2>4 DEF BulkInv, RemovalUnderWay
  <2> QED BY <1>1, <2>5, <2>7, <2>8 DEF BulkInv
<1> QED BY <1>2, <1>3, <1>4

LEMMA BulkNextInv == BulkInv /\ [BulkNext]_bulkVars => BulkInv'
<1>1. BulkInv /\ UNCHANGED bulkVars => BulkInv'
  BY DEF BulkInv, bulkVars, BulkTypeOK, RemovalUnderWay, HolderSpared, Holders
<1>2. BulkInv /\ BulkNext => BulkInv'
  BY DialogInv, RunsInv, AssignInv, RemovalInv, RivalInv DEF BulkNext
<1> QED BY <1>1, <1>2

(* A report counts one result for each user and each policy of its run.    *)
LEMMA ReportCounts == BulkInv => ReportIsComplete
<1> SUFFICES ASSUME BulkInv, ReportShown PROVE
      /\ {<<r.user, r.policy>> : r \in Result(lastAction)} = Members \X runs[lastAction].of
      /\ Cardinality(Result(lastAction))
            = Cardinality(Members) * Cardinality(runs[lastAction].of)
  BY DEF ReportIsComplete
<1>1. PICK run \in BulkRun : /\ lastAction \in Runs /\ run = runs[lastAction]
                             /\ run.at = "done" /\ Result(lastAction) = run.done
                             /\ EachOnce(run)
  BY BulkTypes DEF ReportShown, Result
<1>2. PICK d \in SUBSET Outcomes, S \in SUBSET Bundles : d = run.done /\ S = run.of
  BY DEF BulkRun
<1>3. /\ \A o \in d : o.user \in Members /\ o.policy \in S
      /\ \A u \in Members, p \in S : \E o \in d : o.user = u /\ o.policy = p
      /\ \A o, q \in d : o.user = q.user /\ o.policy = q.policy => o = q
  <2>1. run.todo = <<>> /\ DOMAIN run.todo = {}
    BY <1>1 DEF EachOnce
  <2> QED BY <1>1, <1>2, <2>1 DEF EachOnce, Outcomes
<1>4. {<<r.user, r.policy>> : r \in d} = Members \X S
  BY <1>3
<1>5. IsFiniteSet(Members) /\ IsFiniteSet(S)
  BY BulkAssumption, FS_Subset
<1>6. /\ IsFiniteSet(Members \X S)
      /\ Cardinality(Members \X S) = Cardinality(Members) * Cardinality(S)
  BY <1>5, FS_Product
<1>7. PICK f : f = [x \in Members \X S |-> CHOOSE o \in d : o.user = x[1] /\ o.policy = x[2]]
  OBVIOUS
<1>8. ASSUME NEW x \in Members \X S
      PROVE  f[x] \in d /\ f[x].user = x[1] /\ f[x].policy = x[2]
  <2>1. \E o \in d : o.user = x[1] /\ o.policy = x[2]
    BY <1>3
  <2> QED BY <1>7, <2>1
<1>9. f \in [Members \X S -> d]
  BY <1>7, <1>8
<1>10. ASSUME NEW x \in Members \X S, NEW y \in Members \X S, f[x] = f[y]
       PROVE  x = y
  <2>1. x[1] = y[1] /\ x[2] = y[2]
    BY <1>8, <1>10
  <2> QED BY <2>1
<1>11. ASSUME NEW o \in d PROVE \E x \in Members \X S : f[x] = o
  <2>0. o.user \in Members /\ o.policy \in S
    BY <1>3
  <2>1. PICK x \in Members \X S : x = <<o.user, o.policy>>
    BY <2>0
  <2>2. f[x] \in d /\ f[x].user = o.user /\ f[x].policy = o.policy
    BY <1>8, <2>1
  <2> QED BY <1>3, <2>1, <2>2
<1>12. ExistsBijection(Members \X S, d)
  <2>1. f \in Injection(Members \X S, d) /\ f \in Surjection(Members \X S, d)
    BY <1>9, <1>10, <1>11 DEF Injection, Surjection, IsInjective
  <2> QED BY <2>1 DEF ExistsBijection, Bijection
<1>13. Cardinality(d) = Cardinality(Members \X S)
  BY <1>6, <1>12, FS_Bijection
<1> QED BY <1>1, <1>2, <1>4, <1>6, <1>13

(* Bulk removals by any number of administrators' requests, in chunks of   *)
(* any size, leave the superuser policy a holder, as long as the route for *)
(* one user, which takes no lock, has not removed one; and a report has    *)
(* each selected user and each policy of its run once.                     *)
THEOREM BulkAlwaysSafe == BulkSpec => []BulkSafe
<1>1. BulkInv => BulkSafe
  BY ReportCounts DEF BulkInv, HolderSpared, SuperuserRemains, BulkSafe
<1> QED BY <1>1, BulkInitInv, BulkNextInv, PTL DEF BulkSpec

---------------------------------------------------------------------------
(* Positions in a list *)

LEMMA PositionIn ==
  ASSUME NEW S \in SUBSET Nat, IsFiniteSet(S), NEW u \in S
  PROVE  /\ Position(S, u) \in 1..Cardinality(S) /\ Cardinality(S) \in Nat
         /\ IsFiniteSet({v \in S : v <= u})
<1> DEFINE T == {v \in S : v <= u}
<1>1. T \in SUBSET S /\ u \in T
  OBVIOUS
<1>2. IsFiniteSet(T) /\ Cardinality(T) <= Cardinality(S)
  BY <1>1, FS_Subset
<1>3. Cardinality(T) \in Nat /\ Cardinality(T) # 0 /\ Cardinality(S) \in Nat
  BY <1>1, <1>2, FS_CardinalityType, FS_EmptySet
<1>4. Cardinality(T) \in 1..Cardinality(S)
  BY <1>2, <1>3
<1> QED BY <1>2, <1>3, <1>4 DEF Position

(* No two share one.                                                       *)
LEMMA PositionsApart ==
  ASSUME NEW S \in SUBSET Nat, IsFiniteSet(S), NEW x \in S, NEW y \in S, x # y
  PROVE  Position(S, x) # Position(S, y)
<1>1. ASSUME NEW a \in S, NEW b \in S, a < b, Position(S, a) = Position(S, b)
      PROVE  FALSE
  <2> DEFINE A == {v \in S : v <= a}
             B == {v \in S : v <= b}
  <2>0. a \in Nat /\ b \in Nat /\ a < b
    BY <1>1
  <2>1. A \in SUBSET B /\ b \in B /\ b \notin A
    <3>1. \A v \in S : v \in Nat
      OBVIOUS
    <3>2. b \in B /\ b \notin A
      BY <2>0
    <3>3. \A v \in A : v \in S /\ v <= b
      BY <2>0, <3>1
    <3> QED BY <3>2, <3>3
  <2>2. IsFiniteSet(B) /\ Cardinality(B) = Cardinality(A)
    BY <1>1, PositionIn DEF Position
  <2>3. A = B
    <3> HIDE DEF A, B
    <3> QED BY <2>1, <2>2, FS_Subset
  <2> HIDE DEF A, B
  <2> QED BY <2>1, <2>3
<1>2. x < y \/ y < x
  OBVIOUS
<1> QED BY <1>1, <1>2

(* And none is free.                                                       *)
LEMMA PositionTaken ==
  ASSUME NEW S \in SUBSET Nat, IsFiniteSet(S), NEW k \in 1..Cardinality(S)
  PROVE  \E u \in S : Position(S, u) = k
<1> DEFINE n == Cardinality(S)
           p == [u \in S |-> Position(S, u)]
           T == (1..n) \ {k}
<1>1. n \in Nat /\ n >= 1
  BY FS_CardinalityType
<1>2. IsFiniteSet(T) /\ Cardinality(T) = n - 1
  <2>1. 1 \in Int /\ n \in Int
    BY <1>1
  <2>2. IsFiniteSet(1..n) /\ Cardinality(1..n) = IF 1 > n THEN 0 ELSE n - 1 + 1
    <3> HIDE DEF n
    <3> QED BY <2>1, FS_Interval
  <2>3. k \in 1..n
    OBVIOUS
  <2> HIDE DEF n
  <2>4. /\ IsFiniteSet((1..n) \ {k})
        /\ Cardinality((1..n) \ {k}) = IF k \in 1..n THEN Cardinality(1..n) - 1
                                       ELSE Cardinality(1..n)
    BY <2>2, FS_RemoveElement
  <2> QED BY <1>1, <2>2, <2>3, <2>4
<1>3. SUFFICES ASSUME \A u \in S : Position(S, u) # k PROVE FALSE
  OBVIOUS
<1>4. p \in [S -> T]
  BY <1>3, PositionIn
<1>5. Cardinality(T) < Cardinality(S)
  <2> HIDE DEF T
  <2> QED BY <1>1, <1>2
<1>6. PICK x \in S, y \in S : x # y /\ p[x] = p[y]
  <2> HIDE DEF p, T
  <2> QED BY <1>2, <1>4, <1>5, FS_PigeonHole
<1> QED BY <1>6, PositionsApart

(* A batch brings the list up to its end; an empty one, or as many users   *)
(* as there are, means that it is all there.                               *)
LEMMA BatchTaken ==
  ASSUME NEW S \in SUBSET Nat, IsFiniteSet(S), NEW a \in Nat, NEW b \in Nat \ {0}
  PROVE  /\ UpTo(S, a) \cup Slice(S, TRUE, a, b) = UpTo(S, a + b)
         /\ Cardinality(UpTo(S, a)) + Cardinality(Slice(S, TRUE, a, b))
              = Cardinality(UpTo(S, a + b))
         /\ Slice(S, TRUE, a, b) = {} \/ Cardinality(UpTo(S, a + b)) >= Cardinality(S)
              => UpTo(S, a + b) = S
<1>0. PICK got, batch : /\ got = {u \in S : Position(S, u) <= a} /\ got = UpTo(S, a)
                        /\ batch = Slice(S, TRUE, a, b)
  BY DEF UpTo
<1>1. batch = {u \in S : Position(S, u) > a /\ Position(S, u) <= a + b}
  BY <1>0 DEF Slice, Position
<1>2. \A u \in S : Position(S, u) \in 1..Cardinality(S) /\ Cardinality(S) \in Nat
  BY PositionIn
<1>3. \A u \in S : Position(S, u) \in Nat
  BY <1>2
<1>4. got \cup batch = UpTo(S, a + b)
  <2>1. \A u \in S : Position(S, u) <= a => Position(S, u) <= a + b
    BY <1>3
  <2>2. \A u \in S : Position(S, u) <= a \/ Position(S, u) > a
    BY <1>3
  <2> QED BY <1>0, <1>1, <2>1, <2>2 DEF UpTo
<1>5. got \in SUBSET S /\ batch \in SUBSET S /\ (got \cup batch) \in SUBSET S
  BY <1>0, <1>1
<1>6. IsFiniteSet(got) /\ IsFiniteSet(batch)
  BY <1>5, FS_Subset
<1>7. got \cap batch = {}
  <2>1. \A u \in S : ~(Position(S, u) <= a /\ Position(S, u) > a)
    BY <1>3
  <2>2. \A u \in got : u \in S /\ Position(S, u) <= a
    BY <1>0
  <2>3. \A u \in batch : Position(S, u) > a
    BY <1>1
  <2> QED BY <2>1, <2>2, <2>3
<1>8. /\ Cardinality(got) \in Nat /\ Cardinality(batch) \in Nat
      /\ Cardinality(S) \in Nat /\ Cardinality({}) = 0
  BY <1>6, FS_CardinalityType, FS_EmptySet
<1>9. Cardinality(got \cup batch) = Cardinality(got) + Cardinality(batch)
  <2>1. Cardinality(got \cup batch)
          = Cardinality(got) + Cardinality(batch) - Cardinality(got \cap batch)
    BY <1>6, FS_Union
  <2>2. PICK i \in Nat, j \in Nat, k \in Nat :
           i = Cardinality(got) /\ j = Cardinality(batch)
           /\ k = Cardinality(got \cap batch) /\ k = 0
    BY <1>7, <1>8
  <2>3. Cardinality(got \cup batch) = i + j - k
    BY <2>1, <2>2
  <2>4. i + j - k = i + j
    BY <2>2
  <2> QED BY <2>2, <2>3, <2>4
<1>10. ASSUME Cardinality(got \cup batch) >= Cardinality(S) PROVE got \cup batch = S
  <2>1. PICK all : all = got \cup batch
    OBVIOUS
  <2>2. all \in SUBSET S /\ Cardinality(all) >= Cardinality(S)
    BY <1>5, <1>10, <2>1
  <2>3. Cardinality(all) <= Cardinality(S) /\ Cardinality(all) \in Nat
    BY <2>2, FS_Subset, FS_CardinalityType
  <2>4. Cardinality(all) = Cardinality(S)
    BY <1>8, <2>2, <2>3
  <2>5. all = S
    BY <2>2, <2>4, FS_Subset
  <2> QED BY <2>1, <2>5
<1>11. ASSUME batch = {} PROVE got \cup batch = S
  <2>1. ASSUME a < Cardinality(S) PROVE FALSE
    <3>1. a + 1 \in 1..Cardinality(S) /\ a + 1 > a /\ a + 1 <= a + b
      BY <1>8, <2>1
    <3>2. PICK u \in S : Position(S, u) = a + 1
      BY <3>1, PositionTaken
    <3> QED BY <1>1, <1>11, <3>1, <3>2
  <2>2. \A u \in S : Position(S, u) <= a
    BY <1>2, <1>8, <2>1
  <2> QED BY <1>0, <1>11, <2>2
<1> QED BY <1>0, <1>4, <1>9, <1>10, <1>11

---------------------------------------------------------------------------
(* The users page *)

LEMMA UsersTypes ==
  ASSUME UsersInv
  PROVE  /\ known \subseteq People /\ search \in BOOLEAN /\ debounced \in BOOLEAN
         /\ stored \in BOOLEAN /\ upward \in BOOLEAN
         /\ urlFilter \in {"none", "off", "on"} /\ page \in Nat \ {0}
         /\ rows.there \in BOOLEAN /\ rows.users \subseteq People
         /\ ticked \subseteq People /\ matching \subseteq People
         /\ allMode \in BOOLEAN /\ bulkShown \in BOOLEAN
         /\ rowDialog.user \in People /\ rowSent.user \in People
         /\ moves \in 0..MaxMoves
         /\ gathering \in [on : BOOLEAN, filters : BOOLEAN \X BOOLEAN, got : SUBSET People,
                           count : Nat, offset : Nat, steady : BOOLEAN]
BY DEF UsersInv, UsersSafe, UsersTypeOK, UsersShaped

LEMMA MatchingFinite ==
  ASSUME UsersInv, NEW f
  PROVE  /\ Matching(f) \in SUBSET People /\ Matching(f) \in SUBSET Nat
         /\ IsFiniteSet(Matching(f))
<1>0. 1 \in Int /\ MaxUser \in Int
  BY UsersAssumption
<1>1. People \in SUBSET Nat /\ IsFiniteSet(People)
  BY <1>0, FS_Interval DEF People
<1>2. Matching(f) \in SUBSET People
  BY UsersTypes DEF Matching
<1> QED BY <1>1, <1>2, FS_Subset

LEMMA FiltersTyped ==
  ASSUME UsersInv
  PROVE  Filtered \in BOOLEAN /\ Filters \in BOOLEAN \X BOOLEAN
BY UsersTypes DEF Filtered, Filters

LEMMA MoveCounts ==
  ASSUME UsersInv, Move
  PROVE  moves' \in 0..MaxMoves
BY UsersTypes, UsersAssumption DEF Move

LEMMA IdleKnown ==
  /\ Idle \in [on : BOOLEAN, filters : BOOLEAN \X BOOLEAN, got : SUBSET People,
               count : Nat, offset : Nat, steady : BOOLEAN]
  /\ Idle.on = FALSE
BY DEF Idle

LEMMA UsersInitInv == UsersInit => UsersInv
<1> SUFFICES ASSUME UsersInit PROVE UsersInv
  OBVIOUS
<1>1. Me \in People /\ 0 \in 0..MaxMoves
  BY UsersAssumption DEF People
<1>2. UsersTypeOK
  <2>1. /\ known \subseteq People /\ urlFilter \in {"none", "off", "on"}
        /\ page \in Nat \ {0} /\ moves \in 0..MaxMoves
        /\ rowDialog.user \in People /\ rowSent.user \in People
    BY <1>1 DEF UsersInit, NoRow
  <2>2. /\ {search, debounced, stored, upward} \subseteq BOOLEAN
        /\ {allMode, bulkShown} \subseteq BOOLEAN
    BY DEF UsersInit
  <2>3. /\ rows.there = FALSE /\ rows.users = {} /\ {ticked, matching} \subseteq SUBSET People
    BY DEF UsersInit, NotThere
  <2> QED BY <2>1, <2>2, <2>3 DEF UsersTypeOK
<1>3. ViewOwnsChoices /\ AllMatchingIsAll
  BY DEF UsersInit, ViewOwnsChoices, AllMatchingIsAll
<1>4. UsersShaped /\ GatheredSoFar
  BY IdleKnown DEF UsersInit, UsersShaped, GatheredSoFar
<1> QED BY <1>2, <1>3, <1>4 DEF UsersInv, UsersSafe

(* What is not about the selection leaves what is known of it.             *)
LEMMA GatheredKept ==
  ASSUME UsersInv, UNCHANGED <<known, gathering>>
  PROVE  GatheredSoFar'
BY DEF UsersInv, GatheredSoFar, Matching, UpTo, Position

(* A change of the view, and the render that follows.                      *)
LEMMA UsersViewInv ==
  ASSUME UsersInv,
         \/ SearchInput \/ useDebouncedValue \/ nextSortState
         \/ \E v \in BOOLEAN : UsersFilterBar(v) \/ clearFilters(v)
  PROVE  UsersInv'
<1>1. /\ UNCHANGED <<known, bulkShown, rowVars, usersHist, matching, gathering>>
      /\ (moves' = moves \/ Move)
      /\ \/ Rendered
         \/ UNCHANGED <<debounced, stored, urlFilter, upward, page, rows, pickVars>>
  BY DEF SearchInput, useDebouncedValue, nextSortState, UsersFilterBar, clearFilters,
         Rendered, pickVars
<1>2. /\ search' \in BOOLEAN /\ debounced' \in BOOLEAN /\ stored' \in BOOLEAN
      /\ upward' \in BOOLEAN /\ urlFilter' \in {"none", "off", "on"}
  BY UsersTypes
  DEF SearchInput, useDebouncedValue, nextSortState, UsersFilterBar, clearFilters
<1>3. moves' \in 0..MaxMoves
  BY <1>1, MoveCounts, UsersTypes
<1>4. CASE Rendered
  <2>1. PICK view : view = filterResetKey'
    OBVIOUS
  <2>2. /\ page' = IF view # filterResetKey THEN 1 ELSE page
        /\ \/ /\ rows' = NotThere
              /\ ticked' = {}
              /\ allMode' = FALSE
           \/ /\ view = filterResetKey
              /\ page' = page
              /\ rows' = rows
              /\ ticked' = ticked
              /\ allMode' = allMode
    BY <1>4, <2>1 DEF Rendered
  <2>3. UsersTypeOK'
    <3>1. /\ allMode' \in BOOLEAN /\ ticked' \in SUBSET People
          /\ page' \in Nat \ {0}
      <4>1. page' \in Nat \ {0}
        BY <2>2, UsersTypes
      <4>2. ticked' \in SUBSET People
        <5>1. ticked' = {} \/ ticked' = ticked
          BY <2>2
        <5> QED BY <5>1, UsersTypes
      <4>3. allMode' \in BOOLEAN
        BY <2>2, UsersTypes
      <4> QED BY <4>1, <4>2, <4>3
    <3>2. rows'.there \in BOOLEAN /\ rows'.users \subseteq People
      <4>1. rows' = NotThere \/ rows' = rows
        BY <2>2
      <4>2. NotThere.there = FALSE /\ NotThere.users = {}
        BY DEF NotThere
      <4> QED BY <4>1, <4>2, UsersTypes
    <3>3. /\ known' \subseteq People /\ matching' \in SUBSET People
          /\ bulkShown' \in BOOLEAN
          /\ rowDialog'.user \in People /\ rowSent'.user \in People
      BY <1>1, UsersTypes DEF rowVars
    <3> QED BY <1>2, <1>3, <3>1, <3>2, <3>3 DEF UsersTypeOK
  <2>4. ViewOwnsChoices'
    BY <1>1, <2>1, <2>2 DEF UsersInv, UsersSafe, ViewOwnsChoices
  <2>5. AllMatchingIsAll'
    BY <1>1, <2>2 DEF UsersInv, UsersSafe, AllMatchingIsAll
  <2>6. UsersShaped' /\ GatheredSoFar'
    BY <1>1, GatheredKept DEF UsersInv, UsersShaped
  <2> QED BY <2>3, <2>4, <2>5, <2>6 DEF UsersInv, UsersSafe
<1>5. CASE UNCHANGED <<debounced, stored, urlFilter, upward, page, rows, pickVars>>
  <2>1. UsersTypeOK'
    BY <1>1, <1>2, <1>3, <1>5, UsersTypes DEF UsersTypeOK, rowVars, pickVars
  <2>2. ViewOwnsChoices' /\ AllMatchingIsAll'
    BY <1>1, <1>5
    DEF UsersInv, UsersSafe, ViewOwnsChoices, AllMatchingIsAll, filterResetKey, Filtered,
        pickVars
  <2>3. UsersShaped' /\ GatheredSoFar'
    BY <1>1, GatheredKept DEF UsersInv, UsersShaped
  <2> QED BY <2>1, <2>2, <2>3 DEF UsersInv, UsersSafe
<1> QED BY <1>1, <1>4, <1>5

(* Steps that leave the view and what was chosen in it, or clear it.       *)
LEMMA UsersRestInv ==
  ASSUME UsersInv,
         \/ useUsersQuery \/ clearSelection \/ BulkActionToolbar \/ CloseBulk
         \/ CancelRowDialog \/ UsersPageDialogs \/ GatheringFails \/ handleSelectAllMatching
         \/ \E u \in People, k \in {"access", "deactivate", "purge"} : buildUsersColumns(k, u)
  PROVE  UsersInv'
<1>1. /\ UNCHANGED <<known, viewVars, page, matching, moves, usersHist>>
      /\ \/ UNCHANGED <<ticked, allMode>>
         \/ ticked' = {} /\ allMode' = FALSE
  BY DEF useUsersQuery, clearSelection, BulkActionToolbar, CloseBulk, CancelRowDialog,
         UsersPageDialogs, GatheringFails, handleSelectAllMatching, buildUsersColumns,
         pickVars
<1>2. rows'.there \in BOOLEAN /\ rows'.users \subseteq People
  <2>1. PageRows \subseteq People
    BY MatchingFinite DEF PageRows, Slice
  <2>2. CASE useUsersQuery
    BY <2>1, <2>2 DEF useUsersQuery
  <2>3. CASE UNCHANGED rows
    BY <2>3, UsersTypes
  <2> QED
    BY <2>2, <2>3
    DEF clearSelection, BulkActionToolbar, CloseBulk, CancelRowDialog, UsersPageDialogs,
        GatheringFails, handleSelectAllMatching, buildUsersColumns
<1>3. /\ bulkShown' \in BOOLEAN /\ rowDialog'.user \in People
      /\ rowSent'.user \in People
  <2>1. Me \in People
    BY UsersAssumption DEF People
  <2>2. bulkShown' \in {bulkShown, TRUE, FALSE}
    BY DEF useUsersQuery, clearSelection, BulkActionToolbar, CloseBulk, CancelRowDialog,
        UsersPageDialogs, GatheringFails, handleSelectAllMatching, buildUsersColumns
  <2>3. rowDialog' = rowDialog \/ rowDialog'.user \in People
    BY <2>1
    DEF useUsersQuery, clearSelection, BulkActionToolbar, CloseBulk, CancelRowDialog,
        UsersPageDialogs, GatheringFails, handleSelectAllMatching, buildUsersColumns,
        rowVars, NoRow
  <2>4. rowSent' = rowSent \/ rowSent' = rowDialog
    BY DEF useUsersQuery, clearSelection, BulkActionToolbar, CloseBulk, CancelRowDialog,
        UsersPageDialogs, GatheringFails, handleSelectAllMatching, buildUsersColumns,
        rowVars
  <2> QED BY <2>2, <2>3, <2>4, UsersTypes
<1>4. UsersTypeOK'
  BY <1>1, <1>2, <1>3, UsersTypes DEF UsersTypeOK, viewVars
<1>5. ViewOwnsChoices' /\ AllMatchingIsAll'
  BY <1>1
  DEF UsersInv, UsersSafe, ViewOwnsChoices, AllMatchingIsAll, filterResetKey, Filtered,
      viewVars
<1>6. UsersShaped' /\ GatheredSoFar'
  <2>1. CASE UNCHANGED gathering
    BY <1>1, <2>1, GatheredKept DEF UsersInv, UsersShaped
  <2>2. CASE GatheringFails
    BY <1>1, <2>2, IdleKnown DEF GatheringFails, UsersInv, UsersShaped, GatheredSoFar
  <2>3. CASE handleSelectAllMatching
    <3>1. PICK g : g = [Idle EXCEPT !.on = TRUE, !.filters = Filters]
      OBVIOUS
    <3>2. /\ g \in [on : BOOLEAN, filters : BOOLEAN \X BOOLEAN, got : SUBSET People,
                    count : Nat, offset : Nat, steady : BOOLEAN]
          /\ g.got = {} /\ g.count = 0 /\ g.offset = 0
      BY <3>1, FiltersTyped DEF Idle
    <3>3. gathering' = g
      BY <2>3, <3>1 DEF handleSelectAllMatching
    <3>4. Matching(g.filters)' = Matching(g.filters)
      BY <1>1 DEF Matching
    <3>6. GatheredSoFar'
      <4> DEFINE all == Matching(g.filters)
      <4>1. {} = UpTo(all, 0)
        <5>1. all \in SUBSET Nat /\ IsFiniteSet(all)
          BY MatchingFinite
        <5> HIDE DEF all
        <5>2. \A u \in all : Position(all, u) \in 1..Cardinality(all) /\ Cardinality(all) \in Nat
          BY <5>1, PositionIn
        <5>3. \A u \in all : ~(Position(all, u) <= 0)
          BY <5>2
        <5> QED BY <5>3 DEF UpTo
      <4> HIDE DEF all
      <4> QED BY <3>2, <3>3, <3>4, <4>1, FS_EmptySet DEF GatheredSoFar, all, UpTo, Position
    <3> QED BY <1>1, <3>2, <3>3, <3>6 DEF UsersInv, UsersShaped
  <2> QED
    BY <2>1, <2>2, <2>3
    DEF useUsersQuery, clearSelection, BulkActionToolbar, CloseBulk, CancelRowDialog,
        UsersPageDialogs, buildUsersColumns, pickVars
<1> QED BY <1>4, <1>5, <1>6 DEF UsersInv, UsersSafe

(* A page or ticks chosen in the view on screen.                           *)
LEMMA UsersPickInv ==
  ASSUME UsersInv, useDataTableSelection \/ \E p \in 1..MaxUser : Pagination(p)
  PROVE  UsersInv'
<1>1. /\ UNCHANGED <<known, viewVars, matching, gathering, bulkShown, rowVars>>
      /\ allMode' = FALSE /\ (moves' = moves \/ Move)
      /\ page' = page \/ page' \in 1..MaxUser
  BY DEF useDataTableSelection, Pagination
<1>2. filterResetKey' = filterResetKey
  BY <1>1 DEF filterResetKey, Filtered, viewVars
<1>3. moves' \in 0..MaxMoves
  BY <1>1, MoveCounts, UsersTypes
<1>4. /\ ticked' \subseteq People
      /\ rows'.there \in BOOLEAN /\ rows'.users \subseteq People
  <2>1. CASE useDataTableSelection
    <3>1. /\ rows' = rows
          /\ \/ \E u \in rows.users :
                   ticked' = IF u \in ticked THEN ticked \ {u} ELSE ticked \cup {u}
             \/ ticked' = IF rows.users \subseteq ticked THEN ticked \ rows.users
                          ELSE ticked \cup rows.users
      BY <2>1 DEF useDataTableSelection
    <3>2. ticked' \subseteq ticked \cup rows.users
      BY <3>1
    <3> QED BY <3>1, <3>2, UsersTypes
  <2>2. CASE \E p \in 1..MaxUser : Pagination(p)
    BY <2>2 DEF Pagination, NotThere
  <2> QED BY <2>1, <2>2
<1>5. UsersTypeOK'
  <2>1. page' \in Nat \ {0}
    BY <1>1, UsersTypes, UsersAssumption
  <2> QED BY <1>1, <1>3, <1>4, <2>1, UsersTypes DEF UsersTypeOK, viewVars, rowVars
<1>6. \/ usersHist' = [usersHist EXCEPT !.page = filterResetKey] /\ ticked' = {}
      \/ usersHist' = [usersHist EXCEPT !.ticks = <<filterResetKey, page>>] /\ page' = page
  BY DEF useDataTableSelection, Pagination
<1>7. PICK h : /\ h = usersHist
               /\ h = [page |-> h.page, ticks |-> h.ticks, matching |-> h.matching,
                       steady |-> h.steady, whole |-> h.whole]
               /\ h.steady \in BOOLEAN
  BY DEF UsersInv, UsersShaped
<1>8. ViewOwnsChoices' /\ AllMatchingIsAll'
  BY <1>1, <1>2, <1>6, <1>7
  DEF UsersInv, UsersSafe, ViewOwnsChoices, AllMatchingIsAll
<1>9. UsersShaped' /\ GatheredSoFar'
  <2>1. /\ usersHist' = [page |-> usersHist'.page, ticks |-> usersHist'.ticks,
                         matching |-> usersHist'.matching, steady |-> usersHist'.steady,
                         whole |-> usersHist'.whole]
        /\ usersHist'.steady \in BOOLEAN
    BY <1>6, <1>7
  <2> QED BY <1>1, <2>1, GatheredKept DEF UsersInv, UsersShaped
<1> QED BY <1>5, <1>8, <1>9 DEF UsersInv, UsersSafe

(* A batch of all the matches.                                             *)
LEMMA UsersBatchInv ==
  ASSUME UsersInv, fetchAllMatchingUserEmails
  PROVE  UsersInv'
<1> DEFINE Gatherings == [on : BOOLEAN, filters : BOOLEAN \X BOOLEAN, got : SUBSET People,
                          count : Nat, offset : Nat, steady : BOOLEAN]
<1>1. PICK g : g = gathering /\ g \in Gatherings /\ g.on
  BY UsersTypes DEF fetchAllMatchingUserEmails
<1>2. PICK all : /\ all = Matching(g.filters) /\ all \in SUBSET People
                 /\ all \in SUBSET Nat /\ IsFiniteSet(all)
  BY MatchingFinite
<1>3. PICK batch : batch = Slice(all, TRUE, g.offset, BatchSize)
  OBVIOUS
<1>4. PICK got : got = g.got \cup batch
  OBVIOUS
<1>5. PICK count : count = g.count + Cardinality(batch)
  OBVIOUS
<1>6. batch \in SUBSET all /\ Cardinality(batch) \in Nat
  <2>1. batch \in SUBSET all
    BY <1>3 DEF Slice
  <2> QED BY <1>2, <2>1, FS_Subset, FS_CardinalityType
<1>7. got \in SUBSET People /\ count \in Nat
  <2>1. g.got \in SUBSET People /\ g.count \in Nat
    BY <1>1
  <2>2. got \in SUBSET People
    BY <1>2, <1>4, <1>6, <2>1
  <2> QED BY <1>5, <1>6, <2>1, <2>2
<1>8. /\ UNCHANGED <<known, viewVars, page, rows, ticked, bulkShown, rowVars, moves>>
      /\ \/ gathering' = Idle /\ UNCHANGED <<allMode, matching, usersHist>>
         \/ /\ gathering' = [g EXCEPT !.got = got, !.count = count,
                                       !.offset = @ + BatchSize]
            /\ UNCHANGED <<allMode, matching, usersHist>>
         \/ /\ ~(count < Cardinality(all) /\ batch # {})
            /\ gathering' = Idle /\ allMode' = TRUE /\ matching' = got
            /\ usersHist' = [usersHist EXCEPT !.matching = g.filters,
                                              !.steady = g.steady, !.whole = all]
  BY <1>1, <1>2, <1>3, <1>4, <1>5 DEF fetchAllMatchingUserEmails
<1>9. BatchSize \in Nat \ {0}
  BY UsersAssumption
<1>10. g.steady => /\ got = UpTo(all, g.offset + BatchSize)
                   /\ count = Cardinality(got)
                   /\ batch = {} \/ count >= Cardinality(all) => got = all
  <2>1. SUFFICES ASSUME g.steady PROVE
            /\ got = UpTo(all, g.offset + BatchSize)
            /\ count = Cardinality(got)
            /\ batch = {} \/ count >= Cardinality(all) => got = all
    OBVIOUS
  <2>2. g.got = UpTo(all, g.offset) /\ g.count = Cardinality(g.got)
    BY <1>1, <1>2, <2>1 DEF UsersInv, GatheredSoFar
  <2>3. g.offset \in Nat
    BY <1>1
  <2>4. /\ UpTo(all, g.offset) \cup Slice(all, TRUE, g.offset, BatchSize)
              = UpTo(all, g.offset + BatchSize)
        /\ Cardinality(UpTo(all, g.offset)) + Cardinality(Slice(all, TRUE, g.offset, BatchSize))
             = Cardinality(UpTo(all, g.offset + BatchSize))
        /\ Slice(all, TRUE, g.offset, BatchSize) = {}
             \/ Cardinality(UpTo(all, g.offset + BatchSize)) >= Cardinality(all)
             => UpTo(all, g.offset + BatchSize) = all
    BY <1>2, <1>9, <2>3, BatchTaken
  <2> QED BY <1>3, <1>4, <1>5, <2>2, <2>4
<1>11. ViewOwnsChoices'
  <2>1. filterResetKey' = filterResetKey
    BY <1>8 DEF filterResetKey, Filtered, viewVars
  <2>2. usersHist'.page = usersHist.page /\ usersHist'.ticks = usersHist.ticks
    BY <1>8 DEF UsersInv, UsersShaped
  <2> QED BY <1>8, <2>1, <2>2 DEF UsersInv, UsersSafe, ViewOwnsChoices
<1>12. CASE UNCHANGED <<allMode, matching, usersHist>>
  <2>1. UsersTypeOK'
    BY <1>8, <1>12, UsersTypes DEF UsersTypeOK, viewVars, rowVars
  <2>2. AllMatchingIsAll'
    BY <1>12 DEF UsersInv, UsersSafe, AllMatchingIsAll
  <2>3. gathering' \in Gatherings /\ GatheredSoFar'
    <3>1. CASE gathering' = Idle
      BY <3>1, IdleKnown DEF GatheredSoFar
    <3>2. CASE gathering' = [g EXCEPT !.got = got, !.count = count, !.offset = @ + BatchSize]
      <4>1. PICK h : h = [g EXCEPT !.got = got, !.count = count, !.offset = @ + BatchSize]
        OBVIOUS
      <4>2. /\ h \in Gatherings /\ h.got = got /\ h.count = count
            /\ h.offset = g.offset + BatchSize /\ h.filters = g.filters
            /\ h.steady = g.steady
        <5>1. g.offset \in Nat /\ g.offset + BatchSize \in Nat
          BY <1>1, <1>9
        <5>2. PICK o : o = g.offset + BatchSize
          OBVIOUS
        <5>3. h = [g EXCEPT !.got = got, !.count = count, !.offset = o]
          BY <4>1, <5>2
        <5>4. o \in Nat
          BY <5>1, <5>2
        <5> HIDE <4>1, <5>2
        <5>5. h \in Gatherings
          BY <1>1, <1>7, <5>3, <5>4
        <5>6. /\ h.got = got /\ h.count = count /\ h.offset = o
              /\ h.filters = g.filters /\ h.steady = g.steady
          BY <1>1, <5>3
        <5> QED BY <5>2, <5>5, <5>6
      <4>3. Matching(h.filters)' = all
        BY <1>2, <1>8, <4>2 DEF Matching
      <4> QED BY <1>10, <3>2, <4>1, <4>2, <4>3 DEF GatheredSoFar, UpTo, Position
    <3>3. gathering' = Idle
            \/ gathering' = [g EXCEPT !.got = got, !.count = count, !.offset = @ + BatchSize]
      BY <1>8
    <3> QED BY <3>1, <3>2, <3>3
  <2>4. UsersShaped'
    BY <1>12, <2>3 DEF UsersInv, UsersShaped
  <2> QED BY <1>11, <2>1, <2>2, <2>3, <2>4 DEF UsersInv, UsersSafe
<1>13. CASE /\ ~(count < Cardinality(all) /\ batch # {})
            /\ gathering' = Idle /\ allMode' = TRUE /\ matching' = got
            /\ usersHist' = [usersHist EXCEPT !.matching = g.filters,
                                              !.steady = g.steady, !.whole = all]
  <2>1. UsersTypeOK'
    BY <1>7, <1>8, <1>13, UsersTypes DEF UsersTypeOK, viewVars, rowVars
  <2>2. PICK h : /\ h = usersHist
                 /\ h = [page |-> h.page, ticks |-> h.ticks, matching |-> h.matching,
                         steady |-> h.steady, whole |-> h.whole]
    BY DEF UsersInv, UsersShaped
  <2>3. PICK k : k = [h EXCEPT !.matching = g.filters, !.steady = g.steady, !.whole = all]
    OBVIOUS
  <2>4. /\ k = [page |-> k.page, ticks |-> k.ticks, matching |-> k.matching,
                steady |-> k.steady, whole |-> k.whole]
        /\ k.steady = g.steady /\ k.whole = all /\ k.steady \in BOOLEAN
        /\ usersHist' = k
    BY <1>1, <1>13, <2>2, <2>3
  <2>5. g.steady => got = all
    <3>1. Cardinality(all) \in Nat
      BY <1>2, FS_CardinalityType
    <3>2. batch = {} \/ count >= Cardinality(all)
      BY <1>7, <1>13, <3>1
    <3> QED BY <1>10, <3>2
  <2>6. AllMatchingIsAll'
    BY <1>13, <2>4, <2>5 DEF AllMatchingIsAll
  <2>7. UsersShaped' /\ GatheredSoFar'
    BY <1>13, <2>4, IdleKnown DEF UsersShaped, GatheredSoFar
  <2> QED BY <1>11, <2>1, <2>6, <2>7 DEF UsersInv, UsersSafe
<1> QED BY <1>8, <1>12, <1>13

(* Users come and go.                                                      *)
LEMMA UsersChangeInv ==
  ASSUME UsersInv, RowRequestEnds \/ \E u \in People : OthersChange(u)
  PROVE  UsersInv'
<1>1. /\ UNCHANGED <<viewVars, page, rows, ticked, allMode, matching, bulkShown, usersHist>>
      /\ (moves' = moves \/ Move)
  BY DEF RowRequestEnds, OthersChange
<1>2. moves' \in 0..MaxMoves
  BY <1>1, MoveCounts, UsersTypes
<1>3. known' \subseteq People
  <2>1. CASE RowRequestEnds
    <3>1. known' \subseteq known
      BY <2>1 DEF RowRequestEnds
    <3> QED BY <3>1, UsersTypes
  <2>2. ASSUME NEW u \in People, OthersChange(u) PROVE known' \subseteq People
    <3>1. known' \subseteq known \cup {u}
      BY <2>2 DEF OthersChange
    <3> QED BY <3>1, UsersTypes
  <2> QED BY <2>1, <2>2
<1>4. rowDialog'.user \in People /\ rowSent'.user \in People
  <2>1. NoRow.user \in People
    BY UsersAssumption DEF NoRow, People
  <2>2. /\ rowDialog' = rowDialog \/ rowDialog' = NoRow
        /\ rowSent' = rowSent \/ rowSent' = NoRow
    BY DEF RowRequestEnds, OthersChange, rowVars
  <2> QED BY <2>1, <2>2, UsersTypes
<1>5. UsersTypeOK'
  BY <1>1, <1>2, <1>3, <1>4, UsersTypes DEF UsersTypeOK, viewVars
<1>6. ViewOwnsChoices' /\ AllMatchingIsAll'
  BY <1>1
  DEF UsersInv, UsersSafe, ViewOwnsChoices, AllMatchingIsAll, filterResetKey, Filtered,
      viewVars
<1>7. UsersShaped' /\ GatheredSoFar'
  <2>1. PICK g : /\ g = gathering
                 /\ g \in [on : BOOLEAN, filters : BOOLEAN \X BOOLEAN, got : SUBSET People,
                           count : Nat, offset : Nat, steady : BOOLEAN]
    BY UsersTypes
  <2>2. PICK s \in BOOLEAN : /\ gathering' = [g EXCEPT !.steady = s]
                             /\ s => g.steady /\ known' = known
    <3>1. CASE RowRequestEnds
      <4>1. gathering' = [g EXCEPT !.steady = g.steady /\ known' = known]
        BY <2>1, <3>1 DEF RowRequestEnds
      <4>2. (g.steady /\ known' = known) \in BOOLEAN
        BY <2>1
      <4> QED BY <4>1, <4>2
    <3>2. CASE \E u \in People : OthersChange(u)
      BY <2>1, <3>2 DEF OthersChange
    <3> QED BY <3>1, <3>2
  <2>3. PICK h : h = [g EXCEPT !.steady = s]
    OBVIOUS
  <2>4. /\ h \in [on : BOOLEAN, filters : BOOLEAN \X BOOLEAN, got : SUBSET People,
                  count : Nat, offset : Nat, steady : BOOLEAN]
        /\ h.on = g.on /\ h.filters = g.filters /\ h.got = g.got /\ h.count = g.count
        /\ h.offset = g.offset /\ h.steady = s
    BY <2>1, <2>3
  <2>5. GatheredSoFar'
    <3>1. SUFFICES ASSUME h.on, s PROVE
              LET all == Matching(h.filters)'
              IN /\ h.got = UpTo(all, h.offset)
                 /\ h.count = Cardinality(h.got)
      BY <2>2, <2>3, <2>4 DEF GatheredSoFar, UpTo, Position
    <3>2. Matching(h.filters)' = Matching(h.filters)
      BY <2>2, <3>1 DEF Matching
    <3> QED BY <2>1, <2>2, <2>4, <3>1, <3>2 DEF UsersInv, GatheredSoFar
  <2> QED BY <1>1, <2>2, <2>3, <2>4, <2>5 DEF UsersInv, UsersShaped
<1> QED BY <1>5, <1>6, <1>7 DEF UsersInv, UsersSafe

LEMMA UsersNextInv == UsersInv /\ [UsersNext]_usersVars => UsersInv'
<1> SUFFICES ASSUME UsersInv, [UsersNext]_usersVars PROVE UsersInv'
  OBVIOUS
<1>1. CASE UNCHANGED usersVars
  BY <1>1
  DEF usersVars, UsersInv, UsersSafe, UsersTypeOK, ViewOwnsChoices, AllMatchingIsAll,
      UsersShaped, GatheredSoFar, filterResetKey, Filtered, Matching, UpTo, Position
<1>2. CASE UsersNext
  BY <1>2, UsersViewInv, UsersRestInv, UsersPickInv, UsersBatchInv, UsersChangeInv
  DEF UsersNext
<1> QED BY <1>1, <1>2

(***************************************************************************)
(* On the users page, whatever the filters, the sort, the page size and    *)
(* the users: no page and no tick is left over from a view that a          *)
(* debounced term, a tile, a link or a sort has replaced, and "select all  *)
(* matching" collects every match, batch by batch, when no user came or    *)
(* went meanwhile.                                                         *)
(***************************************************************************)
THEOREM UsersAlwaysSafe == UsersSpec => []UsersSafe
<1>1. UsersInv => UsersSafe
  BY DEF UsersInv
<1> QED BY <1>1, UsersInitInv, UsersNextInv, PTL DEF UsersSpec

-----------------------------------------------------------------------------
(* The audit log page *)

LEMMA FiltersBounded ==
  ASSUME logged \in Nat, NEW v
  PROVE  /\ _apply_filters(v) \in SUBSET (1..logged) /\ IsFiniteSet(_apply_filters(v))
         /\ Cardinality(_apply_filters(v)) \in 0..logged
<1>1. _apply_filters(v) \subseteq 1..logged
  BY DEF _apply_filters
<1>2. IsFiniteSet(1..logged) /\ Cardinality(1..logged) = logged
  <2>1. 1 \in Int /\ logged \in Int
    OBVIOUS
  <2> QED
    BY <2>1, FS_Interval
<1>3. IsFiniteSet(_apply_filters(v)) /\ Cardinality(_apply_filters(v)) <= logged
  BY <1>1, <1>2, FS_Subset
<1> QED
  BY <1>1, <1>3, FS_CardinalityType

\* Counting from either end, every position below the length has its entry.
LEMMA EntryThere ==
  ASSUME NEW F \in SUBSET Nat, IsFiniteSet(F), NEW n \in Nat, n < Cardinality(F)
  PROVE  /\ \E e \in F : Cardinality({d \in F : d > e}) = n
         /\ \E e \in F : Cardinality({d \in F : d < e}) = n
<1>1. Cardinality(F) \in Nat
  BY FS_CardinalityType
<1>2. \E e \in F : Cardinality({d \in F : d > e}) = n
  <2>1. Cardinality(F) - n \in 1..Cardinality(F)
    BY <1>1
  <2>2. PICK e \in F : Position(F, e) = Cardinality(F) - n
    BY <2>1, PositionTaken
  <2>3. {d \in F : d > e} = F \ {d \in F : d <= e}
    <3>1. \A d \in F : d > e <=> ~(d <= e)
      OBVIOUS
    <3> QED
      BY <3>1
  <2>4. /\ IsFiniteSet(F \ {d \in F : d <= e})
        /\ Cardinality(F \ {d \in F : d <= e})
             = Cardinality(F) - Cardinality(F \cap {d \in F : d <= e})
    BY FS_Difference
  <2>5. F \cap {d \in F : d <= e} = {d \in F : d <= e}
    OBVIOUS
  <2>6. Cardinality({d \in F : d > e}) = Cardinality(F) - Position(F, e)
    BY <2>3, <2>4, <2>5 DEF Position
  <2> QED
    BY <1>1, <2>2, <2>6
<1>3. \E e \in F : Cardinality({d \in F : d < e}) = n
  <2>1. n + 1 \in 1..Cardinality(F)
    BY <1>1
  <2>2. PICK e \in F : Position(F, e) = n + 1
    BY <2>1, PositionTaken
  <2>3. {d \in F : d < e} = {d \in F : d <= e} \ {e}
    <3>1. \A d \in F : d < e <=> d <= e /\ d # e
      OBVIOUS
    <3> QED
      BY <3>1
  <2>4. IsFiniteSet({d \in F : d <= e}) /\ e \in {d \in F : d <= e}
    BY PositionIn
  <2>5. Cardinality({d \in F : d <= e} \ {e}) = Cardinality({d \in F : d <= e}) - 1
    BY <2>4, FS_RemoveElement
  <2>6. Cardinality({d \in F : d < e}) = Position(F, e) - 1
    BY <2>3, <2>5 DEF Position
  <2>7. (n + 1) - 1 = n
    OBVIOUS
  <2>8. Cardinality({d \in F : d < e}) = n
    BY <2>2, <2>6, <2>7
  <2> QED
    BY <2>2, <2>8, Zenon
<1> QED
  BY <1>2, <1>3

LEMMA EntryAtIn ==
  ASSUME logged \in Nat, NEW v, NEW n \in Nat, n < Cardinality(_apply_filters(v))
  PROVE  EntryAt(v, n) \in _apply_filters(v)
<1> DEFINE F == _apply_filters(v)
<1>1. F \in SUBSET Nat /\ IsFiniteSet(F) /\ Cardinality(F) \in Nat
  BY FiltersBounded
<1>2. \E e \in F : Cardinality(Before(v, e)) = n
  <2>1. CASE v.dir = "desc"
    <3>1. \A e : Before(v, e) = {d \in F : d > e}
      BY <2>1 DEF Before
    <3> HIDE DEF F
    <3> QED
      BY <1>1, <3>1, EntryThere DEF F
  <2>2. CASE v.dir # "desc"
    <3>1. \A e : Before(v, e) = {d \in F : d < e}
      BY <2>2 DEF Before
    <3> HIDE DEF F
    <3> QED
      BY <1>1, <3>1, EntryThere DEF F
  <2> QED
    BY <2>1, <2>2
<1>3. ~(n >= Cardinality(F))
  BY <1>1
<1> QED
  BY <1>2, <1>3 DEF EntryAt

\* An answer depends on the entries the filters leave, and on nothing else.
LEMMA AnswerKept ==
  ASSUME NEW k, _apply_filters(k[1])' = _apply_filters(k[1])
  PROVE  toPageResult(k)' = toPageResult(k)
<1>1. _apply_filters(k[1])' = _apply_filters(k[1])
  OBVIOUS
<1>2. \A e : Before(k[1], e)' = Before(k[1], e)
  BY <1>1 DEF Before
<1>3. \A n : EntryAt(k[1], n)' = EntryAt(k[1], n)
  <2> SUFFICES ASSUME NEW n PROVE EntryAt(k[1], n)' = EntryAt(k[1], n)
    OBVIOUS
  <2> DEFINE w == k[1]
  <2>1. \A e : e \in _apply_filters(w)' /\ Cardinality(Before(w, e))' = n
               <=> e \in _apply_filters(w) /\ Cardinality(Before(w, e)) = n
    BY <1>1, <1>2
  <2>2. (CHOOSE e : e \in _apply_filters(w)' /\ Cardinality(Before(w, e))' = n)
        = (CHOOSE e : e \in _apply_filters(w) /\ Cardinality(Before(w, e)) = n)
    BY <2>1, Zenon
  <2>3. (CHOOSE e \in _apply_filters(w) : Cardinality(Before(w, e)) = n)'
        = (CHOOSE e \in _apply_filters(w) : Cardinality(Before(w, e)) = n)
    BY <2>1, Zenon
  <2> DEFINE Chosen == CHOOSE e \in _apply_filters(w) : Cardinality(Before(w, e)) = n
  <2>4. EntryAt(w, n) = IF n >= Cardinality(_apply_filters(w)) THEN NoEntry ELSE Chosen
    BY DEF EntryAt
  <2>5. EntryAt(w, n)' = IF n >= Cardinality(_apply_filters(w))' THEN NoEntry ELSE Chosen'
    BY DEF EntryAt, NoEntry
  <2>6. Cardinality(_apply_filters(w))' = Cardinality(_apply_filters(w))
    BY <1>1
  <2>7. Chosen' = Chosen
    BY <2>3
  <2> HIDE DEF Chosen
  <2> QED
    BY <2>4, <2>5, <2>6, <2>7
<1> QED
  BY <1>1, <1>3 DEF toPageResult

\* What the server answers for a range that is over does not change.
LEMMA OverIsOver ==
  ASSUME logged \in Nat, logged' = logged + 1, NEW k, k[1].upto \in Nat, k[1].upto <= logged
  PROVE  /\ _apply_filters(k[1])' = _apply_filters(k[1])
         /\ toPageResult(k)' = toPageResult(k)
<1>1. _apply_filters(k[1])' = _apply_filters(k[1])
  BY DEF _apply_filters
<1> QED
  BY <1>1, AnswerKept

LEMMA LogKept ==
  ASSUME logged' = logged
  PROVE  /\ \A v : _apply_filters(v)' = _apply_filters(v)
         /\ \A k : toPageResult(k)' = toPageResult(k)
<1>1. \A v : _apply_filters(v)' = _apply_filters(v)
  BY DEF _apply_filters
<1> QED
  BY <1>1, AnswerKept

\* The key of the list the page shows.
LEMMA KeyTyped ==
  ASSUME AuditTypeOK
  PROVE  /\ Key \in LogKeys /\ Key[1] = View /\ Key[2] = logPage
         /\ Section \in LogSections
         /\ kept[Section] \in [text : BOOLEAN, kind : BOOLEAN, dir : {"asc", "desc"},
                              range : {"preset", "custom"}]
         /\ View.upto = mountedAt \/ View.upto = Newest + 1
         /\ kept[Section].range = "preset" => View.upto = mountedAt
<1>0. Newest \in Nat /\ OldLog \in Nat
  BY AuditAssumption
<1>1. Section \in LogSections
  BY DEF Section, LogSections, initialScope, AuditTypeOK
<1>2. kept[Section] \in [text : BOOLEAN, kind : BOOLEAN, dir : {"asc", "desc"},
                        range : {"preset", "custom"}]
  BY <1>1 DEF AuditTypeOK
<1>3. mountedAt \in Nat /\ logPage \in 1..Newest /\ applied \in BOOLEAN
  BY <1>0 DEF AuditTypeOK
<1>4. useTimeRangeParams \in Nat /\ useTimeRangeParams \in {mountedAt, Newest + 1}
  BY <1>0, <1>3 DEF useTimeRangeParams
<1>5. View \in [section : LogSections, text : BOOLEAN, kind : BOOLEAN,
               dir : {"asc", "desc"}, upto : Nat]
  BY <1>1, <1>2, <1>3, <1>4 DEF View
<1>6. View.upto = useTimeRangeParams
  BY DEF View
<1> QED
  BY <1>1, <1>2, <1>3, <1>4, <1>5, <1>6 DEF Key, LogKeys, useTimeRangeParams

LEMMA KeyTypedNext ==
  ASSUME AuditTypeOK'
  PROVE  /\ Key' \in LogKeys
         /\ Key'[1].upto = mountedAt' \/ Key'[1].upto = Newest + 1
<1>0. Newest \in Nat /\ OldLog \in Nat
  BY AuditAssumption
<1>1. Section' \in LogSections
  BY DEF Section, LogSections, initialScope, AuditTypeOK
<1>2. kept'[Section'] \in [text : BOOLEAN, kind : BOOLEAN, dir : {"asc", "desc"},
                          range : {"preset", "custom"}]
  BY <1>1 DEF AuditTypeOK
<1>3. mountedAt' \in Nat /\ logPage' \in 1..Newest /\ applied' \in BOOLEAN
  BY <1>0 DEF AuditTypeOK
<1>4. useTimeRangeParams' \in Nat /\ useTimeRangeParams' \in {mountedAt', Newest + 1}
  BY <1>0, <1>3 DEF useTimeRangeParams
<1>5. View' \in [section : LogSections, text : BOOLEAN, kind : BOOLEAN,
                dir : {"asc", "desc"}, upto : Nat]
  BY <1>1, <1>2, <1>3, <1>4 DEF View
<1>6. View'.upto = useTimeRangeParams'
  BY DEF View
<1> QED
  BY <1>1, <1>2, <1>3, <1>4, <1>5, <1>6 DEF Key, LogKeys

\* Asking for the new list keeps what is known of the pages.
LEMMA AsksKeeps ==
  ASSUME AuditTypeOK, AuditTypeOK', LogPagesKnown, Asks,
         logged' = logged, pages' = pages, mountedAt' <= logged
  PROVE  LogPagesKnown'
<1>1. Key' \in LogKeys /\ (Key'[1].upto = mountedAt' \/ Key'[1].upto = Newest + 1)
  BY KeyTypedNext
<1>2. \A k : toPageResult(k)' = toPageResult(k)
  BY LogKept
<1>3. dues' \subseteq dues \cup {Key'}
  BY DEF Asks
<1>4. dues' \subseteq LogKeys /\ DOMAIN pages' \subseteq LogKeys /\ mountedAt' <= logged'
  BY <1>1, <1>3 DEF LogPagesKnown
<1>5. \A k \in dues' \cup DOMAIN pages' : k[1].upto <= logged' \/ k[1].upto = Newest + 1
  BY <1>1, <1>3 DEF LogPagesKnown
<1>6. \A k \in DOMAIN pages' :
        /\ k[1].upto <= Newest => pages'[k] = toPageResult(k)'
        /\ \A i \in DOMAIN pages'[k].rows :
              /\ i \in 0..LogPageSize - 1
              /\ (k[2] - 1) * LogPageSize + i < pages'[k].total
              /\ pages'[k].rows[i] \in 1..Newest
  BY <1>2 DEF LogPagesKnown
<1> QED
  BY <1>4, <1>5, <1>6 DEF LogPagesKnown

\* What the invariant is for.
LEMMA AuditInvSafe ==
  ASSUME AuditInv
  PROVE  AuditSafe
<1>1. SUFFICES ASSUME IsOpen, viewOpen = View, kept[Section].range = "preset"
               PROVE  /\ logPage = PageOfIndex(openIndex)
                      /\ LogLoaded /\ ~isFetching => drawerEntry = EntryAt(View, openIndex)
  BY DEF AuditSafe, DrawerAtItsPosition, AuditInv
<1>2. logPage = PageOfIndex(openIndex) /\ openIndex < Cardinality(_apply_filters(View))
  BY <1>1 DEF AuditInv, DrawerFollows
<1>3. SUFFICES ASSUME LogLoaded, ~isFetching
               PROVE  drawerEntry = EntryAt(View, openIndex)
  BY <1>2
<1>4. AuditTypeOK /\ LogPagesKnown
  BY DEF AuditInv
<1>5. /\ Newest \in Nat /\ logged \in Nat /\ logged <= Newest /\ openIndex \in Nat
      /\ LogPageSize \in Nat \ {0} /\ mountedAt \in Nat
  <2>1. Newest \in Nat /\ OldLog \in Nat /\ LogPageSize \in Nat \ {0}
    BY AuditAssumption
  <2>2. logged \in OldLog..Newest /\ mountedAt \in OldLog..Newest /\ openIndex \in 0..Newest
    BY <1>4 DEF AuditTypeOK, NoIndex
  <2> QED
    BY <2>1, <2>2
<1>6. Key \in DOMAIN pages /\ Key[1] = View /\ Key[2] = logPage /\ View.upto <= Newest
  <2>1. Key[1] = View /\ Key[2] = logPage /\ View.upto = mountedAt
    BY <1>1, <1>4, KeyTyped
  <2>2. mountedAt <= Newest
    BY <1>4, <1>5 DEF LogPagesKnown
  <2> QED
    BY <1>3, <2>1, <2>2 DEF LogLoaded
<1>7. pages[Key] = toPageResult(Key)
  BY <1>4, <1>6 DEF LogPagesKnown
<1> DEFINE q == openIndex \div LogPageSize
           i == openIndex % LogPageSize
           total == Cardinality(_apply_filters(View))
<1>8. /\ q \in Nat /\ i \in 0..LogPageSize - 1 /\ openIndex = LogPageSize * q + i
      /\ logPage = q + 1
  BY <1>2, <1>5, DivMod DEF PageOfIndex
<1>9. (logPage - 1) * LogPageSize + i = openIndex
  <2>1. logPage - 1 = q
    BY <1>8
  <2>2. q * LogPageSize = LogPageSize * q
    BY <1>5, <1>8
  <2> HIDE DEF q, i
  <2> QED
    BY <1>8, <2>1, <2>2
<1>10. LogRows = [j \in {x \in 0..LogPageSize - 1 : (logPage - 1) * LogPageSize + x < total} |->
                    EntryAt(View, (logPage - 1) * LogPageSize + j)]
  BY <1>3, <1>6, <1>7 DEF LogRows, toPageResult
<1>11. i \in DOMAIN LogRows /\ LogRows[i] = EntryAt(View, openIndex)
  <2> HIDE DEF i, total
  <2> QED
    BY <1>2, <1>8, <1>9, <1>10 DEF total
<1>12. drawerEntry = RowOr(openIndex, openEntry)
  BY <1>1, <1>2, <1>3 DEF drawerEntry
<1> QED
  BY <1>11, <1>12 DEF RowOr

-----------------------------------------------------------------------------
(* The log and the answers of the server *)

LEMMA AuditInit_Inv ==
  ASSUME AuditInit
  PROVE  AuditInv
<1>1. Newest \in Nat \ {0} /\ OldLog \in 0..Newest /\ MaxLooks \in Nat
  BY AuditAssumption
<1>2. pages = <<>> /\ DOMAIN pages = {} /\ ~IsOpen
  BY DEF AuditInit, IsOpen
<1>3. kept \in [LogSections -> [text : BOOLEAN, kind : BOOLEAN, dir : {"asc", "desc"},
                              range : {"preset", "custom"}]]
  BY DEF AuditInit, DefaultView
<1>4. AuditTypeOK
  <2>1. /\ logged \in OldLog..Newest /\ mountedAt \in OldLog..Newest
        /\ logPage \in 1..Newest /\ openIndex \in 0..Newest /\ looks \in 0..MaxLooks
    BY <1>1 DEF AuditInit, NoIndex
  <2>2. /\ category \in Categories /\ scope \in {"mine", "all"} /\ applied \in BOOLEAN
        /\ openEntry = NoEntry
    BY DEF AuditInit, Categories
  <2>3. NoEntry \in 0..Newest
    BY <1>1 DEF NoEntry
  <2> QED
    BY <1>2, <1>3, <2>1, <2>2, <2>3 DEF AuditTypeOK, NoIndex
<1>5. Key \in LogKeys /\ (Key[1].upto = mountedAt \/ Key[1].upto = Newest + 1)
  BY <1>4, KeyTyped
<1>6. LogPagesKnown
  BY <1>1, <1>2, <1>5 DEF AuditInit, LogPagesKnown
<1> QED
  BY <1>2, <1>4, <1>6 DEF AuditInv, DrawerFollows

\* While neither the place nor the filters change, the list is the same one.
LEMMA ViewKept ==
  ASSUME UNCHANGED <<category, scope, kept, applied, mountedAt>>
  PROVE  View' = View /\ Section' = Section /\ (logPage' = logPage => Key' = Key)
BY DEF View, Section, initialScope, useTimeRangeParams, Key

LEMMA RefetchKeeps ==
  ASSUME AuditInv, Refetch
  PROVE  AuditInv'
<1>1. AuditTypeOK /\ LogPagesKnown /\ DrawerFollows
  BY DEF AuditInv
<1>2. /\ UNCHANGED <<logged, category, scope, kept, applied, mountedAt, logPage,
                     pages, broken, drawer, looks>>
      /\ dues' = dues \cup {Key}
  BY DEF Refetch
<1>3. AuditTypeOK'
  BY <1>1, <1>2 DEF AuditTypeOK, IsOpen, drawer
<1>4. Key \in LogKeys /\ (Key[1].upto = mountedAt \/ Key[1].upto = Newest + 1)
  BY <1>1, KeyTyped
<1>5. LogPagesKnown'
  BY <1>1, <1>2, <1>4, LogKept DEF LogPagesKnown
<1>6. DrawerFollows'
  <2>1. View' = View /\ Section' = Section
    BY <1>2, ViewKept
  <2> QED
    BY <1>1, <1>2, <2>1, LogKept DEF DrawerFollows, IsOpen, drawer, PageOfIndex
<1> QED
  BY <1>3, <1>5, <1>6 DEF AuditInv

LEMMA FetchBreaksKeeps ==
  ASSUME AuditInv, NEW k, FetchBreaks(k)
  PROVE  AuditInv'
<1>1. AuditTypeOK /\ LogPagesKnown /\ DrawerFollows
  BY DEF AuditInv
<1>2. /\ UNCHANGED <<logged, category, scope, kept, applied, mountedAt, logPage,
                     pages, drawer, looks>>
      /\ dues' = dues \ {k}
  BY DEF FetchBreaks
<1>3. AuditTypeOK'
  BY <1>1, <1>2 DEF AuditTypeOK, IsOpen, drawer
<1>4. LogPagesKnown'
  BY <1>1, <1>2, LogKept DEF LogPagesKnown
<1>5. DrawerFollows'
  <2>1. View' = View /\ Section' = Section
    BY <1>2, ViewKept
  <2> QED
    BY <1>1, <1>2, <2>1, LogKept DEF DrawerFollows, IsOpen, drawer, PageOfIndex
<1> QED
  BY <1>3, <1>4, <1>5 DEF AuditInv

\* The rows of an answer lie on its page and are entries of the log.
LEMMA AnswerTyped ==
  ASSUME AuditTypeOK, NEW k \in LogKeys
  PROVE  /\ toPageResult(k).total \in 0..Newest
         /\ \A i \in DOMAIN toPageResult(k).rows :
               /\ i \in 0..LogPageSize - 1
               /\ (k[2] - 1) * LogPageSize + i < toPageResult(k).total
               /\ toPageResult(k).rows[i] \in 1..Newest
<1> DEFINE total == Cardinality(_apply_filters(k[1]))
           skipped == (k[2] - 1) * LogPageSize
<1>1. /\ logged \in Nat /\ logged <= Newest /\ LogPageSize \in Nat \ {0} /\ Newest \in Nat
      /\ k[2] \in 1..Newest
  BY AuditAssumption DEF AuditTypeOK, LogKeys
<1>2. total \in 0..logged /\ _apply_filters(k[1]) \in SUBSET (1..logged)
  BY <1>1, FiltersBounded
<1>3. skipped \in Nat
  BY <1>1
<1>4. \A n \in Nat : n < total => EntryAt(k[1], n) \in 1..Newest
  BY <1>1, <1>2, EntryAtIn
<1>5. /\ toPageResult(k).total = total
      /\ toPageResult(k).rows = [i \in {j \in 0..LogPageSize - 1 : skipped + j < total} |->
                                   EntryAt(k[1], skipped + i)]
  BY DEF toPageResult
<1> HIDE DEF total, skipped
<1>6. ASSUME NEW i \in DOMAIN toPageResult(k).rows
      PROVE  /\ i \in 0..LogPageSize - 1 /\ skipped + i < total
             /\ toPageResult(k).rows[i] \in 1..Newest
  <2>1. i \in 0..LogPageSize - 1 /\ skipped + i < total
    BY <1>5, <1>6
  <2>2. skipped + i \in Nat
    BY <1>1, <1>3, <2>1
  <2>3. toPageResult(k).rows[i] = EntryAt(k[1], skipped + i)
    BY <1>5, <1>6
  <2> QED
    BY <1>4, <2>1, <2>2, <2>3
<1>7. toPageResult(k).total \in 0..Newest
  <2>1. total \in 0..Newest
    BY <1>1, <1>2
  <2> QED
    BY <1>5, <2>1
<1> QED
  BY <1>5, <1>6, <1>7 DEF skipped

LEMMA AnswerKeeps ==
  ASSUME AuditInv, NEW k \in dues, useSecurityAuditLogQuery(k)
  PROVE  AuditInv'
<1>1. AuditTypeOK /\ LogPagesKnown /\ DrawerFollows /\ k \in LogKeys
  BY DEF AuditInv, LogPagesKnown
<1>2. /\ UNCHANGED <<logged, category, scope, kept, applied, mountedAt, logPage,
                     drawer, looks>>
      /\ dues' = dues \ {k} /\ DOMAIN pages' = DOMAIN pages \cup {k}
      /\ \A x \in DOMAIN pages' : pages'[x] = IF x = k THEN toPageResult(k) ELSE pages[x]
  BY DEF useSecurityAuditLogQuery
<1>3. AuditTypeOK'
  <2>1. toPageResult(k).total \in 0..Newest
    BY <1>1, AnswerTyped
  <2>2. \A x \in DOMAIN pages' : pages'[x].total \in 0..Newest
    BY <1>1, <1>2, <2>1 DEF AuditTypeOK
  <2> QED
    BY <1>1, <1>2, <2>2 DEF AuditTypeOK, IsOpen, drawer
<1>4. LogPagesKnown'
  <2>1. \A x : toPageResult(x)' = toPageResult(x)
    BY <1>2, LogKept
  <2>2. \A x \in DOMAIN pages' : x[1].upto <= Newest => pages'[x] = toPageResult(x)'
    BY <1>1, <1>2, <2>1 DEF LogPagesKnown
  <2>3. \A x \in DOMAIN pages' : \A i \in DOMAIN pages'[x].rows :
          /\ i \in 0..LogPageSize - 1
          /\ (x[2] - 1) * LogPageSize + i < pages'[x].total
          /\ pages'[x].rows[i] \in 1..Newest
    <3>1. CASE TRUE
      BY <1>1, <1>2, AnswerTyped DEF LogPagesKnown
    <3> QED
      BY <3>1
  <2>4. /\ dues' \subseteq LogKeys /\ DOMAIN pages' \subseteq LogKeys /\ mountedAt' <= logged'
        /\ \A x \in dues' \cup DOMAIN pages' : x[1].upto <= logged' \/ x[1].upto = Newest + 1
    BY <1>1, <1>2 DEF LogPagesKnown
  <2> QED
    BY <2>2, <2>3, <2>4 DEF LogPagesKnown
<1>5. DrawerFollows'
  <2>1. View' = View /\ Section' = Section
    BY <1>2, ViewKept
  <2> QED
    BY <1>1, <1>2, <2>1, LogKept DEF DrawerFollows, IsOpen, drawer, PageOfIndex
<1> QED
  BY <1>3, <1>4, <1>5 DEF AuditInv

LEMMA LogEventKeeps ==
  ASSUME AuditInv, log_event
  PROVE  AuditInv'
<1>1. AuditTypeOK /\ LogPagesKnown /\ DrawerFollows
  BY DEF AuditInv
<1>2. /\ UNCHANGED <<category, scope, kept, applied, mountedAt, logPage, pages, dues,
                     broken, drawer, looks>>
      /\ logged < Newest /\ logged' = logged + 1
  BY DEF log_event
<1>3. Newest \in Nat /\ OldLog \in Nat /\ logged \in Nat /\ mountedAt \in Nat
  BY <1>1, AuditAssumption DEF AuditTypeOK
<1>4. AuditTypeOK'
  BY <1>1, <1>2, <1>3 DEF AuditTypeOK, IsOpen, drawer
<1>5. LogPagesKnown'
  <2>1. \A k \in LogKeys : k[1].upto \in Nat
    BY DEF LogKeys
  <2>2. \A k \in dues \cup DOMAIN pages : k[1].upto <= logged' \/ k[1].upto = Newest + 1
    BY <1>1, <1>2, <1>3, <2>1 DEF LogPagesKnown
  <2>3. ASSUME NEW k \in DOMAIN pages, k[1].upto <= Newest
        PROVE  pages[k] = toPageResult(k)'
    <3>1. k[1].upto \in Nat /\ k[1].upto <= logged
      BY <1>1, <1>3, <2>1, <2>3 DEF LogPagesKnown
    <3> QED
      BY <1>1, <1>2, <1>3, <2>3, <3>1, OverIsOver DEF LogPagesKnown
  <2> QED
    BY <1>1, <1>2, <1>3, <2>2, <2>3 DEF LogPagesKnown
<1>6. DrawerFollows'
  <2>1. View' = View /\ Section' = Section /\ Key[1] = View
    BY <1>1, <1>2, ViewKept, KeyTyped
  <2>2. ASSUME kept[Section].range = "preset"
        PROVE  _apply_filters(View)' = _apply_filters(View)
    <3>1. Key[1].upto \in Nat /\ Key[1].upto <= logged
      BY <1>1, <1>3, <2>1, <2>2, KeyTyped DEF LogPagesKnown
    <3>2. PICK k : k = Key
      OBVIOUS
    <3>3. _apply_filters(k[1])' = _apply_filters(k[1])
      BY <1>2, <1>3, <3>1, <3>2, OverIsOver
    <3> QED
      BY <2>1, <3>2, <3>3
  <2> QED
    BY <1>1, <1>2, <2>1, <2>2 DEF DrawerFollows, IsOpen, drawer, PageOfIndex
<1> QED
  BY <1>4, <1>5, <1>6 DEF AuditInv

-----------------------------------------------------------------------------
(* Tabs and filters *)

\* A list asked for while no drawer is open.
LEMMA ListKeeps ==
  ASSUME AuditInv, AuditTypeOK', Asks, UNCHANGED <<logged, pages>>, mountedAt' <= logged,
         ~IsOpen'
  PROVE  AuditInv'
<1>1. LogPagesKnown'
  BY AsksKeeps DEF AuditInv
<1> QED
  BY <1>1 DEF AuditInv, DrawerFollows

LEMMA MountsKeeps ==
  ASSUME AuditInv, Mounts, UNCHANGED <<logged, kept, pages>>,
         category' \in Categories, scope' \in {"mine", "all"}, looks' \in 0..MaxLooks,
         ~IsOpen', openIndex' \in 0..NoIndex, openEntry' = NoEntry
  PROVE  AuditInv'
<1>1. AuditTypeOK /\ Newest \in Nat \ {0} /\ OldLog \in 0..Newest
  BY AuditAssumption DEF AuditInv
<1>2. mountedAt' = logged /\ logPage' = 1 /\ applied' = kept[Section'].text /\ Asks
  BY DEF Mounts
<1>3. Section' \in LogSections
  <2>1. initialScope' \in {"mine", "all"}
    BY DEF initialScope
  <2> QED
    BY <2>1 DEF Section, LogSections
<1>4. applied' \in BOOLEAN
  BY <1>1, <1>2, <1>3 DEF AuditTypeOK
<1>5. mountedAt' \in OldLog..Newest /\ logPage' \in 1..Newest /\ mountedAt' <= logged
  BY <1>1, <1>2 DEF AuditTypeOK
<1>6. openEntry' \in 0..Newest /\ NoEntry \in 0..Newest
  BY <1>1 DEF NoEntry
<1>7. AuditTypeOK'
  BY <1>1, <1>4, <1>5, <1>6 DEF AuditTypeOK, NoEntry, NoIndex
<1> QED
  BY <1>2, <1>5, <1>7, ListKeeps

LEMMA LookTyped ==
  ASSUME AuditTypeOK, Look
  PROVE  looks' \in 0..MaxLooks
BY AuditAssumption DEF AuditTypeOK, Look

\* Facts of a drawer that is closed, and of one that just closes.
LEMMA DrawerClosed ==
  ASSUME AuditTypeOK
  PROVE  /\ ~IsOpen /\ UNCHANGED drawer
              => ~IsOpen' /\ openIndex' \in 0..NoIndex /\ openEntry' = NoEntry
         /\ Closes => ~IsOpen' /\ openIndex' \in 0..NoIndex /\ openEntry' = NoEntry
<1>1. NoIndex \in 0..NoIndex
  BY AuditAssumption DEF NoIndex
<1>2. ~IsOpen => openEntry = NoEntry
  BY DEF AuditTypeOK
<1> QED
  BY <1>1, <1>2 DEF AuditTypeOK, IsOpen, drawer, Closes, NoIndex

LEMMA TabsKeep ==
  ASSUME AuditInv,
         \/ \E c \in Categories : setCategory(c)
         \/ \E s \in {"mine", "all"} : setScope(s)
         \/ AuditLogPage
  PROVE  AuditInv'
<1>1. AuditTypeOK /\ category \in Categories /\ scope \in {"mine", "all"}
  BY DEF AuditInv, AuditTypeOK
<1>2. ASSUME NEW c \in Categories, setCategory(c)
      PROVE  AuditInv'
  <2>1. /\ Mounts /\ UNCHANGED <<logged, kept, pages>> /\ Look /\ ~IsOpen
        /\ category' = c /\ scope' = scope /\ UNCHANGED drawer
    BY <1>2 DEF setCategory
  <2> QED
    BY <1>1, <2>1, LookTyped, DrawerClosed, MountsKeeps
<1>3. ASSUME NEW s \in {"mine", "all"}, setScope(s)
      PROVE  AuditInv'
  <2>1. /\ Mounts /\ UNCHANGED <<logged, kept, pages>> /\ Look /\ ~IsOpen
        /\ category' = category /\ scope' = s /\ UNCHANGED drawer
    BY <1>3 DEF setScope
  <2> QED
    BY <1>1, <2>1, LookTyped, DrawerClosed, MountsKeeps
<1>4. ASSUME AuditLogPage
      PROVE  AuditInv'
  <2>1. /\ Mounts /\ UNCHANGED <<logged, kept, pages>> /\ Look
        /\ category' = category /\ scope' = scope /\ Closes
    BY <1>4 DEF AuditLogPage
  <2> QED
    BY <1>1, <2>1, LookTyped, DrawerClosed, MountsKeeps
<1> QED
  BY <1>2, <1>3, <1>4

LEMMA setSearchKeeps ==
  ASSUME AuditInv, NEW t \in BOOLEAN, setSearch(t)
  PROVE  AuditInv'
<1>1. AuditTypeOK /\ LogPagesKnown
  BY DEF AuditInv
<1>2. /\ UNCHANGED <<logged, category, scope, applied, mountedAt, logPage, pages, dues,
                     broken, drawer>>
      /\ Look /\ ~IsOpen /\ kept' = [kept EXCEPT ![Section].text = t]
  BY DEF setSearch
<1>3. kept' \in [LogSections -> [text : BOOLEAN, kind : BOOLEAN, dir : {"asc", "desc"},
                               range : {"preset", "custom"}]]
  BY <1>1, <1>2 DEF AuditTypeOK
<1>4. looks' \in 0..MaxLooks /\ ~IsOpen'
  BY <1>1, <1>2, LookTyped, DrawerClosed
<1>5. AuditTypeOK'
  BY <1>1, <1>2, <1>3, <1>4 DEF AuditTypeOK, IsOpen, drawer
<1>6. LogPagesKnown'
  BY <1>1, <1>2, LogKept DEF LogPagesKnown
<1> QED
  BY <1>4, <1>5, <1>6 DEF AuditInv, DrawerFollows

LEMMA debouncedTextKeeps ==
  ASSUME AuditInv, debouncedText
  PROVE  AuditInv'
<1>1. AuditTypeOK /\ LogPagesKnown /\ DrawerFollows
  BY DEF AuditInv
<1>2. /\ UNCHANGED <<kept, category, scope, mountedAt, logged, pages, drawer, looks>> /\ Asks
      /\ applied # kept[Section].text /\ applied' = kept[Section].text /\ logPage' = 1
  BY DEF debouncedText
<1>3. AuditTypeOK'
  <2>1. kept[Section].text \in BOOLEAN
    BY <1>1, KeyTyped
  <2>2. 1 \in 1..Newest
    BY AuditAssumption
  <2> QED
    BY <1>1, <1>2, <2>1, <2>2 DEF AuditTypeOK, IsOpen, drawer
<1>4. LogPagesKnown'
  BY <1>1, <1>2, <1>3, AsksKeeps DEF LogPagesKnown
<1>5. DrawerFollows'
  <2>1. Section' = Section /\ View'.text = applied' /\ View.text = applied
    BY <1>2 DEF Section, initialScope, View
  <2>2. SUFFICES ASSUME IsOpen'
                 PROVE  viewOpen' # View' /\ applied' = kept'[Section'].text
    BY DEF DrawerFollows
  <2>3. IsOpen /\ viewOpen' = viewOpen
    BY <1>2, <2>2 DEF IsOpen, drawer
  <2>4. viewOpen = View
    BY <1>1, <1>2, <2>3 DEF DrawerFollows
  <2> QED
    BY <1>2, <2>1, <2>3, <2>4
<1> QED
  BY <1>3, <1>4, <1>5 DEF AuditInv


\* Any other filter: the first page of the new list.
LEMMA NarrowsKeeps ==
  ASSUME AuditInv, Look, ~IsOpen, UNCHANGED <<logged, pages, drawer>>,
         NEW f \in [text : BOOLEAN, kind : BOOLEAN, dir : {"asc", "desc"},
                    range : {"preset", "custom"}],
         Narrows(f)
  PROVE  AuditInv'
<1>1. AuditTypeOK /\ LogPagesKnown
  BY DEF AuditInv
<1>2. /\ UNCHANGED <<category, scope, applied, mountedAt>> /\ Asks
      /\ kept' = [kept EXCEPT ![Section] = f] /\ logPage' = 1
  BY DEF Narrows
<1>3. kept' \in [LogSections -> [text : BOOLEAN, kind : BOOLEAN, dir : {"asc", "desc"},
                               range : {"preset", "custom"}]]
  BY <1>1, <1>2 DEF AuditTypeOK
<1>4. looks' \in 0..MaxLooks /\ ~IsOpen' /\ 1 \in 1..Newest
  BY <1>1, LookTyped, DrawerClosed, AuditAssumption
<1>5. AuditTypeOK'
  BY <1>1, <1>2, <1>3, <1>4 DEF AuditTypeOK, IsOpen, drawer
<1> QED
  BY <1>1, <1>2, <1>4, <1>5, ListKeeps DEF LogPagesKnown

LEMMA FiltersKeep ==
  ASSUME AuditInv,
         \/ \E k \in BOOLEAN : SetsKind(k)
         \/ \E r \in {"preset", "custom"} : TimeRangeControl(r)
         \/ \E d \in {"asc", "desc"} : toggleSort(d)
         \/ clearAll
  PROVE  AuditInv'
<1>1. AuditTypeOK
  BY DEF AuditInv
<1> DEFINE Filter == [text : BOOLEAN, kind : BOOLEAN, dir : {"asc", "desc"},
                      range : {"preset", "custom"}]
<1>2. kept[Section] \in Filter
  BY <1>1, KeyTyped
<1>3. ASSUME NEW f \in Filter, Narrows(f), Look, ~IsOpen, UNCHANGED <<logged, pages, drawer>>
      PROVE  AuditInv'
  BY <1>3, NarrowsKeeps
<1>4. ASSUME NEW k \in BOOLEAN, SetsKind(k)
      PROVE  AuditInv'
  <2>1. PICK f : f = [kept[Section] EXCEPT !.kind = k]
    OBVIOUS
  <2>2. f \in Filter
    BY <1>2, <2>1
  <2>3. Narrows(f) /\ Look /\ ~IsOpen /\ UNCHANGED <<logged, pages, drawer>>
    BY <1>4, <2>1 DEF SetsKind
  <2> QED
    BY <1>3, <2>2, <2>3
<1>5. ASSUME NEW r \in {"preset", "custom"}, TimeRangeControl(r)
      PROVE  AuditInv'
  <2>1. PICK f : f = [kept[Section] EXCEPT !.range = r]
    OBVIOUS
  <2>2. f \in Filter
    BY <1>2, <2>1
  <2>3. Narrows(f) /\ Look /\ ~IsOpen /\ UNCHANGED <<logged, pages, drawer>>
    BY <1>5, <2>1 DEF TimeRangeControl
  <2> QED
    BY <1>3, <2>2, <2>3
<1>6. ASSUME NEW d \in {"asc", "desc"}, toggleSort(d)
      PROVE  AuditInv'
  <2>1. PICK f : f = [kept[Section] EXCEPT !.dir = d]
    OBVIOUS
  <2>2. f \in Filter
    BY <1>2, <2>1
  <2>3. Narrows(f) /\ Look /\ ~IsOpen /\ UNCHANGED <<logged, pages, drawer>>
    BY <1>6, <2>1 DEF toggleSort
  <2> QED
    BY <1>3, <2>2, <2>3
<1>7. ASSUME clearAll
      PROVE  AuditInv'
  <2>1. PICK f : f = [DefaultView EXCEPT !.dir = kept[Section].dir]
    OBVIOUS
  <2>2. f \in Filter
    BY <1>2, <2>1 DEF DefaultView
  <2>3. Narrows(f) /\ Look /\ ~IsOpen /\ UNCHANGED <<logged, pages, drawer>>
    BY <1>7, <2>1 DEF clearAll
  <2> QED
    BY <1>3, <2>2, <2>3
<1> QED
  BY <1>4, <1>5, <1>6, <1>7

LEMMA setPageKeeps ==
  ASSUME AuditInv, NEW p \in 1..Newest, setPage(p)
  PROVE  AuditInv'
<1>1. AuditTypeOK /\ LogPagesKnown
  BY DEF AuditInv
<1>2. /\ UNCHANGED <<category, scope, kept, applied, mountedAt, logged, pages, drawer>>
      /\ Asks /\ logPage' = p /\ Look /\ ~IsOpen
  BY DEF setPage
<1>3. looks' \in 0..MaxLooks /\ ~IsOpen'
  BY <1>1, <1>2, LookTyped, DrawerClosed
<1>4. AuditTypeOK'
  BY <1>1, <1>2, <1>3 DEF AuditTypeOK, IsOpen, drawer
<1> QED
  BY <1>1, <1>2, <1>3, <1>4, ListKeeps DEF LogPagesKnown

-----------------------------------------------------------------------------
(* The drawer *)

\* The rows of the page shown, and how many the server said there are.
LEMMA RowsShown ==
  ASSUME AuditInv
  PROVE  /\ Total \in 0..Newest
         /\ \A i \in DOMAIN LogRows :
               /\ i \in 0..LogPageSize - 1 /\ (logPage - 1) * LogPageSize + i < Total
               /\ LogRows[i] \in 1..Newest
         /\ LogLoaded /\ kept[Section].range = "preset"
               => Total = Cardinality(_apply_filters(View))
<1>1. AuditTypeOK /\ LogPagesKnown
  BY DEF AuditInv
<1>2. Newest \in Nat /\ OldLog \in Nat
  BY AuditAssumption
<1>3. CASE ~LogLoaded
  BY <1>2, <1>3 DEF Total, LogRows
<1>4. CASE LogLoaded
  <2>1. /\ Key \in DOMAIN pages /\ LogRows = pages[Key].rows /\ Total = pages[Key].total
        /\ Key[1] = View /\ Key[2] = logPage
    BY <1>1, <1>4, KeyTyped DEF LogLoaded, LogRows, Total
  <2>2. Total \in 0..Newest
    BY <1>1, <2>1 DEF AuditTypeOK
  <2>3. ASSUME kept[Section].range = "preset"
        PROVE  Total = Cardinality(_apply_filters(View))
    <3>1. View.upto = mountedAt
      BY <1>1, <2>3, KeyTyped
    <3>2. mountedAt \in OldLog..Newest
      BY <1>1 DEF AuditTypeOK
    <3>3. View.upto <= Newest
      BY <1>2, <3>1, <3>2
    <3>4. pages[Key] = toPageResult(Key)
      BY <1>1, <2>1, <3>3 DEF LogPagesKnown
    <3> QED
      BY <2>1, <3>4 DEF toPageResult
  <2> QED
    BY <1>1, <2>1, <2>2, <2>3 DEF LogPagesKnown
<1> QED
  BY <1>3, <1>4

LEMMA onRowClickKeeps ==
  ASSUME AuditInv, NEW i \in 0..LogPageSize - 1, onRowClick(i)
  PROVE  AuditInv'
<1>1. AuditTypeOK /\ LogPagesKnown
  BY DEF AuditInv
<1>2. /\ UNCHANGED <<logged, category, scope, kept, applied, mountedAt, logPage, pages,
                     dues, broken>>
      /\ Look /\ i \in DOMAIN LogRows /\ openEntry' = LogRows[i] /\ viewOpen' = View
      /\ openIndex' = (logPage - 1) * LogPageSize + i
  BY DEF onRowClick
<1>3. /\ Newest \in Nat /\ LogPageSize \in Nat \ {0} /\ logPage \in 1..Newest
  BY <1>1, AuditAssumption DEF AuditTypeOK
<1>4. /\ Total \in 0..Newest /\ openIndex' < Total /\ LogRows[i] \in 1..Newest
  BY <1>2, RowsShown
<1>5. openIndex' \in Nat /\ openIndex' \div LogPageSize = logPage - 1
  <2>1. PICK q : q = logPage - 1
    OBVIOUS
  <2>2. q \in Nat
    BY <1>3, <2>1
  <2>3. openIndex' = LogPageSize * q + i
    BY <1>2, <1>3, <2>1, <2>2
  <2>4. (LogPageSize * q + i) \div LogPageSize = q
    BY <1>3, <2>2, DivUnique
  <2>5. LogPageSize * q + i \in Nat
    BY <1>3, <2>2
  <2> QED
    BY <2>1, <2>3, <2>4, <2>5
<1>6. /\ openIndex' \in 0..Newest /\ openIndex' # Newest
      /\ openEntry' \in 0..Newest /\ openEntry' # 0
  BY <1>2, <1>3, <1>4, <1>5
<1>7. AuditTypeOK'
  <2>1. looks' \in 0..MaxLooks
    BY <1>1, <1>2, LookTyped
  <2> QED
    BY <1>1, <1>2, <1>6, <2>1 DEF AuditTypeOK, IsOpen, NoIndex, NoEntry
<1>8. LogPagesKnown'
  BY <1>1, <1>2, LogKept DEF LogPagesKnown
<1>9. DrawerFollows'
  <2>1. View' = View /\ Section' = Section
    BY <1>2, ViewKept
  <2>2. PageOfIndex(openIndex)' = logPage'
    BY <1>2, <1>3, <1>5 DEF PageOfIndex
  <2>3. kept[Section].range = "preset" => openIndex' < Cardinality(_apply_filters(View))
    BY <1>2, <1>4, RowsShown DEF LogRows
  <2>4. _apply_filters(View)' = _apply_filters(View)
    BY <1>2, <2>1, LogKept
  <2> QED
    BY <1>2, <2>1, <2>2, <2>3, <2>4 DEF DrawerFollows
<1> QED
  BY <1>7, <1>8, <1>9 DEF AuditInv

\* To the next or the previous entry, on this page or on the one beside it.
LEMMA WalksKeeps ==
  ASSUME AuditInv, Look, IsOpen, NEW n \in 0..Newest, n < Newest, Walks(n),
         (LogLoaded /\ n < Total) \/ n < openIndex
  PROVE  AuditInv'
<1>1. AuditTypeOK /\ LogPagesKnown /\ DrawerFollows
  BY DEF AuditInv
<1>2. /\ UNCHANGED <<category, scope, kept, applied, mountedAt, viewOpen, logged, pages>>
      /\ Asks /\ openIndex' = n
  BY DEF Walks
<1>3. /\ Newest \in Nat /\ LogPageSize \in Nat \ {0} /\ n \in Nat
  BY AuditAssumption
<1>4. PageOfIndex(n) \in 1..Newest
  <2>1. n \div LogPageSize \in Nat /\ n \div LogPageSize <= n
    BY <1>3
  <2> QED
    BY <1>3, <2>1 DEF PageOfIndex
<1>5. logPage' = PageOfIndex(n)
  BY <1>3, <1>4 DEF Walks
<1>6. openEntry' \in 0..Newest /\ openEntry' # 0
  <2>1. openEntry \in 0..Newest /\ openEntry # 0
    BY <1>1 DEF AuditTypeOK, NoEntry
  <2>2. RowOr(n, openEntry) \in 0..Newest /\ RowOr(n, openEntry) # 0
    BY <1>3, <2>1, RowsShown DEF RowOr
  <2> QED
    BY <2>1, <2>2 DEF Walks
<1>7. AuditTypeOK'
  <2>1. looks' \in 0..MaxLooks
    BY <1>1, LookTyped
  <2>2. openIndex' \in 0..Newest /\ openIndex' # Newest
    BY <1>2, <1>3
  <2> QED
    BY <1>1, <1>2, <1>4, <1>5, <1>6, <2>1, <2>2 DEF AuditTypeOK, IsOpen, NoIndex, NoEntry
<1>8. LogPagesKnown'
  BY <1>1, <1>2, <1>7, AsksKeeps DEF LogPagesKnown
<1>9. DrawerFollows'
  <2>1. View' = View /\ Section' = Section
    BY <1>2, ViewKept
  <2>2. PageOfIndex(openIndex)' = logPage'
    BY <1>2, <1>5 DEF PageOfIndex
  <2>3. _apply_filters(View)' = _apply_filters(View)
    BY <1>2, <2>1, LogKept
  <2>4. ASSUME viewOpen = View, kept[Section].range = "preset"
        PROVE  n < Cardinality(_apply_filters(View))
    <3>1. openIndex \in Nat /\ openIndex < Cardinality(_apply_filters(View))
      BY <1>1, <1>3, <2>4 DEF DrawerFollows, AuditTypeOK, NoIndex
    <3>2. Cardinality(_apply_filters(View)) \in Nat
      <4>1. logged \in Nat
        BY <1>1, AuditAssumption DEF AuditTypeOK
      <4> QED
        BY <4>1, FiltersBounded
    <3>3. LogLoaded => Total = Cardinality(_apply_filters(View))
      BY <2>4, RowsShown
    <3> QED
      BY <1>3, <3>1, <3>2, <3>3
  <2>5. viewOpen # View => applied = kept[Section].text
    BY <1>1 DEF DrawerFollows
  <2> QED
    BY <1>2, <2>1, <2>2, <2>3, <2>4, <2>5 DEF DrawerFollows
<1> QED
  BY <1>7, <1>8, <1>9 DEF AuditInv

LEMMA WalkKeeps ==
  ASSUME AuditInv, onNext \/ onPrevious
  PROVE  AuditInv'
<1>1. /\ openIndex \in 0..Newest /\ Newest \in Nat /\ Total \in 0..Newest
      /\ IsOpen => openIndex < Newest
  <2>1. openIndex \in 0..Newest /\ Newest \in Nat
    BY AuditAssumption DEF AuditInv, AuditTypeOK, NoIndex
  <2> QED
    BY <2>1, RowsShown DEF IsOpen, NoIndex
<1>2. ASSUME onNext
      PROVE  AuditInv'
  <2>1. PICK n : n = openIndex + 1
    OBVIOUS
  <2>2. Look /\ IsOpen /\ LogLoaded /\ n < Total /\ Walks(n)
    BY <1>2, <2>1 DEF onNext
  <2>3. n \in 0..Newest /\ n < Newest
    BY <1>1, <2>1, <2>2
  <2> QED
    BY <2>2, <2>3, WalksKeeps
<1>3. ASSUME onPrevious
      PROVE  AuditInv'
  <2>1. PICK n : n = openIndex - 1
    OBVIOUS
  <2>2. Look /\ IsOpen /\ openIndex > 0 /\ Walks(n)
    BY <1>3, <2>1 DEF onPrevious
  <2>3. n \in 0..Newest /\ n < Newest /\ n < openIndex
    BY <1>1, <2>1, <2>2
  <2> QED
    BY <2>2, <2>3, WalksKeeps
<1> QED
  BY <1>2, <1>3

LEMMA onCloseKeeps ==
  ASSUME AuditInv, onClose \/ onFilterUser
  PROVE  AuditInv'
<1>1. AuditTypeOK /\ LogPagesKnown
  BY DEF AuditInv
<1>2. /\ UNCHANGED <<logged, category, scope, applied, mountedAt, logPage, pages, dues,
                     broken>>
      /\ Look /\ Closes
      /\ kept' = kept \/ kept' = [kept EXCEPT ![Section].text = TRUE]
  BY DEF onClose, onFilterUser
<1>3. kept' \in [LogSections -> [text : BOOLEAN, kind : BOOLEAN, dir : {"asc", "desc"},
                               range : {"preset", "custom"}]]
  BY <1>1, <1>2 DEF AuditTypeOK
<1>4. /\ looks' \in 0..MaxLooks /\ ~IsOpen' /\ openIndex' \in 0..NoIndex
      /\ openEntry' = NoEntry /\ NoEntry \in 0..Newest
  BY <1>1, <1>2, LookTyped, DrawerClosed, AuditAssumption DEF NoEntry
<1>5. AuditTypeOK'
  BY <1>1, <1>2, <1>3, <1>4 DEF AuditTypeOK, NoIndex, NoEntry
<1>6. LogPagesKnown'
  BY <1>1, <1>2, LogKept DEF LogPagesKnown
<1> QED
  BY <1>4, <1>5, <1>6 DEF AuditInv, DrawerFollows

LEMMA FiltersKindKeeps ==
  ASSUME AuditInv, FiltersKind
  PROVE  AuditInv'
<1>1. AuditTypeOK /\ LogPagesKnown
  BY DEF AuditInv
<1>2. /\ UNCHANGED <<category, scope, applied, mountedAt, logged, pages>>
      /\ Look /\ Closes /\ Asks /\ kept' = [kept EXCEPT ![Section].kind = TRUE]
      /\ logPage' \in {logPage, 1}
  BY DEF FiltersKind
<1>3. kept' \in [LogSections -> [text : BOOLEAN, kind : BOOLEAN, dir : {"asc", "desc"},
                               range : {"preset", "custom"}]]
  BY <1>1, <1>2 DEF AuditTypeOK
<1>4. /\ looks' \in 0..MaxLooks /\ ~IsOpen' /\ openIndex' \in 0..NoIndex
      /\ openEntry' = NoEntry /\ NoEntry \in 0..Newest /\ 1 \in 1..Newest
  BY <1>1, <1>2, LookTyped, DrawerClosed, AuditAssumption DEF NoEntry
<1>5. AuditTypeOK'
  BY <1>1, <1>2, <1>3, <1>4 DEF AuditTypeOK, NoIndex, NoEntry
<1> QED
  BY <1>1, <1>2, <1>4, <1>5, ListKeeps DEF LogPagesKnown

LEMMA AuditStutter ==
  ASSUME AuditInv, UNCHANGED auditVars
  PROVE  AuditInv'
<1>1. AuditTypeOK /\ LogPagesKnown /\ DrawerFollows
  BY DEF AuditInv
<1>2. /\ UNCHANGED <<logged, category, scope, kept, applied, mountedAt, logPage, pages,
                     dues, openIndex, openEntry, viewOpen, looks>>
  BY DEF auditVars
<1>3. AuditTypeOK'
  BY <1>1, <1>2 DEF AuditTypeOK, IsOpen
<1>4. LogPagesKnown'
  BY <1>1, <1>2, LogKept DEF LogPagesKnown
<1>5. DrawerFollows'
  BY <1>1, <1>2, ViewKept, LogKept DEF DrawerFollows, IsOpen, PageOfIndex
<1> QED
  BY <1>3, <1>4, <1>5 DEF AuditInv

(* While the list under the drawer is the one it was opened on, the drawer *)
(* is on the page of its position and, once settled, shows the entry of    *)
(* the log at that position: however many entries, pages and walks.        *)
THEOREM AuditAlwaysSafe == AuditSpec => []AuditSafe
<1>1. AuditInit => AuditInv
  BY AuditInit_Inv
<1>2. AuditInv /\ [AuditNext]_auditVars => AuditInv'
  <2> SUFFICES ASSUME AuditInv, [AuditNext]_auditVars PROVE AuditInv'
    OBVIOUS
  <2>1. CASE Refetch
    BY <2>1, RefetchKeeps
  <2>2. CASE \E k \in dues : useSecurityAuditLogQuery(k) \/ FetchBreaks(k)
    BY <2>2, AnswerKeeps, FetchBreaksKeeps
  <2>3. CASE log_event
    BY <2>3, LogEventKeeps
  <2>4. CASE \/ \E c \in Categories : setCategory(c)
             \/ \E s \in {"mine", "all"} : setScope(s)
             \/ AuditLogPage
    BY <2>4, TabsKeep
  <2>5. CASE \E b \in BOOLEAN : setSearch(b)
    BY <2>5, setSearchKeeps
  <2>6. CASE debouncedText
    BY <2>6, debouncedTextKeeps
  <2>7. CASE \/ \E b \in BOOLEAN : SecurityFilterBar(b) \/ AuthorizationFilterBar(b)
             \/ \E r \in {"preset", "custom"} : TimeRangeControl(r)
             \/ \E d \in {"asc", "desc"} : toggleSort(d)
             \/ clearAll
    <3>1. \/ \E b \in BOOLEAN : SetsKind(b)
          \/ \E r \in {"preset", "custom"} : TimeRangeControl(r)
          \/ \E d \in {"asc", "desc"} : toggleSort(d)
          \/ clearAll
      BY <2>7 DEF SecurityFilterBar, AuthorizationFilterBar
    <3> QED
      BY <3>1, FiltersKeep
  <2>8. CASE \E p \in 1..Newest : setPage(p)
    BY <2>8, setPageKeeps
  <2>9. CASE \E i \in 0..LogPageSize - 1 : onRowClick(i)
    BY <2>9, onRowClickKeeps
  <2>10. CASE onNext \/ onPrevious
    BY <2>10, WalkKeeps
  <2>11. CASE onClose \/ onFilterUser
    BY <2>11, onCloseKeeps
  <2>12. CASE SecurityDetailsDrawer \/ AuthorizationDetailsDrawer
    BY <2>12, FiltersKindKeeps DEF SecurityDetailsDrawer, AuthorizationDetailsDrawer
  <2>13. CASE UNCHANGED auditVars
    BY <2>13, AuditStutter
  <2> QED
    BY <2>1, <2>2, <2>3, <2>4, <2>5, <2>6, <2>7, <2>8, <2>9, <2>10, <2>11, <2>12, <2>13
       DEF AuditNext
<1>3. AuditInv => AuditSafe
  BY AuditInvSafe
<1> QED
  BY <1>1, <1>2, <1>3, PTL DEF AuditSpec
=============================================================================
