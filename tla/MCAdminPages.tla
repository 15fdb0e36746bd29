---- MODULE MCAdminPages ----
(***************************************************************************)
(* The pages of administrators and auditors. They share no state, so they  *)
(* are explored side by side: a behaviour picks one of them and stays      *)
(* there, while the others rest in one of their initial states.            *)
(***************************************************************************)
EXTENDS UsersPage, UserAccess, PolicyEditor, PolicyCards, BulkAccess,
        AuditTrail

VARIABLE screen

\* Values that a .cfg cannot write.
MCCatalog == {<<"read", "u">>, <<"edit", "u">>}
MCContents == [p \in {"clerk", "super"} |->
                 IF p = "clerk" THEN MCCatalog ELSE {<<"edit", "*">>}]
MCConditions == [p \in {"clerk", "super"} |-> IF p = "clerk" THEN "narrow" ELSE "open"]
MCTypeOf == [x \in {"a1", "a2", "b"} |-> IF x = "b" THEN "u" ELSE "t"]

AdminInit ==
    /\ screen \in {"users", "access", "editor", "cards", "bulk", "audit"}
    /\ UsersInit
    /\ screen # "users" => ~search /\ ~stored /\ urlFilter = "none"
    /\ AccessInit
    /\ screen # "access" => ~isSelf /\ assigned = {} /\ direct = [e \in Grants |-> "no"]
    /\ EditorInit
    /\ screen # "editor" => /\ policy.text = CHOOSE x \in Texts : TRUE
                            /\ policy.acts = {CHOOSE a \in Actions : TRUE}
    /\ CardsInit
    /\ screen # "cards" => cardActive = [c \in Cards |-> "on"]
    /\ BulkInit
    /\ screen # "bulk" => holds = [u \in Members |-> {Superuser}]
    /\ AuditInit

Resting(s, vars) == IF screen = s THEN TRUE ELSE UNCHANGED vars

AdminNext ==
    /\ UNCHANGED screen
    /\ Resting("users", usersVars)
    /\ Resting("access", accessVars)
    /\ Resting("editor", editorVars)
    /\ Resting("cards", policyCardVars)
    /\ Resting("bulk", bulkVars)
    /\ Resting("audit", auditVars)
    /\ \/ screen = "users" /\ UsersNext
       \/ screen = "access" /\ AccessNext
       \/ screen = "editor" /\ EditorNext
       \/ screen = "cards" /\ CardsNext
       \/ screen = "bulk" /\ BulkNext
       \/ screen = "audit" /\ AuditNext

AdminSpec ==
    AdminInit /\ [][AdminNext]_<<screen, usersVars, accessVars, editorVars,
        policyCardVars, bulkVars, auditVars>>

\* The inductive invariants of the proofs about these pages, each on the page
\* that moves: TLC finds them invariants of this instance when they are named in
\* the .cfg beside the others.
AdminPagesInv ==
    /\ screen = "users" => UsersInv
    /\ screen = "access" => AccessInv
    /\ screen = "bulk" => BulkInv
    /\ screen = "editor" => EditorInv
    /\ screen = "cards" => CardsInv
    /\ screen = "audit" => AuditInv
====
