---- MODULE MCOwnPages ----
(***************************************************************************)
(* The pages on which people look after their own account and resumes.     *)
(* They share no state, so they are explored side by side: a behaviour     *)
(* picks one of them and stays there, while the others rest in one of      *)
(* their initial states.                                                   *)
(***************************************************************************)
EXTENDS EmailedLinks, AccountForms, AccountSettings, Appearance,
        ActiveSessions, ResumeEditor, CareerKnowledge, ApplicationList

VARIABLE screen

\* A value that a .cfg cannot write.
MCSections == [x \in {"short", "long"} |-> IF x = "long" THEN 2 ELSE 1]

OwnInit ==
    /\ screen \in {"links", "forms", "settings", "look", "devices", "builder",
                   "knowledge", "list"}
    /\ LinksInit
    /\ screen # "links" => kind = "verify"
    /\ FormsInit
    /\ screen # "forms" => form = "login"
    /\ SettingsInit
    /\ screen # "settings" => name = CHOOSE n \in Names : TRUE
    /\ LookInit
    /\ screen # "look" => <<brand, saved, mode>> = <<Default, Default, English>>
    /\ DevicesInit
    /\ screen # "devices" => live = {ThisDevice}
    /\ BuilderInit
    /\ KnowledgeInit
    /\ screen # "knowledge" => kbSeen = NoMarkdown
    /\ ListInit

Resting(s, vars) == IF screen = s THEN TRUE ELSE UNCHANGED vars

OwnNext ==
    /\ UNCHANGED screen
    /\ Resting("links", linkVars)
    /\ Resting("forms", formVars)
    /\ Resting("settings", settingsVars)
    /\ Resting("look", lookVars)
    /\ Resting("devices", deviceVars)
    /\ Resting("builder", builderVars)
    /\ Resting("knowledge", knowledgeVars)
    /\ Resting("list", listVars)
    /\ \/ screen = "links" /\ LinksNext
       \/ screen = "forms" /\ FormsNext
       \/ screen = "settings" /\ SettingsNext
       \/ screen = "look" /\ LookNext
       \/ screen = "devices" /\ DevicesNext
       \/ screen = "builder" /\ BuilderNext
       \/ screen = "knowledge" /\ KnowledgeNext
       \/ screen = "list" /\ ListNext

OwnSpec ==
    OwnInit /\ [][OwnNext]_<<screen, linkVars, formVars, settingsVars, lookVars,
        deviceVars, builderVars, knowledgeVars, listVars>>

\* The inductive invariants of the proofs about these pages: TLC finds them
\* invariants of this instance when they are named in the .cfg beside the others.
OwnPagesInv == LinksInv /\ FormsInv /\ KnowledgeInv /\ DevicesInv /\ LookInv
               /\ BuilderInv /\ ListInv
====
