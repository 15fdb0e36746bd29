---------------------------- MODULE PolicyEditor ----------------------------
(***************************************************************************)
(* One policy seen through the dialogs of the policies page: its details   *)
(* with the history and the rollback, the embedded editor, and the dialog  *)
(* that creates a policy with the same form.                               *)
(*                                                                         *)
(* The editor saves in two ways.  A toggled action is sent at once and     *)
(* offers an undo (policiesPageHandlers.ts); everything else waits for     *)
(* Save, which sends the whole form.  Both work on the copy of the policy  *)
(* the dialog was opened with, which nothing refreshes.                    *)
(*                                                                         *)
(* Name, description and conditions are one field, the text.               *)
(***************************************************************************)
EXTENDS Naturals, Sequences

CONSTANTS
    Actions, \* actions of the permission catalog
    Types,   \* resource types
    TypeOf,  \* the resource type of each action
    Texts,   \* what can be typed; NoText is the empty field
    NoText,
    MaxClicks, \* bound: steps of the administrator
    MaxWrites  \* bound: updates by other administrators

ASSUME EditorAssumption ==
    /\ TypeOf \in [Actions -> Types] /\ Types # {}
    /\ {MaxClicks, MaxWrites} \subseteq Nat

VARIABLES
    policy,     \* the row in the database
    past,       \* definitions in its history
    listed,     \* the copy in the page's list
    listDue,    \* the list was invalidated and has not answered
    dialog,     \* "none", "details", "edit", "create", or one of these two
                \* asking whether to discard: "askEdit", "askCreate"
    viewing,    \* viewingPolicy: the copy the dialog was opened with
    policyForm, \* the form's fields
    snapshot,   \* initialSnapshot
    autosaves,  \* requests of actionUpdateMutation, oldest first
    undos,      \* undo buttons of the toasts on screen
    saveSent,   \* the request of updateMutation or createMutation
    rollback,   \* the rollback dialog and its request
    clicks, writes,
    agreed \* history: the form alone has written actions, one at a time

editorVars == <<policy, past, listed, listDue, dialog, viewing, policyForm, snapshot,
                autosaves, undos, saveSent, rollback, clicks, writes, agreed>>
serverSide == <<policy, past, writes>>
editorSends == <<autosaves, undos, saveSent, rollback>>

Definitions == [text : Texts, type : Types, acts : SUBSET Actions]
PolicyForms == [text : Texts \cup {NoText}, type : Types, acts : SUBSET Actions]
Restores == [acts : SUBSET Actions, type : Types, base : PolicyForms]
Autosaves == [at : {"sent", "ok", "failed"}, acts : SUBSET Actions, onError : Restores,
              undo : BOOLEAN, heard : BOOLEAN, mounted : BOOLEAN]
Undos == [kind : {"action", "type"}, back : Restores, again : Restores,
          mounted : BOOLEAN]

EditorTypeOK ==
    /\ policy \in Definitions /\ past \subseteq Definitions /\ listed \in Definitions
    /\ listDue \in BOOLEAN /\ agreed \in BOOLEAN
    /\ dialog \in {"none", "details", "edit", "create", "askEdit", "askCreate"}
    /\ viewing \in Definitions /\ policyForm \in PolicyForms /\ snapshot \in PolicyForms
    /\ autosaves \in Seq(Autosaves) /\ undos \subseteq Undos
    /\ saveSent \in [at : {"none", "sent", "ok", "failed"}, new : BOOLEAN, def : PolicyForms]
    /\ rollback \in [at : {"none", "confirm", "sent"},
                     to : Definitions]
    /\ clicks \in 0..MaxClicks /\ writes \in 0..MaxWrites

Blank == [text |-> NoText, type |-> CHOOSE t \in Types : TRUE, acts |-> {}]
NoSave == [at |-> "none", new |-> FALSE, def |-> Blank]
NoRollback == [at |-> "none", to |-> viewing]

EditorInit ==
    /\ policy \in {[text |-> x, type |-> TypeOf[a], acts |-> {a}] :
                      x \in Texts, a \in Actions}
    /\ past = {policy} /\ listed = policy /\ listDue = FALSE
    /\ dialog = "none" /\ viewing = policy /\ policyForm = Blank /\ snapshot = Blank
    /\ autosaves = <<>> /\ undos = {} /\ saveSent = NoSave
    /\ rollback = [at |-> "none", to |-> policy]
    /\ clicks = 0 /\ writes = 0 /\ agreed = FALSE

-----------------------------------------------------------------------------
(* The form *)

Click == clicks < MaxClicks /\ clicks' = clicks + 1

\* An unmounted form ignores what a late callback or an undo sets.
Unmounted(sent) == [i \in DOMAIN sent |-> [sent[i] EXCEPT !.mounted = FALSE]]
Unmount ==
    /\ autosaves' = Unmounted(autosaves)
    /\ undos' = {[u EXCEPT !.mounted = FALSE] : u \in undos}
    /\ agreed' = FALSE

\* Mounting the form starts it from the copy the dialog holds.
Mount(def) ==
    /\ policyForm' = def /\ snapshot' = def
    /\ agreed' = (def.acts = policy.acts /\ autosaves = <<>>)

isDirty == policyForm # snapshot
isSaving == saveSent.at = "sent"
canSave == policyForm.text # NoText /\ policyForm.acts # {}
Editing == dialog \in {"edit", "create"}

\* The grid offers the actions of the chosen resource type, and toggles one.
actionOptions == {a \in Actions : TypeOf[a] = policyForm.type}
PolicyActionGrid(a) ==
    IF a \in policyForm.acts THEN policyForm.acts \ {a} ELSE policyForm.acts \cup {a}

\* View or Edit on a policy's card.
openView ==
    /\ Click /\ dialog = "none"
    /\ dialog' = "details" /\ viewing' = listed
    /\ UNCHANGED <<serverSide, listed, listDue, policyForm, snapshot, editorSends,
                   agreed>>

openEditForm ==
    /\ Click /\ dialog = "none"
    /\ dialog' = "edit" /\ viewing' = listed /\ Mount(listed)
    /\ UNCHANGED <<serverSide, listed, listDue, editorSends>>

openCreateForm ==
    /\ Click /\ dialog = "none"
    /\ dialog' = "create" /\ policyForm' = Blank /\ snapshot' = Blank
    /\ UNCHANGED <<serverSide, listed, listDue, viewing, editorSends, agreed>>

\* The dialog's two tabs: leaving the editor unmounts it, coming back mounts
\* it again from the copy the dialog was opened with.
PolicyDialogTabs ==
    /\ Click
    /\ \/ /\ dialog = "details" /\ rollback.at = "none"
          /\ dialog' = "edit" /\ Mount(viewing) /\ rollback' = NoRollback
          /\ UNCHANGED <<autosaves, undos>>
       \/ /\ dialog = "edit"
          /\ dialog' = "details" /\ Unmount
          /\ UNCHANGED <<policyForm, snapshot, rollback>>
    /\ UNCHANGED <<serverSide, listed, listDue, viewing, saveSent>>

\* The X of the details dialog, the Escape key, or a click beside it: no
\* question is asked, whatever the form holds.
PolicyDetailsDialog ==
    /\ Click /\ dialog \in {"details", "edit"}
    /\ rollback.at = "none"
    /\ dialog' = "none" /\ Unmount /\ rollback' = NoRollback
    /\ UNCHANGED <<serverSide, listed, listDue, viewing, policyForm, snapshot,
                   saveSent>>

Leaves == dialog' = "none" /\ Unmount

\* Close in the footer (and the X of the create dialog).
requestClose ==
    /\ Click /\ Editing /\ (dialog = "edit" => ~isSaving)
    /\ IF isDirty
       THEN /\ dialog' = IF dialog = "edit" THEN "askEdit" ELSE "askCreate"
            /\ UNCHANGED <<autosaves, undos, agreed>>
       ELSE Leaves
    /\ UNCHANGED <<serverSide, listed, listDue, viewing, policyForm, snapshot,
                   saveSent, rollback>>

\* The answer to "Discard unsaved changes?".
PolicyFormDialog ==
    /\ Click /\ dialog \in {"askEdit", "askCreate"}
    /\ \/ Leaves
       \/ /\ dialog' = IF dialog = "askEdit" THEN "edit" ELSE "create"
          /\ UNCHANGED <<autosaves, undos, agreed>>
    /\ UNCHANGED <<serverSide, listed, listDue, viewing, policyForm, snapshot,
                   saveSent, rollback>>

PolicyFormFields(x) ==
    /\ Click /\ Editing /\ x # policyForm.text
    /\ policyForm' = [policyForm EXCEPT !.text = x]
    /\ UNCHANGED <<serverSide, listed, listDue, dialog, viewing, snapshot,
                   editorSends, agreed>>

\* A change of resource type drops the actions of the old one and offers to
\* bring them back.
handleResourceTypeChange(t) ==
    LET kept == {a \in policyForm.acts : TypeOf[a] = t}
        back == [acts |-> policyForm.acts, type |-> policyForm.type, base |-> snapshot]
    IN /\ Click /\ Editing /\ t # policyForm.type
       /\ policyForm' = [policyForm EXCEPT !.type = t, !.acts = kept]
       /\ undos' = IF kept = policyForm.acts THEN undos
                   ELSE undos \cup {[kind |-> "type", back |-> back, again |-> back,
                                     mounted |-> TRUE]}
       /\ agreed' = FALSE
       /\ UNCHANGED <<serverSide, listed, listDue, dialog, viewing, snapshot,
                      autosaves, saveSent, rollback>>

-----------------------------------------------------------------------------
(* Actions are saved as they are toggled *)

\* A mutation hook reports only its latest call to that call's callbacks.
MutateAction(request) ==
    autosaves' = Append([i \in DOMAIN autosaves |->
                           [autosaves[i] EXCEPT !.heard = FALSE]], request)

handleActionsChange(a) ==
    LET next == PolicyActionGrid(a)
        before == [acts |-> policyForm.acts, type |-> policyForm.type, base |-> snapshot]
    IN /\ Click /\ Editing /\ a \in actionOptions
       /\ policyForm' = [policyForm EXCEPT !.acts = next]
       /\ snapshot' = policyForm'
       /\ IF dialog = "create" THEN UNCHANGED <<autosaves, agreed>>
          ELSE /\ MutateAction([at |-> "sent", acts |-> next, onError |-> before,
                          undo |-> FALSE, heard |-> TRUE, mounted |-> TRUE])
               /\ agreed' = (agreed /\ autosaves = <<>>)
       /\ UNCHANGED <<serverSide, listed, listDue, dialog, viewing, undos,
                      saveSent, rollback>>

\* As if a rollback restored the snapshot and forgot the ticks.
RestoreSnapshot(r, mounted) ==
    snapshot' = (IF mounted THEN r.base ELSE snapshot) /\ UNCHANGED policyForm

\* setActions and setInitialSnapshot of a rollback or of an apply.
Restore(r, mounted) ==
    IF mounted
    THEN policyForm' = [policyForm EXCEPT !.acts = r.acts] /\ snapshot' = r.base
    ELSE UNCHANGED <<policyForm, snapshot>>

UndoEdit(u) ==
    /\ Click /\ undos' = undos \ {u}
    /\ \/ /\ u.kind = "type"
          /\ policyForm' = IF u.mounted
                     THEN [policyForm EXCEPT !.acts = u.back.acts, !.type = u.back.type]
                     ELSE policyForm
          /\ UNCHANGED <<snapshot, autosaves, agreed>>
       \/ /\ u.kind = "action"
          /\ Restore(u.back, u.mounted)
          /\ MutateAction([at |-> "sent", acts |-> u.back.acts, onError |-> u.again,
                     undo |-> TRUE, heard |-> TRUE, mounted |-> u.mounted])
          /\ agreed' = (agreed /\ autosaves = <<>> /\ u.mounted
                        /\ u.again.acts = policyForm.acts)
    /\ UNCHANGED <<serverSide, listed, listDue, dialog, viewing, saveSent, rollback>>

ToastGoes(u) ==
    /\ undos' = undos \ {u}
    /\ UNCHANGED <<serverSide, listed, listDue, dialog, viewing, policyForm,
                   snapshot, autosaves, saveSent, rollback, clicks, agreed>>

\* The server writes what the request carries; requests in flight together
\* may arrive in any order.
Writes(def) == policy' = def /\ past' = past \cup {def} /\ UNCHANGED writes

update_policy(i) ==
    /\ autosaves[i].at = "sent"
    /\ \/ /\ Writes([policy EXCEPT !.acts = autosaves[i].acts])
          /\ autosaves' = [autosaves EXCEPT ![i].at = "ok"]
       \/ /\ autosaves' = [autosaves EXCEPT ![i].at = "failed"]
          /\ UNCHANGED serverSide
    /\ UNCHANGED <<listed, listDue, dialog, viewing, policyForm, snapshot, undos,
                   saveSent, rollback, clicks, agreed>>

Without(s, i) == SubSeq(s, 1, i - 1) \o SubSeq(s, i + 1, Len(s))

\* Its callbacks: the toast with the undo, or the rollback of the form.
AutosaveEnds(i) ==
    LET r == autosaves[i]
        mine == r.heard /\ r.mounted
    IN /\ r.at # "sent"
       /\ autosaves' = Without(autosaves, i)
       /\ listDue' = (listDue \/ r.at = "ok")
       /\ undos' = IF r.at = "ok" /\ r.heard /\ ~r.undo
                   THEN undos \cup {[kind |-> "action", back |-> r.onError,
                                     again |-> [acts |-> r.acts, type |-> r.onError.type,
                                                base |-> [snapshot EXCEPT !.acts = r.acts]],
                                     mounted |-> r.mounted]}
                   ELSE undos
       /\ IF r.at = "failed" THEN Restore(r.onError, mine)
          ELSE UNCHANGED <<policyForm, snapshot>>
       /\ UNCHANGED <<serverSide, listed, dialog, viewing, saveSent, rollback,
                      clicks, agreed>>

-----------------------------------------------------------------------------
(* Save, create and roll back *)

handleSubmit ==
    /\ Click /\ Editing /\ canSave /\ ~isSaving
    /\ saveSent' = [at |-> "sent", new |-> dialog = "create", def |-> policyForm]
    /\ UNCHANGED <<serverSide, listed, listDue, dialog, viewing, policyForm,
                   snapshot, autosaves, undos, rollback, agreed>>

SaveAnswered ==
    /\ saveSent.at = "sent"
    /\ \/ saveSent.new /\ saveSent' = [saveSent EXCEPT !.at = "ok"] /\ UNCHANGED serverSide
       \/ ~saveSent.new /\ saveSent' = [saveSent EXCEPT !.at = "ok"] /\ Writes(saveSent.def)
       \/ saveSent' = [saveSent EXCEPT !.at = "failed"] /\ UNCHANGED serverSide
    /\ agreed' = (agreed /\ policy'.acts = policy.acts)
    /\ UNCHANGED <<listed, listDue, dialog, viewing, policyForm, snapshot,
                   autosaves, undos, rollback, clicks>>

\* Success closes the form, or any dialog that is open by now.
handleFormSubmit ==
    /\ saveSent.at \in {"ok", "failed"}
    /\ saveSent' = NoSave
    /\ IF saveSent.at = "ok"
       THEN /\ listDue' = TRUE
            /\ dialog' = "none" /\ Unmount
            /\ rollback' = IF rollback.at = "sent" THEN rollback ELSE NoRollback
       ELSE UNCHANGED <<listDue, dialog, autosaves, undos, agreed, rollback>>
    /\ UNCHANGED <<serverSide, listed, viewing, policyForm, snapshot, clicks>>

\* Rollback on an entry of the history, its confirmation, and its request.
PolicyHistorySection(def) ==
    /\ Click /\ dialog = "details"
    /\ \/ rollback.at = "none" /\ rollback' = [at |-> "confirm", to |-> def]
       \/ rollback.at = "confirm" /\ rollback' = [rollback EXCEPT !.at = "sent"]
       \/ rollback.at = "confirm" /\ rollback' = NoRollback
    /\ UNCHANGED <<serverSide, listed, listDue, dialog, viewing, policyForm,
                   snapshot, autosaves, undos, saveSent, agreed>>

\* A failure keeps the confirmation open, with the error, if it still is.
rollback_policy ==
    /\ rollback.at = "sent"
    /\ \/ Writes(rollback.to) /\ rollback' = NoRollback /\ listDue' = TRUE
       \/ /\ rollback' = IF dialog = "details" THEN [rollback EXCEPT !.at = "confirm"]
                          ELSE NoRollback
          /\ UNCHANGED <<serverSide, listDue>>
    /\ agreed' = (agreed /\ policy'.acts = policy.acts)
    /\ UNCHANGED <<listed, dialog, viewing, policyForm, snapshot, autosaves, undos,
                   saveSent, clicks>>

-----------------------------------------------------------------------------
(* The list, and other administrators *)

usePoliciesListQuery ==
    /\ listDue /\ listDue' = FALSE /\ listed' = policy
    /\ UNCHANGED <<serverSide, dialog, viewing, policyForm, snapshot, editorSends,
                   clicks, agreed>>

OthersWrite(def) ==
    /\ writes < MaxWrites /\ writes' = writes + 1
    /\ policy' = def /\ past' = past \cup {def}
    /\ agreed' = (agreed /\ def.acts = policy.acts)
    /\ UNCHANGED <<listed, listDue, dialog, viewing, policyForm, snapshot,
                   editorSends, clicks>>

EditorNext ==
    \/ openView \/ openEditForm \/ openCreateForm
    \/ PolicyDialogTabs \/ PolicyDetailsDialog \/ requestClose
    \/ PolicyFormDialog
    \/ \E x \in Texts : PolicyFormFields(x)
    \/ \E t \in Types : handleResourceTypeChange(t)
    \/ \E a \in Actions : handleActionsChange(a)
    \/ \E u \in undos : UndoEdit(u) \/ ToastGoes(u)
    \/ \E i \in DOMAIN autosaves : update_policy(i) \/ AutosaveEnds(i)
    \/ handleSubmit \/ SaveAnswered \/ handleFormSubmit
    \/ \E def \in past : PolicyHistorySection(def)
    \/ rollback_policy \/ usePoliciesListQuery
    \/ \E a \in Actions : OthersWrite([policy EXCEPT !.acts = {a}])

EditorSpec == EditorInit /\ [][EditorNext]_editorVars

-----------------------------------------------------------------------------
(* Properties *)

\* As long as toggles are made one at a time, only the latest is undone and
\* nobody else writes, an editor with nothing in flight shows the actions the
\* server has: failed toggles, undone toggles and failed undos lead back to it.
QuietFormAgrees ==
    dialog \in {"edit", "askEdit"} /\ agreed /\ autosaves = <<>>
    => policyForm.acts = policy.acts

\* Close asks before it discards a text that was typed and not saved.
UnsavedTextIsAsked ==
    [][requestClose /\ dialog' = "none" /\ dialog = "edit"
       => policyForm.text = viewing.text]_editorVars

\* What the editor promises.
EditorSafe == EditorTypeOK /\ QuietFormAgrees

-----------------------------------------------------------------------------
(* Why they hold *)

\* What was sent has a text.
SavesAreComplete == saveSent.at = "sent" => saveSent.def \in Definitions

\* Nothing that is still to come will set the fields of a form that is closed.
ClosedFormIsDeaf ==
    dialog \in {"none", "details"} =>
        /\ \A i \in DOMAIN autosaves : ~autosaves[i].mounted
        /\ \A u \in undos : ~u.mounted

\* One request at a time: the form shows what the server has or is being asked
\* to have, and a failure would bring back what the server has kept.
OneRequestAtATime ==
    agreed =>
        /\ dialog \in {"edit", "askEdit"}
        /\ \A u \in undos : u.mounted => u.kind = "action"
        /\ autosaves = <<>> => policyForm.acts = policy.acts
        /\ autosaves # <<>> =>
              /\ Len(autosaves) = 1
              /\ autosaves[1].heard /\ autosaves[1].mounted
              /\ autosaves[1].acts = policyForm.acts
              /\ policy.acts = IF autosaves[1].at = "ok" THEN autosaves[1].acts
                               ELSE autosaves[1].onError.acts

EditorInv ==
    EditorSafe /\ SavesAreComplete /\ ClosedFormIsDeaf /\ OneRequestAtATime
=============================================================================
