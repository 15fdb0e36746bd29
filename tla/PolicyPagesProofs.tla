------------------------- MODULE PolicyPagesProofs -------------------------
(***************************************************************************)
(* Proofs about the policies page and its editor, for every set of         *)
(* policies, actions and texts and any number of requests under way.       *)
(***************************************************************************)
EXTENDS PolicyEditor, PolicyCards, FiniteSetTheorems, SequenceTheorems,
        WellFoundedInduction, TLAPS

---------------------------------------------------------------------------
(* Sequences *)

LEMMA Indexed ==
  ASSUME NEW S, NEW s \in Seq(S)
  PROVE  /\ Len(s) \in Nat /\ DOMAIN s = 1..Len(s)
         /\ \A i \in DOMAIN s : s[i] \in S
         /\ s = <<>> <=> Len(s) = 0
<1>1. /\ Len(s) \in Nat /\ DOMAIN s = 1..Len(s) /\ s \in [1..Len(s) -> S]
  BY LenProperties
<1>2. s = <<>> <=> Len(s) = 0
  BY <1>1, EmptySeq
<1> QED BY <1>1, <1>2

(* What is left when one item is taken out.                                *)
LEMMA LeftOut ==
  ASSUME NEW S, NEW s \in Seq(S), NEW i \in DOMAIN s,
         NEW w, w = SubSeq(s, 1, i - 1) \o SubSeq(s, i + 1, Len(s))
  PROVE  /\ w \in Seq(S) /\ Len(s) \in Nat /\ Len(w) = Len(s) - 1
         /\ DOMAIN w = 1..(Len(s) - 1) /\ i \in 1..Len(s)
         /\ \A j \in 1..(Len(s) - 1) : /\ j < i => w[j] = s[j]
                                       /\ ~(j < i) => w[j] = s[j + 1]
<1>1. PICK n \in Nat : n = Len(s) /\ DOMAIN s = 1..n /\ \A k \in 1..n : s[k] \in S
  BY Indexed
<1>2. i \in 1..n
  BY <1>1
<1>3. PICK front, back : front = SubSeq(s, 1, i - 1) /\ back = SubSeq(s, i + 1, n)
  OBVIOUS
<1>4. /\ front \in Seq(S) /\ Len(front) = (IF 1 <= i - 1 THEN i - 1 ELSE 0)
      /\ \A j \in 1..(i - 1) : front[j] = s[j]
  <2>1. i - 1 \in Int /\ 1 \in Int /\ \A k \in 1..(i - 1) : s[k] \in S
    BY <1>1, <1>2
  <2>2. /\ SubSeq(s, 1, i - 1) \in Seq(S)
        /\ Len(SubSeq(s, 1, i - 1)) = IF 1 <= i - 1 THEN (i - 1) - 1 + 1 ELSE 0
        /\ \A j \in 1..((i - 1) - 1 + 1) : SubSeq(s, 1, i - 1)[j] = s[1 + j - 1]
    BY <2>1, SubSeqProperties
  <2> QED BY <1>2, <1>3, <2>2
<1>5. /\ back \in Seq(S) /\ Len(back) = (IF i + 1 <= n THEN n - i ELSE 0)
      /\ \A j \in 1..(n - i) : back[j] = s[i + j]
  <2>1. i + 1 \in Int /\ n \in Int /\ \A k \in (i + 1)..n : s[k] \in S
    BY <1>1, <1>2
  <2>2. /\ SubSeq(s, i + 1, n) \in Seq(S)
        /\ Len(SubSeq(s, i + 1, n)) = IF i + 1 <= n THEN n - (i + 1) + 1 ELSE 0
        /\ \A j \in 1..(n - (i + 1) + 1) : SubSeq(s, i + 1, n)[j] = s[(i + 1) + j - 1]
    BY <2>1, SubSeqProperties
  <2>3. n - (i + 1) + 1 = n - i /\ i \in Int /\ n \in Int
    BY <1>1, <1>2
  <2>4. \A j \in 1..(n - i) : j \in Int /\ (i + 1) + j - 1 = i + j
    BY <2>3
  <2>5. \A j \in 1..(n - i) : back[j] = s[i + j]
    BY <1>3, <2>2, <2>3, <2>4
  <2>6. Len(back) = (IF i + 1 <= n THEN n - i ELSE 0)
    BY <1>3, <2>2, <2>3
  <2> QED BY <1>3, <2>2, <2>5, <2>6
<1>6. w = front \o back
  BY <1>1, <1>3
<1>7. /\ w \in Seq(S)
      /\ Len(w) = Len(front) + Len(back)
      /\ \A j \in 1..(Len(front) + Len(back)) :
           w[j] = IF j <= Len(front) THEN front[j] ELSE back[j - Len(front)]
  <2>1. /\ front \o back \in Seq(S)
        /\ Len(front \o back) = Len(front) + Len(back)
        /\ \A j \in 1..(Len(front) + Len(back)) :
             (front \o back)[j] = IF j <= Len(front) THEN front[j] ELSE back[j - Len(front)]
    BY <1>4, <1>5, ConcatProperties
  <2> QED BY <1>6, <2>1
<1>8. Len(front) = i - 1 /\ Len(back) = n - i /\ Len(w) = n - 1
  <2>1. i \in Int /\ n \in Int /\ 1 <= i /\ i <= n
    BY <1>1, <1>2
  <2>2. Len(front) = i - 1
    BY <1>4, <2>1
  <2>3. Len(back) = n - i
    BY <1>5, <2>1
  <2>4. (i - 1) + (n - i) = n - 1
    BY <2>1
  <2> QED BY <1>7, <2>2, <2>3, <2>4
<1>9. ASSUME NEW j \in 1..(n - 1) PROVE (j < i => w[j] = s[j]) /\ (~(j < i) => w[j] = s[j + 1])
  <2>1. i \in Int /\ j \in Int /\ n \in Int /\ 1 <= i /\ i <= n /\ 1 <= j /\ j <= n - 1
    BY <1>1, <1>2
  <2>2. (i - 1) + (n - i) = n - 1
    BY <2>1
  <2>3. w[j] = IF j <= i - 1 THEN front[j] ELSE back[j - (i - 1)]
    BY <1>7, <1>8, <2>2
  <2>4. CASE j < i
    <3>1. j <= i - 1 /\ j \in 1..(i - 1)
      BY <2>1, <2>4
    <3> QED BY <1>4, <2>3, <2>4, <3>1
  <2>5. CASE ~(j < i)
    <3>0. PICK a \in Int, b \in Int, m \in Int : a = i /\ b = j /\ m = n
      BY <2>1
    <3>1. ~(j <= i - 1) /\ j - (i - 1) \in 1..(n - i) /\ i + (j - (i - 1)) = j + 1
      <4>1. 1 <= a /\ a <= m /\ 1 <= b /\ b <= m - 1 /\ ~(b < a)
        BY <2>1, <2>5, <3>0
      <4>2. ~(b <= a - 1) /\ b - (a - 1) \in 1..(m - a) /\ a + (b - (a - 1)) = b + 1
        BY <4>1
      <4> QED BY <3>0, <4>2
    <3>2. w[j] = back[j - (i - 1)]
      BY <2>3, <3>1
    <3>3. back[j - (i - 1)] = s[i + (j - (i - 1))]
      BY <1>5, <3>1
    <3> QED BY <2>5, <3>1, <3>2, <3>3
  <2> QED BY <2>4, <2>5
<1>10. DOMAIN w = 1..(n - 1)
  BY <1>7, <1>8, Indexed
<1> QED BY <1>1, <1>2, <1>7, <1>8, <1>9, <1>10


---------------------------------------------------------------------------
(* The policy editor *)

LEMMA EditorTypes ==
  ASSUME EditorInv
  PROVE  /\ policy \in Definitions /\ past \subseteq Definitions /\ listed \in Definitions
         /\ listDue \in BOOLEAN /\ agreed \in BOOLEAN
         /\ dialog \in {"none", "details", "edit", "create", "askEdit", "askCreate"}
         /\ viewing \in Definitions /\ policyForm \in PolicyForms
         /\ snapshot \in PolicyForms
         /\ autosaves \in Seq(Autosaves) /\ undos \subseteq Undos
         /\ saveSent \in [at : {"none", "sent", "ok", "failed"}, new : BOOLEAN,
                          def : PolicyForms]
         /\ rollback \in [at : {"none", "confirm", "sent"}, to : Definitions]
         /\ clicks \in 0..MaxClicks /\ writes \in 0..MaxWrites
BY DEF EditorInv, EditorSafe, EditorTypeOK

LEMMA DefinitionIsForm ==
  ASSUME NEW d \in Definitions
  PROVE  d \in PolicyForms
BY DEF Definitions, PolicyForms

LEMMA BlankIsForm == Blank \in PolicyForms
<1>1. (CHOOSE t \in Types : TRUE) \in Types
  BY EditorAssumption
<1> QED BY <1>1 DEF Blank, PolicyForms

LEMMA NoSaveTyped ==
  /\ NoSave \in [at : {"none", "sent", "ok", "failed"}, new : BOOLEAN, def : PolicyForms]
  /\ NoSave.at = "none"
BY BlankIsForm DEF NoSave

LEMMA ClickCounts ==
  ASSUME EditorInv, Click
  PROVE  clicks' \in 0..MaxClicks
BY EditorTypes, EditorAssumption DEF Click

(* A restored state has the fields of a form.                              *)
LEMMA RestoreTyped ==
  ASSUME EditorInv, NEW r \in Restores, NEW m \in BOOLEAN, Restore(r, m)
  PROVE  policyForm' \in PolicyForms /\ snapshot' \in PolicyForms
<1>1. CASE m
  <2>1. policyForm' = [policyForm EXCEPT !.acts = r.acts] /\ snapshot' = r.base
    BY <1>1 DEF Restore
  <2>2. r.acts \in SUBSET Actions /\ r.base \in PolicyForms
    BY DEF Restores
  <2> QED BY <2>1, <2>2, EditorTypes DEF PolicyForms
<1>2. CASE ~m
  BY <1>2, EditorTypes DEF Restore
<1> QED BY <1>1, <1>2

(* A field of each request is set.                                         *)
LEMMA MarkedAutosaves ==
  ASSUME NEW s \in Seq(Autosaves)
  PROVE  /\ [i \in DOMAIN s |-> [s[i] EXCEPT !.heard = FALSE]] \in Seq(Autosaves)
         /\ Len([i \in DOMAIN s |-> [s[i] EXCEPT !.heard = FALSE]]) = Len(s)
         /\ Unmounted(s) \in Seq(Autosaves) /\ Len(Unmounted(s)) = Len(s)
         /\ \A i \in DOMAIN Unmounted(s) : ~Unmounted(s)[i].mounted
         /\ Unmounted(s) = <<>> <=> s = <<>>
<1>1. PICK n \in Nat : n = Len(s) /\ DOMAIN s = 1..n /\ \A i \in 1..n : s[i] \in Autosaves
  BY Indexed
<1>2. \A i \in 1..n : /\ [s[i] EXCEPT !.heard = FALSE] \in Autosaves
                      /\ [s[i] EXCEPT !.mounted = FALSE] \in Autosaves
                      /\ [s[i] EXCEPT !.mounted = FALSE].mounted = FALSE
  BY <1>1 DEF Autosaves
<1>3. PICK a, b : /\ a = [i \in 1..n |-> [s[i] EXCEPT !.heard = FALSE]]
                  /\ b = [i \in 1..n |-> [s[i] EXCEPT !.mounted = FALSE]]
  OBVIOUS
<1>4. a \in [1..n -> Autosaves] /\ b \in [1..n -> Autosaves]
  BY <1>2, <1>3
<1>5. a \in Seq(Autosaves) /\ b \in Seq(Autosaves) /\ Len(a) = n /\ Len(b) = n
  BY <1>4
<1>6. b = Unmounted(s) /\ a = [i \in DOMAIN s |-> [s[i] EXCEPT !.heard = FALSE]]
  BY <1>1, <1>3 DEF Unmounted
<1>7. \A i \in 1..n : ~b[i].mounted
  BY <1>2, <1>3
<1>8. DOMAIN b = 1..n /\ (b = <<>> <=> n = 0) /\ (s = <<>> <=> n = 0)
  BY <1>1, <1>3, <1>5, Indexed
<1> QED BY <1>1, <1>5, <1>6, <1>7, <1>8

LEMMA SentLast ==
  ASSUME NEW s \in Seq(Autosaves), NEW r \in Autosaves, autosaves = s, MutateAction(r)
  PROVE  /\ autosaves' \in Seq(Autosaves) /\ autosaves' # <<>>
         /\ s = <<>> => autosaves' = <<r>>
         /\ (\A i \in DOMAIN s : ~s[i].mounted) /\ ~r.mounted
              => \A i \in DOMAIN autosaves' : ~autosaves'[i].mounted
<1>1. PICK a : /\ a = [i \in DOMAIN s |-> [s[i] EXCEPT !.heard = FALSE]]
               /\ a \in Seq(Autosaves) /\ Len(a) = Len(s)
  BY MarkedAutosaves
<1>2. autosaves' = Append(a, r)
  BY <1>1 DEF MutateAction
<1>3. /\ Append(a, r) \in Seq(Autosaves) /\ Len(Append(a, r)) = Len(a) + 1
      /\ \A i \in 1..Len(a) : Append(a, r)[i] = a[i]
      /\ Append(a, r)[Len(a) + 1] = r
  BY <1>1, AppendProperties
<1>4. Len(a) \in Nat /\ DOMAIN Append(a, r) = 1..(Len(a) + 1) /\ DOMAIN s = 1..Len(a)
  BY <1>1, <1>3, Indexed
<1>5. Append(a, r) # <<>>
  BY <1>3, <1>4, Indexed
<1>6. ASSUME s = <<>> PROVE Append(a, r) = <<r>>
  <2>1. a = <<>>
    BY <1>1, <1>6, Indexed
  <2> QED BY <2>1
<1>7. ASSUME \A i \in DOMAIN s : ~s[i].mounted, ~r.mounted
      PROVE  \A i \in DOMAIN Append(a, r) : ~Append(a, r)[i].mounted
  <2>1. \A i \in 1..Len(a) : s[i] \in Autosaves /\ a[i] = [s[i] EXCEPT !.heard = FALSE]
    BY <1>1, <1>4, Indexed
  <2>2. \A i \in 1..Len(a) : a[i].mounted = s[i].mounted
    BY <2>1 DEF Autosaves
  <2>3. \A i \in 1..Len(a) : ~a[i].mounted
    BY <1>4, <1>7, <2>2
  <2>4. \A i \in 1..(Len(a) + 1) : i \in 1..Len(a) \/ i = Len(a) + 1
    BY <1>4
  <2> QED BY <1>3, <1>4, <1>7, <2>3, <2>4
<1> QED BY <1>2, <1>3, <1>5, <1>6, <1>7

LEMMA AutosaveLeftOut ==
  ASSUME NEW s \in Seq(Autosaves), NEW i \in DOMAIN s
  PROVE  /\ Without(s, i) \in Seq(Autosaves)
         /\ Len(s) = 1 => Without(s, i) = <<>>
         /\ \A j \in DOMAIN Without(s, i) : \E k \in DOMAIN s : Without(s, i)[j] = s[k]
<1>1. PICK w : w = Without(s, i)
  OBVIOUS
<1>2. w = SubSeq(s, 1, i - 1) \o SubSeq(s, i + 1, Len(s))
  BY <1>1 DEF Without
<1>3. /\ w \in Seq(Autosaves) /\ Len(s) \in Nat /\ Len(w) = Len(s) - 1
      /\ DOMAIN w = 1..(Len(s) - 1) /\ i \in 1..Len(s)
      /\ \A j \in 1..(Len(s) - 1) : /\ j < i => w[j] = s[j]
                                    /\ ~(j < i) => w[j] = s[j + 1]
  BY <1>2, LeftOut
<1>4. \A j \in 1..(Len(s) - 1) : j \in 1..Len(s) /\ j + 1 \in 1..Len(s)
  BY <1>3
<1>5. DOMAIN s = 1..Len(s)
  BY Indexed
<1>6. Len(s) = 1 => w = <<>>
  BY <1>3, Indexed
<1> QED BY <1>1, <1>3, <1>4, <1>5, <1>6

LEMMA EditorInitInv == EditorInit => EditorInv
<1> SUFFICES ASSUME EditorInit PROVE EditorInv
  OBVIOUS
<1>1. policy \in Definitions
  BY EditorAssumption DEF EditorInit, Definitions
<1>2. 0 \in 0..MaxClicks /\ 0 \in 0..MaxWrites
  BY EditorAssumption
<1>3. /\ policyForm \in PolicyForms /\ snapshot \in PolicyForms
      /\ saveSent \in [at : {"none", "sent", "ok", "failed"}, new : BOOLEAN,
                       def : PolicyForms]
      /\ saveSent.at = "none"
  BY BlankIsForm, NoSaveTyped DEF EditorInit
<1>4. rollback \in [at : {"none", "confirm", "sent"}, to : Definitions]
  BY <1>1 DEF EditorInit
<1>5. autosaves \in Seq(Autosaves) /\ DOMAIN autosaves = {}
  BY EmptySeq, Indexed DEF EditorInit
<1>6. EditorTypeOK
  BY <1>1, <1>2, <1>3, <1>4, <1>5 DEF EditorInit, EditorTypeOK
<1>7. QuietFormAgrees /\ SavesAreComplete /\ ClosedFormIsDeaf /\ OneRequestAtATime
  BY <1>3, <1>5
  DEF EditorInit, QuietFormAgrees, SavesAreComplete, ClosedFormIsDeaf, OneRequestAtATime
<1> QED BY <1>6, <1>7 DEF EditorInv, EditorSafe

(* A form that shows what the server has, and of which nothing is sent.    *)
LEMMA QuietFromOne ==
  ASSUME OneRequestAtATime
  PROVE  QuietFormAgrees
BY DEF OneRequestAtATime, QuietFormAgrees

(* Steps that leave the form, the requests and what the server has of it,  *)
(* or say that they do not.                                                *)
LEMMA EditorKept ==
  ASSUME EditorInv, EditorTypeOK', SavesAreComplete', autosaves' = autosaves,
         undos' \subseteq undos,
         agreed' => /\ agreed /\ policy'.acts = policy.acts
                    /\ policyForm'.acts = policyForm.acts
                    /\ dialog' \in {"edit", "askEdit"},
         dialog' \in {"none", "details"} => dialog \in {"none", "details"}
  PROVE  EditorInv'
<1>1. ClosedFormIsDeaf'
  BY DEF EditorInv, ClosedFormIsDeaf
<1>2. OneRequestAtATime'
  BY DEF EditorInv, OneRequestAtATime
<1>3. QuietFormAgrees'
  BY <1>2 DEF OneRequestAtATime, QuietFormAgrees
<1> QED BY <1>1, <1>2, <1>3 DEF EditorInv, EditorSafe

LEMMA UnmountTyped ==
  ASSUME EditorInv, Unmount
  PROVE  /\ autosaves' \in Seq(Autosaves) /\ undos' \subseteq Undos /\ agreed' = FALSE
         /\ \A i \in DOMAIN autosaves' : ~autosaves'[i].mounted
         /\ \A u \in undos' : ~u.mounted
<1>1. /\ autosaves' = Unmounted(autosaves) /\ agreed' = FALSE
      /\ undos' = {[u EXCEPT !.mounted = FALSE] : u \in undos}
  BY DEF Unmount
<1>2. autosaves \in Seq(Autosaves) /\ undos \subseteq Undos
  BY EditorTypes
<1>3. \A u \in undos : /\ [u EXCEPT !.mounted = FALSE] \in Undos
                       /\ ~[u EXCEPT !.mounted = FALSE].mounted
  BY <1>2 DEF Undos
<1> QED BY <1>1, <1>2, <1>3, MarkedAutosaves

(* The form goes, and its callbacks with it.                               *)
LEMMA EditorUnmounts ==
  ASSUME EditorInv, Unmount, EditorTypeOK', SavesAreComplete'
  PROVE  EditorInv'
<1>1. ClosedFormIsDeaf' /\ OneRequestAtATime' /\ QuietFormAgrees'
  BY UnmountTyped DEF ClosedFormIsDeaf, OneRequestAtATime, QuietFormAgrees
<1> QED BY <1>1 DEF EditorInv, EditorSafe

(* The form comes, with what the dialog's copy says.                       *)
LEMMA EditorMounts ==
  ASSUME EditorInv, NEW def \in Definitions, Mount(def), EditorTypeOK', SavesAreComplete',
         UNCHANGED <<policy, autosaves, undos>>, dialog \in {"none", "details"},
         dialog' = "edit"
  PROVE  EditorInv'
<1>1. policyForm' = def /\ agreed' = (def.acts = policy.acts /\ autosaves = <<>>)
  BY DEF Mount
<1>2. \A u \in undos : ~u.mounted
  BY DEF EditorInv, ClosedFormIsDeaf
<1>3. ClosedFormIsDeaf' /\ OneRequestAtATime' /\ QuietFormAgrees'
  BY <1>1, <1>2 DEF ClosedFormIsDeaf, OneRequestAtATime, QuietFormAgrees
<1> QED BY <1>3 DEF EditorInv, EditorSafe

(* Dialogs, and steps of the server and of others.                         *)
LEMMA EditorOpenInv ==
  ASSUME EditorInv, openView \/ openCreateForm \/ openEditForm
  PROVE  EditorInv'
<1>1. clicks' \in 0..MaxClicks
  BY ClickCounts DEF openView, openCreateForm, openEditForm
<1>2. /\ UNCHANGED <<policy, past, writes, listed, listDue, autosaves, undos, saveSent,
                    rollback>>
      /\ dialog = "none"
  BY DEF openView, openCreateForm, openEditForm, serverSide, editorSends
<1>3. SavesAreComplete'
  BY <1>2 DEF EditorInv, SavesAreComplete
<1>4. ~agreed
  BY <1>2 DEF EditorInv, OneRequestAtATime
<1>5. CASE openView
  <2>1. /\ dialog' = "details" /\ viewing' = listed
        /\ UNCHANGED <<policyForm, snapshot, agreed>>
    BY <1>5 DEF openView
  <2>2. EditorTypeOK'
    BY <1>1, <1>2, <2>1, EditorTypes DEF EditorTypeOK
  <2> QED BY <1>2, <1>3, <1>4, <2>1, <2>2, EditorKept
<1>6. CASE openCreateForm
  <2>1. /\ dialog' = "create" /\ policyForm' = Blank /\ snapshot' = Blank
        /\ UNCHANGED <<viewing, agreed>>
    BY <1>6 DEF openCreateForm
  <2>2. EditorTypeOK'
    BY <1>1, <1>2, <2>1, EditorTypes, BlankIsForm DEF EditorTypeOK
  <2> QED BY <1>2, <1>3, <1>4, <2>1, <2>2, EditorKept
<1>7. CASE openEditForm
  <2>1. dialog' = "edit" /\ viewing' = listed /\ Mount(listed)
    BY <1>7 DEF openEditForm
  <2>2. /\ policyForm' \in PolicyForms /\ snapshot' \in PolicyForms
        /\ agreed' \in BOOLEAN /\ listed \in Definitions
    BY <2>1, EditorTypes, DefinitionIsForm DEF Mount
  <2>3. EditorTypeOK'
    BY <1>1, <1>2, <2>1, <2>2, EditorTypes DEF EditorTypeOK
  <2> QED BY <1>2, <1>3, <2>1, <2>2, <2>3, EditorMounts
<1> QED BY <1>5, <1>6, <1>7

LEMMA NoRollbackTyped ==
  ASSUME EditorInv
  PROVE  NoRollback \in [at : {"none", "confirm", "sent"}, to : Definitions]
BY EditorTypes DEF NoRollback

LEMMA EditorTabsInv ==
  ASSUME EditorInv, PolicyDialogTabs
  PROVE  EditorInv'
<1>1. clicks' \in 0..MaxClicks
  BY ClickCounts DEF PolicyDialogTabs
<1>2. UNCHANGED <<policy, past, writes, listed, listDue, viewing, saveSent>>
  BY DEF PolicyDialogTabs, serverSide
<1>3. SavesAreComplete'
  BY <1>2 DEF EditorInv, SavesAreComplete
<1>4. CASE /\ dialog = "details" /\ dialog' = "edit" /\ Mount(viewing)
           /\ rollback' = NoRollback /\ UNCHANGED <<autosaves, undos>>
  <2>1. /\ policyForm' \in PolicyForms /\ snapshot' \in PolicyForms
        /\ agreed' \in BOOLEAN /\ viewing \in Definitions
    BY <1>4, EditorTypes, DefinitionIsForm DEF Mount
  <2>2. EditorTypeOK'
    BY <1>1, <1>2, <1>4, <2>1, EditorTypes, NoRollbackTyped DEF EditorTypeOK
  <2> QED BY <1>2, <1>3, <1>4, <2>1, <2>2, EditorMounts
<1>5. CASE /\ dialog' = "details" /\ Unmount
           /\ UNCHANGED <<policyForm, snapshot, rollback>>
  <2>1. EditorTypeOK'
    BY <1>1, <1>2, <1>5, EditorTypes, UnmountTyped DEF EditorTypeOK
  <2> QED BY <1>3, <1>5, <2>1, EditorUnmounts
<1> QED BY <1>4, <1>5 DEF PolicyDialogTabs

LEMMA EditorCloseInv ==
  ASSUME EditorInv, PolicyDetailsDialog \/ requestClose \/ PolicyFormDialog
  PROVE  EditorInv'
<1>1. clicks' \in 0..MaxClicks
  BY ClickCounts DEF PolicyDetailsDialog, requestClose, PolicyFormDialog
<1>2. UNCHANGED <<policy, past, writes, listed, listDue, viewing, policyForm, snapshot, saveSent>>
  BY DEF PolicyDetailsDialog, requestClose, PolicyFormDialog, serverSide
<1>3. SavesAreComplete'
  BY <1>2 DEF EditorInv, SavesAreComplete
<1>4. rollback' \in [at : {"none", "confirm", "sent"}, to : Definitions]
  BY EditorTypes, NoRollbackTyped DEF PolicyDetailsDialog, requestClose, PolicyFormDialog
<1>5. CASE Unmount /\ dialog' = "none"
  <2>1. EditorTypeOK'
    BY <1>1, <1>2, <1>4, <1>5, EditorTypes, UnmountTyped DEF EditorTypeOK
  <2> QED BY <1>3, <1>5, <2>1, EditorUnmounts
<1>6. CASE /\ UNCHANGED <<autosaves, undos, agreed>>
           /\ \/ dialog = "edit" /\ dialog' = "askEdit"
              \/ dialog = "create" /\ dialog' = "askCreate"
              \/ dialog = "askEdit" /\ dialog' = "edit"
              \/ dialog = "askCreate" /\ dialog' = "create"
  <2>1. EditorTypeOK'
    BY <1>1, <1>2, <1>4, <1>6, EditorTypes DEF EditorTypeOK
  <2>2. agreed => dialog \in {"edit", "askEdit"}
    BY DEF EditorInv, OneRequestAtATime
  <2>3. agreed' => dialog' \in {"edit", "askEdit"}
    BY <1>6, <2>2
  <2>4. dialog' \notin {"none", "details"}
    BY <1>6
  <2> QED BY <1>2, <1>3, <1>6, <2>1, <2>3, <2>4, EditorKept
<1> QED BY <1>5, <1>6 DEF PolicyDetailsDialog, requestClose, PolicyFormDialog, Leaves, Editing

LEMMA EditorFieldsInv ==
  ASSUME EditorInv, handleSubmit \/ \E x \in Texts : PolicyFormFields(x)
  PROVE  EditorInv'
<1>1. clicks' \in 0..MaxClicks
  BY ClickCounts DEF handleSubmit, PolicyFormFields
<1>2. /\ UNCHANGED <<policy, past, writes, listed, listDue, dialog, viewing, snapshot,
                    autosaves, undos, rollback, agreed>>
      /\ policyForm'.acts = policyForm.acts
  BY EditorTypes DEF handleSubmit, PolicyFormFields, serverSide, editorSends, PolicyForms
<1>3. /\ policyForm' \in PolicyForms
      /\ saveSent' \in [at : {"none", "sent", "ok", "failed"}, new : BOOLEAN,
                        def : PolicyForms]
      /\ SavesAreComplete'
  <2>1. CASE handleSubmit
    <3>1. /\ policyForm' = policyForm
          /\ policyForm.text # NoText
          /\ saveSent' = [at |-> "sent", new |-> dialog = "create", def |-> policyForm]
      BY <2>1 DEF handleSubmit, canSave
    <3>2. policyForm \in Definitions
      BY <3>1, EditorTypes DEF PolicyForms, Definitions
    <3> QED BY <3>1, <3>2, EditorTypes DEF SavesAreComplete
  <2>2. ASSUME NEW x \in Texts, PolicyFormFields(x)
        PROVE  /\ policyForm' \in PolicyForms /\ saveSent' = saveSent
    <3>1. policyForm' = [policyForm EXCEPT !.text = x] /\ saveSent' = saveSent
      BY <2>2 DEF PolicyFormFields, editorSends
    <3> QED BY <3>1, EditorTypes DEF PolicyForms
  <2> QED BY <2>1, <2>2, EditorTypes DEF EditorInv, SavesAreComplete
<1>4. EditorTypeOK'
  BY <1>1, <1>2, <1>3, EditorTypes DEF EditorTypeOK
<1>5. agreed => dialog \in {"edit", "askEdit"}
  BY DEF EditorInv, OneRequestAtATime
<1> QED BY <1>2, <1>3, <1>4, <1>5, EditorKept

(* The history and its rollback, the list, others, and toasts that go.     *)
LEMMA EditorAroundInv ==
  ASSUME EditorInv,
         \/ \E def \in past : PolicyHistorySection(def)
         \/ usePoliciesListQuery \/ \E u \in undos : ToastGoes(u)
  PROVE  EditorInv'
<1>1. clicks' \in 0..MaxClicks
  BY ClickCounts, EditorTypes DEF PolicyHistorySection, usePoliciesListQuery, ToastGoes
<1>2. /\ UNCHANGED <<policy, past, writes, dialog, viewing, policyForm, snapshot, autosaves,
                    saveSent, agreed>>
      /\ undos' \subseteq undos
  BY DEF PolicyHistorySection, usePoliciesListQuery, ToastGoes, serverSide, editorSends
<1>3. listed' \in Definitions /\ listDue' \in BOOLEAN
  BY EditorTypes DEF PolicyHistorySection, usePoliciesListQuery, ToastGoes
<1>4. rollback' \in [at : {"none", "confirm", "sent"}, to : Definitions]
  <2>1. ASSUME NEW def \in past, PolicyHistorySection(def)
        PROVE  rollback' \in [at : {"none", "confirm", "sent"}, to : Definitions]
    <3>1. def \in Definitions
      BY EditorTypes
    <3> QED BY <2>1, <3>1, EditorTypes, NoRollbackTyped DEF PolicyHistorySection
  <2> QED BY <2>1, EditorTypes DEF usePoliciesListQuery, ToastGoes, editorSends
<1>5. SavesAreComplete'
  BY <1>2 DEF EditorInv, SavesAreComplete
<1>6. EditorTypeOK'
  BY <1>1, <1>2, <1>3, <1>4, EditorTypes DEF EditorTypeOK
<1>7. agreed => dialog \in {"edit", "askEdit"}
  BY DEF EditorInv, OneRequestAtATime
<1> QED BY <1>2, <1>5, <1>6, <1>7, EditorKept

(* Whatever else is written to the policy.                                 *)
LEMMA EditorWritesInv ==
  ASSUME EditorInv,
         \/ SaveAnswered \/ rollback_policy
         \/ \E a \in Actions : OthersWrite([policy EXCEPT !.acts = {a}])
  PROVE  EditorInv'
<1>1. /\ UNCHANGED <<listed, dialog, viewing, policyForm, snapshot, autosaves, undos, clicks>>
      /\ agreed' = (agreed /\ policy'.acts = policy.acts)
      /\ writes' = writes \/ (writes < MaxWrites /\ writes' = writes + 1)
  <2>1. CASE SaveAnswered
    BY <2>1 DEF SaveAnswered, Writes, serverSide
  <2>2. CASE rollback_policy
    BY <2>2 DEF rollback_policy, Writes, serverSide
  <2>3. ASSUME NEW def, OthersWrite(def)
        PROVE  /\ UNCHANGED <<listed, dialog, viewing, policyForm, snapshot, autosaves, undos,
                             clicks>>
               /\ agreed' = (agreed /\ policy'.acts = policy.acts)
               /\ writes < MaxWrites /\ writes' = writes + 1
    BY <2>3 DEF OthersWrite, editorSends
  <2> QED BY <2>1, <2>2, <2>3
<1>2. writes' \in 0..MaxWrites
  BY <1>1, EditorTypes, EditorAssumption
<1>3. /\ policy' = policy /\ past' = past
      \/ \E def \in Definitions : policy' = def /\ past' = past \cup {def}
  <2>1. CASE SaveAnswered
    <3>1. saveSent.at = "sent" => saveSent.def \in Definitions
      BY DEF EditorInv, SavesAreComplete
    <3> QED BY <2>1, <3>1 DEF SaveAnswered, Writes, serverSide
  <2>2. CASE rollback_policy
    <3>1. rollback.to \in Definitions
      BY EditorTypes
    <3> QED BY <2>2, <3>1 DEF rollback_policy, Writes, serverSide
  <2>3. ASSUME NEW a \in Actions, OthersWrite([policy EXCEPT !.acts = {a}])
        PROVE  \E def \in Definitions : policy' = def /\ past' = past \cup {def}
    <3>1. PICK def : def = [policy EXCEPT !.acts = {a}]
      OBVIOUS
    <3>2. def \in Definitions
      BY <3>1, EditorTypes DEF Definitions
    <3> QED BY <2>3, <3>1, <3>2 DEF OthersWrite
  <2> QED BY <2>1, <2>2, <2>3
<1>4. policy' \in Definitions /\ past' \subseteq Definitions
  BY <1>3, EditorTypes
<1>5. /\ saveSent' \in [at : {"none", "sent", "ok", "failed"}, new : BOOLEAN,
                        def : PolicyForms]
      /\ SavesAreComplete'
  <2>1. CASE SaveAnswered
    <3>1. \/ saveSent' = [saveSent EXCEPT !.at = "ok"]
          \/ saveSent' = [saveSent EXCEPT !.at = "failed"]
      BY <2>1 DEF SaveAnswered
    <3>2. saveSent'.at # "sent"
      BY <3>1, EditorTypes
    <3> QED BY <3>1, <3>2, EditorTypes DEF SavesAreComplete
  <2>2. CASE saveSent' = saveSent
    BY <2>2, EditorTypes DEF EditorInv, SavesAreComplete
  <2> QED BY <2>1, <2>2 DEF rollback_policy, OthersWrite, editorSends
<1>6. /\ rollback' \in [at : {"none", "confirm", "sent"}, to : Definitions]
      /\ listDue' \in BOOLEAN
  <2>1. CASE rollback_policy
    <3>1. /\ listDue' = TRUE \/ listDue' = listDue
          /\ rollback' = NoRollback \/ rollback' = [rollback EXCEPT !.at = "confirm"]
      BY <2>1 DEF rollback_policy
    <3> QED BY <3>1, EditorTypes, NoRollbackTyped
  <2> QED BY <2>1, EditorTypes DEF SaveAnswered, OthersWrite, editorSends
<1>7. EditorTypeOK'
  BY <1>1, <1>2, <1>4, <1>5, <1>6, EditorTypes DEF EditorTypeOK
<1>8. agreed => dialog \in {"edit", "askEdit"}
  BY DEF EditorInv, OneRequestAtATime
<1> QED BY <1>1, <1>5, <1>7, <1>8, EditorKept

LEMMA EditorSavedInv ==
  ASSUME EditorInv, handleFormSubmit
  PROVE  EditorInv'
<1>1. /\ UNCHANGED <<policy, past, writes, listed, viewing, policyForm, snapshot, clicks>>
      /\ saveSent' = NoSave
  BY DEF handleFormSubmit, serverSide
<1>2. SavesAreComplete'
  BY <1>1, NoSaveTyped DEF SavesAreComplete
<1>3. /\ rollback' \in [at : {"none", "confirm", "sent"}, to : Definitions]
      /\ listDue' \in BOOLEAN
  <2>1. /\ listDue' = TRUE \/ listDue' = listDue
        /\ rollback' = NoRollback \/ rollback' = rollback
    BY DEF handleFormSubmit
  <2> QED BY <2>1, EditorTypes, NoRollbackTyped
<1>4. CASE dialog' = "none" /\ Unmount
  <2>1. EditorTypeOK'
    BY <1>1, <1>3, <1>4, EditorTypes, UnmountTyped, NoSaveTyped DEF EditorTypeOK
  <2> QED BY <1>2, <1>4, <2>1, EditorUnmounts
<1>5. CASE UNCHANGED <<dialog, autosaves, undos, agreed>>
  <2>1. EditorTypeOK'
    BY <1>1, <1>3, <1>5, EditorTypes, NoSaveTyped DEF EditorTypeOK
  <2>2. agreed => dialog \in {"edit", "askEdit"}
    BY DEF EditorInv, OneRequestAtATime
  <2> QED BY <1>1, <1>2, <1>5, <2>1, <2>2, EditorKept
<1> QED BY <1>4, <1>5 DEF handleFormSubmit

(* A change of the resource type, and its offer of an undo.                *)
LEMMA EditorTypeChangeInv ==
  ASSUME EditorInv, NEW t \in Types, handleResourceTypeChange(t)
  PROVE  EditorInv'
<1>1. PICK kept : kept = {a \in policyForm.acts : TypeOf[a] = t}
  OBVIOUS
<1>2. PICK back : back = [acts |-> policyForm.acts, type |-> policyForm.type,
                          base |-> snapshot]
  OBVIOUS
<1>3. PICK u : u = [kind |-> "type", back |-> back, again |-> back, mounted |-> TRUE]
  OBVIOUS
<1>4. /\ Click /\ Editing
      /\ policyForm' = [policyForm EXCEPT !.type = t, !.acts = kept]
      /\ undos' = undos \/ undos' = undos \cup {u}
      /\ agreed' = FALSE
      /\ UNCHANGED <<policy, past, writes, listed, listDue, dialog, viewing, snapshot,
                     autosaves, saveSent, rollback>>
  BY <1>1, <1>2, <1>3 DEF handleResourceTypeChange, serverSide
<1>5. kept \in SUBSET Actions
  BY <1>1, EditorTypes DEF PolicyForms
<1>6. policyForm' \in PolicyForms
  BY <1>4, <1>5, EditorTypes DEF PolicyForms
<1>7. u \in Undos
  <2>1. back \in Restores
    BY <1>2, EditorTypes DEF Restores, PolicyForms
  <2> QED BY <1>3, <2>1 DEF Undos
<1>8. EditorTypeOK'
  BY <1>4, <1>6, <1>7, EditorTypes, ClickCounts DEF EditorTypeOK
<1>9. SavesAreComplete'
  BY <1>4 DEF EditorInv, SavesAreComplete
<1>10. ClosedFormIsDeaf' /\ OneRequestAtATime' /\ QuietFormAgrees'
  BY <1>4 DEF Editing, ClosedFormIsDeaf, OneRequestAtATime, QuietFormAgrees
<1> QED BY <1>8, <1>9, <1>10 DEF EditorInv, EditorSafe

(* A toggled action.                                                       *)
LEMMA EditorToggleInv ==
  ASSUME EditorInv, NEW a \in Actions, handleActionsChange(a)
  PROVE  EditorInv'
<1>1. PICK next : next = PolicyActionGrid(a)
  OBVIOUS
<1>2. PICK before : before = [acts |-> policyForm.acts, type |-> policyForm.type,
                              base |-> snapshot]
  OBVIOUS
<1>3. PICK r : r = [at |-> "sent", acts |-> next, onError |-> before, undo |-> FALSE,
                    heard |-> TRUE, mounted |-> TRUE]
  OBVIOUS
<1>4. /\ Click /\ Editing
      /\ policyForm' = [policyForm EXCEPT !.acts = next] /\ snapshot' = policyForm'
      /\ IF dialog = "create" THEN UNCHANGED <<autosaves, agreed>>
         ELSE MutateAction(r) /\ agreed' = (agreed /\ autosaves = <<>>)
      /\ UNCHANGED <<policy, past, writes, listed, listDue, dialog, viewing, undos,
                     saveSent, rollback>>
  BY <1>1, <1>2, <1>3 DEF handleActionsChange, serverSide
<1>5. next \in SUBSET Actions
  BY <1>1, EditorTypes DEF PolicyActionGrid, PolicyForms
<1>6. policyForm' \in PolicyForms /\ snapshot' \in PolicyForms /\ policyForm'.acts = next
  BY <1>4, <1>5, EditorTypes DEF PolicyForms
<1>7. r \in Autosaves
  <2>1. before \in Restores
    BY <1>2, EditorTypes DEF Restores, PolicyForms
  <2> QED BY <1>3, <1>5, <2>1 DEF Autosaves
<1>8. SavesAreComplete'
  BY <1>4 DEF EditorInv, SavesAreComplete
<1>9. ClosedFormIsDeaf'
  BY <1>4 DEF Editing, ClosedFormIsDeaf
<1>10. clicks' \in 0..MaxClicks
  BY <1>4, ClickCounts
<1>11. CASE dialog = "create"
  <2>1. EditorTypeOK'
    BY <1>4, <1>6, <1>10, <1>11, EditorTypes DEF EditorTypeOK
  <2>2. agreed' = FALSE
    BY <1>4, <1>11, EditorTypes DEF EditorInv, OneRequestAtATime
  <2> QED BY <1>8, <1>9, <2>1, <2>2
          DEF EditorInv, EditorSafe, OneRequestAtATime, QuietFormAgrees
<1>12. CASE dialog # "create"
  <2>1. MutateAction(r) /\ agreed' = (agreed /\ autosaves = <<>>)
    BY <1>4, <1>12
  <2>2. /\ autosaves' \in Seq(Autosaves) /\ autosaves' # <<>>
        /\ autosaves = <<>> => autosaves' = <<r>>
    BY <1>7, <2>1, EditorTypes, SentLast
  <2>3. EditorTypeOK'
    BY <1>4, <1>6, <1>10, <2>1, <2>2, EditorTypes DEF EditorTypeOK
  <2>4. ASSUME agreed' PROVE
          /\ dialog' \in {"edit", "askEdit"}
          /\ \A u \in undos' : u.mounted => u.kind = "action"
          /\ Len(autosaves') = 1 /\ autosaves'[1].heard /\ autosaves'[1].mounted
          /\ autosaves'[1].acts = policyForm'.acts
          /\ policy'.acts = autosaves'[1].onError.acts /\ autosaves'[1].at = "sent"
    <3>1. agreed /\ autosaves = <<>>
      BY <2>1, <2>4
    <3>2. /\ dialog \in {"edit", "askEdit"} /\ policyForm.acts = policy.acts
          /\ \A u \in undos : u.mounted => u.kind = "action"
      BY <3>1 DEF EditorInv, OneRequestAtATime
    <3>3. autosaves' = <<r>>
      BY <2>2, <3>1
    <3>4. Len(<<r>>) = 1 /\ <<r>>[1] = r
      OBVIOUS
    <3>5. /\ r.heard /\ r.mounted /\ r.acts = next /\ r.onError.acts = policyForm.acts
          /\ r.at = "sent"
      BY <1>2, <1>3
    <3> QED BY <1>4, <1>6, <3>2, <3>3, <3>4, <3>5
  <2>5. OneRequestAtATime' /\ QuietFormAgrees'
    BY <2>2, <2>4 DEF OneRequestAtATime, QuietFormAgrees
  <2> QED BY <1>8, <1>9, <2>3, <2>5 DEF EditorInv, EditorSafe
<1> QED BY <1>11, <1>12

(* An undo of either kind.                                                 *)
LEMMA EditorUndoInv ==
  ASSUME EditorInv, NEW u \in undos, UndoEdit(u)
  PROVE  EditorInv'
<1>1. /\ u \in Undos /\ u.back \in Restores /\ u.again \in Restores
      /\ u.mounted \in BOOLEAN /\ u.kind \in {"action", "type"}
  BY EditorTypes DEF Undos
<1>2. /\ Click /\ undos' = undos \ {u}
      /\ UNCHANGED <<policy, past, writes, listed, listDue, dialog, viewing, saveSent, rollback>>
  BY DEF UndoEdit, serverSide
<1>3. SavesAreComplete' /\ clicks' \in 0..MaxClicks
  BY <1>2, ClickCounts DEF EditorInv, SavesAreComplete
<1>4. CASE u.kind = "type"
  <2>1. /\ policyForm' = IF u.mounted
                     THEN [policyForm EXCEPT !.acts = u.back.acts, !.type = u.back.type]
                     ELSE policyForm
        /\ UNCHANGED <<snapshot, autosaves, agreed>>
    BY <1>4 DEF UndoEdit
  <2>2. policyForm' \in PolicyForms
    <3>1. u.back.acts \in SUBSET Actions /\ u.back.type \in Types
      BY <1>1 DEF Restores
    <3> QED BY <2>1, <3>1, EditorTypes DEF PolicyForms
  <2>3. EditorTypeOK'
    BY <1>2, <1>3, <2>1, <2>2, EditorTypes DEF EditorTypeOK
  <2>4. agreed => ~u.mounted /\ dialog \in {"edit", "askEdit"}
    BY <1>4 DEF EditorInv, OneRequestAtATime
  <2> QED BY <1>2, <1>3, <2>1, <2>3, <2>4, EditorKept
<1>5. CASE u.kind = "action"
  <2>1. PICK r : r = [at |-> "sent", acts |-> u.back.acts, onError |-> u.again,
                      undo |-> TRUE, heard |-> TRUE, mounted |-> u.mounted]
    OBVIOUS
  <2>2. /\ Restore(u.back, u.mounted) /\ MutateAction(r)
        /\ agreed' = (agreed /\ autosaves = <<>> /\ u.mounted
                      /\ u.again.acts = policyForm.acts)
    BY <1>5, <2>1 DEF UndoEdit
  <2>3. r \in Autosaves
    <3>1. u.back.acts \in SUBSET Actions
      BY <1>1 DEF Restores
    <3> QED BY <1>1, <2>1, <3>1 DEF Autosaves
  <2>4. policyForm' \in PolicyForms /\ snapshot' \in PolicyForms
    BY <1>1, <2>2, RestoreTyped
  <2>5. /\ autosaves' \in Seq(Autosaves) /\ autosaves' # <<>>
        /\ autosaves = <<>> => autosaves' = <<r>>
        /\ (\A i \in DOMAIN autosaves : ~autosaves[i].mounted) /\ ~r.mounted
             => \A i \in DOMAIN autosaves' : ~autosaves'[i].mounted
    BY <2>2, <2>3, EditorTypes, SentLast
  <2>6. EditorTypeOK'
    BY <1>2, <1>3, <2>2, <2>4, <2>5, EditorTypes DEF EditorTypeOK
  <2>7. ClosedFormIsDeaf'
    <3>1. SUFFICES ASSUME dialog \in {"none", "details"}
          PROVE  /\ \A i \in DOMAIN autosaves' : ~autosaves'[i].mounted
                 /\ \A v \in undos' : ~v.mounted
      BY <1>2 DEF ClosedFormIsDeaf
    <3>2. /\ \A i \in DOMAIN autosaves : ~autosaves[i].mounted
          /\ \A v \in undos : ~v.mounted
      BY <3>1 DEF EditorInv, ClosedFormIsDeaf
    <3>3. ~r.mounted
      BY <2>1, <3>2
    <3> QED BY <1>2, <2>5, <3>2, <3>3
  <2>8. ASSUME agreed' PROVE
          /\ dialog' \in {"edit", "askEdit"}
          /\ \A v \in undos' : v.mounted => v.kind = "action"
          /\ Len(autosaves') = 1 /\ autosaves'[1].heard /\ autosaves'[1].mounted
          /\ autosaves'[1].acts = policyForm'.acts
          /\ policy'.acts = autosaves'[1].onError.acts /\ autosaves'[1].at = "sent"
    <3>1. agreed /\ autosaves = <<>> /\ u.mounted /\ u.again.acts = policyForm.acts
      BY <2>2, <2>8
    <3>2. /\ dialog \in {"edit", "askEdit"} /\ policyForm.acts = policy.acts
          /\ \A v \in undos : v.mounted => v.kind = "action"
      BY <3>1 DEF EditorInv, OneRequestAtATime
    <3>3. policyForm' = [policyForm EXCEPT !.acts = u.back.acts]
      BY <2>2, <3>1 DEF Restore
    <3>4. policyForm'.acts = u.back.acts
      BY <3>3, EditorTypes DEF PolicyForms
    <3>5. Len(<<r>>) = 1 /\ <<r>>[1] = r /\ autosaves' = <<r>>
      BY <2>5, <3>1
    <3>6. /\ r.heard /\ r.mounted /\ r.acts = u.back.acts /\ r.onError = u.again
          /\ r.at = "sent"
      BY <2>1, <3>1
    <3> QED BY <1>2, <3>1, <3>2, <3>4, <3>5, <3>6
  <2>9. OneRequestAtATime' /\ QuietFormAgrees'
    BY <2>5, <2>8 DEF OneRequestAtATime, QuietFormAgrees
  <2> QED BY <1>3, <2>6, <2>7, <2>9 DEF EditorInv, EditorSafe
<1> QED BY <1>1, <1>4, <1>5

(* The server's answer to a toggle.                                        *)
LEMMA EditorAnswerInv ==
  ASSUME EditorInv, NEW i \in DOMAIN autosaves, update_policy(i)
  PROVE  EditorInv'
<1>1. PICK s \in Seq(Autosaves) : s = autosaves
  BY EditorTypes
<1>2. PICK r : r = s[i] /\ r \in Autosaves /\ r.at = "sent" /\ i \in 1..Len(s)
  BY <1>1, Indexed DEF update_policy
<1>3. PICK a \in {"ok", "failed"} :
         /\ autosaves' = [s EXCEPT ![i].at = a]
         /\ IF a = "ok" THEN Writes([policy EXCEPT !.acts = r.acts])
            ELSE UNCHANGED serverSide
  BY <1>1, <1>2 DEF update_policy
<1>4. UNCHANGED <<listed, listDue, dialog, viewing, policyForm, snapshot, undos, saveSent,
                  rollback, clicks, agreed>>
  BY DEF update_policy
<1>5. PICK q : q = [r EXCEPT !.at = a]
  OBVIOUS
<1>6. /\ q \in Autosaves /\ q.at = a /\ q.mounted = r.mounted /\ q.heard = r.heard
      /\ q.acts = r.acts /\ q.onError = r.onError
  BY <1>2, <1>5 DEF Autosaves
<1>7. autosaves' = [s EXCEPT ![i] = q]
  BY <1>2, <1>3, <1>5
<1>8. /\ autosaves' \in Seq(Autosaves) /\ Len(autosaves') = Len(s)
      /\ \A j \in 1..Len(s) : autosaves'[j] = IF j = i THEN q ELSE s[j]
  BY <1>2, <1>6, <1>7, ExceptSeq
<1>9. DOMAIN autosaves' = 1..Len(s) /\ DOMAIN s = 1..Len(s)
  BY <1>8, Indexed
<1>10. policy' \in Definitions /\ past' \subseteq Definitions /\ writes' = writes
  <2>1. PICK def : def = [policy EXCEPT !.acts = r.acts]
    OBVIOUS
  <2>2. def \in Definitions
    BY <1>2, <2>1, EditorTypes DEF Definitions, Autosaves
  <2> QED BY <1>3, <2>1, <2>2, EditorTypes DEF Writes, serverSide
<1>11. policy'.acts = IF a = "ok" THEN r.acts ELSE policy.acts
  BY <1>3, EditorTypes DEF Writes, serverSide, Definitions
<1>12. EditorTypeOK'
  BY <1>4, <1>8, <1>10, EditorTypes DEF EditorTypeOK
<1>13. SavesAreComplete'
  BY <1>4 DEF EditorInv, SavesAreComplete
<1>14. ClosedFormIsDeaf'
  <2>1. SUFFICES ASSUME dialog \in {"none", "details"}
        PROVE  /\ \A j \in DOMAIN autosaves' : ~autosaves'[j].mounted
               /\ \A u \in undos : ~u.mounted
    BY <1>4 DEF ClosedFormIsDeaf
  <2>2. /\ \A j \in DOMAIN s : ~s[j].mounted
        /\ \A u \in undos : ~u.mounted
    BY <1>1, <2>1 DEF EditorInv, ClosedFormIsDeaf
  <2> QED BY <1>2, <1>6, <1>8, <1>9, <2>2
<1>15. ASSUME agreed PROVE
          /\ dialog \in {"edit", "askEdit"}
          /\ \A u \in undos : u.mounted => u.kind = "action"
          /\ Len(autosaves') = 1 /\ autosaves'[1] = q /\ q.heard /\ q.mounted
          /\ q.acts = policyForm.acts
          /\ policy'.acts = IF q.at = "ok" THEN q.acts ELSE q.onError.acts
  <2>1. s # <<>>
    BY <1>2, EmptySeq
  <2>2. /\ dialog \in {"edit", "askEdit"}
        /\ \A u \in undos : u.mounted => u.kind = "action"
        /\ Len(s) = 1 /\ s[1].heard /\ s[1].mounted /\ s[1].acts = policyForm.acts
        /\ policy.acts = IF s[1].at = "ok" THEN s[1].acts ELSE s[1].onError.acts
    BY <1>1, <1>15, <2>1 DEF EditorInv, OneRequestAtATime
  <2>3. i = 1
    BY <1>2, <2>2
  <2> QED BY <1>2, <1>6, <1>8, <1>11, <2>2, <2>3
<1>16. OneRequestAtATime' /\ QuietFormAgrees'
  <2>1. autosaves' # <<>>
    BY <1>2, <1>8, <1>9, Indexed
  <2> QED BY <1>4, <1>15, <2>1 DEF OneRequestAtATime, QuietFormAgrees
<1> QED BY <1>12, <1>13, <1>14, <1>16 DEF EditorInv, EditorSafe

(* Its callbacks.                                                          *)
LEMMA EditorEndsInv ==
  ASSUME EditorInv, NEW i \in DOMAIN autosaves, AutosaveEnds(i)
  PROVE  EditorInv'
<1>1. PICK s \in Seq(Autosaves) : s = autosaves
  BY EditorTypes
<1>2. PICK r : r = s[i] /\ r \in Autosaves /\ r.at # "sent" /\ i \in 1..Len(s)
  BY <1>1, Indexed DEF AutosaveEnds
<1>3. PICK u : u = [kind |-> "action", back |-> r.onError,
                    again |-> [acts |-> r.acts, type |-> r.onError.type,
                               base |-> [snapshot EXCEPT !.acts = r.acts]],
                    mounted |-> r.mounted]
  OBVIOUS
<1>4. PICK mine \in BOOLEAN : mine = (r.heard /\ r.mounted)
  OBVIOUS
<1>5. /\ autosaves' = Without(s, i)
      /\ listDue' = (listDue \/ r.at = "ok")
      /\ undos' = undos \/ undos' = undos \cup {u}
      /\ IF r.at = "failed" THEN Restore(r.onError, mine)
         ELSE UNCHANGED <<policyForm, snapshot>>
      /\ UNCHANGED <<policy, past, writes, listed, dialog, viewing, saveSent, rollback,
                     clicks, agreed>>
  BY <1>1, <1>2, <1>3, <1>4 DEF AutosaveEnds, serverSide
<1>6. u \in Undos /\ u.mounted = r.mounted /\ u.kind = "action"
  <2>1. r.onError \in Restores /\ r.acts \in SUBSET Actions /\ r.mounted \in BOOLEAN
    BY <1>2 DEF Autosaves
  <2>2. [snapshot EXCEPT !.acts = r.acts] \in PolicyForms
    BY <2>1, EditorTypes DEF PolicyForms
  <2>3. PICK b : b = [snapshot EXCEPT !.acts = r.acts] /\ b \in PolicyForms
    BY <2>2
  <2>4. [acts |-> r.acts, type |-> r.onError.type, base |-> b] \in Restores
    BY <2>1, <2>3 DEF Restores
  <2> QED BY <1>3, <2>1, <2>3, <2>4 DEF Undos
<1>7. policyForm' \in PolicyForms /\ snapshot' \in PolicyForms
  <2>1. r.onError \in Restores
    BY <1>2 DEF Autosaves
  <2> QED BY <1>5, <2>1, EditorTypes, RestoreTyped
<1>8. /\ Without(s, i) \in Seq(Autosaves) /\ (Len(s) = 1 => Without(s, i) = <<>>)
      /\ \A j \in DOMAIN Without(s, i) : \E k \in DOMAIN s : Without(s, i)[j] = s[k]
  BY <1>1, AutosaveLeftOut
<1>9. EditorTypeOK'
  BY <1>5, <1>6, <1>7, <1>8, EditorTypes DEF EditorTypeOK
<1>10. SavesAreComplete'
  BY <1>5 DEF EditorInv, SavesAreComplete
<1>11. ClosedFormIsDeaf'
  <2>1. SUFFICES ASSUME dialog \in {"none", "details"}
        PROVE  /\ \A j \in DOMAIN autosaves' : ~autosaves'[j].mounted
               /\ \A v \in undos' : ~v.mounted
    BY <1>5 DEF ClosedFormIsDeaf
  <2>2. /\ \A j \in DOMAIN s : ~s[j].mounted
        /\ \A v \in undos : ~v.mounted
    BY <1>1, <2>1 DEF EditorInv, ClosedFormIsDeaf
  <2>3. ~r.mounted
    BY <1>1, <1>2, <2>2
  <2> QED BY <1>5, <1>6, <1>8, <2>2, <2>3
<1>12. ASSUME agreed PROVE
          /\ dialog \in {"edit", "askEdit"} /\ autosaves' = <<>>
          /\ \A v \in undos' : v.mounted => v.kind = "action"
          /\ policyForm'.acts = policy.acts
  <2>1. s # <<>>
    BY <1>2, EmptySeq
  <2>2. /\ dialog \in {"edit", "askEdit"}
        /\ \A v \in undos : v.mounted => v.kind = "action"
        /\ Len(s) = 1 /\ s[1].heard /\ s[1].mounted /\ s[1].acts = policyForm.acts
        /\ policy.acts = IF s[1].at = "ok" THEN s[1].acts ELSE s[1].onError.acts
    BY <1>1, <1>12, <2>1 DEF EditorInv, OneRequestAtATime
  <2>3. i = 1 /\ s[1] = r
    BY <1>2, <2>2
  <2>4. mine
    BY <1>4, <2>2, <2>3
  <2>5. r.at = "ok" \/ r.at = "failed"
    BY <1>2 DEF Autosaves
  <2>6. CASE r.at = "ok"
    BY <1>5, <1>6, <1>8, <2>2, <2>3, <2>6
  <2>7. CASE r.at = "failed"
    <3>1. policyForm' = [policyForm EXCEPT !.acts = r.onError.acts]
      BY <1>5, <2>4, <2>7 DEF Restore
    <3>2. policyForm'.acts = r.onError.acts
      BY <3>1, EditorTypes DEF PolicyForms
    <3> QED BY <1>5, <1>6, <1>8, <2>2, <2>3, <2>7, <3>2
  <2> QED BY <2>5, <2>6, <2>7
<1>13. OneRequestAtATime' /\ QuietFormAgrees'
  BY <1>5, <1>12 DEF OneRequestAtATime, QuietFormAgrees
<1> QED BY <1>9, <1>10, <1>11, <1>13 DEF EditorInv, EditorSafe

LEMMA EditorNextInv == EditorInv /\ [EditorNext]_editorVars => EditorInv'
<1> SUFFICES ASSUME EditorInv, [EditorNext]_editorVars PROVE EditorInv'
  OBVIOUS
<1>1. CASE UNCHANGED editorVars
  BY <1>1
  DEF editorVars, EditorInv, EditorSafe, EditorTypeOK, QuietFormAgrees, SavesAreComplete,
      ClosedFormIsDeaf, OneRequestAtATime
<1>2. CASE EditorNext
  BY <1>2, EditorOpenInv, EditorTabsInv, EditorCloseInv, EditorFieldsInv, EditorAroundInv,
     EditorWritesInv, EditorSavedInv, EditorTypeChangeInv, EditorToggleInv, EditorUndoInv,
     EditorAnswerInv, EditorEndsInv
  DEF EditorNext
<1> QED BY <1>1, <1>2

(***************************************************************************)
(* In the policy editor, for every catalog of actions and any number of    *)
(* clicks and foreign writes: while toggles are made one at a time, only   *)
(* the latest is undone and nobody else writes, a form with nothing in     *)
(* flight shows the actions the server has, whatever failed and was undone *)
(* on the way.                                                             *)
(***************************************************************************)
THEOREM EditorAlwaysSafe == EditorSpec => []EditorSafe
<1>1. EditorInv => EditorSafe
  BY DEF EditorInv
<1> QED BY <1>1, EditorInitInv, EditorNextInv, PTL DEF EditorSpec

---------------------------------------------------------------------------
(* The cards of the policies page *)

(* A nonempty set of numbers that is bounded has a greatest one.           *)
LEMMA GreatestIsThere ==
  ASSUME NEW n \in Nat, NEW S \in SUBSET (1..n), S # {}
  PROVE  Max(S) \in S
<1>1. PICK T : T = {n - x : x \in S}
  OBVIOUS
<1>2. T \subseteq Nat /\ T # {}
  <2>1. \A x \in S : n - x \in Nat
    OBVIOUS
  <2> QED BY <1>1, <2>1
<1>3. PICK R : R = OpToRel(<, Nat)
  OBVIOUS
<1>4. IsWellFoundedOn(R, Nat)
  BY <1>3, NatLessThanWellFounded
<1>5. PICK d \in T : \A y \in T : ~(<<y, d>> \in R)
  BY <1>2, <1>4, WFMin
<1>6. \A y \in T : ~(y < d)
  BY <1>2, <1>3, <1>5 DEF OpToRel
<1>7. PICK u \in S : d = n - u
  BY <1>1, <1>5
<1>8. \A v \in S : u >= v
  <2>1. TAKE v \in S
  <2>2. n - v \in T /\ u \in Int /\ v \in Int
    BY <1>1
  <2> QED BY <1>6, <1>7, <2>2
<1>9. \E x \in S : \A y \in S : x >= y
  BY <1>8
<1> QED BY <1>9 DEF Max

LEMMA CardsTypes ==
  ASSUME CardsInv
  PROVE  /\ cardActive \in [Cards -> {"on", "off", "gone"}]
         /\ <<filter, cardPage>> \in Queries /\ outdated \subseteq Queries
         /\ cached \in [Queries -> {NoRows} \cup
                                   [rows : CardRows, pages : 1..Cardinality(Cards)]]
         /\ guesses \in [Cards -> {"on", "off", "none"}]
         /\ switched \in Seq(Switchings) /\ unflips \subseteq [card : Cards, to : Status]
         /\ deleting \in Cards \cup {NoCard} /\ holders \in {"loading", "known", "failed"}
         /\ removal \in Removals
         /\ cardClicks \in 0..MaxCardClicks /\ flips \in 0..MaxFlips
         /\ steady \subseteq Cards /\ sawOff \in BOOLEAN
BY DEF CardsInv, CardsTypeOK, RowsKnown, Status

(* The pieces of the type invariant, for the steps to put together.        *)
LEMMA CardsTyped ==
  ASSUME cardActive' \in [Cards -> {"on", "off", "gone"}],
         <<filter, cardPage>>' \in Queries, outdated' \subseteq Queries,
         cached' \in [Queries -> {NoRows} \cup
                                 [rows : CardRows, pages : 1..Cardinality(Cards)]],
         guesses' \in [Cards -> {"on", "off", "none"}],
         switched' \in Seq(Switchings), unflips' \subseteq [card : Cards, to : Status],
         deleting' \in Cards \cup {NoCard}, holders' \in {"loading", "known", "failed"},
         removal' \in Removals,
         cardClicks' \in 0..MaxCardClicks, flips' \in 0..MaxFlips,
         steady' \subseteq Cards, sawOff' \in BOOLEAN
  PROVE  CardsTypeOK' /\ RowsKnown'
<1>1. Status \cup {"gone"} = {"on", "off", "gone"} /\ Status \cup {"none"} = {"on", "off", "none"}
  BY DEF Status
<1>2. \A q \in Queries : cached'[q] \in {NoRows} \cup
                                        [rows : CardRows, pages : 1..Cardinality(Cards)]
  OBVIOUS
<1> QED BY <1>1, <1>2 DEF CardsTypeOK, RowsKnown

LEMMA CardFacts ==
  /\ NoCard \notin Cards /\ Cardinality(Cards) \in Nat /\ Cardinality(Cards) >= 1
  /\ 1 \in 1..Cardinality(Cards)
  /\ \A s : Flip(s) \in {"on", "off"} /\ {"on", "off"} = Status
<1>1. Cardinality(Cards) \in Nat /\ Cardinality(Cards) # 0
  BY CardsAssumption, FS_CardinalityType, FS_EmptySet
<1>2. NoCard \notin Cards
  BY CardsAssumption DEF NoCard
<1> QED BY <1>1, <1>2 DEF Flip, Status

LEMMA CardClickCounts ==
  ASSUME CardsInv, CardClick
  PROVE  cardClicks' \in 0..MaxCardClicks
BY CardsTypes, CardsAssumption DEF CardClick

(* What the screen shows follows from the rest.                            *)
LEMMA SwitchIsTrue ==
  CardsTypeOK /\ ListIsTrue /\ GuessIsTrue => QuietSwitchIsTrue
<1> SUFFICES ASSUME CardsTypeOK, ListIsTrue, GuessIsTrue,
                    NEW c \in Listed \cap steady, c \notin InFlight, Query \notin outdated,
                    cardActive[c] # "gone"
             PROVE  ShownSwitch(c) = cardActive[c]
  BY DEF QuietSwitchIsTrue
<1>1. \A i \in DOMAIN switched : switched[i].card # c
  BY DEF InFlight
<1>2. Query \in Queries /\ c \in DOMAIN cached[Query].rows
  BY DEF CardsTypeOK, Query, Listed
<1>3. cached[Query].rows[c] = cardActive[c]
  BY <1>1, <1>2 DEF ListIsTrue
<1>4. guesses[c] # "none" => guesses[c] = cardActive[c]
  BY DEF GuessIsTrue
<1> QED BY <1>3, <1>4 DEF ShownSwitch

LEMMA SwitchStaysTrue ==
  CardsTypeOK' /\ ListIsTrue' /\ GuessIsTrue' => QuietSwitchIsTrue'
BY SwitchIsTrue, PTL

LEMMA CardsInitInv == CardsInit => CardsInv
<1> SUFFICES ASSUME CardsInit PROVE CardsInv
  OBVIOUS
<1>1. /\ cardActive \in [Cards -> {"on", "off", "gone"}]
      /\ guesses \in [Cards -> {"on", "off", "none"}]
  BY DEF CardsInit, Status
<1>2. <<filter, cardPage>> \in Queries
  BY CardFacts DEF CardsInit, Queries
<1>3. cached \in [Queries -> {NoRows} \cup [rows : CardRows, pages : 1..Cardinality(Cards)]]
  BY DEF CardsInit
<1>4. switched \in Seq(Switchings) /\ DOMAIN switched = {}
  BY EmptySeq, Indexed DEF CardsInit
<1>5. removal \in Removals /\ removal.at = "none"
  BY DEF CardsInit, NoRemoval, Removals
<1>6. 0 \in 0..MaxCardClicks /\ 0 \in 0..MaxFlips
  BY CardsAssumption
<1>7. CardsTypeOK /\ RowsKnown
  BY <1>1, <1>2, <1>3, <1>4, <1>5, <1>6 DEF CardsInit, CardsTypeOK, RowsKnown, Status
<1>8. ListIsTrue
  <2>1. \A q \in Queries : DOMAIN cached[q].rows = {NoCard}
    BY DEF CardsInit, NoRows
  <2> QED BY <2>1, CardFacts DEF CardsInit, ListIsTrue
<1>9. GuessIsTrue /\ RequestDecides /\ CheckedWasOff
  BY <1>4, <1>5 DEF CardsInit, GuessIsTrue, RequestDecides, CheckedWasOff
<1> QED BY <1>7, <1>8, <1>9, SwitchIsTrue DEF CardsInv

(* The history of a deletion: it is set by the state that a step reaches.  *)
LEMMA SawOffStep ==
  ASSUME CardsInv, CardsNext
  PROVE  /\ sawOff' \in BOOLEAN
         /\ removal' = removal /\ removal.at # "none" /\ sawOff => sawOff'
         /\ removal'.at # "none" /\ removal.at # "none" /\ sawOff => sawOff'
         /\ removal'.at # "none" /\ cardActive'[removal'.card] = "off" => sawOff'
BY CardsTypes DEF CardsNext

(* Steps that leave the switches and what the lists say of them, or have   *)
(* the lists fetched again.                                                *)
LEMMA CardsKept ==
  ASSUME CardsInv, CardsTypeOK', RowsKnown', CheckedWasOff',
         UNCHANGED <<cached, switched, guesses>>, steady' \subseteq steady,
         \A c \in steady' : cardActive'[c] = cardActive[c] \/ cardActive'[c] = "gone",
         \A q \in Queries \ outdated' : q \notin outdated \/ cached[q] = NoRows
  PROVE  CardsInv'
<1>1. ListIsTrue'
  <2>1. SUFFICES ASSUME NEW c \in steady', NEW q \in Queries \ outdated',
                        c \in DOMAIN cached[q].rows, cardActive'[c] # "gone",
                        \A i \in DOMAIN switched : ~(switched[i].card = c /\ switched[i].at = "ok")
                 PROVE  cached[q].rows[c] = cardActive'[c]
    BY DEF ListIsTrue
  <2>2. c \in steady /\ c \in Cards /\ cardActive'[c] = cardActive[c]
    BY <2>1, CardsTypes
  <2>3. cached[q] # NoRows
    BY <2>1, <2>2, CardFacts DEF NoRows
  <2> QED BY <2>1, <2>2, <2>3 DEF CardsInv, ListIsTrue
<1>2. GuessIsTrue'
  BY DEF CardsInv, GuessIsTrue, InFlight
<1>3. RequestDecides'
  <2>1. SUFFICES ASSUME NEW c \in steady', NEW i \in DOMAIN switched, switched[i].card = c
        PROVE  /\ switched[i].heard /\ ~switched[i].undo /\ guesses[c] = switched[i].to
               /\ switched[i].at = "ok" /\ cardActive'[c] # "gone"
                  => cardActive'[c] = switched[i].to
               /\ \A j \in DOMAIN switched : switched[j].card = c => j = i
    BY DEF RequestDecides
  <2>2. c \in steady /\ (cardActive'[c] # "gone" => cardActive'[c] = cardActive[c])
    BY <2>1
  <2> QED BY <2>1, <2>2 DEF CardsInv, RequestDecides
<1> QED BY <1>1, <1>2, <1>3, SwitchStaysTrue DEF CardsInv

(* What is on screen.                                                      *)
LEMMA CardsScreenInv ==
  ASSUME CardsInv, CardsNext,
         \/ \E f \in {"all", "on"} : PoliciesFilterBar(f)
         \/ \E p \in 1..Cardinality(Cards) : TurnPage(p)
         \/ \E c \in Cards : PolicyCard(c)
         \/ \E o \in unflips : OfferGoes(o)
         \/ usePolicyHoldersQuery \/ CancelDelete
  PROVE  CardsInv'
<1>1. /\ UNCHANGED <<cardActive, cached, outdated, guesses, switched, removal, flips, steady>>
      /\ unflips' \subseteq unflips /\ (cardClicks' = cardClicks \/ CardClick)
      /\ deleting' = deleting \/ deleting' \in Cards \cup {NoCard}
      /\ holders' = holders \/ holders' \in {"loading", "known", "failed"}
  BY DEF PoliciesFilterBar, TurnPage, PolicyCard, OfferGoes, usePolicyHoldersQuery,
         CancelDelete, listSide, dialogSide
<1>2. <<filter, cardPage>>' \in Queries
  <2>1. filter \in {"all", "on"} /\ cardPage \in 1..Cardinality(Cards)
    BY CardsTypes DEF Queries
  <2>2. \/ filter' \in {"all", "on"} /\ cardPage' = 1
        \/ filter' = filter /\ cardPage' \in 1..Cardinality(Cards)
        \/ filter' = filter /\ cardPage' = cardPage
    BY DEF PoliciesFilterBar, TurnPage, PolicyCard, OfferGoes, usePolicyHoldersQuery,
           CancelDelete, listSide
  <2>3. filter' \in {"all", "on"} /\ cardPage' \in 1..Cardinality(Cards)
    BY <2>1, <2>2, CardFacts
  <2> QED BY <2>3 DEF Queries
<1>3. cardClicks' \in 0..MaxCardClicks
  BY <1>1, CardClickCounts, CardsTypes
<1>4. CardsTypeOK' /\ RowsKnown'
  BY <1>1, <1>2, <1>3, SawOffStep, CardsTypes, CardsTyped
<1>5. CheckedWasOff'
  BY <1>1, SawOffStep DEF CardsInv, CheckedWasOff
<1> QED BY <1>1, <1>4, <1>5, CardsKept

LEMMA InvalidatedTyped ==
  ASSUME InvalidateLists
  PROVE  /\ outdated' \subseteq Queries
         /\ \A q \in Queries \ outdated' : cached[q] = NoRows
BY DEF InvalidateLists

(* The deletion of a policy.                                               *)
LEMMA CardsDeletionInv ==
  ASSUME CardsInv, CardsNext,
         handleDeleteConfirm \/ delete_policy \/ DeleteCommits \/ DeleteEnds
  PROVE  CardsInv'
<1>1. /\ UNCHANGED <<filter, cardPage, cached, guesses, switched, unflips, holders, flips, steady>>
      /\ (cardClicks' = cardClicks \/ CardClick)
  BY DEF handleDeleteConfirm, delete_policy, DeleteCommits, DeleteEnds, listSide, dialogSide
<1>2. cardClicks' \in 0..MaxCardClicks
  BY <1>1, CardClickCounts, CardsTypes
<1>3. /\ outdated' \subseteq Queries
      /\ \A q \in Queries \ outdated' : q \notin outdated \/ cached[q] = NoRows
  <2>1. outdated' = outdated \/ InvalidateLists
    BY DEF handleDeleteConfirm, delete_policy, DeleteCommits, DeleteEnds, listSide
  <2> QED BY <2>1, InvalidatedTyped, CardsTypes
<1>4. deleting' \in Cards \cup {NoCard}
  <2>1. deleting' = deleting \/ deleting' = NoCard
    BY DEF handleDeleteConfirm, delete_policy, DeleteCommits, DeleteEnds, dialogSide
  <2> QED BY <2>1, CardsTypes
<1>5. PICK m : m = removal /\ m \in Removals
  BY CardsTypes
<1>6. removal' \in Removals /\ CheckedWasOff'
  <2>1. CASE handleDeleteConfirm
    <3>1. removal' = [at |-> "sent", card |-> deleting]
      BY <2>1 DEF handleDeleteConfirm
    <3> QED BY <3>1, CardsTypes DEF Removals, CheckedWasOff
  <2>2. CASE delete_policy
    <3>1. /\ cardActive' = cardActive
          /\ \/ cardActive[m.card] = "off" /\ removal' = [m EXCEPT !.at = "checked"]
             \/ removal' = [m EXCEPT !.at = "failed"]
      BY <1>5, <2>2 DEF delete_policy
    <3>2. /\ removal' \in Removals /\ removal'.card = m.card
          /\ removal'.at = "checked" => cardActive'[removal'.card] = "off"
      BY <1>5, <3>1 DEF Removals
    <3> QED BY <3>2, SawOffStep DEF CheckedWasOff
  <2>3. CASE DeleteCommits
    <3>1. removal' = [m EXCEPT !.at = "ok"]
      BY <1>5, <2>3 DEF DeleteCommits
    <3> QED BY <1>5, <3>1 DEF Removals, CheckedWasOff
  <2>4. CASE DeleteEnds
    <3>1. removal' = NoRemoval
      BY <2>4 DEF DeleteEnds
    <3> QED BY <3>1 DEF NoRemoval, Removals, CheckedWasOff
  <2> QED BY <2>1, <2>2, <2>3, <2>4
<1>7. /\ cardActive' \in [Cards -> {"on", "off", "gone"}]
      /\ \A c \in steady' : cardActive'[c] = cardActive[c] \/ cardActive'[c] = "gone"
  <2>1. cardActive' = cardActive \/ cardActive' = [cardActive EXCEPT ![m.card] = "gone"]
    BY <1>5 DEF handleDeleteConfirm, delete_policy, DeleteCommits, DeleteEnds
  <2>2. CASE cardActive' = cardActive
    BY <2>2, CardsTypes
  <2>3. CASE cardActive' = [cardActive EXCEPT ![m.card] = "gone"]
    <3>1. cardActive' \in [Cards -> {"on", "off", "gone"}]
      BY <2>3, CardsTypes
    <3>2. \A c \in Cards : cardActive'[c] = cardActive[c] \/ cardActive'[c] = "gone"
      BY <2>3, CardsTypes
    <3> QED BY <1>1, <3>1, <3>2, CardsTypes
  <2> QED BY <2>1, <2>2, <2>3
<1>8. CardsTypeOK' /\ RowsKnown'
  BY <1>1, <1>2, <1>3, <1>4, <1>6, <1>7, SawOffStep, CardsTypes, CardsTyped
<1> QED BY <1>1, <1>3, <1>6, <1>7, <1>8, CardsKept

(* A list that arrives.                                                    *)
LEMMA CardsListInv ==
  ASSUME CardsInv, CardsNext, useListQuery
  PROVE  CardsInv'
<1>1. /\ UNCHANGED <<cardActive, filter, cardPage, guesses, switched, unflips, deleting, holders,
                    removal, cardClicks, flips, steady>>
      /\ outdated' = outdated \ {Query}
  BY DEF useListQuery, dialogSide
<1>2. PICK rs : rs = [c \in PageOf(filter, cardPage) |-> cardActive[c]]
  OBVIOUS
<1>3. PICK n : n = PageCount(filter)
  OBVIOUS
<1>4. PICK l : l = [rows |-> rs, pages |-> n]
  OBVIOUS
<1>5. cached' = [cached EXCEPT ![Query] = l]
  BY <1>2, <1>3, <1>4 DEF useListQuery
<1>6. l \in [rows : CardRows, pages : 1..Cardinality(Cards)]
  <2>1. PageOf(filter, cardPage) \in SUBSET Cards
    BY DEF PageOf, MatchingCards
  <2>2. \A c \in PageOf(filter, cardPage) : cardActive[c] \in Status
    <3>1. filter \in {"all", "on"}
      BY CardsTypes DEF Queries
    <3> QED BY <3>1 DEF PageOf, MatchingCards, Status
  <2>3. rs \in [PageOf(filter, cardPage) -> Status]
    BY <1>2, <2>2
  <2>4. rs \in CardRows
    BY <2>1, <2>3 DEF CardRows
  <2>5. n \in 1..Cardinality(Cards)
    <3>1. PICK S : S = {1} \cup {p \in 1..Cardinality(Cards) : PageOf(filter, p) # {}}
      OBVIOUS
    <3>2. S \in SUBSET (1..Cardinality(Cards)) /\ S # {}
      BY <3>1, CardFacts
    <3>3. Max(S) \in S
      BY <3>2, CardFacts, GreatestIsThere
    <3> QED BY <1>3, <3>1, <3>2, <3>3 DEF PageCount
  <2> QED BY <1>4, <2>4, <2>5
<1>7. /\ cached' \in [Queries -> {NoRows} \cup [rows : CardRows, pages : 1..Cardinality(Cards)]]
      /\ Query \in Queries
      /\ \A q \in Queries : cached'[q] = IF q = Query THEN l ELSE cached[q]
  BY <1>5, <1>6, CardsTypes DEF Query
<1>8. CardsTypeOK' /\ RowsKnown'
  <2>1. outdated' \subseteq Queries
    BY <1>1, CardsTypes
  <2> QED BY <1>1, <1>7, <2>1, SawOffStep, CardsTypes, CardsTyped
<1>9. CheckedWasOff'
  BY <1>1, SawOffStep DEF CardsInv, CheckedWasOff
<1>10. ListIsTrue'
  <2>1. SUFFICES ASSUME NEW c \in steady, NEW q \in Queries \ outdated',
                        c \in DOMAIN cached'[q].rows, cardActive[c] # "gone",
                        \A i \in DOMAIN switched : ~(switched[i].card = c /\ switched[i].at = "ok")
                 PROVE  cached'[q].rows[c] = cardActive[c]
    BY <1>1 DEF ListIsTrue
  <2>2. CASE q = Query
    <3>1. cached'[q].rows = rs
      BY <1>4, <1>7, <2>2
    <3> QED BY <1>2, <2>1, <3>1
  <2>3. CASE q # Query
    <3>1. cached'[q] = cached[q] /\ q \notin outdated
      BY <1>1, <1>7, <2>3
    <3> QED BY <2>1, <3>1 DEF CardsInv, ListIsTrue
  <2> QED BY <2>2, <2>3
<1>11. GuessIsTrue' /\ RequestDecides'
  BY <1>1 DEF CardsInv, GuessIsTrue, RequestDecides, InFlight
<1> QED BY <1>8, <1>9, <1>10, <1>11, SwitchStaysTrue DEF CardsInv

(* Another administrator's switch.                                         *)
LEMMA CardsOthersInv ==
  ASSUME CardsInv, CardsNext, NEW c \in Cards, OthersFlip(c)
  PROVE  CardsInv'
<1>1. /\ UNCHANGED <<filter, cardPage, cached, outdated, guesses, switched, unflips, deleting,
                    holders, removal, cardClicks>>
      /\ cardActive' = [cardActive EXCEPT ![c] = Flip(cardActive[c])]
      /\ steady' = steady \ {c} /\ flips < MaxFlips /\ flips' = flips + 1
  BY DEF OthersFlip, listSide, dialogSide
<1>2. flips' \in 0..MaxFlips
  BY <1>1, CardsTypes, CardsAssumption
<1>3. cardActive' \in [Cards -> {"on", "off", "gone"}]
  BY <1>1, CardFacts, CardsTypes
<1>4. \A d \in steady' : cardActive'[d] = cardActive[d]
  BY <1>1, CardsTypes
<1>5. CardsTypeOK' /\ RowsKnown'
  <2>1. steady' \subseteq Cards
    BY <1>1, CardsTypes
  <2> QED BY <1>1, <1>2, <1>3, <2>1, SawOffStep, CardsTypes, CardsTyped
<1>6. CheckedWasOff'
  BY <1>1, SawOffStep DEF CardsInv, CheckedWasOff
<1> QED BY <1>1, <1>4, <1>5, <1>6, CardsKept

(* A request that a switch or an undo sends.                               *)
LEMMA SwitchSent ==
  ASSUME NEW s \in Seq(Switchings), switched = s, NEW c \in Cards, NEW to \in {"on", "off"},
         NEW undo \in BOOLEAN, SendsSwitch(c, to, undo)
  PROVE  /\ switched' \in Seq(Switchings) /\ Len(s) \in Nat
         /\ DOMAIN s = 1..Len(s) /\ DOMAIN switched' = 1..(Len(s) + 1)
         /\ \A i \in 1..Len(s) : switched'[i].card = s[i].card /\ switched'[i].at = s[i].at
         /\ switched'[Len(s) + 1] = [at |-> "sent", card |-> c, to |-> to, undo |-> undo,
                                     heard |-> TRUE]
<1>1. PICK n \in Nat : n = Len(s) /\ DOMAIN s = 1..n /\ \A i \in 1..n : s[i] \in Switchings
  BY Indexed
<1>2. PICK r : r = [at |-> "sent", card |-> c, to |-> to, undo |-> undo, heard |-> TRUE]
  OBVIOUS
<1>3. PICK a : a = [i \in 1..n |-> [s[i] EXCEPT !.heard = FALSE]]
  OBVIOUS
<1>4. \A i \in 1..n : /\ a[i] \in Switchings
                      /\ a[i].card = s[i].card /\ a[i].at = s[i].at
  BY <1>1, <1>3 DEF Switchings
<1>5. a \in [1..n -> Switchings]
  BY <1>3, <1>4
<1>6. a \in Seq(Switchings) /\ Len(a) = n
  BY <1>5
<1>7. r \in Switchings
  BY <1>2, CardFacts DEF Switchings
<1>8. switched' = Append(a, r)
  BY <1>1, <1>2, <1>3 DEF SendsSwitch
<1>9. PICK b : /\ b = Append(a, r)
               /\ b \in Seq(Switchings) /\ Len(b) = n + 1 /\ DOMAIN b = 1..(n + 1)
               /\ \A i \in 1..n : b[i] = a[i]
               /\ b[n + 1] = r
  <2>1. /\ Append(a, r) \in Seq(Switchings) /\ Len(Append(a, r)) = Len(a) + 1
        /\ \A i \in 1..Len(a) : Append(a, r)[i] = a[i]
        /\ Append(a, r)[Len(a) + 1] = r
    BY <1>6, <1>7, AppendProperties
  <2>2. DOMAIN Append(a, r) = 1..(n + 1)
    BY <1>6, <2>1, Indexed
  <2> QED BY <1>6, <2>1, <2>2
<1> QED BY <1>1, <1>2, <1>4, <1>8, <1>9

(* Sending takes the policies with requests in flight out of the history;  *)
(* a switch sets the guess that its own request then decides.              *)
LEMMA CardsSendInv ==
  ASSUME CardsInv, CardsNext, NEW c \in Cards, NEW to \in {"on", "off"}, NEW undo \in BOOLEAN,
         CardClick, SendsSwitch(c, to, undo),
         UNCHANGED <<cardActive, listSide, dialogSide, removal, flips>>,
         unflips' \subseteq unflips, steady' \subseteq steady \ InFlight,
         guesses' \in [Cards -> {"on", "off", "none"}],
         \A d \in Cards : d # c => guesses'[d] = guesses[d],
         c \in steady' => ~undo /\ guesses'[c] = to
  PROVE  CardsInv'
<1>1. UNCHANGED <<filter, cardPage, cached, outdated, deleting, holders>>
  BY DEF listSide, dialogSide
<1>2. PICK s \in Seq(Switchings) : s = switched
  BY CardsTypes
<1>3. PICK r : r = [at |-> "sent", card |-> c, to |-> to, undo |-> undo, heard |-> TRUE]
  OBVIOUS
<1>4. PICK n \in Nat : n = Len(s)
  BY <1>2, Indexed
<1>5. /\ switched' \in Seq(Switchings)
      /\ DOMAIN s = 1..n /\ DOMAIN switched' = 1..(n + 1)
      /\ \A i \in 1..n : switched'[i].card = s[i].card /\ switched'[i].at = s[i].at
      /\ switched'[n + 1] = r
  BY <1>2, <1>3, <1>4, SwitchSent
<1>6. \A d \in steady' : /\ d \in steady /\ d \in Cards
                         /\ \A i \in 1..n : s[i].card # d /\ switched'[i].card # d
  BY <1>2, <1>5, CardsTypes DEF InFlight
<1>7. \A i \in 1..(n + 1) : i \in 1..n \/ i = n + 1
  OBVIOUS
<1>8. CardsTypeOK' /\ RowsKnown'
  <2>1. cardClicks' \in 0..MaxCardClicks /\ steady' \subseteq Cards
    BY CardClickCounts, CardsTypes
  <2> QED BY <1>1, <1>5, <2>1, SawOffStep, CardsTypes, CardsTyped
<1>9. CheckedWasOff'
  BY SawOffStep DEF CardsInv, CheckedWasOff
<1>10. ListIsTrue'
  BY <1>1, <1>2, <1>5, <1>6 DEF CardsInv, ListIsTrue
<1>11. GuessIsTrue'
  <2>1. SUFFICES ASSUME NEW d \in steady', guesses'[d] # "none", cardActive[d] # "gone",
                        \A i \in 1..(n + 1) : switched'[i].card # d
                 PROVE  guesses'[d] = cardActive[d]
    BY <1>5 DEF GuessIsTrue, InFlight
  <2>2. d # c
    <3>1. switched'[n + 1].card = c /\ n + 1 \in 1..(n + 1)
      BY <1>3, <1>5
    <3> QED BY <2>1, <3>1
  <2>3. d \notin InFlight /\ guesses'[d] = guesses[d]
    BY <1>6, <2>2
  <2> QED BY <1>6, <2>1, <2>3 DEF CardsInv, GuessIsTrue
<1>12. RequestDecides'
  <2>1. SUFFICES ASSUME NEW d \in steady', NEW i \in 1..(n + 1), switched'[i].card = d
        PROVE  /\ switched'[i].heard /\ ~switched'[i].undo /\ guesses'[d] = switched'[i].to
               /\ switched'[i].at # "ok"
               /\ \A j \in 1..(n + 1) : switched'[j].card = d => j = i
    BY <1>5 DEF RequestDecides
  <2>2. i = n + 1 /\ \A j \in 1..(n + 1) : switched'[j].card = d => j = n + 1
    BY <1>6, <1>7, <2>1
  <2>3. r.card = c /\ r.heard /\ r.undo = undo /\ r.to = to /\ r.at = "sent"
    BY <1>3
  <2>4. d = c
    BY <1>5, <2>1, <2>2, <2>3
  <2> QED BY <1>5, <2>2, <2>3, <2>4
<1> QED BY <1>8, <1>9, <1>10, <1>11, <1>12, SwitchStaysTrue DEF CardsInv

LEMMA CardsSwitchInv ==
  ASSUME CardsInv, CardsNext,
         (\E c \in Cards : handleToggleActive(c)) \/ \E o \in unflips : UndoSwitch(o)
  PROVE  CardsInv'
<1>1. ASSUME NEW c \in Cards, handleToggleActive(c) PROVE CardsInv'
  <2>1. PICK to \in {"on", "off"} : to = Flip(ShownSwitch(c))
    BY CardFacts
  <2>2. /\ CardClick /\ guesses' = [guesses EXCEPT ![c] = to] /\ SendsSwitch(c, to, FALSE)
        /\ steady' = steady \ InFlight
        /\ UNCHANGED <<cardActive, listSide, unflips, dialogSide, removal, flips>>
    BY <1>1, <2>1 DEF handleToggleActive
  <2>3. /\ guesses' \in [Cards -> {"on", "off", "none"}] /\ guesses'[c] = to
        /\ \A d \in Cards : d # c => guesses'[d] = guesses[d]
    BY <2>2, CardsTypes
  <2> QED BY <2>2, <2>3, CardsSendInv
<1>2. ASSUME NEW o \in unflips, UndoSwitch(o) PROVE CardsInv'
  <2>1. PICK c \in Cards, to \in {"on", "off"} : c = o.card /\ to = o.to
    BY CardsTypes, CardFacts
  <2>2. /\ CardClick /\ unflips' \subseteq unflips /\ SendsSwitch(c, to, TRUE)
        /\ steady' = steady \ (InFlight \cup {c}) /\ guesses' = guesses
        /\ UNCHANGED <<cardActive, listSide, dialogSide, removal, flips>>
    BY <1>2, <2>1 DEF UndoSwitch
  <2>3. /\ steady' \subseteq steady \ InFlight /\ c \notin steady'
        /\ guesses' \in [Cards -> {"on", "off", "none"}]
        /\ \A d \in Cards : d # c => guesses'[d] = guesses[d]
    BY <2>2, CardsTypes
  <2> QED BY <2>2, <2>3, CardsSendInv
<1> QED BY <1>1, <1>2

(* The server's answer to a switch.                                        *)
LEMMA CardsAnswerInv ==
  ASSUME CardsInv, CardsNext, NEW i \in DOMAIN switched, UpdateStatus(i)
  PROVE  CardsInv'
<1>1. PICK s \in Seq(Switchings) : s = switched
  BY CardsTypes
<1>2. PICK n \in Nat : n = Len(s) /\ DOMAIN s = 1..n /\ \A j \in 1..n : s[j] \in Switchings
  BY <1>1, Indexed
<1>3. PICK r : r = s[i] /\ r \in Switchings /\ r.at = "sent" /\ i \in 1..n
  BY <1>1, <1>2 DEF UpdateStatus
<1>4. PICK a \in {"ok", "failed"} :
         /\ switched' = [s EXCEPT ![i].at = a]
         /\ IF a = "ok" THEN cardActive' = [cardActive EXCEPT ![r.card] = r.to]
            ELSE cardActive' = cardActive
  BY <1>1, <1>3 DEF UpdateStatus
<1>5. UNCHANGED <<filter, cardPage, cached, outdated, guesses, unflips, deleting, holders,
                  removal, cardClicks, flips, steady>>
  BY DEF UpdateStatus, listSide, dialogSide
<1>6. PICK q : q = [r EXCEPT !.at = a]
  OBVIOUS
<1>7. /\ q \in Switchings /\ q.at = a /\ q.card = r.card /\ q.heard = r.heard
      /\ q.to = r.to /\ q.undo = r.undo
  BY <1>3, <1>6 DEF Switchings
<1>8. switched' = [s EXCEPT ![i] = q]
  BY <1>3, <1>4, <1>6
<1>9. /\ switched' \in Seq(Switchings) /\ Len(switched') = n
      /\ \A j \in 1..n : switched'[j] = IF j = i THEN q ELSE s[j]
  BY <1>2, <1>3, <1>7, <1>8, ExceptSeq
<1>10. DOMAIN switched' = 1..n
  BY <1>9, Indexed
<1>11. \A j \in 1..n : /\ switched'[j].card = s[j].card /\ switched'[j].heard = s[j].heard
                       /\ switched'[j].to = s[j].to /\ switched'[j].undo = s[j].undo
  BY <1>3, <1>7, <1>9
<1>12. /\ r.card \in Cards /\ r.to \in {"on", "off"}
       /\ cardActive' \in [Cards -> {"on", "off", "gone"}]
       /\ \A d \in Cards : d # r.card => cardActive'[d] = cardActive[d]
       /\ a = "ok" => cardActive'[r.card] = r.to
       /\ a = "failed" => cardActive' = cardActive
  <2>1. r.card \in Cards /\ r.to \in {"on", "off"}
    BY <1>3 DEF Switchings, Status
  <2> QED BY <1>4, <2>1, CardsTypes
<1>13. CardsTypeOK' /\ RowsKnown'
  BY <1>5, <1>9, <1>12, SawOffStep, CardsTypes, CardsTyped
<1>14. CheckedWasOff'
  BY <1>5, SawOffStep DEF CardsInv, CheckedWasOff
<1>15. ListIsTrue'
  <2>1. SUFFICES ASSUME NEW c \in steady, NEW p \in Queries \ outdated,
                        c \in DOMAIN cached[p].rows, cardActive'[c] # "gone",
                        \A j \in 1..n : ~(switched'[j].card = c /\ switched'[j].at = "ok")
                 PROVE  cached[p].rows[c] = cardActive'[c]
    BY <1>5, <1>10 DEF ListIsTrue
  <2>2. \A j \in 1..n : ~(s[j].card = c /\ s[j].at = "ok")
    BY <1>3, <1>9, <1>11, <2>1
  <2>3. cardActive'[c] = cardActive[c]
    <3>1. CASE c = r.card
      <4>1. a # "ok"
        BY <1>3, <1>7, <1>9, <2>1, <3>1
      <4> QED BY <1>12, <4>1
    <3>2. CASE c # r.card
      BY <1>12, <3>2, CardsTypes
    <3> QED BY <3>1, <3>2
  <2> QED BY <1>1, <1>2, <2>1, <2>2, <2>3 DEF CardsInv, ListIsTrue
<1>16. GuessIsTrue'
  <2>1. SUFFICES ASSUME NEW c \in steady, guesses[c] # "none", cardActive'[c] # "gone",
                        \A j \in 1..n : switched'[j].card # c
                 PROVE  guesses[c] = cardActive'[c]
    BY <1>5, <1>10 DEF GuessIsTrue, InFlight
  <2>2. \A j \in 1..n : s[j].card # c
    BY <1>11, <2>1
  <2>3. c \notin InFlight /\ cardActive'[c] = cardActive[c]
    BY <1>1, <1>2, <1>3, <1>12, <2>2, CardsTypes DEF InFlight
  <2> QED BY <2>1, <2>3 DEF CardsInv, GuessIsTrue
<1>17. RequestDecides'
  <2>1. SUFFICES ASSUME NEW c \in steady, NEW k \in 1..n, switched'[k].card = c
        PROVE  /\ switched'[k].heard /\ ~switched'[k].undo /\ guesses[c] = switched'[k].to
               /\ switched'[k].at = "ok" /\ cardActive'[c] # "gone"
                  => cardActive'[c] = switched'[k].to
               /\ \A j \in 1..n : switched'[j].card = c => j = k
    BY <1>5, <1>10 DEF RequestDecides
  <2>2. /\ s[k].heard /\ ~s[k].undo /\ guesses[c] = s[k].to
        /\ s[k].at = "ok" /\ cardActive[c] # "gone" => cardActive[c] = s[k].to
        /\ \A j \in 1..n : s[j].card = c => j = k
    BY <1>1, <1>2, <1>11, <2>1 DEF CardsInv, RequestDecides
  <2>3. switched'[k].at = "ok" /\ cardActive'[c] # "gone" => cardActive'[c] = switched'[k].to
    <3>1. CASE k = i
      BY <1>3, <1>7, <1>9, <1>12, <2>1, <3>1
    <3>2. CASE k # i
      <4>1. c # r.card
        BY <1>3, <2>2, <3>2
      <4>2. cardActive'[c] = cardActive[c]
        BY <1>12, <4>1, CardsTypes
      <4> QED BY <1>9, <2>2, <3>2, <4>2
    <3> QED BY <3>1, <3>2
  <2> QED BY <1>11, <2>2, <2>3
<1> QED BY <1>13, <1>14, <1>15, <1>16, <1>17, SwitchStaysTrue DEF CardsInv

(* Its callbacks.                                                          *)
LEMMA DropTyped ==
  ASSUME NEW s \in Seq(Switchings), NEW i \in DOMAIN s, NEW n, n = Len(s)
  PROVE  /\ Drop(s, i) \in Seq(Switchings) /\ DOMAIN Drop(s, i) = 1..(n - 1)
         /\ \A j \in 1..(n - 1) : /\ j < i => Drop(s, i)[j] = s[j]
                                  /\ ~(j < i) => Drop(s, i)[j] = s[j + 1]
<1>1. PICK w : w = Drop(s, i)
  OBVIOUS
<1>2. w = SubSeq(s, 1, i - 1) \o SubSeq(s, i + 1, Len(s))
  BY <1>1 DEF Drop
<1>3. /\ w \in Seq(Switchings) /\ Len(s) \in Nat /\ Len(w) = Len(s) - 1
      /\ DOMAIN w = 1..(Len(s) - 1) /\ i \in 1..Len(s)
      /\ \A j \in 1..(Len(s) - 1) : /\ j < i => w[j] = s[j]
                                    /\ ~(j < i) => w[j] = s[j + 1]
  BY <1>2, LeftOut
<1> QED BY <1>1, <1>3

LEMMA CardsEndsInv ==
  ASSUME CardsInv, CardsNext, NEW i \in DOMAIN switched, SwitchEnds(i)
  PROVE  CardsInv'
<1>1. PICK s \in Seq(Switchings) : s = switched
  BY CardsTypes
<1>2. PICK n \in Nat : n = Len(s) /\ DOMAIN s = 1..n /\ \A j \in 1..n : s[j] \in Switchings
  BY <1>1, Indexed
<1>3. PICK r : r = s[i] /\ r \in Switchings /\ i \in 1..n
  BY <1>1, <1>2
<1>4. /\ r.at \in {"ok", "failed"} /\ r.card \in Cards /\ r.to \in {"on", "off"}
      /\ r.heard \in BOOLEAN /\ r.undo \in BOOLEAN
  BY <1>1, <1>3 DEF SwitchEnds, Switchings, Status
<1>5. /\ switched' = Drop(s, i)
      /\ IF r.at = "ok" THEN InvalidateLists ELSE UNCHANGED outdated
      /\ unflips' = unflips \/ unflips' = unflips \cup {[card |-> r.card, to |-> Flip(r.to)]}
      /\ guesses' = IF r.at = "failed" /\ r.heard /\ ~r.undo
                    THEN [guesses EXCEPT ![r.card] = "none"] ELSE guesses
      /\ UNCHANGED <<cardActive, filter, cardPage, cached, deleting, holders, removal,
                     cardClicks, flips, steady>>
  BY <1>1, <1>3 DEF SwitchEnds, dialogSide
<1>6. PICK w : /\ w = switched' /\ w \in Seq(Switchings) /\ DOMAIN w = 1..(n - 1)
               /\ \A j \in 1..(n - 1) : /\ j < i => w[j] = s[j]
                                        /\ ~(j < i) => w[j] = s[j + 1]
  <2>1. switched' = Drop(s, i) /\ i \in DOMAIN s
    BY <1>1, <1>5
  <2> QED BY <1>2, <2>1, DropTyped
<1>7. \A j \in 1..(n - 1) : \E k \in 1..n :
         k # i /\ w[j] = s[k] /\ (k < i => j = k) /\ (~(k < i) => j = k - 1)
  <2>1. TAKE j \in 1..(n - 1)
  <2>2. i \in Int /\ j \in Int /\ n \in Int /\ 1 <= j /\ j <= n - 1
    BY <1>3
  <2>3. CASE j < i
    <3>1. j \in 1..n /\ j # i
      BY <2>2, <2>3
    <3> QED BY <1>6, <2>3, <3>1
  <2>4. CASE ~(j < i)
    <3>1. j + 1 \in 1..n /\ j + 1 # i /\ ~(j + 1 < i) /\ j = (j + 1) - 1
      BY <2>2, <2>4
    <3> QED BY <1>6, <2>4, <3>1
  <2> QED BY <2>3, <2>4
<1>8. \A k \in 1..n : k # i => \E j \in 1..(n - 1) : w[j] = s[k]
  <2>1. SUFFICES ASSUME NEW k \in 1..n, k # i PROVE \E j \in 1..(n - 1) : w[j] = s[k]
    OBVIOUS
  <2>2. i \in Int /\ k \in Int /\ n \in Int /\ 1 <= i /\ i <= n /\ 1 <= k /\ k <= n
    BY <1>3
  <2>3. CASE k < i
    <3>1. k \in 1..(n - 1)
      BY <2>2, <2>3
    <3> QED BY <1>6, <2>3, <3>1
  <2>4. CASE ~(k < i)
    <3>1. k - 1 \in 1..(n - 1) /\ ~(k - 1 < i) /\ (k - 1) + 1 = k
      BY <2>1, <2>2, <2>4
    <3> QED BY <1>6, <3>1
  <2> QED BY <2>3, <2>4
<1>9. /\ guesses' \in [Cards -> {"on", "off", "none"}]
      /\ \A d \in Cards : d # r.card => guesses'[d] = guesses[d]
      /\ r.at = "failed" /\ r.heard /\ ~r.undo => guesses'[r.card] = "none"
      /\ r.at = "ok" => guesses' = guesses
  BY <1>4, <1>5, CardsTypes
<1>10. /\ outdated' \subseteq Queries
       /\ r.at = "ok" => \A q \in Queries \ outdated' : cached[q] = NoRows
       /\ r.at = "failed" => outdated' = outdated
  BY <1>4, <1>5, InvalidatedTyped, CardsTypes
<1>11. unflips' \subseteq [card : Cards, to : Status]
  BY <1>4, <1>5, CardFacts, CardsTypes
<1>12. CardsTypeOK' /\ RowsKnown'
  BY <1>5, <1>6, <1>9, <1>10, <1>11, SawOffStep, CardsTypes, CardsTyped
<1>13. CheckedWasOff'
  BY <1>5, SawOffStep DEF CardsInv, CheckedWasOff
<1>14. ListIsTrue'
  <2>1. SUFFICES ASSUME NEW c \in steady, NEW q \in Queries \ outdated',
                        c \in DOMAIN cached[q].rows, cardActive[c] # "gone",
                        \A j \in 1..(n - 1) : ~(w[j].card = c /\ w[j].at = "ok")
                 PROVE  cached[q].rows[c] = cardActive[c]
    <3>1. /\ steady' = steady /\ cached' = cached /\ cardActive' = cardActive
          /\ switched' = w /\ DOMAIN w = 1..(n - 1)
      BY <1>5, <1>6
    <3> QED BY <3>1, Zenon DEF ListIsTrue
  <2>2. c \in Cards /\ cached[q] # NoRows
    BY <2>1, CardsTypes, CardFacts DEF NoRows
  <2>3. r.at = "failed" /\ outdated' = outdated
    BY <1>4, <1>10, <2>2
  <2>4. \A k \in 1..n : ~(s[k].card = c /\ s[k].at = "ok")
    BY <1>3, <1>8, <2>1, <2>3
  <2> QED BY <1>1, <1>2, <2>1, <2>3, <2>4 DEF CardsInv, ListIsTrue
<1>15. \A c \in steady : s[i].card = c =>
          /\ r.heard /\ ~r.undo /\ guesses[c] = r.to
          /\ r.at = "ok" /\ cardActive[c] # "gone" => cardActive[c] = r.to
          /\ \A j \in 1..n : s[j].card = c => j = i
  BY <1>1, <1>2, <1>3 DEF CardsInv, RequestDecides
<1>16. GuessIsTrue'
  <2>1. SUFFICES ASSUME NEW c \in steady, guesses'[c] # "none", cardActive[c] # "gone",
                        \A j \in 1..(n - 1) : w[j].card # c
                 PROVE  guesses'[c] = cardActive[c]
    BY <1>5, <1>6 DEF GuessIsTrue, InFlight
  <2>2. c \in Cards
    BY CardsTypes
  <2>3. CASE c = r.card
    <3>1. r.at = "ok"
      BY <1>3, <1>4, <1>9, <1>15, <2>1, <2>3
    <3> QED BY <1>3, <1>9, <1>15, <2>1, <2>3, <3>1
  <2>4. CASE c # r.card
    <3>1. \A k \in 1..n : s[k].card # c
      BY <1>3, <1>8, <2>1, <2>4
    <3>2. c \notin InFlight /\ guesses'[c] = guesses[c]
      BY <1>1, <1>2, <1>9, <2>2, <2>4, <3>1 DEF InFlight
    <3> QED BY <2>1, <3>2 DEF CardsInv, GuessIsTrue
  <2> QED BY <2>3, <2>4
<1>17. RequestDecides'
  <2>1. SUFFICES ASSUME NEW c \in steady, NEW j \in 1..(n - 1), w[j].card = c
        PROVE  /\ w[j].heard /\ ~w[j].undo /\ guesses'[c] = w[j].to
               /\ w[j].at = "ok" /\ cardActive[c] # "gone" => cardActive[c] = w[j].to
               /\ \A m \in 1..(n - 1) : w[m].card = c => m = j
    BY <1>5, <1>6 DEF RequestDecides
  <2>2. PICK k \in 1..n : k # i /\ w[j] = s[k] /\ (k < i => j = k) /\ (~(k < i) => j = k - 1)
    BY <1>7
  <2>3. /\ s[k].heard /\ ~s[k].undo /\ guesses[c] = s[k].to
        /\ s[k].at = "ok" /\ cardActive[c] # "gone" => cardActive[c] = s[k].to
        /\ \A m \in 1..n : s[m].card = c => m = k
    BY <1>1, <1>2, <2>1, <2>2 DEF CardsInv, RequestDecides
  <2>4. c # r.card /\ c \in Cards
    BY <1>3, <2>2, <2>3, CardsTypes
  <2>5. guesses'[c] = guesses[c]
    BY <1>9, <2>4
  <2>6. ASSUME NEW m \in 1..(n - 1), w[m].card = c PROVE m = j
    <3>1. PICK l \in 1..n : w[m] = s[l] /\ (l < i => m = l) /\ (~(l < i) => m = l - 1)
      BY <1>7
    <3>2. l = k
      BY <2>3, <2>6, <3>1
    <3> QED BY <2>2, <3>1, <3>2
  <2> QED BY <2>2, <2>3, <2>5, <2>6
<1> QED BY <1>12, <1>13, <1>14, <1>16, <1>17, SwitchStaysTrue DEF CardsInv

LEMMA CardsNextInv == CardsInv /\ [CardsNext]_policyCardVars => CardsInv'
<1> SUFFICES ASSUME CardsInv, [CardsNext]_policyCardVars PROVE CardsInv'
  OBVIOUS
<1>1. CASE UNCHANGED policyCardVars
  BY <1>1
  DEF policyCardVars, CardsInv, CardsTypeOK, QuietSwitchIsTrue, RowsKnown, ListIsTrue,
      GuessIsTrue, RequestDecides, CheckedWasOff, Listed, Query, InFlight, ShownSwitch
<1>2. CASE CardsNext
  <2>1. CardStep
    BY <1>2 DEF CardsNext
  <2> QED BY <1>2, <2>1, CardsScreenInv, CardsDeletionInv, CardsListInv, CardsOthersInv,
             CardsSwitchInv, CardsAnswerInv, CardsEndsInv
          DEF CardStep
<1> QED BY <1>1, <1>2

(* Only the deletion makes a policy go.                                    *)
LEMMA GoneByDeletion ==
  ASSUME CardsInv, CardsNext, NEW c \in Cards, cardActive[c] # "gone", cardActive'[c] = "gone"
  PROVE  sawOff
<1>1. CASE DeleteCommits
  BY <1>1 DEF DeleteCommits, CardsInv, CheckedWasOff
<1>2. CASE \E d \in Cards : OthersFlip(d)
  <2>1. PICK d \in Cards : cardActive' = [cardActive EXCEPT ![d] = Flip(cardActive[d])]
    BY <1>2 DEF OthersFlip
  <2> QED BY <2>1, CardFacts, CardsTypes
<1>3. CASE \E i \in DOMAIN switched : UpdateStatus(i)
  <2>1. PICK i \in DOMAIN switched : UpdateStatus(i)
    BY <1>3
  <2>2. switched[i] \in Switchings
    BY CardsTypes, Indexed
  <2>3. switched[i].to \in {"on", "off"}
    BY <2>2 DEF Switchings, Status
  <2>4. \/ cardActive' = [cardActive EXCEPT ![switched[i].card] = switched[i].to]
        \/ cardActive' = cardActive
    BY <2>1 DEF UpdateStatus
  <2> QED BY <2>3, <2>4, CardsTypes
<1>4. CASE cardActive' = cardActive
  BY <1>4
<1>5. CardStep
  BY DEF CardsNext
<1> QED
  BY <1>1, <1>2, <1>3, <1>4, <1>5
  DEF CardStep, useListQuery, PoliciesFilterBar, TurnPage, handleToggleActive, PolicyCard,
      UndoSwitch, OfferGoes, SwitchEnds, usePolicyHoldersQuery, CancelDelete,
      handleDeleteConfirm, delete_policy, DeleteEnds

(***************************************************************************)
(* On the policies page, for every set of policies and any number of       *)
(* clicks and foreign writes: switches used one at a time, refused and     *)
(* repeated, filtered away and back, end at what the database holds, and   *)
(* no policy is deleted that was active from the click on Delete on.       *)
(***************************************************************************)
THEOREM CardsAlwaysSafe == CardsSpec => CardsSafe
<1>1. CardsInv => CardsTypeOK /\ QuietSwitchIsTrue
  BY DEF CardsInv
<1>2. CardsInv /\ [CardsNext]_policyCardVars
      => [\A c \in Cards : cardActive[c] # "gone" /\ cardActive'[c] = "gone" => sawOff]_policyCardVars
  BY GoneByDeletion
<1> QED BY <1>1, <1>2, CardsInitInv, CardsNextInv, PTL DEF CardsSpec, CardsSafe, DeletedWasOff
=============================================================================
