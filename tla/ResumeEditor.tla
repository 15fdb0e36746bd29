---------------------------- MODULE ResumeEditor ----------------------------
(***************************************************************************)
(* The resume builder page (app/resume_builder): one browser tab that      *)
(* opens workspaces one after the other, and the server's revisions.       *)
(*                                                                         *)
(* The editor's store is one for the whole tab.  After every render an     *)
(* effect adopts the revision of the query cache when the store has no     *)
(* unsaved edit and another revision id, so it is part of every step       *)
(* (Render).  A timer saves 1.2 s after the last render with unsaved       *)
(* edits; any render starts it again, so it may fire whenever the page     *)
(* has such edits.                                                         *)
(*                                                                         *)
(* A document is the workspace it came from and the edits it contains; the *)
(* edit 0 is a rewriting by the AI.  The server's handlers are atomic      *)
(* here: ResumeWorkspaces has their interleavings.                         *)
(***************************************************************************)
EXTENDS Naturals, Sequences, FiniteSets

CONSTANTS
    Pages,     \* the workspaces
    NoPage,    \* the page is not open
    MaxEdits,  \* bound: edits typed
    MaxPuts,   \* bound: documents sent
    MaxVisits, \* bound: times the page is opened
    MaxActs    \* bound: generations, previews, restores and approvals

ASSUME BuilderAssumption ==
    /\ IsFiniteSet(Pages) /\ NoPage \notin Pages
    /\ MaxEdits \in Nat /\ MaxPuts \in Nat /\ MaxVisits \in Nat /\ MaxActs \in Nat

VARIABLES
    revs,         \* all revisions by id: the workspace and the document
    current,      \* current_revision_id of each workspace
    approved,     \* the approved workspaces
    openPage,     \* the workspace whose page is open
    cache,        \* what the query holds of each workspace; id 0 is nothing
    builderFetch, \* its request
    editor,       \* useResumeEditorStore
    proposal,     \* the refinement on show; <<>> is none
    sends,        \* requests that write: saves, accepted proposals, restores
    generating,   \* workspaces with a generation job
    typedEdits,   \* history: edits typed into each workspace and not undone
    unseen,       \* history: revisions made elsewhere, not yet shown here
    strayed,      \* history: an answer marked another workspace's document saved
    edits, puts, visits, acts

builderVars == <<revs, current, approved, openPage, cache, builderFetch, editor,
                 proposal, sends, generating, typedEdits, unseen, strayed, edits,
                 puts, visits, acts>>
builderServer == <<revs, current, approved>>
builderView == <<openPage, cache, builderFetch, proposal>>
bounds == <<edits, puts, visits, acts>>
histories == <<typedEdits, strayed>>

Documents == [of : Pages, edits : SUBSET (0..MaxEdits)]
NoDocument == [of |-> NoPage, edits |-> {}]
Cached == [id : Nat, approved : BOOLEAN]
IdleFetch == [at |-> "idle", id |-> 0, approved |-> FALSE]
Asked == [IdleFetch EXCEPT !.at = "sent"]

BuilderTypeOK ==
    /\ \A i \in DOMAIN revs : revs[i] \in [w : Pages, doc : Documents]
    /\ \A w \in Pages : current[w] \in DOMAIN revs
    /\ approved \subseteq Pages /\ generating \subseteq Pages
    /\ openPage \in Pages \cup {NoPage}
    /\ \A w \in Pages : cache[w] \in Cached /\ cache[w].id \in 0..Len(revs)
    /\ \A w \in Pages : builderFetch[w] \in [at : {"idle", "sent", "read"}, id : Nat,
                                      approved : BOOLEAN]
    /\ editor.doc \in Documents \cup {NoDocument} /\ editor.saved \in 0..Len(revs)
    /\ editor.dirty \in BOOLEAN
    /\ \A i \in DOMAIN editor.undo : editor.undo[i] \in Documents
    /\ \A i \in DOMAIN editor.redo : editor.redo[i] \in Documents
    /\ proposal \in {<<>>} \cup {<<d>> : d \in Documents}
    /\ \A s \in sends : s \in [n : 1..MaxPuts + MaxActs, w : Pages, doc : Documents,
                               expected : 0..Len(revs), id : Nat,
                               kind : {"save", "accept", "restore"},
                               at : {"sent", "ok", "failed", "refetching"}]
    /\ \A w \in Pages : typedEdits[w] \subseteq 1..MaxEdits
    /\ unseen \subseteq DOMAIN revs /\ strayed \in BOOLEAN

BuilderInit ==
    /\ current = CHOOSE f \in [Pages -> 1..Cardinality(Pages)] :
                    \A v, w \in Pages : f[v] = f[w] => v = w
    /\ \E order \in [1..Cardinality(Pages) -> Pages] :
          /\ \A w \in Pages : order[current[w]] = w
          /\ revs = [i \in DOMAIN order |->
                       [w |-> order[i], doc |-> [of |-> order[i], edits |-> {}]]]
    /\ approved = {} /\ openPage = NoPage
    /\ cache = [w \in Pages |-> [id |-> 0, approved |-> FALSE]]
    /\ builderFetch = [w \in Pages |-> IdleFetch]
    /\ editor = [doc |-> NoDocument, saved |-> 0, dirty |-> FALSE,
                 undo |-> <<>>, redo |-> <<>>]
    /\ proposal = <<>> /\ sends = {} /\ generating = {}
    /\ typedEdits = [w \in Pages |-> {}] /\ unseen = {} /\ strayed = FALSE
    /\ edits = 0 /\ puts = 0 /\ visits = 0 /\ acts = 0

-----------------------------------------------------------------------------
(* The store *)

setDocument(doc, id) ==
    [doc |-> doc, saved |-> id, dirty |-> FALSE, undo |-> <<>>, redo |-> <<>>]

markSaved(id) ==
    [editor EXCEPT !.saved = id, !.dirty = FALSE, !.undo = <<>>, !.redo = <<>>]

\* The effect that adopts the query's revision.
Adopt(store, w, query) ==
    IF /\ w # NoPage /\ query.id # 0
       /\ store.doc = NoDocument \/ (~store.dirty /\ store.saved # query.id)
    THEN setDocument(revs[query.id].doc, query.id)
    ELSE store

\* Every step that changes the store or the cache ends with a render; page'
\* and cache' are given before it.
Render(store) ==
    /\ editor' = Adopt(store, openPage',
                       IF openPage' = NoPage THEN IdleFetch ELSE cache'[openPage'])
    /\ unseen' = IF editor'.saved = store.saved THEN unseen ELSE unseen \ {editor'.saved}

PageLoaded == openPage # NoPage /\ cache[openPage].id # 0
Editable == PageLoaded /\ ~cache[openPage].approved /\ editor.doc # NoDocument

-----------------------------------------------------------------------------
(* The page and its query *)

\* A cached workspace is fetched again unless it is less than 30 s old.
OpenBuilder(w) ==
    /\ openPage = NoPage /\ visits < MaxVisits /\ visits' = visits + 1
    /\ openPage' = w /\ UNCHANGED cache
    /\ \/ builderFetch' = [builderFetch EXCEPT ![w] = Asked]
       \/ cache[w].id # 0 /\ UNCHANGED builderFetch
    /\ Render(editor)
    /\ UNCHANGED <<builderServer, proposal, sends, generating, histories, edits,
                   puts, acts>>

\* Back: the timer and the proposal go, the store stays as it is.  Requests go
\* on; an accepted one puts no proposal away any more.
LeaveBuilder ==
    /\ openPage # NoPage /\ openPage' = NoPage /\ proposal' = <<>>
    /\ sends' = {[s EXCEPT !.kind = IF @ = "accept" THEN "save" ELSE @] :
                 s \in {t \in sends : t.at # "refetching"}}
    /\ UNCHANGED <<builderServer, cache, builderFetch, editor, generating,
                   histories, unseen, bounds>>

get_workspace(w) ==
    /\ builderFetch[w].at = "sent"
    /\ builderFetch' = [builderFetch EXCEPT ![w] = [at |-> "read", id |-> current[w],
                                      approved |-> w \in approved]]
    /\ UNCHANGED <<builderServer, openPage, cache, editor, proposal, sends,
                   generating, histories, unseen, bounds>>

\* A failed fetch leaves the cache as it was.
WorkspaceFetched(w) ==
    /\ builderFetch[w].at = "read" /\ builderFetch' = [builderFetch EXCEPT ![w] = IdleFetch]
    /\ \/ cache' = [cache EXCEPT ![w] = [id |-> builderFetch[w].id,
                                         approved |-> builderFetch[w].approved]]
       \/ UNCHANGED cache
    /\ UNCHANGED openPage
    /\ Render(editor)
    /\ UNCHANGED <<builderServer, proposal, sends, generating, histories, bounds>>

-----------------------------------------------------------------------------
(* Editing *)

\* Every change of the canvas, the inspector or the style goes through update.
\* A proposal on show does not disable the inspector.
updateDocument ==
    /\ Editable /\ edits < MaxEdits /\ edits' = edits + 1
    /\ editor' = [editor EXCEPT !.doc.edits = @ \cup {edits'}, !.dirty = TRUE,
                                !.undo = Append(@, editor.doc), !.redo = <<>>]
    /\ typedEdits' = [typedEdits EXCEPT ![openPage] = @ \cup {edits'}]
    /\ UNCHANGED <<builderServer, builderView, sends, generating, unseen, strayed,
                   puts, visits, acts>>

undoChange ==
    LET n == Len(editor.undo)
    IN /\ Editable /\ proposal = <<>> /\ n > 0
       /\ editor' = [editor EXCEPT !.doc = editor.undo[n],
                                   !.undo = SubSeq(@, 1, n - 1),
                                   !.redo = <<editor.doc>> \o @, !.dirty = TRUE]
       /\ typedEdits' = [typedEdits EXCEPT ![openPage] = @ \ (editor.doc.edits \ editor'.doc.edits)]
       /\ UNCHANGED <<builderServer, builderView, sends, generating, unseen, strayed,
                      bounds>>

redoChange ==
    /\ Editable /\ proposal = <<>> /\ editor.redo # <<>>
    /\ editor' = [editor EXCEPT !.doc = Head(editor.redo), !.redo = Tail(@),
                                !.undo = Append(@, editor.doc), !.dirty = TRUE]
    /\ typedEdits' = [typedEdits EXCEPT ![openPage] = @ \cup (editor'.doc.edits \ editor.doc.edits)]
    /\ UNCHANGED <<builderServer, builderView, sends, generating, unseen, strayed,
                   bounds>>

-----------------------------------------------------------------------------
(* Saving *)

currentRevisionId == IF editor.saved # 0 THEN editor.saved ELSE cache[openPage].id

Posts(kind, doc) ==
    sends' = sends \cup {[n |-> puts + acts + 1, w |-> openPage, doc |-> doc, id |-> 0,
                          expected |-> currentRevisionId, kind |-> kind, at |-> "sent"]}
Put(kind, doc) ==
    /\ puts < MaxPuts /\ puts' = puts + 1 /\ Posts(kind, doc)
    /\ UNCHANGED <<builderServer, builderView, editor, generating, histories,
                   unseen, edits, visits>>

\* The timer, also while the page still loads, and the Save button.
save ==
    /\ openPage # NoPage /\ editor.dirty /\ ~cache[openPage].approved
    /\ Put("save", editor.doc) /\ UNCHANGED acts

acceptProposal ==
    /\ PageLoaded /\ proposal # <<>> /\ ~cache[openPage].approved
    /\ Put("accept", proposal[1]) /\ UNCHANGED acts

\* As if the expected revision were not compared.
RefusesApproved(s) == s.w \in approved

\* The server takes a document over the revision the sender has seen, and
\* restores a revision over any.
Refuses(s) == s.w \in approved \/ (s.kind # "restore" /\ s.expected # current[s.w])
Revise(w, doc) ==
    /\ revs' = Append(revs, [w |-> w, doc |-> doc])
    /\ current' = [current EXCEPT ![w] = Len(revs')]

\* The answer to a document that was taken may also be lost.
save_document(s) ==
    /\ s.at = "sent"
    /\ \/ /\ ~Refuses(s) /\ Revise(s.w, s.doc) /\ UNCHANGED approved
          /\ \E got \in {"ok", "failed"} :
                sends' = (sends \ {s}) \cup {[s EXCEPT !.at = got, !.id = Len(revs')]}
       \/ /\ sends' = (sends \ {s}) \cup {[s EXCEPT !.at = "failed"]}
          /\ UNCHANGED builderServer
    /\ UNCHANGED <<builderView, editor, generating, histories, unseen, bounds>>

\* markSaved marks the whole store, whatever it holds by now, and whichever
\* page is open; the query is fetched again after it.
SaveEnds(s) ==
    /\ s.at \in {"ok", "failed"} /\ s.kind # "restore"
    /\ UNCHANGED <<openPage, cache>>
    /\ IF s.at = "ok"
       THEN /\ Render(markSaved(s.id))
            /\ strayed' = (strayed \/ (editor'.saved = s.id /\ editor'.doc.of # s.w))
            /\ builderFetch' = [builderFetch EXCEPT ![s.w] = Asked]
            /\ sends' = (sends \ {s}) \cup (IF s.kind = "accept"
                                             THEN {[s EXCEPT !.at = "refetching"]} ELSE {})
       ELSE sends' = sends \ {s} /\ UNCHANGED <<editor, builderFetch, unseen, strayed>>
    /\ UNCHANGED <<builderServer, proposal, generating, typedEdits, bounds>>

\* The restored revision goes into the store, whichever page is open; only the
\* list of revisions is fetched again.
RestoreEnds(s) ==
    /\ s.at \in {"ok", "failed"} /\ s.kind = "restore" /\ sends' = sends \ {s}
    /\ UNCHANGED <<openPage, cache>>
    /\ IF s.at = "ok" THEN Render(setDocument(s.doc, s.id)) ELSE UNCHANGED <<editor, unseen>>
    /\ UNCHANGED <<builderServer, builderFetch, proposal, generating, histories, bounds>>

\* An accepted proposal is put away when its fetch has ended.
AcceptEnds(s) ==
    /\ s.at = "refetching" /\ builderFetch[s.w].at = "idle"
    /\ sends' = sends \ {s} /\ proposal' = <<>>
    /\ UNCHANGED <<builderServer, openPage, cache, builderFetch, editor,
                   generating, histories, unseen, bounds>>

-----------------------------------------------------------------------------
(* Refine, restore, approve and generate *)

Act == Editable /\ acts < MaxActs /\ acts' = acts + 1 /\ UNCHANGED <<edits, puts,
                                                                     visits>>
Rewritten(w) == [revs[current[w]].doc EXCEPT !.edits = @ \cup {0}]

\* The proposal rewrites the server's current revision.
previewRefinement ==
    /\ Act /\ openPage \notin approved
    /\ proposal' = <<Rewritten(openPage)>>
    /\ UNCHANGED <<builderServer, openPage, cache, builderFetch, editor, sends,
                   generating, histories, unseen>>

closeProposal ==
    /\ proposal # <<>> /\ proposal' = <<>>
    /\ UNCHANGED <<builderServer, openPage, cache, builderFetch, editor, sends,
                   generating, histories, unseen, bounds>>

\* A click in the list of revisions: unsaved edits are given up with it.
restore_revision(id) ==
    /\ Act /\ revs[id].w = openPage /\ id # currentRevisionId
    /\ Posts("restore", revs[id].doc)
    /\ typedEdits' = [typedEdits EXCEPT ![openPage] = {}]
    /\ UNCHANGED <<builderServer, builderView, editor, generating, unseen, strayed>>

approve_workspace ==
    /\ Act /\ approved' = approved \cup {openPage}
    /\ builderFetch' = [builderFetch EXCEPT ![openPage] = Asked]
    /\ UNCHANGED <<revs, current, openPage, cache, proposal, editor, sends,
                   generating, histories, unseen>>

generate ==
    /\ Act /\ openPage \notin approved /\ generating' = generating \cup {openPage}
    /\ UNCHANGED <<builderServer, builderView, editor, sends, histories, unseen>>

\* The job ends, and the page that waits for it, open or not, fetches again.
GenerateEnds(w) ==
    /\ w \in generating /\ generating' = generating \ {w}
    /\ \/ /\ w \notin approved /\ Revise(w, Rewritten(w)) /\ UNCHANGED approved
          /\ unseen' = unseen \cup {current'[w]}
          /\ builderFetch' = [builderFetch EXCEPT ![w] = Asked]
       \/ UNCHANGED <<builderServer, unseen, builderFetch>>
    /\ UNCHANGED <<openPage, cache, proposal, editor, sends, histories, bounds>>

BuilderNext ==
    \/ \E w \in Pages : \/ OpenBuilder(w) \/ get_workspace(w) \/ WorkspaceFetched(w)
                        \/ GenerateEnds(w)
    \/ LeaveBuilder
    \/ updateDocument \/ undoChange \/ redoChange
    \/ save \/ acceptProposal
    \/ \E s \in sends : save_document(s) \/ SaveEnds(s) \/ RestoreEnds(s) \/ AcceptEnds(s)
    \/ previewRefinement \/ closeProposal
    \/ \E id \in DOMAIN revs : restore_revision(id)
    \/ approve_workspace \/ generate

BuilderSpec == BuilderInit /\ [][BuilderNext]_builderVars

-----------------------------------------------------------------------------
(* Properties *)

\* "Each workspace keeps the job description, selected template, current
\* structured document, and revision history together" (docs/app/resumes/overview.md:5):
\* no workspace gets a revision made of another one's document.  Does not hold
\* once a page is opened a third time (MaxVisits = 3): an accepted proposal whose
\* answer comes after its page was left marks the document of the workspace opened
\* since, and the page of the first then takes it for its own.
NoForeignDocument ==
    [][\A i \in DOMAIN revs' \ DOMAIN revs : revs'[i].doc.of = revs'[i].w]_builderVars

\* The store is shared by all workspaces and keeps unsaved edits when the page
\* is left, so another workspace's page may show and send them: no workspace
\* gets a revision made of another one's document, unless the answer to a save
\* marked the document of another workspace.
ForeignOnlyIfStrayed ==
    [][strayed \/ \A i \in DOMAIN revs' \ DOMAIN revs : revs'[i].doc.of = revs'[i].w]_builderVars

\* A save or an accepted proposal never replaces a revision that a generation
\* made and this tab has not shown: it is refused instead.
UnseenIsKept ==
    [][\A s \in sends : /\ save_document(s) /\ s.kind # "restore"
                        /\ current'[s.w] # current[s.w]
                       => current[s.w] \notin unseen]_builderVars

\* "Shape the content, tune the layout, and keep every change as a revision"
\* (ResumeBuilderPage.tsx:102): once the page says "Saved" and nothing is under
\* way, each edit typed into it and not undone is in one of its revisions.
EveryChangeKept ==
    PageLoaded /\ ~editor.dirty /\ sends = {} /\ builderFetch[openPage].at = "idle"
    => \A e \in typedEdits[openPage] :
          \E i \in DOMAIN revs : revs[i].w = openPage /\ e \in revs[i].doc.edits

\* What the page and the server keep of documents together.
BuilderSafe == []BuilderTypeOK /\ ForeignOnlyIfStrayed /\ UnseenIsKept

-----------------------------------------------------------------------------
(* The inductive invariant *)

RevisionOf(id, w) == id \in DOMAIN revs /\ revs[id].w = w

BuilderServerOK ==
    /\ revs \in Seq([w : Pages, doc : Documents])
    /\ current \in [Pages -> Nat] /\ \A w \in Pages : RevisionOf(current[w], w)
    /\ approved \subseteq Pages /\ unseen \subseteq DOMAIN revs

BuilderQueriesOK ==
    /\ cache \in [Pages -> Cached]
    /\ builderFetch \in [Pages -> [at : {"idle", "sent", "read"}, id : Nat,
                                   approved : BOOLEAN]]
    /\ \A w \in Pages : cache[w].id # 0 => RevisionOf(cache[w].id, w)
    /\ \A w \in Pages : builderFetch[w].at = "read" => RevisionOf(builderFetch[w].id, w)

\* Undo and redo stay with one revision: its workspace, and the AI's hand in it.
Kin(d) == {e \in Documents : e.of = d.of /\ (0 \in e.edits <=> 0 \in d.edits)}

StoreOK(store) ==
    /\ store \in [doc : Documents \cup {NoDocument}, saved : Nat, dirty : BOOLEAN,
                  undo : Seq(Kin(store.doc)), redo : Seq(Kin(store.doc))]
    /\ store.saved = 0 <=> store.doc = NoDocument
    /\ store.saved = 0 => ~store.dirty
    /\ store.saved # 0 => store.saved \in DOMAIN revs

BuilderPageOK ==
    /\ openPage \in Pages \cup {NoPage} /\ generating \subseteq Pages
    /\ proposal \in {<<>>} \cup {<<d>> : d \in Documents}
    /\ typedEdits \in [Pages -> SUBSET (1..MaxEdits)] /\ strayed \in BOOLEAN
    /\ edits \in 0..MaxEdits /\ puts \in 0..MaxPuts /\ acts \in 0..MaxActs
    /\ PageLoaded => editor.saved # 0

BuilderSendsOK ==
    \A s \in sends :
       /\ s \in [n : 1..puts + acts, w : Pages, doc : Documents, expected : Nat, id : Nat,
                 kind : {"save", "accept", "restore"},
                 at : {"sent", "ok", "failed", "refetching"}]
       /\ s.expected \in DOMAIN revs
       /\ s.id # 0 => RevisionOf(s.id, s.w)
       /\ s.at \in {"ok", "refetching"} => s.id # 0
       /\ editor.saved # 0

\* Nothing this tab holds or has sent names a revision it has not shown.
UnseenElsewhere ==
    /\ editor.saved \notin unseen
    /\ \A s \in sends : s.expected \notin unseen /\ s.id \notin unseen

\* A save names the workspace of its document by the revision it expects.
DocumentsAtHome ==
    ~strayed =>
       /\ \A i \in DOMAIN revs : revs[i].doc.of = revs[i].w
       /\ editor.saved # 0 => editor.doc.of = revs[editor.saved].w
       /\ proposal # <<>> => proposal[1].of = openPage
       /\ \A s \in sends : \/ s.doc.of = s.w
                           \/ s.kind = "save" /\ s.doc.of = revs[s.expected].w

BuilderInv ==
    /\ BuilderServerOK /\ BuilderQueriesOK /\ StoreOK(editor) /\ BuilderPageOK
    /\ BuilderSendsOK /\ UnseenElsewhere /\ DocumentsAtHome
=============================================================================
