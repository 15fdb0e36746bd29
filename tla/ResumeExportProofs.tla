------------------------ MODULE ResumeExportProofs ------------------------
(***************************************************************************)
(* Proofs about ResumeExport.  A step of the export subsystem is a step of *)
(* the workspace model or leaves its variables alone, so everything proved *)
(* of ResumeWorkspaces holds here too; StepFacts sums up what any of its   *)
(* steps may do to revisions and workspaces, and the proofs below cite it  *)
(* in place of the workspace's actions.  The last part is about            *)
(* ResumeRender, the rendering every export calls.                         *)
(***************************************************************************)
EXTENDS ResumeExport, ResumeRender, ResumeWorkspacesProofs

(* Every step but a deletion keeps the revisions and the workspaces, and   *)
(* adds a revision, if any, under the next id, within the bound.           *)
Keeps ==
  /\ revs \subseteq revs'
  /\ \A v \in revs' : v \in revs \/ (v.id = nextId /\ nextId <= MaxRevision)
  /\ nextId' >= nextId
  /\ \A w \in Workspace : Live(w) => Live(w)'

LEMMA InsertKeeps ==
  ASSUME IInv, NEW w, NEW n, NEW ok, NEW by, NEW basis, NEW j,
         Insert(w, n, ok, by, basis, j), \A x \in Workspace : Live(x) => Live(x)'
  PROVE  Keeps
BY DEF Insert, Keeps, IInv, TypeOK

LEMMA StillKeeps ==
  ASSUME IInv, UNCHANGED <<revs, nextId>>,
         \A x \in Workspace : Live(x) => Live(x)'
  PROVE  Keeps
BY DEF Keeps, IInv, TypeOK

LEMMA StepFacts ==
  ASSUME IInv,
         \/ \E w \in Workspace : CreateWorkspace(w) \/ ApproveWorkspace(w)
         \/ \E r \in Request : RequestStep(r)
         \/ \E j \in Job : TaskStep(j) \/ WorkerDies(j)
  PROVE  Keeps
<1>1. ASSUME NEW w \in Workspace, CreateWorkspace(w) PROVE Keeps
  <2>1. \A x \in Workspace : Live(x) => Live(x)'
    BY <1>1 DEF CreateWorkspace, Live, IInv, TypeOK
  <2> QED BY <1>1, <2>1, InsertKeeps DEF CreateWorkspace
<1>2. ASSUME NEW w \in Workspace, ApproveWorkspace(w) PROVE Keeps
  <2>1. \A x \in Workspace : Live(x) => Live(x)'
    BY <1>2 DEF ApproveWorkspace, Live, IInv, TypeOK
  <2> QED BY <1>2, <2>1, StillKeeps DEF ApproveWorkspace
<1>3. ASSUME NEW r \in Request, RequestStep(r) PROVE Keeps
  <2>1. \A x \in Workspace : Live(x) => Live(x)'
    BY <1>3 DEF RequestStep, SaveRead, AskModel, RestoreRead, QueueRead,
       ModelAnswers, SelectNumber, SaveCommits, SaveConflicts, RequestEnds,
       QueueCommits, DeferJob, Live
  <2>2. CASE SaveCommits(r)
    BY <2>1, <2>2, InsertKeeps DEF SaveCommits
  <2>3. CASE ~SaveCommits(r)
    BY <1>3, <2>1, <2>3, StillKeeps DEF RequestStep, SaveRead, AskModel, RestoreRead,
       QueueRead, ModelAnswers, SelectNumber, SaveConflicts, RequestEnds,
       QueueCommits, DeferJob
  <2> QED BY <2>2, <2>3
<1>4. ASSUME NEW j \in Job, TaskStep(j) \/ WorkerDies(j) PROVE Keeps
  <2>1. \A x \in Workspace : Live(x) => Live(x)'
    BY <1>4 DEF TaskStep, ClaimJob, LoadJob, JobSucceeds, JobConflicts, JobFails,
       JobRowGone, WorkerDies, Live
  <2>2. ASSUME NEW ok \in BOOLEAN, JobSucceeds(j, ok) PROVE Keeps
    BY <2>1, <2>2, InsertKeeps DEF JobSucceeds
  <2>3. CASE ClaimJob(j) \/ LoadJob(j) \/ JobConflicts(j) \/ JobFails(j)
             \/ JobRowGone(j) \/ WorkerDies(j)
    BY <2>1, <2>3, StillKeeps DEF ClaimJob, LoadJob, JobConflicts, JobFails,
       JobRowGone, WorkerDies
  <2> QED BY <1>4, <2>2, <2>3 DEF TaskStep
<1> QED BY <1>1, <1>2, <1>3, <1>4

---------------------------------------------------------------------------
(* The workspace model underneath *)

(* What the export subsystem does to workspaces, revisions and jobs is a   *)
(* step of ResumeWorkspaces, or none.                                      *)
LEMMA StepIsWorkspaceStep ==
  ASSUME [ExportNext]_<<vars, xvars>>
  PROVE  [Next]_vars
<1>1. CASE WorkspaceStep
  BY <1>1 DEF WorkspaceStep, Next
<1>2. CASE UNCHANGED vars
  BY <1>2
<1>3. ASSUME NEW p \in Proc, ExportTaskStep(p) \/ ExportDies(p) PROVE UNCHANGED vars
  BY <1>3 DEF ExportTaskStep, FindArtifact, BeginWrite, RenderFails, EndWrite,
     CommitStored, CommitFound, CommitConflicts, ExportDies
<1> QED
  BY <1>1, <1>2, <1>3
     DEF ExportNext, ExportRead, QueueExport, DeferExport, ClaimExport,
         LoadExport, DeleteApp

(* Every behaviour of the export subsystem is one of ResumeWorkspaces.     *)
THEOREM ExportImplementsWorkspaces == ExportSpec => Spec
<1>1. ExportInit => Init
  BY DEF ExportInit
<1> QED BY <1>1, StepIsWorkspaceStep, PTL DEF ExportSpec, Spec

---------------------------------------------------------------------------
(* Helpers *)

(* Ids identify revisions.                                                 *)
LEMMA RowIsRevision ==
  ASSUME IInv, NEW v \in revs
  PROVE  RevisionRow(v.id) = v
BY DEF RevisionRow, IInv, HistoryOK, IdsUnique

(* The current revision of a live workspace is one of its own.             *)
LEMMA CurrentRow ==
  ASSUME ExportInv, NEW w \in Workspace, Live(w)
  PROVE  \E v \in revs : /\ v = RevisionRow(current[w])
                         /\ v.id = current[w] /\ v.ws = w
                         /\ v.id \in RevisionId /\ v.id < nextId
                         /\ v.valid \in BOOLEAN
<1>1. PICK v \in revs : v.ws = w /\ v.id = current[w]
  BY DEF ExportInv, IInv, HistoryOK, CurrentIsNewest
<1>2. RevisionRow(v.id) = v
  BY RowIsRevision DEF ExportInv
<1>3. v.id \in RevisionId /\ v.id < nextId /\ v.valid \in BOOLEAN
  BY DEF ExportInv, FilesOK, IInv, IdsBelowNext, TypeOK, Revision
<1> QED BY <1>1, <1>2, <1>3

(* A sequence that ends no longer works on a revision.                     *)
LEMMA EndFacts ==
  ASSUME ExportInv, NEW p \in Proc, NEW stage \in {"over", "conflict", "died"},
         End(p, stage)
  PROVE  \E q \in ProcState : /\ proc' = [proc EXCEPT ![p] = q]
                              /\ proc'[p] = q
                              /\ ~Working(p)' /\ q.phase # "writing"
<1> DEFINE q == IF p \in RenderJob THEN [IdleProc EXCEPT !.phase = stage] ELSE IdleProc
<1>1. q \in ProcState /\ q.phase \in {stage, "idle"}
  BY DEF IdleProc, ProcState
<1>2. proc' = [proc EXCEPT ![p] = q] /\ proc \in [Proc -> ProcState]
  BY DEF End, ExportInv, ExportJobsOK, ExportTypeOK
<1> HIDE DEF q
<1>3. proc'[p] = q
  BY <1>2
<1> QED BY <1>1, <1>2, <1>3 DEF Working

(* What the exports in flight know survives the steps of the others: rows  *)
(* and files that exist stay, and nobody else writes their job row.        *)
LEMMA OtherProcsKnow ==
  ASSUME ExportInv, NEW p \in Proc, UNCHANGED vars,
         \A r \in Proc : r # p => proc'[r] = proc[r],
         artifacts \subseteq artifacts',
         \A v \in RevisionId : store[v] # "absent" => store'[v] # "absent",
         \A j \in RenderJob : j # p => rjob'[j] = rjob[j],
         Working(p)' => ProcKnows(p)'
  PROVE  ProcsKnow'
<1> SUFFICES ASSUME NEW r \in Proc, r # p, Working(r)'
             PROVE  ProcKnows(r)'
  BY DEF ProcsKnow
<1>1. proc'[r] = proc[r] /\ Working(r) /\ ProcKnows(r)
  BY DEF Working, ExportInv, ProcsKnow
<1>2. revs' = revs /\ nextId' = nextId
  BY DEF vars
<1>3. proc[r].rev \in RevisionId /\ (store[proc[r].rev] # "absent" => store'[proc[r].rev] # "absent")
  BY <1>1 DEF ProcKnows
<1> QED BY <1>1, <1>2, <1>3 DEF ProcKnows, RevisionExists

(* The workspace's invariant when only the export subsystem moves.         *)
LEMMA WorkspaceKept ==
  ASSUME ExportInv, UNCHANGED vars
  PROVE  /\ IInv' /\ TypeOK'
         /\ status' = status /\ current' = current /\ revs' = revs /\ nextId' = nextId
<1>1. IInv'
  BY StutterIInv DEF ExportInv
<1> QED BY <1>1 DEF IInv, vars

---------------------------------------------------------------------------
(* The kinds of step *)

(* Steps that move one export on, and at most its own job row.             *)
LEMMA ProcMoves ==
  ASSUME ExportInv, DeferredOnce', NEW p \in Proc, NEW q \in ProcState,
         UNCHANGED <<vars, artifacts, store, app>>,
         rqueue' \subseteq RenderJob,
         proc' = [proc EXCEPT ![p] = q],
         proc[p].phase # "writing",
         Working(p)' => ProcKnows(p)',
         rjob' \in [RenderJob -> JobRow],
         \A j \in RenderJob : j # p => rjob'[j] = rjob[j],
         p \in RenderJob =>
           \/ rjob'[p] = rjob[p]
           \/ /\ rjob'[p].status # "succeeded"
              /\ rjob'[p].ws \in Workspace /\ Live(rjob'[p].ws)
  PROVE  ExportInv'
<1>1. /\ IInv' /\ TypeOK' /\ status' = status /\ revs' = revs /\ UNCHANGED vars
  BY WorkspaceKept
<1>2. \A r \in Proc : r # p => proc'[r] = proc[r]
  BY DEF ExportInv, ExportJobsOK, ExportTypeOK
<1>3. ExportTypeOK'
  BY <1>1 DEF ExportInv, ExportJobsOK, ExportTypeOK
<1>4. SucceededIsDownloadable'
  BY <1>1 DEF ExportInv, ExportJobsOK, SucceededIsDownloadable
<1>5. FilesOK'
  <2>1. \A v \in RevisionId : Writing(v) => Writing(v)'
    BY <1>2 DEF Writing
  <2> QED BY <1>1, <2>1 DEF ExportInv, FilesOK
<1>6. ArtifactsOK' /\ SnapshotsStored'
  BY <1>1 DEF ExportInv, ArtifactsOK, SnapshotsStored
<1>7. ExportRowsLive'
  BY <1>1 DEF ExportInv, ExportRowsLive, Live
<1>8. ProcsKnow'
  BY <1>1, <1>2, OtherProcsKnow
<1>9. ApplicationSurvives'
  <2>1. \A v \in RevisionId : Writing(v) => Writing(v)'
    BY <1>2 DEF Writing
  <2> QED BY <1>1, <2>1 DEF ExportInv, ApplicationSurvives, SnapshotsStored, Live
<1> QED BY <1>1, <1>3, <1>4, <1>5, <1>6, <1>7, <1>8, <1>9 DEF ExportInv, ExportJobsOK

(* A step of a writer on the file of its revision.                         *)
LEMMA FileMoves ==
  ASSUME ExportInv, DeferredOnce', NEW p \in Proc, NEW q \in ProcState, NEW whole \in {"partial", "full"},
         UNCHANGED <<vars, artifacts, rjob, rqueue, app>>,
         proc' = [proc EXCEPT ![p] = q],
         Working(p), Working(p)' /\ ProcKnows(p)',
         q.rev = proc[p].rev,
         store' = [store EXCEPT ![q.rev] = whole],
         whole = "partial" => q.phase = "writing"
  PROVE  ExportInv'
<1>1. /\ IInv' /\ TypeOK' /\ status' = status /\ revs' = revs /\ UNCHANGED vars
  BY WorkspaceKept
<1>2. /\ \A r \in Proc : r # p => proc'[r] = proc[r]
      /\ proc'[p] = q /\ q.rev \in RevisionId
      /\ store'[q.rev] = whole
      /\ \A v \in RevisionId : v # q.rev => store'[v] = store[v]
      /\ \A v \in RevisionId : store[v] # "absent" => store'[v] # "absent"
  BY DEF ExportInv, ExportJobsOK, ExportTypeOK, ProcsKnow, ProcKnows
<1>3. ExportTypeOK'
  BY <1>1, <1>2 DEF ExportInv, ExportJobsOK, ExportTypeOK
<1>4. SucceededIsDownloadable'
  BY <1>1 DEF ExportInv, ExportJobsOK, SucceededIsDownloadable
<1>5. \A v \in RevisionId : store'[v] = "partial" => Writing(v)'
  <2> SUFFICES ASSUME NEW v \in RevisionId, store'[v] = "partial"
               PROVE  Writing(v)'
    OBVIOUS
  <2>1. CASE v = q.rev
    BY <2>1, <1>2 DEF Writing
  <2>2. CASE v # q.rev
    BY <2>2, <1>2 DEF ExportInv, FilesOK, Writing
  <2> QED BY <2>1, <2>2
<1>6. FilesOK'
  BY <1>1, <1>5 DEF ExportInv, FilesOK
<1>7. ArtifactsOK' /\ SnapshotsStored'
  BY <1>1, <1>2 DEF ExportInv, ArtifactsOK, SnapshotsStored,
     ExportJobsOK, ExportTypeOK
<1>8. ExportRowsLive'
  BY <1>1 DEF ExportInv, ExportRowsLive, Live
<1>9. ProcsKnow'
  BY <1>1, <1>2, OtherProcsKnow
<1>10. ApplicationSurvives'
  <2>1. \A a \in App : app[a].state = "saved" =>
          store'[app[a].pdf] = "full" \/ Writing(app[a].pdf)'
    BY <1>3, <1>5, <1>7 DEF SnapshotsStored, ExportTypeOK
  <2> QED BY <1>1, <2>1 DEF ExportInv, ApplicationSurvives, Live
<1> QED BY <1>1, <1>3, <1>4, <1>6, <1>7, <1>8, <1>9, <1>10 DEF ExportInv, ExportJobsOK

(* A commit: the revision still exists and is the one that was read, so    *)
(* the rows written with it are about a valid revision of that workspace.  *)
LEMMA Commits ==
  ASSUME ExportInv, DeferredOnce', NEW p \in Proc, CommitStored(p) \/ CommitFound(p)
  PROVE  ExportInv'
<1> DEFINE v == proc[p].rev
<1>1. /\ IInv' /\ TypeOK' /\ status' = status /\ revs' = revs /\ UNCHANGED vars
      /\ store' = store /\ rqueue' = rqueue
  BY WorkspaceKept DEF CommitStored, CommitFound
<1>2. /\ proc[p].phase \in {"found", "stored"} /\ End(p, "over")
      /\ Working(p) /\ ProcKnows(p) /\ v \in RevisionId /\ store[v] # "absent"
      /\ CanCommit(p) \/ proc[p].kind = "export"
      /\ proc[p].ws \in Workspace
  BY DEF CommitStored, CommitFound, Succeeds, Working, ExportInv, ProcsKnow, ProcKnows
<1>3. PICK q \in ProcState : /\ proc' = [proc EXCEPT ![p] = q] /\ proc'[p] = q
                            /\ ~Working(p)' /\ q.phase # "writing"
  BY <1>2, EndFacts
<1>4. /\ \A r \in Proc : r # p => proc'[r] = proc[r]
      /\ proc' \in [Proc -> ProcState]
  BY <1>3 DEF ExportInv, ExportJobsOK, ExportTypeOK
<1>5. CanCommit(p) => /\ v \in artifacts'
                      /\ \E u \in revs : u.id = v /\ u.ws = proc[p].ws /\ u.valid
  <2> SUFFICES ASSUME CanCommit(p)
               PROVE  /\ v \in artifacts'
                      /\ \E u \in revs : u.id = v /\ u.ws = proc[p].ws /\ u.valid
    OBVIOUS
  <2>1. PICK u \in revs : u.id = v /\ u.ws = proc[p].ws /\ u.valid = proc[p].valid
    BY <1>2 DEF CanCommit, RevisionExists, ProcKnows
  <2>2. CASE CommitStored(p)
    BY <2>1, <2>2, <1>2 DEF CommitStored, ProcKnows
  <2>3. CASE CommitFound(p)
    <3>1. v \in artifacts /\ artifacts' = artifacts
      BY <2>3, <1>2 DEF CommitFound, ProcKnows, CanCommit
    <3>2. PICK x \in revs : x.id = v /\ x.valid
      BY <3>1 DEF ExportInv, ArtifactsOK
    <3>3. x = u
      BY <2>1, <3>2 DEF ExportInv, IInv, HistoryOK, IdsUnique
    <3> QED BY <2>1, <3>1, <3>2, <3>3
  <2> QED BY <2>2, <2>3
<1>6. /\ artifacts \subseteq artifacts' /\ artifacts' \subseteq artifacts \cup {v}
      /\ artifacts' # artifacts => CanCommit(p)
  BY DEF CommitStored, CommitFound
<1>7. /\ rjob' \in [RenderJob -> JobRow]
      /\ \A j \in RenderJob : j # p => rjob'[j] = rjob[j]
      /\ p \in RenderJob => /\ CanCommit(p) /\ rjob[p].ws = proc[p].ws
                            /\ rjob'[p].result = v /\ rjob'[p].ws = rjob[p].ws
  <2>1. rjob \in [RenderJob -> JobRow] /\ v \in Nat
    BY <1>2 DEF ExportInv, ExportJobsOK, ExportTypeOK, RevisionId
  <2>2. p \in RenderJob => /\ CanCommit(p) /\ rjob[p].ws = proc[p].ws
    BY <1>2 DEF ProcKnows, CanCommit
  <2>3. rjob' = IF p \in RenderJob THEN [rjob EXCEPT ![p].status = "succeeded",
                                                    ![p].result = v]
                ELSE rjob
    BY DEF CommitStored, CommitFound, Succeeds
  <2> HIDE DEF v
  <2> QED BY <2>1, <2>2, <2>3 DEF JobRow
<1>8. \A a \in App : \/ app'[a] = app[a]
                    \/ /\ CanCommit(p)
                       /\ app'[a] = [state |-> "saved", pdf |-> v, ws |-> proc[p].ws, rev |-> v]
  <2>1. CASE UNCHANGED app
    BY <2>1
  <2>2. ASSUME NEW b \in App, SaveApp(p, b), proc[p].kind = "apply"
        PROVE  \A a \in App :
                    \/ app'[a] = app[a]
                    \/ /\ CanCommit(p)
                       /\ app'[a] = [state |-> "saved", pdf |-> v, ws |-> proc[p].ws, rev |-> v]
    BY <2>2, <1>2 DEF SaveApp, ExportInv, ExportJobsOK, ExportTypeOK
  <2> QED BY <2>1, <2>2 DEF CommitStored, CommitFound, Saves
<1>9. app' \in [App -> [state : {"none", "saved", "deleted"}, pdf : Nat,
                       ws : Workspace \cup {None}, rev : Nat]]
  <2>1. v \in Nat
    BY <1>2 DEF RevisionId
  <2>2. CASE UNCHANGED app
    BY <2>2 DEF ExportInv, ExportJobsOK, ExportTypeOK
  <2>3. ASSUME NEW b \in App, SaveApp(p, b)
        PROVE  app' \in [App -> [state : {"none", "saved", "deleted"}, pdf : Nat,
                                ws : Workspace \cup {None}, rev : Nat]]
    BY <2>1, <2>3, <1>2 DEF SaveApp, ExportInv, ExportJobsOK, ExportTypeOK
  <2> QED BY <2>2, <2>3 DEF CommitStored, CommitFound, Saves
<1> HIDE DEF v
<1>10. ExportTypeOK'
  BY <1>1, <1>2, <1>4, <1>6, <1>7, <1>9 DEF ExportInv, ExportJobsOK, ExportTypeOK
<1>11. SucceededIsDownloadable'
  BY <1>1, <1>5, <1>6, <1>7 DEF ExportInv, ExportJobsOK, SucceededIsDownloadable
<1>12. \A x \in RevisionId : Writing(x) => Writing(x)'
  BY <1>2, <1>4 DEF Writing
<1>13. FilesOK'
  BY <1>1, <1>12 DEF ExportInv, FilesOK
<1>14. ArtifactsOK'
  BY <1>1, <1>2, <1>5, <1>6 DEF ExportInv, ArtifactsOK
<1>15. SnapshotsStored'
  BY <1>1, <1>2, <1>8 DEF ExportInv, SnapshotsStored
<1>16. ExportRowsLive'
  BY <1>1, <1>2, <1>5, <1>7 DEF ExportInv, ExportRowsLive, Live, IInv, NoOrphans
<1>17. ProcsKnow'
  BY <1>1, <1>3, <1>4, <1>6, <1>7, OtherProcsKnow
<1>18. ApplicationSurvives'
  <2>1. \A a \in App : app'[a].state = "saved" =>
          (store[app[a].pdf] = "full" \/ Writing(app[a].pdf))'
    BY <1>10, <1>13, <1>15 DEF FilesOK, SnapshotsStored, ExportTypeOK
  <2>2. \A u \in revs : Live(u.ws)
    BY DEF ExportInv, IInv, NoOrphans
  <2> QED BY <2>1, <2>2, <1>1, <1>5, <1>8 DEF ExportInv, ApplicationSurvives, Live
<1> QED
  BY <1>1, <1>10, <1>11, <1>13, <1>14, <1>15, <1>16, <1>17, <1>18
     DEF ExportInv, ExportJobsOK

LEMMA DeleteAppInv ==
  ASSUME ExportInv, DeferredOnce', NEW a \in App, DeleteApp(a)
  PROVE  ExportInv'
<1>1. /\ IInv' /\ TypeOK' /\ status' = status /\ revs' = revs /\ nextId' = nextId
      /\ UNCHANGED <<artifacts, store, rjob, rqueue, proc>>
  BY WorkspaceKept DEF DeleteApp
<1>2. /\ app' \in [App -> [state : {"none", "saved", "deleted"}, pdf : Nat,
                           ws : Workspace \cup {None}, rev : Nat]]
      /\ \A b \in App : b # a => app'[b] = app[b]
      /\ app'[a].state = "deleted"
  BY DEF DeleteApp, NoApp, ExportInv, ExportJobsOK, ExportTypeOK
<1>3. ExportTypeOK' /\ SucceededIsDownloadable'
  BY <1>1, <1>2 DEF ExportInv, ExportJobsOK, ExportTypeOK, SucceededIsDownloadable
<1>4. FilesOK' /\ ArtifactsOK' /\ ExportRowsLive'
  BY <1>1 DEF ExportInv, FilesOK, ArtifactsOK, ExportRowsLive, Live, Writing
<1>5. ProcsKnow'
  BY <1>1 DEF ExportInv, ProcsKnow, ProcKnows, Working, RevisionExists
<1>6. SnapshotsStored' /\ ApplicationSurvives'
  BY <1>1, <1>2 DEF ExportInv, SnapshotsStored, ApplicationSurvives, Live, Writing
<1> QED BY <1>1, <1>3, <1>4, <1>5, <1>6 DEF ExportInv, ExportJobsOK

---------------------------------------------------------------------------
(* The workspace's own steps *)

LEMMA WorkspaceMoves ==
  ASSUME ExportInv, DeferredOnce', IInv', Keeps, UNCHANGED xvars
  PROVE  ExportInv'
<1>1. /\ UNCHANGED <<artifacts, store, rjob, rqueue, proc, app>>
      /\ \A v \in revs : v \in revs'
      /\ \A v \in revs' : v \in revs \/ (v.id = nextId /\ nextId <= MaxRevision)
      /\ nextId \in Nat \ {0} /\ nextId' \in Nat /\ nextId <= nextId'
      /\ \A w \in Workspace : Live(w) => Live(w)'
  BY DEF xvars, Keeps, ExportInv, IInv, TypeOK
<1>2. ExportTypeOK'
  BY <1>1 DEF ExportInv, ExportJobsOK, ExportTypeOK, IInv
<1>3. SucceededIsDownloadable'
  BY <1>1 DEF ExportInv, ExportJobsOK, SucceededIsDownloadable
<1>4. FilesOK'
  BY <1>1, MaxRevisionAssumption DEF ExportInv, FilesOK, Writing, RevisionId
<1>5. ArtifactsOK' /\ ExportRowsLive' /\ SnapshotsStored'
  BY <1>1 DEF ExportInv, ArtifactsOK, ExportRowsLive, SnapshotsStored
<1>6. ProcsKnow'
  <2> SUFFICES ASSUME NEW p \in Proc, Working(p)' PROVE ProcKnows(p)'
    BY DEF ProcsKnow
  <2>1. proc'[p] = proc[p] /\ ProcKnows(p) /\ proc[p].rev < nextId
        /\ proc[p].rev \in Nat
    BY <1>1 DEF Working, ExportInv, ProcsKnow, ProcKnows, RevisionId
  <2>2. \A v \in revs' : v.id = proc[p].rev => v \in revs
    BY <1>1, <2>1
  <2> QED BY <1>1, <2>1, <2>2 DEF ProcKnows, RevisionExists
<1>7. ApplicationSurvives'
  <2>1. /\ \A a \in App : app[a].state = "saved" /\ app[a].ws # None =>
              app[a].ws \in Workspace
    BY DEF ExportInv, ExportJobsOK, ExportTypeOK
  <2> QED BY <1>1, <2>1 DEF ExportInv, ApplicationSurvives, Writing
<1> QED BY <1>2, <1>3, <1>4, <1>5, <1>6, <1>7 DEF ExportInv, ExportJobsOK

(* A deletion takes the artifact and job rows of its own revisions along   *)
(* and no others, and leaves every file.                                   *)
LEMMA DeletionMoves ==
  ASSUME ExportInv, DeferredOnce', IInv', NEW w \in Workspace, DeleteWorkspace(w), Cascade(w)
  PROVE  ExportInv'
<1>1. /\ UNCHANGED <<store, rqueue, proc>> /\ nextId' = nextId
      /\ \A v : v \in revs' <=> v \in revs /\ v.ws # w
      /\ \A x \in Workspace : x # w /\ Live(x) => Live(x)'
  BY DEF DeleteWorkspace, Cascade, RevisionsOf, Live, ExportInv, IInv, TypeOK
<1>2. \A u, v \in revs : u.id = v.id => u = v
  BY DEF ExportInv, IInv, HistoryOK, IdsUnique
<1>3. \A a : a \in artifacts' <=>
              a \in artifacts /\ \A u \in revs : u.ws = w => u.id # a
  BY DEF Cascade, RevisionsOf
<1>4. \A j \in RenderJob : rjob'[j] = IF rjob[j].ws = w THEN NoJobRow ELSE rjob[j]
  BY DEF Cascade
<1>5. /\ NoJobRow.status = "none" /\ NoJobRow.ws = None /\ NoJobRow \in JobRow
  BY DEF NoJobRow, JobRow
<1>6. /\ \A a \in App : app[a].ws = w =>
           /\ app'[a].state = app[a].state /\ app'[a].pdf = app[a].pdf
           /\ app'[a].ws = None
      /\ \A a \in App : app[a].ws # w => app'[a] = app[a]
      /\ app' \in [App -> [state : {"none", "saved", "deleted"}, pdf : Nat,
                           ws : Workspace \cup {None}, rev : Nat]]
  BY DEF Cascade, ExportInv, ExportJobsOK, ExportTypeOK
<1>7. ExportTypeOK'
  <2>1. rjob' \in [RenderJob -> JobRow]
    BY <1>4, <1>5 DEF Cascade, ExportInv, ExportJobsOK, ExportTypeOK
  <2> QED BY <2>1, <1>1, <1>3, <1>6 DEF ExportInv, ExportJobsOK, ExportTypeOK, IInv
<1>8. SucceededIsDownloadable'
  <2> SUFFICES ASSUME NEW j \in RenderJob, rjob'[j].status = "succeeded"
               PROVE  /\ rjob'[j].result \in artifacts'
                      /\ \E v \in revs' : /\ v.id = rjob'[j].result
                                         /\ v.ws = rjob'[j].ws
                                         /\ v.valid
    BY DEF SucceededIsDownloadable
  <2>1. rjob[j].ws # w /\ rjob'[j] = rjob[j]
    BY <1>4, <1>5
  <2>2. /\ rjob[j].result \in artifacts
        /\ \E v \in revs : v.id = rjob[j].result /\ v.ws = rjob[j].ws /\ v.valid
    BY <2>1 DEF ExportInv, ExportJobsOK, SucceededIsDownloadable
  <2> QED BY <2>1, <2>2, <1>1, <1>2, <1>3
<1>9. FilesOK'
  BY <1>1 DEF ExportInv, FilesOK, Writing
<1>10. ArtifactsOK'
  BY <1>1, <1>3 DEF ExportInv, ArtifactsOK
<1>11. ExportRowsLive'
  BY <1>1, <1>4, <1>5 DEF ExportInv, ExportRowsLive
<1>12. ProcsKnow'
  <2> SUFFICES ASSUME NEW p \in Proc, Working(p)' PROVE ProcKnows(p)'
    BY DEF ProcsKnow
  <2>1. proc'[p] = proc[p] /\ ProcKnows(p)
    BY <1>1 DEF Working, ExportInv, ProcsKnow
  <2>2. ASSUME NEW v \in revs', v.id = proc[p].rev
        PROVE  \A u \in revs : u.ws = w => u.id # proc[p].rev
    <3>1. v \in revs /\ v.ws # w
      BY <1>1
    <3> QED BY <2>2, <3>1, <1>2
  <2>3. proc[p].phase = "found" /\ RevisionExists(proc[p].rev)' =>
           proc[p].rev \in artifacts'
    <3> SUFFICES ASSUME proc[p].phase = "found",
                        NEW v \in revs', v.id = proc'[p].rev
                 PROVE  proc[p].rev \in artifacts'
      BY DEF RevisionExists
    <3>1. v \in revs /\ v.id = proc[p].rev
      BY <1>1, <2>1
    <3>2. proc[p].rev \in artifacts
      BY <2>1, <3>1 DEF ProcKnows, RevisionExists
    <3> QED BY <3>1, <3>2, <2>2, <1>3
  <2>4. p \in RenderJob /\ rjob'[p].status # "none" => rjob'[p] = rjob[p]
    BY <1>4, <1>5
  <2> QED BY <1>1, <2>1, <2>3, <2>4 DEF ProcKnows
<1>13. SnapshotsStored'
  BY <1>1, <1>6 DEF ExportInv, SnapshotsStored
<1>14. ApplicationSurvives'
  BY <1>1, <1>6 DEF ExportInv, ExportJobsOK, ExportTypeOK, ApplicationSurvives, Writing
<1> QED
  BY <1>7, <1>8, <1>9, <1>10, <1>11, <1>12, <1>13, <1>14 DEF ExportInv, ExportJobsOK

---------------------------------------------------------------------------
(* The actions of requests and tasks *)

LEMMA XTypes ==
  ASSUME ExportInv
  PROVE  /\ proc \in [Proc -> ProcState] /\ rjob \in [RenderJob -> JobRow]
         /\ rqueue \subseteq RenderJob /\ status \in [Workspace -> {"absent", "draft", "approved", "deleted"}]
BY DEF ExportInv, ExportJobsOK, ExportTypeOK, TypeOK

(* The sequence starts at a revision of the workspace it was asked about.  *)
LEMMA ReadFacts ==
  ASSUME ExportInv, DeferredOnce', NEW p \in Proc, NEW w \in Workspace, Live(w),
         NEW kind \in {"export", "apply", "job"},
         p \in RenderJob => kind = "job" /\ rjob[p].ws = w,
         UNCHANGED <<vars, artifacts, store, rjob, rqueue, app>>,
         proc[p].phase # "writing",
         proc' = [proc EXCEPT ![p] =
           [phase |-> "lookup", kind |-> kind, ws |-> w, rev |-> current[w],
            valid |-> RevisionRow(current[w]).valid]]
  PROVE  ExportInv'
<1> DEFINE q == [phase |-> "lookup", kind |-> kind, ws |-> w, rev |-> current[w],
                 valid |-> RevisionRow(current[w]).valid]
<1>1. PICK v \in revs : /\ v = RevisionRow(current[w])
                       /\ v.id = current[w] /\ v.ws = w
                       /\ v.id \in RevisionId /\ v.id < nextId
                       /\ v.valid \in BOOLEAN
  BY CurrentRow
<1>2. /\ q \in ProcState /\ q.phase = "lookup" /\ q.kind = kind /\ q.ws = w
      /\ q.rev = v.id /\ q.valid = v.valid
  BY <1>1 DEF ProcState, RevisionId
<1>3. \A u \in revs : u.id = v.id => u = v
  BY DEF ExportInv, IInv, HistoryOK, IdsUnique
<1>4. proc' = [proc EXCEPT ![p] = q]
  OBVIOUS
<1> HIDE DEF q
<1>5. proc'[p] = q /\ revs' = revs /\ nextId' = nextId
  BY <1>4, XTypes DEF vars
<1>6. ProcKnows(p)'
  BY <1>1, <1>2, <1>3, <1>5 DEF ProcKnows
<1> QED BY <1>2, <1>4, <1>6, XTypes, ProcMoves

LEMMA ReadInv ==
  ASSUME ExportInv, DeferredOnce',
         \/ \E p \in Exporter, w \in Workspace, kind \in {"export", "apply"} :
              ExportRead(p, w, kind)
         \/ \E j \in RenderJob : LoadExport(j) /\ rjob[j].status # "none"
  PROVE  ExportInv'
<1>1. ASSUME NEW p \in Exporter, NEW w \in Workspace, NEW kind \in {"export", "apply"},
             ExportRead(p, w, kind)
      PROVE  ExportInv'
  <2>1. p \in Proc /\ p \notin RenderJob /\ Live(w) /\ proc[p].phase = "idle"
    BY <1>1, ExportAssumption DEF Proc, ExportRead, Live
  <2> QED BY <1>1, <2>1, ReadFacts DEF ExportRead
<1>2. ASSUME NEW j \in RenderJob, LoadExport(j), rjob[j].status # "none"
      PROVE  ExportInv'
  <2> DEFINE w == rjob[j].ws
  <2>1. j \in Proc /\ w \in Workspace /\ Live(w) /\ proc[j].phase = "claimed"
    BY <1>2 DEF Proc, LoadExport, ExportInv, ExportRowsLive
  <2>2. /\ proc' = [proc EXCEPT ![j] =
             [phase |-> "lookup", kind |-> "job", ws |-> w, rev |-> current[w],
              valid |-> RevisionRow(current[w]).valid]]
        /\ UNCHANGED <<vars, artifacts, store, rjob, rqueue, app>>
    BY <1>2 DEF LoadExport
  <2>3. rjob[j].ws = w
    OBVIOUS
  <2> HIDE DEF w
  <2> QED BY <2>1, <2>2, <2>3, ReadFacts
<1> QED BY <1>1, <1>2

(* A sequence that ends without a row of its own.                          *)
LEMMA EndInv ==
  ASSUME ExportInv, DeferredOnce', NEW p \in Proc, NEW stage \in {"over", "conflict", "died"},
         End(p, stage), proc[p].phase # "writing",
         UNCHANGED <<vars, artifacts, store, app>>, rqueue' \subseteq RenderJob,
         \/ rjob' = rjob
         \/ /\ p \in RenderJob /\ rjob[p].status = "running"
            /\ rjob' = [rjob EXCEPT ![p].status = "failed"]
  PROVE  ExportInv'
<1>1. PICK q \in ProcState : /\ proc' = [proc EXCEPT ![p] = q]
                            /\ ~Working(p)' /\ q.phase # "writing"
  BY EndFacts
<1>2. /\ rjob' \in [RenderJob -> JobRow]
      /\ \A j \in RenderJob : j # p => rjob'[j] = rjob[j]
      /\ p \in RenderJob =>
           \/ rjob'[p] = rjob[p]
           \/ /\ rjob[p].status = "running" /\ rjob'[p].status # "succeeded"
              /\ rjob'[p].ws = rjob[p].ws
  BY XTypes DEF JobRow
<1>3. p \in RenderJob =>
        \/ rjob'[p] = rjob[p]
        \/ /\ rjob'[p].status # "succeeded"
           /\ rjob'[p].ws \in Workspace /\ Live(rjob'[p].ws)
  BY <1>2 DEF ExportInv, ExportRowsLive
<1> QED BY <1>1, <1>2, <1>3, ProcMoves

LEMMA TaskEndsInv ==
  ASSUME ExportInv, DeferredOnce', NEW p \in Proc,
         \/ FindArtifact(p) /\ store[proc[p].rev] # "full"
         \/ RenderFails(p) \/ CommitConflicts(p) \/ ExportDies(p)
         \/ p \in RenderJob /\ LoadExport(p) /\ rjob[p].status = "none"
         \/ p \in RenderJob /\ ClaimExport(p) /\ rjob[p].status = "none"
  PROVE  ExportInv'
<1>1. /\ \E stage \in {"over", "conflict", "died"} : End(p, stage)
      /\ proc[p].phase # "writing"
      /\ UNCHANGED <<vars, artifacts, store, app>> /\ rqueue' \subseteq rqueue
      /\ \/ rjob' = rjob
         \/ /\ p \in RenderJob /\ rjob[p].status = "running"
            /\ rjob' = [rjob EXCEPT ![p].status = "failed"]
  BY DEF FindArtifact, RenderFails, CommitConflicts, ExportDies, LoadExport,
         ClaimExport, Fails, ExportInv, DeferredOnce
<1>2. rqueue' \subseteq RenderJob
  BY <1>1, XTypes
<1> QED BY <1>1, <1>2, EndInv

---------------------------------------------------------------------------
(* The other actions of an export *)

LEMMA QueueExportInv ==
  ASSUME ExportInv, DeferredOnce', NEW j \in RenderJob, NEW w \in Workspace,
         QueueExport(j, w)
  PROVE  ExportInv'
<1> DEFINE q == [proc[j] EXCEPT !.phase = "deferring"]
<1>1. /\ j \in Proc /\ Live(w) /\ proc[j].phase = "idle"
      /\ rjob' = [rjob EXCEPT ![j] = [status |-> "queued", ws |-> w, result |-> 0]]
      /\ UNCHANGED <<vars, artifacts, store, app>> /\ rqueue' \subseteq RenderJob
  BY XTypes DEF Proc, QueueExport, Live
<1>2. proc' = [proc EXCEPT ![j] = q] /\ q \in ProcState /\ q.phase = "deferring"
  BY <1>1, XTypes DEF QueueExport, ProcState
<1>3. [status |-> "queued", ws |-> w, result |-> 0] \in JobRow
  BY DEF JobRow
<1>4. /\ rjob' \in [RenderJob -> JobRow]
      /\ \A i \in RenderJob : i # j => rjob'[i] = rjob[i]
      /\ rjob'[j].status = "queued" /\ rjob'[j].ws = w
  BY <1>1, <1>3, XTypes
<1> HIDE DEF q
<1>5. ~Working(j)'
  BY <1>1, <1>2, XTypes DEF Working
<1> QED BY <1>1, <1>2, <1>4, <1>5, ProcMoves

LEMMA DeferExportInv ==
  ASSUME ExportInv, DeferredOnce', NEW j \in RenderJob, DeferExport(j)
  PROVE  ExportInv'
<1> DEFINE q == [proc[j] EXCEPT !.phase = "deferred"]
<1>1. /\ j \in Proc /\ proc[j].phase = "deferring"
      /\ rjob' = rjob /\ UNCHANGED <<vars, artifacts, store, app>>
      /\ rqueue' \subseteq RenderJob
  BY XTypes DEF Proc, DeferExport
<1>2. proc' = [proc EXCEPT ![j] = q] /\ q \in ProcState /\ q.phase = "deferred"
  BY <1>1, XTypes DEF DeferExport, ProcState
<1> HIDE DEF q
<1>3. ~Working(j)'
  BY <1>1, <1>2, XTypes DEF Working
<1> QED BY <1>1, <1>2, <1>3, XTypes, ProcMoves

LEMMA ClaimExportInv ==
  ASSUME ExportInv, DeferredOnce', NEW j \in RenderJob, ClaimExport(j)
  PROVE  ExportInv'
<1>1. CASE rjob[j].status = "none"
  BY <1>1, TaskEndsInv DEF Proc
<1>2. CASE rjob[j].status # "none"
  <2> DEFINE q == [proc[j] EXCEPT !.phase = "claimed"]
  <2>1. /\ j \in Proc /\ proc[j].phase = "deferred"
        /\ rjob' = [rjob EXCEPT ![j].status = "running"]
        /\ UNCHANGED <<vars, artifacts, store, app>> /\ rqueue' \subseteq RenderJob
    BY <1>2, XTypes DEF Proc, ClaimExport, ExportInv, DeferredOnce
  <2>2. proc' = [proc EXCEPT ![j] = q] /\ q \in ProcState /\ q.phase = "claimed"
    BY <1>2, <2>1, XTypes DEF ClaimExport, ProcState
  <2>3. /\ rjob' \in [RenderJob -> JobRow]
        /\ \A i \in RenderJob : i # j => rjob'[i] = rjob[i]
        /\ rjob'[j].status = "running" /\ rjob'[j].ws = rjob[j].ws
    BY <2>1, XTypes DEF JobRow
  <2>4. rjob'[j].ws \in Workspace /\ Live(rjob'[j].ws)
    BY <1>2, <2>3 DEF ExportInv, ExportRowsLive
  <2> HIDE DEF q
  <2>5. ~Working(j)'
    BY <2>1, <2>2, XTypes DEF Working
  <2> QED BY <2>1, <2>2, <2>3, <2>4, <2>5, ProcMoves
<1> QED BY <1>1, <1>2

LEMMA FindArtifactInv ==
  ASSUME ExportInv, DeferredOnce', NEW p \in Proc, FindArtifact(p)
  PROVE  ExportInv'
<1>1. CASE store[proc[p].rev] # "full"
  BY <1>1, TaskEndsInv
<1>2. CASE store[proc[p].rev] = "full"
  <2> DEFINE q == [proc[p] EXCEPT !.phase = "found"]
  <2>1. /\ proc[p].phase = "lookup" /\ proc[p].rev \in artifacts
        /\ proc' = [proc EXCEPT ![p] = q] /\ rjob' = rjob
        /\ UNCHANGED <<vars, artifacts, store, app>> /\ rqueue' \subseteq RenderJob
    BY <1>2, XTypes DEF FindArtifact
  <2>2. /\ q \in ProcState /\ q.phase = "found" /\ q.rev = proc[p].rev
        /\ q.ws = proc[p].ws /\ q.valid = proc[p].valid /\ q.kind = proc[p].kind
    BY XTypes DEF ProcState
  <2> HIDE DEF q
  <2>3. ProcKnows(p) /\ proc'[p] = q /\ revs' = revs /\ nextId' = nextId
    BY <2>1, XTypes DEF ExportInv, ProcsKnow, Working, vars
  <2>4. ProcKnows(p)'
    BY <1>2, <2>1, <2>2, <2>3 DEF ProcKnows
  <2> QED BY <2>1, <2>2, <2>4, XTypes, ProcMoves
<1> QED BY <1>1, <1>2

LEMMA WriteInv ==
  ASSUME ExportInv, DeferredOnce', NEW p \in Proc, BeginWrite(p) \/ EndWrite(p)
  PROVE  ExportInv'
<1>1. ASSUME NEW stage \in {"writing", "stored"}, NEW whole \in {"partial", "full"},
             Working(p), proc[p].valid,
             proc' = [proc EXCEPT ![p].phase = stage],
             store' = [store EXCEPT ![proc[p].rev] = whole],
             whole = "partial" => stage = "writing",
             UNCHANGED <<vars, artifacts, rjob, rqueue, app>>
      PROVE  ExportInv'
  <2> DEFINE q == [proc[p] EXCEPT !.phase = stage]
  <2>1. proc' = [proc EXCEPT ![p] = q]
    BY <1>1, XTypes
  <2>2. /\ q \in ProcState /\ q.phase = stage /\ q.rev = proc[p].rev
        /\ q.ws = proc[p].ws /\ q.valid = proc[p].valid /\ q.kind = proc[p].kind
    BY XTypes DEF ProcState
  <2> HIDE DEF q
  <2>3. /\ ProcKnows(p) /\ proc'[p] = q /\ revs' = revs /\ nextId' = nextId
    BY <1>1, <2>1, XTypes DEF ExportInv, ProcsKnow, vars
  <2>4. store'[proc[p].rev] = whole /\ rjob' = rjob
    BY <1>1, <2>3 DEF ExportInv, ExportJobsOK, ExportTypeOK, ProcKnows
  <2>5. Working(p)' /\ ProcKnows(p)'
    BY <1>1, <2>2, <2>3, <2>4 DEF ProcKnows, Working
  <2>6. store' = [store EXCEPT ![q.rev] = whole]
    BY <1>1, <2>2
  <2> QED BY <1>1, <2>1, <2>2, <2>5, <2>6, FileMoves
<1>2. CASE BeginWrite(p)
  BY <1>1, <1>2 DEF BeginWrite, Working
<1>3. CASE EndWrite(p)
  <2>1. Working(p) /\ proc[p].valid
    BY <1>3 DEF EndWrite, Working, ExportInv, ProcsKnow, ProcKnows
  <2> QED BY <1>1, <1>3, <2>1 DEF EndWrite
<1> QED BY <1>2, <1>3

---------------------------------------------------------------------------
(* The invariant *)

LEMMA InitExportInv ==
  ASSUME ExportInit
  PROVE  ExportInv
<1>1. IInv /\ TypeOK
  BY InitIInv DEF ExportInit, IInv
<1>2. /\ \A p \in Proc : proc[p] = IdleProc
      /\ \A j \in RenderJob : rjob[j] = NoJobRow
      /\ \A a \in App : app[a] = NoApp
      /\ artifacts = {} /\ rqueue = {} /\ revs = {}
      /\ \A v \in RevisionId : store[v] = "absent"
  BY DEF ExportInit, Init
<1>3. ExportTypeOK
  BY <1>1, <1>2 DEF ExportInit, ExportTypeOK, IdleProc, ProcState, NoJobRow, JobRow, NoApp
<1>4. SucceededIsDownloadable /\ ExportRowsLive
  BY <1>2 DEF NoJobRow, SucceededIsDownloadable, ExportRowsLive
<1>5. FilesOK /\ ArtifactsOK /\ DeferredOnce
  BY <1>2 DEF FilesOK, ArtifactsOK, DeferredOnce
<1>6. ProcsKnow
  BY <1>2 DEF ProcsKnow, Working, IdleProc
<1>7. SnapshotsStored /\ ApplicationSurvives
  BY <1>2 DEF NoApp, SnapshotsStored, ApplicationSurvives
<1> QED BY <1>1, <1>3, <1>4, <1>5, <1>6, <1>7 DEF ExportInv, ExportJobsOK

(* A task is deferred after its request committed, and leaves the queue    *)
(* with the step that starts it.                                           *)
LEMMA NextDeferredOnce ==
  ASSUME ExportInv, [ExportNext]_<<vars, xvars>>
  PROVE  DeferredOnce'
<1>1. DeferredOnce /\ proc \in [Proc -> ProcState] /\ rqueue \subseteq Proc
  BY XTypes DEF ExportInv, Proc
<1>2. CASE rqueue' \subseteq rqueue /\ \A j \in rqueue : proc'[j] = proc[j]
  BY <1>1, <1>2 DEF DeferredOnce
<1>3. CASE UNCHANGED <<vars, xvars>> \/ WorkspaceStep \/ \E a \in App : DeleteApp(a)
  BY <1>2, <1>3 DEF xvars, WorkspaceStep, Cascade, DeleteApp
<1>4. ASSUME NEW p \in Proc, p \notin rqueue', rqueue' \subseteq rqueue,
             NEW q, proc' = [proc EXCEPT ![p] = q]
      PROVE  DeferredOnce'
  BY <1>1, <1>4 DEF DeferredOnce
<1>5. ASSUME NEW p \in Proc, ExportTaskStep(p) \/ ExportDies(p)
      PROVE  DeferredOnce'
  <2>1. rqueue' = rqueue /\ p \notin rqueue
    BY <1>1, <1>5 DEF DeferredOnce, ExportTaskStep, FindArtifact, BeginWrite, RenderFails,
       EndWrite, CommitStored, CommitFound, CommitConflicts, ExportDies
  <2>2. \E q : proc' = [proc EXCEPT ![p] = q]
    BY <1>1, <1>5 DEF ExportTaskStep, FindArtifact, BeginWrite, RenderFails, EndWrite,
       CommitStored, CommitFound, CommitConflicts, ExportDies, Fails, Succeeds, End
  <2> QED BY <1>4, <2>1, <2>2
<1>6. ASSUME NEW p \in Exporter, NEW w \in Workspace, NEW kind \in {"export", "apply"},
             ExportRead(p, w, kind)
      PROVE  DeferredOnce'
  <2>1. rqueue' = rqueue /\ p \notin rqueue /\ p \in Proc
    BY <1>1, <1>6 DEF DeferredOnce, ExportRead, Proc
  <2> QED BY <1>4, <1>6, <2>1 DEF ExportRead
<1>7. ASSUME NEW j \in RenderJob, NEW w \in Workspace, QueueExport(j, w)
      PROVE  DeferredOnce'
  <2>1. rqueue' = rqueue /\ j \notin rqueue /\ j \in Proc
    BY <1>1, <1>7 DEF DeferredOnce, QueueExport, Proc
  <2>2. proc' = [proc EXCEPT ![j] = [proc[j] EXCEPT !.phase = "deferring"]]
    BY <1>1, <1>7, <2>1 DEF QueueExport
  <2> QED BY <1>4, <2>1, <2>2
<1>8. ASSUME NEW j \in RenderJob, DeferExport(j)
      PROVE  DeferredOnce'
  BY <1>1, <1>8 DEF DeferredOnce, DeferExport, Proc, ProcState
<1>9. ASSUME NEW j \in RenderJob, ClaimExport(j)
      PROVE  DeferredOnce'
  <2>1. rqueue' \subseteq rqueue /\ j \notin rqueue' /\ j \in Proc
    BY <1>1, <1>9 DEF ClaimExport, Proc
  <2>2. \E q : proc' = [proc EXCEPT ![j] = q]
    BY <1>1, <1>9, <2>1 DEF ClaimExport, End
  <2> QED BY <1>4, <2>1, <2>2
<1>10. ASSUME NEW j \in RenderJob, LoadExport(j)
       PROVE  DeferredOnce'
  <2>1. rqueue' = rqueue /\ j \notin rqueue /\ j \in Proc
    BY <1>1, <1>10 DEF DeferredOnce, LoadExport, Proc
  <2>2. \E q : proc' = [proc EXCEPT ![j] = q]
    BY <1>1, <1>10, <2>1 DEF LoadExport, End
  <2> QED BY <1>4, <2>1, <2>2
<1> QED
  BY <1>3, <1>5, <1>6, <1>7, <1>8, <1>9, <1>10 DEF ExportNext

LEMMA NextExportInv ==
  ASSUME ExportInv, [ExportNext]_<<vars, xvars>>
  PROVE  ExportInv'
<1>1. DeferredOnce'
  BY NextDeferredOnce
<1>2. IInv /\ IInv'
  BY StepIsWorkspaceStep, NextIInv, StutterIInv DEF ExportInv
<1>3. CASE UNCHANGED <<vars, xvars>>
  BY <1>1, <1>2, <1>3, StillKeeps, WorkspaceMoves DEF vars, Live
<1>4. CASE WorkspaceStep
  <2>1. CASE \E w \in Workspace : DeleteWorkspace(w) /\ Cascade(w)
    BY <1>1, <1>2, <2>1, DeletionMoves
  <2>2. CASE UNCHANGED xvars /\
             \/ \E w \in Workspace : CreateWorkspace(w) \/ ApproveWorkspace(w)
             \/ \E r \in Request : RequestStep(r)
             \/ \E j \in Job : TaskStep(j) \/ WorkerDies(j)
    BY <1>1, <1>2, <2>2, StepFacts, WorkspaceMoves
  <2> QED BY <1>4, <2>1, <2>2 DEF WorkspaceStep
<1>5. ASSUME NEW j \in RenderJob, LoadExport(j)
      PROVE  ExportInv'
  BY <1>1, <1>5, ReadInv, TaskEndsInv DEF Proc
<1>6. ASSUME NEW p \in Proc, ExportTaskStep(p) \/ ExportDies(p)
      PROVE  ExportInv'
  BY <1>1, <1>6, FindArtifactInv, WriteInv, TaskEndsInv, Commits DEF ExportTaskStep
<1> QED
  BY <1>1, <1>3, <1>4, <1>5, <1>6, ReadInv, QueueExportInv, DeferExportInv, ClaimExportInv,
     DeleteAppInv DEF ExportNext

---------------------------------------------------------------------------
(* The theorems *)

(* The invariant holds whatever the number of requests, workers, jobs,     *)
(* workspaces and applications that interleave with _render_artifact.      *)
THEOREM ExportInvAlways == ExportSpec => []ExportInv
<1>1. ExportInit => ExportInv
  BY InitExportInv
<1>2. ExportInv /\ [ExportNext]_<<vars, xvars>> => ExportInv'
  BY NextExportInv
<1> QED BY <1>1, <1>2, PTL DEF ExportSpec

(* An export job reported as succeeded can be downloaded: its artifact row *)
(* names a valid revision of its own workspace, whatever was deleted.      *)
THEOREM ExportJobsAlwaysOK == ExportSpec => []ExportJobsOK
<1>1. ExportInv => ExportJobsOK
  BY DEF ExportInv
<1> QED BY <1>1, ExportInvAlways, PTL

(* Retrying an export can succeed: as long as no write ends half done, the *)
(* file behind an artifact row is whole, or is just being rewritten.       *)
THEOREM RetriesCanSucceed == ExportSpec => []RetryCanSucceed
<1>1. ExportInv => RetryCanSucceed
  <2> SUFFICES ASSUME ExportInv, NEW v \in artifacts
               PROVE  store[v] = "full" \/ Writing(v)
    BY DEF RetryCanSucceed
  <2>1. v \in RevisionId /\ store[v] \in {"partial", "full"}
    BY DEF ExportInv, ExportJobsOK, ExportTypeOK, ArtifactsOK
  <2> QED BY <2>1 DEF ExportInv, FilesOK
<1> QED BY <1>1, ExportInvAlways, PTL

(* A tracked application survives edits and deletions of its workspace.    *)
THEOREM ApplicationsSurvive == ExportSpec => []ApplicationSurvives
<1>1. ExportInv => ApplicationSurvives
  BY DEF ExportInv
<1> QED BY <1>1, ExportInvAlways, PTL

(* Every step leaves a saved application as it is, but a deletion of its   *)
(* workspace, which clears its two references and keeps its file name.     *)
THEOREM SnapshotsFrozen == ExportSpec => SnapshotFrozen
<1> DEFINE Frozen == \A a \in App : app[a].state = "saved" /\ app'[a].state = "saved" =>
       /\ app'[a].pdf = app[a].pdf
       /\ app'[a] # app[a] =>
            app[a].ws \in Workspace /\ status'[app[a].ws] = "deleted"
<1>1. ASSUME ExportInv, ExportNext
      PROVE  Frozen
  <2>1. CASE UNCHANGED app
    BY <2>1
  <2>2. ASSUME NEW w \in Workspace, DeleteWorkspace(w), Cascade(w)
        PROVE  Frozen
    <3>1. /\ status'[w] = "deleted"
          /\ \A a \in App : app[a].ws = w => app'[a].pdf = app[a].pdf
          /\ \A a \in App : app[a].ws # w => app'[a] = app[a]
      BY <1>1, <2>2 DEF DeleteWorkspace, Cascade, ExportInv, ExportJobsOK,
         ExportTypeOK, TypeOK
    <3> QED BY <3>1
  <2>3. ASSUME NEW b \in App, DeleteApp(b)
        PROVE  Frozen
    <3>1. /\ app'[b].state = "deleted"
          /\ \A a \in App : a # b => app'[a] = app[a]
      BY <1>1, <2>3 DEF DeleteApp, NoApp, ExportInv, ExportJobsOK, ExportTypeOK
    <3> QED BY <3>1
  <2>4. ASSUME NEW p \in Proc, NEW b \in App, SaveApp(p, b)
        PROVE  Frozen
    <3>1. /\ app[b].state = "none"
          /\ \A a \in App : a # b => app'[a] = app[a]
      BY <1>1, <2>4 DEF SaveApp, ExportInv, ExportJobsOK, ExportTypeOK
    <3> QED BY <3>1
  <2>5. ASSUME NEW p \in Proc, ExportTaskStep(p) \/ ExportDies(p)
        PROVE  UNCHANGED app \/ \E b \in App : SaveApp(p, b)
    BY <2>5 DEF ExportTaskStep, ExportDies, FindArtifact, BeginWrite, RenderFails,
       EndWrite, CommitStored, CommitFound, CommitConflicts, Saves
  <2> HIDE DEF Frozen
  <2> QED
    BY <1>1, <2>1, <2>2, <2>3, <2>4, <2>5
       DEF ExportNext, WorkspaceStep, xvars, ExportRead, QueueExport, DeferExport,
           ClaimExport, LoadExport
<1>2. ExportInv /\ [ExportNext]_<<vars, xvars>> => [Frozen]_<<vars, xvars>>
  BY <1>1
<1> QED BY <1>2, ExportInvAlways, PTL DEF ExportSpec, SnapshotFrozen

---------------------------------------------------------------------------
(* ResumeRender.  Pages are compared slice by slice, with no recursion: a  *)
(* page goes on where the one before it ends, and the lines it is drawn    *)
(* from are a function whose values follow one from the other.             *)

(* Before a document comes in nothing is placed and nothing written.       *)
LEMMA RenderInitially == RenderInit => RenderInv
<1> SUFFICES ASSUME RenderInit PROVE RenderInv
  OBVIOUS
<1>1. Printed = <<>> /\ Len(objects) = 1 /\ objects[1].type = "blank"
      /\ DOMAIN objects = {1}
  BY DEF RenderInit, Printed, Blank
<1>2. RenderTypeOK
  <2>1. Blank \in Objects
    BY DEF Blank, Objects
  <2> QED
    BY <2>1, <1>1 DEF RenderInit, RenderTypeOK, Slices
<1>3. NoLineDropped
  BY <1>1 DEF RenderInit, NoLineDropped, ReadingOrder
<1>4. LayoutOK
  BY DEF RenderInit, LayoutOK, PageFits, NoBlankObject
<1>5. Untouched /\ Position /\ Room /\ AllRowsPlaced
  BY DEF RenderInit, Untouched, Position, Room, AllRowsPlaced
<1>6. ToBeFilled
  BY <1>1 DEF RenderInit, ToBeFilled
<1> QED
  BY <1>2, <1>3, <1>4, <1>5, <1>6 DEF RenderInv

(* A document comes in: its first line is the next to be placed, on a page *)
(* with all its lines left.                                                *)
LEMMA StartKeeps ==
  ASSUME RenderInv, NEW d \in Documents, NEW lines \in PageLines, StartRender(d, lines)
  PROVE  RenderInv'
<1> USE DEF StartRender, file
<1>1. /\ source = 1 /\ row = 1 /\ taken = 0 /\ page = <<>> /\ pages = <<>>
      /\ objects = <<Blank>> /\ pageIds = <<>> /\ phase' = "rows"
      /\ UNCHANGED <<source, row, taken, page, pages, objects, contentIds, pageIds, root>>
  BY DEF RenderInv, Untouched
<1>2. Printed' = <<>>
  BY <1>1 DEF Printed
<1>3. d \in Seq(Seq(Nat)) /\ Len(d) > 0 /\ Len(d) \in Nat /\ Len(d[1]) \in Nat
      /\ Len(d[1]) > 0 /\ lines \in Nat \ {0}
  <2>1. d \in Seq(Seq(Nat)) /\ Len(d) > 0 /\ lines \in Nat \ {0}
    BY RenderAssumption
  <2>2. 1 \in DOMAIN d /\ d[1] \in Seq(Nat)
    BY <2>1
  <2> QED
    BY <2>1, <2>2, RenderAssumption
<1>4. RenderTypeOK'
  BY <1>1, <1>3 DEF RenderInv, RenderTypeOK
<1>5. NoLineDropped'
  BY <1>1, <1>2 DEF NoLineDropped, ReadingOrder
<1>6. LayoutOK'
  BY <1>1 DEF LayoutOK, PageFits, NoBlankObject
<1>7. Untouched' /\ Position' /\ Room' /\ AllRowsPlaced'
  BY <1>1, <1>2, <1>3 DEF Untouched, Position, Room, AllRowsPlaced
<1>8. ToBeFilled'
  BY <1>1 DEF RenderInv, ToBeFilled
<1> QED
  BY <1>4, <1>5, <1>6, <1>7, <1>8 DEF RenderInv

(* What appending does to a sequence.                                      *)
LEMMA AppendFacts ==
  ASSUME NEW S, NEW s \in Seq(S), NEW e \in S
  PROVE  /\ Append(s, e) \in Seq(S) /\ Len(Append(s, e)) = Len(s) + 1
         /\ Append(s, e) # <<>> /\ Len(s) \in Nat
         /\ Append(s, e)[Len(s) + 1] = e
         /\ \A i \in 1..Len(s) : Append(s, e)[i] = s[i]
         /\ DOMAIN Append(s, e) = 1..(Len(s) + 1)
  OBVIOUS

(* A sequence that is not empty has a first and a last element.            *)
LEMMA NotEmpty ==
  ASSUME NEW S, NEW s \in Seq(S), s # <<>>
  PROVE  /\ Len(s) \in Nat \ {0} /\ 1 \in DOMAIN s /\ Len(s) \in DOMAIN s /\ DOMAIN s = 1..Len(s)
         /\ s[1] \in S /\ s[Len(s)] \in S
  OBVIOUS

(* Pages in reading order stay so when a page is added that goes on where  *)
(* they end.                                                               *)
LEMMA PageAppended ==
  ASSUME NEW ps \in Seq(Seq(Slices)), NEW p \in Seq(Slices),
         ReadingOrder(ps), Continuous(p),
         ps # <<>> => Follows(FinalSlice(FinalSlice(ps)), p[1]),
         ps = <<>> => Opens(p[1])
  PROVE  ReadingOrder(Append(ps, p))
<1> DEFINE qs == Append(ps, p)
<1>1. /\ Len(qs) = Len(ps) + 1 /\ qs # <<>> /\ Len(ps) \in Nat
      /\ qs[Len(ps) + 1] = p /\ (\A i \in 1..Len(ps) : qs[i] = ps[i])
      /\ DOMAIN qs = 1..(Len(ps) + 1) /\ DOMAIN ps = 1..Len(ps)
  BY AppendFacts
<1>2. PICK n \in Nat : n = Len(ps)
  BY <1>1
<1>3. Len(qs) - 1 = n
  BY <1>1, <1>2
<1> HIDE DEF qs
<1>4. ASSUME NEW i \in DOMAIN qs PROVE Continuous(qs[i])
  <2>1. CASE i = Len(ps) + 1
    BY <2>1, <1>1
  <2>2. CASE i # Len(ps) + 1
    <3>1. i \in DOMAIN ps /\ qs[i] = ps[i]
      BY <2>2, <1>1
    <3> QED
      BY <3>1 DEF ReadingOrder
  <2> QED
    BY <2>1, <2>2
<1>5. ASSUME NEW i \in 1..(Len(qs) - 1) PROVE Follows(FinalSlice(qs[i]), qs[i + 1][1])
  <2>1. CASE i = Len(ps)
    <3>1. Len(ps) \in 1..Len(ps) /\ i + 1 = Len(ps) + 1
      BY <2>1, <1>1
    <3>2. ps # <<>>
      BY <3>1
    <3>3. qs[i] = ps[Len(ps)] /\ qs[i + 1] = p
      BY <2>1, <3>1, <1>1
    <3> QED
      BY <3>2, <3>3 DEF FinalSlice
  <2>2. CASE i # Len(ps)
    <3>0. i \in 1..n /\ i # n
      BY <2>2, <1>2, <1>3
    <3>1. i \in 1..(Len(ps) - 1) /\ i \in 1..Len(ps) /\ i + 1 \in 1..Len(ps)
      BY <3>0, <1>2
    <3>2. qs[i] = ps[i] /\ qs[i + 1] = ps[i + 1]
      BY <3>1, <1>1
    <3> QED
      BY <3>1, <3>2 DEF ReadingOrder
  <2> QED
    BY <2>1, <2>2
<1>6. Opens(qs[1][1])
  <2>1. CASE ps = <<>>
    BY <2>1, <1>1
  <2>2. CASE ps # <<>>
    <3>1. qs[1] = ps[1]
      BY <2>2, <1>1, NotEmpty
    <3> QED
      BY <3>1, <2>2 DEF ReadingOrder
  <2> QED
    BY <2>1, <2>2
<1> QED
  BY <1>1, <1>4, <1>5, <1>6 DEF ReadingOrder, qs

(* And the other way round.                                                *)
LEMMA PageTakenOff ==
  ASSUME NEW ps \in Seq(Seq(Slices)), NEW p \in Seq(Slices), ReadingOrder(Append(ps, p))
  PROVE  /\ ReadingOrder(ps) /\ Continuous(p)
         /\ ps # <<>> => Follows(FinalSlice(FinalSlice(ps)), p[1])
         /\ ps = <<>> => Opens(p[1])
<1> DEFINE qs == Append(ps, p)
<1>1. /\ Len(qs) = Len(ps) + 1 /\ qs # <<>> /\ Len(ps) \in Nat
      /\ qs[Len(ps) + 1] = p /\ (\A i \in 1..Len(ps) : qs[i] = ps[i])
      /\ DOMAIN qs = 1..(Len(ps) + 1) /\ DOMAIN ps = 1..Len(ps)
  BY AppendFacts
<1>2. /\ \A i \in DOMAIN qs : Continuous(qs[i])
      /\ \A i \in 1..(Len(qs) - 1) : Follows(FinalSlice(qs[i]), qs[i + 1][1])
      /\ Opens(qs[1][1])
  BY <1>1 DEF ReadingOrder
<1> HIDE DEF qs
<1>3. Continuous(p)
  <2>1. Len(ps) + 1 \in DOMAIN qs
    BY <1>1
  <2>2. Continuous(qs[Len(ps) + 1])
    BY <2>1, <1>2
  <2> QED
    BY <2>2, <1>1
<1>4. ASSUME ps # <<>> PROVE Follows(FinalSlice(FinalSlice(ps)), p[1])
  <2>1. Len(ps) \in Nat \ {0}
    BY <1>4, NotEmpty
  <2>2. Len(ps) \in 1..(Len(qs) - 1) /\ qs[Len(ps)] = ps[Len(ps)] /\ qs[Len(ps) + 1] = p
    BY <2>1, <1>1
  <2>3. Follows(FinalSlice(qs[Len(ps)]), qs[Len(ps) + 1][1])
    BY <2>2, <1>2
  <2> QED
    BY <2>2, <2>3 DEF FinalSlice
<1>5. ASSUME ps = <<>> PROVE Opens(p[1])
  <2>1. qs[1] = p
    BY <1>5, <1>1
  <2> QED
    BY <2>1, <1>2
<1>6. ReadingOrder(ps)
  <2>1. ASSUME NEW i \in DOMAIN ps PROVE Continuous(ps[i])
    <3>1. i \in DOMAIN qs /\ qs[i] = ps[i]
      BY <1>1
    <3>2. Continuous(qs[i])
      BY <3>1, <1>2
    <3> QED
      BY <3>1, <3>2
  <2>2. ASSUME NEW i \in 1..(Len(ps) - 1) PROVE Follows(FinalSlice(ps[i]), ps[i + 1][1])
    <3>1. i \in 1..(Len(qs) - 1) /\ qs[i] = ps[i] /\ qs[i + 1] = ps[i + 1]
      BY <1>1
    <3>2. Follows(FinalSlice(qs[i]), qs[i + 1][1])
      BY <3>1, <1>2
    <3> QED
      BY <3>1, <3>2
  <2>3. ASSUME ps # <<>> PROVE Opens(ps[1][1])
    <3>1. qs[1] = ps[1]
      BY <2>3, <1>1, NotEmpty
    <3> QED
      BY <3>1, <1>2
  <2> QED
    BY <2>1, <2>2, <2>3 DEF ReadingOrder
<1> QED
  BY <1>3, <1>4, <1>5, <1>6

(* A slice that follows the last one of a page goes under it.              *)
LEMMA SliceAppended ==
  ASSUME NEW p \in Seq(Slices), NEW s \in Slices,
         p # <<>> => Continuous(p) /\ Follows(FinalSlice(p), s)
  PROVE  Continuous(Append(p, s))
<1> DEFINE q == Append(p, s)
<1>1. /\ Len(q) = Len(p) + 1 /\ q # <<>> /\ Len(p) \in Nat
      /\ q[Len(p) + 1] = s /\ (\A i \in 1..Len(p) : q[i] = p[i])
  BY AppendFacts
<1> HIDE DEF q
<1>2. ASSUME NEW k \in 1..(Len(q) - 1) PROVE Follows(q[k], q[k + 1])
  <2>0. p # <<>>
    BY <1>1
  <2>1. CASE k = Len(p)
    <3>1. q[k] = FinalSlice(p) /\ q[k + 1] = s
      BY <2>1, <1>1 DEF FinalSlice
    <3> QED
      BY <2>0, <3>1
  <2>2. CASE k # Len(p)
    <3>1. k \in 1..(Len(p) - 1) /\ k \in 1..Len(p) /\ k + 1 \in 1..Len(p)
      BY <2>2, <1>1
    <3>2. q[k] = p[k] /\ q[k + 1] = p[k + 1]
      BY <3>1, <1>1
    <3> QED
      BY <2>0, <3>1, <3>2 DEF Continuous
  <2> QED
    BY <2>1, <2>2
<1> QED
  BY <1>1, <1>2 DEF Continuous, q

(* Whether pages are in reading order depends on them and the document     *)
(* only.                                                                   *)
LEMMA SameOrder ==
  ASSUME NEW ps, ReadingOrder(ps), doc' = doc, Printed' = ps
  PROVE  ReadingOrder(Printed)'
<1>1. Printed' = ps
  OBVIOUS
<1>2. ASSUME NEW s, NEW t, Follows(s, t) PROVE Follows(s, t)'
  BY <1>2 DEF Follows
<1>3. ASSUME NEW i \in DOMAIN ps PROVE Continuous(ps[i])'
  <2>1. PICK q : q = ps[i]
    OBVIOUS
  <2>2. Continuous(q)
    BY <2>1 DEF ReadingOrder
  <2>3. Continuous(q)'
    BY <2>2, <1>2 DEF Continuous
  <2> QED
    BY <2>1, <2>3
<1>4. ASSUME NEW i \in 1..(Len(ps) - 1) PROVE Follows(FinalSlice(ps[i]), ps[i + 1][1])'
  <2>1. PICK s, t : s = FinalSlice(ps[i]) /\ t = ps[i + 1][1]
    OBVIOUS
  <2>2. Follows(s, t)
    BY <2>1 DEF ReadingOrder
  <2>3. Follows(s, t)'
    BY <2>2, <1>2
  <2> QED
    BY <2>1, <2>3 DEF FinalSlice
<1>5. ps # <<>> => Opens(ps[1][1])
  BY DEF ReadingOrder
<1>6. ReadingOrder(ps)'
  BY <1>3, <1>4, <1>5 DEF ReadingOrder, Opens
<1> QED
  BY <1>1, <1>6 DEF ReadingOrder, Continuous, Follows, Opens, FinalSlice

(* While a row is pending, what is taken of it is no more than is left of  *)
(* it and than the lines left on the page.                                 *)
LEMMA PendingFacts ==
  ASSUME RenderInv, phase = "rows", Pending
  PROVE  /\ source \in DOMAIN doc /\ row \in DOMAIN doc[source]
         /\ doc[source][row] \in Nat /\ taken <= doc[source][row]
         /\ available \in Nat \ {0}
         /\ remaining \in Nat /\ Take \in Nat /\ taken + Take <= doc[source][row]
         /\ Take <= remaining
         /\ page = <<>> => remaining = available
         /\ Slice(taken, taken + Take) \in Slices
<1>1. /\ doc \in Seq(Seq(Nat)) /\ available \in Nat \ {0}
      /\ source \in Nat \ {0} /\ row \in Nat \ {0} /\ taken \in Nat /\ remaining \in Int
  BY RenderAssumption DEF RenderInv, RenderTypeOK
<1>2. source \in DOMAIN doc /\ doc[source] \in Seq(Nat)
  BY <1>1 DEF Pending
<1>3. row \in DOMAIN doc[source]
  BY <1>1, <1>2 DEF Pending
<1>4. doc[source][row] \in Nat
  BY <1>2, <1>3
<1>5. taken <= doc[source][row]
  BY <1>1, <1>4 DEF RenderInv, Position
<1>6. PICK h \in Nat : h = doc[source][row]
  BY <1>4
<1>7. Height \in Nat /\ Height = h - taken
  BY <1>1, <1>5, <1>6 DEF Height
<1>8. /\ page = <<>> => remaining = available
      /\ page # <<>> => remaining >= 1
  BY DEF RenderInv, Room
<1>9. Capacity \in Nat /\ Capacity <= remaining /\ Capacity >= 1
  <2>1. CASE page = <<>>
    BY <2>1, <1>1, <1>8 DEF Capacity
  <2>2. CASE page # <<>>
    BY <2>2, <1>1, <1>8 DEF Capacity
  <2> QED
    BY <2>1, <2>2
<1>10. Take \in Nat /\ Take <= remaining /\ Take <= Height
  BY <1>7, <1>9, <1>1 DEF Take
<1>11. taken + Take \in Nat /\ taken + Take <= h
  <2>1. PICK t, f \in Nat : t = taken /\ f = Take
    BY <1>1, <1>10
  <2>2. f <= h - t
    BY <2>1, <1>7, <1>10
  <2>3. t + f \in Nat /\ t + f <= h
    BY <2>1, <2>2, <1>6
  <2> QED
    BY <2>1, <2>3
<1>12. Slice(taken, taken + Take) \in Slices
  BY <1>1, <1>11 DEF Slice, Slices
<1> QED
  BY <1>1, <1>2, <1>3, <1>4, <1>5, <1>6, <1>8, <1>9, <1>10, <1>11, <1>12

(* The page being filled, when it has slices, is the last one printed.     *)
LEMMA FinalSliceFacts ==
  ASSUME RenderInv
  PROVE  /\ pages \in Seq(Seq(Slices)) /\ page \in Seq(Slices)
         /\ page = <<>> => Printed = pages
         /\ page # <<>> => /\ Printed = Append(pages, page) /\ Printed # <<>>
                           /\ FinalSlice(Printed) = page
         /\ Printed \in Seq(Seq(Slices))
<1>1. pages \in Seq(Seq(Slices)) /\ page \in Seq(Slices)
  BY DEF RenderInv, RenderTypeOK
<1> QED
  BY <1>1, AppendFacts DEF Printed, FinalSlice

(* The slice PlaceRow puts on the page follows everything placed before    *)
(* it.                                                                     *)
LEMMA PlacedInOrder ==
  ASSUME RenderInv, phase = "rows", Pending
  PROVE  ReadingOrder(Append(pages, Append(page, Slice(taken, taken + Take))))
<1> DEFINE s == Slice(taken, taken + Take)
           placed == Append(page, s)
<1>1. /\ pages \in Seq(Seq(Slices)) /\ page \in Seq(Slices)
      /\ page = <<>> => Printed = pages
      /\ page # <<>> => Printed = Append(pages, page) /\ FinalSlice(Printed) = page
                        /\ Printed # <<>>
      /\ ReadingOrder(Printed)
  BY FinalSliceFacts DEF RenderInv, NoLineDropped
<1>2. s \in Slices /\ s.source = source /\ s.row = row /\ s.from = taken
  BY PendingFacts DEF Slice
<1>3. Printed # <<>> => Follows(FinalSlice(FinalSlice(Printed)), s)
  BY <1>2 DEF RenderInv, Position, ComesNext, Follows
<1>4. Printed = <<>> => Opens(s)
  BY <1>2 DEF RenderInv, Position, Opens
<1> HIDE DEF s
<1>5. placed \in Seq(Slices) /\ (page = <<>> => placed[1] = s)
      /\ (page # <<>> => placed[1] = page[1])
  BY <1>1, <1>2, AppendFacts, NotEmpty
<1> HIDE DEF placed
<1>6. CASE page = <<>>
  <2>1. Continuous(placed)
    BY <1>1, <1>2, <1>6, SliceAppended DEF placed
  <2> QED
    BY <2>1, <1>1, <1>3, <1>4, <1>5, <1>6, PageAppended DEF placed, s
<1>7. CASE page # <<>>
  <2>1. /\ ReadingOrder(pages) /\ Continuous(page)
        /\ pages # <<>> => Follows(FinalSlice(FinalSlice(pages)), page[1])
        /\ pages = <<>> => Opens(page[1])
    <3>1. ReadingOrder(Append(pages, page))
      BY <1>1, <1>7
    <3> QED
      BY <3>1, <1>1, PageTakenOff
  <2>2. Follows(FinalSlice(page), s)
    BY <1>1, <1>3, <1>7
  <2>3. Continuous(placed)
    BY <2>1, <2>2, <1>1, <1>2, SliceAppended DEF placed
  <2> QED
    BY <2>1, <2>3, <1>1, <1>5, <1>7, PageAppended DEF placed, s
<1> QED
  BY <1>6, <1>7

(* The slice PlaceRow puts on the page is drawn above the bottom margin,   *)
(* and what remains is the lines below it and the line between rows.       *)
LEMMA PlacedFits ==
  ASSUME RenderInv, phase = "rows", Pending
  PROVE  LET placed == Append(page, Slice(taken, taken + Take))
         IN  \E top \in [DOMAIN placed -> 0..available] :
               /\ DrawnFrom(placed, top)
               /\ \A k \in DOMAIN placed : top[k] + Lines(placed[k]) <= available
               /\ top[Len(placed)] + Lines(FinalSlice(placed)) + 1
                    = available - (remaining - (Take + 1))
<1> DEFINE s == Slice(taken, taken + Take)
           placed == Append(page, s)
<1>1. /\ available \in Nat \ {0} /\ remaining \in Nat /\ Take \in Nat /\ Take <= remaining
      /\ s \in Slices /\ Lines(s) = Take
      /\ page = <<>> => remaining = available
  <2>1. taken \in Nat
    BY DEF RenderInv, RenderTypeOK
  <2> QED
    BY <2>1, PendingFacts DEF Lines, Slice
<1>2. page \in Seq(Slices)
  BY DEF RenderInv, RenderTypeOK
<1> HIDE DEF s
<1>3. /\ Len(placed) = Len(page) + 1 /\ Len(page) \in Nat
      /\ placed[Len(page) + 1] = s /\ (\A i \in 1..Len(page) : placed[i] = page[i])
      /\ DOMAIN placed = 1..(Len(page) + 1) /\ DOMAIN page = 1..Len(page)
  BY <1>1, <1>2, AppendFacts
<1> HIDE DEF placed
<1> DEFINE At(top) ==
      /\ top \in [DOMAIN placed -> 0..available]
      /\ DrawnFrom(placed, top)
      /\ \A k \in DOMAIN placed : top[k] + Lines(placed[k]) <= available
      /\ top[Len(placed)] + Lines(FinalSlice(placed)) + 1
           = available - (remaining - (Take + 1))
<1>4. CASE page = <<>>
  <2>1. Len(page) = 0
    BY <1>4
  <2> DEFINE top == [k \in DOMAIN placed |-> 0]
  <2>2. top \in [DOMAIN placed -> 0..available] /\ top[1] = 0
    BY <1>1, <1>3, <2>1
  <2>3. placed[1] = s /\ FinalSlice(placed) = s /\ Len(placed) = 1 /\ DOMAIN placed = {1}
    BY <1>3, <2>1 DEF FinalSlice
  <2> HIDE DEF top
  <2>4. DrawnFrom(placed, top)
    BY <2>2, <2>3 DEF DrawnFrom
  <2>5. At(top)
    BY <2>2, <2>3, <2>4, <1>1, <1>4
  <2> QED
    BY <2>5 DEF placed, s
<1>5. CASE page # <<>>
  <2>1. PICK old \in [DOMAIN page -> 0..available] :
          /\ DrawnFrom(page, old)
          /\ \A k \in DOMAIN page : old[k] + Lines(page[k]) <= available
          /\ old[Len(page)] + Lines(FinalSlice(page)) + 1 = available - remaining
    BY <1>5 DEF RenderInv, Room
  <2>2. Len(page) \in Nat \ {0} /\ remaining \in 1..available
    BY <1>2, <1>5, NotEmpty DEF RenderInv, Room
  <2> DEFINE n == Len(page)
             top == [k \in DOMAIN placed |-> IF k = n + 1 THEN available - remaining ELSE old[k]]
  <2>3. /\ top \in [DOMAIN placed -> 0..available]
        /\ top[n + 1] = available - remaining
        /\ \A k \in 1..n : top[k] = old[k]
    <3>1. ASSUME NEW k \in 1..(n + 1) PROVE top[k] \in 0..available
      BY <2>1, <2>2, <1>1, <1>3
    <3> QED
      BY <3>1, <2>2, <1>3
  <2>4. page[n] = FinalSlice(page) /\ placed[n] = FinalSlice(page) /\ placed[n + 1] = s
        /\ FinalSlice(placed) = s /\ Len(placed) = n + 1
    BY <1>3, <2>2 DEF FinalSlice
  <2>5. old[1] = 0 /\ \A k \in 1..(n - 1) : old[k + 1] = old[k] + Lines(page[k]) + 1
    BY <2>1 DEF DrawnFrom
  <2>6. Lines(FinalSlice(page)) \in Int /\ old[n] \in Int
    <3>1. page[n] \in Slices
      BY <1>2, <1>5, NotEmpty
    <3> QED
      BY <3>1, <2>1, <2>2, <2>4, <1>3, <1>1 DEF Lines, Slices
  <2> HIDE DEF top
  <2>7. DrawnFrom(placed, top)
    <3>1. top[1] = 0
      BY <2>2, <2>3, <2>5
    <3>2. ASSUME NEW k \in 1..(Len(placed) - 1)
          PROVE  top[k + 1] = top[k] + Lines(placed[k]) + 1
      <4>1. CASE k = n
        <5>1. top[n + 1] = old[n] + Lines(FinalSlice(page)) + 1
          BY <2>1, <2>3
        <5> QED
          BY <4>1, <5>1, <2>2, <2>3, <2>4
      <4>2. CASE k # n
        <5>1. k \in 1..(n - 1) /\ k + 1 \in 1..n /\ k \in 1..n
          BY <4>2, <2>2, <2>4
        <5>2. placed[k] = page[k] /\ top[k] = old[k] /\ top[k + 1] = old[k + 1]
          BY <5>1, <2>3, <1>3
        <5> QED
          BY <5>1, <5>2, <2>5
      <4> QED
        BY <4>1, <4>2
    <3> QED
      BY <3>1, <3>2 DEF DrawnFrom
  <2>8. ASSUME NEW k \in DOMAIN placed PROVE top[k] + Lines(placed[k]) <= available
    <3>1. CASE k = n + 1
      BY <3>1, <2>2, <2>3, <2>4, <1>1
    <3>2. CASE k # n + 1
      <4>1. k \in 1..n /\ k \in DOMAIN page
        BY <3>2, <1>3, <2>2
      <4>2. placed[k] = page[k] /\ top[k] = old[k]
        BY <4>1, <2>3, <1>3
      <4> QED
        BY <4>1, <4>2, <2>1
    <3> QED
      BY <3>1, <3>2
  <2>9. top[Len(placed)] + Lines(FinalSlice(placed)) + 1 = available - (remaining - (Take + 1))
    BY <2>2, <2>3, <2>4, <1>1
  <2>10. At(top)
    BY <2>3, <2>7, <2>8, <2>9
  <2> QED
    BY <2>10 DEF placed, s
<1> QED
  BY <1>4, <1>5

(* Finished pages fit as long as only fitting ones are added.              *)
LEMMA PagesStillFit ==
  ASSUME RenderInv, available' = available,
         \/ pages' = pages
         \/ \E p \in Seq(Slices) : Fits(p) /\ pages' = Append(pages, p)
  PROVE  PageFits'
<1>1. pages \in Seq(Seq(Slices)) /\ PageFits
  BY DEF RenderInv, RenderTypeOK, LayoutOK
<1>2. \A i \in DOMAIN pages' : \E p \in {pages'[i]} : Fits(p)
  <2>1. CASE pages' = pages
    BY <1>1, <2>1 DEF PageFits
  <2>2. ASSUME NEW p \in Seq(Slices), Fits(p), pages' = Append(pages, p)
        PROVE  \A i \in DOMAIN pages' : Fits(pages'[i])
    <3> PICK ps : ps = pages'
      OBVIOUS
    <3>1. /\ DOMAIN ps = 1..(Len(pages) + 1) /\ Len(pages) \in Nat
          /\ ps[Len(pages) + 1] = p /\ (\A i \in 1..Len(pages) : ps[i] = pages[i])
          /\ DOMAIN pages = 1..Len(pages)
      BY <1>1, <2>2, AppendFacts
    <3>2. ASSUME NEW i \in DOMAIN ps PROVE Fits(ps[i])
      <4>1. CASE i = Len(pages) + 1
        BY <4>1, <3>1, <2>2
      <4>2. CASE i # Len(pages) + 1
        <5>1. i \in DOMAIN pages /\ ps[i] = pages[i]
          BY <4>2, <3>1
        <5> QED
          BY <5>1, <1>1 DEF PageFits
      <4> QED
        BY <4>1, <4>2
    <3> QED
      BY <3>2
  <2> QED
    BY <2>1, <2>2
<1> QED
  BY <1>2 DEF PageFits, Fits, DrawnFrom, Lines

(* One turn of the loop over the pending rows.                             *)
LEMMA PlaceRowKeeps ==
  ASSUME RenderInv, PlaceRow
  PROVE  RenderInv'
<1>1. phase = "rows" /\ Pending
  BY DEF PlaceRow
<1>2. PICK s, h, to : s = Slice(taken, taken + Take) /\ h = doc[source][row] /\ to = taken + Take
  OBVIOUS
<1>3. PICK placed, rest : placed = Append(page, s) /\ rest = remaining - (Take + 1)
  OBVIOUS
<1> DEFINE rowDone == to = h
           turn    == rest <= 0 \/ ~rowDone
<1>4. /\ row' = IF rowDone THEN row + 1 ELSE row
      /\ taken' = IF rowDone THEN 0 ELSE to
      /\ page' = IF turn THEN <<>> ELSE placed
      /\ pages' = IF turn THEN Append(pages, placed) ELSE pages
      /\ remaining' = IF turn THEN available ELSE rest
      /\ UNCHANGED <<doc, available, phase, source, objects, contentIds, pageIds, root>>
  BY <1>2, <1>3 DEF PlaceRow, input, file
<1>5. /\ source \in DOMAIN doc /\ row \in DOMAIN doc[source]
      /\ h \in Nat /\ to \in Nat /\ to <= h /\ available \in Nat \ {0} /\ rest \in Int
      /\ s \in Slices
  <2>1. taken \in Nat /\ doc[source][row] \in Nat /\ Take \in Nat /\ remaining \in Nat
    BY <1>1, PendingFacts DEF RenderInv, RenderTypeOK
  <2> QED
    BY <2>1, <1>1, <1>2, <1>3, PendingFacts
<1>6. rest < available
  <2>1. remaining <= available /\ remaining \in Nat /\ Take \in Nat /\ available \in Nat
    BY <1>1, PendingFacts DEF RenderInv, Room
  <2> QED
    BY <2>1, <1>3
<1>7. /\ doc \in Documents /\ available \in PageLines /\ doc \in Seq(Seq(Nat))
      /\ source \in Nat \ {0} /\ row \in Nat \ {0}
      /\ pages \in Seq(Seq(Slices)) /\ page \in Seq(Slices)
      /\ source <= Len(doc) /\ row <= Len(doc[source])
      /\ Len(doc) \in Nat /\ Len(doc[source]) \in Nat
  <2>1. doc \in Documents /\ doc \in Seq(Seq(Nat))
    BY <1>1, RenderAssumption DEF RenderInv, RenderTypeOK
  <2>2. doc[source] \in Seq(Nat)
    BY <2>1, <1>5
  <2> QED
    BY <1>1, <2>1, <2>2 DEF RenderInv, RenderTypeOK, Pending
<1>8. s.source = source /\ s.row = row /\ s.from = taken /\ s.to = to
  BY <1>2 DEF Slice
<1>9. ReadingOrder(Append(pages, placed))
  BY <1>1, <1>2, <1>3, PlacedInOrder
<1>10. PICK top \in [DOMAIN placed -> 0..available] :
        /\ DrawnFrom(placed, top)
        /\ \A k \in DOMAIN placed : top[k] + Lines(placed[k]) <= available
        /\ top[Len(placed)] + Lines(FinalSlice(placed)) + 1 = available - rest
  BY <1>1, <1>2, <1>3, PlacedFits
<1>11. placed \in Seq(Slices) /\ placed # <<>> /\ FinalSlice(placed) = s
  <2>1. page \in Seq(Slices) /\ s \in Slices
    BY <1>5, <1>7
  <2>2. /\ Append(page, s) \in Seq(Slices) /\ Len(Append(page, s)) = Len(page) + 1
        /\ Append(page, s) # <<>> /\ Append(page, s)[Len(page) + 1] = s
    BY <2>1, AppendFacts
  <2> QED
    BY <2>2, <1>3 DEF FinalSlice
<1>12. /\ Append(pages, placed) \in Seq(Seq(Slices)) /\ Append(pages, placed) # <<>>
       /\ FinalSlice(Append(pages, placed)) = placed
  <2>1. pages \in Seq(Seq(Slices)) /\ placed \in Seq(Slices)
    BY <1>7, <1>11
  <2>2. /\ Append(pages, placed) \in Seq(Seq(Slices)) /\ Append(pages, placed) # <<>>
        /\ Len(Append(pages, placed)) = Len(pages) + 1
        /\ Append(pages, placed)[Len(pages) + 1] = placed
    BY <2>1, AppendFacts
  <2> QED
    BY <2>2 DEF FinalSlice
<1>13. Printed' = Append(pages, placed)
  BY <1>4, <1>11, <1>12 DEF Printed
<1>14. RenderTypeOK'
  <2>1. row' \in Nat \ {0} /\ taken' \in Nat /\ remaining' \in Int
    BY <1>4, <1>5, <1>7
  <2>2. page' \in Seq(Slices) /\ pages' \in Seq(Seq(Slices))
    BY <1>4, <1>7, <1>11, <1>12
  <2> QED
    BY <2>1, <2>2, <1>1, <1>4, <1>7 DEF RenderInv, RenderTypeOK
<1>15. Position'
  <2>1. Printed' # <<>> /\ FinalSlice(FinalSlice(Printed))' = s
    BY <1>11, <1>12, <1>13 DEF FinalSlice
  <2>2. ComesNext(s)'
    <3>1. CASE rowDone
      <4>1. row' = row + 1 /\ taken' = 0 /\ source' = source /\ doc' = doc
            /\ s.to = doc[s.source][s.row]
        BY <3>1, <1>2, <1>4, <1>8
      <4> QED
        BY <4>1, <1>5, <1>8 DEF ComesNext
    <3>2. CASE ~rowDone
      <4>1. row' = row /\ taken' = to /\ source' = source /\ doc' = doc
        BY <3>2, <1>4
      <4> QED
        BY <4>1, <1>5, <1>8 DEF ComesNext
    <3> QED
      BY <3>1, <3>2
  <2>3. ComesNext(FinalSlice(FinalSlice(Printed)))'
    BY <2>1, <2>2 DEF ComesNext
  <2>4. (taken > 0 => page = <<>> /\ Pending /\ taken < doc[source][row])'
    <3>1. CASE rowDone
      BY <3>1, <1>4
    <3>2. CASE ~rowDone
      <4>1. page' = <<>> /\ row' = row /\ source' = source /\ doc' = doc /\ taken' = to /\ to < h
        BY <3>2, <1>4, <1>5
      <4> QED
        BY <4>1, <1>2, <1>7 DEF Pending
    <3> QED
      BY <3>1, <3>2
  <2>5. source' <= Len(doc') + 1 /\ source' <= Len(doc') /\ row' <= Len(doc'[source']) + 1
    BY <1>4, <1>7
  <2> QED
    BY <2>1, <2>3, <2>4, <2>5, <1>4, <1>7 DEF Position
<1>16. Room'
  <2>1. CASE turn
    BY <2>1, <1>4 DEF Room
  <2>2. CASE ~turn
    <3>1. page' = placed /\ remaining' = rest /\ rest \in 1..available
          /\ available' = available /\ (source <= Len(doc))'
      BY <2>2, <1>4, <1>5, <1>6, <1>7
    <3>2. (\E t \in [DOMAIN page -> 0..available] :
            /\ DrawnFrom(page, t)
            /\ \A k \in DOMAIN page : t[k] + Lines(page[k]) <= available
            /\ t[Len(page)] + Lines(FinalSlice(page)) + 1 = available - remaining)'
      BY <3>1, <1>10 DEF DrawnFrom, Lines, FinalSlice
    <3> QED
      BY <3>1, <3>2, <1>11 DEF Room
  <2> QED
    BY <2>1, <2>2
<1>17. NoLineDropped'
  <2>1. ReadingOrder(Printed)'
    BY <1>4, <1>9, <1>13, SameOrder
  <2> QED
    BY <2>1, <1>1, <1>4 DEF NoLineDropped
<1>18. LayoutOK'
  <2>1. Fits(placed)
    BY <1>10 DEF Fits
  <2>2. PageFits'
    BY <2>1, <1>4, <1>11, PagesStillFit
  <2> QED
    BY <2>2, <1>1, <1>4 DEF LayoutOK, NoBlankObject
<1>19. Untouched' /\ ToBeFilled' /\ AllRowsPlaced'
  BY <1>1, <1>4 DEF RenderInv, Untouched, ToBeFilled, AllRowsPlaced
<1> QED
  BY <1>14, <1>15, <1>16, <1>17, <1>18, <1>19 DEF RenderInv

(* The rows of a source page are used up: the last line placed is its last *)
(* one.                                                                    *)
LEMMA EndSourcePageKeeps ==
  ASSUME RenderInv, EndSourcePage
  PROVE  RenderInv'
<1>1. /\ phase = "rows" /\ source <= Len(doc) /\ ~Pending
      /\ pages' = (IF page = <<>> THEN pages ELSE Append(pages, page))
      /\ page' = <<>> /\ remaining' = available /\ source' = source + 1 /\ row' = 1
      /\ UNCHANGED <<doc, available, phase, taken, objects, contentIds, pageIds, root>>
  BY DEF EndSourcePage, input, file
<1>2. Printed' = Printed
  BY <1>1 DEF Printed
<1>3. /\ doc \in Documents /\ doc \in Seq(Seq(Nat)) /\ available \in PageLines
      /\ source \in Nat \ {0} /\ row \in Nat \ {0} /\ taken \in Nat
      /\ pages \in Seq(Seq(Slices)) /\ page \in Seq(Slices) /\ source \in DOMAIN doc
      /\ Len(doc) \in Nat
  BY <1>1, RenderAssumption DEF RenderInv, RenderTypeOK
<1>4. Len(doc[source]) \in Nat \ {0} /\ DOMAIN doc[source] = 1..Len(doc[source])
  <2>1. doc[source] \in Seq(Nat)
    BY <1>3
  <2>2. \A i \in DOMAIN doc : Len(doc[i]) > 0
    BY <1>3, RenderAssumption
  <2>3. PICK rows \in Seq(Nat) : rows = doc[source]
    BY <2>1
  <2>4. Len(rows) > 0
    BY <2>2, <2>3, <1>3
  <2>5. Len(rows) \in Nat \ {0} /\ DOMAIN rows = 1..Len(rows)
    BY <2>3, <2>4
  <2> QED
    BY <2>3, <2>5
<1>5. row > Len(doc[source])
  <2>1. ~(row <= Len(doc[source]))
    BY <1>1 DEF Pending
  <2> QED
    BY <2>1, <1>3, <1>4
<1>6. row = Len(doc[source]) + 1 /\ taken = 0
  <2>1. row <= Len(doc[source]) + 1
    BY <1>1 DEF RenderInv, Position
  <2>2. ~(taken > 0)
    BY <1>1 DEF RenderInv, Position
  <2> QED
    BY <2>1, <2>2, <1>3, <1>4, <1>5
<1>7. RenderTypeOK'
  <2>1. pages' \in Seq(Seq(Slices)) /\ page' \in Seq(Slices) /\ remaining' \in Int
        /\ source' \in Nat \ {0} /\ row' \in Nat \ {0}
    BY <1>1, <1>3, RenderAssumption
  <2> QED
    BY <2>1, <1>1, <1>3 DEF RenderInv, RenderTypeOK
<1>8. Position'
  <2>1. Printed # <<>>
    BY <1>1, <1>4, <1>6 DEF RenderInv, Position
  <2>2. PICK s : s = FinalSlice(FinalSlice(Printed))
    OBVIOUS
  <2>3. ComesNext(s)
    BY <2>1, <2>2, <1>1 DEF RenderInv, Position
  <2>4. s.source = source /\ s.row \in DOMAIN doc[source] /\ s.to = doc[source][s.row]
        /\ s.row = Len(doc[source])
    <3>1. s.row \in DOMAIN doc[s.source] /\ s.source \in DOMAIN doc
      BY <2>3 DEF ComesNext
    <3>2. ~(s.source = source /\ s.row = row)
      BY <3>1, <1>4, <1>6
    <3>3. row # 1
      BY <1>4, <1>6
    <3>4. s.to = doc[s.source][s.row] /\ source = s.source /\ row = s.row + 1
      BY <2>3, <3>2, <3>3 DEF ComesNext
    <3>5. s.row \in 1..Len(doc[source])
      BY <3>1, <3>4, <1>4
    <3> QED
      BY <3>1, <3>4, <3>5, <1>4, <1>6
  <2>5. ComesNext(s)'
    BY <2>4, <1>1, <1>3, <1>6 DEF ComesNext
  <2>6. FinalSlice(FinalSlice(Printed))' = s /\ Printed' # <<>>
    BY <2>1, <2>2, <1>2 DEF FinalSlice
  <2>7. ComesNext(FinalSlice(FinalSlice(Printed)))'
    BY <2>5, <2>6 DEF ComesNext
  <2>8. source' <= Len(doc') + 1 /\ (source' <= Len(doc') => row' <= Len(doc'[source']) + 1)
    <3>1. source' <= Len(doc') => Len(doc'[source']) \in Nat
      <4>1. ASSUME source + 1 <= Len(doc) PROVE Len(doc[source + 1]) \in Nat
        <5>1. source + 1 \in DOMAIN doc
          BY <4>1, <1>3
        <5>2. doc[source + 1] \in Seq(Nat)
          BY <5>1, <1>3
        <5> QED
          BY <5>2
      <4> QED
        BY <4>1, <1>1
    <3> QED
      BY <3>1, <1>1, <1>3
  <2> QED
    BY <2>6, <2>7, <2>8, <1>1, <1>6 DEF Position
<1>9. NoLineDropped'
  <2>1. PICK ps : ps = Printed
    OBVIOUS
  <2>2. ReadingOrder(ps)
    BY <2>1 DEF RenderInv, NoLineDropped
  <2>3. ReadingOrder(Printed)'
    BY <2>1, <2>2, <1>1, <1>2, SameOrder
  <2> QED
    BY <2>3, <1>1 DEF NoLineDropped
<1>10. LayoutOK'
  <2>1. CASE page = <<>>
    BY <2>1, <1>1, PagesStillFit DEF LayoutOK, NoBlankObject
  <2>2. CASE page # <<>>
    <3>1. Fits(page)
      BY <2>2, <1>1 DEF RenderInv, Room, Fits
    <3>2. pages' = Append(pages, page)
      BY <2>2, <1>1
    <3>3. PageFits'
      BY <3>1, <3>2, <1>1, <1>3, PagesStillFit
    <3> QED
      BY <3>3, <1>1 DEF LayoutOK, NoBlankObject
  <2> QED
    BY <2>1, <2>2
<1>11. Untouched' /\ ToBeFilled' /\ AllRowsPlaced' /\ Room'
  BY <1>1 DEF RenderInv, Untouched, ToBeFilled, AllRowsPlaced, Room
<1> QED
  BY <1>7, <1>8, <1>9, <1>10, <1>11 DEF RenderInv

(* The source pages are used up: the last line placed is the document's.   *)
LEMMA EndPaginationKeeps ==
  ASSUME RenderInv, EndPagination
  PROVE  RenderInv'
<1>1. /\ phase = "rows" /\ source > Len(doc) /\ phase' = "objects"
      /\ UNCHANGED <<doc, available, source, row, taken, page, remaining, pages,
                     objects, contentIds, pageIds, root>>
  BY DEF EndPagination, input, layout, file
<1>2. Printed' = Printed
  BY <1>1 DEF Printed
<1>3. /\ doc \in Seq(Seq(Nat)) /\ Len(doc) \in Nat \ {0}
      /\ source \in Nat \ {0} /\ row \in Nat \ {0} /\ taken \in Nat
  BY <1>1, RenderAssumption DEF RenderInv, RenderTypeOK
<1>4. source = Len(doc) + 1 /\ row = 1 /\ page = <<>> /\ taken = 0
  <2>1. source = Len(doc) + 1 /\ row = 1
    BY <1>1, <1>3 DEF RenderInv, Position
  <2>2. ~Pending
    BY <1>1, <1>3 DEF Pending
  <2> QED
    BY <2>1, <2>2, <1>1, <1>3 DEF RenderInv, Position, Room
<1>5. Printed # <<>> /\ Closes(FinalSlice(FinalSlice(Printed)))
  <2>1. Printed # <<>>
    BY <1>1, <1>3, <1>4 DEF RenderInv, Position
  <2>2. PICK s : s = FinalSlice(FinalSlice(Printed))
    OBVIOUS
  <2>3. ComesNext(s)
    BY <2>1, <2>2, <1>1 DEF RenderInv, Position
  <2>4. s.source \in 1..Len(doc) /\ s.row \in DOMAIN doc[s.source]
    BY <2>3, <1>3 DEF ComesNext
  <2>5. s.source # source
    BY <2>4, <1>3, <1>4
  <2>6. source = s.source + 1 /\ s.row = Len(doc[s.source]) /\ s.to = doc[s.source][s.row]
    BY <2>3, <2>5 DEF ComesNext
  <2>7. s.source = Len(doc)
    BY <2>4, <2>6, <1>3, <1>4
  <2> QED
    BY <2>1, <2>2, <2>6, <2>7 DEF Closes
<1>6. RenderTypeOK' /\ Untouched' /\ Position' /\ Room' /\ ToBeFilled' /\ AllRowsPlaced'
  <2>1. RenderTypeOK' /\ Untouched' /\ ToBeFilled' /\ AllRowsPlaced'
    BY <1>1, <1>4 DEF RenderInv, RenderTypeOK, Untouched, ToBeFilled, AllRowsPlaced
  <2>2. Position'
    BY <1>1, <1>2 DEF RenderInv, Position, ComesNext, FinalSlice, Pending
  <2>3. Room'
    BY <1>1, <1>4 DEF RenderInv, Room
  <2> QED
    BY <2>1, <2>2, <2>3
<1>7. NoLineDropped'
  <2>1. PICK ps : ps = Printed
    OBVIOUS
  <2>2. ReadingOrder(ps)
    BY <2>1 DEF RenderInv, NoLineDropped
  <2>3. ReadingOrder(Printed)'
    BY <2>1, <2>2, <1>1, <1>2, SameOrder
  <2>4. (Printed # <<>> /\ Closes(FinalSlice(FinalSlice(Printed))))'
    BY <1>1, <1>2, <1>5 DEF Closes, FinalSlice
  <2> QED
    BY <2>3, <2>4 DEF NoLineDropped
<1>8. LayoutOK'
  BY <1>1, PagesStillFit DEF LayoutOK, NoBlankObject
<1> QED
  BY <1>6, <1>7, <1>8 DEF RenderInv

(* Writing objects does not touch the pages.                               *)
LEMMA LaterPhases ==
  ASSUME RenderInv, phase = "objects", phase' \in {"objects", "done"}, UNCHANGED <<input, layout>>
  PROVE  Untouched' /\ Position' /\ Room' /\ AllRowsPlaced' /\ NoLineDropped' /\ PageFits'
<1>1. /\ UNCHANGED <<doc, available, source, row, taken, page, remaining, pages>>
      /\ Printed' = Printed
  BY DEF input, layout, Printed
<1>2. Untouched' /\ AllRowsPlaced'
  BY <1>1 DEF RenderInv, Untouched, AllRowsPlaced
<1>3. Position'
  BY <1>1 DEF RenderInv, Position, ComesNext, FinalSlice, Pending
<1>4. Room'
  BY <1>1 DEF RenderInv, Room, AllRowsPlaced
<1>5. NoLineDropped'
  <2>1. PICK ps : ps = Printed
    OBVIOUS
  <2>2. ReadingOrder(ps)
    BY <2>1 DEF RenderInv, NoLineDropped
  <2>3. ReadingOrder(Printed)'
    BY <2>1, <2>2, <1>1, SameOrder
  <2>4. (Printed # <<>> /\ Closes(FinalSlice(FinalSlice(Printed))))'
    BY <1>1 DEF RenderInv, NoLineDropped, Closes, FinalSlice
  <2> QED
    BY <2>3, <2>4 DEF NoLineDropped
<1>6. PageFits'
  BY <1>1, PagesStillFit
<1> QED
  BY <1>2, <1>3, <1>4, <1>5, <1>6

(* A page's stream is written and a placeholder noted for the page.        *)
LEMMA AddPageKeeps ==
  ASSUME RenderInv, AddPage
  PROVE  RenderInv'
<1>1. phase = "objects" /\ phase' = "objects" /\ UNCHANGED <<input, layout, root>>
  BY DEF AddPage
<1>2. Untouched' /\ Position' /\ Room' /\ AllRowsPlaced' /\ NoLineDropped' /\ LayoutOK'
  BY <1>1, LaterPhases DEF LayoutOK, NoBlankObject
<1>3. /\ objects \in Seq(Objects) /\ contentIds \in Seq(Nat) /\ pageIds \in Seq(Nat)
      /\ Len(contentIds) = Len(pageIds) /\ Len(objects) \in Nat /\ Len(pageIds) \in Nat
  BY DEF RenderInv, RenderTypeOK
<1>4. PICK n, m : n = Len(objects) /\ m = Len(pageIds)
  OBVIOUS
<1>5. PICK stream \in Objects, blank \in Objects :
        /\ stream = [type |-> "stream", refs |-> {}] /\ blank = Blank
  BY DEF Objects, Blank
<1>6. /\ contentIds' = Append(contentIds, n + 1) /\ pageIds' = Append(pageIds, n + 2)
      /\ objects' = objects \o <<stream, blank>>
  BY <1>4, <1>5 DEF AddPage
<1>7. /\ objects' \in Seq(Objects) /\ Len(objects') = n + 2
      /\ \A i \in 1..n : objects'[i] = objects[i]
      /\ objects'[n + 1] = stream /\ objects'[n + 2] = blank
      /\ DOMAIN objects' = 1..(n + 2) /\ DOMAIN objects = 1..n
  BY <1>3, <1>4, <1>5, <1>6
<1>8. /\ contentIds' \in Seq(Nat) /\ pageIds' \in Seq(Nat)
      /\ Len(contentIds') = m + 1 /\ Len(pageIds') = m + 1
      /\ \A k \in 1..m : pageIds'[k] = pageIds[k]
      /\ pageIds'[m + 1] = n + 2
      /\ DOMAIN pageIds' = 1..(m + 1) /\ DOMAIN pageIds = 1..m
  BY <1>3, <1>4, <1>6
<1>9. RenderTypeOK'
  BY <1>1, <1>7, <1>8 DEF RenderInv, RenderTypeOK, input, layout
<1>10. ToBeFilled'
  <2>1. SUFFICES ASSUME NEW i \in 1..(n + 2), i # 1, objects'[i].type = "blank"
                 PROVE  \E k \in DOMAIN pageIds' : pageIds'[k] = i
    BY <1>7 DEF ToBeFilled
  <2>2. CASE i \in 1..n
    <3>1. objects[i].type = "blank" /\ i \in DOMAIN objects \ {1}
      BY <2>1, <2>2, <1>7
    <3>2. PICK k \in DOMAIN pageIds : pageIds[k] = i
      BY <3>1, <1>1 DEF RenderInv, ToBeFilled
    <3>3. k \in 1..m /\ k \in DOMAIN pageIds'
      BY <3>2, <1>3, <1>4, <1>8
    <3>4. pageIds'[k] = i
      BY <3>2, <3>3, <1>8
    <3> QED
      BY <3>3, <3>4
  <2>3. CASE i = n + 1
    BY <2>1, <2>3, <1>5, <1>7
  <2>4. CASE i = n + 2
    <3>1. m + 1 \in DOMAIN pageIds' /\ pageIds'[m + 1] = i
      BY <2>4, <1>3, <1>4, <1>8
    <3> QED
      BY <3>1
  <2> QED
    BY <2>2, <2>3, <2>4, <1>3, <1>4
<1> QED
  BY <1>2, <1>9, <1>10 DEF RenderInv

(* Every placeholder is filled: those of pages by their noted ids, those   *)
(* of tree and catalog by name.                                            *)
LEMMA FillObjectsKeeps ==
  ASSUME RenderInv, FillObjects
  PROVE  RenderInv'
<1>1. phase = "objects" /\ phase' = "done"
      /\ UNCHANGED <<input, layout, contentIds, pageIds>>
  BY DEF FillObjects
<1>2. Untouched' /\ Position' /\ Room' /\ AllRowsPlaced' /\ NoLineDropped' /\ PageFits'
  BY <1>1, LaterPhases
<1>3. /\ objects \in Seq(Objects) /\ contentIds \in Seq(Nat) /\ pageIds \in Seq(Nat)
      /\ Len(contentIds) = Len(pageIds) /\ Len(objects) \in Nat
      /\ DOMAIN contentIds = DOMAIN pageIds
  BY DEF RenderInv, RenderTypeOK
<1>4. PICK n : n = Len(objects)
  OBVIOUS
<1>5. n \in Nat /\ DOMAIN objects = 1..n
  BY <1>3, <1>4
<1> DEFINE fontId    == n + 1
           pagesId   == fontId + 1
           catalogId == fontId + 2
           grown     == objects \o <<[type |-> "font", refs |-> {}], Blank, Blank>>
           Page(k)   == [type |-> "page",
                         refs |-> {Ref("pages", pagesId), Ref("font", fontId),
                                   Ref("stream", contentIds[k])}]
           Tree      == [type |-> "pages",
                         refs |-> {Ref("page", pageIds[k]) : k \in DOMAIN pageIds}]
           Catalog   == [type |-> "catalog", refs |-> {Ref("pages", pagesId)}]
<1>6. /\ objects' = [i \in DOMAIN grown |->
            IF i = pagesId THEN Tree
            ELSE IF i = catalogId THEN Catalog
            ELSE IF \E k \in DOMAIN pageIds : pageIds[k] = i
              THEN Page(CHOOSE k \in DOMAIN pageIds : pageIds[k] = i)
            ELSE grown[i]]
      /\ root' = catalogId
  BY <1>4 DEF FillObjects
<1>7. /\ Tree \in Objects /\ Catalog \in Objects /\ Tree.type = "pages"
      /\ Catalog.type = "catalog"
  <2>1. ASSUME NEW k \in DOMAIN pageIds PROVE pageIds[k] \in Nat
    BY <1>3
  <2>2. {Ref("page", pageIds[k]) : k \in DOMAIN pageIds}
          \subseteq [role : {"stream", "font", "page", "pages"}, id : Nat]
    BY <2>1 DEF Ref
  <2> QED
    BY <2>2, <1>5 DEF Objects, Ref
<1>8. ASSUME NEW k \in DOMAIN pageIds PROVE Page(k) \in Objects /\ Page(k).type = "page"
  <2>1. contentIds[k] \in Nat
    BY <1>3
  <2> QED
    BY <2>1, <1>5 DEF Objects, Ref
<1>9. /\ grown \in Seq(Objects) /\ DOMAIN grown = 1..(n + 3) /\ Len(grown) = n + 3
      /\ \A i \in 1..n : grown[i] = objects[i]
      /\ grown[n + 1].type = "font"
  <2>1. PICK f \in Objects, b \in Objects : f = [type |-> "font", refs |-> {}] /\ b = Blank
    BY DEF Objects, Blank
  <2>2. grown = objects \o <<f, b, b>>
    BY <2>1
  <2> HIDE DEF grown
  <2>3. /\ grown \in Seq(Objects) /\ DOMAIN grown = 1..(n + 3) /\ Len(grown) = n + 3
        /\ \A i \in 1..n : grown[i] = objects[i]
        /\ grown[n + 1] = f
    BY <2>2, <1>3, <1>4, <1>5
  <2> QED
    BY <2>1, <2>3
<1> HIDE DEF grown, Page, Tree, Catalog
<1>10. ASSUME NEW i \in 1..(n + 3)
       PROVE  /\ objects'[i] \in Objects
              /\ i # 1 => objects'[i].type # "blank"
  <2>1. CASE i = pagesId
    BY <2>1, <1>6, <1>7, <1>9
  <2>2. CASE i = catalogId
    BY <2>2, <1>5, <1>6, <1>7, <1>9
  <2>3. CASE i # pagesId /\ i # catalogId /\ \E k \in DOMAIN pageIds : pageIds[k] = i
    <3>1. PICK j : j = CHOOSE k \in DOMAIN pageIds : pageIds[k] = i
      OBVIOUS
    <3>2. j \in DOMAIN pageIds
      BY <3>1, <2>3
    <3>3. objects'[i] = Page(j)
      BY <3>1, <2>3, <1>6, <1>9
    <3> QED
      BY <3>2, <3>3, <1>8
  <2>4. CASE i # pagesId /\ i # catalogId /\ ~\E k \in DOMAIN pageIds : pageIds[k] = i
    <3>1. objects'[i] = grown[i] /\ grown[i] \in Objects
      BY <2>4, <1>6, <1>9
    <3>2. CASE i = n + 1
      BY <3>1, <3>2, <1>9
    <3>3. CASE i # n + 1
      <4>1. i \in 1..n /\ grown[i] = objects[i]
        BY <3>3, <2>4, <1>5, <1>9
      <4>2. i # 1 => objects[i].type # "blank"
        BY <4>1, <2>4, <1>1, <1>5 DEF RenderInv, ToBeFilled
      <4> QED
        BY <3>1, <4>1, <4>2
    <3> QED
      BY <3>2, <3>3
  <2> QED
    BY <2>1, <2>2, <2>3, <2>4
<1>11. DOMAIN objects' = 1..(n + 3) /\ objects' \in Seq(Objects) /\ Len(objects') = n + 3
  <2>1. objects' = [i \in 1..(n + 3) |-> objects'[i]]
    BY <1>6, <1>9
  <2>2. PICK new : new = objects'
    OBVIOUS
  <2>3. new = [i \in 1..(n + 3) |-> new[i]] /\ \A i \in 1..(n + 3) : new[i] \in Objects
    BY <2>1, <2>2, <1>10
  <2>4. PICK size \in Nat : size = n + 3
    BY <1>5
  <2>5. new \in [1..size -> Objects]
    BY <2>3, <2>4
  <2>6. new \in Seq(Objects) /\ DOMAIN new = 1..size /\ Len(new) = size
    BY <2>5
  <2> QED
    BY <2>2, <2>4, <2>6
<1>12. RenderTypeOK'
  <2>1. root' \in Nat
    BY <1>5, <1>6
  <2> QED
    BY <2>1, <1>1, <1>11 DEF RenderInv, RenderTypeOK, input, layout
<1>13. ToBeFilled' /\ LayoutOK'
  BY <1>1, <1>2, <1>5, <1>10, <1>11 DEF ToBeFilled, LayoutOK, NoBlankObject
<1> QED
  BY <1>2, <1>12, <1>13 DEF RenderInv

(* A step of something else.                                               *)
LEMMA RenderIdles ==
  ASSUME RenderInv, UNCHANGED renderVars
  PROVE  RenderInv'
<1>1. /\ UNCHANGED <<doc, available, phase, source, row, taken, page, remaining, pages,
                     objects, contentIds, pageIds, root>>
      /\ Printed' = Printed
  BY DEF renderVars, input, layout, file, Printed
<1>2. NoLineDropped'
  BY <1>1 DEF RenderInv, NoLineDropped, ReadingOrder, Continuous, Follows, Opens, Closes,
              FinalSlice
<1>3. LayoutOK'
  BY <1>1, PagesStillFit DEF RenderInv, LayoutOK, NoBlankObject
<1>4. RenderTypeOK' /\ Untouched' /\ ToBeFilled' /\ AllRowsPlaced'
  BY <1>1 DEF RenderInv, RenderTypeOK, Untouched, ToBeFilled, AllRowsPlaced
<1>5. Position' /\ Room'
  BY <1>1 DEF RenderInv, Position, Room, ComesNext, FinalSlice, Pending, DrawnFrom, Lines
<1> QED
  BY <1>2, <1>3, <1>4, <1>5 DEF RenderInv

(* The inductive invariant of render_document_pdf.                         *)
THEOREM RenderInvAlways == RenderSpec => []RenderInv
<1>1. RenderInv /\ [RenderNext]_renderVars => RenderInv'
  <2> SUFFICES ASSUME RenderInv, [RenderNext]_renderVars PROVE RenderInv'
    OBVIOUS
  <2>1. ASSUME NEW d \in Documents, NEW lines \in PageLines, StartRender(d, lines)
        PROVE  RenderInv'
    BY <2>1, StartKeeps
  <2>2. CASE PlaceRow
    BY <2>2, PlaceRowKeeps
  <2>3. CASE EndSourcePage
    BY <2>3, EndSourcePageKeeps
  <2>4. CASE EndPagination
    BY <2>4, EndPaginationKeeps
  <2>5. CASE AddPage
    BY <2>5, AddPageKeeps
  <2>6. CASE FillObjects
    BY <2>6, FillObjectsKeeps
  <2>7. CASE UNCHANGED renderVars
    BY <2>7, RenderIdles
  <2> QED
    BY <2>1, <2>2, <2>3, <2>4, <2>5, <2>6, <2>7 DEF RenderNext, RenderStep
<1> QED
  BY <1>1, RenderInitially, PTL DEF RenderSpec

(* For every document and page length, _paginate_rows drops, repeats and   *)
(* reorders no line and makes no empty page.                               *)
THEOREM LinesNeverDropped == RenderSpec => []NoLineDropped
<1>1. RenderInv => NoLineDropped
  BY DEF RenderInv
<1> QED
  BY <1>1, RenderInvAlways, PTL

(* For every document and page length, no page drawn by _page_stream runs  *)
(* into the bottom margin, and render_document_pdf leaves no placeholder   *)
(* in the file.                                                            *)
THEOREM LayoutAlwaysOK == RenderSpec => []LayoutOK
<1>1. RenderInv => LayoutOK
  BY DEF RenderInv
<1> QED
  BY <1>1, RenderInvAlways, PTL

===========================================================================
