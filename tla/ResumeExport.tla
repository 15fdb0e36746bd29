--------------------------- MODULE ResumeExport ---------------------------
(***************************************************************************)
(* Exporting an approved workspace: artifact rows, the object store, the   *)
(* export jobs and the applications that snapshot an export.  Extends the  *)
(* workspace model, whose actors keep running: approved workspaces can     *)
(* still be deleted, and late saves still land in them.                    *)
(*                                                                         *)
(* Three callers run the same sequence (look the artifact up, render and   *)
(* store the PDF, insert the row, commit): GET export, creating an         *)
(* application, and the worker's export task.  Rendering is a function of  *)
(* the revision's document, so a revision id stands for its bytes, its     *)
(* checksum and its storage key.                                           *)
(***************************************************************************)
EXTENDS ResumeWorkspaces

CONSTANTS Exporter,     \* requests that export or create an application
          RenderJob,    \* export job ids, each used once
          App           \* application ids, each used once

ASSUME ExportAssumption == /\ Exporter \cap RenderJob = {}
                           /\ None \notin RenderJob \cup App

VARIABLES artifacts,  \* revision ids with a succeeded artifact row
          store,      \* store[v]: the file under the storage key of v
          rjob,       \* rjob[j]: the row of an export job
          rqueue,     \* export jobs whose task was deferred, not yet run
          proc,       \* proc[p]: local state of a request or a task
          app         \* app[a]: the row of application_records

Proc == Exporter \cup RenderJob

xvars == <<artifacts, store, rjob, rqueue, proc, app>>

RevisionId == 1..MaxRevision

RevisionRow(id) == CHOOSE v \in revs : v.id = id

RevisionExists(id) == \E v \in revs : v.id = id

IdleProc == [phase |-> "idle", kind |-> "export", ws |-> None, rev |-> 0,
             valid |-> TRUE]

NoApp == [state |-> "none", pdf |-> 0, ws |-> None, rev |-> 0]

ExportInit ==
  /\ Init
  /\ artifacts = {}
  /\ store = [v \in RevisionId |-> "absent"]
  /\ rjob = [j \in RenderJob |-> NoJobRow]
  /\ rqueue = {}
  /\ proc = [p \in Proc |-> IdleProc]
  /\ app = [a \in App |-> NoApp]

---------------------------------------------------------------------------
(* The workspace's own actions; a deletion cascades to artifact and job    *)
(* rows and clears the references of applications, nothing else.           *)

CascadeFiles(w) ==                \* mutant: the files go with the rows
  /\ store' = [v \in RevisionId |->
                 IF \E u \in RevisionsOf(w) : u.id = v THEN "absent" ELSE store[v]]
  /\ artifacts' = {v \in artifacts : \A u \in RevisionsOf(w) : u.id # v}
  /\ rjob' = [j \in RenderJob |->
                IF rjob[j].ws = w THEN NoJobRow ELSE rjob[j]]
  /\ app' = [a \in App |->
               IF app[a].ws = w
                 THEN [app[a] EXCEPT !.ws = None, !.rev = 0] ELSE app[a]]
  /\ UNCHANGED <<rqueue, proc>>

Cascade(w) ==
  /\ artifacts' = {v \in artifacts : \A u \in RevisionsOf(w) : u.id # v}
  /\ rjob' = [j \in RenderJob |->
                IF rjob[j].ws = w THEN NoJobRow ELSE rjob[j]]
  /\ app' = [a \in App |->
               IF app[a].ws = w
                 THEN [app[a] EXCEPT !.ws = None, !.rev = 0] ELSE app[a]]
  /\ UNCHANGED <<store, rqueue, proc>>

WorkspaceStep ==
  \/ /\ \/ \E w \in Workspace : CreateWorkspace(w) \/ ApproveWorkspace(w)
        \/ \E r \in Request : RequestStep(r)
        \/ \E j \in Job : TaskStep(j) \/ WorkerDies(j)
     /\ UNCHANGED xvars
  \/ \E w \in Workspace : DeleteWorkspace(w) /\ Cascade(w)

---------------------------------------------------------------------------
(* How a sequence ends: a request answers, a task updates its job row.     *)

End(p, phase) ==
  proc' = [proc EXCEPT ![p] =
             IF p \in RenderJob THEN [IdleProc EXCEPT !.phase = phase]
             ELSE IdleProc]

(* ValueError or OSError: a task records the failure, a request raises.    *)
Fails(p) ==
  /\ End(p, "over")
  /\ IF p \in RenderJob /\ rjob[p].status = "running"
       THEN rjob' = [rjob EXCEPT ![p].status = "failed"]
       ELSE UNCHANGED rjob

(* Success: the task's row names the revision it exported.                 *)
Succeeds(p) ==
  /\ End(p, "over")
  /\ IF p \in RenderJob
       THEN rjob' = [rjob EXCEPT ![p].status = "succeeded",
                                 ![p].result = proc[p].rev]
       ELSE UNCHANGED rjob

(* The rows the commit refers to are still there (foreign keys).           *)
CanCommit(p) ==
  /\ RevisionExists(proc[p].rev)
  /\ p \in RenderJob => rjob[p].status = "running"

---------------------------------------------------------------------------
(* Requests *)

(* Approved workspaces only; the current revision is read with the row.    *)
ExportRead(p, w, kind) ==
  /\ p \in Exporter
  /\ proc[p].phase = "idle"
  /\ status[w] = "approved"
  /\ proc' = [proc EXCEPT ![p] =
       [phase |-> "lookup", kind |-> kind, ws |-> w, rev |-> current[w],
        valid |-> RevisionRow(current[w]).valid]]
  /\ UNCHANGED <<vars, artifacts, store, rjob, rqueue, app>>

QueueExport(j, w) ==
  /\ status[w] = "approved"
  /\ rjob[j].status = "none" /\ proc[j].phase = "idle"
  /\ rjob' = [rjob EXCEPT ![j] = [status |-> "queued", ws |-> w, result |-> 0]]
  /\ proc' = [proc EXCEPT ![j].phase = "deferring"]
  /\ UNCHANGED <<vars, artifacts, store, rqueue, app>>

DeferExport(j) ==
  /\ proc[j].phase = "deferring"
  /\ rqueue' = rqueue \cup {j}
  /\ proc' = [proc EXCEPT ![j].phase = "deferred"]
  /\ UNCHANGED <<vars, artifacts, store, rjob, app>>

---------------------------------------------------------------------------
(* The worker's export task *)

ClaimExport(j) ==
  /\ j \in rqueue
  /\ rqueue' = rqueue \ {j}
  /\ IF rjob[j].status = "none"
       THEN End(j, "over") /\ UNCHANGED rjob
       ELSE /\ rjob' = [rjob EXCEPT ![j].status = "running"]
            /\ proc' = [proc EXCEPT ![j].phase = "claimed"]
  /\ UNCHANGED <<vars, artifacts, store, app>>

LoadExport(j) ==
  /\ proc[j].phase = "claimed"
  /\ IF rjob[j].status = "none"
       THEN End(j, "over")
       ELSE LET w == rjob[j].ws
            IN  proc' = [proc EXCEPT ![j] =
                  [phase |-> "lookup", kind |-> "job", ws |-> w,
                   rev |-> current[w],
                   valid |-> RevisionRow(current[w]).valid]]
  /\ UNCHANGED <<vars, artifacts, store, rjob, rqueue, app>>

---------------------------------------------------------------------------
(* _render_artifact and what its callers do around it *)

(* There is a row: read the file back and verify its checksum.             *)
FindArtifact(p) ==
  /\ proc[p].phase = "lookup"
  /\ proc[p].rev \in artifacts
  /\ IF store[proc[p].rev] = "full"
       THEN proc' = [proc EXCEPT ![p].phase = "found"] /\ UNCHANGED rjob
       ELSE Fails(p)
  /\ UNCHANGED <<vars, artifacts, store, rqueue, app>>

(* There is none: validate the document and open the file, truncating it.  *)
BeginWrite(p) ==
  /\ proc[p].phase = "lookup"
  /\ proc[p].rev \notin artifacts
  /\ proc[p].valid
  /\ store' = [store EXCEPT ![proc[p].rev] = "partial"]
  /\ proc' = [proc EXCEPT ![p].phase = "writing"]
  /\ UNCHANGED <<vars, artifacts, rjob, rqueue, app>>

(* ... or reject it: the document is invalid or the PDF too large.         *)
RenderFailsUncaught(p) ==         \* mutant: ValueError is not caught
  /\ proc[p].phase = "lookup"
  /\ proc[p].rev \notin artifacts
  /\ End(p, "over")
  /\ UNCHANGED <<vars, artifacts, store, rjob, rqueue, app>>

RenderFails(p) ==
  /\ proc[p].phase = "lookup"
  /\ proc[p].rev \notin artifacts
  /\ Fails(p)
  /\ UNCHANGED <<vars, artifacts, store, rqueue, app>>

EndWrite(p) ==
  /\ proc[p].phase = "writing"
  /\ store' = [store EXCEPT ![proc[p].rev] = "full"]
  /\ proc' = [proc EXCEPT ![p].phase = "stored"]
  /\ UNCHANGED <<vars, artifacts, rjob, rqueue, app>>

(* The write ends half done, with an OSError ...                           *)
WriteFails(p) ==
  /\ proc[p].phase = "writing"
  /\ Fails(p)
  /\ UNCHANGED <<vars, artifacts, store, rqueue, app>>

(* ... or because the process dies.                                        *)
DiesWriting(p) ==
  /\ proc[p].phase = "writing"
  /\ End(p, "died")
  /\ UNCHANGED <<vars, artifacts, store, rjob, rqueue, app>>

SaveAppAgain(p, a) ==             \* mutant: a second save replaces the first
  /\ proc[p].kind = "apply"
  /\ app' = [app EXCEPT ![a] = [state |-> "saved", pdf |-> proc[p].rev,
                                ws |-> proc[p].ws, rev |-> proc[p].rev]]

(* Saving the application: one commit with the artifact row, if any.       *)
SaveApp(p, a) ==
  /\ proc[p].kind = "apply"
  /\ app[a].state = "none"
  /\ app' = [app EXCEPT ![a] = [state |-> "saved", pdf |-> proc[p].rev,
                                ws |-> proc[p].ws, rev |-> proc[p].rev]]

Saves(p) == IF proc[p].kind = "apply" THEN \E a \in App : SaveApp(p, a)
            ELSE UNCHANGED app

CommitStoredFirst(p) ==           \* mutant: the row is inserted before the write
  /\ proc[p].phase = "writing"
  /\ CanCommit(p)
  /\ proc[p].rev \notin artifacts
  /\ artifacts' = artifacts \cup {proc[p].rev}
  /\ Saves(p)
  /\ Succeeds(p)
  /\ UNCHANGED <<vars, store, rqueue>>

CommitStoredSplit(p) ==           \* mutant: the job row is committed first
  /\ proc[p].phase = "stored"
  /\ CanCommit(p)
  /\ Saves(p)
  /\ Succeeds(p)
  /\ UNCHANGED <<vars, artifacts, store, rqueue>>

(* INSERT the row (storage_key is unique) and commit.                      *)
CommitStored(p) ==
  /\ proc[p].phase = "stored"
  /\ CanCommit(p)
  /\ proc[p].rev \notin artifacts
  /\ artifacts' = artifacts \cup {proc[p].rev}
  /\ Saves(p)
  /\ Succeeds(p)
  /\ UNCHANGED <<vars, store, rqueue>>

(* The row was found: nothing to insert but the caller's own rows.         *)
CommitFound(p) ==
  /\ proc[p].phase = "found"
  /\ CanCommit(p) \/ proc[p].kind = "export"
  /\ Saves(p)
  /\ Succeeds(p)
  /\ UNCHANGED <<vars, artifacts, store, rqueue>>

(* IntegrityError: another export inserted the row, or a parent row went   *)
(* away.  Neither caller catches it: a task leaves its row "running".      *)
CommitConflicts(p) ==
  /\ \/ proc[p].phase = "stored" /\ (~CanCommit(p) \/ proc[p].rev \in artifacts)
     \/ proc[p].phase = "found" /\ ~CanCommit(p) /\ proc[p].kind # "export"
  /\ End(p, "conflict")
  /\ UNCHANGED <<vars, artifacts, store, rjob, rqueue, app>>

(* The process dies between two statements.                                *)
ExportDies(p) ==
  /\ proc[p].phase \in {"claimed", "lookup", "found", "stored"}
  /\ End(p, "died")
  /\ UNCHANGED <<vars, artifacts, store, rjob, rqueue, app>>

(* PATCH changes tracking fields only, which are not modelled.             *)
DeleteApp(a) ==
  /\ app[a].state = "saved"
  /\ app' = [app EXCEPT ![a] = [NoApp EXCEPT !.state = "deleted"]]
  /\ UNCHANGED <<vars, artifacts, store, rjob, rqueue, proc>>

---------------------------------------------------------------------------

ExportTaskStep(p) ==
  \/ FindArtifact(p)
  \/ BeginWrite(p)
  \/ RenderFails(p)
  \/ EndWrite(p)
  \/ CommitStored(p)
  \/ CommitFound(p)
  \/ CommitConflicts(p)

ExportNext ==
  \/ WorkspaceStep
  \/ \E p \in Exporter, w \in Workspace, kind \in {"export", "apply"} :
       ExportRead(p, w, kind)
  \/ \E j \in RenderJob, w \in Workspace : QueueExport(j, w)
  \/ \E j \in RenderJob : DeferExport(j) \/ ClaimExport(j) \/ LoadExport(j)
  \/ \E p \in Proc : ExportTaskStep(p) \/ ExportDies(p)
  \/ \E a \in App : DeleteApp(a)

(* The same system where a write can end half done.                        *)
FaultyExportNext == ExportNext \/ \E p \in Proc : WriteFails(p) \/ DiesWriting(p)

ExportSpec == ExportInit /\ [][ExportNext]_<<vars, xvars>>

(* A deferred task is claimed and, once claimed, runs to its end.          *)
FairExportSpec ==
  /\ ExportSpec
  /\ \A j \in RenderJob :
       WF_<<vars, xvars>>(ClaimExport(j) \/ LoadExport(j) \/ ExportTaskStep(j))

---------------------------------------------------------------------------
(* Properties *)

ProcState ==
  [phase : {"idle", "deferring", "deferred", "claimed", "lookup", "found",
            "writing", "stored", "over", "conflict", "died"},
   kind : {"export", "apply", "job"}, ws : Workspace \cup {None},
   rev : Nat, valid : BOOLEAN]

ExportTypeOK ==
  /\ TypeOK
  /\ artifacts \subseteq RevisionId
  /\ store \in [RevisionId -> {"absent", "partial", "full"}]
  /\ rjob \in [RenderJob -> JobRow]
  /\ rqueue \subseteq RenderJob
  /\ proc \in [Proc -> ProcState]
  /\ app \in [App -> [state : {"none", "saved", "deleted"}, pdf : Nat,
                      ws : Workspace \cup {None}, rev : Nat]]

(* An export job that reports success has its artifact row, of a valid     *)
(* revision of its own workspace: the download route finds it.  Deleting   *)
(* the workspace takes job, revision and artifact rows away together.      *)
SucceededIsDownloadable ==
  \A j \in RenderJob : rjob[j].status = "succeeded" =>
    /\ rjob[j].result \in artifacts
    /\ \E v \in revs : /\ v.id = rjob[j].result
                       /\ v.ws = rjob[j].ws
                       /\ v.valid

(* The export jobs, with the types of the whole state.                     *)
ExportJobsOK == ExportTypeOK /\ SucceededIsDownloadable

Writing(v) == \E p \in Proc : proc[p].phase = "writing" /\ proc[p].rev = v

(* "Resume export failed; retry the export": an artifact row makes every   *)
(* retry read the file back instead of writing it, so the file of a row    *)
(* must be whole, unless an export that lost the race for the row is just  *)
(* rewriting it.                                                           *)
RetryCanSucceed == \A v \in artifacts : store[v] = "full" \/ Writing(v)

(* "A tracked application must survive the user later editing or deleting  *)
(* the workspace": its PDF stays in the store, and what it still refers to *)
(* exists and is what was sent.                                            *)
ApplicationSurvives ==
  \A a \in App : app[a].state = "saved" =>
    /\ store[app[a].pdf] = "full" \/ Writing(app[a].pdf)
    /\ app[a].ws # None =>
         /\ Live(app[a].ws)
         /\ app[a].rev = app[a].pdf
         /\ \E v \in revs : v.id = app[a].rev /\ v.ws = app[a].ws /\ v.valid

(* The snapshot of a saved application never changes: whatever happens to  *)
(* its workspace, only its two references can be cleared.                  *)
SnapshotFrozen ==
  [][\A a \in App : app[a].state = "saved" /\ app'[a].state = "saved" =>
       /\ app'[a].pdf = app[a].pdf
       /\ app'[a] # app[a] =>
            app[a].ws \in Workspace /\ status'[app[a].ws] = "deleted"]_<<vars, xvars>>

(* The inductive invariant behind these.  Only a writer leaves a file half *)
(* written, a row of artifacts has a file and a valid revision ...         *)
FilesOK ==
  /\ \A v \in revs : v.id \in RevisionId
  /\ \A v \in RevisionId : store[v] = "partial" => Writing(v)

ArtifactsOK ==
  \A a \in artifacts : /\ store[a] # "absent"
                       /\ \E v \in revs : v.id = a /\ v.valid

(* ... the row of an export job goes with its workspace ...                *)
ExportRowsLive ==
  \A j \in RenderJob : rjob[j].status # "none" =>
    rjob[j].ws \in Workspace /\ Live(rjob[j].ws)

(* ... and an export that read its revision is still right about it, as    *)
(* long as the revision exists; ids are not given out again.               *)
Working(p) == proc[p].phase \in {"lookup", "found", "writing", "stored"}

ProcKnows(p) ==
  /\ proc[p].ws \in Workspace
  /\ proc[p].rev \in RevisionId /\ proc[p].rev < nextId
  /\ \A v \in revs : v.id = proc[p].rev =>
       v.ws = proc[p].ws /\ v.valid = proc[p].valid
  /\ proc[p].phase \in {"writing", "stored"} => proc[p].valid
  /\ proc[p].phase # "lookup" => store[proc[p].rev] # "absent"
  /\ proc[p].phase = "found" /\ RevisionExists(proc[p].rev) =>
       proc[p].rev \in artifacts
  /\ p \in RenderJob => /\ proc[p].kind = "job"
                        /\ rjob[p].status # "none" => rjob[p].ws = proc[p].ws

ProcsKnow == \A p \in Proc : Working(p) => ProcKnows(p)

(* A deferred task has not started: it is claimed once.                    *)
DeferredOnce == \A j \in rqueue : proc[j].phase = "deferred"

SnapshotsStored ==
  \A a \in App : app[a].state = "saved" =>
    app[a].pdf \in RevisionId /\ store[app[a].pdf] # "absent"

ExportInv == /\ IInv
             /\ DeferredOnce
             /\ ExportJobsOK
             /\ FilesOK
             /\ ArtifactsOK
             /\ ExportRowsLive
             /\ ProcsKnow
             /\ SnapshotsStored
             /\ ApplicationSurvives

(* A deferred export task leaves its row settled, unless it lost the       *)
(* insert to another export or its worker died.                            *)
ExportSettled(j) == rjob[j].status \in {"succeeded", "failed", "none"}

DeferredExportSettles ==
  \A j \in RenderJob :
    j \in rqueue ~> (ExportSettled(j) \/ proc[j].phase \in {"conflict", "died"})
===========================================================================
