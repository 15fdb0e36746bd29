------------------------- MODULE ResumeWorkspaces -------------------------
(***************************************************************************)
(* Resume workspaces, their numbered revisions and their generation jobs.  *)
(*                                                                         *)
(* Three kinds of actors write the same rows: browser requests, the        *)
(* background worker, and requests that delete or approve a workspace.     *)
(* Each database transaction runs at READ COMMITTED and a handler awaits   *)
(* between its statements, so what a handler read can be stale by the time *)
(* it writes.  A handler is therefore split at those awaits:               *)
(*                                                                         *)
(*   PUT document   SaveRead -> SelectNumber -> SaveCommits/SaveConflicts  *)
(*   generate       AskModel -> ModelAnswers -> SelectNumber -> ...        *)
(*   refine         the same as generate                                   *)
(*   restore        RestoreRead -> SelectNumber -> ...                     *)
(*   generate-job   QueueRead -> QueueCommits -> DeferJob                  *)
(*   worker         ClaimJob -> LoadJob -> JobSucceeds/JobFails/...        *)
(*                                                                         *)
(* Inserting a revision and committing it is one step: a second insert of  *)
(* the same number waits for the first to commit, and then fails.          *)
(***************************************************************************)
EXTENDS Naturals, FiniteSets

CONSTANTS Workspace,      \* workspace ids, each used once (serial column)
          Request,        \* HTTP requests that can be in flight at a time
          Job,            \* generation job ids, each used once
          None,           \* SQL NULL
          MaxRevision     \* bound on the revision ids a run hands out

ASSUME NoneAssumption == None \notin Workspace /\ None \notin Job
ASSUME MaxRevisionAssumption == MaxRevision \in Nat

VARIABLES status,   \* status[w]: of the row, or "absent" / "deleted"
          current,  \* current[w]: current_revision_id, 0 for NULL
          revs,     \* the rows of resume_revisions
          nextId,   \* next value of the revision id sequence
          job,      \* job[j]: the row of resume_jobs
          queue,    \* the jobs whose worker task was deferred, not yet run
          req,      \* req[r]: the local state of an HTTP handler
          run       \* run[j]: the local state of the worker's task for j

vars == <<status, current, revs, nextId, job, queue, req, run>>

Live(w) == status[w] \in {"draft", "approved"}

(* "model" stands for generate and refine, which differ in their prompts   *)
Origin == {"create", "save", "model", "restore", "job"}

Revision == [id : Nat \ {0}, ws : Workspace, number : Nat \ {0},
             valid : BOOLEAN, by : Origin, basis : Nat,
             job : Job \cup {None}]

(* basis is history: the revision the writer last saw as the current one   *)
(* and meant to succeed, 0 when the writer named none.                     *)

RevisionsOf(w) == {v \in revs : v.ws = w}

(* revision_number of the newest revision, 0 when there is none *)
Newest(w) ==
  CHOOSE n \in {0} \cup {v.number : v \in RevisionsOf(w)} :
    \A v \in RevisionsOf(w) : v.number <= n

(* the unique index on (workspace_id, revision_number) and the foreign key *)
CanInsertUnnumbered(w, n) == Live(w)                \* mutant: no unique index

CanInsertUnattached(w, n) ==                        \* mutant: no foreign key
  \A v \in RevisionsOf(w) : v.number # n

CanInsert(w, n) == Live(w) /\ \A v \in RevisionsOf(w) : v.number # n

Insert(w, n, ok, by, basis, j) ==
  /\ nextId <= MaxRevision
  /\ revs' = revs \cup {[id |-> nextId, ws |-> w, number |-> n, valid |-> ok,
                         by |-> by, basis |-> basis, job |-> j]}
  /\ current' = [current EXCEPT ![w] = nextId]
  /\ nextId' = nextId + 1

IdleReq == [phase |-> "idle", op |-> "save", ws |-> None, basis |-> 0,
            number |-> 0, job |-> None]

IdleRun == [phase |-> "idle", basis |-> 0, number |-> 0]

NoJobRow == [status |-> "none", ws |-> None, result |-> 0]

Init ==
  /\ status = [w \in Workspace |-> "absent"]
  /\ current = [w \in Workspace |-> 0]
  /\ revs = {}
  /\ nextId = 1
  /\ job = [j \in Job |-> NoJobRow]
  /\ queue = {}
  /\ req = [r \in Request |-> IdleReq]
  /\ run = [j \in Job |-> IdleRun]

---------------------------------------------------------------------------
(* Workspaces: create, approve, delete *)

(* The template's document is the first revision; one commit.              *)
CreateWorkspace(w) ==
  /\ status[w] = "absent"
  /\ status' = [status EXCEPT ![w] = "draft"]
  /\ Insert(w, 1, TRUE, "create", 0, None)
  /\ UNCHANGED <<job, queue, req, run>>

(* No expected revision and no validation of the current document.         *)
ApproveWorkspace(w) ==
  /\ status[w] = "draft"
  /\ status' = [status EXCEPT ![w] = "approved"]
  /\ UNCHANGED <<current, revs, nextId, job, queue, req, run>>

(* ON DELETE CASCADE takes the revisions and the job rows along.  Requests *)
(* and tasks that are running are not told.                                *)
DeleteWorkspace(w) ==
  /\ Live(w)
  /\ status' = [status EXCEPT ![w] = "deleted"]
  /\ current' = [current EXCEPT ![w] = 0]
  /\ revs' = revs \ RevisionsOf(w)
  /\ job' = [j \in Job |-> IF job[j].ws = w THEN NoJobRow ELSE job[j]]
  /\ UNCHANGED <<nextId, queue, req, run>>

---------------------------------------------------------------------------
(* Requests that write a revision *)

Start(r, phase, op, w, basis) ==
  req' = [req EXCEPT ![r] = [phase |-> phase, op |-> op, ws |-> w,
                             basis |-> basis, number |-> 0, job |-> None]]

Answer(r) == req' = [req EXCEPT ![r] = IdleReq]

(* The guards of save_document.  The client either names the revision it   *)
(* edited, which must be the current one, or names none.                   *)
SaveRead(r, w, named) ==
  /\ req[r].phase = "idle"
  /\ status[w] = "draft"
  /\ Start(r, "checked", "save", w, IF named THEN current[w] ELSE 0)
  /\ UNCHANGED <<status, current, revs, nextId, job, queue, run>>

(* generate and refine read the workspace, then await search and model.    *)
AskModel(r, w) ==
  /\ req[r].phase = "idle"
  /\ status[w] = "draft"
  /\ Start(r, "asking", "model", w, current[w])
  /\ UNCHANGED <<status, current, revs, nextId, job, queue, run>>

(* save_document runs in the same session: its SELECT finds the row again  *)
(* (or answers 404) but the loaded object keeps the status and current     *)
(* revision read by AskModel, so its two 409 guards cannot fire.           *)
ModelAnswers(r) ==
  /\ req[r].phase = "asking"
  /\ Live(req[r].ws)
  /\ req' = [req EXCEPT ![r].phase = "checked"]
  /\ UNCHANGED <<status, current, revs, nextId, job, queue, run>>

(* A revision of this workspace is copied, if its document is valid.       *)
RestoreRead(r, w) ==
  /\ req[r].phase = "idle"
  /\ status[w] = "draft"
  /\ \E source \in RevisionsOf(w) : source.valid
  /\ Start(r, "checked", "restore", w, current[w])
  /\ UNCHANGED <<status, current, revs, nextId, job, queue, run>>

(* SELECT ... ORDER BY revision_number DESC LIMIT 1 *)
SelectNumber(r) ==
  /\ req[r].phase = "checked"
  /\ req' = [req EXCEPT ![r].phase = "numbered",
                        ![r].number = Newest(req[r].ws) + 1]
  /\ UNCHANGED <<status, current, revs, nextId, job, queue, run>>

(* INSERT, set current_revision_id, COMMIT *)
SaveCommits(r) ==
  /\ req[r].phase = "numbered"
  /\ CanInsert(req[r].ws, req[r].number)
  /\ Insert(req[r].ws, req[r].number, TRUE, req[r].op, req[r].basis, None)
  /\ Answer(r)
  /\ UNCHANGED <<status, job, queue, run>>

(* IntegrityError from the unique index or the foreign key: answer 500.    *)
SaveConflicts(r) ==
  /\ req[r].phase = "numbered"
  /\ ~CanInsert(req[r].ws, req[r].number)
  /\ Answer(r)
  /\ UNCHANGED <<status, current, revs, nextId, job, queue, run>>

(* Any earlier end of a request: the model or search fails (502), the      *)
(* document is invalid (422), the row is gone (404), the process crashes.  *)
RequestEnds(r) ==
  /\ req[r].phase # "idle"
  /\ Answer(r)
  /\ UNCHANGED <<status, current, revs, nextId, job, queue, run>>

---------------------------------------------------------------------------
(* Generation jobs: the request that queues one *)

QueueRead(r, w) ==
  /\ req[r].phase = "idle"
  /\ status[w] = "draft"
  /\ Start(r, "queuing", "job", w, 0)
  /\ UNCHANGED <<status, current, revs, nextId, job, queue, run>>

(* The job row is committed first ...                                      *)
QueueCommits(r, j) ==
  /\ req[r].phase = "queuing"
  /\ Live(req[r].ws)
  /\ job[j].status = "none" /\ run[j].phase = "idle"
  /\ job' = [job EXCEPT ![j] = [status |-> "queued", ws |-> req[r].ws,
                                result |-> 0]]
  /\ req' = [req EXCEPT ![r].phase = "queued", ![r].job = j]
  /\ run' = [run EXCEPT ![j].phase = "deferring"]
  /\ UNCHANGED <<status, current, revs, nextId, queue>>

(* ... and its task is deferred after that, in a separate transaction.     *)
DeferJob(r) ==
  /\ req[r].phase = "queued"
  /\ queue' = queue \cup {req[r].job}
  /\ Answer(r)
  /\ UNCHANGED <<status, current, revs, nextId, job, run>>

---------------------------------------------------------------------------
(* Generation jobs: the worker's task.  A task runs once: nothing retries  *)
(* one that raised or whose worker died.                                   *)

EndRun(j, phase) == run' = [run EXCEPT ![j].phase = phase]

ClaimJobKept(j) ==                                  \* mutant: task run again
  /\ j \in queue
  /\ job[j].status # "none"
  /\ job' = [job EXCEPT ![j].status = "running"]
  /\ EndRun(j, "claimed")
  /\ UNCHANGED <<status, current, revs, nextId, queue, req>>

ClaimJob(j) ==
  /\ j \in queue
  /\ queue' = queue \ {j}
  /\ IF job[j].status = "none"
       THEN EndRun(j, "over") /\ UNCHANGED job
       ELSE /\ EndRun(j, "claimed")
            /\ job' = [job EXCEPT ![j].status = "running"]
  /\ UNCHANGED <<status, current, revs, nextId, req>>

(* The workspace and its current revision; status is not looked at.        *)
LoadJob(j) ==
  /\ run[j].phase = "claimed"
  /\ job[j].status = "running"
  /\ \E v \in revs :
       /\ v.id = current[job[j].ws]
       /\ run' = [run EXCEPT ![j] = [phase |-> "asking", basis |-> v.id,
                                     number |-> v.number + 1]]
  /\ UNCHANGED <<status, current, revs, nextId, job, queue, req>>

(* The generated document is stored without validate_document.             *)
JobSucceedsRenumbered(j, ok) ==                     \* mutant: number at the end
  /\ run[j].phase = "asking"
  /\ job[j].status = "running"
  /\ Insert(job[j].ws, Newest(job[j].ws) + 1, ok, "job", run[j].basis, j)
  /\ job' = [job EXCEPT ![j].status = "succeeded", ![j].result = nextId]
  /\ EndRun(j, "over")
  /\ UNCHANGED <<status, queue, req>>

JobSucceeds(j, ok) ==
  /\ run[j].phase = "asking"
  /\ job[j].status = "running"
  /\ CanInsert(job[j].ws, run[j].number)
  /\ Insert(job[j].ws, run[j].number, ok, "job", run[j].basis, j)
  /\ job' = [job EXCEPT ![j].status = "succeeded", ![j].result = nextId]
  /\ EndRun(j, "over")
  /\ UNCHANGED <<status, queue, req>>

(* IntegrityError: somebody else wrote the number first.  It is not among  *)
(* the caught exceptions, so the row keeps the status "running".           *)
JobConflicts(j) ==
  /\ run[j].phase = "asking"
  /\ job[j].status = "running"
  /\ ~CanInsert(job[j].ws, run[j].number)
  /\ EndRun(j, "conflict")
  /\ UNCHANGED <<status, current, revs, nextId, job, queue, req>>

(* AIIntegrationError, RetrievalError or ValueError                        *)
JobFailsUncaught(j) ==                              \* mutant: no except clause
  /\ run[j].phase = "asking"
  /\ EndRun(j, "over")
  /\ UNCHANGED <<status, current, revs, nextId, job, queue, req>>

JobFails(j) ==
  /\ run[j].phase = "asking"
  /\ job[j].status = "running"
  /\ job' = [job EXCEPT ![j].status = "failed"]
  /\ EndRun(j, "over")
  /\ UNCHANGED <<status, current, revs, nextId, queue, req>>

(* The workspace was deleted: the job row is gone and every later write    *)
(* of the task raises (foreign key, or an UPDATE that matches no row).     *)
JobRowGone(j) ==
  /\ run[j].phase \in {"claimed", "asking"}
  /\ job[j].status = "none"
  /\ EndRun(j, "over")
  /\ UNCHANGED <<status, current, revs, nextId, job, queue, req>>

(* The worker process dies in the middle of the task.                      *)
WorkerDies(j) ==
  /\ run[j].phase \in {"claimed", "asking"}
  /\ EndRun(j, "died")
  /\ UNCHANGED <<status, current, revs, nextId, job, queue, req>>

---------------------------------------------------------------------------

RequestStep(r) ==
  \/ \E w \in Workspace :
       \/ \E named \in BOOLEAN : SaveRead(r, w, named)
       \/ AskModel(r, w)
       \/ RestoreRead(r, w)
       \/ QueueRead(r, w)
  \/ ModelAnswers(r)
  \/ SelectNumber(r)
  \/ SaveCommits(r)
  \/ SaveConflicts(r)
  \/ RequestEnds(r)
  \/ \E j \in Job : QueueCommits(r, j)
  \/ DeferJob(r)

TaskStep(j) ==
  \/ ClaimJob(j)
  \/ LoadJob(j)
  \/ \E ok \in BOOLEAN : JobSucceeds(j, ok)
  \/ JobConflicts(j)
  \/ JobFails(j)
  \/ JobRowGone(j)

Next ==
  \/ \E w \in Workspace : CreateWorkspace(w)
  \/ \E w \in Workspace : ApproveWorkspace(w)
  \/ \E w \in Workspace : DeleteWorkspace(w)
  \/ \E r \in Request : RequestStep(r)
  \/ \E j \in Job : TaskStep(j) \/ WorkerDies(j)

Spec == Init /\ [][Next]_vars

(* The worker keeps polling and a task that was started keeps running.     *)
FairSpec == Spec /\ \A j \in Job : WF_vars(TaskStep(j))

---------------------------------------------------------------------------
(* Properties *)

JobRow == [status : {"none", "queued", "running", "succeeded", "failed"},
           ws : Workspace \cup {None}, result : Nat]

RequestState ==
  [phase : {"idle", "asking", "checked", "numbered", "queuing", "queued"},
   op : Origin, ws : Workspace \cup {None}, basis : Nat, number : Nat,
   job : Job \cup {None}]

TaskState ==
  [phase : {"idle", "deferring", "claimed", "asking", "over", "conflict",
            "died"},
   basis : Nat, number : Nat]

TypeOK ==
  /\ status \in [Workspace -> {"absent", "draft", "approved", "deleted"}]
  /\ current \in [Workspace -> Nat]
  /\ revs \subseteq Revision
  /\ nextId \in Nat \ {0}
  /\ job \in [Job -> JobRow]
  /\ queue \subseteq Job
  /\ req \in [Request -> RequestState]
  /\ run \in [Job -> TaskState]

(* The history of a live workspace is the numbers 1..n, each used once and *)
(* the newest one current, however the writers of save_document and        *)
(* _run_generation_job interleave: no save leaves a gap, reuses a number   *)
(* or makes an older revision current.                                     *)
IdsUnique == \A u, v \in revs : u.id = v.id => u = v

NumbersUnique ==
  \A u, v \in revs : u.ws = v.ws /\ u.number = v.number => u = v

NumbersContiguous ==
  \A v \in revs : \A n \in 1..v.number :
    \E u \in revs : u.ws = v.ws /\ u.number = n

CurrentIsNewest ==
  \A w \in Workspace : Live(w) =>
    \E v \in revs : /\ v.ws = w
                    /\ v.id = current[w]
                    /\ \A u \in RevisionsOf(w) : u.number <= v.number

HistoryOK ==
  IdsUnique /\ NumbersUnique /\ NumbersContiguous /\ CurrentIsNewest

(* Deleting a workspace leaves no revision and no job row behind, although *)
(* handlers and tasks that read it before go on writing after it.          *)
NoOrphans ==
  /\ \A v \in revs : Live(v.ws)
  /\ \A j \in Job : job[j].status # "none" => job[j].ws \in Workspace /\ Live(job[j].ws)

(* A generation job builds on the revision it read: it never buries an     *)
(* edit saved while the model was answering, it loses instead.             *)
JobNeverOverwrites ==
  \A v \in revs : v.job # None =>
    \E u \in revs : /\ u.ws = v.ws
                    /\ u.id = v.basis
                    /\ u.number = v.number - 1

(* The job row and its revision are committed together: "succeeded" is     *)
(* reported exactly when the job wrote one revision of its own workspace.  *)
JobEffectOnce ==
  \A j \in Job :
    LET made == {v \in revs : v.job = j}
    IN  /\ \A u, v \in made : u = v
        /\ job[j].status = "succeeded" =>
             \E v \in made : v.id = job[j].result /\ v.ws = job[j].ws
        /\ job[j].status # "succeeded" => made = {}

(* A step that replaces the current revision appends the next number: the  *)
(* current revision of a live workspace never goes back or skips.          *)
Precedes(w) ==
  \E u \in revs, v \in revs' : /\ u.id = current[w] /\ v.id = current'[w]
                               /\ v.number = u.number + 1

HistoryAppends ==
  [][\A w \in Workspace :
       Live(w) /\ Live(w)' /\ current'[w] # current[w] => Precedes(w)]_vars

(* The revisions of a workspace, oldest first, are a list that only grows  *)
(* at its end, whose last entry is current, and no id is used twice: what  *)
(* ResumeHistory states without numbers, and every handler relies on.      *)
HistoryOf(w) ==
  [n \in 1..Newest(w) |-> (CHOOSE v \in RevisionsOf(w) : v.number = n).id]

History == INSTANCE ResumeHistory WITH
             Ids     <- 1..MaxRevision,
             history <- [w \in Workspace |-> HistoryOf(w)],
             used    <- 1..(nextId - 1)

ImplementsHistory == History!Spec

(* A deferred task ends its job's row in "succeeded" or "failed", unless   *)
(* the workspace went away or the task lost a numbering conflict or its    *)
(* worker: these are all the ways a job can be left unsettled.             *)
Settled(j) == job[j].status \in {"succeeded", "failed", "none"}

DeferredJobSettles ==
  \A j \in Job :
    (j \in queue) ~> (Settled(j) \/ run[j].phase \in {"conflict", "died"})

(* The inductive invariant behind HistoryOK and JobNeverOverwrites: what   *)
(* the program counters of requests and tasks remember about the rows.     *)

(* A request works on a workspace that was created, and the number it      *)
(* computed still follows an existing one, if the workspace still exists.  *)
RequestKnows(q) ==
  /\ q.ws \in Workspace
  /\ status[q.ws] # "absent"
  /\ q.phase = "numbered" /\ Live(q.ws) =>
       \E v \in RevisionsOf(q.ws) : q.number = v.number + 1
  /\ q.phase = "queued" => q.job \in Job

RequestsKnow ==
  \A r \in Request : req[r].phase # "idle" => RequestKnows(req[r])

(* A task that is to write still knows its base revision and its number.   *)
TasksKnow ==
  \A j \in Job : run[j].phase = "asking" /\ job[j].status = "running" =>
    \E v \in RevisionsOf(job[j].ws) : /\ v.id = run[j].basis
                                     /\ run[j].number = v.number + 1

IdsBelowNext == \A v \in revs : v.id < nextId

IInv == /\ TypeOK
        /\ HistoryOK
        /\ NoOrphans
        /\ IdsBelowNext
        /\ RequestsKnow
        /\ TasksKnow
        /\ JobNeverOverwrites

(* The inductive invariant behind JobEffectOnce: a job is queued by one    *)
(* request and its task is deferred, claimed and run once, so a job that   *)
(* succeeded is never run again, also when its workspace went meanwhile.   *)
JobRunsOnce ==
  /\ \A j \in queue : run[j].phase = "deferring"
  /\ \A j \in Job : run[j].phase \in {"idle", "deferring", "claimed", "asking"} =>
       job[j].status # "succeeded"
  /\ \A r \in Request : req[r].phase = "queued" =>
       req[r].job \notin queue /\ run[req[r].job].phase = "deferring"
  /\ \A q, r \in Request :
       req[q].phase = "queued" /\ req[r].phase = "queued" /\ req[q].job = req[r].job
         => q = r

(* What the program says of itself, and does not keep *)

(* "Approved resumes are immutable": once approved, the current revision   *)
(* of a workspace stays.  A save, an AI request or a job that read the     *)
(* workspace before the approval still commits after it.                   *)
ApprovedIsImmutable ==
  [][\A w \in Workspace :
       status[w] = "approved" /\ Live(w)' => current'[w] = current[w]]_vars

(* "Resume changed elsewhere; reload before saving": a save that names the *)
(* revision it edited follows that revision.  Two saves that both passed   *)
(* the check are both accepted, the second over the first.                 *)
NamedRevisionFollows ==
  \A v \in revs : v.by = "save" /\ v.basis # 0 =>
    \E u \in revs : u.id = v.basis /\ u.number = v.number - 1

(* The frontend polls a job "until the job succeeds or fails".             *)
PolledJobSettles ==
  \A j \in Job : (j \in queue) ~> (Settled(j) \/ run[j].phase = "died")
===========================================================================
