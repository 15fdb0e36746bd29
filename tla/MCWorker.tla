----------------------------- MODULE MCWorker ----------------------------
(* What the background worker does, and that it comes to an end.  A       *)
(* behaviour is about one kind of work: generation jobs, beside a request *)
(* and the workspace's own life; export jobs, beside an exporting         *)
(* request; or the rendering of one document, which every export calls.   *)
EXTENDS ResumeExport, ResumeRender, SequencesExt

VARIABLE work

(* One source page of up to three rows or two source pages of one, with   *)
(* rows from empty to longer than two pages.                              *)
MCHeights == {0, 1, 2, 3, 5}

MCDocuments ==
  {<<rows>> : rows \in SeqOf(MCHeights, 3) \ {<<>>}}
    \cup {<<<<a>>, <<b>>>> : a, b \in MCHeights}

MCPageLines == 1..4

workerVars == <<vars, xvars, renderVars, work>>

WorkerInit ==
  ExportInit /\ RenderInit /\ work \in {"generate", "export", "render"}

WorkerNext ==
  /\ UNCHANGED work
  /\ \/ /\ work # "render" /\ FaultyExportNext /\ UNCHANGED renderVars
        /\ work = "generate" => UNCHANGED xvars
        /\ work = "export" => UNCHANGED <<req, job, queue, run>>
     \/ work = "render" /\ RenderNext /\ UNCHANGED <<vars, xvars>>

FairWorker ==
  /\ WorkerInit /\ [][WorkerNext]_workerVars
  /\ \A j \in Job : WF_vars(TaskStep(j))
  /\ \A j \in RenderJob :
       WF_<<vars, xvars>>(ClaimExport(j) \/ LoadExport(j) \/ ExportTaskStep(j))
  /\ WF_renderVars(RenderStep)
==========================================================================
