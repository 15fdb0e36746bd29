\* Two jobs of one workspace and a request, or two export jobs and an
\* exporting request with writes that can fail, or one document; liveness, so
\* no symmetry.
CONSTANTS
  w1 = w1
  r1 = r1
  j1 = j1
  j2 = j2
  e1 = e1
  x1 = x1
  x2 = x2
  a1 = a1
  None = None
  Workspace = {w1}
  Request = {r1}
  Job = {j1, j2}
  Exporter = {e1}
  RenderJob = {x1, x2}
  App = {a1}
  MaxRevision = 3
  Documents <- MCDocuments
  PageLines <- MCPageLines
SPECIFICATION FairWorker
INVARIANTS
  JobEffectOnce
  NoLineDropped
  LayoutOK
PROPERTIES
  DeferredJobSettles
  DeferredExportSettles
  Renders
\* Requests end, ids run out and an idle system waits.
CHECK_DEADLOCK FALSE
