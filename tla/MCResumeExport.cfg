\* Two exporting requests and one export task race; one late writer.
CONSTANTS
  w1 = w1
  r1 = r1
  e1 = e1
  e2 = e2
  x1 = x1
  a1 = a1
  j1 = j1
  None = None
  Workspace = {w1}
  Request = {r1}
  Job = {j1}
  Exporter = {e1, e2}
  RenderJob = {x1}
  App = {a1}
  MaxRevision = 2
SPECIFICATION ExportSpec
SYMMETRY Symmetry
INVARIANTS
  ExportJobsOK
  
  ApplicationSurvives

  
\* Requests end, ids run out and an idle system waits.
CHECK_DEADLOCK FALSE
