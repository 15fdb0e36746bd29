\* Two workspaces, two requests and one job that interleave; three revision
\* ids: two writers after a creation race for the same number.
CONSTANTS
  w1 = w1
  w2 = w2
  r1 = r1
  r2 = r2
  j1 = j1
  None = None
  Workspace = {w1, w2}
  Request = {r1, r2}
  Job = {j1}
  MaxRevision = 3
SPECIFICATION Spec
SYMMETRY Symmetry
INVARIANTS
  HistoryOK
  NoOrphans
  JobNeverOverwrites
  IInv
PROPERTIES
  ImplementsHistory
\* Requests end, ids run out and an idle system waits.
CHECK_DEADLOCK FALSE
