\* A save read before the approval commits after it.
CONSTANTS
  w1 = w1
  r1 = r1
  j1 = j1
  None = None
  Workspace = {w1}
  Request = {r1}
  Job = {j1}
  MaxRevision = 2
SPECIFICATION Spec
SYMMETRY Symmetry
PROPERTIES
  ApprovedIsImmutable
\* Requests end and ids run out.
CHECK_DEADLOCK FALSE
