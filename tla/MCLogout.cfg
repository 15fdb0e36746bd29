\* A logout races a refresh of the same session.
CONSTANTS
  c1 = c1
  h1 = h1
  h2 = h2
  None = None
  Chain = {c1}
  Handler = {h1, h2}
  MaxToken = 3
  MaxVersion = 1
  MirrorFails = FALSE
SPECIFICATION Spec
SYMMETRY Symmetry
INVARIANTS
  LogoutEndsSession
\* Requests end and ids run out.
CHECK_DEADLOCK FALSE
