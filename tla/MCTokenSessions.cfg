\* Two sessions of an account and two requests in flight.
CONSTANTS
  c1 = c1
  c2 = c2
  h1 = h1
  h2 = h2
  None = None
  Chain = {c1, c2}
  Handler = {h1, h2}
  MaxToken = 3
  MaxVersion = 1
  MirrorFails = TRUE
SPECIFICATION Spec
SYMMETRY Symmetry
INVARIANTS
  SingleUse
  EndedStaysEnded
  AcceptedWasValid
  MirrorOK
\* Requests end and ids run out.
CHECK_DEADLOCK FALSE
