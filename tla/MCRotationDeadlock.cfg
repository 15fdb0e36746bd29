\* A session that is over, an access token that has expired and a password
\* change.
CONSTANTS
  MaxVersion = 1
  MaxEvents = 3
SPECIFICATION Spec
INVARIANTS
  Terminal401Surfaces
\* The bounds of the instance may be used up.
CHECK_DEADLOCK FALSE
