\* One workspace, two edits: the second is typed while the first is saved.
CONSTANTS
  Pages = {"w1"}
  NoPage = "none"
  MaxEdits = 2
  MaxPuts = 1
  MaxVisits = 1
  MaxActs = 0
SPECIFICATION BuilderSpec
INVARIANTS
  EveryChangeKept
\* The steps of the page are counted, so every behaviour ends.
CHECK_DEADLOCK FALSE
