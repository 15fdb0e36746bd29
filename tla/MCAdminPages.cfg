SPECIFICATION AdminSpec
CONSTANTS
  \* UsersPage
  MaxUser = 3
  Me = 2
  Found = {1, 2}
  Held = {2, 3}
  PageSize = 1
  BatchSize = 1
  MaxMatching = 2
  MaxMoves = 2
  \* UserAccess
  Catalog <- MCCatalog
  Policies = {"clerk", "super"}
  Contents <- MCContents
  Conditions <- MCConditions
  ProtectedNames = {"super"}
  HeldCodes = {"read", "edit"}
  Slots = {1, 2}
  MaxSwitches = 2
  \* PolicyEditor
  Actions = {"a1", "a2", "b"}
  Types = {"t", "u"}
  TypeOf <- MCTypeOf
  Texts = {"x", "y"}
  NoText = ""
  MaxClicks = 4
  MaxWrites = 1
  \* PolicyCards
  Cards = {1, 2, 3}
  LockedCards = {1}
  CardsPerPage = 2
  MaxCardClicks = 3
  MaxFlips = 1
  \* BulkAccess
  Members = {1, 2, 3}
  Bundles = {"super", "clerk"}
  Superuser = "super"
  ChunkSize = 2
  MaxBulkClicks = 4
  MaxRivals = 1
  \* AuditTrail
  Newest = 4
  OldLog = 3
  Mine = {1, 2, 3}
  TextHits = {2, 3, 4}
  KindHits = {1, 3, 4}
  ReadAll = {"security"}
  LogPageSize = 2
  MaxLooks = 3
INVARIANTS
  UsersSafe
  AccessSafe
  
  BulkSafe
  

  
\* The steps of every screen are counted, so every behaviour ends.
CHECK_DEADLOCK FALSE
