SPECIFICATION OwnSpec
CONSTANTS
  \* EmailedLinks
  LinkTabs = {"a", "b"}
  Links = {"k", "l"}
  NoLink = "none"
  MaxFailures = 2
  MaxOpens = 5
  MaxRaises = 1
  \* AccountForms
  LockTime = 5
  Minute = 3
  MailCooldown = 3
  MaxFails = 2
  MaxSubmits = 4
  \* AccountSettings
  SettingsTabs = {"profile", "danger", "password"}
  Names = {"x", "y"}
  MaxSteps = 4
  \* Appearance
  Colours = {"red"}
  Default = "default"
  Languages = {"hi", "mr"}
  English = "en"
  MaxPicks = 2
  MaxModes = 2
  \* ActiveSessions
  Devices = {"here", "d1", "d2"}
  ThisDevice = "here"
  NoDevice = "none"
  MaxOutside = 1
  \* ResumeEditor
  Pages = {"w1", "w2"}
  NoPage = "none"
  MaxEdits = 1
  MaxPuts = 2
  MaxVisits = 2
  MaxActs = 1
  \* CareerKnowledge
  Markdowns = {"short", "long"}
  NoMarkdown = ""
  SectionsOf <- MCSections
  MaxRequests = 2
  MaxFaults = 1
  MaxFocus = 1
  \* ApplicationList
  MaxRow = 4
  Statuses = {"applied", "offered"}
  ListSize = 2
  MaxSends = 2
  MaxTurns = 2
INVARIANTS
  LinksSafe
  
  
  
  DevicesSafe
  KnowledgeSafe
  ListSafe
PROPERTIES
  BuilderSafe
\* The steps of every screen are counted, so every behaviour ends.
CHECK_DEADLOCK FALSE
