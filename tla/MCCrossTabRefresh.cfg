SPECIFICATION FairSpec
CONSTANTS
    Tabs = {a, b}
    a = a
    b = b
    None = None
    MaxCalls = 2
    MaxCrashes = 1

  
PROPERTIES
  
  ImplementsPromise
CHECK_DEADLOCK FALSE
