SPECIFICATION FairSpec
CONSTANTS
    MaxVersion = 2
    MaxEvents = 2

  
PROPERTIES
  RotationSpared
  PendingResolves
  EndsAreNoticed
CHECK_DEADLOCK FALSE
