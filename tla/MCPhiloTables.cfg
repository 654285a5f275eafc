SPECIFICATION MCFairSpec
PROPERTIES
  StarvationNoticed
  EndLeadsToExit
CHECK_DEADLOCK FALSE
