SPECIFICATION FairSpec
CONSTANTS
  SOURCES = 2
  Priority <- MCPriority
  Threshold = 0
  Burst = 2
INVARIANTS InflightIsHeld
PROPERTIES TickNotEarly TicksKeepComing SourceServed
