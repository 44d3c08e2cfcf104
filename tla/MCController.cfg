\* Every platform, with lookups that only fail when there is no disk.
SPECIFICATION FairSpec
CONSTANTS
  Platforms <- MCPlatforms
  FindMayErr = FALSE
  OpenMayErr = FALSE
INVARIANTS TypeOK CalmSwitches
PROPERTIES MovedWhenTold NotYanked NoStepTwice CallsReturn
