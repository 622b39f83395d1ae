SPECIFICATION MCSpec
CONSTANTS
  r1 = r1
  r2 = r2
  s1 = s1
  s2 = s2
  Roots <- MCRoots
  Sockets <- MCSockets
  NoSocket = NoSocket
  Invalid = Invalid
  Broken = {}
  Configs <- MCConfigs
  MaxEdits = 2
INVARIANTS ReloadIsSeamless RunsSpanOneCommit
PROPERTY EditIsActedUpon
CHECK_DEADLOCK FALSE
