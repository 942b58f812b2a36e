\* Three process numbers, used again, in every target mode.
CONSTANTS
  Pids = {p1, p2, p3}
  Root = p1
  Outside = init
  Groups = {g1, g2}
  TargetGroup = g1
  Modes <- EveryMode
  CgroupFilter = TRUE
  MaxPids = 2
  MapSize = 2
  MaxBirths = 3
  MaxFailures = 1
SPECIFICATION LiveSpec
INVARIANTS TargetInv TracesOnlyTargets
PROPERTY EventuallyExact
\* after a failed first refresh the agent is gone
CHECK_DEADLOCK FALSE
