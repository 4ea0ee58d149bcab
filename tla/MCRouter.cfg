CONSTANTS
  N = 3
  Node <- SharedNode
  Edge <- SharedEdge
  From <- SharedFrom
  To <- SharedTo
  Delay <- SharedDelay
  Source <- SharedSource
  Sinks <- SharedSinks
  Paths <- SharedPaths
  Trees <- SharedTrees
  Group <- SharedGroup
  Capacity <- SharedCapacity
  Modes <- SharedModes
  MaxIterations = 3
  BatchIterations = 2
  MaxBatch = 3
  RepairRounds = 2
  RepairNets = 2
  DisplacedRounds = 3
  WideNet = 2
SPECIFICATION LiveSpec
INVARIANTS OccIsUse LegalBetweenRepairs BarredStayOut ReportedIsReal TreesApart
PROPERTIES NoRepairSlower Terminates
CHECK_DEADLOCK FALSE
