SPECIFICATION HLiveSpec
CONSTANTS
  top = top
  header = header
  netlist = netlist
  packed = packed
  placed = placed
  routed = routed
  Absent = Absent
  Torn = Torn
  NoStamp = NoStamp
  Source = {top, header}
  Derived = {netlist, packed, placed, routed}
  Content = {"one", "one commented", "two"}
  Including = {"two"}
  Candidates <- OneHeader
  Setting <- MCSetting
  Build = {b1}
  Plan <- MCPlan
  StepKey <- MCStepKey
  Produce <- MCProduce
  Faults = {}
  MaxDisturb = 1
INVARIANTS
  UpToDateIsFresh
PROPERTIES
  ImplementsCleanBuild
  Settles
  Converges
  CommentEditRerunsSynthesisOnly
CHECK_DEADLOCK FALSE
