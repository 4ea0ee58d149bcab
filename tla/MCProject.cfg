SPECIFICATION Spec
CONSTANTS
  None = None
  Absent = Absent
  Torn = Torn
  NoStamp = NoStamp
  Missing = Missing
  Shipped = Shipped
  NotNeeded = NotNeeded
  Shell = {"p", "q"}
  Flags <- MCFlags
  Manifests <- MCManifests
  VendorFaults = {"tool", "stderr", "kill", "edit"}
  MaxVendorFaults = 1
  MaxVendorBuilds = 2
  Pids = {"1", "2"}
  Magics = {"12", "13"}
  MaxPlans = 3
  Projects <- MCProjects
  MaxTests = 3
  MaxTestFaults = 2
  Base <- MCBase
  Packs <- MCPacks
  Chunks = 2
  Programs = {"sh", "fit"}
  QuartusSh = "sh"
  Offered = {NotNeeded}
  Unsandboxed = {}
  Earlier = {Missing}
  Commands = {"install", "use", "local"}
  InstallFaults = {"kill"}
  MaxInstallFaults = 1
  Source = {"vhdl"}
  Derived = {"verilog", "netlist", "fasm", "bit", "bin"}
  Content = {"one", "two"}
  Including = {}
  Candidates <- NoCandidates
  Setting = {"old", "new pins"}
  Plan <- MCPlan
  StepKey <- MCStepKey
  Produce <- MCProduce
  Builders = {"p"}
  BuildFaults = {"midedit", "tornstamp"}
  MaxDisturb = 2
CHECK_DEADLOCK FALSE
INVARIANTS
  OutcomesMine
  GraphsSound
  VerdictsSound
  ArchivesWhole
  HalfWrittenNeverUpToDate
