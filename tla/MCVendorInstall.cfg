SPECIFICATION LiveSpec
CONSTANTS
  companion = companion
  installer = installer
  pack = pack
  sh = sh
  fit = fit
  older = older
  pathsA = pathsA
  pathsB = pathsB
  Missing = Missing
  Shipped = Shipped
  NotNeeded = NotNeeded
  p1 = p1
  p2 = p2
  Process = {p1}
  Base <- TwoArchives
  Packs <- OnePack
  Chunks = 2
  Programs = {sh, fit}
  QuartusSh = sh
  Offered = {pathsA}
  Unsandboxed = {pathsA}
  Earlier = {Missing, older}
  Commands = {"install", "use"}
  Faults = {"kill", "io"}
  MaxFaults = 3
INVARIANTS
  CacheIsSound
  InstallIsWhole
PROPERTIES
  PatchesAreMine
  Repaired
CHECK_DEADLOCK FALSE
