SPECIFICATION BenchSpec
CONSTANTS
  Command <- MCCommand
  IrBits = 2
  DrBits = 2
  Captures <- MCCaptures
  Unknown = Unknown
  None = None
  Idcode = Idcode
  PROGRAM <- MCProgram
  STARTUP <- MCStartup
  CHECK_STATUS <- MCCheck
  BYPASS <- MCBypass
  Stream <- MCStream
  SettleTck = 3
  ShortTck = 1
  InitTck = 2
  Chains <- MCChains
  JPROGRAM <- MCJPROGRAM
  CFG_IN <- MCCFG_IN
  JSTART <- MCJSTART
  Sync <- MCSync
  Payload <- MCPayload
  Trailer <- MCTrailer
  SIZE = 8
  SECTOR = 4
  PAGE = 2
  READ_CHUNK = 3
  Jobs <- MCJobs
  Garbage <- MCGarbage
INVARIANTS
  LoadsAreReal
  DeviceConfigured
PROPERTIES
  PlayerExact
  CablesImplement
  FlashWritten
  EverythingEnds
CHECK_DEADLOCK FALSE
