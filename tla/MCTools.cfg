SPECIFICATION MCSpec
CONSTANTS
  h1 = h1
  h2 = h2
  MCComponents = {"issue", "uart", "synth", "compliance", "boot", "trace", "sd", "ptw", "plic"}
  NoReg = NoReg
  IwInstrs <- MCInstrs
  IwLength = 3
  IwConfigs <- MCConfigs
  IssueWidth = 2
  MemLimit = 1
  UlImages <- MCImages
  MAX_IMAGE_BYTES = 6
  UlWord = 2
  BLOCK_BYTES = 4
  UlHeaders = 2
  UlLosses = 2
  SynDesigns <- MCDesigns
  SynLabel <- MCLabel
  SynCategory <- MCCategory
  SynGeometry <- MCGeometry
  SynTop = "top"
  SynJobs = {3}
  MAX_JOBS = 2
  SynInvocations = 2
  CmpTests <- MCTests
  CmpElfs <- MCElfs
  RAM_BASE = 4
  RAM_SIZE = 8
  WordBytes = 2
  CmpDutRows <- MCDutRows
  CmpDutLength = 2
  CmpSailLines <- MCSailLines
  CmpSailLength = 3
  CmpInvocations = 2
  MARKERS <- MCMarkers
  BlPrompts = {"bash"}
  BlAnnounced = {"bash"}
  BlPeriod = 2
  BlPcs = {5, 9}
  BlPriv <- MCPriv
  KERNEL_BASE = 5
  BlTables <- MCTables
  BlReach = 2
  BlStall = 2
  BlCycles = 6
  BlTexts = 2
  BlFiles = 2
  CtFlows <- MCFlows
  CtHandler <- MCHandler
  CtControl = {2}
  CtWrongPc = 6
  CtEntry = 1
  CtFunctionEnd = 3
  CtLanes = 2
  CtInflight = 2
  CtCycles = 10
  SdInputs <- MCInputs
  SdTrampoline <- MCTrampoline
  SdSector = 2
  FIRST_PAYLOAD_LBA = 2
  SdMagicOffset = 0
  SdMagicByte = 9
  SdLoadAddress <- MCLoad
  DDR_BASE = 0
  DDR_LIMIT = 6
  SdCardBytes = 12
  SdBuilds = 2
  SdCopies = 2
  SdFaults = 1
  PwLevels = 2
  PwStores = 2
  PwSfences = 2
  PwTimeouts = 1
  PlicSources = {1, 2}
  PlicHarts = {h1, h2}
  PlicPriorities = {0, 1}
  PlicNobody = PlicNobody
INVARIANTS IwProgramOrder IwAllRetire
INVARIANTS UlSuccessSound UlCleanTransfer
INVARIANTS SynMergeExact SynReportsExact SynNoOrphan
INVARIANTS CmpImageExact CmpSuiteSound CmpDiffSound
INVARIANTS BlBracketSound BlCollectEarliest BlStallReal BlSamplesAttributed
INVARIANTS CtStreamExact CtIdentityStable  CtArchGuarded
INVARIANTS SdBootSound PwNoStale PlicExclusive
PROPERTIES UlEnds SynEnds
CHECK_DEADLOCK FALSE
