SPECIFICATION MCSpec
CONSTANTS
  JobsHashes = {"h1", "h2"}
  JobsRumours = {"h1"}
  JobsRequests = {"q1", "q2", "q3"}
  JobsHashOf <- MCJobsHashOf
  JobsHourLimit = 2
  JobsGate = 1
  JobsBoundary = 9
  JobsLastHour = 1
  JobsHoursPerDay = 1
  JobsGenerations = 0
  ConvEntities = {"e1", "e2"}
  ConvMessages = {"m1", "m2", "m3"}
  ConvSceneOf <- MCConvSceneOf
  ConvKindsOf <- MCConvKindsOf
  ConvAdmins = {"m3"}
  ConvCapacity = 2
  ConvThreshold = 2
  ConvLastTick = 1
  FactsSlots = {"a", "b"}
  FactsInitial <- MCFactsInitial
  FactsReleaseAt <- MCFactsReleaseAt
  FactsClaims = {"seed1", "seed2", "off", "corr"}
  FactsLevel <- MCFactsLevel
  FactsKind <- MCFactsKind
  FactsChecked <- MCFactsChecked
  FactsVersionOf <- MCFactsVersionOf
  FactsEditors = {"e1"}
  FactsSnapshots = {"n1", "n2"}
  FactsLastTime = 1
  CtlCommands = {"d1", "d2", "v1", "v2", "p1", "p2", "r", "s", "c1", "c2", "m1", "m2", "sp", "on", "off"}
  CtlCommand <- MCCtlCommand
  CtlMembers = {"a", "b", "n"}
  CtlPresent = {"a", "b"}
  CtlFactsOf <- MCCtlFactsOf
  CtlRevisions <- MCCtlRevisions
  CtlLastTime = 1
  PrjEffects = 4
  PrjEntity <- MCPrjEntity
  PrjGroup <- MCPrjGroup
  PrjNames = {"a", "b"}
  PrjMatches <- MCPrjMatches
  PrjBatch = 2
  PrjReaders <- MCPrjReaders
  PrjLimit = 1
  PrjRetention = 2
  PrjRebuilds = 1
  LaneMessages = {"e1", "e2"}
  LaneHandlers = {"h1", "h2", "h3"}
  LaneBatch <- MCLaneBatch
  LaneSource <- MCLaneSource
  LaneFocus <- MCLaneWindow
  LaneMay <- MCLaneMay
  LaneAmbient = {"x3", "x4"}
  LaneTopical = {"x1", "x2", "x4"}
  CogFrames = {"a1", "a2", "f1", "t1"}
  CogKind <- MCCogKind
  CogWanted = {"a1", "a2", "t1"}
  CogKnown = {"a1", "a2"}
  CogChorus = {"a2"}
  CogMay <- MCCogMay
  CogLimit = 1
  CogMaxCalls = 1
  LifeTasks = {"t1", "t2"}
  ProfMessages = {1, 2, 3}
  ProfAuthor <- MCProfAuthor
  ProfAt <- MCProfAt
  ProfClaims = {"f", "g"}
  ProfSubject <- MCProfSubject
  ProfFacts = {"f"}
  ProfNeeds <- MCProfNeeds
  ProfBatch = 2
  ProfFocus = 1
  ProfWindow = 1
  ProfDelays <- MCProfDelays
  ProfLastTime = 2
  ProfMerges <- MCProfMerges
  StyleMembers = {1, 2}
  StyleMessages = {1, 2, 3}
  StyleAuthor <- MCStyleAuthor
  StyleAt <- MCStyleAt
  StyleLimit = 2
  StyleNeeds = 1
  StyleGrowth = 1
  StyleRecent = 1
  StyleTraits = 1
  StyleLongest = 2
  StyleLastTime = 2
  RpFacts <- MCRpFacts
  RpRiskOf <- MCRpRisk
  RpEvaluations <- MCRpCases
  RpGrace = 2
  RpMaxAge = 3
  RpLastTime = 3
  RpLastRevision = 2
  ChMembers = {"a", "b"}
  ChTexts = {"joke", "tease"}
  ChNamed <- MCChNamed
  ChFirm = {"b"}
  ChPlayful = {"a", "b"}
  ChReadings <- MCChReadings
  ChWindow = 1
  ChHorizon = 1
  ChLastTime = 2
  ChLastEvent = 3
  ChInFlight = 1
  RdGroups = {"a", "b"}
  RdFirst = "a"
  RdOperators = {"o"}
  RdTokens = {"t1", "t2"}
  RdEvidence = {"e0", "e1"}
  RdSound <- MCRdSound
  RdAbout <- MCRdAbout
  RdMinimum <- MCRdMinimum
  RdLastVersion = 4
  RdLastConfig = 1
  RdLastTime = 3
  StkPictures = {"p", "q"}
  StkPoolLimit = 1
  StkLibraryLimit = 1
  StkQueueLimit = 1
  StkPackLimit = 2
  StkReplies = 1
  AutOpportunities = {"o1", "o2"}
  AutEarliest <- MCAutEarliest
  AutExpires <- MCAutExpires
  AutMaxAttempts <- MCAutAttempts
  AutRuns = {"r1", "r2"}
  AutVersions = 3
  AutAllows <- MCAutAllows
  AutQuiet <- MCAutQuiet
  AutLastTime = 2
  RelProposals <- MCRelProposals
  RelEvaluations <- MCRelEvaluations
  MCParts = {"jobs", "conv", "facts", "ctl", "prj", "lane", "cog", "life", "prof", "style", "replies", "chorus", "readiness", "stickers", "autonomy", "relations"}
VIEW MCView
INVARIANTS
  RuntimeTypeOK
  JobsSound
  ConvSound
  FactsSound
  CtlSound
  PrjSound
  LaneSound
  CogSound
  LifeSound
  RpSound
  MembersSound
  PresenceSound
  UnaskedSound
PROPERTIES
  StepsSound
CHECK_DEADLOCK FALSE
