SPECIFICATION Spec
CONSTANTS
  FragmentsOf <- MCFragmentsOf
  Folded <- MCFolded
  SizeOf <- MCSizeOf
  WordShape <- MCWordShape
  VariantsOf <- MCVariantsOf
  Entries <- MCEntries
  Canonical <- MCCanonical
  MaxSurfaces = 25
  EditRatio <- MCEditRatio
  QuickRatio <- MCQuickRatio
  BroadFragments <- MCBroadFragments
  RelatedFragments <- MCRelatedFragments
  WeakBridges <- MCBroadFragments
  MaxSuggestions = 3
  LowSignal <- MCLowSignal
  ScopeBindings <- MCScopeBindings
  ScannedSuffixes <- MCScannedSuffixes
  FileTexts <- LooseTexts
  Unterminated <- MCUnterminated
  GitIgnore <- MCGitIgnore
  Includes <- MCNone
  Excludes <- MCExcludes
  NoBaseline = NoBaseline
  NoReport = NoReport
  WordsOf <- MCWordsOf
  RootOf <- MCRootOf
  Digital <- MCNone
  Markup <- MCNone
  BackgroundTerms <- MCBackgroundTerms
  DomainHints <- MCDomainHints
  DocArtifacts <- MCNone
  BoilerplateMinDocuments = 3
  MinScore = 2500
  MaxCandidates = 3
  MaxOccurrences = 2
  PathOrder <- MCPathOrder
  ContextLines = 1
  MaxPositive = 2
  MaxNegative = 2
  IngestGlobs <- MCIngestGlobs
  IngestExcludes <- MCNone
  ExcludeDirs <- MCExcludeDirs
  AboveRoot <- MCAboveRoot
  TextSuffixes <- MCScannedSuffixes
  TextNames <- MCNone
  ProseSuffixes <- MCProseSuffixes
  PythonSuffixes <- MCPythonSuffixes
  MaxFileBytes = 60
  BinaryTexts <- MCNone
  UndecodableTexts <- MCUndecodable
  DirectPaths <- MCDirectPaths
  MaxEdits = 2
  MaxScans = 2
  Jobs = {"gate"}
PROPERTY MergesAddNoDebt
CHECK_DEADLOCK FALSE
