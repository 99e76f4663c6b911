SPECIFICATION Spec
CONSTANTS
  OctaveCentres <- MCOctaveCentres
  Gains <- MCGains
  BandChoices <- MCBandChoices
  MaxEqBands = 2
  MostFilters = 3
  BandLevel <- MCBandLevel
  Rounds = 3
  FiltersAsked = {4}
  TargetFiles <- MCTargetFiles
  AlignFrom = 200
  AlignTo = 2000
  Spans <- MCSpans
  Lengths = {1, 3}
  Capacities = {2}
  DefaultPlot <- MCDefaultPlot
  DefaultRows = 2
  TransferFrom = 2
  NamesAsked <- MCNamesAsked
  SuffixLimit = 3
  NaN = NaN
  Inf = Inf
  Exact <- MCExact
  FloatSteps <- MCFloatSteps
  SettingsOffered <- MCSettingsOffered
  SavedNames <- MCSavedNames
  SplOffsets = {3}
  FrameBins = 2
  LargestSize = 1000
  CutLines = {5}
  TornValues <- MCTornValues
  MaxCalls = 4
  MaxFrames = 2
INVARIANTS HeardIsShown FitIsAligned TracesAreWhatWasCaptured SavedReadsBack LoadedIsUsable
PROPERTIES CurvesLineUp
CHECK_DEADLOCK FALSE
