SPECIFICATION Spec
CONSTANTS
  MaxArgs = 4
  Words <- MCWords
  Arguments <- MCArguments
  Utf8 <- MCUtf8
  Absolute <- MCAbsolute
  Number <- MCNumber
  Endpoint <- MCEndpoint
  Define <- MCDefine
  Setting <- MCSetting
  Cpus = 3
INVARIANTS
  CommandLineTypeOK
  FirstWordDecides
  LastOptionCounts
  DefinesInOrder
  NamesSurviveChdir
  PreloadAsAsked
