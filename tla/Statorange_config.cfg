SPECIFICATION Program
CONSTANTS
  Documents <- SomeDocuments
  Tokens <- SomeTokens
  Quotable <- InStrings
  MaxText = 0
  LaterFiles <- SomeFiles
  Layouts <- SomeLayouts
  ShowFailed = {"Weather", "Net"}
  Charges = {0, 1, 4}
  Loads = {300, 800, 1200}
  Memories = {0, 3, 20, 35}
  Temps = {15, 27, 70}
  MaxTemps = 2
  Mounts = 2
  Units = {1, 2}
  Wide = 64
  Cutoff = 2
  Largest = 32
  Tight = 2
  Roomy = 12
  KnownCodes = {"113"}
  SunTimes <- SomeSunTimes
  Clock = {0, 200, 485, 700, 1000, 1439}
  Minutes = {0, 1}
  Volumes = {50, 120, 150}
  I3Bars <- SomeBars
PROPERTY
  ItemErrorsIgnored
CHECK_DEADLOCK FALSE
