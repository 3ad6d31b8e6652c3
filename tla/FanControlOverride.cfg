\* The override counted down by a clock that skips minutes and is corrected.
SPECIFICATION FairSpec
CONSTANTS
  DefaultOverride = 1
  MaxOverride = 20
  Messages <- OverrideMessages
  Edits <- OverrideEdits
  Temps = {9}
  Hours = {12}
  MinutesPerHour = 3
  MaxLag = 2
  MaxResyncs = 1
PROPERTIES OverrideRunsDown OverrideExpires
