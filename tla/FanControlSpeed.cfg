\* Speed commands from the message queue and the panel against the clock.
SPECIFICATION FairPinSpec
CONSTANTS
  DefaultOverride = 1
  MaxOverride = 20
  Messages <- SpeedMessages
  Edits <- SpeedEdits
  Temps = {9}
  Hours <- McHours
  MinutesPerHour = 2
  MaxLag = 1
  MaxResyncs = 0
INVARIANT OnlyOvertakenIsStale
PROPERTIES PwmSettles NightIsCapped

