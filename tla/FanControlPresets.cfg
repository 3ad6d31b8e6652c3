\* Preset tables arriving in pieces while the clock applies them.
SPECIFICATION Spec
CONSTANTS
  DefaultOverride = 1
  MaxOverride = 20
  Messages <- PresetMessages
  Edits <- PresetEdits
  Temps <- McTemps
  Hours = {12}
  MinutesPerHour = 2
  MaxLag = 1
  MaxResyncs = 0
INVARIANTS TypeOK PwmInRange
PROPERTIES OverrideKeepsSpeed SpeedFollowsPresets
