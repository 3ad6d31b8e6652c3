SPECIFICATION Spec
CONSTANTS
  Day = 6
  Interval = 3
  MaxChanges = 4
INVARIANTS TypeOK ClockIsSteady NoFalseAddress
PROPERTIES DeniedOnlyByRetest StartsWhenLinked LossIsShown RecoveryIsShown
