SPECIFICATION Spec
CONSTANTS
  Day = 6
  Interval = 3
  MaxChanges = 4
PROPERTY NoIPEnds
