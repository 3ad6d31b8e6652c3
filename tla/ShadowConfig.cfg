\* Panel, clock, messages and restarts against the shadow's record.
SPECIFICATION Spec
CONSTANTS
  PanelCalls <- McPanelCalls
  Messages <- McMessages
  Times <- McTimes
  Temps = {12}
INVARIANTS TypeOK ReportIsTrue
PROPERTY ConfigurationReturns
