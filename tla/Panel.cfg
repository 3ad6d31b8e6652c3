\* Knob, poll, queue and display together.
SPECIFICATION PanelSpec
CONSTANTS
  NumTicks = 1
  PressTimes = {10, 300}
  MaxMoves = 1
  DefaultOverride = 1
  MaxOverride = 260
  QueueLength = 2
  CarouselEnd = 1
  StateScreen = 2
  ScreenTimeout = 3
  TwinCalls <- McTwinCalls
  Times <- McTimes
  Temps = {0}
  MaxEvents = 4
  MaxInputs = 4
INVARIANT NoPhantomEvent
PROPERTIES PartsImplemented PressOpensMenu
