\* The menu under every sequence of knob events up to the bound.
SPECIFICATION FairSpec
CONSTANTS
  DefaultOverride = 2
  MaxOverride = 260
  QueueLength = 2
  CarouselEnd = 1
  StateScreen = 2
  ScreenTimeout = 3
  TwinCalls <- McTwinCalls
  Times <- McTimes
  Temps = {20}
  MaxEvents = 6
INVARIANTS TypeOK ScreenMatchesMode OverrideBounded
PROPERTIES SpeedIsProtected ConfirmedIsShown ReturnsToCarousel
