\* The knob slow and too fast for the poll, over the end of the revolution, and
\* presses of every length; a poll that blocks on a full queue.
SPECIFICATION Spec
CONSTANTS
  NumTicks = 2
  QueueLength = 1
  PressTimes <- EdgeTimes
  MaxMoves = 2
INVARIANTS TypeOK PhaseLocked DecoderTracksKnob NoPressForgotten
