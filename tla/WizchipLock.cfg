SPECIFICATION Spec
CONSTANT Tasks = {init, mqtt, display}
INVARIANTS TypeOK AccessIsExclusive MaskedOnlyByHalf
