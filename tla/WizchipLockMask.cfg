SPECIFICATION Spec
CONSTANT Tasks = {init, mqtt, display}
INVARIANT OutsideIsUnmasked
