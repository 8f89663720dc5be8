CONSTANT Faults = {}
SPECIFICATION Spec
INVARIANT StopNotMistaken
