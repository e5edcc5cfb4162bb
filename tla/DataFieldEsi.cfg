CONSTANT Dlc = {0, 8}
SPECIFICATION Spec
INVARIANT EsiReceived
