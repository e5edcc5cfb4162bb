CONSTANTS
  buf_count = 4
  OneShot = {FALSE, TRUE}
  LostBus = TRUE
SPECIFICATION Spec
INVARIANTS
  InsertsIntoEmpty
  CompletesInOrder
  NoFifoBug
CHECK_DEADLOCK FALSE
