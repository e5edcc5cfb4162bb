CONSTANTS
  buff_size = 6
  Tags = {t1, t2}
  DataWords = {0, 1}
  RtsOpt = {"beg", "end"}
  EraseWhen = "between"
  CoreDisable = "release"
SPECIFICATION Spec
SYMMETRY TagSymmetry
INVARIANTS ReadsNextWord FreeWordIffMemoryFree
PROPERTIES ImplementsFifo StoringProtocol
