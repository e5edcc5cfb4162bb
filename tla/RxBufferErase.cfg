CONSTANTS
  buff_size = 8
  Tags = {t1, t2}
  DataWords = {0}
  RtsOpt = {"beg"}
  EraseWhen = "any"
  CoreDisable = "never"
SPECIFICATION Spec
SYMMETRY TagSymmetry
INVARIANT FreeWordIffMemoryFree
