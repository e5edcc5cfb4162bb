CONSTANTS
  buff_size = 8
  Tags = {t1, t2}
  DataWords = {0}
  RtsOpt = {"beg"}
  EraseWhen = "never"
  CoreDisable = "never"
SPECIFICATION Spec
SYMMETRY TagSymmetry
PROPERTY OverrunReported
