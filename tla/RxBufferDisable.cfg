CONSTANTS
  buff_size = 8
  Tags = {t1, t2}
  DataWords = {1}
  RtsOpt = {"beg"}
  EraseWhen = "never"
  CoreDisable = "any"
SPECIFICATION Spec
SYMMETRY TagSymmetry
PROPERTY StoringProtocol
