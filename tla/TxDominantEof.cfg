CONSTANTS
  buf_count = 1
  TxPrio = {0}
  TxCmds = {{"set_rdy"}}
  TimeTriggered = FALSE
  CoreCommands = FALSE
  DominantEof = TRUE
  drv_retr_lim_ena = TRUE
  drv_retr_th = 0
  MinGap = 6
SPECIFICATION Spec
INVARIANT LockOnlyInReady
