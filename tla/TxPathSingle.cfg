SPECIFICATION FairSpec
CONSTANTS
  buf_count = 1
  TxPrio = {0}
  TxCmds = {{"set_rdy"}, {"set_ety"}, {"set_abt"}}
  TimeTriggered = TRUE
  CoreCommands = FALSE
  DominantEof = FALSE
  drv_retr_lim_ena = TRUE
  drv_retr_th = 1
  MinGap = 6
PROPERTIES NoLockAfterAbort AbortCompletes
