SPECIFICATION RetrySpec
CONSTANTS
  buf_count = 1
  TxPrio = {0}
  TxCmds = {{"set_rdy"}, {"set_abt"}}
  TimeTriggered = FALSE
  CoreCommands = FALSE
  DominantEof = FALSE
  drv_retr_lim_ena = TRUE
  drv_retr_th = 1
  MinGap = 6
  MaxAttempts = 4
PROPERTY FailedOnlyAfterAllAttempts
