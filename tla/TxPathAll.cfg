SPECIFICATION Spec
CONSTANTS
  buf_count = 2
  TxPrio = {0}
  TxCmds = {{"set_rdy"}, {"set_abt"}}
  TimeTriggered = FALSE
  CoreCommands = TRUE
  DominantEof = TRUE
  drv_retr_lim_ena = TRUE
  drv_retr_th = 0
  MinGap = 0
INVARIANTS TypeOK LockAgreement SelectionReadsOneFrame
PROPERTY HwCompletionInterrupts
VIEW SelectionView
