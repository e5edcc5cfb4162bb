SPECIFICATION Spec
CONSTANTS
  buf_count = 2
  TxPrio = {0, 1}
  TxCmds = {{"set_rdy"}}
  TimeTriggered = FALSE
  CoreCommands = FALSE
  DominantEof = FALSE
  drv_retr_lim_ena = TRUE
  drv_retr_th = 0
  MinGap = 6
INVARIANTS DecoderSelectsHighest MetadataOfLockedBuffer LockOnlyInReady
VIEW MetadataView
