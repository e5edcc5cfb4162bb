------------------------------ MODULE MCTxPath ------------------------------
(***************************************************************************)
(* The transmit path for model checking.  ts_low_of, md_of and hw_cmd_int  *)
(* only observe: no action reads them.  A run whose properties do not read *)
(* the present value of one of them identifies the states that differ in   *)
(* it alone (VIEW).  HwCompletionInterrupts reads hw_cmd_int' only, which  *)
(* each transition determines, and is checked on each transition.          *)
(***************************************************************************)
EXTENDS TxPath

\* Without the ghost of the captured frame format word and the interrupts.
SelectionView ==
  <<txt_state, frame_due, prio, arb_vars, ts_low_of, pc_vars, drv_ena>>

\* Without the ghost of the captured timestamp and without the interrupts.
MetadataView ==
  <<txt_state, frame_due, prio, arb_vars, md_of, pc_vars, drv_ena>>
=============================================================================
