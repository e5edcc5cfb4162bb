----------------------------- MODULE TxtBuffer -----------------------------
(***************************************************************************)
(* State machine of one TXT buffer                                         *)
(* (src/src/txt_buffer/txt_buffer_fsm.vhd and txt_buffer.vhd).             *)
(*                                                                         *)
(* sw is the set of software commands of this clock cycle that select the  *)
(* buffer (txt_sw_cmd while sw_cbs = '1'), hw the set of commands of the   *)
(* CAN core that select it (txt_hw_cmd while hw_cbs = '1').                *)
(***************************************************************************)

TxtState == {"txt_empty", "txt_ready", "txt_tx_prog", "txt_ab_prog",
             "txt_ok", "txt_error", "txt_aborted"}

SwCmd == {"set_rdy", "set_ety", "set_abt"}
HwCmd == {"lock", "unlock", "valid", "err", "arbl", "failed"}

\* States of a finished transmission, left only by software.
Finished == {"txt_ok", "txt_error", "txt_aborted"}

\* The core has locked the buffer and not yet unlocked it.
InProgress == {"txt_tx_prog", "txt_ab_prog"}

abort_applied(sw) == "set_abt" \in sw

\* Mutant: a buffer that waits for transmission is not protected.
MutAccessibleReady(s) == s \notin InProgress

\* Memory protection: software may write the RAM of the buffer.
txtb_user_accessible(s) == s \notin {"txt_ready"} \cup InProgress

\* Mutant: an abort is seen by the arbitrator only after the clock edge.
MutReadyIgnoresAbort(s, sw) == s = "txt_ready"

\* The buffer can be selected by the TX arbitrator.
txt_buf_ready(s, sw) == s = "txt_ready" /\ ~abort_applied(sw)

\* Mutant: a lost arbitration or an error forgets the pending abort.
MutUnlockTo(s, hw, retry) ==
  IF "failed" \in hw THEN "txt_error"
  ELSE IF "valid" \in hw THEN "txt_ok"
  ELSE IF "err" \in hw \/ "arbl" \in hw THEN "txt_ready" ELSE s

\* Where an unlock command leads; retry is the state for err and arbl.
UnlockTo(s, hw, retry) ==
  IF "failed" \in hw THEN "txt_error"
  ELSE IF "valid" \in hw THEN "txt_ok"
  ELSE IF "err" \in hw \/ "arbl" \in hw THEN retry ELSE s

\* The clocked process without the bus-off override, by the state it is in.
FromEmpty(sw) == IF "set_rdy" \in sw THEN "txt_ready" ELSE "txt_empty"

FromReady(sw, hw) ==
  IF "lock" \in hw
    THEN IF abort_applied(sw) THEN "txt_ab_prog" ELSE "txt_tx_prog"
    ELSE IF abort_applied(sw) THEN "txt_aborted" ELSE "txt_ready"

FromTxProg(sw, hw) ==
  IF "unlock" \in hw
    THEN UnlockTo("txt_tx_prog", hw, "txt_ready")
    ELSE IF abort_applied(sw) THEN "txt_ab_prog" ELSE "txt_tx_prog"

FromAbProg(hw) ==
  IF "unlock" \in hw THEN UnlockTo("txt_ab_prog", hw, "txt_aborted")
                     ELSE "txt_ab_prog"

FromFinished(s, sw) ==
  IF "set_ety" \in sw THEN "txt_empty"
  ELSE IF "set_rdy" \in sw THEN "txt_ready" ELSE s

FsmStep(s, sw, hw) ==
  IF s = "txt_empty" THEN FromEmpty(sw)
  ELSE IF s = "txt_ready" THEN FromReady(sw, hw)
  ELSE IF s = "txt_tx_prog" THEN FromTxProg(sw, hw)
  ELSE IF s = "txt_ab_prog" THEN FromAbProg(hw)
  ELSE FromFinished(s, sw)

\* Entering bus-off fails every buffer, whatever its state.
buf_fsm(s, sw, hw, bus_off_start) ==
  IF bus_off_start THEN "txt_error" ELSE FsmStep(s, sw, hw)

\* Mutant: no interrupt when the retransmission limit is reached.
MutNoFailedInt(s, sw, hw, hw_cbs) ==
  /\ hw_cbs
  /\ \/ "valid" \in hw
     \/ "unlock" \in hw /\ s = "txt_ab_prog"
     \/ abort_applied(sw) /\ s = "txt_ready"

\* Source of the TXT buffer HW command interrupt: gated by hw_cbs, also for
\* the abort of a buffer that is only ready.
txtb_hw_cmd_int(s, sw, hw, hw_cbs) ==
  /\ hw_cbs
  /\ \/ hw \cap {"failed", "valid"} # {}
     \/ "unlock" \in hw /\ s = "txt_ab_prog"
     \/ abort_applied(sw) /\ s = "txt_ready"
=============================================================================
