------------------------------ MODULE TxRetry ------------------------------
(***************************************************************************)
(* The retransmission limit.  TxPath with a history variable: how often    *)
(* each buffer was locked for transmission since software last set it      *)
(* ready.  Counting stops at MaxAttempts.                                  *)
(***************************************************************************)
EXTENDS TxPath

CONSTANT MaxAttempts

VARIABLE attempts

SetReady(b) == txt_state[b] \in Finished \cup {"txt_empty"} /\ txt_state'[b] = "txt_ready"
Locked(b) == txt_state[b] = "txt_ready" /\ txt_state'[b] \in InProgress

RetryInit == Init /\ attempts = [b \in Buf |-> 0]

RetryNext ==
  /\ Next
  /\ attempts' = [b \in Buf |->
       CASE SetReady(b) -> 0
         [] Locked(b)   -> attempts[b] + 1
         [] OTHER       -> attempts[b]]
  /\ \A b \in Buf : attempts'[b] <= MaxAttempts

RetrySpec == RetryInit /\ [][RetryNext]_<<vars, attempts>>

\* "If enabled, the core only attempts to transmitt each frame up to RTR_TH
\* times": taken at its most generous, one attempt and RTR_TH retransmissions
\* (as test/feature/txtb_state_feature_tb.vhd counts them).
RetransmissionLimit == \A b \in Buf : attempts[b] <= drv_retr_th + 1

\* A frame that fails because of its attempts had all of them: the counter
\* is erased since "the next frame can be from the same buffer, but it can be
\* different frame".
FailedOnlyAfterAllAttempts ==
  [][\A b \in Buf :
       /\ txt_state[b] = "txt_tx_prog"
       /\ txt_state'[b] = "txt_error"
       /\ ~bus_off_start
       => attempts[b] > drv_retr_th]_<<vars, attempts>>
=============================================================================
