----------------------------- MODULE DataField ------------------------------
(***************************************************************************)
(* Control and data field of a frame, bit by bit, as protocol control of a *)
(* transmitter sends and of a receiver takes them                          *)
(* (src/src/can_core/protocol_control/protocol_control.vhd), up to the     *)
(* words the receiver hands to its RX buffer and the word count RWCNT the  *)
(* RX buffer announces for the frame (src/src/rx_buffer/rx_buffer.vhd).    *)
(*                                                                         *)
(* One step is one bit time, without stuff bits and without disturbances.  *)
(* A control bit is 0 (dominant) or 1 (recessive).  A data bit is named by *)
(* its place, byte number and bit number, in the data of the frame.        *)
(***************************************************************************)
EXTENDS Naturals, Sequences

CONSTANT Dlc          \* data length codes tried, a subset of 0..15

ASSUME DlcAssumption == Dlc \subseteq 0..15

VARIABLES
  fr,                 \* the frame in the TXT buffer
  error_active,       \* fault confinement state of the transmitter
  drv_rtr_pref,       \* RTR frames are sent with DLC 0
  drv_CAN_fd_ena,     \* the receiver takes CAN FD frames
  tx,                 \* protocol control of the transmitter
  rx                  \* protocol control of the receiver

vars == <<fr, error_active, drv_rtr_pref, drv_CAN_fd_ena, tx, rx>>

DOMINANT == 0
RECESSIVE == 1
Level(b) == IF b THEN RECESSIVE ELSE DOMINANT

Frame == [fd : BOOLEAN, ext : BOOLEAN, rtr : BOOLEAN, brs : BOOLEAN, dlc : Dlc]

\* Bytes of the data field for the data length code dlc_int.
ByteCount(dlc_int) ==
  IF dlc_int <= 8 THEN dlc_int ELSE <<12, 16, 20, 24, 32, 48, 64>>[dlc_int - 8]

\* The length code that counts, from the code of the frame.
dlc_int(fd, rtr, dlc) ==
  IF fd THEN dlc ELSE IF rtr THEN 0 ELSE IF dlc >= 8 THEN 8 ELSE dlc

\* After the control field there are no data for remote and empty frames.
AfterControl(fd, rtr, dlc) == IF (rtr /\ ~fd) \/ dlc = 0 THEN "crc" ELSE "data"

Bit(n, i) == (n \div 2^i) % 2

-----------------------------------------------------------------------------
(* Transmitter.                                                            *)

\* ctrl_tran_reg, from the bit sent last to the one sent first.
DlcBits ==
  LET dlc == IF ~fr.fd /\ fr.rtr /\ drv_rtr_pref THEN 0 ELSE fr.dlc
  IN  [i \in 0..3 |-> Bit(dlc, i)]

\* Mutant: BRS and ESI are sent in the wrong order.
MutCtrlTranReg ==
  [i \in 0..7 |-> IF i <= 3 THEN DlcBits[i]
                  ELSE IF ~fr.fd THEN DOMINANT
                  ELSE <<Level(fr.brs), Level(~error_active),
                         DOMINANT, RECESSIVE>>[i - 3]]

ctrl_tran_reg ==
  [i \in 0..7 |-> IF i <= 3 THEN DlcBits[i]
                  ELSE IF ~fr.fd THEN DOMINANT
                  ELSE <<Level(~error_active), Level(fr.brs),
                         DOMINANT, RECESSIVE>>[i - 3]]

\* Mutant: the r1 bit of extended CAN 2.0 frames is forgotten.
MutFirstControlPointer == IF fr.fd THEN 7 ELSE 4

FirstControlPointer == IF fr.fd THEN 7 ELSE IF fr.ext THEN 5 ELSE 4

\* Bit i of the endian swapped word: byte in the word and bit in the byte.
tx_data_word(i) == <<3 - i \div 8, i % 8>>

\* The bit on the bus.
data_tx ==
  IF tx.state = "control" THEN ctrl_tran_reg[tx.control_pointer]
  ELSE LET w == tx_data_word(tx.data_tx_index)
       IN  <<4 * (tx.txt_buf_ptr - 4) + w[1], w[2]>>

TxPreset(state) ==
  [state |-> state, control_pointer |-> 0, data_tx_index |-> 31,
   txt_buf_ptr |-> 4,
   data_pointer |-> 8 * ByteCount(dlc_int(fr.fd, fr.rtr, fr.dlc)) - 1]

TxControl ==
  /\ tx.state = "control"
  /\ tx' = IF tx.control_pointer > 0
             THEN [tx EXCEPT !.control_pointer = @ - 1]
             ELSE LET next == AfterControl(fr.fd, fr.rtr, fr.dlc)
                  IN  IF next = "data" THEN TxPreset("data")
                      ELSE [tx EXCEPT !.state = "crc"]

TxData ==
  /\ tx.state = "data"
  /\ tx' = [tx EXCEPT
              !.txt_buf_ptr = IF tx.data_tx_index = 0 /\ @ < 19 THEN @ + 1 ELSE @,
              !.data_tx_index = IF @ = 0 THEN 31 ELSE @ - 1,
              !.data_pointer = IF @ > 0 THEN @ - 1 ELSE @,
              !.state = IF tx.data_pointer > 0 THEN "data" ELSE "crc"]

-----------------------------------------------------------------------------
(* Receiver.                                                               *)

Zero == <<64, 0>>
ZeroByte == [i \in 1..8 |-> Zero]
ZeroWord == [b \in 0..3 |-> ZeroByte]

\* What the receiver itself sends in these fields.
rx_data_tx == RECESSIVE

\* The first control bit: EDL, or r0 / r1 of a CAN 2.0 frame.
RxFirstControl(bit) ==
  /\ rx.state = "control" /\ rx.FSM_preset
  /\ rx' = IF bit = RECESSIVE
             THEN IF drv_CAN_fd_ena
                    THEN [rx EXCEPT !.control_pointer = 6, !.FSM_preset = FALSE,
                                    !.rec_fd = TRUE, !.rec_is_rtr = FALSE]
                    ELSE [rx EXCEPT !.state = "error", !.rec_fd = TRUE]
             ELSE [rx EXCEPT !.control_pointer = IF fr.ext THEN 4 ELSE 3,
                             !.FSM_preset = FALSE,
                             !.rec_fd = FALSE, !.rec_is_rtr = fr.rtr]

RxPreset(r) ==
  [r EXCEPT !.rec_word_ptr = 0, !.rec_word_bind = 0, !.rec_data_sr = ZeroByte,
            !.data_pointer =
               8 * ByteCount(dlc_int(r.rec_fd, r.rec_is_rtr, r.rec_dlc)) - 1]

\* The last bit of DLC: the metadata are handed to the RX buffer.
RxLastControl(bit) ==
  LET r == [rx EXCEPT !.rec_dlc = @ + bit, !.store_metadata = TRUE]
      next == AfterControl(r.rec_fd, r.rec_is_rtr, r.rec_dlc)
  IN  IF next = "data" THEN RxPreset([r EXCEPT !.state = "data"])
      ELSE [r EXCEPT !.state = "crc"]

RxControl(bit) ==
  /\ rx.state = "control" /\ ~rx.FSM_preset
  /\ LET r == [rx EXCEPT !.control_pointer = IF @ > 0 THEN @ - 1 ELSE @]
     IN  rx' = IF rx.control_pointer = 6
                 THEN IF bit = RECESSIVE THEN [r EXCEPT !.state = "error"] ELSE r
               ELSE IF rx.control_pointer = 5
                 THEN [r EXCEPT !.rec_brs = (bit = RECESSIVE)]
               ELSE IF rx.control_pointer = 4
                 THEN IF rx.rec_fd
                        THEN [r EXCEPT !.rec_esi = (rx_data_tx = RECESSIVE)]
                      ELSE IF bit = RECESSIVE THEN [r EXCEPT !.state = "error"]
                      ELSE r
               ELSE IF rx.control_pointer > 0
                 THEN [r EXCEPT !.rec_dlc = @ + bit * 2^rx.control_pointer]
               ELSE RxLastControl(bit)

\* Mutant: the bytes of the previous word stay in an incomplete last word.
MutStoreByte(word, bind, byte) == [word EXCEPT ![bind] = byte]

\* "First byte of word, whole word is written to avoid bytes from old frames"
StoreByte(word, bind, byte) ==
  IF bind = 0 THEN [ZeroWord EXCEPT ![0] = byte] ELSE [word EXCEPT ![bind] = byte]

\* A word is complete, or the data field ends within it.
StoreData(last) ==
  \/ rx.rec_word_ptr = 7 /\ rx.rec_word_bind = 3
  \/ last /\ rx.rec_word_bind # 3

RxData(bit) ==
  /\ rx.state = "data"
  /\ LET byte == Append(SubSeq(rx.rec_data_sr, 2, 8), bit)
         whole == rx.rec_word_ptr = 7
         last == rx.data_pointer = 0
         store == StoreData(last)
     IN  rx' = [rx EXCEPT
                  !.store_metadata = FALSE,
                  !.rec_data_sr = byte,
                  !.rec_word_ptr = (@ + 1) % 8,
                  !.rec_word_bind = IF whole THEN (@ + 1) % 4 ELSE @,
                  !.store_data_word =
                     IF whole THEN StoreByte(@, rx.rec_word_bind, byte) ELSE @,
                  !.store_data = store,
                  !.stores = IF store THEN @ + 1 ELSE @,
                  !.data_pointer = IF last THEN @ ELSE @ - 1,
                  !.state = IF last THEN "crc" ELSE "data"]

-----------------------------------------------------------------------------
(* RX buffer.                                                              *)

\* Mutant: the length code of a CAN 2.0 frame is not limited to 8 bytes.
MutRWCNT(fd, rtr, dlc) ==
  IF rtr THEN 3
  ELSE IF dlc = 0 THEN 3
  ELSE IF dlc <= 8 THEN 4 + (dlc - 1) \div 4
  ELSE <<6, 7, 8, 9, 11, 15, 19>>[dlc - 8]

\* RWCNT of the FRAME_FORMAT word: words of the frame that follow it.
RWCNT(fd, rtr, dlc) ==
  IF rtr THEN 3
  ELSE IF ~fd /\ dlc >= 8 THEN 5
  ELSE IF dlc = 0 THEN 3
  ELSE IF dlc <= 8 THEN 4 + (dlc - 1) \div 4
  ELSE <<6, 7, 8, 9, 11, 15, 19>>[dlc - 8]

-----------------------------------------------------------------------------
Init ==
  /\ fr \in Frame
  /\ error_active \in BOOLEAN /\ drv_rtr_pref \in BOOLEAN
  /\ drv_CAN_fd_ena \in BOOLEAN
  /\ ~fr.fd => error_active /\ ~fr.brs
  /\ fr.fd => ~drv_rtr_pref
  /\ tx = [TxPreset("control") EXCEPT !.control_pointer = FirstControlPointer]
  /\ rx = [state |-> "control", FSM_preset |-> TRUE, control_pointer |-> 0,
           rec_fd |-> FALSE, rec_is_rtr |-> FALSE, rec_brs |-> FALSE,
           rec_esi |-> FALSE, rec_dlc |-> 0, data_pointer |-> 0,
           rec_word_ptr |-> 0, rec_word_bind |-> 0, rec_data_sr |-> ZeroByte,
           store_data_word |-> ZeroWord, store_metadata |-> FALSE,
           store_data |-> FALSE, stores |-> 0]

\* One bit time.
BitTime ==
  /\ TxControl \/ TxData
  /\ RxFirstControl(data_tx) \/ RxControl(data_tx) \/ RxData(data_tx)
  /\ UNCHANGED <<fr, error_active, drv_rtr_pref, drv_CAN_fd_ena>>

\* Both nodes are at the CRC field, or the receiver sends an error frame.
Done ==
  /\ rx.state \in {"crc", "error"}
  /\ UNCHANGED vars

Next == BitTime \/ Done

Spec == Init /\ [][Next]_vars

-----------------------------------------------------------------------------
(* Properties.                                                             *)

\* Transmitter and receiver count the bits of control and data field alike:
\* they are in the same field after every bit, for every combination of
\* format, identifier type, RTR, length code and RTR preference, although
\* they count from different frame descriptions and different start values.
NodesInStep == rx.state # "error" => rx.state = tx.state

\* Once the control field is over the receiver knows what was sent: frame
\* type, remote request, bit rate switch and length code.
HeaderReceived ==
  rx.state \in {"data", "crc"} =>
    /\ rx.rec_fd = fr.fd
    /\ rx.rec_is_rtr = (fr.rtr /\ ~fr.fd)
    /\ rx.rec_brs = fr.brs
    /\ rx.rec_dlc = IF fr.rtr /\ ~fr.fd /\ drv_rtr_pref THEN 0 ELSE fr.dlc

\* The n-th data word of the frame, unused bytes zero.
DataWord(n) ==
  [b \in 0..3 |->
     LET byte == 4 * n + b
     IN  IF byte < ByteCount(dlc_int(fr.fd, fr.rtr, fr.dlc))
           THEN [i \in 1..8 |-> <<byte, 8 - i>>] ELSE ZeroByte]

\* The words given to the RX buffer with store_data are the data words of
\* the transmitted frame, in order and padded with zeroes, whatever byte of
\* the last word the data field ends with.
StoredWordsAreSent == rx.store_data => rx.store_data_word = DataWord(rx.stores - 1)

\* "RWCNT - 3 = number of expected data words" (rx_buffer.vhd:927-974): at
\* the end of the data field the core has stored the number of words the RX
\* buffer announced; otherwise reader and buffer lose frame alignment.
RwcntMatchesStores ==
  rx.state = "crc" => rx.stores = RWCNT(rx.rec_fd, rx.rec_is_rtr, rx.rec_dlc) - 3

\* The ESI bit of a received CAN FD frame is the error state the transmitter
\* signals.
EsiReceived ==
  rx.state \in {"data", "crc"} /\ rx.rec_fd => rx.rec_esi = ~error_active
=============================================================================
