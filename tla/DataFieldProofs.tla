-------------------------- MODULE DataFieldProofs ---------------------------
(***************************************************************************)
(* Proofs about the control and the data field of a frame, for every set   *)
(* of data length codes.                                                   *)
(***************************************************************************)
EXTENDS DataField, Integers, TLAPS

\* The time limits, in seconds, of the leaves that name no prover.
USE SMTT(40), ZenonT(40)

-----------------------------------------------------------------------------
(* Lengths.                                                                *)

\* The bytes of the data field, and the length code on the bus.
N == ByteCount(dlc_int(fr.fd, fr.rtr, fr.dlc))
Sent == IF ~fr.fd /\ fr.rtr /\ drv_rtr_pref THEN 0 ELSE fr.dlc

Bytes == {0, 1, 2, 3}
Codes == {0, 1, 2, 3, 4, 5, 6, 7, 8, 9, 10, 11, 12, 13, 14, 15}

LEMMA LongCounts ==
  /\ ByteCount(9) = 12 /\ ByteCount(10) = 16 /\ ByteCount(11) = 20 /\ ByteCount(12) = 24
  /\ ByteCount(13) = 32 /\ ByteCount(14) = 48 /\ ByteCount(15) = 64
  BY DEF ByteCount

LEMMA LongWords ==
  ASSUME NEW fd, fd = TRUE
  PROVE  /\ RWCNT(fd, FALSE, 9) = 6 /\ RWCNT(fd, FALSE, 10) = 7 /\ RWCNT(fd, FALSE, 11) = 8
         /\ RWCNT(fd, FALSE, 12) = 9 /\ RWCNT(fd, FALSE, 13) = 11 /\ RWCNT(fd, FALSE, 14) = 15
         /\ RWCNT(fd, FALSE, 15) = 19
  BY DEF RWCNT

LEMMA CeilWords ==
  ASSUME NEW n \in Nat, NEW r \in Nat, r >= 4, 4 * (r - 4) < n, n <= 4 * (r - 3)
  PROVE  \A w \in Nat, b \in Bytes : n = 4 * w + b + 1 => r = 3 + w + 1
  <1> SUFFICES ASSUME NEW w \in Nat, NEW b \in Bytes, n = 4 * w + b + 1
               PROVE  r = 3 + w + 1
    OBVIOUS
  <1>1. b \in Nat /\ b <= 3
    BY DEF Bytes
  <1> QED BY <1>1

\* A data field has at most 64 bytes, and RWCNT - 3 words hold them.
LEMMA Lengths ==
  ASSUME NEW fd \in BOOLEAN, NEW rtr \in BOOLEAN, NEW dlc \in Codes
  PROVE  LET n == ByteCount(dlc_int(fd, rtr, dlc))
         IN  /\ n \in Nat /\ n <= 64
             /\ AfterControl(fd, rtr, dlc) \in {"crc", "data"}
             /\ AfterControl(fd, rtr, dlc) = "data" =>
                  /\ n > 0 /\ ~(rtr /\ ~fd)
                  /\ \A w \in Nat, b \in Bytes :
                       n = 4 * w + b + 1 => RWCNT(fd, FALSE, dlc) = 3 + w + 1
             /\ AfterControl(fd, rtr, dlc) = "crc" => RWCNT(fd, rtr /\ ~fd, dlc) = 3
  <1>1. AfterControl(fd, rtr, dlc) \in {"crc", "data"}
    BY DEF AfterControl
  <1>2. AfterControl(fd, rtr, dlc) = "crc" => RWCNT(fd, rtr /\ ~fd, dlc) = 3
    BY DEF AfterControl, RWCNT
  <1>3. CASE dlc <= 8
    BY <1>1, <1>2, <1>3 DEF AfterControl, ByteCount, dlc_int, RWCNT, Codes, Bytes
  <1>4. CASE ~fd /\ dlc > 8
    BY <1>1, <1>2, <1>4 DEF AfterControl, ByteCount, dlc_int, RWCNT, Codes, Bytes
  <1>5. CASE fd /\ dlc > 8
    <2>1. dlc \in {9, 10, 11, 12, 13, 14, 15}
      BY <1>5 DEF Codes
    <2>2. dlc_int(fd, rtr, dlc) = dlc
      BY <1>5 DEF dlc_int
    <2>3. AfterControl(fd, rtr, dlc) = "data"
      BY <1>5, <2>1 DEF AfterControl
    <2>4. fd = TRUE
      BY <1>5
    <2>5. /\ RWCNT(fd, FALSE, 9) = 6 /\ RWCNT(fd, FALSE, 10) = 7 /\ RWCNT(fd, FALSE, 11) = 8
          /\ RWCNT(fd, FALSE, 12) = 9 /\ RWCNT(fd, FALSE, 13) = 11 /\ RWCNT(fd, FALSE, 14) = 15
          /\ RWCNT(fd, FALSE, 15) = 19
      BY ZenonT(40), <2>4, LongWords
    <2> DEFINE n == ByteCount(dlc)  r == RWCNT(fd, FALSE, dlc)
    <2>6. (n = 12 /\ r = 6) \/ (n = 16 /\ r = 7) \/ (n = 20 /\ r = 8) \/ (n = 24 /\ r = 9)
          \/ (n = 32 /\ r = 11) \/ (n = 48 /\ r = 15) \/ (n = 64 /\ r = 19)
      <3>1. CASE dlc = 9
        BY ZenonT(40), <2>5, <3>1, LongCounts
      <3>2. CASE dlc = 10
        BY ZenonT(40), <2>5, <3>2, LongCounts
      <3>3. CASE dlc = 11
        BY ZenonT(40), <2>5, <3>3, LongCounts
      <3>4. CASE dlc = 12
        BY ZenonT(40), <2>5, <3>4, LongCounts
      <3>5. CASE dlc = 13
        BY ZenonT(40), <2>5, <3>5, LongCounts
      <3>6. CASE dlc = 14
        BY ZenonT(40), <2>5, <3>6, LongCounts
      <3>7. CASE dlc = 15
        BY ZenonT(40), <2>5, <3>7, LongCounts
      <3> QED BY ZenonT(40), <2>1, <3>1, <3>2, <3>3, <3>4, <3>5, <3>6, <3>7
    <2> HIDE DEF n, r
    <2>7. /\ n \in Nat /\ r \in Nat /\ n > 0 /\ n <= 64
          /\ r >= 4 /\ 4 * (r - 4) < n /\ n <= 4 * (r - 3)
      BY <2>6
    <2>8. \A w \in Nat, b \in Bytes : n = 4 * w + b + 1 => r = 3 + w + 1
      BY <2>7, CeilWords
    <2> QED BY ZenonT(40), <1>2, <1>5, <2>2, <2>3, <2>7, <2>8 DEF n, r
  <1>6. dlc <= 8 \/ dlc > 8
    BY DEF Codes
  <1> QED BY ZenonT(40), <1>3, <1>4, <1>5, <1>6

LEMMA LastWord ==
  ASSUME NEW fd \in BOOLEAN, NEW rtr \in BOOLEAN, NEW dlc \in Codes,
         AfterControl(fd, rtr, dlc) = "data", NEW w \in Nat, NEW b \in Bytes,
         ByteCount(dlc_int(fd, rtr, dlc)) = 4 * w + b + 1
  PROVE  ~(rtr /\ ~fd) /\ RWCNT(fd, FALSE, dlc) = 3 + w + 1
  <1>1. /\ ~(rtr /\ ~fd)
        /\ \A v \in Nat, c \in Bytes :
             ByteCount(dlc_int(fd, rtr, dlc)) = 4 * v + c + 1 => RWCNT(fd, FALSE, dlc) = 3 + v + 1
    BY ZenonT(120), Lengths
  <1> QED BY ZenonT(40), <1>1

LEMMA Binary ==
  ASSUME NEW d \in Codes
  PROVE  /\ \A i \in {0, 1, 2, 3} : Bit(d, i) \in {0, 1}
         /\ d = 8 * Bit(d, 3) + 4 * Bit(d, 2) + 2 * Bit(d, 1) + Bit(d, 0)
  <1>1. /\ 2^0 = 1 /\ 2^1 = 2 /\ 2^2 = 4 /\ 2^3 = 8
    OBVIOUS
  <1>2. /\ Bit(d, 0) = (d \div 1) % 2 /\ Bit(d, 1) = (d \div 2) % 2
        /\ Bit(d, 2) = (d \div 4) % 2 /\ Bit(d, 3) = (d \div 8) % 2
    BY <1>1 DEF Bit
  <1>3. d \in Nat /\ d < 16
    BY DEF Codes
  <1> DEFINE a == d \div 2  b == d \div 4  c == d \div 8
  <1>4. /\ a \in Nat /\ b \in Nat /\ c \in Nat /\ c < 2 /\ d \div 1 = d
        /\ d = 2 * a + (d % 2) /\ a = 2 * b + (a % 2) /\ b = 2 * c + (b % 2)
    BY <1>3
  <1>5. c % 2 = c /\ d % 2 \in {0, 1} /\ a % 2 \in {0, 1} /\ b % 2 \in {0, 1} /\ c % 2 \in {0, 1}
    BY <1>3, <1>4
  <1>6. d = 8 * (c % 2) + 4 * (b % 2) + 2 * (a % 2) + (d % 2)
    BY <1>3, <1>4, <1>5
  <1> QED BY ZenonT(40), <1>2, <1>4, <1>5, <1>6

-----------------------------------------------------------------------------
(* Bytes and words of the receiver.                                        *)

ByteOf(n) == [i \in 1..8 |-> <<n, 8 - i>>]
Place == Nat \X Nat
Byte == [1..8 -> Place]

\* An element is shifted into a sequence of fixed length.
LEMMA ShiftedSeq ==
  ASSUME NEW n \in Nat, NEW s \in [1..n -> Place], NEW e \in Place, n > 1
  PROVE  /\ Append(SubSeq(s, 2, n), e) \in [1..n -> Place]
         /\ Append(SubSeq(s, 2, n), e)[n] = e
         /\ \A k \in 1..(n - 1) : Append(SubSeq(s, 2, n), e)[k] = s[k + 1]
  <1> DEFINE m == SubSeq(s, 2, n)  t == Append(m, e)
  <1>1. s \in Seq(Place) /\ Len(s) = n
    OBVIOUS
  <1>2. m \in Seq(Place) /\ Len(m) = n - 1 /\ \A k \in 1..(n - 1) : m[k] = s[k + 1]
    BY <1>1
  <1> HIDE DEF m
  <1>3. /\ t \in Seq(Place) /\ Len(t) = n /\ t[n] = e /\ \A k \in 1..(n - 1) : t[k] = m[k]
    BY <1>2
  <1> HIDE DEF t
  <1>4. t \in [1..n -> Place]
    BY <1>3
  <1> QED BY <1>2, <1>3, <1>4 DEF t, m

LEMMA Shifted ==
  ASSUME NEW s \in Byte, NEW e \in Place
  PROVE  LET t == Append(SubSeq(s, 2, 8), e)
         IN  t \in Byte /\ t[8] = e /\ \A k \in 1..7 : t[k] = s[k + 1]
  <1> DEFINE n == 8  t == Append(SubSeq(s, 2, n), e)
  <1>1. n \in Nat /\ n > 1 /\ n - 1 = 7
    OBVIOUS
  <1>2. s \in [1..n -> Place]
    BY DEF Byte
  <1> HIDE DEF n
  <1>3. t \in [1..n -> Place] /\ t[n] = e /\ \A k \in 1..(n - 1) : t[k] = s[k + 1]
    <2>1. n \in Nat /\ n > 1
      BY <1>1
    <2> QED BY ZenonT(120), <1>2, <2>1, ShiftedSeq
  <1>4. \A k \in 1..7 : t[k] = s[k + 1]
    BY <1>1, <1>3
  <1> QED BY ZenonT(40), <1>3, <1>4 DEF Byte, n

-----------------------------------------------------------------------------
(* The inductive invariant.                                                *)

Fixed ==
  /\ fr.fd \in BOOLEAN /\ fr.ext \in BOOLEAN /\ fr.rtr \in BOOLEAN /\ fr.brs \in BOOLEAN
  /\ fr.dlc \in Codes /\ drv_rtr_pref \in BOOLEAN /\ drv_CAN_fd_ena \in BOOLEAN
  /\ ~fr.fd => ~fr.brs

TxShape ==
  tx = [state |-> tx.state, control_pointer |-> tx.control_pointer,
        data_tx_index |-> tx.data_tx_index, txt_buf_ptr |-> tx.txt_buf_ptr,
        data_pointer |-> tx.data_pointer]

RxShape ==
  rx = [state |-> rx.state, FSM_preset |-> rx.FSM_preset,
        control_pointer |-> rx.control_pointer, rec_fd |-> rx.rec_fd,
        rec_is_rtr |-> rx.rec_is_rtr, rec_brs |-> rx.rec_brs, rec_esi |-> rx.rec_esi,
        rec_dlc |-> rx.rec_dlc, data_pointer |-> rx.data_pointer,
        rec_word_ptr |-> rx.rec_word_ptr, rec_word_bind |-> rx.rec_word_bind,
        rec_data_sr |-> rx.rec_data_sr, store_data_word |-> rx.store_data_word,
        store_metadata |-> rx.store_metadata, store_data |-> rx.store_data,
        stores |-> rx.stores]

\* Before the first control bit.
AtFirst ==
  /\ rx.state = "control" /\ rx.FSM_preset = TRUE /\ rx.rec_brs = FALSE
  /\ rx.rec_dlc = 0 /\ rx.stores = 0 /\ rx.store_data = FALSE
  /\ tx.state = "control" /\ tx.control_pointer = FirstControlPointer

\* The bits of the length code that were sent before bit p.
SentAbove(p) ==
  (IF p < 3 THEN 8 * Bit(Sent, 3) ELSE 0) + (IF p < 2 THEN 4 * Bit(Sent, 2) ELSE 0)
    + (IF p < 1 THEN 2 * Bit(Sent, 1) ELSE 0)

\* Both nodes are at bit p of the control field.
AtControl(p) ==
  /\ rx.state = "control" /\ rx.FSM_preset = FALSE /\ rx.control_pointer = p
  /\ tx.state = "control" /\ tx.control_pointer = p
  /\ rx.rec_fd = fr.fd /\ rx.rec_is_rtr = (fr.rtr /\ ~fr.fd)
  /\ rx.rec_brs = (fr.brs /\ p < 5) /\ rx.rec_dlc = SentAbove(p)
  /\ ~fr.fd => p <= 4
  /\ rx.stores = 0 /\ rx.store_data = FALSE

HeaderKnown ==
  /\ rx.rec_fd = fr.fd /\ rx.rec_is_rtr = (fr.rtr /\ ~fr.fd)
  /\ rx.rec_brs = fr.brs /\ rx.rec_dlc = Sent

\* Both nodes are at bit 7 - p of byte b of data word w.
AtData(w, b, p) ==
  /\ rx.state = "data" /\ tx.state = "data"
  /\ HeaderKnown /\ AfterControl(fr.fd, fr.rtr, fr.dlc) = "data"
  /\ tx.txt_buf_ptr = 4 + w /\ rx.stores = w
  /\ rx.rec_word_bind = b /\ rx.rec_word_ptr = p
  /\ tx.data_tx_index = 31 - 8 * b - p
  /\ rx.data_pointer = 8 * N - 1 - 32 * w - 8 * b - p /\ tx.data_pointer = rx.data_pointer
  /\ 32 * w + 8 * b + p < 8 * N
  /\ rx.rec_data_sr \in Byte
  /\ \A k \in 1..8 : k > 8 - p => rx.rec_data_sr[k] = <<4 * w + b, 16 - p - k>>
  /\ b > 0 => rx.store_data_word = [x \in 0..3 |-> IF x < b THEN ByteOf(4 * w + x) ELSE ZeroByte]
  /\ StoredWordsAreSent

AtCrc ==
  /\ rx.state = "crc" /\ tx.state = "crc" /\ HeaderKnown
  /\ rx.stores = RWCNT(rx.rec_fd, rx.rec_is_rtr, rx.rec_dlc) - 3
  /\ StoredWordsAreSent

Pointers == {0, 1, 2, 3, 4, 5, 6}
Bits == {0, 1, 2, 3, 4, 5, 6, 7}

IInv ==
  /\ Fixed /\ TxShape /\ RxShape
  /\ \/ AtFirst
     \/ \E p \in Pointers : AtControl(p)
     \/ \E w \in Nat, b \in Bytes, p \in Bits : AtData(w, b, p)
     \/ AtCrc
     \/ rx.state = "error" /\ rx.store_data = FALSE

LEMMA DataLength ==
  ASSUME Fixed
  PROVE  /\ N \in Nat /\ N <= 64 /\ AfterControl(fr.fd, fr.rtr, fr.dlc) \in {"crc", "data"}
         /\ AfterControl(fr.fd, fr.rtr, fr.dlc) = "data" => N > 0 /\ ~(fr.rtr /\ ~fr.fd)
  <1>1. fr.fd \in BOOLEAN /\ fr.rtr \in BOOLEAN /\ fr.dlc \in Codes
    BY DEF Fixed
  <1> QED BY ZenonT(40), <1>1, Lengths DEF N

LEMMA InitIInv == Init => IInv
  <1> SUFFICES ASSUME Init PROVE IInv
    OBVIOUS
  <1>1. Fixed
    <2>1. \A d \in Dlc : d \in Codes
      BY DlcAssumption DEF Codes
    <2> QED BY <2>1 DEF Init, Frame, Fixed
  <1>2. tx = [state |-> "control", control_pointer |-> FirstControlPointer, data_tx_index |-> 31,
              txt_buf_ptr |-> 4, data_pointer |-> 8 * N - 1]
    BY DEF Init, TxPreset, N
  <1>3. TxShape /\ tx.state = "control" /\ tx.control_pointer = FirstControlPointer
    BY <1>2 DEF TxShape
  <1>4. RxShape
    BY DEF Init, RxShape
  <1>5. AtFirst
    BY <1>3 DEF Init, AtFirst
  <1> QED BY <1>1, <1>3, <1>4, <1>5 DEF IInv

-----------------------------------------------------------------------------
(* The control field.                                                      *)

\* The bits that the transmitter sends.
LEMMA ControlBits ==
  ASSUME Fixed
  PROVE  /\ fr.fd => /\ ctrl_tran_reg[7] = 1 /\ ctrl_tran_reg[6] = 0
                     /\ ctrl_tran_reg[5] = Level(fr.brs)
         /\ ~fr.fd => ctrl_tran_reg[5] = 0 /\ ctrl_tran_reg[4] = 0
         /\ \A i \in {0, 1, 2, 3} : ctrl_tran_reg[i] = Bit(Sent, i)
  <1>1. \A i \in {0, 1, 2, 3} : DlcBits[i] = Bit(Sent, i)
    BY DEF DlcBits, Sent
  <1>2. \A i \in {0, 1, 2, 3} : ctrl_tran_reg[i] = DlcBits[i]
    BY DEF ctrl_tran_reg
  <1>3. ~fr.fd => ctrl_tran_reg[5] = 0 /\ ctrl_tran_reg[4] = 0
    BY DEF ctrl_tran_reg, DOMINANT
  <1>4. fr.fd => ctrl_tran_reg[7] = 1
    BY DEF ctrl_tran_reg, RECESSIVE
  <1>5. fr.fd => ctrl_tran_reg[6] = 0
    BY DEF ctrl_tran_reg, DOMINANT
  <1>6. fr.fd => ctrl_tran_reg[5] = Level(fr.brs)
    BY DEF ctrl_tran_reg
  <1> QED BY <1>1, <1>2, <1>3, <1>4, <1>5, <1>6

\* The transmitter goes from one control bit to the next.
LEMMA TxNextControl ==
  ASSUME TxShape, tx.state = "control", TxControl \/ TxData, tx.control_pointer \in Nat,
         tx.control_pointer > 0
  PROVE  /\ TxShape' /\ tx'.state = "control" /\ tx'.control_pointer = tx.control_pointer - 1
  <1>1. tx' = [tx EXCEPT !.control_pointer = @ - 1]
    BY DEF TxControl, TxData
  <1>2. tx' = [state |-> "control", control_pointer |-> tx.control_pointer - 1,
               data_tx_index |-> tx.data_tx_index, txt_buf_ptr |-> tx.txt_buf_ptr,
               data_pointer |-> tx.data_pointer]
    BY <1>1 DEF TxShape
  <1> QED BY <1>2 DEF TxShape

\* After the last one it sends the data, or the CRC if there are none.
LEMMA TxLastControl ==
  ASSUME TxShape, Fixed, tx.state = "control", TxControl \/ TxData, tx.control_pointer = 0
  PROVE  /\ TxShape' /\ tx'.state = AfterControl(fr.fd, fr.rtr, fr.dlc)
         /\ tx'.state = "data" =>
              tx'.data_tx_index = 31 /\ tx'.txt_buf_ptr = 4 /\ tx'.data_pointer = 8 * N - 1
  <1>1. tx' = IF AfterControl(fr.fd, fr.rtr, fr.dlc) = "data" THEN TxPreset("data")
              ELSE [tx EXCEPT !.state = "crc"]
    BY DEF TxControl, TxData
  <1>2. AfterControl(fr.fd, fr.rtr, fr.dlc) \in {"crc", "data"}
    BY ZenonT(40), DataLength
  <1>3. CASE AfterControl(fr.fd, fr.rtr, fr.dlc) = "data"
    <2>1. tx' = [state |-> "data", control_pointer |-> 0, data_tx_index |-> 31,
                 txt_buf_ptr |-> 4, data_pointer |-> 8 * N - 1]
      BY <1>1, <1>3 DEF TxPreset, N
    <2> QED BY <1>3, <2>1 DEF TxShape
  <1>4. CASE AfterControl(fr.fd, fr.rtr, fr.dlc) = "crc"
    <2>1. tx' = [state |-> "crc", control_pointer |-> tx.control_pointer,
                 data_tx_index |-> tx.data_tx_index, txt_buf_ptr |-> tx.txt_buf_ptr,
                 data_pointer |-> tx.data_pointer]
      BY <1>1, <1>4 DEF TxShape
    <2> QED BY <1>4, <2>1 DEF TxShape
  <1> QED BY <1>2, <1>3, <1>4

\* The frame stays the same.
Same == UNCHANGED <<fr, error_active, drv_rtr_pref, drv_CAN_fd_ena>>

LEMMA SameFrame ==
  ASSUME Same
  PROVE  /\ fr' = fr /\ Fixed' = Fixed /\ N' = N /\ Sent' = Sent
         /\ FirstControlPointer' = FirstControlPointer
         /\ \A n : DataWord(n)' = DataWord(n)
         /\ \A p : SentAbove(p)' = SentAbove(p)
  BY DEF Same, Fixed, N, Sent, FirstControlPointer, DataWord, SentAbove

\* The first control bit tells the receiver the frame type.
LEMMA FirstStep ==
  ASSUME Fixed, TxShape, RxShape, AtFirst, BitTime
  PROVE  IInv'
  <1>1. Same /\ TxControl /\ RxFirstControl(data_tx) /\ data_tx = ctrl_tran_reg[FirstControlPointer]
    BY DEF BitTime, AtFirst, TxData, RxControl, RxData, Same, data_tx
  <1>2. FirstControlPointer = IF fr.fd THEN 7 ELSE IF fr.ext THEN 5 ELSE 4
    BY DEF FirstControlPointer
  <1>3. /\ TxShape' /\ tx'.state = "control" /\ tx'.control_pointer = FirstControlPointer - 1
    BY <1>1, <1>2, TxNextControl DEF AtFirst
  <1>4. Fixed' /\ fr' = fr /\ \A p : SentAbove(p)' = SentAbove(p)
    BY <1>1, SameFrame
  <1>5. SentAbove(6) = 0 /\ SentAbove(4) = 0 /\ SentAbove(3) = 0
    BY DEF SentAbove
  <1>6. CASE fr.fd /\ drv_CAN_fd_ena
    <2>1. data_tx = RECESSIVE
      BY <1>1, <1>2, <1>6, ControlBits DEF RECESSIVE
    <2>2. rx' = [rx EXCEPT !.control_pointer = 6, !.FSM_preset = FALSE,
                           !.rec_fd = TRUE, !.rec_is_rtr = FALSE]
      BY <1>1, <1>6, <2>1 DEF RxFirstControl
    <2>3. /\ RxShape' /\ rx'.state = "control" /\ rx'.FSM_preset = FALSE /\ rx'.control_pointer = 6
          /\ rx'.rec_fd = TRUE /\ rx'.rec_is_rtr = FALSE /\ rx'.rec_brs = FALSE
          /\ rx'.rec_dlc = 0 /\ rx'.stores = 0 /\ rx'.store_data = FALSE
      BY ZenonT(40), <2>2 DEF RxShape, AtFirst
    <2>4. (fr.brs /\ 6 < 5) = FALSE /\ (fr.rtr /\ ~fr.fd) = FALSE /\ fr.fd = TRUE
      BY <1>6 DEF Fixed
    <2>5. tx'.control_pointer = 6 /\ SentAbove(6)' = 0
      BY <1>2, <1>3, <1>4, <1>5, <1>6
    <2>6. AtControl(6)'
      BY ZenonT(40), <1>3, <1>4, <2>3, <2>4, <2>5 DEF AtControl
    <2> QED BY <1>3, <1>4, <2>3, <2>6 DEF IInv, Pointers
  <1>7. CASE fr.fd /\ ~drv_CAN_fd_ena
    <2>1. data_tx = RECESSIVE
      BY <1>1, <1>2, <1>7, ControlBits DEF RECESSIVE
    <2>2. rx' = [rx EXCEPT !.state = "error", !.rec_fd = TRUE]
      BY <1>1, <1>7, <2>1 DEF RxFirstControl
    <2>3. RxShape' /\ rx'.state = "error" /\ rx'.store_data = FALSE
      BY ZenonT(40), <2>2 DEF RxShape, AtFirst
    <2> QED BY <1>3, <1>4, <2>3 DEF IInv
  <1>8. CASE ~fr.fd
    <2>0. PICK p \in {3, 4} : p = IF fr.ext THEN 4 ELSE 3
      OBVIOUS
    <2>1. data_tx # RECESSIVE
      BY <1>1, <1>2, <1>8, ControlBits DEF RECESSIVE
    <2>2. rx' = [rx EXCEPT !.control_pointer = p, !.FSM_preset = FALSE,
                           !.rec_fd = FALSE, !.rec_is_rtr = fr.rtr]
      BY <1>1, <2>0, <2>1 DEF RxFirstControl
    <2>3. FirstControlPointer - 1 = p
      BY <1>2, <1>8, <2>0
    <2>4. /\ RxShape' /\ rx'.state = "control" /\ rx'.FSM_preset = FALSE /\ rx'.control_pointer = p
          /\ rx'.rec_fd = FALSE /\ rx'.rec_is_rtr = fr.rtr /\ rx'.rec_brs = FALSE
          /\ rx'.rec_dlc = 0 /\ rx'.stores = 0 /\ rx'.store_data = FALSE
      BY ZenonT(40), <2>2 DEF RxShape, AtFirst
    <2>5. (fr.brs /\ p < 5) = FALSE /\ (fr.rtr /\ ~fr.fd) = fr.rtr /\ fr.fd = FALSE
      BY <1>8 DEF Fixed
    <2>6. tx'.control_pointer = p /\ SentAbove(p)' = 0 /\ p <= 4 /\ p \in Pointers
      BY <1>3, <1>4, <1>5, <2>3 DEF Pointers
    <2>7. AtControl(p)'
      BY ZenonT(40), <1>3, <1>4, <2>4, <2>5, <2>6 DEF AtControl
    <2> QED BY ZenonT(40), <1>3, <1>4, <2>4, <2>6, <2>7 DEF IInv
  <1> QED BY <1>6, <1>7, <1>8 DEF Fixed

\* A control bit before the last one.
LEMMA ControlStep ==
  ASSUME Fixed, TxShape, RxShape, NEW p \in Pointers, p > 0, AtControl(p), BitTime
  PROVE  IInv'
  <1> DEFINE r == [rx EXCEPT !.control_pointer = p - 1]
  <1>1. Same /\ TxControl /\ RxControl(data_tx) /\ data_tx = ctrl_tran_reg[p]
    BY DEF BitTime, AtControl, TxData, RxFirstControl, RxData, Same, data_tx
  <1>2. /\ p \in Nat /\ p - 1 \in Pointers
    BY DEF Pointers
  <1>3. /\ TxShape' /\ tx'.state = "control" /\ tx'.control_pointer = p - 1
    BY <1>1, <1>2, TxNextControl DEF AtControl
  <1>4. Fixed' /\ fr' = fr /\ \A q : SentAbove(q)' = SentAbove(q)
    BY <1>1, SameFrame
  <1>5. rx' = IF p = 6 THEN IF data_tx = RECESSIVE THEN [r EXCEPT !.state = "error"] ELSE r
              ELSE IF p = 5 THEN [r EXCEPT !.rec_brs = (data_tx = RECESSIVE)]
              ELSE IF p = 4
                THEN IF rx.rec_fd THEN [r EXCEPT !.rec_esi = (rx_data_tx = RECESSIVE)]
                     ELSE IF data_tx = RECESSIVE THEN [r EXCEPT !.state = "error"] ELSE r
              ELSE [r EXCEPT !.rec_dlc = @ + data_tx * 2^p]
    BY <1>1, <1>2 DEF RxControl, AtControl
  <1>6. ASSUME RxShape', rx'.state = "control", rx'.FSM_preset = FALSE,
               rx'.control_pointer = p - 1, rx'.rec_fd = rx.rec_fd,
               rx'.rec_is_rtr = rx.rec_is_rtr, rx'.rec_brs = (fr.brs /\ p - 1 < 5),
               rx'.rec_dlc = SentAbove(p - 1), rx'.stores = 0, rx'.store_data = FALSE
        PROVE  IInv'
    <2>1. AtControl(p - 1)'
      BY <1>2, <1>3, <1>4, <1>6 DEF AtControl
    <2> QED BY <1>2, <1>3, <1>4, <1>6, <2>1 DEF IInv
  <1>7. /\ rx.rec_fd = fr.fd /\ rx.state = "control" /\ rx.FSM_preset = FALSE /\ rx.stores = 0
        /\ rx.store_data = FALSE /\ rx.rec_brs = (fr.brs /\ p < 5) /\ rx.rec_dlc = SentAbove(p)
    BY DEF AtControl
  <1>8. CASE p = 6
    <2>1. rx' = r
      <3>1. data_tx # RECESSIVE
        BY <1>1, <1>8, ControlBits DEF AtControl, RECESSIVE, Fixed
      <3> QED BY <1>5, <1>8, <3>1
    <2>2. /\ RxShape' /\ rx'.state = "control" /\ rx'.FSM_preset = FALSE
          /\ rx'.control_pointer = p - 1 /\ rx'.rec_fd = rx.rec_fd
          /\ rx'.rec_is_rtr = rx.rec_is_rtr /\ rx'.rec_brs = rx.rec_brs
          /\ rx'.rec_dlc = rx.rec_dlc /\ rx'.stores = 0 /\ rx'.store_data = FALSE
      BY <1>7, <2>1 DEF RxShape
    <2>3. (fr.brs /\ p < 5) = FALSE /\ (fr.brs /\ p - 1 < 5) = FALSE
      BY <1>8 DEF Fixed
    <2>4. SentAbove(p) = SentAbove(p - 1)
      BY <1>8 DEF SentAbove
    <2> QED BY ZenonT(40), <1>6, <1>7, <2>2, <2>3, <2>4
  <1>9. CASE p = 5
    <2>1. fr.fd /\ data_tx = Level(fr.brs)
      BY <1>1, <1>9, ControlBits DEF AtControl, Fixed
    <2>2. rx' = [r EXCEPT !.rec_brs = (data_tx = RECESSIVE)]
      BY <1>5, <1>9
    <2>3. (data_tx = RECESSIVE) = fr.brs
      BY <2>1 DEF Level, RECESSIVE, DOMINANT, Fixed
    <2>4. /\ RxShape' /\ rx'.state = "control" /\ rx'.FSM_preset = FALSE
          /\ rx'.control_pointer = p - 1 /\ rx'.rec_fd = rx.rec_fd
          /\ rx'.rec_is_rtr = rx.rec_is_rtr /\ rx'.rec_brs = fr.brs
          /\ rx'.rec_dlc = rx.rec_dlc /\ rx'.stores = 0 /\ rx'.store_data = FALSE
      BY ZenonT(40), <1>7, <2>2, <2>3 DEF RxShape
    <2>5. (fr.brs /\ p - 1 < 5) = fr.brs
      BY <1>9 DEF Fixed
    <2>6. SentAbove(p) = SentAbove(p - 1)
      BY <1>9 DEF SentAbove
    <2> QED BY ZenonT(40), <1>6, <1>7, <2>4, <2>5, <2>6
  <1>10. CASE p = 4
    <2>1. rx' = r \/ rx' = [r EXCEPT !.rec_esi = (rx_data_tx = RECESSIVE)]
      <3>1. ~fr.fd => data_tx # RECESSIVE
        BY <1>1, <1>10, ControlBits DEF RECESSIVE
      <3> QED BY <1>5, <1>7, <1>10, <3>1
    <2>2. /\ RxShape' /\ rx'.state = "control" /\ rx'.FSM_preset = FALSE
          /\ rx'.control_pointer = p - 1 /\ rx'.rec_fd = rx.rec_fd
          /\ rx'.rec_is_rtr = rx.rec_is_rtr /\ rx'.rec_brs = rx.rec_brs
          /\ rx'.rec_dlc = rx.rec_dlc /\ rx'.stores = 0 /\ rx'.store_data = FALSE
      BY ZenonT(40), <1>7, <2>1 DEF RxShape
    <2>3. (fr.brs /\ p < 5) = (fr.brs /\ p - 1 < 5)
      BY <1>10 DEF Fixed
    <2>4. SentAbove(p) = SentAbove(p - 1)
      BY <1>10 DEF SentAbove
    <2> QED BY ZenonT(40), <1>6, <1>7, <2>2, <2>3, <2>4
  <1>11. CASE p \in {1, 2, 3}
    <2>1. rx' = [r EXCEPT !.rec_dlc = @ + data_tx * 2^p]
      BY <1>5, <1>11
    <2>2. /\ RxShape' /\ rx'.state = "control" /\ rx'.FSM_preset = FALSE
          /\ rx'.control_pointer = p - 1 /\ rx'.rec_fd = rx.rec_fd
          /\ rx'.rec_is_rtr = rx.rec_is_rtr /\ rx'.rec_brs = rx.rec_brs
          /\ rx'.rec_dlc = rx.rec_dlc + data_tx * 2^p /\ rx'.stores = 0 /\ rx'.store_data = FALSE
      BY ZenonT(40), <1>7, <2>1 DEF RxShape
    <2>3. (fr.brs /\ p < 5) = (fr.brs /\ p - 1 < 5)
      BY <1>11 DEF Fixed
    <2>4. data_tx = Bit(Sent, p) /\ Bit(Sent, 1) \in {0, 1} /\ Bit(Sent, 2) \in {0, 1}
          /\ Bit(Sent, 3) \in {0, 1}
      <3>1. Sent \in Codes
        BY DEF Sent, Codes, Fixed
      <3> QED BY <1>1, <1>11, <3>1, ControlBits, Binary
    <2>5. SentAbove(p) + data_tx * 2^p = SentAbove(p - 1)
      <3>1. CASE p = 1
        BY <2>4, <3>1 DEF SentAbove
      <3>2. CASE p = 2
        BY <2>4, <3>2 DEF SentAbove
      <3>3. CASE p = 3
        BY <2>4, <3>3 DEF SentAbove
      <3> QED BY <1>11, <3>1, <3>2, <3>3
    <2> QED BY ZenonT(40), <1>6, <1>7, <2>2, <2>3, <2>5
  <1> QED BY <1>8, <1>9, <1>10, <1>11 DEF Pointers

\* The last control bit: receiver and transmitter agree on what follows.
LEMMA LastControlStep ==
  ASSUME Fixed, TxShape, RxShape, AtControl(0), BitTime
  PROVE  IInv'
  <1> DEFINE next == AfterControl(fr.fd, fr.rtr, fr.dlc)
  <1>0. PICK r : r = [rx EXCEPT !.rec_dlc = @ + data_tx, !.store_metadata = TRUE]
    OBVIOUS
  <1>1. Same /\ TxControl /\ RxControl(data_tx) /\ data_tx = ctrl_tran_reg[0]
    BY DEF BitTime, AtControl, TxData, RxFirstControl, RxData, Same, data_tx
  <1>2. /\ TxShape' /\ tx'.state = next
        /\ next = "data" =>
             tx'.data_tx_index = 31 /\ tx'.txt_buf_ptr = 4 /\ tx'.data_pointer = 8 * N - 1
    BY <1>1, TxLastControl DEF AtControl
  <1>3. Fixed' /\ fr' = fr /\ N' = N /\ Sent' = Sent
    BY <1>1, SameFrame
  <1>4. /\ rx.rec_fd = fr.fd /\ rx.rec_is_rtr = (fr.rtr /\ ~fr.fd) /\ rx.rec_brs = (fr.brs /\ 0 < 5)
        /\ rx.rec_dlc = SentAbove(0) /\ rx.stores = 0 /\ rx.store_data = FALSE
    BY DEF AtControl
  <1>5. (fr.brs /\ 0 < 5) = fr.brs
    BY DEF Fixed
  <1>6. SentAbove(0) + data_tx = Sent
    <2>1. Sent \in Codes
      BY DEF Sent, Codes, Fixed
    <2>2. data_tx = Bit(Sent, 0)
      BY <1>1, ControlBits
    <2> QED BY <2>1, <2>2, Binary DEF SentAbove
  <1>7. rx' = RxLastControl(data_tx)
    BY <1>1 DEF RxControl, AtControl
  <1>8. /\ r.rec_fd = fr.fd /\ r.rec_is_rtr = (fr.rtr /\ ~fr.fd) /\ r.rec_dlc = Sent
        /\ r.rec_brs = fr.brs /\ r.stores = 0 /\ r.store_data = FALSE
        /\ r = [state |-> r.state, FSM_preset |-> r.FSM_preset,
                control_pointer |-> r.control_pointer, rec_fd |-> r.rec_fd,
                rec_is_rtr |-> r.rec_is_rtr, rec_brs |-> r.rec_brs, rec_esi |-> r.rec_esi,
                rec_dlc |-> r.rec_dlc, data_pointer |-> r.data_pointer,
                rec_word_ptr |-> r.rec_word_ptr, rec_word_bind |-> r.rec_word_bind,
                rec_data_sr |-> r.rec_data_sr, store_data_word |-> r.store_data_word,
                store_metadata |-> r.store_metadata, store_data |-> r.store_data,
                stores |-> r.stores]
    <2>1. /\ r.rec_fd = rx.rec_fd /\ r.rec_is_rtr = rx.rec_is_rtr
          /\ r.rec_dlc = rx.rec_dlc + data_tx
          /\ r.rec_brs = rx.rec_brs /\ r.stores = rx.stores /\ r.store_data = rx.store_data
      BY <1>0 DEF RxShape
    <2>2. r = [state |-> r.state, FSM_preset |-> r.FSM_preset,
               control_pointer |-> r.control_pointer, rec_fd |-> r.rec_fd,
               rec_is_rtr |-> r.rec_is_rtr, rec_brs |-> r.rec_brs, rec_esi |-> r.rec_esi,
               rec_dlc |-> r.rec_dlc, data_pointer |-> r.data_pointer,
               rec_word_ptr |-> r.rec_word_ptr, rec_word_bind |-> r.rec_word_bind,
               rec_data_sr |-> r.rec_data_sr, store_data_word |-> r.store_data_word,
               store_metadata |-> r.store_metadata, store_data |-> r.store_data,
               stores |-> r.stores]
      BY ZenonT(40), <1>0 DEF RxShape
    <2> QED BY ZenonT(40), <1>4, <1>5, <1>6, <2>1, <2>2
  <1>9. AfterControl(r.rec_fd, r.rec_is_rtr, r.rec_dlc) = next
    <2>1. AfterControl(fr.fd, fr.rtr /\ ~fr.fd, Sent) = next
      BY DEF AfterControl, Sent, Fixed
    <2> QED BY <1>8, <2>1
  <1>10. rx' = IF next = "data" THEN RxPreset([r EXCEPT !.state = "data"])
               ELSE [r EXCEPT !.state = "crc"]
    BY <1>0, <1>7, <1>9 DEF RxLastControl
  <1> HIDE DEF next
  <1>11. next = AfterControl(fr.fd, fr.rtr, fr.dlc) /\ next \in {"crc", "data"}
    BY ZenonT(40), DataLength DEF next
  <1>12. CASE next = "data"
    <2> DEFINE q == [r EXCEPT !.state = "data"]
    <2>1. q.rec_fd = r.rec_fd /\ q.rec_is_rtr = r.rec_is_rtr /\ q.rec_dlc = r.rec_dlc
      BY <1>8
    <2>2. ByteCount(dlc_int(q.rec_fd, q.rec_is_rtr, q.rec_dlc)) = N
      <3>1. ~(fr.rtr /\ ~fr.fd)
        BY ZenonT(40), <1>11, <1>12, DataLength
      <3>2. Sent = fr.dlc /\ (fr.rtr /\ ~fr.fd) = FALSE
        BY <3>1 DEF Sent
      <3>3. dlc_int(fr.fd, FALSE, fr.dlc) = dlc_int(fr.fd, fr.rtr, fr.dlc)
        BY <3>1 DEF dlc_int, Fixed
      <3> QED BY ZenonT(40), <1>8, <2>1, <3>2, <3>3 DEF N
    <2>3. rx' = [q EXCEPT !.rec_word_ptr = 0, !.rec_word_bind = 0, !.rec_data_sr = ZeroByte,
                          !.data_pointer = 8 * N - 1]
      BY ZenonT(40), <1>10, <1>12, <2>2 DEF RxPreset
    <2>4. rx' = [r EXCEPT !.state = "data", !.rec_word_ptr = 0, !.rec_word_bind = 0,
                          !.rec_data_sr = ZeroByte, !.data_pointer = 8 * N - 1]
      BY <2>3
    <2>5. /\ RxShape' /\ rx'.state = "data" /\ rx'.rec_fd = r.rec_fd
          /\ rx'.rec_is_rtr = r.rec_is_rtr /\ rx'.rec_brs = r.rec_brs /\ rx'.rec_dlc = r.rec_dlc
          /\ rx'.stores = r.stores /\ rx'.store_data = r.store_data
          /\ rx'.rec_word_ptr = 0 /\ rx'.rec_word_bind = 0 /\ rx'.rec_data_sr = ZeroByte
          /\ rx'.data_pointer = 8 * N - 1
      BY ZenonT(40), <1>8, <2>4 DEF RxShape
    <2>6. HeaderKnown'
      BY ZenonT(40), <1>3, <1>8, <2>5 DEF HeaderKnown
    <2>7. N \in Nat /\ N > 0
      BY ZenonT(40), <1>11, <1>12, DataLength
    <2>8. ZeroByte \in Byte
      BY DEF ZeroByte, Zero, Byte, Place
    <2>9. /\ tx'.txt_buf_ptr = 4 + 0 /\ tx'.data_tx_index = 31 - 8 * 0 - 0
          /\ rx'.data_pointer = 8 * N - 1 - 32 * 0 - 8 * 0 - 0 /\ tx'.data_pointer = rx'.data_pointer
          /\ 32 * 0 + 8 * 0 + 0 < 8 * N
      BY <1>2, <1>12, <2>5, <2>7
    <2>10. \A k \in 1..8 : ~(k > 8 - 0)
      OBVIOUS
    <2>11. StoredWordsAreSent'
      BY <1>8, <2>5 DEF StoredWordsAreSent
    <2>12. AfterControl(fr.fd, fr.rtr, fr.dlc)' = "data"
      BY ZenonT(40), <1>3, <1>11, <1>12
    <2>13. AtData(0, 0, 0)'
      <3>1. ~(0 > 0)
        OBVIOUS
      <3> QED BY ZenonT(40), <1>2, <1>3, <1>8, <1>12, <2>5, <2>6, <2>8, <2>9, <2>10, <2>11, <2>12, <3>1
              DEF AtData
    <2>14. 0 \in Nat /\ 0 \in Bytes /\ 0 \in Bits
      BY DEF Bytes, Bits
    <2> QED BY ZenonT(40), <1>2, <1>3, <2>5, <2>13, <2>14 DEF IInv
  <1>13. CASE next = "crc"
    <2>1. rx' = [r EXCEPT !.state = "crc"]
      BY <1>10, <1>13
    <2>2. /\ RxShape' /\ rx'.state = "crc" /\ rx'.rec_fd = r.rec_fd
          /\ rx'.rec_is_rtr = r.rec_is_rtr /\ rx'.rec_brs = r.rec_brs /\ rx'.rec_dlc = r.rec_dlc
          /\ rx'.stores = r.stores /\ rx'.store_data = r.store_data
      BY <1>8, <2>1 DEF RxShape
    <2>3. HeaderKnown'
      BY ZenonT(40), <1>3, <1>8, <2>2 DEF HeaderKnown
    <2>4. RWCNT(fr.fd, fr.rtr /\ ~fr.fd, Sent) = 3
      <3>1. CASE fr.rtr /\ ~fr.fd
        BY <3>1 DEF RWCNT
      <3>2. CASE ~(fr.rtr /\ ~fr.fd)
        <4>1. Sent = fr.dlc
          BY <3>2 DEF Sent
        <4>2. fr.dlc = 0
          BY <1>11, <1>13, <3>2 DEF AfterControl
        <4> QED BY <3>2, <4>1, <4>2 DEF RWCNT
      <3> QED BY <3>1, <3>2
    <2>5. rx'.stores = RWCNT(rx'.rec_fd, rx'.rec_is_rtr, rx'.rec_dlc) - 3
      <3>1. RWCNT(rx'.rec_fd, rx'.rec_is_rtr, rx'.rec_dlc) = 3
        BY ZenonT(40), <1>8, <2>2, <2>4
      <3> QED BY <1>8, <2>2, <3>1
    <2>6. StoredWordsAreSent'
      BY <1>8, <2>2 DEF StoredWordsAreSent
    <2>7. AtCrc'
      BY ZenonT(40), <1>2, <1>13, <2>2, <2>3, <2>5, <2>6 DEF AtCrc
    <2> QED BY <1>2, <1>3, <2>2, <2>7 DEF IInv
  <1> QED BY <1>11, <1>12, <1>13

-----------------------------------------------------------------------------
(* The data field.                                                         *)

LEMMA TxDataFields ==
  ASSUME TxShape, TxData
  PROVE  /\ TxShape'
         /\ tx'.txt_buf_ptr = (IF tx.data_tx_index = 0 /\ tx.txt_buf_ptr < 19
                               THEN tx.txt_buf_ptr + 1 ELSE tx.txt_buf_ptr)
         /\ tx'.data_tx_index = (IF tx.data_tx_index = 0 THEN 31 ELSE tx.data_tx_index - 1)
         /\ tx'.data_pointer = (IF tx.data_pointer > 0 THEN tx.data_pointer - 1 ELSE tx.data_pointer)
         /\ tx'.state = (IF tx.data_pointer > 0 THEN "data" ELSE "crc")
  <1>1. tx' = [tx EXCEPT
                 !.txt_buf_ptr = IF tx.data_tx_index = 0 /\ tx.txt_buf_ptr < 19
                                 THEN tx.txt_buf_ptr + 1 ELSE tx.txt_buf_ptr,
                 !.data_tx_index = IF tx.data_tx_index = 0 THEN 31 ELSE tx.data_tx_index - 1,
                 !.data_pointer = IF tx.data_pointer > 0 THEN tx.data_pointer - 1 ELSE tx.data_pointer,
                 !.state = IF tx.data_pointer > 0 THEN "data" ELSE "crc"]
    BY DEF TxData
  <1> QED BY ZenonT(40), <1>1 DEF TxShape

LEMMA RxDataFields ==
  ASSUME RxShape, NEW bit, RxData(bit)
  PROVE  LET byte == Append(SubSeq(rx.rec_data_sr, 2, 8), bit)
             whole == rx.rec_word_ptr = 7
             last == rx.data_pointer = 0
         IN  /\ RxShape'
             /\ rx'.rec_fd = rx.rec_fd /\ rx'.rec_is_rtr = rx.rec_is_rtr
             /\ rx'.rec_brs = rx.rec_brs /\ rx'.rec_dlc = rx.rec_dlc
             /\ rx'.rec_data_sr = byte
             /\ rx'.rec_word_ptr = (rx.rec_word_ptr + 1) % 8
             /\ rx'.rec_word_bind = (IF whole THEN (rx.rec_word_bind + 1) % 4 ELSE rx.rec_word_bind)
             /\ rx'.store_data_word = (IF whole THEN StoreByte(rx.store_data_word, rx.rec_word_bind, byte)
                                       ELSE rx.store_data_word)
             /\ rx'.store_data = StoreData(last)
             /\ rx'.stores = (IF StoreData(last) THEN rx.stores + 1 ELSE rx.stores)
             /\ rx'.data_pointer = (IF last THEN rx.data_pointer ELSE rx.data_pointer - 1)
             /\ rx'.state = (IF last THEN "crc" ELSE "data")
  <1> DEFINE byte == Append(SubSeq(rx.rec_data_sr, 2, 8), bit)
             whole == rx.rec_word_ptr = 7
             last == rx.data_pointer = 0
             ptr == (rx.rec_word_ptr + 1) % 8
             bind == IF whole THEN (rx.rec_word_bind + 1) % 4 ELSE rx.rec_word_bind
             word == IF whole THEN StoreByte(rx.store_data_word, rx.rec_word_bind, byte)
                     ELSE rx.store_data_word
             store == StoreData(last)
             stores == IF store THEN rx.stores + 1 ELSE rx.stores
             dp == IF last THEN rx.data_pointer ELSE rx.data_pointer - 1
             state == IF last THEN "crc" ELSE "data"
  <1>1. rx' = [rx EXCEPT !.store_metadata = FALSE, !.rec_data_sr = byte, !.rec_word_ptr = ptr,
                         !.rec_word_bind = bind, !.store_data_word = word, !.store_data = store,
                         !.stores = stores, !.data_pointer = dp, !.state = state]
    BY DEF RxData
  <1> HIDE DEF byte, ptr, bind, word, store, stores, dp, state
  <1>2. /\ RxShape'
        /\ rx'.rec_fd = rx.rec_fd /\ rx'.rec_is_rtr = rx.rec_is_rtr
        /\ rx'.rec_brs = rx.rec_brs /\ rx'.rec_dlc = rx.rec_dlc
        /\ rx'.rec_data_sr = byte /\ rx'.rec_word_ptr = ptr /\ rx'.rec_word_bind = bind
        /\ rx'.store_data_word = word /\ rx'.store_data = store /\ rx'.stores = stores
        /\ rx'.data_pointer = dp /\ rx'.state = state
    BY ZenonT(40), <1>1 DEF RxShape
  <1> QED BY ZenonT(40), <1>2 DEF byte, ptr, bind, word, store, stores, dp, state

\* A byte joins the word that is put together.
LEMMA ByteStored ==
  ASSUME NEW w \in Nat, NEW b \in Bytes, NEW word,
         b > 0 => word = [x \in 0..3 |-> IF x < b THEN ByteOf(4 * w + x) ELSE ZeroByte]
  PROVE  StoreByte(word, b, ByteOf(4 * w + b)) =
           [x \in 0..3 |-> IF x <= b THEN ByteOf(4 * w + x) ELSE ZeroByte]
  <1>1. CASE b = 0
    <2>1. StoreByte(word, b, ByteOf(4 * w + b)) =
            [x \in 0..3 |-> IF x = 0 THEN ByteOf(4 * w + 0) ELSE ZeroByte]
      BY <1>1 DEF StoreByte, ZeroWord
    <2>2. \A x \in 0..3 : x = 0 <=> x <= b
      BY <1>1
    <2> QED BY <1>1, <2>1, <2>2
  <1>2. CASE b > 0
    <2>1. StoreByte(word, b, ByteOf(4 * w + b)) = [word EXCEPT ![b] = ByteOf(4 * w + b)]
      BY <1>2 DEF StoreByte
    <2>2. \A x \in 0..3 : (x < b \/ x = b) <=> x <= b
      BY DEF Bytes
    <2> QED BY ZenonT(40), <1>2, <2>1, <2>2
  <1> QED BY <1>1, <1>2 DEF Bytes

\* The word that is complete, or ends with the data field, is the one sent.
LEMMA WordStored ==
  ASSUME NEW w \in Nat, NEW b \in Bytes, \A x \in 0..3 : 4 * w + x < N <=> x <= b
  PROVE  DataWord(w) = [x \in 0..3 |-> IF x <= b THEN ByteOf(4 * w + x) ELSE ZeroByte]
  <1>1. DataWord(w) = [x \in 0..3 |-> IF 4 * w + x < N THEN ByteOf(4 * w + x) ELSE ZeroByte]
    BY ZenonT(40) DEF DataWord, N, ByteOf
  <1> QED BY <1>1

\* The bit on the bus is the next one of the frame, and enters the byte.
LEMMA DataBit ==
  ASSUME Fixed, NEW w \in Nat, NEW b \in Bytes, NEW p \in Bits, AtData(w, b, p), BitTime
  PROVE  LET byte == Append(SubSeq(rx.rec_data_sr, 2, 8), data_tx)
         IN  /\ Same /\ TxData /\ RxData(data_tx)
             /\ byte \in Byte
             /\ \A k \in 1..8 : k > 7 - p => byte[k] = <<4 * w + b, 15 - p - k>>
             /\ p = 7 => byte = ByteOf(4 * w + b)
  <1> DEFINE byte == Append(SubSeq(rx.rec_data_sr, 2, 8), data_tx)
  <1>1. Same /\ TxData /\ RxData(data_tx)
    BY DEF BitTime, AtData, TxControl, RxFirstControl, RxControl, Same
  <1>2. data_tx = <<4 * w + b, 7 - p>>
    <2>1. tx.state = "data" /\ tx.data_tx_index = 31 - 8 * b - p /\ tx.txt_buf_ptr - 4 = w
      BY DEF AtData
    <2>2. 3 - (31 - 8 * b - p) \div 8 = b /\ (31 - 8 * b - p) % 8 = 7 - p
      BY DEF Bytes, Bits
    <2>3. tx_data_word(tx.data_tx_index) = <<b, 7 - p>>
      BY <2>1, <2>2 DEF tx_data_word
    <2>4. data_tx = <<4 * (tx.txt_buf_ptr - 4) + tx_data_word(tx.data_tx_index)[1],
                      tx_data_word(tx.data_tx_index)[2]>>
      BY <2>1 DEF data_tx
    <2> QED BY <2>1, <2>3, <2>4
  <1>3. data_tx \in Place
    BY <1>2 DEF Place, Bytes, Bits
  <1>4. byte \in Byte /\ byte[8] = data_tx /\ \A k \in 1..7 : byte[k] = rx.rec_data_sr[k + 1]
    BY <1>3, Shifted DEF AtData
  <1> HIDE DEF byte
  <1>5. ASSUME NEW k \in 1..8, k > 7 - p
        PROVE  byte[k] = <<4 * w + b, 15 - p - k>>
    <2>1. CASE k = 8
      BY <1>2, <1>4, <2>1 DEF Bits
    <2>2. CASE k < 8
      <3>1. k \in 1..7 /\ k + 1 \in 1..8 /\ k + 1 > 8 - p /\ 16 - p - (k + 1) = 15 - p - k
        BY <1>5, <2>2 DEF Bits
      <3>2. rx.rec_data_sr[k + 1] = <<4 * w + b, 16 - p - (k + 1)>>
        BY <3>1 DEF AtData
      <3> QED BY <1>4, <3>1, <3>2
    <2> QED BY <2>1, <2>2
  <1>6. p = 7 => byte = ByteOf(4 * w + b)
    <2> SUFFICES ASSUME p = 7 PROVE byte = ByteOf(4 * w + b)
      OBVIOUS
    <2>1. \A k \in 1..8 : byte[k] = <<4 * w + b, 8 - k>>
      BY <1>5
    <2>2. byte = [k \in 1..8 |-> byte[k]]
      BY <1>4 DEF Byte
    <2> QED BY <2>1, <2>2 DEF ByteOf
  <1> QED BY <1>1, <1>4, <1>5, <1>6 DEF byte

\* What a bit of the data field changes, bit by bit.
LEMMA DataFields ==
  ASSUME Fixed, TxShape, RxShape, NEW w \in Nat, NEW b \in Bytes, NEW p \in Bits,
         AtData(w, b, p), BitTime
  PROVE  /\ TxShape' /\ RxShape' /\ Fixed' /\ fr' = fr /\ N' = N /\ N \in Nat /\ N <= 64
         /\ HeaderKnown' /\ AfterControl(fr.fd, fr.rtr, fr.dlc)' = "data"
         /\ rx'.rec_data_sr \in Byte
         /\ \A k \in 1..8 : k > 7 - p => rx'.rec_data_sr[k] = <<4 * w + b, 15 - p - k>>
         /\ \A n : DataWord(n)' = DataWord(n)
  <1>1. /\ Same /\ TxData /\ RxData(data_tx)
        /\ Append(SubSeq(rx.rec_data_sr, 2, 8), data_tx) \in Byte
        /\ \A k \in 1..8 : k > 7 - p =>
             Append(SubSeq(rx.rec_data_sr, 2, 8), data_tx)[k] = <<4 * w + b, 15 - p - k>>
    BY ZenonT(40), DataBit
  <1>2. /\ TxShape'
    BY <1>1, TxDataFields
  <1>3. /\ RxShape' /\ rx'.rec_fd = rx.rec_fd /\ rx'.rec_is_rtr = rx.rec_is_rtr
        /\ rx'.rec_brs = rx.rec_brs /\ rx'.rec_dlc = rx.rec_dlc
        /\ rx'.rec_data_sr = Append(SubSeq(rx.rec_data_sr, 2, 8), data_tx)
    BY ZenonT(40), <1>1, RxDataFields
  <1>4. Fixed' /\ fr' = fr /\ N' = N /\ Sent' = Sent /\ \A n : DataWord(n)' = DataWord(n)
    BY <1>1, SameFrame
  <1>5. N \in Nat /\ N <= 64
    BY ZenonT(40), DataLength
  <1>6. HeaderKnown'
    BY ZenonT(40), <1>3, <1>4 DEF HeaderKnown, AtData
  <1>7. AfterControl(fr.fd, fr.rtr, fr.dlc)' = "data"
    BY ZenonT(40), <1>4 DEF AtData
  <1> QED BY ZenonT(40), <1>1, <1>2, <1>3, <1>4, <1>5, <1>6, <1>7

\* A bit that does not complete a byte.
LEMMA BitStep ==
  ASSUME Fixed, TxShape, RxShape, NEW w \in Nat, NEW b \in Bytes, NEW p \in Bits,
         AtData(w, b, p), BitTime, p < 7
  PROVE  IInv'
  <1>1. TxData /\ RxData(data_tx)
    BY ZenonT(40), DataBit
  <1>2. /\ TxShape' /\ RxShape' /\ Fixed' /\ fr' = fr /\ N' = N /\ N \in Nat /\ N <= 64
        /\ HeaderKnown' /\ AfterControl(fr.fd, fr.rtr, fr.dlc)' = "data"
        /\ rx'.rec_data_sr \in Byte
        /\ \A k \in 1..8 : k > 7 - p => rx'.rec_data_sr[k] = <<4 * w + b, 15 - p - k>>
    BY ZenonT(40), DataFields
  <1>3. p \in Nat /\ b \in Nat /\ b <= 3 /\ p + 1 \in Bits /\ (p + 1) % 8 = p + 1 /\ p # 7
    BY DEF Bits, Bytes
  <1>4. /\ tx.txt_buf_ptr = 4 + w /\ rx.stores = w /\ rx.rec_word_bind = b /\ rx.rec_word_ptr = p
        /\ tx.data_tx_index = 31 - 8 * b - p
        /\ rx.data_pointer = 8 * N - 1 - 32 * w - 8 * b - p /\ tx.data_pointer = rx.data_pointer
        /\ 32 * w + 8 * b + p < 8 * N
        /\ b > 0 => rx.store_data_word = [x \in 0..3 |-> IF x < b THEN ByteOf(4 * w + x) ELSE ZeroByte]
    BY DEF AtData
  <1>5. rx.data_pointer > 0 /\ rx.data_pointer # 0 /\ tx.data_tx_index # 0
    BY <1>2, <1>3, <1>4
  <1>6. /\ tx'.txt_buf_ptr = 4 + w /\ tx'.data_tx_index = 31 - 8 * b - (p + 1)
        /\ tx'.data_pointer = rx.data_pointer - 1 /\ tx'.state = "data"
    BY <1>1, <1>2, <1>3, <1>4, <1>5, TxDataFields
  <1>7. StoreData(rx.data_pointer = 0) \in BOOLEAN /\ ~StoreData(rx.data_pointer = 0)
    BY <1>3, <1>4, <1>5 DEF StoreData
  <1>8. /\ rx'.rec_word_ptr = p + 1 /\ rx'.rec_word_bind = b
        /\ rx'.store_data_word = rx.store_data_word
        /\ ~rx'.store_data /\ rx'.stores = w
        /\ rx'.data_pointer = rx.data_pointer - 1 /\ rx'.state = "data"
    BY ZenonT(40), <1>1, <1>3, <1>4, <1>5, <1>7, RxDataFields
  <1>9. /\ rx'.data_pointer = 8 * N - 1 - 32 * w - 8 * b - (p + 1) /\ tx'.data_pointer = rx'.data_pointer
        /\ 32 * w + 8 * b + (p + 1) < 8 * N
    BY <1>2, <1>3, <1>4, <1>5, <1>6, <1>8
  <1>10. \A k \in 1..8 : k > 8 - (p + 1) => rx'.rec_data_sr[k] = <<4 * w + b, 16 - (p + 1) - k>>
    <2>1. 8 - (p + 1) = 7 - p /\ 16 - (p + 1) = 15 - p
      BY <1>3
    <2> QED BY ZenonT(40), <1>2, <2>1
  <1>11. StoredWordsAreSent'
    BY ZenonT(40), <1>8 DEF StoredWordsAreSent
  <1>12. b > 0 => rx'.store_data_word = [x \in 0..3 |-> IF x < b THEN ByteOf(4 * w + x) ELSE ZeroByte]
    BY ZenonT(40), <1>4, <1>8
  <1>13. AtData(w, b, p + 1)'
    BY ZenonT(40), <1>2, <1>6, <1>8, <1>9, <1>10, <1>11, <1>12 DEF AtData
  <1> QED BY ZenonT(40), <1>2, <1>3, <1>13 DEF IInv

\* The word after the last bit of byte b.
LEMMA StoredWord ==
  ASSUME Fixed, RxShape, NEW w \in Nat, NEW b \in Bytes, AtData(w, b, 7), BitTime
  PROVE  rx'.store_data_word = [x \in 0..3 |-> IF x <= b THEN ByteOf(4 * w + x) ELSE ZeroByte]
  <1>1. 7 \in Bits
    BY DEF Bits
  <1>2. /\ RxData(data_tx)
        /\ Append(SubSeq(rx.rec_data_sr, 2, 8), data_tx) = ByteOf(4 * w + b)
    BY ZenonT(40), <1>1, DataBit
  <1>3. /\ rx.rec_word_ptr = 7 /\ rx.rec_word_bind = b
        /\ b > 0 => rx.store_data_word = [x \in 0..3 |-> IF x < b THEN ByteOf(4 * w + x) ELSE ZeroByte]
    BY ZenonT(40) DEF AtData
  <1>4. rx'.store_data_word = StoreByte(rx.store_data_word, b, ByteOf(4 * w + b))
    BY ZenonT(120), <1>2, <1>3, RxDataFields
  <1> QED BY ZenonT(120), <1>3, <1>4, ByteStored

\* The last bit of a byte that does not complete a word.
LEMMA ByteStep ==
  ASSUME Fixed, TxShape, RxShape, NEW w \in Nat, NEW b \in Bytes, AtData(w, b, 7), BitTime,
         b < 3, rx.data_pointer > 0
  PROVE  IInv'
  <1>0. 7 \in Bits
    BY DEF Bits
  <1>1. TxData /\ RxData(data_tx)
    BY ZenonT(40), <1>0, DataBit
  <1>2. /\ TxShape' /\ RxShape' /\ Fixed' /\ fr' = fr /\ N' = N /\ N \in Nat /\ N <= 64
        /\ HeaderKnown' /\ AfterControl(fr.fd, fr.rtr, fr.dlc)' = "data"
        /\ rx'.rec_data_sr \in Byte
    BY ZenonT(40), <1>0, DataFields
  <1>3. /\ b \in Nat /\ b + 1 \in Bytes /\ (b + 1) % 4 = b + 1 /\ b # 3 /\ 0 \in Bits /\ (7 + 1) % 8 = 0
    BY DEF Bits, Bytes
  <1>4. /\ tx.txt_buf_ptr = 4 + w /\ rx.stores = w /\ rx.rec_word_bind = b /\ rx.rec_word_ptr = 7
        /\ tx.data_tx_index = 31 - 8 * b - 7
        /\ rx.data_pointer = 8 * N - 1 - 32 * w - 8 * b - 7 /\ tx.data_pointer = rx.data_pointer
    BY DEF AtData
  <1>5. rx.data_pointer # 0 /\ tx.data_tx_index # 0
    BY <1>2, <1>3, <1>4
  <1>6. /\ tx'.txt_buf_ptr = 4 + w /\ tx'.data_tx_index = 31 - 8 * (b + 1) - 0
        /\ tx'.data_pointer = rx.data_pointer - 1 /\ tx'.state = "data"
    BY <1>1, <1>2, <1>3, <1>4, <1>5, TxDataFields
  <1>7. ~StoreData(rx.data_pointer = 0)
    BY <1>3, <1>4, <1>5 DEF StoreData
  <1>8. /\ rx'.rec_word_ptr = 0 /\ rx'.rec_word_bind = b + 1
        /\ ~rx'.store_data /\ rx'.stores = w
        /\ rx'.data_pointer = rx.data_pointer - 1 /\ rx'.state = "data"
    BY ZenonT(40), <1>1, <1>3, <1>4, <1>5, <1>7, RxDataFields
  <1>9. /\ rx'.data_pointer = 8 * N - 1 - 32 * w - 8 * (b + 1) - 0 /\ tx'.data_pointer = rx'.data_pointer
        /\ 32 * w + 8 * (b + 1) + 0 < 8 * N
    BY <1>2, <1>3, <1>4, <1>5, <1>6, <1>8
  <1>10. \A k \in 1..8 : ~(k > 8 - 0)
    OBVIOUS
  <1>11. StoredWordsAreSent'
    BY ZenonT(40), <1>8 DEF StoredWordsAreSent
  <1>12. rx'.store_data_word = [x \in 0..3 |-> IF x < b + 1 THEN ByteOf(4 * w + x) ELSE ZeroByte]
    <2>1. \A x \in 0..3 : x <= b <=> x < b + 1
      BY <1>3
    <2>2. rx'.store_data_word = [x \in 0..3 |-> IF x <= b THEN ByteOf(4 * w + x) ELSE ZeroByte]
      BY StoredWord
    <2> QED BY <2>1, <2>2
  <1>13. AtData(w, b + 1, 0)'
    BY ZenonT(40), <1>2, <1>6, <1>8, <1>9, <1>10, <1>11, <1>12 DEF AtData
  <1> QED BY ZenonT(40), <1>2, <1>3, <1>13 DEF IInv

\* The last bit of a word that is not the last one: the word is stored.
LEMMA WordStep ==
  ASSUME Fixed, TxShape, RxShape, NEW w \in Nat, AtData(w, 3, 7), BitTime, rx.data_pointer > 0
  PROVE  IInv'
  <1>0. 7 \in Bits /\ 3 \in Bytes
    BY DEF Bits, Bytes
  <1>1. TxData /\ RxData(data_tx)
    BY ZenonT(40), <1>0, DataBit
  <1>2. /\ TxShape' /\ RxShape' /\ Fixed' /\ fr' = fr /\ N' = N /\ N \in Nat /\ N <= 64
        /\ HeaderKnown' /\ AfterControl(fr.fd, fr.rtr, fr.dlc)' = "data"
        /\ rx'.rec_data_sr \in Byte /\ \A n : DataWord(n)' = DataWord(n)
    BY ZenonT(40), <1>0, DataFields
  <1>3. /\ 0 \in Bytes /\ 0 \in Bits /\ (7 + 1) % 8 = 0 /\ (3 + 1) % 4 = 0 /\ w + 1 \in Nat
        /\ (w + 1) - 1 = w
    BY DEF Bits, Bytes
  <1>4. /\ tx.txt_buf_ptr = 4 + w /\ rx.stores = w /\ rx.rec_word_bind = 3 /\ rx.rec_word_ptr = 7
        /\ tx.data_tx_index = 31 - 8 * 3 - 7
        /\ rx.data_pointer = 8 * N - 1 - 32 * w - 8 * 3 - 7 /\ tx.data_pointer = rx.data_pointer
    BY DEF AtData
  <1>5. rx.data_pointer # 0 /\ tx.data_tx_index = 0 /\ tx.txt_buf_ptr < 19
    BY <1>2, <1>4
  <1>6. /\ tx'.txt_buf_ptr = 4 + (w + 1) /\ tx'.data_tx_index = 31 - 8 * 0 - 0
        /\ tx'.data_pointer = rx.data_pointer - 1 /\ tx'.state = "data"
    BY <1>1, <1>2, <1>4, <1>5, TxDataFields
  <1>7. StoreData(rx.data_pointer = 0)
    BY <1>4 DEF StoreData
  <1>8. /\ rx'.rec_word_ptr = 0 /\ rx'.rec_word_bind = 0 /\ rx'.stores = w + 1
        /\ rx'.data_pointer = rx.data_pointer - 1 /\ rx'.state = "data"
    <2>1. /\ rx'.rec_word_ptr = (rx.rec_word_ptr + 1) % 8
          /\ rx'.rec_word_bind =
               (IF rx.rec_word_ptr = 7 THEN (rx.rec_word_bind + 1) % 4 ELSE rx.rec_word_bind)
      BY ZenonT(40), <1>1, RxDataFields
    <2>2. rx'.stores = (IF StoreData(rx.data_pointer = 0) THEN rx.stores + 1 ELSE rx.stores)
      BY ZenonT(40), <1>1, RxDataFields
    <2>3. /\ rx'.data_pointer =
               (IF rx.data_pointer = 0 THEN rx.data_pointer ELSE rx.data_pointer - 1)
          /\ rx'.state = (IF rx.data_pointer = 0 THEN "crc" ELSE "data")
      BY ZenonT(40), <1>1, RxDataFields
    <2>4. rx'.stores = w + 1
      BY ZenonT(40), <1>4, <1>7, <2>2
    <2> QED BY <1>3, <1>4, <1>5, <2>1, <2>3, <2>4
  <1>9. /\ rx'.data_pointer = 8 * N - 1 - 32 * (w + 1) - 8 * 0 - 0 /\ tx'.data_pointer = rx'.data_pointer
        /\ 32 * (w + 1) + 8 * 0 + 0 < 8 * N
    BY <1>2, <1>4, <1>5, <1>6, <1>8
  <1>10. \A k \in 1..8 : ~(k > 8 - 0)
    OBVIOUS
  <1>11. StoredWordsAreSent'
    <2>1. \A x \in 0..3 : 4 * w + x < N <=> x <= 3
      BY <1>2, <1>4, <1>5
    <2>2. rx'.store_data_word = DataWord(w)
      <3>1. rx'.store_data_word = [x \in 0..3 |-> IF x <= 3 THEN ByteOf(4 * w + x) ELSE ZeroByte]
        BY ZenonT(40), <1>0, StoredWord
      <3>2. DataWord(w) = [x \in 0..3 |-> IF x <= 3 THEN ByteOf(4 * w + x) ELSE ZeroByte]
        BY ZenonT(40), <1>0, <2>1, WordStored
      <3> QED BY ZenonT(40), <3>1, <3>2
    <2>3. rx'.stores - 1 = w
      BY <1>3, <1>8
    <2> QED BY ZenonT(40), <1>2, <2>2, <2>3 DEF StoredWordsAreSent
  <1>12. ~(0 > 0)
    OBVIOUS
  <1>13. AtData(w + 1, 0, 0)'
    BY ZenonT(40), <1>2, <1>6, <1>8, <1>9, <1>10, <1>11, <1>12 DEF AtData
  <1> QED BY ZenonT(40), <1>2, <1>3, <1>13 DEF IInv

\* The last bit of the data field: the last word is stored, complete or not.
LEMMA LastDataStep ==
  ASSUME Fixed, TxShape, RxShape, NEW w \in Nat, NEW b \in Bytes, AtData(w, b, 7), BitTime,
         rx.data_pointer = 0
  PROVE  IInv'
  <1>0. 7 \in Bits
    BY DEF Bits
  <1>1. TxData /\ RxData(data_tx)
    BY ZenonT(40), <1>0, DataBit
  <1>2. /\ TxShape' /\ RxShape' /\ Fixed' /\ fr' = fr /\ N' = N /\ N \in Nat /\ N <= 64
        /\ HeaderKnown' /\ \A n : DataWord(n)' = DataWord(n)
    BY ZenonT(40), <1>0, DataFields
  <1>3. b \in Nat /\ b <= 3
    BY DEF Bytes
  <1>4. /\ rx.stores = w /\ rx.rec_word_bind = b /\ rx.rec_word_ptr = 7
        /\ rx.data_pointer = 8 * N - 1 - 32 * w - 8 * b - 7 /\ tx.data_pointer = rx.data_pointer
        /\ HeaderKnown /\ AfterControl(fr.fd, fr.rtr, fr.dlc) = "data"
    BY DEF AtData
  <1>5. N = 4 * w + b + 1
    BY <1>2, <1>3, <1>4
  <1>6. tx'.state = "crc"
    BY <1>1, <1>4, TxDataFields
  <1>7. StoreData(rx.data_pointer = 0)
    BY <1>4 DEF StoreData
  <1>8. rx'.stores = w + 1 /\ rx'.state = "crc"
    BY ZenonT(40), <1>1, <1>4, <1>7, RxDataFields
  <1>9. StoredWordsAreSent'
    <2>1. \A x \in 0..3 : 4 * w + x < N <=> x <= b
      BY <1>3, <1>5
    <2>2. rx'.store_data_word = DataWord(w)
      <3>1. rx'.store_data_word = [x \in 0..3 |-> IF x <= b THEN ByteOf(4 * w + x) ELSE ZeroByte]
        BY ZenonT(40), StoredWord
      <3>2. DataWord(w) = [x \in 0..3 |-> IF x <= b THEN ByteOf(4 * w + x) ELSE ZeroByte]
        BY ZenonT(40), <2>1, WordStored
      <3> QED BY ZenonT(40), <3>1, <3>2
    <2>3. rx'.stores - 1 = w
      BY <1>8
    <2> QED BY ZenonT(40), <1>2, <2>2, <2>3 DEF StoredWordsAreSent
  <1>10. rx'.stores = RWCNT(rx'.rec_fd, rx'.rec_is_rtr, rx'.rec_dlc) - 3
    <2>1. ~(fr.rtr /\ ~fr.fd) /\ RWCNT(fr.fd, FALSE, fr.dlc) = 3 + w + 1
      <3>1. fr.fd \in BOOLEAN /\ fr.rtr \in BOOLEAN /\ fr.dlc \in Codes
        BY DEF Fixed
      <3>2. ByteCount(dlc_int(fr.fd, fr.rtr, fr.dlc)) = 4 * w + b + 1
        BY <1>5 DEF N
      <3>3. AfterControl(fr.fd, fr.rtr, fr.dlc) = "data"
        BY <1>4
      <3> QED BY ZenonT(120), <3>1, <3>2, <3>3, LastWord
    <2>2. Sent = fr.dlc /\ (fr.rtr /\ ~fr.fd) = FALSE
      BY <2>1 DEF Sent
    <2>3. rx'.rec_fd = fr.fd /\ rx'.rec_is_rtr = FALSE /\ rx'.rec_dlc = fr.dlc
      <3>1. rx'.rec_fd = rx.rec_fd /\ rx'.rec_is_rtr = rx.rec_is_rtr /\ rx'.rec_dlc = rx.rec_dlc
        BY ZenonT(40), <1>1, RxDataFields
      <3> QED BY ZenonT(40), <1>4, <2>2, <3>1 DEF HeaderKnown
    <2>4. RWCNT(rx'.rec_fd, rx'.rec_is_rtr, rx'.rec_dlc) = 3 + w + 1
      BY ZenonT(40), <2>1, <2>3
    <2> QED BY <1>8, <2>4
  <1>11. AtCrc'
    BY ZenonT(40), <1>2, <1>6, <1>8, <1>9, <1>10 DEF AtCrc
  <1> QED BY ZenonT(40), <1>2, <1>11 DEF IInv

LEMMA DataStep ==
  ASSUME Fixed, TxShape, RxShape, NEW w \in Nat, NEW b \in Bytes, NEW p \in Bits,
         AtData(w, b, p), BitTime
  PROVE  IInv'
  <1>1. p < 7 \/ p = 7
    BY DEF Bits
  <1>2. rx.data_pointer > 0 \/ rx.data_pointer = 0
    <2>1. N \in Nat
      BY ZenonT(40), DataLength
    <2>2. b \in Nat /\ p \in Nat
      BY DEF Bytes, Bits
    <2> QED BY <2>1, <2>2 DEF AtData
  <1>3. b < 3 \/ b = 3
    BY DEF Bytes
  <1> QED BY ZenonT(40), <1>1, <1>2, <1>3, BitStep, ByteStep, WordStep, LastDataStep

-----------------------------------------------------------------------------
(* Both fields.                                                            *)

LEMMA NextIInv == IInv /\ [Next]_vars => IInv'
  <1> SUFFICES ASSUME IInv, [Next]_vars PROVE IInv'
    OBVIOUS
  <1>1. CASE BitTime
    <2>1. Fixed /\ TxShape /\ RxShape
      BY DEF IInv
    <2>2. CASE AtFirst
      BY <1>1, <2>1, <2>2, FirstStep
    <2>3. ASSUME NEW p \in Pointers, AtControl(p) PROVE IInv'
      <3>1. p = 0 \/ p > 0
        BY DEF Pointers
      <3> QED BY <1>1, <2>1, <2>3, <3>1, ControlStep, LastControlStep
    <2>4. ASSUME NEW w \in Nat, NEW b \in Bytes, NEW p \in Bits, AtData(w, b, p) PROVE IInv'
      BY ZenonT(40), <1>1, <2>1, <2>4, DataStep
    <2>5. rx.state # "crc" /\ rx.state # "error"
      BY <1>1 DEF BitTime, RxFirstControl, RxControl, RxData
    <2> QED BY ZenonT(40), <2>2, <2>3, <2>4, <2>5 DEF IInv, AtCrc
  <1>2. CASE UNCHANGED vars
    <2>1. /\ fr' = fr /\ error_active' = error_active /\ drv_rtr_pref' = drv_rtr_pref
          /\ drv_CAN_fd_ena' = drv_CAN_fd_ena /\ tx' = tx /\ rx' = rx
      BY <1>2 DEF vars
    <2>2. Same
      BY <2>1 DEF Same
    <2>3. Fixed' /\ TxShape' /\ RxShape'
      BY <2>1 DEF IInv, Fixed, TxShape, RxShape
    <2>4. /\ Sent' = Sent /\ N' = N /\ FirstControlPointer' = FirstControlPointer
          /\ (\A p : SentAbove(p)' = SentAbove(p)) /\ (\A n : DataWord(n)' = DataWord(n))
      BY <2>2, SameFrame
    <2>5. StoredWordsAreSent' = StoredWordsAreSent
      BY ZenonT(40), <2>1, <2>4 DEF StoredWordsAreSent
    <2>6. AtFirst => AtFirst'
      BY ZenonT(40), <2>1, <2>4 DEF AtFirst
    <2>7. \A p : AtControl(p) => AtControl(p)'
      BY ZenonT(40), <2>1, <2>4 DEF AtControl
    <2>8. HeaderKnown' = HeaderKnown
      BY ZenonT(40), <2>1, <2>4 DEF HeaderKnown
    <2>9. ASSUME NEW w \in Nat, NEW b \in Bytes, NEW p \in Bits, AtData(w, b, p)
          PROVE  AtData(w, b, p)'
      <3>1. /\ rx'.state = "data" /\ tx'.state = "data"
            /\ HeaderKnown' /\ AfterControl(fr.fd, fr.rtr, fr.dlc)' = "data"
            /\ tx'.txt_buf_ptr = 4 + w /\ rx'.stores = w
            /\ rx'.rec_word_bind = b /\ rx'.rec_word_ptr = p
        BY ZenonT(40), <2>1, <2>8, <2>9 DEF AtData
      <3>2. /\ tx'.data_tx_index = 31 - 8 * b - p
            /\ rx'.data_pointer = 8 * N' - 1 - 32 * w - 8 * b - p
            /\ tx'.data_pointer = rx'.data_pointer
            /\ 32 * w + 8 * b + p < 8 * N'
        BY ZenonT(40), <2>1, <2>4, <2>9 DEF AtData
      <3>3. /\ rx'.rec_data_sr \in Byte
            /\ \A k \in 1..8 : k > 8 - p => rx'.rec_data_sr[k] = <<4 * w + b, 16 - p - k>>
            /\ b > 0 => rx'.store_data_word =
                          [x \in 0..3 |-> IF x < b THEN ByteOf(4 * w + x) ELSE ZeroByte]
        BY ZenonT(40), <2>1, <2>9 DEF AtData
      <3>4. StoredWordsAreSent'
        BY ZenonT(40), <2>5, <2>9 DEF AtData
      <3> QED BY ZenonT(40), <3>1, <3>2, <3>3, <3>4 DEF AtData
    <2>10. AtCrc => AtCrc'
      BY ZenonT(40), <2>1, <2>5, <2>8 DEF AtCrc
    <2> QED BY ZenonT(40), <2>1, <2>3, <2>6, <2>7, <2>9, <2>10 DEF IInv
  <1> QED BY <1>1, <1>2 DEF Next, Done

LEMMA DataFieldInvariant == Spec => []IInv
  BY InitIInv, NextIInv, PTL DEF Spec

\* Transmitter and receiver leave control and data field after the same bit,
\* whatever frame is sent: the pointers of protocol_control.vhd count alike.
THEOREM DataFieldInStep == Spec => []NodesInStep
  <1>1. IInv => NodesInStep
    BY ZenonT(40) DEF IInv, AtFirst, AtControl, AtData, AtCrc, NodesInStep
  <1> QED BY <1>1, DataFieldInvariant, PTL

\* Frame type, remote request, bit rate switch and length code that protocol
\* control of the receiver has taken from the bits are those of the frame.
THEOREM DataFieldHeader == Spec => []HeaderReceived
  <1>1. IInv => HeaderReceived
    <2> SUFFICES ASSUME IInv, rx.state \in {"data", "crc"} PROVE HeaderReceived
      BY DEF HeaderReceived
    <2>1. HeaderKnown
      BY ZenonT(40) DEF IInv, AtFirst, AtControl, AtData, AtCrc
    <2>2. Sent = IF fr.rtr /\ ~fr.fd /\ drv_rtr_pref THEN 0 ELSE fr.dlc
      BY DEF Sent
    <2> QED BY ZenonT(40), <2>1, <2>2 DEF HeaderKnown, HeaderReceived
  <1> QED BY <1>1, DataFieldInvariant, PTL

\* Every word the receiver hands to the RX buffer is the data word of the
\* frame with that number, its bits in order and its unused bytes zero.
THEOREM DataFieldWords == Spec => []StoredWordsAreSent
  <1>1. IInv => StoredWordsAreSent
    BY ZenonT(40) DEF IInv, AtFirst, AtControl, AtData, AtCrc, StoredWordsAreSent
  <1> QED BY <1>1, DataFieldInvariant, PTL

\* At the end of the data field the receiver has stored as many words as the
\* RX buffer computes from the length code it was given.
THEOREM DataFieldRwcnt == Spec => []RwcntMatchesStores
  <1>1. IInv => RwcntMatchesStores
    BY DEF IInv, AtFirst, AtControl, AtData, AtCrc, RwcntMatchesStores
  <1> QED BY <1>1, DataFieldInvariant, PTL
=============================================================================
