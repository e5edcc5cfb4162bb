------------------------------ MODULE CanFrame ------------------------------
(***************************************************************************)
(* A frame on its way from one driver to another, and the acceptance       *)
(* filters.                                                                *)
(*                                                                         *)
(* A frame of the driver is a record: the identifier with the flags of     *)
(* can_id (eff, rtr), the length, the flags of a CAN FD frame and the data *)
(* as a sequence of 32 bit words.  FRAME_FORMAT and identifier words are   *)
(* words of module Registers; a data word is opaque: the k-th is {32 + k}, *)
(* and {} is one that nobody wrote.  Timestamp words are not interpreted.  *)
(***************************************************************************)
EXTENDS Registers

CeilDiv4(n) == (n + 3) \div 4

-----------------------------------------------------------------------------
(* Identifiers and lengths of the driver.                                  *)

CAN_EFF_MASK == 2^29
CAN_SFF_MASK == 2^11

id_to_hwid(id) ==
  Word(identifier_w,
       IF id.eff THEN [identifier_base |-> (id.id % CAN_EFF_MASK) \div 2^18,
                       identifier_ext |-> id.id % 2^18]
                 ELSE [identifier_base |-> id.id % CAN_SFF_MASK])

\* rtr is what the caller has put in *id; a base identifier overwrites it.
hwid_to_id(hwid, rtr, ide) ==
  LET base == Get(identifier_w, hwid, "identifier_base")
  IN IF ide = 1
     THEN [eff |-> TRUE, rtr |-> rtr,
           id |-> base * 2^18 + Get(identifier_w, hwid, "identifier_ext")]
     ELSE [eff |-> FALSE, rtr |-> FALSE, id |-> base]

can_dlc2len(dlc) ==
  <<0, 1, 2, 3, 4, 5, 6, 7, 8, 12, 16, 20, 24, 32, 48, 64>>[(dlc % 16) + 1]

\* Mutant: the first length of the next code is still given the code before.
Mutcan_len2dlc(len) ==
  CASE len <= 8 -> len
    [] len \in 9..24 -> 9 + (len - 10) \div 4
    [] len \in 25..32 -> 13
    [] len \in 33..48 -> 14
    [] OTHER -> 15

can_len2dlc(len) ==
  CASE len <= 8 -> len
    [] len \in 9..24 -> 9 + (len - 9) \div 4
    [] len \in 25..32 -> 13
    [] len \in 33..48 -> 14
    [] OTHER -> 15

-----------------------------------------------------------------------------
(* The driver writes a TXT buffer.                                         *)

Data(k) == {32 + k}

Flag(b) == IF b THEN 1 ELSE 0

insert_frame(cf, isfdf) ==
  [ffw |-> Word(frame_form_w,
                [rtr |-> Flag(cf.rtr), ide |-> Flag(cf.eff), tbf |-> 1,
                 dlc |-> can_len2dlc(cf.len), fdf |-> Flag(isfdf),
                 brs |-> Flag(isfdf /\ cf.brs)]),
   idw |-> id_to_hwid(cf),
   data |-> [i \in 1..16 |->
               IF ~cf.rtr /\ i <= CeilDiv4(cf.len) THEN cf.data[i] ELSE {}]]

-----------------------------------------------------------------------------
(* The cores: the sender takes the frame apart with its own indices, the   *)
(* receiver assembles the words for its RX buffer.                         *)

rwcnt_com(fd, rtr, dlc) ==
  IF rtr = 1 THEN 3
  ELSE IF fd = 0 /\ dlc >= 8 THEN 5
  ELSE <<3, 4, 4, 4, 4, 5, 5, 5, 5, 6, 7, 8, 9, 11, 15, 19>>[dlc + 1]

\* Words of the frame in buffer buf as the receiving core stores them.  The
\* error state indicator is not the sender's: rec_esi_r takes data_tx_r, which a
\* receiver keeps recessive, so that it is 1 in every CAN FD frame.
StoredWords(buf) ==
  LET dlc == Slice(buf.ffw, "dlc")
      rtr == Slice(buf.ffw, "rtr")
      fdf == Slice(buf.ffw, "fdf")
      ide == Slice(buf.ffw, "ide")
      rwcnt == rwcnt_com(fdf, rtr, dlc)
      ident == [identifier_base |-> Slice(buf.idw, "identifier_base"),
                identifier_ext |-> IF ide = 1 THEN Slice(buf.idw, "identifier_ext")
                                              ELSE 0]
  IN <<Assembled([dlc |-> dlc, rtr |-> rtr, ide |-> ide, fdf |-> fdf, tbf |-> 1,
                  brs |-> Slice(buf.ffw, "brs"), esi_rsv |-> fdf,
                  rwcnt |-> rwcnt]),
       Assembled(ident), {}, {}>>
       \o SubSeq(buf.data, 1, rwcnt - 3)

-----------------------------------------------------------------------------
(* The driver reads the RX buffer.                                         *)

\* rx_read_buff: zeroes when the buffer is empty.
FifoWord(fifo, i) == IF i \in DOMAIN fifo THEN fifo[i] ELSE {}

\* ctu_can_fd_read_rx_ffw and ctu_can_fd_read_rx_frame_ffw: the frame, and the
\* words that are left.
read_rx_frame(fifo) ==
  LET ffw == FifoWord(fifo, 1)
      fdf == Get(frame_form_w, ffw, "fdf") = 1
      dlc == Get(frame_form_w, ffw, "dlc")
      rtr == ~fdf /\ Get(frame_form_w, ffw, "rtr") = 1
      len == IF dlc <= 8 THEN dlc
             ELSE IF fdf THEN (Get(frame_form_w, ffw, "rwcnt") - 3) * 4 ELSE 8
      words == CeilDiv4(len)
      id == hwid_to_id(FifoWord(fifo, 2), rtr, Get(frame_form_w, ffw, "ide"))
  IN [frame |-> [eff |-> id.eff, rtr |-> id.rtr, id |-> id.id, len |-> len, fd |-> fdf,
                 brs |-> fdf /\ Get(frame_form_w, ffw, "brs") = 1,
                 esi |-> fdf /\ Get(frame_form_w, ffw, "esi_rsv") = 1,
                 data |-> [i \in 1..words |-> FifoWord(fifo, 4 + i)]],
      left |-> SubSeq(fifo, 5 + words, Len(fifo))]

-----------------------------------------------------------------------------
(* Acceptance filters.  The filter registers are a function from the names *)
(* of the registers to words.                                              *)

FilterRegs == {"control", "a_mask", "a_val", "b_mask", "b_val", "c_mask",
               "c_val", "ran_low", "ran_high"}

\* Reset values: filter A passes every frame; the four filters are supported.
ResetFilters ==
  [r \in FilterRegs |->
     IF r = "control"
     THEN Assembled([fanb |-> 1, fane |-> 1, fafb |-> 1, fafe |-> 1,
                     sfa |-> 1, sfb |-> 1, sfc |-> 1, sfr |-> 1])
     ELSE {}]

\* The bits and registers of a filter.
Filter ==
  [a |-> [sup |-> "sfa", ena |-> <<"fanb", "fane", "fafb", "fafe">>,
          maddr |-> "a_mask", vaddr |-> "a_val"],
   b |-> [sup |-> "sfb", ena |-> <<"fbnb", "fbne", "fbfb", "fbfe">>,
          maddr |-> "b_mask", vaddr |-> "b_val"],
   c |-> [sup |-> "sfc", ena |-> <<"fcnb", "fcne", "fcfb", "fcfe">>,
          maddr |-> "c_mask", vaddr |-> "c_val"],
   r |-> [sup |-> "sfr", ena |-> <<"frnb", "frne", "frfb", "frfe">>,
          maddr |-> "ran_low", vaddr |-> "ran_high"]]

get_filter_support(regs, fnum) ==
  Get(filter_control_filter_status, regs["control"], Filter[fnum].sup) = 1

\* creg with the four bits of the filter set to val.
Enabled(regs, fnum, val) ==
  With(filter_control_filter_status, regs["control"],
       [name \in {Filter[fnum].ena[i] : i \in 1..4} |-> Flag(val)])

set_mask_filter(regs, fnum, enable, can_id, can_mask) ==
  IF ~get_filter_support(regs, fnum) THEN regs
  ELSE [regs EXCEPT !["control"] = Enabled(regs, fnum, enable),
                    ![Filter[fnum].maddr] = id_to_hwid(can_id),
                    ![Filter[fnum].vaddr] = id_to_hwid(can_mask)]

\* Mutant: the thresholds are exchanged.
Mutset_range_filter(regs, low_th, high_th, enable) ==
  [regs EXCEPT !["control"] = Enabled(regs, "r", enable),
               !["ran_low"] = id_to_hwid(high_th),
               !["ran_high"] = id_to_hwid(low_th)]

set_range_filter(regs, low_th, high_th, enable) ==
  [regs EXCEPT !["control"] = Enabled(regs, "r", enable),
               !["ran_low"] = id_to_hwid(low_th),
               !["ran_high"] = id_to_hwid(high_th)]

-----------------------------------------------------------------------------
(* frame_filters: the decision of the core about a frame with identifier   *)
(* word ident.                                                             *)

\* int_data_type: the enable bit of a filter that the frame needs.
DataType(fd, ide) == 1 + 2 * Flag(fd) + Flag(ide)

FilterEnabled(regs, fnum, fd, ide) ==
  Slice(regs["control"], Filter[fnum].ena[DataType(fd, ide)]) = 1

bit_filter(regs, fnum, ident) ==
  LET mask == regs[Filter[fnum].maddr]
      val == regs[Filter[fnum].vaddr]
  IN ident \cap mask = val \cap mask

ID_reg_to_decimal(word) ==
  Slice(word, "identifier_base") * 2^18 + Slice(word, "identifier_ext")

range_filter(regs, ident) ==
  /\ ID_reg_to_decimal(ident) <= ID_reg_to_decimal(regs["ran_high"])
  /\ ID_reg_to_decimal(ident) >= ID_reg_to_decimal(regs["ran_low"])

\* Acceptance with the filters turned on (MODE.AFM).
Accepted(regs, fd, ide, ident) ==
  \E fnum \in DOMAIN Filter :
    /\ get_filter_support(regs, fnum)
    /\ FilterEnabled(regs, fnum, fd, ide)
    /\ IF fnum = "r" THEN range_filter(regs, ident) ELSE bit_filter(regs, fnum, ident)
=============================================================================
