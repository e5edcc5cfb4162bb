----------------------------- MODULE Registers ------------------------------
(***************************************************************************)
(* The register words that the driver and the core exchange.               *)
(*                                                                         *)
(* The two sides describe a word independently.  The driver has a union of *)
(* bit fields for it (ctu_can_fd_regs.h, ctu_can_fd_frame.h): a field      *)
(* starts where the one before it ends.  The #else part of a union lists   *)
(* the same fields backwards, for compilers that begin with bit 31, and    *)
(* describes the same bits.  The core slices the word by index constants   *)
(* (can_fd_register_map.vhd, can_fd_frame_format.vhd).  A word is the set  *)
(* of its bits that are 1.  A bit field holds its value modulo its size.   *)
(***************************************************************************)
EXTENDS Integers, Sequences, FiniteSetsExt, TLC

-----------------------------------------------------------------------------
(* Words.                                                                  *)

Bits(v) == {b \in 0..30 : (v \div 2^b) % 2 = 1}

Value(S) == MapThenSumSet(LAMBDA b : 2^b, S)

-----------------------------------------------------------------------------
(* The driver's view: bit fields, in order, each with its size.  Fields    *)
(* that the header calls reserved have the name "".                        *)

device_id_version == <<<<"device_id", 16>>, <<"ver_minor", 8>>, <<"ver_major", 8>>>>

mode_settings ==
  <<<<"rst", 1>>, <<"lom", 1>>, <<"stm", 1>>, <<"afm", 1>>, <<"fde", 1>>,
    <<"rtrp", 1>>, <<"tsm", 1>>, <<"acf", 1>>, <<"", 8>>, <<"rtrle", 1>>,
    <<"rtrth", 4>>, <<"ilbp", 1>>, <<"ena", 1>>, <<"nisofd", 1>>, <<"", 8>>>>

status ==
  <<<<"rxne", 1>>, <<"dor", 1>>, <<"txnf", 1>>, <<"eft", 1>>, <<"rxs", 1>>,
    <<"txs", 1>>, <<"ewl", 1>>, <<"idle", 1>>, <<"", 24>>>>

command ==
  <<<<"", 1>>, <<"abt", 1>>, <<"rrb", 1>>, <<"cdo", 1>>, <<"ercrst", 1>>,
    <<"rxfcrst", 1>>, <<"txfcrst", 1>>, <<"", 25>>>>

int_stat ==
  <<<<"rxi", 1>>, <<"txi", 1>>, <<"ewli", 1>>, <<"doi", 1>>, <<"epi", 1>>,
    <<"ali", 1>>, <<"bei", 1>>, <<"lfi", 1>>, <<"rxfi", 1>>, <<"bsi", 1>>,
    <<"rbnei", 1>>, <<"txbhci", 1>>, <<"", 20>>>>

int_ena_set == <<<<"int_ena_set", 12>>, <<"", 20>>>>
int_ena_clr == <<<<"int_ena_clr", 12>>, <<"", 20>>>>
int_mask_set == <<<<"int_mask_set", 12>>, <<"", 20>>>>
int_mask_clr == <<<<"int_mask_clr", 12>>, <<"", 20>>>>

btr == <<<<"prop", 7>>, <<"ph1", 6>>, <<"ph2", 6>>, <<"brp", 8>>, <<"sjw", 5>>>>

btr_fd ==
  <<<<"prop_fd", 6>>, <<"", 1>>, <<"ph1_fd", 5>>, <<"", 1>>, <<"ph2_fd", 5>>,
    <<"", 1>>, <<"brp_fd", 8>>, <<"sjw_fd", 5>>>>

ewl_erp_fault_state ==
  <<<<"ew_limit", 8>>, <<"erp_limit", 8>>, <<"era", 1>>, <<"erp", 1>>,
    <<"bof", 1>>, <<"", 13>>>>

rxc_txc == <<<<"rxc_val", 16>>, <<"txc_val", 16>>>>

err_norm_err_fd == <<<<"err_norm_val", 16>>, <<"err_fd_val", 16>>>>

ctr_pres ==
  <<<<"ctpv", 9>>, <<"ptx", 1>>, <<"prx", 1>>, <<"enorm", 1>>, <<"efd", 1>>,
    <<"", 19>>>>

filter_a_mask == <<<<"bit_mask_a_val", 29>>, <<"", 3>>>>
filter_a_val == <<<<"bit_val_a_val", 29>>, <<"", 3>>>>
filter_b_mask == <<<<"bit_mask_b_val", 29>>, <<"", 3>>>>
filter_b_val == <<<<"bit_val_b_val", 29>>, <<"", 3>>>>
filter_c_mask == <<<<"bit_mask_c_val", 29>>, <<"", 3>>>>
filter_c_val == <<<<"bit_val_c_val", 29>>, <<"", 3>>>>
filter_ran_low == <<<<"bit_ran_low_val", 29>>, <<"", 3>>>>
filter_ran_high == <<<<"bit_ran_high_val", 29>>, <<"", 3>>>>

filter_control_filter_status ==
  <<<<"fanb", 1>>, <<"fane", 1>>, <<"fafb", 1>>, <<"fafe", 1>>, <<"fbnb", 1>>,
    <<"fbne", 1>>, <<"fbfb", 1>>, <<"fbfe", 1>>, <<"fcnb", 1>>, <<"fcne", 1>>,
    <<"fcfb", 1>>, <<"fcfe", 1>>, <<"frnb", 1>>, <<"frne", 1>>, <<"frfb", 1>>,
    <<"frfe", 1>>, <<"sfa", 1>>, <<"sfb", 1>>, <<"sfc", 1>>, <<"sfr", 1>>,
    <<"", 12>>>>

rx_mem_info == <<<<"rx_buff_size", 13>>, <<"", 3>>, <<"rx_mem_free", 13>>, <<"", 3>>>>

rx_pointers == <<<<"rx_wpp", 12>>, <<"", 4>>, <<"rx_rpp", 12>>, <<"", 4>>>>

rx_status_rx_settings ==
  <<<<"rxe", 1>>, <<"rxf", 1>>, <<"", 2>>, <<"rxfrc", 11>>, <<"", 1>>,
    <<"rtsop", 1>>, <<"", 15>>>>

tx_status ==
  <<<<"tx1s", 4>>, <<"tx2s", 4>>, <<"tx3s", 4>>, <<"tx4s", 4>>, <<"", 16>>>>

tx_command ==
  <<<<"txce", 1>>, <<"txcr", 1>>, <<"txca", 1>>, <<"", 5>>, <<"txb1", 1>>,
    <<"txb2", 1>>, <<"txb3", 1>>, <<"txb4", 1>>, <<"", 20>>>>

tx_priority ==
  <<<<"txt1p", 3>>, <<"", 1>>, <<"txt2p", 3>>, <<"", 1>>, <<"txt3p", 3>>,
    <<"", 1>>, <<"txt4p", 3>>, <<"", 17>>>>

err_capt_alc ==
  <<<<"err_pos", 5>>, <<"err_type", 3>>, <<"", 8>>, <<"alc_bit", 5>>,
    <<"alc_id_field", 3>>, <<"", 8>>>>

\* Mutant: the reserved bit after SSP_OFFSET is forgotten.
Muttrv_delay_ssp_cfg ==
  <<<<"trv_delay_value", 16>>, <<"ssp_offset", 7>>, <<"ssp_src", 2>>, <<"", 7>>>>

trv_delay_ssp_cfg ==
  <<<<"trv_delay_value", 16>>, <<"ssp_offset", 7>>, <<"", 1>>, <<"ssp_src", 2>>,
    <<"", 6>>>>

debug_register ==
  <<<<"stuff_count", 3>>, <<"destuff_count", 3>>, <<"pc_arb", 1>>, <<"pc_con", 1>>,
    <<"pc_dat", 1>>, <<"pc_crc", 1>>, <<"pc_eof", 1>>, <<"pc_ovr", 1>>,
    <<"pc_int", 1>>, <<"", 19>>>>

frame_form_w ==
  <<<<"dlc", 4>>, <<"", 1>>, <<"rtr", 1>>, <<"ide", 1>>, <<"fdf", 1>>,
    <<"tbf", 1>>, <<"brs", 1>>, <<"esi_rsv", 1>>, <<"rwcnt", 5>>, <<"", 16>>>>

identifier_w == <<<<"identifier_ext", 18>>, <<"identifier_base", 11>>, <<"", 3>>>>

Unions ==
  {device_id_version, mode_settings, status, command, int_stat, btr, btr_fd,
   ewl_erp_fault_state, rxc_txc, err_norm_err_fd, ctr_pres,
   int_ena_set, int_ena_clr, int_mask_set, int_mask_clr, filter_a_mask,
   filter_a_val, filter_b_mask, filter_b_val, filter_c_mask, filter_c_val,
   filter_ran_low, filter_ran_high, filter_control_filter_status, rx_mem_info, rx_pointers,
   rx_status_rx_settings, tx_status, tx_command, tx_priority, err_capt_alc,
   trv_delay_ssp_cfg, debug_register, frame_form_w, identifier_w}

\* Where the compiler puts the i-th field of a union.
Low(u, i) == MapThenSumSet(LAMBDA j : u[j][2], 1..(i - 1))
High(u, i) == Low(u, i) + u[i][2] - 1

Named(u) == {i \in DOMAIN u : u[i][1] # ""}
Index(u, name) == CHOOSE i \in DOMAIN u : u[i][1] = name

\* reg.s.<name>
Get(u, word, name) ==
  LET i == Index(u, name)
  IN Value({b - Low(u, i) : b \in word \cap Low(u, i)..High(u, i)})

\* reg.s.<name> = <value> for the fields in the domain of vals.
With(u, word, vals) ==
  LET Field(i) == {Low(u, i) + b : b \in Bits(vals[u[i][1]] % 2^u[i][2])}
      written == {i \in Named(u) : u[i][1] \in DOMAIN vals}
  IN (word \ UNION {Low(u, i)..High(u, i) : i \in written})
       \union UNION {Field(i) : i \in written}

\* reg.u32 = 0 and then the fields.
Word(u, vals) == With(u, {}, vals)

-----------------------------------------------------------------------------
(* The core's view: index constants.                                       *)

At(i) == <<i, i>>

ModeBits ==
  [device_id |-> <<0, 15>>, ver_minor |-> <<16, 23>>, ver_major |-> <<24, 31>>,
   rst |-> At(0), lom |-> At(1), stm |-> At(2), afm |-> At(3), fde |-> At(4),
   rtrp |-> At(5), tsm |-> At(6), acf |-> At(7), rtrle |-> At(16),
   rtrth |-> <<17, 20>>, ilbp |-> At(21), ena |-> At(22), nisofd |-> At(23),
   rxne |-> At(0), dor |-> At(1), txnf |-> At(2), eft |-> At(3), rxs |-> At(4),
   txs |-> At(5), ewl |-> At(6), idle |-> At(7),
   abt |-> At(1), rrb |-> At(2), cdo |-> At(3), ercrst |-> At(4),
   rxfcrst |-> At(5), txfcrst |-> At(6)]

InterruptBits ==
  [rxi |-> At(0), txi |-> At(1), ewli |-> At(2), doi |-> At(3), epi |-> At(4),
   ali |-> At(5), bei |-> At(6), lfi |-> At(7), rxfi |-> At(8), bsi |-> At(9),
   rbnei |-> At(10), txbhci |-> At(11)]

InterruptVectors ==
  [v \in {"int_ena_set", "int_ena_clr", "int_mask_set", "int_mask_clr"} |-> <<0, 11>>]

FilterValues ==
  [v \in {"bit_mask_a_val", "bit_val_a_val", "bit_mask_b_val", "bit_val_b_val",
          "bit_mask_c_val", "bit_val_c_val", "bit_ran_low_val", "bit_ran_high_val"} |->
     <<0, 28>>]

TimingAndErrorBits ==
  [prop |-> <<0, 6>>, ph1 |-> <<7, 12>>, ph2 |-> <<13, 18>>, brp |-> <<19, 26>>,
   sjw |-> <<27, 31>>, prop_fd |-> <<0, 5>>, ph1_fd |-> <<7, 11>>,
   ph2_fd |-> <<13, 17>>, brp_fd |-> <<19, 26>>, sjw_fd |-> <<27, 31>>,
   ew_limit |-> <<0, 7>>, erp_limit |-> <<8, 15>>, era |-> At(16),
   erp |-> At(17), bof |-> At(18), rxc_val |-> <<0, 15>>, txc_val |-> <<16, 31>>,
   err_norm_val |-> <<0, 15>>, err_fd_val |-> <<16, 31>>, ctpv |-> <<0, 8>>,
   ptx |-> At(9), prx |-> At(10), enorm |-> At(11), efd |-> At(12)]

FilterBits ==
  [fanb |-> At(0), fane |-> At(1), fafb |-> At(2), fafe |-> At(3),
   fbnb |-> At(4), fbne |-> At(5), fbfb |-> At(6), fbfe |-> At(7),
   fcnb |-> At(8), fcne |-> At(9), fcfb |-> At(10), fcfe |-> At(11),
   frnb |-> At(12), frne |-> At(13), frfb |-> At(14), frfe |-> At(15),
   sfa |-> At(16), sfb |-> At(17), sfc |-> At(18), sfr |-> At(19)]

BufferBits ==
  [rx_buff_size |-> <<0, 12>>, rx_mem_free |-> <<16, 28>>, rx_wpp |-> <<0, 11>>,
   rx_rpp |-> <<16, 27>>, rxe |-> At(0), rxf |-> At(1), rxfrc |-> <<4, 14>>,
   rtsop |-> At(16), tx1s |-> <<0, 3>>, tx2s |-> <<4, 7>>, tx3s |-> <<8, 11>>,
   tx4s |-> <<12, 15>>, txce |-> At(0), txcr |-> At(1), txca |-> At(2),
   txb1 |-> At(8), txb2 |-> At(9), txb3 |-> At(10), txb4 |-> At(11),
   txt1p |-> <<0, 2>>, txt2p |-> <<4, 6>>, txt3p |-> <<8, 10>>,
   txt4p |-> <<12, 14>>]

DiagnosticBits ==
  [err_pos |-> <<0, 4>>, err_type |-> <<5, 7>>, alc_bit |-> <<16, 20>>,
   alc_id_field |-> <<21, 23>>, trv_delay_value |-> <<0, 15>>,
   ssp_offset |-> <<16, 22>>, ssp_src |-> <<24, 25>>, stuff_count |-> <<0, 2>>,
   destuff_count |-> <<3, 5>>, pc_arb |-> At(6), pc_con |-> At(7),
   pc_dat |-> At(8), pc_crc |-> At(9), pc_eof |-> At(10), pc_ovr |-> At(11),
   pc_int |-> At(12)]

FrameBits ==
  [dlc |-> <<0, 3>>, rtr |-> At(5), ide |-> At(6), fdf |-> At(7), tbf |-> At(8),
   brs |-> At(9), esi_rsv |-> At(10), rwcnt |-> <<11, 15>>,
   identifier_ext |-> <<0, 17>>, identifier_base |-> <<18, 28>>]

CoreBits ==
  ModeBits @@ InterruptBits @@ TimingAndErrorBits @@ FilterBits @@ BufferBits
    @@ DiagnosticBits @@ FrameBits @@ InterruptVectors @@ FilterValues

\* word(<name>_H downto <name>_L)
Slice(word, name) ==
  LET r == CoreBits[name]
  IN Value({b - r[1] : b \in word \cap r[1]..r[2]})

\* The core assembles a word from slices.
Assembled(vals) ==
  UNION {{CoreBits[name][1] + b : b \in Bits(vals[name])} : name \in DOMAIN vals}

-----------------------------------------------------------------------------
(* Addresses.  The driver has an enumeration of byte addresses.            *)

can_registers ==
  [DEVICE_ID |-> 0, VERSION |-> 2, MODE |-> 4, SETTINGS |-> 6, STATUS |-> 8,
   COMMAND |-> 12, INT_STAT |-> 16, INT_ENA_SET |-> 20, INT_ENA_CLR |-> 24,
   INT_MASK_SET |-> 28, INT_MASK_CLR |-> 32, BTR |-> 36, BTR_FD |-> 40,
   EWL |-> 44, ERP |-> 45, FAULT_STATE |-> 46, RXC |-> 48, TXC |-> 50,
   ERR_NORM |-> 52, ERR_FD |-> 54, CTR_PRES |-> 56, FILTER_A_MASK |-> 60,
   FILTER_A_VAL |-> 64, FILTER_B_MASK |-> 68, FILTER_B_VAL |-> 72,
   FILTER_C_MASK |-> 76, FILTER_C_VAL |-> 80, FILTER_RAN_LOW |-> 84,
   FILTER_RAN_HIGH |-> 88, FILTER_CONTROL |-> 92, FILTER_STATUS |-> 94,
   RX_MEM_INFO |-> 96, RX_POINTERS |-> 100, RX_STATUS |-> 104,
   RX_SETTINGS |-> 106, RX_DATA |-> 108, TX_STATUS |-> 112,
   TX_COMMAND |-> 116, TX_PRIORITY |-> 120, ERR_CAPT |-> 124, ALC |-> 126,
   TRV_DELAY |-> 128, SSP_CFG |-> 130, RX_COUNTER |-> 132,
   TX_COUNTER |-> 136, DEBUG_REGISTER |-> 140, YOLO_REG |-> 144,
   TIMESTAMP_LOW |-> 148, TIMESTAMP_HIGH |-> 152, TXTB1_DATA_1 |-> 256,
   TXTB1_DATA_2 |-> 260, TXTB1_DATA_20 |-> 332, TXTB2_DATA_1 |-> 512,
   TXTB2_DATA_2 |-> 516, TXTB2_DATA_20 |-> 588, TXTB3_DATA_1 |-> 768,
   TXTB3_DATA_2 |-> 772, TXTB3_DATA_20 |-> 844, TXTB4_DATA_1 |-> 1024,
   TXTB4_DATA_2 |-> 1028, TXTB4_DATA_20 |-> 1100]

\* The word of a TXT buffer that ctu_can_fd_write_txt_buf writes.
tx_buf_bases ==
  <<can_registers.TXTB1_DATA_1, can_registers.TXTB2_DATA_1,
    can_registers.TXTB3_DATA_1, can_registers.TXTB4_DATA_1>>

TxtAddress(buf, word) == tx_buf_bases[buf] + 4 * word

(* The core reads a register through a multiplexer of words and writes it  *)
(* with the select signal of a word: <<word, first bit>> of each register. *)

ReadMux ==
  [DEVICE_ID |-> <<0, 0>>, VERSION |-> <<0, 16>>, MODE |-> <<1, 0>>,
   SETTINGS |-> <<1, 16>>, STATUS |-> <<2, 0>>, INT_STAT |-> <<4, 0>>,
   INT_ENA_SET |-> <<5, 0>>, INT_MASK_SET |-> <<7, 0>>, BTR |-> <<9, 0>>,
   BTR_FD |-> <<10, 0>>, EWL |-> <<11, 0>>, ERP |-> <<11, 8>>,
   FAULT_STATE |-> <<11, 16>>, RXC |-> <<12, 0>>, TXC |-> <<12, 16>>,
   ERR_NORM |-> <<13, 0>>, ERR_FD |-> <<13, 16>>, FILTER_A_MASK |-> <<15, 0>>,
   FILTER_A_VAL |-> <<16, 0>>, FILTER_B_MASK |-> <<17, 0>>,
   FILTER_B_VAL |-> <<18, 0>>, FILTER_C_MASK |-> <<19, 0>>,
   FILTER_C_VAL |-> <<20, 0>>, FILTER_RAN_LOW |-> <<21, 0>>,
   FILTER_RAN_HIGH |-> <<22, 0>>, FILTER_CONTROL |-> <<23, 0>>,
   FILTER_STATUS |-> <<23, 16>>, RX_MEM_INFO |-> <<24, 0>>,
   RX_POINTERS |-> <<25, 0>>, RX_STATUS |-> <<26, 0>>,
   RX_SETTINGS |-> <<26, 16>>, RX_DATA |-> <<27, 0>>, TX_STATUS |-> <<28, 0>>,
   TX_PRIORITY |-> <<30, 0>>, ERR_CAPT |-> <<31, 0>>, ALC |-> <<31, 16>>,
   TRV_DELAY |-> <<32, 0>>, SSP_CFG |-> <<32, 16>>, RX_COUNTER |-> <<33, 0>>,
   TX_COUNTER |-> <<34, 0>>, DEBUG_REGISTER |-> <<35, 0>>,
   YOLO_REG |-> <<36, 0>>, TIMESTAMP_LOW |-> <<37, 0>>,
   TIMESTAMP_HIGH |-> <<38, 0>>]

WriteSelect ==
  [MODE |-> <<1, 0>>, SETTINGS |-> <<1, 16>>, COMMAND |-> <<3, 0>>,
   INT_STAT |-> <<4, 0>>, INT_ENA_SET |-> <<5, 0>>, INT_ENA_CLR |-> <<6, 0>>,
   INT_MASK_SET |-> <<7, 0>>, INT_MASK_CLR |-> <<8, 0>>, BTR |-> <<9, 0>>,
   BTR_FD |-> <<10, 0>>, EWL |-> <<11, 0>>, ERP |-> <<11, 8>>,
   CTR_PRES |-> <<14, 0>>, FILTER_A_MASK |-> <<15, 0>>,
   FILTER_A_VAL |-> <<16, 0>>, FILTER_B_MASK |-> <<17, 0>>,
   FILTER_B_VAL |-> <<18, 0>>, FILTER_C_MASK |-> <<19, 0>>,
   FILTER_C_VAL |-> <<20, 0>>, FILTER_RAN_LOW |-> <<21, 0>>,
   FILTER_RAN_HIGH |-> <<22, 0>>, FILTER_CONTROL |-> <<23, 0>>,
   RX_SETTINGS |-> <<26, 16>>, TX_COMMAND |-> <<29, 0>>,
   TX_PRIORITY |-> <<30, 0>>, SSP_CFG |-> <<32, 16>>]

CONTROL_REGISTERS_BLOCK == 0
TX_BUFFER_BLOCK == <<1, 2, 3, 4>>

\* The block and the word in it that the core selects for an address.
Block(adr) == (adr \div 256) % 16
ControlWord(adr) == (adr \div 4) % 64
tran_addr(adr) == (adr \div 4) % 32

-----------------------------------------------------------------------------
\* Every register of the driver's enumeration is one the core has, at that
\* address for reading and for writing, and the words of a TXT buffer are
\* written to that buffer, in their order.
AddressAgrees(r) ==
  LET adr == can_registers[r]
      Selects(map) == r \in DOMAIN map =>
                        /\ ControlWord(adr) = map[r][1]
                        /\ 8 * (adr % 4) = map[r][2]
  IN IF Block(adr) = CONTROL_REGISTERS_BLOCK
     THEN /\ r \in DOMAIN ReadMux \union DOMAIN WriteSelect
          /\ Selects(ReadMux) /\ Selects(WriteSelect)
     ELSE \E buf \in 1..4, word \in 0..19 :
            /\ adr = TxtAddress(buf, word)
            /\ Block(adr) = TX_BUFFER_BLOCK[buf] /\ tran_addr(adr) = word

\* The header and the index constants are generated from one description of
\* the registers, into two languages: every bit field lies exactly on the
\* bits the core uses, and a union fills the word.
UnionAgrees(u) ==
  /\ High(u, Len(u)) = 31
  /\ \A i \in Named(u) : <<Low(u, i), High(u, i)>> = CoreBits[u[i][1]]

-----------------------------------------------------------------------------
(* What the provers can not compute: sums over the bits of a number and    *)
(* over the fields of a union.  These are statements about fixed numbers.  *)

\* The unions of frames, of the filter settings and of the error state.
FieldUnions ==
  {ewl_erp_fault_state, rxc_txc, filter_control_filter_status, frame_form_w, identifier_w}

\* A number that fits into a field of this size is the value of its bits.
Holds(size) ==
  /\ 2^size \in Nat \ {0} /\ Bits(0) = {}
  /\ \A v \in 0..(2^size - 1) :
       v % 2^size = v /\ Bits(v) \subseteq 0..(size - 1) /\ Value(Bits(v)) = v

ASSUME FieldsAssumption ==
  \A u \in FieldUnions :
    /\ UnionAgrees(u)
    /\ \A i \in Named(u) : Low(u, i) \in 0..31 /\ u[i][2] \in 1..18 /\ Holds(u[i][2])
    /\ \A i, j \in Named(u) : i # j =>
         /\ u[i][1] # u[j][1]
         /\ High(u, i) < Low(u, j) \/ High(u, j) < Low(u, i)
=============================================================================
