----------------------------- MODULE BitTiming ------------------------------
(***************************************************************************)
(* From a requested bit rate, or from requested bit segments, to the bit   *)
(* timing registers and the bit time of the core.                          *)
(*                                                                         *)
(* can_calc_bittiming is a search whose loop carries state from one        *)
(* iteration to the next (the segments that the last successful call of    *)
(* can_update_sample_point left behind), so that an iteration is a step.   *)
(* Frequencies and bit rates are whole kHz, so that the divisions of the   *)
(* 64 bit values are done on numbers divided by 1000.                      *)
(***************************************************************************)
EXTENDS Registers

CONSTANT Requests      \* what user space asks for, with the limits and clock

VARIABLE bt            \* a computation of can_get_bittiming

timingVars == <<bt>>

UINT_MAX == 2147483647   \* larger than every error that is computed

-----------------------------------------------------------------------------
(* Limits of the controller.                                               *)

bit_timing_max ==
  [tseg1_min |-> 2, tseg1_max |-> 190, tseg2_min |-> 1, tseg2_max |-> 63,
   sjw_max |-> 31, brp_min |-> 1, brp_max |-> 255, brp_inc |-> 1]

bit_timing_data_max ==
  [tseg1_min |-> 2, tseg1_max |-> 94, tseg2_min |-> 1, tseg2_max |-> 31,
   sjw_max |-> 31, brp_min |-> 1, brp_max |-> 255, brp_inc |-> 1]

Btc(req) == IF req.data THEN bit_timing_data_max ELSE bit_timing_max

-----------------------------------------------------------------------------
(* can_calc_bittiming.                                                     *)

clamp(x, low, high) == IF x < low THEN low ELSE IF x > high THEN high ELSE x

abs(x) == IF x < 0 THEN -x ELSE x

\* The two choices of can_update_sample_point.  A difference below zero wraps
\* around in the code, and is then larger than tseg1_max.
SamplePointChoice(btc, nominal, tseg, i) ==
  LET t2 == clamp(tseg + 1 - (nominal * (tseg + 1)) \div 1000 - i,
                  btc.tseg2_min, btc.tseg2_max)
      t1 == tseg - t2
      over == t1 < 0 \/ t1 > btc.tseg1_max
      tseg1 == IF over THEN btc.tseg1_max ELSE t1
      tseg2 == IF over THEN tseg - btc.tseg1_max ELSE t2
      point == (1000 * (tseg + 1 - tseg2)) \div (tseg + 1)
  IN [tseg1 |-> tseg1, tseg2 |-> tseg2, point |-> point,
      error |-> abs(nominal - point)]

\* The last choice at or before the nominal sample point with the least error,
\* or the segments in old, where there is none.
can_update_sample_point(btc, nominal, tseg, old) ==
  LET first == SamplePointChoice(btc, nominal, tseg, 0)
      second == SamplePointChoice(btc, nominal, tseg, 1)
      none == [tseg1 |-> old.tseg1, tseg2 |-> old.tseg2, point |-> 0,
               error |-> UINT_MAX]
      best == IF first.point <= nominal THEN first ELSE none
  IN IF second.point <= nominal /\ second.error < best.error THEN second ELSE best

Nominal(req) ==
  IF req.sample_point # 0 THEN req.sample_point
  ELSE IF req.bitrate > 800000 THEN 750
  ELSE IF req.bitrate > 500000 THEN 800
  ELSE 875

\* Mutant: the prescaler is always rounded down.
MutPrescaler(req, tseg) ==
  LET brp == req.freq \div ((1 + tseg \div 2) * req.bitrate)
  IN (brp \div Btc(req).brp_inc) * Btc(req).brp_inc

\* Even tseg: round down, odd tseg: round up; in steps of brp_inc.
Prescaler(req, tseg) ==
  LET brp == req.freq \div ((1 + tseg \div 2) * req.bitrate) + (tseg % 2)
  IN (brp \div Btc(req).brp_inc) * Btc(req).brp_inc

Bitrate(req, brp, tsegs) == req.freq \div (brp * tsegs)

LoopStart(req) ==
  [pc |-> "loop", req |-> req, tseg |-> (Btc(req).tseg1_max + Btc(req).tseg2_max) * 2 + 1,
   tseg1 |-> 0, tseg2 |-> 0, bitrate_error |-> UINT_MAX, point_error |-> UINT_MAX,
   best_tseg |-> 0, best_brp |-> 0]

\* One iteration of the loop over tseg.  A better bit rate resets the error of
\* the sample point; the segments are overwritten even if they are not taken.
Iteration(c) ==
  LET btc == Btc(c.req)
      brp == Prescaler(c.req, c.tseg)
      error == abs(c.req.bitrate - Bitrate(c.req, brp, 1 + c.tseg \div 2))
      update == can_update_sample_point(btc, Nominal(c.req), c.tseg \div 2, c)
      skipped == [c EXCEPT !.tseg = @ - 1]
      updated == [skipped EXCEPT !.tseg1 = update.tseg1, !.tseg2 = update.tseg2]
  IN IF brp \notin btc.brp_min..btc.brp_max THEN skipped
     ELSE IF error > c.bitrate_error THEN skipped
     ELSE IF error = c.bitrate_error /\ update.error > c.point_error THEN updated
     ELSE [updated EXCEPT !.bitrate_error = error, !.point_error = update.error,
                          !.best_tseg = c.tseg \div 2, !.best_brp = brp,
                          !.pc = IF error = 0 /\ update.error = 0 THEN "real" ELSE @]

Sjw(req, tseg2) ==
  IF req.sjw = 0 THEN 1
  ELSE LET sjw == IF req.sjw > Btc(req).sjw_max THEN Btc(req).sjw_max ELSE req.sjw
       IN IF tseg2 < sjw THEN tseg2 ELSE sjw

Failed(req, err) == [pc |-> "done", req |-> req, err |-> err]

\* After the loop: the real sample point and bit rate.
RealTiming(c) ==
  LET real == can_update_sample_point(Btc(c.req), Nominal(c.req), c.best_tseg, c)
      prop_seg == real.tseg1 \div 2
  IN [pc |-> "done", req |-> c.req, err |-> "0", sample_point |-> real.point,
      tq |-> (c.best_brp * 1000000) \div (c.req.freq \div 1000),
      prop_seg |-> prop_seg, phase_seg1 |-> real.tseg1 - prop_seg,
      phase_seg2 |-> real.tseg2, sjw |-> Sjw(c.req, real.tseg2), brp |-> c.best_brp,
      bitrate |-> Bitrate(c.req, c.best_brp, 1 + real.tseg1 + real.tseg2)]

CAN_CALC_MAX_ERROR == 50

CalcLoop ==
  /\ bt.pc = "loop"
  /\ bt.tseg >= (Btc(bt.req).tseg1_min + Btc(bt.req).tseg2_min) * 2
  /\ bt' = Iteration(bt)

CalcEnd ==
  /\ \/ bt.pc = "real"
     \/ bt.pc = "loop" /\ bt.tseg < (Btc(bt.req).tseg1_min + Btc(bt.req).tseg2_min) * 2
  /\ bt' = IF bt.bitrate_error \div (bt.req.bitrate \div 1000) > CAN_CALC_MAX_ERROR
           THEN Failed(bt.req, "EDOM")
           ELSE RealTiming(bt)

-----------------------------------------------------------------------------
(* can_fixup_bittiming and can_get_bittiming.                              *)

can_fixup_bittiming(req) ==
  LET btc == Btc(req)
      tseg1 == req.prop_seg + req.phase_seg1
      sjw == IF req.sjw = 0 THEN 1 ELSE req.sjw
      brp == ((req.freq \div 1000) * req.tq + 499999) \div 1000000
      alltseg == tseg1 + req.phase_seg2 + 1
  IN IF \/ sjw > btc.sjw_max
        \/ tseg1 \notin btc.tseg1_min..btc.tseg1_max
        \/ req.phase_seg2 \notin btc.tseg2_min..btc.tseg2_max
     THEN Failed(req, "ERANGE")
     ELSE IF brp \notin btc.brp_min..btc.brp_max THEN Failed(req, "EINVAL")
     ELSE [pc |-> "done", req |-> req, err |-> "0", tq |-> req.tq,
           prop_seg |-> req.prop_seg, phase_seg1 |-> req.phase_seg1,
           phase_seg2 |-> req.phase_seg2, sjw |-> sjw, brp |-> brp,
           bitrate |-> Bitrate(req, brp, alltseg),
           sample_point |-> ((tseg1 + 1) * 1000) \div alltseg]

can_get_bittiming ==
  /\ bt.pc = "get"
  /\ bt' = IF bt.req.tq = 0 /\ bt.req.bitrate # 0 THEN LoopStart(bt.req)
           ELSE IF bt.req.tq # 0 /\ bt.req.bitrate = 0 THEN can_fixup_bittiming(bt.req)
           ELSE Failed(bt.req, "EINVAL")

-----------------------------------------------------------------------------
(* The bit timing registers, and the bit time that the core makes of them. *)

\* Mutant: the time quanta taken from PH1 are lost.
MutRedistributed(t, max) ==
  IF t.phase_seg1 > max
  THEN [prop |-> t.prop_seg, ph1 |-> max]
  ELSE [prop |-> t.prop_seg, ph1 |-> t.phase_seg1]

\* PH1 is narrower than PROP: what does not fit is moved.
Redistributed(t, max) ==
  IF t.phase_seg1 > max
  THEN [prop |-> t.prop_seg + t.phase_seg1 - max, ph1 |-> max]
  ELSE [prop |-> t.prop_seg, ph1 |-> t.phase_seg1]

set_nom_bittiming(t) ==
  LET seg == Redistributed(t, 63)
  IN Word(btr, [prop |-> seg.prop, ph1 |-> seg.ph1, ph2 |-> t.phase_seg2,
                brp |-> t.brp, sjw |-> t.sjw])

set_data_bittiming(t) ==
  LET seg == Redistributed(t, 31)
  IN Word(btr_fd, [prop_fd |-> seg.prop, ph1_fd |-> seg.ph1, ph2_fd |-> t.phase_seg2,
                   brp_fd |-> t.brp, sjw_fd |-> t.sjw])

\* bit_time_cfg_capture: segments before and after the sample point.
CoreTiming(t) ==
  IF t.req.data
  THEN LET w == set_data_bittiming(t)
       IN [tseg1 |-> Slice(w, "prop_fd") + Slice(w, "ph1_fd") + 1,
           tseg2 |-> Slice(w, "ph2_fd"), brp |-> Slice(w, "brp_fd"),
           sjw |-> Slice(w, "sjw_fd")]
  ELSE LET w == set_nom_bittiming(t)
       IN [tseg1 |-> Slice(w, "prop") + Slice(w, "ph1") + 1,
           tseg2 |-> Slice(w, "ph2"), brp |-> Slice(w, "brp"),
           sjw |-> Slice(w, "sjw")]

-----------------------------------------------------------------------------
TimingInit == bt \in [pc : {"get"}, req : Requests]

TimingNext == can_get_bittiming \/ CalcLoop \/ CalcEnd

-----------------------------------------------------------------------------
Timed == bt.pc = "done" /\ bt.err = "0"

\* The bit time of the core is the one that is reported to user space: bit
\* rate and sample point follow from the segments that reach the prescaler,
\* and a jump width that was computed, rather than given with the segments,
\* fits into the second one.
CoreHasTiming ==
  LET core == CoreTiming(bt)
      total == core.tseg1 + core.tseg2
  IN /\ bt.bitrate = bt.req.freq \div (core.brp * total)
     /\ bt.sample_point = (1000 * core.tseg1) \div total
     /\ core.brp = bt.brp /\ core.sjw = bt.sjw
     /\ core.sjw >= 1 /\ (bt.req.tq = 0 => core.sjw <= core.tseg2)
     /\ core.tseg1 - 1 \in Btc(bt.req).tseg1_min..Btc(bt.req).tseg1_max
     /\ core.tseg2 \in Btc(bt.req).tseg2_min..Btc(bt.req).tseg2_max
=============================================================================
