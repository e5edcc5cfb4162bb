--------------------------- MODULE DriverHwProofs ---------------------------
(***************************************************************************)
(* Proofs about calls of the hardware layer of the driver.                 *)
(*                                                                         *)
(* The calls that read registers of a running core: the timestamp and the  *)
(* error state that are put together from two reads are ones that the core *)
(* had during the call.  The range filter: the core passes the frames that *)
(* the driver asked for, for every identifier of 11 and of 29 bits.  A     *)
(* frame from driver to driver: what is read is what was inserted.         *)
(*                                                                         *)
(* The register words are sets of bit numbers.  What the proofs need of    *)
(* their layout, that the fields of a word do not overlap and hold their   *)
(* values, are the closed facts of FieldsAssumption in module Registers.   *)
(***************************************************************************)
EXTENDS DriverHw, TLAPS

\* The time limits, in seconds, of the leaves that name no prover.
USE SMTT(40), ZenonT(40)

-----------------------------------------------------------------------------
(* The cases.                                                              *)

\* A case without steps has a kind of its own.
LEMMA Kinds ==
  /\ \A j \in Frames : j.kind = "frame"
  /\ \A j \in Ranges : j.kind = "range"
  /\ \A j \in Starts : j.kind = "start"
  /\ \A j \in ToolStarts : j.kind = "tool"
  /\ \A j \in Commands : j.kind = "command"
  /\ \A j \in Layouts : j.kind = "layout"
  /\ \A j \in Addresses : j.kind = "address"
  /\ \A j \in Presets : j.kind = "preset"
  <1>1. \A j \in Frames : j.kind = "frame"
    BY DEF Frames
  <1>2. \A j \in Ranges : j.kind = "range"
    BY DEF Ranges
  <1>3. \A j \in Commands : j.kind = "command"
    BY DEF Commands
  <1>4. /\ \A j \in Starts : j.kind = "start"
        /\ \A j \in ToolStarts : j.kind = "tool"
    BY DEF Starts, ToolStarts
  <1>5. /\ \A j \in Layouts : j.kind = "layout"
        /\ \A j \in Addresses : j.kind = "address"
        /\ \A j \in Presets : j.kind = "preset"
    BY DEF Layouts, Addresses, Presets
  <1> QED BY <1>1, <1>2, <1>3, <1>4, <1>5

\* No step changes the case.
LEMMA SameJob == [Next]_vars => UNCHANGED job
  BY DEF Next, Timing, Find, Tick, ReadHigh, ReadLow, ReadHigh2, ReadLow2,
         Count, Confine, ReadFault, ReadCounters, vars

-----------------------------------------------------------------------------
(* A time as its high and its low word.                                    *)

HighWord(t) == t \div WordSize
LowWord(t) == t % WordSize

LEMMA Words ==
  ASSUME NEW t \in Nat
  PROVE  /\ HighWord(t) \in Nat /\ LowWord(t) \in Nat /\ LowWord(t) < WordSize
         /\ t = HighWord(t) * WordSize + LowWord(t)
  BY DriverHwAssumption DEF HighWord, LowWord

LEMMA TimesMonotone ==
  ASSUME NEW m \in Nat, NEW n \in Nat, m < n
  PROVE  m * WordSize + WordSize <= n * WordSize
  <1>1. PICK k \in Nat : n = m + 1 + k
    <2>1. n - m - 1 \in Nat /\ n = m + 1 + (n - m - 1)
      OBVIOUS
    <2> QED BY <2>1
  <1>2. n * WordSize = m * WordSize + WordSize + k * WordSize /\ k * WordSize >= 0
    BY <1>1, DriverHwAssumption
  <1>3. m * WordSize \in Nat /\ WordSize \in Nat /\ k * WordSize \in Nat
    BY DriverHwAssumption
  <1> QED BY <1>2, <1>3

\* The high word never falls, and in less than a full turn of the low word it
\* rises by one at most.
LEMMA HighRises ==
  ASSUME NEW s \in Nat, NEW t \in Nat, s <= t
  PROVE  HighWord(s) <= HighWord(t) /\ (t < s + WordSize => HighWord(t) <= HighWord(s) + 1)
  <1> DEFINE hs == HighWord(s)  ht == HighWord(t)
  <1>1. /\ hs \in Nat /\ ht \in Nat /\ LowWord(s) \in Nat /\ LowWord(t) \in Nat
        /\ LowWord(s) < WordSize /\ LowWord(t) < WordSize
        /\ s = hs * WordSize + LowWord(s) /\ t = ht * WordSize + LowWord(t)
    BY Words
  <1>2. hs * WordSize \in Nat /\ ht * WordSize \in Nat /\ WordSize \in Nat
    BY <1>1, DriverHwAssumption
  <1>3. (hs + 1) * WordSize = hs * WordSize + WordSize
    BY <1>1, DriverHwAssumption
  <1> HIDE DEF hs, ht
  <1>4. ht < hs => ht * WordSize + WordSize <= hs * WordSize
    BY <1>1, TimesMonotone
  <1>5. hs <= ht
    BY <1>1, <1>2, <1>4
  <1>6. hs + 1 < ht => (hs + 1) * WordSize + WordSize <= ht * WordSize
    BY <1>1, TimesMonotone
  <1>7. t < s + WordSize => ht <= hs + 1
    BY <1>1, <1>2, <1>3, <1>6
  <1> QED BY <1>5, <1>7 DEF hs, ht

-----------------------------------------------------------------------------
(* The inductive invariant.                                                *)

\* What the words that were read so far say about the times of the call.  The
\* high word was that of some time of the call; a low word is that of a time
\* not before it; after a second, different high word the low word can not
\* turn over again.
ReadSoFar ==
  CASE call.pc = "high" -> TRUE
    [] call.pc = "low" -> HighWord(call.start) <= call.high /\ call.high <= HighWord(core.ts)
    [] call.pc = "high2" ->
         /\ HighWord(call.start) <= call.high
         /\ \E t \in call.start..core.ts : call.high <= HighWord(t) /\ call.low = LowWord(t)
    [] call.pc = "low2" -> HighWord(call.start) < call.high /\ call.high <= HighWord(core.ts)
    [] OTHER -> call.high * WordSize + call.low \in call.start..core.ts

TimeInv ==
  job.kind = "time" =>
    /\ core \in [ts : Nat]
    /\ call \in [pc : {"high", "low", "high2", "low2", "done"}, start : Nat, high : Nat, low : Nat]
    /\ call.start <= core.ts /\ core.ts < call.start + WordSize
    /\ ReadSoFar

LEMMA InitTime == Init => TimeInv
  <1> SUFFICES ASSUME Init, job.kind = "time" PROVE TimeInv
    BY DEF TimeInv
  <1>1. /\ core \in [ts : 0..(2 * WordSize)]
        /\ call = [pc |-> "high", start |-> core.ts, high |-> 0, low |-> 0]
    <2>1. /\ job # [kind |-> "timing"] /\ job # [kind |-> "find"] /\ job # [kind |-> "state"]
          /\ job \notin Frames \union Ranges \union Starts \union ToolStarts \union Commands
                       \union Layouts \union Addresses \union Presets
      BY Kinds
    <2> QED BY ZenonT(40), <2>1 DEF Init
  <1> QED BY <1>1, DriverHwAssumption DEF TimeInv, ReadSoFar

LEMMA NextTime == TimeInv /\ [Next]_vars => TimeInv'
  <1> SUFFICES ASSUME TimeInv, [Next]_vars, job'.kind = "time" PROVE TimeInv'
    BY DEF TimeInv
  <1>1. CASE UNCHANGED <<job, core, call>>
    BY <1>1 DEF TimeInv, ReadSoFar
  <1>2. ASSUME job.kind = "time", UNCHANGED job,
               Tick \/ ReadHigh \/ ReadLow \/ ReadHigh2 \/ ReadLow2
        PROVE  TimeInv'
    <2> DEFINE s == call.start  ts == core.ts
    <2>1. /\ core \in [ts : Nat]
          /\ call \in [pc : {"high", "low", "high2", "low2", "done"}, start : Nat, high : Nat, low : Nat]
          /\ s \in Nat /\ ts \in Nat /\ s <= ts /\ ts < s + WordSize /\ WordSize \in Nat
          /\ ReadSoFar
      BY <1>2, DriverHwAssumption DEF TimeInv
    <2>2. /\ HighWord(s) \in Nat /\ HighWord(ts) \in Nat /\ LowWord(ts) \in Nat
          /\ ts = HighWord(ts) * WordSize + LowWord(ts)
          /\ HighWord(s) <= HighWord(ts) /\ HighWord(ts) <= HighWord(s) + 1
      BY <2>1, Words, HighRises
    <2>3. CASE Tick
      <3>1. /\ call' = call /\ call.pc # "done" /\ core' = [core EXCEPT !.ts = ts + 1]
            /\ ts - s < WordSize - 1
        BY <2>3 DEF Tick
      <3>2. core' \in [ts : Nat] /\ core'.ts = ts + 1
        BY <2>1, <3>1
      <3>3. HighWord(ts) <= HighWord(ts + 1) /\ HighWord(ts + 1) \in Nat
        <4>1. ts + 1 \in Nat /\ ts <= ts + 1
          BY <2>1
        <4> QED BY <2>1, <4>1, HighRises, Words
      <3>4. ReadSoFar'
        <4>1. CASE call.pc = "high2"
          <5>1. HighWord(s) <= call.high
            BY <2>1, <4>1 DEF ReadSoFar
          <5>2. PICK t \in s..ts : call.high <= HighWord(t) /\ call.low = LowWord(t)
            BY <2>1, <4>1 DEF ReadSoFar
          <5>3. t \in s..(ts + 1)
            BY <2>1
          <5> QED BY <3>1, <3>2, <4>1, <5>1, <5>2, <5>3 DEF ReadSoFar
        <4>2. CASE call.pc \in {"low", "low2"}
          <5>1. call.high <= HighWord(ts + 1)
            BY <2>1, <2>2, <3>3, <4>2 DEF ReadSoFar
          <5> QED BY <2>1, <3>1, <3>2, <4>2, <5>1 DEF ReadSoFar
        <4>3. CASE call.pc = "high"
          BY <3>1, <4>3 DEF ReadSoFar
        <4> QED BY <2>1, <3>1, <4>1, <4>2, <4>3
      <3> QED BY <1>2, <2>1, <3>1, <3>2, <3>4 DEF TimeInv
    <2>4. CASE ReadHigh
      <3>1. core' = core /\ call' = [call EXCEPT !.pc = "low", !.high = HighWord(ts)]
        BY <2>4 DEF ReadHigh, HighWord
      <3>2. /\ call' \in [pc : {"low"}, start : Nat, high : Nat, low : Nat]
            /\ call'.start = s /\ call'.high = HighWord(ts)
        BY ZenonT(40), <2>1, <2>2, <3>1
      <3> QED BY <1>2, <2>1, <2>2, <3>1, <3>2 DEF TimeInv, ReadSoFar
    <2>5. CASE ReadLow
      <3>1. core' = core /\ call.pc = "low" /\ call' = [call EXCEPT !.pc = "high2", !.low = LowWord(ts)]
        BY <2>5 DEF ReadLow, LowWord
      <3>2. HighWord(s) <= call.high /\ call.high <= HighWord(ts) /\ ts \in s..ts
        BY <2>1, <3>1 DEF ReadSoFar
      <3> QED BY ZenonT(40), <1>2, <2>1, <2>2, <3>1, <3>2 DEF TimeInv, ReadSoFar
    <2>6. CASE ReadHigh2
      <3>1. /\ core' = core /\ call.pc = "high2"
            /\ call' = [call EXCEPT !.pc = IF call.high # HighWord(ts) THEN "low2" ELSE "done",
                                    !.high = HighWord(ts)]
        BY <2>6 DEF ReadHigh2, HighWord
      <3>2. HighWord(s) <= call.high
        BY <2>1, <3>1 DEF ReadSoFar
      <3>3. PICK t \in s..ts : call.high <= HighWord(t) /\ call.low = LowWord(t)
        BY <2>1, <3>1 DEF ReadSoFar
      <3>4. /\ t \in Nat /\ HighWord(t) \in Nat /\ HighWord(t) <= HighWord(ts)
            /\ t = HighWord(t) * WordSize + LowWord(t)
        BY <2>1, <3>3, HighRises, Words
      <3>5. CASE call.high = HighWord(ts)
        <4>1. HighWord(t) = HighWord(ts)
          BY <2>1, <2>2, <3>3, <3>4, <3>5
        <4>2. HighWord(ts) * WordSize + call.low \in s..ts
          BY <3>3, <3>4, <4>1
        <4> QED BY ZenonT(40), <1>2, <2>1, <2>2, <3>1, <3>5, <4>2 DEF TimeInv, ReadSoFar
      <3>6. CASE call.high # HighWord(ts)
        <4>1. HighWord(s) < HighWord(ts)
          BY <2>1, <2>2, <3>2, <3>3, <3>4, <3>6
        <4>2. /\ call' \in [pc : {"low2"}, start : Nat, high : Nat, low : Nat]
              /\ call'.start = s /\ call'.high = HighWord(ts)
          BY ZenonT(40), <2>1, <2>2, <3>1, <3>6
        <4>3. call'.pc = "low2" /\ core'.ts = ts
          BY ZenonT(40), <3>1, <4>2
        <4>4. HighWord(call'.start) < call'.high
          BY <4>1, <4>2
        <4>5. call'.high <= HighWord(core'.ts)
          BY <2>2, <4>2, <4>3
        <4>6. ReadSoFar'
          BY <4>3, <4>4, <4>5 DEF ReadSoFar
        <4> QED BY <1>2, <2>1, <3>1, <4>2, <4>6 DEF TimeInv
      <3> QED BY <3>5, <3>6
    <2>7. CASE ReadLow2
      <3>1. core' = core /\ call.pc = "low2" /\ call' = [call EXCEPT !.pc = "done", !.low = LowWord(ts)]
        BY <2>7 DEF ReadLow2, LowWord
      <3>2. call.high = HighWord(ts)
        BY <2>1, <2>2, <3>1 DEF ReadSoFar
      <3>3. call.high * WordSize + LowWord(ts) \in s..ts
        BY <2>1, <2>2, <3>2
      <3> QED BY ZenonT(40), <1>2, <2>1, <2>2, <3>1, <3>3 DEF TimeInv, ReadSoFar
    <2> QED BY <1>2, <2>3, <2>4, <2>5, <2>6, <2>7
  <1>3. CASE Timing \/ Find \/ UNCHANGED vars
    BY <1>1, <1>3 DEF Timing, Find, vars
  <1>4. CASE Count \/ Confine \/ ReadFault \/ ReadCounters
    <2>1. job' = job /\ job.kind = "state"
      BY <1>4 DEF Count, Confine, ReadFault, ReadCounters
    <2> QED BY <2>1
  <1>5. CASE Tick \/ ReadHigh \/ ReadLow \/ ReadHigh2 \/ ReadLow2
    <2>1. job' = job /\ job.kind = "time"
      BY <1>5 DEF Tick, ReadHigh, ReadLow, ReadHigh2, ReadLow2
    <2> QED BY <1>2, <1>5, <2>1
  <1> QED BY <1>3, <1>4, <1>5 DEF Next

-----------------------------------------------------------------------------
(***************************************************************************)
(* The timestamp that ctu_can_fd_read_timestamp puts together from two     *)
(* registers of a running counter is one that the counter had between the  *)
(* beginning and the end of the call, whatever the size of a word, if the  *)
(* call takes less than a full turn of the low word.                       *)
(***************************************************************************)
THEOREM DriverHwTimestamp == Spec => []TimestampWasReal
  <1>1. TimeInv => TimestampWasReal
    BY DEF TimeInv, ReadSoFar, TimestampWasReal
  <1> QED BY <1>1, InitTime, NextTime, PTL DEF Spec

-----------------------------------------------------------------------------
(* Fields of a register word.                                              *)

Span(u, i) == Low(u, i)..High(u, i)
Name(u, i) == u[i][1]
FieldRange(u, i) == 0..(2^u[i][2] - 1)
Placed(u, i, v) == {Low(u, i) + b : b \in Bits(v)}

\* vals gives fields of u values that they hold.
Fit(u, vals) == \A i \in Named(u) : Name(u, i) \in DOMAIN vals => vals[Name(u, i)] \in FieldRange(u, i)

LEMMA Field ==
  ASSUME NEW u \in FieldUnions, NEW i \in Named(u)
  PROVE  /\ Low(u, i) \in Nat /\ u[i][2] \in Nat /\ High(u, i) = Low(u, i) + u[i][2] - 1
         /\ CoreBits[Name(u, i)] = <<Low(u, i), High(u, i)>>
         /\ Index(u, Name(u, i)) = i
         /\ \A v \in FieldRange(u, i) :
              v % 2^u[i][2] = v /\ Bits(v) \subseteq 0..(u[i][2] - 1) /\ Value(Bits(v)) = v
  <1>1. /\ UnionAgrees(u) /\ Low(u, i) \in 0..31 /\ u[i][2] \in 1..18 /\ Holds(u[i][2])
        /\ \A j \in Named(u) : i # j => u[i][1] # u[j][1]
    BY FieldsAssumption
  <1>2. i \in DOMAIN u /\ u[i][1] # ""
    BY DEF Named
  <1>3. \A j \in DOMAIN u : u[j][1] = u[i][1] => j = i
    BY <1>1, <1>2 DEF Named
  <1>4. Index(u, Name(u, i)) = i
    BY <1>2, <1>3 DEF Index, Name
  <1>5. CoreBits[Name(u, i)] = <<Low(u, i), High(u, i)>>
    BY <1>1 DEF UnionAgrees, Name
  <1> QED BY <1>1, <1>4, <1>5 DEF High, Holds, FieldRange

\* Two fields have no bit in common.
LEMMA FieldsDisjoint ==
  ASSUME NEW u \in FieldUnions, NEW i \in Named(u), NEW j \in Named(u), i # j
  PROVE  Span(u, i) \cap Span(u, j) = {} /\ Name(u, i) # Name(u, j)
  <1>1. /\ u[i][1] # u[j][1]
        /\ High(u, i) < Low(u, j) \/ High(u, j) < Low(u, i)
    BY FieldsAssumption
  <1>2. /\ Low(u, i) \in Nat /\ High(u, i) \in Int /\ Low(u, j) \in Nat /\ High(u, j) \in Int
    BY Field
  <1> QED BY <1>1, <1>2 DEF Span, Name

LEMMA PlacedInSpan ==
  ASSUME NEW u \in FieldUnions, NEW i \in Named(u), NEW v \in FieldRange(u, i)
  PROVE  Placed(u, i, v) \subseteq Span(u, i)
  <1>1. /\ Low(u, i) \in Nat /\ u[i][2] \in Nat /\ High(u, i) = Low(u, i) + u[i][2] - 1
        /\ Bits(v) \subseteq 0..(u[i][2] - 1)
    BY Field
  <1> QED BY <1>1 DEF Placed, Span

\* Driver and core read from a field what its bits say.
LEMMA ReadField ==
  ASSUME NEW u \in FieldUnions, NEW i \in Named(u), NEW v \in FieldRange(u, i), NEW word,
         word \cap Span(u, i) = Placed(u, i, v)
  PROVE  Get(u, word, Name(u, i)) = v /\ Slice(word, Name(u, i)) = v
  <1> DEFINE low == Low(u, i)
  <1>1. /\ low \in Nat /\ Bits(v) \subseteq Int /\ Value(Bits(v)) = v
        /\ CoreBits[Name(u, i)] = <<low, High(u, i)>> /\ Index(u, Name(u, i)) = i
    <2>1. Bits(v) \subseteq Int
      BY DEF Bits
    <2> QED BY <2>1, Field
  <1>2. {b - low : b \in word \cap low..High(u, i)} = Bits(v)
    <2>1. word \cap low..High(u, i) = {low + b : b \in Bits(v)}
      BY DEF Span, Placed
    <2>2. ASSUME NEW x \in Bits(v) PROVE \E b \in word \cap low..High(u, i) : x = b - low
      <3>1. low + x \in word \cap low..High(u, i) /\ x = (low + x) - low
        BY <1>1, <2>1
      <3> QED BY <3>1
    <2>3. ASSUME NEW b \in word \cap low..High(u, i) PROVE b - low \in Bits(v)
      <3>1. PICK x \in Bits(v) : b = low + x
        BY <2>1
      <3> QED BY <1>1, <3>1
    <2> QED BY <2>2, <2>3
  <1>3. Get(u, word, Name(u, i)) = v
    BY ZenonT(40), <1>1, <1>2 DEF Get
  <1>4. Slice(word, Name(u, i)) = v
    <2>1. CoreBits[Name(u, i)][1] = low /\ CoreBits[Name(u, i)][2] = High(u, i)
      BY <1>1
    <2> QED BY ZenonT(40), <1>1, <1>2, <2>1 DEF Slice
  <1> QED BY <1>3, <1>4

\* Where fields are written, the fields named in vals change and no others.
LEMMA WithField ==
  ASSUME NEW u \in FieldUnions, NEW i \in Named(u), NEW word, NEW vals, Fit(u, vals)
  PROVE  With(u, word, vals) \cap Span(u, i) =
           IF Name(u, i) \in DOMAIN vals THEN Placed(u, i, vals[Name(u, i)])
           ELSE word \cap Span(u, i)
  <1> DEFINE written == {j \in Named(u) : u[j][1] \in DOMAIN vals}
             F(j) == Placed(u, j, vals[Name(u, j)])
  <1>1. ASSUME NEW j \in written
        PROVE  /\ F(j) = {Low(u, j) + b : b \in Bits(vals[u[j][1]] % 2^u[j][2])}
               /\ F(j) \subseteq Span(u, j)
    <2>1. vals[Name(u, j)] \in FieldRange(u, j) /\ vals[Name(u, j)] % 2^u[j][2] = vals[Name(u, j)]
      BY Field DEF Fit, Name
    <2> QED BY <2>1, PlacedInSpan DEF Placed, Name
  <1>2. With(u, word, vals) = (word \ UNION {Span(u, j) : j \in written})
                                \union UNION {F(j) : j \in written}
    <2> DEFINE G(j) == {Low(u, j) + b : b \in Bits(vals[u[j][1]] % 2^u[j][2])}
    <2>1. \A j \in written : F(j) = G(j)
      BY <1>1
    <2>2. With(u, word, vals) = (word \ UNION {Span(u, j) : j \in written})
                                  \union UNION {G(j) : j \in written}
      BY ZenonT(40) DEF With, Span
    <2> HIDE DEF F, G
    <2>3. UNION {G(j) : j \in written} = UNION {F(j) : j \in written}
      BY ZenonT(40), <2>1
    <2> QED BY <2>2, <2>3
  <1>3. ASSUME NEW j \in written, j # i PROVE Span(u, i) \cap Span(u, j) = {}
    BY <1>3, FieldsDisjoint
  <1> HIDE DEF F
  <1>4. CASE i \in written
    <2>1. With(u, word, vals) \cap Span(u, i) = F(i)
      BY <1>1, <1>2, <1>3, <1>4
    <2> QED BY <1>4, <2>1 DEF F, Name
  <1>5. CASE i \notin written
    <2>1. With(u, word, vals) \cap Span(u, i) = word \cap Span(u, i)
      BY <1>1, <1>2, <1>3, <1>5
    <2> QED BY <1>5, <2>1 DEF Name
  <1> QED BY <1>4, <1>5

\* The core assembles a word of the fields named in vals and zeroes.
LEMMA AssembledField ==
  ASSUME NEW u \in FieldUnions, NEW i \in Named(u), NEW vals, Fit(u, vals),
         DOMAIN vals \subseteq {Name(u, j) : j \in Named(u)}
  PROVE  Assembled(vals) \cap Span(u, i) =
           IF Name(u, i) \in DOMAIN vals THEN Placed(u, i, vals[Name(u, i)]) ELSE {}
  <1> DEFINE written == {j \in Named(u) : Name(u, j) \in DOMAIN vals}
             F(j) == Placed(u, j, vals[Name(u, j)])
  <1>1. ASSUME NEW j \in written
        PROVE  /\ F(j) = {CoreBits[Name(u, j)][1] + b : b \in Bits(vals[Name(u, j)])}
               /\ F(j) \subseteq Span(u, j)
    <2>1. vals[Name(u, j)] \in FieldRange(u, j) /\ CoreBits[Name(u, j)][1] = Low(u, j)
      BY Field DEF Fit
    <2> QED BY <2>1, PlacedInSpan DEF Placed
  <1>2. Assembled(vals) = UNION {F(j) : j \in written}
    <2> DEFINE G(name) == {CoreBits[name][1] + b : b \in Bits(vals[name])}
    <2>1. \A j \in written : F(j) = G(Name(u, j))
      BY <1>1
    <2>2. Assembled(vals) = UNION {G(name) : name \in DOMAIN vals}
      BY ZenonT(40) DEF Assembled
    <2>3. DOMAIN vals = {Name(u, j) : j \in written}
      OBVIOUS
    <2> HIDE DEF F, G, written
    <2>4. UNION {G(name) : name \in DOMAIN vals} = UNION {F(j) : j \in written}
      BY ZenonT(40), <2>1, <2>3
    <2> QED BY <2>2, <2>4
  <1>3. ASSUME NEW j \in written, j # i PROVE Span(u, i) \cap Span(u, j) = {}
    BY <1>3, FieldsDisjoint
  <1> HIDE DEF F
  <1>4. CASE i \in written
    <2>1. Assembled(vals) \cap Span(u, i) = F(i)
      BY <1>1, <1>2, <1>3, <1>4
    <2> QED BY <1>4, <2>1 DEF F
  <1>5. CASE i \notin written
    <2>1. Assembled(vals) \cap Span(u, i) = {}
      BY <1>1, <1>2, <1>3, <1>5
    <2> QED BY <1>5, <2>1
  <1> QED BY <1>4, <1>5

-----------------------------------------------------------------------------
(* The registers of the error state.                                       *)

\* A number with no more bits than the field is in its range.
LEMMA InRange ==
  ASSUME NEW u, NEW i, NEW k \in Nat, u[i][2] = k, NEW v \in Nat, v < 2^k, 2^k \in Nat
  PROVE  v \in FieldRange(u, i)
  BY DEF FieldRange

LEMMA FaultUnion ==
  LET u == ewl_erp_fault_state
  IN /\ u \in FieldUnions /\ Named(u) = {1, 2, 3, 4, 5}
     /\ Name(u, 1) = "ew_limit" /\ u[1][2] = 8 /\ Name(u, 2) = "erp_limit" /\ u[2][2] = 8
     /\ Name(u, 3) = "era" /\ u[3][2] = 1 /\ Name(u, 4) = "erp" /\ u[4][2] = 1
     /\ Name(u, 5) = "bof" /\ u[5][2] = 1
  <1> DEFINE u == ewl_erp_fault_state
  <1>1. /\ DOMAIN u = {1, 2, 3, 4, 5, 6} /\ u[6][1] = ""
        /\ u[1][1] = "ew_limit" /\ u[1][2] = 8 /\ u[2][1] = "erp_limit" /\ u[2][2] = 8
        /\ u[3][1] = "era" /\ u[3][2] = 1 /\ u[4][1] = "erp" /\ u[4][2] = 1
        /\ u[5][1] = "bof" /\ u[5][2] = 1
    BY DEF ewl_erp_fault_state
  <1>2. u \in FieldUnions
    BY DEF FieldUnions
  <1> HIDE DEF u
  <1>3. Named(u) = {1, 2, 3, 4, 5}
    BY <1>1 DEF Named
  <1> QED BY <1>1, <1>2, <1>3 DEF u, Name

LEMMA CounterUnion ==
  LET u == rxc_txc
  IN /\ u \in FieldUnions /\ Named(u) = {1, 2}
     /\ Name(u, 1) = "rxc_val" /\ u[1][2] = 16 /\ Name(u, 2) = "txc_val" /\ u[2][2] = 16
  <1> DEFINE u == rxc_txc
  <1>1. /\ DOMAIN u = {1, 2}
        /\ u[1][1] = "rxc_val" /\ u[1][2] = 16 /\ u[2][1] = "txc_val" /\ u[2][2] = 16
    BY DEF rxc_txc
  <1>2. u \in FieldUnions
    BY DEF FieldUnions
  <1> HIDE DEF u
  <1>3. Named(u) = {1, 2}
    BY <1>1 DEF Named
  <1> QED BY <1>1, <1>2, <1>3 DEF u, Name

\* Everything that the core assembles from fields of u is read back.
LEMMA AssembledRead ==
  ASSUME NEW u \in FieldUnions, NEW vals, Fit(u, vals),
         DOMAIN vals \subseteq {Name(u, j) : j \in Named(u)},
         NEW i \in Named(u), Name(u, i) \in DOMAIN vals
  PROVE  /\ Get(u, Assembled(vals), Name(u, i)) = vals[Name(u, i)]
         /\ Slice(Assembled(vals), Name(u, i)) = vals[Name(u, i)]
  <1>1. vals[Name(u, i)] \in FieldRange(u, i)
    BY DEF Fit
  <1>2. Assembled(vals) \cap Span(u, i) = Placed(u, i, vals[Name(u, i)])
    BY AssembledField
  <1> QED BY <1>1, <1>2, ReadField

\* The driver reads the warning limit and the fault state of the core.
LEMMA FaultWordRead ==
  ASSUME NEW f \in {"era", "erp", "bof"}
  PROVE  LET Read(name) == Get(ewl_erp_fault_state, FaultWord(f), name)
         IN  /\ Read("ew_limit") = 96 /\ Read("era") = Flag(f = "era")
             /\ Read("erp") = Flag(f = "erp") /\ Read("bof") = Flag(f = "bof")
  <1> DEFINE u == ewl_erp_fault_state
             vals == [ew_limit |-> EW_LIMIT, erp_limit |-> ERP_LIMIT, era |-> Flag(f = "era"),
                      erp |-> Flag(f = "erp"), bof |-> Flag(f = "bof")]
  <1>1. /\ DOMAIN vals = {"ew_limit", "erp_limit", "era", "erp", "bof"}
        /\ vals["ew_limit"] = 96 /\ vals["erp_limit"] = 128 /\ vals["era"] = Flag(f = "era")
        /\ vals["erp"] = Flag(f = "erp") /\ vals["bof"] = Flag(f = "bof")
    BY DEF EW_LIMIT, ERP_LIMIT
  <1>2. FaultWord(f) = Assembled(vals)
    BY DEF FaultWord
  <1>3. Flag(f = "era") \in {0, 1} /\ Flag(f = "erp") \in {0, 1} /\ Flag(f = "bof") \in {0, 1}
    BY DEF Flag
  <1>4. Name(u, 1) = "ew_limit" /\ Name(u, 2) = "erp_limit" /\ Name(u, 3) = "era"
        /\ Name(u, 4) = "erp" /\ Name(u, 5) = "bof" /\ Named(u) = {1, 2, 3, 4, 5}
        /\ u \in FieldUnions
    BY FaultUnion
  <1>5. 96 \in FieldRange(u, 1) /\ 128 \in FieldRange(u, 2)
    <2>1. u[1][2] = 8 /\ u[2][2] = 8 /\ 96 < 2^8 /\ 128 < 2^8 /\ 2^8 \in Nat
      BY FaultUnion
    <2> QED BY ZenonT(40), <2>1, InRange
  <1>6. \A b \in {0, 1} : b \in FieldRange(u, 3) /\ b \in FieldRange(u, 4) /\ b \in FieldRange(u, 5)
    <2>1. u[3][2] = 1 /\ u[4][2] = 1 /\ u[5][2] = 1 /\ 0 < 2^1 /\ 1 < 2^1 /\ 2^1 \in Nat
      BY FaultUnion
    <2> QED BY ZenonT(40), <2>1, InRange
  <1> HIDE DEF u, vals
  <1>7. Fit(u, vals)
    BY <1>1, <1>3, <1>4, <1>5, <1>6 DEF Fit
  <1>8. DOMAIN vals \subseteq {Name(u, j) : j \in Named(u)}
    BY <1>1, <1>4
  <1>9. \A i \in Named(u) : Get(u, FaultWord(f), Name(u, i)) = vals[Name(u, i)]
    BY <1>1, <1>2, <1>4, <1>7, <1>8, AssembledRead
  <1> QED BY <1>1, <1>4, <1>9 DEF u

\* The driver reads the counters of the core.
LEMMA CounterWordRead ==
  ASSUME NEW c, c.tx \in Nat, c.tx < 512, c.rx \in Nat, c.rx < 512
  PROVE  /\ Get(rxc_txc, CounterWord(c), "rxc_val") = c.rx
         /\ Get(rxc_txc, CounterWord(c), "txc_val") = c.tx
  <1> DEFINE u == rxc_txc
             vals == [rxc_val |-> c.rx, txc_val |-> c.tx]
  <1>1. DOMAIN vals = {"rxc_val", "txc_val"} /\ vals["rxc_val"] = c.rx /\ vals["txc_val"] = c.tx
    OBVIOUS
  <1>2. CounterWord(c) = Assembled(vals)
    BY DEF CounterWord
  <1>3. Name(u, 1) = "rxc_val" /\ Name(u, 2) = "txc_val" /\ Named(u) = {1, 2} /\ u \in FieldUnions
    BY CounterUnion
  <1>4. c.rx \in FieldRange(u, 1) /\ c.tx \in FieldRange(u, 2)
    <2>1. u[1][2] = 16 /\ u[2][2] = 16 /\ c.rx < 2^16 /\ c.tx < 2^16 /\ 2^16 \in Nat
      BY CounterUnion
    <2> QED BY ZenonT(40), <2>1, InRange
  <1> HIDE DEF u, vals
  <1>5. Fit(u, vals)
    BY <1>1, <1>3, <1>4 DEF Fit
  <1>6. DOMAIN vals \subseteq {Name(u, j) : j \in Named(u)}
    BY <1>1, <1>3
  <1>7. \A i \in Named(u) : Get(u, CounterWord(c), Name(u, i)) = vals[Name(u, i)]
    BY <1>1, <1>2, <1>3, <1>5, <1>6, AssembledRead
  <1> QED BY <1>1, <1>3, <1>7 DEF u

-----------------------------------------------------------------------------
(* The error state: the inductive invariant.                               *)

Faults == {"era", "erp", "bof"}

\* The states that a call may return once it has read fault state f: the one
\* read is in seen, and if the core has left the error active state since then,
\* it passed through the warning state.
FaultRead(f) ==
  /\ f = "era" /\ core.fault # "era" => "WARNING" \in call.seen
  /\ f = "erp" => "PASSIVE" \in call.seen
  /\ f = "bof" => "BUS_OFF" \in call.seen

\* A counter is not more than one event away from what the fault state says.
FaultLag ==
  /\ core.fault = "erp" => Above(core, 120)
  /\ core.fault = "bof" => Above(core, 256)

ErrorInv ==
  job.kind = "state" =>
    /\ core = [tx |-> core.tx, rx |-> core.rx, fault |-> core.fault]
    /\ core.tx \in Nat /\ core.tx < 512 /\ core.rx \in Nat /\ core.rx < 512
    /\ core.fault \in Faults /\ FaultLag
    /\ call = [pc |-> call.pc, events |-> call.events, seen |-> call.seen,
               word |-> call.word, result |-> call.result]
    /\ CoreState(core) \in call.seen
    /\ call.pc \in {"fault", "counters", "done"}
    /\ call.pc = "counters" => \E f \in Faults : call.word = FaultWord(f) /\ FaultRead(f)
    /\ call.pc = "done" => call.result \in call.seen

LEMMA InitError == Init => ErrorInv
  <1> SUFFICES ASSUME Init, job.kind = "state" PROVE ErrorInv
    BY DEF ErrorInv
  <1>1. /\ core \in [tx : Counters, rx : Counters, fault : Faults] /\ core.fault = FaultState(core)
        /\ call = [pc |-> "fault", events |-> 0, seen |-> {CoreState(core)}, word |-> {}, result |-> ""]
    <2>1. /\ job # [kind |-> "timing"] /\ job # [kind |-> "find"] /\ job # [kind |-> "time"]
          /\ job \notin Frames \union Ranges \union Starts \union ToolStarts \union Commands
                       \union Layouts \union Addresses \union Presets
      BY Kinds
    <2> QED BY ZenonT(40), <2>1 DEF Init, Faults
  <1>2. core.tx \in Nat /\ core.tx < 512 /\ core.rx \in Nat /\ core.rx < 512
    <2>1. core.tx \in Counters /\ core.rx \in Counters
      BY <1>1
    <2>2. \A n \in Counters : n \in Nat /\ n < 512
      BY ZenonT(40), DriverHwAssumption
    <2> QED BY <2>1, <2>2
  <1>3. FaultLag
    <2>1. core.fault = FaultState(core)
      BY <1>1
    <2> QED BY <1>2, <2>1 DEF FaultLag, FaultState, Above, bus_off_th, ERP_LIMIT
  <1> QED BY <1>1, <1>2, <1>3 DEF ErrorInv

\* One event moves a counter by eight at most.
LEMMA CountedCore ==
  ASSUME NEW c, c = [tx |-> c.tx, rx |-> c.rx, fault |-> c.fault],
         c.tx \in Nat, c.rx \in Nat, c.fault \in Faults, c.fault # "bof", c.fault = FaultState(c),
         NEW d \in CountedCores(c)
  PROVE  /\ d = [tx |-> d.tx, rx |-> d.rx, fault |-> c.fault]
         /\ d.tx \in Nat /\ d.tx < 264 /\ d.rx \in Nat /\ d.rx < 264
         /\ c.fault = "erp" => Above(d, 120)
  <1>1. c.tx < 256 /\ c.rx < 256 /\ (c.fault = "erp" => c.tx >= 128 \/ c.rx >= 128)
    BY DEF FaultState, Above, bus_off_th, ERP_LIMIT
  <1>2. \/ d = [tx |-> c.tx + 1, rx |-> c.rx, fault |-> c.fault]
        \/ d = [tx |-> c.tx + 8, rx |-> c.rx, fault |-> c.fault]
        \/ d = [tx |-> TxDec(c.tx), rx |-> c.rx, fault |-> c.fault]
        \/ d = [tx |-> c.tx, rx |-> c.rx + 1, fault |-> c.fault]
        \/ d = [tx |-> c.tx, rx |-> c.rx + 8, fault |-> c.fault]
        \/ d = [tx |-> c.tx, rx |-> RxDec(c.rx), fault |-> c.fault]
    BY DEF CountedCores
  <1>3. /\ TxDec(c.tx) \in Nat /\ TxDec(c.tx) <= c.tx /\ (c.tx >= 128 => TxDec(c.tx) >= 120)
        /\ RxDec(c.rx) \in Nat /\ RxDec(c.rx) <= c.rx /\ (c.rx >= 128 => RxDec(c.rx) >= 120)
    BY DEF TxDec, RxDec
  <1>4. ASSUME NEW t \in Nat, NEW r \in Nat, t < 264, r < 264,
               c.fault = "erp" => t >= 120 \/ r >= 120, d = [tx |-> t, rx |-> r, fault |-> c.fault]
        PROVE  /\ d = [tx |-> d.tx, rx |-> d.rx, fault |-> c.fault]
               /\ d.tx \in Nat /\ d.tx < 264 /\ d.rx \in Nat /\ d.rx < 264
               /\ c.fault = "erp" => Above(d, 120)
    BY <1>4 DEF Above
  <1>5. CASE d = [tx |-> c.tx + 1, rx |-> c.rx, fault |-> c.fault]
    BY <1>1, <1>4, <1>5
  <1>6. CASE d = [tx |-> c.tx + 8, rx |-> c.rx, fault |-> c.fault]
    BY <1>1, <1>4, <1>6
  <1>7. CASE d = [tx |-> TxDec(c.tx), rx |-> c.rx, fault |-> c.fault]
    BY <1>1, <1>3, <1>4, <1>7
  <1>8. CASE d = [tx |-> c.tx, rx |-> c.rx + 1, fault |-> c.fault]
    BY <1>1, <1>4, <1>8
  <1>9. CASE d = [tx |-> c.tx, rx |-> c.rx + 8, fault |-> c.fault]
    BY <1>1, <1>4, <1>9
  <1>10. CASE d = [tx |-> c.tx, rx |-> RxDec(c.rx), fault |-> c.fault]
    BY <1>1, <1>3, <1>4, <1>10
  <1> QED BY <1>2, <1>5, <1>6, <1>7, <1>8, <1>9, <1>10

\* What the call makes of a fault state and the counters that it reads later.
LEMMA ErrorStateRead ==
  ASSUME NEW f \in Faults, NEW c, c.tx \in Nat, c.tx < 512, c.rx \in Nat, c.rx < 512
  PROVE  read_error_state(FaultWord(f), CounterWord(c)) =
           CASE f = "era" -> (IF Above(c, 96) THEN "WARNING" ELSE "ACTIVE")
             [] f = "erp" -> "PASSIVE"
             [] OTHER -> "BUS_OFF"
  <1> DEFINE R(name) == Get(ewl_erp_fault_state, FaultWord(f), name)
             rxc == Get(rxc_txc, CounterWord(c), "rxc_val")
             txc == Get(rxc_txc, CounterWord(c), "txc_val")
  <1>1. R("ew_limit") = 96 /\ R("era") = Flag(f = "era") /\ R("erp") = Flag(f = "erp")
        /\ R("bof") = Flag(f = "bof")
    BY FaultWordRead DEF Faults
  <1>2. rxc = c.rx /\ txc = c.tx
    BY CounterWordRead
  <1>3. read_error_state(FaultWord(f), CounterWord(c)) =
          CASE R("era") = 1 -> (IF R("ew_limit") > rxc /\ R("ew_limit") > txc
                                THEN "ACTIVE" ELSE "WARNING")
            [] R("erp") = 1 -> "PASSIVE"
            [] R("bof") = 1 -> "BUS_OFF"
            [] OTHER -> "PASSIVE"
    BY DEF read_error_state
  <1> HIDE DEF R, rxc, txc
  <1>4. CASE f = "era"
    BY <1>1, <1>2, <1>3, <1>4 DEF Flag, Above
  <1>5. CASE f = "erp"
    BY <1>1, <1>3, <1>5 DEF Flag
  <1>6. CASE f = "bof"
    BY <1>1, <1>3, <1>6 DEF Flag
  <1> QED BY <1>4, <1>5, <1>6 DEF Faults

LEMMA NextError == ErrorInv /\ [Next]_vars => ErrorInv'
  <1> SUFFICES ASSUME ErrorInv, [Next]_vars, job'.kind = "state" PROVE ErrorInv'
    BY DEF ErrorInv
  <1>1. CASE UNCHANGED <<job, core, call>>
    BY <1>1 DEF ErrorInv, FaultLag, FaultRead, CoreState, Above
  <1>2. ASSUME job.kind = "state", UNCHANGED job, Count \/ Confine \/ ReadFault \/ ReadCounters
        PROVE  ErrorInv'
    <2>1. /\ core = [tx |-> core.tx, rx |-> core.rx, fault |-> core.fault]
          /\ core.tx \in Nat /\ core.tx < 512 /\ core.rx \in Nat /\ core.rx < 512
          /\ core.fault \in Faults /\ FaultLag
          /\ call = [pc |-> call.pc, events |-> call.events, seen |-> call.seen,
                     word |-> call.word, result |-> call.result]
          /\ CoreState(core) \in call.seen
          /\ call.pc \in {"fault", "counters", "done"}
          /\ call.pc = "counters" => \E f \in Faults : call.word = FaultWord(f) /\ FaultRead(f)
      BY <1>2 DEF ErrorInv
    <2>2. CASE Count
      <3>1. /\ call.pc # "done" /\ core.fault # "bof" /\ core.fault = FaultState(core)
            /\ core' \in CountedCores(core)
            /\ call' = [call EXCEPT !.events = @ + 1, !.seen = @ \union {CoreState(core')}]
        BY <2>2 DEF Count
      <3>2. /\ core' = [tx |-> core'.tx, rx |-> core'.rx, fault |-> core.fault]
            /\ core'.tx \in Nat /\ core'.tx < 264 /\ core'.rx \in Nat /\ core'.rx < 264
            /\ core.fault = "erp" => Above(core', 120)
        BY <2>1, <3>1, CountedCore
      <3>3. core'.fault = core.fault
        BY <3>2
      <3>4. FaultLag'
        BY <2>1, <3>1, <3>2, <3>3 DEF FaultLag
      <3>5. /\ call' = [pc |-> call.pc, events |-> call.events + 1,
                        seen |-> call.seen \union {CoreState(core')},
                        word |-> call.word, result |-> call.result]
        BY ZenonT(40), <2>1, <3>1
      <3>6. call'.pc = call.pc /\ call'.seen = call.seen \union {CoreState(core')} /\ call'.word = call.word
        BY <3>5
      <3>7. ASSUME NEW f \in Faults, FaultRead(f) PROVE FaultRead(f)'
        BY <3>3, <3>6, <3>7 DEF FaultRead
      <3>8. call'.pc = "counters" => \E f \in Faults : call'.word = FaultWord(f) /\ FaultRead(f)'
        BY <2>1, <3>6, <3>7
      <3>9. CoreState(core') \in call'.seen /\ call'.pc \in {"fault", "counters", "done"} /\ call'.pc # "done"
        BY <2>1, <3>1, <3>6
      <3>10. /\ call' = [pc |-> call'.pc, events |-> call'.events, seen |-> call'.seen,
                         word |-> call'.word, result |-> call'.result]
             /\ core' = [tx |-> core'.tx, rx |-> core'.rx, fault |-> core'.fault]
        BY <3>2, <3>3, <3>5
      <3>11. core'.tx < 512 /\ core'.rx < 512 /\ core'.fault \in Faults
        BY <2>1, <3>2, <3>3
      <3> QED BY <3>2, <3>4, <3>8, <3>9, <3>10, <3>11 DEF ErrorInv
    <2>3. CASE Confine
      <3>1. /\ call.pc # "done" /\ core.fault # FaultState(core)
            /\ core' = [core EXCEPT !.fault = FaultState(core)]
            /\ call' = [call EXCEPT !.seen = @ \union {CoreState(core')}]
        BY <2>3 DEF Confine
      <3>2. /\ core' = [tx |-> core.tx, rx |-> core.rx, fault |-> FaultState(core)]
            /\ core'.tx = core.tx /\ core'.rx = core.rx /\ core'.fault = FaultState(core)
        BY <2>1, <3>1
      <3>3. FaultState(core) \in Faults
        BY DEF FaultState, Faults
      <3>4. FaultLag'
        BY <2>1, <3>2 DEF FaultLag, FaultState, Above, bus_off_th, ERP_LIMIT
      <3>5. /\ call' = [pc |-> call.pc, events |-> call.events,
                        seen |-> call.seen \union {CoreState(core')},
                        word |-> call.word, result |-> call.result]
        BY <2>1, <3>1
      <3>6. call'.pc = call.pc /\ call'.seen = call.seen \union {CoreState(core')} /\ call'.word = call.word
        BY <3>5
      <3>7. core.fault = "era" => "WARNING" \in call.seen
        BY <2>1, <3>1 DEF CoreState, FaultState, Above, bus_off_th, ERP_LIMIT, EW_LIMIT
      <3>8. ASSUME NEW f \in Faults, FaultRead(f) PROVE FaultRead(f)'
        BY <3>6, <3>7, <3>8 DEF FaultRead
      <3>9. call'.pc = "counters" => \E f \in Faults : call'.word = FaultWord(f) /\ FaultRead(f)'
        BY <2>1, <3>6, <3>8
      <3>10. CoreState(core') \in call'.seen /\ call'.pc \in {"fault", "counters", "done"} /\ call'.pc # "done"
        BY <2>1, <3>1, <3>6
      <3>11. /\ call' = [pc |-> call'.pc, events |-> call'.events, seen |-> call'.seen,
                         word |-> call'.word, result |-> call'.result]
             /\ core' = [tx |-> core'.tx, rx |-> core'.rx, fault |-> core'.fault]
        BY <3>2, <3>5
      <3> QED BY <2>1, <3>2, <3>3, <3>4, <3>9, <3>10, <3>11 DEF ErrorInv
    <2>4. CASE ReadFault
      <3>1. core' = core /\ call' = [call EXCEPT !.pc = "counters", !.word = FaultWord(core.fault)]
        BY <2>4 DEF ReadFault
      <3>2. call' = [pc |-> "counters", events |-> call.events, seen |-> call.seen,
                     word |-> FaultWord(core.fault), result |-> call.result]
        BY ZenonT(40), <2>1, <3>1
      <3>3. call'.pc = "counters" /\ call'.seen = call.seen /\ call'.word = FaultWord(core.fault)
        BY <3>2
      <3>4. FaultRead(core.fault)'
        BY <2>1, <3>1, <3>3 DEF FaultRead, CoreState, Faults
      <3>5. /\ call' = [pc |-> call'.pc, events |-> call'.events, seen |-> call'.seen,
                        word |-> call'.word, result |-> call'.result]
            /\ FaultLag' /\ CoreState(core') \in call'.seen
        BY ZenonT(40), <2>1, <3>1, <3>2, <3>3 DEF FaultLag
      <3> QED BY ZenonT(40), <2>1, <3>1, <3>3, <3>4, <3>5 DEF ErrorInv
    <2>5. CASE ReadCounters
      <3>1. /\ call.pc = "counters" /\ core' = core
            /\ call' = [call EXCEPT !.pc = "done",
                                    !.result = read_error_state(call.word, CounterWord(core))]
        BY <2>5 DEF ReadCounters
      <3>2. PICK f \in Faults : call.word = FaultWord(f) /\ FaultRead(f)
        BY <2>1, <3>1
      <3>3. read_error_state(call.word, CounterWord(core)) =
              CASE f = "era" -> (IF Above(core, 96) THEN "WARNING" ELSE "ACTIVE")
                [] f = "erp" -> "PASSIVE"
                [] OTHER -> "BUS_OFF"
        BY <2>1, <3>2, ErrorStateRead
      <3>4. read_error_state(call.word, CounterWord(core)) \in call.seen
        <4>1. CASE f = "era" /\ core.fault = "era"
          BY <2>1, <3>3, <4>1 DEF CoreState, EW_LIMIT
        <4>2. CASE f = "era" /\ core.fault # "era"
          <5>1. Above(core, 96)
            BY <2>1, <4>2 DEF FaultLag, Above, Faults
          <5> QED BY <3>2, <3>3, <4>2, <5>1 DEF FaultRead
        <4>3. CASE f # "era"
          BY <3>2, <3>3, <4>3 DEF FaultRead, Faults
        <4> QED BY <4>1, <4>2, <4>3
      <3>5. call' = [pc |-> "done", events |-> call.events, seen |-> call.seen, word |-> call.word,
                     result |-> read_error_state(call.word, CounterWord(core))]
        BY ZenonT(40), <2>1, <3>1
      <3>6. call'.pc = "done" /\ call'.seen = call.seen
            /\ call'.result = read_error_state(call.word, CounterWord(core))
        BY <3>5
      <3>7. /\ call' = [pc |-> call'.pc, events |-> call'.events, seen |-> call'.seen,
                        word |-> call'.word, result |-> call'.result]
            /\ FaultLag' /\ CoreState(core') \in call'.seen
        BY ZenonT(40), <2>1, <3>1, <3>5, <3>6 DEF FaultLag
      <3> QED BY ZenonT(40), <2>1, <3>1, <3>4, <3>6, <3>7 DEF ErrorInv
    <2> QED BY <1>2, <2>2, <2>3, <2>4, <2>5
  <1>3. CASE Timing \/ Find \/ UNCHANGED vars
    BY <1>1, <1>3 DEF Timing, Find, vars
  <1>4. CASE Tick \/ ReadHigh \/ ReadLow \/ ReadHigh2 \/ ReadLow2
    <2>1. job' = job /\ job.kind = "time"
      BY <1>4 DEF Tick, ReadHigh, ReadLow, ReadHigh2, ReadLow2
    <2> QED BY <2>1
  <1>5. CASE Count \/ Confine \/ ReadFault \/ ReadCounters
    <2>1. job' = job /\ job.kind = "state"
      BY <1>5 DEF Count, Confine, ReadFault, ReadCounters
    <2> QED BY <1>2, <1>5, <2>1
  <1> QED BY <1>3, <1>4, <1>5 DEF Next

(***************************************************************************)
(* The error state that ctu_can_fd_read_error_state puts together from the *)
(* fault state and, read later, the error counters is one that the core    *)
(* was in between the beginning and the end of the call, whatever the      *)
(* counters are at first and however many errors are counted meanwhile.    *)
(***************************************************************************)
THEOREM DriverHwErrorState == Spec => []ErrorStateWasReal
  <1>1. ErrorInv => ErrorStateWasReal
    BY DEF ErrorInv, ErrorStateWasReal
  <1> QED BY <1>1, InitError, NextError, PTL DEF Spec

-----------------------------------------------------------------------------
(* The range filter.                                                       *)

\* What a field that is not written, or not assembled, contains.
LEMMA WithRead ==
  ASSUME NEW u \in FieldUnions, NEW word, NEW vals, Fit(u, vals),
         NEW i \in Named(u), Name(u, i) \in DOMAIN vals
  PROVE  /\ Get(u, With(u, word, vals), Name(u, i)) = vals[Name(u, i)]
         /\ Slice(With(u, word, vals), Name(u, i)) = vals[Name(u, i)]
  <1>1. vals[Name(u, i)] \in FieldRange(u, i)
    BY DEF Fit
  <1>2. With(u, word, vals) \cap Span(u, i) = Placed(u, i, vals[Name(u, i)])
    BY WithField
  <1> QED BY <1>1, <1>2, ReadField

LEMMA WithKept ==
  ASSUME NEW u \in FieldUnions, NEW word, NEW vals, Fit(u, vals),
         NEW i \in Named(u), Name(u, i) \notin DOMAIN vals
  PROVE  /\ Get(u, With(u, word, vals), Name(u, i)) = Get(u, word, Name(u, i))
         /\ Slice(With(u, word, vals), Name(u, i)) = Slice(word, Name(u, i))
  <1>1. With(u, word, vals) \cap Low(u, i)..High(u, i) = word \cap Low(u, i)..High(u, i)
    BY WithField DEF Span
  <1>2. Index(u, Name(u, i)) = i /\ CoreBits[Name(u, i)] = <<Low(u, i), High(u, i)>>
    BY Field
  <1>3. Get(u, With(u, word, vals), Name(u, i)) = Get(u, word, Name(u, i))
    BY ZenonT(40), <1>1, <1>2 DEF Get
  <1>4. CoreBits[Name(u, i)][1] = Low(u, i) /\ CoreBits[Name(u, i)][2] = High(u, i)
    BY <1>2
  <1>5. Slice(With(u, word, vals), Name(u, i)) = Slice(word, Name(u, i))
    BY <1>1, <1>4 DEF Slice
  <1> QED BY <1>3, <1>5

\* A word with none of the bits of a field has 0 in it.
LEMMA ZeroRead ==
  ASSUME NEW u \in FieldUnions, NEW i \in Named(u), NEW word, word \cap Span(u, i) = {}
  PROVE  Get(u, word, Name(u, i)) = 0 /\ Slice(word, Name(u, i)) = 0
  <1>1. 2^u[i][2] \in Nat \ {0} /\ Bits(0) = {}
    BY FieldsAssumption DEF Holds
  <1>2. 0 \in FieldRange(u, i) /\ Placed(u, i, 0) = {}
    BY <1>1 DEF FieldRange, Placed
  <1> QED BY <1>2, ReadField

LEMMA IdentifierUnion ==
  LET u == identifier_w
  IN /\ u \in FieldUnions /\ Named(u) = {1, 2}
     /\ Name(u, 1) = "identifier_ext" /\ u[1][2] = 18
     /\ Name(u, 2) = "identifier_base" /\ u[2][2] = 11
  <1> DEFINE u == identifier_w
  <1>1. /\ DOMAIN u = {1, 2, 3} /\ u[3][1] = ""
        /\ u[1][1] = "identifier_ext" /\ u[1][2] = 18
        /\ u[2][1] = "identifier_base" /\ u[2][2] = 11
    BY DEF identifier_w
  <1>2. u \in FieldUnions
    BY DEF FieldUnions
  <1> HIDE DEF u
  <1>3. Named(u) = {1, 2}
    BY <1>1 DEF Named
  <1> QED BY <1>1, <1>2, <1>3 DEF u, Name

IsId(id) == /\ id.eff \in BOOLEAN /\ id.id \in Nat
            /\ id.id < IF id.eff THEN 2^29 ELSE 2^11

\* The driver's identifier word, as the core and as another driver read it.
LEMMA HwId ==
  ASSUME NEW id, IsId(id)
  PROVE  LET base == IF id.eff THEN id.id \div 2^18 ELSE id.id
             ext == IF id.eff THEN id.id % 2^18 ELSE 0
         IN /\ base \in Nat /\ base < 2^11 /\ ext \in Nat /\ ext < 2^18
            /\ Slice(id_to_hwid(id), "identifier_base") = base
            /\ Slice(id_to_hwid(id), "identifier_ext") = ext
  <1> DEFINE u == identifier_w
             base == IF id.eff THEN id.id \div 2^18 ELSE id.id
             ext == IF id.eff THEN id.id % 2^18 ELSE 0
             vals == IF id.eff THEN [identifier_base |-> (id.id % CAN_EFF_MASK) \div 2^18,
                                     identifier_ext |-> id.id % 2^18]
                               ELSE [identifier_base |-> id.id % CAN_SFF_MASK]
  <1>1. base \in Nat /\ base < 2^11 /\ ext \in Nat /\ ext < 2^18
    BY DEF IsId
  <1>2. /\ id.eff => id.id % CAN_EFF_MASK = id.id
        /\ ~id.eff => id.id % CAN_SFF_MASK = id.id
    BY DEF IsId, CAN_EFF_MASK, CAN_SFF_MASK
  <1>3. /\ "identifier_base" \in DOMAIN vals /\ vals["identifier_base"] = base
        /\ "identifier_ext" \in DOMAIN vals <=> id.eff
        /\ id.eff => vals["identifier_ext"] = ext
    BY <1>2 DEF IsId
  <1>4. id_to_hwid(id) = With(u, {}, vals)
    BY DEF id_to_hwid, Word
  <1>5. base \in FieldRange(u, 2) /\ ext \in FieldRange(u, 1)
    <2>1. u[1][2] = 18 /\ u[2][2] = 11 /\ 2^18 \in Nat /\ 2^11 \in Nat
      BY IdentifierUnion
    <2> QED BY ZenonT(40), <1>1, <2>1, InRange
  <1>6. Name(u, 1) = "identifier_ext" /\ Name(u, 2) = "identifier_base"
        /\ Named(u) = {1, 2} /\ u \in FieldUnions
    BY IdentifierUnion
  <1> HIDE DEF u, base, ext, vals
  <1>7. Fit(u, vals)
    BY <1>3, <1>5, <1>6 DEF Fit
  <1>8. Slice(id_to_hwid(id), "identifier_base") = base
    BY <1>3, <1>4, <1>6, <1>7, WithRead
  <1>9. Slice(id_to_hwid(id), "identifier_ext") = ext
    <2>1. CASE id.eff
      BY <1>3, <1>4, <1>6, <1>7, <2>1, WithRead
    <2>2. CASE ~id.eff
      <3>1. With(u, {}, vals) \cap Span(u, 1) = {}
        BY <1>3, <1>6, <1>7, <2>2, WithField
      <3>2. ext = 0
        BY <2>2 DEF ext
      <3> QED BY <1>4, <1>6, <3>1, <3>2, ZeroRead
    <2> QED BY <2>1, <2>2
  <1> QED BY <1>1, <1>8, <1>9 DEF base, ext

\* The core compares identifiers as numbers, base identifiers at the same place.
LEMMA Decimal ==
  ASSUME NEW id, IsId(id)
  PROVE  ID_reg_to_decimal(id_to_hwid(id)) = IF id.eff THEN id.id ELSE id.id * 2^18
  <1>1. CASE id.eff
    <2>1. /\ Slice(id_to_hwid(id), "identifier_base") = id.id \div 2^18
          /\ Slice(id_to_hwid(id), "identifier_ext") = id.id % 2^18
      BY <1>1, HwId
    <2>2. (id.id \div 2^18) * 2^18 + (id.id % 2^18) = id.id
      BY DEF IsId
    <2> QED BY <1>1, <2>1, <2>2 DEF ID_reg_to_decimal
  <1>2. CASE ~id.eff
    <2>1. /\ Slice(id_to_hwid(id), "identifier_base") = id.id
          /\ Slice(id_to_hwid(id), "identifier_ext") = 0
      BY <1>2, HwId
    <2> QED BY <1>2, <2>1 DEF ID_reg_to_decimal, IsId
  <1> QED BY <1>1, <1>2

FilterFields == {1, 2, 3, 4, 5, 6, 7, 8, 9, 10, 11, 12, 13, 14, 15, 16, 17, 18, 19, 20}

LEMMA FilterUnion ==
  LET u == filter_control_filter_status
  IN /\ u \in FieldUnions /\ Named(u) = FilterFields
     /\ \A i \in FilterFields : 0 \in FieldRange(u, i) /\ 1 \in FieldRange(u, i)
     /\ Name(u, 1) = "fanb" /\ Name(u, 2) = "fane" /\ Name(u, 3) = "fafb" /\ Name(u, 4) = "fafe"
     /\ Name(u, 5) = "fbnb" /\ Name(u, 6) = "fbne" /\ Name(u, 7) = "fbfb" /\ Name(u, 8) = "fbfe"
     /\ Name(u, 9) = "fcnb" /\ Name(u, 10) = "fcne" /\ Name(u, 11) = "fcfb" /\ Name(u, 12) = "fcfe"
     /\ Name(u, 13) = "frnb" /\ Name(u, 14) = "frne" /\ Name(u, 15) = "frfb" /\ Name(u, 16) = "frfe"
     /\ Name(u, 17) = "sfa" /\ Name(u, 18) = "sfb" /\ Name(u, 19) = "sfc" /\ Name(u, 20) = "sfr"
  <1> DEFINE u == filter_control_filter_status
  <1>0. DOMAIN u = FilterFields \union {21} /\ u[21][1] = ""
    BY DEF filter_control_filter_status, FilterFields
  <1>n1. u[1][1] = "fanb" /\ u[2][1] = "fane" /\ u[3][1] = "fafb" /\ u[4][1] = "fafe"
    BY DEF filter_control_filter_status
  <1>n2. u[5][1] = "fbnb" /\ u[6][1] = "fbne" /\ u[7][1] = "fbfb" /\ u[8][1] = "fbfe"
    BY DEF filter_control_filter_status
  <1>n3. u[9][1] = "fcnb" /\ u[10][1] = "fcne" /\ u[11][1] = "fcfb" /\ u[12][1] = "fcfe"
    BY DEF filter_control_filter_status
  <1>n4. u[13][1] = "frnb" /\ u[14][1] = "frne" /\ u[15][1] = "frfb" /\ u[16][1] = "frfe"
    BY DEF filter_control_filter_status
  <1>n5. u[17][1] = "sfa" /\ u[18][1] = "sfb" /\ u[19][1] = "sfc" /\ u[20][1] = "sfr"
    BY DEF filter_control_filter_status
  <1>2. \A i \in FilterFields : u[i][2] = 1
    <2>1. u[1][2] = 1 /\ u[2][2] = 1 /\ u[3][2] = 1 /\ u[4][2] = 1
      BY DEF filter_control_filter_status
    <2>2. u[5][2] = 1 /\ u[6][2] = 1 /\ u[7][2] = 1 /\ u[8][2] = 1
      BY DEF filter_control_filter_status
    <2>3. u[9][2] = 1 /\ u[10][2] = 1 /\ u[11][2] = 1 /\ u[12][2] = 1
      BY DEF filter_control_filter_status
    <2>4. u[13][2] = 1 /\ u[14][2] = 1 /\ u[15][2] = 1 /\ u[16][2] = 1
      BY DEF filter_control_filter_status
    <2>5. u[17][2] = 1 /\ u[18][2] = 1 /\ u[19][2] = 1 /\ u[20][2] = 1
      BY DEF filter_control_filter_status
    <2> HIDE DEF u
    <2> QED BY <2>1, <2>2, <2>3, <2>4, <2>5 DEF FilterFields
  <1>3. u \in FieldUnions
    BY DEF FieldUnions
  <1> HIDE DEF u
  <1>4. Named(u) = FilterFields
    <2>1. \A i \in FilterFields : u[i][1] # ""
      BY <1>n1, <1>n2, <1>n3, <1>n4, <1>n5 DEF FilterFields
    <2>2. 21 \notin FilterFields
      BY DEF FilterFields
    <2> QED BY <1>0, <2>1, <2>2 DEF Named
  <1>5. \A i \in FilterFields : 0 \in FieldRange(u, i) /\ 1 \in FieldRange(u, i)
    <2>1. 0 < 2^1 /\ 1 < 2^1 /\ 2^1 \in Nat
      OBVIOUS
    <2> QED BY ZenonT(40), <1>2, <2>1, InRange
  <1> QED BY <1>n1, <1>n2, <1>n3, <1>n4, <1>n5, <1>3, <1>4, <1>5 DEF u, Name

\* The names of the bits of the four filters.
LEMMA FilterNames ==
  /\ DOMAIN Filter = {"a", "b", "c", "r"}
  /\ Filter["a"].ena = <<"fanb", "fane", "fafb", "fafe">> /\ Filter["a"].sup = "sfa"
  /\ Filter["b"].ena = <<"fbnb", "fbne", "fbfb", "fbfe">> /\ Filter["b"].sup = "sfb"
  /\ Filter["c"].ena = <<"fcnb", "fcne", "fcfb", "fcfe">> /\ Filter["c"].sup = "sfc"
  /\ Filter["r"].ena = <<"frnb", "frne", "frfb", "frfe">> /\ Filter["r"].sup = "sfr"
  /\ Filter["a"].maddr = "a_mask" /\ Filter["a"].vaddr = "a_val"
  BY DEF Filter

EnableBits(f) == {Filter[f].ena[i] : i \in 1..4}

\* Setting the enable bits of a filter sets them and changes no other bit.
LEMMA EnabledBits ==
  ASSUME NEW regs, NEW f, NEW val \in BOOLEAN, NEW i \in FilterFields
  PROVE  LET u == filter_control_filter_status
             name == Name(u, i)
         IN  /\ name \in EnableBits(f) => Slice(Enabled(regs, f, val), name) = Flag(val)
             /\ name \notin EnableBits(f) =>
                  /\ Slice(Enabled(regs, f, val), name) = Slice(regs["control"], name)
                  /\ Get(u, Enabled(regs, f, val), name) = Get(u, regs["control"], name)
  <1> DEFINE u == filter_control_filter_status
             vals == [name \in EnableBits(f) |-> Flag(val)]
  <1>1. u \in FieldUnions /\ Named(u) = FilterFields
        /\ \A j \in FilterFields : 0 \in FieldRange(u, j) /\ 1 \in FieldRange(u, j)
    BY FilterUnion
  <1>2. Enabled(regs, f, val) = With(u, regs["control"], vals)
    BY DEF Enabled, EnableBits
  <1>3. DOMAIN vals = EnableBits(f) /\ \A n \in EnableBits(f) : vals[n] = Flag(val)
    OBVIOUS
  <1>4. Flag(val) = 0 \/ Flag(val) = 1
    BY DEF Flag
  <1> HIDE DEF u, vals
  <1>5. Fit(u, vals)
    BY <1>1, <1>3, <1>4 DEF Fit
  <1>6. CASE Name(u, i) \in EnableBits(f)
    BY <1>1, <1>2, <1>3, <1>5, <1>6, WithRead DEF u
  <1>7. CASE Name(u, i) \notin EnableBits(f)
    BY <1>1, <1>2, <1>3, <1>5, <1>7, WithKept DEF u
  <1> QED BY <1>6, <1>7 DEF u

Supported == {17, 18, 19, 20}
BCBits == {5, 6, 7, 8, 9, 10, 11, 12}

\* After reset all filters are supported, and filters B and C are off.
LEMMA ResetBits ==
  LET u == filter_control_filter_status
      word == ResetFilters["control"]
  IN /\ \A i \in Supported : Get(u, word, Name(u, i)) = 1
     /\ \A i \in BCBits : Slice(word, Name(u, i)) = 0
  <1> DEFINE u == filter_control_filter_status
             word == ResetFilters["control"]
             vals == [fanb |-> 1, fane |-> 1, fafb |-> 1, fafe |-> 1,
                      sfa |-> 1, sfb |-> 1, sfc |-> 1, sfr |-> 1]
             set == {1, 2, 3, 4, 17, 18, 19, 20}
  <1>1. u \in FieldUnions /\ Named(u) = FilterFields
        /\ \A j \in FilterFields : 0 \in FieldRange(u, j) /\ 1 \in FieldRange(u, j)
    BY FilterUnion
  <1>2. word = Assembled(vals)
    BY DEF ResetFilters, FilterRegs
  <1>3. /\ DOMAIN vals = {"fanb", "fane", "fafb", "fafe", "sfa", "sfb", "sfc", "sfr"}
        /\ \A n \in DOMAIN vals : vals[n] = 1
    OBVIOUS
  <1>4. /\ \A j \in set : Name(u, j) \in DOMAIN vals
        /\ DOMAIN vals \subseteq {Name(u, j) : j \in set}
    BY <1>3, FilterUnion
  <1>5. \A j \in BCBits : Name(u, j) \notin DOMAIN vals
    BY <1>3, FilterUnion DEF BCBits
  <1>6. set \subseteq FilterFields /\ Supported \subseteq set /\ BCBits \subseteq FilterFields
    BY DEF FilterFields, Supported, BCBits
  <1> HIDE DEF u, word, vals, set
  <1>7. Fit(u, vals)
    BY <1>1, <1>3 DEF Fit
  <1>8. DOMAIN vals \subseteq {Name(u, j) : j \in Named(u)}
    BY <1>1, <1>4, <1>6
  <1>9. ASSUME NEW i \in Supported PROVE Get(u, word, Name(u, i)) = 1
    BY <1>1, <1>2, <1>3, <1>4, <1>6, <1>7, <1>8, AssembledRead
  <1>10. ASSUME NEW i \in BCBits PROVE Slice(word, Name(u, i)) = 0
    <2>1. Assembled(vals) \cap Span(u, i) = {}
      BY <1>1, <1>5, <1>6, <1>7, <1>8, AssembledField
    <2> QED BY <1>1, <1>2, <1>6, <2>1, ZeroRead
  <1> QED BY <1>9, <1>10 DEF u, word

\* What ctu_can_fd_set_range_filter writes after filter A was switched off:
\* only the range filter is on, with the two thresholds.
LEMMA RangeRegisters ==
  ASSUME NEW low, NEW high
  PROVE  LET regs == set_range_filter(set_mask_filter(ResetFilters, "a", FALSE, low, low),
                                      low, high, TRUE)
         IN  /\ get_filter_support(regs, "r")
             /\ \A t \in {1, 2, 3, 4} : Slice(regs["control"], Filter["r"].ena[t]) = 1
             /\ \A f \in {"a", "b", "c"}, t \in {1, 2, 3, 4} :
                  Slice(regs["control"], Filter[f].ena[t]) = 0
             /\ regs["ran_low"] = id_to_hwid(low) /\ regs["ran_high"] = id_to_hwid(high)
  <1> DEFINE u == filter_control_filter_status
             r0 == ResetFilters
             r1 == set_mask_filter(r0, "a", FALSE, low, low)
             r2 == set_range_filter(r1, low, high, TRUE)
  <1>1. /\ EnableBits("a") = {"fanb", "fane", "fafb", "fafe"}
        /\ EnableBits("r") = {"frnb", "frne", "frfb", "frfe"}
    <2>1. Filter["a"].ena = <<"fanb", "fane", "fafb", "fafe">>
          /\ Filter["r"].ena = <<"frnb", "frne", "frfb", "frfe">>
      BY FilterNames
    <2>2. 1..4 = {1, 2, 3, 4}
      OBVIOUS
    <2> QED BY <2>1, <2>2 DEF EnableBits
  <1>2. get_filter_support(r0, "a")
    <2>1. Get(u, r0["control"], Name(u, 17)) = 1
      BY ResetBits DEF Supported
    <2>2. Name(u, 17) = "sfa" /\ Filter["a"].sup = "sfa"
      BY FilterUnion, FilterNames
    <2> QED BY <2>1, <2>2 DEF get_filter_support
  <1>3. r1 = [r0 EXCEPT !["control"] = Enabled(r0, "a", FALSE),
                        !["a_mask"] = id_to_hwid(low), !["a_val"] = id_to_hwid(low)]
    BY <1>2, FilterNames DEF set_mask_filter
  <1>4. DOMAIN r0 = FilterRegs /\ {"control", "ran_low", "ran_high"} \subseteq FilterRegs
    BY DEF ResetFilters, FilterRegs
  <1>5. r1["control"] = Enabled(r0, "a", FALSE) /\ DOMAIN r1 = FilterRegs
    BY ZenonT(40), <1>3, <1>4
  <1>6. /\ r2["control"] = Enabled(r1, "r", TRUE)
        /\ r2["ran_low"] = id_to_hwid(low) /\ r2["ran_high"] = id_to_hwid(high)
    BY ZenonT(40), <1>4, <1>5 DEF set_range_filter
  <1> DEFINE W0 == r0["control"]  W1 == r1["control"]  W2 == r2["control"]
  <1>7. /\ \A i \in Supported : Get(u, W0, Name(u, i)) = 1
        /\ \A i \in BCBits : Slice(W0, Name(u, i)) = 0
    BY ResetBits
  <1> DEFINE ABits == {1, 2, 3, 4}  RBits == {13, 14, 15, 16}
  <1>8. /\ \A i \in ABits : Name(u, i) \in EnableBits("a") /\ Name(u, i) \notin EnableBits("r")
        /\ \A i \in RBits : Name(u, i) \in EnableBits("r")
    BY <1>1, FilterUnion
  <1>9. \A i \in BCBits : Name(u, i) \notin EnableBits("a") /\ Name(u, i) \notin EnableBits("r")
    BY <1>1, FilterUnion DEF BCBits
  <1>10. \A i \in Supported : Name(u, i) \notin EnableBits("a") /\ Name(u, i) \notin EnableBits("r")
    BY <1>1, FilterUnion DEF Supported
  <1>11. /\ ABits \subseteq FilterFields /\ RBits \subseteq FilterFields
         /\ BCBits \subseteq FilterFields /\ Supported \subseteq FilterFields
    BY DEF FilterFields, Supported, BCBits
  <1>12. Flag(FALSE) = 0 /\ Flag(TRUE) = 1
    BY DEF Flag
  <1> HIDE DEF u, r0, r1, r2, ABits, RBits
  <1>13. ASSUME NEW i \in FilterFields
         PROVE  LET name == Name(u, i) IN
                /\ name \in EnableBits("a") => Slice(W1, name) = 0
                /\ name \notin EnableBits("a") =>
                     Slice(W1, name) = Slice(W0, name) /\ Get(u, W1, name) = Get(u, W0, name)
                /\ name \in EnableBits("r") => Slice(W2, name) = 1
                /\ name \notin EnableBits("r") =>
                     Slice(W2, name) = Slice(W1, name) /\ Get(u, W2, name) = Get(u, W1, name)
    <2> DEFINE name == Name(u, i)
    <2>1. /\ name \in EnableBits("a") => Slice(Enabled(r0, "a", FALSE), name) = Flag(FALSE)
          /\ name \notin EnableBits("a") =>
               /\ Slice(Enabled(r0, "a", FALSE), name) = Slice(r0["control"], name)
               /\ Get(u, Enabled(r0, "a", FALSE), name) = Get(u, r0["control"], name)
      BY ZenonT(40), EnabledBits DEF u
    <2>2. /\ name \in EnableBits("r") => Slice(Enabled(r1, "r", TRUE), name) = Flag(TRUE)
          /\ name \notin EnableBits("r") =>
               /\ Slice(Enabled(r1, "r", TRUE), name) = Slice(r1["control"], name)
               /\ Get(u, Enabled(r1, "r", TRUE), name) = Get(u, r1["control"], name)
      BY ZenonT(40), EnabledBits DEF u
    <2> HIDE DEF name
    <2> QED BY ZenonT(40), <1>5, <1>6, <1>12, <2>1, <2>2 DEF name
  <1> HIDE DEF W0, W1, W2
  <1>14. /\ \A i \in ABits : Slice(W2, Name(u, i)) = 0
         /\ \A i \in BCBits : Slice(W2, Name(u, i)) = 0
         /\ \A i \in RBits : Slice(W2, Name(u, i)) = 1
         /\ \A i \in Supported : Get(u, W2, Name(u, i)) = 1
    <2>1. ASSUME NEW i \in ABits PROVE Slice(W2, Name(u, i)) = 0
      BY ZenonT(40), <1>8, <1>11, <1>13
    <2>2. ASSUME NEW i \in BCBits PROVE Slice(W2, Name(u, i)) = 0
      BY ZenonT(40), <1>7, <1>9, <1>11, <1>13
    <2>3. ASSUME NEW i \in RBits PROVE Slice(W2, Name(u, i)) = 1
      BY ZenonT(40), <1>8, <1>11, <1>13
    <2>4. ASSUME NEW i \in Supported PROVE Get(u, W2, Name(u, i)) = 1
      BY ZenonT(40), <1>7, <1>10, <1>11, <1>13
    <2> QED BY <2>1, <2>2, <2>3, <2>4
  <1>15. get_filter_support(r2, "r")
    <2>1. Name(u, 20) = "sfr" /\ Filter["r"].sup = "sfr"
      BY FilterUnion, FilterNames DEF u
    <2> QED BY <1>14, <2>1 DEF get_filter_support, Supported, u, W2
  <1>16. \A t \in {1, 2, 3, 4} : Slice(W2, Filter["r"].ena[t]) = 1
    <2>1. /\ Filter["r"].ena[1] = Name(u, 13) /\ Filter["r"].ena[2] = Name(u, 14)
          /\ Filter["r"].ena[3] = Name(u, 15) /\ Filter["r"].ena[4] = Name(u, 16)
      BY FilterUnion, FilterNames DEF u
    <2> QED BY <1>14, <2>1 DEF RBits
  <1>17. \A t \in {1, 2, 3, 4} : Slice(W2, Filter["a"].ena[t]) = 0
    <2>1. /\ Filter["a"].ena[1] = Name(u, 1) /\ Filter["a"].ena[2] = Name(u, 2)
          /\ Filter["a"].ena[3] = Name(u, 3) /\ Filter["a"].ena[4] = Name(u, 4)
      BY FilterUnion, FilterNames DEF u
    <2> QED BY <1>14, <2>1 DEF ABits
  <1>18. \A t \in {1, 2, 3, 4} : Slice(W2, Filter["b"].ena[t]) = 0
    <2>1. /\ Filter["b"].ena[1] = Name(u, 5) /\ Filter["b"].ena[2] = Name(u, 6)
          /\ Filter["b"].ena[3] = Name(u, 7) /\ Filter["b"].ena[4] = Name(u, 8)
      BY FilterUnion, FilterNames DEF u
    <2> QED BY <1>14, <2>1 DEF BCBits
  <1>19. \A t \in {1, 2, 3, 4} : Slice(W2, Filter["c"].ena[t]) = 0
    <2>1. /\ Filter["c"].ena[1] = Name(u, 9) /\ Filter["c"].ena[2] = Name(u, 10)
          /\ Filter["c"].ena[3] = Name(u, 11) /\ Filter["c"].ena[4] = Name(u, 12)
      BY FilterUnion, FilterNames DEF u
    <2> QED BY <1>14, <2>1 DEF BCBits
  <1> QED BY ZenonT(40), <1>6, <1>15, <1>16, <1>17, <1>18, <1>19 DEF r0, r1, r2, W2

LEMMA KnownId ==
  ASSUME NEW id \in CanIds
  PROVE  IsId(id)
  <1>1. \/ id.eff = FALSE /\ id.id \in BaseIds
        \/ id.eff = TRUE /\ id.id \in ExtendedIds
    BY ZenonT(40) DEF CanIds
  <1> QED BY ZenonT(40), <1>1, DriverHwAssumption DEF IsId

\* The job of a range case never changes.
RangeInv == job.kind = "range" => IsId(job.low) /\ IsId(job.high) /\ IsId(job.id) /\ job.fd \in BOOLEAN

LEMMA InitRange == Init => RangeInv
  <1> SUFFICES ASSUME Init, job.kind = "range" PROVE RangeInv
    BY DEF RangeInv
  <1>1. job \in Ranges
    <2>1. /\ job # [kind |-> "timing"] /\ job # [kind |-> "find"] /\ job # [kind |-> "time"]
          /\ job # [kind |-> "state"]
          /\ job \notin Frames \union Starts \union ToolStarts \union Commands
                       \union Layouts \union Addresses \union Presets
      BY Kinds
    <2> QED BY ZenonT(40), <2>1 DEF Init
  <1>2. job.low \in CanIds /\ job.high \in CanIds /\ job.id \in CanIds /\ job.fd \in BOOLEAN
    BY <1>1 DEF Ranges
  <1> QED BY <1>2, KnownId DEF RangeInv

LEMMA RangeDecision == RangeInv => RangeFilterAccepts
  <1> SUFFICES ASSUME RangeInv, job.kind = "range", SameType PROVE RangeFilterAccepts
    BY ZenonT(40) DEF RangeFilterAccepts
  <1> DEFINE regs == set_range_filter(set_mask_filter(ResetFilters, "a", FALSE, job.low, job.low),
                                      job.low, job.high, TRUE)
             ident == id_to_hwid(job.id)
             t == DataType(job.fd, job.id.eff)
  <1>1. IsId(job.low) /\ IsId(job.high) /\ IsId(job.id) /\ job.fd \in BOOLEAN
    BY DEF RangeInv
  <1>2. t \in {1, 2, 3, 4}
    BY <1>1 DEF DataType, Flag, IsId
  <1>3. /\ get_filter_support(regs, "r")
        /\ Slice(regs["control"], Filter["r"].ena[t]) = 1
        /\ \A f \in {"a", "b", "c"} : Slice(regs["control"], Filter[f].ena[t]) = 0
        /\ regs["ran_low"] = id_to_hwid(job.low) /\ regs["ran_high"] = id_to_hwid(job.high)
    <2>1. /\ get_filter_support(regs, "r")
          /\ \A k \in {1, 2, 3, 4} : Slice(regs["control"], Filter["r"].ena[k]) = 1
          /\ \A f \in {"a", "b", "c"}, k \in {1, 2, 3, 4} :
               Slice(regs["control"], Filter[f].ena[k]) = 0
          /\ regs["ran_low"] = id_to_hwid(job.low) /\ regs["ran_high"] = id_to_hwid(job.high)
      BY ZenonT(40), RangeRegisters
    <2> HIDE DEF regs, t
    <2> QED BY ZenonT(40), <1>2, <2>1
  <1> HIDE DEF regs, t
  <1>4. Accepted(regs, job.fd, job.id.eff, ident) <=> range_filter(regs, ident)
    <2>1. /\ FilterEnabled(regs, "r", job.fd, job.id.eff)
          /\ \A f \in {"a", "b", "c"} : ~FilterEnabled(regs, f, job.fd, job.id.eff)
      BY <1>3 DEF FilterEnabled, t
    <2>2. DOMAIN Filter = {"a", "b", "c", "r"}
      BY FilterNames
    <2> QED BY <1>3, <2>1, <2>2 DEF Accepted
  <1>5. range_filter(regs, ident) <=> job.low.id <= job.id.id /\ job.id.id <= job.high.id
    <2> DEFINE D(id) == IF id.eff THEN id.id ELSE id.id * 2^18
    <2>1. /\ ID_reg_to_decimal(ident) = D(job.id)
          /\ ID_reg_to_decimal(regs["ran_low"]) = D(job.low)
          /\ ID_reg_to_decimal(regs["ran_high"]) = D(job.high)
      BY <1>1, <1>3, Decimal
    <2>2. /\ job.id.id \in Nat /\ job.low.id \in Nat /\ job.high.id \in Nat
          /\ job.low.eff = job.id.eff /\ job.high.eff = job.id.eff
      BY <1>1 DEF IsId, SameType
    <2>3. /\ D(job.id) <= D(job.high) <=> job.id.id <= job.high.id
          /\ D(job.id) >= D(job.low) <=> job.low.id <= job.id.id
      BY <2>2
    <2> HIDE DEF D
    <2> QED BY <2>1, <2>3 DEF range_filter
  <1>6. job.id.id \in job.low.id..job.high.id <=> job.low.id <= job.id.id /\ job.id.id <= job.high.id
    BY <1>1 DEF IsId
  <1> QED BY ZenonT(40), <1>4, <1>5, <1>6 DEF RangeFilterAccepts, regs

(***************************************************************************)
(* The range filter that the driver sets up passes exactly the frames with *)
(* identifiers from low to high, for every base identifier of 11 bits and  *)
(* every extended one of 29 bits.                                          *)
(***************************************************************************)
THEOREM DriverHwRangeFilter == Spec => []RangeFilterAccepts
  <1>1. RangeInv /\ [Next]_vars => RangeInv'
    BY SameJob DEF RangeInv, IsId
  <1> QED BY <1>1, InitRange, RangeDecision, PTL DEF Spec

-----------------------------------------------------------------------------
(* A frame from one driver to another.                                     *)

\* A register word is a set of bit numbers.
WordSet == SUBSET Int

LEMMA AssembledWord ==
  ASSUME NEW u \in FieldUnions, NEW vals, DOMAIN vals \subseteq {Name(u, j) : j \in Named(u)}
  PROVE  Assembled(vals) \in WordSet
  <1>1. \A name \in DOMAIN vals : CoreBits[name][1] \in Int
    <2> SUFFICES ASSUME NEW name \in DOMAIN vals PROVE CoreBits[name][1] \in Int
      OBVIOUS
    <2>1. PICK j \in Named(u) : name = Name(u, j)
      OBVIOUS
    <2>2. CoreBits[name] = <<Low(u, j), High(u, j)>> /\ Low(u, j) \in Nat
      BY <2>1, Field
    <2> QED BY <2>2
  <1>2. \A name : Bits(vals[name]) \subseteq Int
    BY DEF Bits
  <1> QED BY <1>1, <1>2 DEF Assembled, WordSet

FormatFields == {1, 3, 4, 5, 6, 7, 8, 9}

LEMMA FormatUnion ==
  LET u == frame_form_w
  IN /\ u \in FieldUnions /\ Named(u) = FormatFields
     /\ Name(u, 1) = "dlc" /\ Name(u, 3) = "rtr" /\ Name(u, 4) = "ide" /\ Name(u, 5) = "fdf"
     /\ Name(u, 6) = "tbf" /\ Name(u, 7) = "brs" /\ Name(u, 8) = "esi_rsv" /\ Name(u, 9) = "rwcnt"
     /\ \A v \in Nat : v < 16 => v \in FieldRange(u, 1)
     /\ \A v \in Nat : v < 32 => v \in FieldRange(u, 9)
     /\ \A v \in {0, 1} : /\ v \in FieldRange(u, 3) /\ v \in FieldRange(u, 4)
                          /\ v \in FieldRange(u, 5) /\ v \in FieldRange(u, 6)
                          /\ v \in FieldRange(u, 7) /\ v \in FieldRange(u, 8)
  <1> DEFINE u == frame_form_w
  <1>1. DOMAIN u = FormatFields \union {2, 10} /\ u[2][1] = "" /\ u[10][1] = ""
    BY DEF frame_form_w, FormatFields
  <1>2. u[1][1] = "dlc" /\ u[3][1] = "rtr" /\ u[4][1] = "ide" /\ u[5][1] = "fdf"
    BY DEF frame_form_w
  <1>3. u[6][1] = "tbf" /\ u[7][1] = "brs" /\ u[8][1] = "esi_rsv" /\ u[9][1] = "rwcnt"
    BY DEF frame_form_w
  <1>4. u[1][2] = 4 /\ u[9][2] = 5 /\ u[3][2] = 1 /\ u[4][2] = 1
    BY DEF frame_form_w
  <1>5. u[5][2] = 1 /\ u[6][2] = 1 /\ u[7][2] = 1 /\ u[8][2] = 1
    BY DEF frame_form_w
  <1>6. u \in FieldUnions
    BY DEF FieldUnions
  <1> HIDE DEF u
  <1>7. Named(u) = FormatFields
    BY <1>1, <1>2, <1>3 DEF Named, FormatFields
  <1>8. (\A v \in Nat : v < 16 => v \in FieldRange(u, 1)) /\ (\A v \in Nat : v < 32 => v \in FieldRange(u, 9))
    <2>1. 2^4 = 16 /\ 2^5 = 32
      OBVIOUS
    <2>2. FieldRange(u, 1) = 0..(16 - 1) /\ FieldRange(u, 9) = 0..(32 - 1)
      BY <1>4, <2>1 DEF FieldRange
    <2> QED BY <2>2
  <1>9. \A v \in {0, 1} : /\ v \in FieldRange(u, 3) /\ v \in FieldRange(u, 4)
                          /\ v \in FieldRange(u, 5) /\ v \in FieldRange(u, 6)
                          /\ v \in FieldRange(u, 7) /\ v \in FieldRange(u, 8)
    <2>1. 0 < 2^1 /\ 1 < 2^1 /\ 2^1 \in Nat
      OBVIOUS
    <2> QED BY ZenonT(40), <1>4, <1>5, <2>1, InRange
  <1> QED BY ZenonT(40), <1>2, <1>3, <1>6, <1>7, <1>8, <1>9 DEF u, Name

\* The frame format word that the driver writes, as the core reads it.
LEMMA InsertedFormat ==
  ASSUME NEW cf, NEW fd \in BOOLEAN, cf.eff \in BOOLEAN, cf.rtr = FALSE, cf.brs \in BOOLEAN,
         can_len2dlc(cf.len) \in Nat, can_len2dlc(cf.len) < 16
  PROVE  LET w == insert_frame(cf, fd).ffw
         IN  /\ Slice(w, "dlc") = can_len2dlc(cf.len) /\ Slice(w, "rtr") = 0
             /\ Slice(w, "ide") = Flag(cf.eff) /\ Slice(w, "fdf") = Flag(fd)
             /\ Slice(w, "brs") = Flag(fd /\ cf.brs)
  <1> DEFINE u == frame_form_w
             vals == [rtr |-> Flag(cf.rtr), ide |-> Flag(cf.eff), tbf |-> 1,
                      dlc |-> can_len2dlc(cf.len), fdf |-> Flag(fd), brs |-> Flag(fd /\ cf.brs)]
             w == insert_frame(cf, fd).ffw
  <1>1. w = With(u, {}, vals)
    BY DEF insert_frame, Word
  <1>2. /\ DOMAIN vals = {"rtr", "ide", "tbf", "dlc", "fdf", "brs"}
        /\ vals["rtr"] = 0 /\ vals["ide"] = Flag(cf.eff) /\ vals["tbf"] = 1
        /\ vals["dlc"] = can_len2dlc(cf.len) /\ vals["fdf"] = Flag(fd)
        /\ vals["brs"] = Flag(fd /\ cf.brs)
    BY DEF Flag
  <1>3. Flag(cf.eff) \in {0, 1} /\ Flag(fd) \in {0, 1} /\ Flag(fd /\ cf.brs) \in {0, 1}
    BY DEF Flag
  <1>4. /\ u \in FieldUnions /\ Named(u) = FormatFields
        /\ Name(u, 1) = "dlc" /\ Name(u, 3) = "rtr" /\ Name(u, 4) = "ide" /\ Name(u, 5) = "fdf"
        /\ Name(u, 6) = "tbf" /\ Name(u, 7) = "brs" /\ Name(u, 8) = "esi_rsv" /\ Name(u, 9) = "rwcnt"
        /\ \A v \in Nat : v < 16 => v \in FieldRange(u, 1)
        /\ \A v \in {0, 1} : /\ v \in FieldRange(u, 3) /\ v \in FieldRange(u, 4)
                             /\ v \in FieldRange(u, 5) /\ v \in FieldRange(u, 6)
                             /\ v \in FieldRange(u, 7) /\ v \in FieldRange(u, 8)
    BY ZenonT(40), FormatUnion
  <1> HIDE DEF u, vals, w
  <1>5. Fit(u, vals)
    <2>1. /\ vals[Name(u, 1)] \in FieldRange(u, 1) /\ vals[Name(u, 3)] \in FieldRange(u, 3)
          /\ vals[Name(u, 4)] \in FieldRange(u, 4) /\ vals[Name(u, 5)] \in FieldRange(u, 5)
          /\ vals[Name(u, 6)] \in FieldRange(u, 6) /\ vals[Name(u, 7)] \in FieldRange(u, 7)
      BY <1>2, <1>3, <1>4
    <2>2. Name(u, 8) \notin DOMAIN vals /\ Name(u, 9) \notin DOMAIN vals
      BY <1>2, <1>4
    <2> QED BY <1>4, <2>1, <2>2 DEF Fit, FormatFields
  <1>6. \A i \in FormatFields : Name(u, i) \in DOMAIN vals => Slice(w, Name(u, i)) = vals[Name(u, i)]
    BY ZenonT(40), <1>1, <1>4, <1>5, WithRead
  <1>7. Slice(w, "dlc") = vals["dlc"] /\ Slice(w, "rtr") = vals["rtr"] /\ Slice(w, "ide") = vals["ide"]
    BY <1>2, <1>4, <1>6 DEF FormatFields
  <1>8. Slice(w, "fdf") = vals["fdf"] /\ Slice(w, "brs") = vals["brs"]
    BY <1>2, <1>4, <1>6 DEF FormatFields
  <1> QED BY <1>2, <1>7, <1>8 DEF w

\* Another length code changes no other field.
LEMMA RecodedFormat ==
  ASSUME NEW w, NEW dlc \in Nat, dlc < 16
  PROVE  LET v == With(frame_form_w, w, [dlc |-> dlc])
         IN  /\ Slice(v, "dlc") = dlc /\ Slice(v, "rtr") = Slice(w, "rtr")
             /\ Slice(v, "ide") = Slice(w, "ide") /\ Slice(v, "fdf") = Slice(w, "fdf")
             /\ Slice(v, "brs") = Slice(w, "brs")
  <1> DEFINE u == frame_form_w  vals == [dlc |-> dlc]  v == With(u, w, vals)
  <1>1. DOMAIN vals = {"dlc"} /\ vals["dlc"] = dlc
    OBVIOUS
  <1>2. /\ u \in FieldUnions /\ Named(u) = FormatFields
        /\ Name(u, 1) = "dlc" /\ Name(u, 3) = "rtr" /\ Name(u, 4) = "ide" /\ Name(u, 5) = "fdf"
        /\ Name(u, 6) = "tbf" /\ Name(u, 7) = "brs" /\ Name(u, 8) = "esi_rsv" /\ Name(u, 9) = "rwcnt"
        /\ dlc \in FieldRange(u, 1)
    BY ZenonT(40), FormatUnion
  <1> HIDE DEF u, vals
  <1>3. Fit(u, vals)
    BY <1>1, <1>2 DEF Fit, FormatFields
  <1>4. Slice(v, "dlc") = dlc
    BY <1>1, <1>2, <1>3, WithRead DEF FormatFields
  <1>5. \A i \in FormatFields : Name(u, i) # "dlc" => Slice(v, Name(u, i)) = Slice(w, Name(u, i))
    BY ZenonT(40), <1>1, <1>2, <1>3, WithKept
  <1> HIDE DEF v
  <1>6. 3 \in FormatFields /\ 4 \in FormatFields /\ 5 \in FormatFields /\ 7 \in FormatFields
    BY DEF FormatFields
  <1>7. /\ Slice(v, "rtr") = Slice(w, "rtr") /\ Slice(v, "ide") = Slice(w, "ide")
        /\ Slice(v, "fdf") = Slice(w, "fdf") /\ Slice(v, "brs") = Slice(w, "brs")
    BY <1>2, <1>5, <1>6
  <1> QED BY <1>4, <1>7 DEF u, v, vals

\* The words that the receiving core stores, and what follows them.
Stored(f, w, data, n) == <<f, w, {}, {}>> \o SubSeq(data, 1, n)

\* s begins with the words of a frame, and rest is what is left after it.
BeginsWith(s, f, w, data, n, rest) ==
  /\ 1 \in DOMAIN s /\ 2 \in DOMAIN s /\ s[1] = f /\ s[2] = w
  /\ \A i \in 1..n : 4 + i \in DOMAIN s /\ s[4 + i] = data[i]
  /\ SubSeq(s, 5 + n, Len(s)) = rest

LEMMA Appended ==
  ASSUME NEW a \in Seq(WordSet), NEW d \in Seq(WordSet)
  PROVE  /\ a \o d \in Seq(WordSet) /\ Len(a \o d) = Len(a) + Len(d)
         /\ \A i \in 1..Len(a) : (a \o d)[i] = a[i]
         /\ \A i \in 1..Len(d) : (a \o d)[Len(a) + i] = d[i]
  OBVIOUS

LEMMA SameWords ==
  ASSUME NEW a \in Seq(WordSet), NEW b \in Seq(WordSet), Len(a) = Len(b),
         \A i \in 1..Len(b) : a[i] = b[i]
  PROVE  a = b
  OBVIOUS

LEMMA StoredSequence ==
  ASSUME NEW f \in WordSet, NEW w \in WordSet, NEW data \in [1..16 -> WordSet],
         NEW n \in Nat, n <= 16, NEW rest \in Seq(WordSet)
  PROVE  /\ Stored(f, w, data, n) \in Seq(WordSet)
         /\ BeginsWith(Stored(f, w, data, n) \o rest, f, w, data, n, rest)
  <1> DEFINE a == <<f, w, {}, {}>>  d == SubSeq(data, 1, n)  t == Stored(f, w, data, n)
             s == t \o rest
  <1>1. {} \in WordSet
    BY DEF WordSet
  <1>2. a \in Seq(WordSet) /\ Len(a) = 4 /\ a[1] = f /\ a[2] = w
    BY <1>1
  <1>3. data \in Seq(WordSet) /\ Len(data) = 16
    <2> DEFINE m == 16
    <2>1. m \in Nat /\ data \in [1..m -> WordSet]
      OBVIOUS
    <2> HIDE DEF m
    <2>2. data \in Seq(WordSet) /\ Len(data) = m
      BY <2>1
    <2> QED BY <2>2 DEF m
  <1>4. d \in Seq(WordSet) /\ Len(d) = n /\ \A i \in 1..n : d[i] = data[i]
    BY <1>3
  <1> HIDE DEF a, d
  <1>5. t = a \o d
    BY DEF Stored, a, d
  <1> HIDE DEF t
  <1>6. /\ t \in Seq(WordSet) /\ Len(t) = 4 + n /\ t[1] = f /\ t[2] = w
        /\ \A i \in 1..n : t[4 + i] = data[i]
    <2>1. /\ t \in Seq(WordSet) /\ Len(t) = Len(a) + Len(d)
          /\ \A i \in 1..Len(a) : t[i] = a[i]
          /\ \A i \in 1..Len(d) : t[Len(a) + i] = d[i]
      BY ZenonT(40), <1>2, <1>4, <1>5, Appended
    <2>2. \A i \in 1..4 : t[i] = a[i]
      BY ZenonT(40), <1>2, <2>1
    <2>3. \A i \in 1..n : t[4 + i] = d[i]
      BY ZenonT(40), <1>2, <1>4, <2>1
    <2>4. Len(t) = 4 + n
      BY ZenonT(40), <1>2, <1>4, <2>1
    <2>5. t[1] = f /\ t[2] = w
      BY <1>2, <2>2
    <2>6. \A i \in 1..n : t[4 + i] = data[i]
      BY ZenonT(40), <1>4, <2>3
    <2> QED BY ZenonT(40), <2>1, <2>4, <2>5, <2>6
  <1>7. /\ s \in Seq(WordSet) /\ Len(s) = 4 + n + Len(rest) /\ DOMAIN s = 1..Len(s)
        /\ Len(rest) \in Nat
    <2>1. s \in Seq(WordSet) /\ Len(s) = Len(t) + Len(rest)
      BY ZenonT(40), <1>6, Appended
    <2> HIDE DEF s
    <2> QED BY <1>6, <2>1
  <1>8. /\ \A i \in 1..(4 + n) : s[i] = t[i]
        /\ \A i \in 1..Len(rest) : s[4 + n + i] = rest[i]
    <2>1. /\ \A i \in 1..Len(t) : s[i] = t[i]
          /\ \A i \in 1..Len(rest) : s[Len(t) + i] = rest[i]
      BY ZenonT(40), <1>6, Appended
    <2> HIDE DEF s
    <2> QED BY ZenonT(40), <1>6, <2>1
  <1> HIDE DEF s
  <1>9. /\ 1 \in DOMAIN s /\ 2 \in DOMAIN s /\ s[1] = f /\ s[2] = w
        /\ \A i \in 1..n : 4 + i \in DOMAIN s /\ s[4 + i] = data[i]
    BY <1>6, <1>7, <1>8
  <1>10. SubSeq(s, 5 + n, Len(s)) = rest
    <2> DEFINE r == SubSeq(s, 5 + n, Len(s))
    <2>1. /\ r \in Seq(WordSet) /\ Len(r) = Len(rest)
          /\ \A i \in 1..Len(rest) : r[i] = s[4 + n + i]
      BY <1>7
    <2> HIDE DEF r
    <2>2. \A i \in 1..Len(rest) : r[i] = rest[i]
      BY <1>8, <2>1
    <2>3. r = rest
      BY ZenonT(40), <2>1, <2>2, SameWords
    <2> QED BY <2>3 DEF r
  <1>11. BeginsWith(s, f, w, data, n, rest)
    BY ZenonT(40), <1>9, <1>10 DEF BeginsWith
  <1> QED BY ZenonT(40), <1>6, <1>11 DEF s, t

\* The format of a data frame in a TXT buffer: length code, type, bit rate
\* switch, identifier and number of data words.
HasFormat(buf, c) ==
  /\ Slice(buf.ffw, "dlc") = c.dlc /\ Slice(buf.ffw, "rtr") = 0
  /\ Slice(buf.ffw, "ide") = Flag(c.eff) /\ Slice(buf.ffw, "fdf") = Flag(c.fd)
  /\ Slice(buf.ffw, "brs") = Flag(c.brs)
  /\ Slice(buf.idw, "identifier_base") = c.base /\ Slice(buf.idw, "identifier_ext") = c.ext
  /\ buf.data \in [1..16 -> WordSet]

IsFormat(c) ==
  /\ c.dlc \in Nat /\ c.dlc < 16 /\ c.eff \in BOOLEAN /\ c.fd \in BOOLEAN /\ c.brs \in BOOLEAN
  /\ c.base \in Nat /\ c.base < 2^11 /\ c.ext \in Nat /\ c.ext < 2^18 /\ (~c.eff => c.ext = 0)
  /\ c.n \in Nat /\ c.n <= 16 /\ rwcnt_com(Flag(c.fd), 0, c.dlc) = c.n + 3

\* The frame format word of the receiving core, as the driver reads it.
FormatWord(c) ==
  Assembled([dlc |-> c.dlc, rtr |-> 0, ide |-> Flag(c.eff), fdf |-> Flag(c.fd), tbf |-> 1,
             brs |-> Flag(c.brs), esi_rsv |-> Flag(c.fd), rwcnt |-> c.n + 3])

LEMMA StoredFormat ==
  ASSUME NEW c, IsFormat(c)
  PROVE  LET w == FormatWord(c)
         IN  /\ w \in WordSet
             /\ Get(frame_form_w, w, "dlc") = c.dlc /\ Get(frame_form_w, w, "rtr") = 0
             /\ Get(frame_form_w, w, "ide") = Flag(c.eff)
             /\ Get(frame_form_w, w, "fdf") = Flag(c.fd)
             /\ Get(frame_form_w, w, "brs") = Flag(c.brs)
             /\ Get(frame_form_w, w, "esi_rsv") = Flag(c.fd)
             /\ Get(frame_form_w, w, "rwcnt") = c.n + 3
  <1>a. PICK dlc, ide, fdf, brs, e, rwcnt :
          /\ dlc = c.dlc /\ ide = Flag(c.eff) /\ fdf = Flag(c.fd) /\ brs = Flag(c.brs)
          /\ e = Flag(c.fd) /\ rwcnt = c.n + 3
    OBVIOUS
  <1>b. /\ dlc \in Nat /\ dlc < 16 /\ ide \in {0, 1} /\ fdf \in {0, 1} /\ brs \in {0, 1}
        /\ e \in {0, 1} /\ rwcnt \in Nat /\ rwcnt < 32
    BY <1>a DEF IsFormat, Flag
  <1> DEFINE u == frame_form_w
             vals == [dlc |-> dlc, rtr |-> 0, ide |-> ide, fdf |-> fdf, tbf |-> 1,
                      brs |-> brs, esi_rsv |-> e, rwcnt |-> rwcnt]
             w == Assembled(vals)
  <1>1. DOMAIN vals = {"dlc", "rtr", "ide", "fdf", "tbf", "brs", "esi_rsv", "rwcnt"}
    OBVIOUS
  <1>2. vals["dlc"] = dlc /\ vals["rtr"] = 0 /\ vals["ide"] = ide /\ vals["fdf"] = fdf
    OBVIOUS
  <1>3. vals["tbf"] = 1 /\ vals["brs"] = brs /\ vals["esi_rsv"] = e /\ vals["rwcnt"] = rwcnt
    OBVIOUS
  <1>4. /\ u \in FieldUnions /\ Named(u) = FormatFields
        /\ Name(u, 1) = "dlc" /\ Name(u, 3) = "rtr" /\ Name(u, 4) = "ide" /\ Name(u, 5) = "fdf"
        /\ Name(u, 6) = "tbf" /\ Name(u, 7) = "brs" /\ Name(u, 8) = "esi_rsv" /\ Name(u, 9) = "rwcnt"
    BY ZenonT(40), FormatUnion
  <1>5. /\ dlc \in FieldRange(u, 1) /\ rwcnt \in FieldRange(u, 9)
        /\ \A v \in {0, 1} : /\ v \in FieldRange(u, 3) /\ v \in FieldRange(u, 4)
                             /\ v \in FieldRange(u, 5) /\ v \in FieldRange(u, 6)
                             /\ v \in FieldRange(u, 7) /\ v \in FieldRange(u, 8)
    BY ZenonT(40), <1>b, FormatUnion
  <1> HIDE DEF u, vals
  <1>6. Fit(u, vals)
    <2>1. /\ vals[Name(u, 1)] \in FieldRange(u, 1) /\ vals[Name(u, 3)] \in FieldRange(u, 3)
          /\ vals[Name(u, 4)] \in FieldRange(u, 4) /\ vals[Name(u, 5)] \in FieldRange(u, 5)
      BY <1>2, <1>4, <1>5, <1>b
    <2>2. /\ vals[Name(u, 6)] \in FieldRange(u, 6) /\ vals[Name(u, 7)] \in FieldRange(u, 7)
          /\ vals[Name(u, 8)] \in FieldRange(u, 8) /\ vals[Name(u, 9)] \in FieldRange(u, 9)
      BY <1>3, <1>4, <1>5, <1>b
    <2> QED BY <1>4, <2>1, <2>2 DEF Fit, FormatFields
  <1>7. /\ DOMAIN vals \subseteq {Name(u, j) : j \in FormatFields}
        /\ \A j \in FormatFields : Name(u, j) \in DOMAIN vals
    BY <1>1, <1>4 DEF FormatFields
  <1>8. w \in WordSet
    BY <1>4, <1>7, AssembledWord
  <1>9. \A i \in FormatFields : Get(u, w, Name(u, i)) = vals[Name(u, i)]
    BY ZenonT(40), <1>4, <1>6, <1>7, AssembledRead
  <1> HIDE DEF w
  <1>10. /\ Get(u, w, "dlc") = dlc /\ Get(u, w, "rtr") = 0 /\ Get(u, w, "ide") = ide
         /\ Get(u, w, "fdf") = fdf
    BY <1>2, <1>4, <1>9 DEF FormatFields
  <1>11. Get(u, w, "brs") = brs /\ Get(u, w, "esi_rsv") = e /\ Get(u, w, "rwcnt") = rwcnt
    BY <1>3, <1>4, <1>9 DEF FormatFields
  <1>12. FormatWord(c) = w
    BY ZenonT(40), <1>a DEF FormatWord, w, vals
  <1> QED BY ZenonT(40), <1>8, <1>10, <1>11, <1>12, <1>a DEF u

\* The identifier word.
LEMMA StoredIdentifier ==
  ASSUME NEW base \in Nat, base < 2^11, NEW ext \in Nat, ext < 2^18
  PROVE  LET w == Assembled([identifier_base |-> base, identifier_ext |-> ext])
         IN  /\ w \in WordSet
             /\ Get(identifier_w, w, "identifier_base") = base
             /\ Get(identifier_w, w, "identifier_ext") = ext
  <1> DEFINE u == identifier_w
             vals == [identifier_base |-> base, identifier_ext |-> ext]
             w == Assembled(vals)
  <1>1. /\ DOMAIN vals = {"identifier_base", "identifier_ext"}
        /\ vals["identifier_base"] = base /\ vals["identifier_ext"] = ext
    OBVIOUS
  <1>2. /\ u \in FieldUnions /\ Named(u) = {1, 2}
        /\ Name(u, 1) = "identifier_ext" /\ u[1][2] = 18
        /\ Name(u, 2) = "identifier_base" /\ u[2][2] = 11
    BY ZenonT(40), IdentifierUnion
  <1>3. base \in FieldRange(u, 2) /\ ext \in FieldRange(u, 1)
    <2>1. 2^18 \in Nat /\ 2^11 \in Nat
      OBVIOUS
    <2> QED BY ZenonT(40), <1>2, <2>1, InRange
  <1> HIDE DEF u, vals
  <1>4. Fit(u, vals)
    BY <1>1, <1>2, <1>3 DEF Fit
  <1>5. /\ DOMAIN vals \subseteq {Name(u, j) : j \in Named(u)}
        /\ \A j \in Named(u) : Name(u, j) \in DOMAIN vals
    BY <1>1, <1>2
  <1>6. w \in WordSet
    BY <1>2, <1>5, AssembledWord
  <1>7. \A i \in Named(u) : Get(u, w, Name(u, i)) = vals[Name(u, i)]
    BY ZenonT(40), <1>2, <1>4, <1>5, AssembledRead
  <1> HIDE DEF w
  <1>8. Get(u, w, "identifier_base") = base /\ Get(u, w, "identifier_ext") = ext
    BY <1>1, <1>2, <1>7
  <1> QED BY <1>6, <1>8 DEF u, vals, w

\* The length that the driver computes from the length code and the word count.
LengthRead(dlc, fd, n) == IF dlc <= 8 THEN dlc ELSE IF fd THEN n * 4 ELSE 8

\* What the driver finds in the RX buffer of the receiving core.
LEMMA StoredFrame ==
  ASSUME NEW buf, NEW c, HasFormat(buf, c), IsFormat(c),
         NEW rest \in Seq(WordSet)
  PROVE  LET w == Assembled([identifier_base |-> c.base, identifier_ext |-> c.ext])
         IN  /\ StoredWords(buf) \in Seq(WordSet)
             /\ BeginsWith(StoredWords(buf) \o rest, FormatWord(c), w, buf.data, c.n, rest)
  <1> DEFINE f == FormatWord(c)
             w == Assembled([identifier_base |-> c.base, identifier_ext |-> c.ext])
             t == Stored(f, w, buf.data, c.n)
  <1>1. f \in WordSet
    BY ZenonT(40), StoredFormat
  <1>2. w \in WordSet
    <2>1. c.base \in Nat /\ c.base < 2^11 /\ c.ext \in Nat /\ c.ext < 2^18
      BY DEF IsFormat
    <2> QED BY ZenonT(40), <2>1, StoredIdentifier
  <1>3. StoredWords(buf) = t
    <2>1. /\ (Flag(c.eff) = 1 <=> c.eff)
          /\ (~c.eff => c.ext = 0) /\ (c.n + 3) - 3 = c.n
          /\ rwcnt_com(Flag(c.fd), 0, c.dlc) = c.n + 3
      BY DEF IsFormat, Flag
    <2>2. (IF Flag(c.eff) = 1 THEN c.ext ELSE 0) = c.ext
      BY <2>1
    <2>3. /\ Slice(buf.ffw, "dlc") = c.dlc /\ Slice(buf.ffw, "rtr") = 0
          /\ Slice(buf.ffw, "ide") = Flag(c.eff) /\ Slice(buf.ffw, "fdf") = Flag(c.fd)
          /\ Slice(buf.ffw, "brs") = Flag(c.brs)
          /\ Slice(buf.idw, "identifier_base") = c.base /\ Slice(buf.idw, "identifier_ext") = c.ext
      BY DEF HasFormat
    <2> QED BY ZenonT(40), <2>1, <2>2, <2>3 DEF StoredWords, Stored, FormatWord
  <1>4. buf.data \in [1..16 -> WordSet] /\ c.n \in Nat /\ c.n <= 16
    BY DEF HasFormat, IsFormat
  <1> HIDE DEF f, w
  <1>5. t \in Seq(WordSet) /\ BeginsWith(t \o rest, f, w, buf.data, c.n, rest)
    BY ZenonT(40), <1>1, <1>2, <1>4, StoredSequence
  <1> QED BY ZenonT(40), <1>3, <1>5 DEF f, w

\* The frame that the driver reads, and what it leaves in the RX buffer.
ReadsAs(r, c, len, data, rest) ==
  /\ r.frame.eff = c.eff /\ r.frame.rtr = FALSE
  /\ r.frame.id = IF c.eff THEN c.base * 2^18 + c.ext ELSE c.base
  /\ r.frame.len = len /\ r.frame.fd = c.fd /\ r.frame.brs = (c.fd /\ c.brs)
  /\ r.frame.data = [i \in 1..c.n |-> data[i]]
  /\ r.left = rest

LEMMA ReadFrame ==
  ASSUME NEW buf, NEW c, HasFormat(buf, c), IsFormat(c),
         NEW rest \in Seq(WordSet), NEW len \in Nat, CeilDiv4(len) = c.n,
         len = LengthRead(c.dlc, c.fd, c.n)
  PROVE  ReadsAs(read_rx_frame(StoredWords(buf) \o rest), c, len, buf.data, rest)
  <1> DEFINE f == FormatWord(c)
             w == Assembled([identifier_base |-> c.base, identifier_ext |-> c.ext])
             s == StoredWords(buf) \o rest
             r == read_rx_frame(s)
             id == hwid_to_id(w, FALSE, Flag(c.eff))
  <1>1. BeginsWith(s, f, w, buf.data, c.n, rest)
    BY ZenonT(40), StoredFrame
  <1>2. /\ Get(frame_form_w, f, "dlc") = c.dlc /\ Get(frame_form_w, f, "rtr") = 0
        /\ Get(frame_form_w, f, "ide") = Flag(c.eff)
        /\ Get(frame_form_w, f, "fdf") = Flag(c.fd)
        /\ Get(frame_form_w, f, "brs") = Flag(c.brs)
        /\ Get(frame_form_w, f, "esi_rsv") = Flag(c.fd)
        /\ Get(frame_form_w, f, "rwcnt") = c.n + 3
    BY ZenonT(40), StoredFormat
  <1>3. /\ Get(identifier_w, w, "identifier_base") = c.base
        /\ Get(identifier_w, w, "identifier_ext") = c.ext
    <2>1. c.base \in Nat /\ c.base < 2^11 /\ c.ext \in Nat /\ c.ext < 2^18
      BY DEF IsFormat
    <2> QED BY ZenonT(40), <2>1, StoredIdentifier
  <1>4. /\ (Flag(c.fd) = 1) = c.fd /\ (Flag(c.eff) = 1) = c.eff /\ (Flag(c.brs) = 1) = c.brs
        /\ 0 # 1 /\ ((c.n + 3) - 3) * 4 = c.n * 4
        /\ c.eff \in BOOLEAN /\ c.fd \in BOOLEAN /\ c.brs \in BOOLEAN
    BY DEF Flag, IsFormat
  <1> HIDE DEF f, w, s
  <1>5. /\ FifoWord(s, 1) = f /\ FifoWord(s, 2) = w
        /\ \A i \in 1..c.n : FifoWord(s, 4 + i) = buf.data[i]
        /\ SubSeq(s, 5 + c.n, Len(s)) = rest
    BY ZenonT(40), <1>1 DEF BeginsWith, FifoWord
  <1>6. [i \in 1..c.n |-> FifoWord(s, 4 + i)] = [i \in 1..c.n |-> buf.data[i]]
    BY ZenonT(40), <1>5
  <1>7. /\ id.eff = c.eff /\ id.rtr = FALSE
        /\ id.id = IF c.eff THEN c.base * 2^18 + c.ext ELSE c.base
    <2>1. CASE c.eff
      BY ZenonT(40), <1>3, <1>4, <2>1 DEF hwid_to_id
    <2>2. CASE ~c.eff
      BY ZenonT(40), <1>3, <1>4, <2>2 DEF hwid_to_id
    <2> QED BY ZenonT(40), <1>4, <2>1, <2>2
  <1> HIDE DEF id
  <1> DEFINE G(name) == Get(frame_form_w, FifoWord(s, 1), name)
             rlen == IF G("dlc") <= 8 THEN G("dlc")
                     ELSE IF G("fdf") = 1 THEN (G("rwcnt") - 3) * 4 ELSE 8
             rid == hwid_to_id(FifoWord(s, 2), ~(G("fdf") = 1) /\ G("rtr") = 1, G("ide"))
  <1>8. /\ r.frame.eff = rid.eff /\ r.frame.rtr = rid.rtr /\ r.frame.id = rid.id
        /\ r.frame.len = rlen /\ r.frame.fd = (G("fdf") = 1)
        /\ r.frame.brs = (G("fdf") = 1 /\ G("brs") = 1)
        /\ r.frame.data = [i \in 1..CeilDiv4(rlen) |-> FifoWord(s, 4 + i)]
        /\ r.left = SubSeq(s, 5 + CeilDiv4(rlen), Len(s))
    <2> QED BY ZenonT(40) DEF read_rx_frame
  <1>9. /\ G("dlc") = c.dlc /\ G("rtr") = 0 /\ G("ide") = Flag(c.eff) /\ G("fdf") = Flag(c.fd)
        /\ G("brs") = Flag(c.brs) /\ G("esi_rsv") = Flag(c.fd) /\ G("rwcnt") = c.n + 3
    BY ZenonT(40), <1>2, <1>5
  <1> HIDE DEF r, G
  <1>10. rlen = len
    BY <1>4, <1>9 DEF LengthRead
  <1>11. rid = id
    <2>1. (~(G("fdf") = 1) /\ G("rtr") = 1) = FALSE
      BY <1>9
    <2> QED BY ZenonT(40), <1>5, <1>9, <2>1 DEF id
  <1> HIDE DEF rlen, rid
  <1>12. /\ r.frame.fd = c.fd /\ r.frame.brs = (c.fd /\ c.brs)
    BY <1>4, <1>8, <1>9
  <1>13. /\ r.frame.data = [i \in 1..c.n |-> FifoWord(s, 4 + i)] /\ r.left = rest
    BY ZenonT(40), <1>5, <1>8, <1>10
  <1>14. /\ r.frame.eff = c.eff /\ r.frame.rtr = FALSE /\ r.frame.len = len
         /\ r.frame.id = IF c.eff THEN c.base * 2^18 + c.ext ELSE c.base
    BY ZenonT(40), <1>7, <1>8, <1>10, <1>11
  <1>15. ReadsAs(r, c, len, buf.data, rest)
    BY ZenonT(40), <1>6, <1>12, <1>13, <1>14 DEF ReadsAs
  <1> QED BY ZenonT(40), <1>15 DEF r, s

\* Lengths, length codes and numbers of data words.
Rounded(fd, len) == IF fd THEN can_dlc2len(can_len2dlc(len)) ELSE len
CodesOf(fd, len) == IF fd THEN {can_len2dlc(len)} ELSE IF len = 8 THEN 8..15 ELSE {len}

MaxLength(fd) == IF fd THEN 64 ELSE 8

\* n words carry a frame of length len with the length code d.
WordsFor(fd, len, d, n) ==
  /\ n <= 16 /\ rwcnt_com(Flag(fd), 0, d) = n + 3
  /\ CeilDiv4(Rounded(fd, len)) = n /\ CeilDiv4(len) <= n
  /\ Rounded(fd, len) \in Nat /\ Rounded(fd, len) = LengthRead(d, fd, n)

\* A length code of CAN FD stands for a length and for a number of words.
LEMMA FdCode ==
  ASSUME NEW len \in Nat, len <= 64
  PROVE  LET d == can_len2dlc(len)
         IN  /\ d \in Nat /\ d < 16
             /\ \E n \in Nat : /\ n <= 16 /\ rwcnt_com(1, 0, d) = n + 3
                               /\ CeilDiv4(can_dlc2len(d)) = n /\ CeilDiv4(len) <= n
                               /\ can_dlc2len(d) = IF d <= 8 THEN d ELSE n * 4
  <1> DEFINE d == can_len2dlc(len)
             Good(n) == /\ n <= 16 /\ rwcnt_com(1, 0, d) = n + 3
                        /\ CeilDiv4(can_dlc2len(d)) = n /\ CeilDiv4(len) <= n
                        /\ can_dlc2len(d) = IF d <= 8 THEN d ELSE n * 4
  <1>1. CASE len <= 8
    <2>1. d = len
      BY <1>1 DEF can_len2dlc
    <2>2. len \in {0, 1, 2, 3, 4, 5, 6, 7, 8}
      BY <1>1
    <2> DEFINE n == CeilDiv4(len)
    <2>3. n \in Nat /\ n <= 16 /\ can_dlc2len(len) = len
      BY <2>2 DEF CeilDiv4, can_dlc2len
    <2>4. rwcnt_com(1, 0, len) = n + 3
      BY <2>2 DEF CeilDiv4, rwcnt_com
    <2>5. Good(n)
      BY <1>1, <2>1, <2>3, <2>4
    <2> QED BY <1>1, <2>1, <2>3, <2>5
  <1>2. ASSUME NEW e \in Nat, NEW l \in Nat, NEW n \in Nat, e < 16, 8 < e, n <= 16, d = e,
               can_dlc2len(e) = l, rwcnt_com(1, 0, e) = n + 3, l = n * 4, len <= l
        PROVE  d \in Nat /\ d < 16 /\ \E m \in Nat : Good(m)
    <2>1. CeilDiv4(l) = n /\ CeilDiv4(len) <= n
      BY <1>2 DEF CeilDiv4
    <2>2. Good(n)
      BY <1>2, <2>1
    <2> QED BY <1>2, <2>2
  <1>3. /\ can_dlc2len(9) = 12 /\ can_dlc2len(10) = 16 /\ can_dlc2len(11) = 20
        /\ can_dlc2len(12) = 24 /\ can_dlc2len(13) = 32 /\ can_dlc2len(14) = 48
        /\ can_dlc2len(15) = 64
    BY DEF can_dlc2len
  <1>4. /\ rwcnt_com(1, 0, 9) = 3 + 3 /\ rwcnt_com(1, 0, 10) = 4 + 3 /\ rwcnt_com(1, 0, 11) = 5 + 3
        /\ rwcnt_com(1, 0, 12) = 6 + 3 /\ rwcnt_com(1, 0, 13) = 8 + 3 /\ rwcnt_com(1, 0, 14) = 12 + 3
        /\ rwcnt_com(1, 0, 15) = 16 + 3
    BY DEF rwcnt_com
  <1>5. CASE len \in 9..12
    <2>1. d = 9 /\ len <= 12
      BY <1>5 DEF can_len2dlc
    <2> QED BY <1>2, <1>3, <1>4, <2>1
  <1>6. CASE len \in 13..16
    <2>1. d = 10 /\ len <= 16
      BY <1>6 DEF can_len2dlc
    <2> QED BY <1>2, <1>3, <1>4, <2>1
  <1>7. CASE len \in 17..20
    <2>1. d = 11 /\ len <= 20
      BY <1>7 DEF can_len2dlc
    <2> QED BY <1>2, <1>3, <1>4, <2>1
  <1>8. CASE len \in 21..24
    <2>1. d = 12 /\ len <= 24
      BY <1>8 DEF can_len2dlc
    <2> QED BY <1>2, <1>3, <1>4, <2>1
  <1>9. CASE len \in 25..32
    <2>1. d = 13 /\ len <= 32
      BY <1>9 DEF can_len2dlc
    <2> QED BY <1>2, <1>3, <1>4, <2>1
  <1>10. CASE len \in 33..48
    <2>1. d = 14 /\ len <= 48
      BY <1>10 DEF can_len2dlc
    <2> QED BY <1>2, <1>3, <1>4, <2>1
  <1>11. CASE len \in 49..64
    <2>1. d = 15 /\ len <= 64
      BY <1>11 DEF can_len2dlc
    <2> QED BY <1>2, <1>3, <1>4, <2>1
  <1> QED BY <1>1, <1>5, <1>6, <1>7, <1>8, <1>9, <1>10, <1>11

\* A CAN 2.0 frame has at most 8 bytes whatever its length code.
LEMMA ClassicCode ==
  ASSUME NEW len \in Nat, len <= 8, NEW d \in CodesOf(FALSE, len)
  PROVE  /\ d \in Nat /\ d < 16 /\ can_len2dlc(len) = len
         /\ \E n \in Nat : /\ n <= 16 /\ rwcnt_com(0, 0, d) = n + 3 /\ CeilDiv4(len) = n
                           /\ len = IF d <= 8 THEN d ELSE 8
  <1>1. can_len2dlc(len) = len
    BY DEF can_len2dlc
  <1>2. d \in Nat /\ d < 16 /\ (len = 8 => d >= 8) /\ (len # 8 => d = len)
    BY DEF CodesOf
  <1>3. CASE len = 8
    <2>1. rwcnt_com(0, 0, d) = 2 + 3 /\ CeilDiv4(len) = 2
      BY <1>2, <1>3 DEF rwcnt_com, CeilDiv4
    <2> QED BY <1>1, <1>2, <1>3, <2>1
  <1>4. CASE len # 8
    <2>1. len \in {0, 1, 2, 3, 4, 5, 6, 7} /\ d = len
      BY <1>2, <1>4
    <2> DEFINE n == CeilDiv4(len)
    <2>2. n \in Nat /\ n <= 16
      BY <2>1 DEF CeilDiv4
    <2>3. rwcnt_com(0, 0, d) = n + 3
      BY <2>1 DEF rwcnt_com, CeilDiv4
    <2> HIDE DEF n
    <2> QED BY <1>1, <1>2, <2>1, <2>2, <2>3 DEF n
  <1> QED BY <1>3, <1>4

LEMMA Lengths ==
  ASSUME NEW fd \in BOOLEAN, NEW len \in Nat, len <= MaxLength(fd),
         NEW d \in CodesOf(fd, len)
  PROVE  /\ d \in Nat /\ d < 16 /\ can_len2dlc(len) \in Nat /\ can_len2dlc(len) < 16
         /\ \E n \in Nat : WordsFor(fd, len, d, n)
  <1>1. CASE fd
    <2>0. len <= 64
      BY <1>1 DEF MaxLength
    <2>1. d = can_len2dlc(len) /\ Rounded(fd, len) = can_dlc2len(d) /\ Flag(fd) = 1
      BY <1>1 DEF CodesOf, Rounded, Flag
    <2>2. d \in Nat /\ d < 16
      BY <2>0, <2>1, FdCode
    <2>3. PICK n \in Nat : /\ n <= 16 /\ rwcnt_com(1, 0, d) = n + 3
                           /\ CeilDiv4(can_dlc2len(d)) = n /\ CeilDiv4(len) <= n
                           /\ can_dlc2len(d) = IF d <= 8 THEN d ELSE n * 4
      BY ZenonT(40), <2>0, <2>1, FdCode
    <2>4. Rounded(fd, len) \in Nat
      BY <2>1, <2>2, <2>3
    <2>5. WordsFor(fd, len, d, n)
      BY ZenonT(40), <1>1, <2>1, <2>3, <2>4 DEF WordsFor, LengthRead
    <2> QED BY <2>1, <2>2, <2>3, <2>5
  <1>2. CASE ~fd
    <2>1. d \in CodesOf(FALSE, len) /\ Rounded(fd, len) = len /\ Flag(fd) = 0 /\ len <= 8
      BY <1>2 DEF CodesOf, Rounded, Flag, MaxLength
    <2>2. /\ d \in Nat /\ d < 16 /\ can_len2dlc(len) = len
          /\ \E n \in Nat : /\ n <= 16 /\ rwcnt_com(0, 0, d) = n + 3 /\ CeilDiv4(len) = n
                            /\ len = IF d <= 8 THEN d ELSE 8
      BY ZenonT(40), <2>1, ClassicCode
    <2>3. PICK n \in Nat : /\ n <= 16 /\ rwcnt_com(0, 0, d) = n + 3 /\ CeilDiv4(len) = n
                           /\ len = IF d <= 8 THEN d ELSE 8
      BY <2>2
    <2>4. WordsFor(fd, len, d, n)
      BY <1>2, <2>1, <2>3 DEF WordsFor, LengthRead
    <2> QED BY <2>1, <2>2, <2>3, <2>4
  <1> QED BY <1>1, <1>2

\* A data frame that user space may send, with a length code for it.
IsDataFrame(cf, dlc) ==
  /\ IsId(cf) /\ cf.rtr = FALSE /\ cf.fd \in BOOLEAN /\ cf.brs \in BOOLEAN /\ (cf.brs => cf.fd)
  /\ cf.len \in Nat /\ cf.len <= MaxLength(cf.fd) /\ dlc \in CodesOf(cf.fd, cf.len)
  /\ cf.data \in [1..16 -> WordSet]

\* Buffer buf is what insert_frame writes for cf, with the length code dlc.
Carries(buf, cf, dlc) ==
  /\ Slice(buf.ffw, "dlc") = dlc /\ Slice(buf.ffw, "rtr") = 0
  /\ Slice(buf.ffw, "ide") = Flag(cf.eff) /\ Slice(buf.ffw, "fdf") = Flag(cf.fd)
  /\ Slice(buf.ffw, "brs") = Flag(cf.fd /\ cf.brs)
  /\ buf.idw = id_to_hwid(cf)
  /\ buf.data = [i \in 1..16 |-> IF i <= CeilDiv4(cf.len) THEN cf.data[i] ELSE {}]

\* The frame is read as it was sent, and no word of it is left.
ReadsBack(r, cf, rest) ==
  SameFrame(r.frame, cf, Rounded(cf.fd, cf.len)) /\ r.left = rest

LEMMA ReadAsSent ==
  ASSUME NEW cf, NEW dlc, IsDataFrame(cf, dlc), NEW buf, Carries(buf, cf, dlc),
         NEW rest \in Seq(WordSet)
  PROVE  /\ StoredWords(buf) \in Seq(WordSet)
         /\ ReadsBack(read_rx_frame(StoredWords(buf) \o rest), cf, rest)
  <1> DEFINE base == IF cf.eff THEN cf.id \div 2^18 ELSE cf.id
             ext == IF cf.eff THEN cf.id % 2^18 ELSE 0
             len == Rounded(cf.fd, cf.len)
  <1>1. /\ dlc \in Nat /\ dlc < 16
        /\ \E n \in Nat : WordsFor(cf.fd, cf.len, dlc, n)
    <2>1. /\ cf.fd \in BOOLEAN /\ cf.len \in Nat /\ cf.len <= MaxLength(cf.fd)
          /\ dlc \in CodesOf(cf.fd, cf.len)
      BY DEF IsDataFrame
    <2> QED BY ZenonT(40), <2>1, Lengths
  <1>2. PICK n \in Nat : /\ n <= 16 /\ rwcnt_com(Flag(cf.fd), 0, dlc) = n + 3
                         /\ CeilDiv4(len) = n /\ CeilDiv4(cf.len) <= n /\ len \in Nat
                         /\ len = LengthRead(dlc, cf.fd, n)
    BY ZenonT(40), <1>1 DEF WordsFor
  <1>3. /\ base \in Nat /\ base < 2^11 /\ ext \in Nat /\ ext < 2^18
        /\ Slice(buf.idw, "identifier_base") = base /\ Slice(buf.idw, "identifier_ext") = ext
    <2>1. IsId(cf) /\ buf.idw = id_to_hwid(cf)
      BY DEF IsDataFrame, Carries
    <2> QED BY ZenonT(40), <2>1, HwId
  <1>4. /\ ~cf.eff => ext = 0
        /\ cf.id = IF cf.eff THEN base * 2^18 + ext ELSE base
        /\ cf.eff \in BOOLEAN
    BY DEF IsDataFrame, IsId
  <1> HIDE DEF base, ext, len
  <1>5. PICK c : c = [dlc |-> dlc, eff |-> cf.eff, fd |-> cf.fd, brs |-> cf.fd /\ cf.brs,
                      base |-> base, ext |-> ext, n |-> n]
    BY ZenonT(40)
  <1>6. /\ c.dlc = dlc /\ c.eff = cf.eff /\ c.fd = cf.fd /\ c.brs = (cf.fd /\ cf.brs)
        /\ c.base = base /\ c.ext = ext /\ c.n = n
    BY ZenonT(40), <1>5
  <1>7. buf.data \in [1..16 -> WordSet]
    <2>1. {} \in WordSet /\ cf.data \in [1..16 -> WordSet]
      BY DEF WordSet, IsDataFrame
    <2> QED BY ZenonT(40), <2>1 DEF Carries
  <1>8. HasFormat(buf, c)
    BY ZenonT(40), <1>3, <1>6, <1>7 DEF HasFormat, Carries
  <1>9. IsFormat(c)
    <2>1. cf.fd \in BOOLEAN /\ (cf.fd /\ cf.brs) \in BOOLEAN
      BY DEF IsDataFrame
    <2> QED BY ZenonT(40), <1>1, <1>2, <1>3, <1>4, <1>6, <2>1 DEF IsFormat
  <1> DEFINE r == read_rx_frame(StoredWords(buf) \o rest)
  <1>11. StoredWords(buf) \in Seq(WordSet)
    BY ZenonT(40), <1>8, <1>9, StoredFrame
  <1>12. ReadsAs(r, c, len, buf.data, rest)
    <2>1. /\ len \in Nat /\ CeilDiv4(len) = c.n
          /\ len = LengthRead(c.dlc, c.fd, c.n)
      BY ZenonT(40), <1>2, <1>6
    <2> QED BY ZenonT(40), <1>8, <1>9, <2>1, ReadFrame
  <1> HIDE DEF r
  <1>13. /\ r.frame.eff = cf.eff /\ r.frame.id = cf.id /\ r.frame.rtr = cf.rtr
         /\ r.frame.fd = cf.fd /\ r.frame.len = len
    BY ZenonT(40), <1>4, <1>6, <1>12 DEF IsDataFrame, ReadsAs
  <1>14. r.frame.brs = cf.brs
    <2>1. /\ cf.fd \in BOOLEAN /\ cf.brs \in BOOLEAN /\ (cf.brs => cf.fd)
      BY DEF IsDataFrame
    <2>2. (cf.fd /\ (cf.fd /\ cf.brs)) = cf.brs
      BY <2>1
    <2> QED BY ZenonT(40), <1>6, <1>12, <2>2 DEF ReadsAs
  <1>15. ASSUME NEW i \in 1..CeilDiv4(cf.len)
         PROVE  i \in DOMAIN r.frame.data /\ r.frame.data[i] = cf.data[i]
    <2>1. i \in 1..n /\ i \in 1..16 /\ i <= CeilDiv4(cf.len)
      <3>1. CeilDiv4(cf.len) \in Int
        BY DEF CeilDiv4, IsDataFrame
      <3> QED BY <1>2, <3>1
    <2>2. buf.data[i] = cf.data[i]
      BY ZenonT(40), <2>1 DEF Carries
    <2> QED BY ZenonT(40), <1>6, <1>12, <2>1, <2>2 DEF ReadsAs
  <1>16. SameFrame(r.frame, cf, len)
    BY ZenonT(40), <1>13, <1>14, <1>15 DEF SameFrame
  <1>17. r.left = rest
    BY <1>12 DEF ReadsAs
  <1> QED BY ZenonT(40), <1>11, <1>16, <1>17 DEF r, len, ReadsBack

\* What the driver inserts, with its own length code and with another one.
LEMMA Inserted ==
  ASSUME NEW cf, NEW dlc, IsDataFrame(cf, dlc)
  PROVE  LET buf == insert_frame(cf, cf.fd)
             sent == [buf EXCEPT !.ffw = With(frame_form_w, @, [dlc |-> dlc])]
         IN  Carries(buf, cf, can_len2dlc(cf.len)) /\ Carries(sent, cf, dlc)
  <1> DEFINE buf == insert_frame(cf, cf.fd)
             sent == [buf EXCEPT !.ffw = With(frame_form_w, @, [dlc |-> dlc])]
  <1>1. /\ dlc \in Nat /\ dlc < 16 /\ can_len2dlc(cf.len) \in Nat /\ can_len2dlc(cf.len) < 16
    <2>1. /\ cf.fd \in BOOLEAN /\ cf.len \in Nat /\ cf.len <= MaxLength(cf.fd)
          /\ dlc \in CodesOf(cf.fd, cf.len)
      BY DEF IsDataFrame
    <2> QED BY ZenonT(40), <2>1, Lengths
  <1>2. cf.eff \in BOOLEAN /\ cf.rtr = FALSE /\ cf.brs \in BOOLEAN /\ cf.fd \in BOOLEAN
    BY DEF IsDataFrame, IsId
  <1>3. /\ Slice(buf.ffw, "dlc") = can_len2dlc(cf.len) /\ Slice(buf.ffw, "rtr") = 0
        /\ Slice(buf.ffw, "ide") = Flag(cf.eff) /\ Slice(buf.ffw, "fdf") = Flag(cf.fd)
        /\ Slice(buf.ffw, "brs") = Flag(cf.fd /\ cf.brs)
    BY ZenonT(40), <1>1, <1>2, InsertedFormat
  <1>4. /\ buf.idw = id_to_hwid(cf)
        /\ buf.data = [i \in 1..16 |-> IF ~cf.rtr /\ i <= CeilDiv4(cf.len) THEN cf.data[i] ELSE {}]
    BY ZenonT(40) DEF insert_frame
  <1>5. buf.data = [i \in 1..16 |-> IF i <= CeilDiv4(cf.len) THEN cf.data[i] ELSE {}]
    BY ZenonT(40), <1>2, <1>4
  <1>6. /\ sent.ffw = With(frame_form_w, buf.ffw, [dlc |-> dlc])
        /\ sent.idw = buf.idw /\ sent.data = buf.data
    BY ZenonT(40) DEF insert_frame
  <1> HIDE DEF buf, sent
  <1>7. /\ Slice(sent.ffw, "dlc") = dlc /\ Slice(sent.ffw, "rtr") = Slice(buf.ffw, "rtr")
        /\ Slice(sent.ffw, "ide") = Slice(buf.ffw, "ide") /\ Slice(sent.ffw, "fdf") = Slice(buf.ffw, "fdf")
        /\ Slice(sent.ffw, "brs") = Slice(buf.ffw, "brs")
    <2> DEFINE v == With(frame_form_w, buf.ffw, [dlc |-> dlc])
    <2>1. /\ Slice(v, "dlc") = dlc /\ Slice(v, "rtr") = Slice(buf.ffw, "rtr")
          /\ Slice(v, "ide") = Slice(buf.ffw, "ide") /\ Slice(v, "fdf") = Slice(buf.ffw, "fdf")
          /\ Slice(v, "brs") = Slice(buf.ffw, "brs")
      BY ZenonT(40), <1>1, RecodedFormat
    <2> HIDE DEF v
    <2>2. sent.ffw = v
      BY <1>6 DEF v
    <2> QED BY ZenonT(40), <2>1, <2>2
  <1>8. Carries(buf, cf, can_len2dlc(cf.len))
    BY ZenonT(40), <1>3, <1>4, <1>5 DEF Carries
  <1>9. Carries(sent, cf, dlc)
    BY ZenonT(40), <1>3, <1>4, <1>5, <1>6, <1>7 DEF Carries
  <1> QED BY ZenonT(40), <1>8, <1>9 DEF buf, sent

\* The job of a frame case never changes.
FrameInv == job.kind = "frame" => job \in Frames

LEMMA InitFrame == Init => FrameInv
  <1> SUFFICES ASSUME Init, job.kind = "frame" PROVE job \in Frames
    BY DEF FrameInv
  <1>1. /\ job # [kind |-> "timing"] /\ job # [kind |-> "find"] /\ job # [kind |-> "time"]
        /\ job # [kind |-> "state"]
        /\ job \notin Ranges \union Starts \union ToolStarts \union Commands
                     \union Layouts \union Addresses \union Presets
    BY Kinds
  <1> QED BY ZenonT(40), <1>1 DEF Init

LEMMA DataWords == [k \in 1..16 |-> Data(k)] \in [1..16 -> WordSet]
  <1>1. \A k \in 1..16 : Data(k) \in WordSet
    BY DEF Data, WordSet
  <1> QED BY <1>1

\* A frame that is put together from an identifier, a length and flags.
HasFields(cf, rtr, fd, len, brs) ==
  /\ IsId(cf) /\ cf.rtr = rtr /\ cf.fd = fd /\ cf.len = len /\ cf.brs = brs
  /\ cf.data \in [1..16 -> WordSet]

LEMMA FrameFields ==
  ASSUME NEW id, IsId(id), NEW rtr, NEW fd, NEW len, NEW brs
  PROVE  HasFields(AFrame(id, rtr, fd, len, brs), rtr, fd, len, brs)
  <1> DEFINE cf == AFrame(id, rtr, fd, len, brs)
  <1>1. /\ cf.eff = id.eff /\ cf.id = id.id /\ cf.rtr = rtr /\ cf.fd = fd /\ cf.len = len
        /\ cf.brs = brs /\ cf.data = [k \in 1..16 |-> Data(k)]
    BY ZenonT(40) DEF AFrame
  <1> HIDE DEF cf
  <1>2. IsId(cf)
    BY ZenonT(40), <1>1 DEF IsId
  <1>3. cf.data \in [1..16 -> WordSet]
    BY ZenonT(40), <1>1, DataWords
  <1> QED BY ZenonT(40), <1>1, <1>2, <1>3 DEF cf, HasFields

LEMMA FrameJob ==
  ASSUME NEW j \in Frames, ~j.cf.rtr
  PROVE  IsDataFrame(j.cf, j.dlc)
  <1>1. /\ j.cf \in SentFrames /\ j.dlc \in LengthCodes(j.cf)
    BY ZenonT(40) DEF Frames
  <1>2. CASE \E id \in CanIds, rtr \in BOOLEAN, len \in 0..8 : j.cf = AFrame(id, rtr, FALSE, len, FALSE)
    <2>1. PICK id \in CanIds, rtr \in BOOLEAN, len \in 0..8 : j.cf = AFrame(id, rtr, FALSE, len, FALSE)
      BY ZenonT(40), <1>2
    <2>2. IsId(id)
      BY KnownId
    <2>3. /\ IsId(j.cf) /\ j.cf.rtr = rtr /\ j.cf.fd = FALSE /\ j.cf.len = len /\ j.cf.brs = FALSE
          /\ j.cf.data \in [1..16 -> WordSet]
      <3>1. HasFields(AFrame(id, rtr, FALSE, len, FALSE), rtr, FALSE, len, FALSE)
        BY ZenonT(40), <2>2, FrameFields
      <3> QED BY ZenonT(40), <2>1, <3>1 DEF HasFields
    <2>4. j.cf.rtr = FALSE
      BY ZenonT(40), <2>3
    <2>5. j.cf.len \in Nat /\ j.cf.len <= MaxLength(j.cf.fd)
      BY <2>3 DEF MaxLength
    <2>6. j.dlc \in CodesOf(j.cf.fd, j.cf.len)
      BY ZenonT(40), <1>1, <2>3, <2>4 DEF LengthCodes, CodesOf
    <2> QED BY ZenonT(40), <1>1, <2>3, <2>4, <2>5, <2>6 DEF IsDataFrame
  <1>3. CASE \E id \in CanIds, len \in 0..64, brs \in BOOLEAN : j.cf = AFrame(id, FALSE, TRUE, len, brs)
    <2>1. PICK id \in CanIds, len \in 0..64, brs \in BOOLEAN : j.cf = AFrame(id, FALSE, TRUE, len, brs)
      BY ZenonT(40), <1>3
    <2>2. IsId(id)
      BY KnownId
    <2>3. /\ IsId(j.cf) /\ j.cf.rtr = FALSE /\ j.cf.fd = TRUE /\ j.cf.len = len /\ j.cf.brs = brs
          /\ j.cf.data \in [1..16 -> WordSet]
      <3>1. HasFields(AFrame(id, FALSE, TRUE, len, brs), FALSE, TRUE, len, brs)
        BY ZenonT(40), <2>2, FrameFields
      <3> QED BY ZenonT(40), <2>1, <3>1 DEF HasFields
    <2>4. j.cf.len \in Nat /\ j.cf.len <= MaxLength(j.cf.fd)
      BY <2>3 DEF MaxLength
    <2>5. j.dlc \in CodesOf(j.cf.fd, j.cf.len)
      BY ZenonT(40), <1>1, <2>3 DEF LengthCodes, CodesOf
    <2> QED BY ZenonT(40), <1>1, <2>3, <2>4, <2>5 DEF IsDataFrame
  <1>4. \/ \E id \in CanIds, rtr \in BOOLEAN, len \in 0..8 : j.cf = AFrame(id, rtr, FALSE, len, FALSE)
        \/ \E id \in CanIds, len \in 0..64, brs \in BOOLEAN : j.cf = AFrame(id, FALSE, TRUE, len, brs)
    <2> DEFINE Classic(L) == {AFrame(id, rtr, FALSE, len, FALSE) :
                                id \in CanIds, rtr \in BOOLEAN, len \in L}
               Fd(L) == {AFrame(id, FALSE, TRUE, len, brs) :
                           id \in CanIds, len \in L, brs \in BOOLEAN}
    <2>0. PICK cf : cf = j.cf
      OBVIOUS
    <2>1. ASSUME NEW L, cf \in Classic(L)
          PROVE  \E id \in CanIds, rtr \in BOOLEAN, len \in L : cf = AFrame(id, rtr, FALSE, len, FALSE)
      BY <2>1 DEF AFrame
    <2>2. ASSUME NEW L, cf \in Fd(L)
          PROVE  \E id \in CanIds, len \in L, brs \in BOOLEAN : cf = AFrame(id, FALSE, TRUE, len, brs)
      BY <2>2 DEF AFrame
    <2>3. SentFrames = Classic(0..8) \union Fd(0..64)
      BY DEF SentFrames
    <2> HIDE DEF Classic, Fd
    <2>4. cf \in Classic(0..8) \/ cf \in Fd(0..64)
      BY ZenonT(40), <1>1, <2>0, <2>3
    <2>5. \/ \E id \in CanIds, rtr \in BOOLEAN, len \in 0..8 : cf = AFrame(id, rtr, FALSE, len, FALSE)
          \/ \E id \in CanIds, len \in 0..64, brs \in BOOLEAN : cf = AFrame(id, FALSE, TRUE, len, brs)
      BY ZenonT(40), <2>1, <2>2, <2>4
    <2> QED BY ZenonT(40), <2>0, <2>5
  <1> QED BY ZenonT(40), <1>2, <1>3, <1>4

LEMMA FollowerFrame == IsDataFrame(Follower, 1) /\ can_len2dlc(Follower.len) = 1
                         /\ Follower.fd = FALSE /\ Rounded(Follower.fd, Follower.len) = 1
  <1> DEFINE id == [eff |-> FALSE, id |-> 5]
  <1>1. IsId(id)
    BY DEF IsId
  <1>2. /\ IsId(Follower) /\ Follower.rtr = FALSE /\ Follower.fd = FALSE /\ Follower.len = 1
        /\ Follower.brs = FALSE /\ Follower.data \in [1..16 -> WordSet]
    <2>1. HasFields(AFrame(id, FALSE, FALSE, 1, FALSE), FALSE, FALSE, 1, FALSE)
      BY ZenonT(40), <1>1, FrameFields
    <2> QED BY ZenonT(40), <2>1 DEF HasFields, Follower
  <1>3. can_len2dlc(Follower.len) = 1 /\ Rounded(Follower.fd, Follower.len) = 1
    BY <1>2 DEF can_len2dlc, Rounded
  <1>4. /\ Follower.len \in Nat /\ Follower.len <= MaxLength(Follower.fd)
        /\ 1 \in CodesOf(Follower.fd, Follower.len)
    BY <1>2 DEF MaxLength, CodesOf
  <1> QED BY ZenonT(40), <1>2, <1>3, <1>4 DEF IsDataFrame

LEMMA FrameDelivered == FrameInv => FrameRoundTrip
  <1> SUFFICES ASSUME job \in Frames, ~job.cf.rtr PROVE Delivered
    BY DEF FrameInv, FrameRoundTrip
  <1> DEFINE buf == insert_frame(job.cf, job.cf.fd)
             sent == [buf EXCEPT !.ffw = With(frame_form_w, @, [dlc |-> job.dlc])]
             next == insert_frame(Follower, FALSE)
             rest == StoredWords(next)
             first == read_rx_frame(StoredWords(sent) \o rest)
             second == read_rx_frame(rest)
  <1>1. IsDataFrame(job.cf, job.dlc)
    BY FrameJob
  <1>2. Carries(sent, job.cf, job.dlc)
    BY ZenonT(40), <1>1, Inserted
  <1>3. Carries(next, Follower, 1)
    BY ZenonT(40), FollowerFrame, Inserted
  <1> HIDE DEF sent, next
  <1>4. <<>> \in Seq(WordSet)
    OBVIOUS
  <1>5. rest \in Seq(WordSet) /\ ReadsBack(read_rx_frame(rest \o <<>>), Follower, <<>>)
    BY ZenonT(40), <1>3, <1>4, FollowerFrame, ReadAsSent
  <1> HIDE DEF rest
  <1>6. rest \o <<>> = rest
    BY <1>5
  <1>7. SameFrame(second.frame, Follower, 1) /\ second.left = <<>>
    BY ZenonT(40), <1>5, <1>6, FollowerFrame DEF ReadsBack
  <1>8. ReadsBack(first, job.cf, rest)
    BY ZenonT(40), <1>1, <1>2, <1>5, ReadAsSent
  <1>9. Buffered = StoredWords(sent) \o rest
    BY ZenonT(40) DEF Buffered, sent, rest, next
  <1> QED BY ZenonT(40), <1>7, <1>8, <1>9 DEF Delivered, Rounded, ReadsBack

\* A data frame that one driver inserts into a TXT buffer is the frame that
\* another driver reads from the RX buffer of its core, but for the ESI flag,
\* with its length rounded up to one that CAN FD has, and the frame that
\* follows it is read whole: for every identifier of 11 and of 29 bits, every length and every
\* length code that a sender may choose.
THEOREM DriverHwFrames == Spec => []FrameRoundTrip
  <1>1. FrameInv /\ [Next]_vars => FrameInv'
    BY SameJob DEF FrameInv
  <1> QED BY <1>1, InitFrame, FrameDelivered, PTL DEF Spec
=============================================================================
