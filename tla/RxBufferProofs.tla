--------------------------- MODULE RxBufferProofs ---------------------------
(***************************************************************************)
(* The RX buffer is a FIFO of whole frames for every size of the memory,   *)
(* every set of frames that fit and both timestamp options, if software    *)
(* releases the buffer between receptions only and before it enables a     *)
(* core again that it disabled in a reception.                             *)
(***************************************************************************)
EXTENDS RxBuffer, Integers, TLAPS

\* The time limits, in seconds, of the leaves that name no prover.
USE SMTT(40), ZenonT(40)

-----------------------------------------------------------------------------
(* Addresses: the memory is a ring.                                        *)

\* The address k words after p.
Plus(p, k) == IF p + k < buff_size THEN p + k ELSE p + k - buff_size

LEMMA IncPlus == ASSUME NEW p \in Addr PROVE inc_1(p) = Plus(p, 1) /\ inc_1(p) \in Addr
  BY RxBufferAssumption DEF inc_1, Plus, Addr

LEMMA ModPlus ==
  ASSUME NEW p \in Addr, NEW k \in Addr
  PROVE  (p + k) % buff_size = Plus(p, k)
  BY RxBufferAssumption DEF Plus, Addr

LEMMA PlusType ==
  ASSUME NEW p \in Addr, NEW k \in 0..buff_size
  PROVE  Plus(p, k) \in Addr
  BY RxBufferAssumption DEF Plus, Addr

LEMMA PlusAddr ==
  ASSUME NEW p \in Addr, NEW k \in Addr
  PROVE  Plus(p, k) \in Addr
  BY RxBufferAssumption DEF Plus, Addr

LEMMA PlusPlus ==
  ASSUME NEW p \in Addr, NEW k \in Nat, NEW l \in Nat, k + l <= buff_size
  PROVE  Plus(Plus(p, k), l) = Plus(p, k + l)
  BY RxBufferAssumption DEF Plus, Addr

LEMMA PlusInjective ==
  ASSUME NEW p \in Addr, NEW k \in Addr, NEW l \in Addr, Plus(p, k) = Plus(p, l)
  PROVE  k = l
  BY RxBufferAssumption DEF Plus, Addr

-----------------------------------------------------------------------------
(* The committed words: u words from address r on in memory R, the next c  *)
(* of them the rest of a frame that is being read, of m frames in all.     *)

LEMMA WordType ==
  ASSUME NEW R \in [Addr -> Words], NEW a \in Addr
  PROVE  R[a].rwcnt \in Addr /\ R[a].pos \in Addr
  BY DEF Words

\* A frame begins at the b-th word and ends before the e-th.
WholeFrame(r, R, b, e) ==
  /\ b + 1 < e /\ R[Plus(r, b)].pos = 0 /\ R[Plus(r, b)].rwcnt = e - b - 1
  /\ \A k \in Addr : b < k /\ k < e => R[Plus(r, k)].pos # 0

\* The i-th of n frames ends where s says, and the next one begins there.
Ends(r, u, c, n, s, R) ==
  /\ s[0] = c /\ s[n] = u
  /\ \A i, j \in 0..n : i <= j => s[i] + (j - i) <= s[j]
  /\ \A k \in Addr : k < c => R[Plus(r, k)].pos # 0
  /\ \A i \in 1..n : WholeFrame(r, R, s[i - 1], s[i])

WholeFrames(r, u, c, m, R) ==
  \E n \in 0..u : \E s \in [0..n -> 0..u] :
    Ends(r, u, c, n, s, R) /\ m = n + (IF c > 0 THEN 1 ELSE 0)

\* An empty memory.
LEMMA EmptyWhole ==
  ASSUME NEW R PROVE 0 \in Addr => WholeFrames(0, 0, 0, 0, R)
  <1> DEFINE s == [i \in 0..0 |-> 0]
  <1>1. s \in [0..0 -> 0..0] /\ 0 \in 0..0 /\ s[0] = 0
    OBVIOUS
  <1>2. \A i, j \in 0..0 : i <= j => s[i] + (j - i) <= s[j]
    OBVIOUS
  <1>3. (\A k \in Addr : ~(k < 0)) /\ \A i \in 1..0 : FALSE
    BY DEF Addr
  <1> HIDE DEF s
  <1>4. Ends(0, 0, 0, 0, s, R)
    BY <1>1, <1>2, <1>3 DEF Ends
  <1> QED BY <1>1, <1>4 DEF WholeFrames

\* Frames are counted as long as there are words.
LEMMA FramesIffWords ==
  ASSUME NEW r \in Addr, NEW u \in 0..buff_size, NEW c \in Addr, NEW m,
         NEW R \in [Addr -> Words], WholeFrames(r, u, c, m, R)
  PROVE  m \in 0..buff_size /\ (m > 0 <=> u > 0)
  <1>0. PICK n \in 0..u : \E s \in [0..n -> 0..u] :
          Ends(r, u, c, n, s, R) /\ m = n + (IF c > 0 THEN 1 ELSE 0)
    BY DEF WholeFrames
  <1>1. PICK s \in [0..n -> 0..u] :
          Ends(r, u, c, n, s, R) /\ m = n + (IF c > 0 THEN 1 ELSE 0)
    BY <1>0
  <1>2. n \in Nat /\ u \in Nat /\ c \in Nat /\ 0 \in 0..n /\ n \in 0..n
    BY RxBufferAssumption DEF Addr
  <1>3. c + (n - 0) <= u
    BY <1>1, <1>2 DEF Ends
  <1>4. n = 0 => u = c
    BY <1>1 DEF Ends
  <1> QED BY <1>1, <1>2, <1>3, <1>4, RxBufferAssumption

\* Only the committed words matter.
LEMMA SameWords ==
  ASSUME NEW r \in Addr, NEW u \in 0..buff_size, NEW c \in Addr, NEW m,
         NEW R \in [Addr -> Words], NEW S \in [Addr -> Words],
         \A k \in Addr : k < u => S[Plus(r, k)] = R[Plus(r, k)],
         WholeFrames(r, u, c, m, R)
  PROVE  WholeFrames(r, u, c, m, S)
  <1>0. PICK n \in 0..u : \E s \in [0..n -> 0..u] :
          Ends(r, u, c, n, s, R) /\ m = n + (IF c > 0 THEN 1 ELSE 0)
    BY DEF WholeFrames
  <1>1. PICK s \in [0..n -> 0..u] :
          Ends(r, u, c, n, s, R) /\ m = n + (IF c > 0 THEN 1 ELSE 0)
    BY <1>0
  <1>2. n \in Nat /\ u \in Nat /\ c \in Nat /\ u <= buff_size /\ c <= u
    BY <1>1, RxBufferAssumption DEF Addr, Ends
  <1>3. \A k \in Addr : k < c => S[Plus(r, k)].pos # 0
    BY <1>1, <1>2 DEF Ends, Addr
  <1>4. ASSUME NEW i \in 1..n PROVE WholeFrame(r, S, s[i - 1], s[i])
    <2> DEFINE b == s[i - 1]
               e == s[i]
    <2>1. b \in 0..u /\ e \in 0..u /\ WholeFrame(r, R, b, e)
      BY <1>1, <1>2 DEF Ends
    <2> HIDE DEF b, e
    <2>2. b \in Addr /\ b < u /\ \A k \in Addr : k < e => k < u
      BY <1>2, <2>1, RxBufferAssumption DEF WholeFrame, Addr
    <2>3. WholeFrame(r, S, b, e)
      BY <2>1, <2>2 DEF WholeFrame
    <2> QED BY <2>3 DEF b, e
  <1>5. Ends(r, u, c, n, s, S)
    BY <1>1, <1>3, <1>4 DEF Ends
  <1> QED BY <1>1, <1>5 DEF WholeFrames

\* The same frame, seen from the next word.
LEMMA NextWord ==
  ASSUME NEW r \in Addr, NEW R \in [Addr -> Words],
         NEW b \in 1..buff_size, NEW e \in 0..buff_size, WholeFrame(r, R, b, e)
  PROVE  WholeFrame(Plus(r, 1), R, b - 1, e - 1)
  <1>1. \A k \in Addr : k + 1 <= buff_size => Plus(Plus(r, 1), k) = Plus(r, k + 1)
    BY RxBufferAssumption DEF Addr, Plus
  <1>2. /\ b - 1 \in Addr /\ b - 1 + 1 = b /\ b <= buff_size
        /\ b - 1 + 1 < e - 1 /\ e - 1 - (b - 1) - 1 = e - b - 1
    BY RxBufferAssumption DEF Addr, WholeFrame
  <1>3. Plus(Plus(r, 1), b - 1) = Plus(r, b)
    BY <1>1, <1>2
  <1>4. ASSUME NEW k \in Addr, b - 1 < k, k < e - 1 PROVE R[Plus(Plus(r, 1), k)].pos # 0
    <2>1. k + 1 \in Addr /\ b < k + 1 /\ k + 1 < e /\ k + 1 <= buff_size
      BY <1>4, RxBufferAssumption DEF Addr
    <2> QED BY <1>1, <2>1 DEF WholeFrame
  <1> QED BY <1>2, <1>3, <1>4 DEF WholeFrame

\* A word is read.
LEMMA ReadWhole ==
  ASSUME NEW r \in Addr, NEW u \in 1..buff_size, NEW c \in Addr, NEW m,
         NEW R \in [Addr -> Words], WholeFrames(r, u, c, m, R)
  PROVE  LET c2 == IF c = 0 THEN R[r].rwcnt ELSE c - 1
             m2 == IF c = 1 THEN m - 1 ELSE m
         IN  c2 \in Addr /\ WholeFrames(Plus(r, 1), u - 1, c2, m2, R)
  <1> DEFINE q == Plus(r, 1)
             c2 == IF c = 0 THEN R[r].rwcnt ELSE c - 1
             m2 == IF c = 1 THEN m - 1 ELSE m
  <1>0. PICK n \in 0..u : \E s \in [0..n -> 0..u] :
          Ends(r, u, c, n, s, R) /\ m = n + (IF c > 0 THEN 1 ELSE 0)
    BY DEF WholeFrames
  <1>1. PICK s \in [0..n -> 0..u] :
          Ends(r, u, c, n, s, R) /\ m = n + (IF c > 0 THEN 1 ELSE 0)
    BY <1>0
  <1>2. /\ n \in Nat /\ u \in Nat /\ c \in Nat /\ u > 0 /\ u <= buff_size /\ buff_size \in Nat
        /\ 0 \in 0..n /\ n \in 0..n /\ 0 \in Addr /\ Plus(r, 0) = r
        /\ \A i \in 0..n : s[i] \in 0..u
    BY RxBufferAssumption DEF Addr, Plus
  <1>3. /\ s[0] = c /\ s[n] = u
        /\ \A i, j \in 0..n : i <= j => s[i] + (j - i) <= s[j]
        /\ \A k \in Addr : k < c => R[Plus(r, k)].pos # 0
        /\ \A i \in 1..n : WholeFrame(r, R, s[i - 1], s[i])
    BY <1>1 DEF Ends
  <1>4. \A k \in Addr : k + 1 <= buff_size => Plus(q, k) = Plus(r, k + 1)
    BY RxBufferAssumption DEF Addr, Plus
  <1>5. CASE c > 0
    <2> DEFINE t == [i \in 0..n |-> s[i] - 1]
    <2>1. \A i \in 0..n : s[i] \in 1..u
      BY <1>2, <1>3, <1>5
    <2>2. t \in [0..n -> 0..(u - 1)] /\ n \in 0..(u - 1) /\ \A i \in 0..n : t[i] = s[i] - 1
      BY <1>2, <1>3, <1>5, <2>1
    <2> HIDE DEF t
    <2>3. t[0] = c - 1 /\ t[n] = u - 1
      BY <1>2, <1>3, <2>2
    <2>4. ASSUME NEW i \in 0..n, NEW j \in 0..n, i <= j PROVE t[i] + (j - i) <= t[j]
      <3>1. s[i] + (j - i) <= s[j] /\ t[i] = s[i] - 1 /\ t[j] = s[j] - 1
        BY ZenonT(40), <1>3, <2>2, <2>4
      <3>2. s[i] \in Int /\ s[j] \in Int
        BY <1>2
      <3> QED BY <3>1, <3>2
    <2>5. ASSUME NEW k \in Addr, k < c - 1 PROVE R[Plus(q, k)].pos # 0
      <3>1. k + 1 \in Addr /\ k + 1 < c /\ k + 1 <= buff_size
        BY <1>2, <2>5 DEF Addr
      <3> QED BY <1>3, <1>4, <3>1
    <2>6. ASSUME NEW i \in 1..n PROVE WholeFrame(q, R, t[i - 1], t[i])
      <3>1. i - 1 \in 0..n /\ i \in 0..n
        BY <1>2
      <3>2. s[i - 1] \in 1..u /\ s[i] \in 1..u
        BY <2>1, <3>1
      <3>3. s[i - 1] \in 1..buff_size /\ s[i] \in 0..buff_size
        BY <1>2, <3>2
      <3>4. t[i - 1] = s[i - 1] - 1 /\ t[i] = s[i] - 1
        BY <2>2, <3>1
      <3>5. WholeFrame(q, R, s[i - 1] - 1, s[i] - 1)
        BY ZenonT(40), <1>3, <3>3, NextWord
      <3> QED BY <3>4, <3>5
    <2>7. Ends(q, u - 1, c - 1, n, t, R)
      BY <2>3, <2>4, <2>5, <2>6 DEF Ends
    <2>8. c2 = c - 1 /\ c2 \in Addr /\ m2 = n + (IF c - 1 > 0 THEN 1 ELSE 0)
      BY <1>1, <1>2, <1>5 DEF Addr
    <2> HIDE DEF c2, m2, q
    <2> QED BY ZenonT(40), <2>2, <2>7, <2>8 DEF WholeFrames, c2, m2, q
  <1>6. CASE c = 0
    <2>1. n > 0 /\ n - 1 \in Nat /\ 1 \in 1..n /\ 1 - 1 = 0
      <3>1. n # 0
        BY <1>2, <1>3, <1>6
      <3> QED BY <1>2, <3>1
    <2>2. WholeFrame(r, R, 0, s[1])
      BY <1>3, <1>6, <2>1
    <2>3. 0 + 1 < s[1] /\ R[r].rwcnt = s[1] - 0 - 1 /\ s[1] \in 0..u
      BY <1>2, <2>1, <2>2 DEF WholeFrame
    <2> DEFINE t == [i \in 0..(n - 1) |-> s[i + 1] - 1]
    <2>4. \A i \in 0..(n - 1) : i + 1 \in 0..n /\ s[i + 1] \in 2..u
      <3> SUFFICES ASSUME NEW i \in 0..(n - 1) PROVE i + 1 \in 0..n /\ s[i + 1] \in 2..u
        OBVIOUS
      <3>1. i + 1 \in 0..n /\ 1 \in 0..n /\ 1 <= i + 1 /\ i \in Nat
        BY <1>2, <2>1
      <3>2. s[1] + (i + 1 - 1) <= s[i + 1] /\ s[i + 1] \in 0..u
        BY <1>2, <1>3, <3>1
      <3> QED BY <1>2, <2>3, <3>1, <3>2
    <2>5. /\ t \in [0..(n - 1) -> 0..(u - 1)] /\ n - 1 \in 0..(u - 1)
          /\ \A i \in 0..(n - 1) : t[i] = s[i + 1] - 1
      BY <1>2, <2>1, <2>4
    <2> HIDE DEF t
    <2>6. t[0] = s[1] - 1 /\ t[n - 1] = u - 1
      <3>1. 0 \in 0..(n - 1) /\ n - 1 \in 0..(n - 1) /\ 0 + 1 = 1 /\ n - 1 + 1 = n
        BY <1>2, <2>1
      <3> QED BY <1>3, <2>5, <3>1
    <2>7. ASSUME NEW i \in 0..(n - 1), NEW j \in 0..(n - 1), i <= j
          PROVE  t[i] + (j - i) <= t[j]
      <3>1. s[i + 1] + (j + 1 - (i + 1)) <= s[j + 1]
        BY <1>2, <1>3, <2>4, <2>7
      <3>2. s[i + 1] \in Nat /\ s[j + 1] \in Nat
        BY <1>2, <2>4
      <3>3. t[i] = s[i + 1] - 1 /\ t[j] = s[j + 1] - 1
        BY <2>5
      <3>4. i \in Int /\ j \in Int
        BY <1>2
      <3>5. s[i + 1] - 1 + (j - i) <= s[j + 1] - 1
        BY <3>1, <3>2, <3>4
      <3> QED BY <3>3, <3>5, ZenonT(40)
    <2>8. ASSUME NEW k \in Addr, k < s[1] - 1 PROVE R[Plus(q, k)].pos # 0
      <3>1. k + 1 \in Addr /\ 0 < k + 1 /\ k + 1 < s[1] /\ k + 1 <= buff_size
        BY <1>2, <2>3, <2>8 DEF Addr
      <3> QED BY <1>4, <2>2, <3>1 DEF WholeFrame
    <2>9. ASSUME NEW i \in 1..(n - 1) PROVE WholeFrame(q, R, t[i - 1], t[i])
      <3>1. i - 1 \in 0..(n - 1) /\ i \in 0..(n - 1) /\ i - 1 + 1 = i /\ i + 1 \in 1..n
            /\ i + 1 - 1 = i
        BY <1>2, <2>1
      <3>2. s[i - 1 + 1] \in 2..u /\ s[i + 1] \in 2..u
        BY ZenonT(40), <2>4, <3>1
      <3>3. s[i] \in 1..buff_size /\ s[i + 1] \in 0..buff_size
        BY <1>2, <3>1, <3>2
      <3>4. t[i - 1] = s[i - 1 + 1] - 1 /\ t[i] = s[i + 1] - 1
        BY <2>5, <3>1
      <3>5. WholeFrame(r, R, s[i], s[i + 1])
        BY <1>3, <3>1
      <3>6. WholeFrame(q, R, s[i] - 1, s[i + 1] - 1)
        BY ZenonT(40), <3>3, <3>5, NextWord
      <3> QED BY <3>1, <3>4, <3>6
    <2>10. Ends(q, u - 1, s[1] - 1, n - 1, t, R)
      BY <2>6, <2>7, <2>8, <2>9 DEF Ends
    <2>11. /\ c2 = s[1] - 1 /\ c2 \in Addr
           /\ m2 = n - 1 + (IF s[1] - 1 > 0 THEN 1 ELSE 0)
      BY <1>1, <1>2, <1>6, <2>3, WordType DEF Addr
    <2> HIDE DEF c2, m2, q
    <2> QED BY ZenonT(40), <2>5, <2>10, <2>11 DEF WholeFrames, c2, m2, q
  <1> QED BY <1>2, <1>5, <1>6

\* A frame is committed.
LEMMA CommitWhole ==
  ASSUME NEW r \in Addr, NEW u \in 0..buff_size, NEW v \in 0..buff_size,
         NEW c \in Addr, NEW m, NEW R \in [Addr -> Words],
         WholeFrames(r, u, c, m, R), u + 1 < v,
         R[Plus(r, u)].pos = 0, R[Plus(r, u)].rwcnt = v - u - 1,
         \A k \in Addr : u < k /\ k < v => R[Plus(r, k)].pos # 0
  PROVE  WholeFrames(r, v, c, m + 1, R)
  <1>0. PICK n \in 0..u : \E s \in [0..n -> 0..u] :
          Ends(r, u, c, n, s, R) /\ m = n + (IF c > 0 THEN 1 ELSE 0)
    BY DEF WholeFrames
  <1>1. PICK s \in [0..n -> 0..u] :
          Ends(r, u, c, n, s, R) /\ m = n + (IF c > 0 THEN 1 ELSE 0)
    BY <1>0
  <1>2. /\ n \in Nat /\ u \in Nat /\ v \in Nat /\ c \in Nat /\ n <= u
        /\ \A i \in 0..n : s[i] \in 0..u
    BY RxBufferAssumption DEF Addr
  <1>3. /\ s[0] = c /\ s[n] = u
        /\ \A i, j \in 0..n : i <= j => s[i] + (j - i) <= s[j]
        /\ \A k \in Addr : k < c => R[Plus(r, k)].pos # 0
        /\ \A i \in 1..n : WholeFrame(r, R, s[i - 1], s[i])
    BY <1>1 DEF Ends
  <1>4. WholeFrame(r, R, u, v)
    BY DEF WholeFrame
  <1> DEFINE t == [i \in 0..(n + 1) |-> IF i <= n THEN s[i] ELSE v]
  <1>5. /\ t \in [0..(n + 1) -> 0..v] /\ n + 1 \in 0..v
        /\ \A i \in 0..n : t[i] = s[i]
        /\ t[n + 1] = v
    BY <1>2
  <1> HIDE DEF t
  <1>6. t[0] = c /\ t[n] = u
    BY <1>2, <1>3, <1>5
  <1>7. ASSUME NEW i \in 0..(n + 1), NEW j \in 0..(n + 1), i <= j
        PROVE  t[i] + (j - i) <= t[j]
    <2>1. CASE j \in 0..n
      <3>1. i \in 0..n
        BY <1>2, <1>7, <2>1
      <3> QED BY <1>3, <1>5, <1>7, <2>1, <3>1
    <2>2. CASE j = n + 1 /\ i \in 0..n
      <3>1. s[i] + (n - i) <= s[n] /\ s[i] \in Nat
        BY <1>2, <1>3, <2>2
      <3> QED BY <1>2, <1>3, <1>5, <2>2, <3>1
    <2>3. CASE j = n + 1 /\ i = n + 1
      BY <1>2, <1>5, <2>3
    <2> QED BY <1>2, <2>1, <2>2, <2>3
  <1>8. ASSUME NEW i \in 1..(n + 1) PROVE WholeFrame(r, R, t[i - 1], t[i])
    <2>1. CASE i \in 1..n
      <3>1. i - 1 \in 0..n /\ i \in 0..n
        BY <1>2, <2>1
      <3> QED BY <1>3, <1>5, <2>1, <3>1
    <2>2. CASE i = n + 1
      <3>1. i - 1 = n /\ n \in 0..n
        BY <1>2, <2>2
      <3> QED BY <1>4, <1>5, <1>6, <2>2, <3>1
    <2> QED BY <1>2, <2>1, <2>2
  <1>9. Ends(r, v, c, n + 1, t, R)
    BY <1>3, <1>5, <1>6, <1>7, <1>8 DEF Ends
  <1>10. m + 1 = n + 1 + (IF c > 0 THEN 1 ELSE 0)
    BY <1>1, <1>2
  <1> QED BY <1>5, <1>9, <1>10 DEF WholeFrames

-----------------------------------------------------------------------------
(* The words as a sequence.                                                *)

\* The u words from address r on as a sequence.
Segment(r, u, R) == [i \in 1..u |-> R[Plus(r, i - 1)]]

LEMMA SegmentSeq ==
  ASSUME NEW r \in Addr, NEW u \in 0..buff_size, NEW R \in [Addr -> Words]
  PROVE  /\ Segment(r, u, R) \in Seq(Words) /\ Len(Segment(r, u, R)) = u
         /\ \A i \in 1..u : Segment(r, u, R)[i] = R[Plus(r, i - 1)]
         /\ u > 0 <=> Segment(r, u, R) # <<>>
  <1>1. u \in Nat
    BY RxBufferAssumption
  <1>2. \A i \in 1..u : i - 1 \in Addr
    BY RxBufferAssumption DEF Addr
  <1>3. \A i \in 1..u : R[Plus(r, i - 1)] \in Words
    BY <1>2, PlusAddr
  <1>4. Segment(r, u, R) \in Seq(Words) /\ Len(Segment(r, u, R)) = u
    BY <1>1, <1>3 DEF Segment
  <1>5. \A i \in 1..u : Segment(r, u, R)[i] = R[Plus(r, i - 1)]
    BY DEF Segment
  <1>6. u = 0 => Segment(r, u, R) = <<>>
    BY <1>4
  <1>7. u > 0 => Segment(r, u, R) # <<>>
    BY <1>1, <1>4
  <1> QED BY <1>1, <1>4, <1>5, <1>6, <1>7

LEMMA SegmentSame ==
  ASSUME NEW r \in Addr, NEW u \in 0..buff_size,
         NEW R \in [Addr -> Words], NEW S \in [Addr -> Words],
         \A k \in Addr : k < u => S[Plus(r, k)] = R[Plus(r, k)]
  PROVE  Segment(r, u, S) = Segment(r, u, R)
  <1>1. \A i \in 1..u : i - 1 \in Addr /\ i - 1 < u
    BY RxBufferAssumption DEF Addr
  <1> QED BY <1>1 DEF Segment

LEMMA SegmentTail ==
  ASSUME NEW r \in Addr, NEW u \in 1..buff_size, NEW R \in [Addr -> Words]
  PROVE  Tail(Segment(r, u, R)) = Segment(Plus(r, 1), u - 1, R)
  <1> DEFINE s == Segment(r, u, R)
             t == Segment(Plus(r, 1), u - 1, R)
  <1>1. /\ u \in 0..buff_size /\ u - 1 \in 0..buff_size /\ u > 0 /\ Plus(r, 1) \in Addr
    BY RxBufferAssumption, PlusType
  <1>2. /\ s \in Seq(Words) /\ Len(s) = u /\ s # <<>>
        /\ \A i \in 1..u : s[i] = R[Plus(r, i - 1)]
    BY <1>1, SegmentSeq
  <1>3. /\ t \in Seq(Words) /\ Len(t) = u - 1
        /\ \A i \in 1..(u - 1) : t[i] = R[Plus(Plus(r, 1), i - 1)]
    BY <1>1, SegmentSeq
  <1> HIDE DEF s, t
  <1>4. /\ Tail(s) \in Seq(Words) /\ Len(Tail(s)) = u - 1
        /\ \A i \in 1..(u - 1) : Tail(s)[i] = s[i + 1]
    BY <1>2
  <1>5. ASSUME NEW i \in 1..(u - 1) PROVE Tail(s)[i] = t[i]
    <2>1. i + 1 \in 1..u /\ i + 1 - 1 = i
      BY <1>1
    <2>2. Plus(Plus(r, 1), i - 1) = Plus(r, i)
      BY <1>1, RxBufferAssumption DEF Plus, Addr
    <2>3. s[i + 1] = R[Plus(r, i)]
      BY <1>2, <2>1
    <2> QED BY <1>3, <1>4, <2>2, <2>3
  <1>6. Tail(s) = t
    BY <1>3, <1>4, <1>5
  <1> QED BY <1>6 DEF s, t

LEMMA FrameData ==
  ASSUME NEW f \in Frame
  PROVE  f.tag \in Tags /\ f.data \in Nat /\ 4 + f.data < buff_size
  BY RxBufferAssumption, ZenonT(30) DEF Frame

LEMMA FrameWordsSeq ==
  ASSUME NEW f \in Frame
  PROVE  /\ Fifo!FrameWords(f) \in Seq(Words) /\ Len(Fifo!FrameWords(f)) = 4 + f.data
         /\ \A i \in 1..(4 + f.data) : Fifo!FrameWords(f)[i] = Fifo!FrameWord(f, i - 1)
  <1>1. f.tag \in Tags /\ f.data \in Nat /\ 4 + f.data < buff_size /\ buff_size \in Nat
    BY FrameData, RxBufferAssumption
  <1>2. Fifo!FrameLen(f) = 4 + f.data /\ 4 + f.data \in Nat
    BY <1>1 DEF Fifo!FrameLen, Fifo!HeaderWords
  <1>3. \A i \in 1..(4 + f.data) : Fifo!FrameWord(f, i - 1) \in Words
    <2>1. \A i \in 1..(4 + f.data) :
            i - 1 \in Addr /\ (IF i - 1 = 0 THEN 3 + f.data ELSE 0) \in Addr
      BY <1>1 DEF Addr
    <2> QED BY <1>1, <2>1 DEF Words, Fifo!FrameWord
  <1>4. Fifo!FrameWords(f) = [i \in 1..(4 + f.data) |-> Fifo!FrameWord(f, i - 1)]
    BY <1>2 DEF Fifo!FrameWords
  <1> QED BY <1>2, <1>3, <1>4

LEMMA SegmentAppend ==
  ASSUME NEW r \in Addr, NEW u \in Nat, NEW R \in [Addr -> Words], NEW f \in Frame,
         u + 4 + f.data <= buff_size,
         \A k \in 0..(3 + f.data) : R[Plus(r, u + k)] = Fifo!FrameWord(f, k)
  PROVE  Segment(r, u + 4 + f.data, R) = Segment(r, u, R) \o Fifo!FrameWords(f)
  <1> DEFINE n == 4 + f.data
             s == Segment(r, u, R)
             t == Segment(r, u + 4 + f.data, R)
             w == Fifo!FrameWords(f)
  <1>1. f.data \in Nat /\ buff_size \in Nat
    BY FrameData, RxBufferAssumption
  <1>2. u \in 0..buff_size /\ u + 4 + f.data \in 0..buff_size /\ n \in Nat
        /\ u + 4 + f.data = u + n
    BY <1>1
  <1>3. s \in Seq(Words) /\ Len(s) = u /\ \A i \in 1..u : s[i] = R[Plus(r, i - 1)]
    BY <1>2, SegmentSeq
  <1>4. /\ t \in Seq(Words) /\ Len(t) = u + n
        /\ \A i \in 1..(u + n) : t[i] = R[Plus(r, i - 1)]
    BY <1>2, SegmentSeq
  <1>5. /\ w \in Seq(Words) /\ Len(w) = n
        /\ \A i \in 1..n : w[i] = Fifo!FrameWord(f, i - 1)
    BY FrameWordsSeq
  <1>6. \A k \in 0..(n - 1) : R[Plus(r, u + k)] = Fifo!FrameWord(f, k)
    BY <1>1
  <1> HIDE DEF s, t, w, n
  <1>7. /\ s \o w \in Seq(Words) /\ Len(s \o w) = u + n
        /\ \A i \in 1..(u + n) : (s \o w)[i] = IF i <= u THEN s[i] ELSE w[i - u]
    <2>1. s \o w \in Seq(Words)
      BY <1>3, <1>5
    <2>2. Len(s \o w) = u + n
      <3>1. s \in Seq(Words) /\ w \in Seq(Words)
        BY <1>3, <1>5
      <3>2. Len(s \o w) = Len(s) + Len(w)
        BY <3>1
      <3> QED BY <1>3, <1>5, <3>2, ZenonT(40)
    <2>3. ASSUME NEW i \in 1..(u + n) PROVE (s \o w)[i] = IF i <= u THEN s[i] ELSE w[i - u]
      BY <1>2, <1>3, <1>5
    <2> QED BY <2>1, <2>2, <2>3
  <1>8. ASSUME NEW i \in 1..(u + n) PROVE t[i] = (s \o w)[i]
    <2>1. CASE i <= u
      <3>1. i \in 1..u
        BY <1>2, <2>1
      <3> QED BY ZenonT(40), <1>3, <1>4, <1>7, <2>1, <3>1
    <2>2. CASE ~(i <= u)
      <3>1. i - u \in 1..n /\ i - u - 1 \in 0..(n - 1) /\ u + (i - u - 1) = i - 1
        BY <1>2, <2>2
      <3>2. t[i] = Fifo!FrameWord(f, i - u - 1)
        BY <1>4, <1>6, <3>1
      <3>3. (s \o w)[i] = Fifo!FrameWord(f, i - u - 1)
        BY <1>5, <1>7, <2>2, <3>1
      <3> QED BY <3>2, <3>3
    <2> QED BY ZenonT(40), <2>1, <2>2
  <1>9. t = s \o w
    BY <1>4, <1>7, <1>8
  <1> QED BY <1>9 DEF s, t, w

LEMMA CommittedSegment ==
  ASSUME NEW r \in Addr, NEW u \in 0..buff_size, NEW R
  PROVE  [i \in 1..u |-> R[(r + i - 1) % buff_size]] = Segment(r, u, R)
  <1>1. ASSUME NEW i \in 1..u PROVE (r + i - 1) % buff_size = Plus(r, i - 1)
    <2>1. i - 1 \in Addr /\ r + i - 1 = r + (i - 1)
      BY RxBufferAssumption DEF Addr
    <2> QED BY <2>1, ModPlus
  <1> QED BY <1>1 DEF Segment

\* The last word of a frame is read with read_frame_counter = 1.
LEMMA LastWord ==
  ASSUME NEW r \in Addr, NEW u \in 1..buff_size, NEW c \in Addr, NEW m,
         NEW R \in [Addr -> Words], WholeFrames(r, u, c, m, R)
  PROVE  c = 1 <=> u = 1 \/ R[Plus(r, 1)].pos = 0
  <1>0. PICK n \in 0..u : \E s \in [0..n -> 0..u] :
          Ends(r, u, c, n, s, R) /\ m = n + (IF c > 0 THEN 1 ELSE 0)
    BY DEF WholeFrames
  <1>1. PICK s \in [0..n -> 0..u] :
          Ends(r, u, c, n, s, R) /\ m = n + (IF c > 0 THEN 1 ELSE 0)
    BY <1>0
  <1>2. /\ n \in Nat /\ u \in Nat /\ c \in Nat /\ u > 0 /\ u <= buff_size /\ buff_size \in Nat
        /\ s[0] = c /\ s[n] = u /\ c <= u
        /\ \A k \in Addr : k < c => R[Plus(r, k)].pos # 0
        /\ \A i \in 1..n : WholeFrame(r, R, s[i - 1], s[i])
    BY <1>1, RxBufferAssumption DEF Addr, Ends
  <1>3. u # c => WholeFrame(r, R, c, s[1]) /\ s[1] \in 0..u
    <2> SUFFICES ASSUME u # c PROVE WholeFrame(r, R, c, s[1]) /\ s[1] \in 0..u
      OBVIOUS
    <2>1. 1 \in 1..n /\ 1 - 1 = 0 /\ 1 \in 0..n
      BY <1>2
    <2> QED BY <1>2, <2>1
  <1>4. CASE c = 1
    BY <1>3, <1>4 DEF WholeFrame
  <1>5. CASE c > 1
    <2>1. 1 \in Addr /\ 1 < c /\ u # 1
      BY <1>2, <1>5 DEF Addr
    <2> QED BY <1>2, <1>5, <2>1
  <1>6. CASE c = 0
    <2>1. WholeFrame(r, R, 0, s[1]) /\ s[1] \in 0..u
      BY <1>2, <1>3, <1>6
    <2>2. 0 + 1 < s[1] /\ \A k \in Addr : 0 < k /\ k < s[1] => R[Plus(r, k)].pos # 0
      BY <2>1 DEF WholeFrame
    <2>3. 1 \in Addr /\ 0 < 1 /\ 1 < s[1] /\ u # 1
      BY <1>2, <2>1, <2>2 DEF Addr
    <2> QED BY <1>6, <2>2, <2>3
  <1> QED BY <1>2, <1>4, <1>5, <1>6

-----------------------------------------------------------------------------
(* When software is careful.                                               *)

Careful == EraseWhen # "any" /\ CoreDisable # "any"

-----------------------------------------------------------------------------
(* The inductive invariant.                                                *)

Used == buff_size - rx_mem_free_int
Stored == rx_mem_free_int - rx_mem_free_raw

\* TypeOK, the frame counter not bounded.
Types ==
  /\ rx_fsm \in RxFsmState
  /\ drv_rtsopt \in RtsOpt
  /\ timestamp_capture \in Tags
  /\ read_pointer \in Addr /\ write_pointer \in Addr
  /\ write_pointer_raw \in Addr /\ write_pointer_extra_ts \in Addr
  /\ rx_mem_free_int \in 0..buff_size
  /\ rx_mem_free_raw \in 0..buff_size
  /\ read_frame_counter \in Addr
  /\ message_count \in Nat
  /\ commit_rx_frame \in BOOLEAN /\ commit_overrun_abort \in BOOLEAN
  /\ data_overrun_int \in BOOLEAN /\ data_overrun_r \in BOOLEAN
  /\ RAM \in [Addr -> Words] /\ RAM_data_out \in Words
  /\ rec \in {"off", "idle", "sof", "storing"}
  /\ frame \in Frame /\ data_left \in Addr /\ age \in 0..Settle

\* The state machine keeps step with the commands of the core.
Storing ==
  /\ age = 0 => rx_fsm = "rxb_store_frame_format"
  /\ age = 1 => rx_fsm = "rxb_store_identifier"
  /\ age = 2 => rx_fsm = "rxb_store_beg_ts_low"
  /\ age = 3 => rx_fsm = "rxb_store_beg_ts_high"
  /\ age = 4 => rx_fsm = "rxb_store_data"
  /\ age < 4 => data_left = frame.data

Ended ==
  /\ age = 0 /\ drv_rtsopt = "end" => rx_fsm = "rxb_store_end_ts_low"
  /\ age = 1 /\ drv_rtsopt = "end" => rx_fsm = "rxb_store_end_ts_high"
  /\ age > 1 \/ drv_rtsopt = "beg" => rx_fsm = "rxb_idle"

\* The cycle in which an ended frame is committed or dropped.
EndCycle ==
  /\ rec = "idle"
  /\ age = IF drv_rtsopt = "beg" THEN 0 ELSE 2

Control ==
  /\ rec = "storing" => Storing
  /\ rec = "idle" => Ended
  /\ rec # "storing" => data_left = 0
  /\ rec = "sof" => rx_fsm = "rxb_idle" /\ age = 4 /\ ~data_overrun_int
  /\ rec = "off" => rx_fsm \notin EndTsStates
  /\ rx_fsm = "rxb_store_frame_format" => ~data_overrun_int
  /\ commit_rx_frame => EndCycle /\ ~commit_overrun_abort
  /\ commit_overrun_abort => EndCycle
  /\ data_left <= frame.data

\* The words of the frame on the bus that the machine has passed.
Stage ==
  IF rx_fsm = "rxb_store_frame_format" THEN 0
  ELSE IF rx_fsm = "rxb_store_identifier" THEN 1
  ELSE IF rx_fsm = "rxb_store_beg_ts_low" THEN 2
  ELSE IF rx_fsm = "rxb_store_beg_ts_high" THEN 3
  ELSE 4 + (frame.data - data_left)

\* The word that is written in a metadata state.
LEMMA MetadataWord ==
  /\ rx_fsm = "rxb_store_frame_format" =>
       Stage = 0 /\ memory_write_data = Word(frame.tag, 0, 3 + frame.data)
  /\ rx_fsm = "rxb_store_identifier" => Stage = 1 /\ memory_write_data = Word(frame.tag, 1, 0)
  /\ rx_fsm = "rxb_store_beg_ts_low" =>
       Stage = 2 /\ memory_write_data = Word(timestamp_capture, 2, 0)
  /\ rx_fsm = "rxb_store_beg_ts_high" =>
       Stage = 3 /\ memory_write_data = Word(timestamp_capture, 3, 0)
  BY ZenonT(40) DEF Stage, memory_write_data

\* The frame is stored without overrun so far.
Sound ==
  \/ commit_rx_frame
  \/ rec # "off" /\ rx_fsm # "rxb_idle" /\ ~data_overrun_int

Pointers ==
  /\ 0 <= Stored /\ Stored <= Stage
  /\ Sound => Stored = Stage
  /\ rx_fsm = "rxb_idle" /\ ~commit_rx_frame /\ ~commit_overrun_abort => Stored = 0
  /\ write_pointer = Plus(read_pointer, Used)
  /\ write_pointer_raw = Plus(read_pointer, buff_size - rx_mem_free_raw)
  /\ rx_fsm = "rxb_store_identifier" => write_pointer_extra_ts = write_pointer
  /\ rx_fsm = "rxb_store_beg_ts_low" => write_pointer_extra_ts = Plus(write_pointer, 1)
  /\ rx_fsm \in {"rxb_store_beg_ts_high", "rxb_store_data", "rxb_store_end_ts_low"}
       => write_pointer_extra_ts = Plus(write_pointer, 2)
  /\ rx_fsm = "rxb_store_end_ts_high" => write_pointer_extra_ts = Plus(write_pointer, 3)

\* The words of the frame on the bus.  With the timestamp taken at the end
\* of the frame its two words are valid after they are written again.
Stamped(k) ==
  \/ k \notin {2, 3}
  \/ drv_rtsopt = "beg"
  \/ commit_rx_frame
  \/ k = 2 /\ rx_fsm = "rxb_store_end_ts_high"

StoredWord(w, k) ==
  /\ w.pos = k
  /\ w.rwcnt = IF k = 0 THEN 3 + frame.data ELSE 0
  /\ Stamped(k) => w.tag = frame.tag

Content ==
  /\ Sound => \A k \in Addr : k < Stored => StoredWord(RAM[Plus(write_pointer, k)], k)
  /\ drv_rtsopt = "beg" \/ rx_fsm \in EndTsStates => timestamp_capture = frame.tag

Committed ==
  /\ WholeFrames(read_pointer, Used, read_frame_counter, message_count, RAM)
  /\ message_count > 0 => RAM_data_out = RAM[read_pointer]

IInv == Types /\ Control /\ Pointers /\ Content /\ Committed

-----------------------------------------------------------------------------
(* The beginning.                                                          *)

LEMMA InitInv == Init => IInv
  <1> SUFFICES ASSUME Init PROVE IInv
    OBVIOUS
  <1>1. frame \in Frame /\ frame.data \in Nat /\ 4 + frame.data < buff_size
    BY RxBufferAssumption, ZenonT(30) DEF Init, Frame
  <1>2. 0 \in Addr /\ buff_size \in Nat
    BY <1>1, RxBufferAssumption DEF Addr
  <1>3. \A t \in Tags : Word(t, 0, 0) \in Words
    BY <1>2 DEF Word, Words
  <1>4. Types
    <2>1. RAM \in [Addr -> Words] /\ RAM_data_out \in Words /\ timestamp_capture \in Tags
      BY <1>3 DEF Init
    <2>2. /\ commit_rx_frame \in BOOLEAN /\ commit_overrun_abort \in BOOLEAN
          /\ data_overrun_int \in BOOLEAN /\ data_overrun_r \in BOOLEAN
      BY ZenonT(30) DEF Init
    <2>3. /\ rx_fsm \in RxFsmState /\ rec \in {"off", "idle", "sof", "storing"}
          /\ data_left \in Addr /\ age \in 0..Settle /\ message_count \in Nat
          /\ rx_mem_free_int \in 0..buff_size /\ rx_mem_free_raw \in 0..buff_size
      BY <1>2 DEF Init, RxFsmState, Settle
    <2>4. /\ read_pointer \in Addr /\ write_pointer \in Addr
          /\ write_pointer_raw \in Addr /\ write_pointer_extra_ts \in Addr
          /\ read_frame_counter \in Addr
      BY <1>2 DEF Init
    <2> QED BY <1>1, <2>1, <2>2, <2>3, <2>4 DEF Init, Types
  <1>5. Control
    BY <1>1, RxBufferAssumption DEF Init, Control, Ended, EndTsStates, Settle
  <1>6. Pointers
    BY <1>1, <1>2 DEF Init, Pointers, Stored, Stage, Sound, Used, Plus
  <1>7. Content
    BY <1>1 DEF Init, Content, Sound, EndTsStates
  <1>8. Committed
    <2>1. Used = 0
      BY <1>2 DEF Init, Used
    <2> QED BY <1>2, <2>1, EmptyWhole DEF Init, Committed
  <1> QED BY <1>4, <1>5, <1>6, <1>7, <1>8 DEF IInv

-----------------------------------------------------------------------------
(* The control of a cycle.                                                 *)

\* In the states that write without a command of the core the core gives
\* none, and the frame on the bus is the same as long as it is stored.
LEMMA CoreQuiet ==
  ASSUME Careful, Types, Control, NEW cmd \in Command, Core(cmd)
  PROVE  /\ rx_fsm \in MetadataStates \cup EndTsStates => cmd = "none"
         /\ commit_rx_frame \/ commit_overrun_abort => cmd = "none" /\ rx_fsm = "rxb_idle"
         /\ rx_fsm # "rxb_idle" \/ commit_rx_frame => frame' = frame
         /\ rx_fsm = "rxb_store_data" => rec \in {"storing", "off"}
         /\ rx_fsm \in MetadataStates => rec \in {"storing", "off"}
         /\ rx_fsm \in EndTsStates => rec = "idle"
         /\ rec = "off" => cmd = "none"
  <1> USE DEF MetadataStates, EndTsStates, settled, Settle
  <1>1. rec \in {"off", "idle", "sof", "storing"} /\ age \in 0..4
        /\ drv_rtsopt \in {"beg", "end"}
    BY RxBufferAssumption DEF Types
  <1>2. /\ rec = "storing" => Storing
        /\ rec = "idle" => Ended
        /\ rec = "sof" => rx_fsm = "rxb_idle" /\ age = 4
        /\ rec = "off" => rx_fsm \notin EndTsStates
        /\ commit_rx_frame \/ commit_overrun_abort => EndCycle
    BY ZenonT(40) DEF Control
  <1>3. /\ rx_fsm = "rxb_store_data" => rec \in {"storing", "off"}
        /\ rx_fsm \in MetadataStates => rec \in {"storing", "off"}
        /\ rx_fsm \in EndTsStates => rec = "idle"
    BY <1>1, <1>2 DEF Storing, Ended
  <1>4. commit_rx_frame \/ commit_overrun_abort => rx_fsm = "rxb_idle" /\ rec = "idle" /\ age # 4
    BY <1>1, <1>2 DEF EndCycle, Ended
  <1>5. /\ rx_fsm \in MetadataStates => rec = "off" \/ (rec = "storing" /\ age < 4)
        /\ rx_fsm \in EndTsStates => age # 4
    BY <1>1, <1>2, <1>3 DEF Storing, Ended
  <1>6. CASE CoreSof(cmd)
    <2>1. rec = "idle" /\ age = 4 /\ cmd = "sof_pulse"
      BY <1>6 DEF CoreSof
    <2>2. rx_fsm = "rxb_idle"
      BY <1>2, <2>1 DEF Ended
    <2> QED BY <1>4, <2>1, <2>2
  <1>7. CASE CoreMetadata(cmd)
    BY <1>1, <1>2, <1>3, <1>4, <1>5, <1>7 DEF CoreMetadata
  <1>8. CASE CoreIgnore(cmd)
    BY <1>3, <1>4, <1>8 DEF CoreIgnore
  <1>9. CASE CoreData(cmd)
    BY <1>3, <1>4, <1>5, <1>9 DEF CoreData
  <1>10. CASE CoreValid(cmd)
    BY <1>3, <1>4, <1>5, <1>10 DEF CoreValid
  <1>11. CASE CoreAbort(cmd)
    BY <1>3, <1>4, <1>5, <1>11 DEF CoreAbort
  <1>12. CASE CoreWait(cmd)
    BY <1>3, <1>4, <1>12 DEF CoreWait
  <1>13. CASE CoreOff(cmd)
    BY <1>3, <1>4, <1>13 DEF CoreOff
  <1>14. CASE CoreOn(cmd)
    BY <1>3, <1>4, <1>14 DEF CoreOn
  <1> QED
    BY <1>6, <1>7, <1>8, <1>9, <1>10, <1>11, <1>12, <1>13, <1>14 DEF Core

LEMMA ControlStep ==
  ASSUME Careful, Types, Control, NEW cmd \in Command, NEW clr \in BOOLEAN,
         Core(cmd), RxFsmStep(cmd), CommitStep(cmd), OverrunStep(cmd, clr),
         drv_rtsopt' = drv_rtsopt
  PROVE  /\ Control'
         /\ rec' \in {"off", "idle", "sof", "storing"}
         /\ frame' \in Frame /\ data_left' \in Addr /\ age' \in 0..Settle
         /\ rx_fsm' \in RxFsmState
  <1> USE DEF settled, Settle, older
  <1>1. /\ rec \in {"off", "idle", "sof", "storing"} /\ age \in 0..4
        /\ drv_rtsopt \in {"beg", "end"} /\ rx_fsm \in RxFsmState
        /\ frame \in Frame /\ data_left \in Addr
    BY RxBufferAssumption DEF Types
  <1>2. /\ rec = "storing" => Storing
        /\ rec = "idle" => Ended
        /\ rec # "storing" => data_left = 0
        /\ rec = "sof" => rx_fsm = "rxb_idle" /\ age = 4
        /\ rec = "off" => rx_fsm \notin EndTsStates
        /\ data_left <= frame.data
    BY ZenonT(40) DEF Control
  <1>3. \A f \in Frame : f.data \in Nat /\ 4 + f.data < buff_size
    BY ZenonT(40), RxBufferAssumption DEF Frame
  <1>4. /\ rx_fsm = "rxb_idle" => ~data_overrun_int'
        /\ rx_fsm' = "rxb_store_frame_format" => rx_fsm = "rxb_idle"
    <2>1. rx_fsm = "rxb_idle" => ~data_overrun_int'
      BY DEF OverrunStep
    <2>2. rx_fsm' = "rxb_store_frame_format" => rx_fsm = "rxb_idle"
      BY <1>1 DEF RxFsmStep, NextMetadata, MetadataStates, EndTsStates, RxFsmState
    <2> QED BY <2>1, <2>2
  <1>5. /\ commit_rx_frame' =>
             /\ (cmd = "rec_message_valid" /\ drv_rtsopt = "beg")
                \/ rx_fsm = "rxb_store_end_ts_high"
             /\ ~commit_overrun_abort'
        /\ commit_overrun_abort' =>
             (cmd = "rec_message_valid" /\ drv_rtsopt = "beg")
             \/ rx_fsm = "rxb_store_end_ts_high"
    <2>1. (cmd = "rec_message_valid" /\ drv_rtsopt = "beg")
             \/ rx_fsm = "rxb_store_end_ts_high"
          => ~commit_rx_frame /\ ~commit_overrun_abort
      BY CoreQuiet
    <2> QED BY <2>1, ZenonT(40) DEF CommitStep
  <1>6. /\ rx_fsm' \in RxFsmState
        /\ rx_fsm = "rxb_idle" /\ cmd # "store_metadata" => rx_fsm' = "rxb_idle"
        /\ rx_fsm = "rxb_idle" /\ cmd = "store_metadata" => rx_fsm' = "rxb_store_frame_format"
        /\ cmd # "rec_abort" =>
             /\ rx_fsm = "rxb_store_frame_format" => rx_fsm' = "rxb_store_identifier"
             /\ rx_fsm = "rxb_store_identifier" => rx_fsm' = "rxb_store_beg_ts_low"
             /\ rx_fsm = "rxb_store_beg_ts_low" => rx_fsm' = "rxb_store_beg_ts_high"
             /\ rx_fsm = "rxb_store_beg_ts_high" => rx_fsm' = "rxb_store_data"
             /\ rx_fsm = "rxb_store_data" /\ cmd # "rec_message_valid" => rx_fsm' = "rxb_store_data"
        /\ rx_fsm = "rxb_store_data" /\ cmd = "rec_abort" => rx_fsm' = "rxb_idle"
        /\ rx_fsm = "rxb_store_data" /\ cmd = "rec_message_valid"
             => rx_fsm' = IF drv_rtsopt = "end" THEN "rxb_store_end_ts_low" ELSE "rxb_idle"
        /\ rx_fsm = "rxb_store_end_ts_low" => rx_fsm' = "rxb_store_end_ts_high"
        /\ rx_fsm = "rxb_store_end_ts_high" => rx_fsm' = "rxb_idle"
    BY <1>1 DEF RxFsmStep, NextMetadata, MetadataStates, EndTsStates, RxFsmState
  <1>7. /\ rec' = "storing" => Storing'
        /\ rec' = "idle" => Ended'
        /\ rec' # "storing" => data_left' = 0
        /\ rec' = "sof" => rx_fsm' = "rxb_idle" /\ age' = 4 /\ rx_fsm = "rxb_idle"
        /\ rec' = "off" => rx_fsm' \notin EndTsStates
        /\ data_left' <= frame'.data
        /\ rec' \in {"off", "idle", "sof", "storing"}
        /\ frame' \in Frame /\ data_left' \in Addr /\ age' \in 0..4
        /\ cmd = "rec_message_valid" /\ drv_rtsopt = "beg" => rec' = "idle" /\ age' = 0
        /\ rx_fsm = "rxb_store_end_ts_high"
             => rec' = "idle" /\ age' = 2 /\ drv_rtsopt = "end"
    <2> USE DEF Storing, Ended, EndTsStates
    <2>1. CASE CoreSof(cmd)
      <3>1. /\ cmd = "sof_pulse" /\ rec = "idle" /\ age = 4 /\ rec' = "sof"
            /\ frame' \in Frame /\ data_left' = 0 /\ age' = age
        BY <2>1 DEF CoreSof
      <3> QED BY <1>1, <1>2, <1>3, <1>6, <3>1 DEF Addr
    <2>2. CASE CoreMetadata(cmd)
      <3>1. /\ cmd = "store_metadata" /\ rec = "sof" /\ rec' = "storing"
            /\ data_left' = frame.data /\ age' = 0 /\ frame' = frame
        BY <2>2 DEF CoreMetadata
      <3>2. data_left' \in Addr /\ data_left' <= frame'.data
        BY <1>1, <1>3, <3>1, RxBufferAssumption DEF Addr
      <3> QED BY <1>1, <1>2, <1>6, <3>1, <3>2
    <2>3. CASE CoreIgnore(cmd)
      <3>1. /\ cmd = "none" /\ rec = "sof" /\ rec' = "idle" /\ frame' = frame
            /\ data_left' = data_left /\ age' = age
        BY <2>3 DEF CoreIgnore
      <3> QED BY <1>1, <1>2, <1>6, <3>1
    <2>4. CASE CoreData(cmd)
      <3>1. /\ cmd = "store_data" /\ rec = "storing" /\ age = 4 /\ data_left > 0
            /\ data_left' = data_left - 1 /\ rec' = rec /\ frame' = frame /\ age' = age
        BY <2>4 DEF CoreData
      <3>2. data_left' \in Addr /\ data_left' <= frame'.data
        BY <1>1, <1>2, <1>3, <3>1, RxBufferAssumption DEF Addr
      <3> QED BY <1>1, <1>2, <1>6, <3>1, <3>2
    <2>5. CASE CoreValid(cmd)
      <3>1. /\ cmd = "rec_message_valid" /\ rec = "storing" /\ age = 4 /\ data_left = 0
            /\ rec' = "idle" /\ age' = 0 /\ frame' = frame /\ data_left' = data_left
        BY <2>5 DEF CoreValid
      <3> QED BY <1>1, <1>2, <1>6, <3>1
    <2>6. CASE CoreAbort(cmd)
      <3>1. /\ cmd = "rec_abort" /\ rec # "off" /\ age = 4 /\ rec' = "idle"
            /\ data_left' = 0 /\ frame' = frame /\ age' = age
        BY <2>6 DEF CoreAbort
      <3>2. data_left' \in Addr /\ data_left' <= frame'.data
        BY <1>1, <1>3, <3>1, RxBufferAssumption DEF Addr
      <3>3. rx_fsm \in {"rxb_idle", "rxb_store_data"}
        BY <1>1, <1>2, <3>1
      <3>4. rx_fsm' = "rxb_idle"
        BY <1>6, <3>1, <3>3
      <3> QED BY <1>1, <3>1, <3>2, <3>3, <3>4
    <2>7. CASE CoreWait(cmd)
      <3>1. /\ cmd = "none" /\ rec' = rec /\ frame' = frame /\ data_left' = data_left
            /\ age' = IF age = 4 THEN age ELSE age + 1
        BY <2>7 DEF CoreWait
      <3>2. age \in {0, 1, 2, 3, 4}
        BY <1>1
      <3>3. CASE rec = "off"
        BY <1>1, <1>2, <1>6, <3>1, <3>2, <3>3 DEF RxFsmState, MetadataStates
      <3>4. CASE rec # "off"
        BY <1>1, <1>2, <1>6, <3>1, <3>2, <3>4
      <3> QED BY <3>3, <3>4
    <2>8. CASE CoreOff(cmd)
      <3>1. /\ cmd = "none" /\ rec = "storing" /\ rec' = "off" /\ data_left' = 0
            /\ frame' = frame /\ age' = IF age = 4 THEN age ELSE age + 1
        BY <2>8 DEF CoreOff
      <3>2. data_left' \in Addr /\ data_left' <= frame'.data
        BY <1>1, <1>3, <3>1, RxBufferAssumption DEF Addr
      <3>3. age \in {0, 1, 2, 3, 4}
        BY <1>1
      <3>4. rx_fsm \notin EndTsStates /\ rx_fsm' \notin EndTsStates
        BY <1>2, <1>6, <3>1, <3>3
      <3> QED BY <1>1, <3>1, <3>2, <3>3, <3>4
    <2>9. CASE CoreOn(cmd)
      <3>1. /\ cmd = "none" /\ rec = "off" /\ age = 4 /\ rec' = "idle"
            /\ rx_fsm = "rxb_idle" /\ frame' = frame /\ data_left' = data_left /\ age' = age
        BY <2>9 DEF CoreOn, Careful
      <3> QED BY <1>1, <1>2, <1>6, <3>1
    <2> QED
      BY <2>1, <2>2, <2>3, <2>4, <2>5, <2>6, <2>7, <2>8, <2>9, ZenonT(30) DEF Core
  <1>8. (commit_rx_frame' => EndCycle') /\ (commit_overrun_abort' => EndCycle')
    BY <1>1, <1>5, <1>7 DEF EndCycle
  <1>9. Control'
    BY <1>4, <1>5, <1>7, <1>8, ZenonT(40) DEF Control
  <1> QED BY <1>6, <1>7, <1>9

-----------------------------------------------------------------------------
(* The memory in a cycle.                                                  *)

LEMMA Sizes ==
  ASSUME Types, Control, Pointers
  PROVE  /\ buff_size \in Nat /\ frame.data \in Nat /\ 4 + frame.data < buff_size
         /\ Stage \in 0..(4 + frame.data) /\ Stored \in 0..(4 + frame.data)
         /\ Used \in 0..buff_size /\ buff_size - rx_mem_free_raw \in 0..buff_size
         /\ buff_size - rx_mem_free_raw = Used + Stored
         /\ rx_mem_free_int \in Nat /\ rx_mem_free_raw \in Nat
  <1>1. buff_size \in Nat /\ frame.data \in Nat /\ 4 + frame.data < buff_size
    BY RxBufferAssumption, ZenonT(30) DEF Types, Frame
  <1>2. data_left \in Nat /\ data_left <= frame.data
    BY DEF Types, Control, Addr
  <1>3. Stage \in 0..(4 + frame.data)
    BY <1>1, <1>2 DEF Stage
  <1>4. rx_mem_free_int \in 0..buff_size /\ rx_mem_free_raw \in 0..buff_size
    BY DEF Types
  <1>5. 0 <= Stored /\ Stored <= Stage
    BY DEF Pointers
  <1> QED BY <1>1, <1>3, <1>4, <1>5 DEF Stored, Used

\* A frame is in memory if and only if words are, and the test of the
\* pointers finds the memory full if and only if it is.
LEMMA FreeWord ==
  ASSUME IInv
  PROVE  /\ message_count > 0 <=> Used > 0
         /\ message_count \in 0..buff_size
         /\ is_free_word <=> rx_mem_free_raw > 0
  <1> USE DEF IInv
  <1>1. Types /\ Control /\ Pointers /\ Committed
    OBVIOUS
  <1>2. /\ buff_size \in Nat /\ Stored \in Nat /\ Stored < buff_size
        /\ Used \in 0..buff_size
        /\ buff_size - rx_mem_free_raw = Used + Stored /\ rx_mem_free_raw \in Nat
    BY <1>1, Sizes
  <1>3. read_pointer \in Addr /\ read_frame_counter \in Addr /\ RAM \in [Addr -> Words]
    BY <1>1 DEF Types
  <1>4. (message_count > 0 <=> Used > 0) /\ message_count \in 0..buff_size
    BY <1>1, <1>2, <1>3, FramesIffWords DEF Committed
  <1>5. write_pointer_raw = Plus(read_pointer, Used + Stored)
    BY <1>1, <1>2 DEF Pointers
  <1>6. read_pointer = write_pointer_raw <=> Used + Stored \in {0, buff_size}
    BY <1>2, <1>3, <1>5 DEF Plus, Addr
  <1>7. is_free_word <=> ~(Used + Stored \in {0, buff_size} /\ Used > 0)
    BY <1>4, <1>6 DEF is_free_word
  <1>8. is_free_word <=> rx_mem_free_raw > 0
    BY <1>2, <1>7
  <1> QED BY <1>4, <1>8

\* A word of the frame on the bus is written, the timestamp is written
\* again, a frame is committed or the frame on the bus is given up: no two
\* of these in one cycle.
Again == write_extra_ts /\ ~data_overrun_int

LEMMA Exclusive ==
  ASSUME Careful, IInv, NEW cmd \in Command, Core(cmd)
  PROVE  /\ write_raw_OK(cmd) =>
              /\ ~write_extra_ts /\ ~commit_rx_frame /\ ~revert(cmd)
              /\ rx_mem_free_raw > 0 /\ ~data_overrun_int
              /\ \/ rx_fsm \in MetadataStates
                 \/ rx_fsm = "rxb_store_data" /\ cmd = "store_data" /\ rec = "storing"
         /\ write_extra_ts => ~commit_rx_frame /\ ~revert(cmd) /\ ~overrun_condition(cmd)
         /\ commit_rx_frame => ~revert(cmd)
  <1>1. Types /\ Control /\ (is_free_word <=> rx_mem_free_raw > 0)
    BY FreeWord DEF IInv
  <1>2. /\ rx_fsm \in MetadataStates \cup EndTsStates => cmd = "none"
        /\ commit_rx_frame \/ commit_overrun_abort => cmd = "none" /\ rx_fsm = "rxb_idle"
        /\ rx_fsm = "rxb_store_data" => rec \in {"storing", "off"}
        /\ rec = "off" => cmd = "none"
    BY <1>1, CoreQuiet
  <1>3. commit_rx_frame => ~commit_overrun_abort
    BY <1>1, ZenonT(40) DEF Control
  <1>4. ASSUME write_raw_OK(cmd)
        PROVE  /\ ~write_extra_ts /\ ~commit_rx_frame /\ ~revert(cmd)
               /\ rx_mem_free_raw > 0 /\ ~data_overrun_int
               /\ \/ rx_fsm \in MetadataStates
                  \/ rx_fsm = "rxb_store_data" /\ cmd = "store_data" /\ rec = "storing"
    <2>1. write_raw_intent(cmd) /\ is_free_word /\ ~data_overrun_int
      BY <1>4, ZenonT(40) DEF write_raw_OK, overrun_condition
    <2>2. \/ rx_fsm \in MetadataStates /\ cmd = "none"
          \/ rx_fsm = "rxb_store_data" /\ cmd = "store_data" /\ rec = "storing"
      BY <1>2, <2>1 DEF write_raw_intent
    <2>3. rx_fsm # "rxb_idle" /\ rx_fsm \notin EndTsStates /\ cmd # "rec_abort"
      BY <2>2 DEF MetadataStates, EndTsStates
    <2>4. ~commit_rx_frame /\ ~commit_overrun_abort
      BY <1>2, <2>3, ZenonT(40)
    <2> QED BY <1>1, <2>1, <2>2, <2>3, <2>4, ZenonT(40) DEF write_extra_ts, revert
  <1>5. ASSUME write_extra_ts
        PROVE  ~commit_rx_frame /\ ~revert(cmd) /\ ~overrun_condition(cmd)
    <2>1. rx_fsm \in EndTsStates /\ cmd = "none"
      BY <1>2, <1>5 DEF write_extra_ts
    <2>2. rx_fsm # "rxb_idle" /\ rx_fsm \notin MetadataStates /\ cmd # "rec_abort"
          /\ cmd # "store_data"
      BY <2>1 DEF MetadataStates, EndTsStates
    <2>3. ~commit_rx_frame /\ ~commit_overrun_abort
      BY <1>2, <2>2, ZenonT(40)
    <2> QED BY <2>2, <2>3, ZenonT(40) DEF revert, overrun_condition, write_raw_intent
  <1>6. ASSUME commit_rx_frame PROVE ~revert(cmd)
    <2>1. cmd # "rec_abort"
      BY <1>2, <1>6
    <2> QED BY <1>3, <1>6, <2>1, ZenonT(40) DEF revert
  <1> QED BY <1>4, <1>5, <1>6, ZenonT(40)

\* Counters and pointers move together.
LEMMA PointerStep ==
  ASSUME Careful, IInv, NEW cmd \in Command, NEW rd \in BOOLEAN, Core(cmd),
         ReadPointerStep(rd), WritePointerStep(cmd), MemFreeStep(cmd, rd)
  PROVE  LET d == IF read_increment(rd) THEN 1 ELSE 0
             u == IF commit_rx_frame THEN Used + Stored ELSE Used
             t == IF commit_rx_frame \/ revert(cmd) THEN 0
                  ELSE IF write_raw_OK(cmd) THEN Stored + 1 ELSE Stored
         IN  /\ read_pointer' = Plus(read_pointer, d)
             /\ d <= Used /\ u \in 0..buff_size /\ Used' = u - d /\ Stored' = t
             /\ u + t <= buff_size
             /\ rx_mem_free_int' \in 0..buff_size /\ rx_mem_free_raw' \in 0..buff_size
             /\ read_pointer' \in Addr /\ write_pointer' \in Addr
             /\ write_pointer_raw' \in Addr
             /\ write_pointer' = Plus(read_pointer, u)
             /\ write_pointer' = Plus(read_pointer', Used')
             /\ write_pointer_raw' = Plus(read_pointer', buff_size - rx_mem_free_raw')
  <1> DEFINE d == IF read_increment(rd) THEN 1 ELSE 0
             u == IF commit_rx_frame THEN Used + Stored ELSE Used
             t == IF commit_rx_frame \/ revert(cmd) THEN 0
                  ELSE IF write_raw_OK(cmd) THEN Stored + 1 ELSE Stored
  <1>1. Types /\ Control /\ Pointers
    BY DEF IInv
  <1>2. /\ buff_size \in Nat /\ Stored \in Nat /\ Stored < buff_size
        /\ Used \in 0..buff_size
        /\ buff_size - rx_mem_free_raw = Used + Stored
        /\ rx_mem_free_int \in Nat /\ rx_mem_free_raw \in Nat
    BY <1>1, Sizes
  <1>3. read_increment(rd) => Used > 0
    BY FreeWord DEF read_increment
  <1>4. /\ write_raw_OK(cmd) => ~commit_rx_frame /\ ~revert(cmd) /\ rx_mem_free_raw > 0
        /\ commit_rx_frame => ~revert(cmd)
    BY Exclusive
  <1>5. /\ rx_mem_free_int' = (IF commit_rx_frame THEN rx_mem_free_raw ELSE rx_mem_free_int) + d
        /\ rx_mem_free_raw' =
             (IF revert(cmd) THEN rx_mem_free_int
              ELSE IF write_raw_OK(cmd) THEN rx_mem_free_raw - 1 ELSE rx_mem_free_raw) + d
    BY <1>2, <1>4 DEF MemFreeStep
  <1>6. d \in {0, 1} /\ d <= Used
    BY <1>2, <1>3
  <1>7. /\ u \in 0..buff_size /\ t \in 0..buff_size /\ u + t <= buff_size
        /\ rx_mem_free_int' = buff_size - u + d
        /\ rx_mem_free_raw' = buff_size - u - t + d
        /\ d <= u
    BY <1>2, <1>4, <1>5, <1>6 DEF Used, Stored
  <1>8. read_pointer \in Addr /\ write_pointer \in Addr /\ write_pointer_raw \in Addr
    BY <1>1 DEF Types
  <1>9. /\ write_pointer = Plus(read_pointer, Used)
        /\ write_pointer_raw = Plus(read_pointer, Used + Stored)
    BY <1>1, <1>2 DEF Pointers
  <1>10. write_pointer' = Plus(read_pointer, u)
    BY <1>9 DEF WritePointerStep
  <1>11. write_pointer_raw' = Plus(read_pointer, u + t)
    <2>1. CASE write_raw_OK(cmd)
      <3>1. write_pointer_raw' = Plus(write_pointer_raw, 1) /\ u = Used /\ t = Stored + 1
        BY <1>4, <1>8, <2>1, IncPlus DEF WritePointerStep
      <3>2. Plus(Plus(read_pointer, Used + Stored), 1) = Plus(read_pointer, Used + Stored + 1)
        BY <1>2, <1>4, <1>8, <2>1, PlusPlus
      <3> QED BY <1>2, <1>9, <3>1, <3>2
    <2>2. CASE ~write_raw_OK(cmd) /\ revert(cmd)
      <3>1. write_pointer_raw' = write_pointer /\ u = Used /\ t = 0
        BY <1>4, <2>2 DEF WritePointerStep
      <3> QED BY <1>2, <1>9, <3>1
    <2>3. CASE ~write_raw_OK(cmd) /\ ~revert(cmd)
      <3>1. write_pointer_raw' = write_pointer_raw /\ u + t = Used + Stored
        BY <1>2, <2>3 DEF WritePointerStep
      <3> QED BY <1>9, <3>1
    <2> QED BY <2>1, <2>2, <2>3
  <1>12. read_pointer' = Plus(read_pointer, d) /\ read_pointer' \in Addr
    BY <1>2, <1>8, IncPlus DEF ReadPointerStep, Plus, Addr
  <1> HIDE DEF d, u, t
  <1>13. Used' = u - d /\ Stored' = t
    BY <1>2, <1>6, <1>7 DEF Used, Stored
  <1>14. rx_mem_free_int' \in 0..buff_size /\ rx_mem_free_raw' \in 0..buff_size
    BY <1>2, <1>6, <1>7
  <1>15. /\ Plus(Plus(read_pointer, d), u - d) = Plus(read_pointer, u)
         /\ Plus(Plus(read_pointer, d), u + t - d) = Plus(read_pointer, u + t)
    BY <1>2, <1>6, <1>7, <1>8 DEF Plus, Addr
  <1>16. Plus(read_pointer, u) \in Addr /\ Plus(read_pointer, u + t) \in Addr
    BY <1>2, <1>7, <1>8, PlusType
  <1>17. buff_size - rx_mem_free_raw' = u + t - d
    BY <1>2, <1>6, <1>7
  <1> QED
    BY <1>6, <1>7, <1>10, <1>11, <1>12, <1>13, <1>14, <1>15, <1>16, <1>17 DEF d, u, t

\* What is written, and where: beyond the committed words.
LEMMA WriteData ==
  ASSUME Types, Control, Pointers
  PROVE  memory_write_data \in Words
  <1>1. /\ buff_size \in Nat /\ frame.data \in Nat /\ 4 + frame.data < buff_size
        /\ frame.tag \in Tags /\ timestamp_capture \in Tags
        /\ data_left \in Nat /\ data_left <= frame.data
    BY Sizes DEF Types, Control, Frame, Addr
  <1>2. /\ 0 \in Addr /\ 1 \in Addr /\ 2 \in Addr /\ 3 \in Addr /\ 3 + frame.data \in Addr
        /\ 4 + (frame.data - data_left) \in Addr
    BY <1>1 DEF Addr
  <1>3. \A t \in Tags, p, n \in Addr : Word(t, p, n) \in Words
    BY DEF Word, Words
  <1> QED BY <1>1, <1>2, <1>3 DEF memory_write_data

LEMMA WriteStep ==
  ASSUME Careful, IInv, NEW cmd \in Command, NEW rd \in BOOLEAN, Core(cmd), RamStep(cmd, rd)
  PROVE  /\ RAM' \in [Addr -> Words]
         /\ write_raw_OK(cmd) =>
              /\ Used + Stored \in Addr
              /\ RAM' = [RAM EXCEPT ![Plus(read_pointer, Used + Stored)] = memory_write_data]
         /\ Again =>
              LET i == IF rx_fsm = "rxb_store_end_ts_low" THEN 2 ELSE 3 IN
              /\ Stored = 4 + frame.data /\ Used + Stored <= buff_size
              /\ RAM' = [RAM EXCEPT ![Plus(read_pointer, Used + i)] = memory_write_data]
         /\ ~write_raw_OK(cmd) /\ ~Again => RAM' = RAM
         /\ \A k \in Addr : k < Used => RAM'[Plus(read_pointer, k)] = RAM[Plus(read_pointer, k)]
  <1>1. Types /\ Control /\ Pointers
    BY DEF IInv
  <1>2. /\ buff_size \in Nat /\ frame.data \in Nat /\ 4 + frame.data < buff_size
        /\ Stored \in 0..(4 + frame.data) /\ Used \in 0..buff_size
        /\ buff_size - rx_mem_free_raw = Used + Stored /\ rx_mem_free_raw \in Nat
    BY <1>1, Sizes
  <1>3. /\ RAM \in [Addr -> Words] /\ read_pointer \in Addr
        /\ memory_write_data \in Words
    BY <1>1, WriteData DEF Types
  <1>4. /\ write_raw_OK(cmd) => ~write_extra_ts /\ rx_mem_free_raw > 0
        /\ write_extra_ts => ~overrun_condition(cmd)
    BY Exclusive
  <1>5. RAM' = IF write_raw_OK(cmd) \/ Again
                 THEN [RAM EXCEPT ![memory_write_pointer] = memory_write_data] ELSE RAM
    BY <1>4 DEF RamStep, Again
  <1>6. CASE write_raw_OK(cmd)
    <2> DEFINE j == Used + Stored
    <2>1. j \in Addr /\ Used <= j
      BY <1>2, <1>4, <1>6 DEF Addr
    <2>2. memory_write_pointer = Plus(read_pointer, j) /\ ~Again
      BY <1>1, <1>2, <1>4, <1>6 DEF memory_write_pointer, Pointers, Again
    <2> HIDE DEF j
    <2>3. Plus(read_pointer, j) \in Addr
      BY <1>3, <2>1, PlusAddr
    <2>4. RAM' = [RAM EXCEPT ![Plus(read_pointer, j)] = memory_write_data]
      BY <1>5, <1>6, <2>2
    <2>5. ASSUME NEW k \in Addr, k < Used
          PROVE  RAM'[Plus(read_pointer, k)] = RAM[Plus(read_pointer, k)]
      <3>1. Plus(read_pointer, k) # Plus(read_pointer, j)
        BY <1>2, <1>3, <2>1, <2>5, PlusInjective DEF Addr
      <3>2. Plus(read_pointer, k) \in Addr
        BY <1>3, PlusAddr
      <3> QED BY <1>3, <2>4, <3>1, <3>2
    <2> QED BY <1>3, <1>6, <2>1, <2>2, <2>3, <2>4, <2>5 DEF j
  <1>7. CASE Again
    <2> DEFINE i == IF rx_fsm = "rxb_store_end_ts_low" THEN 2 ELSE 3
               j == Used + i
    <2>1. rx_fsm \in EndTsStates /\ ~data_overrun_int
      BY <1>7 DEF Again, write_extra_ts
    <2>2. rec = "idle" /\ rx_fsm # "rxb_idle" /\ rx_fsm \notin MetadataStates
      BY <1>1, <2>1, CoreQuiet DEF EndTsStates, MetadataStates
    <2>3. data_left = 0
      BY <1>1, <2>2 DEF Control
    <2>4. Sound
      BY <2>1, <2>2, ZenonT(40) DEF Sound
    <2>5. Stored = 4 + frame.data
      BY <1>1, <1>2, <2>2, <2>3, <2>4 DEF Pointers, Stage, MetadataStates
    <2>6. j \in Addr /\ Used <= j /\ i \in {2, 3} /\ Used + Stored <= buff_size
      BY <1>2, <2>5 DEF Addr
    <2>7. write_pointer_extra_ts = Plus(write_pointer, i) /\ write_pointer = Plus(read_pointer, Used)
      BY <1>1, <2>1 DEF Pointers, EndTsStates
    <2>8. Plus(Plus(read_pointer, Used), i) = Plus(read_pointer, j)
      BY <1>2, <1>3, <2>6, PlusPlus DEF Addr
    <2>9. memory_write_pointer = Plus(read_pointer, j) /\ ~write_raw_OK(cmd)
      BY <1>4, <1>7, <2>7, <2>8 DEF memory_write_pointer, Again
    <2> HIDE DEF j, i
    <2>10. Plus(read_pointer, j) \in Addr
      BY <1>3, <2>6, PlusAddr
    <2>11. RAM' = [RAM EXCEPT ![Plus(read_pointer, j)] = memory_write_data]
      BY <1>5, <1>7, <2>9
    <2>12. ASSUME NEW k \in Addr, k < Used
           PROVE  RAM'[Plus(read_pointer, k)] = RAM[Plus(read_pointer, k)]
      <3>1. Plus(read_pointer, k) # Plus(read_pointer, j)
        BY <1>2, <1>3, <2>6, <2>12, PlusInjective DEF Addr
      <3>2. Plus(read_pointer, k) \in Addr
        BY <1>3, PlusAddr
      <3> QED BY <1>3, <2>11, <3>1, <3>2
    <2> QED BY <1>3, <1>7, <2>5, <2>6, <2>9, <2>10, <2>11, <2>12 DEF j, i
  <1>8. CASE ~write_raw_OK(cmd) /\ ~Again
    BY <1>3, <1>5, <1>8
  <1> QED BY <1>6, <1>7, <1>8

\* The committed words stay whole frames, and the word read ahead is the
\* first of them.
LEMMA CommittedStep ==
  ASSUME Careful, IInv, NEW cmd \in Command, NEW rd \in BOOLEAN, Core(cmd),
         ReadPointerStep(rd), WritePointerStep(cmd), MemFreeStep(cmd, rd),
         ReadFrameStep(rd), MessageCountStep(rd), RamStep(cmd, rd)
  PROVE  /\ Committed'
         /\ read_frame_counter' \in Addr /\ message_count' \in Nat /\ RAM_data_out' \in Words
  <1> DEFINE r == read_pointer
             d == IF read_increment(rd) THEN 1 ELSE 0
             u == IF commit_rx_frame THEN Used + Stored ELSE Used
             m == IF commit_rx_frame THEN message_count + 1 ELSE message_count
             c == read_frame_counter
  <1>1. Types /\ Control /\ Pointers /\ Content /\ Committed
    BY DEF IInv
  <1>2. /\ buff_size \in Nat /\ frame.data \in Nat /\ 4 + frame.data < buff_size
        /\ Stored \in 0..(4 + frame.data) /\ Used \in 0..buff_size
        /\ Used + Stored \in 0..buff_size
    BY <1>1, Sizes
  <1>3. /\ RAM \in [Addr -> Words] /\ r \in Addr /\ c \in Addr /\ message_count \in Nat
    BY <1>1 DEF Types
  <1>4. /\ r' = Plus(r, d) /\ d <= Used /\ Used' = u - d /\ u \in 0..buff_size
        /\ r' \in Addr
    BY PointerStep
  <1>5. /\ RAM' \in [Addr -> Words]
        /\ \A k \in Addr : k < Used => RAM'[Plus(r, k)] = RAM[Plus(r, k)]
        /\ commit_rx_frame => RAM' = RAM
    BY WriteStep, Exclusive DEF Again
  <1>6. WholeFrames(r, Used, c, message_count, RAM')
    BY <1>1, <1>2, <1>3, <1>5, SameWords DEF Committed
  <1>7. \A k \in Addr : k < u => RAM'[Plus(r, k)] = RAM[Plus(r, k)]
    BY <1>5
  <1>8. WholeFrames(r, u, c, m, RAM')
    <2>1. CASE ~commit_rx_frame
      BY <1>6, <2>1
    <2>2. CASE commit_rx_frame
      <3> DEFINE v == Used + Stored
      <3>1. Sound /\ RAM' = RAM
        BY <1>5, <2>2 DEF Sound
      <3>2. /\ Stored = 4 + frame.data
        <4>1. rx_fsm \notin MetadataStates /\ data_left = 0
          <5>1. EndCycle /\ rec = "idle"
            BY <1>1, <2>2, ZenonT(40) DEF Control, EndCycle
          <5>2. Ended /\ drv_rtsopt \in {"beg", "end"} /\ data_left = 0
            BY <1>1, <5>1, RxBufferAssumption DEF Control, Types
          <5> QED BY <5>1, <5>2 DEF EndCycle, Ended, MetadataStates
        <4>2. Stored = Stage
          BY <1>1, <3>1, ZenonT(40) DEF Pointers
        <4> QED BY <1>2, <4>1, <4>2 DEF Stage, MetadataStates
      <3>3. \A k \in Addr : k < Stored => StoredWord(RAM[Plus(write_pointer, k)], k)
        BY <1>1, <3>1 DEF Content
      <3>4. \A k \in Addr : k < Stored => Plus(write_pointer, k) = Plus(r, Used + k)
        <4>1. write_pointer = Plus(r, Used)
          BY <1>1 DEF Pointers
        <4> QED BY <1>2, <1>3, <4>1, PlusPlus DEF Addr
      <3>5. \A k \in Addr : k < Stored => StoredWord(RAM[Plus(r, Used + k)], k)
        BY <3>3, <3>4
      <3>6. 0 \in Addr /\ Used + 0 = Used /\ 0 < Stored
        BY <1>2, <3>2 DEF Addr
      <3>7. RAM[Plus(r, Used)].pos = 0 /\ RAM[Plus(r, Used)].rwcnt = 3 + frame.data
        BY <3>5, <3>6 DEF StoredWord
      <3>8. ASSUME NEW k \in Addr, Used < k, k < v PROVE RAM[Plus(r, k)].pos # 0
        <4>1. k - Used \in Addr /\ k - Used < Stored /\ Used + (k - Used) = k /\ k - Used # 0
          BY <1>2, <3>8 DEF Addr
        <4> QED BY <3>5, <4>1 DEF StoredWord
      <3>9. Used + 1 < v /\ v - Used - 1 = 3 + frame.data /\ v \in 0..buff_size
        BY <1>2, <3>2
      <3> HIDE DEF v
      <3>10. WholeFrames(r, v, c, message_count + 1, RAM)
        BY <1>1, <1>2, <1>3, <3>7, <3>8, <3>9, CommitWhole DEF Committed
      <3> QED BY <2>2, <3>1, <3>10 DEF v
    <2> QED BY <2>1, <2>2
  <1>9. m \in Nat
    BY <1>3
  <1>10. /\ RAM_data_out' = RAM[r'] /\ RAM_data_out' \in Words
         /\ message_count > 0 => RAM_data_out = RAM[r]
    BY <1>1, <1>3, <1>4, IncPlus DEF RamStep, Committed, ReadPointerStep
  <1>11. CASE read_increment(rd)
    <2> DEFINE c2 == IF c = 0 THEN RAM'[r].rwcnt ELSE c - 1
               m2 == IF c = 1 THEN m - 1 ELSE m
    <2>1. d = 1 /\ u \in 1..buff_size /\ Used > 0 /\ message_count > 0
      BY <1>2, <1>4, <1>11 DEF read_increment
    <2>2. RAM'[r] = RAM[r]
      <3>1. 0 \in Addr /\ Plus(r, 0) = r
        BY <1>2, <1>3 DEF Plus, Addr
      <3> QED BY <1>5, <2>1, <3>1
    <2>3. read_frame_counter' = c2
      BY <1>10, <1>11, <2>1, <2>2 DEF ReadFrameStep
    <2>4. message_count' = m2
      BY <1>3, <1>11 DEF MessageCountStep
    <2> HIDE DEF u, m
    <2>5. c2 \in Addr /\ WholeFrames(Plus(r, 1), u - 1, c2, m2, RAM')
      BY <1>3, <1>5, <1>8, <2>1, ReadWhole
    <2>6. r' = Plus(r, 1) /\ Used' = u - 1
      BY <1>4, <2>1
    <2>7. u - 1 \in 0..buff_size /\ Plus(r, 1) \in Addr
      BY <1>2, <1>4, <2>1, <2>6
    <2>8. m2 \in 0..buff_size /\ (m2 > 0 => u - 1 > 0)
      BY <1>5, <2>5, <2>7, FramesIffWords
    <2>9. message_count' > 0 => RAM'[r'] = RAM[r']
      <3>1. m2 > 0 => 1 \in Addr /\ 1 < u
        BY <1>2, <2>1, <2>8 DEF Addr
      <3> QED BY <1>7, <2>4, <2>6, <3>1
    <2> QED
      BY <1>10, <2>3, <2>4, <2>5, <2>6, <2>8, <2>9, <1>2 DEF Committed
  <1>12. CASE ~read_increment(rd)
    <2>1. d = 0 /\ read_frame_counter' = c /\ message_count' = m
      BY <1>3, <1>12 DEF ReadFrameStep, MessageCountStep
    <2> HIDE DEF u, m
    <2>2. r' = r /\ Used' = u /\ Plus(r, 0) = r /\ 0 \in Addr
      BY <1>2, <1>3, <1>4, <2>1 DEF Plus, Addr
    <2>3. m > 0 => u > 0
      BY <1>3, <1>4, <1>5, <1>8, FramesIffWords, SMTT(30)
    <2>4. m > 0 => RAM'[r'] = RAM[r']
      <3>1. m > 0 => 0 < u
        BY <1>4, <1>5, <2>3
      <3>2. 0 < u => RAM'[Plus(r, 0)] = RAM[Plus(r, 0)]
        BY ZenonT(40), <1>7, <2>2
      <3> QED BY ZenonT(40), <2>2, <3>1, <3>2
    <2> QED BY <1>3, <1>8, <1>9, <1>10, <2>1, <2>2, <2>4 DEF Committed
  <1> QED BY <1>11, <1>12

-----------------------------------------------------------------------------
(* The frame on the bus.                                                   *)

\* The commands of the core while a frame is being stored.
LEMMA CoreStoring ==
  ASSUME Careful, Types, Control, NEW cmd \in Command, Core(cmd), rx_fsm # "rxb_idle"
  PROVE  /\ frame' = frame
         /\ \/ /\ cmd = "none"
               /\ (rec' = rec /\ data_left' = data_left) \/ (rec' = "off" /\ data_left' = 0)
            \/ /\ cmd = "store_data" /\ rec = "storing" /\ rec' = "storing"
               /\ rx_fsm = "rxb_store_data" /\ data_left > 0 /\ data_left' = data_left - 1
            \/ /\ cmd = "rec_message_valid" /\ rec = "storing" /\ rec' = "idle"
               /\ rx_fsm = "rxb_store_data" /\ data_left = 0 /\ data_left' = 0
            \/ cmd = "rec_abort" /\ rx_fsm = "rxb_store_data" /\ data_left' = 0
  <1> USE DEF settled, Settle
  <1>1. /\ rec \in {"off", "idle", "sof", "storing"} /\ age \in 0..4
    BY DEF Types
  <1>2. /\ rec = "storing" => Storing
        /\ rec = "idle" => Ended
        /\ rec = "sof" => rx_fsm = "rxb_idle"
    BY ZenonT(40) DEF Control
  <1>3. frame' = frame
    BY CoreQuiet
  <1>4. age = 4 => rec \in {"off", "storing"} /\ (rec = "storing" => rx_fsm = "rxb_store_data")
    BY <1>1, <1>2 DEF Storing, Ended
  <1>5. CASE CoreSof(cmd)
    BY <1>4, <1>5 DEF CoreSof
  <1>6. CASE CoreMetadata(cmd)
    BY <1>2, <1>6 DEF CoreMetadata
  <1>7. CASE CoreIgnore(cmd)
    BY <1>2, <1>7 DEF CoreIgnore
  <1>8. CASE CoreData(cmd)
    BY <1>3, <1>4, <1>8 DEF CoreData
  <1>9. CASE CoreValid(cmd)
    BY <1>3, <1>4, <1>9 DEF CoreValid
  <1>10. CASE CoreAbort(cmd)
    BY <1>3, <1>4, <1>10 DEF CoreAbort
  <1>11. CASE CoreWait(cmd)
    BY <1>3, <1>11 DEF CoreWait
  <1>12. CASE CoreOff(cmd)
    BY <1>3, <1>12 DEF CoreOff
  <1>13. CASE CoreOn(cmd)
    BY <1>13 DEF CoreOn, Careful
  <1> QED
    BY <1>5, <1>6, <1>7, <1>8, <1>9, <1>10, <1>11, <1>12, <1>13 DEF Core

\* How the end of a frame sets the two registers.
LEMMA EndFlags ==
  ASSUME Careful, Types, Control, NEW cmd \in Command, Core(cmd), CommitStep(cmd)
  PROVE  LET e == (cmd = "rec_message_valid" /\ drv_rtsopt = "beg")
                  \/ rx_fsm = "rxb_store_end_ts_high"
         IN  /\ commit_rx_frame' \in BOOLEAN /\ commit_overrun_abort' \in BOOLEAN
             /\ commit_rx_frame' <=> e /\ ~data_overrun_int
             /\ commit_overrun_abort' <=> e /\ data_overrun_int
  <1> DEFINE e == (cmd = "rec_message_valid" /\ drv_rtsopt = "beg")
                  \/ rx_fsm = "rxb_store_end_ts_high"
  <1>1. e => ~commit_rx_frame /\ ~commit_overrun_abort
    BY CoreQuiet
  <1>2. /\ commit_rx_frame \in BOOLEAN /\ commit_overrun_abort \in BOOLEAN
        /\ data_overrun_int \in BOOLEAN
    BY DEF Types
  <1> QED BY <1>1, <1>2, ZenonT(40) DEF CommitStep

\* The stages of the machine.
LEMMA StageNext ==
  ASSUME Careful, Types, Control, NEW cmd \in Command, Core(cmd), RxFsmStep(cmd),
         rx_fsm # "rxb_idle", cmd # "rec_abort"
  PROVE  /\ Stage' \in Nat /\ Stage \in Nat
         /\ rx_fsm \in MetadataStates \/ cmd = "store_data" =>
              /\ Stage + 1 <= Stage'
              /\ rec' # "off" => Stage' = Stage + 1
         /\ Stage <= Stage'
         /\ rx_fsm \notin MetadataStates /\ cmd # "store_data" /\ rec' # "off" => Stage' = Stage
  <1> USE DEF MetadataStates
  <1>1. /\ frame' = frame
        /\ \/ /\ cmd = "none"
              /\ (rec' = rec /\ data_left' = data_left) \/ (rec' = "off" /\ data_left' = 0)
           \/ /\ cmd = "store_data" /\ rec' = "storing"
              /\ rx_fsm = "rxb_store_data" /\ data_left > 0 /\ data_left' = data_left - 1
           \/ /\ cmd = "rec_message_valid"
              /\ rx_fsm = "rxb_store_data" /\ data_left = 0 /\ data_left' = 0
    BY CoreStoring
  <1>2. /\ frame.data \in Nat /\ data_left \in Nat /\ data_left <= frame.data
        /\ rec \in {"off", "idle", "sof", "storing"} /\ age \in 0..4
        /\ rx_fsm \in RxFsmState
    <2>1. data_left <= frame.data
      BY ZenonT(40) DEF Control
    <2>2. frame \in Frame /\ data_left \in Addr /\ rx_fsm \in RxFsmState
          /\ rec \in {"off", "idle", "sof", "storing"} /\ age \in 0..4
      BY DEF Types, Settle
    <2> QED BY <2>1, <2>2, FrameData DEF Addr
  <1>3. rx_fsm = "rxb_store_beg_ts_high" /\ rec # "off" => data_left = frame.data
    <2>1. rx_fsm = "rxb_store_beg_ts_high" /\ rec # "off" => rec = "storing" /\ Storing
      BY CoreQuiet DEF Control
    <2> QED BY <1>2, <2>1 DEF Storing
  <1>4. CASE rx_fsm \in {"rxb_store_frame_format", "rxb_store_identifier", "rxb_store_beg_ts_low"}
    <2>1. cmd = "none"
      BY <1>1, <1>4
    <2>2. /\ rx_fsm = "rxb_store_frame_format" => rx_fsm' = "rxb_store_identifier"
          /\ rx_fsm = "rxb_store_identifier" => rx_fsm' = "rxb_store_beg_ts_low"
          /\ rx_fsm = "rxb_store_beg_ts_low" => rx_fsm' = "rxb_store_beg_ts_high"
      BY <2>1 DEF RxFsmStep, NextMetadata
    <2>3. /\ rx_fsm = "rxb_store_frame_format" => Stage = 0
          /\ rx_fsm = "rxb_store_identifier" => Stage = 1
          /\ rx_fsm = "rxb_store_beg_ts_low" => Stage = 2
      BY ZenonT(40) DEF Stage
    <2>4. /\ rx_fsm' = "rxb_store_identifier" => Stage' = 1
          /\ rx_fsm' = "rxb_store_beg_ts_low" => Stage' = 2
          /\ rx_fsm' = "rxb_store_beg_ts_high" => Stage' = 3
      BY ZenonT(40) DEF Stage
    <2>5. (Stage = 0 /\ Stage' = 1) \/ (Stage = 1 /\ Stage' = 2) \/ (Stage = 2 /\ Stage' = 3)
      BY <1>4, <2>2, <2>3, <2>4
    <2> QED BY <1>4, <2>5
  <1>5. CASE rx_fsm = "rxb_store_beg_ts_high"
    <2>1. cmd = "none" /\ rx_fsm' = "rxb_store_data"
      BY <1>1, <1>5 DEF RxFsmStep, NextMetadata
    <2>2. Stage = 3 /\ Stage' = 4 + (frame.data - data_left')
      BY <1>1, <1>5, <2>1 DEF Stage
    <2> QED BY <1>1, <1>2, <1>3, <1>5, <2>1, <2>2
  <1>6. CASE rx_fsm \in {"rxb_store_data", "rxb_store_end_ts_low", "rxb_store_end_ts_high"}
    <2>1. rx_fsm' \notin MetadataStates
      BY <1>6 DEF RxFsmStep
    <2>2. Stage = 4 + (frame.data - data_left) /\ Stage' = 4 + (frame.data - data_left')
      BY <1>1, <1>6, <2>1 DEF Stage
    <2>3. data_left' \in Nat /\ data_left' <= data_left
      BY <1>1, <1>2
    <2> QED BY <1>1, <1>2, <1>6, <2>2, <2>3
  <1> QED BY <1>2, <1>4, <1>5, <1>6 DEF RxFsmState, EndTsStates

LEMMA StoredStep ==
  ASSUME Careful, IInv, NEW cmd \in Command, NEW rd \in BOOLEAN, NEW clr \in BOOLEAN,
         Core(cmd), RxFsmStep(cmd), ReadPointerStep(rd), WritePointerStep(cmd),
         MemFreeStep(cmd, rd), CommitStep(cmd), OverrunStep(cmd, clr),
         drv_rtsopt' = drv_rtsopt
  PROVE  /\ 0 <= Stored' /\ Stored' <= Stage'
         /\ Sound' => Stored' = Stage'
         /\ rx_fsm' = "rxb_idle" /\ ~commit_rx_frame' /\ ~commit_overrun_abort' => Stored' = 0
         /\ Sound' /\ Stored' # 0 =>
              /\ Sound /\ rx_fsm # "rxb_idle" /\ cmd # "rec_abort" /\ ~data_overrun_int
              /\ rx_fsm \in MetadataStates \/ cmd = "store_data" => write_raw_OK(cmd)
  <1>1. Types /\ Control /\ Pointers
    BY DEF IInv
  <1>2. /\ frame.data \in Nat /\ Stage \in 0..(4 + frame.data)
        /\ Stored \in 0..(4 + frame.data)
    BY <1>1, Sizes
  <1>3. Stored <= Stage /\ (Sound => Stored = Stage)
    BY <1>1, ZenonT(40) DEF Pointers
  <1>4. Stored' = IF commit_rx_frame \/ revert(cmd) THEN 0
                  ELSE IF write_raw_OK(cmd) THEN Stored + 1 ELSE Stored
    BY PointerStep
  <1>5. /\ commit_rx_frame' <=> /\ (cmd = "rec_message_valid" /\ drv_rtsopt = "beg")
                                   \/ rx_fsm = "rxb_store_end_ts_high"
                                /\ ~data_overrun_int
        /\ commit_overrun_abort' <=> /\ (cmd = "rec_message_valid" /\ drv_rtsopt = "beg")
                                        \/ rx_fsm = "rxb_store_end_ts_high"
                                     /\ data_overrun_int
    BY <1>1, EndFlags
  <1>6. Control' /\ data_left' \in Nat /\ frame'.data \in Nat /\ data_left' <= frame'.data
    <2>1. Control' /\ frame' \in Frame /\ data_left' \in Addr
      BY <1>1, ControlStep
    <2>2. data_left' <= frame'.data
      BY <2>1, ZenonT(40) DEF Control
    <2> QED BY <2>1, <2>2, FrameData DEF Addr
  <1>7. Stage' \in Nat
    BY <1>6 DEF Stage
  <1>8. CASE rx_fsm = "rxb_idle"
    <2>1. cmd \notin {"rec_message_valid", "store_data"}
      <3>1. rec = "storing" => rx_fsm # "rxb_idle"
        BY <1>1 DEF Control, Storing, Types, Settle
      <3> QED BY <1>8, <3>1 DEF Core, CoreSof, CoreMetadata, CoreIgnore, CoreData, CoreValid,
                          CoreAbort, CoreWait, CoreOff, CoreOn
    <2>2. ~commit_rx_frame' /\ ~commit_overrun_abort'
      BY <1>5, <1>8, <2>1
    <2>3. ~write_raw_OK(cmd)
      BY <1>8 DEF write_raw_OK, write_raw_intent, MetadataStates
    <2>4. Stored' = 0
      <3>1. CASE commit_rx_frame \/ commit_overrun_abort
        BY <1>4, <3>1 DEF revert
      <3>2. CASE ~commit_rx_frame /\ ~commit_overrun_abort
        BY <1>1, <1>4, <1>8, <2>3, <3>2 DEF Pointers
      <3> QED BY <3>1, <3>2
    <2>5. rx_fsm' \in {"rxb_idle", "rxb_store_frame_format"}
      BY <1>8 DEF RxFsmStep
    <2>6. Sound' => rx_fsm' = "rxb_store_frame_format"
      BY <2>2, <2>5 DEF Sound
    <2>7. Sound' => Stage' = 0
      BY <2>6 DEF Stage
    <2> QED BY <1>7, <2>4, <2>7
  <1>9. CASE rx_fsm # "rxb_idle" /\ cmd = "rec_abort"
    <2>1. rx_fsm = "rxb_store_data" /\ rx_fsm' = "rxb_idle"
      BY <1>1, <1>9, CoreStoring DEF RxFsmStep, MetadataStates
    <2>2. ~commit_rx_frame' /\ ~Sound'
      BY <1>5, <1>9, <2>1 DEF Sound
    <2>3. Stored' = 0
      BY <1>4, <1>9 DEF revert
    <2> QED BY <1>7, <2>2, <2>3
  <1>10. CASE rx_fsm # "rxb_idle" /\ cmd # "rec_abort"
    <2>1. /\ rx_fsm \in MetadataStates \/ cmd = "store_data" =>
               /\ Stage + 1 <= Stage'
               /\ rec' # "off" => Stage' = Stage + 1
          /\ Stage <= Stage'
          /\ rx_fsm \notin MetadataStates /\ cmd # "store_data" /\ rec' # "off" => Stage' = Stage
      BY <1>1, <1>10, StageNext
    <2>2. ~commit_rx_frame /\ ~commit_overrun_abort /\ ~revert(cmd)
      BY <1>1, <1>10, CoreQuiet DEF revert
    <2>3. Stored' = IF write_raw_OK(cmd) THEN Stored + 1 ELSE Stored
      BY <1>4, <2>2
    <2>4. write_raw_OK(cmd) => rx_fsm \in MetadataStates \/ cmd = "store_data"
      BY DEF write_raw_OK, write_raw_intent
    <2>5. 0 <= Stored' /\ Stored' <= Stage'
      BY <1>2, <1>3, <1>7, <2>1, <2>3, <2>4
    <2>6. Sound' => rec' # "off" /\ ~data_overrun_int /\ Sound
      <3>1. rec = "off" => rec' = "off"
        BY <1>1, <1>10, CoreStoring
      <3>2. commit_rx_frame' => rec' # "off" /\ ~data_overrun_int
        BY <1>5, <1>6 DEF Control, EndCycle
      <3>3. data_overrun_int => data_overrun_int'
        BY <1>10, ZenonT(40) DEF OverrunStep
      <3>4. Sound' => rec' # "off" /\ ~data_overrun_int
        BY <3>2, <3>3, ZenonT(40) DEF Sound
      <3> QED BY <1>10, <3>1, <3>4, ZenonT(40) DEF Sound
    <2>7. Sound' /\ (rx_fsm \in MetadataStates \/ cmd = "store_data") => write_raw_OK(cmd)
      <3> SUFFICES ASSUME Sound', rx_fsm \in MetadataStates \/ cmd = "store_data"
                   PROVE  write_raw_OK(cmd)
        OBVIOUS
      <3>1. write_raw_intent(cmd)
        BY <1>1, <1>10, CoreStoring DEF write_raw_intent
      <3>2. rx_fsm # "rxb_store_end_ts_high" /\ cmd # "rec_message_valid"
        BY <1>1, <1>10, CoreStoring DEF MetadataStates
      <3>3. ~commit_rx_frame'
        BY <1>5, <3>2
      <3>4. ~data_overrun_int'
        BY <3>3, ZenonT(40) DEF Sound
      <3>5. ~overrun_condition(cmd) /\ ~data_overrun_int
        BY <1>10, <3>4, ZenonT(40) DEF OverrunStep
      <3> QED BY <3>1, <3>5, ZenonT(40) DEF write_raw_OK
    <2>8. Sound' => Stored' = Stage'
      BY <1>2, <1>3, <1>7, <2>1, <2>3, <2>4, <2>6, <2>7
    <2>9. rx_fsm' = "rxb_idle" => commit_rx_frame' \/ commit_overrun_abort'
      <3>1. rx_fsm' = "rxb_idle" =>
              (cmd = "rec_message_valid" /\ drv_rtsopt = "beg")
              \/ rx_fsm = "rxb_store_end_ts_high"
        BY <1>1, <1>10, RxBufferAssumption
           DEF RxFsmStep, NextMetadata, MetadataStates, EndTsStates, Types, RxFsmState
      <3> QED BY <1>5, <3>1, ZenonT(40)
    <2> QED BY <1>10, <2>5, <2>6, <2>7, <2>8, <2>9
  <1> QED BY <1>8, <1>9, <1>10

LEMMA ExtraStep ==
  ASSUME Careful, IInv, NEW cmd \in Command, NEW rd \in BOOLEAN,
         Core(cmd), RxFsmStep(cmd), ReadPointerStep(rd), WritePointerStep(cmd),
         ExtraPointerStep, MemFreeStep(cmd, rd)
  PROVE  /\ write_pointer_extra_ts' \in Addr
         /\ rx_fsm # "rxb_idle" => write_pointer' = write_pointer
         /\ rx_fsm' = "rxb_store_identifier" => write_pointer_extra_ts' = write_pointer'
         /\ rx_fsm' = "rxb_store_beg_ts_low"
              => write_pointer_extra_ts' = Plus(write_pointer', 1)
         /\ rx_fsm' \in {"rxb_store_beg_ts_high", "rxb_store_data", "rxb_store_end_ts_low"}
              => write_pointer_extra_ts' = Plus(write_pointer', 2)
         /\ rx_fsm' = "rxb_store_end_ts_high"
              => write_pointer_extra_ts' = Plus(write_pointer', 3)
  <1>1. Types /\ Control /\ Pointers
    BY DEF IInv
  <1>2. buff_size \in Nat /\ 4 < buff_size
    <2>1. frame.data \in Nat /\ 4 + frame.data < buff_size /\ buff_size \in Nat
      BY <1>1, Sizes
    <2> QED BY <2>1
  <1>3. write_pointer \in Addr /\ write_pointer_extra_ts \in Addr /\ rx_fsm \in RxFsmState
    BY <1>1 DEF Types
  <1>4. rx_fsm # "rxb_idle" => write_pointer' = write_pointer
    BY <1>1, CoreQuiet DEF WritePointerStep
  <1>5. /\ Plus(Plus(write_pointer, 1), 1) = Plus(write_pointer, 2)
        /\ Plus(Plus(write_pointer, 2), 1) = Plus(write_pointer, 3)
    BY <1>2, <1>3 DEF Plus, Addr
  <1>6. /\ rx_fsm = "rxb_store_identifier" => write_pointer_extra_ts = write_pointer
        /\ rx_fsm = "rxb_store_beg_ts_low" => write_pointer_extra_ts = Plus(write_pointer, 1)
        /\ rx_fsm \in {"rxb_store_beg_ts_high", "rxb_store_data", "rxb_store_end_ts_low"}
             => write_pointer_extra_ts = Plus(write_pointer, 2)
    BY <1>1 DEF Pointers
  <1>7. inc_1(write_pointer_extra_ts) = Plus(write_pointer_extra_ts, 1)
        /\ inc_1(write_pointer_extra_ts) \in Addr
    BY <1>3, IncPlus
  <1>8. write_pointer_extra_ts' \in Addr
    BY <1>3, <1>7 DEF ExtraPointerStep
  <1>9. CASE rx_fsm \in {"rxb_idle", "rxb_store_end_ts_high"}
    BY <1>4, <1>8, <1>9 DEF RxFsmStep, MetadataStates
  <1>10. CASE rx_fsm \in MetadataStates
    BY <1>4, <1>5, <1>6, <1>7, <1>8, <1>10, SMTT(30)
       DEF RxFsmStep, NextMetadata, MetadataStates, ExtraPointerStep
  <1>11. CASE rx_fsm \in {"rxb_store_data", "rxb_store_end_ts_low"}
    BY <1>4, <1>5, <1>6, <1>7, <1>8, <1>11
       DEF RxFsmStep, MetadataStates, ExtraPointerStep
  <1> QED BY <1>3, <1>9, <1>10, <1>11 DEF RxFsmState, EndTsStates

\* The timestamp that is or will be written is that of the frame.
LEMMA CaptureStep ==
  ASSUME Careful, Types, Control, Content, NEW cmd \in Command, Core(cmd),
         RxFsmStep(cmd), CaptureTimestamp(cmd, frame'), drv_rtsopt' = drv_rtsopt,
         frame' \in Frame
  PROVE  /\ timestamp_capture' \in Tags
         /\ drv_rtsopt' = "beg" \/ rx_fsm' \in EndTsStates => timestamp_capture' = frame'.tag
  <1>1. timestamp_capture \in Tags /\ rx_fsm \in RxFsmState /\ drv_rtsopt \in {"beg", "end"}
    BY RxBufferAssumption DEF Types
  <1>2. drv_rtsopt = "beg" \/ rx_fsm \in EndTsStates => timestamp_capture = frame.tag
    BY DEF Content
  <1>3. cmd # "sof_pulse" => frame' = frame
    BY DEF Core, CoreSof, CoreMetadata, CoreIgnore, CoreData, CoreValid, CoreAbort,
           CoreWait, CoreOff, CoreOn
  <1>4. frame'.tag \in Tags
    BY FrameData
  <1>5. rx_fsm' \in EndTsStates =>
          \/ cmd = "rec_message_valid" /\ drv_rtsopt = "end"
          \/ rx_fsm \in EndTsStates /\ cmd = "none"
    <2>1. rx_fsm' \in EndTsStates =>
            \/ cmd = "rec_message_valid" /\ drv_rtsopt = "end"
            \/ rx_fsm \in EndTsStates
      BY <1>1, SMTT(30) DEF RxFsmStep, NextMetadata, MetadataStates, EndTsStates, RxFsmState
    <2> QED BY <2>1, CoreQuiet
  <1> QED BY <1>1, <1>2, <1>3, <1>4, <1>5 DEF CaptureTimestamp

LEMMA ContentStep ==
  ASSUME Careful, IInv, NEW cmd \in Command, NEW rd \in BOOLEAN, NEW clr \in BOOLEAN,
         Core(cmd), RxFsmStep(cmd), ReadPointerStep(rd), WritePointerStep(cmd),
         ExtraPointerStep, MemFreeStep(cmd, rd), CommitStep(cmd), OverrunStep(cmd, clr),
         RamStep(cmd, rd), drv_rtsopt' = drv_rtsopt,
         Sound', NEW k \in Addr, k < Stored'
  PROVE  StoredWord(RAM[Plus(write_pointer, k)], k)'
  <1> DEFINE a == Plus(read_pointer, Used + k)
  <1>1. Types /\ Control /\ Pointers /\ Content
    BY DEF IInv
  <1>2. /\ buff_size \in Nat /\ frame.data \in Nat /\ 4 + frame.data < buff_size
        /\ Stored \in 0..(4 + frame.data) /\ Used \in 0..buff_size
        /\ Used + Stored \in 0..buff_size
    BY <1>1, Sizes
  <1>3. /\ Sound /\ rx_fsm # "rxb_idle" /\ cmd # "rec_abort" /\ ~data_overrun_int
        /\ rx_fsm \in MetadataStates \/ cmd = "store_data" => write_raw_OK(cmd)
    <2>1. Stored' # 0
      BY DEF Addr
    <2> QED BY <2>1, StoredStep
  <1>4. Stored = Stage
    BY <1>1, <1>3, ZenonT(40) DEF Pointers
  <1>5. /\ frame' = frame /\ write_pointer' = write_pointer
        /\ ~commit_rx_frame /\ ~revert(cmd)
    <2>1. frame' = frame
      BY <1>1, <1>3, CoreStoring
    <2>2. write_pointer' = write_pointer
      BY <1>3, ExtraStep
    <2>3. ~commit_rx_frame /\ ~commit_overrun_abort
      BY <1>1, <1>3, CoreQuiet
    <2> QED BY <1>3, <2>1, <2>2, <2>3, ZenonT(40) DEF revert
  <1>6. /\ Stored' = IF write_raw_OK(cmd) THEN Stored + 1 ELSE Stored
        /\ Used + Stored' <= buff_size
    <2>1. Stored' = IF write_raw_OK(cmd) THEN Stored + 1 ELSE Stored
      BY <1>5, PointerStep
    <2>2. write_raw_OK(cmd) => Used + Stored \in Addr
      BY WriteStep
    <2> QED BY <1>2, <2>1, <2>2 DEF Addr
  <1>7. Used + k \in Addr /\ a \in Addr /\ Plus(write_pointer, k) = a
    <2>1. Used + k \in Addr /\ Stored' \in Nat /\ k \in Nat /\ Used + k <= buff_size
      BY <1>2, <1>6 DEF Addr
    <2>2. read_pointer \in Addr /\ write_pointer = Plus(read_pointer, Used)
      BY <1>1 DEF Types, Pointers
    <2>3. Plus(Plus(read_pointer, Used), k) = a
      BY <1>2, <2>1, <2>2, PlusPlus
    <2> QED BY <2>1, <2>2, <2>3, PlusAddr, ZenonT(30)
  <1>8. k < Stored => StoredWord(RAM[a], k)
    BY <1>1, <1>3, <1>7 DEF Content
  <1>9. RAM \in [Addr -> Words] /\ read_pointer \in Addr
    BY <1>1 DEF Types
  <1>10. /\ commit_rx_frame' => /\ (cmd = "rec_message_valid" /\ drv_rtsopt = "beg")
                                  \/ rx_fsm = "rxb_store_end_ts_high"
         /\ drv_rtsopt = "beg" \/ rx_fsm \in EndTsStates => timestamp_capture = frame.tag
         /\ rx_fsm \in RxFsmState
    BY <1>1, EndFlags, SMTT(30) DEF Content, Types
  <1>15. (RAM[Plus(write_pointer, k)])' = RAM'[a]
    BY <1>5, <1>7, ZenonT(40)
  <1>11. SUFFICES /\ RAM'[a].pos = k
                  /\ RAM'[a].rwcnt = IF k = 0 THEN 3 + frame.data ELSE 0
                  /\ Stamped(k)' => RAM'[a].tag = frame.tag
    BY <1>5, <1>15, ZenonT(40) DEF StoredWord
  <1>12. CASE write_raw_OK(cmd)
    <2>1. /\ Used + Stored \in Addr
          /\ RAM' = [RAM EXCEPT ![Plus(read_pointer, Used + Stored)] = memory_write_data]
      BY <1>12, WriteStep
    <2>2. \/ rx_fsm \in MetadataStates
          \/ rx_fsm = "rxb_store_data" /\ cmd = "store_data"
      BY <1>12, Exclusive
    <2>3. ~commit_rx_frame' /\ rx_fsm' # "rxb_store_end_ts_high"
      <3>1. rx_fsm' # "rxb_store_end_ts_high" /\ rx_fsm # "rxb_store_end_ts_high"
        BY <2>2 DEF MetadataStates, RxFsmStep, NextMetadata
      <3>2. cmd # "rec_message_valid"
        BY <1>1, <1>3, <2>2, CoreQuiet
      <3> QED BY <1>10, <3>1, <3>2
    <2>4. Stamped(k)' => k \notin {2, 3} \/ drv_rtsopt = "beg"
      BY <2>3, ZenonT(30) DEF Stamped
    <2>5. CASE k = Stored
      <3>1. RAM'[a] = memory_write_data
        BY <1>7, <1>9, <2>1, <2>5
      <3>2. k = Stage
        BY <1>4, <2>5, SMTT(30)
      <3>3. /\ memory_write_data.pos = k
            /\ memory_write_data.rwcnt = IF k = 0 THEN 3 + frame.data ELSE 0
            /\ k \notin {2, 3} \/ drv_rtsopt = "beg" => memory_write_data.tag = frame.tag
        <4>1. data_left \in Nat /\ data_left <= frame.data
          <5>1. data_left <= frame.data
            BY <1>1, ZenonT(30) DEF Control
          <5> QED BY <1>1, <5>1 DEF Types, Addr
        <4>2. CASE rx_fsm = "rxb_store_frame_format"
          BY <3>2, <4>2, MetadataWord DEF Word
        <4>3. CASE rx_fsm = "rxb_store_identifier"
          BY <3>2, <4>3, MetadataWord DEF Word
        <4>4. CASE rx_fsm = "rxb_store_beg_ts_low"
          BY <1>10, <3>2, <4>4, MetadataWord DEF Word
        <4>5. CASE rx_fsm = "rxb_store_beg_ts_high"
          BY <1>10, <3>2, <4>5, MetadataWord DEF Word
        <4>6. CASE rx_fsm = "rxb_store_data"
          <5>1. k = 4 + (frame.data - data_left) /\ k # 0
            BY <1>2, <3>2, <4>1, <4>6 DEF Stage
          <5>2. memory_write_data = Word(frame.tag, k, 0)
            BY <4>6, <5>1, SMTT(30) DEF memory_write_data
          <5> QED BY <5>1, <5>2 DEF Word
        <4> QED BY <2>2, <4>2, <4>3, <4>4, <4>5, <4>6, ZenonT(30) DEF MetadataStates
      <3> QED BY <2>4, <3>1, <3>3, ZenonT(30)
    <2>6. CASE k # Stored
      <3>1. k < Stored
        BY <1>2, <1>6, <1>12, <2>6 DEF Addr
      <3>2. Used + k # Used + Stored
        BY <1>2, <2>6 DEF Addr
      <3>3. a # Plus(read_pointer, Used + Stored)
        BY <1>7, <1>9, <2>1, <3>2, PlusInjective
      <3>4. RAM'[a] = RAM[a]
        BY <1>7, <1>9, <2>1, <3>3
      <3>5. Stamped(k)' => Stamped(k)
        BY <2>4, ZenonT(30) DEF Stamped
      <3> QED BY <1>8, <3>1, <3>4, <3>5 DEF StoredWord
    <2> QED BY ZenonT(40), <2>5, <2>6
  <1>13. CASE rx_fsm \in EndTsStates
    <2> DEFINE i == IF rx_fsm = "rxb_store_end_ts_low" THEN 2 ELSE 3
    <2>1. Again
      BY <1>3, <1>13, ZenonT(40) DEF Again, write_extra_ts
    <2>2. /\ Stored = 4 + frame.data
          /\ RAM' = [RAM EXCEPT ![Plus(read_pointer, Used + i)] = memory_write_data]
      BY <2>1, WriteStep
    <2>3. ~write_raw_OK(cmd) /\ k < Stored
      <3>1. ~write_raw_OK(cmd)
        BY <1>13, Exclusive DEF write_extra_ts
      <3> QED BY <1>6, <3>1
    <2>4. memory_write_data = Word(frame.tag, i, 0)
      <3>1. timestamp_capture = frame.tag
        BY <1>10, <1>13
      <3> QED BY <1>13, <3>1 DEF memory_write_data, EndTsStates
    <2>5. i \in {2, 3} /\ Used + i \in Addr
      BY <1>2, <2>2, SMTT(30) DEF Addr
    <2>6. CASE k = i
      <3>1. RAM'[a] = memory_write_data
        BY <1>7, <1>9, <2>2, <2>6, SMTT(30)
      <3> QED BY <2>4, <2>5, <2>6, <3>1 DEF Word
    <2>7. CASE k # i
      <3>1. Used + k # Used + i
        BY <1>2, <2>5, <2>7 DEF Addr
      <3> HIDE DEF i
      <3>2. a # Plus(read_pointer, Used + i)
        BY <1>7, <1>9, <2>5, <3>1, PlusInjective
      <3>3. RAM'[a] = RAM[a]
        BY <1>7, <1>9, <2>2, <3>2
      <3>4. Stamped(k)' => Stamped(k)
        <4>1. CASE rx_fsm = "rxb_store_end_ts_low"
          <5>1. ~commit_rx_frame' /\ k # 2
            <6>1. cmd = "none"
              BY <1>1, <1>13, CoreQuiet
            <6> QED BY <1>10, <2>7, <4>1, <6>1 DEF i
          <5> QED BY <5>1, ZenonT(40) DEF Stamped
        <4>2. CASE rx_fsm = "rxb_store_end_ts_high"
          <5>1. k # 3
            BY <2>7, <4>2, SMTT(30) DEF i
          <5> QED BY <4>2, <5>1 DEF Stamped
        <4> QED BY <1>13, <4>1, <4>2 DEF EndTsStates
      <3> QED BY <1>8, <2>3, <3>3, <3>4 DEF StoredWord
    <2> QED BY <2>6, <2>7
  <1>14. CASE ~write_raw_OK(cmd) /\ rx_fsm \notin EndTsStates
    <2>1. rx_fsm = "rxb_store_data" /\ cmd # "store_data"
      BY <1>3, <1>10, <1>14 DEF RxFsmState
    <2>2. RAM' = RAM /\ k < Stored
      BY <1>6, <1>14, WriteStep DEF Again, write_extra_ts
    <2>3. Stamped(k)' => Stamped(k)
      <3>1. rx_fsm' # "rxb_store_end_ts_high"
        BY <2>1 DEF RxFsmStep, MetadataStates
      <3>2. commit_rx_frame' => drv_rtsopt = "beg"
        BY <1>10, <2>1
      <3> QED BY <3>1, <3>2, ZenonT(40) DEF Stamped
    <2> QED BY <1>8, <2>2, <2>3 DEF StoredWord
  <1> QED BY <1>12, <1>13, <1>14, ZenonT(30)

-----------------------------------------------------------------------------
(* The invariant.                                                          *)

LEMMA CycleInv ==
  ASSUME Careful, IInv, NEW cmd \in Command, NEW rd \in BOOLEAN, NEW clr \in BOOLEAN,
         Cycle(cmd, rd, clr)
  PROVE  IInv'
  <1>1. /\ Core(cmd) /\ RxFsmStep(cmd) /\ CaptureTimestamp(cmd, frame')
        /\ ReadPointerStep(rd) /\ WritePointerStep(cmd) /\ ExtraPointerStep
        /\ MemFreeStep(cmd, rd) /\ ReadFrameStep(rd) /\ MessageCountStep(rd)
        /\ CommitStep(cmd) /\ OverrunStep(cmd, clr) /\ RamStep(cmd, rd)
        /\ drv_rtsopt' = drv_rtsopt
    BY ZenonT(40) DEF Cycle
  <1>2. Types /\ Control /\ Content
    BY DEF IInv
  <1>3. /\ Control'
        /\ rec' \in {"off", "idle", "sof", "storing"}
        /\ frame' \in Frame /\ data_left' \in Addr /\ age' \in 0..Settle
        /\ rx_fsm' \in RxFsmState
    BY <1>1, <1>2, ControlStep, SMTT(30)
  <1>4. /\ rx_mem_free_int' \in 0..buff_size /\ rx_mem_free_raw' \in 0..buff_size
        /\ read_pointer' \in Addr /\ write_pointer' \in Addr /\ write_pointer_raw' \in Addr
        /\ write_pointer' = Plus(read_pointer', Used')
        /\ write_pointer_raw' = Plus(read_pointer', buff_size - rx_mem_free_raw')
    BY <1>1, PointerStep
  <1>5. /\ Committed'
        /\ read_frame_counter' \in Addr /\ message_count' \in Nat /\ RAM_data_out' \in Words
        /\ RAM' \in [Addr -> Words]
    BY <1>1, CommittedStep, WriteStep
  <1>6. /\ 0 <= Stored' /\ Stored' <= Stage'
        /\ Sound' => Stored' = Stage'
        /\ rx_fsm' = "rxb_idle" /\ ~commit_rx_frame' /\ ~commit_overrun_abort' => Stored' = 0
    BY <1>1, StoredStep
  <1>7. /\ write_pointer_extra_ts' \in Addr
        /\ rx_fsm' = "rxb_store_identifier" => write_pointer_extra_ts' = write_pointer'
        /\ rx_fsm' = "rxb_store_beg_ts_low"
             => write_pointer_extra_ts' = Plus(write_pointer', 1)
        /\ rx_fsm' \in {"rxb_store_beg_ts_high", "rxb_store_data", "rxb_store_end_ts_low"}
             => write_pointer_extra_ts' = Plus(write_pointer', 2)
        /\ rx_fsm' = "rxb_store_end_ts_high"
             => write_pointer_extra_ts' = Plus(write_pointer', 3)
    BY <1>1, ExtraStep
  <1>8. /\ timestamp_capture' \in Tags
        /\ drv_rtsopt' = "beg" \/ rx_fsm' \in EndTsStates => timestamp_capture' = frame'.tag
    BY <1>1, <1>2, <1>3, CaptureStep
  <1>9. commit_rx_frame' \in BOOLEAN /\ commit_overrun_abort' \in BOOLEAN
    BY <1>1, <1>2, EndFlags
  <1>10. data_overrun_int' \in BOOLEAN /\ data_overrun_r' \in BOOLEAN
    <2>1. data_overrun_int \in BOOLEAN /\ data_overrun_r \in BOOLEAN
      BY <1>2 DEF Types
    <2> QED BY <1>1, <2>1, ZenonT(40) DEF OverrunStep
  <1>11. Types'
    BY <1>1, <1>2, <1>3, <1>4, <1>5, <1>7, <1>8, <1>9, <1>10, ZenonT(40) DEF Types
  <1>12. Pointers'
    BY <1>4, <1>6, <1>7, ZenonT(40) DEF Pointers
  <1>13. Content'
    <2>1. Sound' => \A k \in Addr : k < Stored' => StoredWord(RAM[Plus(write_pointer, k)], k)'
      BY <1>1, ContentStep
    <2> QED BY <1>8, <2>1, ZenonT(40) DEF Content
  <1> QED BY <1>3, <1>5, <1>11, <1>12, <1>13 DEF IInv

LEMMA EraseInv ==
  ASSUME Careful, IInv, NEW cmd \in Command, Erase(cmd)
  PROVE  IInv'
  <1> USE DEF settled, Settle
  <1>1. /\ rec \in {"idle", "off"} /\ age = 4 /\ Core(cmd)
        /\ CaptureTimestamp(cmd, frame') /\ drv_rtsopt' = drv_rtsopt /\ RAM' = RAM
    BY DEF Erase, Careful
  <1>2. /\ rx_fsm' = "rxb_idle"
        /\ read_pointer' = 0 /\ write_pointer' = 0 /\ write_pointer_raw' = 0
        /\ write_pointer_extra_ts' = 0
        /\ rx_mem_free_int' = buff_size /\ rx_mem_free_raw' = buff_size
        /\ read_frame_counter' = 0 /\ message_count' = 0
        /\ commit_rx_frame' = FALSE /\ commit_overrun_abort' = FALSE
        /\ data_overrun_int' = FALSE /\ data_overrun_r' = FALSE
        /\ RAM_data_out' = RAM[0]
    BY DEF Erase
  <1>3. Types /\ Control /\ Pointers /\ Content
    BY DEF IInv
  <1>4. /\ frame \in Frame /\ data_left = 0 /\ drv_rtsopt \in RtsOpt
        /\ timestamp_capture \in Tags /\ RAM \in [Addr -> Words]
    BY <1>1, <1>3 DEF Types, Control
  <1>5. /\ rec' \in {"idle", "off", "sof"} /\ data_left' = 0 /\ age' = 4 /\ frame' \in Frame
        /\ cmd # "sof_pulse" => frame' = frame
        /\ cmd # "rec_message_valid"
    BY <1>1, <1>4
       DEF Core, CoreSof, CoreMetadata, CoreIgnore, CoreData, CoreValid, CoreAbort,
           CoreWait, CoreOff, CoreOn, older
  <1>6. /\ buff_size \in Nat /\ frame'.data \in Nat /\ frame'.tag \in Tags
        /\ 4 + frame'.data < buff_size /\ 0 \in Addr
    BY <1>5, FrameData, RxBufferAssumption DEF Addr
  <1>7. Control'
    BY <1>2, <1>5, <1>6 DEF Control, Ended, EndTsStates
  <1>8. timestamp_capture' \in Tags /\ (drv_rtsopt = "beg" => timestamp_capture' = frame'.tag)
    BY <1>1, <1>3, <1>4, <1>5, <1>6 DEF CaptureTimestamp, Content
  <1>9. ~Sound'
    BY <1>2 DEF Sound
  <1>10. Stored' = 0 /\ Used' = 0 /\ Stage' \in Nat
    BY <1>2, <1>5, <1>6 DEF Stored, Used, Stage
  <1>11. Pointers'
    BY <1>2, <1>6, <1>9, <1>10 DEF Pointers, Plus
  <1>12. Content'
    BY <1>1, <1>2, <1>8, <1>9 DEF Content, EndTsStates
  <1>13. Committed'
    BY <1>1, <1>2, <1>6, <1>10, EmptyWhole DEF Committed
  <1>14. Types'
    <2>1. /\ commit_rx_frame' \in BOOLEAN /\ commit_overrun_abort' \in BOOLEAN
          /\ data_overrun_int' \in BOOLEAN /\ data_overrun_r' \in BOOLEAN
      BY <1>2, ZenonT(30)
    <2>2. /\ rx_fsm' \in RxFsmState /\ RAM_data_out' \in Words
          /\ rx_mem_free_int' \in 0..buff_size /\ rx_mem_free_raw' \in 0..buff_size
          /\ message_count' \in Nat /\ age' \in 0..Settle
      BY <1>2, <1>4, <1>5, <1>6 DEF RxFsmState
    <2> QED BY <1>1, <1>2, <1>4, <1>5, <1>6, <1>8, <2>1, <2>2, SMTT(30) DEF Types
  <1> QED BY <1>7, <1>11, <1>12, <1>13, <1>14 DEF IInv

LEMMA StutterInv == ASSUME IInv, UNCHANGED vars PROVE IInv'
  <1>1. /\ rx_fsm' = rx_fsm /\ drv_rtsopt' = drv_rtsopt
        /\ timestamp_capture' = timestamp_capture
        /\ read_pointer' = read_pointer /\ write_pointer' = write_pointer
        /\ write_pointer_raw' = write_pointer_raw
        /\ write_pointer_extra_ts' = write_pointer_extra_ts
        /\ rx_mem_free_int' = rx_mem_free_int /\ rx_mem_free_raw' = rx_mem_free_raw
        /\ read_frame_counter' = read_frame_counter /\ message_count' = message_count
        /\ commit_rx_frame' = commit_rx_frame
        /\ commit_overrun_abort' = commit_overrun_abort
        /\ data_overrun_int' = data_overrun_int /\ data_overrun_r' = data_overrun_r
        /\ RAM' = RAM /\ RAM_data_out' = RAM_data_out
        /\ rec' = rec /\ frame' = frame /\ data_left' = data_left /\ age' = age
    BY DEF vars, pointerVars, flagVars, coreVars
  <1>2. Stored' = Stored /\ Used' = Used /\ Stage' = Stage /\ Sound' = Sound
    BY <1>1 DEF Stored, Used, Stage, Sound
  <1>3. Types'
    BY <1>1 DEF IInv, Types
  <1>4. Control'
    BY <1>1, ZenonT(30) DEF IInv, Control, Storing, Ended, EndCycle
  <1>5. Pointers'
    BY <1>1, <1>2 DEF IInv, Pointers
  <1>6. Content'
    BY <1>1, <1>2, ZenonT(30) DEF IInv, Content, StoredWord, Stamped
  <1>7. Committed'
    BY <1>1, <1>2 DEF IInv, Committed
  <1> QED BY <1>3, <1>4, <1>5, <1>6, <1>7 DEF IInv

\* The invariant from which the theorems below follow.
THEOREM RxBufferInvariant == ASSUME Careful PROVE Spec => []IInv
  <1>1. Init => IInv
    BY InitInv
  <1>2. IInv /\ [Next]_vars => IInv'
    BY CycleInv, EraseInv, StutterInv DEF Next
  <1> QED BY <1>1, <1>2, PTL DEF Spec

\* Pointers, free-memory counters and the frame counter keep within their
\* ranges for every size of the memory.
THEOREM RxBufferTypeCorrect == ASSUME Careful PROVE Spec => []TypeOK
  <1>1. IInv => TypeOK
    <2> SUFFICES ASSUME IInv PROVE TypeOK
      OBVIOUS
    <2>1. message_count \in 0..buff_size /\ Types
      BY FreeWord DEF IInv
    <2> QED BY <2>1 DEF Types, TypeOK
  <1> QED BY <1>1, RxBufferInvariant, PTL

\* The word read ahead is the oldest committed word.
THEOREM RxBufferReadsNext == ASSUME Careful PROVE Spec => []ReadsNextWord
  <1>1. IInv => ReadsNextWord
    <2> SUFFICES ASSUME IInv, message_count > 0 PROVE RAM_data_out = committed[1]
      BY SMTT(30) DEF ReadsNextWord
    <2>1. Used > 0 /\ Used \in 0..buff_size /\ buff_size \in Nat /\ read_pointer \in Addr
          /\ RAM_data_out = RAM[read_pointer]
      BY FreeWord, Sizes DEF IInv, Types, Committed
    <2>2. 1 \in 1..(buff_size - rx_mem_free_int)
      BY <2>1 DEF Used
    <2>3. (read_pointer + 1 - 1) % buff_size = read_pointer
      BY <2>1 DEF Addr
    <2> QED BY <2>1, <2>2, <2>3 DEF committed
  <1> QED BY <1>1, RxBufferInvariant, PTL

\* The comparison of the pointers finds the memory full exactly when the
\* counter of free words is zero.
THEOREM RxBufferFreeWord == ASSUME Careful PROVE Spec => []FreeWordIffMemoryFree
  <1>1. IInv => FreeWordIffMemoryFree
    BY FreeWord DEF FreeWordIffMemoryFree
  <1> QED BY <1>1, RxBufferInvariant, PTL

\* Each command of the core meets the state of the machine that expects it.
THEOREM RxBufferProtocol == ASSUME Careful PROVE Spec => StoringProtocol
  <1>1. IInv => CommandsInState
    <2> SUFFICES ASSUME IInv PROVE CommandsInState
      OBVIOUS
    <2>1. /\ rec = "storing" => Storing
          /\ rec = "idle" => Ended
          /\ rec = "sof" => rx_fsm = "rxb_idle"
      BY DEF IInv, Control
    <2> QED BY <2>1 DEF CommandsInState, CoreSof, CoreMetadata, CoreData, CoreValid,
                        Storing, Ended, settled, Settle
  <1>2. IInv /\ [Next]_vars => [CommandsInState]_vars
    BY <1>1
  <1> QED BY <1>2, RxBufferInvariant, PTL DEF Spec, StoringProtocol

-----------------------------------------------------------------------------
(* The buffer implements the FIFO.                                         *)

LEMMA FifoCycle ==
  ASSUME Careful, IInv, NEW cmd \in Command, NEW rd \in BOOLEAN, NEW clr \in BOOLEAN,
         Cycle(cmd, rd, clr)
  PROVE  [Fifo!FifoNext]_(Fifo!fifoVars)
  <1> DEFINE r == read_pointer
             c == read_frame_counter
  <1>1. /\ Core(cmd) /\ ReadPointerStep(rd) /\ WritePointerStep(cmd)
        /\ MemFreeStep(cmd, rd) /\ MessageCountStep(rd) /\ RamStep(cmd, rd)
    BY ZenonT(40) DEF Cycle
  <1>2. Types /\ Control /\ Pointers /\ Content /\ Committed /\ IInv'
    BY CycleInv DEF IInv
  <1>3. /\ buff_size \in Nat /\ frame \in Frame /\ frame.data \in Nat
        /\ Stored \in 0..(4 + frame.data) /\ Used \in 0..buff_size
        /\ Used + Stored \in 0..buff_size
        /\ r \in Addr /\ c \in Addr /\ RAM \in [Addr -> Words] /\ message_count \in Nat
        /\ WholeFrames(r, Used, c, message_count, RAM)
        /\ r' \in Addr /\ Used' \in 0..buff_size
    <2>1. Types' /\ Control' /\ Pointers'
      BY <1>2 DEF IInv
    <2>2. Used' \in 0..buff_size /\ r' \in Addr
      <3>1. rx_mem_free_int' \in 0..buff_size /\ r' \in Addr
        BY <2>1, ZenonT(40) DEF Types
      <3>2. Used' = buff_size - rx_mem_free_int'
        BY DEF Used
      <3>3. buff_size \in Nat
        BY RxBufferAssumption
      <3>4. buff_size - rx_mem_free_int' \in 0..buff_size
        <4> DEFINE v == rx_mem_free_int'
        <4>1. v \in 0..buff_size
          BY <3>1
        <4> HIDE DEF v
        <4>2. buff_size - v \in 0..buff_size
          BY <3>3, <4>1
        <4> QED BY <4>2, ZenonT(40) DEF v
      <3> QED BY <3>1, <3>2, <3>4, ZenonT(40)
    <2> QED BY <1>2, <2>2, Sizes DEF Types, Committed
  <1>4. committed = Segment(r, Used, RAM) /\ committed' = Segment(r', Used', RAM')
    BY ZenonT(40), <1>3, CommittedSegment DEF committed, Used
  <1>5. /\ RAM' \in [Addr -> Words]
        /\ \A k \in Addr : k < Used => RAM'[Plus(r, k)] = RAM[Plus(r, k)]
        /\ commit_rx_frame => RAM' = RAM
    BY <1>1, WriteStep, Exclusive DEF Again
  <1>6. /\ r' = Plus(r, IF read_increment(rd) THEN 1 ELSE 0)
        /\ Used' = (IF commit_rx_frame THEN Used + Stored ELSE Used)
                   - (IF read_increment(rd) THEN 1 ELSE 0)
        /\ read_increment(rd) => Used > 0
    BY <1>1, FreeWord, PointerStep DEF read_increment
  <1>7. Segment(r, Used, RAM') = committed
    BY <1>3, <1>4, <1>5, SegmentSame
  <1>8. ASSUME commit_rx_frame
        PROVE  /\ Stored = 4 + frame.data
               /\ \A k \in 0..(3 + frame.data) :
                    RAM[Plus(r, Used + k)] = Fifo!FrameWord(frame, k)
    <2>1. Sound /\ EndCycle /\ rec = "idle"
      BY <1>2, <1>8, ZenonT(40) DEF Sound, Control, EndCycle
    <2>2. Ended /\ drv_rtsopt \in {"beg", "end"} /\ data_left = 0
      BY <1>2, <2>1, RxBufferAssumption DEF Control, Types
    <2>3. rx_fsm = "rxb_idle"
      BY <2>1, <2>2 DEF EndCycle, Ended
    <2>4. Stored = 4 + frame.data
      BY <1>2, <1>3, <2>1, <2>2, <2>3 DEF Pointers, Stage
    <2>5. ASSUME NEW k \in 0..(3 + frame.data)
          PROVE  RAM[Plus(r, Used + k)] = Fifo!FrameWord(frame, k)
      <3>1. k \in Addr /\ k < Stored /\ k \in Nat /\ Used + k <= buff_size /\ Used + k \in Addr
        <4>1. 4 + frame.data < buff_size
          BY <1>3, FrameData
        <4>2. k \in Nat /\ k < Stored /\ k < buff_size
          BY <1>3, <2>4, <4>1
        <4>3. Used + k < buff_size
          BY <1>3, <4>2
        <4> QED BY <1>3, <4>2, <4>3 DEF Addr
      <3>2. Plus(write_pointer, k) = Plus(r, Used + k)
        <4>1. write_pointer = Plus(r, Used)
          BY <1>2 DEF Pointers
        <4>2. Used \in Nat
          BY <1>3
        <4> QED BY <1>3, <3>1, <4>1, <4>2, PlusPlus
      <3>3. StoredWord(RAM[Plus(r, Used + k)], k)
        BY <1>2, <2>1, <3>1, <3>2 DEF Content
      <3>4. Stamped(k)
        BY <1>8 DEF Stamped
      <3>5. RAM[Plus(r, Used + k)] \in Words
        BY ZenonT(40), <1>3, <3>1, PlusAddr
      <3> QED BY ZenonT(40), <3>3, <3>4, <3>5 DEF StoredWord, Words, Fifo!FrameWord
    <2> QED BY <2>4, <2>5
  <1>9. ASSUME read_increment(rd)
        PROVE  /\ Used \in 1..buff_size /\ committed # <<>>
               /\ Fifo!WordsLeft = Segment(Plus(r, 1), Used - 1, RAM')
               /\ Fifo!FramesLeft = IF c = 1 THEN message_count - 1 ELSE message_count
    <2>1. Used \in 1..buff_size
      BY <1>3, <1>6, <1>9
    <2>2. committed # <<>>
      BY <1>3, <1>4, <2>1, SegmentSeq
    <2>3. Fifo!WordsLeft = Segment(Plus(r, 1), Used - 1, RAM')
      BY <1>3, <1>5, <1>7, <2>1, SegmentTail DEF Fifo!WordsLeft
    <2>4. c = 1 <=> Used = 1 \/ RAM[Plus(r, 1)].pos = 0
      BY <1>3, <2>1, LastWord
    <2>5. Plus(r, 1) \in Addr /\ Used - 1 \in 0..buff_size /\ (Used # 1 => Used - 1 > 0)
      BY <1>3, <2>1, PlusType
    <2>6. Fifo!WordsLeft = <<>> <=> Used = 1
      <3>1. Used - 1 > 0 <=> Segment(Plus(r, 1), Used - 1, RAM') # <<>>
        BY <1>5, <2>5, SegmentSeq
      <3>2. Used = 1 <=> ~(Used - 1 > 0)
        BY <1>3, <2>1
      <3> QED BY <2>3, <3>1, <3>2
    <2>7. Used # 1 => Head(Fifo!WordsLeft) = RAM[Plus(r, 1)]
      <3> SUFFICES ASSUME Used # 1 PROVE Head(Fifo!WordsLeft) = RAM[Plus(r, 1)]
        OBVIOUS
      <3>1. /\ Fifo!WordsLeft \in Seq(Words) /\ Fifo!WordsLeft # <<>>
            /\ Fifo!WordsLeft[1] = RAM'[Plus(Plus(r, 1), 0)]
        BY <1>5, <2>3, <2>5, SegmentSeq
      <3>2. Plus(Plus(r, 1), 0) = Plus(r, 1)
        BY <1>3, <2>5 DEF Plus, Addr
      <3>3. 1 \in Addr /\ 1 < Used
        BY <1>3, <2>1 DEF Addr
      <3>4. RAM'[Plus(r, 1)] = RAM[Plus(r, 1)]
        BY <1>5, <3>3
      <3> QED BY <3>1, <3>2, <3>4
    <2>8. Fifo!FramesLeft = IF c = 1 THEN message_count - 1 ELSE message_count
      BY <2>4, <2>6, <2>7 DEF Fifo!FramesLeft
    <2> QED BY <2>1, <2>2, <2>3, <2>8
  <1>10. CASE ~read_increment(rd) /\ ~commit_rx_frame
    <2>1. r' = r /\ Used' = Used
      BY <1>3, <1>6, <1>10 DEF Plus, Addr
    <2>2. committed' = committed /\ message_count' = message_count
      BY <1>1, <1>4, <1>7, <1>10, <2>1 DEF MessageCountStep
    <2> QED BY <2>2 DEF Fifo!fifoVars
  <1>11. CASE ~read_increment(rd) /\ commit_rx_frame
    <2>1. r' = r /\ Used' = Used + 4 + frame.data
      <3>1. r' = Plus(r, 0) /\ Used' = Used + Stored
        <4> DEFINE x == IF read_increment(rd) THEN 1 ELSE 0
                   y == IF commit_rx_frame THEN Used + Stored ELSE Used
        <4>1. x = 0
          BY <1>11, ZenonT(40)
        <4>2. y = Used + Stored
          BY <1>11, ZenonT(40)
        <4>3. r' = Plus(r, x) /\ Used' = y - x
          BY <1>6, ZenonT(40)
        <4> HIDE DEF x, y
        <4>4. y - x = Used + Stored
          BY <1>3, <4>1, <4>2
        <4> QED BY <4>1, <4>3, <4>4, ZenonT(40)
      <3>2. Stored = 4 + frame.data
        BY <1>8, <1>11
      <3>3. Plus(r, 0) = r
        BY <1>3 DEF Plus, Addr
      <3>4. Used + Stored = Used + 4 + frame.data
        BY <1>3, <3>2
      <3> QED BY <3>1, <3>3, <3>4
    <2>2. Segment(r, Used + 4 + frame.data, RAM) = committed \o Fifo!FrameWords(frame)
      <3>1. Used \in Nat /\ Used + 4 + frame.data <= buff_size
        BY <1>3, <1>8, <1>11
      <3>2. \A k \in 0..(3 + frame.data) : RAM[Plus(r, Used + k)] = Fifo!FrameWord(frame, k)
        BY <1>8, <1>11
      <3> QED BY ZenonT(40), <1>3, <1>4, <3>1, <3>2, SegmentAppend
    <2>3. committed' = committed \o Fifo!FrameWords(frame) /\ message_count' = message_count + 1
      BY <1>1, <1>4, <1>5, <1>11, <2>1, <2>2 DEF MessageCountStep
    <2> QED BY <1>3, <2>3 DEF Fifo!FifoNext, Fifo!CommitFrame
  <1>12. CASE read_increment(rd) /\ ~commit_rx_frame
    <2>1. r' = Plus(r, 1) /\ Used' = Used - 1
      BY <1>6, <1>12, ZenonT(40)
    <2>2. committed' = Fifo!WordsLeft /\ committed # <<>>
      BY <1>4, <1>9, <1>12, <2>1
    <2>3. message_count' = Fifo!FramesLeft
      BY <1>1, <1>9, <1>12 DEF MessageCountStep
    <2> QED BY <2>2, <2>3 DEF Fifo!FifoNext, Fifo!ReadWord
  <1>13. CASE read_increment(rd) /\ commit_rx_frame
    <2>1. r' = Plus(r, 1) /\ Used' = Used - 1 + 4 + frame.data
      BY <1>3, <1>6, <1>8, <1>13
    <2>2. /\ Plus(r, 1) \in Addr /\ Used - 1 \in Nat /\ Used - 1 + 4 + frame.data <= buff_size
          /\ RAM' = RAM
      <3>1. Plus(r, 1) \in Addr
        BY <1>3, <1>9, <1>13, PlusType
      <3>2. Used > 0 /\ RAM' = RAM
        BY ZenonT(40), <1>5, <1>6, <1>13
      <3>3. Used - 1 \in Nat /\ Used - 1 + 4 + frame.data <= buff_size
        BY <1>3, <1>8, <1>13, <3>2
      <3> QED BY <3>1, <3>2, <3>3
    <2>3. \A k \in 0..(3 + frame.data) :
            RAM[Plus(Plus(r, 1), Used - 1 + k)] = Fifo!FrameWord(frame, k)
      <3>1. ASSUME NEW k \in 0..(3 + frame.data)
            PROVE  Plus(Plus(r, 1), Used - 1 + k) = Plus(r, Used + k)
        <4>1. Used + k <= buff_size /\ Used >= 1 /\ k \in Nat
          BY <1>3, <1>8, <1>9, <1>13
        <4> QED BY <1>3, <4>1 DEF Plus, Addr
      <3> QED BY <1>8, <1>13, <3>1
    <2>4. Segment(Plus(r, 1), Used - 1 + 4 + frame.data, RAM)
            = Segment(Plus(r, 1), Used - 1, RAM) \o Fifo!FrameWords(frame)
      BY ZenonT(40), <1>3, <2>2, <2>3, SegmentAppend
    <2>5. committed' = Fifo!WordsLeft \o Fifo!FrameWords(frame) /\ committed # <<>>
      BY <1>4, <1>9, <1>13, <2>1, <2>2, <2>4
    <2>6. message_count' = Fifo!FramesLeft + 1
      BY <1>1, <1>3, <1>9, <1>13 DEF MessageCountStep
    <2> QED BY <1>3, <2>5, <2>6 DEF Fifo!FifoNext, Fifo!ReadAndCommit
  <1> QED BY <1>10, <1>11, <1>12, <1>13

LEMMA EmptyCommitted ==
  ASSUME rx_mem_free_int = buff_size, frame \in Frame PROVE committed = <<>>
  <1>1. buff_size - rx_mem_free_int = 0
    BY RxBufferAssumption
  <1>2. committed = [i \in 1..0 |-> RAM[(read_pointer + i - 1) % buff_size]]
    BY <1>1 DEF committed
  <1> QED BY <1>2

\* Whatever the interleaving of storing, error frames, overrun, reading and
\* release, the committed words are a FIFO of whole frames.
THEOREM RxBufferImplementsFifo == ASSUME Careful PROVE Spec => ImplementsFifo
  <1>1. Init => Fifo!FifoInit
    BY EmptyCommitted DEF Init, Fifo!FifoInit
  <1>2. IInv /\ [Next]_vars => [Fifo!FifoNext]_(Fifo!fifoVars)
    <2> SUFFICES ASSUME IInv, [Next]_vars PROVE [Fifo!FifoNext]_(Fifo!fifoVars)
      OBVIOUS
    <2>1. ASSUME NEW cmd \in Command, NEW rd \in BOOLEAN, NEW clr \in BOOLEAN,
                 Cycle(cmd, rd, clr)
          PROVE  [Fifo!FifoNext]_(Fifo!fifoVars)
      BY <2>1, FifoCycle
    <2>2. ASSUME NEW cmd \in Command, Erase(cmd)
          PROVE  [Fifo!FifoNext]_(Fifo!fifoVars)
      <3>1. rx_mem_free_int' = buff_size /\ message_count' = 0
        BY <2>2 DEF Erase
      <3>2. buff_size - rx_mem_free_int' = 0
        BY <3>1, RxBufferAssumption
      <3>3. committed' = <<>>
        BY <3>2 DEF committed
      <3> QED BY <3>1, <3>3 DEF Fifo!FifoNext, Fifo!Release
    <2>3. CASE UNCHANGED vars
      BY <2>3 DEF vars, pointerVars, Fifo!fifoVars, committed
    <2> QED BY <2>1, <2>2, <2>3 DEF Next
  <1> QED BY <1>1, <1>2, RxBufferInvariant, PTL DEF Spec, ImplementsFifo, Fifo!FifoSpec
=============================================================================
