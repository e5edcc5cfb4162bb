----------------------- MODULE PriorityDecoderProofs -----------------------
(***************************************************************************)
(* The priority decoder is correct for every buf_count its entity allows,  *)
(* every assignment of priorities and every set of ready buffers.          *)
(***************************************************************************)
EXTENDS PriorityDecoder, TLAPS

\* The time limits, in seconds, of the leaves that name no prover.
USE SMTT(40), ZenonT(40)

Node == [valid : BOOLEAN, prio : Prio, index : 0 .. 7]

(***************************************************************************)
(* node is the correct summary of the leaves lo .. hi: it is valid exactly *)
(* when one of them is, and then it names the best of them.                *)
(***************************************************************************)
Summary(p, v, lo, hi, node) ==
  /\ node \in Node
  /\ node.valid <=> \E i \in lo .. hi : i \in v
  /\ node.valid =>
       /\ node.index \in lo .. hi
       /\ node.index \in v
       /\ node.prio = p[node.index]
       /\ \A i \in lo .. hi : i \in v =>
            \/ p[i] < p[node.index]
            \/ p[i] = p[node.index] /\ node.index <= i

(***************************************************************************)
(* A leaf summarises itself, whether it is connected to a TXT buffer or    *)
(* tied to zero.                                                           *)
(***************************************************************************)
LEMMA LeafSummary ==
  ASSUME NEW p \in [Buf -> Prio], NEW v \in SUBSET Buf, NEW i \in 0 .. 7
  PROVE  Summary(p, v, i, i, Leaf(p, v, i))
<1>1. CASE i \in Buf
  <2> DEFINE n == [valid |-> i \in v, prio |-> p[i], index |-> i]
  <2>1. n \in Node
    <3>1. (i \in v) \in BOOLEAN /\ p[i] \in Prio
      BY <1>1
    <3> QED BY <3>1 DEF Node
  <2>2. (n.valid <=> i \in v) /\ n.prio = p[i] /\ n.index = i
    BY ZenonT(40)
  <2>3. p[i] \in Nat /\ i .. i = {i}
    BY <1>1 DEF Prio
  <2> HIDE DEF n
  <2>4. Summary(p, v, i, i, n)
    BY <2>1, <2>2, <2>3 DEF Summary
  <2> QED BY <1>1, <2>4 DEF Leaf, n
<1>2. CASE i \notin Buf
  BY <1>2 DEF Summary, Leaf, Node, Prio
<1> QED BY <1>1, <1>2

(***************************************************************************)
(* Either comparator joins the summaries of two adjacent ranges of leaves, *)
(* although the two differ in their default for the case of no valid leaf. *)
(***************************************************************************)
LEMMA CompareSummary ==
  ASSUME NEW p \in [Buf -> Prio], NEW v \in SUBSET Buf,
         NEW lo \in Nat, NEW mid \in Nat, NEW hi \in Nat,
         lo <= mid, mid < hi,
         NEW l, NEW u,
         Summary(p, v, lo, mid, l), Summary(p, v, mid + 1, hi, u)
  PROVE  /\ Summary(p, v, lo, hi, Compare(l, u))
         /\ Summary(p, v, lo, hi, CompareLast(l, u))
<1> USE DEF Summary, Node, Prio
<1>1. lo .. hi = (lo .. mid) \cup (mid + 1 .. hi)
  OBVIOUS
<1>2. /\ l.valid => p[l.index] \in Nat
      /\ u.valid => p[u.index] \in Nat
      /\ \A i \in v : p[i] \in Nat
  BY DEF Buf
<1>3. Summary(p, v, lo, hi, Compare(l, u))
  BY <1>1, <1>2 DEF Compare
<1>4. Summary(p, v, lo, hi, CompareLast(l, u))
  BY <1>1, <1>2 DEF CompareLast
<1> QED BY <1>3, <1>4

(***************************************************************************)
(* The root of the tree summarises all eight leaves.                       *)
(***************************************************************************)
LEMMA RootSummary ==
  ASSUME NEW p \in [Buf -> Prio], NEW v \in SUBSET Buf
  PROVE  Summary(p, v, 0, 7, Level3(p, v))
<1>1. \A i \in 0 .. 3 : Summary(p, v, 2 * i, 2 * i + 1, Level1(p, v, i))
  <2> TAKE i \in 0 .. 3
  <2>1. /\ Summary(p, v, 2 * i, 2 * i, Leaf(p, v, 2 * i))
        /\ Summary(p, v, 2 * i + 1, 2 * i + 1, Leaf(p, v, 2 * i + 1))
    BY LeafSummary
  <2> QED BY <2>1, CompareSummary DEF Level1
<1>2. \A i \in 0 .. 1 : Summary(p, v, 4 * i, 4 * i + 3, Level2(p, v, i))
  <2> TAKE i \in 0 .. 1
  <2>1. /\ Summary(p, v, 4 * i, 4 * i + 1, Level1(p, v, 2 * i))
        /\ Summary(p, v, 4 * i + 2, 4 * i + 3, Level1(p, v, 2 * i + 1))
    <3>1. /\ 2 * (2 * i) = 4 * i
          /\ 2 * (2 * i + 1) = 4 * i + 2
          /\ 2 * i \in 0 .. 3
          /\ 2 * i + 1 \in 0 .. 3
      OBVIOUS
    <3> QED BY <1>1, <3>1
  <2> QED BY <2>1, CompareSummary DEF Level2
<1>3. /\ Summary(p, v, 0, 3, Level2(p, v, 0))
      /\ Summary(p, v, 4, 7, Level2(p, v, 1))
  BY <1>2
<1> QED BY <1>3, CompareSummary DEF Level3

(***************************************************************************)
(* What the decoder promises its users: it reports a buffer exactly when   *)
(* one is ready, and then the right one.                                   *)
(***************************************************************************)
LEMMA DecoderLemma ==
  ASSUME NEW p \in [Buf -> Prio], NEW v \in SUBSET Buf
  PROVE  /\ OutputValid(p, v) <=> v # {}
         /\ v # {} => IsSelection(p, v, OutputIndex(p, v))
         /\ OutputIndex(p, v) \in Buf
<1> DEFINE root == Level3(p, v)
<1>1. Summary(p, v, 0, 7, root)
  BY RootSummary
<1>2. \A i \in v : i \in 0 .. 7
  BY BufCountAssumption DEF Buf
<1>3. root.valid => root.index % buf_count = root.index
  BY <1>1, BufCountAssumption DEF Summary, Node, Buf
<1>4. root.index % buf_count \in Buf
  BY <1>1, BufCountAssumption DEF Summary, Node, Buf
<1> QED BY <1>1, <1>2, <1>3, <1>4
         DEF Summary, OutputValid, OutputIndex, IsSelection
=============================================================================
