-------------------------- MODULE PriorityDecoder --------------------------
(***************************************************************************)
(* Combinational priority decoder of the TX arbitrator                     *)
(* (src/src/tx_arbitrator/priority_decoder.vhd).  Eight leaves, one per    *)
(* possible TXT buffer, are compared pairwise in a tree of three levels;   *)
(* leaves at and above buf_count are tied to "not valid, priority 0".      *)
(*                                                                         *)
(* A node of the tree is a record: whether some leaf below it is valid,    *)
(* the priority it hands upwards and the leaf its winner bits lead to.     *)
(***************************************************************************)
EXTENDS Naturals

CONSTANT buf_count        \* number of TXT buffers, a generic of the entity

ASSUME BufCountAssumption == buf_count \in 1 .. 8

Buf == 0 .. buf_count - 1

\* Priorities are three bits wide (txtb_priorities_type).
Prio == 0 .. 7

\* Level 0: the inputs, padded with zeroes above buf_count.
Leaf(prio, prio_valid, i) ==
  IF i \in Buf THEN [valid |-> i \in prio_valid, prio |-> prio[i], index |-> i]
               ELSE [valid |-> FALSE, prio |-> 0, index |-> i]

\* Mutant: an equal priority moves the choice to the upper subtree.
MutCompareTie(lower, upper) ==
  IF lower.valid /\ (upper.valid => upper.prio < lower.prio) THEN lower
                                                            ELSE upper

\* One comparator of level 1 or 2.  The upper subtree wins only with a
\* strictly higher priority; with no valid input it is the default.
Compare(lower, upper) ==
  IF lower.valid /\ (upper.valid => upper.prio <= lower.prio) THEN lower
                                                             ELSE upper

\* The comparator of level 3 has the lower subtree as its default.
CompareLast(lower, upper) ==
  IF upper.valid /\ (lower.valid => upper.prio > lower.prio) THEN upper
                                                            ELSE lower

Level1(prio, prio_valid, i) ==
  Compare(Leaf(prio, prio_valid, 2 * i), Leaf(prio, prio_valid, 2 * i + 1))

Level2(prio, prio_valid, i) ==
  Compare(Level1(prio, prio_valid, 2 * i), Level1(prio, prio_valid, 2 * i + 1))

Level3(prio, prio_valid) ==
  CompareLast(Level2(prio, prio_valid, 0), Level2(prio, prio_valid, 1))

\* The two outputs of the decoder.
OutputValid(prio, prio_valid) == Level3(prio, prio_valid).valid

\* Mutant: the index of a leaf without a buffer reaches the output.
MutOutputIndex(prio, prio_valid) == Level3(prio, prio_valid).index

\* The winner bits form an index modulo buf_count.  The source takes index 1
\* without the modulo: with one buffer its leaf never wins.
OutputIndex(prio, prio_valid) == Level3(prio, prio_valid).index % buf_count

(***************************************************************************)
(* What the decoder has to compute: the valid buffer of highest priority,  *)
(* the one of lowest index among equals.                                   *)
(***************************************************************************)
IsSelection(prio, prio_valid, b) ==
  /\ b \in prio_valid
  /\ \A c \in prio_valid : \/ prio[c] < prio[b]
                           \/ prio[c] = prio[b] /\ b <= c
=============================================================================
