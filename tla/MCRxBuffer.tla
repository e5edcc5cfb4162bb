----------------------------- MODULE MCRxBuffer -----------------------------
(* The RX buffer for model checking: frame contents are interchangeable.   *)
EXTENDS RxBuffer, TLC

TagSymmetry == Permutations(Tags)
=============================================================================
