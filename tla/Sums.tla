-------------------------------- MODULE Sums --------------------------------
(* The sum of a sequence of numbers.                                       *)
EXTENDS Naturals, Sequences, SequencesExt

Sum(weights) == FoldLeft(LAMBDA sum, weight : sum + weight, 0, weights)
=============================================================================
