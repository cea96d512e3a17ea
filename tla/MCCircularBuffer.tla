-------------------------- MODULE MCCircularBuffer --------------------------
(***************************************************************************)
(* CircularBuffer for TLC. Readers are interchangeable: no definition tells *)
(* them apart, so the safety run may identify states that differ by a      *)
(* permutation of them.                                                    *)
(***************************************************************************)
EXTENDS CircularBuffer, TLC

ReaderSymmetry == Permutations(Readers)

=============================================================================
