----------------------------- MODULE MCCleanup -----------------------------
(* The cleanup on two files, of which one is touched by others.             *)
EXTENDS Cleanup, TLC

(* Two files are more than is removed without a question, and more than 60  *)
(* percent of the local files.                                              *)
MCSettings == [abs |-> 0, ratio |-> 60, dirs |-> 0, stable |-> 1]

(* The workers are told apart by what they do only.                         *)
Symmetry == Permutations(Workers)
=============================================================================
