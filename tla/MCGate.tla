------------------------------- MODULE MCGate -------------------------------
(* The gate with a symmetric set of goroutines.                            *)
EXTENDS Gate, TLC

ProcSymmetry == Permutations(Proc)
=============================================================================
