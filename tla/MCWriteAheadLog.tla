-------------------------- MODULE MCWriteAheadLog --------------------------
(* The log with symmetric committers.                                      *)
EXTENDS WriteAheadLog, TLC

CommitterSymmetry == Permutations(Committer)
=============================================================================
