--------------------------- MODULE MCCommitClock ---------------------------
(* TLC instances of CommitClock.                                           *)
EXTENDS CommitClock, TLC

TxSymmetry == Permutations(Tx)

\* Two or more of the transactions commit under the durability hooks, the
\* longer protocol, and at most one directly: a bound on the state space.
FewDirect == Cardinality({t \in Tx : kind[t] = "direct"}) <= 1
=============================================================================
