--------------------------- MODULE CommitFrontier ---------------------------
(***************************************************************************)
(* What the MVCC clock promises its callers (graph/mvcc, Clock): commits   *)
(* take distinct, increasing timestamps, each reaches one outcome, and the *)
(* instant a reader starts at moves up one timestamp at a time, only over  *)
(* commits that have their outcome.  CommitClock implements it.            *)
(***************************************************************************)
EXTENDS Naturals

CONSTANTS Tx, MaxFloor

VARIABLES
  at,        \* the timestamp of each transaction, 0 before it has one
  outcome,   \* "none" until the transaction is committed or aborted
  allocated, \* the newest timestamp handed out
  frontier   \* the instant a reader that starts now reads at

fvars == <<at, outcome, allocated, frontier>>

Outcomes == {"committed", "aborted"}

Init ==
  /\ at = [t \in Tx |-> 0]
  /\ outcome = [t \in Tx |-> "none"]
  /\ allocated = 0
  /\ frontier = 0

Allocate(t) ==
  /\ at[t] = 0
  /\ allocated' = allocated + 1
  /\ at' = [at EXCEPT ![t] = allocated + 1]
  /\ UNCHANGED <<outcome, frontier>>

Decide(t, o) ==
  /\ at[t] # 0
  /\ outcome[t] = "none"
  /\ outcome' = [outcome EXCEPT ![t] = o]
  /\ UNCHANGED <<at, allocated, frontier>>

Pass(t) ==
  /\ at[t] = frontier + 1
  /\ outcome[t] # "none"
  /\ frontier' = frontier + 1
  /\ UNCHANGED <<at, outcome, allocated>>

\* Recovery, with nothing in flight.
Ratchet(n) ==
  /\ \A t \in Tx : at[t] # 0 => outcome[t] # "none"
  /\ frontier = allocated
  /\ n > allocated
  /\ allocated' = n
  /\ frontier' = n
  /\ UNCHANGED <<at, outcome>>

Next ==
  \/ \E t \in Tx : Allocate(t) \/ Pass(t) \/ \E o \in Outcomes : Decide(t, o)
  \/ \E n \in 1 .. MaxFloor : Ratchet(n)

Spec == Init /\ [][Next]_fvars
=============================================================================
