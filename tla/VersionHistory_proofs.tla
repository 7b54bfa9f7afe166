------------------------ MODULE VersionHistory_proofs ------------------------
(***************************************************************************)
(* What VersionStore reads is the committed history, for every number of   *)
(* transactions, nodes and labels: labels and existence at every instant a *)
(* snapshot may be at, the own writes of a bracket over its start, and     *)
(* what is stored once every transaction is over.                          *)
(*                                                                         *)
(* The order of the versions is StInv, of VersionStore_proofs.  Here is    *)
(* what they say: a read between two commits of a node finds the value     *)
(* that the later one displaced and the earlier one left; and the versions *)
(* of an open transaction are its journal, up to the effect in hand.       *)
(***************************************************************************)
EXTENDS VersionStore_proofs

----------------------------------------------------------------------------
(* The invariant.                                                          *)

Cells == Label \union {Life}

\* What u committed is seen at s.
Seen(u, s) == rec[u] = "committed" /\ at[u] <= s

\* A read at s undoes the k newest deltas of n.
ReadsTo(n, s, k) ==
  /\ k <= Len(chain[n])
  /\ \A i \in 1 .. k : ~Seen(chain[n][i].tx, s)
  /\ k < Len(chain[n]) => Seen(chain[n][k + 1].tx, s)

\* What it finds is the history at s.
LabelHist ==
  \A n \in Node, s \in Nat, k \in Nat : water <= s /\ ReadsTo(n, s, k) =>
    \A l \in Label : (l \in Undone(n, k)) = History(n, l, s)

\* The effect in hand is in the store and not yet in the journal.
Pushed(t, n, c) ==
  /\ pc[t] \in {"crossLife", "crossDied", "flipDead", "flipBorn"}
  /\ arg[t].n = n /\ arg[t].c = c

\* The effect to undo is out of the journal and still in the store.
Undoes(t, n, c) ==
  /\ undoing[t] /\ pc[t] \in {"inverse", "setLabel", "die", "born"}
  /\ arg[t].n = n /\ arg[t].c = c

\* A cell that t has versioned holds what its journal says, but for these two.
OwnCell(t, n, c, val) ==
  /\ Pushed(t, n, c) => val = arg[t].v /\ Present(t, n, c) = (IF undoing[t] THEN val ELSE ~val)
  /\ Undoes(t, n, c) => val = ~arg[t].v /\ Present(t, n, c) = ~val
  /\ ~Pushed(t, n, c) /\ ~Undoes(t, n, c) => val = Present(t, n, c)

\* Open, and not refused anything.
Healthy(t) == rec[t] = "open" /\ ~doomed[t]

OwnLabels ==
  \A t \in Tx, n \in Node : Healthy(t) /\ InLabels(t, n) =>
    \A l \in Label : OwnCell(t, n, l, l \in bag[n])

\* An effect to undo has its version.
Marked(t, n, c) == IF c = Life THEN InLife(t, n) ELSE InLabels(t, n)

UndoMarked ==
  \A t \in Tx, n \in Node, c \in Cells : Undoes(t, n, c) => Marked(t, n, c)

\* The value of a cell after the first k effects of the journal q, over h.
At(q, k, n, c) == {i \in 1 .. k : q[i].n = n /\ q[i].c = c}
Held(q, k, n, c, h) == IF At(q, k, n, c) = {} THEN h ELSE q[Max(At(q, k, n, c))].v

\* The existence of a torn node is out of step.
Sound(n, c) == c = Life => n \notin torn

\* Every effect in the journal changed its cell.
Toggled(t, i) ==
  LET e == log[t][i]
  IN Sound(e.n, e.c) => Held(log[t], i - 1, e.n, e.c, History(e.n, e.c, implicitStartTS)) = ~e.v

Toggles == \A t \in Tx : Healthy(t) => \A i \in DOMAIN log[t] : Toggled(t, i)

\* Nothing is left of an aborted transaction that has ended.
Gone ==
  \A t \in Tx : pc[t] = "ended" /\ rec[t] = "aborted" =>
    \A n \in Node : ~InLabels(t, n) /\ ~InLife(t, n)

\* A replay is between EnterUndo and ExitUndo.
ReplayOK ==
  \A t \in Tx : /\ pc[t] \in {"idle", "ready"} => ~undoing[t]
                /\ pc[t] = "undo" => undoing[t]

Births(n) == ToSet(born[n])
Deaths(n) == ToSet(died[n])

\* A transaction has one birth and one death of a node; a birth that says the
\* node was alive before it follows a death.
SingleOK(n) ==
  /\ \A r, q \in Births(n) : r.tx = q.tx => r = q
  /\ \A r, q \in Deaths(n) : r.tx = q.tx => r = q
  /\ \A r \in Births(n), q \in Deaths(n) : r.seq # q.seq
  /\ \A r \in Births(n) : r.was => \E q \in Deaths(n) : q.tx = r.tx

LifeSingle == \A n \in Node : SingleOK(n)

\* Whether the records of u say that n was alive before u, and after it.
Before(u, n) == \A b \in Births(n) : b.tx = u => b.was
After(u, n) ==
  \E b \in Births(n) : b.tx = u /\ \A d \in Deaths(n) : d.tx = u => d.seq < b.seq

\* u is the first that s does not see, or the last that it sees.
Between(u, n, s) ==
  /\ ~Seen(u, s)
  /\ \A x \in Tx : x # u /\ InLife(x, n) /\ Precedes(x, u) => Seen(x, s)

LastAt(u, n, s) ==
  /\ Seen(u, s)
  /\ \A x \in Tx : x # u /\ InLife(x, n) /\ Precedes(u, x) => ~Seen(x, s)

\* The records say what the history does.
LifeHist ==
  \A n \in Node, u \in Tx, s \in Nat : n \notin torn /\ InLife(u, n) /\ water <= s =>
    /\ Between(u, n, s) => History(n, Life, s) = Before(u, n)
    /\ LastAt(u, n, s) => History(n, Life, s) = After(u, n)

\* The records of t, and the tombstone, say what its journal does.
OwnLife ==
  \A t \in Tx, n \in Node : Healthy(t) /\ n \notin torn /\ InLife(t, n) =>
    /\ OwnCell(t, n, Life, After(t, n))
    /\ ~Pushed(t, n, Life) => tomb[n] = ~After(t, n)

AllCommitted(n) == \A u \in Tx : InLife(u, n) => rec[u] = "committed"

\* The tombstone, with the flip that is owed.
Buried(n) == IF owed[n] = "none" THEN tomb[n] ELSE owed[n] = "dead"

\* With no open writer the tombstone is the history's.
TombOK ==
  \A n \in Node : n \notin torn =>
    /\ AllCommitted(n) => Buried(n) = ~History(n, Life, implicitStartTS)
    /\ owed[n] # "none" => AllCommitted(n)

\* A flip is owed by the sweeper, once it has withdrawn its claim.
SweepOK ==
  /\ \A n \in Node : owed[n] # "none" =>
       sweeper \in Tx /\ pc[sweeper] = "withdraw" /\ claim[n] # sweeper
  /\ \A t \in Tx : pc[t] = "withdraw" => sweeper = t

\* A birth recorded after the flip is that of a torn node.
LateTorn == \A t \in Tx : pc[t] = "lateBorn" => arg[t].n \in torn

Journals == ReplayOK /\ UndoMarked /\ Toggles /\ Gone
LabelInv == LabelHist /\ OwnLabels
LifeInv == LifeSingle /\ LifeHist /\ OwnLife /\ TombOK /\ SweepOK /\ LateTorn

HInv == Journals /\ LabelInv /\ LifeInv

----------------------------------------------------------------------------
(* Last indices.                                                           *)

\* A bounded set of numbers has a greatest.
LEMMA NatMax ==
  ASSUME NEW k \in Nat, NEW T, T \subseteq 1 .. k, T # {}
  PROVE  Max(T) \in T /\ \A y \in T : y <= Max(T)
  <1> DEFINE U == {k - y : y \in T}
  <1>0. \A y \in T : y \in Nat /\ k - y \in Nat
    OBVIOUS
  <1>1. U \subseteq Nat /\ U # {}
    <2>1. U \subseteq Nat
      BY <1>0
    <2>2. PICK y : y \in T
      OBVIOUS
    <2>3. k - y \in U
      BY <2>2
    <2> QED
      BY <2>1, <2>3
  <1>2. Min(U) \in U /\ \A y \in U : Min(U) <= y
    BY <1>1, NatMin
  <1>3. PICK x \in T : Min(U) = k - x
    BY <1>2
  <1>4. \A y \in T : y <= x
    <2> TAKE y \in T
    <2>1. k - x <= k - y
      BY <1>2, <1>3
    <2> QED
      BY <2>1
  <1>5. \A y \in T : x >= y
    BY <1>4
  <1>6. Max(T) = CHOOSE z \in T : \A y \in T : z >= y
    BY DEF Max
  <1>7. Max(T) \in T /\ \A y \in T : Max(T) >= y
    BY <1>5, <1>6
  <1> QED
    BY <1>7

LEMMA MaxIs ==
  ASSUME NEW k \in Nat, NEW T, T \subseteq 1 .. k, NEW m \in T, \A y \in T : y <= m
  PROVE  Max(T) = m
  <1>1. Max(T) \in T /\ \A y \in T : y <= Max(T)
    BY NatMax
  <1>2. Max(T) \in 1 .. k /\ m \in 1 .. k
    BY <1>1
  <1>3. Max(T) <= m /\ m <= Max(T)
    BY <1>1
  <1> QED
    BY <1>2, <1>3

\* Journals that agree on their first k effects hold the same after them.
Alike(q, q2, k) == \A i \in 1 .. k : q2[i] = q[i]

LEMMA HeldSame ==
  ASSUME NEW q, NEW q2, NEW k \in Nat, NEW n, NEW c, NEW h, Alike(q, q2, k)
  PROVE  Held(q2, k, n, c, h) = Held(q, k, n, c, h)
  <1>1. At(q2, k, n, c) = At(q, k, n, c)
    BY DEF At, Alike
  <1>2. CASE At(q, k, n, c) = {}
    BY <1>1, <1>2 DEF Held
  <1>3. CASE At(q, k, n, c) # {}
    <2>1. At(q, k, n, c) \subseteq 1 .. k
      BY DEF At
    <2>2. Max(At(q, k, n, c)) \in 1 .. k
      BY <1>3, <2>1, NatMax
    <2> QED
      BY <1>1, <1>3, <2>2 DEF Held, Alike
  <1> QED
    BY <1>2, <1>3

\* One more effect replaces the value of its own cell.
LEMMA HeldNext ==
  ASSUME NEW q, NEW q2, NEW k \in Nat, NEW m, m = k + 1, Alike(q, q2, k), NEW n, NEW c, NEW h
  PROVE  /\ q2[m].n = n /\ q2[m].c = c => Held(q2, m, n, c, h) = q2[m].v
         /\ ~(q2[m].n = n /\ q2[m].c = c) => Held(q2, m, n, c, h) = Held(q, k, n, c, h)
  <1>1. CASE q2[m].n = n /\ q2[m].c = c
    <2>1. m \in At(q2, m, n, c) /\ At(q2, m, n, c) \subseteq 1 .. m
      BY <1>1 DEF At
    <2>2. \A y \in At(q2, m, n, c) : y <= m
      BY <2>1
    <2>3. Max(At(q2, m, n, c)) = m
      BY <2>1, <2>2, MaxIs
    <2> QED
      BY <1>1, <2>1, <2>3 DEF Held
  <1>2. CASE ~(q2[m].n = n /\ q2[m].c = c)
    <2>1. At(q2, m, n, c) = At(q2, k, n, c)
      <3>1. \A i : i \in 1 .. m <=> i \in 1 .. k \/ i = m
        OBVIOUS
      <3> QED
        BY <1>2, <3>1 DEF At
    <2>2. Held(q2, m, n, c, h) = Held(q2, k, n, c, h)
      BY <1>2, <2>1 DEF Held
    <2> QED
      BY <1>2, <2>2, HeldSame
  <1> QED
    BY <1>1, <1>2


----------------------------------------------------------------------------
(* The history of a cell.                                                  *)

Wrote(u, n, c, s) == Seen(u, s) /\ Touches(u, n, c)

\* u is the last commit of the cell that s sees.
IsLast(u, n, c, s) ==
  /\ Wrote(u, n, c, s)
  /\ \A v \in Tx : Wrote(v, n, c, s) => v = u \/ at[v] < at[u]

\* What the history is, by who wrote the cell.
HistKnown ==
  \A n \in Node, c \in Cells, s \in Nat :
    /\ History(n, c, s) \in BOOLEAN
    /\ (\A u \in Tx : ~Wrote(u, n, c, s)) => History(n, c, s) = Initially(n, c)
    /\ \A u \in Tx : IsLast(u, n, c, s) => History(n, c, s) = Left(u, n, c)
    /\ (\E u \in Tx : Wrote(u, n, c, s)) => \E u \in Tx : IsLast(u, n, c, s)

\* The effects of a journal, by position.
LEMMA LogType ==
  ASSUME Base, NEW u \in Tx
  PROVE  /\ log[u] \in Seq(Effects) /\ Len(log[u]) \in Nat
         /\ DOMAIN log[u] = 1 .. Len(log[u])
         /\ \A i \in 1 .. Len(log[u]) : log[u][i] \in Effects
  <1>1. log[u] \in Seq(Effects)
    BY DEF Base, TypeOK
  <1> QED
    BY <1>1, LenProperties, ElementOfSeq

LEMMA TouchesAt ==
  ASSUME Base, NEW u \in Tx, NEW n, NEW c
  PROVE  /\ Touches(u, n, c) <=> At(log[u], Len(log[u]), n, c) # {}
         /\ Left(u, n, c) = log[u][Max(At(log[u], Len(log[u]), n, c))].v
         /\ Touches(u, n, c) => Left(u, n, c) \in BOOLEAN
  <1>1. /\ Len(log[u]) \in Nat /\ DOMAIN log[u] = 1 .. Len(log[u])
        /\ \A i \in 1 .. Len(log[u]) : log[u][i] \in Effects
    BY LogType
  <1>2. Touches(u, n, c) <=> At(log[u], Len(log[u]), n, c) # {}
    <2>1. ToSet(log[u]) = {log[u][i] : i \in 1 .. Len(log[u])}
      BY <1>1 DEF ToSet
    <2> QED
      BY <2>1 DEF Touches, At
  <1>3. Left(u, n, c) = log[u][Max(At(log[u], Len(log[u]), n, c))].v
    BY <1>1 DEF Left, At
  <1>4. ASSUME Touches(u, n, c) PROVE Left(u, n, c) \in BOOLEAN
    <2>1. At(log[u], Len(log[u]), n, c) \subseteq 1 .. Len(log[u])
      BY DEF At
    <2>2. Max(At(log[u], Len(log[u]), n, c)) \in 1 .. Len(log[u])
      BY <1>1, <1>2, <1>4, <2>1, NatMax
    <2> QED
      BY <1>1, <1>3, <2>2 DEF Effects
  <1> QED
    BY <1>2, <1>3, <1>4

\* What t finds in a cell is what its whole journal holds.
LEMMA PresentHeld ==
  ASSUME Base, NEW t \in Tx, NEW n, NEW c
  PROVE  Present(t, n, c) =
           Held(log[t], Len(log[t]), n, c, History(n, c, implicitStartTS))
  <1>1. CASE Touches(t, n, c)
    BY <1>1, TouchesAt DEF Present, Held
  <1>2. CASE ~Touches(t, n, c)
    BY <1>2, TouchesAt DEF Present, Held
  <1> QED
    BY <1>1, <1>2

\* Who touches a cell journals the labels, or the existence, of its node.
LEMMA TouchMarks ==
  ASSUME Base, NEW u \in Tx, NEW n, NEW c \in Cells, Touches(u, n, c)
  PROVE  /\ c # Life => Labels(u, n) /\ LabelMark(u, n)
         /\ c = Life => Lives(u, n) /\ LifeMark(u, n)
         /\ rec[u] # "none"
  <1>1. PICK e \in ToSet(log[u]) : e.n = n /\ e.c = c
    BY DEF Touches
  <1>2. e \in Effects
    BY LogType, <1>1 DEF ToSet
  <1>3. e.v \in BOOLEAN
    BY <1>2 DEF Effects
  <1>4. c # Life => Labels(u, n)
    BY <1>1, <1>3 DEF Labels, Writes
  <1>5. c = Life => Lives(u, n)
    BY <1>1, <1>3 DEF Lives, Writes
  <1>6. log[u] # <<>>
    BY <1>1, LogType DEF ToSet
  <1>7. rec[u] # "none"
    BY <1>6 DEF Base, PlaceOK
  <1> QED
    BY <1>4, <1>5, <1>7 DEF LabelMark, LifeMark

\* Of two that touch a cell, neither aborted, one has seen the other.
LEMMA TouchOrdered ==
  ASSUME StInv, NEW n \in Node, NEW c \in Cells, NEW u \in Tx, NEW v \in Tx, u # v,
         rec[u] # "aborted", rec[v] # "aborted", Touches(u, n, c), Touches(v, n, c)
  PROVE  Ordered(u, v)
  <1>1. (Labels(u, n) /\ Labels(v, n)) \/ (Lives(u, n) /\ Lives(v, n))
    BY TouchMarks DEF StInv
  <1> QED
    BY <1>1 DEF StInv, Journalled, JournalOK

\* Those that have committed did so at different instants.
LEMMA TouchStrict ==
  ASSUME StInv, NEW n \in Node, NEW c \in Cells, NEW u \in Tx, NEW v \in Tx, u # v,
         rec[u] = "committed", rec[v] = "committed", Touches(u, n, c), Touches(v, n, c)
  PROVE  at[u] < at[v] \/ at[v] < at[u]
  <1>1. Ordered(u, v)
    BY TouchOrdered
  <1>2. at[u] # 0 /\ at[v] # 0
    BY Numbers DEF StInv
  <1> QED
    BY <1>1, <1>2 DEF Ordered, Precedes

LEMMA HistoryKnown == StInv => HistKnown
  <1> SUFFICES ASSUME StInv, NEW n \in Node, NEW c \in Cells, NEW s \in Nat
               PROVE  /\ History(n, c, s) \in BOOLEAN
                      /\ (\A u \in Tx : ~Wrote(u, n, c, s)) => History(n, c, s) = Initially(n, c)
                      /\ \A u \in Tx : IsLast(u, n, c, s) => History(n, c, s) = Left(u, n, c)
                      /\ (\E u \in Tx : Wrote(u, n, c, s)) => \E u \in Tx : IsLast(u, n, c, s)
    BY DEF HistKnown
  <1> DEFINE W == {u \in Tx : rec[u] = "committed" /\ at[u] <= s /\ Touches(u, n, c)}
             best == CHOOSE u \in W : \A v \in W : at[v] <= at[u]
  <1>0. Base
    BY DEF StInv
  <1>1. History(n, c, s) = IF W = {} THEN Initially(n, c) ELSE Left(best, n, c)
    BY DEF History
  <1>2. \A u \in Tx : u \in W <=> Wrote(u, n, c, s)
    BY DEF Wrote, Seen
  <1>3. W \subseteq Tx /\ \A u \in W : Touches(u, n, c) /\ at[u] \in Nat
    BY <1>0, Numbers
  <1>4. \A u, v \in W : u = v \/ at[u] < at[v] \/ at[v] < at[u]
    BY TouchStrict
  <1>5. ASSUME W # {} PROVE \E u \in W : \A v \in W : at[v] <= at[u]
    <2> DEFINE T == {at[u] : u \in W}
    <2>1. \A u \in W : at[u] \in 1 .. implicitStartTS
      <3> TAKE u \in W
      <3>1. at[u] \in Nat /\ at[u] < implicitStartTS /\ at[u] # 0
        BY <1>0, Numbers
      <3> QED
        BY <3>1, StartTS
    <2>2. T \subseteq 1 .. implicitStartTS /\ T # {}
      BY <1>5, <2>1
    <2>3. Max(T) \in T /\ \A y \in T : y <= Max(T)
      BY <2>2, StartTS, NatMax
    <2>4. PICK u \in W : at[u] = Max(T)
      BY <2>3
    <2>5. \A v \in W : at[v] \in T
      OBVIOUS
    <2> QED
      BY <2>3, <2>4, <2>5
  <1> HIDE DEF W
  <1>6. W # {} => best \in W /\ \A v \in W : at[v] <= at[best]
    BY <1>5
  <1> HIDE DEF best
  <1>7. W # {} => IsLast(best, n, c, s)
    BY <1>2, <1>3, <1>4, <1>6 DEF IsLast
  <1>8. \A u \in Tx : IsLast(u, n, c, s) => W # {} /\ u = best
    BY <1>2, <1>3, <1>6, <1>7 DEF IsLast
  <1>9. Initially(n, c) \in BOOLEAN
    <2>1. (n \notin Dead) \in BOOLEAN /\ (<<n, c>> \in Labelled) \in BOOLEAN
      OBVIOUS
    <2>2. Initially(n, c) = (n \notin Dead) \/ Initially(n, c) = (<<n, c>> \in Labelled)
      BY DEF Initially
    <2> QED
      BY <2>1, <2>2
  <1>10. W # {} => Left(best, n, c) \in BOOLEAN
    BY <1>0, <1>3, <1>6, TouchesAt
  <1>11. History(n, c, s) \in BOOLEAN
    BY <1>1, <1>9, <1>10
  <1>12. (\A u \in Tx : ~Wrote(u, n, c, s)) => W = {}
    BY <1>2, <1>3
  <1>13. (\E u \in Tx : Wrote(u, n, c, s)) => W # {}
    BY <1>2
  <1>14. best \in W => best \in Tx
    BY <1>3
  <1> QED
    BY <1>1, <1>6, <1>7, <1>8, <1>11, <1>12, <1>13, <1>14

LEMMA HistoryKnownNext == StInv' => HistKnown'
  BY HistoryKnown, PTL

\* The same commits of a cell make the same history.
LEMMA HistorySame ==
  ASSUME HistKnown, HistKnown', NEW n \in Node, NEW c \in Cells, NEW s \in Nat,
         \A u \in Tx : Wrote(u, n, c, s)' <=> Wrote(u, n, c, s),
         \A u \in Tx : Wrote(u, n, c, s) => at'[u] = at[u] /\ log'[u] = log[u]
  PROVE  History(n, c, s)' = History(n, c, s)
  <1>1. CASE \A u \in Tx : ~Wrote(u, n, c, s)
    <2>1. History(n, c, s) = Initially(n, c)
      BY <1>1 DEF HistKnown
    <2>2. History(n, c, s)' = Initially(n, c)'
      BY <1>1 DEF HistKnown
    <2>3. Initially(n, c)' = Initially(n, c)
      BY DEF Initially
    <2> QED
      BY <2>1, <2>2, <2>3
  <1>2. CASE \E u \in Tx : Wrote(u, n, c, s)
    <2>1. PICK u \in Tx : IsLast(u, n, c, s)
      BY <1>2 DEF HistKnown
    <2>2. IsLast(u, n, c, s)'
      BY <2>1 DEF IsLast
    <2>3. History(n, c, s) = Left(u, n, c) /\ History(n, c, s)' = Left(u, n, c)'
      BY <2>1, <2>2 DEF HistKnown
    <2>4. Left(u, n, c)' = Left(u, n, c)
      BY <2>1 DEF IsLast, Left
    <2> QED
      BY <2>3, <2>4
  <1> QED
    BY <1>1, <1>2

\* Nor does it change between two instants with no commit of the cell between.
LEMMA HistoryUp ==
  ASSUME NEW n, NEW c, NEW s, NEW r,
         \A u \in Tx : Wrote(u, n, c, s) <=> Wrote(u, n, c, r)
  PROVE  History(n, c, s) = History(n, c, r)
  <1> DEFINE W(z) == {u \in Tx : rec[u] = "committed" /\ at[u] <= z /\ Touches(u, n, c)}
             best(X) == CHOOSE u \in X : \A v \in X : at[v] <= at[u]
             value(X) == IF X = {} THEN Initially(n, c) ELSE Left(best(X), n, c)
  <1>1. W(s) = W(r)
    BY DEF Wrote, Seen
  <1>2. \A z : History(n, c, z) = value(W(z))
    BY DEF History
  <1> HIDE DEF W, value
  <1> QED
    BY <1>1, <1>2

----------------------------------------------------------------------------
(* The writers of a cell.                                                  *)

\* Who touches a cell has its version, unless that was reclaimed.
LEMMA TouchMarked ==
  ASSUME StInv, NEW u \in Tx, rec[u] # "aborted", NEW n \in Node, NEW c \in Cells,
         Touches(u, n, c)
  PROVE  Marked(u, n, c) \/ Settled(u)
  <1>1. CASE c = Life
    <2>1. LifeMark(u, n)
      BY <1>1, TouchMarks DEF StInv
    <2> QED
      BY <1>1, <2>1 DEF StInv, Kept, KeptOK, Marked
  <1>2. CASE c # Life
    <2>1. LabelMark(u, n)
      BY <1>2, TouchMarks DEF StInv
    <2> QED
      BY <1>2, <2>1 DEF StInv, Kept, KeptOK, Marked
  <1> QED
    BY <1>1, <1>2

\* Who has a version has a record.
LEMMA MarkedRecord ==
  ASSUME StInv, NEW u \in Tx, NEW n \in Node, NEW c, Marked(u, n, c)
  PROVE  rec[u] # "none"
  <1>1. CASE c = Life
    BY <1>1 DEF StInv, Order, LifeOK, Marked, InLife
  <1>2. CASE c # Life
    BY <1>2 DEF StInv, Order, ChainOK, Marked, InLabels
  <1> QED
    BY <1>1, <1>2

\* Whoever else has a version of the cell's node is below who has not
\* committed.
LEMMA UnderOpen ==
  ASSUME StInv, NEW t \in Tx, rec[t] # "committed", NEW n \in Node, NEW c,
         Marked(t, n, c), NEW x \in Tx, x # t, Marked(x, n, c)
  PROVE  Precedes(x, t)
  <1>1. CASE c = Life
    <2>1. PICK r \in Records(n), q \in Records(n) : r.tx = t /\ q.tx = x
      BY <1>1 DEF Marked, InLife
    <2>2. Precedes(r.tx, q.tx) \/ Precedes(q.tx, r.tx)
      BY <2>1 DEF StInv, Order, LifeOK
    <2> QED
      BY <2>1, <2>2 DEF Precedes
  <1>2. CASE c # Life
    <2>1. PICK i \in DOMAIN chain[n], j \in DOMAIN chain[n] :
            chain[n][i].tx = t /\ chain[n][j].tx = x
      BY <1>2 DEF Marked, InLabels
    <2>2. i < j \/ j < i
      <3>1. DOMAIN chain[n] = 1 .. Len(chain[n]) /\ Len(chain[n]) \in Nat
        BY ChainType DEF StInv
      <3> QED
        BY <2>1, <3>1
    <2>3. Precedes(chain[n][i].tx, chain[n][j].tx) \/ Precedes(chain[n][j].tx, chain[n][i].tx)
      BY <2>1, <2>2 DEF StInv, Order, ChainOK, Sorted
    <2> QED
      BY <2>1, <2>3 DEF Precedes
  <1> QED
    BY <1>1, <1>2

\* What precedes is committed, at its instant.
LEMMA PrecedesSeen ==
  ASSUME Base, NEW x \in Tx, NEW t \in Tx, Precedes(x, t)
  PROVE  /\ rec[x] = "committed" /\ at[x] \in Nat /\ at[x] # 0
         /\ Seen(x, implicitStartTS) /\ Seen(x, start[t])
         /\ at[t] # 0 => at[x] < at[t]
  <1>1. at[x] \in Nat /\ at[x] < implicitStartTS /\ at[t] \in Nat /\ start[t] \in Nat
    BY Numbers
  <1> QED
    BY <1>1, StartTS, Numbers DEF Precedes, Seen

\* Two instants that see the same versions of a cell have the same history.
LEMMA HistoryTop ==
  ASSUME StInv, NEW n \in Node, NEW c \in Cells, NEW s \in Nat, NEW r \in Nat,
         water <= s, water <= r,
         \A x \in Tx : Marked(x, n, c) /\ rec[x] = "committed" => (Seen(x, s) <=> Seen(x, r))
  PROVE  History(n, c, s) = History(n, c, r)
  <1>0. water \in Nat /\ \A u \in Tx : at[u] \in Nat
    BY Numbers DEF StInv
  <1>1. ASSUME NEW u \in Tx PROVE Wrote(u, n, c, s) <=> Wrote(u, n, c, r)
    <2>1. CASE rec[u] = "committed" /\ Touches(u, n, c)
      <3>1. Marked(u, n, c) \/ Settled(u)
        BY <2>1, TouchMarked
      <3>2. Settled(u) => Seen(u, s) /\ Seen(u, r)
        BY <1>0 DEF Settled, Seen
      <3> QED
        BY <2>1, <3>1, <3>2 DEF Wrote
    <2>2. CASE ~(rec[u] = "committed" /\ Touches(u, n, c))
      BY <2>2 DEF Wrote, Seen
    <2> QED
      BY <2>1, <2>2
  <1> QED
    BY <1>1, HistoryUp

\* An instant at which every committed version of a cell is seen has the last
\* of the history.
LEMMA HistoryNow ==
  ASSUME StInv, NEW n \in Node, NEW c \in Cells, NEW s \in Nat, water <= s,
         \A x \in Tx : Marked(x, n, c) /\ rec[x] = "committed" => Seen(x, s)
  PROVE  History(n, c, s) = History(n, c, implicitStartTS)
  <1>1. implicitStartTS \in Nat /\ water <= implicitStartTS
    <2>1. water \in Nat /\ water <= Cardinality(Tx)
      <3>1. water \in Nat /\ frontier \in Nat /\ frontier <= Cardinality(Tx) /\ allocated \in Nat
        BY Numbers, StartTS DEF StInv
      <3>2. water <= frontier
        BY DEF StInv, Base, WaterOK
      <3> QED
        BY <3>1, <3>2, StartTS
    <2> QED
      BY <2>1, StartTS DEF implicitStartTS
  <1>2. \A x \in Tx : rec[x] = "committed" => Seen(x, implicitStartTS)
    <2> SUFFICES ASSUME NEW x \in Tx, rec[x] = "committed" PROVE at[x] <= implicitStartTS
      BY DEF Seen
    <2>1. at[x] \in Nat /\ at[x] < implicitStartTS
      BY Numbers DEF StInv
    <2> QED
      BY <2>1, StartTS
  <1>3. \A x \in Tx : Marked(x, n, c) /\ rec[x] = "committed" =>
          (Seen(x, s) <=> Seen(x, implicitStartTS))
    BY <1>2
  <1> QED
    BY <1>1, <1>3, HistoryTop

\* A cell that t has a version of, once t has committed: what t finds in it.
LEMMA CommitHistory ==
  ASSUME StInv, StInv', NEW t \in Tx, rec[t] = "open", at[t] # 0,
         rec' = [rec EXCEPT ![t] = "committed"], at' = at, log' = log, water' = water,
         NEW n \in Node, NEW c \in Cells, Marked(t, n, c),
         NEW s \in Nat, water <= s, at[t] <= s
  PROVE  History(n, c, s)' = Present(t, n, c)
  <1>0. Base /\ HistKnown /\ HistKnown'
    BY HistoryKnown, HistoryKnownNext DEF StInv
  <1>1. /\ at[t] \in Nat /\ rec'[t] = "committed"
        /\ \A x \in Tx : x # t => rec'[x] = rec[x]
    BY <1>0, Numbers DEF Base, TypeOK
  <1>2. \A x \in Tx : x # t => (Wrote(x, n, c, s)' <=> Wrote(x, n, c, s))
    BY <1>1 DEF Wrote, Seen, Touches
  <1>3. CASE Touches(t, n, c)
    <2>1. Wrote(t, n, c, s)'
      BY <1>1, <1>3 DEF Wrote, Seen, Touches
    <2>2. ASSUME NEW v \in Tx, v # t, Wrote(v, n, c, s) PROVE at[v] < at[t]
      <3>1. rec[v] = "committed" /\ Touches(v, n, c)
        BY <2>2 DEF Wrote, Seen
      <3>2. Ordered(v, t)
        BY <1>3, <2>2, <3>1, TouchOrdered
      <3>3. Precedes(v, t)
        BY <3>2 DEF Ordered, Precedes
      <3> QED
        BY <3>3 DEF Precedes
    <2>3. IsLast(t, n, c, s)'
      BY <1>2, <2>1, <2>2 DEF IsLast
    <2>4. History(n, c, s)' = Left(t, n, c)'
      BY <1>0, <2>3 DEF HistKnown
    <2> QED
      BY <1>3, <2>4 DEF Present, Left
  <1>4. CASE ~Touches(t, n, c)
    <2>1. ~Wrote(t, n, c, s) /\ ~Wrote(t, n, c, s)'
      BY <1>4 DEF Wrote, Touches
    <2>2. \A x \in Tx : Wrote(x, n, c, s)' <=> Wrote(x, n, c, s)
      BY <1>2, <2>1
    <2>3. History(n, c, s)' = History(n, c, s)
      BY <1>0, <2>2, HistorySame
    <2>4. ASSUME NEW x \in Tx, Marked(x, n, c), rec[x] = "committed" PROVE Seen(x, s)
      <3>1. x # t
        BY <2>4
      <3>2. Precedes(x, t)
        BY <2>4, <3>1, UnderOpen
      <3>3. at[x] \in Nat /\ at[x] < at[t]
        BY <1>0, <3>2, PrecedesSeen
      <3> QED
        BY <1>1, <2>4, <3>3 DEF Seen
    <2>5. History(n, c, s) = History(n, c, implicitStartTS)
      BY <2>4, HistoryNow
    <2> QED
      BY <1>4, <2>3, <2>5 DEF Present
  <1> QED
    BY <1>3, <1>4

----------------------------------------------------------------------------
(* Undoing label deltas.                                                   *)

OfLabel(q, k, l) == {i \in 1 .. k : q[i].l = l}

\* Whether l is there before the k newest deltas of q, and h after them.
Reverted(q, k, l, h) ==
  IF OfLabel(q, k, l) = {} THEN h ELSE q[Max(OfLabel(q, k, l))].was

LEMMA UndoneIs ==
  ASSUME NEW n, NEW k, NEW l \in Label
  PROVE  (l \in Undone(n, k)) <=> Reverted(chain[n], k, l, l \in bag[n])
  BY DEF Undone, Reverted, OfLabel

\* q2 begins with the j records of q that follow the first p.
Shifted(q, q2, p, j) == \A i \in 1 .. j : q2[i] = q[p + i]

\* Undoing p + j deltas is undoing p and then the j below them.
LEMMA RevertedShift ==
  ASSUME NEW q, NEW q2, NEW p \in Nat, NEW j \in Nat, NEW l, NEW h,
         Shifted(q, q2, p, j)
  PROVE  Reverted(q, p + j, l, h) = Reverted(q2, j, l, Reverted(q, p, l, h))
  <1> DEFINE A == OfLabel(q, p + j, l)
             B == OfLabel(q2, j, l)
  <1>0. \A i \in 1 .. j : q2[i] = q[p + i]
    BY DEF Shifted
  <1>1. \A i \in 1 .. j : i \in B <=> p + i \in A
    BY <1>0 DEF OfLabel
  <1>2. \A i \in 1 .. p + j : i \in 1 .. p \/ (i - p \in 1 .. j /\ i = p + (i - p))
    OBVIOUS
  <1>3. CASE B = {}
    <2>1. \A i \in 1 .. p + j : i \in A <=> i \in OfLabel(q, p, l)
      BY <1>1, <1>2, <1>3 DEF OfLabel
    <2>2. A = OfLabel(q, p, l)
      <3>1. A \subseteq 1 .. p + j /\ OfLabel(q, p, l) \subseteq 1 .. p + j
        BY DEF OfLabel
      <3> QED
        BY <2>1, <3>1
    <2> QED
      BY <1>3, <2>2 DEF Reverted
  <1>4. CASE B # {}
    <2>1. B \subseteq 1 .. j /\ A \subseteq 1 .. p + j
      BY DEF OfLabel
    <2>2. Max(B) \in B /\ \A y \in B : y <= Max(B)
      BY <1>4, <2>1, NatMax
    <2>3. PICK m \in 1 .. j : m = Max(B)
      BY <2>1, <2>2
    <2>4. p + m \in A
      BY <1>1, <2>2, <2>3
    <2>5. ASSUME NEW y \in A PROVE y <= p + m
      <3>1. y \in 1 .. p + j
        BY <2>1
      <3>2. CASE y \in 1 .. p
        BY <3>2
      <3>3. CASE y - p \in 1 .. j /\ y = p + (y - p)
        <4>1. y - p \in B
          BY <1>1, <3>3
        <4>2. y - p <= m
          BY <2>2, <2>3, <4>1
        <4> QED
          BY <3>1, <4>2
      <3> QED
        BY <1>2, <3>1, <3>2, <3>3
    <2>6. Max(A) = p + m
      BY <2>1, <2>4, <2>5, MaxIs
    <2>7. A # {}
      BY <2>4
    <2> QED
      BY <1>0, <1>4, <2>3, <2>6, <2>7 DEF Reverted
  <1> QED
    BY <1>3, <1>4

----------------------------------------------------------------------------
(* Steps, as the labels of a node see them.                                *)

\* Nothing is committed, and what was stays.
NoCommit ==
  \A u \in Tx :
    /\ rec'[u] = "committed" <=> rec[u] = "committed"
    /\ rec[u] = "committed" => at'[u] = at[u] /\ log'[u] = log[u]

HistFixed == \A n \in Node, c \in Cells, s \in Nat : History(n, c, s)' = History(n, c, s)

LEMMA NoCommitFixed ==
  ASSUME StInv, StInv', NoCommit
  PROVE  HistFixed /\ \A u \in Tx : \A s : Seen(u, s)' <=> Seen(u, s)
  <1>1. \A u \in Tx : \A s : Seen(u, s)' <=> Seen(u, s)
    BY DEF NoCommit, Seen
  <1>2. ASSUME NEW n \in Node, NEW c \in Cells, NEW s \in Nat
        PROVE  History(n, c, s)' = History(n, c, s)
    <2>1. HistKnown /\ HistKnown'
      BY HistoryKnown, HistoryKnownNext
    <2>2. \A u \in Tx : Wrote(u, n, c, s)' <=> Wrote(u, n, c, s)
      BY <1>1 DEF NoCommit, Wrote, Touches, Seen
    <2>3. \A u \in Tx : Wrote(u, n, c, s) => at'[u] = at[u] /\ log'[u] = log[u]
      BY DEF NoCommit, Wrote, Seen
    <2> QED
      BY <2>1, <2>2, <2>3, HistorySame
  <1> QED
    BY <1>1, <1>2 DEF HistFixed

LabelsSame(n) == chain'[n] = chain[n] /\ bag'[n] = bag[n]

\* t puts a delta on top, and the change in the bag.
LabelGrows(t, n) ==
  \E x \in LabelDelta :
    /\ x.tx = t /\ x.was = (x.l \in bag[n])
    /\ chain'[n] = <<x>> \o chain[n]
    /\ bag'[n] = WithLabel(bag[n], x.l, ~x.was)

\* Aborted deltas are undone, and old ones dropped.
LabelTrim(n) ==
  \E p \in Nat :
    /\ p + Len(chain'[n]) <= Len(chain[n])
    /\ \A i \in 1 .. Len(chain'[n]) : chain'[n][i] = chain[n][p + i]
    /\ \A i \in 1 .. p : rec[chain[n][i].tx] = "aborted"
    /\ bag'[n] = Undone(n, p)
    /\ p + Len(chain'[n]) < Len(chain[n]) =>
         Seen(chain[n][p + Len(chain'[n]) + 1].tx, water')

LEMMA UndoneNone ==
  ASSUME Base, NEW n \in Node
  PROVE  Undone(n, 0) = bag[n]
  <1>1. bag[n] \subseteq Label
    BY StoreSeqs
  <1>2. {i \in 1 .. 0 : chain[n][i].l = chain[n][i].l} = {}
    OBVIOUS
  <1>3. \A l \in Label : {i \in 1 .. 0 : chain[n][i].l = l} = {}
    OBVIOUS
  <1>4. \A l \in Label : l \in Undone(n, 0) <=> l \in bag[n]
    BY <1>3 DEF Undone
  <1>5. Undone(n, 0) \subseteq Label
    BY UndoneType
  <1> QED
    BY <1>1, <1>4, <1>5

\* The labels that a read undoes to, at node n.
HistAt(n, s, k) ==
  water <= s /\ ReadsTo(n, s, k) => \A l \in Label : (l \in Undone(n, k)) = History(n, l, s)

LEMMA HistAtAll == LabelHist <=> \A n \in Node, s \in Nat, k \in Nat : HistAt(n, s, k)
  BY DEF LabelHist, HistAt

LEMMA HistAtAllNext == LabelHist' <=> (\A n \in Node, s \in Nat, k \in Nat : HistAt(n, s, k))'
  BY HistAtAll, PTL

LEMMA SameHist ==
  ASSUME StInv, StInv', NoCommit, water <= water', NEW n \in Node, LabelsSame(n),
         NEW s \in Nat, NEW k \in Nat, HistAt(n, s, k)
  PROVE  HistAt(n, s, k)'
  <1> SUFFICES ASSUME water' <= s, ReadsTo(n, s, k)', NEW l \in Label
               PROVE  (l \in Undone(n, k))' = History(n, l, s)'
    BY DEF HistAt
  <1>0. HistFixed /\ \A u \in Tx : \A r : Seen(u, r)' <=> Seen(u, r)
    BY NoCommitFixed
  <1>1. water <= s
    <2>1. water \in Nat /\ water' \in Nat
      BY Numbers, WaterNext DEF StInv
    <2> QED
      BY <2>1
  <1>2. Listed(chain[n]) /\ DOMAIN chain[n] = 1 .. Len(chain[n]) /\ Len(chain[n]) \in Nat
    BY ChainType DEF StInv
  <1>3. ReadsTo(n, s, k)
    <2>1. k <= Len(chain[n])
      BY DEF ReadsTo, LabelsSame
    <2>2. \A i \in 1 .. k : ~Seen(chain[n][i].tx, s)
      BY <1>0, <1>2, <2>1 DEF ReadsTo, LabelsSame, Listed
    <2>3. k < Len(chain[n]) => Seen(chain[n][k + 1].tx, s)
      BY <1>0, <1>2 DEF ReadsTo, LabelsSame, Listed
    <2> QED
      BY <2>1, <2>2, <2>3 DEF ReadsTo
  <1>4. (l \in Undone(n, k))' <=> l \in Undone(n, k)
    BY DEF Undone, LabelsSame
  <1>5. (l \in Undone(n, k)) = History(n, l, s)
    BY <1>1, <1>3 DEF HistAt
  <1>6. History(n, l, s)' = History(n, l, s)
    BY <1>0 DEF HistFixed, Cells
  <1> QED
    BY <1>4, <1>5, <1>6

LEMMA GrowsHist ==
  ASSUME StInv, StInv', NoCommit, water <= water', NEW n \in Node,
         NEW t \in Tx, rec[t] # "committed", LabelGrows(t, n),
         \A s \in Nat, k \in Nat : HistAt(n, s, k), NEW s \in Nat, NEW k \in Nat
  PROVE  HistAt(n, s, k)'
  <1> SUFFICES ASSUME water' <= s, ReadsTo(n, s, k)', NEW l \in Label
               PROVE  (l \in Undone(n, k))' = History(n, l, s)'
    BY DEF HistAt
  <1>0. HistFixed /\ \A u \in Tx : \A r : Seen(u, r)' <=> Seen(u, r)
    BY NoCommitFixed
  <1>1. water <= s
    <2>1. water \in Nat /\ water' \in Nat
      BY Numbers, WaterNext DEF StInv
    <2> QED
      BY <2>1
  <1>2. /\ Listed(chain[n]) /\ DOMAIN chain[n] = 1 .. Len(chain[n]) /\ Len(chain[n]) \in Nat
        /\ chain[n] \in Seq(LabelDelta)
    BY ChainType DEF StInv, LabelDelta
  <1>3. PICK x \in LabelDelta :
          /\ x.tx = t /\ x.was = (x.l \in bag[n])
          /\ chain'[n] = <<x>> \o chain[n]
          /\ bag'[n] = WithLabel(bag[n], x.l, ~x.was)
    BY DEF LabelGrows
  <1>4. /\ Len(chain'[n]) = Len(chain[n]) + 1
        /\ chain'[n][1] = x
        /\ \A i \in 1 .. Len(chain[n]) : chain'[n][i + 1] = chain[n][i]
    BY <1>2, <1>3, PushFacts
  <1>5. k # 0
    <2> SUFFICES ASSUME k = 0 PROVE FALSE
      OBVIOUS
    <2>1. Seen(t, s)'
      BY <1>2, <1>3, <1>4 DEF ReadsTo
    <2> QED
      BY <1>0, <2>1 DEF Seen
  <1> DEFINE j == k - 1
  <1>6. j \in Nat /\ k = 1 + j /\ k = j + 1
    BY <1>5
  <1>7. ReadsTo(n, s, j)
    <2>1. j <= Len(chain[n])
      BY <1>2, <1>4, <1>6 DEF ReadsTo
    <2>2. ASSUME NEW i \in 1 .. j PROVE ~Seen(chain[n][i].tx, s)
      <3>1. i \in 1 .. Len(chain[n]) /\ i + 1 \in 1 .. k
        BY <1>2, <1>6, <2>1
      <3>2. ~Seen(chain[n][i + 1].tx, s)'
        BY <3>1 DEF ReadsTo
      <3> QED
        BY <1>0, <1>2, <1>4, <3>1, <3>2 DEF Listed
    <2>3. ASSUME j < Len(chain[n]) PROVE Seen(chain[n][j + 1].tx, s)
      <3>1. j + 1 \in 1 .. Len(chain[n]) /\ k < Len(chain'[n]) /\ k + 1 = (j + 1) + 1
        BY <1>2, <1>4, <1>6, <2>3
      <3>2. Seen(chain[n][(j + 1) + 1].tx, s)'
        BY <3>1 DEF ReadsTo
      <3> QED
        BY <1>0, <1>2, <1>4, <3>1, <3>2 DEF Listed
    <2> HIDE DEF j
    <2> QED
      BY <2>1, <2>2, <2>3 DEF ReadsTo
  <1>8. (l \in Undone(n, j)) = History(n, l, s)
    BY <1>1, <1>6, <1>7 DEF HistAt
  <1>9. Reverted(chain'[n], 1, l, l \in bag'[n]) <=> l \in bag[n]
    <2>1. CASE x.l = l
      <3>1. OfLabel(chain'[n], 1, l) = {1}
        BY <1>4, <2>1 DEF OfLabel
      <3>2. {1} \subseteq 1 .. 1 /\ 1 \in {1} /\ \A y \in {1} : y <= 1
        OBVIOUS
      <3>3. Max({1}) = 1
        BY <3>2, MaxIs
      <3> QED
        BY <1>3, <1>4, <2>1, <3>1, <3>3 DEF Reverted
    <2>2. CASE x.l # l
      <3>1. OfLabel(chain'[n], 1, l) = {}
        BY <1>4, <2>2 DEF OfLabel
      <3>2. l \in bag'[n] <=> l \in bag[n]
        BY <1>3, <2>2 DEF WithLabel
      <3> QED
        BY <3>1, <3>2 DEF Reverted
    <2> QED
      BY <2>1, <2>2
  <1>10. Reverted(chain'[n], 1 + j, l, l \in bag'[n]) =
         Reverted(chain[n], j, l, Reverted(chain'[n], 1, l, l \in bag'[n]))
    <2>1. j <= Len(chain[n])
      BY <1>7 DEF ReadsTo
    <2>2. \A i \in 1 .. j : i \in 1 .. Len(chain[n]) /\ 1 + i = i + 1
      BY <1>2, <1>6, <2>1
    <2>3. Shifted(chain'[n], chain[n], 1, j)
      BY <1>4, <2>2 DEF Shifted
    <2> HIDE DEF j
    <2>4. \A h : Reverted(chain'[n], 1 + j, l, h) =
                Reverted(chain[n], j, l, Reverted(chain'[n], 1, l, h))
      <3>1. 1 \in Nat /\ j \in Nat
        BY <1>6
      <3> QED
        BY <2>3, <3>1, RevertedShift
    <2> QED
      BY <2>4, Zenon
  <1>11. Reverted(chain[n], j, l, Reverted(chain'[n], 1, l, l \in bag'[n])) <=>
         Reverted(chain[n], j, l, l \in bag[n])
    BY <1>9 DEF Reverted
  <1>12. (l \in Undone(n, k))' <=> l \in Undone(n, j)
    <2>1. (l \in Undone(n, k))' <=> Reverted(chain'[n], k, l, l \in bag'[n])
      BY DEF Undone, Reverted, OfLabel
    <2> HIDE DEF j
    <2> QED
      BY <1>6, <1>10, <1>11, <2>1, UndoneIs
  <1>13. History(n, l, s)' = History(n, l, s)
    BY <1>0 DEF HistFixed, Cells
  <1> QED
    BY <1>8, <1>12, <1>13

LEMMA TrimHist ==
  ASSUME StInv, StInv', NoCommit, water <= water', NEW n \in Node, LabelTrim(n),
         \A s \in Nat, k \in Nat : HistAt(n, s, k), NEW s \in Nat, NEW k \in Nat
  PROVE  HistAt(n, s, k)'
  <1> SUFFICES ASSUME water' <= s, ReadsTo(n, s, k)', NEW l \in Label
               PROVE  (l \in Undone(n, k))' = History(n, l, s)'
    BY DEF HistAt
  <1>0. HistFixed /\ \A u \in Tx : \A r : Seen(u, r)' <=> Seen(u, r)
    BY NoCommitFixed
  <1>1. water \in Nat /\ water' \in Nat /\ water <= s /\ \A u \in Tx : at[u] \in Nat
    <2>1. water \in Nat /\ water' \in Nat /\ \A u \in Tx : at[u] \in Nat
      BY Numbers, WaterNext DEF StInv
    <2> QED
      BY <2>1
  <1>2. /\ Listed(chain[n]) /\ DOMAIN chain[n] = 1 .. Len(chain[n]) /\ Len(chain[n]) \in Nat
    BY ChainType DEF StInv
  <1>3. chain'[n] \in Seq(LabelDelta)
    <2>1. Base'
      BY DEF StInv
    <2> QED
      BY <2>1 DEF Base, TypeOK, LabelDelta
  <1>4. Len(chain'[n]) \in Nat
    BY <1>3, LenProperties
  <1>5. PICK p \in Nat :
          /\ p + Len(chain'[n]) <= Len(chain[n])
          /\ \A i \in 1 .. Len(chain'[n]) : chain'[n][i] = chain[n][p + i]
          /\ \A i \in 1 .. p : rec[chain[n][i].tx] = "aborted"
          /\ bag'[n] = Undone(n, p)
          /\ p + Len(chain'[n]) < Len(chain[n]) =>
               Seen(chain[n][p + Len(chain'[n]) + 1].tx, water')
    BY DEF LabelTrim
  <1>6. k <= Len(chain'[n])
    BY DEF ReadsTo
  <1>7. ReadsTo(n, s, p + k)
    <2>1. p + k <= Len(chain[n])
      BY <1>2, <1>4, <1>5, <1>6
    <2>2. ASSUME NEW i \in 1 .. p + k PROVE ~Seen(chain[n][i].tx, s)
      <3>1. CASE i \in 1 .. p
        BY <1>5, <3>1 DEF Seen
      <3>2. CASE i \notin 1 .. p
        <4>1. i - p \in 1 .. k /\ i - p \in 1 .. Len(chain'[n]) /\ p + (i - p) = i
          BY <1>4, <1>6, <3>2
        <4>2. ~Seen(chain[n][i - p].tx, s)'
          BY <4>1 DEF ReadsTo
        <4>3. chain'[n][i - p] = chain[n][i]
          BY <1>5, <4>1
        <4>4. chain[n][i].tx \in Tx
          BY <1>2, <2>1 DEF Listed
        <4> QED
          BY <1>0, <4>2, <4>3, <4>4
      <3> QED
        BY <3>1, <3>2
    <2>3. ASSUME p + k < Len(chain[n]) PROVE Seen(chain[n][p + k + 1].tx, s)
      <3>1. chain[n][p + k + 1].tx \in Tx
        BY <1>2, <2>3 DEF Listed
      <3>2. CASE k < Len(chain'[n])
        <4>1. Seen(chain[n][k + 1].tx, s)'
          BY <3>2 DEF ReadsTo
        <4>2. k + 1 \in 1 .. Len(chain'[n]) /\ p + (k + 1) = p + k + 1
          BY <1>4, <3>2
        <4>3. chain'[n][k + 1] = chain[n][p + k + 1]
          BY <1>5, <4>2
        <4> QED
          BY <1>0, <3>1, <4>1, <4>3
      <3>3. CASE k = Len(chain'[n])
        <4>1. Seen(chain[n][p + k + 1].tx, water')
          BY <1>5, <2>3, <3>3
        <4>2. at[chain[n][p + k + 1].tx] \in Nat
          BY <1>1, <3>1
        <4> QED
          BY <1>1, <4>1, <4>2 DEF Seen
      <3> QED
        BY <1>4, <1>6, <3>2, <3>3
    <2> QED
      BY <2>1, <2>2, <2>3 DEF ReadsTo
  <1>8. (l \in Undone(n, p + k)) = History(n, l, s)
    <2>1. p + k \in Nat
      OBVIOUS
    <2> QED
      BY <1>1, <1>7, <2>1 DEF HistAt
  <1>9. Reverted(chain[n], p + k, l, l \in bag[n]) =
        Reverted(chain'[n], k, l, Reverted(chain[n], p, l, l \in bag[n]))
    <2>1. \A i \in 1 .. k : i \in 1 .. Len(chain'[n])
      BY <1>4, <1>6
    <2>2. Shifted(chain[n], chain'[n], p, k)
      BY <1>5, <2>1 DEF Shifted
    <2>3. \A h : Reverted(chain[n], p + k, l, h) =
                Reverted(chain'[n], k, l, Reverted(chain[n], p, l, h))
      BY <2>2, RevertedShift
    <2> QED
      BY <2>3, Zenon
  <1>10. l \in bag'[n] <=> Reverted(chain[n], p, l, l \in bag[n])
    BY <1>5, UndoneIs
  <1>11. Reverted(chain'[n], k, l, Reverted(chain[n], p, l, l \in bag[n])) <=>
         Reverted(chain'[n], k, l, l \in bag'[n])
    BY <1>10 DEF Reverted
  <1>12. (l \in Undone(n, k))' <=> l \in Undone(n, p + k)
    <2>1. (l \in Undone(n, k))' <=> Reverted(chain'[n], k, l, l \in bag'[n])
      BY DEF Undone, Reverted, OfLabel
    <2> QED
      BY <1>9, <1>11, <2>1, UndoneIs
  <1>13. History(n, l, s)' = History(n, l, s)
    BY <1>0 DEF HistFixed, Cells
  <1> QED
    BY <1>8, <1>12, <1>13

----------------------------------------------------------------------------
(* What withdrawal and reclamation take from a sequence of records.        *)

LEMMA PrefixFacts ==
  ASSUME NEW S, NEW s \in Seq(S), Listed(s)
  PROVE  /\ AbortedPrefix(s) \in 0 .. Len(s)
         /\ \A i \in 1 .. AbortedPrefix(s) : rec[s[i].tx] = "aborted"
         /\ AbortedPrefix(s) < Len(s) => rec[s[AbortedPrefix(s) + 1].tx] # "aborted"
  <1> DEFINE live == {i \in DOMAIN s : ~Aborted(s[i].tx)}
  <1>0. Len(s) \in Nat /\ DOMAIN s = 1 .. Len(s)
    BY LenProperties
  <1>1. CASE live = {}
    <2>1. AbortedPrefix(s) = Len(s)
      BY <1>1 DEF AbortedPrefix
    <2>2. \A i \in 1 .. Len(s) : rec[s[i].tx] = "aborted"
      BY <1>0, <1>1 DEF Aborted
    <2> QED
      BY <1>0, <2>1, <2>2
  <1>2. CASE live # {}
    <2>1. live \subseteq Nat
      BY <1>0
    <2>2. Min(live) \in live /\ \A y \in live : Min(live) <= y
      BY <1>2, <2>1, NatMin
    <2>3. AbortedPrefix(s) = Min(live) - 1
      BY <1>2 DEF AbortedPrefix
    <2>4. PICK m \in 1 .. Len(s) : m = Min(live)
      BY <1>0, <2>2
    <2>5. ASSUME NEW i \in 1 .. m - 1 PROVE rec[s[i].tx] = "aborted"
      <3>1. i \in 1 .. Len(s) /\ ~(m <= i)
        BY <1>0
      <3>2. i \in DOMAIN s /\ i \notin live
        BY <1>0, <2>2, <2>4, <3>1
      <3> QED
        BY <3>2 DEF Aborted
    <2>6. rec[s[m].tx] # "aborted"
      <3>1. s[m].tx \in Tx /\ ~Aborted(s[m].tx)
        BY <1>0, <2>2, <2>4 DEF Listed
      <3> QED
        BY <3>1, NamesAssumption DEF Aborted
    <2>7. m - 1 \in 0 .. Len(s) /\ (m - 1) + 1 = m
      BY <1>0
    <2> QED
      BY <2>3, <2>4, <2>5, <2>6, <2>7
  <1> QED
    BY <1>1, <1>2

Past(u, w) == rec[u] = "committed" /\ at[u] <= w

LEMMA CutExact ==
  ASSUME NEW S, NEW s \in Seq(S), NEW w
  PROVE  \E k \in 0 .. Len(s) :
           /\ Cut(s, w) = SubSeq(s, 1, k)
           /\ k < Len(s) => Past(s[k + 1].tx, w)
           /\ \A i \in 1 .. k : ~Past(s[i].tx, w)
  <1> DEFINE past == {i \in DOMAIN s : rec[s[i].tx] = "committed" /\ at[s[i].tx] <= w}
  <1>0. Len(s) \in Nat /\ DOMAIN s = 1 .. Len(s)
    BY LenProperties
  <1>1. CASE past = {}
    <2>1. Cut(s, w) = s
      BY <1>1 DEF Cut
    <2>2. s = SubSeq(s, 1, Len(s))
      BY SubSeqFull
    <2>3. Len(s) \in 0 .. Len(s) /\ ~(Len(s) < Len(s))
      BY <1>0
    <2>4. \A i \in 1 .. Len(s) : ~Past(s[i].tx, w)
      BY <1>0, <1>1 DEF Past
    <2> HIDE DEF past
    <2> QED
      BY <2>1, <2>2, <2>3, <2>4
  <1>2. CASE past # {}
    <2>1. past \subseteq Nat
      BY <1>0
    <2>2. Min(past) \in past /\ \A y \in past : Min(past) <= y
      BY <1>2, <2>1, NatMin
    <2>3. Cut(s, w) = SubSeq(s, 1, Min(past) - 1)
      BY <1>2 DEF Cut
    <2>4. PICK m \in 1 .. Len(s) : m = Min(past) /\ Past(s[m].tx, w)
      BY <1>0, <2>2 DEF Past
    <2>5. m - 1 \in 0 .. Len(s) /\ (m - 1) + 1 = m
      BY <1>0
    <2>6. ASSUME NEW i \in 1 .. m - 1 PROVE ~Past(s[i].tx, w)
      <3>1. i \in 1 .. Len(s) /\ ~(m <= i)
        BY <1>0
      <3>2. i \in DOMAIN s /\ i \notin past
        BY <1>0, <2>2, <2>4, <3>1
      <3> QED
        BY <3>2 DEF Past
    <2> HIDE DEF past
    <2> QED
      BY <2>3, <2>4, <2>5, <2>6
  <1> QED
    BY <1>1, <1>2

\* WithoutAborted is the window below the aborted ones.
LEMMA WithoutSuffix ==
  ASSUME NEW S, NEW s \in Seq(S), NEW k \in 0 .. Len(s), k = AbortedPrefix(s),
         NEW z, z = WithoutAborted(s)
  PROVE  /\ z \in Seq(S) /\ Len(z) = Len(s) - k
         /\ \A i \in 1 .. Len(z) : z[i] = s[k + i]
  <1> DEFINE r == SubSeq(s, k + 1, Len(s))
  <1>1. z = r
    BY DEF WithoutAborted
  <1>2. r \in Seq(S) /\ Len(r) = Len(s) - k /\ \A i \in 1 .. Len(r) : r[i] = s[k + i]
    BY SuffixWindow
  <1> HIDE DEF r
  <1> QED
    BY <1>1, <1>2

LEMMA WithdrawTrims ==
  ASSUME StInv, NEW t \in Tx, NEW n \in Node, WithdrawLabels(t, n)
  PROVE  LabelTrim(n) /\ \A m \in Node : m # n => LabelsSame(m)
  <1>1. /\ chain[n] \in Seq(LabelDelta) /\ Listed(chain[n])
        /\ Len(chain[n]) \in Nat
    BY ChainType DEF StInv, LabelDelta
  <1>2. /\ chain'[n] = WithoutAborted(chain[n])
        /\ bag'[n] = Undone(n, AbortedPrefix(chain[n]))
        /\ \A m \in Node : m # n => LabelsSame(m)
    BY StoreSeqs DEF StInv, WithdrawLabels, LabelsSame
  <1> DEFINE p == AbortedPrefix(chain[n])
  <1>3. p \in 0 .. Len(chain[n]) /\ \A i \in 1 .. p : rec[chain[n][i].tx] = "aborted"
    BY <1>1, PrefixFacts
  <1>4. /\ Len(chain'[n]) = Len(chain[n]) - p
        /\ \A i \in 1 .. Len(chain'[n]) : chain'[n][i] = chain[n][p + i]
    BY <1>1, <1>2, <1>3, WithoutSuffix
  <1> HIDE DEF p
  <1>5. p \in Nat /\ p + Len(chain'[n]) = Len(chain[n])
    BY <1>1, <1>3, <1>4
  <1>6. bag'[n] = Undone(n, p)
    BY <1>2 DEF p
  <1>7. LabelTrim(n)
    <2>1. p + Len(chain'[n]) <= Len(chain[n]) /\ ~(p + Len(chain'[n]) < Len(chain[n]))
      BY <1>1, <1>5
    <2> QED
      BY <1>3, <1>4, <1>5, <1>6, <2>1 DEF LabelTrim
  <1> QED
    BY <1>2, <1>7

LEMMA ReclaimTrims ==
  ASSUME StInv, NEW n \in Node, NEW w, ReclaimLabels(n, w)
  PROVE  LabelTrim(n) /\ \A m \in Node : m # n => LabelsSame(m)
  <1>1. /\ chain[n] \in Seq(LabelDelta) /\ Listed(chain[n])
        /\ Len(chain[n]) \in Nat
    BY ChainType DEF StInv, LabelDelta
  <1>2. /\ chain'[n] = Cut(WithoutAborted(chain[n]), w)
        /\ bag'[n] = Undone(n, AbortedPrefix(chain[n]))
        /\ \A m \in Node : m # n => LabelsSame(m)
    BY StoreSeqs DEF StInv, ReclaimLabels, LabelsSame
  <1>w. w \in Nat /\ w <= water' /\ water' \in Nat
    <2>1. UNCHANGED <<clock, pin>> /\ Swept(w)
      BY DEF ReclaimLabels, session
    <2>2. w \in Nat /\ w <= water' /\ water' \in Stamps
      BY <2>1, SweptFacts DEF StInv
    <2> QED
      BY <2>2, StartTS DEF Stamps
  <1> DEFINE p == AbortedPrefix(chain[n])
             r == WithoutAborted(chain[n])
  <1>3. p \in 0 .. Len(chain[n]) /\ \A i \in 1 .. p : rec[chain[n][i].tx] = "aborted"
    BY <1>1, PrefixFacts
  <1>4. /\ r \in Seq(LabelDelta) /\ Len(r) = Len(chain[n]) - p
        /\ \A i \in 1 .. Len(r) : r[i] = chain[n][p + i]
    BY <1>1, <1>3, SuffixWindow DEF WithoutAborted
  <1>5. bag'[n] = Undone(n, p)
    BY <1>2
  <1>5a. chain'[n] = Cut(r, w)
    BY <1>2
  <1> HIDE DEF p, r
  <1>6. PICK k \in 0 .. Len(r) :
          Cut(r, w) = SubSeq(r, 1, k) /\ (k < Len(r) => Past(r[k + 1].tx, w))
    BY <1>4, CutExact
  <1>7. Len(chain'[n]) = k /\ \A i \in 1 .. k : chain'[n][i] = r[i]
    BY <1>4, <1>5a, <1>6, PrefixWindow
  <1>8. p \in Nat /\ k \in Nat /\ Len(r) \in Nat /\ p + k <= Len(chain[n])
    BY <1>1, <1>3, <1>4
  <1>9. \A i \in 1 .. k : i \in 1 .. Len(r)
    BY <1>8
  <1>10. \A i \in 1 .. k : chain'[n][i] = chain[n][p + i]
    BY <1>4, <1>7, <1>9
  <1>11. ASSUME p + k < Len(chain[n]) PROVE Seen(chain[n][p + k + 1].tx, water')
    <2>1. k < Len(r) /\ k + 1 \in 1 .. Len(r) /\ p + (k + 1) = p + k + 1
      BY <1>1, <1>4, <1>8, <1>11
    <2>2. Past(r[k + 1].tx, w) /\ r[k + 1] = chain[n][p + k + 1]
      BY <1>4, <1>6, <2>1
    <2>3. p + k + 1 \in DOMAIN chain[n]
      BY <1>1, <1>8, <1>11, LenProperties
    <2>4. at[chain[n][p + k + 1].tx] \in Nat
      BY <1>1, <2>3, Numbers DEF StInv, Listed
    <2> QED
      BY <1>w, <2>2, <2>4 DEF Past, Seen
  <1>12. LabelTrim(n)
    BY <1>3, <1>5, <1>7, <1>8, <1>10, <1>11 DEF LabelTrim
  <1> QED
    BY <1>2, <1>12

\* t commits.  What it leaves in the bag of a node is what its journal says.
LEMMA CommitHist ==
  ASSUME StInv, StInv', NEW t \in Tx, rec[t] = "open", at[t] # 0,
         rec' = [rec EXCEPT ![t] = "committed"], at' = at, log' = log, water' = water,
         NEW n \in Node, LabelsSame(n),
         InLabels(t, n) => \A l \in Label : (l \in bag[n]) = Present(t, n, l),
         NEW s \in Nat, NEW k \in Nat, HistAt(n, s, k)
  PROVE  HistAt(n, s, k)'
  <1> SUFFICES ASSUME water' <= s, ReadsTo(n, s, k)', NEW l \in Label
               PROVE  (l \in Undone(n, k))' = History(n, l, s)'
    BY DEF HistAt
  <1>0. Base /\ HistKnown /\ HistKnown' /\ l \in Cells /\ l # Life
    BY HistoryKnown, HistoryKnownNext, NamesAssumption DEF StInv, Cells
  <1>1. /\ at[t] \in Nat /\ rec'[t] = "committed"
        /\ \A x \in Tx : x # t => rec'[x] = rec[x]
    BY <1>0, Numbers DEF Base, TypeOK
  <1>2. \A x \in Tx : x # t => (Seen(x, s)' <=> Seen(x, s))
    BY <1>1 DEF Seen
  <1>3. ~Seen(t, s) /\ (Seen(t, s)' <=> at[t] <= s)
    BY <1>1 DEF Seen
  <1>4. (l \in Undone(n, k))' <=> l \in Undone(n, k)
    BY DEF Undone, LabelsSame
  <1>5. Listed(chain[n]) /\ DOMAIN chain[n] = 1 .. Len(chain[n]) /\ Len(chain[n]) \in Nat
    BY <1>0, ChainType
  <1>6. CASE InLabels(t, n) /\ at[t] <= s
    <2>1. Marked(t, n, l)
      BY <1>0, <1>6 DEF Marked
    <2>2. chain[n] # <<>> /\ 1 \in DOMAIN chain[n]
      BY <1>5, <1>6 DEF InLabels
    <2>3. chain[n][1].tx = t
      <3> SUFFICES ASSUME chain[n][1].tx # t PROVE FALSE
        OBVIOUS
      <3>1. PICK i \in DOMAIN chain[n] : chain[n][i].tx = t
        BY <1>6 DEF InLabels
      <3>2. 1 < i
        BY <1>5, <3>1
      <3>3. Precedes(t, chain[n][1].tx)
        BY <2>2, <3>1, <3>2 DEF StInv, Order, ChainOK, Sorted
      <3> QED
        BY <3>3 DEF Precedes
    <2>4. k = 0
      <3> SUFFICES ASSUME k # 0 PROVE FALSE
        OBVIOUS
      <3>1. 1 \in 1 .. k
        OBVIOUS
      <3>2. ~Seen(chain[n][1].tx, s)'
        BY <3>1 DEF ReadsTo
      <3>3. chain'[n][1].tx = t
        BY <2>3 DEF LabelsSame
      <3> QED
        BY <1>3, <1>6, <3>2, <3>3
    <2>5. (l \in Undone(n, k)) = Present(t, n, l)
      BY <1>0, <1>6, <2>4, UndoneNone
    <2>6. History(n, l, s)' = Present(t, n, l)
      BY <1>0, <1>6, <2>1, CommitHistory
    <2> QED
      BY <1>4, <2>5, <2>6
  <1>7. CASE ~(InLabels(t, n) /\ at[t] <= s)
    <2>1. ~(Wrote(t, n, l, s)')
      <3>1. CASE ~InLabels(t, n)
        <4>1. ~Marked(t, n, l) /\ ~Settled(t)
          BY <1>0, <3>1, OpenUnsettled DEF Marked
        <4>2. ~Touches(t, n, l)
          BY <1>0, <4>1, TouchMarked
        <4> QED
          BY <4>2 DEF Wrote, Touches
      <3>2. CASE ~(at[t] <= s)
        BY <1>3, <3>2 DEF Wrote
      <3> QED
        BY <1>7, <3>1, <3>2
    <2>2. \A x \in Tx : Wrote(x, n, l, s)' <=> Wrote(x, n, l, s)
      BY <1>2, <1>3, <2>1 DEF Wrote, Touches
    <2>3. History(n, l, s)' = History(n, l, s)
      BY <1>0, <2>2, HistorySame
    <2>4. \A i \in DOMAIN chain[n] : Seen(chain[n][i].tx, s)' <=> Seen(chain[n][i].tx, s)
      <3> SUFFICES ASSUME NEW i \in DOMAIN chain[n]
                   PROVE  Seen(chain[n][i].tx, s)' <=> Seen(chain[n][i].tx, s)
        OBVIOUS
      <3>0. chain'[n] = chain[n]
        BY DEF LabelsSame
      <3>1. chain[n][i].tx \in Tx
        BY <1>5 DEF Listed
      <3>2. CASE chain[n][i].tx = t
        <4>1. InLabels(t, n)
          BY <3>2 DEF InLabels
        <4> QED
          BY <1>3, <1>7, <3>0, <3>2, <4>1
      <3>3. CASE chain[n][i].tx # t
        BY <1>2, <3>0, <3>1, <3>3
      <3> QED
        BY <3>2, <3>3
    <2>5. ReadsTo(n, s, k)
      <3>1. k <= Len(chain[n])
        BY DEF ReadsTo, LabelsSame
      <3>2. \A i \in 1 .. k : ~Seen(chain[n][i].tx, s)
        <4> TAKE i \in 1 .. k
        <4>1. i \in DOMAIN chain[n]
          BY <1>5, <3>1
        <4> QED
          BY <2>4, <4>1 DEF ReadsTo
      <3>3. k < Len(chain[n]) => Seen(chain[n][k + 1].tx, s)
        <4> HAVE k < Len(chain[n])
        <4>1. k + 1 \in DOMAIN chain[n] /\ k < Len(chain'[n])
          BY <1>5 DEF LabelsSame
        <4> QED
          BY <2>4, <4>1 DEF ReadsTo
      <3> QED
        BY <3>1, <3>2, <3>3 DEF ReadsTo
    <2>6. (l \in Undone(n, k)) = History(n, l, s)
      BY <2>5 DEF HistAt
    <2> QED
      BY <1>4, <2>3, <2>6
  <1> QED
    BY <1>6, <1>7

----------------------------------------------------------------------------
(* The transactions that a step leaves alone.                              *)

Still(x) == Unmoved(x) /\ doomed'[x] = doomed[x]

\* What a step of t, or of the sweeper, does to the labels of n.
LabelShape(t, n) ==
  \/ LabelsSame(n)
  \/ LabelTrim(n)
  \/ t \in Tx /\ pc[t] \in OpPc /\ ~Conflicts(t, LabelHead(n)) /\ LabelGrows(t, n)

LEMMA ShapeOld ==
  ASSUME StInv, StInv', NEW t, NEW n \in Node, LabelShape(t, n), NEW x \in Tx, x # t,
         InLabels(x, n)'
  PROVE  InLabels(x, n)
  <1>1. chain[n] \in Seq(LabelDelta) /\ DOMAIN chain[n] = 1 .. Len(chain[n]) /\ Len(chain[n]) \in Nat
    BY ChainType DEF StInv, LabelDelta
  <1>2. PICK i \in DOMAIN chain'[n] : chain'[n][i].tx = x
    BY DEF InLabels
  <1>3. CASE LabelsSame(n)
    BY <1>2, <1>3 DEF LabelsSame, InLabels
  <1>4. CASE LabelTrim(n)
    <2>1. chain'[n] \in Seq(LabelDelta)
      <3>1. Base'
        BY DEF StInv
      <3> QED
        BY <3>1 DEF Base, TypeOK, LabelDelta
    <2>2. Len(chain'[n]) \in Nat /\ i \in 1 .. Len(chain'[n])
      BY <1>2, <2>1, LenProperties
    <2>3. PICK p \in Nat :
            /\ p + Len(chain'[n]) <= Len(chain[n])
            /\ \A j \in 1 .. Len(chain'[n]) : chain'[n][j] = chain[n][p + j]
      BY <1>4 DEF LabelTrim
    <2>4. p + i \in DOMAIN chain[n]
      BY <1>1, <2>2, <2>3
    <2>5. chain[n][p + i].tx = x
      BY <1>2, <2>2, <2>3
    <2> QED
      BY <2>4, <2>5 DEF InLabels
  <1>5. CASE LabelGrows(t, n)
    <2>1. PICK y \in LabelDelta : y.tx = t /\ chain'[n] = <<y>> \o chain[n]
      BY <1>5 DEF LabelGrows
    <2>2. i - 1 \in DOMAIN chain[n] /\ chain'[n][i] = chain[n][i - 1]
      BY <1>1, <1>2, <2>1, PushIndex
    <2> QED
      BY <1>2, <2>2 DEF InLabels
  <1> QED
    BY <1>3, <1>4, <1>5 DEF LabelShape

\* Nobody changes the bag of a node that x, open, has a delta on.
LEMMA ShapeBag ==
  ASSUME StInv, NEW t, NEW n \in Node, LabelShape(t, n), NEW x \in Tx, x # t,
         rec[x] = "open", InLabels(x, n)
  PROVE  bag'[n] = bag[n]
  <1>1. Listed(chain[n]) /\ DOMAIN chain[n] = 1 .. Len(chain[n]) /\ Len(chain[n]) \in Nat
    BY ChainType DEF StInv
  <1>2. PICK i \in DOMAIN chain[n] : chain[n][i].tx = x
    BY DEF InLabels
  <1>3. CASE LabelsSame(n)
    BY <1>3 DEF LabelsSame
  <1>4. CASE LabelTrim(n)
    <2>1. PICK p \in Nat :
            /\ \A j \in 1 .. p : rec[chain[n][j].tx] = "aborted"
            /\ bag'[n] = Undone(n, p)
      BY <1>4 DEF LabelTrim
    <2>2. p = 0
      <3> SUFFICES ASSUME p # 0 PROVE FALSE
        OBVIOUS
      <3>1. rec[chain[n][1].tx] = "aborted" /\ 1 \in DOMAIN chain[n]
        BY <1>1, <1>2, <2>1
      <3>2. i # 1 /\ 1 < i
        BY <1>1, <1>2, <3>1
      <3>3. x = chain[n][1].tx \/ Precedes(x, chain[n][1].tx)
        BY <1>2, <3>1, <3>2 DEF StInv, Order, ChainOK, Sorted
      <3> QED
        BY <3>1, <3>3 DEF Precedes
    <2> QED
      BY <2>1, <2>2, UndoneNone DEF StInv
  <1>5. CASE t \in Tx /\ pc[t] \in OpPc /\ ~Conflicts(t, LabelHead(n)) /\ LabelGrows(t, n)
    <2>1. Precedes(x, t)
      BY <1>2, <1>5, AdmitLabel DEF StInv
    <2> QED
      BY <2>1 DEF Precedes
  <1> QED
    BY <1>3, <1>4, <1>5 DEF LabelShape

\* What a transaction finds in a cell, while the cell's history stays.
LEMMA PresentStill ==
  ASSUME NEW x, log'[x] = log[x], NEW n, NEW c,
         ~Touches(x, n, c) => History(n, c, implicitStartTS)' = History(n, c, implicitStartTS)
  PROVE  Present(x, n, c)' = Present(x, n, c)
  <1>1. (Touches(x, n, c)' <=> Touches(x, n, c)) /\ Left(x, n, c)' = Left(x, n, c)
    BY DEF Touches, Left
  <1>2. CASE Touches(x, n, c)
    BY <1>1, <1>2 DEF Present
  <1>3. CASE ~Touches(x, n, c)
    BY <1>1, <1>3 DEF Present
  <1> QED
    BY <1>2, <1>3

\* OwnCell after the step, of a value that val is.
OwnNext(t, n, c, val) ==
  /\ Pushed(t, n, c)' =>
       val = arg'[t].v /\ Present(t, n, c)' = (IF undoing'[t] THEN val ELSE ~val)
  /\ Undoes(t, n, c)' => val = ~arg'[t].v /\ Present(t, n, c)' = ~val
  /\ ~(Pushed(t, n, c)') /\ ~(Undoes(t, n, c)') => val = Present(t, n, c)'

LEMMA StillCell ==
  ASSUME NEW x, Still(x), NEW n, NEW c, Present(x, n, c)' = Present(x, n, c),
         NEW v, NEW v2, v2 = v, OwnCell(x, n, c, v)
  PROVE  OwnNext(x, n, c, v2)
  <1>1. Pushed(x, n, c)' <=> Pushed(x, n, c)
    BY DEF Still, Unmoved, Pushed
  <1>2. Undoes(x, n, c)' <=> Undoes(x, n, c)
    BY DEF Still, Unmoved, Undoes
  <1> QED
    BY <1>1, <1>2 DEF OwnCell, OwnNext, Still, Unmoved

OwnLabelsAt(t, n) ==
  Healthy(t) /\ InLabels(t, n) => \A l \in Label : OwnCell(t, n, l, l \in bag[n])

LEMMA OwnLabelsOther ==
  ASSUME StInv, StInv', OwnLabels, NEW t, NEW x \in Tx, x # t, Still(x),
         NEW n \in Node, LabelShape(t, n),
         rec[x] = "open" /\ InLabels(x, n) =>
           \A l \in Label : History(n, l, implicitStartTS)' = History(n, l, implicitStartTS)
  PROVE  OwnLabelsAt(x, n)'
  <1> SUFFICES ASSUME Healthy(x)', InLabels(x, n)', NEW l \in Label
               PROVE  OwnCell(x, n, l, l \in bag[n])'
    BY DEF OwnLabelsAt
  <1>1. Healthy(x) /\ rec[x] = "open"
    BY DEF Healthy, Still, Unmoved
  <1>2. InLabels(x, n)
    BY ShapeOld
  <1>3. bag'[n] = bag[n]
    BY <1>1, <1>2, ShapeBag
  <1>4. Present(x, n, l)' = Present(x, n, l)
    BY <1>1, <1>2, PresentStill DEF Still, Unmoved
  <1>5. OwnCell(x, n, l, l \in bag[n])
    BY <1>1, <1>2 DEF OwnLabels
  <1>6. (l \in bag'[n]) = (l \in bag[n])
    BY <1>3
  <1>7. \A v, v2 : v2 = v /\ OwnCell(x, n, l, v) => OwnNext(x, n, l, v2)
    BY <1>4, StillCell
  <1>8. OwnNext(x, n, l, l \in bag'[n])
    BY <1>5, <1>6, <1>7, Zenon
  <1> QED
    BY <1>8 DEF OwnNext, OwnCell

\* What the journal of x says before its i-th effect.
TogglesAt(x) == Healthy(x) => \A i \in DOMAIN log[x] : Toggled(x, i)

LEMMA TogglesOther ==
  ASSUME StInv, Toggles, NEW x \in Tx, Still(x), torn \subseteq torn',
         rec[x] = "open" => \A n \in Node, c \in Cells : Touches(x, n, c) =>
           History(n, c, implicitStartTS)' = History(n, c, implicitStartTS)
  PROVE  TogglesAt(x)'
  <1> SUFFICES ASSUME Healthy(x)', NEW i \in DOMAIN log[x]'
               PROVE  Toggled(x, i)'
    BY DEF TogglesAt
  <1>1. Healthy(x) /\ rec[x] = "open" /\ log'[x] = log[x]
    BY DEF Healthy, Still, Unmoved
  <1>2. i \in DOMAIN log[x]
    BY <1>1
  <1> DEFINE e == log[x][i]
  <1>3. e \in Effects /\ e \in ToSet(log[x])
    BY <1>2, LogType DEF StInv, ToSet
  <1>4. e.n \in Node /\ e.c \in Cells /\ Touches(x, e.n, e.c)
    BY <1>3 DEF Effects, Cells, Touches
  <1>5. History(e.n, e.c, implicitStartTS)' = History(e.n, e.c, implicitStartTS)
    <2>1. \A n \in Node, c \in Cells : Touches(x, n, c) =>
            History(n, c, implicitStartTS)' = History(n, c, implicitStartTS)
      BY <1>1
    <2>2. e' = e
      BY <1>1
    <2> HIDE DEF e
    <2>3. \A n \in Node, c \in Cells : n = e.n /\ c = e.c =>
            History(n, c, implicitStartTS)' = History(e.n, e.c, implicitStartTS)
      BY <1>4, <2>1
    <2>4. PICK n \in Node, c \in Cells : n = e.n /\ c = e.c
      BY <1>4
    <2> QED
      BY <2>2, <2>3, <2>4
  <1>6. Toggled(x, i)
    BY <1>1, <1>2 DEF Toggles
  <1>7. Sound(e.n, e.c)' => Sound(e.n, e.c)
    BY <1>1 DEF Sound
  <1> QED
    BY <1>1, <1>5, <1>6, <1>7 DEF Toggled, Held, At

UndoMarkedAt(x) == \A n \in Node, c \in Cells : Undoes(x, n, c) => Marked(x, n, c)

\* A version of who is still at work stays.
LEMMA MarkedStays ==
  ASSUME NEW x \in Tx, rec'[x] = "open", NEW n \in Node, NEW c, RetainsAt(x, n), Marked(x, n, c)
  PROVE  Marked(x, n, c)'
  <1>1. ~(Settled(x)')
    BY DEF Settled
  <1> QED
    BY <1>1 DEF RetainsAt, Marked

LEMMA UndoesOpen ==
  ASSUME Base, NEW x \in Tx, NEW n, NEW c, Undoes(x, n, c)
  PROVE  rec[x] \in {"none", "open"}
  BY DEF Base, PlaceOK, Undoes, ActivePc, OpPc, LabelPc, DeathPc, BirthPc, UndoPc

LEMMA UndoMarkedOther ==
  ASSUME StInv, UndoMarked, NEW x \in Tx, Still(x), \A n \in Node : RetainsAt(x, n)
  PROVE  UndoMarkedAt(x)'
  <1> SUFFICES ASSUME NEW n \in Node, NEW c \in Cells, Undoes(x, n, c)'
               PROVE  Marked(x, n, c)'
    BY DEF UndoMarkedAt
  <1>1. Undoes(x, n, c)
    BY DEF Undoes, Still, Unmoved
  <1>2. Marked(x, n, c)
    BY <1>1 DEF UndoMarked
  <1>3. rec[x] = "open"
    BY <1>1, <1>2, UndoesOpen, MarkedRecord DEF StInv
  <1>4. rec'[x] = "open"
    BY <1>3 DEF Still, Unmoved
  <1> QED
    BY <1>2, <1>4, MarkedStays

----------------------------------------------------------------------------
(* Steps, as the existence of a node sees them.                            *)

LivesSame(n) == born'[n] = born[n] /\ died'[n] = died[n]

\* Every record of the transactions in G is dropped.
Drops(n, G) ==
  /\ Births(n)' = {b \in Births(n) : b.tx \notin G}
  /\ Deaths(n)' = {d \in Deaths(n) : d.tx \notin G}

\* They are aborted, or committed where every snapshot is past them, and then
\* so is what precedes them.
LifeTrim(n) ==
  \E G \in SUBSET Tx :
    /\ Drops(n, G)
    /\ \A u \in G : rec[u] = "aborted" \/ Seen(u, water')
    /\ \A u \in Tx, x \in G : Precedes(u, x) /\ rec[x] = "committed" => u \in G

\* A birth or a death of t is put on top, in place of one of its own.
BirthGrows(t, n) ==
  \E x : /\ Newborn(t, n, x) /\ x.was = AliveBeforeTx(n, t)
         /\ Births(n)' = {b \in Births(n) : b.tx # t} \union {x}
         /\ Deaths(n)' = Deaths(n)

DeathGrows(t, n) ==
  \E x : /\ Newborn(t, n, x)
         /\ Deaths(n)' = {d \in Deaths(n) : d.tx # t} \union {x}
         /\ Births(n)' = Births(n)

LifeGrows(t, n) ==
  /\ t \in Tx /\ rec[t] # "committed" /\ SeesLife(t, n)
  /\ BirthGrows(t, n) \/ DeathGrows(t, n)

LEMMA RecordsAre == \A n : Records(n) = Births(n) \union Deaths(n)
  BY DEF Records, Births, Deaths

LEMMA RecordsAreNext == (\A n : Records(n) = Births(n) \union Deaths(n))'
  BY RecordsAre, PTL

\* The records of a node, by kind.
LEMMA LifeSets ==
  ASSUME StInv, NEW n \in Node
  PROVE  /\ \A r \in Births(n) \union Deaths(n) :
              r \in LifeRecord /\ r.tx \in Tx /\ r.seq \in Nat /\ r.was \in BOOLEAN
         /\ \A u : InLife(u, n) <=> \E r \in Births(n) \union Deaths(n) : r.tx = u
         /\ \A u : InLife(u, n) => u \in Tx /\ rec[u] # "none"
         /\ \A r, q \in Births(n) \union Deaths(n) :
              \/ r.tx = q.tx
              \/ r.seq < q.seq /\ Precedes(r.tx, q.tx)
              \/ q.seq < r.seq /\ Precedes(q.tx, r.tx)
  <1>1. Records(n) = Births(n) \union Deaths(n)
    BY RecordsAre
  <1>2. \A r \in Records(n) : r \in LifeRecord /\ r.tx \in Tx /\ r.seq \in Nat
    BY LifeType DEF StInv
  <1>3. \A r \in Records(n) : rec[r.tx] # "none"
    BY DEF StInv, Order, LifeOK
  <1>4. \A r, q \in Records(n) :
              \/ r.tx = q.tx
              \/ r.seq < q.seq /\ Precedes(r.tx, q.tx)
              \/ q.seq < r.seq /\ Precedes(q.tx, r.tx)
    BY DEF StInv, Order, LifeOK
  <1>5. \A u : InLife(u, n) <=> \E r \in Records(n) : r.tx = u
    BY DEF InLife
  <1>6. \A r \in Records(n) : r.was \in BOOLEAN
    BY <1>2 DEF LifeRecord
  <1> HIDE DEF Births, Deaths, Records
  <1> QED
    BY <1>1, <1>2, <1>3, <1>4, <1>5, <1>6

\* The records of t are on top, and displaced by the next.
LEMMA DisplacingSet ==
  ASSUME NEW t \in Tx, rec[t] # "committed", NEW s \in Seq(LifeRecord), Descending(s),
         \A i \in DOMAIN s : s[i].tx = t \/ \A j \in DOMAIN s :
            s[j].tx = t => s[i].seq < s[j].seq,
         \A i, j \in DOMAIN s : s[i].tx = s[j].tx => s[i] = s[j],
         NEW x \in LifeRecord, x.tx = t
  PROVE  ToSet(Displacing(s, x)) = {r \in ToSet(s) : r.tx # t} \union {x}
  <1>0. /\ Len(s) \in Nat /\ DOMAIN s = 1 .. Len(s)
        /\ \A i \in DOMAIN s : s[i].seq \in Nat
    <2>1. \A i \in DOMAIN s : s[i] \in LifeRecord
      BY ElementOfSeq, LenProperties
    <2> QED
      BY <2>1, LenProperties DEF LifeRecord
  <1>1. \A i \in DOMAIN s : s[i].tx = t => i = 1
    <2> SUFFICES ASSUME NEW i \in DOMAIN s, s[i].tx = t, i # 1 PROVE FALSE
      OBVIOUS
    <2>1. 1 \in DOMAIN s /\ 1 < i
      BY <1>0
    <2>2. s[i].seq < s[1].seq
      BY <2>1 DEF Descending
    <2>3. CASE s[1].tx = t
      <3>1. s[1] = s[i]
        BY <2>1, <2>3
      <3> QED
        BY <1>0, <2>1, <2>2, <3>1
    <2>4. CASE s[1].tx # t
      <3>1. s[1].seq < s[i].seq
        BY <2>1, <2>4
      <3> QED
        BY <1>0, <2>1, <2>2, <3>1
    <2> QED
      BY <2>3, <2>4
  <1>2. CASE s # <<>> /\ Head(s).tx = x.tx
    <2>1. 1 \in DOMAIN s /\ Head(s) = s[1] /\ s[1].tx = t
      BY <1>0, <1>2, HeadTailProperties
    <2>2. /\ Tail(s) \in Seq(LifeRecord) /\ Len(Tail(s)) = Len(s) - 1
          /\ \A i \in 1 .. Len(s) - 1 : Tail(s)[i] = s[i + 1]
      BY <1>0, <1>2, HeadTailProperties
    <2>3. Displacing(s, x) = <<x>> \o Tail(s)
      BY <1>2 DEF Displacing
    <2> DEFINE d == <<x>> \o Tail(s)
    <2>4. /\ DOMAIN d = 1 .. (Len(s) - 1) + 1 /\ d[1] = x
          /\ \A i \in 1 .. Len(s) - 1 : d[i + 1] = Tail(s)[i]
      BY <2>2, PushFacts
    <2> HIDE DEF d
    <2>5. ASSUME NEW r \in ToSet(d) PROVE r \in {q \in ToSet(s) : q.tx # t} \union {x}
      <3>1. PICK i \in DOMAIN d : r = d[i]
        BY DEF ToSet
      <3>2. CASE i = 1
        BY <2>4, <3>1, <3>2
      <3>3. CASE i # 1
        <4>1. i - 1 \in 1 .. Len(s) - 1 /\ (i - 1) + 1 = i /\ i \in DOMAIN s
          BY <1>0, <2>4, <3>1, <3>3
        <4>2. d[i] = s[i]
          BY <2>2, <2>4, <4>1
        <4>3. s[i].tx # t
          BY <1>1, <3>3, <4>1
        <4> QED
          BY <3>1, <4>1, <4>2, <4>3 DEF ToSet
      <3> QED
        BY <3>2, <3>3
    <2>6. ASSUME NEW r \in ToSet(s), r.tx # t PROVE r \in ToSet(d)
      <3>1. PICK i \in DOMAIN s : r = s[i]
        BY DEF ToSet
      <3>2. i # 1
        BY <2>1, <2>6, <3>1
      <3>3. i - 1 \in 1 .. Len(s) - 1 /\ (i - 1) + 1 = i /\ i \in DOMAIN d
        BY <1>0, <2>4, <3>1, <3>2
      <3>4. d[i] = s[i]
        BY <2>2, <2>4, <3>3
      <3> QED
        BY <3>1, <3>3, <3>4 DEF ToSet
    <2>7. x \in ToSet(d)
      <3>1. 1 \in DOMAIN d
        BY <1>0, <2>1, <2>4
      <3> QED
        BY <2>4, <3>1 DEF ToSet
    <2>8. Displacing(s, x) = d
      BY <2>3 DEF d
    <2> QED
      BY <2>5, <2>6, <2>7, <2>8
  <1>3. CASE ~(s # <<>> /\ Head(s).tx = x.tx)
    <2>1. \A i \in DOMAIN s : s[i].tx # t
      <3> SUFFICES ASSUME NEW i \in DOMAIN s, s[i].tx = t PROVE FALSE
        OBVIOUS
      <3>1. i = 1 /\ s # <<>>
        BY <1>0, <1>1
      <3>2. Head(s) = s[1]
        BY <3>1, HeadTailProperties
      <3> QED
        BY <1>3, <3>1, <3>2
    <2>2. Displacing(s, x) = <<x>> \o s
      BY <1>3 DEF Displacing
    <2> DEFINE d == <<x>> \o s
    <2>3. /\ DOMAIN d = 1 .. Len(s) + 1 /\ d[1] = x
          /\ \A i \in 1 .. Len(s) : d[i + 1] = s[i]
      BY PushFacts
    <2> HIDE DEF d
    <2>4. ASSUME NEW r \in ToSet(d) PROVE r \in {q \in ToSet(s) : q.tx # t} \union {x}
      <3>1. PICK i \in DOMAIN d : r = d[i]
        BY DEF ToSet
      <3>2. CASE i = 1
        BY <2>3, <3>1, <3>2
      <3>3. CASE i # 1
        <4>1. i - 1 \in 1 .. Len(s) /\ (i - 1) + 1 = i
          BY <1>0, <2>3, <3>1, <3>3
        <4>2. d[i] = s[i - 1]
          BY <2>3, <4>1
        <4> QED
          BY <1>0, <2>1, <3>1, <4>1, <4>2 DEF ToSet
      <3> QED
        BY <3>2, <3>3
    <2>5. ASSUME NEW r \in ToSet(s) PROVE r \in ToSet(d)
      <3>1. PICK i \in DOMAIN s : r = s[i]
        BY DEF ToSet
      <3>2. i + 1 \in DOMAIN d /\ d[i + 1] = s[i]
        BY <1>0, <2>3, <3>1
      <3> QED
        BY <3>1, <3>2 DEF ToSet
    <2>6. x \in ToSet(d)
      <3>1. 1 \in DOMAIN d
        BY <1>0, <2>3
      <3> QED
        BY <2>3, <3>1 DEF ToSet
    <2>7. Displacing(s, x) = d
      BY <2>2 DEF d
    <2> QED
      BY <2>4, <2>5, <2>6, <2>7
  <1> QED
    BY <1>2, <1>3

\* The conditions of DisplacingSet, for either kind.
LEMMA OwnOnTop ==
  ASSUME StInv, LifeSingle, NEW t \in Tx, rec[t] # "committed", NEW n \in Node,
         NEW s \in {born[n], died[n]}
  PROVE  /\ s \in Seq(LifeRecord) /\ Descending(s) /\ Listed(s) /\ Sorted(s)
         /\ \A i \in DOMAIN s : s[i].tx = t \/ \A j \in DOMAIN s :
              s[j].tx = t => s[i].seq < s[j].seq
         /\ \A i, j \in DOMAIN s : s[i].tx = s[j].tx => s[i] = s[j]
  <1>0. Base /\ Order
    BY DEF StInv
  <1>1. s \in Seq(LifeRecord)
    BY <1>0, LifeType
  <1>2. Descending(s) /\ Listed(s) /\ Sorted(s)
    BY <1>0, LifeSorted
  <1>3. \A i \in DOMAIN s : s[i] \in Births(n) \union Deaths(n)
    BY DEF Births, Deaths, ToSet
  <1>4. ASSUME NEW i \in DOMAIN s, NEW j \in DOMAIN s, s[i].tx # t, s[j].tx = t
        PROVE  s[i].seq < s[j].seq
    <2>1. \/ s[i].seq < s[j].seq
          \/ Precedes(s[j].tx, s[i].tx)
      BY <1>3, <1>4, LifeSets
    <2> QED
      BY <1>4, <2>1 DEF Precedes
  <1>5. SingleOK(n)
    BY DEF LifeSingle
  <1>6. ASSUME NEW i \in DOMAIN s, NEW j \in DOMAIN s, s[i].tx = s[j].tx
        PROVE  s[i] = s[j]
    <2>1. CASE s = born[n]
      <3>1. s[i] \in Births(n) /\ s[j] \in Births(n)
        BY <2>1 DEF Births, ToSet
      <3> QED
        BY <1>5, <1>6, <3>1 DEF SingleOK
    <2>2. CASE s = died[n]
      <3>1. s[i] \in Deaths(n) /\ s[j] \in Deaths(n)
        BY <2>2 DEF Deaths, ToSet
      <3> QED
        BY <1>5, <1>6, <3>1 DEF SingleOK
    <2> QED
      BY <2>1, <2>2
  <1> QED
    BY <1>1, <1>2, <1>4, <1>6

LEMMA BirthIsGrowth ==
  ASSUME StInv, LifeSingle, NEW t \in Tx, rec[t] # "committed", NEW n \in Node,
         SeesLife(t, n),
         born' = [born EXCEPT ![n] =
           Displacing(@, [tx |-> t, seq |-> NewestSeq(n) + 1, was |-> AliveBeforeTx(n, t)])],
         died' = died
  PROVE  /\ LifeGrows(t, n) /\ BirthGrows(t, n)
         /\ \A m \in Node : m # n => LivesSame(m)
  <1> DEFINE x == [tx |-> t, seq |-> NewestSeq(n) + 1, was |-> AliveBeforeTx(n, t)]
  <1>0. Base /\ Order
    BY DEF StInv
  <1>1. AliveBeforeTx(n, t) \in BOOLEAN
    BY DEF AliveBeforeTx
  <1>2. Newborn(t, n, x)
    BY <1>0, <1>1, NewbornType
  <1>3. x.tx = t /\ x.was = AliveBeforeTx(n, t)
    OBVIOUS
  <1>4. born'[n] = Displacing(born[n], x) /\ \A m \in Node : m # n => LivesSame(m)
    BY <1>0, StoreSeqs DEF LivesSame
  <1> HIDE DEF x
  <1>5. x \in LifeRecord
    BY <1>2 DEF Newborn
  <1>6. ToSet(Displacing(born[n], x)) = {r \in ToSet(born[n]) : r.tx # t} \union {x}
    <2>1. /\ born[n] \in Seq(LifeRecord) /\ Descending(born[n])
          /\ \A i \in DOMAIN born[n] : born[n][i].tx = t \/ \A j \in DOMAIN born[n] :
               born[n][j].tx = t => born[n][i].seq < born[n][j].seq
          /\ \A i, j \in DOMAIN born[n] : born[n][i].tx = born[n][j].tx => born[n][i] = born[n][j]
      BY OwnOnTop
    <2> QED
      BY <1>3, <1>5, <2>1, DisplacingSet
  <1>7. Births(n)' = {b \in Births(n) : b.tx # t} \union {x}
    BY <1>4, <1>6 DEF Births
  <1>8. Deaths(n)' = Deaths(n)
    BY DEF Deaths
  <1>9. BirthGrows(t, n)
    BY <1>2, <1>3, <1>7, <1>8 DEF BirthGrows
  <1> QED
    BY <1>4, <1>9 DEF LifeGrows

LEMMA DeathIsGrowth ==
  ASSUME StInv, LifeSingle, NEW t \in Tx, rec[t] # "committed", NEW n \in Node,
         SeesLife(t, n),
         died' = [died EXCEPT ![n] =
           Displacing(@, [tx |-> t, seq |-> NewestSeq(n) + 1, was |-> FALSE])],
         born' = born
  PROVE  /\ LifeGrows(t, n) /\ DeathGrows(t, n)
         /\ \A m \in Node : m # n => LivesSame(m)
  <1> DEFINE x == [tx |-> t, seq |-> NewestSeq(n) + 1, was |-> FALSE]
  <1>0. Base /\ Order
    BY DEF StInv
  <1>2. Newborn(t, n, x)
    BY <1>0, NewbornType
  <1>3. x.tx = t
    OBVIOUS
  <1>4. died'[n] = Displacing(died[n], x) /\ \A m \in Node : m # n => LivesSame(m)
    BY <1>0, StoreSeqs DEF LivesSame
  <1> HIDE DEF x
  <1>5. x \in LifeRecord
    BY <1>2 DEF Newborn
  <1>6. ToSet(Displacing(died[n], x)) = {r \in ToSet(died[n]) : r.tx # t} \union {x}
    <2>1. /\ died[n] \in Seq(LifeRecord) /\ Descending(died[n])
          /\ \A i \in DOMAIN died[n] : died[n][i].tx = t \/ \A j \in DOMAIN died[n] :
               died[n][j].tx = t => died[n][i].seq < died[n][j].seq
          /\ \A i, j \in DOMAIN died[n] : died[n][i].tx = died[n][j].tx => died[n][i] = died[n][j]
      BY OwnOnTop
    <2> QED
      BY <1>3, <1>5, <2>1, DisplacingSet
  <1>7. Deaths(n)' = {b \in Deaths(n) : b.tx # t} \union {x}
    BY <1>4, <1>6 DEF Deaths
  <1>8. Births(n)' = Births(n)
    BY DEF Births
  <1>9. DeathGrows(t, n)
    BY <1>2, <1>7, <1>8 DEF DeathGrows
  <1> QED
    BY <1>4, <1>9 DEF LifeGrows

\* WithoutAborted leaves what is not aborted.
LEMMA WithoutSet ==
  ASSUME NEW S, NEW s \in Seq(S), Listed(s), Sorted(s)
  PROVE  ToSet(WithoutAborted(s)) = {r \in ToSet(s) : rec[r.tx] # "aborted"}
  <1> DEFINE p == AbortedPrefix(s)
             z == WithoutAborted(s)
  <1>0. Len(s) \in Nat /\ DOMAIN s = 1 .. Len(s)
    BY LenProperties
  <1>1. /\ p \in 0 .. Len(s) /\ \A i \in 1 .. p : rec[s[i].tx] = "aborted"
        /\ p < Len(s) => rec[s[p + 1].tx] # "aborted"
    BY PrefixFacts
  <1>2. z \in Seq(S) /\ Len(z) = Len(s) - p /\ \A i \in 1 .. Len(z) : z[i] = s[p + i]
    BY <1>1, WithoutSuffix
  <1>3. DOMAIN z = 1 .. Len(s) - p
    BY <1>2, LenProperties
  <1> HIDE DEF p, z
  <1>4. ASSUME NEW i \in DOMAIN s, p < i PROVE rec[s[i].tx] # "aborted"
    <2>1. p + 1 \in DOMAIN s /\ rec[s[p + 1].tx] # "aborted"
      BY <1>0, <1>1, <1>4
    <2>2. CASE i = p + 1
      BY <2>1, <2>2
    <2>3. CASE i # p + 1
      <3>1. p + 1 < i
        BY <1>0, <1>1, <1>4, <2>3
      <3>2. s[p + 1].tx = s[i].tx \/ Precedes(s[i].tx, s[p + 1].tx)
        BY <2>1, <3>1 DEF Sorted
      <3> QED
        BY <2>1, <3>2 DEF Precedes
    <2> QED
      BY <2>2, <2>3
  <1>5. ASSUME NEW r \in ToSet(z) PROVE r \in ToSet(s) /\ rec[r.tx] # "aborted"
    <2>1. PICK j \in DOMAIN z : r = z[j]
      BY DEF ToSet
    <2>2. p + j \in DOMAIN s /\ p < p + j /\ z[j] = s[p + j]
      BY <1>0, <1>1, <1>2, <1>3, <2>1
    <2> QED
      BY <1>4, <2>1, <2>2 DEF ToSet
  <1>6. ASSUME NEW r \in ToSet(s), rec[r.tx] # "aborted" PROVE r \in ToSet(z)
    <2>1. PICK i \in DOMAIN s : r = s[i]
      BY DEF ToSet
    <2>2. i \notin 1 .. p
      BY <1>1, <1>6, <2>1
    <2>3. i - p \in DOMAIN z /\ p + (i - p) = i
      BY <1>0, <1>1, <1>3, <2>1, <2>2
    <2>4. z[i - p] = s[i]
      BY <1>2, <1>3, <2>3
    <2> QED
      BY <2>1, <2>3, <2>4 DEF ToSet
  <1>7. ToSet(z) = {r \in ToSet(s) : rec[r.tx] # "aborted"}
    BY <1>5, <1>6
  <1> QED
    BY <1>7 DEF z

\* Cut leaves what w is not past.
LEMMA CutSet ==
  ASSUME Base, NEW S, NEW s \in Seq(S), Listed(s), Sorted(s), NEW w \in Nat
  PROVE  ToSet(Cut(s, w)) = {r \in ToSet(s) : ~Past(r.tx, w)}
  <1> DEFINE z == Cut(s, w)
  <1>0. Len(s) \in Nat /\ DOMAIN s = 1 .. Len(s)
    BY LenProperties
  <1>1. PICK k \in 0 .. Len(s) :
           /\ z = SubSeq(s, 1, k)
           /\ k < Len(s) => Past(s[k + 1].tx, w)
           /\ \A i \in 1 .. k : ~Past(s[i].tx, w)
    BY CutExact
  <1>2. z \in Seq(S) /\ Len(z) = k /\ \A i \in 1 .. k : z[i] = s[i]
    BY <1>1, PrefixWindow
  <1>3. DOMAIN z = 1 .. k
    BY <1>2, LenProperties
  <1> HIDE DEF z
  <1>4. ASSUME NEW i \in DOMAIN s, k < i PROVE Past(s[i].tx, w)
    <2>1. k + 1 \in DOMAIN s /\ Past(s[k + 1].tx, w)
      BY <1>0, <1>1, <1>4
    <2>2. CASE i = k + 1
      BY <2>1, <2>2
    <2>3. CASE i # k + 1
      <3>1. k + 1 < i
        BY <1>0, <1>1, <1>4, <2>3
      <3>2. s[k + 1].tx = s[i].tx \/ Precedes(s[i].tx, s[k + 1].tx)
        BY <2>1, <3>1 DEF Sorted
      <3>3. CASE Precedes(s[i].tx, s[k + 1].tx)
        <4>1. /\ rec[s[k + 1].tx] = "committed" /\ at[s[k + 1].tx] <= w
              /\ s[k + 1].tx \in Tx /\ s[i].tx \in Tx
          BY <2>1 DEF Past, Listed
        <4>2. at[s[k + 1].tx] # 0 /\ at[s[k + 1].tx] \in Nat /\ at[s[i].tx] \in Nat
          BY <4>1, Numbers
        <4> QED
          BY <3>3, <4>1, <4>2 DEF Precedes, Past
      <3> QED
        BY <2>1, <3>2, <3>3
    <2> QED
      BY <2>2, <2>3
  <1>5. ASSUME NEW r \in ToSet(z) PROVE r \in ToSet(s) /\ ~Past(r.tx, w)
    <2>1. PICK j \in DOMAIN z : r = z[j]
      BY DEF ToSet
    <2>2. j \in DOMAIN s /\ z[j] = s[j] /\ j \in 1 .. k
      BY <1>0, <1>1, <1>2, <1>3, <2>1
    <2> QED
      BY <1>1, <2>1, <2>2 DEF ToSet
  <1>6. ASSUME NEW r \in ToSet(s), ~Past(r.tx, w) PROVE r \in ToSet(z)
    <2>1. PICK i \in DOMAIN s : r = s[i]
      BY DEF ToSet
    <2>2. ~(k < i)
      BY <1>4, <1>6, <2>1
    <2>3. i \in DOMAIN z /\ z[i] = s[i]
      BY <1>0, <1>1, <1>2, <1>3, <2>1, <2>2
    <2> QED
      BY <2>1, <2>3 DEF ToSet
  <1>7. ToSet(z) = {r \in ToSet(s) : ~Past(r.tx, w)}
    BY <1>5, <1>6
  <1> QED
    BY <1>7 DEF z

LEMMA WithdrawDrops ==
  ASSUME StInv, NEW t, NEW n \in Node, WithdrawLife(t, n)
  PROVE  /\ LifeTrim(n) /\ Drops(n, {u \in Tx : rec[u] = "aborted"})
         /\ \A m \in Node : m # n => LivesSame(m)
  <1>0. Base /\ Order
    BY DEF StInv
  <1>1. /\ born'[n] = WithoutAborted(born[n]) /\ died'[n] = WithoutAborted(died[n])
        /\ \A m \in Node : m # n => LivesSame(m)
    BY <1>0, StoreSeqs DEF WithdrawLife, LivesSame
  <1>2. /\ born[n] \in Seq(LifeRecord) /\ Listed(born[n]) /\ Sorted(born[n])
        /\ died[n] \in Seq(LifeRecord) /\ Listed(died[n]) /\ Sorted(died[n])
    BY <1>0, LifeType, LifeSorted
  <1>3. /\ Births(n)' = {b \in Births(n) : rec[b.tx] # "aborted"}
        /\ Deaths(n)' = {d \in Deaths(n) : rec[d.tx] # "aborted"}
    BY <1>1, <1>2, WithoutSet DEF Births, Deaths
  <1> DEFINE G == {u \in Tx : rec[u] = "aborted"}
  <1>4. \A r \in Births(n) \union Deaths(n) : r.tx \in Tx
    BY LifeSets
  <1>5. Drops(n, G)
    BY <1>3, <1>4 DEF Drops
  <1>6. LifeTrim(n)
    <2>1. G \in SUBSET Tx /\ \A u \in G : rec[u] = "aborted"
      OBVIOUS
    <2> HIDE DEF G
    <2> QED
      BY <1>5, <2>1 DEF LifeTrim
  <1> QED
    BY <1>1, <1>5, <1>6

LEMMA ReclaimDrops ==
  ASSUME StInv, NEW n \in Node, NEW w, ReclaimNodeLife(n, w)
  PROVE  /\ LifeTrim(n) /\ Drops(n, {u \in Tx : Past(u, w)})
         /\ \A m \in Node : m # n => LivesSame(m)
  <1>0. Base /\ Order
    BY DEF StInv
  <1>1. /\ born'[n] = Cut(born[n], w) /\ died'[n] = Cut(died[n], w)
        /\ \A m \in Node : m # n => LivesSame(m)
    BY <1>0, StoreSeqs DEF ReclaimNodeLife, LivesSame
  <1>w. w \in Nat /\ w <= water' /\ water' \in Nat
    <2>1. UNCHANGED <<clock, pin>> /\ Swept(w)
      BY DEF ReclaimNodeLife, session
    <2>2. w \in Nat /\ w <= water' /\ water' \in Stamps
      BY <1>0, <2>1, SweptFacts
    <2> QED
      BY <2>2, StartTS DEF Stamps
  <1>2. /\ born[n] \in Seq(LifeRecord) /\ Listed(born[n]) /\ Sorted(born[n])
        /\ died[n] \in Seq(LifeRecord) /\ Listed(died[n]) /\ Sorted(died[n])
    BY <1>0, LifeType, LifeSorted
  <1>3. /\ Births(n)' = {b \in Births(n) : ~Past(b.tx, w)}
        /\ Deaths(n)' = {d \in Deaths(n) : ~Past(d.tx, w)}
    BY <1>0, <1>1, <1>2, <1>w, CutSet DEF Births, Deaths
  <1> DEFINE G == {u \in Tx : Past(u, w)}
  <1>4. \A r \in Births(n) \union Deaths(n) : r.tx \in Tx
    BY LifeSets
  <1>5. Drops(n, G)
    BY <1>3, <1>4 DEF Drops
  <1>6. \A u \in Tx : at[u] \in Nat /\ (rec[u] = "committed" => at[u] # 0)
    BY <1>0, Numbers
  <1>7. \A u \in G : Seen(u, water')
    BY <1>w, <1>6 DEF Past, Seen
  <1>8. \A u \in Tx, x \in G : Precedes(u, x) /\ rec[x] = "committed" => u \in G
    BY <1>w, <1>6 DEF Past, Precedes
  <1>9. LifeTrim(n)
    <2>1. G \in SUBSET Tx
      OBVIOUS
    <2> HIDE DEF G
    <2> QED
      BY <1>5, <1>7, <1>8, <2>1 DEF LifeTrim
  <1> QED
    BY <1>1, <1>5, <1>9

----------------------------------------------------------------------------
(* What the life records say, after a step.                                *)

LifeShape(t, n) == LivesSame(n) \/ LifeTrim(n) \/ LifeGrows(t, n)

LEMMA InLifeNext ==
  ASSUME NEW u, NEW n
  PROVE  InLife(u, n)' <=> \E r \in Births(n)' \union Deaths(n)' : r.tx = u
  BY RecordsAreNext DEF InLife

LEMMA InLifeNow ==
  ASSUME NEW u, NEW n
  PROVE  InLife(u, n) <=> \E r \in Births(n) \union Deaths(n) : r.tx = u
  BY RecordsAre DEF InLife

\* The records of u on n are those of before.
SameFor(u, n) ==
  /\ InLife(u, n)' <=> InLife(u, n)
  /\ Before(u, n)' <=> Before(u, n)
  /\ After(u, n)' <=> After(u, n)

LEMMA SameKeeps ==
  ASSUME NEW n, LivesSame(n), NEW u
  PROVE  SameFor(u, n)
  <1>1. Births(n)' = Births(n) /\ Deaths(n)' = Deaths(n)
    BY DEF LivesSame, Births, Deaths
  <1> QED
    BY <1>1, InLifeNow, InLifeNext DEF SameFor, Before, After

LEMMA DropKeeps ==
  ASSUME NEW n, NEW G, Drops(n, G), NEW u
  PROVE  /\ u \notin G => SameFor(u, n)
         /\ u \in G => ~(InLife(u, n)')
  <1>1. CASE u \in G
    BY <1>1, InLifeNext DEF Drops
  <1>2. CASE u \notin G
    <2>1. \A b : b.tx = u => (b \in Births(n)' <=> b \in Births(n))
      BY <1>2 DEF Drops
    <2>2. \A b : b.tx = u => (b \in Deaths(n)' <=> b \in Deaths(n))
      BY <1>2 DEF Drops
    <2>3. InLife(u, n)' <=> InLife(u, n)
      BY <2>1, <2>2, InLifeNow, InLifeNext
    <2>4. Before(u, n)' <=> Before(u, n)
      BY <2>1 DEF Before
    <2>5. After(u, n)' <=> After(u, n)
      BY <2>1, <2>2 DEF After
    <2> QED
      BY <2>3, <2>4, <2>5, <1>2 DEF SameFor
  <1> QED
    BY <1>1, <1>2

LEMMA GrowKeeps ==
  ASSUME NEW t, NEW n, LifeGrows(t, n), NEW u
  PROVE  /\ u # t => SameFor(u, n)
         /\ InLife(t, n)'
         /\ InLife(u, n) => InLife(u, n)'
  <1>1. \A b : b.tx # t => (b \in Births(n)' <=> b \in Births(n))
    BY DEF LifeGrows, BirthGrows, DeathGrows, Newborn
  <1>2. \A b : b.tx # t => (b \in Deaths(n)' <=> b \in Deaths(n))
    BY DEF LifeGrows, BirthGrows, DeathGrows, Newborn
  <1>3. InLife(t, n)'
    BY InLifeNext DEF LifeGrows, BirthGrows, DeathGrows, Newborn
  <1>4. ASSUME u # t PROVE SameFor(u, n)
    <2>1. InLife(u, n)' <=> InLife(u, n)
      BY <1>1, <1>2, <1>4, InLifeNow, InLifeNext
    <2>2. Before(u, n)' <=> Before(u, n)
      BY <1>1, <1>4 DEF Before
    <2>3. After(u, n)' <=> After(u, n)
      BY <1>1, <1>2, <1>4 DEF After
    <2> QED
      BY <2>1, <2>2, <2>3 DEF SameFor
  <1> QED
    BY <1>3, <1>4 DEF SameFor

\* Records of another transaction than t that are left are unchanged.
LEMMA LifeOld ==
  ASSUME NEW t, NEW n, LifeShape(t, n), NEW u, u # t \/ ~LifeGrows(t, n), InLife(u, n)'
  PROVE  SameFor(u, n)
  <1>1. CASE LivesSame(n)
    BY <1>1, SameKeeps
  <1>2. CASE LifeTrim(n)
    <2>1. PICK G : Drops(n, G)
      BY <1>2 DEF LifeTrim
    <2> QED
      BY <2>1, DropKeeps
  <1>3. CASE LifeGrows(t, n)
    BY <1>3, GrowKeeps
  <1> QED
    BY <1>1, <1>2, <1>3 DEF LifeShape

\* Records that are dropped are aborted, or every snapshot is past them.
LEMMA LifeLost ==
  ASSUME NEW t, NEW n, LifeShape(t, n), NEW x \in Tx, InLife(x, n), ~(InLife(x, n)')
  PROVE  /\ rec[x] = "aborted" \/ Seen(x, water')
         /\ rec[x] = "committed" => \A u \in Tx : Precedes(u, x) => ~(InLife(u, n)')
  <1>1. ~LivesSame(n) /\ ~LifeGrows(t, n)
    BY SameKeeps, GrowKeeps DEF SameFor
  <1>2. PICK G \in SUBSET Tx :
          /\ Drops(n, G)
          /\ \A u \in G : rec[u] = "aborted" \/ Seen(u, water')
          /\ \A u \in Tx, y \in G : Precedes(u, y) /\ rec[y] = "committed" => u \in G
    BY <1>1 DEF LifeShape, LifeTrim
  <1>3. x \in G
    BY <1>2, DropKeeps DEF SameFor
  <1> QED
    BY <1>2, <1>3, DropKeeps

\* The first unseen, and the last seen, are so before the step.
LEMMA BetweenBack ==
  ASSUME StInv, StInv', NoCommit, Steady, NEW t, NEW n \in Node, LifeShape(t, n),
         NEW u \in Tx, InLife(u, n), InLife(u, n)', NEW s \in Nat, water' <= s
  PROVE  /\ Between(u, n, s)' => Between(u, n, s)
         /\ LastAt(u, n, s)' => LastAt(u, n, s)
  <1>0. Base /\ \A x \in Tx : \A r : Seen(x, r)' <=> Seen(x, r)
    BY NoCommitFixed DEF StInv
  <1>1. water' \in Nat /\ \A x \in Tx : at[x] \in Nat
    BY <1>0, Numbers, WaterNext DEF StInv
  <1>2. \A x \in Tx : InLife(x, n) => pc[x] # "idle"
    BY <1>0, LifeSets, RecordBegun
  <1>3. ASSUME Between(u, n, s)', NEW x \in Tx, x # u, InLife(x, n), Precedes(x, u)
        PROVE  Seen(x, s)
    <2>1. Precedes(x, u)'
      BY <1>0, <1>2, <1>3, SteadyPrecedes
    <2>2. CASE InLife(x, n)'
      <3>1. Seen(x, s)'
        BY <1>3, <2>1, <2>2 DEF Between
      <3> QED
        BY <1>0, <3>1
    <2>3. CASE ~(InLife(x, n)')
      <3>1. Seen(x, water')
        BY <1>3, <2>3, LifeLost DEF Precedes
      <3> QED
        BY <1>1, <3>1 DEF Seen
    <2> QED
      BY <2>2, <2>3
  <1>4. ASSUME LastAt(u, n, s)', NEW x \in Tx, x # u, InLife(x, n), Precedes(u, x)
        PROVE  ~Seen(x, s)
    <2>1. Precedes(u, x)'
      BY <1>0, <1>2, <1>4, SteadyPrecedes
    <2>2. CASE InLife(x, n)'
      <3>1. ~(Seen(x, s)')
        BY <1>4, <2>1, <2>2 DEF LastAt
      <3> QED
        BY <1>0, <3>1
    <2>3. CASE ~(InLife(x, n)')
      <3>1. rec[x] # "committed"
        BY <1>4, <2>3, LifeLost
      <3> QED
        BY <3>1 DEF Seen
    <2> QED
      BY <2>2, <2>3
  <1>5. Between(u, n, s)' => ~Seen(u, s)
    BY <1>0 DEF Between
  <1>6. LastAt(u, n, s)' => Seen(u, s)
    BY <1>0 DEF LastAt
  <1>7. Between(u, n, s)' => Between(u, n, s)
    BY <1>3, <1>5 DEF Between
  <1>8. LastAt(u, n, s)' => LastAt(u, n, s)
    BY <1>4, <1>6 DEF LastAt
  <1> QED
    BY <1>7, <1>8

LifeHistAt(n, u, s) ==
  n \notin torn /\ InLife(u, n) /\ water <= s =>
    /\ Between(u, n, s) => History(n, Life, s) = Before(u, n)
    /\ LastAt(u, n, s) => History(n, Life, s) = After(u, n)

LEMMA LifeHistOther ==
  ASSUME StInv, StInv', LifeHist, NoCommit, Steady, torn \subseteq torn',
         NEW t, NEW n \in Node, LifeShape(t, n), NEW u \in Tx, u # t \/ ~LifeGrows(t, n),
         NEW s \in Nat
  PROVE  LifeHistAt(n, u, s)'
  <1> SUFFICES ASSUME n \notin torn', InLife(u, n)', water' <= s
               PROVE  /\ Between(u, n, s)' => History(n, Life, s)' = Before(u, n)'
                      /\ LastAt(u, n, s)' => History(n, Life, s)' = After(u, n)'
    BY DEF LifeHistAt
  <1>1. SameFor(u, n)
    BY LifeOld
  <1>2. InLife(u, n) /\ (Before(u, n)' <=> Before(u, n)) /\ (After(u, n)' <=> After(u, n))
    BY <1>1 DEF SameFor
  <1>3. /\ Between(u, n, s)' => Between(u, n, s)
        /\ LastAt(u, n, s)' => LastAt(u, n, s)
    BY <1>2, BetweenBack
  <1>4. water <= s
    <2>1. water \in Nat /\ water' \in Nat /\ water <= water'
      BY Numbers, WaterNext DEF StInv, Steady
    <2> QED
      BY <2>1
  <1>5. n \notin torn
    OBVIOUS
  <1>6. History(n, Life, s)' = History(n, Life, s)
    BY NoCommitFixed DEF HistFixed, Cells
  <1>7. /\ Between(u, n, s) => History(n, Life, s) = Before(u, n)
        /\ LastAt(u, n, s) => History(n, Life, s) = After(u, n)
    BY <1>2, <1>4, <1>5 DEF LifeHist
  <1>8. Before(u, n) \in BOOLEAN /\ After(u, n) \in BOOLEAN /\ Before(u, n)' \in BOOLEAN /\ After(u, n)' \in BOOLEAN
    BY DEF Before, After
  <1> QED
    BY <1>2, <1>3, <1>6, <1>7, <1>8

\* A birth finds in the heads what its transaction recorded before.
LEMMA AliveBeforeSets ==
  ASSUME StInv, LifeSingle, NEW t \in Tx, rec[t] # "committed", NEW n \in Node
  PROVE  AliveBeforeTx(n, t) <=> (\E d \in Deaths(n) : d.tx = t) /\ Before(t, n)
  <1>1. ASSUME NEW s \in {born[n], died[n]}
        PROVE  /\ s # <<>> => Head(s) \in ToSet(s)
               /\ \A r \in ToSet(s) : r.tx = t => s # <<>> /\ r = Head(s)
    <2>1. /\ s \in Seq(LifeRecord) /\ Descending(s)
          /\ \A i \in DOMAIN s : s[i].tx = t \/ \A j \in DOMAIN s :
               s[j].tx = t => s[i].seq < s[j].seq
          /\ \A i, j \in DOMAIN s : s[i].tx = s[j].tx => s[i] = s[j]
      BY OwnOnTop
    <2>2. Len(s) \in Nat /\ DOMAIN s = 1 .. Len(s)
      BY <2>1, LenProperties
    <2>3. s # <<>> => /\ 1 \in DOMAIN s /\ Head(s) = s[1]
                      /\ \A i \in DOMAIN s : s[i].seq <= s[1].seq
      BY <2>1, HeadNewest
    <2>a. \A i \in DOMAIN s : s[i] \in LifeRecord
      BY <2>1, <2>2, ElementOfSeq
    <2>4. \A i \in DOMAIN s : s[i].seq \in Nat
      BY <2>a DEF LifeRecord
    <2>5. ASSUME NEW r \in ToSet(s), r.tx = t PROVE s # <<>> /\ r = Head(s)
      <3>1. PICK i \in DOMAIN s : r = s[i]
        BY DEF ToSet
      <3>2. s # <<>>
        BY <2>2, <3>1
      <3>3. CASE s[1].tx = t
        BY <2>1, <2>3, <2>5, <3>1, <3>2, <3>3
      <3>4. CASE s[1].tx # t
        <4>1. s[1].seq < s[i].seq
          BY <2>1, <2>3, <2>5, <3>1, <3>2, <3>4
        <4>2. s[i].seq <= s[1].seq
          BY <2>3, <3>1, <3>2
        <4> QED
          BY <2>3, <2>4, <3>1, <3>2, <4>1, <4>2
      <3> QED
        BY <3>3, <3>4
    <2>6. s # <<>> => Head(s) \in ToSet(s)
      BY <2>3 DEF ToSet
    <2> QED
      BY <2>5, <2>6
  <1>2. /\ born[n] # <<>> => Head(born[n]) \in Births(n)
        /\ \A r \in Births(n) : r.tx = t => born[n] # <<>> /\ r = Head(born[n])
    BY <1>1 DEF Births
  <1>3. /\ died[n] # <<>> => Head(died[n]) \in Deaths(n)
        /\ \A r \in Deaths(n) : r.tx = t => died[n] # <<>> /\ r = Head(died[n])
    BY <1>1 DEF Deaths
  <1>4. (died[n] # <<>> /\ Head(died[n]).tx = t) <=> \E d \in Deaths(n) : d.tx = t
    BY <1>3
  <1>5. (born[n] = <<>> \/ Head(born[n]).tx # t \/ Head(born[n]).was) <=> Before(t, n)
    BY <1>2 DEF Before
  <1> QED
    BY <1>4, <1>5 DEF AliveBeforeTx

LEMMA SingleStep ==
  ASSUME StInv, LifeSingle, NEW t, NEW n \in Node, LifeShape(t, n)
  PROVE  SingleOK(n)'
  <1>0. SingleOK(n)
    BY DEF LifeSingle
  <1>1. CASE LivesSame(n)
    <2>1. Births(n)' = Births(n) /\ Deaths(n)' = Deaths(n)
      BY <1>1 DEF LivesSame, Births, Deaths
    <2> QED
      BY <1>0, <2>1 DEF SingleOK
  <1>2. CASE LifeTrim(n)
    <2>1. PICK G : Drops(n, G)
      BY <1>2 DEF LifeTrim
    <2> QED
      BY <1>0, <2>1 DEF SingleOK, Drops
  <1>3. CASE LifeGrows(t, n)
    <2>0. t \in Tx /\ rec[t] # "committed"
      BY <1>3 DEF LifeGrows
    <2>1. /\ NewestSeq(n) \in Nat
          /\ \A r \in Births(n) \union Deaths(n) : r.seq \in Nat /\ r.seq <= NewestSeq(n)
      BY NewestFacts, RecordsAre, LifeSets DEF StInv
    <2>2. \A r \in Births(n) \union Deaths(n) : r.seq # NewestSeq(n) + 1
      BY <2>1
    <2>3. CASE BirthGrows(t, n)
      <3>1. PICK x : /\ Newborn(t, n, x) /\ x.was = AliveBeforeTx(n, t)
                     /\ Births(n)' = {b \in Births(n) : b.tx # t} \union {x}
                     /\ Deaths(n)' = Deaths(n)
        BY <2>3 DEF BirthGrows
      <3>2. x.tx = t /\ x.seq = NewestSeq(n) + 1
        BY <3>1 DEF Newborn
      <3>3. x.was => \E q \in Deaths(n) : q.tx = x.tx
        BY <2>0, <3>1, <3>2, AliveBeforeSets
      <3>4. (\A r, q \in Births(n) : r.tx = q.tx => r = q)'
        BY <1>0, <3>1, <3>2 DEF SingleOK
      <3>5. (\A r, q \in Deaths(n) : r.tx = q.tx => r = q)'
        BY <1>0, <3>1 DEF SingleOK
      <3>6. (\A r \in Births(n), q \in Deaths(n) : r.seq # q.seq)'
        BY <1>0, <2>2, <3>1, <3>2 DEF SingleOK
      <3>7. (\A r \in Births(n) : r.was => \E q \in Deaths(n) : q.tx = r.tx)'
        BY <1>0, <3>1, <3>3 DEF SingleOK
      <3> QED
        BY <3>4, <3>5, <3>6, <3>7 DEF SingleOK
    <2>4. CASE DeathGrows(t, n)
      <3>1. PICK x : /\ Newborn(t, n, x)
                     /\ Deaths(n)' = {b \in Deaths(n) : b.tx # t} \union {x}
                     /\ Births(n)' = Births(n)
        BY <2>4 DEF DeathGrows
      <3>2. x.tx = t /\ x.seq = NewestSeq(n) + 1
        BY <3>1 DEF Newborn
      <3>4. (\A r, q \in Births(n) : r.tx = q.tx => r = q)'
        BY <1>0, <3>1 DEF SingleOK
      <3>5. (\A r, q \in Deaths(n) : r.tx = q.tx => r = q)'
        BY <1>0, <3>1, <3>2 DEF SingleOK
      <3>6. (\A r \in Births(n), q \in Deaths(n) : r.seq # q.seq)'
        BY <1>0, <2>2, <3>1, <3>2 DEF SingleOK
      <3>7. (\A r \in Births(n) : r.was => \E q \in Deaths(n) : q.tx = r.tx)'
        <4> SUFFICES ASSUME NEW r \in Births(n), r.was
                     PROVE  \E q \in Deaths(n)' : q.tx = r.tx
          BY <3>1
        <4>1. PICK q \in Deaths(n) : q.tx = r.tx
          BY <1>0 DEF SingleOK
        <4>2. CASE q.tx = t
          BY <3>1, <3>2, <4>1, <4>2
        <4>3. CASE q.tx # t
          BY <3>1, <4>1, <4>3
        <4> QED
          BY <4>2, <4>3
      <3> QED
        BY <3>4, <3>5, <3>6, <3>7 DEF SingleOK
    <2> QED
      BY <1>3, <2>3, <2>4 DEF LifeGrows
  <1> QED
    BY <1>1, <1>2, <1>3 DEF LifeShape

\* What t finds when it puts its first record on n.
FirstFound(t, n) ==
  ~InLife(t, n) =>
    /\ BirthGrows(t, n) => ~History(n, Life, implicitStartTS)
    /\ DeathGrows(t, n) => History(n, Life, implicitStartTS)

LEMMA LifeHistGrow ==
  ASSUME StInv, StInv', LifeSingle, LifeHist, NoCommit, Steady, torn \subseteq torn',
         NEW t \in Tx, pc[t] # "idle", NEW n \in Node, LifeGrows(t, n),
         n \notin torn' => FirstFound(t, n), NEW s \in Nat
  PROVE  LifeHistAt(n, t, s)'
  <1> SUFFICES ASSUME n \notin torn', InLife(t, n)', water' <= s
               PROVE  /\ Between(t, n, s)' => History(n, Life, s)' = Before(t, n)'
                      /\ LastAt(t, n, s)' => History(n, Life, s)' = After(t, n)'
    BY DEF LifeHistAt
  <1>0. Base /\ HistKnown /\ HistFixed /\ \A x \in Tx : \A r : Seen(x, r)' <=> Seen(x, r)
    BY NoCommitFixed, HistoryKnown DEF StInv
  <1>1. rec[t] # "committed" /\ SeesLife(t, n) /\ LifeShape(t, n)
    BY DEF LifeGrows, LifeShape
  <1>2. ~(LastAt(t, n, s)')
    BY <1>0, <1>1 DEF LastAt, Seen
  <1>3. water <= s
    <2>1. water \in Nat /\ water' \in Nat /\ water <= water'
      BY Numbers, WaterNext DEF StInv, Steady
    <2> QED
      BY <2>1
  <1>4. History(n, Life, s)' = History(n, Life, s) /\ History(n, Life, s) \in BOOLEAN
    BY <1>0 DEF HistFixed, HistKnown, Cells
  <1>5. Before(t, n) \in BOOLEAN /\ Before(t, n)' \in BOOLEAN
    BY DEF Before
  <1>b. BirthGrows(t, n) => (Before(t, n)' <=> AliveBeforeTx(n, t))
    BY DEF BirthGrows, Before, Newborn
  <1>d. DeathGrows(t, n) => (Before(t, n)' <=> Before(t, n))
    BY DEF DeathGrows, Before
  <1>6. CASE InLife(t, n)
    <2>1. Between(t, n, s)' => Between(t, n, s)
      BY <1>1, <1>6, BetweenBack
    <2>2. Between(t, n, s) => History(n, Life, s) = Before(t, n)
      BY <1>3, <1>6 DEF LifeHist
    <2>3. BirthGrows(t, n) => (Before(t, n)' <=> Before(t, n))
      <3>1. CASE \E d \in Deaths(n) : d.tx = t
        BY <1>1, <1>b, <3>1, AliveBeforeSets
      <3>2. CASE ~\E d \in Deaths(n) : d.tx = t
        <4>1. PICK b \in Births(n) : b.tx = t
          BY <1>6, <3>2, InLifeNow
        <4>2. ~b.was
          BY <3>2, <4>1 DEF LifeSingle, SingleOK
        <4>3. ~Before(t, n)
          BY <4>1, <4>2 DEF Before
        <4> QED
          BY <1>1, <1>b, <3>2, <4>3, AliveBeforeSets
      <3> QED
        BY <3>1, <3>2
    <2>4. Before(t, n)' <=> Before(t, n)
      BY <1>d, <2>3 DEF LifeGrows
    <2> QED
      BY <1>2, <1>4, <1>5, <2>1, <2>2, <2>4
  <1>7. CASE ~InLife(t, n)
    <2>1. ASSUME Between(t, n, s)' PROVE History(n, Life, s) = History(n, Life, implicitStartTS)
      <3>1. ASSUME NEW x \in Tx, Marked(x, n, Life), rec[x] = "committed" PROVE Seen(x, s)
        <4>1. InLife(x, n) /\ x # t
          BY <1>1, <3>1 DEF Marked
        <4>2. Precedes(x, t)
          BY <1>1, <4>1 DEF SeesLife, InLife
        <4>3. Precedes(x, t)' /\ InLife(x, n)'
          BY <1>0, <4>1, <4>2, SteadyPrecedes, GrowKeeps
        <4>4. Seen(x, s)'
          BY <2>1, <4>1, <4>3 DEF Between
        <4> QED
          BY <1>0, <4>4
      <3> QED
        BY <1>3, <3>1, HistoryNow DEF Cells
    <2>2. \A r \in Births(n) \union Deaths(n) : r.tx # t
      BY <1>7, InLifeNow
    <2>3. Before(t, n) /\ ~AliveBeforeTx(n, t)
      <3>1. Before(t, n)
        BY <2>2 DEF Before
      <3>2. ~AliveBeforeTx(n, t)
        BY <1>1, <2>2, AliveBeforeSets
      <3> QED
        BY <3>1, <3>2
    <2>4. BirthGrows(t, n) => ~(Before(t, n)') /\ ~History(n, Life, implicitStartTS)
      BY <1>7, <1>b, <2>3 DEF FirstFound
    <2>5. DeathGrows(t, n) => Before(t, n)' /\ History(n, Life, implicitStartTS)
      BY <1>7, <1>d, <2>3 DEF FirstFound
    <2>6. Before(t, n)' <=> History(n, Life, implicitStartTS)
      BY <2>4, <2>5 DEF LifeGrows
    <2> QED
      BY <1>2, <1>4, <1>5, <2>1, <2>6
  <1> QED
    BY <1>6, <1>7

\* t commits.  Its records are those of the last writer.
LEMMA LifeHistCommit ==
  ASSUME StInv, StInv', LifeHist, Steady, NEW t \in Tx, rec[t] = "open", at[t] # 0,
         rec' = [rec EXCEPT ![t] = "committed"], at' = at, log' = log, water' = water,
         torn' = torn, NEW n \in Node, LivesSame(n),
         InLife(t, n) /\ n \notin torn => After(t, n) = Present(t, n, Life),
         NEW u \in Tx, NEW s \in Nat
  PROVE  LifeHistAt(n, u, s)'
  <1> SUFFICES ASSUME n \notin torn', InLife(u, n)', water' <= s
               PROVE  /\ Between(u, n, s)' => History(n, Life, s)' = Before(u, n)'
                      /\ LastAt(u, n, s)' => History(n, Life, s)' = After(u, n)'
    BY DEF LifeHistAt
  <1>0. Base /\ HistKnown /\ HistKnown' /\ Life \in Cells
    BY HistoryKnown, HistoryKnownNext DEF StInv, Cells
  <1>1. /\ at[t] \in Nat /\ rec'[t] = "committed"
        /\ \A x \in Tx : x # t => rec'[x] = rec[x]
    BY <1>0, Numbers DEF Base, TypeOK
  <1>2. \A x \in Tx : x # t => (Seen(x, s)' <=> Seen(x, s))
    BY <1>1 DEF Seen
  <1>3. ~Seen(t, s) /\ (Seen(t, s)' <=> at[t] <= s)
    BY <1>1 DEF Seen
  <1>4. \A x : SameFor(x, n)
    BY SameKeeps
  <1>5. \A x : InLife(x, n)' <=> InLife(x, n)
    BY <1>4 DEF SameFor
  <1>6. (Before(u, n)' <=> Before(u, n)) /\ (After(u, n)' <=> After(u, n)) /\ InLife(u, n)
    BY <1>4, <1>5 DEF SameFor
  <1>7. /\ Before(u, n) \in BOOLEAN /\ Before(u, n)' \in BOOLEAN
        /\ After(u, n) \in BOOLEAN /\ After(u, n)' \in BOOLEAN
    BY DEF Before, After
  <1>8. \A x, y \in Tx : InLife(y, n) /\ Precedes(x, y) => Precedes(x, y)'
    <2> SUFFICES ASSUME NEW x \in Tx, NEW y \in Tx, InLife(y, n), Precedes(x, y)
                 PROVE  Precedes(x, y)'
      OBVIOUS
    <2>1. pc[y] # "idle"
      BY <1>0, LifeSets, RecordBegun
    <2> QED
      BY <1>0, <2>1, SteadyPrecedes
  <1>9. CASE InLife(t, n) /\ at[t] <= s
    <2>1. \A x \in Tx : x # t /\ InLife(x, n) => Precedes(x, t)
      <3> SUFFICES ASSUME NEW x \in Tx, x # t, InLife(x, n) PROVE Precedes(x, t)
        OBVIOUS
      <3>1. Marked(t, n, Life) /\ Marked(x, n, Life)
        BY <1>9 DEF Marked
      <3> QED
        BY <3>1, UnderOpen
    <2>2. ~(Between(u, n, s)')
      <3>1. CASE u = t
        BY <1>3, <1>9, <3>1 DEF Between
      <3>2. CASE u # t
        <4>1. Precedes(u, t)
          BY <1>6, <2>1, <3>2
        <4>2. rec[u] = "committed" /\ at[u] < at[t] /\ at[u] \in Nat
          BY <1>0, <4>1, PrecedesSeen
        <4>3. Seen(u, s)
          BY <1>1, <1>9, <4>2 DEF Seen
        <4> QED
          BY <1>2, <3>2, <4>3 DEF Between
      <3> QED
        BY <3>1, <3>2
    <2>3. LastAt(u, n, s)' => u = t
      <3> SUFFICES ASSUME u # t, LastAt(u, n, s)' PROVE FALSE
        OBVIOUS
      <3>1. Precedes(u, t)'
        BY <1>6, <1>8, <1>9, <2>1
      <3>2. ~(Seen(t, s)')
        BY <1>5, <1>9, <3>1 DEF LastAt
      <3> QED
        BY <1>3, <1>9, <3>2
    <2>4. Marked(t, n, Life)
      BY <1>9 DEF Marked
    <2>5. History(n, Life, s)' = Present(t, n, Life)
      BY <1>0, <1>9, <2>4, CommitHistory
    <2>6. After(t, n) = Present(t, n, Life)
      BY <1>9
    <2> QED
      BY <1>6, <1>7, <2>2, <2>3, <2>5, <2>6
  <1>10. CASE ~(InLife(t, n) /\ at[t] <= s)
    <2>1. ~(Wrote(t, n, Life, s)')
      <3>1. CASE ~InLife(t, n)
        <4>1. ~Marked(t, n, Life) /\ ~Settled(t)
          BY <3>1, OpenUnsettled DEF Marked
        <4>2. ~Touches(t, n, Life)
          BY <1>0, <4>1, TouchMarked
        <4> QED
          BY <4>2 DEF Wrote, Touches
      <3>2. CASE ~(at[t] <= s)
        BY <1>3, <3>2 DEF Wrote
      <3> QED
        BY <1>10, <3>1, <3>2
    <2>2. \A x \in Tx : Wrote(x, n, Life, s)' <=> Wrote(x, n, Life, s)
      BY <1>2, <1>3, <2>1 DEF Wrote, Touches
    <2>3. History(n, Life, s)' = History(n, Life, s)
      BY <1>0, <2>2, HistorySame
    <2>4. \A x \in Tx : InLife(x, n) => (Seen(x, s)' <=> Seen(x, s))
      BY <1>2, <1>3, <1>10
    <2>5. Between(u, n, s)' => Between(u, n, s)
      BY <1>5, <1>6, <1>8, <2>4 DEF Between
    <2>6. LastAt(u, n, s)' => LastAt(u, n, s)
      BY <1>5, <1>6, <1>8, <2>4 DEF LastAt
    <2>7. /\ Between(u, n, s) => History(n, Life, s) = Before(u, n)
          /\ LastAt(u, n, s) => History(n, Life, s) = After(u, n)
      BY <1>6 DEF LifeHist
    <2> QED
      BY <1>6, <1>7, <2>3, <2>5, <2>6, <2>7
  <1> QED
    BY <1>9, <1>10

----------------------------------------------------------------------------
(* One step: the actor, the others, and the store.                         *)

OwnLifeAt(t, n) ==
  Healthy(t) /\ n \notin torn /\ InLife(t, n) =>
    /\ OwnCell(t, n, Life, After(t, n))
    /\ ~Pushed(t, n, Life) => tomb[n] = ~After(t, n)

TombAt(n) ==
  n \notin torn =>
    /\ AllCommitted(n) => Buried(n) = ~History(n, Life, implicitStartTS)
    /\ owed[n] # "none" => AllCommitted(n)

ReplayAt(t) == (pc[t] \in {"idle", "ready"} => ~undoing[t]) /\ (pc[t] = "undo" => undoing[t])

GoneAt(t) ==
  pc[t] = "ended" /\ rec[t] = "aborted" => \A n \in Node : ~InLabels(t, n) /\ ~InLife(t, n)

LateAt(t) == pc[t] = "lateBorn" => arg[t].n \in torn

\* What the invariant says of a transaction.
ActorOK(t) ==
  /\ ReplayAt(t) /\ UndoMarkedAt(t) /\ TogglesAt(t) /\ GoneAt(t) /\ LateAt(t)
  /\ \A n \in Node : OwnLabelsAt(t, n) /\ OwnLifeAt(t, n)

LEMMA HInvIs ==
  HInv <=> /\ \A t \in Tx : ActorOK(t)
           /\ \A n \in Node, s \in Nat, k \in Nat : HistAt(n, s, k)
           /\ LifeSingle /\ SweepOK
           /\ \A n \in Node, u \in Tx, s \in Nat : LifeHistAt(n, u, s)
           /\ \A n \in Node : TombAt(n)
  <1>a. ReplayOK <=> \A t \in Tx : ReplayAt(t)
    BY DEF ReplayOK, ReplayAt
  <1>b. UndoMarked <=> \A t \in Tx : UndoMarkedAt(t)
    BY Zenon DEF UndoMarked, UndoMarkedAt
  <1>c. Toggles <=> \A t \in Tx : TogglesAt(t)
    BY Zenon DEF Toggles, TogglesAt
  <1>d. Gone <=> \A t \in Tx : GoneAt(t)
    BY Zenon DEF Gone, GoneAt
  <1>e. LateTorn <=> \A t \in Tx : LateAt(t)
    BY Zenon DEF LateTorn, LateAt
  <1>2. /\ OwnLabels <=> \A t \in Tx, n \in Node : OwnLabelsAt(t, n)
        /\ OwnLife <=> \A t \in Tx, n \in Node : OwnLifeAt(t, n)
    BY Zenon DEF OwnLabels, OwnLabelsAt, OwnLife, OwnLifeAt
  <1>3. /\ LifeHist <=> \A n \in Node, u \in Tx, s \in Nat : LifeHistAt(n, u, s)
        /\ TombOK <=> \A n \in Node : TombAt(n)
    BY Zenon DEF LifeHist, LifeHistAt, TombOK, TombAt
  <1> QED
    BY <1>a, <1>b, <1>c, <1>d, <1>e, <1>2, <1>3, HistAtAll DEF HInv, Journals, LabelInv, LifeInv, ActorOK

LEMMA HInvIsNext ==
  HInv' <=> (/\ \A t \in Tx : ActorOK(t)
             /\ \A n \in Node, s \in Nat, k \in Nat : HistAt(n, s, k)
             /\ LifeSingle /\ SweepOK
             /\ \A n \in Node, u \in Tx, s \in Nat : LifeHistAt(n, u, s)
             /\ \A n \in Node : TombAt(n))'
  BY HInvIs, PTL

\* What a step of t, or of the sweeper if t is no transaction, leaves alone.
Advance(t) ==
  /\ Steady /\ NoCommit /\ torn \subseteq torn'
  /\ \A x \in Tx : x # t => Still(x)
  /\ \A u \in Tx, n \in Node : RetainsAt(u, n)
  /\ \A n \in Node : LabelShape(t, n) /\ LifeShape(t, n)

LEMMA AdvanceStep ==
  ASSUME StInv, StInv', HInv, NEW t, Advance(t), t \in Tx => ActorOK(t)',
         \A x \in Tx, n \in Node : x # t => OwnLifeAt(x, n)',
         \A n \in Node : TombAt(n)', SweepOK',
         \A n \in Node : LifeGrows(t, n) =>
           pc[t] # "idle" /\ (n \notin torn' => FirstFound(t, n))
  PROVE  HInv'
  <1>1. /\ \A x \in Tx : ActorOK(x)
        /\ \A n \in Node, s \in Nat, k \in Nat : HistAt(n, s, k)
        /\ LifeSingle /\ SweepOK
        /\ \A n \in Node, u \in Tx, s \in Nat : LifeHistAt(n, u, s)
        /\ Toggles /\ UndoMarked /\ OwnLabels /\ LifeHist
    BY HInvIs DEF HInv, Journals, LabelInv, LifeInv
  <1>2. /\ Steady /\ NoCommit /\ torn \subseteq torn' /\ water <= water'
        /\ \A x \in Tx : x # t => Still(x)
        /\ \A u \in Tx, n \in Node : RetainsAt(u, n)
        /\ \A n \in Node : LabelShape(t, n) /\ LifeShape(t, n)
    BY DEF Advance, Steady
  <1>3. HistFixed /\ implicitStartTS \in Nat
    BY <1>2, NoCommitFixed, StartTS
  <1>4. ASSUME NEW x \in Tx PROVE ActorOK(x)'
    <2> SUFFICES ASSUME x # t PROVE ActorOK(x)'
      OBVIOUS
    <2>1. Still(x) /\ ActorOK(x)
      BY <1>1, <1>2
    <2>2. \A n \in Node, c \in Cells :
            History(n, c, implicitStartTS)' = History(n, c, implicitStartTS)
      BY <1>3 DEF HistFixed
    <2>3. UndoMarkedAt(x)'
      BY <1>1, <1>2, <2>1, UndoMarkedOther
    <2>4. TogglesAt(x)'
      BY <1>1, <1>2, <2>1, <2>2, TogglesOther
    <2>5. ASSUME NEW n \in Node PROVE OwnLabelsAt(x, n)'
      <3>1. \A l \in Label : History(n, l, implicitStartTS)' = History(n, l, implicitStartTS)
        BY <2>2 DEF Cells
      <3>2. LabelShape(t, n)
        BY <1>2
      <3> QED
        BY <1>1, <2>1, <3>1, <3>2, OwnLabelsOther
    <2>6. ReplayAt(x)' /\ LateAt(x)'
      BY <1>2, <2>1 DEF ActorOK, ReplayAt, LateAt, Still, Unmoved
    <2>7. GoneAt(x)'
      <3> SUFFICES ASSUME pc'[x] = "ended", rec'[x] = "aborted", NEW n \in Node
                   PROVE  ~(InLabels(x, n)') /\ ~(InLife(x, n)')
        BY DEF GoneAt
      <3>1. ~InLabels(x, n) /\ ~InLife(x, n)
        BY <2>1 DEF ActorOK, GoneAt, Still, Unmoved
      <3>2. LabelShape(t, n) /\ LifeShape(t, n)
        BY <1>2
      <3>3. ~(InLabels(x, n)')
        BY <3>1, <3>2, ShapeOld
      <3>4. InLife(x, n)' => SameFor(x, n)
        BY <3>2, LifeOld
      <3> QED
        BY <3>1, <3>3, <3>4 DEF SameFor
    <2> QED
      BY <2>3, <2>4, <2>5, <2>6, <2>7 DEF ActorOK
  <1>5. ASSUME NEW n \in Node, NEW s \in Nat, NEW k \in Nat PROVE HistAt(n, s, k)'
    <2>1. LabelShape(t, n) /\ \A s2 \in Nat, k2 \in Nat : HistAt(n, s2, k2)
      BY <1>1, <1>2
    <2>2. CASE LabelsSame(n)
      BY <1>2, <2>1, <2>2, SameHist
    <2>3. CASE LabelTrim(n)
      BY <1>2, <2>1, <2>3, TrimHist
    <2>4. CASE t \in Tx /\ pc[t] \in OpPc /\ LabelGrows(t, n)
      <3>1. pc[t] \in ActivePc => rec[t] \in {"none", "open"}
        BY <2>4, Places DEF StInv, PlaceOK
      <3>2. rec[t] # "committed"
        BY <2>4, <3>1 DEF ActivePc
      <3> QED
        BY <1>2, <2>1, <2>4, <3>2, GrowsHist
    <2> QED
      BY <2>1, <2>2, <2>3, <2>4 DEF LabelShape
  <1>6. LifeSingle'
    <2>1. \A n \in Node : SingleOK(n)'
      BY <1>1, <1>2, SingleStep
    <2> QED
      BY <2>1 DEF LifeSingle
  <1>7. ASSUME NEW n \in Node, NEW u \in Tx, NEW s \in Nat PROVE LifeHistAt(n, u, s)'
    <2>1. LifeShape(t, n)
      BY <1>2
    <2>2. CASE u # t \/ ~LifeGrows(t, n)
      BY <1>1, <1>2, <2>1, <2>2, LifeHistOther
    <2>3. CASE u = t /\ LifeGrows(t, n)
      <3>1. LifeHistAt(n, t, s)'
        BY <1>1, <1>2, <2>1, <2>3, LifeHistGrow
      <3> QED
        BY <2>3, <3>1
    <2> QED
      BY <2>2, <2>3
  <1> QED
    BY <1>4, <1>5, <1>6, <1>7, HInvIsNext

----------------------------------------------------------------------------
(* The others, and the store where the step does not write.                *)

LEMMA OwnLifeKept ==
  ASSUME StInv, StInv', HInv, torn \subseteq torn', NEW t, NEW x \in Tx, x # t, Still(x),
         NEW n \in Node, LifeShape(t, n),
         n \notin torn' /\ Healthy(x) /\ InLife(x, n) =>
           /\ tomb'[n] = tomb[n]
           /\ History(n, Life, implicitStartTS)' = History(n, Life, implicitStartTS)
  PROVE  OwnLifeAt(x, n)'
  <1> SUFFICES ASSUME Healthy(x)', n \notin torn', InLife(x, n)'
               PROVE  /\ OwnCell(x, n, Life, After(x, n))'
                      /\ ~(Pushed(x, n, Life)') => tomb'[n] = ~(After(x, n)')
    BY DEF OwnLifeAt
  <1>1. SameFor(x, n)
    BY LifeOld
  <1>2. Healthy(x) /\ n \notin torn /\ InLife(x, n) /\ (After(x, n)' <=> After(x, n))
    BY <1>1 DEF SameFor, Healthy, Still, Unmoved
  <1>3. After(x, n)' = After(x, n)
    <2>1. After(x, n) \in BOOLEAN /\ After(x, n)' \in BOOLEAN
      BY DEF After
    <2> QED
      BY <1>2, <2>1
  <1>4. /\ OwnCell(x, n, Life, After(x, n))
        /\ ~Pushed(x, n, Life) => tomb[n] = ~After(x, n)
    BY <1>2, HInvIs DEF ActorOK, OwnLifeAt
  <1>5. Present(x, n, Life)' = Present(x, n, Life)
    <2>2. History(n, Life, implicitStartTS)' = History(n, Life, implicitStartTS)
      BY <1>2
    <2>3. log'[x] = log[x]
      BY DEF Still, Unmoved
    <2> QED
      BY <2>2, <2>3, PresentStill
  <1>6. OwnNext(x, n, Life, After(x, n)')
    <2>1. \A v, v2 : v2 = v /\ OwnCell(x, n, Life, v) => OwnNext(x, n, Life, v2)
      BY <1>5, StillCell
    <2> QED
      BY <1>3, <1>4, <2>1, Zenon
  <1>7. OwnCell(x, n, Life, After(x, n))'
    BY <1>6 DEF OwnNext, OwnCell
  <1>8. Pushed(x, n, Life)' <=> Pushed(x, n, Life)
    BY DEF Pushed, Still, Unmoved
  <1> QED
    BY <1>2, <1>3, <1>4, <1>7, <1>8

LEMMA OwnLifeOther ==
  ASSUME StInv, StInv', HInv, NoCommit, torn \subseteq torn', NEW t, NEW x \in Tx, x # t, Still(x),
         NEW n \in Node, LifeShape(t, n),
         n \notin torn' /\ Healthy(x) /\ InLife(x, n) => tomb'[n] = tomb[n]
  PROVE  OwnLifeAt(x, n)'
  <1>1. HistFixed /\ implicitStartTS \in Nat
    BY NoCommitFixed, StartTS
  <1>2. History(n, Life, implicitStartTS)' = History(n, Life, implicitStartTS)
    BY <1>1 DEF HistFixed, Cells
  <1> QED
    BY <1>2, OwnLifeKept

LEMMA TombSame ==
  ASSUME StInv, StInv', HInv, NoCommit, torn \subseteq torn', NEW n \in Node, LivesSame(n),
         tomb'[n] = tomb[n], owed'[n] = owed[n]
  PROVE  TombAt(n)'
  <1>1. TombAt(n)
    BY HInvIs
  <1>2. HistFixed /\ implicitStartTS \in Nat
    BY NoCommitFixed, StartTS
  <1>3. History(n, Life, implicitStartTS)' = History(n, Life, implicitStartTS)
    BY <1>2 DEF HistFixed, Cells
  <1>4. \A u \in Tx : InLife(u, n)' <=> InLife(u, n)
    BY SameKeeps DEF SameFor
  <1>5. AllCommitted(n)' <=> AllCommitted(n)
    BY <1>4 DEF AllCommitted, NoCommit
  <1>6. Buried(n)' = Buried(n)
    BY DEF Buried
  <1> QED
    BY <1>1, <1>3, <1>5, <1>6 DEF TombAt

\* A step that is not one of the sweeper's.
LEMMA SweepSame ==
  ASSUME SweepOK, NEW t, UNCHANGED <<owed, sweeper>>,
         \A x \in Tx : x # t => pc'[x] = pc[x],
         t \in Tx => pc[t] # "withdraw" /\ pc'[t] # "withdraw",
         \A n \in Node : claim'[n] \in {claim[n], t, NoTx}
  PROVE  SweepOK'
  BY NamesAssumption DEF SweepOK
----------------------------------------------------------------------------
(* The journal of the actor: as it was, one effect longer or one shorter.  *)

PresentIs ==
  \A t \in Tx : \A n \in Node, c \in Cells :
    Present(t, n, c) = Held(log[t], Len(log[t]), n, c, History(n, c, implicitStartTS))

LEMMA PresentIsHeld == StInv => PresentIs
  BY PresentHeld DEF PresentIs, StInv

LEMMA PresentIsHeldNext == StInv' => PresentIs'
  BY PresentIsHeld, PTL

LEMMA PresentNext ==
  ASSUME StInv', HistFixed, NEW t \in Tx, NEW n \in Node, NEW c \in Cells
  PROVE  Present(t, n, c)' =
           Held(log'[t], Len(log'[t]), n, c, History(n, c, implicitStartTS))
  <1>1. Present(t, n, c)' =
          Held(log'[t], Len(log'[t]), n, c, History(n, c, implicitStartTS)')
    BY PresentIsHeldNext DEF PresentIs
  <1>2. History(n, c, implicitStartTS)' = History(n, c, implicitStartTS)
    BY StartTS DEF HistFixed
  <1> QED
    BY <1>1, <1>2

LEMMA PresentSame ==
  ASSUME StInv, StInv', HistFixed, NEW t \in Tx, log'[t] = log[t], NEW n \in Node, NEW c \in Cells
  PROVE  Present(t, n, c)' = Present(t, n, c)
  <1>1. Present(t, n, c)' =
          Held(log'[t], Len(log'[t]), n, c, History(n, c, implicitStartTS))
    BY PresentNext
  <1>2. Present(t, n, c) = Held(log[t], Len(log[t]), n, c, History(n, c, implicitStartTS))
    BY PresentIsHeld DEF PresentIs
  <1> QED
    BY <1>1, <1>2

LEMMA AppendIs ==
  ASSUME NEW s \in Seq(Effects), NEW e \in Effects
  PROVE  /\ Len(Append(s, e)) = Len(s) + 1 /\ Len(s) \in Nat
         /\ DOMAIN Append(s, e) = 1 .. Len(s) + 1
         /\ \A i \in 1 .. Len(s) : Append(s, e)[i] = s[i]
         /\ Append(s, e)[Len(s) + 1] = e
  <1>1. Len(s) \in Nat
    BY LenProperties
  <1>2. /\ Append(s, e) \in Seq(Effects) /\ Len(Append(s, e)) = Len(s) + 1
        /\ \A i \in 1 .. Len(s) : Append(s, e)[i] = s[i]
        /\ Append(s, e)[Len(s) + 1] = e
    BY AppendProperties
  <1> QED
    BY <1>1, <1>2, LenProperties

LEMMA FrontIs ==
  ASSUME NEW s \in Seq(Effects), s # <<>>
  PROVE  /\ Len(s) \in Nat \ {0} /\ Len(Front(s)) = Len(s) - 1
         /\ Len(s) \in DOMAIN s /\ DOMAIN Front(s) = 1 .. Len(s) - 1
         /\ \A i \in 1 .. Len(s) - 1 : Front(s)[i] = s[i] /\ i \in DOMAIN s
         /\ Last(s) = s[Len(s)] /\ Last(s) \in ToSet(s) /\ Last(s) \in Effects
  <1>1. Len(s) \in Nat /\ Len(s) # 0 /\ DOMAIN s = 1 .. Len(s)
    BY EmptySeq, LenProperties
  <1>2. Len(s) - 1 \in 0 .. Len(s)
    BY <1>1
  <1>3. /\ Front(s) \in Seq(Effects) /\ Len(Front(s)) = Len(s) - 1
        /\ \A i \in 1 .. Len(s) - 1 : Front(s)[i] = s[i]
    BY <1>2, PrefixWindow DEF Front
  <1>4. DOMAIN Front(s) = 1 .. Len(s) - 1
    BY <1>3, LenProperties
  <1>5. Last(s) = s[Len(s)] /\ Len(s) \in DOMAIN s
    BY <1>1 DEF Last
  <1>6. Last(s) \in Effects
    BY <1>1, <1>5, ElementOfSeq
  <1>7. Last(s) \in ToSet(s)
    BY <1>5 DEF ToSet
  <1> QED
    BY <1>1, <1>3, <1>4, <1>5, <1>6, <1>7

LEMMA PresentAppend ==
  ASSUME StInv, StInv', HistFixed, NEW t \in Tx, NEW e \in Effects,
         log'[t] = Append(log[t], e), NEW n \in Node, NEW c \in Cells
  PROVE  Present(t, n, c)' = IF e.n = n /\ e.c = c THEN e.v ELSE Present(t, n, c)
  <1> DEFINE q == log[t]
             q2 == log'[t]
             h == History(n, c, implicitStartTS)
  <1>1. q \in Seq(Effects)
    BY LogType DEF StInv
  <1>2. /\ Len(q2) = Len(q) + 1 /\ Len(q) \in Nat
        /\ \A i \in 1 .. Len(q) : q2[i] = q[i]
        /\ q2[Len(q) + 1] = e
    BY <1>1, AppendIs
  <1>3. Present(t, n, c)' = Held(q2, Len(q2), n, c, h)
    BY PresentNext
  <1>4. Present(t, n, c) = Held(q, Len(q), n, c, h)
    BY PresentIsHeld DEF PresentIs
  <1>5. PICK k, m : k \in Nat /\ k = Len(q) /\ m = Len(q2)
    BY <1>2
  <1>6. /\ k \in Nat /\ m = k + 1 /\ Alike(q, q2, k)
        /\ q2[m] = e
        /\ Present(t, n, c)' = Held(q2, m, n, c, h)
        /\ Present(t, n, c) = Held(q, k, n, c, h)
    BY <1>2, <1>3, <1>4, <1>5 DEF Alike
  <1> HIDE DEF q, q2, h
  <1>7. /\ q2[m].n = n /\ q2[m].c = c => Held(q2, m, n, c, h) = q2[m].v
        /\ ~(q2[m].n = n /\ q2[m].c = c) => Held(q2, m, n, c, h) = Held(q, k, n, c, h)
    BY <1>6, HeldNext
  <1> QED
    BY <1>6, <1>7

LEMMA PresentFront ==
  ASSUME StInv, StInv', HistFixed, NEW t \in Tx, log[t] # <<>>,
         log'[t] = Front(log[t]), NEW n \in Node, NEW c \in Cells
  PROVE  LET e == Last(log[t]) IN
         /\ Present(t, n, c)' =
              Held(log[t], Len(log[t]) - 1, n, c, History(n, c, implicitStartTS))
         /\ Present(t, n, c) = IF e.n = n /\ e.c = c THEN e.v ELSE Present(t, n, c)'
  <1> DEFINE q == log[t]
             q2 == log'[t]
             h == History(n, c, implicitStartTS)
  <1>1. q \in Seq(Effects)
    BY LogType DEF StInv
  <1>2. /\ Len(q2) = Len(q) - 1 /\ Len(q) \in Nat \ {0}
        /\ \A i \in 1 .. Len(q) - 1 : q2[i] = q[i]
        /\ q[Len(q)] = Last(q)
    BY <1>1, FrontIs
  <1>3. Present(t, n, c)' = Held(q2, Len(q2), n, c, h)
    BY PresentNext
  <1>4. Present(t, n, c) = Held(q, Len(q), n, c, h)
    BY PresentIsHeld DEF PresentIs
  <1>5. PICK m \in Nat \ {0} : m = Len(q)
    BY <1>2
  <1>6. PICK k \in Nat : m = k + 1
    OBVIOUS
  <1>7. /\ Alike(q, q2, k) /\ Alike(q, q, k) /\ q[m] = Last(q)
        /\ Present(t, n, c)' = Held(q2, k, n, c, h)
        /\ Present(t, n, c) = Held(q, m, n, c, h)
        /\ k = Len(q) - 1
    BY <1>2, <1>3, <1>4, <1>5, <1>6 DEF Alike
  <1> HIDE DEF q, q2, h
  <1>8. Held(q2, k, n, c, h) = Held(q, k, n, c, h)
    BY <1>7, HeldSame
  <1>9. /\ q[m].n = n /\ q[m].c = c => Held(q, m, n, c, h) = q[m].v
        /\ ~(q[m].n = n /\ q[m].c = c) => Held(q, m, n, c, h) = Held(q, k, n, c, h)
    BY <1>6, <1>7, HeldNext
  <1>10. /\ Present(t, n, c)' = Held(q, k, n, c, h)
         /\ Present(t, n, c) =
              IF Last(q).n = n /\ Last(q).c = c THEN Last(q).v ELSE Present(t, n, c)'
    BY <1>7, <1>8, <1>9
  <1> QED
    BY <1>7, <1>10 DEF q, h

\* An effect that stays where it is in the journal.
LEMMA ToggledKeep ==
  ASSUME StInv, HistFixed, torn \subseteq torn', NEW t \in Tx, NEW i \in DOMAIN log[t],
         Toggled(t, i), \A j \in 1 .. i : log'[t][j] = log[t][j]
  PROVE  Toggled(t, i)'
  <1>1. i \in Nat \ {0} /\ log[t][i] \in Effects
    BY LogType DEF StInv
  <1>2. log'[t][i] = log[t][i]
    BY <1>1
  <1>3. PICK n \in Node, c \in Cells : n = log[t][i].n /\ c = log[t][i].c
    BY <1>1 DEF Effects, Cells
  <1>4. History(n, c, implicitStartTS)' = History(n, c, implicitStartTS)
    BY StartTS DEF HistFixed
  <1>a. i - 1 \in Nat /\ Alike(log[t], log'[t], i - 1)
    BY <1>1 DEF Alike
  <1>5. \A h : Held(log'[t], i - 1, n, c, h) = Held(log[t], i - 1, n, c, h)
    BY <1>a, HeldSame
  <1>6. Sound(n, c)' => Sound(n, c)
    BY DEF Sound
  <1>7. Sound(n, c) => Held(log[t], i - 1, n, c, History(n, c, implicitStartTS)) = ~log[t][i].v
    BY <1>3 DEF Toggled
  <1>8. Sound(n, c)' =>
          Held(log'[t], i - 1, n, c, History(n, c, implicitStartTS)') = ~log'[t][i].v
    BY <1>2, <1>4, <1>5, <1>6, <1>7
  <1>9. n = log'[t][i].n /\ c = log'[t][i].c
    BY <1>2, <1>3
  <1> QED
    BY <1>8, <1>9 DEF Toggled

LEMMA TogglesShorter ==
  ASSUME StInv, HInv, HistFixed, torn \subseteq torn', NEW t \in Tx,
         Healthy(t)' => Healthy(t) \/ log'[t] = <<>>,
         \/ log'[t] = log[t]
         \/ log[t] # <<>> /\ log'[t] = Front(log[t])
  PROVE  TogglesAt(t)'
  <1> SUFFICES ASSUME Healthy(t)', NEW i \in DOMAIN log[t]'
               PROVE  Toggled(t, i)'
    BY DEF TogglesAt
  <1>0. log[t] \in Seq(Effects) /\ Len(log[t]) \in Nat /\ DOMAIN log[t] = 1 .. Len(log[t])
    BY LogType DEF StInv
  <1>1. i \in DOMAIN log[t] /\ \A j \in 1 .. i : log'[t][j] = log[t][j]
    <2>1. CASE log'[t] = log[t]
      BY <2>1
    <2>2. CASE log[t] # <<>> /\ log'[t] = Front(log[t])
      <3>1. /\ DOMAIN Front(log[t]) = 1 .. Len(log[t]) - 1
            /\ \A j \in 1 .. Len(log[t]) - 1 :
                 Front(log[t])[j] = log[t][j] /\ j \in DOMAIN log[t]
        BY <1>0, <2>2, FrontIs
      <3> QED
        BY <1>0, <2>2, <3>1
    <2> QED
      BY <2>1, <2>2
  <1>2. log'[t] # <<>>
    OBVIOUS
  <1>3. Healthy(t)
    BY <1>2
  <1>4. Toggled(t, i)
    BY <1>1, <1>3, HInvIs DEF ActorOK, TogglesAt
  <1> QED
    BY <1>1, <1>4, ToggledKeep

LEMMA TogglesLonger ==
  ASSUME StInv, StInv', HInv, HistFixed, torn \subseteq torn', NEW t \in Tx,
         Healthy(t)' => Healthy(t) \/ log[t] = <<>>,
         NEW e \in Effects, log'[t] = Append(log[t], e),
         Sound(e.n, e.c)' /\ Healthy(t)' => Present(t, e.n, e.c) = ~e.v
  PROVE  TogglesAt(t)'
  <1> SUFFICES ASSUME Healthy(t)', NEW i \in DOMAIN log[t]'
               PROVE  Toggled(t, i)'
    BY DEF TogglesAt
  <1>0. log[t] \in Seq(Effects) /\ Len(log[t]) \in Nat /\ DOMAIN log[t] = 1 .. Len(log[t])
    BY LogType DEF StInv
  <1>1. /\ DOMAIN log'[t] = 1 .. Len(log[t]) + 1
        /\ \A j \in 1 .. Len(log[t]) : log'[t][j] = log[t][j]
        /\ log'[t][Len(log[t]) + 1] = e
    BY <1>0, AppendIs
  <1>2. CASE i \in DOMAIN log[t]
    <2>1. Toggled(t, i)
      BY <1>0, <1>2, HInvIs DEF ActorOK, TogglesAt
    <2>2. \A j \in 1 .. i : log'[t][j] = log[t][j]
      BY <1>0, <1>1, <1>2
    <2> QED
      BY <1>2, <2>1, <2>2, ToggledKeep
  <1>3. CASE i = Len(log[t]) + 1
    <2>1. PICK n \in Node, c \in Cells : n = e.n /\ c = e.c
      BY DEF Effects, Cells
    <2>2. Present(t, n, c) = Held(log[t], Len(log[t]), n, c, History(n, c, implicitStartTS))
      BY PresentIsHeld DEF PresentIs
    <2>3. History(n, c, implicitStartTS)' = History(n, c, implicitStartTS)
      BY StartTS DEF HistFixed
    <2>4. i - 1 = Len(log[t])
      BY <1>0, <1>3
    <2>a. PICK k \in Nat : k = Len(log[t]) /\ Alike(log[t], log'[t], k)
      BY <1>0, <1>1 DEF Alike
    <2>b. \A h : Held(log'[t], k, n, c, h) = Held(log[t], k, n, c, h)
      BY <2>a, HeldSame
    <2>5. \A h : Held(log'[t], Len(log[t]), n, c, h) = Held(log[t], Len(log[t]), n, c, h)
      BY <2>a, <2>b
    <2>6. Sound(n, c)' => Present(t, n, c) = ~e.v
      BY <2>1 DEF Sound
    <2>7. Sound(n, c)' =>
            Held(log'[t], i - 1, n, c, History(n, c, implicitStartTS)') = ~log'[t][i].v
      BY <1>1, <1>3, <2>2, <2>3, <2>4, <2>5, <2>6
    <2>8. n = log'[t][i].n /\ c = log'[t][i].c
      BY <1>1, <1>3, <2>1
    <2> QED
      BY <2>7, <2>8 DEF Toggled
  <1> QED
    BY <1>0, <1>1, <1>2, <1>3
----------------------------------------------------------------------------
(* The actor: what it has in hand.                                         *)

UndoHand == {"inverse", "setLabel", "die", "born"}

\* No effect is in hand.
Free(t) == pc[t] \notin MarkPc /\ (undoing[t] => pc[t] \notin UndoHand)

SameHand(t, n, c) ==
  /\ Pushed(t, n, c)' <=> Pushed(t, n, c)
  /\ Undoes(t, n, c)' <=> Undoes(t, n, c)
  /\ Pushed(t, n, c) \/ Undoes(t, n, c) => arg'[t] = arg[t] /\ undoing'[t] = undoing[t]

LEMMA FreeHands ==
  ASSUME NEW t, NEW n, NEW c
  PROVE  /\ Free(t) => ~Pushed(t, n, c) /\ ~Undoes(t, n, c)
         /\ Free(t)' => ~(Pushed(t, n, c)') /\ ~(Undoes(t, n, c)')
         /\ Free(t) /\ Free(t)' => SameHand(t, n, c)
  BY DEF Free, Pushed, Undoes, SameHand, MarkPc, UndoHand

\* Cells that the effect in hand is not about.
LEMMA OtherHands ==
  ASSUME NEW t, NEW n, NEW c,
         Free(t) \/ ~(arg[t].n = n /\ arg[t].c = c),
         Free(t)' \/ ~(arg'[t].n = n /\ arg'[t].c = c)
  PROVE  SameHand(t, n, c)
  <1>1. ~Pushed(t, n, c) /\ ~Undoes(t, n, c)
    BY FreeHands DEF Pushed, Undoes
  <1>2. ~(Pushed(t, n, c)') /\ ~(Undoes(t, n, c)')
    <2>1. CASE Free(t)'
      BY <2>1, FreeHands
    <2>2. CASE ~(arg'[t].n = n /\ arg'[t].c = c)
      BY <2>2 DEF Pushed, Undoes
    <2> QED
      BY <2>1, <2>2
  <1> QED
    BY <1>1, <1>2 DEF SameHand

LEMMA SameCell ==
  ASSUME NEW t, NEW n, NEW c, SameHand(t, n, c), Present(t, n, c)' = Present(t, n, c),
         NEW v, NEW v2, v2 = v, OwnCell(t, n, c, v)
  PROVE  OwnNext(t, n, c, v2)
  BY DEF SameHand, OwnCell, OwnNext

\* Who is healthy after the step had no conflict before it.
Sane(t) == Healthy(t)' => ~doomed[t] /\ rec[t] \in {"none", "open"}

LEMMA SaneMarked ==
  ASSUME StInv, NEW t \in Tx, Sane(t), Healthy(t)', NEW n \in Node,
         InLabels(t, n) \/ InLife(t, n)
  PROVE  Healthy(t)
  <1>1. Marked(t, n, Life) \/ \E l : l # Life /\ Marked(t, n, l)
    <2>1. CASE InLife(t, n)
      BY <2>1 DEF Marked
    <2>2. CASE InLabels(t, n)
      <3>1. PICK i \in DOMAIN chain[n] : chain[n][i].tx = t
        BY <2>2 DEF InLabels
      <3>2. chain[n][i].l \in Label
        <4>1. chain[n] \in Seq(LabelDelta) /\ DOMAIN chain[n] = 1 .. Len(chain[n])
          BY ChainType DEF StInv, LabelDelta
        <4>2. chain[n][i] \in LabelDelta
          BY <4>1, ElementOfSeq
        <4> QED
          BY <4>2 DEF LabelDelta
      <3> QED
        BY <2>2, <3>2, NamesAssumption DEF Marked
    <2> QED
      BY <2>1, <2>2
  <1>2. rec[t] # "none"
    BY <1>1, MarkedRecord
  <1> QED
    BY <1>2 DEF Sane, Healthy

LEMMA KeepLabels ==
  ASSUME StInv, StInv', HInv, NEW t \in Tx, Sane(t), NEW n \in Node, LabelsSame(n),
         \A l \in Label : Present(t, n, l)' = Present(t, n, l),
         Healthy(t) /\ InLabels(t, n) => \A l \in Label : SameHand(t, n, l)
  PROVE  OwnLabelsAt(t, n)'
  <1> SUFFICES ASSUME Healthy(t)', InLabels(t, n)', NEW l \in Label
               PROVE  OwnCell(t, n, l, l \in bag[n])'
    BY DEF OwnLabelsAt
  <1>1. InLabels(t, n)
    BY DEF LabelsSame, InLabels
  <1>2. Healthy(t)
    BY <1>1, SaneMarked
  <1>3. SameHand(t, n, l) /\ OwnCell(t, n, l, l \in bag[n])
    BY <1>1, <1>2, HInvIs DEF ActorOK, OwnLabelsAt
  <1>4. Present(t, n, l)' = Present(t, n, l)
    OBVIOUS
  <1>5. (l \in bag'[n]) = (l \in bag[n])
    BY DEF LabelsSame
  <1>6. OwnNext(t, n, l, l \in bag'[n])
    <2>1. \A v, v2 : v2 = v /\ OwnCell(t, n, l, v) => OwnNext(t, n, l, v2)
      BY <1>3, <1>4, SameCell
    <2> QED
      BY <1>3, <1>5, <2>1, Zenon
  <1> QED
    BY <1>6 DEF OwnNext, OwnCell

LEMMA CarryLabels ==
  ASSUME StInv, StInv', HInv, HistFixed, NEW t \in Tx, Sane(t), log'[t] = log[t],
         NEW n \in Node, LabelsSame(n),
         Healthy(t) /\ InLabels(t, n) => \A l \in Label : SameHand(t, n, l)
  PROVE  OwnLabelsAt(t, n)'
  <1>1. \A l \in Label : Present(t, n, l)' = Present(t, n, l)
    BY PresentSame DEF Cells
  <1> QED
    BY <1>1, KeepLabels

LEMMA AfterSame ==
  ASSUME NEW t, NEW n, LivesSame(n)
  PROVE  After(t, n)' = After(t, n) /\ (InLife(t, n)' <=> InLife(t, n))
  <1>1. SameFor(t, n)
    BY SameKeeps
  <1>2. After(t, n) \in BOOLEAN /\ After(t, n)' \in BOOLEAN
    BY DEF After
  <1> QED
    BY <1>1, <1>2 DEF SameFor

LEMMA KeepLife ==
  ASSUME StInv, StInv', HInv, torn \subseteq torn', NEW t \in Tx, Sane(t),
         NEW n \in Node, LivesSame(n),
         n \notin torn' => Present(t, n, Life)' = Present(t, n, Life),
         n \notin torn' /\ Healthy(t) /\ InLife(t, n) =>
           SameHand(t, n, Life) /\ tomb'[n] = tomb[n]
  PROVE  OwnLifeAt(t, n)'
  <1> SUFFICES ASSUME Healthy(t)', n \notin torn', InLife(t, n)'
               PROVE  /\ OwnCell(t, n, Life, After(t, n))'
                      /\ ~(Pushed(t, n, Life)') => tomb'[n] = ~(After(t, n)')
    BY DEF OwnLifeAt
  <1>1. After(t, n)' = After(t, n) /\ InLife(t, n)
    BY AfterSame
  <1>2. Healthy(t) /\ n \notin torn
    BY <1>1, SaneMarked
  <1>3. /\ SameHand(t, n, Life) /\ tomb'[n] = tomb[n]
        /\ OwnCell(t, n, Life, After(t, n))
        /\ ~Pushed(t, n, Life) => tomb[n] = ~After(t, n)
    BY <1>1, <1>2, HInvIs DEF ActorOK, OwnLifeAt
  <1>4. Present(t, n, Life)' = Present(t, n, Life)
    OBVIOUS
  <1>6. OwnNext(t, n, Life, After(t, n)')
    <2>1. \A v, v2 : v2 = v /\ OwnCell(t, n, Life, v) => OwnNext(t, n, Life, v2)
      BY <1>3, <1>4, SameCell
    <2> QED
      BY <1>1, <1>3, <2>1, Zenon
  <1>7. OwnCell(t, n, Life, After(t, n))'
    BY <1>6 DEF OwnNext, OwnCell
  <1> QED
    BY <1>1, <1>3, <1>7 DEF SameHand

LEMMA CarryLife ==
  ASSUME StInv, StInv', HInv, HistFixed, torn \subseteq torn', NEW t \in Tx, Sane(t),
         log'[t] = log[t], NEW n \in Node, LivesSame(n),
         n \notin torn' /\ Healthy(t) /\ InLife(t, n) =>
           SameHand(t, n, Life) /\ tomb'[n] = tomb[n]
  PROVE  OwnLifeAt(t, n)'
  <1>1. Present(t, n, Life)' = Present(t, n, Life)
    BY PresentSame DEF Cells
  <1> QED
    BY <1>1, KeepLife

\* A transaction that the step refuses, or that is over, owes less.
LEMMA SickActor ==
  ASSUME NEW t \in Tx, ~(Healthy(t)'), Free(t)', ReplayAt(t)', GoneAt(t)', pc'[t] # "lateBorn"
  PROVE  ActorOK(t)'
  <1>1. UndoMarkedAt(t)'
    BY FreeHands DEF UndoMarkedAt
  <1> QED
    BY <1>1 DEF ActorOK, TogglesAt, OwnLabelsAt, OwnLifeAt, LateAt
----------------------------------------------------------------------------
(* Steps that leave the store alone.                                       *)

StoreStill == UNCHANGED <<chain, bag, born, died, tomb, torn, owed>>

LEMMA NoGrowth ==
  ASSUME StInv, NEW t, NEW n \in Node, LivesSame(n)
  PROVE  ~LifeGrows(t, n)
  <1>1. Births(n)' = Births(n) /\ Deaths(n)' = Deaths(n)
    BY DEF LivesSame, Births, Deaths, ToSet
  <1>2. /\ NewestSeq(n) \in Nat
        /\ \A r \in Births(n) \union Deaths(n) : r.seq \in Nat /\ r.seq <= NewestSeq(n)
    BY NewestFacts, LifeSets, RecordsAre DEF StInv
  <1>3. ~BirthGrows(t, n)
    <2> SUFFICES ASSUME BirthGrows(t, n) PROVE FALSE
      OBVIOUS
    <2>1. PICK x : /\ Newborn(t, n, x)
                   /\ Births(n)' = {b \in Births(n) : b.tx # t} \union {x}
      BY DEF BirthGrows
    <2>2. x \in Births(n) /\ x.seq = NewestSeq(n) + 1
      BY <1>1, <2>1 DEF Newborn
    <2> QED
      BY <1>2, <2>2
  <1>4. ~DeathGrows(t, n)
    <2> SUFFICES ASSUME DeathGrows(t, n) PROVE FALSE
      OBVIOUS
    <2>1. PICK x : /\ Newborn(t, n, x)
                   /\ Deaths(n)' = {d \in Deaths(n) : d.tx # t} \union {x}
      BY DEF DeathGrows
    <2>2. x \in Deaths(n) /\ x.seq = NewestSeq(n) + 1
      BY <1>1, <2>1 DEF Newborn
    <2> QED
      BY <1>2, <2>2
  <1> QED
    BY <1>3, <1>4 DEF LifeGrows

LEMMA CalmStep ==
  ASSUME StInv, StInv', HInv, NEW t, Steady, NoCommit, \A x \in Tx : x # t => Still(x),
         StoreStill, t \in Tx => ActorOK(t)', SweepOK'
  PROVE  HInv'
  <1>1. \A n \in Node : LabelsSame(n) /\ LivesSame(n) /\ tomb'[n] = tomb[n] /\ owed'[n] = owed[n]
    BY DEF StoreStill, LabelsSame, LivesSame
  <1>2. torn \subseteq torn'
    BY DEF StoreStill
  <1>3. \A u \in Tx, n \in Node : RetainsAt(u, n)
    BY DEF StoreStill, RetainsAt, InLabels, InLife, Records, ToSet
  <1>4. \A n \in Node : LabelShape(t, n) /\ LifeShape(t, n)
    BY <1>1 DEF LabelShape, LifeShape
  <1>5. Advance(t)
    BY <1>2, <1>3, <1>4 DEF Advance
  <1>6. \A n \in Node : ~LifeGrows(t, n)
    BY <1>1, NoGrowth
  <1>7. \A n \in Node : TombAt(n)'
    BY <1>1, <1>2, TombSame
  <1>8. \A x \in Tx, n \in Node : x # t => OwnLifeAt(x, n)'
    BY <1>1, <1>2, <1>4, OwnLifeOther
  <1> QED
    BY <1>5, <1>6, <1>7, <1>8, AdvanceStep

\* A step of an operation, but for the store.
LEMMA OpStill ==
  ASSUME StInv, NEW t \in Tx, OpMove(t)
  PROVE  /\ Steady /\ NoCommit /\ Sane(t) /\ GoneAt(t)'
         /\ \A x \in Tx : x # t => Still(x)
         /\ pc[t] \notin {"withdraw", "idle"} /\ pc'[t] \notin {"withdraw", "idle"}
         /\ undoing' = undoing /\ UNCHANGED sweep /\ water' = water
         /\ rec[t] \in {"none", "open"} /\ rec'[t] \in {"none", "open"}
         /\ rec[t] = "none" => log[t] = <<>>
  <1>0. Base /\ TypeOK
    BY DEF StInv, Base
  <1>1. /\ Steady
        /\ \A x \in Tx : x # t => Unmoved(x)
        /\ rec'[t] \in {"none", "open"} /\ rec[t] \in {"none", "open"}
        /\ pc'[t] # "idle"
    BY <1>0, OpFrame
  <1>2. /\ pc[t] \in OpPc /\ UNCHANGED <<clock, session, sweep>>
        /\ doomed' = doomed \/ doomed' = [doomed EXCEPT ![t] = TRUE]
    BY DEF OpMove
  <1>3. doomed \in [Tx -> BOOLEAN]
    BY <1>0 DEF TypeOK
  <1>4. \A x \in Tx : x # t => doomed'[x] = doomed[x]
    BY <1>2, <1>3
  <1>5. \A x \in Tx : x # t => Still(x)
    BY <1>1, <1>4 DEF Still
  <1>6. NoCommit
    <2> SUFFICES ASSUME NEW u \in Tx
                 PROVE  /\ rec'[u] = "committed" <=> rec[u] = "committed"
                        /\ rec[u] = "committed" => at'[u] = at[u] /\ log'[u] = log[u]
      BY DEF NoCommit
    <2> QED
      BY <1>1 DEF Unmoved
  <1>7. Sane(t)
    <2>1. doomed[t] => doomed'[t]
      BY <1>2, <1>3
    <2> QED
      BY <1>1, <2>1 DEF Sane, Healthy
  <1>8. GoneAt(t)'
    BY <1>1 DEF GoneAt
  <1>9. pc[t] \notin {"withdraw", "idle"}
    BY <1>2 DEF OpPc, LabelPc, DeathPc, BirthPc
  <1>10. pc'[t] # "withdraw"
    <2>1. PICK p, e : pc' = [pc EXCEPT ![t] = p] /\ Target(t, p, e)
      BY DEF OpMove
    <2>2. pc'[t] = p
      BY <1>0, <2>1 DEF Base
    <2> QED
      BY <2>1, <2>2 DEF Target, LabelPc, DeathPc, BirthPc
  <1>11. rec[t] = "none" => log[t] = <<>>
    BY <1>0, Places DEF PlaceOK
  <1> QED
    BY <1>1, <1>2, <1>5, <1>6, <1>7, <1>8, <1>9, <1>10, <1>11 DEF session, sweep

LEMMA OpSweep ==
  ASSUME StInv, HInv, NEW t \in Tx, OpMove(t), \A n \in Node : claim'[n] \in {claim[n], t, NoTx}
  PROVE  SweepOK'
  <1>1. /\ \A x \in Tx : x # t => Still(x)
        /\ pc[t] # "withdraw" /\ pc'[t] # "withdraw" /\ UNCHANGED sweep
    BY OpStill
  <1>2. \A x \in Tx : x # t => pc'[x] = pc[x]
    BY <1>1 DEF Still, Unmoved
  <1>3. SweepOK /\ UNCHANGED <<owed, sweeper>>
    BY <1>1, HInvIs DEF sweep
  <1> QED
    BY <1>1, <1>2, <1>3, SweepSame

\* The hands of the actor where the invariant speaks of them.
HandsKept(t) ==
  \A n \in Node :
    /\ Healthy(t) /\ InLabels(t, n) => \A l \in Label : SameHand(t, n, l)
    /\ Healthy(t) /\ n \notin torn /\ InLife(t, n) => SameHand(t, n, Life)

LEMMA CalmOp ==
  ASSUME StInv, StInv', HInv, NEW t \in Tx, OpMove(t), log' = log, StoreStill,
         \A n \in Node : claim'[n] \in {claim[n], t},
         HandsKept(t), UndoMarkedAt(t)', ReplayAt(t)', LateAt(t)'
  PROVE  HInv'
  <1>1. /\ Steady /\ NoCommit /\ Sane(t) /\ GoneAt(t)'
        /\ \A x \in Tx : x # t => Still(x)
        /\ rec[t] = "none" => log[t] = <<>>
    BY OpStill
  <1>2. HistFixed
    BY <1>1, NoCommitFixed
  <1>3. /\ \A n \in Node : LabelsSame(n) /\ LivesSame(n) /\ tomb'[n] = tomb[n]
        /\ torn' = torn
    BY DEF StoreStill, LabelsSame, LivesSame
  <1>4. \A n \in Node : OwnLabelsAt(t, n)'
    BY <1>1, <1>2, <1>3, CarryLabels DEF HandsKept
  <1>5. \A n \in Node : OwnLifeAt(t, n)'
    BY <1>1, <1>2, <1>3, CarryLife DEF HandsKept
  <1>6. TogglesAt(t)'
    <2>1. Healthy(t)' => Healthy(t) \/ log'[t] = <<>>
      BY <1>1 DEF Sane, Healthy
    <2> QED
      BY <1>2, <1>3, <2>1, TogglesShorter
  <1>7. ActorOK(t)'
    BY <1>1, <1>4, <1>5, <1>6 DEF ActorOK
  <1>8. SweepOK'
    BY OpSweep
  <1> QED
    BY <1>1, <1>7, <1>8, CalmStep

\* Nothing in hand, before and after.
LEMMA CalmFree ==
  ASSUME StInv, StInv', HInv, NEW t \in Tx, OpMove(t), log' = log, StoreStill,
         \A n \in Node : claim'[n] \in {claim[n], t},
         Free(t), Free(t)', ReplayAt(t)', LateAt(t)'
  PROVE  HInv'
  <1>1. HandsKept(t)
    BY FreeHands DEF HandsKept
  <1>2. UndoMarkedAt(t)'
    BY FreeHands DEF UndoMarkedAt
  <1> QED
    BY <1>1, <1>2, CalmOp

LEMMA ReturnFree ==
  ASSUME StInv, NEW t \in Tx, Return(t), undoing' = undoing
  PROVE  Free(t)' /\ ReplayAt(t)' /\ LateAt(t)'
  <1>1. pc'[t] = IF t \in Implicit THEN "written" ELSE IF undoing[t] THEN "undo" ELSE "ready"
    BY DEF Return, Goto, StInv, Base
  <1> QED
    BY <1>1 DEF Free, ReplayAt, LateAt, MarkPc, UndoHand

\* An operation that is refused.
LEMMA CalmRefuse ==
  ASSUME StInv, StInv', HInv, NEW t \in Tx, pc[t] \in OpPc, Refuse(t),
         UNCHANGED <<clock, session, sweep>>, rec' = rec, StoreStill, UNCHANGED claim
  PROVE  HInv'
  <1>1. OpMove(t) /\ log' = log
    BY BackMove DEF StInv
  <1>2. /\ Steady /\ NoCommit /\ GoneAt(t)' /\ undoing' = undoing
        /\ \A x \in Tx : x # t => Still(x)
    BY <1>1, OpStill
  <1>3. Free(t)' /\ ReplayAt(t)' /\ pc'[t] # "lateBorn"
    <2>1. Return(t)
      BY DEF Refuse
    <2>2. pc'[t] = IF t \in Implicit THEN "written" ELSE IF undoing[t] THEN "undo" ELSE "ready"
      BY <2>1 DEF Return, Goto, StInv, Base
    <2> QED
      BY <1>2, <2>1, <2>2, ReturnFree
  <1>4. doomed'[t]
    BY DEF Refuse, StInv, Base, TypeOK
  <1>5. ActorOK(t)'
    BY <1>2, <1>3, <1>4, SickActor DEF Healthy
  <1>6. SweepOK'
    BY <1>1, OpSweep
  <1> QED
    BY <1>2, <1>5, <1>6, CalmStep

\* One that changes nothing.
LEMMA CalmNoOp ==
  ASSUME StInv, StInv', HInv, NEW t \in Tx, pc[t] \in OpPc, NoOp(t), Free(t),
         UNCHANGED <<clock, session, sweep>>, rec' = rec, StoreStill, UNCHANGED claim
  PROVE  HInv'
  <1>1. OpMove(t) /\ log' = log
    BY BackMove DEF StInv
  <1>2. undoing' = undoing
    BY <1>1, OpStill
  <1>3. Free(t)' /\ ReplayAt(t)' /\ LateAt(t)'
    BY <1>2, ReturnFree DEF NoOp
  <1> QED
    BY <1>1, <1>3, CalmFree

\* One that goes on.
LEMMA CalmProceed ==
  ASSUME StInv, StInv', HInv, NEW t \in Tx, pc[t] \in OpPc, Free(t),
         NEW p \in {"setLabel", "crossNoop", "claim", "die", "crossDead", "born", "flipLive"},
         NEW e, Proceed(t, p, e), Target(t, p, e), undoing[t] => p \notin UndoHand,
         UNCHANGED <<clock, session, sweep>>,
         rec' = rec \/ rec' = [rec EXCEPT ![t] = "open"],
         StoreStill, \A n \in Node : claim'[n] \in {claim[n], t}
  PROVE  HInv'
  <1>1. OpMove(t) /\ log' = log /\ pc'[t] = p
    BY ProceedMove DEF StInv
  <1>2. undoing' = undoing
    BY <1>1, OpStill
  <1>3. Free(t)' /\ ReplayAt(t)' /\ LateAt(t)'
    BY <1>1, <1>2 DEF Free, ReplayAt, LateAt, MarkPc
  <1> QED
    BY <1>1, <1>3, CalmFree
----------------------------------------------------------------------------
(* A label write.                                                          *)

\* The first label write of t on n finds the bag of the last commit.
LEMMA FirstLabels ==
  ASSUME StInv, HInv, NEW t \in Tx, pc[t] \in OpPc, NEW n \in Node, ~InLabels(t, n),
         ~Conflicts(t, LabelHead(n)), NEW l \in Label
  PROVE  (l \in bag[n]) = Present(t, n, l)
  <1>0. Base /\ Order /\ rec[t] # "committed" /\ rec[t] # "aborted"
    <2>1. pc[t] \in ActivePc => rec[t] \in {"none", "open"}
      BY Places DEF StInv, PlaceOK
    <2> QED
      BY <2>1 DEF StInv, ActivePc
  <1>1. Len(chain[n]) \in Nat /\ DOMAIN chain[n] = 1 .. Len(chain[n]) /\ Listed(chain[n])
    BY <1>0, ChainType
  <1>2. \A i \in DOMAIN chain[n] : Precedes(chain[n][i].tx, t)
    BY <1>0, AdmitLabel DEF InLabels
  <1>3. ReadsTo(n, implicitStartTS, 0)
    <2>1. 0 < Len(chain[n]) => Seen(chain[n][0 + 1].tx, implicitStartTS)
      <3> SUFFICES ASSUME 0 < Len(chain[n]) PROVE Seen(chain[n][1].tx, implicitStartTS)
        OBVIOUS
      <3>1. 1 \in DOMAIN chain[n]
        BY <1>1
      <3> QED
        BY <1>0, <1>1, <1>2, <3>1, PrecedesSeen DEF Listed
    <2>2. 0 <= Len(chain[n]) /\ 1 .. 0 = {}
      BY <1>1
    <2> QED
      BY <2>1, <2>2 DEF ReadsTo
  <1>4. water <= implicitStartTS /\ implicitStartTS \in Nat
    BY <1>0, Numbers, StartTS DEF implicitStartTS, Base, WaterOK
  <1>5. HistAt(n, implicitStartTS, 0)
    BY <1>4, HInvIs
  <1>6. (l \in Undone(n, 0)) = History(n, l, implicitStartTS)
    BY <1>3, <1>4, <1>5 DEF HistAt
  <1>7. ~Touches(t, n, l)
    <2>1. l \in Cells /\ l # Life
      BY NamesAssumption DEF Cells
    <2>2. Touches(t, n, l) => Marked(t, n, l) \/ Settled(t)
      BY <1>0, <2>1, TouchMarked
    <2> QED
      BY <1>0, <2>1, <2>2 DEF Marked, Settled
  <1> QED
    BY <1>0, <1>6, <1>7, UndoneNone DEF Present

LEMMA LabelPushHist ==
  ASSUME StInv, StInv', HInv, NEW t \in Tx, pc[t] \in {"ready", "inverse", "setLabel"},
         NEW e \in Effects, e.c # Life, undoing[t] => pc[t] # "ready" /\ arg[t] = e,
         NEW n \in Node, n = e.n, ~Conflicts(t, LabelHead(n)),
         (e.c \in bag[n]) # e.v,
         chain' = [chain EXCEPT ![n] = <<[tx |-> t, l |-> e.c, was |-> ~e.v]>> \o @],
         bag' = [bag EXCEPT ![n] = WithLabel(@, e.c, e.v)],
         OpenRecord(t), Proceed(t, "crossLife", e),
         UNCHANGED <<clock, session, lives, tomb, torn, sweep>>
  PROVE  HInv'
  <1>0. /\ Base /\ pc[t] \in OpPc /\ e.c \in Label /\ e.v \in BOOLEAN
        /\ pc[t] \notin MarkPc /\ "crossLife" \notin UndoHand
    BY DEF StInv, OpPc, LabelPc, Effects, MarkPc, UndoHand
  <1>1. OpMove(t) /\ log' = log /\ pc'[t] = "crossLife" /\ arg'[t] = e
    <2>1. rec' = [rec EXCEPT ![t] = "open"] /\ rec'[t] = "open"
      BY <1>0 DEF OpenRecord, Base, TypeOK
    <2>2. Target(t, "crossLife", e)
      BY <2>1 DEF Target, LabelPc
    <2> QED
      BY <1>0, <2>1, <2>2, ProceedMove
  <1>2. /\ Steady /\ NoCommit /\ Sane(t) /\ GoneAt(t)' /\ undoing' = undoing
        /\ \A x \in Tx : x # t => Still(x)
        /\ rec[t] = "none" => log[t] = <<>>
        /\ UNCHANGED sweep /\ rec[t] # "committed"
    BY <1>1, OpStill
  <1>3. HistFixed /\ ActorOK(t)
    BY <1>2, NoCommitFixed, HInvIs
  <1>4. /\ chain'[n] = <<[tx |-> t, l |-> e.c, was |-> ~e.v]>> \o chain[n]
        /\ bag'[n] = WithLabel(bag[n], e.c, e.v)
        /\ \A m \in Node : m # n => LabelsSame(m)
        /\ \A m \in Node : LivesSame(m) /\ tomb'[m] = tomb[m] /\ owed'[m] = owed[m]
        /\ torn' = torn /\ claim' = claim
    BY <1>0, <1>2, StoreSeqs DEF LabelsSame, LivesSame, lives, sweep
  <1> DEFINE d == [tx |-> t, l |-> e.c, was |-> ~e.v]
  <1>5. d \in LabelDelta /\ d.tx = t /\ d.was = (d.l \in bag[n]) /\ (~d.was) = e.v /\ d.l = e.c
    <2>1. d.tx = t /\ d.l = e.c /\ d.was = ~e.v
      OBVIOUS
    <2>2. (~e.v) = (e.c \in bag[n]) /\ (~~e.v) = e.v /\ (~e.v) \in BOOLEAN
      BY <1>0
    <2>3. d \in LabelDelta
      BY <1>0, <2>2 DEF LabelDelta
    <2> QED
      BY <2>1, <2>2, <2>3
  <1>6. LabelGrows(t, n)
    <2> HIDE DEF d
    <2>1. chain'[n] = <<d>> \o chain[n]
      BY <1>4 DEF d
    <2> QED
      BY <1>4, <1>5, <2>1 DEF LabelGrows
  <1>7. \A m \in Node : LabelShape(t, m) /\ LifeShape(t, m)
    BY <1>0, <1>4, <1>6 DEF LabelShape, LifeShape
  <1>8. \A u \in Tx, m \in Node : RetainsAt(u, m)
    <2> HIDE DEF d
    <2>1. LabelPush(t, n)
      <3>1. chain' = [chain EXCEPT ![n] = <<d>> \o @]
        BY DEF d
      <3>2. UNCHANGED <<born, died, claim>>
        BY DEF lives
      <3> QED
        BY <1>5, <3>1, <3>2 DEF LabelPush
    <2> QED
      BY <1>0, <2>1, LabelPushRetains
  <1>9. Advance(t)
    BY <1>2, <1>4, <1>7, <1>8 DEF Advance
  <1>10. \A l : ~(Undoes(t, n, l)') /\ (Pushed(t, n, l)' <=> l = e.c)
    BY <1>1 DEF Undoes, Pushed
  <1>11. \A m, c : ~Pushed(t, m, c) /\ (Undoes(t, m, c) <=> undoing[t] /\ m = n /\ c = e.c)
    BY <1>0 DEF Pushed, Undoes, MarkPc
  <1>12. \A m \in Node, c \in Cells : m # n \/ c # e.c => SameHand(t, m, c)
    BY <1>1, <1>11 DEF SameHand, Pushed, Undoes
  <1>13. OwnLabelsAt(t, n)'
    <2> SUFFICES ASSUME Healthy(t)', NEW l \in Label
                 PROVE  OwnCell(t, n, l, l \in bag[n])'
      BY DEF OwnLabelsAt
    <2>1. Present(t, n, l)' = Present(t, n, l)
      BY <1>1, <1>3, PresentSame DEF Cells
    <2>2. undoing[t] => InLabels(t, n)
      <3>1. UndoMarkedAt(t) /\ e.c \in Cells
        BY <1>0, <1>3 DEF ActorOK, Cells
      <3>2. undoing[t] => Undoes(t, n, e.c)
        BY <1>11
      <3> QED
        BY <3>1, <3>2 DEF UndoMarkedAt, Marked
    <2>3. Present(t, n, l) = IF undoing[t] /\ l = e.c THEN ~(l \in bag[n]) ELSE (l \in bag[n])
      <3>0. (l \in bag[n]) \in BOOLEAN
        OBVIOUS
      <3>1. CASE InLabels(t, n)
        <4>1. Healthy(t)
          BY <1>2, <3>1, SaneMarked
        <4>2. OwnCell(t, n, l, l \in bag[n])
          BY <1>3, <3>1, <4>1 DEF ActorOK, OwnLabelsAt
        <4>3. CASE undoing[t] /\ l = e.c
          <5>1. Undoes(t, n, l)
            BY <1>11, <4>3
          <5>2. Present(t, n, l) = ~(l \in bag[n])
            BY <4>2, <5>1 DEF OwnCell
          <5> QED
            BY <4>3, <5>2
        <4>4. CASE ~(undoing[t] /\ l = e.c)
          <5>1. ~Undoes(t, n, l) /\ ~Pushed(t, n, l)
            BY <1>11, <4>4
          <5>2. (l \in bag[n]) = Present(t, n, l)
            BY <4>2, <5>1 DEF OwnCell
          <5> QED
            BY <4>4, <5>2
        <4> QED
          BY <4>3, <4>4
      <3>2. CASE ~InLabels(t, n)
        <4>1. (l \in bag[n]) = Present(t, n, l)
          BY <1>0, <3>2, FirstLabels
        <4> QED
          BY <2>2, <3>2, <4>1
      <3> QED
        BY <3>1, <3>2
    <2>4. CASE l = e.c
      <3>1. (l \in bag'[n]) = e.v
        BY <1>0, <1>4, <2>4 DEF WithLabel
      <3>2. (l \in bag[n]) = ~e.v
        BY <1>0, <2>4
      <3>a. (~(l \in bag[n])) = e.v
        BY <1>0, <3>2
      <3>3. Present(t, n, l)' = IF undoing'[t] THEN e.v ELSE ~e.v
        BY <1>2, <2>1, <2>3, <2>4, <3>2, <3>a
      <3>4. OwnNext(t, n, l, l \in bag'[n])
        BY <1>0, <1>1, <1>10, <2>4, <3>1, <3>3 DEF OwnNext
      <3> QED
        BY <3>4 DEF OwnNext, OwnCell
    <2>5. CASE l # e.c
      <3>1. (l \in bag'[n]) = (l \in bag[n])
        BY <1>4, <2>5 DEF WithLabel
      <3>2. (l \in bag'[n]) = Present(t, n, l)'
        BY <2>1, <2>3, <2>5, <3>1
      <3>4. OwnNext(t, n, l, l \in bag'[n])
        BY <1>10, <2>5, <3>2 DEF OwnNext
      <3> QED
        BY <3>4 DEF OwnNext, OwnCell
    <2> QED
      BY <2>4, <2>5
  <1>14. ASSUME NEW m \in Node, m # n PROVE OwnLabelsAt(t, m)'
    <2>1. \A l \in Label : SameHand(t, m, l)
      BY <1>12, <1>14 DEF Cells
    <2> QED
      BY <1>1, <1>2, <1>3, <1>4, <1>14, <2>1, CarryLabels
  <1>15. ASSUME NEW m \in Node PROVE OwnLifeAt(t, m)'
    <2>1. SameHand(t, m, Life)
      BY <1>12 DEF Cells
    <2> QED
      BY <1>1, <1>2, <1>3, <1>4, <2>1, CarryLife
  <1>16. TogglesAt(t)'
    <2>1. Healthy(t)' => Healthy(t) \/ log'[t] = <<>>
      BY <1>1, <1>2 DEF Sane, Healthy
    <2> QED
      BY <1>1, <1>3, <1>4, <2>1, TogglesShorter
  <1>17. UndoMarkedAt(t)' /\ ReplayAt(t)' /\ LateAt(t)'
    BY <1>1 DEF UndoMarkedAt, Undoes, ReplayAt, LateAt
  <1>18. ActorOK(t)'
    BY <1>2, <1>13, <1>14, <1>15, <1>16, <1>17 DEF ActorOK
  <1>19. SweepOK'
    BY <1>1, <1>4, OpSweep
  <1>20. \A m \in Node : ~LifeGrows(t, m) /\ TombAt(m)'
    BY <1>2, <1>4, NoGrowth, TombSame
  <1>21. \A x \in Tx, m \in Node : x # t => OwnLifeAt(x, m)'
    BY <1>2, <1>4, <1>7, OwnLifeOther
  <1> QED
    BY <1>9, <1>18, <1>19, <1>20, <1>21, AdvanceStep
----------------------------------------------------------------------------
(* The start of an operation, or of an inverse.                            *)

\* An inverse that goes on.
LEMMA CalmInverse ==
  ASSUME StInv, StInv', HInv, NEW t \in Tx, pc[t] = "inverse", undoing[t],
         NEW p \in {"setLabel", "die", "born"},
         Proceed(t, p, arg[t]), Target(t, p, arg[t]),
         UNCHANGED <<clock, session, sweep>>, rec' = rec, StoreStill, UNCHANGED claim
  PROVE  HInv'
  <1>0. Base /\ pc[t] \in OpPc
    BY DEF StInv, OpPc
  <1>1. OpMove(t) /\ log' = log /\ pc'[t] = p /\ arg'[t] = arg[t]
    BY <1>0, ProceedMove
  <1>2. undoing' = undoing /\ ActorOK(t)
    BY <1>1, OpStill, HInvIs
  <1>3. \A n, c : SameHand(t, n, c)
    BY <1>1, <1>2 DEF SameHand, Pushed, Undoes
  <1>4. UndoMarkedAt(t)'
    <2>1. \A n \in Node, c \in Cells : Undoes(t, n, c)' => Marked(t, n, c)
      BY <1>2, <1>3 DEF ActorOK, UndoMarkedAt, SameHand
    <2>2. \A n, c : Marked(t, n, c)' <=> Marked(t, n, c)
      BY DEF StoreStill, Marked, InLife, InLabels, Records, ToSet
    <2> QED
      BY <2>1, <2>2 DEF UndoMarkedAt
  <1>5. ReplayAt(t)' /\ LateAt(t)' /\ HandsKept(t)
    BY <1>1, <1>3 DEF ReplayAt, LateAt, HandsKept
  <1> QED
    BY <1>1, <1>4, <1>5, CalmOp

\* An inverse that finds nothing to do: not of an effect that is in place.
LEMMA CalmVoid ==
  ASSUME StInv, StInv', HInv, NEW t \in Tx, pc[t] \in {"inverse", "setLabel"}, undoing[t],
         arg[t] \in Effects,
         NEW p \in {"crossNoop", "claim", "flipLive"},
         Proceed(t, p, arg[t]), Target(t, p, arg[t]),
         UNCHANGED <<clock, session, sweep>>, rec' = rec, StoreStill, UNCHANGED claim,
         arg[t].c # Life => (arg[t].c \in bag[arg[t].n]) = arg[t].v,
         arg[t].c = Life => tomb[arg[t].n] = ~arg[t].v
  PROVE  HInv'
  <1>0. Base /\ pc[t] \in OpPc
    BY DEF StInv, OpPc, LabelPc
  <1>1. OpMove(t) /\ log' = log /\ pc'[t] = p
    BY <1>0, ProceedMove
  <1>2. undoing' = undoing /\ ActorOK(t)
    BY <1>1, OpStill, HInvIs
  <1>3. Free(t)'
    BY <1>1 DEF Free, MarkPc, UndoHand
  <1> DEFINE n == arg[t].n
             c == arg[t].c
  <1>4. n \in Node /\ c \in Cells /\ arg[t].v \in BOOLEAN /\ (c # Life => c \in Label)
    BY DEF Effects, Cells
  <1>5. Undoes(t, n, c) /\ ~Pushed(t, n, c)
    BY DEF Undoes, Pushed
  <1>6. ~(c # Life /\ Healthy(t) /\ InLabels(t, n))
    <2> SUFFICES ASSUME c # Life, Healthy(t), InLabels(t, n) PROVE FALSE
      OBVIOUS
    <2>1. OwnCell(t, n, c, c \in bag[n])
      BY <1>2, <1>4 DEF ActorOK, OwnLabelsAt
    <2>2. (c \in bag[n]) = ~arg[t].v
      BY <1>5, <2>1 DEF OwnCell
    <2>3. (c \in bag[n]) = arg[t].v
      OBVIOUS
    <2> QED
      BY <1>4, <2>2, <2>3
  <1>7. ~(c = Life /\ Healthy(t) /\ n \notin torn /\ InLife(t, n))
    <2> SUFFICES ASSUME c = Life, Healthy(t), n \notin torn, InLife(t, n) PROVE FALSE
      OBVIOUS
    <2>1. OwnCell(t, n, Life, After(t, n)) /\ tomb[n] = ~After(t, n)
      BY <1>2, <1>4, <1>5 DEF ActorOK, OwnLifeAt
    <2>2. After(t, n) = ~arg[t].v
      BY <1>5, <2>1 DEF OwnCell
    <2>3. tomb[n] = ~arg[t].v
      OBVIOUS
    <2> QED
      BY <1>4, <2>1, <2>2, <2>3
  <1>8. HandsKept(t)
    <2> SUFFICES ASSUME NEW m \in Node
                 PROVE  /\ Healthy(t) /\ InLabels(t, m) => \A l \in Label : SameHand(t, m, l)
                        /\ Healthy(t) /\ m \notin torn /\ InLife(t, m) => SameHand(t, m, Life)
      BY DEF HandsKept
    <2>1. \A x : m # n \/ x # c => SameHand(t, m, x)
      BY <1>3, OtherHands
    <2>2. \A l \in Label : l # Life
      BY NamesAssumption
    <2> HIDE DEF n, c
    <2> QED
      BY <1>6, <1>7, <2>1, <2>2
  <1>9. UndoMarkedAt(t)' /\ ReplayAt(t)' /\ LateAt(t)'
    BY <1>1, <1>3, FreeHands DEF UndoMarkedAt, ReplayAt, LateAt
  <1> QED
    BY <1>1, <1>8, <1>9, CalmOp

LEMMA ClaimLabelHist ==
  ASSUME StInv, StInv', HInv, NEW t \in Tx, pc[t] \in {"ready", "inverse", "setLabel"},
         NEW e \in Effects, e.c # Life, undoing[t] => pc[t] # "ready" /\ arg[t] = e,
         ClaimLabel(t, e), UNCHANGED <<clock, session, lives, tomb, torn, sweep>>
  PROVE  HInv'
  <1>0. pc[t] \in OpPc /\ e.n \in Node /\ (~undoing[t] => Free(t))
    BY DEF OpPc, LabelPc, Effects, Free, MarkPc
  <1>1. CASE Conflicts(t, LabelHead(e.n)) /\ Refuse(t) /\ UNCHANGED <<rec, labels>>
    <2>1. StoreStill /\ UNCHANGED claim /\ rec' = rec
      BY <1>1 DEF StoreStill, labels, lives, sweep
    <2> QED
      BY <1>0, <1>1, <2>1, CalmRefuse
  <1>2. CASE /\ (e.c \in bag[e.n]) = e.v /\ Proceed(t, "crossNoop", e)
             /\ UNCHANGED <<rec, labels>>
    <2>1. StoreStill /\ UNCHANGED claim /\ rec' = rec /\ Target(t, "crossNoop", e)
      BY <1>2 DEF StoreStill, labels, lives, sweep, Target, LabelPc
    <2>2. CASE undoing[t]
      BY <1>2, <2>1, <2>2, CalmVoid
    <2>3. CASE ~undoing[t]
      BY <1>0, <1>2, <2>1, <2>3, CalmProceed
    <2> QED
      BY <2>2, <2>3
  <1>3. CASE /\ ~Conflicts(t, LabelHead(e.n))
             /\ (e.c \in bag[e.n]) # e.v
             /\ chain' = [chain EXCEPT ![e.n] = <<[tx |-> t, l |-> e.c, was |-> ~e.v]>> \o @]
             /\ bag' = [bag EXCEPT ![e.n] = WithLabel(@, e.c, e.v)]
             /\ OpenRecord(t)
             /\ Proceed(t, "crossLife", e)
    <2>1. PICK n \in Node : n = e.n
      BY <1>0
    <2> QED
      BY <1>3, <2>1, LabelPushHist
  <1> QED
    BY <1>1, <1>2, <1>3 DEF ClaimLabel

LEMMA AddLabelHist ==
  ASSUME StInv, StInv', HInv, NEW t \in Tx, AddLabel(t)
  PROVE  HInv'
  <1>1. /\ pc[t] = "setLabel" /\ ClaimLabel(t, arg[t])
        /\ UNCHANGED <<clock, session, lives, tomb, torn, sweep>>
    BY DEF AddLabel
  <1>2. arg[t] \in Effects /\ arg[t].c # Life
    BY <1>1, Places DEF StInv, ArgOK, LabelPc
  <1> QED
    BY <1>1, <1>2, ClaimLabelHist

\* An operation that starts, or an inverse.
LEMMA CallHist ==
  ASSUME StInv, StInv', HInv, NEW t \in Tx, pc[t] \in {"ready", "inverse"},
         NEW e \in Effects, undoing[t] => pc[t] = "inverse" /\ arg[t] = e,
         Call(t, e), UNCHANGED <<clock, session, lives, tomb, torn, sweep>>
  PROVE  HInv'
  <1>0. /\ pc[t] \in OpPc /\ e.n \in Node /\ (~undoing[t] => Free(t)) /\ e.v \in BOOLEAN
        /\ tomb[e.n] \in BOOLEAN
    BY StoreSeqs DEF OpPc, Effects, Free, MarkPc, StInv
  <1>1. CASE e.c = Life /\ ~e.v /\ RemoveNode(t, e)
    <2>1. UNCHANGED <<rec, labels>> /\ Proceed(t, IF tomb[e.n] THEN "claim" ELSE "die", e)
      BY <1>1 DEF RemoveNode
    <2>2. StoreStill /\ UNCHANGED claim /\ rec' = rec
      BY <2>1 DEF StoreStill, labels, lives, sweep
    <2>3. Target(t, "claim", e) /\ Target(t, "die", e)
      BY <1>0, <1>1 DEF Target, DeathPc
    <2>4. CASE undoing[t] /\ tomb[e.n]
      <3>1. tomb[arg[t].n] = ~arg[t].v
        BY <1>0, <1>1, <2>4
      <3> QED
        BY <1>1, <2>1, <2>2, <2>3, <2>4, <3>1, CalmVoid
    <2>5. CASE undoing[t] /\ ~tomb[e.n]
      BY <2>1, <2>2, <2>3, <2>5, CalmInverse
    <2>6. CASE ~undoing[t]
      <3>1. PICK p \in {"claim", "die"} : Proceed(t, p, e) /\ Target(t, p, e)
        BY <2>1, <2>3
      <3> QED
        BY <1>0, <2>2, <2>6, <3>1, CalmProceed
    <2> QED
      BY <2>4, <2>5, <2>6
  <1>2. CASE e.c # Life /\ e.v /\ SetNodeLabel(t, e)
    <2>1. UNCHANGED <<rec, labels>> /\ (Refuse(t) \/ Proceed(t, "setLabel", e))
      BY <1>2 DEF SetNodeLabel
    <2>2. StoreStill /\ UNCHANGED claim /\ rec' = rec /\ Target(t, "setLabel", e)
      BY <1>2, <2>1 DEF StoreStill, labels, lives, sweep, Target, LabelPc
    <2>3. CASE Refuse(t)
      BY <1>0, <2>2, <2>3, CalmRefuse
    <2>4. CASE Proceed(t, "setLabel", e) /\ undoing[t]
      BY <2>2, <2>4, CalmInverse
    <2>5. CASE Proceed(t, "setLabel", e) /\ ~undoing[t]
      BY <1>0, <2>2, <2>5, CalmProceed
    <2> QED
      BY <2>1, <2>3, <2>4, <2>5
  <1>3. CASE e.c # Life /\ ~e.v /\ RemoveNodeLabel(t, e)
    BY <1>3, ClaimLabelHist DEF RemoveNodeLabel
  <1> QED
    BY <1>1, <1>2, <1>3 DEF Call

LEMMA ReviveHist ==
  ASSUME StInv, StInv', HInv, NEW t \in Tx, pc[t] \in {"ready", "inverse"},
         NEW e \in Effects, undoing[t] => pc[t] = "inverse" /\ arg[t] = e, Reviving(e),
         Revive(t, e), UNCHANGED <<clock, session, lives, tomb, torn, sweep>>
  PROVE  HInv'
  <1>0. /\ pc[t] \in OpPc /\ e.n \in Node /\ (~undoing[t] => Free(t)) /\ e.v \in BOOLEAN
        /\ tomb[e.n] \in BOOLEAN /\ e.c = Life /\ e.v
    BY StoreSeqs DEF OpPc, Effects, Free, MarkPc, StInv, Reviving
  <1>1. UNCHANGED <<rec, labels>>
    BY DEF Revive
  <1>2. StoreStill /\ UNCHANGED claim /\ rec' = rec
    BY <1>1 DEF StoreStill, labels, lives, sweep
  <1>3. Target(t, "born", e) /\ Target(t, "flipLive", e)
    BY <1>0 DEF Target, BirthPc
  <1>4. CASE Refuse(t)
    BY <1>0, <1>2, <1>4, CalmRefuse
  <1>5. CASE tomb[e.n] /\ Proceed(t, "born", e)
    <2>1. CASE undoing[t]
      BY <1>2, <1>3, <1>5, <2>1, CalmInverse
    <2>2. CASE ~undoing[t]
      BY <1>0, <1>2, <1>3, <1>5, <2>2, CalmProceed
    <2> QED
      BY <2>1, <2>2
  <1>6. CASE ~tomb[e.n] /\ Proceed(t, "flipLive", e)
    <2>1. CASE undoing[t]
      <3>1. tomb[arg[t].n] = ~arg[t].v
        BY <1>0, <1>6, <2>1
      <3> QED
        BY <1>0, <1>2, <1>3, <1>6, <2>1, <3>1, CalmVoid
    <2>2. CASE ~undoing[t]
      BY <1>0, <1>2, <1>3, <1>6, <2>2, CalmProceed
    <2> QED
      BY <2>1, <2>2
  <1>7. CASE t \in Implicit /\ NoOp(t)
    <2>1. ~undoing[t]
      BY <1>7, Places, KindsDisjoint DEF StInv, PlaceOK
    <2> QED
      BY <1>0, <1>2, <1>7, <2>1, CalmNoOp
  <1> QED
    BY <1>4, <1>5, <1>6, <1>7 DEF Revive

LEMMA OperateHist ==
  ASSUME StInv, StInv', HInv, NEW t \in Tx, Operate(t)
  PROVE  HInv'
  <1>1. pc[t] = "ready" /\ UNCHANGED <<clock, session, lives, tomb, torn, sweep>>
    BY DEF Operate
  <1>2. ~undoing[t]
    BY <1>1, HInvIs DEF ActorOK, ReplayAt
  <1>3. PICK e \in Effects : Call(t, e) \/ (Reviving(e) /\ AddNode(t, e))
    BY DEF Operate
  <1>4. CASE Call(t, e)
    BY <1>1, <1>2, <1>4, CallHist
  <1>5. CASE Reviving(e) /\ Revive(t, e)
    BY <1>1, <1>2, <1>5, ReviveHist
  <1>6. CASE (Refuse(t) \/ NoOp(t)) /\ UNCHANGED <<rec, labels>>
    <2>1. StoreStill /\ UNCHANGED claim /\ rec' = rec
      BY <1>1, <1>6 DEF StoreStill, labels, lives, sweep
    <2>2. pc[t] \in OpPc /\ Free(t)
      BY <1>1, <1>2 DEF OpPc, Free, MarkPc
    <2> QED
      BY <1>1, <1>6, <2>1, <2>2, CalmRefuse, CalmNoOp
  <1> QED
    BY <1>3, <1>4, <1>5, <1>6 DEF AddNode

LEMMA RunInverseHist ==
  ASSUME StInv, StInv', HInv, NEW t \in Tx, RunInverse(t)
  PROVE  HInv'
  <1>1. /\ pc[t] = "inverse" /\ UNCHANGED <<clock, session, lives, tomb, torn, sweep>>
        /\ Call(t, arg[t]) \/ (Reviving(arg[t]) /\ Revive(t, arg[t]))
    BY DEF RunInverse
  <1>2. arg[t] \in Effects
    BY <1>1, Places DEF StInv, ArgOK
  <1>3. CASE Call(t, arg[t])
    BY <1>1, <1>2, <1>3, CallHist
  <1>4. CASE Reviving(arg[t]) /\ Revive(t, arg[t])
    BY <1>1, <1>2, <1>4, ReviveHist
  <1> QED
    BY <1>1, <1>3, <1>4
----------------------------------------------------------------------------
(* The checks, the flips, and the journal.                                 *)

\* A step that may flip a tombstone, or settle what is owed.
LEMMA TombStep ==
  ASSUME StInv, StInv', HInv, NEW t, Steady, NoCommit, \A x \in Tx : x # t => Still(x),
         UNCHANGED <<chain, bag, born, died>>, torn \subseteq torn',
         \A x \in Tx, n \in Node :
           x # t /\ n \notin torn' /\ Healthy(x) /\ InLife(x, n) => tomb'[n] = tomb[n],
         \A n \in Node : TombAt(n)', t \in Tx => ActorOK(t)', SweepOK'
  PROVE  HInv'
  <1>1. \A n \in Node : LabelsSame(n) /\ LivesSame(n)
    BY DEF LabelsSame, LivesSame
  <1>3. \A u \in Tx, n \in Node : RetainsAt(u, n)
    BY DEF RetainsAt, InLabels, InLife, Records, ToSet
  <1>4. \A n \in Node : LabelShape(t, n) /\ LifeShape(t, n)
    BY <1>1 DEF LabelShape, LifeShape
  <1>5. Advance(t)
    BY <1>3, <1>4 DEF Advance
  <1>6. \A n \in Node : ~LifeGrows(t, n)
    BY <1>1, NoGrowth
  <1>8. \A x \in Tx, n \in Node : x # t => OwnLifeAt(x, n)'
    BY <1>4, OwnLifeOther
  <1> QED
    BY <1>5, <1>6, <1>8, AdvanceStep

\* The effect in hand has its version.
LEMMA PushedMarked ==
  ASSUME StInv, NEW t \in Tx, rec[t] = "open", NEW n \in Node, NEW c \in Cells, Pushed(t, n, c)
  PROVE  Marked(t, n, c)
  <1>1. KeptOK(t, n) /\ ~Settled(t) /\ ArgOK(t)
    BY Places DEF StInv, Kept, Settled
  <1>2. CASE c # Life
    <2>1. pc[t] = "crossLife"
      BY <1>1, <1>2 DEF Pushed, ArgOK, DeathPc, BirthPc
    <2> QED
      BY <1>1, <1>2, <2>1 DEF KeptOK, LabelMark, Pushed, Marked
  <1>3. CASE c = Life
    <2>1. pc[t] \in {"crossDied", "flipDead", "flipBorn"}
      BY <1>1, <1>3 DEF Pushed, ArgOK, LabelPc
    <2> QED
      BY <1>1, <1>3, <2>1 DEF KeptOK, LifeMark, Pushed, Marked
  <1> QED
    BY <1>2, <1>3

\* A tombstone that t flips under its own record is of no other open writer.
LEMMA FlipOthers ==
  ASSUME StInv, NEW t \in Tx, rec[t] = "open", NEW n \in Node, InLife(t, n),
         NEW x \in Tx, x # t, InLife(x, n)
  PROVE  ~Healthy(x)
  <1>1. Precedes(x, t)
    BY UnderOpen DEF Marked
  <1> QED
    BY <1>1 DEF Precedes, Healthy

\* The effect in hand is journalled, unless it is an inverse.
LEMMA EffectHist ==
  ASSUME StInv, StInv', HInv, NEW t \in Tx, pc[t] \in {"crossLife", "flipDead", "flipBorn"},
         Effect(t), UNCHANGED <<clock, rec, session, labels, lives, torn, sweep>>,
         NEW n \in Node, n = arg[t].n, NEW c \in Cells, c = arg[t].c,
         tomb' = IF c = Life THEN [tomb EXCEPT ![n] = ~arg[t].v] ELSE tomb
  PROVE  HInv'
  <1>0. /\ Base /\ pc[t] \in OpPc /\ arg[t] \in Effects /\ rec[t] = "open"
        /\ arg[t].v \in BOOLEAN
    <2>1. Base /\ ArgOK(t) /\ PlaceOK(t)
      BY Places DEF StInv
    <2>2. arg[t] \in Effects /\ rec[t] = "open"
      BY <2>1 DEF ArgOK, PlaceOK, LabelPc, DeathPc, BirthPc
    <2> QED
      BY <2>1, <2>2 DEF OpPc, LabelPc, DeathPc, BirthPc, Effects
  <1>1. OpMove(t) /\ rec' = rec
    BY <1>0, EffectMove
  <1>2. /\ Steady /\ NoCommit /\ Sane(t) /\ GoneAt(t)' /\ undoing' = undoing
        /\ \A x \in Tx : x # t => Still(x)
    BY <1>1, OpStill
  <1>3. HistFixed /\ ActorOK(t)
    BY <1>2, NoCommitFixed, HInvIs
  <1>4. Return(t) /\ Free(t)' /\ ReplayAt(t)' /\ LateAt(t)'
    BY <1>2, ReturnFree DEF Effect
  <1>5. /\ undoing[t] => log'[t] = log[t]
        /\ ~undoing[t] => log'[t] = Append(log[t], arg[t])
        /\ doomed' = doomed
    BY <1>0 DEF Effect, Base, TypeOK
  <1>6. /\ UNCHANGED <<chain, bag, born, died, owed, claim>> /\ torn' = torn
        /\ \A m \in Node : LabelsSame(m) /\ LivesSame(m) /\ owed'[m] = owed[m]
        /\ \A m \in Node : m # n => tomb'[m] = tomb[m]
        /\ c # Life => tomb' = tomb
        /\ c = Life => tomb'[n] = ~arg[t].v
    BY <1>0, StoreSeqs DEF labels, lives, sweep, LabelsSame, LivesSame
  <1>7. Pushed(t, n, c) /\ Marked(t, n, c)
    BY <1>0, PushedMarked DEF Pushed
  <1>8. \A m, x : m # n \/ x # c => SameHand(t, m, x)
    BY <1>4, OtherHands
  <1>9. \A m \in Node, x \in Cells :
          Present(t, m, x)' = IF m = n /\ x = c /\ ~undoing[t] THEN arg[t].v ELSE Present(t, m, x)
    <2> TAKE m \in Node, x \in Cells
    <2>1. CASE undoing[t]
      <3>1. Present(t, m, x)' = Present(t, m, x)
        BY <1>3, <1>5, <2>1, PresentSame
      <3> QED
        BY <2>1, <3>1
    <2>2. CASE ~undoing[t]
      <3>1. Present(t, m, x)' = IF arg[t].n = m /\ arg[t].c = x THEN arg[t].v ELSE Present(t, m, x)
        BY <1>0, <1>3, <1>5, <2>2, PresentAppend
      <3> QED
        BY <2>2, <3>1
    <2> QED
      BY <2>1, <2>2
  \* The cell of the effect.
  <1>10. ASSUME NEW v, OwnCell(t, n, c, v) PROVE OwnNext(t, n, c, v) /\ v = arg[t].v
    <2>1. v = arg[t].v /\ Present(t, n, c) = IF undoing[t] THEN v ELSE ~v
      BY <1>7, <1>10 DEF OwnCell
    <2>2. Present(t, n, c)' = v
      BY <1>9, <2>1
    <2>3. ~(Pushed(t, n, c)') /\ ~(Undoes(t, n, c)')
      BY <1>4, FreeHands
    <2> QED
      BY <2>1, <2>2, <2>3 DEF OwnNext
  <1>11. ASSUME NEW m \in Node PROVE OwnLabelsAt(t, m)'
    <2> SUFFICES ASSUME Healthy(t)', InLabels(t, m)', NEW l \in Label
                 PROVE  OwnCell(t, m, l, l \in bag[m])'
      BY DEF OwnLabelsAt
    <2>1. InLabels(t, m) /\ Healthy(t) /\ l \in Cells
      BY <1>1, <1>5, <1>6 DEF InLabels, Healthy, Cells
    <2>2. OwnCell(t, m, l, l \in bag[m])
      BY <1>3, <2>1 DEF ActorOK, OwnLabelsAt
    <2>3. OwnNext(t, m, l, l \in bag[m])
      <3>1. CASE m = n /\ l = c
        <4>1. OwnCell(t, n, c, c \in bag[n])
          BY <2>2, <3>1
        <4>2. OwnNext(t, n, c, c \in bag[n])
          BY <1>10, <4>1, Zenon
        <4> QED
          BY <3>1, <4>2
      <3>2. CASE m # n \/ l # c
        <4>1. SameHand(t, m, l) /\ Present(t, m, l)' = Present(t, m, l)
          BY <1>8, <1>9, <2>1, <3>2
        <4>2. \A v, v2 : v2 = v /\ OwnCell(t, m, l, v) => OwnNext(t, m, l, v2)
          BY <4>1, SameCell
        <4> QED
          BY <2>2, <4>2, Zenon
      <3> QED
        BY <3>1, <3>2
    <2>4. bag' = bag
      BY <1>6
    <2> QED
      BY <2>3, <2>4 DEF OwnNext, OwnCell
  <1>12. ASSUME NEW m \in Node PROVE OwnLifeAt(t, m)'
    <2> SUFFICES ASSUME Healthy(t)', m \notin torn', InLife(t, m)'
                 PROVE  /\ OwnCell(t, m, Life, After(t, m))'
                        /\ ~(Pushed(t, m, Life)') => tomb'[m] = ~(After(t, m)')
      BY DEF OwnLifeAt
    <2>1. After(t, m)' = After(t, m) /\ InLife(t, m)
      BY <1>6, AfterSame
    <2>2. Healthy(t) /\ m \notin torn /\ Life \in Cells
      BY <1>1, <1>5, <1>6 DEF Healthy, Cells
    <2>3. /\ OwnCell(t, m, Life, After(t, m))
          /\ ~Pushed(t, m, Life) => tomb[m] = ~After(t, m)
      BY <1>3, <2>1, <2>2 DEF ActorOK, OwnLifeAt
    <2>4. OwnNext(t, m, Life, After(t, m)) /\ tomb'[m] = ~After(t, m)
      <3>1. CASE m = n /\ Life = c
        <4>1. OwnCell(t, n, c, After(t, n))
          BY <2>3, <3>1
        <4>2. OwnNext(t, n, c, After(t, n)) /\ After(t, n) = arg[t].v
          BY <1>10, <4>1, Zenon
        <4> QED
          BY <1>6, <3>1, <4>2
      <3>2. CASE m # n \/ Life # c
        <4>1. SameHand(t, m, Life) /\ Present(t, m, Life)' = Present(t, m, Life)
          BY <1>8, <1>9, <2>2, <3>2
        <4>2. \A v, v2 : v2 = v /\ OwnCell(t, m, Life, v) => OwnNext(t, m, Life, v2)
          BY <4>1, SameCell
        <4>3. OwnNext(t, m, Life, After(t, m))
          BY <2>3, <4>2, Zenon
        <4>4. ~Pushed(t, m, Life)
          BY <3>2 DEF Pushed
        <4>5. tomb'[m] = tomb[m]
          BY <1>6, <3>2
        <4> QED
          BY <2>3, <4>3, <4>4, <4>5
      <3> QED
        BY <3>1, <3>2
    <2>5. OwnNext(t, m, Life, After(t, m)')
      BY <2>1, <2>4, Zenon
    <2>6. OwnCell(t, m, Life, After(t, m))'
      BY <2>5 DEF OwnNext, OwnCell
    <2> QED
      BY <2>1, <2>4, <2>6
  <1>13. TogglesAt(t)'
    <2>1. Healthy(t)' => Healthy(t)
      BY <1>1, <1>5 DEF Healthy
    <2>2. CASE undoing[t]
      BY <1>3, <1>5, <1>6, <2>1, <2>2, TogglesShorter
    <2>3. CASE ~undoing[t]
      <3>1. Sound(n, c)' /\ Healthy(t)' => Present(t, n, c) = ~arg[t].v
        <4> SUFFICES ASSUME Sound(n, c)', Healthy(t) PROVE Present(t, n, c) = ~arg[t].v
          BY <2>1
        <4>1. PICK v : OwnCell(t, n, c, v)
          <5>1. CASE c = Life
            <6>1. n \notin torn
              BY <1>6, <5>1 DEF Sound
            <6> QED
              BY <1>3, <1>7, <5>1, <6>1 DEF ActorOK, OwnLifeAt, Marked
          <5>2. CASE c # Life
            <6>1. c \in Label
              BY <5>2 DEF Cells
            <6> QED
              BY <1>3, <1>7, <5>2, <6>1 DEF ActorOK, OwnLabelsAt, Marked
          <5> QED
            BY <5>1, <5>2
        <4>2. v = arg[t].v /\ Present(t, n, c) = ~v
          BY <1>7, <2>3, <4>1 DEF OwnCell
        <4> QED
          BY <4>2
      <3>3. \A e \in Effects : e = arg[t] =>
              (Sound(e.n, e.c)' /\ Healthy(t)' => Present(t, e.n, e.c) = ~e.v)
        BY <3>1 DEF Sound
      <3>4. PICK e \in Effects : e = arg[t]
        BY <1>0
      <3>5. Sound(e.n, e.c)' /\ Healthy(t)' => Present(t, e.n, e.c) = ~e.v
        BY <3>3, <3>4
      <3> QED
        BY <1>3, <1>5, <1>6, <2>1, <2>3, <3>4, <3>5, TogglesLonger
    <2> QED
      BY <2>2, <2>3
  <1>14. ActorOK(t)'
    <2>1. UndoMarkedAt(t)'
      BY <1>4, FreeHands DEF UndoMarkedAt
    <2> QED
      BY <1>2, <1>4, <1>11, <1>12, <1>13, <2>1 DEF ActorOK
  <1>15. SweepOK'
    BY <1>1, <1>6, OpSweep
  <1>16. c = Life => InLife(t, n)
    BY <1>7 DEF Marked
  <1>17. ASSUME NEW x \in Tx, NEW m \in Node, x # t, m \notin torn', Healthy(x), InLife(x, m)
         PROVE  tomb'[m] = tomb[m]
    <2>1. CASE m # n \/ c # Life
      BY <1>6, <2>1
    <2>2. CASE m = n /\ c = Life
      BY <1>0, <1>16, <1>17, <2>2, FlipOthers
    <2> QED
      BY <2>1, <2>2
  <1>18. ASSUME NEW m \in Node PROVE TombAt(m)'
    <2>1. CASE m # n \/ c # Life
      <3>1. tomb'[m] = tomb[m]
        BY <1>6, <2>1
      <3> QED
        BY <1>2, <1>6, <3>1, TombSame
    <2>2. CASE m = n /\ c = Life
      <3>1. InLife(t, n) /\ InLife(t, n)'
        BY <1>6, <1>16, <2>2, AfterSame
      <3>2. ~AllCommitted(n) /\ ~(AllCommitted(n)')
        BY <1>0, <1>1, <3>1 DEF AllCommitted
      <3>3. TombAt(n)
        BY HInvIs
      <3> QED
        BY <1>6, <2>2, <3>2, <3>3 DEF TombAt
    <2> QED
      BY <2>1, <2>2
  <1> QED
    BY <1>2, <1>6, <1>14, <1>15, <1>17, <1>18, TombStep

----------------------------------------------------------------------------
(* The checks and the flips of an operation.                               *)

LEMMA CrossCheckNodeLifeHist ==
  ASSUME StInv, StInv', HInv, NEW t \in Tx, CrossCheckNodeLife(t)
  PROVE  HInv'
  <1>1. /\ pc[t] \in {"crossLife", "crossNoop"}
        /\ UNCHANGED <<clock, rec, session, labels, lives, tomb, torn, sweep>>
        /\ Refuse(t) \/ (pc[t] = "crossLife" /\ Effect(t)) \/ (pc[t] = "crossNoop" /\ NoOp(t))
    BY DEF CrossCheckNodeLife
  <1>2. StoreStill /\ UNCHANGED claim /\ rec' = rec /\ UNCHANGED <<clock, session, sweep>>
    BY <1>1 DEF StoreStill, labels, lives, sweep
  <1>3. pc[t] \in OpPc /\ arg[t] \in Effects /\ arg[t].c # Life
    BY <1>1, Places DEF OpPc, LabelPc, ArgOK, StInv
  <1>4. CASE Refuse(t)
    BY <1>2, <1>3, <1>4, CalmRefuse
  <1>5. CASE pc[t] = "crossNoop" /\ NoOp(t)
    <2>1. Free(t)
      BY <1>5 DEF Free, MarkPc, UndoHand
    <2> QED
      BY <1>2, <1>3, <1>5, <2>1, CalmNoOp
  <1>6. CASE pc[t] = "crossLife" /\ Effect(t)
    <2>1. PICK n \in Node, c \in Cells : n = arg[t].n /\ c = arg[t].c
      BY <1>3 DEF Effects, Cells
    <2>2. tomb' = IF c = Life THEN [tomb EXCEPT ![n] = ~arg[t].v] ELSE tomb
      BY <1>1, <1>3, <2>1
    <2> QED
      BY <1>1, <1>6, <2>1, <2>2, EffectHist
  <1> QED
    BY <1>1, <1>4, <1>5, <1>6

LEMMA CrossCheckLabelsHist ==
  ASSUME StInv, StInv', HInv, NEW t \in Tx, CrossCheckLabels(t)
  PROVE  HInv'
  <1>1. /\ pc[t] \in {"crossDead", "crossDied"}
        /\ UNCHANGED <<clock, rec, session, labels, lives, tomb, torn, sweep>>
        /\ \/ Refuse(t)
           \/ pc[t] = "crossDead" /\ NoOp(t)
           \/ pc[t] = "crossDied" /\ Proceed(t, "flipDead", arg[t])
    BY DEF CrossCheckLabels
  <1>2. StoreStill /\ UNCHANGED claim /\ rec' = rec /\ UNCHANGED <<clock, session, sweep>>
    BY <1>1 DEF StoreStill, labels, lives, sweep
  <1>3. pc[t] \in OpPc
    BY <1>1 DEF OpPc, DeathPc
  <1>4. CASE Refuse(t)
    BY <1>2, <1>3, <1>4, CalmRefuse
  <1>5. CASE pc[t] = "crossDead" /\ NoOp(t)
    <2>1. Free(t)
      BY <1>5 DEF Free, MarkPc, UndoHand
    <2> QED
      BY <1>2, <1>3, <1>5, <2>1, CalmNoOp
  <1>6. CASE pc[t] = "crossDied" /\ Proceed(t, "flipDead", arg[t])
    <2>1. Target(t, "flipDead", arg[t])
      BY <1>2, <1>6, Places DEF Target, DeathPc, ArgOK, PlaceOK, StInv
    <2>2. OpMove(t) /\ log' = log /\ pc'[t] = "flipDead" /\ arg'[t] = arg[t]
      BY <1>2, <1>3, <1>6, <2>1, ProceedMove DEF StInv
    <2>3. undoing' = undoing
      BY <2>2, OpStill
    <2>4. \A n, c : SameHand(t, n, c)
      BY <1>6, <2>2, <2>3 DEF SameHand, Pushed, Undoes
    <2>5. HandsKept(t) /\ UndoMarkedAt(t)' /\ ReplayAt(t)' /\ LateAt(t)'
      BY <2>2, <2>4 DEF HandsKept, UndoMarkedAt, ReplayAt, LateAt, Undoes
    <2> QED
      BY <1>2, <2>2, <2>5, CalmOp
  <1> QED
    BY <1>1, <1>4, <1>5, <1>6

LEMMA NoteNodeClaimHist ==
  ASSUME StInv, StInv', HInv, NEW t \in Tx, NoteNodeClaim(t)
  PROVE  HInv'
  <1>1. /\ pc[t] = "claim"
        /\ UNCHANGED <<clock, session, labels, born, died, tomb, torn, sweep>>
        /\ \/ Refuse(t) /\ UNCHANGED <<rec, claim>>
           \/ /\ claim' = [claim EXCEPT ![arg[t].n] = t] /\ OpenRecord(t)
              /\ Proceed(t, "crossDead", arg[t])
    BY DEF NoteNodeClaim
  <1>2. StoreStill /\ UNCHANGED <<clock, session, sweep>>
    BY <1>1 DEF StoreStill, labels, sweep
  <1>3. pc[t] \in OpPc /\ Free(t) /\ Base
    BY <1>1 DEF OpPc, DeathPc, Free, MarkPc, UndoHand, StInv
  <1>4. CASE Refuse(t) /\ UNCHANGED <<rec, claim>>
    BY <1>2, <1>3, <1>4, CalmRefuse
  <1>5. CASE /\ claim' = [claim EXCEPT ![arg[t].n] = t] /\ OpenRecord(t)
             /\ Proceed(t, "crossDead", arg[t])
    <2>1. rec' = [rec EXCEPT ![t] = "open"] /\ rec'[t] = "open"
      BY <1>3, <1>5 DEF OpenRecord, Base, TypeOK
    <2>2. Target(t, "crossDead", arg[t])
      BY <1>1, <1>3, <2>1, Places DEF Target, DeathPc, ArgOK
    <2>3. \A n \in Node : claim'[n] \in {claim[n], t}
      BY <1>3, <1>5, StoreSeqs
    <2> QED
      BY <1>2, <1>3, <1>5, <2>1, <2>2, <2>3, CalmProceed DEF UndoHand
  <1> QED
    BY <1>1, <1>4, <1>5

LEMMA FlipDeadHist ==
  ASSUME StInv, StInv', HInv, NEW t \in Tx, FlipDead(t)
  PROVE  HInv'
  <1>1. /\ pc[t] = "flipDead" /\ tomb' = [tomb EXCEPT ![arg[t].n] = TRUE] /\ Effect(t)
        /\ UNCHANGED <<clock, rec, session, labels, lives, torn, sweep>>
    BY DEF FlipDead
  <1>2. arg[t] \in Effects /\ arg[t].c = Life /\ arg[t].v = FALSE
    BY <1>1, Places DEF DeathPc, ArgOK, StInv
  <1>3. PICK n \in Node, c \in Cells : n = arg[t].n /\ c = arg[t].c
    BY <1>2 DEF Effects, Cells
  <1>4. tomb' = IF c = Life THEN [tomb EXCEPT ![n] = ~arg[t].v] ELSE tomb
    BY <1>1, <1>2, <1>3
  <1> QED
    BY <1>1, <1>3, <1>4, EffectHist

\* The flip that meets a tombstone its check did not: the node is torn.
LEMMA FlipLate ==
  ASSUME StInv, StInv', HInv, NEW t \in Tx, pc[t] = "flipLive", NEW n \in Node, n = arg[t].n,
         tomb' = [tomb EXCEPT ![n] = FALSE], Proceed(t, "lateBorn", arg[t]),
         torn' = torn \union {n}, UNCHANGED <<clock, rec, session, labels, lives, sweep>>
  PROVE  HInv'
  <1>1. /\ UNCHANGED <<chain, bag, born, died, owed, claim>> /\ UNCHANGED <<clock, session, sweep>>
        /\ rec' = rec /\ torn \subseteq torn' /\ n \in torn' /\ Base
    BY DEF labels, lives, sweep, StInv
  <1>2. pc[t] \in OpPc /\ Free(t) /\ Target(t, "lateBorn", arg[t])
    BY <1>1, Places DEF OpPc, BirthPc, Free, MarkPc, UndoHand, Target, ArgOK
  <1>3. OpMove(t) /\ log' = log /\ pc'[t] = "lateBorn" /\ arg'[t] = arg[t]
    BY <1>1, <1>2, ProceedMove
  <1>4. /\ Steady /\ NoCommit /\ Sane(t) /\ GoneAt(t)' /\ undoing' = undoing
        /\ \A x \in Tx : x # t => Still(x)
        /\ rec[t] = "none" => log[t] = <<>>
    BY <1>3, OpStill
  <1>5. Free(t)' /\ ReplayAt(t)' /\ LateAt(t)'
    BY <1>1, <1>3 DEF Free, MarkPc, UndoHand, ReplayAt, LateAt
  <1>6. HistFixed
    BY <1>4, NoCommitFixed
  <1>7. \A m \in Node : /\ LabelsSame(m) /\ LivesSame(m) /\ owed'[m] = owed[m]
                        /\ m \notin torn' => tomb'[m] = tomb[m]
    BY <1>1, StoreSeqs DEF LabelsSame, LivesSame
  <1>8. \A m, c : SameHand(t, m, c)
    BY <1>2, <1>5, FreeHands
  <1>9. \A m \in Node : OwnLabelsAt(t, m)'
    BY <1>3, <1>4, <1>6, <1>7, <1>8, CarryLabels
  <1>10. \A m \in Node : OwnLifeAt(t, m)'
    BY <1>1, <1>3, <1>4, <1>6, <1>7, <1>8, CarryLife
  <1>11. TogglesAt(t)'
    <2>1. Healthy(t)' => Healthy(t) \/ log'[t] = <<>>
      BY <1>3, <1>4 DEF Sane, Healthy
    <2> QED
      BY <1>1, <1>3, <1>6, <2>1, TogglesShorter
  <1>12. UndoMarkedAt(t)'
    BY <1>5, FreeHands DEF UndoMarkedAt
  <1>13. ActorOK(t)'
    BY <1>4, <1>5, <1>9, <1>10, <1>11, <1>12 DEF ActorOK
  <1>14. SweepOK'
    BY <1>1, <1>3, OpSweep
  <1>15. \A m \in Node : TombAt(m)'
    <2> SUFFICES ASSUME NEW m \in Node, m \notin torn' PROVE TombAt(m)'
      BY DEF TombAt
    <2> QED
      BY <1>1, <1>4, <1>7, TombSame
  <1> QED
    BY <1>1, <1>4, <1>7, <1>13, <1>14, <1>15, TombStep

LEMMA FlipLiveHist ==
  ASSUME StInv, StInv', HInv, NEW t \in Tx, FlipLive(t)
  PROVE  HInv'
  <1>1. /\ pc[t] \in {"flipBorn", "flipLive"} /\ tomb' = [tomb EXCEPT ![arg[t].n] = FALSE]
        /\ pc[t] = "flipBorn" => Effect(t)
        /\ pc[t] = "flipLive" /\ tomb[arg[t].n] => Proceed(t, "lateBorn", arg[t])
        /\ pc[t] = "flipLive" /\ ~tomb[arg[t].n] => NoOp(t)
        /\ torn' = IF pc[t] = "flipLive" /\ tomb[arg[t].n] THEN torn \union {arg[t].n} ELSE torn
        /\ UNCHANGED <<clock, rec, session, labels, lives, sweep>>
    BY DEF FlipLive
  <1>2. arg[t] \in Effects /\ arg[t].c = Life /\ arg[t].v = TRUE
    BY <1>1, Places DEF BirthPc, ArgOK, StInv
  <1>3. PICK n \in Node, c \in Cells : n = arg[t].n /\ c = arg[t].c
    BY <1>2 DEF Effects, Cells
  <1>4. tomb[n] \in BOOLEAN /\ tomb \in [Node -> BOOLEAN]
    BY StoreSeqs DEF StInv
  <1>5. CASE pc[t] = "flipBorn"
    <2>1. tomb' = IF c = Life THEN [tomb EXCEPT ![n] = ~arg[t].v] ELSE tomb
      BY <1>1, <1>2, <1>3
    <2> QED
      BY <1>1, <1>3, <1>5, <2>1, EffectHist
  <1>6. CASE pc[t] = "flipLive" /\ tomb[n]
    BY <1>1, <1>3, <1>6, FlipLate
  <1>7. CASE pc[t] = "flipLive" /\ ~tomb[n]
    <2>1. tomb' = tomb /\ torn' = torn /\ NoOp(t)
      BY <1>1, <1>3, <1>4, <1>7
    <2>2. StoreStill /\ UNCHANGED claim /\ rec' = rec /\ UNCHANGED <<clock, session, sweep>>
      BY <1>1, <2>1 DEF StoreStill, labels, lives, sweep
    <2>3. pc[t] \in OpPc /\ Free(t)
      BY <1>7 DEF OpPc, BirthPc, Free, MarkPc, UndoHand
    <2> QED
      BY <2>1, <2>2, <2>3, CalmNoOp
  <1> QED
    BY <1>1, <1>5, <1>6, <1>7

----------------------------------------------------------------------------
(* A birth or a death is recorded.                                         *)

LEMMA GrowsOne ==
  ASSUME StInv, NEW t, NEW n \in Node
  PROVE  /\ BirthGrows(t, n) => ~DeathGrows(t, n) /\ After(t, n)'
         /\ DeathGrows(t, n) => ~(After(t, n)')
  <1>1. /\ NewestSeq(n) \in Nat
        /\ \A r \in Births(n) \union Deaths(n) : r.seq \in Nat /\ r.seq <= NewestSeq(n)
    BY NewestFacts, LifeSets, RecordsAre DEF StInv
  <1>2. ASSUME BirthGrows(t, n) PROVE ~DeathGrows(t, n) /\ After(t, n)'
    <2>1. PICK x : /\ Newborn(t, n, x)
                   /\ Births(n)' = {b \in Births(n) : b.tx # t} \union {x}
                   /\ Deaths(n)' = Deaths(n)
      BY <1>2 DEF BirthGrows
    <2>2. x \in Births(n)' /\ x.tx = t /\ x.seq = NewestSeq(n) + 1
      BY <2>1 DEF Newborn
    <2>3. \A d \in Deaths(n)' : d.seq < x.seq
      BY <1>1, <2>1, <2>2
    <2>4. After(t, n)'
      BY <2>2, <2>3 DEF After
    <2>5. ASSUME DeathGrows(t, n) PROVE FALSE
      <3>1. PICK y : /\ Newborn(t, n, y)
                     /\ Deaths(n)' = {d \in Deaths(n) : d.tx # t} \union {y}
        BY <2>5 DEF DeathGrows
      <3>2. y \in Deaths(n)' /\ y.seq = NewestSeq(n) + 1
        BY <3>1 DEF Newborn
      <3> QED
        BY <1>1, <2>1, <3>2
    <2> QED
      BY <2>4, <2>5
  <1>3. ASSUME DeathGrows(t, n) PROVE ~(After(t, n)')
    <2>1. PICK y : /\ Newborn(t, n, y)
                   /\ Deaths(n)' = {d \in Deaths(n) : d.tx # t} \union {y}
                   /\ Births(n)' = Births(n)
      BY <1>3 DEF DeathGrows
    <2>2. y \in Deaths(n)' /\ y.seq = NewestSeq(n) + 1 /\ y.tx = t
      BY <2>1 DEF Newborn
    <2>3. \A b \in Births(n)' : ~(y.seq < b.seq)
      BY <1>1, <2>1, <2>2
    <2> QED
      BY <2>2, <2>3 DEF After
  <1> QED
    BY <1>2, <1>3

\* A record of life put on top.
PushLife(t, n) ==
  /\ LifeGrows(t, n)
  /\ (arg[t].v => BirthGrows(t, n)) /\ (~arg[t].v => DeathGrows(t, n))
  /\ \A m \in Node : m # n => LivesSame(m)
  /\ \A u \in Tx, m \in Node : RetainsAt(u, m)
  /\ UNCHANGED <<chain, bag, claim, tomb, owed>>
  /\ Tear(t, n, arg[t].v)

LEMMA LifePush ==
  ASSUME StInv, StInv', HInv, NEW t \in Tx, pc[t] \in {"die", "born", "lateBorn"},
         OpMove(t), rec'[t] = "open", arg[t] \in Effects, arg[t].c = Life,
         NEW n \in Node, n = arg[t].n, PushLife(t, n), ActorOK(t)'
  PROVE  HInv'
  <1>0. arg[t].v \in BOOLEAN
    BY DEF Effects
  <1>1. /\ LifeGrows(t, n)
        /\ (arg[t].v => BirthGrows(t, n)) /\ (~arg[t].v => DeathGrows(t, n))
        /\ \A m \in Node : m # n => LivesSame(m)
        /\ \A u \in Tx, m \in Node : RetainsAt(u, m)
        /\ UNCHANGED <<chain, bag, claim, tomb, owed>>
    BY DEF PushLife
  <1>2. /\ Steady /\ NoCommit
        /\ \A x \in Tx : x # t => Still(x)
        /\ rec[t] \in {"none", "open"} /\ pc[t] # "idle"
    BY OpStill
  <1>3. /\ torn \subseteq torn'
        /\ n \notin torn' => owed[n] = "none" /\ (undoing[t] \/ Present(t, n, Life) # arg[t].v)
    BY DEF PushLife, Tear
  <1>4. \A m \in Node : LabelShape(t, m) /\ LifeShape(t, m)
    BY <1>1 DEF LabelShape, LifeShape, LabelsSame
  <1>5. Advance(t)
    BY <1>1, <1>2, <1>3, <1>4 DEF Advance
  <1>6. \A x \in Tx, m \in Node : x # t => OwnLifeAt(x, m)'
    BY <1>1, <1>2, <1>3, <1>4, OwnLifeOther
  <1>7. ASSUME NEW m \in Node PROVE TombAt(m)'
    <2>1. CASE m # n
      BY <1>1, <1>2, <1>3, <2>1, TombSame
    <2>2. CASE m = n
      <3>1. InLife(t, n)'
        BY <1>1, GrowKeeps
      <3>2. ~(AllCommitted(n)')
        BY <3>1 DEF AllCommitted
      <3>3. n \notin torn' => owed'[n] = "none"
        BY <1>1, <1>3
      <3> QED
        BY <2>2, <3>2, <3>3 DEF TombAt
    <2> QED
      BY <2>1, <2>2
  <1>8. SweepOK'
    BY <1>1, OpSweep
  <1>9. ASSUME n \notin torn' PROVE FirstFound(t, n)
    <2> SUFFICES ASSUME ~InLife(t, n)
                 PROVE  /\ BirthGrows(t, n) => ~History(n, Life, implicitStartTS)
                        /\ DeathGrows(t, n) => History(n, Life, implicitStartTS)
      BY DEF FirstFound
    <2>1. ActorOK(t) /\ n \notin torn /\ Life \in Cells
      BY <1>3, <1>9, HInvIs DEF Cells
    <2>2. pc[t] \in {"die", "born"}
      BY <2>1 DEF ActorOK, LateAt
    <2>3. ~undoing[t]
      BY <2>1, <2>2 DEF ActorOK, UndoMarkedAt, Undoes, Marked
    <2>4. ~Touches(t, n, Life)
      <3> SUFFICES ASSUME Touches(t, n, Life) PROVE FALSE
        OBVIOUS
      <3>1. Marked(t, n, Life) \/ Settled(t)
        BY <1>2, <2>1, TouchMarked
      <3> QED
        BY <1>2, <3>1 DEF Marked, Settled
    <2>5. Present(t, n, Life) = History(n, Life, implicitStartTS)
      BY <2>4 DEF Present
    <2>6. History(n, Life, implicitStartTS) \in BOOLEAN
      BY <2>1, HistoryKnown, StartTS DEF HistKnown
    <2>7. History(n, Life, implicitStartTS) = ~arg[t].v
      BY <1>0, <1>3, <1>9, <2>3, <2>5, <2>6
    <2> QED
      BY <1>1, <2>7, GrowsOne
  <1>10. \A m \in Node : LifeGrows(t, m) => pc[t] # "idle" /\ (m \notin torn' => FirstFound(t, m))
    BY <1>1, <1>2, <1>9, NoGrowth
  <1> QED
    BY <1>5, <1>6, <1>7, <1>8, <1>10, AdvanceStep

\* The tombstone is still to be flipped.
LEMMA LifePushPending ==
  ASSUME StInv, StInv', HInv, NEW t \in Tx, pc[t] \in {"die", "born"},
         arg[t] \in Effects, arg[t].c = Life, NEW n \in Node, n = arg[t].n,
         NEW p \in {"crossDied", "flipBorn"}, Proceed(t, p, arg[t]), Target(t, p, arg[t]),
         OpenRecord(t), UNCHANGED <<clock, session, sweep>>, PushLife(t, n)
  PROVE  HInv'
  <1>0. /\ arg[t].v \in BOOLEAN /\ Base /\ Life \in Cells /\ pc[t] \in OpPc
        /\ rec' = [rec EXCEPT ![t] = "open"] /\ rec'[t] = "open"
    BY DEF Effects, StInv, Cells, OpenRecord, OpPc, DeathPc, BirthPc, Base, TypeOK
  <1>1. OpMove(t) /\ log' = log /\ pc'[t] = p /\ arg'[t] = arg[t]
    BY <1>0, ProceedMove
  <1>2. /\ Steady /\ NoCommit /\ Sane(t) /\ GoneAt(t)' /\ undoing' = undoing
        /\ rec[t] = "none" => log[t] = <<>>
    BY <1>1, OpStill
  <1>3. HistFixed /\ ActorOK(t)
    BY <1>2, NoCommitFixed, HInvIs
  <1>4. ReplayAt(t)' /\ LateAt(t)' /\ UndoMarkedAt(t)'
    BY <1>1 DEF ReplayAt, LateAt, UndoMarkedAt, Undoes
  <1>5. /\ (arg[t].v => BirthGrows(t, n)) /\ (~arg[t].v => DeathGrows(t, n))
        /\ \A m \in Node : m # n => LivesSame(m)
        /\ UNCHANGED <<chain, bag, claim, tomb, owed>>
        /\ torn \subseteq torn'
        /\ n \notin torn' => undoing[t] \/ Present(t, n, Life) # arg[t].v
    BY DEF PushLife, Tear
  <1>6. TogglesAt(t)'
    <2>1. Healthy(t)' => Healthy(t) \/ log'[t] = <<>>
      BY <1>1, <1>2 DEF Sane, Healthy
    <2> QED
      BY <1>1, <1>3, <1>5, <2>1, TogglesShorter
  <1>7. \A m, c : m # n \/ c # Life => SameHand(t, m, c)
    BY <1>1, OtherHands
  <1>8. \A m \in Node : OwnLabelsAt(t, m)'
    <2>1. \A l \in Label : l # Life
      BY NamesAssumption
    <2>2. \A m \in Node : LabelsSame(m)
      BY <1>5 DEF LabelsSame
    <2> QED
      BY <1>1, <1>2, <1>3, <1>7, <2>1, <2>2, CarryLabels
  <1>9. ASSUME NEW m \in Node, m # n PROVE OwnLifeAt(t, m)'
    BY <1>1, <1>2, <1>3, <1>5, <1>7, <1>9, CarryLife
  <1>10. OwnLifeAt(t, n)'
    <2> SUFFICES ASSUME Healthy(t)', n \notin torn', InLife(t, n)'
                 PROVE  /\ OwnCell(t, n, Life, After(t, n))'
                        /\ ~(Pushed(t, n, Life)') => tomb'[n] = ~(After(t, n)')
      BY DEF OwnLifeAt
    <2>1. Pushed(t, n, Life)' /\ ~(Undoes(t, n, Life)')
      BY <1>1 DEF Pushed, Undoes
    <2>2. After(t, n)' = arg[t].v
      <3>1. After(t, n)' \in BOOLEAN
        BY DEF After
      <3> QED
        BY <1>0, <1>5, <3>1, GrowsOne
    <2>3. Present(t, n, Life) = IF undoing[t] THEN arg[t].v ELSE ~arg[t].v
      <3>1. CASE undoing[t]
        <4>1. Undoes(t, n, Life) /\ ~Pushed(t, n, Life)
          BY <3>1 DEF Undoes, Pushed
        <4>2. InLife(t, n)
          BY <1>0, <1>3, <4>1 DEF ActorOK, UndoMarkedAt, Marked
        <4>3. Healthy(t) /\ n \notin torn
          BY <1>2, <1>5, <4>2, SaneMarked
        <4>4. OwnCell(t, n, Life, After(t, n))
          BY <1>3, <4>2, <4>3 DEF ActorOK, OwnLifeAt
        <4> QED
          BY <1>0, <3>1, <4>1, <4>4 DEF OwnCell
      <3>2. CASE ~undoing[t]
        <4>1. HistKnown /\ PresentIs
          BY HistoryKnown, PresentIsHeld
        <4>2. Present(t, n, Life) \in BOOLEAN
          <5>1. Touches(t, n, Life) => Left(t, n, Life) \in BOOLEAN
            BY <1>0, TouchesAt
          <5>2. History(n, Life, implicitStartTS) \in BOOLEAN
            BY <1>0, <4>1, StartTS DEF HistKnown
          <5> QED
            BY <5>1, <5>2 DEF Present
        <4> QED
          BY <1>0, <1>5, <3>2, <4>2
      <3> QED
        BY <3>1, <3>2
    <2>4. Present(t, n, Life)' = Present(t, n, Life)
      BY <1>0, <1>1, <1>3, PresentSame
    <2>5. OwnNext(t, n, Life, After(t, n)')
      BY <1>0, <1>1, <1>2, <2>1, <2>2, <2>3, <2>4 DEF OwnNext
    <2> QED
      BY <2>1, <2>5 DEF OwnNext, OwnCell
  <1>11. \A m \in Node : OwnLifeAt(t, m)'
    BY <1>9, <1>10
  <1>12. ActorOK(t)'
    BY <1>2, <1>4, <1>6, <1>8, <1>11 DEF ActorOK
  <1> QED
    BY <1>0, <1>1, <1>12, LifePush

LEMMA DeathRecorded ==
  ASSUME StInv, HInv, NEW t \in Tx, pc[t] \in OpPc, NEW n \in Node, n = arg[t].n,
         arg[t].v = FALSE, ~Conflicts(t, LifeHead(n)), Tear(t, n, FALSE),
         died' = [died EXCEPT ![n] =
           Displacing(@, [tx |-> t, seq |-> NewestSeq(n) + 1, was |-> FALSE])],
         UNCHANGED <<labels, born, claim, tomb, owed>>
  PROVE  PushLife(t, n)
  <1>0. Base /\ Order /\ LifeSingle /\ rec[t] # "committed"
    <2>1. pc[t] \in ActivePc
      BY DEF ActivePc
    <2> QED
      BY <2>1, HInvIs, Places DEF StInv, PlaceOK
  <1>1. SeesLife(t, n)
    BY <1>0, AdmitLife
  <1>2. LifeGrows(t, n) /\ DeathGrows(t, n) /\ \A m \in Node : m # n => LivesSame(m)
    BY <1>0, <1>1, DeathIsGrowth
  <1> DEFINE x == [tx |-> t, seq |-> NewestSeq(n) + 1, was |-> FALSE]
  <1>3. Newborn(t, n, x) /\ died' = [died EXCEPT ![n] = Displacing(@, x)]
    BY <1>0, NewbornType
  <1> HIDE DEF x
  <1>4. DeathPush(t, n)
    BY <1>1, <1>3 DEF DeathPush, labels
  <1>5. \A u \in Tx, m \in Node : RetainsAt(u, m)
    BY <1>0, <1>4, DeathPushRetains
  <1> QED
    BY <1>2, <1>5 DEF PushLife, labels

LEMMA BirthRecorded ==
  ASSUME StInv, HInv, NEW t \in Tx, pc[t] \in OpPc, NEW n \in Node, n = arg[t].n,
         arg[t].v = TRUE, ~BirthRefused(t, n), RecordBirth(t, n),
         UNCHANGED <<labels, died, claim, tomb, owed>>
  PROVE  PushLife(t, n) /\ OpenRecord(t) /\ rec'[t] = "open"
  <1>0. Base /\ Order /\ LifeSingle /\ rec[t] # "committed"
    <2>1. pc[t] \in ActivePc
      BY DEF ActivePc
    <2> QED
      BY <2>1, HInvIs, Places DEF StInv, PlaceOK
  <1>1. /\ SeesLife(t, n) /\ rec'[t] = "open"
        /\ \A u \in Tx, m \in Node : RetainsAt(u, m)
    BY RecordBirthFacts
  <1>2. /\ born' = [born EXCEPT ![n] =
             Displacing(@, [tx |-> t, seq |-> NewestSeq(n) + 1, was |-> AliveBeforeTx(n, t)])]
        /\ OpenRecord(t) /\ Tear(t, n, TRUE) /\ died' = died
    BY DEF RecordBirth
  <1>3. LifeGrows(t, n) /\ BirthGrows(t, n) /\ \A m \in Node : m # n => LivesSame(m)
    BY <1>0, <1>1, <1>2, BirthIsGrowth
  <1> QED
    BY <1>1, <1>2, <1>3 DEF PushLife, labels

LEMMA NoteNodeDiedHist ==
  ASSUME StInv, StInv', HInv, NEW t \in Tx, NoteNodeDied(t)
  PROVE  HInv'
  <1>1. /\ pc[t] = "die"
        /\ UNCHANGED <<clock, session, labels, born, claim, tomb, sweep>>
    BY DEF NoteNodeDied
  <1>2. pc[t] \in OpPc /\ arg[t] \in Effects /\ arg[t].c = Life /\ arg[t].v = FALSE /\ Base
    BY <1>1, Places DEF StInv, ArgOK, OpPc, DeathPc
  <1>3. PICK n \in Node : n = arg[t].n
    BY <1>2 DEF Effects
  <1>4. UNCHANGED <<labels, born, claim, tomb, owed>> /\ UNCHANGED <<clock, session, sweep>>
    BY <1>1 DEF sweep
  <1>5. CASE Refuse(t) /\ UNCHANGED <<rec, died, torn>>
    <2>1. StoreStill /\ UNCHANGED claim /\ rec' = rec
      BY <1>4, <1>5 DEF StoreStill, labels
    <2> QED
      BY <1>2, <1>4, <1>5, <2>1, CalmRefuse
  <1>6. CASE /\ ~Conflicts(t, LifeHead(n))
             /\ died' = [died EXCEPT ![n] =
                  Displacing(@, [tx |-> t, seq |-> NewestSeq(n) + 1, was |-> FALSE])]
             /\ Tear(t, n, FALSE) /\ OpenRecord(t) /\ Proceed(t, "crossDied", arg[t])
    <2>1. PushLife(t, n)
      BY <1>2, <1>3, <1>4, <1>6, DeathRecorded
    <2>2. rec'[t] = "open"
      BY <1>2, <1>6 DEF OpenRecord, Base, TypeOK
    <2>3. Target(t, "crossDied", arg[t])
      BY <1>2, <2>2 DEF Target, DeathPc
    <2> QED
      BY <1>1, <1>2, <1>3, <1>4, <1>6, <2>1, <2>3, LifePushPending
  <1> QED
    BY <1>3, <1>5, <1>6 DEF NoteNodeDied

LEMMA NoteNodeRevivedHist ==
  ASSUME StInv, StInv', HInv, NEW t \in Tx, NoteNodeRevived(t)
  PROVE  HInv'
  <1>1. /\ pc[t] = "born"
        /\ UNCHANGED <<clock, session, labels, died, claim, tomb, sweep>>
    BY DEF NoteNodeRevived
  <1>2. pc[t] \in OpPc /\ arg[t] \in Effects /\ arg[t].c = Life /\ arg[t].v = TRUE /\ Base
    BY <1>1, Places DEF StInv, ArgOK, OpPc, BirthPc
  <1>3. PICK n \in Node : n = arg[t].n
    BY <1>2 DEF Effects
  <1>4. UNCHANGED <<labels, died, claim, tomb, owed>> /\ UNCHANGED <<clock, session, sweep>>
    BY <1>1 DEF sweep
  <1>5. CASE Refuse(t) /\ UNCHANGED <<rec, born, torn>>
    <2>1. StoreStill /\ UNCHANGED claim /\ rec' = rec
      BY <1>4, <1>5 DEF StoreStill, labels
    <2> QED
      BY <1>2, <1>4, <1>5, <2>1, CalmRefuse
  <1>6. CASE ~BirthRefused(t, n) /\ RecordBirth(t, n) /\ Proceed(t, "flipBorn", arg[t])
    <2>1. PushLife(t, n) /\ OpenRecord(t) /\ rec'[t] = "open"
      BY <1>2, <1>3, <1>4, <1>6, BirthRecorded
    <2>2. Target(t, "flipBorn", arg[t])
      BY <1>2, <2>1 DEF Target, BirthPc
    <2> QED
      BY <1>1, <1>2, <1>3, <1>4, <1>6, <2>1, <2>2, LifePushPending
  <1> QED
    BY <1>3, <1>5, <1>6 DEF NoteNodeRevived

LEMMA LateNodeRevivedHist ==
  ASSUME StInv, StInv', HInv, NEW t \in Tx, LateNodeRevived(t)
  PROVE  HInv'
  <1>1. /\ pc[t] = "lateBorn"
        /\ UNCHANGED <<clock, session, labels, died, claim, tomb, sweep>>
    BY DEF LateNodeRevived
  <1>2. pc[t] \in OpPc /\ arg[t] \in Effects /\ arg[t].c = Life /\ arg[t].v = TRUE /\ Base
    BY <1>1, Places DEF StInv, ArgOK, OpPc, BirthPc
  <1>3. PICK n \in Node : n = arg[t].n
    BY <1>2 DEF Effects
  <1>4. UNCHANGED <<labels, died, claim, tomb, owed>> /\ UNCHANGED <<clock, session, sweep>>
    BY <1>1 DEF sweep
  <1>5. CASE Refuse(t) /\ UNCHANGED <<rec, born, torn>>
    <2>1. StoreStill /\ UNCHANGED claim /\ rec' = rec
      BY <1>4, <1>5 DEF StoreStill, labels
    <2> QED
      BY <1>2, <1>4, <1>5, <2>1, CalmRefuse
  <1>6. CASE ~BirthRefused(t, n) /\ RecordBirth(t, n) /\ Effect(t)
    <2>1. PushLife(t, n) /\ OpenRecord(t) /\ rec'[t] = "open"
      BY <1>2, <1>3, <1>4, <1>6, BirthRecorded
    <2>2. OpMove(t)
      BY <1>2, <1>4, <1>6, <2>1, EffectMove DEF OpenRecord
    <2>3. /\ Steady /\ NoCommit /\ Sane(t) /\ GoneAt(t)' /\ undoing' = undoing
          /\ rec[t] = "none" => log[t] = <<>>
      BY <2>2, OpStill
    <2>4. HistFixed /\ ActorOK(t)
      BY <2>3, NoCommitFixed, HInvIs
    <2>5. Free(t) /\ Free(t)' /\ ReplayAt(t)' /\ LateAt(t)'
      BY <1>1, <1>6, <2>3, ReturnFree DEF Effect, Free, MarkPc, UndoHand
    <2>6. UndoMarkedAt(t)' /\ \A m, c : SameHand(t, m, c)
      BY <2>5, FreeHands DEF UndoMarkedAt
    <2>7. n \in torn'
      <3>1. n \in torn
        BY <1>1, <1>3, <2>4 DEF ActorOK, LateAt
      <3> QED
        BY <2>1, <3>1 DEF PushLife, Tear
    <2>8. /\ torn \subseteq torn' /\ UNCHANGED <<chain, bag, tomb>>
          /\ \A m \in Node : m # n => LivesSame(m)
      BY <2>1 DEF PushLife, Tear
    <2>9. /\ undoing[t] => log'[t] = log[t]
          /\ ~undoing[t] => log'[t] = Append(log[t], arg[t])
      BY <1>2, <1>6 DEF Effect, Base, TypeOK
    <2>10. ASSUME NEW m \in Node, NEW c \in Cells, m # n \/ c # Life
           PROVE  Present(t, m, c)' = Present(t, m, c)
      <3>1. CASE undoing[t]
        BY <2>4, <2>9, <3>1, PresentSame
      <3>2. CASE ~undoing[t]
        <4>1. Present(t, m, c)' = IF arg[t].n = m /\ arg[t].c = c THEN arg[t].v ELSE Present(t, m, c)
          BY <1>2, <2>4, <2>9, <3>2, PresentAppend
        <4> QED
          BY <1>2, <1>3, <2>10, <4>1
      <3> QED
        BY <3>1, <3>2
    <2>11. ASSUME NEW m \in Node PROVE OwnLabelsAt(t, m)'
      <3>1. LabelsSame(m)
        BY <2>8 DEF LabelsSame
      <3>2. \A l \in Label : Present(t, m, l)' = Present(t, m, l)
        BY <2>10, NamesAssumption DEF Cells
      <3> QED
        BY <2>3, <2>6, <3>1, <3>2, KeepLabels
    <2>12. ASSUME NEW m \in Node PROVE OwnLifeAt(t, m)'
      <3>1. CASE m = n
        BY <2>7, <3>1 DEF OwnLifeAt
      <3>2. CASE m # n
        <4>1. Present(t, m, Life)' = Present(t, m, Life)
          BY <2>10, <3>2 DEF Cells
        <4> QED
          BY <2>3, <2>6, <2>8, <3>2, <4>1, KeepLife
      <3> QED
        BY <3>1, <3>2
    <2>13. TogglesAt(t)'
      <3>1. Healthy(t)' => Healthy(t) \/ log[t] = <<>>
        BY <2>3 DEF Sane, Healthy
      <3>2. CASE undoing[t]
        BY <2>4, <2>8, <2>9, <3>1, <3>2, TogglesShorter
      <3>3. CASE ~undoing[t]
        <4>1. PICK e \in Effects : e = arg[t]
          BY <1>2
        <4>2. ~(Sound(e.n, e.c)')
          BY <1>2, <1>3, <2>7, <4>1 DEF Sound
        <4> QED
          BY <2>4, <2>8, <2>9, <3>1, <3>3, <4>1, <4>2, TogglesLonger
      <3> QED
        BY <3>2, <3>3
    <2>14. ActorOK(t)'
      BY <2>3, <2>5, <2>6, <2>11, <2>12, <2>13 DEF ActorOK
    <2> QED
      BY <1>1, <1>2, <1>3, <2>1, <2>2, <2>14, LifePush
  <1> QED
    BY <1>3, <1>5, <1>6 DEF LateNodeRevived

----------------------------------------------------------------------------
(* The steps of a transaction outside its operations.                      *)

LEMMA NoCommitIf ==
  ASSUME Base, Steady,
         \A u \in Tx : rec'[u] = "committed" <=> rec[u] = "committed",
         \A u \in Tx : rec[u] = "committed" => log'[u] = log[u]
  PROVE  NoCommit
  <1> SUFFICES ASSUME NEW u \in Tx, rec[u] = "committed" PROVE at'[u] = at[u]
    BY DEF NoCommit
  <1>1. at[u] # 0
    BY Places DEF PlaceOK
  <1> QED
    BY <1>1 DEF Steady, SteadyTx

\* A step of t that leaves the store and, but for the record, the log alone.
SessionMove(t) ==
  /\ Steady /\ StoreStill /\ doomed' = doomed
  /\ \A x \in Tx : x # t => Unmoved(x)

LEMMA SessionOthers ==
  ASSUME NEW t, SessionMove(t)
  PROVE  \A x \in Tx : x # t => Still(x)
  BY DEF SessionMove, Still

LEMMA SessionActor ==
  ASSUME StInv, StInv', HInv, NEW t \in Tx, SessionMove(t), NoCommit,
         log' = log, rec' = rec,
         Free(t), Free(t)', ReplayAt(t)', GoneAt(t)', pc'[t] # "lateBorn"
  PROVE  ActorOK(t)'
  <1>1. /\ \A n \in Node : LabelsSame(n) /\ LivesSame(n) /\ tomb'[n] = tomb[n]
        /\ torn \subseteq torn' /\ HistFixed /\ doomed' = doomed
    BY NoCommitFixed DEF SessionMove, StoreStill, LabelsSame, LivesSame
  <1>2. Sane(t) /\ (Healthy(t)' => Healthy(t))
    BY <1>1 DEF Sane, Healthy
  <1>3. UndoMarkedAt(t)' /\ LateAt(t)' /\ \A n, c : SameHand(t, n, c)
    BY FreeHands DEF UndoMarkedAt, LateAt
  <1>4. \A n \in Node : OwnLabelsAt(t, n)'
    BY <1>1, <1>2, <1>3, CarryLabels
  <1>5. \A n \in Node : OwnLifeAt(t, n)'
    BY <1>1, <1>2, <1>3, CarryLife
  <1>6. TogglesAt(t)'
    BY <1>1, <1>2, TogglesShorter
  <1> QED
    BY <1>3, <1>4, <1>5, <1>6 DEF ActorOK

LEMMA SessionCalm ==
  ASSUME StInv, StInv', HInv, NEW t \in Tx, SessionMove(t),
         log' = log, rec' = rec, Free(t), Free(t)', ReplayAt(t)', GoneAt(t)',
         pc'[t] # "lateBorn", SweepOK'
  PROVE  HInv'
  <1>1. NoCommit
    BY NoCommitIf DEF SessionMove, StInv
  <1>2. ActorOK(t)'
    BY <1>1, SessionActor
  <1>3. Steady /\ StoreStill /\ \A x \in Tx : x # t => Still(x)
    BY SessionOthers DEF SessionMove
  <1> QED
    BY <1>1, <1>2, <1>3, CalmStep

LEMMA SessionSweep ==
  ASSUME HInv, NEW t \in Tx, SessionMove(t), UNCHANGED <<sweeper, claim>>,
         pc[t] # "withdraw", pc'[t] # "withdraw"
  PROVE  SweepOK'
  <1>1. SweepOK /\ UNCHANGED <<owed, sweeper>> /\ \A x \in Tx : x # t => pc'[x] = pc[x]
    BY HInvIs DEF SessionMove, StoreStill, Unmoved
  <1> QED
    BY <1>1, SweepSame

LEMMA BeginHist ==
  ASSUME StInv, StInv', HInv, NEW t \in Tx, Begin(t)
  PROVE  HInv'
  <1>0. Base /\ Steady /\ \A x \in Tx : x # t => Unmoved(x)
    BY BeginBase DEF StInv
  <1>1. /\ pc[t] = "idle" /\ pc'[t] = "ready" /\ UNCHANGED <<rec, undoing, doomed, log>>
        /\ UNCHANGED <<chain, bag, born, died, tomb, torn, owed, sweeper, claim>>
    BY <1>0 DEF Begin, Step, Goto, Base, labels, lives, sweep
  <1>2. SessionMove(t)
    BY <1>0, <1>1 DEF SessionMove, StoreStill
  <1>3. ~undoing[t]
    BY <1>1, HInvIs DEF ActorOK, ReplayAt
  <1>4. Free(t) /\ Free(t)' /\ ReplayAt(t)' /\ GoneAt(t)'
    BY <1>1, <1>3 DEF Free, MarkPc, UndoHand, ReplayAt, GoneAt
  <1>5. SweepOK'
    BY <1>1, <1>2, SessionSweep
  <1> QED
    BY <1>1, <1>2, <1>4, <1>5, SessionCalm

LEMMA ReplayHist ==
  ASSUME StInv, StInv', HInv, NEW t \in Tx, EnterUndo(t) \/ ExitUndo(t)
  PROVE  HInv'
  <1>0. Base /\ Steady /\ \A x \in Tx : x # t => Unmoved(x)
    BY ReplayBase DEF StInv
  <1>1. /\ pc[t] \in {"ready", "commit", "undo"} /\ pc'[t] \in {"undo", "unwound"}
        /\ pc'[t] = "undo" => undoing'[t]
        /\ UNCHANGED <<rec, doomed, log>>
        /\ UNCHANGED <<chain, bag, born, died, tomb, torn, owed, sweeper, claim>>
    BY <1>0 DEF EnterUndo, ExitUndo, Step, Goto, Base, TypeOK, labels, lives, sweep
  <1>2. SessionMove(t)
    BY <1>0, <1>1 DEF SessionMove, StoreStill
  <1>4. Free(t) /\ Free(t)' /\ ReplayAt(t)' /\ GoneAt(t)'
    BY <1>1 DEF Free, MarkPc, UndoHand, ReplayAt, GoneAt
  <1>5. SweepOK'
    BY <1>1, <1>2, SessionSweep
  <1> QED
    BY <1>1, <1>2, <1>4, <1>5, SessionCalm

LEMMA AllocateHist ==
  ASSUME StInv, StInv', HInv, NEW t \in Tx, Allocate(t)
  PROVE  HInv'
  <1>0. Base /\ Steady /\ \A x \in Tx : x # t => Unmoved(x)
    BY AllocateBase DEF StInv
  <1>1. /\ pc[t] \in {"ready", "written"} /\ pc'[t] = "commit"
        /\ UNCHANGED <<rec, doomed, log>>
        /\ UNCHANGED <<chain, bag, born, died, tomb, torn, owed, sweeper, claim>>
    BY <1>0 DEF Allocate, Step, Goto, Base, labels, lives, sweep
  <1>2. SessionMove(t)
    BY <1>0, <1>1 DEF SessionMove, StoreStill
  <1>4. Free(t) /\ Free(t)' /\ ReplayAt(t)' /\ GoneAt(t)'
    BY <1>1 DEF Free, MarkPc, UndoHand, ReplayAt, GoneAt
  <1>5. SweepOK'
    BY <1>1, <1>2, SessionSweep
  <1> QED
    BY <1>1, <1>2, <1>4, <1>5, SessionCalm

LEMMA EndEmptyHist ==
  ASSUME StInv, StInv', HInv, NEW t \in Tx, EndEmpty(t)
  PROVE  HInv'
  <1>0. Base /\ Steady /\ \A x \in Tx : x # t => Unmoved(x)
    BY EndEmptyBase DEF StInv
  <1>1. /\ pc[t] \in {"ready", "unwound", "written", "commit"} /\ pc'[t] = "ended"
        /\ rec[t] = "none" /\ UNCHANGED <<rec, doomed, log>>
        /\ UNCHANGED <<chain, bag, born, died, tomb, torn, owed, sweeper, claim>>
    BY <1>0 DEF EndEmpty, Finishing, Leave, Goto, Base, labels, lives, sweep
  <1>2. SessionMove(t)
    BY <1>0, <1>1 DEF SessionMove, StoreStill
  <1>4. Free(t) /\ Free(t)' /\ ReplayAt(t)' /\ GoneAt(t)'
    BY <1>1 DEF Free, MarkPc, UndoHand, ReplayAt, GoneAt
  <1>5. SweepOK'
    BY <1>1, <1>2, SessionSweep
  <1> QED
    BY <1>1, <1>2, <1>4, <1>5, SessionCalm

LEMMA AbortHist ==
  ASSUME StInv, StInv', HInv, NEW t \in Tx, Abort(t)
  PROVE  HInv'
  <1>0. Base /\ Steady /\ \A x \in Tx : x # t => Unmoved(x)
    BY AbortBase DEF StInv
  <1>1. /\ pc[t] \in {"ready", "unwound", "written", "commit"} /\ pc'[t] = "aborted"
        /\ rec[t] = "open" /\ rec'[t] = "aborted" /\ UNCHANGED <<doomed, log>>
        /\ UNCHANGED <<chain, bag, born, died, tomb, torn, owed, sweeper, claim>>
    BY <1>0 DEF Abort, Finishing, Step, Goto, Base, TypeOK, labels, lives, sweep
  <1>2. SessionMove(t)
    BY <1>0, <1>1 DEF SessionMove, StoreStill
  <1>3. Steady /\ StoreStill /\ \A x \in Tx : x # t => Still(x)
    BY <1>2, SessionOthers DEF SessionMove
  <1>4. NoCommit
    <2>1. \A u \in Tx : rec'[u] = "committed" <=> rec[u] = "committed"
      BY <1>0, <1>1 DEF Unmoved
    <2> QED
      BY <1>0, <1>1, <2>1, NoCommitIf
  <1>5. ActorOK(t)'
    <2>1. ~(Healthy(t)') /\ Free(t)' /\ ReplayAt(t)' /\ GoneAt(t)' /\ pc'[t] # "lateBorn"
      BY <1>1 DEF Healthy, Free, MarkPc, UndoHand, ReplayAt, GoneAt
    <2> QED
      BY <2>1, SickActor
  <1>6. SweepOK'
    BY <1>1, <1>2, SessionSweep
  <1> QED
    BY <1>3, <1>4, <1>5, <1>6, CalmStep

LEMMA AcquireHist ==
  ASSUME StInv, StInv', HInv, NEW t \in Tx, AcquireSweeper(t)
  PROVE  HInv'
  <1>0. Base /\ Steady /\ \A x \in Tx : x # t => Unmoved(x)
    BY AcquireBase DEF StInv
  <1>1. /\ pc[t] = "aborted" /\ pc'[t] = "withdraw" /\ sweeper = NoTx /\ sweeper' = t
        /\ UNCHANGED <<rec, doomed, log>>
        /\ UNCHANGED <<chain, bag, born, died, tomb, torn, owed, claim>>
    BY <1>0 DEF AcquireSweeper, Step, Goto, Base, labels, lives
  <1>2. SessionMove(t)
    BY <1>0, <1>1 DEF SessionMove, StoreStill
  <1>4. Free(t) /\ Free(t)' /\ ReplayAt(t)' /\ GoneAt(t)'
    BY <1>1 DEF Free, MarkPc, UndoHand, ReplayAt, GoneAt
  <1>5. SweepOK'
    <2>1. SweepOK /\ \A x \in Tx : x # t => pc'[x] = pc[x]
      BY <1>0, HInvIs DEF Unmoved
    <2> QED
      BY <1>1, <2>1, NamesAssumption DEF SweepOK
  <1> QED
    BY <1>1, <1>2, <1>4, <1>5, SessionCalm

\* Whoever owes nothing has left nothing.
LEMMA NothingOwed ==
  ASSUME StInv, NEW t \in Tx, rec[t] = "aborted", NEW n \in Node
  PROVE  /\ ~OwesLabels(t, n) => ~InLabels(t, n)
         /\ ~OwesLife(t, n) => ~InLife(t, n)
  <1>1. ASSUME InLabels(t, n) PROVE OwesLabels(t, n)
    <2>0. Base /\ Sorted(chain[n])
      BY DEF StInv, Order, ChainOK
    <2>1. PICK i \in DOMAIN chain[n] : chain[n][i].tx = t
      BY <1>1 DEF InLabels
    <2>2. /\ chain[n] \in Seq(LabelDelta) /\ DOMAIN chain[n] = 1 .. Len(chain[n])
          /\ Len(chain[n]) \in Nat
      BY <2>0, ChainType DEF LabelDelta
    <2>3. 1 \in DOMAIN chain[n] /\ chain[n] # <<>> /\ Head(chain[n]) = chain[n][1]
      BY <2>1, <2>2
    <2>4. chain[n][1].tx = t
      <3>1. CASE i = 1
        BY <2>1, <3>1
      <3>2. CASE 1 < i
        <4>1. chain[n][1].tx = chain[n][i].tx \/ Precedes(chain[n][i].tx, chain[n][1].tx)
          BY <2>0, <2>1, <2>3, <3>2 DEF Sorted
        <4> QED
          BY <2>1, <4>1 DEF Precedes
      <3> QED
        BY <2>1, <2>2, <3>1, <3>2
    <2>5. LabelHead(n) = t
      BY <2>3, <2>4 DEF LabelHead
    <2>6. chain[n][i] \in ToSet(chain[n])
      BY <2>1 DEF ToSet
    <2> QED
      BY <2>1, <2>5, <2>6, NamesAssumption DEF OwesLabels, Aborted
  <1>2. InLife(t, n) => OwesLife(t, n)
    BY DEF InLife, Records, OwesLife
  <1> QED
    BY <1>1, <1>2

LEMMA ReleaseHist ==
  ASSUME StInv, StInv', HInv, NEW t \in Tx, ReleaseSweeper(t)
  PROVE  HInv'
  <1>0. Base /\ Steady /\ \A x \in Tx : x # t => Unmoved(x)
    BY ReleaseBase DEF StInv
  <1>1. /\ pc[t] = "withdraw" /\ pc'[t] = "ended" /\ sweeper' = NoTx
        /\ \A n \in Node : ~OwesLabels(t, n) /\ ~OwesLife(t, n) /\ owed[n] = "none"
        /\ UNCHANGED <<rec, doomed, log>>
        /\ UNCHANGED <<chain, bag, born, died, tomb, torn, owed, claim>>
    BY <1>0 DEF ReleaseSweeper, Leave, Goto, Base, labels, lives
  <1>2. SessionMove(t)
    BY <1>0, <1>1 DEF SessionMove, StoreStill
  <1>3. rec[t] = "aborted"
    BY <1>0, <1>1, Places DEF PlaceOK
  <1>4. GoneAt(t)'
    <2> SUFFICES ASSUME NEW n \in Node PROVE ~(InLabels(t, n)') /\ ~(InLife(t, n)')
      BY DEF GoneAt
    <2>1. ~InLabels(t, n) /\ ~InLife(t, n)
      BY <1>1, <1>3, NothingOwed
    <2> QED
      BY <1>1, <2>1 DEF InLabels, InLife, Records
  <1>5. Free(t) /\ Free(t)' /\ ReplayAt(t)'
    BY <1>1 DEF Free, MarkPc, UndoHand, ReplayAt
  <1>6. SweepOK'
    <2>1. SweepOK /\ \A x \in Tx : x # t => pc'[x] = pc[x]
      BY <1>0, HInvIs DEF Unmoved
    <2> QED
      BY <1>1, <2>1 DEF SweepOK
  <1> QED
    BY <1>1, <1>2, <1>4, <1>5, <1>6, SessionCalm

\* The newest effect is taken out of the journal, to be undone.
LEMMA NextInverseHist ==
  ASSUME StInv, StInv', HInv, NEW t \in Tx, NextInverse(t)
  PROVE  HInv'
  <1>0. Base /\ Steady /\ \A x \in Tx : x # t => Unmoved(x)
    BY NextInverseBase DEF StInv
  <1>a. log[t] \in Seq(Effects) /\ log[t] # <<>>
    BY <1>0, LogType DEF NextInverse
  <1>b. PICK e \in Effects : e = Last(log[t])
    BY <1>a, FrontIs
  <1>1. /\ pc[t] = "undo" /\ pc'[t] = "inverse" /\ arg'[t] = [e EXCEPT !.v = ~@]
        /\ log'[t] = Front(log[t]) /\ UNCHANGED <<rec, doomed, undoing>>
        /\ UNCHANGED <<chain, bag, born, died, tomb, torn, owed, sweeper, claim>>
    <2>1. arg' = [arg EXCEPT ![t] = [e EXCEPT !.v = ~@]] /\ arg \in [Tx -> Effects \union {Nothing}]
      BY <1>0, <1>b DEF NextInverse, Goto, Base, TypeOK
    <2> QED
      BY <1>0, <2>1 DEF NextInverse, Goto, Base, TypeOK, labels, lives, sweep, session
  <1>c. e.n \in Node /\ e.c \in Cells /\ e.v \in BOOLEAN
    BY DEF Effects, Cells
  <1>d. arg'[t].n = e.n /\ arg'[t].c = e.c /\ arg'[t].v = ~e.v
    BY <1>1, <1>c DEF Effects
  <1>2. SessionMove(t)
    BY <1>0, <1>1 DEF SessionMove, StoreStill
  <1>3. Steady /\ StoreStill /\ \A x \in Tx : x # t => Still(x)
    BY <1>2, SessionOthers DEF SessionMove
  <1>4. rec[t] \in {"none", "open"}
    BY <1>0, <1>1, Places DEF PlaceOK, ActivePc, UndoPc
  <1>5. NoCommit
    <2>1. \A u \in Tx : rec[u] = "committed" => log'[u] = log[u]
      BY <1>0, <1>4 DEF Unmoved
    <2> QED
      BY <1>0, <1>1, <2>1, NoCommitIf
  <1>6. HistFixed /\ ActorOK(t) /\ torn \subseteq torn'
    BY <1>1, <1>5, NoCommitFixed, HInvIs
  <1>7. undoing[t] /\ Free(t)
    BY <1>1, <1>6 DEF ActorOK, ReplayAt, Free, MarkPc, UndoHand
  <1>8. \A n, c : /\ ~Pushed(t, n, c) /\ ~Undoes(t, n, c) /\ ~(Pushed(t, n, c)')
                  /\ Undoes(t, n, c)' <=> (n = e.n /\ c = e.c)
    BY <1>1, <1>7, <1>d DEF Pushed, Undoes
  <1>9. UndoMarkedAt(t)'
    <2>1. Touches(t, e.n, e.c)
      BY <1>a, <1>b, FrontIs DEF Touches
    <2>2. Marked(t, e.n, e.c)
      BY <1>4, <1>c, <2>1, TouchMarked DEF Settled
    <2>3. \A n, c : Marked(t, n, c)' <=> Marked(t, n, c)
      BY <1>1 DEF Marked, InLife, InLabels, Records
    <2> QED
      BY <1>8, <2>2, <2>3 DEF UndoMarkedAt
  <1>10. Healthy(t)' => Healthy(t)
    BY <1>1 DEF Healthy
  <1>11. TogglesAt(t)'
    BY <1>1, <1>6, <1>10, <1>a, TogglesShorter
  <1>12. ASSUME NEW n \in Node, NEW c \in Cells, Healthy(t), Sound(n, c), NEW v, OwnCell(t, n, c, v)
         PROVE  OwnNext(t, n, c, v)
    <2>1. v = Present(t, n, c)
      BY <1>8, <1>12 DEF OwnCell
    <2>2. /\ Present(t, n, c)' =
               Held(log[t], Len(log[t]) - 1, n, c, History(n, c, implicitStartTS))
          /\ Present(t, n, c) = IF e.n = n /\ e.c = c THEN e.v ELSE Present(t, n, c)'
      BY <1>1, <1>6, <1>a, <1>b, PresentFront
    <2>3. CASE n = e.n /\ c = e.c
      <3>1. /\ Len(log[t]) \in DOMAIN log[t] /\ e = log[t][Len(log[t])]
        BY <1>a, <1>b, FrontIs
      <3>2. Toggled(t, Len(log[t]))
        BY <1>6, <1>12, <3>1 DEF ActorOK, TogglesAt
      <3>3. Held(log[t], Len(log[t]) - 1, n, c, History(n, c, implicitStartTS)) = ~e.v
        BY <1>12, <2>3, <3>1, <3>2 DEF Toggled
      <3>4. Present(t, n, c)' = ~e.v /\ v = e.v
        BY <2>1, <2>2, <2>3, <3>3
      <3> QED
        BY <1>8, <1>c, <1>d, <2>3, <3>4 DEF OwnNext
    <2>4. CASE ~(n = e.n /\ c = e.c)
      BY <1>8, <2>1, <2>2, <2>4 DEF OwnNext
    <2> QED
      BY <2>3, <2>4
  <1>13. ASSUME NEW n \in Node PROVE OwnLabelsAt(t, n)'
    <2> SUFFICES ASSUME Healthy(t)', InLabels(t, n)', NEW l \in Label
                 PROVE  OwnCell(t, n, l, l \in bag[n])'
      BY DEF OwnLabelsAt
    <2>1. InLabels(t, n) /\ Healthy(t) /\ l \in Cells /\ Sound(n, l)
      BY <1>1, <1>10, NamesAssumption DEF InLabels, Cells, Sound
    <2>2. OwnCell(t, n, l, l \in bag[n])
      BY <1>6, <2>1 DEF ActorOK, OwnLabelsAt
    <2>3. OwnNext(t, n, l, l \in bag[n])
      BY <1>12, <2>1, <2>2, Zenon
    <2>4. bag' = bag
      BY <1>1
    <2> QED
      BY <2>3, <2>4 DEF OwnNext, OwnCell
  <1>14. ASSUME NEW n \in Node PROVE OwnLifeAt(t, n)'
    <2> SUFFICES ASSUME Healthy(t)', n \notin torn', InLife(t, n)'
                 PROVE  /\ OwnCell(t, n, Life, After(t, n))'
                        /\ ~(Pushed(t, n, Life)') => tomb'[n] = ~(After(t, n)')
      BY DEF OwnLifeAt
    <2>1. After(t, n)' = After(t, n) /\ InLife(t, n)
      <3>1. LivesSame(n)
        BY <1>1 DEF LivesSame
      <3> QED
        BY <3>1, AfterSame
    <2>2. Healthy(t) /\ n \notin torn /\ Life \in Cells /\ Sound(n, Life)
      BY <1>1, <1>10 DEF Cells, Sound
    <2>3. OwnCell(t, n, Life, After(t, n)) /\ tomb[n] = ~After(t, n)
      BY <1>6, <1>8, <2>1, <2>2 DEF ActorOK, OwnLifeAt
    <2>4. OwnNext(t, n, Life, After(t, n))
      BY <1>12, <2>2, <2>3, Zenon
    <2>5. OwnNext(t, n, Life, After(t, n)')
      BY <2>1, <2>4, Zenon
    <2>6. OwnCell(t, n, Life, After(t, n))'
      BY <2>5 DEF OwnNext, OwnCell
    <2> QED
      BY <1>1, <2>1, <2>3, <2>6
  <1>15. ActorOK(t)'
    <2>1. ReplayAt(t)' /\ GoneAt(t)' /\ LateAt(t)'
      BY <1>1 DEF ReplayAt, GoneAt, LateAt
    <2> QED
      BY <1>9, <1>11, <1>13, <1>14, <2>1 DEF ActorOK
  <1>16. SweepOK'
    BY <1>1, <1>2, SessionSweep
  <1> QED
    BY <1>3, <1>5, <1>15, <1>16, CalmStep

----------------------------------------------------------------------------
(* Steps of nobody.                                                        *)

LEMMA IdleHist ==
  ASSUME StInv, StInv', HInv, Steady, \A x \in Tx : Unmoved(x),
         UNCHANGED <<rec, log, doomed, sweeper, claim>>, StoreStill
  PROVE  HInv'
  <1>1. NoTx \notin Tx
    BY NamesAssumption
  <1>2. NoCommit
    BY NoCommitIf DEF StInv
  <1>3. \A x \in Tx : Still(x)
    BY DEF Still
  <1>4. SweepOK'
    <2>1. SweepOK /\ UNCHANGED <<owed, sweeper>> /\ \A x \in Tx : x # NoTx => pc'[x] = pc[x]
      BY HInvIs DEF StoreStill, Unmoved
    <2> QED
      BY <1>1, <2>1, SweepSame
  <1> QED
    BY <1>1, <1>2, <1>3, <1>4, CalmStep

LEMMA PassHist ==
  ASSUME StInv, StInv', HInv, FrontierPasses
  PROVE  HInv'
  <1>1. Steady /\ \A x \in Tx : Unmoved(x)
    BY PassBase DEF StInv
  <1>2. UNCHANGED <<rec, log, doomed, sweeper, claim>> /\ StoreStill
    BY DEF FrontierPasses, StoreStill, labels, lives, sweep
  <1> QED
    BY <1>1, <1>2, IdleHist

LEMMA StutterHist ==
  ASSUME StInv, StInv', HInv, UNCHANGED vars
  PROVE  HInv'
  <1>1. /\ UNCHANGED <<rec, log, doomed, sweeper, claim>> /\ StoreStill
        /\ UNCHANGED <<at, pc, arg, start, pin, undoing, water>>
    BY DEF vars, StoreStill, clock, session, labels, lives, sweep
  <1>2. \A x \in Tx : Unmoved(x)
    BY <1>1 DEF Unmoved
  <1>3. Steady
    <2>1. water \in Nat
      BY Numbers DEF StInv
    <2> QED
      BY <1>1, <2>1 DEF Steady, SteadyTx
  <1> QED
    BY <1>1, <1>2, <1>3, IdleHist

----------------------------------------------------------------------------
(* Withdrawal and reclamation.                                             *)

LEMMA SweepStep ==
  ASSUME StInv, StInv', HInv, Steady, \A x \in Tx : Unmoved(x), UNCHANGED <<rec, log, doomed, tomb>>,
         torn' = torn, \A u \in Tx, n \in Node : RetainsAt(u, n),
         \A n \in Node : LabelsSame(n) \/ LabelTrim(n),
         \A n \in Node : LivesSame(n) \/ LifeTrim(n),
         \A n \in Node : TombAt(n)', SweepOK'
  PROVE  HInv'
  <1>1. NoTx \notin Tx
    BY NamesAssumption
  <1>2. NoCommit
    BY NoCommitIf DEF StInv
  <1>3. \A x \in Tx : Still(x)
    BY DEF Still
  <1>4. \A n \in Node : LabelShape(NoTx, n) /\ LifeShape(NoTx, n)
    BY DEF LabelShape, LifeShape
  <1>5. Advance(NoTx)
    BY <1>2, <1>3, <1>4 DEF Advance
  <1>6. \A n \in Node : ~LifeGrows(NoTx, n)
    BY <1>1 DEF LifeGrows
  <1>7. \A x \in Tx, n \in Node : x # NoTx => OwnLifeAt(x, n)'
    BY <1>2, <1>3, <1>4, OwnLifeOther
  <1> QED
    BY <1>1, <1>5, <1>6, <1>7, AdvanceStep

\* The sweeper does not touch what it owes.
LEMMA SweepKept ==
  ASSUME SweepOK, UNCHANGED <<pc, owed, sweeper>>,
         \A n \in Node : claim'[n] \in {claim[n], NoTx}
  PROVE  SweepOK'
  BY NamesAssumption DEF SweepOK

LEMMA LabelSweep ==
  ASSUME StInv, StInv', HInv, Steady, \A x \in Tx : Unmoved(x), NEW n \in Node, NEW w, Trims(n, w),
         LabelTrim(n), \A m \in Node : m # n => LabelsSame(m),
         UNCHANGED <<rec, log, doomed, pc, lives, tomb, torn, owed, sweeper>>
  PROVE  HInv'
  <1>1. NoCommit
    BY NoCommitIf DEF StInv
  <1>2. \A u \in Tx, m \in Node : RetainsAt(u, m)
    BY TrimRetains DEF StInv
  <1>3. UNCHANGED <<born, died, claim>>
    BY DEF lives
  <1>4. \A m \in Node : LivesSame(m) /\ TombAt(m)'
    <2> TAKE m \in Node
    <2>1. LivesSame(m)
      BY <1>3 DEF LivesSame
    <2>2. TombAt(m)'
      BY <1>1, <2>1, TombSame
    <2> QED
      BY <2>1, <2>2
  <1>5. SweepOK'
    BY <1>3, HInvIs, SweepKept
  <1> QED
    BY <1>2, <1>4, <1>5, SweepStep

LEMMA WithdrawLabelsHist ==
  ASSUME StInv, StInv', HInv, NEW t \in Tx, NEW n \in Node, WithdrawLabels(t, n)
  PROVE  HInv'
  <1>1. Steady /\ (\A x \in Tx : Unmoved(x)) /\ Trims(n, 0)
    BY WithdrawLabelsBase DEF StInv
  <1>2. LabelTrim(n) /\ \A m \in Node : m # n => LabelsSame(m)
    BY WithdrawTrims
  <1>3. UNCHANGED <<rec, log, doomed, pc, lives, tomb, torn, owed, sweeper>>
    BY DEF WithdrawLabels, sweep
  <1> QED
    BY <1>1, <1>2, <1>3, LabelSweep

LEMMA ReclaimLabelsHist ==
  ASSUME StInv, StInv', HInv, NEW n \in Node, NEW w, ReclaimLabels(n, w)
  PROVE  HInv'
  <1>1. Steady /\ (\A x \in Tx : Unmoved(x)) /\ Trims(n, w)
    BY ReclaimLabelsBase DEF StInv
  <1>2. LabelTrim(n) /\ \A m \in Node : m # n => LabelsSame(m)
    BY ReclaimTrims
  <1>3. UNCHANGED <<rec, log, doomed, pc, lives, tomb, torn, owed, sweeper>>
    BY DEF ReclaimLabels
  <1> QED
    BY <1>1, <1>2, <1>3, LabelSweep

LEMMA ReclaimLifeHist ==
  ASSUME StInv, StInv', HInv, NEW n \in Node, NEW w, ReclaimNodeLife(n, w)
  PROVE  HInv'
  <1>1. Steady /\ (\A x \in Tx : Unmoved(x)) /\ Trims(n, w)
    BY ReclaimLifeBase DEF StInv
  <1>2. /\ LifeTrim(n) /\ Drops(n, {u \in Tx : Past(u, w)})
        /\ \A m \in Node : m # n => LivesSame(m)
    BY ReclaimDrops
  <1>3. /\ UNCHANGED <<rec, log, doomed, pc, labels, tomb, torn, owed, sweeper>>
        /\ sweeper = NoTx /\ \A m \in Node : claim'[m] \in {claim[m], NoTx}
    BY StoreSeqs DEF ReclaimNodeLife, Swept, StInv
  <1>4. NoCommit
    BY <1>1, <1>3, NoCommitIf DEF StInv
  <1>5. \A u \in Tx, m \in Node : RetainsAt(u, m)
    BY <1>1, TrimRetains DEF StInv
  <1>6. \A m \in Node : LabelsSame(m)
    BY <1>3 DEF LabelsSame, labels
  <1>7. SweepOK'
    BY <1>3, HInvIs, SweepKept
  <1>8. \A m \in Node : owed'[m] = "none"
    <2>1. SweepOK
      BY HInvIs
    <2> QED
      BY <1>3, <2>1, NamesAssumption DEF SweepOK
  <1>9. TombAt(n)'
    <2>1. TombAt(n)
      BY HInvIs
    <2>2. \A u \in Tx : InLife(u, n) /\ rec[u] # "committed" => InLife(u, n)'
      BY <1>2, DropKeeps DEF Past, SameFor
    <2>3. AllCommitted(n)' => AllCommitted(n)
      BY <1>3, <2>2 DEF AllCommitted
    <2>4. History(n, Life, implicitStartTS)' = History(n, Life, implicitStartTS)
      BY <1>4, NoCommitFixed, StartTS DEF HistFixed, Cells
    <2>5. Buried(n)' = Buried(n)
      BY <1>3 DEF Buried
    <2> QED
      BY <1>3, <1>8, <2>1, <2>3, <2>4, <2>5 DEF TombAt
  <1>10. \A m \in Node : TombAt(m)'
    BY <1>2, <1>3, <1>4, <1>9, TombSame
  <1> QED
    BY <1>1, <1>2, <1>3, <1>5, <1>6, <1>7, <1>10, SweepStep

\* An aborted record is under no other transaction's.
LEMMA TopAborted ==
  ASSUME StInv, NEW n \in Node, NEW s \in {born[n], died[n]}, NEW r \in ToSet(s),
         rec[r.tx] = "aborted"
  PROVE  s # <<>> /\ Head(s) \in ToSet(s) /\ Head(s).tx = r.tx
  <1>0. s \in Seq(LifeRecord) /\ Sorted(s)
    BY LifeType, LifeSorted DEF StInv
  <1>1. PICK i \in DOMAIN s : r = s[i]
    BY DEF ToSet
  <1>2. Len(s) \in Nat /\ DOMAIN s = 1 .. Len(s)
    BY <1>0
  <1>3. s # <<>> /\ 1 \in DOMAIN s /\ Head(s) = s[1]
    BY <1>0, <1>1, <1>2
  <1>4. Head(s).tx = r.tx
    <2>1. CASE i = 1
      BY <1>1, <1>3, <2>1
    <2>2. CASE 1 < i
      <3>1. s[1].tx = s[i].tx \/ Precedes(s[i].tx, s[1].tx)
        BY <1>0, <1>3, <2>2 DEF Sorted
      <3> QED
        BY <1>1, <1>3, <3>1 DEF Precedes
    <2> QED
      BY <1>1, <1>2, <2>1, <2>2
  <1>5. Head(s) \in ToSet(s)
    BY <1>3 DEF ToSet
  <1> QED
    BY <1>3, <1>4, <1>5

\* The flip that a withdrawal owes restores what was before the transaction.
LEMMA RestoredIs ==
  ASSUME StInv, LifeSingle, NEW n \in Node
  PROVE  /\ Restored(n) = "none" => \A u \in Tx : InLife(u, n) => rec[u] # "aborted"
         /\ Restored(n) # "none" =>
              \E u \in Tx : /\ InLife(u, n) /\ rec[u] = "aborted"
                            /\ (Restored(n) = "dead") = ~Before(u, n)
  <1> DEFINE lostBorn == born[n] # <<>> /\ Aborted(Head(born[n]).tx)
             lostDied == died[n] # <<>> /\ Aborted(Head(died[n]).tx)
             b == Head(born[n])
             d == Head(died[n])
  <1>1. /\ \A r \in Births(n) \union Deaths(n) : r.tx \in Tx /\ r.was \in BOOLEAN
        /\ \A u : InLife(u, n) <=> \E r \in Births(n) \union Deaths(n) : r.tx = u
        /\ \A r, q \in Births(n) \union Deaths(n) :
              rec[r.tx] = "aborted" /\ rec[q.tx] = "aborted" => r.tx = q.tx
    <2>1. \A r, q \in Births(n) \union Deaths(n) :
             r.tx = q.tx \/ Precedes(r.tx, q.tx) \/ Precedes(q.tx, r.tx)
      BY LifeSets
    <2> QED
      BY <2>1, LifeSets DEF Precedes
  <1>2. /\ born[n] # <<>> => b \in Births(n)
        /\ died[n] # <<>> => d \in Deaths(n)
    <2>1. /\ born[n] \in Seq(LifeRecord) /\ died[n] \in Seq(LifeRecord)
          /\ Descending(born[n]) /\ Descending(died[n])
      BY LifeType, LifeSorted DEF StInv
    <2> QED
      BY <2>1, HeadNewest DEF Births, Deaths, ToSet
  <1>3. /\ \A r \in Births(n) : rec[r.tx] = "aborted" => born[n] # <<>> /\ b.tx = r.tx
        /\ \A r \in Deaths(n) : rec[r.tx] = "aborted" => died[n] # <<>> /\ d.tx = r.tx
    BY TopAborted DEF Births, Deaths
  <1>4. /\ lostBorn => b \in Births(n) /\ rec[b.tx] = "aborted" /\ b.tx \in Tx
        /\ lostDied => d \in Deaths(n) /\ rec[d.tx] = "aborted" /\ d.tx \in Tx
        /\ ~lostBorn => \A r \in Births(n) : rec[r.tx] # "aborted"
        /\ ~lostDied => \A r \in Deaths(n) : rec[r.tx] # "aborted"
    <2>1. NoTx \notin Tx
      BY NamesAssumption
    <2> HIDE DEF b, d
    <2> QED
      BY <1>1, <1>2, <1>3, <2>1 DEF Aborted, b, d
  <1>5. \A r \in Births(n) : lostBorn /\ r.tx = b.tx => r = b
    BY <1>4 DEF LifeSingle, SingleOK
  <1>6. CASE lostBorn /\ lostDied
    <2>1. b.tx = d.tx
      BY <1>1, <1>4, <1>6
    <2>2. Restored(n) = IF b.was THEN "live" ELSE "dead"
      BY <1>6, <2>1 DEF Restored, AliveBefore
    <2>3. Before(b.tx, n) = b.was
      <3>1. Before(b.tx, n) <=> b.was
        BY <1>4, <1>5, <1>6 DEF Before
      <3>2. b.was \in BOOLEAN /\ Before(b.tx, n) \in BOOLEAN
        BY <1>1, <1>4, <1>6 DEF Before
      <3> QED
        BY <3>1, <3>2
    <2>4. InLife(b.tx, n) /\ b.was \in BOOLEAN
      BY <1>1, <1>4, <1>6
    <2> HIDE DEF b, d, lostBorn, lostDied
    <2> QED
      BY <1>4, <1>6, <2>2, <2>3, <2>4
  <1>7. CASE lostBorn /\ ~lostDied
    <2>2. Restored(n) = IF b.was THEN "live" ELSE "dead"
      BY <1>7 DEF Restored
    <2>3. Before(b.tx, n) = b.was
      <3>1. Before(b.tx, n) <=> b.was
        BY <1>4, <1>5, <1>7 DEF Before
      <3>2. b.was \in BOOLEAN /\ Before(b.tx, n) \in BOOLEAN
        BY <1>1, <1>4, <1>7 DEF Before
      <3> QED
        BY <3>1, <3>2
    <2>4. InLife(b.tx, n) /\ b.was \in BOOLEAN
      BY <1>1, <1>4, <1>7
    <2> HIDE DEF b, d, lostBorn, lostDied
    <2> QED
      BY <1>4, <1>7, <2>2, <2>3, <2>4
  <1>8. CASE ~lostBorn /\ lostDied
    <2>2. Restored(n) = "live"
      BY <1>8 DEF Restored
    <2>3. Before(d.tx, n) /\ InLife(d.tx, n)
      BY <1>1, <1>4, <1>8 DEF Before
    <2> HIDE DEF b, d, lostBorn, lostDied
    <2> QED
      BY <1>4, <1>8, <2>2, <2>3
  <1>9. CASE ~lostBorn /\ ~lostDied
    <2>2. Restored(n) = "none"
      BY <1>9 DEF Restored
    <2> HIDE DEF b, d, lostBorn, lostDied
    <2> QED
      BY <1>1, <1>4, <1>9, <2>2
  <1> QED
    BY <1>6, <1>7, <1>8, <1>9

\* Where an aborted transaction was, nobody else is open.
LEMMA AbortedHistory ==
  ASSUME StInv, HInv, NEW n \in Node, n \notin torn, NEW u \in Tx, InLife(u, n), rec[u] = "aborted"
  PROVE  /\ \A x \in Tx : x # u /\ InLife(x, n) => rec[x] = "committed"
         /\ History(n, Life, implicitStartTS) = Before(u, n)
  <1>1. \A x \in Tx : x # u /\ InLife(x, n) => Precedes(x, u)
    BY UnderOpen DEF Marked
  <1>2. \A x \in Tx : x # u /\ InLife(x, n) => rec[x] = "committed" /\ Seen(x, implicitStartTS)
    BY <1>1, PrecedesSeen DEF StInv
  <1>3. Between(u, n, implicitStartTS)
    BY <1>2 DEF Between, Seen
  <1>4. LifeHistAt(n, u, implicitStartTS)
    BY HInvIs, StartTS
  <1>5. water <= implicitStartTS
    BY Numbers, StartTS DEF StInv, Base, WaterOK, implicitStartTS
  <1> QED
    BY <1>2, <1>3, <1>4, <1>5 DEF LifeHistAt

LEMMA WithdrawLifeHist ==
  ASSUME StInv, StInv', HInv, NEW t \in Tx, NEW n \in Node, WithdrawLife(t, n)
  PROVE  HInv'
  <1>0. Base /\ SweepOK /\ LifeSingle
    BY HInvIs DEF StInv
  <1>1. Steady /\ (\A x \in Tx : Unmoved(x)) /\ Trims(n, 0)
    BY <1>0, WithdrawLifeBase
  <1>2. /\ LifeTrim(n) /\ Drops(n, {u \in Tx : rec[u] = "aborted"})
        /\ \A m \in Node : m # n => LivesSame(m)
    BY WithdrawDrops
  <1>3. /\ UNCHANGED <<rec, log, doomed, pc, labels, tomb, torn, sweeper>>
        /\ pc[t] = "withdraw" /\ OwesLife(t, n)
        /\ claim' = [claim EXCEPT ![n] = IF Aborted(@) THEN NoTx ELSE @]
        /\ owed' = [owed EXCEPT ![n] = Restored(n)]
    BY DEF WithdrawLife
  <1>4. NoCommit
    BY <1>0, <1>1, <1>3, NoCommitIf
  <1>5. \A u \in Tx, m \in Node : RetainsAt(u, m)
    BY <1>1, TrimRetains DEF StInv
  <1>6. \A m \in Node : LabelsSame(m)
    BY <1>3 DEF LabelsSame, labels
  <1>7. rec[t] = "aborted" /\ sweeper = t
    BY <1>0, <1>3, Places DEF PlaceOK, SweepOK
  <1>8. /\ \A m \in Node : m # n => claim'[m] = claim[m] /\ owed'[m] = owed[m]
        /\ claim'[n] = IF Aborted(claim[n]) THEN NoTx ELSE claim[n]
        /\ owed'[n] = Restored(n)
    BY <1>0, <1>3, StoreSeqs
  <1>9. SweepOK'
    <2>1. claim'[n] # t
      BY <1>7, <1>8, NamesAssumption DEF Aborted
    <2>2. \A m \in Node : owed'[m] # "none" =>
            sweeper' \in Tx /\ pc'[sweeper'] = "withdraw" /\ claim'[m] # sweeper'
      BY <1>0, <1>3, <1>7, <1>8, <2>1 DEF SweepOK
    <2> QED
      BY <1>0, <1>3, <2>2 DEF SweepOK
  <1>10. History(n, Life, implicitStartTS)' = History(n, Life, implicitStartTS)
    BY <1>4, NoCommitFixed, StartTS DEF HistFixed, Cells
  <1>11. \A u \in Tx : InLife(u, n)' <=> InLife(u, n) /\ rec[u] # "aborted"
    <2>1. \A u \in Tx : rec[u] = "aborted" => ~(InLife(u, n)')
      BY <1>2, DropKeeps
    <2>2. \A u \in Tx : rec[u] # "aborted" => (InLife(u, n)' <=> InLife(u, n))
      BY <1>2, DropKeeps DEF SameFor
    <2> QED
      BY <2>1, <2>2
  <1>12. ASSUME n \notin torn PROVE TombAt(n)'
    <2>1. CASE Restored(n) = "none"
      <3>1. \A u \in Tx : InLife(u, n) => rec[u] # "aborted"
        BY <1>0, <2>1, RestoredIs
      <3>2. owed[n] = "none"
        <4>1. ~InLife(t, n)
          BY <1>7, <3>1
        <4>2. claim[n] = t
          BY <1>3, <4>1 DEF OwesLife, InLife, Records
        <4> QED
          BY <1>0, <1>7, <4>2 DEF SweepOK
      <3>3. AllCommitted(n)' <=> AllCommitted(n)
        BY <1>3, <1>11, <3>1 DEF AllCommitted
      <3>4. Buried(n)' = Buried(n)
        BY <1>3, <1>8, <2>1, <3>2 DEF Buried
      <3>5. TombAt(n)
        BY HInvIs
      <3> QED
        BY <1>3, <1>8, <1>10, <1>12, <2>1, <3>3, <3>4, <3>5 DEF TombAt
    <2>2. CASE Restored(n) # "none"
      <3>1. PICK u \in Tx : /\ InLife(u, n) /\ rec[u] = "aborted"
                            /\ (Restored(n) = "dead") = ~Before(u, n)
        BY <1>0, <2>2, RestoredIs
      <3>2. /\ \A x \in Tx : x # u /\ InLife(x, n) => rec[x] = "committed"
            /\ History(n, Life, implicitStartTS) = Before(u, n)
        BY <1>12, <3>1, AbortedHistory
      <3>3. AllCommitted(n)'
        BY <1>3, <1>11, <3>1, <3>2 DEF AllCommitted
      <3>4. Buried(n)' = (Restored(n) = "dead")
        BY <1>8, <2>2 DEF Buried
      <3>5. Buried(n)' = ~(History(n, Life, implicitStartTS)')
        BY <1>10, <3>1, <3>2, <3>4
      <3> QED
        BY <3>3, <3>5 DEF TombAt
    <2> QED
      BY <2>1, <2>2
  <1>13. \A m \in Node : TombAt(m)'
    <2> TAKE m \in Node
    <2>1. CASE m # n
      BY <1>2, <1>3, <1>4, <1>8, <2>1, TombSame
    <2>2. CASE m = n /\ n \notin torn
      BY <1>12, <2>2
    <2>3. CASE m = n /\ n \in torn
      BY <1>3, <2>3 DEF TombAt
    <2> QED
      BY <2>1, <2>2, <2>3
  <1> QED
    BY <1>1, <1>2, <1>3, <1>5, <1>6, <1>9, <1>13, SweepStep

LEMMA SettleFlipHist ==
  ASSUME StInv, StInv', HInv, NEW t \in Tx, NEW n \in Node, SettleFlip(t, n)
  PROVE  HInv'
  <1>0. Base /\ SweepOK
    BY HInvIs DEF StInv
  <1>1. Steady /\ \A x \in Tx : Unmoved(x)
    BY <1>0, SettleBase
  <1>2. /\ UNCHANGED <<rec, log, doomed, pc, chain, bag, born, died, claim, sweeper>>
        /\ torn' = torn
        /\ owed[n] # "none"
        /\ tomb' = [tomb EXCEPT ![n] = owed[n] = "dead"]
        /\ owed' = [owed EXCEPT ![n] = "none"]
    BY DEF SettleFlip, labels, lives
  <1>3. /\ \A m \in Node : m # n => tomb'[m] = tomb[m] /\ owed'[m] = owed[m]
        /\ tomb'[n] = (owed[n] = "dead") /\ owed'[n] = "none"
    BY <1>0, <1>2, StoreSeqs
  <1>4. NoCommit
    BY <1>0, <1>1, <1>2, NoCommitIf
  <1>5. \A x \in Tx : Still(x)
    BY <1>1, <1>2 DEF Still
  <1>6. SweepOK'
    BY <1>0, <1>2, <1>3 DEF SweepOK
  <1>7. TombAt(n)
    BY HInvIs
  <1>8. TombAt(n)'
    <2>1. History(n, Life, implicitStartTS)' = History(n, Life, implicitStartTS)
      BY <1>4, NoCommitFixed, StartTS DEF HistFixed, Cells
    <2>2. AllCommitted(n)' <=> AllCommitted(n)
      BY <1>2 DEF AllCommitted, InLife, Records
    <2>3. Buried(n)' = Buried(n)
      BY <1>2, <1>3 DEF Buried
    <2> QED
      BY <1>2, <1>3, <1>7, <2>1, <2>2, <2>3 DEF TombAt
  <1>9. \A m \in Node : TombAt(m)'
    <2> TAKE m \in Node
    <2>1. LivesSame(m)
      BY <1>2 DEF LivesSame
    <2> QED
      BY <1>2, <1>3, <1>4, <1>8, <2>1, TombSame
  <1>10. \A x \in Tx, m \in Node :
           x # NoTx /\ m \notin torn' /\ Healthy(x) /\ InLife(x, m) => tomb'[m] = tomb[m]
    BY <1>2, <1>3, <1>7 DEF TombAt, AllCommitted, Healthy
  <1> QED
    BY <1>1, <1>2, <1>4, <1>5, <1>6, <1>9, <1>10, NamesAssumption, TombStep

----------------------------------------------------------------------------
(* The commit.                                                             *)

\* A commit leaves the history of the cells it has no version of.
LEMMA CommitElsewhere ==
  ASSUME StInv, StInv', NEW t \in Tx, rec[t] = "open",
         rec' = [rec EXCEPT ![t] = "committed"], at' = at, log' = log,
         NEW n \in Node, NEW c \in Cells, ~Marked(t, n, c), NEW s \in Nat
  PROVE  History(n, c, s)' = History(n, c, s)
  <1>1. ~Touches(t, n, c)
    BY TouchMarked DEF Settled
  <1>2. rec \in [Tx -> {"none", "open", "committed", "aborted"}]
    BY DEF StInv, Base, TypeOK
  <1>3. \A u \in Tx : Touches(u, n, c)' <=> Touches(u, n, c)
    BY DEF Touches
  <1>4. \A u \in Tx : Wrote(u, n, c, s)' <=> Wrote(u, n, c, s)
    BY <1>1, <1>2, <1>3 DEF Wrote, Seen
  <1>5. HistKnown /\ HistKnown'
    BY HistoryKnown, HistoryKnownNext
  <1> QED
    BY <1>4, <1>5, HistorySame

\* Two open transactions have no version of one cell.
LEMMA OpenApart ==
  ASSUME StInv, NEW t \in Tx, rec[t] = "open", NEW x \in Tx, x # t, rec[x] = "open",
         NEW n \in Node, NEW c, Marked(x, n, c)
  PROVE  ~Marked(t, n, c)
  <1> SUFFICES ASSUME Marked(t, n, c) PROVE FALSE
    OBVIOUS
  <1>1. Precedes(t, x)
    BY UnderOpen
  <1> QED
    BY <1>1 DEF Precedes

LEMMA CommitHistStep ==
  ASSUME StInv, StInv', HInv, NEW t \in Tx, Commit(t)
  PROVE  HInv'
  <1>0. Base /\ Steady /\ \A x \in Tx : x # t => Unmoved(x)
    BY CommitBase DEF StInv
  <1>1. /\ pc[t] = "commit" /\ pc'[t] = "ended" /\ rec[t] = "open" /\ ~doomed[t]
        /\ rec' = [rec EXCEPT ![t] = "committed"] /\ rec'[t] = "committed"
        /\ UNCHANGED <<doomed, log>> /\ log' = log /\ water' = water /\ torn' = torn
        /\ UNCHANGED <<chain, bag, born, died, tomb, torn, owed, sweeper, claim>>
        /\ F!Decide(t, "committed")
    BY <1>0 DEF Commit, Leave, Goto, Base, TypeOK, labels, lives, sweep
  <1>2. at' = at /\ at[t] # 0
    BY <1>0, <1>1, DecideClock
  <1>3. SessionMove(t)
    BY <1>0, <1>1 DEF SessionMove, StoreStill
  <1>4. SweepOK'
    BY <1>1, <1>3, SessionSweep
  <1>5. \A x \in Tx : x # t => Still(x)
    BY <1>3, SessionOthers
  <1>6. ActorOK(t)'
    <2>1. ~(Healthy(t)') /\ Free(t)' /\ ReplayAt(t)' /\ GoneAt(t)' /\ pc'[t] # "lateBorn"
      BY <1>1 DEF Healthy, Free, MarkPc, UndoHand, ReplayAt, GoneAt
    <2> QED
      BY <2>1, SickActor
  <1>7. ActorOK(t) /\ Healthy(t) /\ \A n, c : ~Pushed(t, n, c) /\ ~Undoes(t, n, c)
    BY <1>1, HInvIs DEF Healthy, Pushed, Undoes
  <1>8. \A n \in Node : /\ InLabels(t, n) => \A l \in Label : (l \in bag[n]) = Present(t, n, l)
                        /\ InLife(t, n) /\ n \notin torn =>
                             After(t, n) = Present(t, n, Life) /\ tomb[n] = ~After(t, n)
    <2> TAKE n \in Node
    <2>1. ASSUME InLabels(t, n), NEW l \in Label PROVE (l \in bag[n]) = Present(t, n, l)
      <3>1. OwnCell(t, n, l, l \in bag[n])
        BY <1>7, <2>1 DEF ActorOK, OwnLabelsAt
      <3> QED
        BY <1>7, <3>1 DEF OwnCell
    <2>2. ASSUME InLife(t, n), n \notin torn
          PROVE  After(t, n) = Present(t, n, Life) /\ tomb[n] = ~After(t, n)
      <3>1. OwnCell(t, n, Life, After(t, n)) /\ tomb[n] = ~After(t, n)
        BY <1>7, <2>2 DEF ActorOK, OwnLifeAt
      <3> QED
        BY <1>7, <3>1 DEF OwnCell
    <2> QED
      BY <2>1, <2>2
  <1>9. \A n \in Node : LabelsSame(n) /\ LivesSame(n) /\ tomb'[n] = tomb[n] /\ owed'[n] = owed[n]
    BY <1>1 DEF LabelsSame, LivesSame
  <1>10. water <= implicitStartTS /\ implicitStartTS \in Nat /\ at[t] <= implicitStartTS
    BY <1>0, Numbers, StartTS DEF implicitStartTS, Base, WaterOK
  <1>11. \A n \in Node, s \in Nat, k \in Nat : HistAt(n, s, k)'
    <2> TAKE n \in Node, s \in Nat, k \in Nat
    <2>1. HistAt(n, s, k)
      BY HInvIs
    <2> QED
      BY <1>1, <1>2, <1>8, <1>9, <2>1, CommitHist
  <1>12. \A n \in Node, u \in Tx, s \in Nat : LifeHistAt(n, u, s)'
    <2>1. LifeHist
      BY DEF HInv, LifeInv
    <2> QED
      BY <1>0, <1>1, <1>2, <1>8, <1>9, <2>1, LifeHistCommit
  <1>13. LifeSingle'
    <2>1. LifeSingle
      BY HInvIs
    <2> QED
      BY <1>1, <2>1 DEF LifeSingle, SingleOK, Births, Deaths
  <1>14. ASSUME NEW n \in Node PROVE TombAt(n)'
    <2> SUFFICES ASSUME n \notin torn
                 PROVE  /\ AllCommitted(n)' => Buried(n)' = ~(History(n, Life, implicitStartTS)')
                        /\ owed'[n] # "none" => AllCommitted(n)'
      BY <1>1 DEF TombAt
    <2>0. /\ TombAt(n) /\ Buried(n)' = Buried(n) /\ Life \in Cells
          /\ \A u : InLife(u, n)' <=> InLife(u, n)
          /\ \A u \in Tx : u # t => rec'[u] = rec[u]
      BY <1>0, <1>1, HInvIs DEF Buried, Cells, InLife, Records, Unmoved
    <2>1. CASE ~InLife(t, n)
      <3>1. History(n, Life, implicitStartTS)' = History(n, Life, implicitStartTS)
        BY <1>1, <1>2, <1>10, <2>0, <2>1, CommitElsewhere DEF Marked
      <3>2. AllCommitted(n)' <=> AllCommitted(n)
        BY <2>0, <2>1 DEF AllCommitted
      <3> QED
        BY <1>9, <2>0, <3>1, <3>2 DEF TombAt
    <2>2. CASE InLife(t, n)
      <3>1. ~AllCommitted(n)
        BY <1>1, <2>2 DEF AllCommitted
      <3>2. owed[n] = "none"
        BY <2>0, <3>1 DEF TombAt
      <3>3. History(n, Life, implicitStartTS)' = Present(t, n, Life)
        <4>1. Marked(t, n, Life)
          BY <2>2 DEF Marked
        <4> QED
          BY <1>1, <1>2, <1>10, <2>0, <4>1, CommitHistory
      <3>4. Buried(n) = ~Present(t, n, Life)
        BY <1>8, <2>2, <3>2 DEF Buried
      <3> QED
        BY <1>9, <2>0, <3>2, <3>3, <3>4
    <2> QED
      BY <2>1, <2>2
  <1>15. ASSUME NEW x \in Tx, x # t PROVE ActorOK(x)'
    <2>1. Still(x) /\ ActorOK(x) /\ Toggles /\ UndoMarked /\ OwnLabels
      BY <1>5, <1>15, HInvIs DEF HInv, Journals, LabelInv
    <2>2. ASSUME rec[x] = "open", NEW n \in Node, NEW c \in Cells, Marked(x, n, c)
          PROVE  History(n, c, implicitStartTS)' = History(n, c, implicitStartTS)
      <3>1. ~Marked(t, n, c)
        BY <1>1, <1>15, <2>2, OpenApart
      <3> QED
        BY <1>1, <1>2, <1>10, <3>1, CommitElsewhere
    <2>3. UndoMarkedAt(x)'
      <3>1. \A n \in Node : RetainsAt(x, n)
        BY <1>1 DEF RetainsAt, InLabels, InLife, Records
      <3> QED
        BY <2>1, <3>1, UndoMarkedOther
    <2>4. TogglesAt(x)'
      <3>1. rec[x] = "open" => \A n \in Node, c \in Cells : Touches(x, n, c) =>
              History(n, c, implicitStartTS)' = History(n, c, implicitStartTS)
        BY <2>2, TouchMarked DEF Settled
      <3> QED
        BY <1>1, <2>1, <3>1, TogglesOther
    <2>5. ASSUME NEW n \in Node PROVE OwnLabelsAt(x, n)'
      <3>1. rec[x] = "open" /\ InLabels(x, n) =>
              \A l \in Label : History(n, l, implicitStartTS)' = History(n, l, implicitStartTS)
        BY <2>2, NamesAssumption DEF Marked, Cells
      <3>2. LabelShape(t, n)
        BY <1>9 DEF LabelShape
      <3> QED
        BY <1>15, <2>1, <3>1, <3>2, OwnLabelsOther
    <2>6. ASSUME NEW n \in Node PROVE OwnLifeAt(x, n)'
      <3>1. Healthy(x) /\ InLife(x, n) =>
              History(n, Life, implicitStartTS)' = History(n, Life, implicitStartTS)
        BY <2>2 DEF Marked, Cells, Healthy
      <3>2. LifeShape(t, n)
        BY <1>9 DEF LifeShape
      <3> QED
        BY <1>1, <1>9, <1>15, <2>1, <3>1, <3>2, OwnLifeKept
    <2>7. ReplayAt(x)' /\ LateAt(x)' /\ GoneAt(x)'
      <3>1. UNCHANGED <<chain, born, died, torn>>
        BY <1>1
      <3> QED
        BY <2>1, <3>1 DEF ActorOK, ReplayAt, LateAt, GoneAt, Still, Unmoved, InLabels, InLife, Records
    <2> QED
      BY <2>3, <2>4, <2>5, <2>6, <2>7 DEF ActorOK
  <1> QED
    BY <1>4, <1>6, <1>11, <1>12, <1>13, <1>14, <1>15, HInvIsNext

----------------------------------------------------------------------------
(* The invariant holds.                                                    *)

LEMMA InitHist == Init => HInv
  <1> SUFFICES ASSUME Init PROVE HInv
    OBVIOUS
  <1>0. StInv /\ Base /\ HistKnown
    BY InitInv, HistoryKnown DEF StInv
  <1>1. /\ \A t \in Tx : rec[t] = "none" /\ ~undoing[t] /\ pc[t] = "idle" /\ log[t] = <<>>
        /\ \A n \in Node : /\ chain[n] = <<>> /\ born[n] = <<>> /\ died[n] = <<>>
                           /\ bag[n] = {l \in Label : <<n, l>> \in Labelled}
                           /\ tomb[n] = (n \in Dead) /\ owed[n] = "none"
    BY DEF Init
  <1>2. \A n \in Node, c \in Cells, s \in Nat : History(n, c, s) = Initially(n, c)
    <2>1. \A u \in Tx : \A n, c, s : ~Wrote(u, n, c, s)
      BY <1>1 DEF Wrote, Seen
    <2> QED
      BY <1>0, <2>1 DEF HistKnown
  <1>3. \A n \in Node : /\ \A u : ~InLabels(u, n) /\ ~InLife(u, n)
                        /\ Births(n) = {} /\ Deaths(n) = {}
    BY <1>1 DEF InLabels, InLife, Records, Births, Deaths, ToSet
  <1>4. ASSUME NEW n \in Node, NEW s \in Nat, NEW k \in Nat PROVE HistAt(n, s, k)
    <2> SUFFICES ASSUME ReadsTo(n, s, k), NEW l \in Label
                 PROVE  (l \in Undone(n, k)) = History(n, l, s)
      BY DEF HistAt
    <2>1. Len(chain[n]) = 0 /\ k <= Len(chain[n])
      BY <1>1 DEF ReadsTo
    <2>2. k = 0
      BY <2>1
    <2>3. Undone(n, k) = bag[n]
      BY <1>0, <2>2, UndoneNone
    <2>4. History(n, l, s) = (<<n, l>> \in Labelled)
      BY <1>2, NamesAssumption DEF Initially, Cells
    <2> QED
      BY <1>1, <2>3, <2>4
  <1>5. ASSUME NEW t \in Tx PROVE ActorOK(t)
    <2>1. ~Healthy(t) /\ Free(t)
      BY <1>1 DEF Healthy, Free, MarkPc, UndoHand
    <2>2. UndoMarkedAt(t)
      BY <2>1, FreeHands DEF UndoMarkedAt
    <2>3. ReplayAt(t) /\ GoneAt(t) /\ LateAt(t)
      BY <1>1 DEF ReplayAt, GoneAt, LateAt
    <2> QED
      BY <2>1, <2>2, <2>3 DEF ActorOK, TogglesAt, OwnLabelsAt, OwnLifeAt
  <1>6. LifeSingle /\ SweepOK
    BY <1>1, <1>3 DEF LifeSingle, SingleOK, SweepOK
  <1>7. \A n \in Node, u \in Tx, s \in Nat : LifeHistAt(n, u, s)
    BY <1>3 DEF LifeHistAt
  <1>8. ASSUME NEW n \in Node PROVE TombAt(n)
    <2>1. History(n, Life, implicitStartTS) = (n \notin Dead)
      BY <1>2, StartTS DEF Initially, Cells
    <2>2. Buried(n) = (n \in Dead)
      BY <1>1 DEF Buried
    <2>3. \A p \in BOOLEAN : p = ~(~p)
      OBVIOUS
    <2>4. (n \in Dead) = ~(n \notin Dead)
      BY <2>3
    <2>5. Buried(n) = ~History(n, Life, implicitStartTS)
      BY <2>1, <2>2, <2>4
    <2> QED
      BY <1>1, <2>5 DEF TombAt
  <1> QED
    BY <1>4, <1>5, <1>6, <1>7, <1>8, HInvIs

LEMMA HistStep ==
  ASSUME StInv, StInv', HInv, [Next]_vars
  PROVE  HInv'
  <1>1. CASE UNCHANGED vars
    BY <1>1, StutterHist
  <1>2. CASE FrontierPasses
    BY <1>2, PassHist
  <1>3. CASE Finished
    BY <1>3, StutterHist DEF Finished
  <1>4. CASE \E n \in Node, w \in 1 .. frontier : ReclaimLabels(n, w) \/ ReclaimNodeLife(n, w)
    <2>1. PICK n \in Node, w \in 1 .. frontier : ReclaimLabels(n, w) \/ ReclaimNodeLife(n, w)
      BY <1>4
    <2> QED
      BY <2>1, ReclaimLabelsHist, ReclaimLifeHist
  <1>5. ASSUME NEW t \in Tx, Begin(t) \/ Operate(t) \/ AddLabel(t) \/ CrossCheckNodeLife(t)
        PROVE  HInv'
    BY <1>5, BeginHist, OperateHist, AddLabelHist, CrossCheckNodeLifeHist
  <1>6. ASSUME NEW t \in Tx,
               NoteNodeClaim(t) \/ NoteNodeDied(t) \/ CrossCheckLabels(t) \/ FlipDead(t)
        PROVE  HInv'
    BY <1>6, NoteNodeClaimHist, NoteNodeDiedHist, CrossCheckLabelsHist, FlipDeadHist
  <1>7. ASSUME NEW t \in Tx, NoteNodeRevived(t) \/ FlipLive(t) \/ LateNodeRevived(t)
        PROVE  HInv'
    BY <1>7, NoteNodeRevivedHist, FlipLiveHist, LateNodeRevivedHist
  <1>8. ASSUME NEW t \in Tx, EnterUndo(t) \/ NextInverse(t) \/ RunInverse(t) \/ ExitUndo(t)
        PROVE  HInv'
    BY <1>8, ReplayHist, NextInverseHist, RunInverseHist
  <1>9. ASSUME NEW t \in Tx, Allocate(t) \/ Commit(t) \/ EndEmpty(t) \/ Abort(t)
        PROVE  HInv'
    BY <1>9, AllocateHist, CommitHistStep, EndEmptyHist, AbortHist
  <1>10. ASSUME NEW t \in Tx, AcquireSweeper(t) \/ ReleaseSweeper(t)
         PROVE  HInv'
    BY <1>10, AcquireHist, ReleaseHist
  <1>11. ASSUME NEW t \in Tx, NEW n \in Node,
                WithdrawLabels(t, n) \/ WithdrawLife(t, n) \/ SettleFlip(t, n)
         PROVE  HInv'
    BY <1>11, WithdrawLabelsHist, WithdrawLifeHist, SettleFlipHist
  <1> QED
    BY <1>1, <1>2, <1>3, <1>4, <1>5, <1>6, <1>7, <1>8, <1>9, <1>10, <1>11 DEF Next

\* The versions say what the committed history does, and those of an open
\* transaction what its journal does, through every step of the writers, the
\* rollback, the withdrawal of an abort and the reclamation.
THEOREM HistoryInvariance == Spec => []HInv
  <1>1. Init => HInv
    BY InitHist
  <1>2. StInv /\ StInv' /\ HInv /\ [Next]_vars => HInv'
    BY HistStep
  <1>3. Spec => []StInv
    BY Invariance
  <1> QED
    BY <1>1, <1>2, <1>3, PTL DEF Spec

----------------------------------------------------------------------------
(* What a reader of labels finds.                                          *)

LEMMA ReadLabels ==
  ASSUME StInv, HInv, NEW n \in Node, NEW s \in Nat, water <= s, NEW t, ~InLabels(t, n)
  PROVE  LabelBagAsOf(n, s, t) = {l \in Label : History(n, l, s)}
  <1>0. Base
    BY DEF StInv
  <1>1. Len(chain[n]) \in Nat /\ DOMAIN chain[n] = 1 .. Len(chain[n])
    BY <1>0, ChainType
  <1>2. \A i \in DOMAIN chain[n] : Visible(chain[n][i].tx, s, t) <=> Seen(chain[n][i].tx, s)
    BY DEF Visible, Seen, InLabels
  <1> DEFINE seen == {i \in DOMAIN chain[n] : Visible(chain[n][i].tx, s, t)}
  <1>3. PICK k \in Nat : k = IF seen = {} THEN Len(chain[n]) ELSE Min(seen) - 1
    <2>1. CASE seen = {}
      BY <1>1, <2>1
    <2>2. CASE seen # {}
      <3>1. seen \subseteq Nat /\ seen \subseteq 1 .. Len(chain[n])
        BY <1>1
      <3> HIDE DEF seen
      <3>2. Min(seen) \in seen
        BY <2>2, <3>1, NatMin
      <3> QED
        BY <1>1, <2>2, <3>1, <3>2
    <2> QED
      BY <2>1, <2>2
  <1>4. ReadsTo(n, s, k)
    <2>1. CASE seen = {}
      BY <1>1, <1>2, <1>3, <2>1 DEF ReadsTo
    <2>2. CASE seen # {}
      <3>1. seen \subseteq Nat /\ seen \subseteq 1 .. Len(chain[n])
        BY <1>1
      <3>2. Min(seen) \in seen /\ \A y \in seen : Min(seen) <= y
        <4> HIDE DEF seen
        <4> QED
          BY <2>2, <3>1, NatMin
      <3>3. PICK m \in seen : m = Min(seen) /\ \A y \in seen : m <= y
        BY <3>2
      <3>4. m \in 1 .. Len(chain[n]) /\ Seen(chain[n][m].tx, s) /\ k = m - 1
        BY <1>1, <1>2, <1>3, <2>2, <3>3
      <3>5. ASSUME NEW i \in 1 .. k PROVE i \notin seen /\ i \in DOMAIN chain[n]
        <4> HIDE DEF seen
        <4>1. ~(m <= i) /\ i \in 1 .. Len(chain[n])
          BY <1>1, <3>4
        <4> QED
          BY <1>1, <3>3, <4>1
      <3>6. k + 1 = m
        BY <1>1, <3>4
      <3> QED
        BY <1>1, <1>2, <3>4, <3>5, <3>6 DEF ReadsTo
    <2> QED
      BY <2>1, <2>2
  <1>5. LabelBagAsOf(n, s, t) = Undone(n, k)
    BY <1>3 DEF LabelBagAsOf
  <1>6. \A l \in Label : (l \in Undone(n, k)) = History(n, l, s)
    BY <1>4, HInvIs DEF HistAt
  <1>7. \A l \in Label : History(n, l, s) \in BOOLEAN
    BY HistoryKnown DEF HistKnown, Cells
  <1>8. Undone(n, k) \subseteq Label
    BY UndoneType
  <1> QED
    BY <1>5, <1>6, <1>7, <1>8

LEMMA NobodyMarked ==
  ASSUME StInv, NEW n \in Node
  PROVE  ~InLabels(NoTx, n) /\ ~InLife(NoTx, n)
  <1>1. Listed(chain[n])
    BY ChainType DEF StInv
  <1>2. \A u : InLife(u, n) => u \in Tx
    BY LifeSets
  <1> QED
    BY <1>1, <1>2, NamesAssumption DEF Listed, InLabels

\* Snapshot reads of labels (labelBagAsOf), for any number of transactions,
\* nodes and labels: the labels of the committed history at the instant of the
\* reader, whatever writers, aborts and the reclaimer are in the middle of.
THEOREM LabelReads == Spec => []LabelsAreHistory
  <1>1. StInv /\ HInv => LabelsAreHistory
    <2> SUFFICES ASSUME StInv, HInv, NEW n \in Node,
                        NEW s \in (water .. frontier) \union {implicitStartTS}
                 PROVE  LabelBagAsOf(n, s, NoTx) = {l \in Label : History(n, l, s)}
      BY DEF LabelsAreHistory
    <2>1. s \in Nat /\ water <= s
      BY Numbers, StartTS DEF StInv, Base, WaterOK, implicitStartTS
    <2> QED
      BY <2>1, NobodyMarked, ReadLabels
  <1> QED
    BY <1>1, Invariance, HistoryInvariance, PTL

----------------------------------------------------------------------------
(* What a reader of existence finds.                                       *)

\* r is the newest of Q that is visible, or the oldest where none is.
Picks(Q, r, s, t) ==
  /\ r \in Q
  /\ Visible(r.tx, s, t) => \A x \in Q : Visible(x.tx, s, t) => x.seq <= r.seq
  /\ ~Visible(r.tx, s, t) => \A x \in Q : ~Visible(x.tx, s, t) /\ r.seq <= x.seq

LEMMA AsOfPicks ==
  ASSUME NEW q \in Seq(LifeRecord), q # <<>>, Descending(q), NEW s, NEW t
  PROVE  Picks(ToSet(q), AsOf(q, s, t), s, t)
  <1> DEFINE seen == {i \in DOMAIN q : Visible(q[i].tx, s, t)}
             a == IF seen = {} THEN Len(q) ELSE Min(seen)
  <1>1. Len(q) \in Nat /\ DOMAIN q = 1 .. Len(q) /\ Len(q) # 0
    BY LenProperties, EmptySeq
  <1>2. \A i \in DOMAIN q : q[i].seq \in Nat
    <2>1. \A i \in DOMAIN q : q[i] \in LifeRecord
      BY <1>1, ElementOfSeq
    <2> QED
      BY <2>1 DEF LifeRecord
  <1>3. \A i, j \in DOMAIN q : i <= j => q[j].seq <= q[i].seq
    <2> TAKE i, j \in DOMAIN q
    <2> HAVE i <= j
    <2>1. i < j \/ i = j
      BY <1>1
    <2> QED
      BY <1>2, <2>1 DEF Descending
  <1>4. seen \subseteq Nat /\ seen \subseteq DOMAIN q
    BY <1>1
  <1>5. \A i \in DOMAIN q : i \in seen <=> Visible(q[i].tx, s, t)
    OBVIOUS
  <1>6. AsOf(q, s, t) = q[a]
    BY DEF AsOf
  <1> HIDE DEF seen
  <1>7. CASE seen = {}
    <2>1. a = Len(q) /\ a \in DOMAIN q
      BY <1>1, <1>7
    <2>2. \A i \in DOMAIN q : ~Visible(q[i].tx, s, t) /\ q[a].seq <= q[i].seq
      BY <1>1, <1>3, <1>5, <1>7, <2>1
    <2> HIDE DEF a
    <2> QED
      BY <1>6, <2>1, <2>2 DEF Picks, ToSet
  <1>8. CASE seen # {}
    <2>1. Min(seen) \in seen /\ \A y \in seen : Min(seen) <= y
      BY <1>4, <1>8, NatMin
    <2>2. a \in seen /\ \A y \in seen : a <= y
      BY <1>8, <2>1
    <2> HIDE DEF a
    <2>3. a \in DOMAIN q /\ Visible(q[a].tx, s, t)
      BY <1>4, <1>5, <2>2
    <2>4. \A i \in DOMAIN q : Visible(q[i].tx, s, t) => q[i].seq <= q[a].seq
      BY <1>3, <1>5, <2>2, <2>3
    <2> QED
      BY <1>6, <2>3, <2>4 DEF Picks, ToSet
  <1> QED
    BY <1>7, <1>8

\* The answer goes by the newest visible record of either kind, or by the
\* oldest of all.
GoesBy(n, s, t, r) ==
  /\ r \in Births(n) \union Deaths(n)
  /\ \/ /\ Visible(r.tx, s, t)
        /\ \A x \in Births(n) \union Deaths(n) : Visible(x.tx, s, t) => x.seq <= r.seq
        /\ NodeExistsAsOf(n, s, t) <=> After(r.tx, n)
     \/ /\ \A x \in Births(n) \union Deaths(n) : ~Visible(x.tx, s, t) /\ r.seq <= x.seq
        /\ NodeExistsAsOf(n, s, t) <=> Before(r.tx, n)

\* What precedes does not follow.
LEMMA PrecedesAnti ==
  ASSUME Base, NEW u \in Tx, NEW v \in Tx, Precedes(u, v), Precedes(v, u)
  PROVE  FALSE
  <1>1. at[u] # 0 /\ at[v] # 0 /\ at[u] \in Nat /\ at[v] \in Nat
    BY Numbers DEF Precedes
  <1> QED
    BY <1>1 DEF Precedes

LEMMA ExistsBy ==
  ASSUME StInv, NEW n \in Node, SingleOK(n), NEW s, NEW t
  PROVE  /\ NodeExistsAsOf(n, s, t) \in BOOLEAN
         /\ \/ /\ Births(n) \union Deaths(n) = {}
               /\ NodeExistsAsOf(n, s, t) = ~tomb[n]
            \/ \E r : GoesBy(n, s, t, r)
  <1> DEFINE b == AsOf(born[n], s, t)
             d == AsOf(died[n], s, t)
             B == Births(n)
             D == Deaths(n)
             E == NodeExistsAsOf(n, s, t)
             seesBorn == born[n] # <<>> /\ Visible(b.tx, s, t)
             seesDied == died[n] # <<>> /\ Visible(d.tx, s, t)
  <1>0. /\ Base /\ born[n] \in Seq(LifeRecord) /\ died[n] \in Seq(LifeRecord)
        /\ Descending(born[n]) /\ Descending(died[n]) /\ tomb[n] \in BOOLEAN
    BY LifeType, StoreSeqs DEF StInv, Order, LifeOK
  <1>1. /\ \A r \in B \union D : r.tx \in Tx /\ r.seq \in Nat /\ r.was \in BOOLEAN
        /\ \A r, q \in B \union D :
              \/ r.tx = q.tx
              \/ r.seq < q.seq /\ Precedes(r.tx, q.tx)
              \/ q.seq < r.seq /\ Precedes(q.tx, r.tx)
    BY LifeSets
  <1>2. /\ born[n] # <<>> => Picks(B, b, s, t)
        /\ died[n] # <<>> => Picks(D, d, s, t)
    BY <1>0, AsOfPicks DEF Births, Deaths
  <1>3. /\ born[n] = <<>> => B = {}
        /\ died[n] = <<>> => D = {}
    BY DEF Births, Deaths, ToSet
  <1>4. E = CASE seesBorn /\ seesDied -> b.seq > d.seq
              [] seesBorn /\ ~seesDied -> TRUE
              [] ~seesBorn /\ seesDied -> FALSE
              [] born[n] # <<>> /\ ~seesBorn /\ died[n] = <<>> -> FALSE
              [] born[n] # <<>> /\ ~seesBorn /\ died[n] # <<>> /\ ~seesDied -> AliveBefore(b, d)
              [] born[n] = <<>> /\ died[n] # <<>> /\ ~seesDied -> TRUE
              [] OTHER -> ~tomb[n]
    BY DEF NodeExistsAsOf
  <1>5. /\ \A r, q \in B : r.tx = q.tx => r = q
        /\ \A r \in B, q \in D : r.seq # q.seq
        /\ \A r \in B : r.was => \E q \in D : q.tx = r.tx
    BY DEF SingleOK
  <1> HIDE DEF b, d, E
  <1>6. CASE seesBorn /\ seesDied
    <2>1. E = (b.seq > d.seq)
      BY <1>4, <1>6
    <2>2. /\ b \in B /\ d \in D /\ Visible(b.tx, s, t) /\ Visible(d.tx, s, t)
          /\ \A x \in B : Visible(x.tx, s, t) => x.seq <= b.seq
          /\ \A x \in D : Visible(x.tx, s, t) => x.seq <= d.seq
      BY <1>2, <1>6 DEF Picks
    <2> HIDE DEF B, D
    <2>3. CASE d.seq < b.seq
      <3>1. E = TRUE
        BY <1>1, <2>1, <2>2, <2>3
      <3>2. \A x \in D : x.tx = b.tx => x.seq < b.seq
        BY <1>1, <2>2, <2>3
      <3>3. After(b.tx, n)
        BY <2>2, <3>2 DEF After, B, D
      <3>4. \A x \in B \union D : Visible(x.tx, s, t) => x.seq <= b.seq
        BY <1>1, <2>2, <2>3
      <3>5. GoesBy(n, s, t, b)
        BY <2>2, <3>1, <3>3, <3>4 DEF GoesBy, B, D, E
      <3> QED
        BY <3>1, <3>5 DEF E
    <2>4. CASE b.seq < d.seq
      <3>0. b.seq \in Nat /\ d.seq \in Nat
        BY <1>1, <2>2
      <3>1. E = FALSE
        <4>1. (b.seq > d.seq) = FALSE
          BY <2>4, <3>0
        <4> QED
          BY <2>1, <4>1
      <3>2. \A x \in B : x.tx = d.tx => ~(d.seq < x.seq)
        BY <1>1, <2>2, <2>4
      <3>3. ~After(d.tx, n)
        BY <2>2, <3>2 DEF After, B, D
      <3>4. \A x \in B \union D : Visible(x.tx, s, t) => x.seq <= d.seq
        BY <1>1, <2>2, <2>4
      <3>5. GoesBy(n, s, t, d)
        BY <2>2, <3>1, <3>3, <3>4 DEF GoesBy, B, D, E
      <3> QED
        BY <3>1, <3>5 DEF E
    <2> QED
      BY <1>1, <1>5, <2>2, <2>3, <2>4
  <1>7. CASE seesBorn /\ ~seesDied
    <2>1. E = TRUE
      BY <1>4, <1>7
    <2>2. /\ b \in B /\ Visible(b.tx, s, t)
          /\ \A x \in B : Visible(x.tx, s, t) => x.seq <= b.seq
          /\ \A x \in D : ~Visible(x.tx, s, t)
      BY <1>2, <1>3, <1>7 DEF Picks
    <2> HIDE DEF B, D
    <2>3. \A x \in D : x.tx # b.tx
      BY <2>2
    <2>4. After(b.tx, n)
      BY <2>2, <2>3 DEF After, B, D
    <2>5. GoesBy(n, s, t, b)
      BY <2>1, <2>2, <2>4 DEF GoesBy, B, D, E
    <2> QED
      BY <2>1, <2>5 DEF E
  <1>8. CASE ~seesBorn /\ seesDied
    <2>1. E = FALSE
      BY <1>4, <1>8
    <2>2. /\ d \in D /\ Visible(d.tx, s, t)
          /\ \A x \in D : Visible(x.tx, s, t) => x.seq <= d.seq
          /\ \A x \in B : ~Visible(x.tx, s, t)
      BY <1>2, <1>3, <1>8 DEF Picks
    <2> HIDE DEF B, D
    <2>3. \A x \in B : x.tx # d.tx
      BY <2>2
    <2>4. ~After(d.tx, n)
      BY <2>3 DEF After, B
    <2>5. GoesBy(n, s, t, d)
      BY <2>1, <2>2, <2>4 DEF GoesBy, B, D, E
    <2> QED
      BY <2>1, <2>5 DEF E
  <1>9. CASE born[n] # <<>> /\ ~seesBorn /\ died[n] = <<>>
    <2>1. E = FALSE
      BY <1>4, <1>9
    <2>2. /\ b \in B /\ D = {}
          /\ \A x \in B : ~Visible(x.tx, s, t) /\ b.seq <= x.seq
      BY <1>2, <1>3, <1>9 DEF Picks
    <2>3. ~b.was
      BY <1>1, <1>5, <2>2
    <2> HIDE DEF B, D
    <2>4. ~Before(b.tx, n)
      BY <2>2, <2>3 DEF Before, B
    <2>5. GoesBy(n, s, t, b)
      BY <2>1, <2>2, <2>4 DEF GoesBy, B, D, E
    <2> QED
      BY <2>1, <2>5 DEF E
  <1>10. CASE born[n] # <<>> /\ ~seesBorn /\ died[n] # <<>> /\ ~seesDied
    <2>1. E = AliveBefore(b, d)
      BY <1>4, <1>10
    <2>2. /\ b \in B /\ d \in D
          /\ \A x \in B : ~Visible(x.tx, s, t) /\ b.seq <= x.seq
          /\ \A x \in D : ~Visible(x.tx, s, t) /\ d.seq <= x.seq
      BY <1>2, <1>10 DEF Picks
    <2> HIDE DEF B, D
    <2>t. /\ b.tx \in Tx /\ b.seq \in Nat /\ b.was \in BOOLEAN
          /\ d.tx \in Tx /\ d.seq \in Nat
      BY <1>1, <2>2
    <2>3. CASE d.seq < b.seq
      <3>1. \A x \in B \union D : ~Visible(x.tx, s, t) /\ d.seq <= x.seq
        BY <1>1, <2>2, <2>3
      <3>2. E \in BOOLEAN /\ (E <=> Before(d.tx, n))
        <4>1. CASE b.tx = d.tx
          <5>1. E = b.was
            BY <2>1, <2>t, <4>1 DEF AliveBefore
          <5>2. \A x \in B : x.tx = d.tx => x = b
            BY <1>5, <2>2, <4>1
          <5>3. Before(d.tx, n) <=> b.was
            BY <2>2, <4>1, <5>2 DEF Before, B
          <5> QED
            BY <2>t, <5>1, <5>3
        <4>2. CASE b.tx # d.tx
          <5>1. E = TRUE
            BY <2>1, <2>3, <4>2 DEF AliveBefore
          <5>2. ASSUME NEW x \in B, x.tx = d.tx PROVE FALSE
            <6>1. Precedes(d.tx, b.tx)
              BY <1>1, <2>2, <2>3, <2>t, <4>2
            <6>2. b.seq <= x.seq /\ x.seq \in Nat
              BY <1>1, <2>2
            <6>3. Precedes(b.tx, d.tx)
              BY <1>1, <2>2, <2>t, <4>2, <5>2, <6>2
            <6> QED
              BY <1>0, <2>t, <6>1, <6>3, PrecedesAnti
          <5>3. Before(d.tx, n)
            BY <5>2 DEF Before, B
          <5> QED
            BY <5>1, <5>3
        <4> QED
          BY <4>1, <4>2
      <3>3. GoesBy(n, s, t, d)
        BY <2>2, <3>1, <3>2 DEF GoesBy, B, D, E
      <3> QED
        BY <3>2, <3>3 DEF E
    <2>4. CASE b.seq < d.seq
      <3>1. \A x \in B \union D : ~Visible(x.tx, s, t) /\ b.seq <= x.seq
        BY <1>1, <2>2, <2>4
      <3>2. E = b.was
        BY <2>1, <2>4, <2>t DEF AliveBefore
      <3>3. \A x \in B : x.tx = b.tx => x = b
        BY <1>5, <2>2
      <3>4. Before(b.tx, n) <=> b.was
        BY <2>2, <3>3 DEF Before, B
      <3>5. GoesBy(n, s, t, b)
        BY <2>2, <3>1, <3>2, <3>4 DEF GoesBy, B, D, E
      <3> QED
        BY <2>t, <3>2, <3>5 DEF E
    <2> QED
      BY <1>5, <2>2, <2>3, <2>4, <2>t
  <1>11. CASE born[n] = <<>> /\ died[n] # <<>> /\ ~seesDied
    <2>1. E = TRUE
      BY <1>4, <1>11
    <2>2. /\ d \in D /\ B = {}
          /\ \A x \in D : ~Visible(x.tx, s, t) /\ d.seq <= x.seq
      BY <1>2, <1>3, <1>11 DEF Picks
    <2> HIDE DEF B, D
    <2>3. Before(d.tx, n)
      BY <2>2 DEF Before, B
    <2>4. GoesBy(n, s, t, d)
      BY <2>1, <2>2, <2>3 DEF GoesBy, B, D, E
    <2> QED
      BY <2>1, <2>4 DEF E
  <1>12. CASE born[n] = <<>> /\ died[n] = <<>>
    <2>1. E = ~tomb[n]
      BY <1>4, <1>12
    <2> QED
      BY <1>0, <1>3, <1>12, <2>1 DEF E
  <1> QED
    BY <1>6, <1>7, <1>8, <1>9, <1>10, <1>11, <1>12

\* Existence, for a reader without records of its own.
LEMMA ReadLife ==
  ASSUME StInv, HInv, NEW n \in Node, n \notin torn, owed[n] = "none",
         NEW s \in Nat, water <= s, NEW t, ~InLife(t, n)
  PROVE  NodeExistsAsOf(n, s, t) = History(n, Life, s)
  <1>0. Base /\ SingleOK(n) /\ History(n, Life, s) \in BOOLEAN /\ tomb[n] \in BOOLEAN
    <2>1. SingleOK(n)
      BY DEF HInv, LifeInv, LifeSingle
    <2> QED
      BY <2>1, HistoryKnown, StoreSeqs DEF HistKnown, Cells, StInv
  <1>1. /\ \A r \in Births(n) \union Deaths(n) : r.tx \in Tx /\ r.seq \in Nat /\ InLife(r.tx, n)
        /\ \A u : InLife(u, n) => \E r \in Births(n) \union Deaths(n) : r.tx = u
        /\ \A r, q \in Births(n) \union Deaths(n) :
              \/ r.tx = q.tx
              \/ r.seq < q.seq /\ Precedes(r.tx, q.tx)
              \/ q.seq < r.seq /\ Precedes(q.tx, r.tx)
    BY LifeSets
  <1>2. \A r \in Births(n) \union Deaths(n) : Visible(r.tx, s, t) <=> Seen(r.tx, s)
    BY <1>1 DEF Visible, Seen
  <1>3. NodeExistsAsOf(n, s, t) \in BOOLEAN
    BY <1>0, ExistsBy
  <1>4. CASE Births(n) \union Deaths(n) = {} /\ NodeExistsAsOf(n, s, t) = ~tomb[n]
    <2>1. \A u : ~InLife(u, n)
      BY <1>1, <1>4
    <2>2. Buried(n) = ~History(n, Life, implicitStartTS)
      BY <2>1, HInvIs DEF TombAt, AllCommitted
    <2>3. tomb[n] = ~History(n, Life, implicitStartTS)
      BY <2>2 DEF Buried
    <2>4. History(n, Life, s) = History(n, Life, implicitStartTS)
      BY <2>1, HistoryNow DEF Marked, Cells
    <2> QED
      BY <1>0, <1>3, <1>4, <2>3, <2>4
  <1>5. CASE \E r : GoesBy(n, s, t, r)
    <2>1. PICK r : GoesBy(n, s, t, r)
      BY <1>5
    <2>2. r \in Births(n) \union Deaths(n) /\ r.tx \in Tx /\ r.seq \in Nat /\ InLife(r.tx, n)
      BY <1>1, <2>1 DEF GoesBy
    <2>3. LifeHistAt(n, r.tx, s)
      BY <2>2, HInvIs
    <2>4. CASE /\ Visible(r.tx, s, t)
               /\ \A x \in Births(n) \union Deaths(n) : Visible(x.tx, s, t) => x.seq <= r.seq
               /\ NodeExistsAsOf(n, s, t) <=> After(r.tx, n)
      <3>1. ASSUME NEW x \in Tx, x # r.tx, InLife(x, n), Precedes(r.tx, x), Seen(x, s)
            PROVE  FALSE
        <4>1. PICK q \in Births(n) \union Deaths(n) : q.tx = x
          BY <1>1, <3>1
        <4>2. q.seq <= r.seq /\ q.seq \in Nat
          BY <1>1, <1>2, <2>4, <3>1, <4>1
        <4>3. Precedes(x, r.tx)
          BY <1>1, <2>2, <3>1, <4>1, <4>2
        <4> QED
          BY <1>0, <2>2, <3>1, <4>3, PrecedesAnti
      <3>2. LastAt(r.tx, n, s)
        BY <1>2, <2>2, <2>4, <3>1 DEF LastAt
      <3>3. History(n, Life, s) = After(r.tx, n)
        BY <2>2, <2>3, <3>2 DEF LifeHistAt
      <3> QED
        BY <1>0, <1>3, <2>4, <3>3
    <2>5. CASE /\ \A x \in Births(n) \union Deaths(n) : ~Visible(x.tx, s, t) /\ r.seq <= x.seq
               /\ NodeExistsAsOf(n, s, t) <=> Before(r.tx, n)
      <3>1. ASSUME NEW x \in Tx, x # r.tx, InLife(x, n), Precedes(x, r.tx)
            PROVE  FALSE
        <4>1. PICK q \in Births(n) \union Deaths(n) : q.tx = x
          BY <1>1, <3>1
        <4>2. r.seq <= q.seq /\ q.seq \in Nat
          BY <1>1, <2>5, <4>1
        <4>3. Precedes(r.tx, x)
          BY <1>1, <2>2, <3>1, <4>1, <4>2
        <4> QED
          BY <1>0, <2>2, <3>1, <4>3, PrecedesAnti
      <3>2. Between(r.tx, n, s)
        BY <1>2, <2>2, <2>5, <3>1 DEF Between
      <3>3. History(n, Life, s) = Before(r.tx, n)
        BY <2>2, <2>3, <3>2 DEF LifeHistAt
      <3> QED
        BY <1>0, <1>3, <2>5, <3>3
    <2> QED
      BY <2>1, <2>4, <2>5 DEF GoesBy
  <1> QED
    BY <1>0, <1>4, <1>5, ExistsBy

\* Snapshot reads of existence (NodeExistsAsOf), for any number of
\* transactions and nodes: what the committed history says at the instant of
\* the reader, but for a node that a tombstone of the rebirth race has torn and
\* one whose flip the withdrawal of an abort still owes.
THEOREM ExistenceReads == Spec => []ExistenceIsHistory
  <1>1. StInv /\ HInv => ExistenceIsHistory
    <2> SUFFICES ASSUME StInv, HInv, NEW n \in Node \ torn, NEW s \in water .. frontier,
                        owed[n] = "none"
                 PROVE  NodeExistsAsOf(n, s, NoTx) = History(n, Life, s)
      BY DEF ExistenceIsHistory
    <2>1. s \in Nat /\ water <= s
      BY Numbers DEF StInv
    <2> QED
      BY <2>1, NobodyMarked, ReadLife
  <1> QED
    BY <1>1, Invariance, HistoryInvariance, PTL

----------------------------------------------------------------------------
(* What a bracket finds, over its own writes.                              *)

\* A bracket between two calls, that was refused nothing.
LEMMA BracketReady ==
  ASSUME StInv, NEW t \in Bracket, pc[t] \in {"ready", "unwound"}
  PROVE  /\ t \in Tx /\ Free(t) /\ rec[t] \in {"none", "open"}
         /\ start[t] \in Nat /\ water <= start[t]
         /\ \A n \in Node, c \in Cells : Touches(t, n, c) => rec[t] = "open" /\ Marked(t, n, c)
         /\ \A n \in Node : \A c : Marked(t, n, c) => rec[t] = "open"
  <1>0. Base /\ t \in Tx
    BY DEF StInv, Tx
  <1>1. pc[t] \in ActivePc /\ Free(t)
    BY DEF ActivePc, OpPc, UndoPc, Free, MarkPc, UndoHand
  <1>2. rec[t] \in {"none", "open"}
    BY <1>0, <1>1 DEF Base, PlaceOK
  <1>3. start[t] \in Nat /\ pin[t] = start[t]
    BY <1>0, <1>1, Numbers DEF Base, TimeOK
  <1>4. water <= start[t]
    <2>1. pin[t] # -1
      BY <1>3
    <2> QED
      BY <1>0, <1>3, <2>1 DEF Base, WaterOK
  <1>5. ASSUME NEW n \in Node, NEW c, Marked(t, n, c) PROVE rec[t] = "open"
    BY <1>0, <1>2, <1>5, MarkedRecord
  <1>6. ASSUME NEW n \in Node, NEW c \in Cells, Touches(t, n, c)
        PROVE  rec[t] = "open" /\ Marked(t, n, c)
    <2>1. Marked(t, n, c) \/ Settled(t)
      BY <1>0, <1>2, <1>6, TouchMarked
    <2>2. Marked(t, n, c)
      BY <1>2, <2>1 DEF Settled
    <2> QED
      BY <1>5, <2>2
  <1> QED
    BY <1>0, <1>1, <1>2, <1>3, <1>4, <1>5, <1>6

\* The journal of t over its start is the journal over the last commit, for a
\* cell that t has a version of.
LEMMA OwnIsPresent ==
  ASSUME StInv, NEW t \in Tx, rec[t] = "open", start[t] \in Nat, water <= start[t],
         NEW n \in Node, NEW c \in Cells, Marked(t, n, c)
  PROVE  OwnView(t, n, c) = Present(t, n, c)
  <1>1. ASSUME NEW x \in Tx, Marked(x, n, c), rec[x] = "committed" PROVE Seen(x, start[t])
    <2>1. Precedes(x, t)
      BY <1>1, UnderOpen
    <2> QED
      BY <2>1, PrecedesSeen DEF StInv
  <1>2. History(n, c, start[t]) = History(n, c, implicitStartTS)
    BY <1>1, HistoryNow
  <1> QED
    BY <1>2 DEF OwnView, Present

\* Its versions are on top: it reads the bag as it is.
LEMMA OwnLabelsRead ==
  ASSUME StInv, NEW t \in Tx, rec[t] = "open", NEW n \in Node, InLabels(t, n), NEW s
  PROVE  LabelBagAsOf(n, s, t) = bag[n]
  <1> DEFINE seen == {i \in DOMAIN chain[n] : Visible(chain[n][i].tx, s, t)}
  <1>0. Base /\ Sorted(chain[n])
    BY DEF StInv, Order, ChainOK
  <1>1. Len(chain[n]) \in Nat /\ DOMAIN chain[n] = 1 .. Len(chain[n])
    BY <1>0, ChainType
  <1>2. PICK j \in DOMAIN chain[n] : chain[n][j].tx = t
    BY DEF InLabels
  <1>3. 1 \in DOMAIN chain[n] /\ chain[n][1].tx = t
    <2>1. 1 \in DOMAIN chain[n] /\ (1 < j \/ j = 1)
      BY <1>1, <1>2
    <2>2. 1 < j => chain[n][1].tx = chain[n][j].tx \/ Precedes(chain[n][j].tx, chain[n][1].tx)
      BY <1>0, <1>2, <2>1 DEF Sorted
    <2> QED
      BY <1>2, <2>1, <2>2 DEF Precedes
  <1>4. 1 \in seen /\ seen \subseteq Nat /\ \A i \in seen : 1 <= i
    BY <1>1, <1>3 DEF Visible
  <1>5. LabelBagAsOf(n, s, t) = Undone(n, IF seen = {} THEN Len(chain[n]) ELSE Min(seen) - 1)
    BY DEF LabelBagAsOf
  <1> HIDE DEF seen
  <1>6. Min(seen) \in seen /\ \A y \in seen : Min(seen) <= y
    BY <1>4, NatMin
  <1>7. Min(seen) = 1
    <2>1. Min(seen) <= 1 /\ 1 <= Min(seen) /\ Min(seen) \in Nat
      BY <1>4, <1>6
    <2> QED
      BY <2>1
  <1>8. LabelBagAsOf(n, s, t) = Undone(n, 0)
    <2>1. (IF seen = {} THEN Len(chain[n]) ELSE Min(seen) - 1) = 0
      BY <1>4, <1>7
    <2> QED
      BY <1>5, <2>1
  <1> QED
    BY <1>0, <1>8, UndoneNone

\* The same for existence: it goes by its own newest record.
LEMMA OwnLifeRead ==
  ASSUME StInv, NEW t \in Tx, rec[t] = "open", NEW n \in Node, SingleOK(n), InLife(t, n), NEW s
  PROVE  /\ NodeExistsAsOf(n, s, t) \in BOOLEAN
         /\ NodeExistsAsOf(n, s, t) <=> After(t, n)
  <1>1. /\ \A r \in Births(n) \union Deaths(n) : r.tx \in Tx /\ r.seq \in Nat
        /\ \A r, q \in Births(n) \union Deaths(n) :
              \/ r.tx = q.tx
              \/ r.seq < q.seq /\ Precedes(r.tx, q.tx)
              \/ q.seq < r.seq /\ Precedes(q.tx, r.tx)
    BY LifeSets
  <1>2. PICK q \in Births(n) \union Deaths(n) : q.tx = t
    BY LifeSets
  <1>3. Visible(q.tx, s, t)
    BY <1>2 DEF Visible
  <1>4. NodeExistsAsOf(n, s, t) \in BOOLEAN
    BY ExistsBy
  <1>5. PICK r : GoesBy(n, s, t, r)
    BY <1>2, ExistsBy
  <1>6. /\ r \in Births(n) \union Deaths(n)
        /\ \A x \in Births(n) \union Deaths(n) : Visible(x.tx, s, t) => x.seq <= r.seq
        /\ NodeExistsAsOf(n, s, t) <=> After(r.tx, n)
    BY <1>2, <1>3, <1>5 DEF GoesBy
  <1>7. q.seq <= r.seq /\ q.seq \in Nat /\ r.seq \in Nat
    BY <1>1, <1>2, <1>3, <1>6
  <1>8. q.tx = r.tx \/ Precedes(q.tx, r.tx)
    BY <1>1, <1>2, <1>6, <1>7
  <1>9. r.tx = t
    BY <1>2, <1>8 DEF Precedes
  <1> QED
    BY <1>4, <1>6, <1>9

\* What a write bracket reads between its calls (ReadPinnedAsOf), for any number
\* of transactions, nodes and labels: its own writes over the history at its
\* start, and nothing of them once its undo log has been replayed.
THEOREM OwnReads == Spec => []BracketsReadOwnWrites
  <1>1. StInv /\ HInv => BracketsReadOwnWrites
    <2> SUFFICES ASSUME StInv, HInv, NEW t \in Bracket, pc[t] \in {"ready", "unwound"},
                        ~doomed[t], NEW n \in Node
                 PROVE  /\ LabelBagAsOf(n, start[t], t) = {l \in Label : OwnView(t, n, l)}
                        /\ n \notin torn /\ owed[n] = "none" =>
                             NodeExistsAsOf(n, start[t], t) = OwnView(t, n, Life)
      BY DEF BracketsReadOwnWrites
    <2>0. /\ t \in Tx /\ Free(t) /\ rec[t] \in {"none", "open"}
          /\ start[t] \in Nat /\ water <= start[t]
          /\ \A c \in Cells : Touches(t, n, c) => rec[t] = "open" /\ Marked(t, n, c)
          /\ \A c : Marked(t, n, c) => rec[t] = "open"
      BY BracketReady
    <2>1. /\ OwnLabelsAt(t, n) /\ OwnLifeAt(t, n) /\ SingleOK(n)
          /\ \A c : ~Pushed(t, n, c) /\ ~Undoes(t, n, c)
      BY <2>0, HInvIs, FreeHands DEF ActorOK, LifeSingle
    <2>2. \A l \in Label : l \in Cells /\ l # Life
      BY NamesAssumption DEF Cells
    <2>3. \A c \in Cells : History(n, c, start[t]) \in BOOLEAN
      BY <2>0, HistoryKnown DEF HistKnown
    <2>4. LabelBagAsOf(n, start[t], t) = {l \in Label : OwnView(t, n, l)}
      <3>1. CASE InLabels(t, n)
        <4>1. \A l \in Label : Marked(t, n, l)
          BY <2>2, <3>1 DEF Marked
        <4>2. CASE rec[t] = "open"
          <5>1. LabelBagAsOf(n, start[t], t) = bag[n]
            BY <2>0, <3>1, <4>2, OwnLabelsRead
          <5>2. \A l \in Label : (l \in bag[n]) = Present(t, n, l)
            <6>1. Healthy(t)
              BY <4>2 DEF Healthy
            <6> QED
              BY <2>1, <3>1, <6>1 DEF OwnLabelsAt, OwnCell
          <5>3. \A l \in Label : OwnView(t, n, l) = Present(t, n, l)
            BY <2>0, <2>2, <4>1, <4>2, OwnIsPresent
          <5>4. bag[n] \subseteq Label
            BY StoreSeqs DEF StInv
          <5> QED
            BY <5>1, <5>2, <5>3, <5>4
        <4>3. CASE rec[t] # "open"
          <5>1. Label = {}
            BY <2>0, <4>1, <4>3
          <5>2. PICK i \in DOMAIN chain[n] : chain[n][i].tx = t
            BY <3>1 DEF InLabels
          <5>3. chain[n][i].l \in Label
            <6>1. chain[n] \in Seq(LabelDelta) /\ DOMAIN chain[n] = 1 .. Len(chain[n])
              BY ChainType DEF StInv, LabelDelta
            <6>2. chain[n][i] \in LabelDelta
              BY <5>2, <6>1, ElementOfSeq
            <6> QED
              BY <6>2 DEF LabelDelta
          <5> QED
            BY <5>1, <5>3
        <4> QED
          BY <4>2, <4>3
      <3>2. CASE ~InLabels(t, n)
        <4>1. \A l \in Label : ~Touches(t, n, l)
          BY <2>0, <2>2, <3>2 DEF Marked
        <4>2. LabelBagAsOf(n, start[t], t) = {l \in Label : History(n, l, start[t])}
          BY <2>0, <3>2, ReadLabels
        <4>3. \A l \in Label : OwnView(t, n, l) = History(n, l, start[t])
          BY <4>1 DEF OwnView
        <4> QED
          BY <4>2, <4>3
      <3> QED
        BY <3>1, <3>2
    <2>5. ASSUME n \notin torn, owed[n] = "none"
          PROVE  NodeExistsAsOf(n, start[t], t) = OwnView(t, n, Life)
      <3>0. Life \in Cells
        BY DEF Cells
      <3>1. CASE InLife(t, n)
        <4>1. Marked(t, n, Life) /\ rec[t] = "open"
          BY <2>0, <3>1 DEF Marked
        <4>2. /\ NodeExistsAsOf(n, start[t], t) \in BOOLEAN
              /\ NodeExistsAsOf(n, start[t], t) <=> After(t, n)
          BY <2>0, <2>1, <3>1, <4>1, OwnLifeRead
        <4>3. OwnCell(t, n, Life, After(t, n))
          BY <2>1, <2>5, <3>1, <4>1 DEF OwnLifeAt, Healthy
        <4>4. After(t, n) = Present(t, n, Life)
          BY <2>1, <4>3 DEF OwnCell
        <4>5. OwnView(t, n, Life) = Present(t, n, Life)
          BY <2>0, <3>0, <4>1, OwnIsPresent
        <4>6. After(t, n) \in BOOLEAN
          BY DEF After
        <4>7. NodeExistsAsOf(n, start[t], t) = After(t, n)
          BY <4>2, <4>6
        <4> QED
          BY <4>4, <4>5, <4>7
      <3>2. CASE ~InLife(t, n)
        <4>1. ~Touches(t, n, Life)
          BY <2>0, <3>0, <3>2 DEF Marked
        <4>2. NodeExistsAsOf(n, start[t], t) = History(n, Life, start[t])
          BY <2>0, <2>5, <3>2, ReadLife
        <4> QED
          BY <4>1, <4>2 DEF OwnView
      <3> QED
        BY <3>1, <3>2
    <2> QED
      BY <2>4, <2>5
  <1> QED
    BY <1>1, Invariance, HistoryInvariance, PTL

----------------------------------------------------------------------------
(* What is stored once every transaction is over.                          *)

\* With every transaction over (the label bags, the tombstone bitmap), for any
\* number of transactions, nodes and labels: what is stored is the committed
\* history, but for the tombstone of a torn node.  No abort leaves a trace and
\* no commit is lost.
THEOREM StoredHistory == Spec => []StoredIsHistory
  <1>1. StInv /\ HInv => StoredIsHistory
    <2> SUFFICES ASSUME StInv, HInv, Quiet, NEW n \in Node
                 PROVE  /\ bag[n] = {l \in Label : History(n, l, implicitStartTS)}
                        /\ n \notin torn => tomb[n] = ~History(n, Life, implicitStartTS)
      BY DEF StoredIsHistory
    <2>0. Base /\ water <= implicitStartTS /\ implicitStartTS \in Nat
      BY Numbers, StartTS DEF StInv, Base, WaterOK, implicitStartTS
    <2>1. ASSUME NEW u \in Tx, InLabels(u, n) \/ InLife(u, n)
          PROVE  rec[u] = "committed" /\ Seen(u, implicitStartTS)
      <3>1. pc[u] \in {"idle", "ended"} /\ GoneAt(u)
        BY HInvIs DEF Quiet, ActorOK
      <3>2. rec[u] # "open"
        <4>1. PlaceOK(u)
          BY <2>0 DEF Base
        <4>2. pc[u] \notin ActivePc
          BY <3>1 DEF ActivePc, OpPc, LabelPc, DeathPc, BirthPc, UndoPc
        <4> QED
          BY <4>1, <4>2 DEF PlaceOK
      <3>3. pc[u] = "idle" => rec[u] = "none"
        BY <2>0 DEF Base, PlaceOK
      <3>4. rec[u] # "none"
        <4>1. CASE InLife(u, n)
          BY <4>1, LifeSets
        <4>2. CASE InLabels(u, n)
          BY <4>2 DEF InLabels, StInv, Order, ChainOK
        <4> QED
          BY <2>1, <4>1, <4>2
      <3>5. rec[u] # "aborted"
        BY <2>1, <3>1, <3>3, <3>4 DEF GoneAt
      <3>6. rec[u] = "committed"
        BY <2>0, <3>2, <3>4, <3>5 DEF Base, TypeOK
      <3>7. at[u] <= implicitStartTS
        BY <2>0, Numbers
      <3> QED
        BY <3>6, <3>7 DEF Seen
    <2>2. bag[n] = {l \in Label : History(n, l, implicitStartTS)}
      <3>1. Len(chain[n]) \in Nat /\ DOMAIN chain[n] = 1 .. Len(chain[n]) /\ Listed(chain[n])
        BY <2>0, ChainType
      <3>2. ReadsTo(n, implicitStartTS, 0)
        <4>1. \A i \in DOMAIN chain[n] : Seen(chain[n][i].tx, implicitStartTS)
          BY <2>1, <3>1 DEF InLabels, Listed
        <4>2. 0 < Len(chain[n]) => 1 \in DOMAIN chain[n]
          BY <3>1
        <4>3. 0 <= Len(chain[n]) /\ 0 + 1 = 1 /\ \A i \in 1 .. 0 : FALSE
          BY <3>1
        <4> QED
          BY <4>1, <4>2, <4>3 DEF ReadsTo
      <3>3. \A l \in Label : (l \in Undone(n, 0)) = History(n, l, implicitStartTS)
        BY <2>0, <3>2, HInvIs DEF HistAt
      <3>4. Undone(n, 0) = bag[n] /\ bag[n] \subseteq Label
        BY <2>0, UndoneNone, StoreSeqs
      <3> QED
        BY <3>3, <3>4
    <2>3. ASSUME n \notin torn PROVE tomb[n] = ~History(n, Life, implicitStartTS)
      <3>1. AllCommitted(n)
        BY <2>1 DEF AllCommitted
      <3>2. Buried(n) = ~History(n, Life, implicitStartTS)
        BY <2>3, <3>1, HInvIs DEF TombAt
      <3>3. owed[n] = "none"
        BY DEF HInv, LifeInv, SweepOK, Quiet
      <3> QED
        BY <3>2, <3>3 DEF Buried
    <2> QED
      BY <2>2, <2>3
  <1> QED
    BY <1>1, Invariance, HistoryInvariance, PTL
=============================================================================
