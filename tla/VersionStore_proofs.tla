------------------------ MODULE VersionStore_proofs ------------------------
(***************************************************************************)
(* Type correctness of VersionStore and first committer wins, for every    *)
(* number of transactions, nodes and labels.                               *)
(*                                                                         *)
(* The version chains of a node are kept in commit order (Precedes): who   *)
(* puts a version on top has seen what lies below, and what was reclaimed  *)
(* lies below every instant a transaction may still read at.  A label      *)
(* claim and a death go to different chains; since both sides publish      *)
(* their own claim before they look at the other's, one of them sees the   *)
(* other (Journalled).                                                     *)
(***************************************************************************)
EXTENDS VersionStore, SequenceTheorems, FiniteSetTheorems, WellFoundedInduction, TLAPS

----------------------------------------------------------------------------
(* The inductive invariant.                                                *)

LabelPc == {"setLabel", "crossLife", "crossNoop"}
DeathPc == {"claim", "die", "crossDead", "crossDied", "flipDead"}
BirthPc == {"born", "flipBorn", "flipLive", "lateBorn"}
UndoPc == {"undo", "inverse", "unwound"}

\* Where an operation writes, and where a transaction may still go on.
OpPc == LabelPc \union DeathPc \union BirthPc \union {"ready", "inverse"}
ActivePc == OpPc \union UndoPc \union {"written", "commit"}
Pcs == ActivePc \union {"idle", "aborted", "withdraw", "ended"}

\* The transactions that have a commit timestamp.
Stamped == {t \in Tx : at[t] # 0}

ClockOK ==
  /\ at \in [Tx -> Nat]
  /\ outcome \in [Tx -> {"none", "committed", "aborted"}]
  /\ allocated \in Nat /\ frontier \in Nat
  /\ frontier <= allocated
  /\ \A t \in Tx : at[t] <= allocated
  /\ allocated = Cardinality(Stamped)

\* The effect in hand is the one its step works on.
ArgOK(t) ==
  /\ pc[t] \in LabelPc => arg[t] \in Effects /\ arg[t].c # Life
  /\ pc[t] \in DeathPc => arg[t] \in Effects /\ arg[t].c = Life /\ arg[t].v = FALSE
  /\ pc[t] \in BirthPc => arg[t] \in Effects /\ arg[t].c = Life /\ arg[t].v = TRUE
  /\ pc[t] = "inverse" => arg[t] \in Effects

\* What the place of a transaction says about its record.
PlaceOK(t) ==
  /\ pc[t] = "idle" => rec[t] = "none" /\ at[t] = 0 /\ log[t] = <<>>
  /\ pc[t] \in ActivePc => rec[t] \in {"none", "open"}
  /\ rec[t] = "open" => pc[t] \in ActivePc
  /\ pc[t] \in {"crossLife", "crossDead", "crossDied", "flipDead", "flipBorn"} => rec[t] = "open"
  /\ pc[t] \in {"aborted", "withdraw"} => rec[t] = "aborted"
  /\ log[t] # <<>> => rec[t] # "none"
  /\ rec[t] = "committed" => at[t] # 0
  /\ pc[t] \in UndoPc \/ undoing[t] => t \in Bracket

\* A bracket reads below its own commit, and holds the horizon where it reads;
\* the others read everything, and allocate after their last write.
TimeOK(t) ==
  /\ t \in Bracket /\ pc[t] # "idle" => start[t] <= frontier
  /\ t \in Bracket /\ at[t] # 0 => start[t] < at[t]
  /\ t \in Bracket /\ pc[t] \in ActivePc => pin[t] = start[t]
  /\ t \notin Bracket /\ pc[t] # "idle" => start[t] = implicitStartTS
  /\ t \notin Bracket /\ at[t] # 0 => pc[t] \in {"commit", "aborted", "withdraw", "ended"}

\* Nothing is reclaimed above an instant that somebody reads at.
WaterOK ==
  /\ water <= frontier
  /\ \A t \in Tx : pin[t] # -1 => water <= pin[t]

Base ==
  /\ TypeOK /\ pc \in [Tx -> Pcs]
  /\ ClockOK /\ WaterOK
  /\ \A t \in Tx : ArgOK(t) /\ PlaceOK(t) /\ TimeOK(t)

\* u committed where v reads, and before v commits.
Precedes(u, v) ==
  /\ rec[u] = "committed"
  /\ at[u] <= start[v]
  /\ at[v] # 0 => at[u] < at[v]

Ordered(u, v) == Precedes(u, v) \/ Precedes(v, u)

\* Newest first.
Sorted(s) ==
  \A i, j \in DOMAIN s : i < j => s[i].tx = s[j].tx \/ Precedes(s[j].tx, s[i].tx)

\* The label deltas of a node are in commit order.
ChainOK(n) ==
  /\ \A i \in DOMAIN chain[n] : rec[chain[n][i].tx] # "none"
  /\ Sorted(chain[n])

Records(n) == ToSet(born[n]) \union ToSet(died[n])

Descending(s) == \A i, j \in DOMAIN s : i < j => s[j].seq < s[i].seq

\* The life records of a node are in commit order, by their sequence numbers.
LifeOK(n) ==
  /\ Descending(born[n]) /\ Descending(died[n])
  /\ \A r \in Records(n) : rec[r.tx] # "none"
  /\ \A r, q \in Records(n) :
       \/ r.tx = q.tx
       \/ r.seq < q.seq /\ Precedes(r.tx, q.tx)
       \/ q.seq < r.seq /\ Precedes(q.tx, r.tx)

\* The existence claim comes before or after each of them.
ClaimOK(n) ==
  claim[n] # NoTx =>
    /\ rec[claim[n]] # "none"
    /\ \A r \in Records(n) : r.tx = claim[n] \/ Ordered(r.tx, claim[n])

Order == \A n \in Node : ChainOK(n) /\ LifeOK(n) /\ ClaimOK(n)

\* Reclaimed: below every instant that is still read at.
Settled(u) == rec[u] = "committed" /\ at[u] <= water

InLabels(u, n) == \E i \in DOMAIN chain[n] : chain[n][i].tx = u
InLife(u, n) == \E r \in Records(n) : r.tx = u

Labels(u, n) == Writes(u, n, TRUE, BOOLEAN)
Lives(u, n) == Writes(u, n, FALSE, BOOLEAN)

\* A removal that has looked at the labels.
Removes(u, n) == Writes(u, n, FALSE, {FALSE}) \/ (pc[u] = "flipDead" /\ arg[u].n = n)

\* What u has journalled about n, or is about to.
LabelMark(u, n) == Labels(u, n) \/ (pc[u] = "crossLife" /\ arg[u].n = n)
LifeMark(u, n) ==
  Lives(u, n) \/ (pc[u] \in {"crossDied", "flipDead", "flipBorn"} /\ arg[u].n = n)

\* It has its version, unless that was reclaimed.
KeptOK(u, n) ==
  rec[u] # "aborted" =>
    /\ LabelMark(u, n) => InLabels(u, n) \/ Settled(u)
    /\ LifeMark(u, n) => InLife(u, n) \/ Settled(u)

Kept == \A u \in Tx, n \in Node : KeptOK(u, n)

\* Effects that collide come from transactions one of which has seen the other.
JournalOK(t, u, n) ==
  /\ Labels(t, n) /\ Labels(u, n) => Ordered(t, u)
  /\ Lives(t, n) /\ Lives(u, n) => Ordered(t, u)
  /\ Labels(t, n) /\ Removes(u, n) => Ordered(t, u)

Journalled ==
  \A t, u \in Tx : t # u /\ rec[t] # "aborted" /\ rec[u] # "aborted" =>
    \A n \in Node : JournalOK(t, u, n)

StInv == Base /\ Order /\ Kept /\ Journalled

----------------------------------------------------------------------------
(* Sequences and numbers.                                                  *)

\* The well-foundedness of < on the naturals, for the sets used below.
LEMMA NatMin ==
  ASSUME NEW T, T \subseteq Nat, T # {}
  PROVE  Min(T) \in T /\ \A y \in T : Min(T) <= y
  <1> DEFINE R == {ss \in Nat \X Nat : ss[1] < ss[2]}
  <1>1. IsWellFoundedOn(R, Nat)
    BY NatLessThanWellFounded, Zenon DEF OpToRel
  <1> HIDE DEF R
  <1>2. PICK x \in T : \A y \in T : ~(<<y, x>> \in R)
    BY <1>1, WFMin
  <1>3. \A y \in T : x <= y
    <2> TAKE y \in T
    <2>1. <<y, x>> \in R <=> y < x
      BY DEF R
    <2> QED
      BY <1>2, <2>1
  <1> QED
    BY <1>3 DEF Min

\* The instants of an open transaction are above every commit.
LEMMA StartTS == Cardinality(Tx) \in Nat /\ implicitStartTS \in Nat
  BY SizesAssumption, FS_CardinalityType DEF implicitStartTS

\* s2 is what is left of s: aborted records were taken from its front, and
\* from its back a committed one that w is past with all that follow it.
Window(s, s2, w) ==
  \E k \in Nat :
    /\ k + Len(s2) <= Len(s)
    /\ \A i \in 1 .. Len(s2) : s2[i] = s[k + i]
    /\ \A i \in 1 .. k : rec[s[i].tx] = "aborted"
    /\ k + Len(s2) < Len(s) =>
         LET u == s[k + Len(s2) + 1].tx IN rec[u] = "committed" /\ at[u] <= w

LEMMA PrefixWindow ==
  ASSUME NEW S, NEW s \in Seq(S), NEW k \in 0 .. Len(s)
  PROVE  /\ SubSeq(s, 1, k) \in Seq(S) /\ Len(SubSeq(s, 1, k)) = k
         /\ \A i \in 1 .. k : SubSeq(s, 1, k)[i] = s[i]
  <1>1. \A i \in 1 .. k : s[i] \in S
    BY ElementOfSeq, LenProperties
  <1> QED
    BY <1>1, SubSeqProperties, LenProperties

LEMMA SuffixWindow ==
  ASSUME NEW S, NEW s \in Seq(S), NEW k \in 0 .. Len(s)
  PROVE  LET r == SubSeq(s, k + 1, Len(s)) IN
         /\ r \in Seq(S) /\ Len(r) = Len(s) - k
         /\ \A i \in 1 .. Len(r) : r[i] = s[k + i]
  <1>1. \A i \in k + 1 .. Len(s) : s[i] \in S
    BY ElementOfSeq, LenProperties
  <1>2. Len(s) \in Nat
    BY LenProperties
  <1>3. /\ SubSeq(s, k + 1, Len(s)) \in Seq(S)
        /\ Len(SubSeq(s, k + 1, Len(s))) = IF k + 1 <= Len(s) THEN Len(s) - (k + 1) + 1 ELSE 0
        /\ \A i \in 1 .. Len(s) - (k + 1) + 1 : SubSeq(s, k + 1, Len(s))[i] = s[k + 1 + i - 1]
    BY <1>1, <1>2, SubSeqProperties
  <1>4. Len(SubSeq(s, k + 1, Len(s))) = Len(s) - k
    BY <1>2, <1>3
  <1>5. \A i \in 1 .. Len(s) - k : SubSeq(s, k + 1, Len(s))[i] = s[k + i]
    <2> TAKE i \in 1 .. Len(s) - k
    <2>1. i \in 1 .. Len(s) - (k + 1) + 1 /\ k + 1 + i - 1 = k + i
      BY <1>2
    <2> QED
      BY <1>3, <2>1
  <1> QED
    BY <1>3, <1>4, <1>5

\* Cut keeps the records above the first one that w is past.
LEMMA CutFacts ==
  ASSUME NEW S, NEW s \in Seq(S), NEW w
  PROVE  \E k \in 0 .. Len(s) :
           /\ Cut(s, w) = SubSeq(s, 1, k)
           /\ k < Len(s) => rec[s[k + 1].tx] = "committed" /\ at[s[k + 1].tx] <= w
  <1> DEFINE past == {i \in DOMAIN s : rec[s[i].tx] = "committed" /\ at[s[i].tx] <= w}
  <1>0. Len(s) \in Nat /\ DOMAIN s = 1 .. Len(s)
    BY LenProperties
  <1>1. CASE past = {}
    <2>1. Cut(s, w) = s
      BY <1>1 DEF Cut
    <2>2. s = SubSeq(s, 1, Len(s))
      BY SubSeqFull
    <2>3. Len(s) \in 0 .. Len(s) /\ ~(Len(s) < Len(s))
      BY <1>0
    <2> HIDE DEF past
    <2> QED
      BY <2>1, <2>2, <2>3
  <1>2. CASE past # {}
    <2>1. past \subseteq Nat
      BY <1>0
    <2>2. Min(past) \in past
      BY <1>2, <2>1, NatMin
    <2>3. Cut(s, w) = SubSeq(s, 1, Min(past) - 1)
      BY <1>2 DEF Cut
    <2>4. PICK m \in 1 .. Len(s) :
            m = Min(past) /\ rec[s[m].tx] = "committed" /\ at[s[m].tx] <= w
      BY <1>0, <2>2
    <2>5. m - 1 \in 0 .. Len(s) /\ (m - 1) + 1 = m
      BY <1>0
    <2> QED
      BY <2>3, <2>4, <2>5
  <1> QED
    BY <1>1, <1>2

\* WithoutAborted drops aborted records only.
LEMMA WithoutFacts ==
  ASSUME NEW S, NEW s \in Seq(S)
  PROVE  \E k \in 0 .. Len(s) :
           /\ WithoutAborted(s) = SubSeq(s, k + 1, Len(s))
           /\ \A i \in 1 .. k : rec[s[i].tx] = "aborted"
  <1> DEFINE live == {i \in DOMAIN s : ~Aborted(s[i].tx)}
  <1>0. Len(s) \in Nat /\ DOMAIN s = 1 .. Len(s)
    BY LenProperties
  <1>1. CASE live = {}
    <2>1. AbortedPrefix(s) = Len(s)
      BY <1>1 DEF AbortedPrefix
    <2>2. \A i \in 1 .. Len(s) : rec[s[i].tx] = "aborted"
      BY <1>0, <1>1 DEF Aborted
    <2> QED
      BY <1>0, <2>1, <2>2 DEF WithoutAborted
  <1>2. CASE live # {}
    <2>1. live \subseteq Nat
      BY <1>0
    <2>2. Min(live) \in live /\ \A y \in live : Min(live) <= y
      BY <1>2, <2>1, NatMin
    <2>3. AbortedPrefix(s) = Min(live) - 1
      BY <1>2 DEF AbortedPrefix
    <2> DEFINE k == Min(live) - 1
    <2>4. k \in 0 .. Len(s)
      BY <1>0, <2>2
    <2>5. ASSUME NEW i \in 1 .. k PROVE rec[s[i].tx] = "aborted"
      <3>1. Min(live) \in 1 .. Len(s)
        BY <1>0, <2>2
      <3>2. i \in 1 .. Len(s) /\ ~(Min(live) <= i)
        BY <1>0, <3>1
      <3>3. i \in DOMAIN s /\ i \notin live
        BY <1>0, <2>2, <3>2
      <3> QED
        BY <3>3 DEF Aborted
    <2> QED
      BY <2>3, <2>4, <2>5 DEF WithoutAborted
  <1> QED
    BY <1>1, <1>2

LEMMA WithoutWindow ==
  ASSUME NEW S, NEW s \in Seq(S), NEW w
  PROVE  WithoutAborted(s) \in Seq(S) /\ Window(s, WithoutAborted(s), w)
  <1>1. PICK k \in 0 .. Len(s) :
          /\ WithoutAborted(s) = SubSeq(s, k + 1, Len(s))
          /\ \A i \in 1 .. k : rec[s[i].tx] = "aborted"
    BY WithoutFacts
  <1> DEFINE r == SubSeq(s, k + 1, Len(s))
  <1>2. r \in Seq(S) /\ Len(r) = Len(s) - k /\ \A i \in 1 .. Len(r) : r[i] = s[k + i]
    BY SuffixWindow
  <1>3. k \in Nat /\ Len(s) \in Nat
    BY LenProperties
  <1> HIDE DEF r
  <1>4. k + Len(r) <= Len(s) /\ ~(k + Len(r) < Len(s))
    BY <1>2, <1>3
  <1>5. Window(s, r, w)
    BY <1>1, <1>2, <1>3, <1>4 DEF Window
  <1> QED
    BY <1>1, <1>2, <1>5 DEF r

LEMMA CutWindow ==
  ASSUME NEW S, NEW s \in Seq(S), NEW w
  PROVE  Cut(s, w) \in Seq(S) /\ Window(s, Cut(s, w), w)
  <1>1. PICK k \in 0 .. Len(s) :
          /\ Cut(s, w) = SubSeq(s, 1, k)
          /\ k < Len(s) => rec[s[k + 1].tx] = "committed" /\ at[s[k + 1].tx] <= w
    BY CutFacts
  <1> DEFINE r == SubSeq(s, 1, k)
  <1>2. r \in Seq(S) /\ Len(r) = k /\ \A i \in 1 .. k : r[i] = s[i]
    BY PrefixWindow
  <1>3. k \in Nat /\ Len(s) \in Nat
    BY LenProperties
  <1> HIDE DEF r
  <1>4. 0 + Len(r) <= Len(s) /\ 0 + Len(r) = k /\ 0 + Len(r) + 1 = k + 1
    BY <1>2, <1>3
  <1>5. \A i \in 1 .. Len(r) : r[i] = s[0 + i]
    BY <1>2, <1>3
  <1>6. \A i \in 1 .. 0 : rec[s[i].tx] = "aborted"
    OBVIOUS
  <1>7. Window(s, r, w)
    BY <1>1, <1>4, <1>5, <1>6 DEF Window
  <1> QED
    BY <1>1, <1>2, <1>7 DEF r

\* Reclamation takes the aborted prefix and then what every snapshot is past.
LEMMA BothWindow ==
  ASSUME NEW S, NEW s \in Seq(S), NEW w
  PROVE  Cut(WithoutAborted(s), w) \in Seq(S) /\ Window(s, Cut(WithoutAborted(s), w), w)
  <1>1. PICK k \in 0 .. Len(s) :
          /\ WithoutAborted(s) = SubSeq(s, k + 1, Len(s))
          /\ \A i \in 1 .. k : rec[s[i].tx] = "aborted"
    BY WithoutFacts
  <1> DEFINE q == SubSeq(s, k + 1, Len(s))
  <1>2. q \in Seq(S) /\ Len(q) = Len(s) - k /\ \A i \in 1 .. Len(q) : q[i] = s[k + i]
    BY SuffixWindow
  <1> HIDE DEF q
  <1>3. PICK m \in 0 .. Len(q) :
          /\ Cut(q, w) = SubSeq(q, 1, m)
          /\ m < Len(q) => rec[q[m + 1].tx] = "committed" /\ at[q[m + 1].tx] <= w
    BY <1>2, CutFacts
  <1> DEFINE r == SubSeq(q, 1, m)
  <1>4. r \in Seq(S) /\ Len(r) = m /\ \A i \in 1 .. m : r[i] = q[i]
    BY <1>2, PrefixWindow
  <1> HIDE DEF r
  <1>5. k \in Nat /\ Len(s) \in Nat /\ m \in Nat /\ Len(q) \in Nat
    BY <1>2, LenProperties
  <1>6. k + Len(r) <= Len(s)
    BY <1>2, <1>4, <1>5
  <1>7. \A i \in 1 .. Len(r) : r[i] = s[k + i]
    <2> TAKE i \in 1 .. Len(r)
    <2>1. i \in 1 .. m /\ i \in 1 .. Len(q)
      BY <1>4, <1>5
    <2> QED
      BY <1>2, <1>4, <2>1
  <1>8. ASSUME k + Len(r) < Len(s)
        PROVE  /\ rec[s[k + Len(r) + 1].tx] = "committed"
               /\ at[s[k + Len(r) + 1].tx] <= w
    <2>1. m < Len(q) /\ m + 1 \in 1 .. Len(q) /\ k + Len(r) + 1 = k + (m + 1)
      BY <1>2, <1>4, <1>5, <1>8
    <2> QED
      BY <1>2, <1>3, <2>1
  <1>9. Window(s, r, w)
    BY <1>1, <1>5, <1>6, <1>7, <1>8 DEF Window
  <1> QED
    BY <1>1, <1>3, <1>4, <1>9 DEF r, q

\* The records of the transactions.
Listed(s) == \A i \in DOMAIN s : s[i].tx \in Tx

\* A window of sorted records is sorted, and what it leaves out is aborted, or
\* committed where w is past it.
LEMMA WindowKeeps ==
  ASSUME NEW S, NEW s \in Seq(S), NEW s2 \in Seq(S), NEW w \in Nat, Window(s, s2, w),
         Listed(s), Sorted(s), at \in [Tx -> Nat],
         \A u \in Tx : rec[u] = "committed" => at[u] # 0
  PROVE  /\ \A j \in DOMAIN s2 : \E i \in DOMAIN s : s2[j] = s[i]
         /\ Sorted(s2)
         /\ Descending(s) => Descending(s2)
         /\ \A i \in DOMAIN s :
              \/ \E j \in DOMAIN s2 : s2[j] = s[i]
              \/ rec[s[i].tx] = "aborted"
              \/ rec[s[i].tx] = "committed" /\ at[s[i].tx] <= w
  <1>1. PICK k \in Nat :
          /\ k + Len(s2) <= Len(s)
          /\ \A i \in 1 .. Len(s2) : s2[i] = s[k + i]
          /\ \A i \in 1 .. k : rec[s[i].tx] = "aborted"
          /\ k + Len(s2) < Len(s) => /\ rec[s[k + Len(s2) + 1].tx] = "committed"
                                     /\ at[s[k + Len(s2) + 1].tx] <= w
    BY DEF Window
  <1>2. /\ Len(s) \in Nat /\ DOMAIN s = 1 .. Len(s)
        /\ Len(s2) \in Nat /\ DOMAIN s2 = 1 .. Len(s2)
    BY LenProperties
  <1>3. \A j \in DOMAIN s2 : k + j \in DOMAIN s /\ s2[j] = s[k + j]
    BY <1>1, <1>2
  <1>4. \A i, j \in DOMAIN s2 : i < j => k + i < k + j
    BY <1>2
  <1>5. Sorted(s2)
    BY <1>3, <1>4 DEF Sorted
  <1>6. Descending(s) => Descending(s2)
    BY <1>3, <1>4 DEF Descending
  <1>7. ASSUME NEW i \in DOMAIN s
        PROVE  \/ \E j \in DOMAIN s2 : s2[j] = s[i]
               \/ rec[s[i].tx] = "aborted"
               \/ rec[s[i].tx] = "committed" /\ at[s[i].tx] <= w
    <2>1. CASE i <= k
      BY <1>1, <1>2, <2>1
    <2>2. CASE k < i /\ i <= k + Len(s2)
      <3>1. i - k \in DOMAIN s2 /\ k + (i - k) = i
        BY <1>2, <2>2
      <3> QED
        BY <1>3, <3>1
    <2>3. CASE k + Len(s2) < i
      <3> DEFINE m == k + Len(s2) + 1
      <3>1. m \in DOMAIN s /\ (m = i \/ m < i) /\ k + Len(s2) < Len(s)
        BY <1>1, <1>2, <2>3
      <3>2. rec[s[m].tx] = "committed" /\ at[s[m].tx] <= w
        BY <1>1, <3>1
      <3> HIDE DEF m
      <3>3. s[i].tx = s[m].tx \/ Precedes(s[i].tx, s[m].tx)
        BY <3>1 DEF Sorted
      <3>4. s[i].tx \in Tx /\ s[m].tx \in Tx
        BY <3>1 DEF Listed
      <3>5. at[s[m].tx] # 0 /\ at[s[m].tx] \in Nat /\ at[s[i].tx] \in Nat
        BY <3>2, <3>4
      <3> QED
        BY <3>2, <3>3, <3>5 DEF Precedes
    <2> QED
      BY <1>1, <1>2, <2>1, <2>2, <2>3
  <1> QED
    BY <1>3, <1>5, <1>6, <1>7

\* A record is put on top of s, of which the first k are left out.
LEMMA PushFacts ==
  ASSUME NEW S, NEW s \in Seq(S), NEW x \in S
  PROVE  LET d == <<x>> \o s IN
         /\ d \in Seq(S) /\ Len(d) = Len(s) + 1
         /\ DOMAIN d = 1 .. Len(s) + 1
         /\ d[1] = x
         /\ \A i \in 1 .. Len(s) : d[i + 1] = s[i]
  <1>1. <<x>> \in Seq(S) /\ Len(<<x>>) = 1 /\ <<x>>[1] = x
    OBVIOUS
  <1>2. Len(s) \in Nat
    BY LenProperties
  <1>3. /\ <<x>> \o s \in Seq(S) /\ Len(<<x>> \o s) = 1 + Len(s)
        /\ \A i \in 1 .. 1 + Len(s) :
             (<<x>> \o s)[i] = IF i <= 1 THEN <<x>>[i] ELSE s[i - 1]
    BY <1>1, ConcatProperties
  <1>4. DOMAIN (<<x>> \o s) = 1 .. Len(s) + 1
    BY <1>2, <1>3, LenProperties
  <1>5. (<<x>> \o s)[1] = x
    BY <1>1, <1>2, <1>3
  <1>6. ASSUME NEW i \in 1 .. Len(s) PROVE (<<x>> \o s)[i + 1] = s[i]
    <2>1. i + 1 \in 1 .. 1 + Len(s) /\ ~(i + 1 <= 1) /\ (i + 1) - 1 = i
      BY <1>2
    <2> QED
      BY <1>3, <2>1
  <1> QED
    BY <1>2, <1>3, <1>4, <1>5, <1>6

\* Every position but the first is that of an old record.
LEMMA PushIndex ==
  ASSUME NEW S, NEW s \in Seq(S), NEW x \in S, NEW j \in DOMAIN (<<x>> \o s)
  PROVE  \/ j = 1 /\ (<<x>> \o s)[j] = x
         \/ 1 < j /\ j - 1 \in DOMAIN s /\ (<<x>> \o s)[j] = s[j - 1]
  <1>1. Len(s) \in Nat /\ DOMAIN s = 1 .. Len(s)
    BY LenProperties
  <1>2. j \in 1 .. Len(s) + 1
    BY PushFacts
  <1>3. CASE j = 1
    BY <1>3, PushFacts
  <1>4. CASE j # 1
    <2>1. j - 1 \in 1 .. Len(s) /\ (j - 1) + 1 = j /\ 1 < j
      BY <1>1, <1>2, <1>4
    <2> QED
      BY <1>1, <2>1, PushFacts
  <1> QED
    BY <1>3, <1>4

\* d holds x and records of s; all of them that x's transaction did not write;
\* what x is put on was written by it or committed before it, or earlier.
Only(d, s, x) == \A j \in DOMAIN d : d[j] = x \/ \E i \in DOMAIN s : d[j] = s[i]
Has(d, x) == \E j \in DOMAIN d : d[j] = x
Keeps(d, s, x) == \A i \in DOMAIN s : s[i].tx = x.tx \/ Has(d, s[i])
Over(s, x) == \A i \in DOMAIN s : s[i].tx = x.tx \/ Precedes(s[i].tx, x.tx)
Newer(s, x) == \A i \in DOMAIN s : s[i].seq < x.seq

LEMMA PushKeeps ==
  ASSUME NEW S, NEW s \in Seq(S), NEW x \in S, NEW d, d = <<x>> \o s
  PROVE  /\ d \in Seq(S) /\ Only(d, s, x) /\ Has(d, x) /\ Keeps(d, s, x)
         /\ \A i \in DOMAIN s : Has(d, s[i])
         /\ Sorted(s) /\ Over(s, x) => Sorted(d)
         /\ Descending(s) /\ Newer(s, x) => Descending(d)
  <1>0. d \in Seq(S)
    BY PushFacts
  <1>1. Len(s) \in Nat /\ DOMAIN s = 1 .. Len(s)
    BY LenProperties
  <1>2. \A j \in DOMAIN d : \/ j = 1 /\ d[j] = x
                            \/ 1 < j /\ j - 1 \in DOMAIN s /\ d[j] = s[j - 1]
    BY PushIndex
  <1>3. DOMAIN d = 1 .. Len(s) + 1 /\ d[1] = x /\ \A i \in 1 .. Len(s) : d[i + 1] = s[i]
    BY PushFacts
  <1>4. \A j \in DOMAIN d : d[j] = x \/ \E i \in DOMAIN s : d[j] = s[i]
    BY <1>2
  <1>5. \E j \in DOMAIN d : d[j] = x
    <2>1. 1 \in DOMAIN d
      BY <1>1, <1>3
    <2> QED
      BY <1>3, <2>1
  <1>6. \A i \in DOMAIN s : \E j \in DOMAIN d : d[j] = s[i]
    <2> TAKE i \in DOMAIN s
    <2>1. i + 1 \in DOMAIN d
      BY <1>1, <1>3
    <2> QED
      BY <1>1, <1>3, <2>1
  <1>7. ASSUME NEW i \in DOMAIN d, NEW j \in DOMAIN d, i < j
        PROVE  /\ j - 1 \in DOMAIN s /\ d[j] = s[j - 1]
               /\ \/ d[i] = x
                  \/ i - 1 \in DOMAIN s /\ d[i] = s[i - 1] /\ i - 1 < j - 1
    <2>1. i \in Nat /\ j \in Nat /\ i >= 1 /\ j # 1
      BY <1>1, <1>3, <1>7
    <2> QED
      BY <1>2, <1>7, <2>1
  <1>8. Sorted(s) /\ Over(s, x) => Sorted(d)
    BY <1>7 DEF Sorted, Over
  <1>9. Descending(s) /\ Newer(s, x) => Descending(d)
    BY <1>7 DEF Descending, Newer
  <1> QED
    BY <1>0, <1>4, <1>5, <1>6, <1>8, <1>9 DEF Only, Has, Keeps

\* A life record displaces what its own transaction wrote last, and no other.
LEMMA DisplacingKeeps ==
  ASSUME NEW S, NEW s \in Seq(S), NEW x \in S, NEW d, d = Displacing(s, x)
  PROVE  /\ d \in Seq(S) /\ Only(d, s, x) /\ Has(d, x) /\ Keeps(d, s, x)
         /\ Descending(s) /\ Newer(s, x) => Descending(d)
  <1>0. Len(s) \in Nat /\ DOMAIN s = 1 .. Len(s)
    BY LenProperties
  <1>1. CASE s # <<>> /\ Head(s).tx = x.tx
    <2> DEFINE r == Tail(s)
    <2>1. d = <<x>> \o r
      BY <1>1 DEF Displacing
    <2>2. /\ r \in Seq(S) /\ Len(r) = Len(s) - 1
          /\ \A i \in 1 .. Len(r) : r[i] = s[i + 1]
      BY <1>1, HeadTailProperties
    <2>3. Len(r) \in Nat /\ DOMAIN r = 1 .. Len(r)
      BY <2>2, LenProperties
    <2>4. s[1].tx = x.tx
      BY <1>1
    <2> HIDE DEF r
    <2>5. \A i \in DOMAIN r : i + 1 \in DOMAIN s /\ r[i] = s[i + 1]
      BY <1>0, <2>2, <2>3
    <2>6. ASSUME NEW i \in DOMAIN s
          PROVE  s[i].tx = x.tx \/ \E j \in DOMAIN r : r[j] = s[i]
      <3>1. CASE i = 1
        BY <2>4, <3>1
      <3>2. CASE i # 1
        <4>1. i - 1 \in DOMAIN r /\ (i - 1) + 1 = i
          BY <1>0, <2>2, <2>3, <3>2
        <4> QED
          BY <2>5, <4>1
      <3> QED
        BY <3>1, <3>2
    <2>7. Descending(s) => Descending(r)
      <3>1. \A i, j \in DOMAIN r : i < j => i + 1 < j + 1
        BY <2>3
      <3> QED
        BY <2>5, <3>1 DEF Descending
    <2>8. /\ d \in Seq(S) /\ Only(d, r, x) /\ Has(d, x)
          /\ \A i \in DOMAIN r : Has(d, r[i])
          /\ Descending(r) /\ Newer(r, x) => Descending(d)
      BY <2>1, <2>2, PushKeeps
    <2>9. Only(d, s, x) /\ Keeps(d, s, x)
      BY <2>5, <2>6, <2>8 DEF Only, Keeps
    <2>10. Newer(s, x) => Newer(r, x)
      BY <2>5 DEF Newer
    <2> QED
      BY <2>7, <2>8, <2>9, <2>10
  <1>2. CASE ~(s # <<>> /\ Head(s).tx = x.tx)
    <2>1. d = <<x>> \o s
      BY <1>2 DEF Displacing
    <2> QED
      BY <2>1, PushKeeps
  <1> QED
    BY <1>1, <1>2

----------------------------------------------------------------------------
(* What a transaction has seen.                                            *)

\* The numbers of a transaction, and that a commit is below the open stamps.
LEMMA Numbers ==
  ASSUME Base
  PROVE  /\ water \in Nat /\ frontier \in Nat /\ allocated \in Nat
         /\ frontier <= allocated /\ allocated <= Cardinality(Tx)
         /\ \A u \in Tx : /\ at[u] \in Nat /\ start[u] \in Nat
                          /\ at[u] <= allocated
                          /\ at[u] < implicitStartTS
                          /\ rec[u] = "committed" => at[u] # 0
  <1>1. Cardinality(Stamped) <= Cardinality(Tx)
    <2>1. Stamped \subseteq Tx
      BY DEF Stamped
    <2> QED
      BY <2>1, SizesAssumption, FS_Subset
  <1>2. /\ frontier \in Nat /\ allocated \in Nat /\ frontier <= allocated
        /\ allocated = Cardinality(Stamped)
        /\ at \in [Tx -> Nat] /\ \A u \in Tx : at[u] <= allocated
    BY DEF Base, ClockOK
  <1>3. water \in Nat /\ start \in [Tx -> Nat]
    BY StartTS DEF Base, TypeOK, Stamps
  <1>4. \A u \in Tx : rec[u] = "committed" => at[u] # 0
    BY DEF Base, PlaceOK
  <1>5. allocated < implicitStartTS
    BY <1>1, <1>2, StartTS DEF implicitStartTS
  <1> QED
    BY <1>1, <1>2, <1>3, <1>4, <1>5, StartTS

\* What is committed where t reads precedes it.
LEMMA SeenPrecedes ==
  ASSUME Base, NEW t \in Tx, pc[t] \in OpPc, NEW u \in Tx,
         rec[u] = "committed", at[u] <= start[t]
  PROVE  Precedes(u, t)
  <1>1. at[t] # 0 => t \in Bracket /\ start[t] < at[t]
    BY DEF Base, TimeOK, OpPc, LabelPc, DeathPc, BirthPc
  <1>2. at[u] \in Nat /\ at[t] \in Nat /\ start[t] \in Nat
    BY Numbers
  <1> QED
    BY <1>1, <1>2 DEF Precedes

\* And so does what precedes that.
LEMMA SeenBelow ==
  ASSUME Base, NEW t \in Tx, pc[t] \in OpPc, NEW u \in Tx, NEW v \in Tx,
         rec[u] = "committed", at[u] <= start[t], Precedes(v, u)
  PROVE  Precedes(v, t)
  <1>1. at[u] # 0 /\ at[u] \in Nat /\ at[v] \in Nat /\ start[t] \in Nat
    BY Numbers
  <1>2. rec[v] = "committed" /\ at[v] <= start[t]
    BY <1>1 DEF Precedes
  <1> QED
    BY <1>2, SeenPrecedes

\* What was reclaimed precedes every transaction that still writes.
LEMMA SettledPrecedes ==
  ASSUME Base, NEW t \in Tx, pc[t] \in OpPc, NEW u \in Tx, Settled(u)
  PROVE  Precedes(u, t)
  <1>1. rec[u] = "committed" /\ at[u] <= water
    BY DEF Settled
  <1>2. pc[t] \in ActivePc /\ pc[t] # "idle"
    BY DEF ActivePc, OpPc, LabelPc, DeathPc, BirthPc
  <1>3. /\ at[u] \in Nat /\ water \in Nat /\ start[t] \in Nat /\ at[u] < implicitStartTS
    BY Numbers
  <1>4. CASE t \in Bracket
    <2>1. pin[t] = start[t]
      BY <1>2, <1>4 DEF Base, TimeOK
    <2>2. pin[t] # -1 => water <= pin[t]
      BY DEF Base, WaterOK
    <2>3. at[u] <= start[t]
      BY <1>1, <1>3, <2>1, <2>2
    <2> QED
      BY <1>1, <2>3, SeenPrecedes
  <1>5. CASE t \notin Bracket
    <2>1. start[t] = implicitStartTS
      BY <1>2, <1>5 DEF Base, TimeOK
    <2>2. at[u] <= start[t]
      BY <1>3, <2>1
    <2> QED
      BY <1>1, <2>2, SeenPrecedes
  <1> QED
    BY <1>4, <1>5

LEMMA ChainType ==
  ASSUME Base, NEW n \in Node
  PROVE  /\ chain[n] \in Seq([tx : Tx, l : Label, was : BOOLEAN]) /\ Listed(chain[n])
         /\ Len(chain[n]) \in Nat /\ DOMAIN chain[n] = 1 .. Len(chain[n])
  <1>1. chain[n] \in Seq([tx : Tx, l : Label, was : BOOLEAN])
    BY DEF Base, TypeOK
  <1>2. \A i \in 1 .. Len(chain[n]) : chain[n][i] \in [tx : Tx, l : Label, was : BOOLEAN]
    BY <1>1, ElementOfSeq
  <1>3. Len(chain[n]) \in Nat /\ DOMAIN chain[n] = 1 .. Len(chain[n])
    BY <1>1, LenProperties
  <1> QED
    BY <1>1, <1>2, <1>3 DEF Listed

\* Who is admitted by the newest label delta has seen them all.
LEMMA AdmitLabel ==
  ASSUME Base, Order, NEW t \in Tx, pc[t] \in OpPc, NEW n \in Node,
         ~Conflicts(t, LabelHead(n))
  PROVE  \A i \in DOMAIN chain[n] : chain[n][i].tx = t \/ Precedes(chain[n][i].tx, t)
  <1> SUFFICES ASSUME NEW i \in DOMAIN chain[n]
               PROVE  chain[n][i].tx = t \/ Precedes(chain[n][i].tx, t)
    OBVIOUS
  <1>1. /\ chain[n] \in Seq([tx : Tx, l : Label, was : BOOLEAN])
        /\ Len(chain[n]) \in Nat /\ DOMAIN chain[n] = 1 .. Len(chain[n])
    BY ChainType
  <1>2. 1 \in DOMAIN chain[n] /\ (i = 1 \/ 1 < i) /\ chain[n] # <<>>
    BY <1>1
  <1> DEFINE u == chain[n][1].tx
             v == chain[n][i].tx
  <1>3. u \in Tx /\ v \in Tx
    BY <1>2, ChainType DEF Listed
  <1>4. LabelHead(n) = u
    BY <1>1, <1>2 DEF LabelHead
  <1>5. u = v \/ Precedes(v, u)
    BY <1>2 DEF Order, ChainOK, Sorted
  <1> HIDE DEF u, v
  <1>6. Visible(u, start[t], t)
    BY <1>3, <1>4, NamesAssumption DEF Conflicts
  <1>7. CASE rec[u] = "open" /\ u = t
    BY <1>5, <1>7 DEF v
  <1>8. CASE rec[u] = "committed" /\ at[u] <= start[t]
    BY <1>3, <1>5, <1>8, SeenPrecedes, SeenBelow DEF v
  <1> QED
    BY <1>6, <1>7, <1>8 DEF Visible

LifeRecord == [tx : Tx, seq : Nat, was : BOOLEAN]

LEMMA LifeType ==
  ASSUME Base, NEW n \in Node
  PROVE  /\ born[n] \in Seq(LifeRecord) /\ died[n] \in Seq(LifeRecord)
         /\ \A r \in Records(n) : r \in LifeRecord /\ r.tx \in Tx /\ r.seq \in Nat
         /\ claim[n] # NoTx => claim[n] \in Tx
  <1>1. born[n] \in Seq(LifeRecord) /\ died[n] \in Seq(LifeRecord)
    BY DEF Base, TypeOK, LifeRecord
  <1>2. \A s \in Seq(LifeRecord) : \A i \in DOMAIN s : s[i] \in LifeRecord
    BY ElementOfSeq, LenProperties
  <1>3. \A r \in Records(n) : r \in LifeRecord
    BY <1>1, <1>2 DEF Records, ToSet
  <1>4. \A r \in LifeRecord : r.tx \in Tx /\ r.seq \in Nat
    BY DEF LifeRecord
  <1>5. claim[n] # NoTx => claim[n] \in Tx
    BY DEF Base, TypeOK
  <1> QED
    BY <1>1, <1>3, <1>4, <1>5

\* The head of a descending sequence is its newest record.
LEMMA HeadNewest ==
  ASSUME NEW s \in Seq(LifeRecord), s # <<>>, Descending(s)
  PROVE  /\ 1 \in DOMAIN s /\ Head(s) = s[1]
         /\ \A i \in DOMAIN s : s[i].seq <= s[1].seq
  <1>1. Len(s) \in Nat \ {0} /\ DOMAIN s = 1 .. Len(s)
    BY EmptySeq, LenProperties
  <1>2. \A i \in DOMAIN s : s[i] \in LifeRecord
    BY ElementOfSeq, LenProperties
  <1>3. \A i \in DOMAIN s : s[i].seq \in Nat
    BY <1>2 DEF LifeRecord
  <1>4. 1 \in DOMAIN s /\ \A i \in DOMAIN s : i = 1 \/ 1 < i
    BY <1>1
  <1>5. Head(s) = s[1]
    BY <1>1
  <1>6. \A i \in DOMAIN s : s[i].seq <= s[1].seq
    BY <1>3, <1>4 DEF Descending
  <1> QED
    BY <1>4, <1>5, <1>6

\* The newest sequence number is that of a head.
LEMMA NewestFacts ==
  ASSUME Base, Order, NEW n \in Node
  PROVE  /\ NewestSeq(n) \in Nat
         /\ \A r \in Records(n) : r.seq <= NewestSeq(n)
         /\ Records(n) # {} =>
              \/ born[n] # <<>> /\ Head(born[n]).seq = NewestSeq(n)
              \/ died[n] # <<>> /\ Head(died[n]).seq = NewestSeq(n)
         /\ born[n] # <<>> => Head(born[n]) \in Records(n)
         /\ died[n] # <<>> => Head(died[n]) \in Records(n)
         /\ born[n] = <<>> /\ died[n] = <<>> => Records(n) = {}
  <1> DEFINE T == {0} \union {born[n][i].seq : i \in DOMAIN born[n]}
                      \union {died[n][i].seq : i \in DOMAIN died[n]}
             b == Head(born[n])
             d == Head(died[n])
  <1>1. born[n] \in Seq(LifeRecord) /\ died[n] \in Seq(LifeRecord)
    BY LifeType
  <1>2. Descending(born[n]) /\ Descending(died[n])
    BY DEF Order, LifeOK
  <1>3. born[n] # <<>> => /\ b \in Records(n) /\ b.seq \in T
                          /\ \A i \in DOMAIN born[n] : born[n][i].seq <= b.seq
    <2> SUFFICES ASSUME born[n] # <<>>
                 PROVE  /\ b \in Records(n) /\ b.seq \in T
                        /\ \A i \in DOMAIN born[n] : born[n][i].seq <= b.seq
      OBVIOUS
    <2>1. 1 \in DOMAIN born[n] /\ b = born[n][1]
          /\ \A i \in DOMAIN born[n] : born[n][i].seq <= born[n][1].seq
      BY <1>1, <1>2, HeadNewest
    <2> QED
      BY <2>1 DEF Records, ToSet
  <1>4. died[n] # <<>> => /\ d \in Records(n) /\ d.seq \in T
                          /\ \A i \in DOMAIN died[n] : died[n][i].seq <= d.seq
    <2> SUFFICES ASSUME died[n] # <<>>
                 PROVE  /\ d \in Records(n) /\ d.seq \in T
                        /\ \A i \in DOMAIN died[n] : died[n][i].seq <= d.seq
      OBVIOUS
    <2>1. 1 \in DOMAIN died[n] /\ d = died[n][1]
          /\ \A i \in DOMAIN died[n] : died[n][i].seq <= died[n][1].seq
      BY <1>1, <1>2, HeadNewest
    <2> QED
      BY <2>1 DEF Records, ToSet
  <1>5. T \subseteq Nat
    BY LifeType DEF Records, ToSet
  <1>6. /\ born[n] = <<>> => DOMAIN born[n] = {}
        /\ died[n] = <<>> => DOMAIN died[n] = {}
    OBVIOUS
  <1>7. \E m \in T : \A y \in T : m >= y
    <2>1. CASE born[n] = <<>> /\ died[n] = <<>>
      BY <1>6, <2>1
    <2>2. CASE born[n] # <<>> /\ died[n] = <<>>
      <3>1. \A y \in T : b.seq >= y
        BY <1>3, <1>5, <1>6, <2>2
      <3> QED
        BY <1>3, <2>2, <3>1
    <2>3. CASE born[n] = <<>> /\ died[n] # <<>>
      <3>1. \A y \in T : d.seq >= y
        BY <1>4, <1>5, <1>6, <2>3
      <3> QED
        BY <1>4, <2>3, <3>1
    <2>4. CASE born[n] # <<>> /\ died[n] # <<>> /\ b.seq >= d.seq
      <3>1. b.seq \in Nat /\ d.seq \in Nat
        BY <1>3, <1>4, <1>5, <2>4
      <3>2. \A y \in T : b.seq >= y
        BY <1>3, <1>4, <1>5, <2>4, <3>1
      <3> QED
        BY <1>3, <2>4, <3>2
    <2>5. CASE born[n] # <<>> /\ died[n] # <<>> /\ ~(b.seq >= d.seq)
      <3>1. b.seq \in Nat /\ d.seq \in Nat
        BY <1>3, <1>4, <1>5, <2>5
      <3>2. \A y \in T : d.seq >= y
        BY <1>3, <1>4, <1>5, <2>5, <3>1
      <3> QED
        BY <1>4, <2>5, <3>2
    <2> QED
      BY <2>1, <2>2, <2>3, <2>4, <2>5
  <1>8. NewestSeq(n) = Max(T)
    BY DEF NewestSeq
  <1> HIDE DEF T
  <1>9. NewestSeq(n) \in T /\ \A y \in T : NewestSeq(n) >= y
    BY <1>7, <1>8 DEF Max
  <1>10. \A r \in Records(n) : r.seq \in T /\ r.seq <= NewestSeq(n)
    <2>1. \A r \in Records(n) : r.seq \in T
      BY DEF Records, ToSet, T
    <2> QED
      BY <1>5, <1>9, <2>1
  <1>11. ASSUME Records(n) # {}
         PROVE  \/ born[n] # <<>> /\ b.seq = NewestSeq(n)
                \/ died[n] # <<>> /\ d.seq = NewestSeq(n)
    <2>1. PICK r \in Records(n) : TRUE
      BY <1>11
    <2>2. \E r2 \in Records(n) : r2.seq = NewestSeq(n)
      <3>1. CASE NewestSeq(n) = 0
        <4>1. r.seq \in Nat /\ r.seq <= 0
          BY <1>5, <1>10, <2>1, <3>1
        <4> QED
          BY <3>1, <4>1
      <3>2. CASE NewestSeq(n) # 0
        BY <1>9, <3>2 DEF T, Records, ToSet
      <3> QED
        BY <3>1, <3>2
    <2>3. PICK r2 \in Records(n) : r2.seq = NewestSeq(n)
      BY <2>2
    <2>4. CASE \E i \in DOMAIN born[n] : born[n][i] = r2
      <3>1. born[n] # <<>>
        BY <1>6, <2>4
      <3>2. r2.seq <= b.seq
        BY <1>3, <2>4, <3>1
      <3>3. b.seq <= NewestSeq(n) /\ b.seq \in Nat /\ NewestSeq(n) \in Nat
        BY <1>3, <1>5, <1>9, <3>1
      <3> QED
        BY <2>3, <3>1, <3>2, <3>3
    <2>5. CASE \E i \in DOMAIN died[n] : died[n][i] = r2
      <3>1. died[n] # <<>>
        BY <1>6, <2>5
      <3>2. r2.seq <= d.seq
        BY <1>4, <2>5, <3>1
      <3>3. d.seq <= NewestSeq(n) /\ d.seq \in Nat /\ NewestSeq(n) \in Nat
        BY <1>4, <1>5, <1>9, <3>1
      <3> QED
        BY <2>3, <3>1, <3>2, <3>3
    <2> QED
      BY <2>3, <2>4, <2>5 DEF Records, ToSet
  <1>12. born[n] = <<>> /\ died[n] = <<>> => Records(n) = {}
    BY <1>6 DEF Records, ToSet
  <1>13. NewestSeq(n) \in Nat
    BY <1>5, <1>9
  <1> QED
    BY <1>3, <1>4, <1>10, <1>11, <1>12, <1>13

\* LifeHead is the claim, or the transaction of a newest record.
LEMMA LifeHeadFacts ==
  ASSUME Base, Order, NEW n \in Node
  PROVE  \/ Records(n) = {} /\ LifeHead(n) = claim[n]
         \/ \E r \in Records(n) :
              /\ \A q \in Records(n) : q.seq <= r.seq
              /\ LifeHead(n) = IF Stamp(claim[n]) > Stamp(r.tx) THEN claim[n] ELSE r.tx
  <1> DEFINE heads == {r \in {Head(x) : x \in {born[n], died[n]} \ {<<>>}} : r.seq = NewestSeq(n)}
             newest == IF heads = {} THEN NoTx ELSE (CHOOSE r \in heads : TRUE).tx
  <1>1. LifeHead(n) = IF Stamp(claim[n]) > Stamp(newest) THEN claim[n] ELSE newest
    BY DEF LifeHead
  <1>2. CASE Records(n) = {}
    <2>1. born[n] = <<>> /\ died[n] = <<>>
      BY <1>2, NewestFacts
    <2>2. heads = {}
      BY <2>1
    <2>3. newest = NoTx
      BY <2>2
    <2>4. Stamp(NoTx) = 0
      BY DEF Stamp
    <2>5. claim[n] # NoTx => Stamp(claim[n]) > 0
      <3> SUFFICES ASSUME claim[n] # NoTx PROVE Stamp(claim[n]) > 0
        OBVIOUS
      <3>1. claim[n] \in Tx
        BY LifeType
      <3>2. at[claim[n]] \in Nat /\ (rec[claim[n]] = "committed" => at[claim[n]] # 0)
        BY <3>1, Numbers
      <3> QED
        BY <3>2, StartTS DEF Stamp
    <2> HIDE DEF newest
    <2>6. CASE claim[n] = NoTx
      BY <1>1, <1>2, <2>3, <2>6
    <2>7. CASE claim[n] # NoTx
      BY <1>1, <1>2, <2>3, <2>4, <2>5, <2>7
    <2> QED
      BY <1>2, <2>6, <2>7
  <1>3. CASE Records(n) # {}
    <2>1. heads # {}
      BY <1>3, NewestFacts
    <2>2. heads \subseteq Records(n) /\ \A r \in heads : r.seq = NewestSeq(n)
      BY NewestFacts
    <2> DEFINE c == CHOOSE r \in heads : TRUE
    <2>3. c \in heads
      BY <2>1
    <2>4. newest = c.tx
      BY <2>1
    <2> HIDE DEF heads, newest, c
    <2>5. c \in Records(n) /\ \A q \in Records(n) : q.seq <= c.seq
      BY <2>2, <2>3, NewestFacts
    <2> QED
      BY <1>1, <2>4, <2>5
  <1> QED
    BY <1>2, <1>3

LEMMA StampFacts ==
  ASSUME Base, NEW u \in Tx
  PROVE  /\ Stamp(u) \in Nat /\ Stamp(NoTx) = 0
         /\ rec[u] = "committed" => Stamp(u) = at[u] /\ Stamp(u) < implicitStartTS
         /\ rec[u] = "aborted" => Stamp(u) = implicitStartTS + 2
         /\ rec[u] \in {"none", "open"} => Stamp(u) = implicitStartTS + 1
  <1>1. u # NoTx /\ at[u] \in Nat /\ at[u] < implicitStartTS
    BY Numbers, NamesAssumption
  <1>2. rec[u] \in {"none", "open", "committed", "aborted"}
    BY DEF Base, TypeOK
  <1> QED
    BY <1>1, <1>2, StartTS DEF Stamp

\* The writers of a node's existence that t has seen.
SeesLife(t, n) ==
  /\ \A r \in Records(n) : r.tx = t \/ Precedes(r.tx, t)
  /\ claim[n] # NoTx => claim[n] = t \/ Precedes(claim[n], t)

\* Who has seen the newest record has seen them all.
LEMMA NewestSeen ==
  ASSUME Base, Order, NEW t \in Tx, pc[t] \in OpPc, NEW n \in Node,
         NEW r \in Records(n), \A q \in Records(n) : q.seq <= r.seq,
         (rec[r.tx] = "committed" /\ at[r.tx] <= start[t]) \/ r.tx = t
  PROVE  \A q \in Records(n) : q.tx = t \/ Precedes(q.tx, t)
  <1> SUFFICES ASSUME NEW q \in Records(n)
               PROVE  q.tx = t \/ Precedes(q.tx, t)
    OBVIOUS
  <1>1. r.tx \in Tx /\ q.tx \in Tx /\ r.seq \in Nat /\ q.seq \in Nat /\ q.seq <= r.seq
    BY LifeType
  <1>2. q.tx = r.tx \/ Precedes(q.tx, r.tx)
    BY <1>1 DEF Order, LifeOK
  <1>3. CASE r.tx = t
    BY <1>2, <1>3
  <1>4. CASE rec[r.tx] = "committed" /\ at[r.tx] <= start[t]
    BY <1>1, <1>2, <1>4, SeenPrecedes, SeenBelow
  <1> QED
    BY <1>3, <1>4

LEMMA AdmitLife ==
  ASSUME Base, Order, NEW t \in Tx, pc[t] \in OpPc, NEW n \in Node,
         ~Conflicts(t, LifeHead(n)) \/ LifeHead(n) = NoTx
  PROVE  SeesLife(t, n)
  <1> DEFINE h == LifeHead(n)
             c == claim[n]
  <1>0. h = NoTx \/ (rec[h] = "committed" /\ at[h] <= start[t]) \/ (rec[h] = "open" /\ h = t)
    BY DEF Conflicts, Visible
  <1>c. c # NoTx => c \in Tx
    BY LifeType
  <1>n. NoTx \notin Tx
    BY NamesAssumption
  <1>s. start[t] \in Nat /\ \A u \in Tx : at[u] \in Nat
    BY Numbers
  <1>o. \A r \in Records(n) : c # NoTx => r.tx = c \/ Precedes(r.tx, c) \/ Precedes(c, r.tx)
    BY DEF Order, ClaimOK, Ordered
  <1>1. CASE Records(n) = {} /\ h = c
    <2>1. c # NoTx => c = t \/ Precedes(c, t)
      BY <1>0, <1>1, <1>c, SeenPrecedes
    <2> QED
      BY <1>1, <2>1 DEF SeesLife
  <1>2. CASE \E r \in Records(n) :
               /\ \A q \in Records(n) : q.seq <= r.seq
               /\ h = IF Stamp(c) > Stamp(r.tx) THEN c ELSE r.tx
    <2>1. PICK r \in Records(n) :
               /\ \A q \in Records(n) : q.seq <= r.seq
               /\ h = IF Stamp(c) > Stamp(r.tx) THEN c ELSE r.tx
      BY <1>2
    <2> HIDE DEF h, c
    <2>2. r.tx \in Tx
      BY LifeType
    <2>3. /\ Stamp(r.tx) \in Nat /\ Stamp(NoTx) = 0
          /\ rec[r.tx] = "committed" => Stamp(r.tx) = at[r.tx] /\ Stamp(r.tx) < implicitStartTS
          /\ rec[r.tx] # "committed" => Stamp(r.tx) > implicitStartTS
      <3>1. rec[r.tx] \in {"none", "open", "committed", "aborted"}
        BY <2>2 DEF Base, TypeOK
      <3> QED
        BY <2>2, <3>1, StampFacts, StartTS
    <2>4. c # NoTx => /\ Stamp(c) \in Nat
                      /\ rec[c] = "committed" => Stamp(c) = at[c] /\ Stamp(c) < implicitStartTS
                      /\ rec[c] # "committed" => Stamp(c) > implicitStartTS
      <3>1. c # NoTx => rec[c] \in {"none", "open", "committed", "aborted"}
        BY <1>c DEF Base, TypeOK
      <3> QED
        BY <1>c, <3>1, StampFacts, StartTS
    <2>5. CASE Stamp(c) > Stamp(r.tx)
      <3>1. h = c /\ c # NoTx /\ c \in Tx
        BY <1>c, <2>1, <2>3, <2>5
      <3>2. CASE rec[c] = "open" /\ c = t
        <4>1. \A q \in Records(n) : q.tx = t \/ Precedes(q.tx, t)
          BY <1>o, <3>1, <3>2 DEF Precedes
        <4> QED
          BY <3>2, <4>1 DEF SeesLife, c
      <3>3. CASE rec[c] = "committed" /\ at[c] <= start[t]
        <4>1. rec[r.tx] = "committed" /\ at[r.tx] <= start[t]
          <5>1. Stamp(c) = at[c] /\ Stamp(c) < implicitStartTS
            BY <2>4, <3>1, <3>3
          <5>2. rec[r.tx] = "committed" /\ Stamp(r.tx) = at[r.tx]
            BY <2>3, <2>5, <3>1, <5>1, <2>4, StartTS
          <5> QED
            BY <1>s, <2>2, <2>5, <3>1, <3>3, <5>1, <5>2
        <4>2. \A q \in Records(n) : q.tx = t \/ Precedes(q.tx, t)
          BY <2>1, <4>1, NewestSeen
        <4>3. Precedes(c, t)
          BY <3>1, <3>3, SeenPrecedes
        <4> QED
          BY <4>2, <4>3 DEF SeesLife, c
      <3> QED
        BY <1>0, <3>1, <3>2, <3>3
    <2>6. CASE ~(Stamp(c) > Stamp(r.tx))
      <3>1. h = r.tx /\ h # NoTx
        BY <1>n, <2>1, <2>2, <2>6
      <3>2. CASE rec[h] = "open" /\ h = t
        <4>1. \A q \in Records(n) : q.tx = t \/ Precedes(q.tx, t)
          BY <2>1, <3>1, <3>2, NewestSeen
        <4>2. c # NoTx => c = t \/ Precedes(c, t)
          BY <1>o, <3>1, <3>2 DEF Precedes
        <4> QED
          BY <4>1, <4>2 DEF SeesLife, c
      <3>3. CASE rec[h] = "committed" /\ at[h] <= start[t]
        <4>1. \A q \in Records(n) : q.tx = t \/ Precedes(q.tx, t)
          BY <2>1, <3>1, <3>3, NewestSeen
        <4>2. ASSUME c # NoTx PROVE Precedes(c, t)
          <5>1. Stamp(c) \in Nat /\ Stamp(c) <= Stamp(r.tx)
                /\ Stamp(r.tx) = at[r.tx] /\ Stamp(r.tx) < implicitStartTS
            BY <2>3, <2>4, <2>6, <3>1, <3>3, <4>2
          <5>2. rec[c] = "committed" /\ Stamp(c) = at[c]
            BY <2>3, <2>4, <4>2, <5>1, StartTS
          <5>3. at[c] <= start[t]
            BY <1>s, <2>2, <3>1, <3>3, <5>1, <5>2
          <5> QED
            BY <1>c, <4>2, <5>2, <5>3, SeenPrecedes
        <4> QED
          BY <4>1, <4>2 DEF SeesLife, c
      <3> QED
        BY <1>0, <3>1, <3>2, <3>3
    <2> QED
      BY <2>5, <2>6
  <1> QED
    BY <1>1, <1>2, LifeHeadFacts

----------------------------------------------------------------------------
(* What no step undoes.                                                    *)

\* Outcomes are final, timestamps grow and stay, and so does the instant a
\* transaction reads at.
SteadyTx(u) ==
  /\ rec[u] = "committed" => rec'[u] = "committed"
  /\ rec[u] = "aborted" => rec'[u] = "aborted"
  /\ rec[u] # "none" => rec'[u] # "none"
  /\ at'[u] = at[u] \/ (at[u] = 0 /\ at'[u] \in Nat /\ allocated < at'[u])
  /\ pc[u] # "idle" => start'[u] = start[u]

Steady == water <= water' /\ \A u \in Tx : SteadyTx(u)

LEMMA SteadyPrecedes ==
  ASSUME Base, Steady, NEW u \in Tx, NEW v \in Tx, pc[v] # "idle", Precedes(u, v)
  PROVE  Precedes(u, v)'
  <1>1. /\ at[u] \in Nat /\ at[v] \in Nat /\ at[u] # 0 /\ at[u] <= allocated
        /\ allocated \in Nat /\ start[v] \in Nat
    BY Numbers DEF Precedes
  <1>2. rec'[u] = "committed" /\ at'[u] = at[u] /\ start'[v] = start[v]
    BY <1>1 DEF Steady, SteadyTx, Precedes
  <1>3. at'[v] = at[v] \/ (at[v] = 0 /\ at'[v] \in Nat /\ allocated < at'[v])
    BY DEF Steady, SteadyTx
  <1>4. at[u] < at'[v] \/ at'[v] = 0
    BY <1>1, <1>3 DEF Precedes
  <1> QED
    BY <1>2, <1>4 DEF Precedes

LEMMA SteadyOrdered ==
  ASSUME Base, Steady, NEW u \in Tx, NEW v \in Tx, pc[u] # "idle", pc[v] # "idle", Ordered(u, v)
  PROVE  Ordered(u, v)'
  BY SteadyPrecedes DEF Ordered

LEMMA SteadySettled ==
  ASSUME Base, Steady, water' \in Nat, NEW u \in Tx, Settled(u)
  PROVE  Settled(u)'
  <1>1. at[u] \in Nat /\ at[u] # 0 /\ water \in Nat /\ at[u] <= water
    BY Numbers DEF Settled
  <1>2. rec'[u] = "committed" /\ at'[u] = at[u] /\ water <= water'
    BY <1>1 DEF Steady, SteadyTx, Settled
  <1> QED
    BY <1>1, <1>2 DEF Settled

\* Who has a record has begun.
LEMMA RecordBegun ==
  ASSUME Base, NEW u \in Tx, rec[u] # "none" \/ log[u] # <<>>
  PROVE  pc[u] # "idle"
  BY DEF Base, PlaceOK

----------------------------------------------------------------------------
(* The base: types, places and instants.                                   *)

\* A transaction that a step leaves alone.
Unmoved(x) ==
  /\ pc'[x] = pc[x] /\ arg'[x] = arg[x] /\ rec'[x] = rec[x] /\ log'[x] = log[x]
  /\ at'[x] = at[x] /\ start'[x] = start[x] /\ pin'[x] = pin[x] /\ undoing'[x] = undoing[x]

LEMMA UnmovedOK ==
  ASSUME Base, NEW x \in Tx, Unmoved(x), frontier' \in Nat, frontier <= frontier'
  PROVE  ArgOK(x)' /\ PlaceOK(x)' /\ TimeOK(x)'
  <1>1. ArgOK(x) /\ PlaceOK(x) /\ TimeOK(x)
    BY DEF Base
  <1>2. ArgOK(x)'
    BY <1>1 DEF Unmoved, ArgOK
  <1>3. PlaceOK(x)'
    BY <1>1 DEF Unmoved, PlaceOK
  <1>4. start[x] \in Nat /\ frontier \in Nat
    BY Numbers
  <1>5. TimeOK(x)'
    BY <1>1, <1>4 DEF Unmoved, TimeOK
  <1> QED
    BY <1>2, <1>3, <1>5

LEMMA UnmovedSteady ==
  ASSUME NEW x, Unmoved(x)
  PROVE  SteadyTx(x)
  BY DEF Unmoved, SteadyTx

LEMMA ClockSame ==
  ASSUME Base, UNCHANGED clock
  PROVE  ClockOK'
  BY DEF Base, ClockOK, Stamped, clock

\* Where an operation goes next.
Target(t, p, e) ==
  \/ /\ e = Nothing
     /\ p = IF t \in Implicit THEN "written" ELSE IF undoing[t] THEN "undo" ELSE "ready"
  \/ /\ p \in LabelPc /\ e \in Effects /\ e.c # Life
     /\ p = "crossLife" => rec'[t] = "open"
  \/ /\ p \in DeathPc /\ e \in Effects /\ e.c = Life /\ e.v = FALSE
     /\ p \in {"crossDead", "crossDied", "flipDead"} => rec'[t] = "open"
  \/ /\ p \in BirthPc /\ e \in Effects /\ e.c = Life /\ e.v = TRUE
     /\ p = "flipBorn" => rec'[t] = "open"

\* A step of an operation of t, but for the store.
OpMove(t) ==
  /\ pc[t] \in OpPc
  /\ UNCHANGED <<clock, session, sweep>>
  /\ rec' = rec \/ rec' = [rec EXCEPT ![t] = "open"]
  /\ doomed' = doomed \/ doomed' = [doomed EXCEPT ![t] = TRUE]
  /\ \/ log' = log
     \/ /\ rec'[t] = "open" /\ arg[t] \in Effects
        /\ log' = [log EXCEPT ![t] = Append(@, arg[t])]
  /\ \E p, e : /\ pc' = [pc EXCEPT ![t] = p] /\ arg' = [arg EXCEPT ![t] = e]
               /\ Target(t, p, e)

\* The types of what is stored.
StoreType ==
  /\ chain \in [Node -> Seq([tx : Tx, l : Label, was : BOOLEAN])]
  /\ born \in [Node -> Seq([tx : Tx, seq : Nat, was : BOOLEAN])]
  /\ died \in [Node -> Seq([tx : Tx, seq : Nat, was : BOOLEAN])]
  /\ bag \in [Node -> SUBSET Label]
  /\ claim \in [Node -> Tx \union {NoTx}]
  /\ tomb \in [Node -> BOOLEAN]
  /\ torn \subseteq Node

LEMMA OpFrame ==
  ASSUME Base, NEW t \in Tx, OpMove(t)
  PROVE  /\ Steady
         /\ \A x \in Tx : x # t => Unmoved(x)
         /\ rec'[t] \in {"none", "open"} /\ rec[t] \in {"none", "open"}
         /\ pc'[t] # "idle"
  <1>1. PICK p, e : /\ pc' = [pc EXCEPT ![t] = p] /\ arg' = [arg EXCEPT ![t] = e]
                    /\ Target(t, p, e)
    BY DEF OpMove
  <1>2. /\ rec \in [Tx -> {"none", "open", "committed", "aborted"}]
        /\ pc \in [Tx -> Pcs] /\ arg \in [Tx -> Effects \union {Nothing}]
        /\ log \in [Tx -> Seq(Effects)]
    BY DEF Base, TypeOK
  <1>3. rec[t] \in {"none", "open"}
    BY DEF Base, PlaceOK, OpMove, ActivePc
  <1>4. /\ rec'[t] \in {"none", "open"} /\ (rec[t] # "none" => rec'[t] # "none")
        /\ \A x \in Tx : x # t => rec'[x] = rec[x]
    BY <1>2, <1>3 DEF OpMove
  <1>5. \A x \in Tx : x # t => pc'[x] = pc[x] /\ arg'[x] = arg[x]
    BY <1>1, <1>2
  <1>6. \A x \in Tx : x # t => log'[x] = log[x]
    BY <1>2 DEF OpMove
  <1>7. /\ at' = at /\ start' = start /\ pin' = pin /\ undoing' = undoing /\ water' = water
        /\ frontier' = frontier /\ outcome' = outcome /\ allocated' = allocated
        /\ owed' = owed /\ sweeper' = sweeper
    BY DEF OpMove, clock, session, sweep
  <1>8. \A x \in Tx : x # t => Unmoved(x)
    BY <1>4, <1>5, <1>6, <1>7 DEF Unmoved
  <1>9. SteadyTx(t)
    BY <1>3, <1>4, <1>7 DEF SteadyTx
  <1>10. water <= water'
    BY <1>7, Numbers
  <1>11. pc'[t] = p
    BY <1>1, <1>2
  <1>12. p # "idle"
    BY <1>1 DEF Target, LabelPc, DeathPc, BirthPc
  <1> QED
    BY <1>3, <1>4, <1>8, <1>9, <1>10, <1>11, <1>12, UnmovedSteady DEF Steady

LEMMA OpBase ==
  ASSUME Base, NEW t \in Tx, OpMove(t), StoreType'
  PROVE  Base'
  <1>1. PICK p, e : /\ pc' = [pc EXCEPT ![t] = p] /\ arg' = [arg EXCEPT ![t] = e]
                    /\ Target(t, p, e)
    BY DEF OpMove
  <1>2. /\ rec \in [Tx -> {"none", "open", "committed", "aborted"}]
        /\ pc \in [Tx -> Pcs] /\ arg \in [Tx -> Effects \union {Nothing}]
        /\ log \in [Tx -> Seq(Effects)] /\ doomed \in [Tx -> BOOLEAN]
    BY DEF Base, TypeOK
  <1>3. /\ at' = at /\ start' = start /\ pin' = pin /\ undoing' = undoing /\ water' = water
        /\ frontier' = frontier /\ outcome' = outcome /\ allocated' = allocated
        /\ owed' = owed /\ sweeper' = sweeper
    BY DEF OpMove, clock, session, sweep
  <1>4. /\ start' \in [Tx -> Stamps] /\ pin' \in [Tx -> Stamps \union {-1}]
        /\ undoing' \in [Tx -> BOOLEAN] /\ owed' \in [Node -> {"none", "live", "dead"}]
        /\ sweeper' \in Tx \union {NoTx} /\ water' \in Stamps
    BY <1>3 DEF Base, TypeOK
  <1>5. p \in ActivePc /\ p \in Pcs /\ e \in Effects \union {Nothing}
    BY <1>1 DEF Target, Pcs, ActivePc, OpPc, UndoPc
  <1>6. pc' \in [Tx -> Pcs] /\ arg' \in [Tx -> Effects \union {Nothing}]
    BY <1>1, <1>2, <1>5
  <1>7. doomed' \in [Tx -> BOOLEAN]
    BY <1>2 DEF OpMove
  <1>8. rec' \in [Tx -> {"none", "open", "committed", "aborted"}]
    BY <1>2 DEF OpMove
  <1>9. log' \in [Tx -> Seq(Effects)]
    <2>1. arg[t] \in Effects => Append(log[t], arg[t]) \in Seq(Effects)
      BY <1>2, AppendProperties
    <2> QED
      BY <1>2, <2>1 DEF OpMove
  <1>10. TypeOK'
    BY <1>4, <1>6, <1>7, <1>8, <1>9 DEF TypeOK, StoreType, Stamps
  <1>11. ClockOK'
    BY ClockSame DEF OpMove
  <1>12. WaterOK'
    BY <1>3 DEF Base, WaterOK
  <1>13. ArgOK(t) /\ PlaceOK(t) /\ TimeOK(t)
    BY DEF Base
  <1>14. pc[t] \in OpPc /\ pc[t] \in ActivePc /\ pc[t] # "idle"
    BY DEF OpMove, ActivePc, OpPc, LabelPc, DeathPc, BirthPc
  <1>15. pc'[t] = p /\ arg'[t] = e
    BY <1>1, <1>2
  <1>16. ArgOK(t)'
    BY <1>1, <1>15 DEF Target, ArgOK, LabelPc, DeathPc, BirthPc
  <1>17. PlaceOK(t)'
    <2>1. /\ rec[t] \in {"none", "open"} /\ rec'[t] \in {"none", "open"}
          /\ p # "idle"
      BY <1>15, OpFrame
    <2>2. p \in {"crossLife", "crossDead", "crossDied", "flipDead", "flipBorn"} => rec'[t] = "open"
      BY <1>1 DEF Target, LabelPc, DeathPc, BirthPc
    <2>3. log'[t] # <<>> => rec'[t] # "none"
      <3>1. log'[t] = log[t] \/ rec'[t] = "open"
        BY DEF OpMove
      <3>2. rec[t] # "none" => rec'[t] # "none"
        BY OpFrame DEF Steady, SteadyTx
      <3> QED
        BY <1>13, <3>1, <3>2 DEF PlaceOK
    <2>4. p \in UndoPc => undoing[t]
      BY <1>1 DEF Target, LabelPc, DeathPc, BirthPc, UndoPc
    <2>5. undoing[t] => t \in Bracket
      BY <1>13 DEF PlaceOK
    <2>6. p \notin {"aborted", "withdraw"}
      BY <1>5 DEF ActivePc, OpPc, UndoPc, LabelPc, DeathPc, BirthPc
    <2> QED
      BY <1>3, <1>5, <1>15, <2>1, <2>2, <2>3, <2>4, <2>5, <2>6 DEF PlaceOK
  <1>18. TimeOK(t)'
    <2>1. t \notin Bracket => at[t] = 0
      BY <1>13, <1>14 DEF TimeOK, OpPc, LabelPc, DeathPc, BirthPc
    <2> QED
      BY <1>3, <1>13, <1>14, <2>1 DEF TimeOK
  <1>19. ASSUME NEW x \in Tx, x # t PROVE ArgOK(x)' /\ PlaceOK(x)' /\ TimeOK(x)'
    <2>1. Unmoved(x)
      BY <1>19, OpFrame
    <2>2. frontier' \in Nat /\ frontier <= frontier'
      BY <1>3, Numbers
    <2> QED
      BY <2>1, <2>2, UnmovedOK
  <1> QED
    BY <1>6, <1>10, <1>11, <1>12, <1>16, <1>17, <1>18, <1>19 DEF Base

LEMMA MoveBase ==
  ASSUME Base, NEW t \in Tx, TypeOK', pc' \in [Tx -> Pcs], ClockOK', WaterOK',
         frontier <= frontier', water <= water', \A x \in Tx : x # t => Unmoved(x),
         SteadyTx(t), ArgOK(t)', PlaceOK(t)', TimeOK(t)'
  PROVE  Base' /\ Steady
  <1>1. frontier' \in Nat
    BY DEF ClockOK
  <1>2. \A x \in Tx : ArgOK(x)' /\ PlaceOK(x)' /\ TimeOK(x)'
    BY <1>1, UnmovedOK
  <1>3. Steady
    BY UnmovedSteady DEF Steady
  <1> QED
    BY <1>2, <1>3 DEF Base

LEMMA GotoFacts ==
  ASSUME Base, NEW t \in Tx, NEW p \in Pcs, NEW e \in Effects \union {Nothing}, Goto(t, p, e)
  PROVE  /\ pc' \in [Tx -> Pcs] /\ arg' \in [Tx -> Effects \union {Nothing}]
         /\ pc'[t] = p /\ arg'[t] = e
         /\ \A x \in Tx : x # t => pc'[x] = pc[x] /\ arg'[x] = arg[x]
  BY DEF Base, TypeOK, Goto

\* The parts of the base that a transaction's own steps start from.
LEMMA Places ==
  ASSUME Base, NEW t \in Tx
  PROVE  /\ ArgOK(t) /\ PlaceOK(t) /\ TimeOK(t)
         /\ arg[t] \in Effects \union {Nothing} /\ pc[t] \in Pcs
         /\ rec[t] \in {"none", "open", "committed", "aborted"}
         /\ pin[t] \in Stamps \union {-1} /\ start[t] \in Stamps
  BY DEF Base, TypeOK

\* The steps that read and write no version.
StoreSame == UNCHANGED <<chain, born, died, claim>>

LEMMA BeginBase ==
  ASSUME Base, NEW t \in Tx, Begin(t)
  PROVE  Base' /\ Steady /\ \A x \in Tx : x # t => Unmoved(x)
  <1>1. /\ pc[t] = "idle" /\ Goto(t, "ready", arg[t])
        /\ start' = [start EXCEPT ![t] = IF t \in Bracket THEN frontier ELSE implicitStartTS]
        /\ pin' = [pin EXCEPT ![t] = IF t \in Implicit THEN -1 ELSE frontier]
        /\ UNCHANGED <<clock, rec, undoing, doomed, log, labels, lives, tomb, torn, sweep>>
    BY DEF Begin, Step
  <1>2. "ready" \in Pcs
    BY DEF Pcs, ActivePc, OpPc
  <1>3. ArgOK(t) /\ PlaceOK(t) /\ TimeOK(t) /\ arg[t] \in Effects \union {Nothing}
    BY Places
  <1>4. /\ pc' \in [Tx -> Pcs] /\ arg' \in [Tx -> Effects \union {Nothing}]
        /\ pc'[t] = "ready"
        /\ \A x \in Tx : x # t => pc'[x] = pc[x] /\ arg'[x] = arg[x]
    BY <1>1, <1>2, <1>3, GotoFacts
  <1>5. frontier \in Stamps /\ implicitStartTS \in Stamps /\ frontier \in Nat /\ frontier <= frontier
    BY Numbers, StartTS DEF Stamps, implicitStartTS
  <1>6. start \in [Tx -> Stamps] /\ pin \in [Tx -> Stamps \union {-1}]
    BY DEF Base, TypeOK
  <1>7. /\ start' \in [Tx -> Stamps] /\ pin' \in [Tx -> Stamps \union {-1}]
        /\ start'[t] = IF t \in Bracket THEN frontier ELSE implicitStartTS
        /\ pin'[t] = IF t \in Implicit THEN -1 ELSE frontier
        /\ \A x \in Tx : x # t => start'[x] = start[x] /\ pin'[x] = pin[x]
    BY <1>1, <1>5, <1>6
  <1>8. /\ at' = at /\ frontier' = frontier /\ rec' = rec /\ log' = log /\ undoing' = undoing
        /\ water' = water
    BY <1>1 DEF clock, sweep
  <1>9. TypeOK'
    BY <1>1, <1>4, <1>7 DEF Base, TypeOK, Stamps, labels, lives, sweep
  <1>10. ClockOK'
    BY <1>1, ClockSame
  <1>11. water \in Nat /\ water <= frontier /\ \A x \in Tx : pin[x] # -1 => water <= pin[x]
    BY Numbers DEF Base, WaterOK
  <1>12. WaterOK'
    BY <1>7, <1>8, <1>11 DEF WaterOK
  <1>13. \A x \in Tx : x # t => Unmoved(x)
    BY <1>4, <1>7, <1>8 DEF Unmoved
  <1>14. SteadyTx(t)
    BY <1>1, <1>8 DEF SteadyTx
  <1>15. ArgOK(t)'
    BY <1>4 DEF ArgOK, LabelPc, DeathPc, BirthPc
  <1>16. PlaceOK(t)'
    BY <1>1, <1>3, <1>4, <1>8 DEF PlaceOK, UndoPc, ActivePc, OpPc
  <1>17. TimeOK(t)'
    <2>1. at[t] = 0 /\ (t \in Bracket => t \notin Implicit)
      BY <1>1, <1>3, KindsDisjoint DEF PlaceOK
    <2> QED
      BY <1>4, <1>5, <1>7, <1>8, <2>1 DEF TimeOK
  <1> QED
    BY <1>4, <1>5, <1>8, <1>9, <1>10, <1>11, <1>12, <1>13, <1>14, <1>15, <1>16, <1>17, MoveBase

\* The two ends of a replay.
LEMMA ReplayBase ==
  ASSUME Base, NEW t \in Tx, EnterUndo(t) \/ ExitUndo(t)
  PROVE  Base' /\ Steady /\ \A x \in Tx : x # t => Unmoved(x)
  <1>1. PICK p \in {"undo", "unwound"}, b \in BOOLEAN :
          /\ pc[t] \in {"ready", "commit", "undo"} /\ Goto(t, p, arg[t])
          /\ undoing' = [undoing EXCEPT ![t] = b]
          /\ UNCHANGED <<clock, rec, start, pin, doomed, log, labels, lives, tomb, torn, sweep>>
    BY DEF EnterUndo, ExitUndo, Step
  <1>2. p \in Pcs /\ p \in ActivePc /\ pc[t] \in ActivePc
        /\ p \notin LabelPc \union DeathPc \union BirthPc \union {"inverse"}
    BY <1>1 DEF Pcs, ActivePc, OpPc, UndoPc, LabelPc, DeathPc, BirthPc
  <1>3. ArgOK(t) /\ PlaceOK(t) /\ TimeOK(t) /\ arg[t] \in Effects \union {Nothing}
    BY Places
  <1>4. t \in Bracket
    BY <1>3 DEF EnterUndo, ExitUndo, PlaceOK, UndoPc
  <1>5. /\ pc' \in [Tx -> Pcs] /\ arg' \in [Tx -> Effects \union {Nothing}]
        /\ pc'[t] = p
        /\ \A x \in Tx : x # t => pc'[x] = pc[x] /\ arg'[x] = arg[x]
    BY <1>1, <1>2, <1>3, GotoFacts
  <1>6. /\ undoing' \in [Tx -> BOOLEAN]
        /\ \A x \in Tx : x # t => undoing'[x] = undoing[x]
    <2>1. undoing \in [Tx -> BOOLEAN]
      BY DEF Base, TypeOK
    <2> QED
      BY <1>1, <2>1, Zenon
  <1>7. /\ at' = at /\ frontier' = frontier /\ rec' = rec /\ log' = log
        /\ start' = start /\ pin' = pin /\ water' = water
    BY <1>1 DEF clock, sweep
  <1>8. TypeOK'
    BY <1>1, <1>5, <1>6 DEF Base, TypeOK, Stamps, labels, lives, sweep
  <1>9. ClockOK'
    BY <1>1, ClockSame
  <1>10. WaterOK'
    BY <1>7 DEF Base, WaterOK
  <1>11. \A x \in Tx : x # t => Unmoved(x)
    BY <1>5, <1>6, <1>7 DEF Unmoved
  <1>12. SteadyTx(t)
    BY <1>7 DEF SteadyTx
  <1>13. ArgOK(t)'
    BY <1>2, <1>5 DEF ArgOK, LabelPc, DeathPc, BirthPc
  <1>14. PlaceOK(t)'
    <2>1. p \in {"undo", "unwound"}
      BY <1>1
    <2> QED
      BY <1>2, <1>3, <1>4, <1>5, <1>7, <2>1 DEF PlaceOK
  <1>15. TimeOK(t)'
    BY <1>1, <1>2, <1>3, <1>4, <1>5, <1>7 DEF TimeOK
  <1>16. frontier <= frontier' /\ water <= water'
    BY <1>7, Numbers
  <1> QED
    BY <1>5, <1>8, <1>9, <1>10, <1>11, <1>12, <1>13, <1>14, <1>15, <1>16, MoveBase

\* An inverse is the last effect turned round; the rest stays in the log.
LEMMA LogEnds ==
  ASSUME NEW s \in Seq(Effects), s # <<>>
  PROVE  /\ Front(s) \in Seq(Effects) /\ Last(s) \in Effects
         /\ ToSet(Front(s)) \subseteq ToSet(s)
         /\ [Last(s) EXCEPT !.v = ~@] \in Effects
  <1>1. Len(s) \in Nat /\ Len(s) # 0 /\ DOMAIN s = 1 .. Len(s)
    BY EmptySeq, LenProperties
  <1>2. \A i \in 1 .. Len(s) : s[i] \in Effects
    BY ElementOfSeq
  <1>3. Last(s) \in Effects
    BY <1>1, <1>2 DEF Last
  <1>4. Len(s) - 1 \in 0 .. Len(s) /\ 1 .. Len(s) - 1 \subseteq 1 .. Len(s)
    BY <1>1
  <1>5. /\ Front(s) \in Seq(Effects) /\ Len(Front(s)) = Len(s) - 1
        /\ \A i \in 1 .. Len(s) - 1 : Front(s)[i] = s[i]
    BY <1>4, PrefixWindow DEF Front
  <1>6. DOMAIN Front(s) = 1 .. Len(s) - 1
    BY <1>5, LenProperties
  <1>7. ToSet(Front(s)) \subseteq ToSet(s)
    BY <1>1, <1>4, <1>5, <1>6 DEF ToSet
  <1>8. \A e \in Effects : [e EXCEPT !.v = ~@] \in Effects
    BY DEF Effects
  <1> QED
    BY <1>3, <1>5, <1>7, <1>8

LEMMA NextInverseBase ==
  ASSUME Base, NEW t \in Tx, NextInverse(t)
  PROVE  Base' /\ Steady /\ \A x \in Tx : x # t => Unmoved(x)
  <1> DEFINE e == [Last(log[t]) EXCEPT !.v = ~@]
  <1>1. /\ pc[t] = "undo" /\ log[t] # <<>> /\ Goto(t, "inverse", e)
        /\ log' = [log EXCEPT ![t] = Front(@)]
        /\ UNCHANGED <<clock, rec, session, doomed, labels, lives, tomb, torn, sweep>>
    BY DEF NextInverse
  <1>2. log \in [Tx -> Seq(Effects)]
    BY DEF Base, TypeOK
  <1>3. Front(log[t]) \in Seq(Effects) /\ e \in Effects
    BY <1>1, <1>2, LogEnds
  <1> HIDE DEF e
  <1>4. ArgOK(t) /\ PlaceOK(t) /\ TimeOK(t)
    BY Places
  <1>5. "inverse" \in Pcs /\ "inverse" \in ActivePc /\ "undo" \in ActivePc /\ "undo" \in UndoPc
    BY DEF Pcs, ActivePc, OpPc, UndoPc
  <1>6. /\ pc' \in [Tx -> Pcs] /\ arg' \in [Tx -> Effects \union {Nothing}]
        /\ pc'[t] = "inverse" /\ arg'[t] = e
        /\ \A x \in Tx : x # t => pc'[x] = pc[x] /\ arg'[x] = arg[x]
    BY <1>1, <1>3, <1>5, GotoFacts
  <1>7. log' \in [Tx -> Seq(Effects)] /\ \A x \in Tx : x # t => log'[x] = log[x]
    BY <1>1, <1>2, <1>3
  <1>8. /\ at' = at /\ frontier' = frontier /\ rec' = rec /\ undoing' = undoing
        /\ start' = start /\ pin' = pin /\ water' = water
    BY <1>1 DEF clock, session, sweep
  <1>9. TypeOK'
    BY <1>1, <1>6, <1>7, <1>8 DEF Base, TypeOK, Stamps, labels, lives, sweep
  <1>10. ClockOK'
    BY <1>1, ClockSame
  <1>11. WaterOK'
    BY <1>8 DEF Base, WaterOK
  <1>12. \A x \in Tx : x # t => Unmoved(x)
    BY <1>6, <1>7, <1>8 DEF Unmoved
  <1>13. SteadyTx(t)
    BY <1>8 DEF SteadyTx
  <1>14. ArgOK(t)'
    BY <1>3, <1>6 DEF ArgOK, LabelPc, DeathPc, BirthPc
  <1>15. PlaceOK(t)'
    BY <1>1, <1>4, <1>5, <1>6, <1>8 DEF PlaceOK
  <1>16. TimeOK(t)'
    BY <1>1, <1>4, <1>5, <1>6, <1>8 DEF TimeOK
  <1>17. frontier <= frontier' /\ water <= water'
    BY <1>8, Numbers
  <1> QED
    BY <1>6, <1>9, <1>10, <1>11, <1>12, <1>13, <1>14, <1>15, <1>16, <1>17, MoveBase

LEMMA AcquireBase ==
  ASSUME Base, NEW t \in Tx, AcquireSweeper(t)
  PROVE  Base' /\ Steady /\ \A x \in Tx : x # t => Unmoved(x)
  <1>1. /\ pc[t] = "aborted" /\ Goto(t, "withdraw", arg[t]) /\ sweeper' = t
        /\ UNCHANGED <<clock, rec, session, doomed, log, labels, lives, tomb, torn, owed, water>>
    BY DEF AcquireSweeper, Step
  <1>2. ArgOK(t) /\ PlaceOK(t) /\ TimeOK(t) /\ arg[t] \in Effects \union {Nothing}
    BY Places
  <1>3. "withdraw" \in Pcs /\ "withdraw" \notin ActivePc /\ "withdraw" \notin UndoPc
    BY DEF Pcs, ActivePc, OpPc, UndoPc, LabelPc, DeathPc, BirthPc
  <1>4. /\ pc' \in [Tx -> Pcs] /\ arg' \in [Tx -> Effects \union {Nothing}]
        /\ pc'[t] = "withdraw"
        /\ \A x \in Tx : x # t => pc'[x] = pc[x] /\ arg'[x] = arg[x]
    BY <1>1, <1>2, <1>3, GotoFacts
  <1>5. /\ at' = at /\ frontier' = frontier /\ rec' = rec /\ undoing' = undoing /\ log' = log
        /\ start' = start /\ pin' = pin /\ water' = water
    BY <1>1 DEF clock, session
  <1>6. TypeOK'
    BY <1>1, <1>4, <1>5 DEF Base, TypeOK, Stamps, labels, lives
  <1>7. ClockOK'
    BY <1>1, ClockSame
  <1>8. WaterOK'
    BY <1>5 DEF Base, WaterOK
  <1>9. \A x \in Tx : x # t => Unmoved(x)
    BY <1>4, <1>5 DEF Unmoved
  <1>10. SteadyTx(t)
    BY <1>5 DEF SteadyTx
  <1>11. ArgOK(t)'
    BY <1>4 DEF ArgOK, LabelPc, DeathPc, BirthPc
  <1>12. PlaceOK(t)'
    BY <1>1, <1>2, <1>3, <1>4, <1>5 DEF PlaceOK
  <1>13. TimeOK(t)'
    BY <1>1, <1>2, <1>3, <1>4, <1>5 DEF TimeOK
  <1>14. frontier <= frontier' /\ water <= water'
    BY <1>5, Numbers
  <1> QED
    BY <1>4, <1>6, <1>7, <1>8, <1>9, <1>10, <1>11, <1>12, <1>13, <1>14, MoveBase

LEMMA AllocateBase ==
  ASSUME Base, NEW t \in Tx, Allocate(t)
  PROVE  Base' /\ Steady /\ \A x \in Tx : x # t => Unmoved(x)
  <1>1. /\ pc[t] \in {"ready", "written"} /\ Goto(t, "commit", arg[t])
        /\ at[t] = 0 /\ allocated' = allocated + 1
        /\ at' = [at EXCEPT ![t] = allocated + 1]
        /\ UNCHANGED <<outcome, frontier>>
        /\ UNCHANGED <<rec, session, doomed, log, labels, lives, tomb, torn, sweep>>
    BY DEF Allocate, Step, F!Allocate
  <1>2. ArgOK(t) /\ PlaceOK(t) /\ TimeOK(t) /\ arg[t] \in Effects \union {Nothing}
    BY Places
  <1>3. "commit" \in Pcs /\ "commit" \in ActivePc /\ "commit" \notin UndoPc
        /\ pc[t] \in ActivePc /\ pc[t] # "idle"
    BY <1>1 DEF Pcs, ActivePc, OpPc, UndoPc
  <1>4. /\ pc' \in [Tx -> Pcs] /\ arg' \in [Tx -> Effects \union {Nothing}]
        /\ pc'[t] = "commit"
        /\ \A x \in Tx : x # t => pc'[x] = pc[x] /\ arg'[x] = arg[x]
    BY <1>1, <1>2, <1>3, GotoFacts
  <1>5. /\ frontier' = frontier /\ rec' = rec /\ undoing' = undoing /\ log' = log
        /\ start' = start /\ pin' = pin /\ water' = water
    BY <1>1 DEF session, sweep
  <1>6. /\ at \in [Tx -> Nat] /\ outcome \in [Tx -> {"none", "committed", "aborted"}]
        /\ allocated \in Nat /\ frontier \in Nat /\ frontier <= allocated
        /\ \A x \in Tx : at[x] <= allocated
        /\ allocated = Cardinality(Stamped)
    BY DEF Base, ClockOK
  <1>7. /\ at' \in [Tx -> Nat] /\ at'[t] = allocated + 1
        /\ \A x \in Tx : x # t => at'[x] = at[x]
    BY <1>1, <1>6
  <1>8. TypeOK'
    BY <1>1, <1>4, <1>5 DEF Base, TypeOK, Stamps, labels, lives, sweep
  <1>9. ClockOK'
    <2>1. Stamped' = Stamped \union {t}
      BY <1>6, <1>7 DEF Stamped
    <2>2. IsFiniteSet(Stamped) /\ t \notin Stamped
      <3>1. Stamped \subseteq Tx
        BY DEF Stamped
      <3> QED
        BY <1>1, <3>1, SizesAssumption, FS_Subset DEF Stamped
    <2>3. Cardinality(Stamped') = Cardinality(Stamped) + 1
      BY <2>1, <2>2, FS_AddElement
    <2>4. allocated' = Cardinality(Stamped')
      BY <1>1, <1>6, <2>3
    <2>5. \A x \in Tx : at'[x] <= allocated'
      BY <1>1, <1>6, <1>7
    <2>6. allocated' \in Nat /\ frontier' \in Nat /\ frontier' <= allocated'
      BY <1>1, <1>6
    <2> QED
      BY <1>1, <1>6, <1>7, <2>4, <2>5, <2>6 DEF ClockOK, Stamped
  <1>10. WaterOK'
    BY <1>5 DEF Base, WaterOK
  <1>11. \A x \in Tx : x # t => Unmoved(x)
    BY <1>4, <1>5, <1>7 DEF Unmoved
  <1>12. SteadyTx(t)
    BY <1>1, <1>5, <1>6, <1>7 DEF SteadyTx
  <1>13. ArgOK(t)'
    BY <1>4 DEF ArgOK, LabelPc, DeathPc, BirthPc
  <1>14. PlaceOK(t)'
    <2>1. rec[t] \in {"none", "open"}
      BY <1>2, <1>3 DEF PlaceOK
    <2> QED
      BY <1>2, <1>3, <1>4, <1>5, <2>1 DEF PlaceOK
  <1>15. TimeOK(t)'
    <2>1. start[t] \in Nat
      BY Numbers
    <2>2. t \in Bracket => start[t] <= frontier /\ start[t] < allocated + 1
      BY <1>2, <1>3, <1>6, <2>1 DEF TimeOK
    <2> QED
      BY <1>2, <1>3, <1>4, <1>5, <1>7, <2>2 DEF TimeOK
  <1>16. frontier <= frontier' /\ water <= water'
    BY <1>5, Numbers
  <1> QED
    BY <1>4, <1>8, <1>9, <1>10, <1>11, <1>12, <1>13, <1>14, <1>15, <1>16, MoveBase

\* An outcome leaves the rest of the clock alone.
LEMMA DecideClock ==
  ASSUME Base, NEW t \in Tx, NEW o \in {"committed", "aborted"},
         F!Decide(t, o) \/ UNCHANGED clock
  PROVE  /\ ClockOK' /\ at' = at /\ frontier' = frontier /\ allocated' = allocated
         /\ F!Decide(t, o) => at[t] # 0
  <1>1. CASE UNCHANGED clock
    BY <1>1, ClockSame DEF clock, F!Decide
  <1>2. CASE F!Decide(t, o)
    <2>1. /\ at[t] # 0 /\ outcome' = [outcome EXCEPT ![t] = o]
          /\ at' = at /\ frontier' = frontier /\ allocated' = allocated
      BY <1>2 DEF F!Decide
    <2>2. Stamped' = Stamped
      BY <2>1 DEF Stamped
    <2>3. outcome' \in [Tx -> {"none", "committed", "aborted"}]
      BY <2>1 DEF Base, ClockOK
    <2>4. ClockOK'
      BY <2>1, <2>2, <2>3 DEF Base, ClockOK
    <2> QED
      BY <2>1, <2>4
  <1> QED
    BY <1>1, <1>2

\* t reaches its outcome r, or goes on with it, at p.
LEMMA OutcomeBase ==
  ASSUME Base, NEW t \in Tx, pc[t] # "idle",
         NEW p \in {"aborted", "ended"}, NEW e \in Effects \union {Nothing}, Goto(t, p, e),
         NEW r \in {"none", "committed", "aborted"}, rec' = [rec EXCEPT ![t] = r],
         rec[t] = r \/ (rec[t] = "open" /\ r # "none"),
         p = "aborted" => r = "aborted",
         log[t] # <<>> => r # "none",
         r = "committed" => at[t] # 0,
         pin' = pin \/ pin' = [pin EXCEPT ![t] = -1],
         UNCHANGED <<start, undoing, log, doomed, labels, lives, tomb, torn, owed, water>>,
         at' = at, frontier' = frontier, ClockOK', sweeper' \in Tx \union {NoTx}
  PROVE  Base' /\ Steady /\ \A x \in Tx : x # t => Unmoved(x)
  <1>1. ArgOK(t) /\ PlaceOK(t) /\ TimeOK(t)
    BY Places
  <1>2. p \in Pcs /\ p \notin ActivePc /\ p \notin UndoPc /\ p # "idle" /\ p # "withdraw"
    BY DEF Pcs, ActivePc, OpPc, UndoPc, LabelPc, DeathPc, BirthPc
  <1>3. /\ pc' \in [Tx -> Pcs] /\ arg' \in [Tx -> Effects \union {Nothing}]
        /\ pc'[t] = p
        /\ \A x \in Tx : x # t => pc'[x] = pc[x] /\ arg'[x] = arg[x]
    BY <1>2, GotoFacts
  <1>4. /\ pin \in [Tx -> Stamps \union {-1}]
        /\ rec \in [Tx -> {"none", "open", "committed", "aborted"}]
    BY DEF Base, TypeOK
  <1>5. /\ pin' \in [Tx -> Stamps \union {-1}]
        /\ \A x \in Tx : x # t => pin'[x] = pin[x]
        /\ \A x \in Tx : pin'[x] = pin[x] \/ pin'[x] = -1
    BY <1>4
  <1>6. /\ rec' \in [Tx -> {"none", "open", "committed", "aborted"}] /\ rec'[t] = r
        /\ \A x \in Tx : x # t => rec'[x] = rec[x]
    BY <1>4
  <1>7. TypeOK'
    BY <1>3, <1>5, <1>6 DEF Base, TypeOK, Stamps, labels, lives
  <1>8. WaterOK'
    BY <1>5 DEF Base, WaterOK
  <1>9. \A x \in Tx : x # t => Unmoved(x)
    BY <1>3, <1>5, <1>6 DEF Unmoved
  <1>10. SteadyTx(t)
    <2>1. /\ rec[t] = "committed" => rec'[t] = "committed"
          /\ rec[t] = "aborted" => rec'[t] = "aborted"
          /\ rec[t] # "none" => rec'[t] # "none"
      <3>1. CASE rec[t] = r
        BY <1>6, <3>1
      <3>2. CASE rec[t] = "open"
        BY <1>6, <3>2
      <3> QED
        BY <3>1, <3>2
    <2>2. at'[t] = at[t] /\ start'[t] = start[t]
      OBVIOUS
    <2> QED
      BY <2>1, <2>2 DEF SteadyTx
  <1>11. ArgOK(t)'
    BY <1>2, <1>3 DEF ArgOK, LabelPc, DeathPc, BirthPc
  <1>12. PlaceOK(t)'
    BY <1>1, <1>2, <1>3, <1>6 DEF PlaceOK
  <1>13. TimeOK(t)'
    BY <1>1, <1>2, <1>3 DEF TimeOK
  <1>14. frontier <= frontier' /\ water <= water'
    BY Numbers
  <1> QED
    BY <1>3, <1>7, <1>8, <1>9, <1>10, <1>11, <1>12, <1>13, <1>14, MoveBase

LEMMA CommitBase ==
  ASSUME Base, NEW t \in Tx, Commit(t)
  PROVE  Base' /\ Steady /\ \A x \in Tx : x # t => Unmoved(x)
  <1>1. /\ pc[t] = "commit" /\ rec[t] = "open" /\ F!Decide(t, "committed")
        /\ rec' = [rec EXCEPT ![t] = "committed"]
        /\ Goto(t, "ended", Nothing) /\ pin' = [pin EXCEPT ![t] = -1]
        /\ UNCHANGED <<start, undoing, log, doomed, labels, lives, tomb, torn, owed, water>>
        /\ sweeper' = sweeper
    BY DEF Commit, Leave, sweep
  <1>2. ClockOK' /\ at' = at /\ frontier' = frontier /\ at[t] # 0
    BY <1>1, DecideClock
  <1>3. sweeper' \in Tx \union {NoTx} /\ pc[t] # "idle"
    BY <1>1 DEF Base, TypeOK
  <1> QED
    BY <1>1, <1>2, <1>3, OutcomeBase

\* What ends without a commit may have a timestamp to abandon.
LEMMA AbandonClock ==
  ASSUME Base, NEW t \in Tx, Abandon(t)
  PROVE  ClockOK' /\ at' = at /\ frontier' = frontier
  <1>1. F!Decide(t, "aborted") \/ UNCHANGED clock
    BY DEF Abandon
  <1> QED
    BY <1>1, DecideClock

LEMMA EndEmptyBase ==
  ASSUME Base, NEW t \in Tx, EndEmpty(t)
  PROVE  Base' /\ Steady /\ \A x \in Tx : x # t => Unmoved(x)
  <1>1. /\ pc[t] # "idle" /\ rec[t] = "none" /\ Abandon(t)
        /\ Goto(t, "ended", Nothing) /\ pin' = [pin EXCEPT ![t] = -1]
        /\ UNCHANGED <<start, undoing, log, doomed, labels, lives, tomb, torn, owed, water>>
        /\ rec' = rec /\ sweeper' = sweeper
    BY DEF EndEmpty, Finishing, Leave, sweep
  <1>2. ClockOK' /\ at' = at /\ frontier' = frontier
    BY <1>1, AbandonClock
  <1>3. sweeper' \in Tx \union {NoTx} /\ rec' = [rec EXCEPT ![t] = "none"]
    BY <1>1 DEF Base, TypeOK
  <1>4. log[t] = <<>>
    BY <1>1 DEF Base, PlaceOK
  <1> QED
    BY <1>1, <1>2, <1>3, <1>4, OutcomeBase

LEMMA AbortBase ==
  ASSUME Base, NEW t \in Tx, Abort(t)
  PROVE  Base' /\ Steady /\ \A x \in Tx : x # t => Unmoved(x)
  <1>1. /\ pc[t] # "idle" /\ rec[t] = "open" /\ Abandon(t)
        /\ Goto(t, "aborted", arg[t]) /\ pin' = pin
        /\ UNCHANGED <<start, undoing, log, doomed, labels, lives, tomb, torn, owed, water>>
        /\ rec' = [rec EXCEPT ![t] = "aborted"] /\ sweeper' = sweeper
    BY DEF Abort, Finishing, Step, sweep, session
  <1>2. ClockOK' /\ at' = at /\ frontier' = frontier
    BY <1>1, AbandonClock
  <1>3. sweeper' \in Tx \union {NoTx} /\ arg[t] \in Effects \union {Nothing}
    BY <1>1 DEF Base, TypeOK
  <1> QED
    BY <1>1, <1>2, <1>3, OutcomeBase

LEMMA ReleaseBase ==
  ASSUME Base, NEW t \in Tx, ReleaseSweeper(t)
  PROVE  Base' /\ Steady /\ \A x \in Tx : x # t => Unmoved(x)
  <1>1. /\ pc[t] = "withdraw" /\ sweeper' = NoTx
        /\ Goto(t, "ended", Nothing) /\ pin' = [pin EXCEPT ![t] = -1]
        /\ UNCHANGED <<start, undoing, log, doomed, labels, lives, tomb, torn, owed, water>>
        /\ rec' = rec /\ UNCHANGED clock
    BY DEF ReleaseSweeper, Leave
  <1>2. ClockOK' /\ at' = at /\ frontier' = frontier
    BY <1>1, ClockSame DEF clock
  <1>3. rec[t] = "aborted" /\ rec' = [rec EXCEPT ![t] = "aborted"]
    BY <1>1 DEF Base, PlaceOK, TypeOK
  <1> QED
    BY <1>1, <1>2, <1>3, OutcomeBase

\* A step that moves no transaction.
LEMMA StillBase ==
  ASSUME Base, UNCHANGED <<rec, session, doomed, pc, arg, log>>, at' = at,
         StoreType', owed' \in [Node -> {"none", "live", "dead"}],
         sweeper' \in Tx \union {NoTx}, water' \in Stamps, ClockOK', WaterOK',
         frontier <= frontier', water <= water'
  PROVE  Base' /\ Steady /\ \A x \in Tx : Unmoved(x)
  <1>1. start' = start /\ pin' = pin /\ undoing' = undoing
    BY DEF session
  <1>2. TypeOK'
    BY <1>1 DEF Base, TypeOK, StoreType, Stamps
  <1>3. \A x \in Tx : Unmoved(x)
    BY <1>1 DEF Unmoved
  <1>4. frontier' \in Nat
    BY DEF ClockOK
  <1>5. \A x \in Tx : ArgOK(x)' /\ PlaceOK(x)' /\ TimeOK(x)'
    BY <1>3, <1>4, UnmovedOK
  <1>6. Steady
    BY <1>3, UnmovedSteady DEF Steady
  <1>7. pc' \in [Tx -> Pcs]
    BY DEF Base
  <1> QED
    BY <1>2, <1>3, <1>5, <1>6, <1>7 DEF Base

LEMMA StoreTyped ==
  ASSUME Base, UNCHANGED <<chain, born, died, claim>>, bag' \in [Node -> SUBSET Label],
         tomb' \in [Node -> BOOLEAN], torn' \subseteq Node
  PROVE  StoreType'
  BY DEF Base, TypeOK, StoreType

LEMMA PassBase ==
  ASSUME Base, FrontierPasses
  PROVE  Base' /\ Steady /\ \A x \in Tx : Unmoved(x)
  <1>1. PICK t \in Tx :
          /\ at[t] = frontier + 1 /\ frontier' = frontier + 1
          /\ UNCHANGED <<at, outcome, allocated>>
          /\ UNCHANGED <<rec, session, doomed, pc, arg, log, labels, lives, tomb, torn, sweep>>
    BY DEF FrontierPasses, F!Pass
  <1>2. /\ at \in [Tx -> Nat] /\ outcome \in [Tx -> {"none", "committed", "aborted"}]
        /\ allocated \in Nat /\ frontier \in Nat /\ frontier <= allocated
        /\ \A x \in Tx : at[x] <= allocated
        /\ allocated = Cardinality(Stamped)
    BY DEF Base, ClockOK
  <1>3. frontier' \in Nat /\ frontier' <= allocated /\ frontier <= frontier'
    BY <1>1, <1>2
  <1>4. ClockOK'
    BY <1>1, <1>2, <1>3 DEF ClockOK, Stamped
  <1>5. water' = water /\ pin' = pin /\ water \in Nat /\ water <= frontier
        /\ \A x \in Tx : pin[x] # -1 => water <= pin[x]
    BY <1>1, Numbers DEF Base, WaterOK, sweep, session
  <1>6. water <= water' /\ water' <= frontier'
    BY <1>2, <1>3, <1>5
  <1>7. WaterOK'
    BY <1>5, <1>6 DEF WaterOK
  <1>8. /\ StoreType' /\ owed' \in [Node -> {"none", "live", "dead"}]
        /\ sweeper' \in Tx \union {NoTx} /\ water' \in Stamps
    BY <1>1 DEF Base, TypeOK, StoreType, labels, lives, sweep, Stamps
  <1> QED
    BY <1>1, <1>3, <1>4, <1>6, <1>7, <1>8, StillBase

\* A sweep stays below the frontier and below every pin.
LEMMA SweptFacts ==
  ASSUME Base, NEW w, Swept(w), UNCHANGED <<clock, pin>>
  PROVE  /\ w \in Nat /\ water' \in Stamps /\ WaterOK'
         /\ water <= water' /\ w <= water'
  <1> DEFINE T == {frontier} \union {pin[t] : t \in {u \in Tx : pin[u] # -1}}
  <1>0. /\ frontier \in Nat /\ water \in Nat /\ frontier <= allocated /\ allocated \in Nat
        /\ allocated <= Cardinality(Tx) /\ Cardinality(Tx) \in Nat
    BY Numbers, StartTS
  <1>1. \A u \in Tx : pin[u] \in Stamps \union {-1}
    BY DEF Base, TypeOK
  <1>2. Stamps \subseteq Nat
    BY StartTS DEF Stamps
  <1>3. T \subseteq Nat /\ T # {}
    BY <1>0, <1>1, <1>2
  <1>4. Watermark = Min(T)
    BY DEF Watermark
  <1>5. Watermark \in Nat /\ Watermark <= frontier /\ \A u \in Tx : pin[u] # -1 => Watermark <= pin[u]
    <2>1. \A y \in T : Min(T) <= y
      BY <1>3, NatMin
    <2>2. Min(T) \in Nat
      BY <1>3, NatMin
    <2> QED
      BY <1>4, <2>1, <2>2
  <1> HIDE DEF T
  <1>6. w \in Nat /\ w <= Watermark /\ water' = Max({water, w})
    BY <1>5 DEF Swept
  <1>7. Max({water, w}) = IF water >= w THEN water ELSE w
    BY <1>0, <1>6 DEF Max
  <1>8. water' \in Nat /\ water <= water' /\ w <= water' /\ (water' = water \/ water' = w)
    BY <1>0, <1>6, <1>7
  <1>9. /\ water <= frontier /\ \A u \in Tx : pin[u] # -1 => water <= pin[u]
    BY DEF Base, WaterOK
  <1>10. water' <= frontier
    BY <1>0, <1>5, <1>6, <1>8, <1>9
  <1>11. \A u \in Tx : pin[u] # -1 => water' <= pin[u]
    <2> SUFFICES ASSUME NEW u \in Tx, pin[u] # -1 PROVE water' <= pin[u]
      OBVIOUS
    <2>1. pin[u] \in Nat
      BY <1>1, <1>2
    <2> QED
      BY <1>0, <1>5, <1>6, <1>8, <1>9, <2>1
  <1>12. WaterOK'
    BY <1>10, <1>11 DEF WaterOK, clock
  <1>13. water' \in Stamps
    BY <1>0, <1>8, <1>10 DEF Stamps, implicitStartTS
  <1> QED
    BY <1>6, <1>8, <1>12, <1>13

----------------------------------------------------------------------------
(* What reclamation and withdrawal take from the store.                    *)

LabelDelta == [tx : Tx, l : Label, was : BOOLEAN]

\* The chains of node n lose what is aborted or what w is past.
Trims(n, w) ==
  /\ w \in Nat /\ w <= water'
  /\ \E c \in Seq(LabelDelta) : Window(chain[n], c, w) /\ chain' = [chain EXCEPT ![n] = c]
  /\ \E b \in Seq(LifeRecord) : Window(born[n], b, w) /\ born' = [born EXCEPT ![n] = b]
  /\ \E d \in Seq(LifeRecord) : Window(died[n], d, w) /\ died' = [died EXCEPT ![n] = d]
  /\ \E k \in {claim[n], NoTx} : claim' = [claim EXCEPT ![n] = k]

LEMMA WindowSame ==
  ASSUME NEW S, NEW s \in Seq(S), NEW w
  PROVE  Window(s, s, w)
  <1>1. Len(s) \in Nat
    BY LenProperties
  <1>2. 0 + Len(s) <= Len(s) /\ ~(0 + Len(s) < Len(s))
    BY <1>1
  <1>3. \A i \in 1 .. Len(s) : s[i] = s[0 + i]
    BY <1>1
  <1>4. \A i \in 1 .. 0 : rec[s[i].tx] = "aborted"
    OBVIOUS
  <1> QED
    BY <1>2, <1>3, <1>4 DEF Window

LEMMA StoreSeqs ==
  ASSUME Base
  PROVE  /\ chain \in [Node -> Seq(LabelDelta)] /\ bag \in [Node -> SUBSET Label]
         /\ born \in [Node -> Seq(LifeRecord)] /\ died \in [Node -> Seq(LifeRecord)]
         /\ claim \in [Node -> Tx \union {NoTx}]
         /\ tomb \in [Node -> BOOLEAN] /\ torn \subseteq Node
         /\ owed \in [Node -> {"none", "live", "dead"}]
         /\ sweeper \in Tx \union {NoTx} /\ water \in Stamps
  BY DEF Base, TypeOK, LabelDelta, LifeRecord

LEMMA StoreTypeIs ==
  ASSUME chain' \in [Node -> Seq(LabelDelta)], bag' \in [Node -> SUBSET Label],
         born' \in [Node -> Seq(LifeRecord)], died' \in [Node -> Seq(LifeRecord)],
         claim' \in [Node -> Tx \union {NoTx}],
         tomb' \in [Node -> BOOLEAN], torn' \subseteq Node
  PROVE  StoreType'
  BY DEF StoreType, LabelDelta, LifeRecord

\* A trim of the labels leaves the life records, and the other way round.
LEMMA TrimLabels ==
  ASSUME Base, NEW n \in Node, NEW w \in Nat, w <= water',
         NEW c \in Seq(LabelDelta), Window(chain[n], c, w), chain' = [chain EXCEPT ![n] = c],
         UNCHANGED lives
  PROVE  Trims(n, w)
  <1>1. /\ born[n] \in Seq(LifeRecord) /\ born' = [born EXCEPT ![n] = born[n]]
        /\ died[n] \in Seq(LifeRecord) /\ died' = [died EXCEPT ![n] = died[n]]
        /\ claim' = [claim EXCEPT ![n] = claim[n]]
    BY StoreSeqs DEF lives
  <1>2. Window(born[n], born[n], w) /\ Window(died[n], died[n], w)
    BY <1>1, WindowSame
  <1> QED
    BY <1>1, <1>2 DEF Trims

LEMMA TrimLife ==
  ASSUME Base, NEW n \in Node, NEW w \in Nat, w <= water',
         NEW b \in Seq(LifeRecord), Window(born[n], b, w), born' = [born EXCEPT ![n] = b],
         NEW d \in Seq(LifeRecord), Window(died[n], d, w), died' = [died EXCEPT ![n] = d],
         NEW k \in {claim[n], NoTx}, claim' = [claim EXCEPT ![n] = k],
         UNCHANGED labels
  PROVE  Trims(n, w)
  <1>1. chain[n] \in Seq(LabelDelta) /\ chain' = [chain EXCEPT ![n] = chain[n]]
    BY StoreSeqs DEF labels
  <1>2. Window(chain[n], chain[n], w)
    BY <1>1, WindowSame
  <1> QED
    BY <1>1, <1>2 DEF Trims

LEMMA TrimTypes ==
  ASSUME Base, NEW n \in Node, NEW w, Trims(n, w)
  PROVE  /\ chain' \in [Node -> Seq(LabelDelta)]
         /\ born' \in [Node -> Seq(LifeRecord)] /\ died' \in [Node -> Seq(LifeRecord)]
         /\ claim' \in [Node -> Tx \union {NoTx}]
  BY StoreSeqs DEF Trims

LEMMA UndoneType ==
  ASSUME NEW n, NEW k
  PROVE  Undone(n, k) \in SUBSET Label
  BY DEF Undone

LEMMA WithdrawLabelsBase ==
  ASSUME Base, NEW t \in Tx, NEW n \in Node, WithdrawLabels(t, n)
  PROVE  /\ Base' /\ Steady /\ \A x \in Tx : Unmoved(x)
         /\ Trims(n, 0)
  <1>1. /\ bag' = [bag EXCEPT ![n] = Undone(n, AbortedPrefix(chain[n]))]
        /\ chain' = [chain EXCEPT ![n] = WithoutAborted(chain[n])]
        /\ UNCHANGED <<clock, rec, session, doomed, pc, arg, log, lives, tomb, torn, sweep>>
    BY DEF WithdrawLabels
  <1>2. water' = water /\ water \in Nat /\ frontier' = frontier /\ frontier \in Nat /\ at' = at
    BY <1>1, Numbers DEF sweep, clock
  <1>3. chain[n] \in Seq(LabelDelta)
    BY StoreSeqs
  <1>4. WithoutAborted(chain[n]) \in Seq(LabelDelta) /\ Window(chain[n], WithoutAborted(chain[n]), 0)
    BY <1>3, WithoutWindow
  <1>5. 0 \in Nat /\ 0 <= water' /\ water <= water' /\ frontier <= frontier'
    BY <1>2
  <1>6. Trims(n, 0)
    BY <1>1, <1>4, <1>5, TrimLabels
  <1>7. bag' \in [Node -> SUBSET Label]
    BY <1>1, StoreSeqs, UndoneType
  <1>8. /\ owed' \in [Node -> {"none", "live", "dead"}] /\ sweeper' \in Tx \union {NoTx}
        /\ water' \in Stamps /\ tomb' \in [Node -> BOOLEAN] /\ torn' \subseteq Node
    BY <1>1, StoreSeqs DEF sweep
  <1>9. StoreType'
    BY <1>6, <1>7, <1>8, TrimTypes, StoreTypeIs
  <1>10. ClockOK' /\ WaterOK'
    BY <1>1, <1>2, ClockSame DEF Base, WaterOK, session
  <1>11. Base' /\ Steady /\ \A x \in Tx : Unmoved(x)
    BY <1>1, <1>2, <1>5, <1>8, <1>9, <1>10, StillBase
  <1> QED
    BY <1>6, <1>11

LEMMA WithdrawLifeBase ==
  ASSUME Base, NEW t \in Tx, NEW n \in Node, WithdrawLife(t, n)
  PROVE  /\ Base' /\ Steady /\ \A x \in Tx : Unmoved(x)
         /\ Trims(n, 0)
  <1>1. /\ claim' = [claim EXCEPT ![n] = IF Aborted(claim[n]) THEN NoTx ELSE claim[n]]
        /\ born' = [born EXCEPT ![n] = WithoutAborted(born[n])]
        /\ died' = [died EXCEPT ![n] = WithoutAborted(died[n])]
        /\ owed' = [owed EXCEPT ![n] = Restored(n)]
        /\ UNCHANGED <<clock, rec, session, doomed, pc, arg, log, labels, tomb, torn,
                       sweeper, water>>
    BY DEF WithdrawLife
  <1>2. water \in Nat /\ frontier' = frontier /\ frontier \in Nat /\ at' = at
    BY <1>1, Numbers DEF clock
  <1>3. born[n] \in Seq(LifeRecord) /\ died[n] \in Seq(LifeRecord)
    BY StoreSeqs
  <1>4. /\ WithoutAborted(born[n]) \in Seq(LifeRecord) /\ Window(born[n], WithoutAborted(born[n]), 0)
        /\ WithoutAborted(died[n]) \in Seq(LifeRecord) /\ Window(died[n], WithoutAborted(died[n]), 0)
    BY <1>3, WithoutWindow
  <1>5. 0 \in Nat /\ 0 <= water' /\ water <= water' /\ frontier <= frontier'
    BY <1>1, <1>2
  <1>6. (IF Aborted(claim[n]) THEN NoTx ELSE claim[n]) \in {claim[n], NoTx}
    OBVIOUS
  <1>7. Trims(n, 0)
    BY <1>1, <1>4, <1>5, <1>6, TrimLife
  <1>8. Restored(n) \in {"none", "live", "dead"}
    BY DEF Restored
  <1>9. /\ owed' \in [Node -> {"none", "live", "dead"}] /\ sweeper' \in Tx \union {NoTx}
        /\ water' \in Stamps /\ tomb' \in [Node -> BOOLEAN] /\ torn' \subseteq Node
        /\ bag' \in [Node -> SUBSET Label]
    BY <1>1, <1>8, StoreSeqs DEF labels
  <1>10. StoreType'
    BY <1>7, <1>9, TrimTypes, StoreTypeIs
  <1>11. ClockOK' /\ WaterOK'
    BY <1>1, <1>2, ClockSame DEF Base, WaterOK, session
  <1>12. Base' /\ Steady /\ \A x \in Tx : Unmoved(x)
    BY <1>1, <1>2, <1>5, <1>9, <1>10, <1>11, StillBase
  <1> QED
    BY <1>7, <1>12

LEMMA ReclaimLabelsBase ==
  ASSUME Base, NEW n \in Node, NEW w, ReclaimLabels(n, w)
  PROVE  /\ Base' /\ Steady /\ \A x \in Tx : Unmoved(x)
         /\ Trims(n, w)
  <1>1. /\ Swept(w)
        /\ chain' = [chain EXCEPT ![n] = Cut(WithoutAborted(chain[n]), w)]
        /\ bag' = [bag EXCEPT ![n] = Undone(n, AbortedPrefix(chain[n]))]
        /\ UNCHANGED <<clock, rec, session, doomed, pc, arg, log, lives, tomb, torn, owed, sweeper>>
    BY DEF ReclaimLabels
  <1>2. /\ w \in Nat /\ water' \in Stamps /\ WaterOK' /\ water <= water' /\ w <= water'
    BY <1>1, SweptFacts DEF session
  <1>3. at' = at /\ frontier' = frontier /\ frontier <= frontier' /\ ClockOK'
    BY <1>1, Numbers, ClockSame DEF clock
  <1>4. chain[n] \in Seq(LabelDelta)
    BY StoreSeqs
  <1>5. /\ Cut(WithoutAborted(chain[n]), w) \in Seq(LabelDelta)
        /\ Window(chain[n], Cut(WithoutAborted(chain[n]), w), w)
    BY <1>4, BothWindow
  <1>6. Trims(n, w)
    BY <1>1, <1>2, <1>5, TrimLabels
  <1>7. bag' \in [Node -> SUBSET Label]
    BY <1>1, StoreSeqs, UndoneType
  <1>8. /\ owed' \in [Node -> {"none", "live", "dead"}] /\ sweeper' \in Tx \union {NoTx}
        /\ tomb' \in [Node -> BOOLEAN] /\ torn' \subseteq Node
    BY <1>1, StoreSeqs
  <1>9. StoreType'
    BY <1>6, <1>7, <1>8, TrimTypes, StoreTypeIs
  <1>10. Base' /\ Steady /\ \A x \in Tx : Unmoved(x)
    BY <1>1, <1>2, <1>3, <1>8, <1>9, StillBase
  <1> QED
    BY <1>6, <1>10

LEMMA ReclaimLifeBase ==
  ASSUME Base, NEW n \in Node, NEW w, ReclaimNodeLife(n, w)
  PROVE  /\ Base' /\ Steady /\ \A x \in Tx : Unmoved(x)
         /\ Trims(n, w)
  <1>1. /\ Swept(w)
        /\ born' = [born EXCEPT ![n] = Cut(born[n], w)]
        /\ died' = [died EXCEPT ![n] = Cut(died[n], w)]
        /\ claim' = [claim EXCEPT ![n] = IF Stamp(claim[n]) <= w THEN NoTx ELSE claim[n]]
        /\ UNCHANGED <<clock, rec, session, doomed, pc, arg, log, labels, tomb, torn, owed, sweeper>>
    BY DEF ReclaimNodeLife
  <1>2. /\ w \in Nat /\ water' \in Stamps /\ WaterOK' /\ water <= water' /\ w <= water'
    BY <1>1, SweptFacts DEF session
  <1>3. at' = at /\ frontier' = frontier /\ frontier <= frontier' /\ ClockOK'
    BY <1>1, Numbers, ClockSame DEF clock
  <1>4. born[n] \in Seq(LifeRecord) /\ died[n] \in Seq(LifeRecord)
    BY StoreSeqs
  <1>5. /\ Cut(born[n], w) \in Seq(LifeRecord) /\ Window(born[n], Cut(born[n], w), w)
        /\ Cut(died[n], w) \in Seq(LifeRecord) /\ Window(died[n], Cut(died[n], w), w)
    BY <1>4, CutWindow
  <1>6. (IF Stamp(claim[n]) <= w THEN NoTx ELSE claim[n]) \in {claim[n], NoTx}
    OBVIOUS
  <1>7. Trims(n, w)
    BY <1>1, <1>2, <1>5, <1>6, TrimLife
  <1>8. /\ owed' \in [Node -> {"none", "live", "dead"}] /\ sweeper' \in Tx \union {NoTx}
        /\ tomb' \in [Node -> BOOLEAN] /\ torn' \subseteq Node
        /\ bag' \in [Node -> SUBSET Label]
    BY <1>1, StoreSeqs DEF labels
  <1>9. StoreType'
    BY <1>7, <1>8, TrimTypes, StoreTypeIs
  <1>10. Base' /\ Steady /\ \A x \in Tx : Unmoved(x)
    BY <1>1, <1>2, <1>3, <1>8, <1>9, StillBase
  <1> QED
    BY <1>7, <1>10

LEMMA SettleBase ==
  ASSUME Base, NEW t \in Tx, NEW n \in Node, SettleFlip(t, n)
  PROVE  /\ Base' /\ Steady /\ \A x \in Tx : Unmoved(x)
         /\ StoreSame
  <1>1. /\ tomb' = [tomb EXCEPT ![n] = owed[n] = "dead"]
        /\ owed' = [owed EXCEPT ![n] = "none"]
        /\ UNCHANGED <<clock, rec, session, doomed, pc, arg, log, labels, lives, torn,
                       sweeper, water>>
    BY DEF SettleFlip
  <1>2. water \in Nat /\ frontier' = frontier /\ frontier \in Nat /\ at' = at
    BY <1>1, Numbers DEF clock
  <1>3. water <= water' /\ frontier <= frontier'
    BY <1>1, <1>2
  <1>4. /\ owed' \in [Node -> {"none", "live", "dead"}] /\ sweeper' \in Tx \union {NoTx}
        /\ water' \in Stamps /\ torn' \subseteq Node
        /\ bag' \in [Node -> SUBSET Label]
    BY <1>1, StoreSeqs DEF labels
  <1>5. tomb' \in [Node -> BOOLEAN]
    <2>1. (owed[n] = "dead") \in BOOLEAN /\ tomb \in [Node -> BOOLEAN]
      BY StoreSeqs
    <2> QED
      BY <1>1, <2>1, Zenon
  <1>6. StoreSame
    BY <1>1 DEF StoreSame, labels, lives
  <1>7. StoreType'
    BY <1>4, <1>5, <1>6, StoreTyped DEF StoreSame
  <1>8. ClockOK' /\ WaterOK'
    BY <1>1, <1>2, ClockSame DEF Base, WaterOK, session
  <1>9. Base' /\ Steady /\ \A x \in Tx : Unmoved(x)
    BY <1>1, <1>2, <1>3, <1>4, <1>7, <1>8, StillBase
  <1> QED
    BY <1>6, <1>9

----------------------------------------------------------------------------
(* The chains stay in commit order.                                        *)

\* A writer that has begun, and has its record after the step.
Begun(u) == u \in Tx /\ pc[u] # "idle" /\ rec'[u] # "none"

\* What a step leaves in the store was in order when it was taken.
ChainHeld(n) ==
  /\ \A i \in DOMAIN chain'[n] : Begun(chain'[n][i].tx)
  /\ Sorted(chain'[n])

InOrder(r, q) ==
  \/ r.tx = q.tx
  \/ r.seq < q.seq /\ Precedes(r.tx, q.tx)
  \/ q.seq < r.seq /\ Precedes(q.tx, r.tx)

LifeHeld(n) ==
  /\ Descending(born'[n]) /\ Descending(died'[n])
  /\ \A r \in Records(n)' : Begun(r.tx)
  /\ \A r, q \in Records(n)' : InOrder(r, q)

ClaimHeld(n) ==
  claim'[n] # NoTx =>
    /\ Begun(claim'[n])
    /\ \A r \in Records(n)' : r.tx = claim'[n] \/ Ordered(r.tx, claim'[n])

\* Precedes and Ordered after the step.
PrecedesNext(u, v) ==
  /\ rec'[u] = "committed"
  /\ at'[u] <= start'[v]
  /\ at'[v] # 0 => at'[u] < at'[v]

OrderedNext(u, v) == PrecedesNext(u, v) \/ PrecedesNext(v, u)

LEMMA BegunPrecedes ==
  ASSUME Base, Steady
  PROVE  /\ \A u, v \in Tx : Begun(v) /\ Precedes(u, v) => PrecedesNext(u, v)
         /\ \A u, v \in Tx : Begun(u) /\ Begun(v) /\ Ordered(u, v) => OrderedNext(u, v)
         /\ \A u \in Tx : rec[u] # "none" => Begun(u)
         /\ \A u : Begun(u) => u \in Tx /\ rec'[u] # "none"
  <1>1. \A u, v \in Tx : Begun(v) /\ Precedes(u, v) => PrecedesNext(u, v)
    BY SteadyPrecedes DEF Begun, PrecedesNext, Precedes
  <1>2. \A u \in Tx : rec[u] # "none" => Begun(u)
    BY RecordBegun DEF Begun, Steady, SteadyTx
  <1>3. \A u : Begun(u) => u \in Tx /\ rec'[u] # "none"
    BY DEF Begun
  <1>4. \A u, v \in Tx : Begun(u) /\ Begun(v) /\ Ordered(u, v) => OrderedNext(u, v)
    BY <1>1 DEF Ordered, OrderedNext
  <1> QED
    BY <1>1, <1>2, <1>3, <1>4

LEMMA OrderSteady ==
  ASSUME Base, Steady, NEW n \in Node, ChainHeld(n), LifeHeld(n), ClaimHeld(n)
  PROVE  ChainOK(n)' /\ LifeOK(n)' /\ ClaimOK(n)'
  <1>1. ChainOK(n)'
    <2>1. \A i \in DOMAIN chain'[n] : rec'[chain'[n][i].tx] # "none"
      BY BegunPrecedes DEF ChainHeld
    <2>2. ASSUME NEW i \in DOMAIN chain'[n], NEW j \in DOMAIN chain'[n], i < j
          PROVE  \/ chain'[n][i].tx = chain'[n][j].tx
                 \/ PrecedesNext(chain'[n][j].tx, chain'[n][i].tx)
      <3>1. Begun(chain'[n][i].tx) /\ Begun(chain'[n][j].tx)
        BY DEF ChainHeld
      <3>2. \/ chain'[n][i].tx = chain'[n][j].tx
            \/ Precedes(chain'[n][j].tx, chain'[n][i].tx)
        BY <2>2 DEF ChainHeld, Sorted
      <3> QED
        BY <3>1, <3>2, BegunPrecedes
    <2> QED
      BY <2>1, <2>2 DEF ChainOK, Sorted, Precedes, PrecedesNext
  <1> DEFINE R == Records(n)'
  <1>2. LifeOK(n)'
    <2>1. \A r \in R : rec'[r.tx] # "none"
      BY BegunPrecedes DEF LifeHeld
    <2>2. ASSUME NEW r \in R, NEW q \in R
          PROVE  \/ r.tx = q.tx
                 \/ r.seq < q.seq /\ PrecedesNext(r.tx, q.tx)
                 \/ q.seq < r.seq /\ PrecedesNext(q.tx, r.tx)
      <3>1. Begun(r.tx) /\ Begun(q.tx)
        BY DEF LifeHeld
      <3>2. InOrder(r, q)
        BY DEF LifeHeld
      <3> QED
        BY <3>1, <3>2, BegunPrecedes DEF InOrder
    <2>3. Descending(born'[n]) /\ Descending(died'[n])
      BY DEF LifeHeld
    <2> QED
      BY <2>1, <2>2, <2>3 DEF LifeOK, Descending, Precedes, PrecedesNext
  <1>3. ClaimOK(n)'
    <2> SUFFICES ASSUME claim'[n] # NoTx
                 PROVE  /\ rec'[claim'[n]] # "none"
                        /\ \A r \in R : r.tx = claim'[n] \/ OrderedNext(r.tx, claim'[n])
      BY DEF ClaimOK, Ordered, OrderedNext, Precedes, PrecedesNext
    <2>1. Begun(claim'[n]) /\ \A r \in R : r.tx = claim'[n] \/ Ordered(r.tx, claim'[n])
      BY DEF ClaimHeld
    <2>2. \A r \in R : Begun(r.tx)
      BY DEF LifeHeld
    <2> QED
      BY <2>1, <2>2, BegunPrecedes
  <1> QED
    BY <1>1, <1>2, <1>3

LEMMA ChainSame ==
  ASSUME Base, Order, Steady, NEW n \in Node, chain'[n] = chain[n]
  PROVE  ChainHeld(n)
  <1>1. \A i \in DOMAIN chain[n] : chain[n][i].tx \in Tx
    BY ChainType DEF Listed
  <1>2. \A i \in DOMAIN chain[n] : Begun(chain[n][i].tx)
    BY <1>1, BegunPrecedes DEF Order, ChainOK
  <1> QED
    BY <1>2 DEF Order, ChainOK, ChainHeld

\* The life records that are left are old ones.
LEMMA LifeFewer ==
  ASSUME Base, Order, Steady, NEW n \in Node, Records(n)' \subseteq Records(n),
         Descending(born'[n]), Descending(died'[n])
  PROVE  LifeHeld(n)
  <1>1. \A r \in Records(n) : r.tx \in Tx
    BY LifeType
  <1>2. \A r \in Records(n) : rec[r.tx] # "none"
    BY DEF Order, LifeOK
  <1>3. \A r \in Records(n) : Begun(r.tx)
    BY <1>1, <1>2, BegunPrecedes
  <1>4. \A r, q \in Records(n) : InOrder(r, q)
    BY DEF Order, LifeOK, InOrder
  <1> QED
    BY <1>3, <1>4 DEF LifeHeld

LEMMA LifeSame ==
  ASSUME Base, Order, Steady, NEW n \in Node, born'[n] = born[n], died'[n] = died[n]
  PROVE  LifeHeld(n) /\ Records(n)' = Records(n)
  <1>1. Records(n)' = Records(n)
    BY DEF Records, ToSet
  <1>2. Descending(born'[n]) /\ Descending(died'[n])
    BY DEF Order, LifeOK
  <1> QED
    BY <1>1, <1>2, LifeFewer

LEMMA ClaimFewer ==
  ASSUME Base, Order, Steady, NEW n \in Node, Records(n)' \subseteq Records(n),
         claim'[n] \in {claim[n], NoTx}
  PROVE  ClaimHeld(n)
  <1> SUFFICES ASSUME claim'[n] # NoTx
               PROVE  /\ Begun(claim'[n])
                      /\ \A r \in Records(n)' : r.tx = claim'[n] \/ Ordered(r.tx, claim'[n])
    BY DEF ClaimHeld
  <1>1. claim'[n] = claim[n] /\ claim[n] # NoTx
    OBVIOUS
  <1>2. claim[n] \in Tx
    BY <1>1, LifeType
  <1>3. /\ rec[claim[n]] # "none"
        /\ \A r \in Records(n) : r.tx = claim[n] \/ Ordered(r.tx, claim[n])
    BY <1>1 DEF Order, ClaimOK
  <1>4. Begun(claim[n])
    BY <1>2, <1>3, BegunPrecedes
  <1> QED
    BY <1>1, <1>3, <1>4

LEMMA SameOrder ==
  ASSUME Base, Order, Steady, StoreSame
  PROVE  Order'
  <1> SUFFICES ASSUME NEW n \in Node PROVE ChainOK(n)' /\ LifeOK(n)' /\ ClaimOK(n)'
    BY DEF Order
  <1>1. chain'[n] = chain[n] /\ born'[n] = born[n] /\ died'[n] = died[n] /\ claim'[n] = claim[n]
    BY DEF StoreSame
  <1>2. ChainHeld(n)
    BY <1>1, ChainSame
  <1>3. LifeHeld(n) /\ Records(n)' \subseteq Records(n)
    BY <1>1, LifeSame
  <1>4. ClaimHeld(n)
    BY <1>1, <1>3, ClaimFewer
  <1> QED
    BY <1>2, <1>3, <1>4, OrderSteady

\* Life records sorted by their sequence numbers are in commit order.
LEMMA LifeSorted ==
  ASSUME Base, Order, NEW n \in Node
  PROVE  /\ Sorted(born[n]) /\ Listed(born[n]) /\ Descending(born[n])
         /\ Sorted(died[n]) /\ Listed(died[n]) /\ Descending(died[n])
  <1>1. Descending(born[n]) /\ Descending(died[n])
    BY DEF Order, LifeOK
  <1>2. \A r, q \in Records(n) : InOrder(r, q)
    BY DEF Order, LifeOK, InOrder
  <1>3. /\ \A i \in DOMAIN born[n] : born[n][i] \in Records(n)
        /\ \A i \in DOMAIN died[n] : died[n][i] \in Records(n)
    BY DEF Records, ToSet
  <1>4. \A r \in Records(n) : r.tx \in Tx /\ r.seq \in Nat
    BY LifeType
  <1>5. \A r, q \in Records(n) : r.seq < q.seq => q.tx = r.tx \/ Precedes(r.tx, q.tx)
    BY <1>2, <1>4 DEF InOrder
  <1>6. Sorted(born[n]) /\ Sorted(died[n])
    BY <1>1, <1>3, <1>5 DEF Sorted, Descending
  <1>7. Listed(born[n]) /\ Listed(died[n])
    BY <1>3, <1>4 DEF Listed
  <1> QED
    BY <1>1, <1>6, <1>7

\* What a trim leaves of a sequence of records, and what becomes of the rest.
Thinned(s, s2, w) ==
  /\ \A j \in DOMAIN s2 : \E i \in DOMAIN s : s2[j] = s[i]
  /\ Sorted(s2)
  /\ Descending(s) => Descending(s2)
  /\ \A i \in DOMAIN s :
       \/ Has(s2, s[i])
       \/ rec[s[i].tx] = "aborted"
       \/ rec[s[i].tx] = "committed" /\ at[s[i].tx] <= w

LEMMA WindowThins ==
  ASSUME Base, NEW S, NEW s \in Seq(S), NEW s2 \in Seq(S), NEW w \in Nat, Window(s, s2, w),
         Listed(s), Sorted(s)
  PROVE  Thinned(s, s2, w)
  <1>1. at \in [Tx -> Nat] /\ \A u \in Tx : rec[u] = "committed" => at[u] # 0
    BY Numbers DEF Base, ClockOK
  <1> QED
    BY <1>1, WindowKeeps DEF Thinned, Has

LEMMA TrimThins ==
  ASSUME Base, Order, NEW n \in Node, NEW w, Trims(n, w)
  PROVE  /\ Thinned(chain[n], chain'[n], w)
         /\ Thinned(born[n], born'[n], w) /\ Thinned(died[n], died'[n], w)
         /\ claim'[n] \in {claim[n], NoTx} /\ w \in Nat /\ w <= water'
         /\ \A m \in Node : m # n => /\ chain'[m] = chain[m] /\ claim'[m] = claim[m]
                                     /\ born'[m] = born[m] /\ died'[m] = died[m]
  <1>1. PICK c \in Seq(LabelDelta) : Window(chain[n], c, w) /\ chain' = [chain EXCEPT ![n] = c]
    BY DEF Trims
  <1>2. PICK b \in Seq(LifeRecord) : Window(born[n], b, w) /\ born' = [born EXCEPT ![n] = b]
    BY DEF Trims
  <1>3. PICK d \in Seq(LifeRecord) : Window(died[n], d, w) /\ died' = [died EXCEPT ![n] = d]
    BY DEF Trims
  <1>4. PICK k \in {claim[n], NoTx} : claim' = [claim EXCEPT ![n] = k]
    BY DEF Trims
  <1>5. /\ chain \in [Node -> Seq(LabelDelta)] /\ claim \in [Node -> Tx \union {NoTx}]
        /\ born \in [Node -> Seq(LifeRecord)] /\ died \in [Node -> Seq(LifeRecord)]
    BY StoreSeqs
  <1>6. chain'[n] = c /\ born'[n] = b /\ died'[n] = d /\ claim'[n] = k
    BY <1>1, <1>2, <1>3, <1>4, <1>5
  <1>7. w \in Nat /\ w <= water'
    BY DEF Trims
  <1>8. Thinned(chain[n], c, w)
    <2>1. Listed(chain[n]) /\ Sorted(chain[n]) /\ chain[n] \in Seq(LabelDelta)
      BY <1>5, ChainType DEF Order, ChainOK
    <2> QED
      BY <1>1, <1>7, <2>1, WindowThins
  <1>9. Thinned(born[n], b, w) /\ Thinned(died[n], d, w)
    BY <1>2, <1>3, <1>5, <1>7, LifeSorted, WindowThins
  <1>10. \A m \in Node : m # n => /\ chain'[m] = chain[m] /\ claim'[m] = claim[m]
                                  /\ born'[m] = born[m] /\ died'[m] = died[m]
    BY <1>1, <1>2, <1>3, <1>4, <1>5
  <1> QED
    BY <1>6, <1>7, <1>8, <1>9, <1>10

LEMMA TrimOrder ==
  ASSUME Base, Order, Steady, NEW n \in Node, NEW w, Trims(n, w)
  PROVE  Order'
  <1>0. /\ Thinned(chain[n], chain'[n], w)
        /\ Thinned(born[n], born'[n], w) /\ Thinned(died[n], died'[n], w)
        /\ claim'[n] \in {claim[n], NoTx}
        /\ \A m \in Node : m # n => /\ chain'[m] = chain[m] /\ claim'[m] = claim[m]
                                    /\ born'[m] = born[m] /\ died'[m] = died[m]
    BY TrimThins
  <1> SUFFICES ASSUME NEW m \in Node PROVE ChainOK(m)' /\ LifeOK(m)' /\ ClaimOK(m)'
    BY DEF Order
  <1>1. CASE m # n
    <2>1. chain'[m] = chain[m] /\ born'[m] = born[m] /\ died'[m] = died[m] /\ claim'[m] = claim[m]
      BY <1>0, <1>1
    <2>2. LifeHeld(m) /\ Records(m)' \subseteq Records(m) /\ ChainHeld(m)
      BY <2>1, LifeSame, ChainSame
    <2>3. ClaimHeld(m)
      BY <2>1, <2>2, ClaimFewer
    <2> QED
      BY <2>2, <2>3, OrderSteady
  <1>2. CASE m = n
    <2>1. Sorted(chain'[n]) /\ \A j \in DOMAIN chain'[n] : \E i \in DOMAIN chain[n] : chain'[n][j] = chain[n][i]
      BY <1>0 DEF Thinned
    <2>2. \A i \in DOMAIN chain[n] : chain[n][i].tx \in Tx /\ rec[chain[n][i].tx] # "none"
      BY ChainType DEF Listed, Order, ChainOK
    <2>3. \A j \in DOMAIN chain'[n] : Begun(chain'[n][j].tx)
      BY <2>1, <2>2, BegunPrecedes
    <2>4. ChainHeld(n)
      BY <2>1, <2>3 DEF ChainHeld
    <2>5. Descending(born'[n]) /\ Descending(died'[n])
      BY <1>0, LifeSorted DEF Thinned
    <2>6. Records(n)' \subseteq Records(n)
      <3>1. /\ \A j \in DOMAIN born'[n] : \E i \in DOMAIN born[n] : born'[n][j] = born[n][i]
            /\ \A j \in DOMAIN died'[n] : \E i \in DOMAIN died[n] : died'[n][j] = died[n][i]
        BY <1>0 DEF Thinned
      <3> QED
        BY <3>1 DEF Records, ToSet
    <2>7. LifeHeld(n)
      BY <2>5, <2>6, LifeFewer
    <2>8. ClaimHeld(n)
      BY <1>0, <2>6, ClaimFewer
    <2> QED
      BY <1>2, <2>4, <2>7, <2>8, OrderSteady
  <1> QED
    BY <1>1, <1>2

----------------------------------------------------------------------------
(* What a transaction puts in the store: it has seen what it puts it on.   *)

LabelPush(t, n) ==
  /\ ~Conflicts(t, LabelHead(n))
  /\ \E x \in LabelDelta : x.tx = t /\ chain' = [chain EXCEPT ![n] = <<x>> \o @]
  /\ UNCHANGED <<born, died, claim>>

\* A new life record of t, newer than the others.
Newborn(t, n, x) == x \in LifeRecord /\ x.tx = t /\ x.seq = NewestSeq(n) + 1

BirthPush(t, n) ==
  /\ SeesLife(t, n)
  /\ \E x : Newborn(t, n, x) /\ born' = [born EXCEPT ![n] = Displacing(@, x)]
  /\ UNCHANGED <<chain, died, claim>>

DeathPush(t, n) ==
  /\ SeesLife(t, n)
  /\ \E x : Newborn(t, n, x) /\ died' = [died EXCEPT ![n] = Displacing(@, x)]
  /\ UNCHANGED <<chain, born, claim>>

ClaimPush(t, n) ==
  /\ SeesLife(t, n)
  /\ claim' = [claim EXCEPT ![n] = t]
  /\ UNCHANGED <<chain, born, died>>

LEMMA LabelPushOrder ==
  ASSUME Base, Order, Steady, NEW t \in Tx, pc[t] \in OpPc, rec'[t] = "open",
         NEW n \in Node, LabelPush(t, n)
  PROVE  Order'
  <1>1. PICK x \in LabelDelta : x.tx = t /\ chain' = [chain EXCEPT ![n] = <<x>> \o chain[n]]
    BY DEF LabelPush
  <1>2. born' = born /\ died' = died /\ claim' = claim /\ ~Conflicts(t, LabelHead(n))
    BY DEF LabelPush
  <1>3. chain \in [Node -> Seq(LabelDelta)]
    BY StoreSeqs
  <1> SUFFICES ASSUME NEW m \in Node PROVE ChainOK(m)' /\ LifeOK(m)' /\ ClaimOK(m)'
    BY DEF Order
  <1>4. LifeHeld(m) /\ Records(m)' \subseteq Records(m)
    BY <1>2, LifeSame
  <1>5. ClaimHeld(m)
    BY <1>2, <1>4, ClaimFewer
  <1>6. CASE m # n
    <2>1. chain'[m] = chain[m]
      BY <1>1, <1>3, <1>6
    <2> QED
      BY <1>4, <1>5, <2>1, ChainSame, OrderSteady
  <1>7. CASE m = n
    <2>1. chain'[n] = <<x>> \o chain[n] /\ chain[n] \in Seq(LabelDelta)
      BY <1>1, <1>3
    <2>2. /\ Only(chain'[n], chain[n], x)
          /\ Sorted(chain[n]) /\ Over(chain[n], x) => Sorted(chain'[n])
      BY <2>1, PushKeeps
    <2>3. Over(chain[n], x)
      BY <1>1, <1>2, AdmitLabel DEF Over
    <2>4. Sorted(chain[n]) /\ \A i \in DOMAIN chain[n] : rec[chain[n][i].tx] # "none"
      BY DEF Order, ChainOK
    <2>5. \A i \in DOMAIN chain[n] : chain[n][i].tx \in Tx
      BY ChainType DEF Listed
    <2>6. \A i \in DOMAIN chain[n] : Begun(chain[n][i].tx)
      BY <2>4, <2>5, BegunPrecedes
    <2>7. Begun(t)
      BY DEF Begun, OpPc, LabelPc, DeathPc, BirthPc
    <2>8. \A j \in DOMAIN chain'[n] : Begun(chain'[n][j].tx)
      BY <1>1, <2>2, <2>6, <2>7 DEF Only
    <2>9. ChainHeld(n)
      BY <2>2, <2>3, <2>4, <2>8 DEF ChainHeld
    <2> QED
      BY <1>4, <1>5, <1>7, <2>9, OrderSteady
  <1> QED
    BY <1>6, <1>7

\* Records that are those of n, but for a new one of t.
LEMMA LifeMore ==
  ASSUME Base, Order, Steady, NEW t \in Tx, pc[t] \in OpPc, rec'[t] = "open",
         NEW n \in Node, SeesLife(t, n), NEW x, Newborn(t, n, x),
         \A r \in Records(n)' : r = x \/ r \in Records(n),
         Descending(born'[n]), Descending(died'[n]), claim'[n] = claim[n]
  PROVE  LifeHeld(n) /\ ClaimHeld(n)
  <1>1. \A r \in Records(n) : r.tx \in Tx /\ rec[r.tx] # "none" /\ r.seq \in Nat
    BY LifeType DEF Order, LifeOK
  <1>2. Begun(t)
    BY DEF Begun, OpPc, LabelPc, DeathPc, BirthPc
  <1>3. \A r \in Records(n) : Begun(r.tx)
    BY <1>1, BegunPrecedes
  <1>4. x.tx = t /\ x.seq = NewestSeq(n) + 1 /\ NewestSeq(n) \in Nat
    BY NewestFacts DEF Newborn
  <1>5. \A r \in Records(n) : r.seq < x.seq
    BY <1>1, <1>4, NewestFacts
  <1>6. \A r \in Records(n) : r.tx = t \/ Precedes(r.tx, t)
    BY DEF SeesLife
  <1>7. \A r \in Records(n) : InOrder(r, x) /\ InOrder(x, r)
    BY <1>4, <1>5, <1>6 DEF InOrder
  <1>8. InOrder(x, x)
    BY DEF InOrder
  <1>9. \A r, q \in Records(n) : InOrder(r, q)
    BY DEF Order, LifeOK, InOrder
  <1>10. \A r, q \in Records(n)' : InOrder(r, q)
    BY <1>7, <1>8, <1>9
  <1>11. \A r \in Records(n)' : Begun(r.tx)
    BY <1>2, <1>3, <1>4
  <1>12. LifeHeld(n)
    BY <1>10, <1>11 DEF LifeHeld
  <1>13. ClaimHeld(n)
    <2> SUFFICES ASSUME claim[n] # NoTx
                 PROVE  /\ Begun(claim[n])
                        /\ \A r \in Records(n)' : r.tx = claim[n] \/ Ordered(r.tx, claim[n])
      BY DEF ClaimHeld
    <2>1. claim[n] \in Tx
      BY LifeType
    <2>2. /\ rec[claim[n]] # "none"
          /\ \A r \in Records(n) : r.tx = claim[n] \/ Ordered(r.tx, claim[n])
      BY DEF Order, ClaimOK
    <2>3. Begun(claim[n])
      BY <2>1, <2>2, BegunPrecedes
    <2>4. x.tx = claim[n] \/ Ordered(x.tx, claim[n])
      BY <1>4 DEF SeesLife, Ordered
    <2> QED
      BY <2>2, <2>3, <2>4
  <1> QED
    BY <1>12, <1>13

LEMMA NewbornNewer ==
  ASSUME Base, Order, NEW t, NEW n \in Node, NEW x, Newborn(t, n, x)
  PROVE  Newer(born[n], x) /\ Newer(died[n], x)
  <1>1. \A r \in Records(n) : r.seq \in Nat /\ r.seq <= NewestSeq(n)
    BY LifeType, NewestFacts
  <1>2. x.seq = NewestSeq(n) + 1 /\ NewestSeq(n) \in Nat
    BY NewestFacts DEF Newborn
  <1>3. \A r \in Records(n) : r.seq < x.seq
    BY <1>1, <1>2
  <1> QED
    BY <1>3 DEF Newer, Records, ToSet

LEMMA BirthPushOrder ==
  ASSUME Base, Order, Steady, NEW t \in Tx, pc[t] \in OpPc, rec'[t] = "open",
         NEW n \in Node, BirthPush(t, n)
  PROVE  Order'
  <1>1. PICK x : Newborn(t, n, x) /\ born' = [born EXCEPT ![n] = Displacing(born[n], x)]
    BY DEF BirthPush
  <1>2. chain' = chain /\ died' = died /\ claim' = claim /\ SeesLife(t, n)
    BY DEF BirthPush
  <1>3. born \in [Node -> Seq(LifeRecord)] /\ x \in LifeRecord
    BY <1>1, StoreSeqs DEF Newborn
  <1> SUFFICES ASSUME NEW m \in Node PROVE ChainOK(m)' /\ LifeOK(m)' /\ ClaimOK(m)'
    BY DEF Order
  <1>4. ChainHeld(m)
    BY <1>2, ChainSame
  <1>5. CASE m # n
    <2>1. born'[m] = born[m] /\ died'[m] = died[m] /\ claim'[m] = claim[m]
      BY <1>1, <1>2, <1>3, <1>5
    <2>2. LifeHeld(m) /\ Records(m)' \subseteq Records(m)
      BY <2>1, LifeSame
    <2> QED
      BY <1>4, <2>1, <2>2, ClaimFewer, OrderSteady
  <1>6. CASE m = n
    <2>1. born'[n] = Displacing(born[n], x) /\ born[n] \in Seq(LifeRecord)
      BY <1>1, <1>3
    <2>2. Only(born'[n], born[n], x) /\ (Descending(born[n]) /\ Newer(born[n], x) => Descending(born'[n]))
      BY <1>3, <2>1, DisplacingKeeps
    <2>3. Descending(born'[n]) /\ Descending(died'[n])
      BY <1>1, <1>2, <2>2, LifeSorted, NewbornNewer
    <2>4. \A r \in Records(n)' : r = x \/ r \in Records(n)
      BY <1>2, <2>2 DEF Only, Records, ToSet
    <2> QED
      BY <1>1, <1>2, <1>4, <1>6, <2>3, <2>4, LifeMore, OrderSteady
  <1> QED
    BY <1>5, <1>6

LEMMA DeathPushOrder ==
  ASSUME Base, Order, Steady, NEW t \in Tx, pc[t] \in OpPc, rec'[t] = "open",
         NEW n \in Node, DeathPush(t, n)
  PROVE  Order'
  <1>1. PICK x : Newborn(t, n, x) /\ died' = [died EXCEPT ![n] = Displacing(died[n], x)]
    BY DEF DeathPush
  <1>2. chain' = chain /\ born' = born /\ claim' = claim /\ SeesLife(t, n)
    BY DEF DeathPush
  <1>3. died \in [Node -> Seq(LifeRecord)] /\ x \in LifeRecord
    BY <1>1, StoreSeqs DEF Newborn
  <1> SUFFICES ASSUME NEW m \in Node PROVE ChainOK(m)' /\ LifeOK(m)' /\ ClaimOK(m)'
    BY DEF Order
  <1>4. ChainHeld(m)
    BY <1>2, ChainSame
  <1>5. CASE m # n
    <2>1. born'[m] = born[m] /\ died'[m] = died[m] /\ claim'[m] = claim[m]
      BY <1>1, <1>2, <1>3, <1>5
    <2>2. LifeHeld(m) /\ Records(m)' \subseteq Records(m)
      BY <2>1, LifeSame
    <2> QED
      BY <1>4, <2>1, <2>2, ClaimFewer, OrderSteady
  <1>6. CASE m = n
    <2>1. died'[n] = Displacing(died[n], x) /\ died[n] \in Seq(LifeRecord)
      BY <1>1, <1>3
    <2>2. Only(died'[n], died[n], x) /\ (Descending(died[n]) /\ Newer(died[n], x) => Descending(died'[n]))
      BY <1>3, <2>1, DisplacingKeeps
    <2>3. Descending(born'[n]) /\ Descending(died'[n])
      BY <1>1, <1>2, <2>2, LifeSorted, NewbornNewer
    <2>4. \A r \in Records(n)' : r = x \/ r \in Records(n)
      BY <1>2, <2>2 DEF Only, Records, ToSet
    <2> QED
      BY <1>1, <1>2, <1>4, <1>6, <2>3, <2>4, LifeMore, OrderSteady
  <1> QED
    BY <1>5, <1>6

LEMMA ClaimPushOrder ==
  ASSUME Base, Order, Steady, NEW t \in Tx, pc[t] \in OpPc, rec'[t] = "open",
         NEW n \in Node, ClaimPush(t, n)
  PROVE  Order'
  <1>1. /\ claim' = [claim EXCEPT ![n] = t] /\ SeesLife(t, n)
        /\ chain' = chain /\ born' = born /\ died' = died
    BY DEF ClaimPush
  <1>2. claim \in [Node -> Tx \union {NoTx}]
    BY StoreSeqs
  <1> SUFFICES ASSUME NEW m \in Node PROVE ChainOK(m)' /\ LifeOK(m)' /\ ClaimOK(m)'
    BY DEF Order
  <1>3. ChainHeld(m)
    BY <1>1, ChainSame
  <1>4. LifeHeld(m) /\ Records(m)' = Records(m)
    BY <1>1, LifeSame
  <1>5. CASE m # n
    <2>1. claim'[m] = claim[m]
      BY <1>1, <1>2, <1>5
    <2> QED
      BY <1>3, <1>4, <2>1, ClaimFewer, OrderSteady
  <1>6. CASE m = n
    <2>1. claim'[n] = t
      BY <1>1, <1>2
    <2>2. Begun(t)
      BY DEF Begun, OpPc, LabelPc, DeathPc, BirthPc
    <2>3. \A r \in Records(n)' : r.tx = t \/ Ordered(r.tx, t)
      BY <1>1, <1>4, <1>6 DEF SeesLife, Ordered
    <2>4. ClaimHeld(n)
      BY <2>1, <2>2, <2>3 DEF ClaimHeld
    <2> QED
      BY <1>3, <1>4, <1>6, <2>4, OrderSteady
  <1> QED
    BY <1>5, <1>6

----------------------------------------------------------------------------
(* What is journalled keeps its version.                                   *)

\* No version is lost but those of aborted transactions and reclaimed ones.
RetainsAt(u, n) ==
  rec'[u] # "aborted" =>
    /\ InLabels(u, n) => InLabels(u, n)' \/ Settled(u)'
    /\ InLife(u, n) => InLife(u, n)' \/ Settled(u)'

\* What is newly marked has its version.
MarksAt(u, n) ==
  /\ LabelMark(u, n)' => LabelMark(u, n) \/ InLabels(u, n)'
  /\ LifeMark(u, n)' => LifeMark(u, n) \/ InLife(u, n)'

LEMMA KeptStep ==
  ASSUME Base, Steady, water' \in Nat, Kept,
         \A u \in Tx, n \in Node : RetainsAt(u, n),
         \A u \in Tx, n \in Node : MarksAt(u, n)
  PROVE  Kept'
  <1> SUFFICES ASSUME NEW u \in Tx, NEW n \in Node, rec'[u] # "aborted"
               PROVE  /\ LabelMark(u, n)' => InLabels(u, n)' \/ Settled(u)'
                      /\ LifeMark(u, n)' => InLife(u, n)' \/ Settled(u)'
    BY DEF Kept, KeptOK
  <1>1. rec[u] # "aborted"
    BY DEF Steady, SteadyTx
  <1>2. Settled(u) => Settled(u)'
    BY SteadySettled
  <1>3. /\ LabelMark(u, n) => InLabels(u, n) \/ Settled(u)
        /\ LifeMark(u, n) => InLife(u, n) \/ Settled(u)
    BY <1>1 DEF Kept, KeptOK
  <1>4. MarksAt(u, n) /\ RetainsAt(u, n)
    OBVIOUS
  <1> QED
    BY <1>2, <1>3, <1>4 DEF MarksAt, RetainsAt

\* Effects only leave the log of t.
LogFewer(t) == \A e : e \in ToSet(log'[t]) => e \in ToSet(log[t])

LEMMA WritesFewer ==
  ASSUME NEW t, LogFewer(t)
  PROVE  \A n, lab, v : Writes(t, n, lab, v)' => Writes(t, n, lab, v)
  BY DEF LogFewer, Writes

LEMMA UnmovedMarks ==
  ASSUME NEW x, Unmoved(x)
  PROVE  /\ \A n, lab, v : Writes(x, n, lab, v)' <=> Writes(x, n, lab, v)
         /\ \A n : /\ Labels(x, n)' <=> Labels(x, n)
                   /\ Lives(x, n)' <=> Lives(x, n)
                   /\ Removes(x, n)' <=> Removes(x, n)
                   /\ LabelMark(x, n)' <=> LabelMark(x, n)
                   /\ LifeMark(x, n)' <=> LifeMark(x, n)
  <1>1. \A n, lab, v : Writes(x, n, lab, v)' <=> Writes(x, n, lab, v)
    BY DEF Unmoved, Writes
  <1>2. \A n : (Labels(x, n)' <=> Labels(x, n)) /\ (Lives(x, n)' <=> Lives(x, n))
    BY <1>1 DEF Labels, Lives
  <1>3. pc'[x] = pc[x] /\ arg'[x] = arg[x]
    BY DEF Unmoved
  <1> QED
    BY <1>1, <1>2, <1>3 DEF Removes, LabelMark, LifeMark

\* The places where an effect waits to be journalled.
MarkPc == {"crossLife", "crossDied", "flipDead", "flipBorn"}

Subsides(t) == LogFewer(t) /\ pc'[t] \notin MarkPc

LEMMA SubsidesMarks ==
  ASSUME NEW t, Subsides(t)
  PROVE  \A n : /\ Labels(t, n)' => Labels(t, n)
                /\ Lives(t, n)' => Lives(t, n)
                /\ Removes(t, n)' => Removes(t, n)
                /\ LabelMark(t, n)' => LabelMark(t, n)
                /\ LifeMark(t, n)' => LifeMark(t, n)
  <1>1. \A n, lab, v : Writes(t, n, lab, v)' => Writes(t, n, lab, v)
    BY WritesFewer DEF Subsides
  <1>2. pc'[t] \notin {"crossLife", "crossDied", "flipDead", "flipBorn"}
    BY DEF Subsides, MarkPc
  <1> QED
    BY <1>1, <1>2 DEF Labels, Lives, Removes, LabelMark, LifeMark

LEMMA WaterNext ==
  ASSUME Base'
  PROVE  water' \in Nat
  <1>1. Stamps \subseteq Nat
    BY StartTS DEF Stamps
  <1>2. water' \in Stamps
    BY DEF Base, TypeOK, Stamps
  <1> QED
    BY <1>1, <1>2

LEMMA SameRetains ==
  ASSUME StoreSame
  PROVE  \A u \in Tx, n \in Node : RetainsAt(u, n)
  BY DEF StoreSame, RetainsAt, InLabels, InLife, Records, ToSet

LEMMA TrimRetains ==
  ASSUME Base, Base', Order, Steady, \A x \in Tx : Unmoved(x),
         NEW n \in Node, NEW w, Trims(n, w)
  PROVE  \A u \in Tx, m \in Node : RetainsAt(u, m)
  <1>0. /\ Thinned(chain[n], chain'[n], w)
        /\ Thinned(born[n], born'[n], w) /\ Thinned(died[n], died'[n], w)
        /\ w \in Nat /\ w <= water'
        /\ \A m \in Node : m # n => /\ chain'[m] = chain[m]
                                    /\ born'[m] = born[m] /\ died'[m] = died[m]
    BY TrimThins
  <1> SUFFICES ASSUME NEW u \in Tx, NEW m \in Node, rec'[u] # "aborted"
               PROVE  /\ InLabels(u, m) => InLabels(u, m)' \/ Settled(u)'
                      /\ InLife(u, m) => InLife(u, m)' \/ Settled(u)'
    BY DEF RetainsAt
  <1>1. CASE m # n
    BY <1>0, <1>1 DEF InLabels, InLife, Records, ToSet
  <1>2. CASE m = n
    <2>1. rec'[u] = rec[u] /\ at'[u] = at[u] /\ rec[u] # "aborted"
      BY DEF Unmoved
    <2>2. at[u] \in Nat /\ water' \in Nat
      BY Numbers, WaterNext
    <2>3. rec[u] = "committed" /\ at[u] <= w => Settled(u)'
      BY <1>0, <2>1, <2>2 DEF Settled
    <2>4. InLabels(u, n) => InLabels(u, n)' \/ Settled(u)'
      <3> SUFFICES ASSUME NEW i \in DOMAIN chain[n], chain[n][i].tx = u
                   PROVE  InLabels(u, n)' \/ Settled(u)'
        BY DEF InLabels
      <3>1. Has(chain'[n], chain[n][i]) \/ (rec[u] = "committed" /\ at[u] <= w)
        BY <1>0, <2>1 DEF Thinned
      <3> QED
        BY <2>3, <3>1 DEF Has, InLabels
    <2>5. InLife(u, n) => InLife(u, n)' \/ Settled(u)'
      <3> SUFFICES ASSUME NEW r \in Records(n), r.tx = u
                   PROVE  InLife(u, n)' \/ Settled(u)'
        BY DEF InLife
      <3>1. CASE \E i \in DOMAIN born[n] : born[n][i] = r
        <4>1. Has(born'[n], r) \/ (rec[u] = "committed" /\ at[u] <= w)
          BY <1>0, <2>1, <3>1 DEF Thinned
        <4> QED
          BY <2>3, <4>1 DEF Has, InLife, Records, ToSet
      <3>2. CASE \E i \in DOMAIN died[n] : died[n][i] = r
        <4>1. Has(died'[n], r) \/ (rec[u] = "committed" /\ at[u] <= w)
          BY <1>0, <2>1, <3>2 DEF Thinned
        <4> QED
          BY <2>3, <4>1 DEF Has, InLife, Records, ToSet
      <3> QED
        BY <3>1, <3>2 DEF Records, ToSet
    <2> QED
      BY <1>2, <2>4, <2>5
  <1> QED
    BY <1>1, <1>2

LEMMA LabelPushRetains ==
  ASSUME Base, NEW t \in Tx, NEW n \in Node, LabelPush(t, n)
  PROVE  /\ \A u \in Tx, m \in Node : RetainsAt(u, m)
         /\ InLabels(t, n)'
  <1>1. PICK x \in LabelDelta : x.tx = t /\ chain' = [chain EXCEPT ![n] = <<x>> \o chain[n]]
    BY DEF LabelPush
  <1>2. born' = born /\ died' = died
    BY DEF LabelPush
  <1>3. chain \in [Node -> Seq(LabelDelta)]
    BY StoreSeqs
  <1>4. chain'[n] = <<x>> \o chain[n] /\ \A m \in Node : m # n => chain'[m] = chain[m]
    BY <1>1, <1>3
  <1>5. Has(chain'[n], x) /\ \A i \in DOMAIN chain[n] : Has(chain'[n], chain[n][i])
    BY <1>3, <1>4, PushKeeps
  <1>6. InLabels(t, n)'
    BY <1>1, <1>5 DEF Has, InLabels
  <1>7. \A u \in Tx, m \in Node : InLabels(u, m) => InLabels(u, m)'
    <2> SUFFICES ASSUME NEW u \in Tx, NEW m \in Node,
                        NEW i \in DOMAIN chain[m], chain[m][i].tx = u
                 PROVE  InLabels(u, m)'
      BY DEF InLabels
    <2>1. CASE m = n
      <3>1. PICK j \in DOMAIN chain'[n] : chain'[n][j] = chain[n][i]
        BY <1>5, <2>1 DEF Has
      <3> QED
        BY <2>1, <3>1 DEF InLabels
    <2>2. CASE m # n
      BY <1>4, <2>2 DEF InLabels
    <2> QED
      BY <2>1, <2>2
  <1>8. \A u \in Tx, m \in Node : InLife(u, m) => InLife(u, m)'
    BY <1>2 DEF InLife, Records, ToSet
  <1> QED
    BY <1>6, <1>7, <1>8 DEF RetainsAt

LEMMA BirthPushRetains ==
  ASSUME Base, NEW t \in Tx, NEW n \in Node, BirthPush(t, n)
  PROVE  /\ \A u \in Tx, m \in Node : RetainsAt(u, m)
         /\ InLife(t, n)'
  <1>1. PICK x : Newborn(t, n, x) /\ born' = [born EXCEPT ![n] = Displacing(born[n], x)]
    BY DEF BirthPush
  <1>2. chain' = chain /\ died' = died /\ x.tx = t /\ x \in LifeRecord
    BY <1>1 DEF BirthPush, Newborn
  <1>3. born \in [Node -> Seq(LifeRecord)]
    BY StoreSeqs
  <1>4. born'[n] = Displacing(born[n], x) /\ \A m \in Node : m # n => born'[m] = born[m]
    BY <1>1, <1>3
  <1>5. Has(born'[n], x) /\ Keeps(born'[n], born[n], x)
    BY <1>2, <1>3, <1>4, DisplacingKeeps
  <1>6. InLife(t, n)'
    BY <1>2, <1>5 DEF Has, InLife, Records, ToSet
  <1>7. \A u \in Tx, m \in Node : InLabels(u, m) => InLabels(u, m)'
    BY <1>2 DEF InLabels
  <1>8. ASSUME NEW u \in Tx, NEW m \in Node, InLife(u, m) PROVE InLife(u, m)'
    <2>1. CASE m # n
      BY <1>2, <1>4, <1>8, <2>1 DEF InLife, Records, ToSet
    <2>2. CASE m = n /\ u = t
      BY <1>6, <2>2
    <2>3. CASE m = n /\ u # t
      <3>1. PICK r \in Records(n) : r.tx = u
        BY <1>8, <2>3 DEF InLife
      <3>2. CASE \E i \in DOMAIN born[n] : born[n][i] = r
        BY <1>2, <1>5, <2>3, <3>1, <3>2 DEF Keeps, Has, InLife, Records, ToSet
      <3>3. CASE \E i \in DOMAIN died[n] : died[n][i] = r
        BY <1>2, <2>3, <3>1, <3>3 DEF InLife, Records, ToSet
      <3> QED
        BY <3>1, <3>2, <3>3 DEF Records, ToSet
    <2> QED
      BY <2>1, <2>2, <2>3
  <1> QED
    BY <1>6, <1>7, <1>8 DEF RetainsAt

LEMMA DeathPushRetains ==
  ASSUME Base, NEW t \in Tx, NEW n \in Node, DeathPush(t, n)
  PROVE  /\ \A u \in Tx, m \in Node : RetainsAt(u, m)
         /\ InLife(t, n)'
  <1>1. PICK x : Newborn(t, n, x) /\ died' = [died EXCEPT ![n] = Displacing(died[n], x)]
    BY DEF DeathPush
  <1>2. chain' = chain /\ born' = born /\ x.tx = t /\ x \in LifeRecord
    BY <1>1 DEF DeathPush, Newborn
  <1>3. died \in [Node -> Seq(LifeRecord)]
    BY StoreSeqs
  <1>4. died'[n] = Displacing(died[n], x) /\ \A m \in Node : m # n => died'[m] = died[m]
    BY <1>1, <1>3
  <1>5. Has(died'[n], x) /\ Keeps(died'[n], died[n], x)
    BY <1>2, <1>3, <1>4, DisplacingKeeps
  <1>6. InLife(t, n)'
    BY <1>2, <1>5 DEF Has, InLife, Records, ToSet
  <1>7. \A u \in Tx, m \in Node : InLabels(u, m) => InLabels(u, m)'
    BY <1>2 DEF InLabels
  <1>8. ASSUME NEW u \in Tx, NEW m \in Node, InLife(u, m) PROVE InLife(u, m)'
    <2>1. CASE m # n
      BY <1>2, <1>4, <1>8, <2>1 DEF InLife, Records, ToSet
    <2>2. CASE m = n /\ u = t
      BY <1>6, <2>2
    <2>3. CASE m = n /\ u # t
      <3>1. PICK r \in Records(n) : r.tx = u
        BY <1>8, <2>3 DEF InLife
      <3>2. CASE \E i \in DOMAIN died[n] : died[n][i] = r
        BY <1>2, <1>5, <2>3, <3>1, <3>2 DEF Keeps, Has, InLife, Records, ToSet
      <3>3. CASE \E i \in DOMAIN born[n] : born[n][i] = r
        BY <1>2, <2>3, <3>1, <3>3 DEF InLife, Records, ToSet
      <3> QED
        BY <3>1, <3>2, <3>3 DEF Records, ToSet
    <2> QED
      BY <2>1, <2>2, <2>3
  <1> QED
    BY <1>6, <1>7, <1>8 DEF RetainsAt

LEMMA ClaimPushRetains ==
  ASSUME NEW t, NEW n, ClaimPush(t, n)
  PROVE  \A u \in Tx, m \in Node : RetainsAt(u, m)
  BY DEF ClaimPush, RetainsAt, InLabels, InLife, Records, ToSet

----------------------------------------------------------------------------
(* Colliding effects come from transactions that have seen each other.     *)

\* t has seen whoever journalled, or is about to, what collides with a label,
\* an existence or a removal of its own on n.
LabelsSeen(t, n) ==
  \A u \in Tx : u # t /\ rec[u] # "aborted" /\ (Labels(u, n) \/ Removes(u, n)) => Ordered(t, u)
LivesSeen(t, n) ==
  \A u \in Tx : u # t /\ rec[u] # "aborted" /\ Lives(u, n) => Ordered(t, u)
RemovesSeen(t, n) ==
  \A u \in Tx : u # t /\ rec[u] # "aborted" /\ Labels(u, n) => Ordered(t, u)

GrowsAt(t, n) ==
  /\ Labels(t, n)' => Labels(t, n) \/ (pc[t] # "idle" /\ LabelsSeen(t, n))
  /\ Lives(t, n)' => Lives(t, n) \/ (pc[t] # "idle" /\ LivesSeen(t, n))
  /\ Removes(t, n)' => Removes(t, n) \/ (pc[t] # "idle" /\ RemovesSeen(t, n))

LEMMA MarkBegun ==
  ASSUME Base, NEW u \in Tx, NEW n, Labels(u, n) \/ Lives(u, n) \/ Removes(u, n)
  PROVE  pc[u] # "idle"
  <1>1. CASE log[u] = <<>>
    <2>1. ToSet(log[u]) = {}
      BY <1>1 DEF ToSet
    <2> QED
      BY <2>1 DEF Labels, Lives, Removes, Writes
  <1>2. CASE log[u] # <<>>
    BY <1>2, RecordBegun
  <1> QED
    BY <1>1, <1>2

LEMMA OrderedSym ==
  ASSUME NEW u, NEW v, Ordered(u, v)
  PROVE  Ordered(v, u)
  BY DEF Ordered

LEMMA JournalStep ==
  ASSUME Base, Steady, Journalled, NEW t, \A u \in Tx : u # t => Unmoved(u),
         t \in Tx => \A n \in Node : GrowsAt(t, n)
  PROVE  Journalled'
  <1> SUFFICES ASSUME NEW a \in Tx, NEW b \in Tx, a # b,
                      rec'[a] # "aborted", rec'[b] # "aborted", NEW n \in Node
               PROVE  JournalOK(a, b, n)'
    BY DEF Journalled
  <1>1. rec[a] # "aborted" /\ rec[b] # "aborted"
    BY DEF Steady, SteadyTx
  <1>2. /\ Labels(a, n) /\ Labels(b, n) => Ordered(a, b)
        /\ Lives(a, n) /\ Lives(b, n) => Ordered(a, b)
        /\ Labels(a, n) /\ Removes(b, n) => Ordered(a, b)
    BY <1>1 DEF Journalled, JournalOK
  <1>3. \A x \in {a, b} : x # t => /\ Labels(x, n)' <=> Labels(x, n)
                                   /\ Lives(x, n)' <=> Lives(x, n)
                                   /\ Removes(x, n)' <=> Removes(x, n)
    BY UnmovedMarks
  <1>4. \A x \in {a, b} : x = t => GrowsAt(x, n)
    OBVIOUS
  <1>5. \A x \in {a, b} : Labels(x, n) \/ Lives(x, n) \/ Removes(x, n) => pc[x] # "idle"
    BY MarkBegun
  <1>6. ASSUME Ordered(a, b), pc[a] # "idle", pc[b] # "idle" PROVE Ordered(a, b)'
    BY <1>6, SteadyOrdered
  <1>7. Labels(a, n)' /\ Labels(b, n)' => Ordered(a, b) /\ pc[a] # "idle" /\ pc[b] # "idle"
    BY <1>1, <1>2, <1>3, <1>4, <1>5, OrderedSym DEF GrowsAt, LabelsSeen
  <1>8. Lives(a, n)' /\ Lives(b, n)' => Ordered(a, b) /\ pc[a] # "idle" /\ pc[b] # "idle"
    BY <1>1, <1>2, <1>3, <1>4, <1>5, OrderedSym DEF GrowsAt, LivesSeen
  <1>9. Labels(a, n)' /\ Removes(b, n)' => Ordered(a, b) /\ pc[a] # "idle" /\ pc[b] # "idle"
    BY <1>1, <1>2, <1>3, <1>4, <1>5, OrderedSym DEF GrowsAt, LabelsSeen, RemovesSeen
  <1> QED
    BY <1>6, <1>7, <1>8, <1>9 DEF JournalOK

\* The invariant after a step that moves t but adds nothing to the store or to
\* what it has journalled.
LEMMA QuietStep ==
  ASSUME StInv, Base', Steady, NEW t \in Tx, \A u \in Tx : u # t => Unmoved(u),
         Subsides(t), Order', \A u \in Tx, n \in Node : RetainsAt(u, n)
  PROVE  StInv'
  <1>1. Base /\ Kept /\ Journalled
    BY DEF StInv
  <1>2. \A n : /\ Labels(t, n)' => Labels(t, n)
               /\ Lives(t, n)' => Lives(t, n)
               /\ Removes(t, n)' => Removes(t, n)
               /\ LabelMark(t, n)' => LabelMark(t, n)
               /\ LifeMark(t, n)' => LifeMark(t, n)
    BY SubsidesMarks
  <1>3. \A u \in Tx, n \in Node : MarksAt(u, n)
    BY <1>2, UnmovedMarks DEF MarksAt
  <1>4. \A n \in Node : GrowsAt(t, n)
    BY <1>2 DEF GrowsAt
  <1>5. Kept'
    BY <1>1, <1>3, KeptStep, WaterNext
  <1>6. Journalled'
    BY <1>1, <1>4, JournalStep
  <1> QED
    BY <1>5, <1>6 DEF StInv

\* The same for a step that moves nobody.
LEMMA StillStep ==
  ASSUME StInv, Base', Steady, \A u \in Tx : Unmoved(u), Order',
         \A u \in Tx, n \in Node : RetainsAt(u, n)
  PROVE  StInv'
  <1>1. Base /\ Kept /\ Journalled
    BY DEF StInv
  <1>2. \A u \in Tx, n \in Node : MarksAt(u, n)
    BY UnmovedMarks DEF MarksAt
  <1>3. Kept'
    BY <1>1, <1>2, KeptStep, WaterNext
  <1>4. Journalled'
    BY <1>1, NamesAssumption, JournalStep
  <1> QED
    BY <1>3, <1>4 DEF StInv

----------------------------------------------------------------------------
(* The cross-checks: of a label claim and a removal, one sees the other.   *)

\* Who is open has not been reclaimed.
LEMMA OpenUnsettled ==
  ASSUME NEW t, rec[t] = "open"
  PROVE  ~Settled(t)
  BY DEF Settled

\* What another transaction journalled on the labels t writes, or is about to
\* on the existence t has seen.
LEMMA LabelsOrdered ==
  ASSUME StInv, NEW t \in Tx, pc[t] \in OpPc, NEW u \in Tx, NEW n \in Node,
         rec[u] # "aborted", LabelMark(u, n), u # t,
         (InLabels(t, n) \/ ~Conflicts(t, LabelHead(n)))
  PROVE  Ordered(t, u)
  <1>0. Base /\ Order /\ Kept
    BY DEF StInv
  <1>1. InLabels(u, n) \/ Settled(u)
    BY <1>0 DEF Kept, KeptOK
  <1>2. CASE Settled(u)
    BY <1>0, <1>2, SettledPrecedes DEF Ordered
  <1>3. CASE InLabels(u, n) /\ ~Conflicts(t, LabelHead(n))
    <2>1. PICK i \in DOMAIN chain[n] : chain[n][i].tx = u
      BY <1>3 DEF InLabels
    <2>2. chain[n][i].tx = t \/ Precedes(chain[n][i].tx, t)
      BY <1>0, <1>3, AdmitLabel
    <2> QED
      BY <2>1, <2>2 DEF Ordered
  <1>4. CASE InLabels(u, n) /\ InLabels(t, n)
    <2>1. PICK i \in DOMAIN chain[n], j \in DOMAIN chain[n] :
            chain[n][i].tx = u /\ chain[n][j].tx = t
      BY <1>4 DEF InLabels
    <2>2. Sorted(chain[n])
      BY <1>0 DEF Order, ChainOK
    <2>3. i < j \/ j < i
      <3>1. i \in Nat /\ j \in Nat /\ i # j
        BY <1>0, <2>1, ChainType
      <3> QED
        BY <3>1
    <2> QED
      BY <2>1, <2>2, <2>3 DEF Sorted, Ordered
  <1> QED
    BY <1>1, <1>2, <1>3, <1>4

LEMMA LivesOrdered ==
  ASSUME StInv, NEW t \in Tx, pc[t] \in OpPc, NEW u \in Tx, NEW n \in Node,
         rec[u] # "aborted", LifeMark(u, n), u # t,
         (InLife(t, n) \/ SeesLife(t, n))
  PROVE  Ordered(t, u)
  <1>0. Base /\ Order /\ Kept
    BY DEF StInv
  <1>1. InLife(u, n) \/ Settled(u)
    BY <1>0 DEF Kept, KeptOK
  <1>2. CASE Settled(u)
    BY <1>0, <1>2, SettledPrecedes DEF Ordered
  <1>3. CASE InLife(u, n) /\ SeesLife(t, n)
    BY <1>3 DEF InLife, SeesLife, Ordered
  <1>4. CASE InLife(u, n) /\ InLife(t, n)
    <2>1. PICK r \in Records(n), q \in Records(n) : r.tx = u /\ q.tx = t
      BY <1>4 DEF InLife
    <2>2. Precedes(r.tx, q.tx) \/ Precedes(q.tx, r.tx)
      BY <1>0, <2>1 DEF Order, LifeOK
    <2> QED
      BY <2>1, <2>2 DEF Ordered
  <1> QED
    BY <1>1, <1>2, <1>3, <1>4

LEMMA MarkFacts ==
  ASSUME NEW u, NEW n
  PROVE  /\ Labels(u, n) => LabelMark(u, n)
         /\ Lives(u, n) => LifeMark(u, n)
         /\ Removes(u, n) => LifeMark(u, n)
  <1>1. Writes(u, n, FALSE, {FALSE}) => Writes(u, n, FALSE, BOOLEAN)
    BY DEF Writes
  <1> QED
    BY <1>1 DEF LabelMark, LifeMark, Removes, Lives

\* A label write whose cross-check passes.
LEMMA LabelCrossed ==
  ASSUME StInv, NEW t \in Tx, pc[t] = "crossLife", NEW n \in Node, n = arg[t].n,
         ~Conflicts(t, LifeHead(n))
  PROVE  LabelsSeen(t, n)
  <1>0. Base /\ Order /\ Kept /\ pc[t] \in OpPc
    BY DEF StInv, OpPc, LabelPc
  <1>1. rec[t] = "open"
    BY <1>0 DEF Base, PlaceOK
  <1>2. InLabels(t, n)
    BY <1>0, <1>1, OpenUnsettled DEF Kept, KeptOK, LabelMark
  <1>3. SeesLife(t, n)
    BY <1>0, AdmitLife
  <1> QED
    BY <1>0, <1>2, <1>3, LabelsOrdered, LivesOrdered, MarkFacts DEF LabelsSeen

\* A removal whose cross-check passes.
LEMMA RemovalCrossed ==
  ASSUME StInv, NEW t \in Tx, pc[t] \in OpPc, NEW n \in Node,
         ~Conflicts(t, LabelHead(n))
  PROVE  RemovesSeen(t, n)
  BY LabelsOrdered, MarkFacts DEF RemovesSeen

\* A life record that is about to be journalled.
LEMMA LifeFlipped ==
  ASSUME StInv, NEW t \in Tx, pc[t] \in {"flipDead", "flipBorn"}, NEW n \in Node, n = arg[t].n
  PROVE  LivesSeen(t, n) /\ LifeMark(t, n)
  <1>0. Base /\ Order /\ Kept /\ pc[t] \in OpPc
    BY DEF StInv, OpPc, DeathPc, BirthPc
  <1>1. rec[t] = "open"
    BY <1>0 DEF Base, PlaceOK
  <1>2. LifeMark(t, n)
    BY DEF LifeMark
  <1>3. InLife(t, n)
    BY <1>0, <1>1, <1>2, OpenUnsettled DEF Kept, KeptOK
  <1> QED
    BY <1>0, <1>2, <1>3, LivesOrdered, MarkFacts DEF LivesSeen

LEMMA LifeSeen ==
  ASSUME StInv, NEW t \in Tx, pc[t] \in OpPc, NEW n \in Node, SeesLife(t, n)
  PROVE  LivesSeen(t, n)
  BY LivesOrdered, MarkFacts DEF LivesSeen

\* A step of an operation that journals nothing.
LEMMA MarkStep ==
  ASSUME StInv, NEW t \in Tx, OpMove(t), StoreType', log' = log, Order',
         \A u \in Tx, n \in Node : RetainsAt(u, n),
         pc'[t] = "crossLife" => InLabels(t, arg[t].n)',
         pc'[t] \in {"crossDied", "flipBorn"} => InLife(t, arg[t].n)',
         pc'[t] = "flipDead" => LifeMark(t, arg'[t].n) /\ RemovesSeen(t, arg'[t].n)
  PROVE  StInv'
  <1>0. Base /\ Kept /\ Journalled
    BY DEF StInv
  <1>1. Base'
    BY <1>0, OpBase
  <1>2. Steady /\ \A x \in Tx : x # t => Unmoved(x)
    BY <1>0, OpFrame
  <1>3. \A n, lab, v : Writes(t, n, lab, v)' <=> Writes(t, n, lab, v)
    BY DEF Writes
  <1>4. \A n : (Labels(t, n)' <=> Labels(t, n)) /\ (Lives(t, n)' <=> Lives(t, n))
    BY <1>3 DEF Labels, Lives
  <1>5. ASSUME NEW n \in Node PROVE MarksAt(t, n)
    <2>1. LabelMark(t, n)' => LabelMark(t, n) \/ InLabels(t, n)'
      <3>1. pc'[t] = "crossLife" /\ arg'[t].n = n => InLabels(t, n)'
        BY DEF InLabels
      <3> QED
        BY <1>4, <3>1 DEF LabelMark
    <2>2. LifeMark(t, n)' => LifeMark(t, n) \/ InLife(t, n)'
      <3>1. pc'[t] \in {"crossDied", "flipBorn"} /\ arg'[t].n = n => InLife(t, n)'
        BY DEF InLife, Records
      <3>2. Lives(t, n) => LifeMark(t, n)
        BY MarkFacts
      <3>3. pc'[t] = "flipDead" /\ arg'[t].n = n => LifeMark(t, n)
        OBVIOUS
      <3> QED
        BY <1>4, <3>1, <3>2, <3>3 DEF LifeMark
    <2> QED
      BY <2>1, <2>2 DEF MarksAt
  <1>6. \A u \in Tx, n \in Node : MarksAt(u, n)
    BY <1>2, <1>5, UnmovedMarks DEF MarksAt
  <1>7. pc[t] # "idle"
    BY DEF OpMove, OpPc, LabelPc, DeathPc, BirthPc
  <1>8. \A n \in Node : GrowsAt(t, n)
    BY <1>3, <1>4, <1>7 DEF GrowsAt, Removes
  <1>9. Kept'
    BY <1>0, <1>1, <1>2, <1>6, KeptStep, WaterNext
  <1>10. Journalled'
    BY <1>0, <1>2, <1>8, JournalStep
  <1> QED
    BY <1>1, <1>9, <1>10 DEF StInv

LEMMA AppendSet ==
  ASSUME NEW s \in Seq(Effects), NEW e \in Effects
  PROVE  ToSet(Append(s, e)) = ToSet(s) \union {e}
  <1>1. Len(s) \in Nat /\ DOMAIN s = 1 .. Len(s)
    BY LenProperties
  <1>2. /\ Append(s, e) \in Seq(Effects) /\ Len(Append(s, e)) = Len(s) + 1
        /\ \A i \in 1 .. Len(s) : Append(s, e)[i] = s[i]
        /\ Append(s, e)[Len(s) + 1] = e
    BY AppendProperties
  <1>3. DOMAIN Append(s, e) = 1 .. Len(s) + 1
    BY <1>1, <1>2, LenProperties
  <1>4. \A i \in 1 .. Len(s) + 1 : i \in 1 .. Len(s) \/ i = Len(s) + 1
    BY <1>1
  <1>5. 1 .. Len(s) \subseteq 1 .. Len(s) + 1 /\ Len(s) + 1 \in 1 .. Len(s) + 1
    BY <1>1
  <1> HIDE DEF Effects
  <1>6. ToSet(Append(s, e)) \subseteq ToSet(s) \union {e}
    BY <1>1, <1>2, <1>3, <1>4 DEF ToSet
  <1>7. ToSet(s) \union {e} \subseteq ToSet(Append(s, e))
    BY <1>1, <1>2, <1>3, <1>5 DEF ToSet
  <1> QED
    BY <1>6, <1>7

\* An effect is journalled.
LEMMA EffectStep ==
  ASSUME StInv, NEW t \in Tx, OpMove(t), StoreType', Order',
         \A u \in Tx, n \in Node : RetainsAt(u, n),
         NEW e \in Effects, log' = [log EXCEPT ![t] = Append(@, e)],
         pc'[t] \notin MarkPc,
         e.c # Life => LabelsSeen(t, e.n) /\ LabelMark(t, e.n),
         e.c = Life => LivesSeen(t, e.n) /\ (LifeMark(t, e.n) \/ InLife(t, e.n)'),
         e.c = Life /\ e.v = FALSE => Removes(t, e.n)
  PROVE  StInv'
  <1>0. Base /\ Kept /\ Journalled
    BY DEF StInv
  <1>1. Base'
    BY <1>0, OpBase
  <1>2. Steady /\ \A x \in Tx : x # t => Unmoved(x)
    BY <1>0, OpFrame
  <1>3. log'[t] = Append(log[t], e) /\ log[t] \in Seq(Effects)
    BY <1>0 DEF Base, TypeOK
  <1>4. ToSet(log'[t]) = ToSet(log[t]) \union {e}
    BY <1>3, AppendSet
  <1>5. e.n \in Node /\ e.v \in BOOLEAN
    BY DEF Effects
  <1>6. \A n, v : Writes(t, n, TRUE, v)' => Writes(t, n, TRUE, v) \/ (e.n = n /\ e.c # Life)
    BY <1>4 DEF Writes
  <1>7. \A n, v : Writes(t, n, FALSE, v)' =>
                    Writes(t, n, FALSE, v) \/ (e.n = n /\ e.c = Life /\ e.v \in v)
    BY <1>4 DEF Writes
  <1>8. \A n : Labels(t, n)' => Labels(t, n) \/ (e.n = n /\ e.c # Life)
    BY <1>6 DEF Labels
  <1>9. \A n : Lives(t, n)' => Lives(t, n) \/ (e.n = n /\ e.c = Life)
    BY <1>7 DEF Lives
  <1>10. pc'[t] \notin {"crossLife", "crossDied", "flipDead", "flipBorn"}
    BY DEF MarkPc
  <1>11. \A n : Removes(t, n)' => Removes(t, n) \/ (e.n = n /\ e.c = Life /\ e.v = FALSE)
    BY <1>7, <1>10 DEF Removes
  <1>12. \A n \in Node : MarksAt(t, n)
    <2> SUFFICES ASSUME NEW n \in Node PROVE MarksAt(t, n)
      OBVIOUS
    <2>1. LabelMark(t, n)' => LabelMark(t, n)
      BY <1>8, <1>10 DEF LabelMark
    <2>2. LifeMark(t, n)' => LifeMark(t, n) \/ InLife(t, n)'
      <3>1. LifeMark(t, n)' => Lives(t, n)'
        BY <1>10 DEF LifeMark
      <3>2. Lives(t, n) => LifeMark(t, n)
        BY MarkFacts
      <3>3. e.n = n /\ e.c = Life => LifeMark(t, n) \/ InLife(t, n)'
        BY DEF InLife
      <3> QED
        BY <1>9, <3>1, <3>2, <3>3
    <2> QED
      BY <2>1, <2>2 DEF MarksAt
  <1>13. \A u \in Tx, n \in Node : MarksAt(u, n)
    BY <1>2, <1>12, UnmovedMarks DEF MarksAt
  <1>14. pc[t] # "idle"
    BY DEF OpMove, OpPc, LabelPc, DeathPc, BirthPc
  <1>15. \A n \in Node : GrowsAt(t, n)
    BY <1>8, <1>9, <1>11, <1>14 DEF GrowsAt
  <1>16. Kept'
    BY <1>0, <1>1, <1>2, <1>13, KeptStep, WaterNext
  <1>17. Journalled'
    BY <1>0, <1>2, <1>15, JournalStep
  <1> QED
    BY <1>1, <1>16, <1>17 DEF StInv

----------------------------------------------------------------------------
(* The operations.                                                         *)

LEMMA ReturnTarget ==
  ASSUME Base, NEW t \in Tx, Return(t)
  PROVE  /\ \E p, e : /\ pc' = [pc EXCEPT ![t] = p] /\ arg' = [arg EXCEPT ![t] = e]
                      /\ Target(t, p, e)
         /\ pc'[t] \notin MarkPc
  <1> DEFINE p == IF t \in Implicit THEN "written" ELSE IF undoing[t] THEN "undo" ELSE "ready"
  <1>1. pc' = [pc EXCEPT ![t] = p] /\ arg' = [arg EXCEPT ![t] = Nothing]
    BY DEF Return, Goto
  <1>2. Target(t, p, Nothing)
    BY DEF Target
  <1>3. pc'[t] = p
    BY <1>1 DEF Base
  <1>4. p \notin MarkPc
    BY DEF MarkPc
  <1> QED
    BY <1>1, <1>2, <1>3, <1>4

LEMMA BackMove ==
  ASSUME Base, NEW t \in Tx, pc[t] \in OpPc, Refuse(t) \/ NoOp(t),
         UNCHANGED <<clock, session, sweep>>, rec' = rec
  PROVE  OpMove(t) /\ log' = log /\ pc'[t] \notin MarkPc
  <1>1. Return(t) /\ log' = log /\ (doomed' = doomed \/ doomed' = [doomed EXCEPT ![t] = TRUE])
    BY DEF Refuse, NoOp
  <1> QED
    BY <1>1, ReturnTarget DEF OpMove

LEMMA ProceedMove ==
  ASSUME Base, NEW t \in Tx, pc[t] \in OpPc, NEW p, NEW e, Proceed(t, p, e), Target(t, p, e),
         UNCHANGED <<clock, session, sweep>>,
         rec' = rec \/ rec' = [rec EXCEPT ![t] = "open"]
  PROVE  OpMove(t) /\ log' = log /\ pc'[t] = p /\ arg'[t] = e
  <1>1. /\ pc' = [pc EXCEPT ![t] = p] /\ arg' = [arg EXCEPT ![t] = e]
        /\ log' = log /\ doomed' = doomed
    BY DEF Proceed, Goto
  <1>2. pc'[t] = p /\ arg'[t] = e
    BY <1>1 DEF Base, TypeOK
  <1> QED
    BY <1>1, <1>2 DEF OpMove

LEMMA EffectMove ==
  ASSUME Base, NEW t \in Tx, pc[t] \in OpPc, Effect(t), arg[t] \in Effects,
         UNCHANGED <<clock, session, sweep>>,
         rec' = rec \/ rec' = [rec EXCEPT ![t] = "open"], rec'[t] = "open"
  PROVE  /\ OpMove(t) /\ pc'[t] \notin MarkPc
         /\ log' = log \/ log' = [log EXCEPT ![t] = Append(@, arg[t])]
  <1>1. /\ Return(t) /\ doomed' = doomed
        /\ log' = log \/ log' = [log EXCEPT ![t] = Append(@, arg[t])]
    BY DEF Effect
  <1> QED
    BY <1>1, ReturnTarget DEF OpMove

\* An operation goes on, or back, and leaves the versions alone.
LEMMA PlainStep ==
  ASSUME StInv, NEW t \in Tx, OpMove(t), log' = log, pc'[t] \notin MarkPc,
         StoreSame, StoreType'
  PROVE  StInv'
  <1>1. Base /\ Order
    BY DEF StInv
  <1>2. Order'
    BY <1>1, SameOrder, OpFrame
  <1>3. \A u \in Tx, n \in Node : RetainsAt(u, n)
    BY SameRetains
  <1>4. pc'[t] \notin {"crossLife", "crossDied", "flipDead", "flipBorn"}
    BY DEF MarkPc
  <1> QED
    BY <1>2, <1>3, <1>4, MarkStep

LEMMA BackStep ==
  ASSUME StInv, NEW t \in Tx, pc[t] \in OpPc, Refuse(t) \/ NoOp(t),
         UNCHANGED <<clock, session, sweep>>, rec' = rec, StoreSame, StoreType'
  PROVE  StInv'
  BY BackMove, PlainStep DEF StInv

LEMMA ProceedStep ==
  ASSUME StInv, NEW t \in Tx, pc[t] \in OpPc, NEW p, NEW e, Proceed(t, p, e), Target(t, p, e),
         p \notin MarkPc,
         UNCHANGED <<clock, session, sweep>>, rec' = rec, StoreSame, StoreType'
  PROVE  StInv'
  BY ProceedMove, PlainStep DEF StInv

\* Everything stored is left alone.
LEMMA Untouched ==
  ASSUME Base, UNCHANGED <<labels, lives, tomb, torn>>
  PROVE  StoreSame /\ StoreType'
  <1>1. StoreSame
    BY DEF StoreSame, labels, lives
  <1>2. bag' \in [Node -> SUBSET Label] /\ tomb' \in [Node -> BOOLEAN] /\ torn' \subseteq Node
    BY StoreSeqs DEF labels
  <1> QED
    BY <1>1, <1>2, StoreTyped DEF StoreSame

LEMMA ClaimLabelStep ==
  ASSUME StInv, NEW t \in Tx, pc[t] \in OpPc, NEW e \in Effects, e.c # Life, ClaimLabel(t, e),
         UNCHANGED <<clock, session, lives, tomb, torn, sweep>>
  PROVE  StInv'
  <1>0. Base /\ Order
    BY DEF StInv
  <1>1. CASE Refuse(t) /\ UNCHANGED <<rec, labels>>
    BY <1>0, <1>1, BackStep, Untouched
  <1>2. CASE Proceed(t, "crossNoop", e) /\ UNCHANGED <<rec, labels>>
    <2>1. Target(t, "crossNoop", e) /\ "crossNoop" \notin MarkPc
      BY DEF Target, LabelPc, MarkPc
    <2> QED
      BY <1>0, <1>2, <2>1, ProceedStep, Untouched
  <1>3. CASE /\ ~Conflicts(t, LabelHead(e.n))
             /\ chain' = [chain EXCEPT ![e.n] = <<[tx |-> t, l |-> e.c, was |-> ~e.v]>> \o @]
             /\ bag' = [bag EXCEPT ![e.n] = WithLabel(@, e.c, e.v)]
             /\ OpenRecord(t)
             /\ Proceed(t, "crossLife", e)
    <2> DEFINE x == [tx |-> t, l |-> e.c, was |-> ~e.v]
    <2>1. e.n \in Node /\ e.c \in Label /\ e.v \in BOOLEAN
      BY DEF Effects
    <2>2. x \in LabelDelta /\ x.tx = t
      BY <2>1 DEF LabelDelta
    <2>3. chain' = [chain EXCEPT ![e.n] = <<x>> \o @]
      BY <1>3
    <2> HIDE DEF x
    <2>4. LabelPush(t, e.n)
      BY <1>3, <2>2, <2>3 DEF LabelPush, lives
    <2>5. rec' = [rec EXCEPT ![t] = "open"] /\ rec'[t] = "open"
      BY <1>0, <1>3 DEF OpenRecord, Base, TypeOK
    <2>6. Target(t, "crossLife", e)
      BY <2>5 DEF Target, LabelPc
    <2>7. OpMove(t) /\ log' = log /\ pc'[t] = "crossLife" /\ arg'[t] = e
      BY <1>0, <1>3, <2>5, <2>6, ProceedMove
    <2>8. chain' \in [Node -> Seq(LabelDelta)]
      <3>1. <<x>> \o chain[e.n] \in Seq(LabelDelta)
        BY <1>0, <2>1, <2>2, StoreSeqs, PushFacts
      <3> QED
        BY <1>0, <2>1, <2>3, <3>1, StoreSeqs
    <2>9. bag' \in [Node -> SUBSET Label]
      BY <1>0, <1>3, <2>1, StoreSeqs DEF WithLabel
    <2>10. StoreType'
      BY <1>0, <2>8, <2>9, StoreSeqs, StoreTypeIs DEF lives
    <2>11. Order'
      BY <1>0, <2>1, <2>4, <2>5, <2>7, OpFrame, LabelPushOrder
    <2>12. InLabels(t, e.n)' /\ \A u \in Tx, n \in Node : RetainsAt(u, n)
      BY <1>0, <2>1, <2>4, LabelPushRetains
    <2>13. InLabels(t, arg[t].n)'
      BY <2>7, <2>12 DEF InLabels
    <2> QED
      BY <2>7, <2>10, <2>11, <2>12, <2>13, MarkStep
  <1> QED
    BY <1>1, <1>2, <1>3 DEF ClaimLabel

LEMMA AddLabelStep ==
  ASSUME StInv, NEW t \in Tx, AddLabel(t)
  PROVE  StInv'
  <1>1. /\ pc[t] = "setLabel" /\ ClaimLabel(t, arg[t])
        /\ UNCHANGED <<clock, session, lives, tomb, torn, sweep>>
    BY DEF AddLabel
  <1>2. pc[t] \in OpPc /\ arg[t] \in Effects /\ arg[t].c # Life
    BY <1>1 DEF StInv, Base, ArgOK, OpPc, LabelPc
  <1> QED
    BY <1>1, <1>2, ClaimLabelStep

LEMMA CallStep ==
  ASSUME StInv, NEW t \in Tx, pc[t] \in OpPc, NEW e \in Effects, Call(t, e),
         UNCHANGED <<clock, session, lives, tomb, torn, sweep>>
  PROVE  StInv'
  <1>0. Base
    BY DEF StInv
  <1>1. CASE e.c = Life /\ ~e.v /\ RemoveNode(t, e)
    <2>1. PICK p \in {"claim", "die"} : Proceed(t, p, e) /\ UNCHANGED <<rec, labels>>
      BY <1>1 DEF RemoveNode
    <2>2. e.v = FALSE
      BY <1>1 DEF Effects
    <2>3. Target(t, p, e) /\ p \notin MarkPc
      BY <1>1, <2>2 DEF Target, DeathPc, MarkPc
    <2> QED
      BY <1>0, <2>1, <2>3, ProceedStep, Untouched
  <1>2. CASE e.c # Life /\ e.v /\ SetNodeLabel(t, e)
    <2>1. UNCHANGED <<rec, labels>> /\ (Refuse(t) \/ Proceed(t, "setLabel", e))
      BY <1>2 DEF SetNodeLabel
    <2>2. Target(t, "setLabel", e) /\ "setLabel" \notin MarkPc
      BY <1>2 DEF Target, LabelPc, MarkPc
    <2> QED
      BY <1>0, <2>1, <2>2, BackStep, ProceedStep, Untouched
  <1>3. CASE e.c # Life /\ ~e.v /\ RemoveNodeLabel(t, e)
    BY <1>3, ClaimLabelStep DEF RemoveNodeLabel
  <1> QED
    BY <1>1, <1>2, <1>3 DEF Call

LEMMA ReviveStep ==
  ASSUME StInv, NEW t \in Tx, pc[t] \in OpPc, NEW e \in Effects, Reviving(e),
         Revive(t, e) \/ AddNode(t, e),
         UNCHANGED <<clock, session, lives, tomb, torn, sweep>>
  PROVE  StInv'
  <1>0. Base
    BY DEF StInv
  <1>1. /\ UNCHANGED <<rec, labels>>
        /\ Refuse(t) \/ NoOp(t) \/ Proceed(t, "born", e) \/ Proceed(t, "flipLive", e)
    BY DEF Revive, AddNode
  <1>2. e.c = Life /\ e.v = TRUE
    BY DEF Reviving, Effects
  <1>3. \A p \in {"born", "flipLive"} : Target(t, p, e) /\ p \notin MarkPc
    BY <1>2 DEF Target, BirthPc, MarkPc
  <1> QED
    BY <1>0, <1>1, <1>3, BackStep, ProceedStep, Untouched

LEMMA OperateStep ==
  ASSUME StInv, NEW t \in Tx, Operate(t)
  PROVE  StInv'
  <1>1. PICK e \in Effects : Call(t, e) \/ (Reviving(e) /\ AddNode(t, e))
    BY DEF Operate
  <1>2. pc[t] \in OpPc /\ UNCHANGED <<clock, session, lives, tomb, torn, sweep>>
    BY DEF Operate, OpPc
  <1> QED
    BY <1>1, <1>2, CallStep, ReviveStep

LEMMA RunInverseStep ==
  ASSUME StInv, NEW t \in Tx, RunInverse(t)
  PROVE  StInv'
  <1>1. pc[t] = "inverse"
    BY DEF RunInverse
  <1>2. pc[t] \in OpPc /\ arg[t] \in Effects
    BY <1>1 DEF StInv, Base, ArgOK, OpPc
  <1>3. /\ Call(t, arg[t]) \/ (Reviving(arg[t]) /\ Revive(t, arg[t]))
        /\ UNCHANGED <<clock, session, lives, tomb, torn, sweep>>
    BY DEF RunInverse
  <1> QED
    BY <1>2, <1>3, CallStep, ReviveStep

LEMMA CrossCheckNodeLifeStep ==
  ASSUME StInv, NEW t \in Tx, CrossCheckNodeLife(t)
  PROVE  StInv'
  <1>0. Base /\ Order
    BY DEF StInv
  <1>1. /\ pc[t] \in {"crossLife", "crossNoop"}
        /\ UNCHANGED <<clock, rec, session, labels, lives, tomb, torn, sweep>>
    BY DEF CrossCheckNodeLife
  <1>2. pc[t] \in OpPc /\ arg[t] \in Effects /\ arg[t].c # Life
    BY <1>0, <1>1 DEF Base, ArgOK, OpPc, LabelPc
  <1>3. StoreSame /\ StoreType'
    BY <1>0, <1>1, Untouched
  <1>4. CASE Refuse(t) \/ NoOp(t)
    BY <1>1, <1>2, <1>3, <1>4, BackStep
  <1>5. CASE pc[t] = "crossLife" /\ Effect(t) /\ ~Conflicts(t, LifeHead(arg[t].n))
    <2>1. rec[t] = "open"
      BY <1>0, <1>5 DEF Base, PlaceOK
    <2>2. /\ OpMove(t) /\ pc'[t] \notin MarkPc
          /\ log' = log \/ log' = [log EXCEPT ![t] = Append(@, arg[t])]
      BY <1>0, <1>1, <1>2, <1>5, <2>1, EffectMove
    <2>3. Order' /\ \A u \in Tx, n \in Node : RetainsAt(u, n)
      BY <1>0, <1>3, <2>2, OpFrame, SameOrder, SameRetains
    <2>4. arg[t].n \in Node
      BY <1>2 DEF Effects
    <2>5. LabelsSeen(t, arg[t].n) /\ LabelMark(t, arg[t].n)
      BY <1>5, <2>4, LabelCrossed DEF LabelMark
    <2>6. CASE log' = log
      BY <1>3, <2>2, <2>6, PlainStep
    <2>7. CASE log' = [log EXCEPT ![t] = Append(@, arg[t])]
      BY <1>2, <1>3, <2>2, <2>3, <2>5, <2>7, EffectStep
    <2> QED
      BY <2>2, <2>6, <2>7
  <1> QED
    BY <1>4, <1>5 DEF CrossCheckNodeLife

LEMMA NoteNodeClaimStep ==
  ASSUME StInv, NEW t \in Tx, NoteNodeClaim(t)
  PROVE  StInv'
  <1>0. Base /\ Order
    BY DEF StInv
  <1>1. /\ pc[t] = "claim"
        /\ UNCHANGED <<clock, session, labels, born, died, tomb, torn, sweep>>
    BY DEF NoteNodeClaim
  <1>2. /\ pc[t] \in OpPc /\ arg[t] \in Effects /\ arg[t].c = Life /\ arg[t].v = FALSE
        /\ arg[t].n \in Node
    BY <1>0, <1>1 DEF Base, ArgOK, OpPc, DeathPc, Effects
  <1>3. CASE Refuse(t) /\ UNCHANGED <<rec, claim>>
    <2>1. StoreSame /\ StoreType'
      BY <1>0, <1>1, <1>3, Untouched DEF lives
    <2> QED
      BY <1>1, <1>2, <1>3, <2>1, BackStep
  <1>4. CASE /\ ~Conflicts(t, LifeHead(arg[t].n))
             /\ claim' = [claim EXCEPT ![arg[t].n] = t]
             /\ OpenRecord(t)
             /\ Proceed(t, "crossDead", arg[t])
    <2>1. rec' = [rec EXCEPT ![t] = "open"] /\ rec'[t] = "open"
      BY <1>0, <1>4 DEF OpenRecord, Base, TypeOK
    <2>2. Target(t, "crossDead", arg[t]) /\ "crossDead" \notin {"crossLife", "crossDied", "flipDead", "flipBorn"}
      BY <1>2, <2>1 DEF Target, DeathPc
    <2>3. OpMove(t) /\ log' = log /\ pc'[t] = "crossDead"
      BY <1>0, <1>1, <1>2, <1>4, <2>1, <2>2, ProceedMove
    <2>4. SeesLife(t, arg[t].n)
      BY <1>0, <1>2, <1>4, AdmitLife
    <2>5. ClaimPush(t, arg[t].n)
      BY <1>1, <1>4, <2>4 DEF ClaimPush, labels
    <2>6. claim' \in [Node -> Tx \union {NoTx}]
      BY <1>0, <1>2, <1>4, StoreSeqs
    <2>7. StoreType'
      BY <1>0, <1>1, <2>6, StoreSeqs, StoreTypeIs DEF labels
    <2>8. Order'
      BY <1>0, <1>2, <2>1, <2>3, <2>5, OpFrame, ClaimPushOrder
    <2>9. \A u \in Tx, n \in Node : RetainsAt(u, n)
      BY <2>5, ClaimPushRetains
    <2> QED
      BY <2>2, <2>3, <2>7, <2>8, <2>9, MarkStep
  <1> QED
    BY <1>3, <1>4 DEF NoteNodeClaim

\* torn is a set of nodes.
LEMMA TearType ==
  ASSUME Base, NEW t, NEW n \in Node, NEW v, Tear(t, n, v)
  PROVE  torn' \subseteq Node
  BY StoreSeqs DEF Tear

LEMMA DisplacingType ==
  ASSUME NEW s \in Seq(LifeRecord), NEW x \in LifeRecord
  PROVE  Displacing(s, x) \in Seq(LifeRecord)
  BY DisplacingKeeps

LEMMA NewbornType ==
  ASSUME Base, Order, NEW t \in Tx, NEW n \in Node, NEW b \in BOOLEAN
  PROVE  Newborn(t, n, [tx |-> t, seq |-> NewestSeq(n) + 1, was |-> b])
  <1>1. NewestSeq(n) + 1 \in Nat
    BY NewestFacts
  <1> QED
    BY <1>1 DEF Newborn, LifeRecord

LEMMA NoteNodeDiedStep ==
  ASSUME StInv, NEW t \in Tx, NoteNodeDied(t)
  PROVE  StInv'
  <1>0. Base /\ Order
    BY DEF StInv
  <1>1. /\ pc[t] = "die"
        /\ UNCHANGED <<clock, session, labels, born, claim, tomb, sweep>>
    BY DEF NoteNodeDied
  <1>2. /\ pc[t] \in OpPc /\ arg[t] \in Effects /\ arg[t].c = Life /\ arg[t].v = FALSE
        /\ arg[t].n \in Node
    BY <1>0, <1>1 DEF Base, ArgOK, OpPc, DeathPc, Effects
  <1>3. CASE Refuse(t) /\ UNCHANGED <<rec, died, torn>>
    <2>1. StoreSame /\ StoreType'
      BY <1>0, <1>1, <1>3, Untouched DEF lives
    <2> QED
      BY <1>1, <1>2, <1>3, <2>1, BackStep
  <1> DEFINE x == [tx |-> t, seq |-> NewestSeq(arg[t].n) + 1, was |-> FALSE]
  <1>4. CASE /\ ~Conflicts(t, LifeHead(arg[t].n))
             /\ died' = [died EXCEPT ![arg[t].n] = Displacing(@, x)]
             /\ Tear(t, arg[t].n, FALSE)
             /\ OpenRecord(t)
             /\ Proceed(t, "crossDied", arg[t])
    <2>1. rec' = [rec EXCEPT ![t] = "open"] /\ rec'[t] = "open"
      BY <1>0, <1>4 DEF OpenRecord, Base, TypeOK
    <2>2. Target(t, "crossDied", arg[t])
      BY <1>2, <2>1 DEF Target, DeathPc
    <2>3. OpMove(t) /\ log' = log /\ pc'[t] = "crossDied" /\ arg'[t] = arg[t]
      BY <1>0, <1>1, <1>2, <1>4, <2>1, <2>2, ProceedMove
    <2>4. SeesLife(t, arg[t].n)
      BY <1>0, <1>2, <1>4, AdmitLife
    <2>5. Newborn(t, arg[t].n, x)
      BY <1>0, <1>2, NewbornType
    <2> HIDE DEF x
    <2>6. DeathPush(t, arg[t].n)
      BY <1>1, <1>4, <2>4, <2>5 DEF DeathPush, labels
    <2>7. died' \in [Node -> Seq(LifeRecord)]
      BY <1>0, <1>2, <1>4, <2>5, StoreSeqs, DisplacingType DEF Newborn
    <2>8. StoreType'
      BY <1>0, <1>1, <1>2, <1>4, <2>7, StoreSeqs, StoreTypeIs, TearType DEF labels
    <2>9. PICK n \in Node : n = arg[t].n
      BY <1>2
    <2>10. Order'
      BY <1>0, <1>2, <2>1, <2>3, <2>6, <2>9, OpFrame, DeathPushOrder
    <2>11. InLife(t, n)' /\ \A u \in Tx, m \in Node : RetainsAt(u, m)
      BY <1>0, <2>6, <2>9, DeathPushRetains
    <2>12. InLife(t, arg[t].n)'
      BY <2>3, <2>9, <2>11 DEF InLife, Records
    <2> QED
      BY <2>3, <2>8, <2>10, <2>11, <2>12, MarkStep
  <1> QED
    BY <1>3, <1>4 DEF NoteNodeDied

LEMMA CrossCheckLabelsStep ==
  ASSUME StInv, NEW t \in Tx, CrossCheckLabels(t)
  PROVE  StInv'
  <1>0. Base /\ Order
    BY DEF StInv
  <1>1. /\ pc[t] \in {"crossDead", "crossDied"}
        /\ UNCHANGED <<clock, rec, session, labels, lives, tomb, torn, sweep>>
    BY DEF CrossCheckLabels
  <1>2. /\ pc[t] \in OpPc /\ arg[t] \in Effects /\ arg[t].c = Life /\ arg[t].v = FALSE
        /\ arg[t].n \in Node
    BY <1>0, <1>1 DEF Base, ArgOK, OpPc, DeathPc, Effects
  <1>3. StoreSame /\ StoreType'
    BY <1>0, <1>1, Untouched
  <1>4. CASE Refuse(t) \/ NoOp(t)
    BY <1>1, <1>2, <1>3, <1>4, BackStep
  <1>5. CASE /\ ~Conflicts(t, LabelHead(arg[t].n)) /\ pc[t] = "crossDied"
             /\ Proceed(t, "flipDead", arg[t])
    <2>1. rec'[t] = "open"
      BY <1>0, <1>1, <1>5 DEF Base, PlaceOK
    <2>2. Target(t, "flipDead", arg[t])
      BY <1>2, <2>1 DEF Target, DeathPc
    <2>3. OpMove(t) /\ log' = log /\ pc'[t] = "flipDead" /\ arg'[t] = arg[t]
      BY <1>0, <1>1, <1>2, <1>5, <2>2, ProceedMove
    <2>4. Order' /\ \A u \in Tx, n \in Node : RetainsAt(u, n)
      BY <1>0, <1>3, <2>3, OpFrame, SameOrder, SameRetains
    <2>5. LifeMark(t, arg'[t].n)
      BY <1>5, <2>3 DEF LifeMark
    <2>6. RemovesSeen(t, arg'[t].n)
      BY <1>2, <1>5, <2>3, RemovalCrossed
    <2> QED
      BY <1>3, <2>3, <2>4, <2>5, <2>6, MarkStep
  <1> QED
    BY <1>4, <1>5 DEF CrossCheckLabels

\* An effect of a life record that has its version already.
LEMMA FlipEffect ==
  ASSUME StInv, NEW t \in Tx, pc[t] \in {"flipDead", "flipBorn"}, Effect(t),
         UNCHANGED <<clock, rec, session, sweep>>, StoreSame, StoreType'
  PROVE  StInv'
  <1>0. Base /\ Order
    BY DEF StInv
  <1>1. pc[t] \in OpPc /\ rec[t] = "open"
    BY <1>0 DEF Base, PlaceOK, OpPc, DeathPc, BirthPc
  <1>2. /\ arg[t] \in Effects /\ arg[t].c = Life
        /\ arg[t].v = FALSE => pc[t] = "flipDead"
    BY <1>0 DEF Base, ArgOK, DeathPc, BirthPc
  <1>3. arg[t].n \in Node
    BY <1>2 DEF Effects
  <1>4. /\ OpMove(t) /\ pc'[t] \notin MarkPc
        /\ log' = log \/ log' = [log EXCEPT ![t] = Append(@, arg[t])]
    BY <1>0, <1>1, <1>2, EffectMove
  <1>5. Order' /\ \A u \in Tx, n \in Node : RetainsAt(u, n)
    BY <1>0, <1>4, OpFrame, SameOrder, SameRetains
  <1>6. LivesSeen(t, arg[t].n) /\ LifeMark(t, arg[t].n)
    BY <1>3, LifeFlipped
  <1>7. arg[t].v = FALSE => Removes(t, arg[t].n)
    BY <1>2 DEF Removes
  <1>8. CASE log' = log
    BY <1>4, <1>8, PlainStep
  <1>9. CASE log' = [log EXCEPT ![t] = Append(@, arg[t])]
    <2>1. PICK e \in Effects : e = arg[t]
      BY <1>2
    <2> QED
      BY <1>2, <1>4, <1>5, <1>6, <1>7, <1>9, <2>1, EffectStep
  <1> QED
    BY <1>4, <1>8, <1>9

LEMMA FlipDeadStep ==
  ASSUME StInv, NEW t \in Tx, FlipDead(t)
  PROVE  StInv'
  <1>0. Base
    BY DEF StInv
  <1>1. /\ pc[t] = "flipDead" /\ Effect(t)
        /\ tomb' = [tomb EXCEPT ![arg[t].n] = TRUE]
        /\ UNCHANGED <<clock, rec, session, labels, lives, torn, sweep>>
    BY DEF FlipDead
  <1>2. tomb' \in [Node -> BOOLEAN]
    BY <1>0, <1>1, StoreSeqs
  <1>3. StoreSame
    BY <1>1 DEF StoreSame, labels, lives
  <1>4. bag' \in [Node -> SUBSET Label] /\ torn' \subseteq Node
    BY <1>0, <1>1, StoreSeqs DEF labels
  <1>5. StoreType'
    BY <1>0, <1>2, <1>3, <1>4, StoreTyped DEF StoreSame
  <1> QED
    BY <1>1, <1>3, <1>5, FlipEffect

LEMMA FlipLiveStep ==
  ASSUME StInv, NEW t \in Tx, FlipLive(t)
  PROVE  StInv'
  <1>0. Base
    BY DEF StInv
  <1>1. /\ pc[t] \in {"flipBorn", "flipLive"}
        /\ tomb' = [tomb EXCEPT ![arg[t].n] = FALSE]
        /\ UNCHANGED <<clock, rec, session, labels, lives, sweep>>
    BY DEF FlipLive
  <1>2. /\ pc[t] \in OpPc /\ arg[t] \in Effects /\ arg[t].c = Life /\ arg[t].v = TRUE
        /\ arg[t].n \in Node
    BY <1>0, <1>1 DEF Base, ArgOK, OpPc, BirthPc, Effects
  <1>3. tomb' \in [Node -> BOOLEAN]
    BY <1>0, <1>1, StoreSeqs
  <1>4. torn' \subseteq Node
    BY <1>0, <1>2, StoreSeqs DEF FlipLive
  <1>5. StoreSame /\ bag' \in [Node -> SUBSET Label]
    BY <1>0, <1>1, StoreSeqs DEF StoreSame, labels, lives
  <1>6. StoreType'
    BY <1>0, <1>3, <1>4, <1>5, StoreTyped DEF StoreSame
  <1>7. \/ pc[t] = "flipBorn" /\ Effect(t)
        \/ Proceed(t, "lateBorn", arg[t])
        \/ NoOp(t)
    BY <1>1 DEF FlipLive
  <1>8. CASE pc[t] = "flipBorn" /\ Effect(t)
    BY <1>1, <1>5, <1>6, <1>8, FlipEffect
  <1>9. CASE Proceed(t, "lateBorn", arg[t])
    <2>1. Target(t, "lateBorn", arg[t]) /\ "lateBorn" \notin MarkPc
      BY <1>2 DEF Target, BirthPc, MarkPc
    <2> QED
      BY <1>1, <1>2, <1>5, <1>6, <1>9, <2>1, ProceedStep
  <1>10. CASE NoOp(t)
    BY <1>1, <1>2, <1>5, <1>6, <1>10, BackStep
  <1> QED
    BY <1>7, <1>8, <1>9, <1>10

\* A birth that is recorded.
LEMMA RecordBirthFacts ==
  ASSUME StInv, NEW t \in Tx, pc[t] \in OpPc, NEW n \in Node, n = arg[t].n,
         ~BirthRefused(t, n), RecordBirth(t, n),
         UNCHANGED <<labels, died, claim, tomb>>
  PROVE  /\ BirthPush(t, n) /\ SeesLife(t, n) /\ StoreType'
         /\ rec' = [rec EXCEPT ![t] = "open"] /\ rec'[t] = "open"
         /\ InLife(t, n)' /\ \A u \in Tx, m \in Node : RetainsAt(u, m)
  <1>0. Base /\ Order
    BY DEF StInv
  <1> DEFINE x == [tx |-> t, seq |-> NewestSeq(n) + 1, was |-> AliveBeforeTx(n, t)]
  <1>1. born' = [born EXCEPT ![n] = Displacing(@, x)] /\ OpenRecord(t) /\ Tear(t, n, TRUE)
    BY DEF RecordBirth
  <1>2. AliveBeforeTx(n, t) \in BOOLEAN
    <2>1. \A r \in LifeRecord : r.was \in BOOLEAN
      BY DEF LifeRecord
    <2>2. born[n] # <<>> => Head(born[n]) \in LifeRecord
      BY <1>0, NewestFacts, LifeType
    <2> QED
      BY <2>1, <2>2 DEF AliveBeforeTx
  <1>3. Newborn(t, n, x)
    BY <1>0, <1>2, NewbornType
  <1> HIDE DEF x
  <1>4. SeesLife(t, n)
    BY <1>0, AdmitLife DEF BirthRefused
  <1>5. BirthPush(t, n)
    BY <1>1, <1>3, <1>4 DEF BirthPush, labels
  <1>6. rec' = [rec EXCEPT ![t] = "open"] /\ rec'[t] = "open"
    BY <1>0, <1>1 DEF OpenRecord, Base, TypeOK
  <1>7. born' \in [Node -> Seq(LifeRecord)]
    BY <1>0, <1>1, <1>3, StoreSeqs, DisplacingType DEF Newborn
  <1>8. StoreType'
    BY <1>0, <1>1, <1>7, StoreSeqs, StoreTypeIs, TearType DEF labels
  <1> QED
    BY <1>0, <1>4, <1>5, <1>6, <1>8, BirthPushRetains

LEMMA NoteNodeRevivedStep ==
  ASSUME StInv, NEW t \in Tx, NoteNodeRevived(t)
  PROVE  StInv'
  <1>0. Base /\ Order
    BY DEF StInv
  <1>1. /\ pc[t] = "born"
        /\ UNCHANGED <<clock, session, labels, died, claim, tomb, sweep>>
    BY DEF NoteNodeRevived
  <1>2. /\ pc[t] \in OpPc /\ arg[t] \in Effects /\ arg[t].c = Life /\ arg[t].v = TRUE
    BY <1>0, <1>1 DEF Base, ArgOK, OpPc, BirthPc
  <1>3. PICK n \in Node : n = arg[t].n
    BY <1>2 DEF Effects
  <1>4. CASE Refuse(t) /\ UNCHANGED <<rec, born, torn>>
    <2>1. StoreSame /\ StoreType'
      BY <1>0, <1>1, <1>4, Untouched DEF lives
    <2> QED
      BY <1>1, <1>2, <1>4, <2>1, BackStep
  <1>5. CASE ~BirthRefused(t, n) /\ RecordBirth(t, n) /\ Proceed(t, "flipBorn", arg[t])
    <2>1. /\ BirthPush(t, n) /\ StoreType'
          /\ rec' = [rec EXCEPT ![t] = "open"] /\ rec'[t] = "open"
          /\ InLife(t, n)' /\ \A u \in Tx, m \in Node : RetainsAt(u, m)
      BY <1>1, <1>2, <1>3, <1>5, RecordBirthFacts
    <2>2. Target(t, "flipBorn", arg[t])
      BY <1>2, <2>1 DEF Target, BirthPc
    <2>3. OpMove(t) /\ log' = log /\ pc'[t] = "flipBorn" /\ arg'[t] = arg[t]
      BY <1>0, <1>1, <1>2, <1>5, <2>1, <2>2, ProceedMove
    <2>4. Order'
      BY <1>0, <1>2, <2>1, <2>3, OpFrame, BirthPushOrder
    <2>5. InLife(t, arg[t].n)'
      BY <1>3, <2>1, <2>3 DEF InLife, Records
    <2> QED
      BY <2>1, <2>3, <2>4, <2>5, MarkStep
  <1> QED
    BY <1>3, <1>4, <1>5 DEF NoteNodeRevived

LEMMA LateNodeRevivedStep ==
  ASSUME StInv, NEW t \in Tx, LateNodeRevived(t)
  PROVE  StInv'
  <1>0. Base /\ Order
    BY DEF StInv
  <1>1. /\ pc[t] = "lateBorn"
        /\ UNCHANGED <<clock, session, labels, died, claim, tomb, sweep>>
    BY DEF LateNodeRevived
  <1>2. /\ pc[t] \in OpPc /\ arg[t] \in Effects /\ arg[t].c = Life /\ arg[t].v = TRUE
    BY <1>0, <1>1 DEF Base, ArgOK, OpPc, BirthPc
  <1>3. PICK n \in Node : n = arg[t].n
    BY <1>2 DEF Effects
  <1>4. CASE Refuse(t) /\ UNCHANGED <<rec, born, torn>>
    <2>1. StoreSame /\ StoreType'
      BY <1>0, <1>1, <1>4, Untouched DEF lives
    <2> QED
      BY <1>1, <1>2, <1>4, <2>1, BackStep
  <1>5. CASE ~BirthRefused(t, n) /\ RecordBirth(t, n) /\ Effect(t)
    <2>1. /\ BirthPush(t, n) /\ StoreType' /\ SeesLife(t, n)
          /\ rec' = [rec EXCEPT ![t] = "open"] /\ rec'[t] = "open"
          /\ InLife(t, n)' /\ \A u \in Tx, m \in Node : RetainsAt(u, m)
      BY <1>1, <1>2, <1>3, <1>5, RecordBirthFacts
    <2>2. /\ OpMove(t) /\ pc'[t] \notin MarkPc
          /\ log' = log \/ log' = [log EXCEPT ![t] = Append(@, arg[t])]
      BY <1>0, <1>1, <1>2, <1>5, <2>1, EffectMove
    <2>3. Order'
      BY <1>0, <1>2, <2>1, <2>2, OpFrame, BirthPushOrder
    <2>4. LivesSeen(t, n)
      BY <1>2, <2>1, LifeSeen
    <2>5. CASE log' = log
      <3>1. pc'[t] \notin {"crossLife", "crossDied", "flipDead", "flipBorn"}
        BY <2>2 DEF MarkPc
      <3> QED
        BY <2>1, <2>2, <2>3, <2>5, <3>1, MarkStep
    <2>6. CASE log' = [log EXCEPT ![t] = Append(@, arg[t])]
      <3>1. PICK e \in Effects : e = arg[t]
        BY <1>2
      <3>2. e.n = n /\ e.c = Life /\ e.v = TRUE
        BY <1>2, <1>3, <3>1
      <3>3. InLife(t, e.n)'
        BY <2>1, <3>2
      <3> QED
        BY <2>1, <2>2, <2>3, <2>4, <2>6, <3>1, <3>2, <3>3, EffectStep
    <2> QED
      BY <2>2, <2>5, <2>6
  <1> QED
    BY <1>3, <1>4, <1>5 DEF LateNodeRevived

----------------------------------------------------------------------------
(* The other steps of a transaction, and the sweeper's.                    *)

\* A transaction's own step, between its operations.
LEMMA SessionStep ==
  ASSUME StInv, NEW t \in Tx,
         \/ Begin(t) \/ EnterUndo(t) \/ ExitUndo(t) \/ NextInverse(t) \/ Allocate(t)
         \/ Commit(t) \/ EndEmpty(t) \/ Abort(t) \/ AcquireSweeper(t) \/ ReleaseSweeper(t)
  PROVE  StInv'
  <1>0. Base /\ Order
    BY DEF StInv
  <1>1. Base' /\ Steady /\ \A x \in Tx : x # t => Unmoved(x)
    BY <1>0, BeginBase, ReplayBase, NextInverseBase, AllocateBase, CommitBase, EndEmptyBase,
       AbortBase, AcquireBase, ReleaseBase
  <1>2. StoreSame
    BY DEF Begin, EnterUndo, ExitUndo, NextInverse, Allocate, Commit, EndEmpty, Abort,
           AcquireSweeper, ReleaseSweeper, StoreSame, labels, lives
  <1>3. LogFewer(t)
    <2>1. CASE NextInverse(t)
      <3>1. log[t] # <<>> /\ log' = [log EXCEPT ![t] = Front(@)]
        BY <2>1 DEF NextInverse
      <3>2. log \in [Tx -> Seq(Effects)]
        BY <1>0 DEF Base, TypeOK
      <3>3. log'[t] = Front(log[t]) /\ ToSet(Front(log[t])) \subseteq ToSet(log[t])
        BY <3>1, <3>2, LogEnds
      <3> QED
        BY <3>3 DEF LogFewer
    <2>2. CASE ~NextInverse(t)
      <3>1. log' = log
        BY <2>2 DEF Begin, EnterUndo, ExitUndo, Allocate, Commit, EndEmpty, Abort,
                    AcquireSweeper, ReleaseSweeper
      <3> QED
        BY <3>1 DEF LogFewer
    <2> QED
      BY <2>1, <2>2
  <1>4. pc'[t] \notin MarkPc
    <2>1. \E p \in {"ready", "undo", "unwound", "inverse", "commit", "ended", "aborted", "withdraw"} :
            pc' = [pc EXCEPT ![t] = p]
      BY DEF Begin, EnterUndo, ExitUndo, NextInverse, Allocate, Commit, EndEmpty, Abort,
             AcquireSweeper, ReleaseSweeper, Step, Goto, Leave
    <2>2. pc \in [Tx -> Pcs]
      BY <1>0 DEF Base
    <2> QED
      BY <2>1, <2>2 DEF MarkPc
  <1>5. Order'
    BY <1>0, <1>1, <1>2, SameOrder
  <1> QED
    BY <1>1, <1>2, <1>3, <1>4, <1>5, SameRetains, QuietStep DEF Subsides

LEMMA PassStep ==
  ASSUME StInv, FrontierPasses
  PROVE  StInv'
  <1>0. Base /\ Order
    BY DEF StInv
  <1>1. Base' /\ Steady /\ \A x \in Tx : Unmoved(x)
    BY <1>0, PassBase
  <1>2. StoreSame
    BY DEF FrontierPasses, StoreSame, labels, lives
  <1> QED
    BY <1>0, <1>1, <1>2, SameOrder, SameRetains, StillStep

LEMMA TrimStep ==
  ASSUME StInv, Base', Steady, \A x \in Tx : Unmoved(x), NEW n \in Node, NEW w, Trims(n, w)
  PROVE  StInv'
  <1>0. Base /\ Order
    BY DEF StInv
  <1> QED
    BY <1>0, TrimOrder, TrimRetains, StillStep

LEMMA SweeperStep ==
  ASSUME StInv, NEW n \in Node,
         \/ \E w \in 1 .. frontier : ReclaimLabels(n, w) \/ ReclaimNodeLife(n, w)
         \/ \E t \in Tx : WithdrawLabels(t, n) \/ WithdrawLife(t, n) \/ SettleFlip(t, n)
  PROVE  StInv'
  <1>0. Base /\ Order
    BY DEF StInv
  <1>1. ASSUME NEW w, ReclaimLabels(n, w) PROVE StInv'
    BY <1>0, <1>1, ReclaimLabelsBase, TrimStep
  <1>2. ASSUME NEW w, ReclaimNodeLife(n, w) PROVE StInv'
    BY <1>0, <1>2, ReclaimLifeBase, TrimStep
  <1>3. ASSUME NEW t \in Tx, WithdrawLabels(t, n) PROVE StInv'
    BY <1>0, <1>3, WithdrawLabelsBase, TrimStep
  <1>4. ASSUME NEW t \in Tx, WithdrawLife(t, n) PROVE StInv'
    BY <1>0, <1>4, WithdrawLifeBase, TrimStep
  <1>5. ASSUME NEW t \in Tx, SettleFlip(t, n) PROVE StInv'
    BY <1>0, <1>5, SettleBase, SameOrder, SameRetains, StillStep
  <1> QED
    BY <1>1, <1>2, <1>3, <1>4, <1>5

LEMMA StutterStep ==
  ASSUME StInv, UNCHANGED vars
  PROVE  StInv'
  <1>0. Base /\ Order
    BY DEF StInv
  <1>1. /\ UNCHANGED clock
        /\ UNCHANGED <<rec, session, doomed, pc, arg, log>>
        /\ UNCHANGED <<labels, lives, tomb, torn>> /\ UNCHANGED sweep
    BY DEF vars
  <1>2. StoreSame /\ StoreType'
    BY <1>0, <1>1, Untouched
  <1>3. /\ at' = at /\ frontier' = frontier /\ water' = water /\ owed' = owed
        /\ sweeper' = sweeper /\ pin' = pin
    BY <1>1 DEF clock, sweep, session
  <1>4. ClockOK' /\ WaterOK'
    BY <1>0, <1>1, <1>3, ClockSame DEF Base, WaterOK
  <1>5. /\ owed' \in [Node -> {"none", "live", "dead"}] /\ sweeper' \in Tx \union {NoTx}
        /\ water' \in Stamps /\ frontier <= frontier' /\ water <= water'
    BY <1>0, <1>3, StoreSeqs, Numbers
  <1>6. Base' /\ Steady /\ \A x \in Tx : Unmoved(x)
    BY <1>0, <1>1, <1>2, <1>3, <1>4, <1>5, StillBase
  <1> QED
    BY <1>0, <1>2, <1>6, SameOrder, SameRetains, StillStep

LEMMA InitInv == Init => StInv
  <1> SUFFICES ASSUME Init PROVE StInv
    OBVIOUS
  <1>1. /\ at = [t \in Tx |-> 0] /\ outcome = [t \in Tx |-> "none"]
        /\ allocated = 0 /\ frontier = 0 /\ water = 0 /\ torn = {} /\ sweeper = NoTx
        /\ rec = [t \in Tx |-> "none"] /\ start = [t \in Tx |-> 0] /\ pin = [t \in Tx |-> -1]
        /\ doomed = [t \in Tx |-> FALSE] /\ undoing = [t \in Tx |-> FALSE]
        /\ pc = [t \in Tx |-> "idle"] /\ arg = [t \in Tx |-> Nothing]
        /\ log = [t \in Tx |-> <<>>]
        /\ chain = [n \in Node |-> <<>>] /\ born = [n \in Node |-> <<>>]
        /\ died = [n \in Node |-> <<>>] /\ claim = [n \in Node |-> NoTx]
        /\ bag = [n \in Node |-> {l \in Label : <<n, l>> \in Labelled}]
        /\ tomb = [n \in Node |-> n \in Dead] /\ owed = [n \in Node |-> "none"]
    BY DEF Init, F!Init
  <1>2. 0 \in Stamps
    BY StartTS DEF Stamps
  <1>3. tomb \in [Node -> BOOLEAN] /\ doomed \in [Tx -> BOOLEAN] /\ undoing \in [Tx -> BOOLEAN]
    <2>1. \A n \in Node : (n \in Dead) \in BOOLEAN
      OBVIOUS
    <2>2. tomb = [n \in Node |-> n \in Dead] /\ doomed = [t \in Tx |-> FALSE]
          /\ undoing = [t \in Tx |-> FALSE]
      BY <1>1
    <2>3. tomb \in [Node -> BOOLEAN]
      BY <2>1, <2>2
    <2> QED
      BY <2>2, <2>3
  <1>4. /\ log \in [Tx -> Seq(Effects)]
        /\ chain \in [Node -> Seq([tx : Tx, l : Label, was : BOOLEAN])]
        /\ born \in [Node -> Seq([tx : Tx, seq : Nat, was : BOOLEAN])]
        /\ died \in [Node -> Seq([tx : Tx, seq : Nat, was : BOOLEAN])]
    BY <1>1
  <1>5. TypeOK
    BY <1>1, <1>2, <1>3, <1>4 DEF TypeOK
  <1>6. "idle" \in Pcs /\ "idle" \notin ActivePc /\ "idle" \notin UndoPc
    BY DEF Pcs, ActivePc, OpPc, UndoPc, LabelPc, DeathPc, BirthPc
  <1>7. ClockOK
    <2>1. Stamped = {}
      BY <1>1 DEF Stamped
    <2> QED
      BY <1>1, <2>1, FS_EmptySet DEF ClockOK
  <1>8. WaterOK
    BY <1>1 DEF WaterOK
  <1>9. \A t \in Tx : ArgOK(t) /\ PlaceOK(t) /\ TimeOK(t)
    <2> TAKE t \in Tx
    <2>1. /\ pc[t] = "idle" /\ rec[t] = "none" /\ at[t] = 0 /\ log[t] = <<>>
          /\ undoing[t] = FALSE
      BY <1>1
    <2>2. ArgOK(t)
      BY <2>1 DEF ArgOK, LabelPc, DeathPc, BirthPc
    <2>3. PlaceOK(t)
      BY <1>6, <2>1 DEF PlaceOK
    <2>4. TimeOK(t)
      BY <1>6, <2>1 DEF TimeOK
    <2> QED
      BY <2>2, <2>3, <2>4
  <1>10. Base
    BY <1>1, <1>5, <1>6, <1>7, <1>8, <1>9 DEF Base
  <1>11. Order
    <2> SUFFICES ASSUME NEW n \in Node PROVE ChainOK(n) /\ LifeOK(n) /\ ClaimOK(n)
      BY DEF Order
    <2>1. chain[n] = <<>> /\ born[n] = <<>> /\ died[n] = <<>> /\ claim[n] = NoTx
      BY <1>1
    <2>2. Records(n) = {}
      BY <2>1 DEF Records, ToSet
    <2>3. ChainOK(n)
      BY <2>1 DEF ChainOK, Sorted
    <2>4. LifeOK(n)
      BY <2>1, <2>2 DEF LifeOK, Descending
    <2> QED
      BY <2>1, <2>3, <2>4 DEF ClaimOK
  <1>12. \A u \in Tx, n \in Node : ~Labels(u, n) /\ ~Lives(u, n) /\ ~Removes(u, n)
    BY <1>1, <1>10, MarkBegun
  <1>13. Kept
    BY <1>1, <1>12 DEF Kept, KeptOK, LabelMark, LifeMark
  <1>14. Journalled
    BY <1>12 DEF Journalled, JournalOK
  <1> QED
    BY <1>10, <1>11, <1>13, <1>14 DEF StInv

\* Every step keeps the chains in commit order, and every journalled effect
\* its version and its place among those it collides with.
THEOREM Invariance == Spec => []StInv
  <1>1. StInv /\ [Next]_vars => StInv'
    <2> SUFFICES ASSUME StInv, [Next]_vars PROVE StInv'
      OBVIOUS
    <2>1. CASE FrontierPasses
      BY <2>1, PassStep
    <2>2. CASE Finished \/ UNCHANGED vars
      BY <2>2, StutterStep DEF Finished
    <2>3. ASSUME NEW n \in Node, NEW w \in 1 .. frontier,
                 ReclaimLabels(n, w) \/ ReclaimNodeLife(n, w)
          PROVE  StInv'
      BY <2>3, SweeperStep
    <2>4. ASSUME NEW t \in Tx,
                 \/ Begin(t) \/ EnterUndo(t) \/ ExitUndo(t) \/ NextInverse(t) \/ Allocate(t)
                 \/ Commit(t) \/ EndEmpty(t) \/ Abort(t) \/ AcquireSweeper(t) \/ ReleaseSweeper(t)
          PROVE  StInv'
      BY <2>4, SessionStep
    <2>5. ASSUME NEW t \in Tx,
                 \/ Operate(t) \/ RunInverse(t)
                 \/ AddLabel(t) \/ CrossCheckNodeLife(t)
                 \/ NoteNodeClaim(t) \/ NoteNodeDied(t) \/ CrossCheckLabels(t) \/ FlipDead(t)
                 \/ NoteNodeRevived(t) \/ FlipLive(t) \/ LateNodeRevived(t)
          PROVE  StInv'
      BY <2>5, OperateStep, RunInverseStep, AddLabelStep, CrossCheckNodeLifeStep,
         NoteNodeClaimStep, NoteNodeDiedStep, CrossCheckLabelsStep, FlipDeadStep,
         NoteNodeRevivedStep, FlipLiveStep, LateNodeRevivedStep
    <2>6. ASSUME NEW t \in Tx, NEW n \in Node,
                 WithdrawLabels(t, n) \/ WithdrawLife(t, n) \/ SettleFlip(t, n)
          PROVE  StInv'
      BY <2>6, SweeperStep
    <2> QED
      BY <2>1, <2>2, <2>3, <2>4, <2>5, <2>6 DEF Next
  <1> QED
    BY <1>1, InitInv, PTL DEF Spec

\* The variables of the store keep their types: no step leaves an instant
\* above the implicit start, a dangling record or an ill-formed version.
THEOREM TypeInvariance == Spec => []TypeOK
  <1>1. StInv => TypeOK
    BY DEF StInv, Base
  <1> QED
    BY <1>1, Invariance, PTL

\* First committer wins: of two committed transactions whose effects collide,
\* the later, if it is a bracket, read where the earlier had committed
\* (mvcc.Conflicts on the heads, and the two cross-checks).
THEOREM FirstCommitter == Spec => []FirstCommitterWins
  <1>1. StInv => FirstCommitterWins
    <2> SUFFICES ASSUME StInv, NEW t \in Bracket, NEW u \in Tx,
                        rec[t] = "committed", rec[u] = "committed", at[u] < at[t], Collide(t, u)
                 PROVE  at[u] <= start[t]
      BY DEF FirstCommitterWins
    <2>1. t \in Tx /\ Base /\ Journalled
      BY DEF Tx, StInv
    <2>2. at[t] \in Nat /\ at[u] \in Nat /\ at[t] # 0 /\ at[u] # 0
      BY <2>1, Numbers
    <2>3. t # u
      BY <2>2
    <2>4. Ordered(t, u)
      <3>1. PICK n \in Node :
              \/ Labels(t, n) /\ Labels(u, n)
              \/ Lives(t, n) /\ Lives(u, n)
              \/ Labels(t, n) /\ Removes(u, n)
              \/ Removes(t, n) /\ Labels(u, n)
        BY DEF Collide, Labels, Lives, Removes
      <3>2. JournalOK(t, u, n) /\ JournalOK(u, t, n)
        BY <2>1, <2>3 DEF Journalled
      <3> QED
        BY <3>1, <3>2, OrderedSym DEF JournalOK
    <2>5. ~Precedes(t, u)
      BY <2>2 DEF Precedes
    <2> QED
      BY <2>4, <2>5 DEF Ordered, Precedes
  <1> QED
    BY <1>1, Invariance, PTL
=============================================================================
