---------------------------- MODULE Gate_proofs -----------------------------
(***************************************************************************)
(* The gate excludes, for every number of goroutines and stripes: the      *)
(* striped counters count what they should, so the owner that has seen     *)
(* each of them empty is alone.                                            *)
(***************************************************************************)
EXTENDS Gate, FiniteSetTheorems, SequenceTheorems, TLAPS

USE ProcAssumption, GateSlotsAssumption, ImpatientAssumption

-----------------------------------------------------------------------------
(* Counting: a set of goroutines that one goroutine enters or leaves.      *)

\* Two sets of goroutines that differ at most in p differ by one at most.
LEMMA CardMove ==
  ASSUME NEW S \in SUBSET Proc, NEW T \in SUBSET Proc, NEW p \in Proc,
         \A q \in Proc \ {p} : q \in S <=> q \in T
  PROVE  /\ Cardinality(S) \in Nat /\ Cardinality(T) \in Nat
         /\ p \notin S /\ p \in T => Cardinality(T) = Cardinality(S) + 1
         /\ p \in S /\ p \notin T => Cardinality(T) = Cardinality(S) - 1
         /\ (p \in S <=> p \in T) => Cardinality(T) = Cardinality(S)
  <1>1. IsFiniteSet(S) /\ IsFiniteSet(T)
    BY FS_Subset
  <1>2. Cardinality(S) \in Nat /\ Cardinality(T) \in Nat
    BY <1>1, FS_CardinalityType
  <1>3. ASSUME p \notin S, p \in T PROVE Cardinality(T) = Cardinality(S) + 1
    <2>1. T = S \cup {p}
      BY <1>3
    <2> QED
      BY <1>1, <1>3, <2>1, FS_AddElement
  <1>4. ASSUME p \in S, p \notin T PROVE Cardinality(T) = Cardinality(S) - 1
    <2>1. T = S \ {p}
      BY <1>4
    <2> QED
      BY <1>1, <1>4, <2>1, FS_RemoveElement
  <1>5. ASSUME p \in S <=> p \in T PROVE T = S
    BY <1>5
  <1> QED
    BY <1>2, <1>3, <1>4, <1>5

B(b) == IF b THEN 1 ELSE 0

\* What a step of p does to the three kinds of counters.
CountStep(p) ==
  /\ \A q \in Proc \ {p} : pc'[q] = pc[q] /\ slot'[q] = slot[q]
  /\ slots' \in [Slots -> Int]
  /\ \A i \in Slots : slots'[i] = slots[i] + B(pc'[p] \in Counted /\ slot'[p] = i)
                                           - B(pc[p] \in Counted /\ slot[p] = i)
  /\ slowHolders' = slowHolders + B(pc'[p] = "weakHeld") - B(pc[p] = "weakHeld")
  /\ weakParked' = weakParked + B(pc'[p] = "weakWait") - B(pc[p] = "weakWait")

\* A step that moves p and its counters together keeps the counters exact.
LEMMA CountPreserved ==
  ASSUME IInv, NEW p \in Proc, CountStep(p)
  PROVE  /\ CountInv' /\ slots' \in [Slots -> Nat]
         /\ slowHolders' \in Nat /\ weakParked' \in Nat
  <1>1. ASSUME NEW i \in Slots
        PROVE  slots'[i] = Cardinality(InStripe(i)') /\ slots'[i] \in Nat
    <2>1. \A q \in Proc \ {p} : q \in InStripe(i) <=> q \in InStripe(i)'
      BY DEF CountStep, InStripe
    <2>2. InStripe(i) \in SUBSET Proc /\ InStripe(i)' \in SUBSET Proc
      BY DEF InStripe
    <2>3. /\ p \in InStripe(i) <=> pc[p] \in Counted /\ slot[p] = i
          /\ p \in InStripe(i)' <=> pc'[p] \in Counted /\ slot'[p] = i
      BY DEF InStripe
    <2>4. slots[i] = Cardinality(InStripe(i))
      BY DEF IInv, CountInv
    <2>5. slots'[i] = slots[i] + B(p \in InStripe(i)') - B(p \in InStripe(i))
      BY <2>3 DEF CountStep, B
    <2> QED
      BY <2>1, <2>2, <2>4, <2>5, CardMove DEF B
  <1>2. slowHolders' = Cardinality(SlowSet') /\ slowHolders' \in Nat
    <2>1. \A q \in Proc \ {p} : q \in SlowSet <=> q \in SlowSet'
      BY DEF CountStep, SlowSet, At
    <2>2. SlowSet \in SUBSET Proc /\ SlowSet' \in SUBSET Proc
      BY DEF SlowSet
    <2>3. (p \in SlowSet <=> pc[p] = "weakHeld") /\ (p \in SlowSet' <=> pc'[p] = "weakHeld")
      BY DEF SlowSet, At
    <2>4. slowHolders = Cardinality(SlowSet)
      BY DEF IInv, CountInv
    <2>5. slowHolders' = slowHolders + B(p \in SlowSet') - B(p \in SlowSet)
      BY <2>3 DEF CountStep, B
    <2>6. /\ Cardinality(SlowSet) \in Nat /\ Cardinality(SlowSet') \in Nat
          /\ Cardinality(SlowSet') = Cardinality(SlowSet) + B(p \in SlowSet') - B(p \in SlowSet)
      <3> DEFINE S == SlowSet
                 T == SlowSet'
      <3>1. \A q \in Proc \ {p} : q \in S <=> q \in T
        BY <2>1
      <3>2. S \in SUBSET Proc /\ T \in SUBSET Proc
        BY <2>2
      <3> HIDE DEF S, T
      <3>3. /\ Cardinality(S) \in Nat /\ Cardinality(T) \in Nat
            /\ Cardinality(T) = Cardinality(S) + B(p \in T) - B(p \in S)
        BY <3>1, <3>2, CardMove DEF B
      <3> QED
        BY <3>3 DEF S, T
    <2> QED
      BY <2>4, <2>5, <2>6
  <1>3. weakParked' = Cardinality(ParkedSet') /\ weakParked' \in Nat
    <2>1. \A q \in Proc \ {p} : q \in ParkedSet <=> q \in ParkedSet'
      BY DEF CountStep, ParkedSet, At
    <2>2. ParkedSet \in SUBSET Proc /\ ParkedSet' \in SUBSET Proc
      BY DEF ParkedSet
    <2>3. (p \in ParkedSet <=> pc[p] = "weakWait") /\ (p \in ParkedSet' <=> pc'[p] = "weakWait")
      BY DEF ParkedSet, At
    <2>4. weakParked = Cardinality(ParkedSet)
      BY DEF IInv, CountInv
    <2>5. weakParked' = weakParked + B(p \in ParkedSet') - B(p \in ParkedSet)
      BY <2>3 DEF CountStep, B
    <2>6. /\ Cardinality(ParkedSet) \in Nat /\ Cardinality(ParkedSet') \in Nat
          /\ Cardinality(ParkedSet') = Cardinality(ParkedSet) + B(p \in ParkedSet') - B(p \in ParkedSet)
      <3> DEFINE S == ParkedSet
                 T == ParkedSet'
      <3>1. \A q \in Proc \ {p} : q \in S <=> q \in T
        BY <2>1
      <3>2. S \in SUBSET Proc /\ T \in SUBSET Proc
        BY <2>2
      <3> HIDE DEF S, T
      <3>3. /\ Cardinality(S) \in Nat /\ Cardinality(T) \in Nat
            /\ Cardinality(T) = Cardinality(S) + B(p \in T) - B(p \in S)
        BY <3>1, <3>2, CardMove DEF B
      <3> QED
        BY <3>3 DEF S, T
    <2> QED
      BY <2>4, <2>5, <2>6
  <1>4. slots' \in [Slots -> Nat]
    BY <1>1 DEF CountStep
  <1> QED
    BY <1>1, <1>2, <1>3, <1>4 DEF CountInv

\* A stripe that reads zero holds nobody, and no holder is uncounted.
LEMMA CountZero ==
  ASSUME IInv
  PROVE  /\ \A i \in Slots : slots[i] = 0 => \A q \in Proc : ~(pc[q] \in Counted /\ slot[q] = i)
         /\ slowHolders = 0 => \A q \in Proc : pc[q] # "weakHeld"
         /\ weakParked = 0 => \A q \in Proc : pc[q] # "weakWait"
  <1>1. \A S \in SUBSET Proc : Cardinality(S) = 0 => S = {}
    BY FS_Subset, FS_EmptySet
  <1>2. (\A i \in Slots : InStripe(i) \in SUBSET Proc) /\ SlowSet \in SUBSET Proc
        /\ ParkedSet \in SUBSET Proc
    BY DEF InStripe, SlowSet, ParkedSet
  <1>3. /\ \A i \in Slots : slots[i] = 0 => InStripe(i) = {}
        /\ slowHolders = 0 => SlowSet = {}
        /\ weakParked = 0 => ParkedSet = {}
    BY <1>1, <1>2 DEF IInv, CountInv
  <1> QED
    BY <1>3 DEF InStripe, SlowSet, ParkedSet, At

-----------------------------------------------------------------------------
(* The queue of tickets.                                                   *)

InQueue(p, q) == \E i \in 1 .. Len(q) : q[i] = p

\* Taking the head off the queue leaves every other ticket in it.
LEMMA TailQueue ==
  ASSUME NEW q \in Seq(Proc), NEW p \in Proc, InQueue(p, q), Head(q) = p
  PROVE  /\ Tail(q) \in Seq(Proc)
         /\ \A r \in Proc \ {p} : InQueue(r, q) => InQueue(r, Tail(q))
  <1>1. q # <<>>
    BY DEF InQueue
  <1>2. /\ Tail(q) \in Seq(Proc) /\ Len(Tail(q)) = Len(q) - 1
        /\ \A i \in 1 .. Len(Tail(q)) : Tail(q)[i] = q[i + 1]
    BY <1>1, HeadTailProperties
  <1>3. ASSUME NEW r \in Proc \ {p}, NEW i \in 1 .. Len(q), q[i] = r
        PROVE  InQueue(r, Tail(q))
    <2>1. i # 1 /\ Len(q) \in Nat
      BY <1>1, <1>3
    <2>2. i - 1 \in 1 .. Len(Tail(q)) /\ Tail(q)[i - 1] = q[i]
      BY <1>2, <2>1
    <2> QED
      BY <1>3, <2>2 DEF InQueue
  <1> QED
    BY <1>2, <1>3 DEF InQueue

\* A new ticket goes behind the others.
LEMMA AppendQueue ==
  ASSUME NEW q \in Seq(Proc), NEW p \in Proc
  PROVE  /\ Append(q, p) \in Seq(Proc)
         /\ InQueue(p, Append(q, p))
         /\ \A r \in Proc : InQueue(r, q) => /\ InQueue(r, Append(q, p))
                                             /\ Head(Append(q, p)) = Head(q)
  <1>1. /\ Append(q, p) \in Seq(Proc) /\ Len(Append(q, p)) = Len(q) + 1
        /\ \A i \in 1 .. Len(q) : Append(q, p)[i] = q[i]
        /\ Append(q, p)[Len(q) + 1] = p
        /\ Len(q) \in Nat
    BY AppendProperties, LenProperties
  <1>2. InQueue(p, Append(q, p))
    BY <1>1 DEF InQueue
  <1>3. ASSUME NEW r \in Proc, InQueue(r, q)
        PROVE  InQueue(r, Append(q, p)) /\ Head(Append(q, p)) = Head(q)
    BY <1>1, <1>3 DEF InQueue
  <1> QED
    BY <1>1, <1>2, <1>3

\* Deleting a ticket leaves every other one in the queue.
LEMMA DeleteQueue ==
  ASSUME NEW q \in Seq(Proc), NEW i \in 1 .. Len(q)
  PROVE  LET d == SubSeq(q, 1, i - 1) \o SubSeq(q, i + 1, Len(q))
         IN  /\ d \in Seq(Proc)
             /\ \A r \in Proc : r # q[i] /\ InQueue(r, q) => InQueue(r, d)
  <1> DEFINE a == SubSeq(q, 1, i - 1)
             b == SubSeq(q, i + 1, Len(q))
  <1>0. Len(q) \in Nat /\ \A j \in 1 .. Len(q) : q[j] \in Proc
    BY LenProperties, ElementOfSeq
  <1>1. a \in Seq(Proc) /\ Len(a) = i - 1 /\ \A j \in 1 .. i - 1 : a[j] = q[j]
    <2>1. \A j \in 1 .. i - 1 : q[j] \in Proc
      BY <1>0
    <2>2. /\ SubSeq(q, 1, i - 1) \in Seq(Proc)
          /\ Len(SubSeq(q, 1, i - 1)) = IF 1 <= i - 1 THEN (i - 1) - 1 + 1 ELSE 0
          /\ \A j \in 1 .. (i - 1) - 1 + 1 : SubSeq(q, 1, i - 1)[j] = q[1 + j - 1]
      BY <1>0, <2>1, SubSeqProperties
    <2> QED
      BY <1>0, <2>2
  <1>2. /\ b \in Seq(Proc) /\ Len(b) = Len(q) - i
        /\ \A j \in 1 .. Len(q) - i : b[j] = q[i + j]
    <2>1. \A j \in i + 1 .. Len(q) : q[j] \in Proc
      BY <1>0
    <2>2. /\ SubSeq(q, i + 1, Len(q)) \in Seq(Proc)
          /\ Len(SubSeq(q, i + 1, Len(q))) =
               IF i + 1 <= Len(q) THEN Len(q) - (i + 1) + 1 ELSE 0
          /\ \A j \in 1 .. Len(q) - (i + 1) + 1 :
               SubSeq(q, i + 1, Len(q))[j] = q[(i + 1) + j - 1]
      BY <1>0, <2>1, SubSeqProperties
    <2> QED
      BY <1>0, <2>2
  <1> HIDE DEF a, b
  <1>3. /\ a \o b \in Seq(Proc) /\ Len(a \o b) = Len(a) + Len(b)
        /\ \A j \in 1 .. Len(a) + Len(b) :
             (a \o b)[j] = IF j <= Len(a) THEN a[j] ELSE b[j - Len(a)]
    BY <1>1, <1>2, ConcatProperties
  <1>4. ASSUME NEW r \in Proc, r # q[i], NEW j \in 1 .. Len(q), q[j] = r
        PROVE  InQueue(r, a \o b)
    <2>1. CASE j < i
      <3>1. j \in 1 .. Len(a \o b) /\ (a \o b)[j] = r
        BY <1>0, <1>1, <1>2, <1>3, <1>4, <2>1
      <3> QED
        BY <3>1 DEF InQueue
    <2>2. CASE j > i
      <3>1. j - 1 \in 1 .. Len(a) + Len(b) /\ ~(j - 1 <= Len(a))
        BY <1>0, <1>1, <1>2, <2>2
      <3>2. (a \o b)[j - 1] = b[j - 1 - Len(a)]
        BY <1>3, <3>1
      <3>3. j - 1 - Len(a) = j - i /\ j - i \in 1 .. Len(q) - i /\ i + (j - i) = j
        BY <1>0, <1>1, <2>2
      <3>4. b[j - i] = q[j]
        BY <1>2, <3>3
      <3> QED
        BY <1>3, <1>4, <3>1, <3>2, <3>3, <3>4 DEF InQueue
    <2> QED
      BY <1>4, <2>1, <2>2, <1>0
  <1> QED
    BY <1>3, <1>4 DEF InQueue, a, b

-----------------------------------------------------------------------------
(* Every step counts.                                                      *)

Step(p) == Running(p) \/ Cancelling(p) \/ Calling(p)

\* Each action of the gate moves the counters with the goroutine.
LEMMA StepCounts ==
  ASSUME IInv, NEW p \in Proc, Step(p)
  PROVE  CountStep(p)
  <1>0. TypeOK
    BY DEF IInv
  <1> USE <1>0 DEF TypeOK, CountStep, B, At, Goto, Counted
  <1>1. ASSUME NEW i \in Slots, WeakLock(p, i) PROVE CountStep(p)
    BY <1>1 DEF WeakLock
  <1>2. CASE WeakCheck(p)
    BY <1>2 DEF WeakCheck
  <1>3. CASE WeakBackoff(p)
    BY <1>3 DEF WeakBackoff
  <1>4. CASE WeakSlow(p)
    BY <1>4 DEF WeakSlow, ParkOrHold
  <1>5. CASE WeakWake(p)
    BY <1>5 DEF WeakWake, ParkOrHold
  <1>6. CASE WeakCancel(p)
    BY <1>6 DEF WeakCancel
  <1>7. CASE WeakUnlockFast(p)
    BY <1>7 DEF WeakUnlockFast
  <1>8. CASE WeakUnlockSlow(p)
    BY <1>8 DEF WeakUnlockSlow
  <1>9. CASE StrongLock(p)
    BY <1>9 DEF StrongLock, ParkOrOwn
  <1>10. CASE StrongWake(p)
    BY <1>10 DEF StrongWake, ParkOrOwn
  <1>11. CASE StrongCancel(p)
    BY <1>11 DEF StrongCancel
  <1>12. CASE Drain(p)
    BY <1>12 DEF Drain
  <1>13. CASE DrainCancel(p)
    BY <1>13 DEF DrainCancel
  <1>14. CASE SlowCheck(p)
    BY <1>14, SMTT(20) DEF SlowCheck
  <1>15. CASE SlowCancel(p)
    BY <1>15 DEF SlowCancel
  <1>16. CASE ReleaseStrong(p)
    BY <1>16 DEF ReleaseStrong
  <1> QED
    BY <1>1, <1>2, <1>3, <1>4, <1>5, <1>6, <1>7, <1>8, <1>9, <1>10, <1>11, <1>12,
       <1>13, <1>14, <1>15, <1>16 DEF Step, Running, Cancelling, Calling

\* The rest of the type invariant.
LEMMA StepTypes ==
  ASSUME IInv, NEW p \in Proc, Step(p)
  PROVE  /\ strong' \in {0, 1} /\ owned' \in BOOLEAN
         /\ queue' \in Seq(Proc) /\ asleep' \in SUBSET Proc
         /\ pc' \in [Proc -> Counted \cup Owning \cup Outside]
         /\ slot' \in [Proc -> Slots] /\ drained' \in [Proc -> 0 .. GateSlots]
  <1>0. TypeOK
    BY DEF IInv
  <1> USE <1>0 DEF TypeOK, At, Goto, Counted, Owning, Outside
  <1>1. ASSUME NEW i \in Slots, WeakLock(p, i)
        PROVE  /\ UNCHANGED <<strong, owned, queue, asleep, drained>>
               /\ pc' \in [Proc -> Counted \cup Owning \cup Outside]
               /\ slot' \in [Proc -> Slots]
    BY <1>1 DEF WeakLock
  <1>2. CASE WeakCheck(p)
    BY <1>2 DEF WeakCheck
  <1>3. CASE WeakBackoff(p)
    BY <1>3 DEF WeakBackoff
  <1>4. CASE WeakSlow(p)
    BY <1>4 DEF WeakSlow, ParkOrHold
  <1>5. CASE WeakWake(p)
    BY <1>5 DEF WeakWake, ParkOrHold, SleepersAfterUnpark
  <1>6. CASE WeakCancel(p)
    BY <1>6 DEF WeakCancel, SleepersAfterUnpark
  <1>7. CASE WeakUnlockFast(p)
    BY <1>7 DEF WeakUnlockFast
  <1>8. CASE WeakUnlockSlow(p)
    BY <1>8 DEF WeakUnlockSlow
  <1>9. ASSUME NEW q \in Seq(Proc), InQueue(p, q), ParkOrOwn(p, q)
        PROVE  /\ strong' \in {0, 1} /\ owned' \in BOOLEAN
               /\ queue' \in Seq(Proc) /\ asleep' \in SUBSET Proc
               /\ pc' \in [Proc -> Counted \cup Owning \cup Outside]
               /\ slot' = slot /\ drained' \in [Proc -> 0 .. GateSlots]
    <2>1. Head(q) = p => Tail(q) \in Seq(Proc)
      BY <1>9, TailQueue
    <2>2. CASE MustWait(p, q)
      BY <1>9, <2>2 DEF ParkOrOwn
    <2>3. CASE ~MustWait(p, q)
      <3>1. queue' \in Seq(Proc)
        BY <1>9, <2>1, <2>3 DEF ParkOrOwn, MustWait
      <3>2. /\ owned' = TRUE /\ strong' = 1 /\ asleep' = asleep /\ slot' = slot
            /\ drained' = [drained EXCEPT ![p] = 0]
            /\ pc' = [pc EXCEPT ![p] = "drain"]
        BY <1>9, <2>3 DEF ParkOrOwn, Goto
      <3>3. 0 \in 0 .. GateSlots
        OBVIOUS
      <3>4. drained' \in [Proc -> 0 .. GateSlots]
        BY <3>2, <3>3
      <3> QED
        BY <3>1, <3>2, <3>4
    <2> QED
      BY <2>2, <2>3
  <1>10. CASE StrongLock(p)
    BY <1>9, <1>10, AppendQueue DEF StrongLock
  <1>11. CASE StrongWake(p)
    BY <1>9, <1>11 DEF StrongWake, IInv, QueueInv, InQueue
  <1>12. CASE StrongCancel(p)
    <2>1. queue' \in Seq(Proc)
      BY <1>12, DeleteQueue DEF StrongCancel
    <2> QED
      BY <1>12, <2>1 DEF StrongCancel
  <1>13. CASE Drain(p)
    BY <1>13 DEF Drain, IInv, DrainInv
  <1>14. CASE DrainCancel(p)
    BY <1>14 DEF DrainCancel
  <1>15. CASE SlowCheck(p)
    BY <1>15 DEF SlowCheck
  <1>16. CASE SlowCancel(p)
    BY <1>16 DEF SlowCancel
  <1>17. CASE ReleaseStrong(p)
    BY <1>17 DEF ReleaseStrong
  <1> QED
    BY <1>1, <1>2, <1>3, <1>4, <1>5, <1>6, <1>7, <1>8, <1>10, <1>11, <1>12,
       <1>13, <1>14, <1>15, <1>16, <1>17 DEF Step, Running, Cancelling, Calling

\* Each action of the gate keeps the types and the counts.
LEMMA StepType ==
  ASSUME IInv, NEW p \in Proc, Step(p)
  PROVE  TypeOK' /\ CountInv'
  BY StepCounts, StepTypes, CountPreserved DEF TypeOK

-----------------------------------------------------------------------------
(* Ownership: the weak side loads strong after counting itself, the owner  *)
(* looks at the counters after raising it.                                 *)

\* No action makes a second owner, or a hold on a drained stripe.
LEMMA StepOwner ==
  ASSUME IInv, TypeOK', NEW p \in Proc, Step(p)
  PROVE  OwnerInv' /\ DrainInv'
  <1>0. /\ TypeOK /\ OwnerInv /\ DrainInv
        /\ \A q \in Proc \ {p} : pc'[q] = pc[q] /\ slot'[q] = slot[q]
    BY StepCounts DEF IInv, CountStep
  <1> USE <1>0 DEF TypeOK, OwnerInv, DrainInv, At, Goto, Owning
  \* Steps of a goroutine that neither owns the gate nor gets a hold.
  <1>1. ASSUME pc[p] \notin Owning, pc'[p] \notin Owning,
               pc'[p] \notin {"weakFast", "weakHeld"},
               UNCHANGED <<strong, owned, drained>>
        PROVE  OwnerInv' /\ DrainInv'
    BY <1>1
  \* A hold is only taken while nobody owns the gate.
  <1>2. ASSUME pc'[p] \in {"weakFast", "weakHeld"}, ~owned, slot'[p] = slot[p],
               UNCHANGED <<strong, owned, drained>>
        PROVE  OwnerInv' /\ DrainInv'
    BY <1>2
  <1>3. ASSUME NEW i \in Slots, WeakLock(p, i) PROVE OwnerInv' /\ DrainInv'
    BY <1>1, <1>3 DEF WeakLock
  <1>4. CASE WeakCheck(p)
    BY <1>1, <1>2, <1>4 DEF WeakCheck
  <1>5. CASE WeakBackoff(p)
    BY <1>1, <1>5 DEF WeakBackoff
  <1>6. CASE WeakSlow(p)
    BY <1>1, <1>2, <1>6 DEF WeakSlow, ParkOrHold
  <1>7. CASE WeakWake(p)
    BY <1>1, <1>2, <1>7 DEF WeakWake, ParkOrHold
  <1>8. CASE WeakCancel(p)
    BY <1>1, <1>8 DEF WeakCancel
  <1>9. CASE WeakUnlockFast(p)
    BY <1>1, <1>9 DEF WeakUnlockFast
  <1>10. CASE WeakUnlockSlow(p)
    BY <1>1, <1>10 DEF WeakUnlockSlow
  <1>11. ASSUME NEW q, ParkOrOwn(p, q), pc[p] \in {"idle", "strongWait"}
         PROVE  OwnerInv' /\ DrainInv'
    <2>1. CASE MustWait(p, q)
      BY <1>1, <1>11, <2>1 DEF ParkOrOwn
    <2>2. CASE ~MustWait(p, q)
      <3>1. /\ owned' = TRUE /\ strong' = 1 /\ asleep' = asleep /\ slot' = slot
            /\ drained' = [drained EXCEPT ![p] = 0]
            /\ pc' = [pc EXCEPT ![p] = "drain"]
        BY <1>11, <2>2 DEF ParkOrOwn
      <3>2. \A r \in Proc : pc[r] \notin Owning
        BY <2>2 DEF MustWait
      <3>3. pc'[p] = "drain" /\ drained'[p] = 0
        BY <3>1
      <3>4. \A r \in Proc : pc'[r] \in Owning => r = p
        BY <3>2
      <3>5. OwnerInv'
        BY <3>1, <3>4
      <3>6. \A r \in Proc : slot'[r] >= 0
        BY DEF Slots
      <3>7. DrainInv'
        BY <3>3, <3>4, <3>6, SMTT(20)
      <3> QED
        BY <3>5, <3>7
    <2> QED
      BY <2>1, <2>2
  <1>12. CASE StrongLock(p)
    BY <1>11, <1>12 DEF StrongLock
  <1>13. CASE StrongWake(p)
    BY <1>11, <1>13 DEF StrongWake
  <1>14. CASE StrongCancel(p)
    BY <1>1, <1>14 DEF StrongCancel
  <1>15. CASE Drain(p)
    <2>1. drained[p] \in Slots /\ \A q \in Proc : At(q, "weakFast") => slot[q] # drained[p]
      BY <1>15, CountZero DEF Drain, Slots, Counted
    <2>2. /\ drained' = [drained EXCEPT ![p] = drained[p] + 1] /\ slot' = slot
          /\ pc' = [pc EXCEPT ![p] = IF drained[p] + 1 = GateSlots THEN "slowCheck" ELSE "drain"]
          /\ pc[p] = "drain" /\ UNCHANGED <<strong, owned>>
      BY <1>15 DEF Drain
    <2>3. OwnerInv'
      BY <2>2, SMTT(20)
    <2>4. \A q \in Proc : pc'[q] = "weakFast" => pc[q] = "weakFast" /\ slot'[q] > drained[p]
      BY <2>1, <2>2, SMTT(20) DEF Slots
    <2>5. /\ drained[p] \in Nat /\ GateSlots \in Nat
          /\ \A q \in Proc : slot'[q] \in Nat /\ slot'[q] < GateSlots
      BY <2>1, SMTT(20) DEF Slots
    <2>6. \A r \in Proc : r # p => pc'[r] \notin Owning
      BY <2>2
    <2>7. CASE drained[p] + 1 = GateSlots
      <3>1. pc'[p] = "slowCheck"
        BY <2>2, <2>7
      <3>2. \A q \in Proc : pc'[q] # "weakFast"
        <4> SUFFICES ASSUME NEW q \in Proc, pc'[q] = "weakFast" PROVE FALSE
          OBVIOUS
        <4>1. slot'[q] > drained[p]
          BY <2>4
        <4>2. slot'[q] \in Nat /\ slot'[q] < GateSlots
          BY <2>5
        <4> QED
          BY <2>5, <2>7, <4>1, <4>2
      <3>3. DrainInv'
        BY <2>6, <3>1, <3>2
      <3> QED
        BY <2>3, <3>3
    <2>8. CASE drained[p] + 1 # GateSlots
      <3>1. pc'[p] = "drain" /\ drained'[p] = drained[p] + 1
        BY <2>2, <2>8
      <3>2. drained'[p] < GateSlots
        BY <2>1, <2>8, <3>1 DEF Slots
      <3>3. \A q \in Proc : pc'[q] = "weakFast" => slot'[q] >= drained'[p]
        <4> SUFFICES ASSUME NEW q \in Proc, pc'[q] = "weakFast"
                     PROVE  slot'[q] >= drained'[p]
          OBVIOUS
        <4>1. slot'[q] > drained[p] /\ slot'[q] \in Nat
          BY <2>4, <2>5
        <4> QED
          BY <2>5, <3>1, <4>1
      <3>4. DrainInv'
        BY <2>6, <3>1, <3>2, <3>3
      <3> QED
        BY <2>3, <3>4
    <2> QED
      BY <2>7, <2>8
  <1>16. CASE DrainCancel(p)
    BY <1>16 DEF DrainCancel
  <1>17. CASE SlowCheck(p)
    <2>1. /\ UNCHANGED <<strong, owned, slot, drained>>
          /\ pc[p] \in {"slowCheck", "slowWait"} /\ pc'[p] \in {"slowWait", "strongHeld"}
      BY <1>17 DEF SlowCheck
    <2>2. pc'[p] = "strongHeld" => \A q \in Proc : pc[q] # "weakHeld"
      BY <1>17, CountZero DEF SlowCheck
    <2>3. \A q \in Proc : pc'[q] \in Owning => pc[q] \in Owning
      BY <2>1
    <2>o. OwnerInv'
      <3> HIDE DEF TypeOK, DrainInv
      <3> QED
        BY <2>1, <2>3, Zenon
    <2>4. DrainInv'
      BY <2>1, <2>2, SMTT(20)
    <2> QED
      BY <2>o, <2>4
  <1>18. CASE SlowCancel(p)
    BY <1>18 DEF SlowCancel
  <1>19. CASE ReleaseStrong(p)
    BY <1>19 DEF ReleaseStrong
  <1> QED
    BY <1>3, <1>4, <1>5, <1>6, <1>7, <1>8, <1>9, <1>10, <1>12, <1>13, <1>14,
       <1>15, <1>16, <1>17, <1>18, <1>19 DEF Step, Running, Cancelling, Calling

-----------------------------------------------------------------------------
(* Waiting.                                                                *)

\* A waiting strong locker keeps its ticket until it owns the gate or leaves.
LEMMA StepQueue ==
  ASSUME IInv, NEW p \in Proc, Step(p)
  PROVE  QueueInv'
  <1>0. /\ TypeOK /\ \A r \in Proc : pc[r] = "strongWait" => InQueue(r, queue)
        /\ \A r \in Proc \ {p} : pc'[r] = pc[r]
    BY StepCounts DEF IInv, CountStep, QueueInv, InQueue, At
  <1>1. SUFFICES \A r \in Proc : pc'[r] = "strongWait" => InQueue(r, queue')
    BY DEF QueueInv, InQueue, At
  <1>2. ASSUME queue' = queue, pc'[p] # "strongWait"
        PROVE  \A r \in Proc : pc'[r] = "strongWait" => InQueue(r, queue')
    BY <1>0, <1>2
  <1>3. ASSUME NEW q \in Seq(Proc), InQueue(p, q), ParkOrOwn(p, q),
               \A r \in Proc \ {p} : InQueue(r, queue) => InQueue(r, q)
        PROVE  \A r \in Proc : pc'[r] = "strongWait" => InQueue(r, queue')
    <2>1. CASE MustWait(p, q)
      <3>1. queue' = q
        BY <1>3, <2>1 DEF ParkOrOwn
      <3> QED
        BY <1>0, <1>3, <3>1
    <2>2. CASE ~MustWait(p, q)
      <3>1. queue' = Tail(q) /\ pc'[p] = "drain"
        BY <1>0, <1>3, <2>2 DEF ParkOrOwn, Goto, TypeOK
      <3>2. Head(q) = p
        BY <2>2 DEF MustWait
      <3>3. \A r \in Proc \ {p} : InQueue(r, q) => InQueue(r, Tail(q))
        BY <1>3, <3>2, TailQueue
      <3> QED
        BY <1>0, <1>3, <3>1, <3>3
    <2> QED
      BY <2>1, <2>2
  <1>4. CASE StrongLock(p)
    BY <1>0, <1>3, <1>4, AppendQueue DEF StrongLock, TypeOK
  <1>5. CASE StrongWake(p)
    BY <1>0, <1>3, <1>5 DEF StrongWake, TypeOK, At
  <1>6. CASE StrongCancel(p)
    <2>1. PICK i \in 1 .. Len(queue) :
            /\ queue[i] = p
            /\ queue' = SubSeq(queue, 1, i - 1) \o SubSeq(queue, i + 1, Len(queue))
      BY <1>6 DEF StrongCancel
    <2>2. \A r \in Proc : r # p /\ InQueue(r, queue) => InQueue(r, queue')
      BY <1>0, <2>1, DeleteQueue DEF TypeOK
    <2>3. pc'[p] = "idle"
      BY <1>0, <1>6 DEF StrongCancel, Goto, TypeOK
    <2> QED
      BY <1>0, <2>2, <2>3
  <1> USE <1>0 DEF TypeOK, Goto, At
  <1>7. CASE \E i \in Slots : WeakLock(p, i)
    BY <1>2, <1>7 DEF WeakLock
  <1>8. CASE WeakCheck(p)
    BY <1>2, <1>8 DEF WeakCheck
  <1>9. CASE WeakBackoff(p)
    BY <1>2, <1>9 DEF WeakBackoff
  <1>10. CASE WeakSlow(p) \/ WeakWake(p)
    BY <1>2, <1>10 DEF WeakSlow, WeakWake, ParkOrHold
  <1>11. CASE WeakCancel(p) \/ WeakUnlockFast(p) \/ WeakUnlockSlow(p)
    BY <1>2, <1>11 DEF WeakCancel, WeakUnlockFast, WeakUnlockSlow
  <1>12. CASE Drain(p) \/ DrainCancel(p)
    BY <1>2, <1>12 DEF Drain, DrainCancel
  <1>13. CASE SlowCheck(p) \/ SlowCancel(p) \/ ReleaseStrong(p)
    BY <1>2, <1>13 DEF SlowCheck, SlowCancel, ReleaseStrong
  <1> QED
    BY <1>4, <1>5, <1>6, <1>7, <1>8, <1>9, <1>10, <1>11, <1>12, <1>13
       DEF Step, Running, Cancelling, Calling

\* Why r is asleep.
Reason(r) ==
  \/ pc[r] = "weakWait" /\ owned
  \/ pc[r] = "strongWait" /\ (owned \/ Head(queue) # r \/ weakParked # 0)
  \/ pc[r] = "slowWait" /\ slowHolders # 0

\* No step takes away the reason of a goroutine it leaves asleep.
LEMMA StepSleep ==
  ASSUME IInv, NEW p \in Proc, Step(p)
  PROVE  SleepJustified'
  <1>0. /\ TypeOK /\ \A r \in asleep : Reason(r)
        /\ \A r \in Proc \ {p} : pc'[r] = pc[r]
        /\ \A r \in Proc : pc[r] = "strongWait" => InQueue(r, queue)
    BY StepCounts DEF IInv, CountStep, SleepJustified, Reason, At, MustWait, QueueInv, InQueue
  <1>1. SUFFICES \A r \in asleep' : Reason(r)'
    BY DEF SleepJustified, Reason, At, MustWait
  <1>2. asleep' \in SUBSET Proc
    BY StepTypes
  <1>3. ASSUME asleep' = {} PROVE \A r \in asleep' : Reason(r)'
    BY <1>3
  \* The counters and the queue stay, and p is not asleep for another reason.
  <1>4. ASSUME UNCHANGED <<owned, queue, weakParked, slowHolders>>,
               asleep' \subseteq asleep \cup {p}, p \in asleep' => Reason(p)'
        PROVE  \A r \in asleep' : Reason(r)'
    BY <1>0, <1>2, <1>4 DEF Reason
  <1> USE <1>0 DEF TypeOK, Goto, At
  <1>5. CASE \E i \in Slots : WeakLock(p, i)
    <2>1. p \notin asleep /\ asleep' = asleep /\ UNCHANGED <<owned, queue, weakParked, slowHolders>>
      BY <1>5 DEF WeakLock, Reason
    <2> QED
      BY <1>4, <2>1
  <1>6. CASE WeakCheck(p) \/ WeakBackoff(p) \/ WeakUnlockFast(p) \/ Drain(p) \/ DrainCancel(p)
    <2>1. p \notin asleep /\ asleep' = asleep /\ UNCHANGED <<owned, queue, weakParked, slowHolders>>
      BY <1>6 DEF WeakCheck, WeakBackoff, WeakUnlockFast, Drain, DrainCancel, Reason
    <2> QED
      BY <1>4, <2>1
  <1>7. CASE SlowCancel(p)
    <2>1. p \notin asleep' /\ asleep' \subseteq asleep
          /\ UNCHANGED <<owned, queue, weakParked, slowHolders>>
      BY <1>7 DEF SlowCancel
    <2> QED
      BY <1>4, <2>1
  <1>8. CASE SlowCheck(p)
    <2>1. asleep' \subseteq asleep \cup {p} /\ UNCHANGED <<owned, queue, weakParked, slowHolders>>
      BY <1>8 DEF SlowCheck
    <2>2. p \in asleep' => Reason(p)'
      BY <1>8 DEF SlowCheck, Reason
    <2> QED
      BY <1>4, <2>1, <2>2
  <1>9. CASE StrongCancel(p) \/ ReleaseStrong(p)
    BY <1>3, <1>9 DEF StrongCancel, ReleaseStrong
  \* A weak waiter parks, or holds the gate.
  <1>10. ASSUME UNCHANGED <<owned, queue>>, asleep' \subseteq asleep \cup {p},
                p \in asleep' => Reason(p)', slowHolders' >= slowHolders,
                asleep' \subseteq {p} \/ (weakParked # 0 => weakParked' # 0)
         PROVE  \A r \in asleep' : Reason(r)'
    <2> SUFFICES ASSUME NEW r \in asleep', r # p PROVE Reason(r)'
      BY <1>10
    <2>1. r \in asleep /\ pc'[r] = pc[r] /\ Reason(r)
      BY <1>2, <1>10
    <2>2. slowHolders # 0 => slowHolders' # 0
      BY <1>10
    <2>3. weakParked # 0 => weakParked' # 0
      BY <1>10
    <2> QED
      BY <1>10, <2>1, <2>2, <2>3 DEF Reason
  <1>11. CASE WeakSlow(p)
    <2>1. p \notin asleep
      BY <1>11 DEF WeakSlow, Reason
    <2>2. /\ UNCHANGED <<owned, queue>> /\ asleep' \subseteq asleep \cup {p}
          /\ slowHolders' >= slowHolders /\ weakParked' >= weakParked
      BY <1>11 DEF WeakSlow, ParkOrHold
    <2>3. p \in asleep' => Reason(p)'
      BY <1>11, <2>1 DEF WeakSlow, ParkOrHold, Reason
    <2>4. weakParked # 0 => weakParked' # 0
      BY <2>2, StepType
    <2> QED
      BY <1>10, <2>2, <2>3, <2>4
  <1>12. CASE WeakWake(p)
    <2>1. /\ UNCHANGED <<owned, queue>> /\ asleep' \subseteq asleep \cup {p}
          /\ slowHolders' >= slowHolders
      BY <1>12 DEF WeakWake, ParkOrHold, SleepersAfterUnpark
    <2>2. p \in asleep' => Reason(p)'
      BY <1>12 DEF WeakWake, ParkOrHold, SleepersAfterUnpark, Reason
    <2>3. asleep' \subseteq {p} \/ (weakParked # 0 => weakParked' # 0)
      BY <1>12 DEF WeakWake, ParkOrHold, SleepersAfterUnpark
    <2> QED
      BY <1>10, <2>1, <2>2, <2>3
  <1>13. CASE WeakCancel(p)
    <2>1. /\ UNCHANGED <<owned, queue, slowHolders>> /\ asleep' \subseteq asleep
          /\ p \notin asleep'
      BY <1>13 DEF WeakCancel, SleepersAfterUnpark
    <2>2. asleep' \subseteq {p} \/ (weakParked # 0 => weakParked' # 0)
      BY <1>13 DEF WeakCancel, SleepersAfterUnpark
    <2> QED
      BY <1>10, <2>1, <2>2
  <1>14. CASE WeakUnlockSlow(p)
    <2>1. p \notin asleep /\ UNCHANGED <<owned, queue, weakParked>>
      BY <1>14 DEF WeakUnlockSlow, Reason
    <2>2. asleep' = {} \/ (asleep' = asleep /\ slowHolders' # 0)
      BY <1>14 DEF WeakUnlockSlow
    <2> QED
      BY <1>2, <2>1, <2>2 DEF Reason
  \* A strong locker parks, or owns the gate.
  <1>15. ASSUME NEW q \in Seq(Proc), p \notin asleep, ParkOrOwn(p, q),
                \A r \in Proc : InQueue(r, queue) => Head(q) = Head(queue)
         PROVE  \A r \in asleep' : Reason(r)'
    <2>1. CASE MustWait(p, q)
      <3>1. /\ queue' = q /\ asleep' = asleep \cup {p} /\ pc'[p] = "strongWait"
            /\ UNCHANGED <<owned, weakParked, slowHolders>>
        BY <1>15, <2>1 DEF ParkOrOwn
      <3>2. Reason(p)'
        BY <2>1, <3>1 DEF MustWait, Reason
      <3>3. ASSUME NEW r \in asleep, r # p PROVE Reason(r)'
        BY <1>15, <3>1, <3>3 DEF Reason
      <3> QED
        BY <3>1, <3>2, <3>3
    <2>2. CASE ~MustWait(p, q)
      <3>1. owned' /\ asleep' = asleep /\ UNCHANGED <<weakParked, slowHolders>>
        BY <1>15, <2>2 DEF ParkOrOwn
      <3> QED
        BY <1>15, <3>1 DEF Reason
    <2> QED
      BY <2>1, <2>2
  <1>16. CASE StrongLock(p)
    <2>1. p \notin asleep
      BY <1>16 DEF StrongLock, Reason
    <2> QED
      BY <1>15, <1>16, <2>1, AppendQueue DEF StrongLock
  <1>17. CASE StrongWake(p)
    BY <1>15, <1>17 DEF StrongWake
  <1> QED
    BY <1>5, <1>6, <1>7, <1>8, <1>9, <1>11, <1>12, <1>13, <1>14, <1>16, <1>17
       DEF Step, Running, Cancelling, Calling

-----------------------------------------------------------------------------
\* The gate at rest satisfies the invariant.
LEMMA InitIInv == Init => IInv
  <1> SUFFICES ASSUME Init PROVE IInv
    OBVIOUS
  <1>1. TypeOK
    <2>1. 0 \in Slots /\ 0 \in 0 .. GateSlots
      BY DEF Slots
    <2>2. slots \in [Slots -> Nat] /\ slot \in [Proc -> Slots]
      BY <2>1 DEF Init
    <2>3. drained \in [Proc -> 0 .. GateSlots]
      BY <2>1 DEF Init
    <2>4. pc \in [Proc -> Counted \cup Owning \cup Outside]
      BY DEF Init, Outside
    <2>5. queue \in Seq(Proc) /\ asleep \in SUBSET Proc
      BY DEF Init
    <2> QED
      BY <2>2, <2>3, <2>4, <2>5 DEF Init, TypeOK
  <1>2. \A i \in Slots : InStripe(i) = {}
    BY DEF Init, InStripe, Counted
  <1>3. SlowSet = {} /\ ParkedSet = {}
    BY DEF Init, SlowSet, ParkedSet, At
  <1>4. CountInv
    BY <1>2, <1>3, FS_EmptySet DEF Init, CountInv
  <1>5. OwnerInv /\ DrainInv /\ QueueInv /\ SleepJustified
    BY DEF Init, OwnerInv, DrainInv, QueueInv, SleepJustified, Owning, At
  <1> QED
    BY <1>1, <1>4, <1>5 DEF IInv

\* Every step of the gate preserves the invariant.
LEMMA NextIInv == IInv /\ [Next]_vars => IInv'
  <1> SUFFICES ASSUME IInv, [Next]_vars PROVE IInv'
    OBVIOUS
  <1>1. CASE Next
    <2>1. PICK p \in Proc : Step(p)
      BY <1>1 DEF Next, Step
    <2>2. TypeOK' /\ CountInv'
      BY <2>1, StepType
    <2>3. OwnerInv' /\ DrainInv'
      BY <2>1, <2>2, StepOwner
    <2> QED
      BY <2>1, <2>2, <2>3, StepQueue, StepSleep DEF IInv
  <1>2. CASE UNCHANGED vars
    BY <1>2 DEF vars, IInv, TypeOK, CountInv, InStripe, SlowSet, ParkedSet, OwnerInv,
       DrainInv, QueueInv, SleepJustified, MustWait, At
  <1> QED
    BY <1>1, <1>2

\* Every reachable state of the gate satisfies the invariant.
THEOREM GateInvariance == Spec => []IInv
  BY InitIInv, NextIInv, PTL DEF Spec

\* The gate is well typed: no stripe, slow-holder or parked counter of gate.go
\* ever goes negative.
THEOREM GateTypeCorrect == Spec => []TypeOK
  <1>1. IInv => TypeOK
    BY DEF IInv
  <1> QED
    BY <1>1, GateInvariance, PTL

\* The strong holder of the gate is alone, for any number of goroutines and
\* stripes.
THEOREM GateExclusion == Spec => []Exclusion
  <1>1. IInv => Exclusion
    BY DEF IInv, Exclusion, OwnerInv, DrainInv, Owning, At
  <1> QED
    BY <1>1, GateInvariance, PTL

\* Neither release panics, a release after a cancellation included.
THEOREM GateReleases == Spec => []ReleasesHeld
  <1>1. ASSUME IInv PROVE ReleasesHeld
    <2>1. \A p \in Proc : pc[p] \in {"strongHeld", "release"} => owned
      BY <1>1 DEF IInv, OwnerInv, Owning
    <2>2. \A p \in Proc : pc[p] = "weakHeld" => slowHolders > 0
      BY <1>1, CountZero DEF IInv, TypeOK
    <2> QED
      BY <2>1, <2>2 DEF ReleasesHeld, At
  <1> QED
    BY <1>1, GateInvariance, PTL

\* No goroutine sleeps on the wake channel once what it waits for has come.
THEOREM GateWakes == Spec => []SleepJustified
  <1>1. IInv => SleepJustified
    BY DEF IInv
  <1> QED
    BY <1>1, GateInvariance, PTL
=============================================================================
