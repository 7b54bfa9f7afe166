------------------------------- MODULE Gate --------------------------------
(***************************************************************************)
(* The write barrier of graph/mvcc (gate.go): a lock with many concurrent  *)
(* weak holders and one exclusive strong holder.  A weak lock is a striped *)
(* counter increment followed by a load of the strong flag; a strong lock  *)
(* queues for ownership, raises the flag, then waits for each stripe and   *)
(* for the holders of the slow path to drain.                              *)
(*                                                                         *)
(* A section under g.mu is one step: nothing else in it is visible to the  *)
(* lock-free path except its single store to strong.  The wake channel is  *)
(* the set of goroutines asleep on it; a broadcast empties the set.        *)
(***************************************************************************)
EXTENDS Integers, Sequences, FiniteSets

CONSTANTS
  Proc,       \* the goroutines that lock and unlock
  GateSlots,  \* the number of stripes (64 in the code)
  Impatient   \* the goroutines whose weak lock may give up: TryWeakLock, or
              \* WeakLockCtx with a context that is cancelled

ASSUME ProcAssumption == IsFiniteSet(Proc)
ASSUME ImpatientAssumption == Impatient \subseteq Proc
ASSUME GateSlotsAssumption == GateSlots \in Nat \ {0}

VARIABLES
  slots,        \* Gate.slots
  strong,       \* Gate.strong
  owned,        \* Gate.owned
  slowHolders,  \* Gate.slowHolders
  weakParked,   \* Gate.weakParked
  queue,        \* Gate.queue, a goroutine standing for its ticket
  asleep,       \* who waits on the current Gate.wake channel
  pc,           \* where each goroutine is
  slot,         \* WeakLock's slot
  drained       \* how many stripes strongLock has seen empty

vars == <<slots, strong, owned, slowHolders, weakParked, queue, asleep, pc,
          slot, drained>>

Slots == 0 .. GateSlots - 1

\* A goroutine counted in its stripe, and one that owns the gate strongly.
Counted == {"weakCheck", "weakBackoff", "weakFast"}
Owning == {"drain", "slowCheck", "slowWait", "strongHeld", "release"}
Outside == {"idle", "weakSlow", "weakWait", "weakHeld", "strongWait"}

At(p, label) == pc[p] = label

Goto(p, label) == pc' = [pc EXCEPT ![p] = label]

Init ==
  /\ slots = [i \in Slots |-> 0]
  /\ strong = 0 /\ owned = FALSE
  /\ slowHolders = 0 /\ weakParked = 0
  /\ queue = <<>> /\ asleep = {}
  /\ pc = [p \in Proc |-> "idle"]
  /\ slot = [p \in Proc |-> 0]
  /\ drained = [p \in Proc |-> 0]

-----------------------------------------------------------------------------
(* WeakLock, TryWeakLock and WeakLockCtx.                                  *)

WeakLock(p, i) ==
  /\ At(p, "idle")
  /\ slots' = [slots EXCEPT ![i] = @ + 1]
  /\ slot' = [slot EXCEPT ![p] = i]
  /\ Goto(p, "weakCheck")
  /\ UNCHANGED <<strong, owned, slowHolders, weakParked, queue, asleep, drained>>

\* strong is loaded after the increment: the Dekker half of the weak side.
WeakCheck(p) ==
  /\ At(p, "weakCheck")
  /\ Goto(p, IF strong = 0 THEN "weakFast" ELSE "weakBackoff")
  /\ UNCHANGED <<slots, strong, owned, slowHolders, weakParked, queue, asleep,
                 slot, drained>>

\* The count is taken back; TryWeakLock gives up, the others go slow.
WeakBackoff(p) ==
  /\ At(p, "weakBackoff")
  /\ slots' = [slots EXCEPT ![slot[p]] = @ - 1]
  /\ Goto(p, "weakSlow") \/ (p \in Impatient /\ Goto(p, "idle"))
  /\ UNCHANGED <<strong, owned, slowHolders, weakParked, queue, asleep, slot,
                 drained>>

\* weakSlow's loop body: park while the gate is owned, hold otherwise, parked
\* being the parked count so far.
ParkOrHold(p, parked, sleepers) ==
  /\ \/ /\ owned
        /\ weakParked' = parked + 1
        /\ asleep' = sleepers \cup {p}
        /\ Goto(p, "weakWait")
        /\ UNCHANGED slowHolders
     \/ /\ ~owned
        /\ weakParked' = parked
        /\ asleep' = sleepers
        /\ slowHolders' = slowHolders + 1
        /\ Goto(p, "weakHeld")
  /\ UNCHANGED <<slots, strong, owned, queue, slot, drained>>

WeakSlow(p) == At(p, "weakSlow") /\ ParkOrHold(p, weakParked, asleep)

\* The last weak waiter to leave wakes the strong ones.
SleepersAfterUnpark == IF weakParked = 1 THEN {} ELSE asleep

\* Mutant: the last weak waiter leaves without a broadcast.
WeakWakeSilent(p) ==
  /\ At(p, "weakWait")
  /\ p \notin asleep
  /\ ParkOrHold(p, weakParked - 1, asleep)

WeakWake(p) ==
  /\ At(p, "weakWait")
  /\ p \notin asleep
  /\ ParkOrHold(p, weakParked - 1, SleepersAfterUnpark)

WeakCancel(p) ==
  /\ At(p, "weakWait")
  /\ p \in Impatient
  /\ weakParked' = weakParked - 1
  /\ asleep' = SleepersAfterUnpark \ {p}
  /\ Goto(p, "idle")
  /\ UNCHANGED <<slots, strong, owned, slowHolders, queue, slot, drained>>

\* Mutant: a fast hold is given back to the first stripe.
WeakUnlockFirst(p) ==
  /\ At(p, "weakFast")
  /\ slots' = [slots EXCEPT ![0] = @ - 1]
  /\ Goto(p, "idle")
  /\ UNCHANGED <<strong, owned, slowHolders, weakParked, queue, asleep, slot,
                 drained>>

WeakUnlockFast(p) ==
  /\ At(p, "weakFast")
  /\ slots' = [slots EXCEPT ![slot[p]] = @ - 1]
  /\ Goto(p, "idle")
  /\ UNCHANGED <<strong, owned, slowHolders, weakParked, queue, asleep, slot,
                 drained>>

WeakUnlockSlow(p) ==
  /\ At(p, "weakHeld")
  /\ slowHolders' = slowHolders - 1
  /\ asleep' = IF slowHolders = 1 THEN {} ELSE asleep
  /\ Goto(p, "idle")
  /\ UNCHANGED <<slots, strong, owned, weakParked, queue, slot, drained>>

-----------------------------------------------------------------------------
(* strongLock and releaseStrong.                                           *)

\* Mutant: a waiting strong locker overtakes the parked weak ones.
MustWaitBarging(p, q) == owned \/ Head(q) # p

MustWait(p, q) == owned \/ Head(q) # p \/ weakParked # 0

\* The loop that waits for the turn of p in the queue q.
ParkOrOwn(p, q) ==
  /\ \/ /\ MustWait(p, q)
        /\ queue' = q
        /\ asleep' = asleep \cup {p}
        /\ Goto(p, "strongWait")
        /\ UNCHANGED <<strong, owned, drained>>
     \/ /\ ~MustWait(p, q)
        /\ queue' = Tail(q)
        /\ owned' = TRUE
        /\ strong' = 1
        /\ drained' = [drained EXCEPT ![p] = 0]
        /\ Goto(p, "drain")
        /\ UNCHANGED asleep
  /\ UNCHANGED <<slots, slowHolders, weakParked, slot>>

StrongLock(p) == At(p, "idle") /\ ParkOrOwn(p, Append(queue, p))

StrongWake(p) ==
  /\ At(p, "strongWait")
  /\ p \notin asleep
  /\ ParkOrOwn(p, queue)

\* The ticket is deleted wherever it stands, and the others look again.
StrongCancel(p) ==
  /\ At(p, "strongWait")
  /\ \E i \in 1 .. Len(queue) :
       /\ queue[i] = p
       /\ queue' = SubSeq(queue, 1, i - 1) \o SubSeq(queue, i + 1, Len(queue))
  /\ asleep' = {}
  /\ Goto(p, "idle")
  /\ UNCHANGED <<slots, strong, owned, slowHolders, weakParked, slot, drained>>

\* Mutant: a stripe is passed without looking at it.
DrainBlind(p) ==
  /\ At(p, "drain")
  /\ drained' = [drained EXCEPT ![p] = @ + 1]
  /\ Goto(p, IF drained[p] + 1 = GateSlots THEN "slowCheck" ELSE "drain")
  /\ UNCHANGED <<slots, strong, owned, slowHolders, weakParked, queue, asleep,
                 slot>>

\* One stripe is seen empty; new weak lockers back off from it.
Drain(p) ==
  /\ At(p, "drain")
  /\ slots[drained[p]] = 0
  /\ drained' = [drained EXCEPT ![p] = @ + 1]
  /\ Goto(p, IF drained[p] + 1 = GateSlots THEN "slowCheck" ELSE "drain")
  /\ UNCHANGED <<slots, strong, owned, slowHolders, weakParked, queue, asleep,
                 slot>>

DrainCancel(p) ==
  /\ At(p, "drain")
  /\ slots[drained[p]] # 0
  /\ Goto(p, "release")
  /\ UNCHANGED <<slots, strong, owned, slowHolders, weakParked, queue, asleep,
                 slot, drained>>

\* The slow-path holders drain as well.
SlowCheck(p) ==
  /\ pc[p] \in {"slowCheck", "slowWait"}
  /\ p \notin asleep
  /\ \/ slowHolders # 0 /\ asleep' = asleep \cup {p} /\ Goto(p, "slowWait")
     \/ slowHolders = 0 /\ asleep' = asleep /\ Goto(p, "strongHeld")
  /\ UNCHANGED <<slots, strong, owned, slowHolders, weakParked, queue, slot,
                 drained>>

\* Mutant: the cancelled locker gives the gate up before releaseStrong does.
SlowCancelOwned(p) ==
  /\ At(p, "slowWait")
  /\ owned' = FALSE
  /\ asleep' = asleep \ {p}
  /\ Goto(p, "release")
  /\ UNCHANGED <<slots, strong, slowHolders, weakParked, queue, slot, drained>>

SlowCancel(p) ==
  /\ At(p, "slowWait")
  /\ asleep' = asleep \ {p}
  /\ Goto(p, "release")
  /\ UNCHANGED <<slots, strong, owned, slowHolders, weakParked, queue, slot,
                 drained>>

ReleaseStrong(p) ==
  /\ pc[p] \in {"strongHeld", "release"}
  /\ owned' = FALSE
  /\ strong' = 0
  /\ asleep' = {}
  /\ Goto(p, "idle")
  /\ UNCHANGED <<slots, slowHolders, weakParked, queue, slot, drained>>

-----------------------------------------------------------------------------
\* The steps of a goroutine that is inside an operation or holds the gate.
Running(p) ==
  \/ WeakCheck(p) \/ WeakBackoff(p) \/ WeakSlow(p) \/ WeakWake(p)
  \/ WeakUnlockFast(p) \/ WeakUnlockSlow(p) \/ StrongWake(p) \/ Drain(p)
  \/ SlowCheck(p) \/ ReleaseStrong(p)

Cancelling(p) ==
  WeakCancel(p) \/ StrongCancel(p) \/ DrainCancel(p) \/ SlowCancel(p)

Calling(p) == StrongLock(p) \/ \E i \in Slots : WeakLock(p, i)

Next == \E p \in Proc : Running(p) \/ Cancelling(p) \/ Calling(p)

Spec == Init /\ [][Next]_vars

\* A goroutine inside an operation runs, and a holder lets go in the end; no
\* one has to call, and no context has to be cancelled.
FairSpec == Spec /\ \A p \in Proc : WF_vars(Running(p))

-----------------------------------------------------------------------------
(* Properties.                                                             *)

TypeOK ==
  /\ slots \in [Slots -> Nat]
  /\ strong \in {0, 1} /\ owned \in BOOLEAN
  /\ slowHolders \in Nat /\ weakParked \in Nat
  /\ queue \in Seq(Proc)
  /\ asleep \in SUBSET Proc
  /\ pc \in [Proc -> Counted \cup Owning \cup Outside]
  /\ slot \in [Proc -> Slots]
  /\ drained \in [Proc -> 0 .. GateSlots]

\* A strong holder is alone: no other strong holder, no weak one of either
\* path, although weak lockers keep incrementing stripes it has already seen
\* empty.
Exclusion ==
  \A p, q \in Proc : At(p, "strongHeld") /\ p # q =>
    pc[q] \notin {"strongHeld", "weakFast", "weakHeld"}

\* Neither panic of gate.go is reachable: whoever is about to release, a
\* cancelled locker included, holds what it releases.
ReleasesHeld ==
  \A p \in Proc : /\ pc[p] \in {"strongHeld", "release"} => owned
                  /\ At(p, "weakHeld") => slowHolders > 0

\* Nobody sleeps without a reason: as long as a goroutine is asleep, what it
\* waits for has not come, so some other goroutine will broadcast.
SleepJustified ==
  \A p \in asleep :
    \/ At(p, "weakWait") /\ owned
    \/ At(p, "strongWait") /\ MustWait(p, queue)
    \/ At(p, "slowWait") /\ slowHolders # 0

\* Every goroutine that waits gets in: a strong locker although weak ones keep
\* coming ("a writer looping on WeakLock/WeakUnlock cannot starve a DDL"), a
\* parked weak one although strong ones keep coming and being cancelled.
Acquires ==
  \A p \in Proc : pc[p] \in {"weakWait", "strongWait", "drain", "slowWait"} ~>
                    pc[p] \in {"weakHeld", "strongHeld", "idle"}

(***************************************************************************)
(* The inductive invariant behind Exclusion, ReleasesHeld and              *)
(* SleepJustified.                                                         *)
(***************************************************************************)
InStripe(i) == {p \in Proc : pc[p] \in Counted /\ slot[p] = i}
SlowSet == {p \in Proc : At(p, "weakHeld")}
ParkedSet == {p \in Proc : At(p, "weakWait")}

\* The counters count.
CountInv ==
  /\ \A i \in Slots : slots[i] = Cardinality(InStripe(i))
  /\ slowHolders = Cardinality(SlowSet)
  /\ weakParked = Cardinality(ParkedSet)

\* The gate has one owner, and the flag is up exactly while it has.
OwnerInv ==
  /\ \A p, q \in Proc : pc[p] \in Owning /\ pc[q] \in Owning => p = q
  /\ \A p \in Proc : pc[p] \in Owning => owned
  /\ strong = (IF owned THEN 1 ELSE 0)

\* Nobody holds a stripe the owner has drained.
DrainInv ==
  \A p \in Proc :
    /\ At(p, "drain") => /\ drained[p] < GateSlots
                         /\ \A q \in Proc : At(q, "weakFast") => slot[q] >= drained[p]
    /\ pc[p] \in {"slowCheck", "slowWait", "strongHeld"} =>
         \A q \in Proc : ~At(q, "weakFast")
    /\ At(p, "strongHeld") => \A q \in Proc : ~At(q, "weakHeld")

\* A waiting strong locker has a ticket.
QueueInv ==
  \A p \in Proc : At(p, "strongWait") => \E i \in 1 .. Len(queue) : queue[i] = p

\* The conjunction is preserved by every step of the gate.
IInv ==
  TypeOK /\ CountInv /\ OwnerInv /\ DrainInv /\ QueueInv /\ SleepJustified
=============================================================================
