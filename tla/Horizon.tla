------------------------------ MODULE Horizon ------------------------------
(***************************************************************************)
(* The reclamation horizon: the slots in which snapshots announce their    *)
(* start instants (graph/mvcc/horizon.go), the snapshots that take them    *)
(* (graph/lpg snapshot.go, mvcc_write.go) and the reclaimers that scan     *)
(* them for a watermark and free the versions at or below it               *)
(* (mvcc_vacuum.go, mvcc_gc.go).                                           *)
(*                                                                         *)
(* Each atomic operation of the code on a shared word is a step of its     *)
(* own; a load followed by a CompareAndSwap that is retried until it       *)
(* succeeds is one step.  A version is known by the timestamp it was       *)
(* superseded at, so what is freed is a bound on timestamps.  A local      *)
(* variable is reset when its last use is past.                            *)
(***************************************************************************)
EXTENDS Integers, FiniteSets

CONSTANTS
  Reader,     \* snapshots opened by BeginRead: their end scans the horizon
  Writer,     \* snapshots of write brackets: their end does not
  Vacuum,     \* the sweeper goroutine (vacuumPass)
  Reclaimer,  \* callers of ReclaimNow
  Words,      \* occupancy words (16 in the code)
  Bits,       \* slots per word (64 in the code)
  MaxTS       \* bound on the published frontier

Snapshot == Reader \cup Writer
Sweeper == Vacuum \cup Reclaimer
Scanner == Reader \cup Sweeper
Proc == Snapshot \cup Sweeper

ASSUME SnapshotAssumption == IsFiniteSet(Snapshot)
ASSUME RolesAssumption ==
  /\ Reader \cap Writer = {} /\ Vacuum \cap Reclaimer = {}
  /\ Snapshot \cap Sweeper = {}
ASSUME SizesAssumption ==
  Words \in Nat \ {0} /\ Bits \in Nat \ {0} /\ MaxTS \in Nat

VARIABLES
  visible,        \* Clock.visible, the published frontier
  next,           \* Horizon.next, modulo the number of words
  occ,            \* the slots whose bit in Horizon.occ is set
  ts,             \* Horizon.slots
  unreg,          \* Horizon.unreg
  staleLeave,     \* Horizon.staleLeave
  lastWatermark,  \* vacuumState.lastWatermark
  wmRegress,      \* vacuumState.wmRegress
  sweeping,       \* vacuumState.sweeping
  freed,          \* every version superseded at or below this may be gone
  pc,             \* where each process is
  slot,           \* the slot a snapshot holds
  startTS,        \* the instant of a snapshot
  word,           \* the word a claim started at, or a scan has come to
  tried,          \* how many words a claim has found full
  mask,           \* the slots of the word that a scan has yet to visit
  oldest,         \* the least instant a scan has seen
  before          \* lastWatermark as it was before the scan

horizonVars == <<next, occ, ts, unreg, staleLeave>>
vacuumVars == <<lastWatermark, wmRegress, sweeping, freed>>
snapVars == <<slot, startTS, tried>>
scanVars == <<mask, oldest, before>>
vars == <<visible, horizonVars, vacuumVars, pc, snapVars, word, scanVars>>

Slots == (0 .. Words - 1) \X (0 .. Bits - 1)

unregistered == <<-1, -1>>

\* The slot value of a snapshot that has not read the clock yet.
holdEverything == 1

WordSlots(w) == {s \in Slots : s[1] = w}

At(p, label) == pc[p] = label

Goto(p, label) == pc' = [pc EXCEPT ![p] = label]

Init ==
  /\ visible = 0
  /\ next = 0 /\ occ = {} /\ ts = [s \in Slots |-> 0]
  /\ unreg = 0 /\ staleLeave = 0
  /\ lastWatermark = 0 /\ wmRegress = 0 /\ sweeping = FALSE /\ freed = 0
  /\ pc = [p \in Proc |-> "idle"]
  /\ slot = [p \in Snapshot |-> unregistered]
  /\ startTS = [p \in Snapshot |-> 0]
  /\ tried = [p \in Snapshot |-> 0]
  /\ word = [p \in Proc |-> 0]
  /\ mask = [p \in Scanner |-> {}]
  /\ oldest = [p \in Scanner |-> 0]
  /\ before = [p \in Scanner |-> 0]

\* A commit is published.
Tick ==
  /\ visible < MaxTS
  /\ visible' = visible + 1
  /\ UNCHANGED <<horizonVars, vacuumVars, pc, snapVars, word, scanVars>>

-----------------------------------------------------------------------------
(* A snapshot: EnterHolding, ReadTS, Publish, then Leave.                  *)

\* claim picks the word it starts at.
EnterHolding(p) ==
  /\ At(p, "idle")
  /\ next' = (next + 1) % Words
  /\ word' = [word EXCEPT ![p] = next']
  /\ tried' = [tried EXCEPT ![p] = 0]
  /\ Goto(p, "claim")
  /\ UNCHANGED <<visible, occ, ts, unreg, staleLeave, vacuumVars, slot, startTS,
                 scanVars>>

ClaimWord(p) == (word[p] + tried[p]) % Words

ClaimDone(p) ==
  /\ word' = [word EXCEPT ![p] = 0]
  /\ tried' = [tried EXCEPT ![p] = 0]

\* Mutant: a bit that is set is taken for free.
ClaimBitTaken(p) ==
  /\ At(p, "claim")
  /\ LET s == <<ClaimWord(p), 0>>
     IN  /\ occ' = occ \cup {s}
         /\ slot' = [slot EXCEPT ![p] = s]
  /\ Goto(p, "hold")
  /\ ClaimDone(p)
  /\ UNCHANGED <<visible, next, ts, unreg, staleLeave, vacuumVars, startTS,
                 scanVars>>

\* The lowest free bit of the word is set.
ClaimBit(p) ==
  /\ At(p, "claim")
  /\ LET free == WordSlots(ClaimWord(p)) \ occ
     IN  \E s \in free :
           /\ \A t \in free : s[2] <= t[2]
           /\ occ' = occ \cup {s}
           /\ slot' = [slot EXCEPT ![p] = s]
  /\ Goto(p, "hold")
  /\ ClaimDone(p)
  /\ UNCHANGED <<visible, next, ts, unreg, staleLeave, vacuumVars, startTS,
                 scanVars>>

\* Mutant: a snapshot without a slot is not counted.
ClaimFullUncounted(p) ==
  /\ At(p, "claim")
  /\ WordSlots(ClaimWord(p)) \subseteq occ
  /\ \/ /\ tried[p] + 1 < Words
        /\ tried' = [tried EXCEPT ![p] = @ + 1]
        /\ UNCHANGED <<word, slot, pc>>
     \/ /\ tried[p] + 1 = Words
        /\ ClaimDone(p)
        /\ slot' = [slot EXCEPT ![p] = unregistered]
        /\ Goto(p, "clock")
  /\ UNCHANGED <<visible, next, occ, ts, unreg, staleLeave, vacuumVars, startTS,
                 scanVars>>

\* The word is full; after the last one the snapshot stays unregistered.
ClaimFull(p) ==
  /\ At(p, "claim")
  /\ WordSlots(ClaimWord(p)) \subseteq occ
  /\ \/ /\ tried[p] + 1 < Words
        /\ tried' = [tried EXCEPT ![p] = @ + 1]
        /\ UNCHANGED <<word, unreg, slot, pc>>
     \/ /\ tried[p] + 1 = Words
        /\ ClaimDone(p)
        /\ unreg' = unreg + 1
        /\ slot' = [slot EXCEPT ![p] = unregistered]
        /\ Goto(p, "clock")
  /\ UNCHANGED <<visible, next, occ, ts, staleLeave, vacuumVars, startTS, scanVars>>

Hold(p) ==
  /\ At(p, "hold")
  /\ ts' = [ts EXCEPT ![slot[p]] = holdEverything]
  /\ Goto(p, "clock")
  /\ UNCHANGED <<visible, next, occ, unreg, staleLeave, vacuumVars, snapVars,
                 word, scanVars>>

ReadClock(p) ==
  /\ At(p, "clock")
  /\ startTS' = [startTS EXCEPT ![p] = visible]
  /\ Goto(p, "publish")
  /\ UNCHANGED <<visible, horizonVars, vacuumVars, slot, tried, word, scanVars>>

Publish(p) ==
  /\ At(p, "publish")
  /\ ts' = IF slot[p] = unregistered THEN ts
           ELSE [ts EXCEPT ![slot[p]] = startTS[p] + 1]
  /\ Goto(p, "reading")
  /\ UNCHANGED <<visible, next, occ, unreg, staleLeave, vacuumVars, snapVars,
                 word, scanVars>>

\* Mutant: the timestamp of the departed snapshot stays in the slot.
LeaveResidue(p) ==
  /\ At(p, "reading")
  /\ slot[p] # unregistered
  /\ Goto(p, "leave")
  /\ UNCHANGED <<visible, horizonVars, vacuumVars, snapVars, word, scanVars>>

\* The timestamp is invalidated while the slot is still held.
LeaveTS(p) ==
  /\ At(p, "reading")
  /\ slot[p] # unregistered
  /\ ts' = [ts EXCEPT ![slot[p]] = 0]
  /\ Goto(p, "leave")
  /\ UNCHANGED <<visible, next, occ, unreg, staleLeave, vacuumVars, snapVars,
                 word, scanVars>>

\* EndRead goes on to scan the horizon when there are versions; the release of
\* a writer's snapshot never does.
Departed(p) ==
  /\ Goto(p, "idle") \/ (p \in Reader /\ Goto(p, "before"))
  /\ slot' = [slot EXCEPT ![p] = unregistered]
  /\ startTS' = [startTS EXCEPT ![p] = 0]

LeaveBit(p) ==
  /\ At(p, "leave")
  /\ occ' = occ \ {slot[p]}
  /\ staleLeave' = staleLeave + (IF slot[p] \in occ THEN 0 ELSE 1)
  /\ Departed(p)
  /\ UNCHANGED <<visible, next, ts, unreg, vacuumVars, tried, word, scanVars>>

LeaveUnregistered(p) ==
  /\ At(p, "reading")
  /\ slot[p] = unregistered
  /\ unreg' = unreg - 1
  /\ Departed(p)
  /\ UNCHANGED <<visible, next, occ, ts, staleLeave, vacuumVars, tried, word,
                 scanVars>>

-----------------------------------------------------------------------------
(* Oldest, and its callers wakeVacuumOnRelease, vacuumPass and ReclaimNow. *)

\* vacuumPass samples lastWatermark first, ReclaimNow does not.
AcquireSweeper(p) ==
  /\ At(p, "idle")
  /\ ~sweeping
  /\ sweeping' = TRUE
  /\ Goto(p, IF p \in Vacuum THEN "before" ELSE "fallback")
  /\ UNCHANGED <<visible, horizonVars, lastWatermark, wmRegress, freed, snapVars,
                 word, scanVars>>

SampleBefore(p) ==
  /\ At(p, "before")
  /\ before' = [before EXCEPT ![p] = lastWatermark]
  /\ Goto(p, "fallback")
  /\ UNCHANGED <<visible, horizonVars, vacuumVars, snapVars, word, mask, oldest>>

\* The frontier is sampled before the scan and caps its result.
SampleFallback(p) ==
  /\ At(p, "fallback")
  /\ oldest' = [oldest EXCEPT ![p] = visible]
  /\ Goto(p, "unreg")
  /\ UNCHANGED <<visible, horizonVars, vacuumVars, snapVars, word, mask, before>>

\* Oldest answers zero: reclaim nothing.
Suspend(p) ==
  /\ oldest' = [oldest EXCEPT ![p] = 0]
  /\ mask' = [mask EXCEPT ![p] = {}]
  /\ word' = [word EXCEPT ![p] = 0]
  /\ Goto(p, "watermark")

CheckUnregistered(p) ==
  /\ At(p, "unreg")
  /\ \/ unreg # 0 /\ Suspend(p)
     \/ unreg = 0 /\ Goto(p, "word") /\ UNCHANGED <<oldest, mask, word>>
  /\ UNCHANGED <<visible, horizonVars, vacuumVars, snapVars, before>>

\* Where the scan goes with the slots m of the current word left to visit.
ScanOn(p, m) ==
  /\ mask' = [mask EXCEPT ![p] = m]
  /\ \/ m # {} /\ Goto(p, "slot") /\ UNCHANGED word
     \/ /\ m = {} /\ word[p] + 1 < Words
        /\ word' = [word EXCEPT ![p] = @ + 1]
        /\ Goto(p, "word")
     \/ /\ m = {} /\ word[p] + 1 = Words
        /\ word' = [word EXCEPT ![p] = 0]
        /\ Goto(p, "recheck")

LoadWord(p) ==
  /\ At(p, "word")
  /\ ScanOn(p, WordSlots(word[p]) \cap occ)
  /\ UNCHANGED <<visible, horizonVars, vacuumVars, snapVars, oldest, before>>

\* Mutant: the first snapshot seen replaces the fallback instead of lowering it.
LoadSlotDefault(p) ==
  /\ At(p, "slot")
  /\ \E s \in mask[p] :
       /\ \A t \in mask[p] : s[2] <= t[2]
       /\ \/ ts[s] = 0 /\ Suspend(p)
          \/ /\ ts[s] # 0
             /\ oldest' = [oldest EXCEPT ![p] = ts[s] - 1]
             /\ ScanOn(p, mask[p] \ {s})
  /\ UNCHANGED <<visible, horizonVars, vacuumVars, snapVars, before>>

LoadSlot(p) ==
  /\ At(p, "slot")
  /\ \E s \in mask[p] :
       /\ \A t \in mask[p] : s[2] <= t[2]
       /\ \/ ts[s] = 0 /\ Suspend(p)
          \/ /\ ts[s] # 0
             /\ oldest' = [oldest EXCEPT ![p] = IF ts[s] - 1 < @ THEN ts[s] - 1 ELSE @]
             /\ ScanOn(p, mask[p] \ {s})
  /\ UNCHANGED <<visible, horizonVars, vacuumVars, snapVars, before>>

RecheckUnregistered(p) ==
  /\ At(p, "recheck")
  /\ \/ unreg # 0 /\ Suspend(p)
     \/ unreg = 0 /\ Goto(p, "watermark") /\ UNCHANGED <<oldest, mask, word>>
  /\ UNCHANGED <<visible, horizonVars, vacuumVars, snapVars, before>>

\* The caller of Oldest returns.
Return(p) ==
  /\ Goto(p, "idle")
  /\ oldest' = [oldest EXCEPT ![p] = 0]
  /\ before' = [before EXCEPT ![p] = 0]

\* The caller returns with nothing to free.
Suspended(p) ==
  /\ At(p, "watermark")
  /\ oldest[p] = 0
  /\ sweeping' = (IF p \in Sweeper THEN FALSE ELSE sweeping)
  /\ Return(p)
  /\ UNCHANGED <<visible, horizonVars, lastWatermark, wmRegress, freed, snapVars,
                 word, mask>>

\* publishWatermark: a decrease is counted, an advance is recorded.
PublishWatermark(p) ==
  /\ At(p, "watermark")
  /\ p \in Reader \cup Vacuum
  /\ oldest[p] # 0
  /\ wmRegress' = wmRegress + (IF oldest[p] < before[p] THEN 1 ELSE 0)
  /\ lastWatermark' = IF oldest[p] < before[p] \/ oldest[p] <= lastWatermark
                      THEN lastWatermark ELSE oldest[p]
  /\ \/ p \in Reader /\ Return(p)
     \/ p \in Vacuum /\ Goto(p, "sweep") /\ UNCHANGED <<oldest, before>>
  /\ UNCHANGED <<visible, horizonVars, sweeping, freed, snapVars, word, mask>>

\* sweepUnit over every store, then the sweeper slot is given back.
Sweep(p) ==
  /\ \/ At(p, "sweep")
     \/ At(p, "watermark") /\ p \in Reclaimer /\ oldest[p] # 0
  /\ freed' = IF oldest[p] <= freed THEN freed ELSE oldest[p]
  /\ sweeping' = FALSE
  /\ Return(p)
  /\ UNCHANGED <<visible, horizonVars, lastWatermark, wmRegress, snapVars, word,
                 mask>>

-----------------------------------------------------------------------------
SnapStep(p) ==
  \/ EnterHolding(p) \/ ClaimBit(p) \/ ClaimFull(p) \/ Hold(p) \/ ReadClock(p)
  \/ Publish(p) \/ LeaveTS(p) \/ LeaveBit(p) \/ LeaveUnregistered(p)

ScanStep(p) ==
  \/ SampleBefore(p) \/ SampleFallback(p) \/ CheckUnregistered(p) \/ LoadWord(p)
  \/ LoadSlot(p) \/ RecheckUnregistered(p) \/ Suspended(p) \/ PublishWatermark(p)

SweepStep(p) == AcquireSweeper(p) \/ Sweep(p)

Next ==
  \/ Tick
  \/ \E p \in Snapshot : SnapStep(p)
  \/ \E p \in Scanner : ScanStep(p)
  \/ \E p \in Sweeper : SweepStep(p)

Spec == Init /\ [][Next]_vars

-----------------------------------------------------------------------------
(* Properties.                                                             *)

SnapLabels == {"claim", "hold", "clock", "publish", "reading", "leave"}
ScanLabels == {"before", "fallback", "unreg", "word", "slot", "recheck", "watermark"}

TypeOK ==
  /\ visible \in 0 .. MaxTS
  /\ next \in 0 .. Words - 1
  /\ occ \in SUBSET Slots
  /\ ts \in [Slots -> Nat]
  /\ unreg \in Nat /\ staleLeave \in Nat
  /\ lastWatermark \in Nat /\ wmRegress \in Nat /\ freed \in Nat
  /\ sweeping \in BOOLEAN
  /\ pc \in [Proc -> {"idle", "sweep"} \cup SnapLabels \cup ScanLabels]
  /\ \A p \in Proc : /\ pc[p] \in SnapLabels => p \in Snapshot
                     /\ pc[p] \in ScanLabels => p \in Scanner
                     /\ At(p, "sweep") => p \in Vacuum
  /\ slot \in [Snapshot -> Slots \cup {unregistered}]
  /\ startTS \in [Snapshot -> Nat]
  /\ tried \in [Snapshot -> Nat]
  /\ word \in [Proc -> 0 .. Words - 1]
  /\ mask \in [Scanner -> SUBSET Slots]
  /\ oldest \in [Scanner -> Nat]
  /\ before \in [Scanner -> Nat]

\* A snapshot that has read its instant.
Active(p) == pc[p] \in {"publish", "reading"}

\* No version an active snapshot still has to undo is freed under it, however
\* its registration interleaves with a scan: what has been swept, and what a
\* sweeper is about to sweep, was superseded at or before its instant.
ReachableKept ==
  \A p \in Snapshot : Active(p) =>
    /\ freed <= startTS[p]
    /\ \A q \in Vacuum : At(q, "sweep") => oldest[q] <= startTS[p]

\* The watermark never moves backwards: a release or a pass never computes one
\* below the watermark it sampled before its scan (WatermarkRegressions is 0).
NoRegression == wmRegress = 0

\* "my slot still holds MY instant for as long as I am reading", and nobody else
\* holds the slot or gives it back (StaleLeaves is 0).
Represented ==
  /\ staleLeave = 0
  /\ \A p \in Snapshot : At(p, "reading") /\ slot[p] # unregistered =>
       /\ slot[p] \in occ
       /\ ts[slot[p]] = startTS[p] + 1
       /\ \A q \in Snapshot \ {p} :
            pc[q] \in SnapLabels \ {"claim"} => slot[q] # slot[p]

(***************************************************************************)
(* The inductive invariant behind ReachableKept, NoRegression and          *)
(* Represented.                                                            *)
(***************************************************************************)
\* A snapshot that has been through claim and has not left.
Holding(p) == pc[p] \in SnapLabels \ {"claim"}

\* What the slot of a holding snapshot carries.
SlotValue(p) ==
  IF pc[p] \in {"hold", "leave"} THEN 0
  ELSE IF At(p, "reading") THEN startTS[p] + 1 ELSE holdEverything

\* A bit is set exactly while one snapshot holds the slot.
SlotInv ==
  /\ staleLeave = 0
  /\ \A p \in Snapshot :
       /\ pc[p] \in {"hold", "leave"} => slot[p] # unregistered
       /\ Holding(p) /\ slot[p] # unregistered =>
            slot[p] \in occ /\ ts[slot[p]] = SlotValue(p)
  /\ \A p, q \in Snapshot :
       Holding(p) /\ Holding(q) /\ slot[p] = slot[q] /\ slot[p] # unregistered => p = q
  /\ \A s \in occ : \E p \in Snapshot : Holding(p) /\ slot[p] = s
  /\ \A s \in Slots \ occ : ts[s] = 0

UnregisteredSet == {p \in Snapshot : Holding(p) /\ slot[p] = unregistered}

\* unreg counts the snapshots without a slot.
UnregInv == unreg = Cardinality(UnregisteredSet)

\* Every watermark used so far is at or below every active instant.
BoundInv ==
  /\ wmRegress = 0
  /\ lastWatermark <= visible /\ freed <= visible
  /\ \A p \in Snapshot : Active(p) =>
       startTS[p] <= visible /\ lastWatermark <= startTS[p] /\ freed <= startTS[p]

\* The scan of q has not come to the slot of p yet.
Pending(p, q) ==
  \/ At(q, "unreg")
  \/ /\ slot[p] # unregistered
     /\ \/ At(q, "word") /\ slot[p][1] >= word[q]
        \/ At(q, "slot") /\ (slot[p] \in mask[q] \/ slot[p][1] > word[q])

\* A scan is at or below every active instant it will not see any more.
ScanInv ==
  /\ \A p \in Proc : pc[p] \notin {"claim", "word", "slot"} => word[p] = 0
  /\ \A q \in Scanner :
       /\ pc[q] \notin ScanLabels \cup {"sweep"} => oldest[q] = 0 /\ before[q] = 0
       /\ pc[q] \in {"before", "fallback"} => oldest[q] = 0
       /\ oldest[q] <= visible /\ before[q] <= lastWatermark
       /\ oldest[q] = 0 \/ before[q] <= oldest[q]
       /\ \A p \in Snapshot : Active(p) => oldest[q] <= startTS[p] \/ Pending(p, q)

\* The conjunction is preserved by every step.
IInv == TypeOK /\ SlotInv /\ UnregInv /\ BoundInv /\ ScanInv
=============================================================================
