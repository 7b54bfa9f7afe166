--------------------------- MODULE Horizon_proofs ---------------------------
(***************************************************************************)
(* Reclamation never passes an active snapshot, for every number of        *)
(* snapshots, sweepers and slots.                                          *)
(***************************************************************************)
EXTENDS Horizon, FiniteSetTheorems, TLAPS

USE SizesAssumption

\* The marker of a snapshot without a slot is not a slot.
LEMMA NoSlot == unregistered \notin Slots
  BY DEF unregistered, Slots

\* Sets of snapshots that differ at most in p differ by one at most.
LEMMA CountMove ==
  ASSUME NEW S \in SUBSET Snapshot, NEW T \in SUBSET Snapshot, NEW p \in Snapshot,
         \A q \in Snapshot \ {p} : q \in S <=> q \in T
  PROVE  /\ Cardinality(S) \in Nat /\ Cardinality(T) \in Nat
         /\ p \notin S /\ p \in T => Cardinality(T) = Cardinality(S) + 1
         /\ p \in S /\ p \notin T => Cardinality(T) = Cardinality(S) - 1
         /\ (p \in S <=> p \in T) => Cardinality(T) = Cardinality(S)
  <1>1. IsFiniteSet(S) /\ IsFiniteSet(T)
    BY SnapshotAssumption, FS_Subset
  <1>2. Cardinality(S) \in Nat /\ Cardinality(T) \in Nat
    BY <1>1, FS_CardinalityType
  <1>3. ASSUME p \notin S, p \in T PROVE Cardinality(T) = Cardinality(S) + 1
    <2>1. T = S \cup {p}
      BY <1>3
    <2> QED
      BY <1>1, <1>3, <2>1, FS_AddElement
  <1>4. ASSUME p \in S, p \notin T PROVE Cardinality(T) = Cardinality(S) - 1
    <2>1. T = S \ {p}
      BY <1>4
    <2> QED
      BY <1>1, <1>4, <2>1, FS_RemoveElement
  <1>5. ASSUME p \in S <=> p \in T PROVE T = S
    BY <1>5
  <1> QED
    BY <1>2, <1>3, <1>4, <1>5

\* With no unregistered snapshot counted there is none.
LEMMA NoneUnregistered ==
  ASSUME UnregInv, unreg = 0
  PROVE  \A p \in Snapshot : ~(Holding(p) /\ slot[p] = unregistered)
  <1>1. UnregisteredSet \in SUBSET Snapshot
    BY DEF UnregisteredSet
  <1>2. IsFiniteSet(UnregisteredSet) /\ Cardinality(UnregisteredSet) = 0
    BY <1>1, SnapshotAssumption, FS_Subset DEF UnregInv
  <1>3. UnregisteredSet = {}
    BY <1>2, FS_EmptySet
  <1> QED
    BY <1>3 DEF UnregisteredSet

-----------------------------------------------------------------------------
(* Types.                                                                  *)

\* The steps of a snapshot are well typed.
LEMMA SnapTypes ==
  ASSUME TypeOK, UnregInv, NEW p \in Snapshot, SnapStep(p)
  PROVE  TypeOK'
  <1>0. p \in Proc
    BY DEF Proc
  <1> USE <1>0, NoSlot DEF TypeOK, At, Goto, SnapLabels, ScanLabels, horizonVars,
           vacuumVars, snapVars, scanVars
  <1>1. CASE EnterHolding(p)
    <2>1. next' \in 0 .. Words - 1
      BY <1>1 DEF EnterHolding
    <2>2. word' \in [Proc -> 0 .. Words - 1] /\ tried' \in [Snapshot -> Nat]
      BY <1>1, <2>1 DEF EnterHolding
    <2> QED
      BY <1>1, <2>1, <2>2 DEF EnterHolding
  <1>2. CASE ClaimBit(p)
    <2>1. /\ word' \in [Proc -> 0 .. Words - 1] /\ tried' \in [Snapshot -> Nat]
          /\ slot' \in [Snapshot -> Slots \cup {unregistered}] /\ occ' \in SUBSET Slots
      BY <1>2 DEF ClaimBit, ClaimDone, WordSlots
    <2> QED
      BY <1>2, <2>1 DEF ClaimBit
  <1>3. CASE ClaimFull(p)
    <2>1. /\ word' \in [Proc -> 0 .. Words - 1] /\ tried' \in [Snapshot -> Nat]
          /\ slot' \in [Snapshot -> Slots \cup {unregistered}] /\ unreg' \in Nat
      BY <1>3 DEF ClaimFull, ClaimDone
    <2> QED
      BY <1>3, <2>1 DEF ClaimFull
  <1>4. CASE Hold(p)
    <2>1. ts' \in [Slots -> Nat]
      BY <1>4 DEF Hold, holdEverything
    <2> QED
      BY <1>4, <2>1 DEF Hold
  <1>5. CASE ReadClock(p)
    BY <1>5 DEF ReadClock
  <1>6. CASE Publish(p)
    <2>1. ts' \in [Slots -> Nat]
      BY <1>6 DEF Publish
    <2> QED
      BY <1>6, <2>1 DEF Publish
  <1>7. CASE LeaveTS(p)
    BY <1>7 DEF LeaveTS
  <1>8. CASE LeaveBit(p)
    <2>1. staleLeave' \in Nat /\ occ' \in SUBSET Slots
      BY <1>8 DEF LeaveBit
    <2>2. /\ slot' \in [Snapshot -> Slots \cup {unregistered}]
          /\ startTS' \in [Snapshot -> Nat]
      BY <1>8 DEF LeaveBit, Departed
    <2>3. /\ pc' \in [Proc -> {"idle", "sweep"} \cup SnapLabels \cup ScanLabels]
          /\ \A r \in Proc : /\ pc'[r] \in SnapLabels => r \in Snapshot
                             /\ pc'[r] \in ScanLabels => r \in Scanner
                             /\ pc'[r] = "sweep" => r \in Vacuum
      BY <1>8 DEF LeaveBit, Departed, Scanner
    <2> QED
      BY <1>8, <2>1, <2>2, <2>3 DEF LeaveBit
  <1>9. CASE LeaveUnregistered(p)
    <2>1. unreg # 0
      <3>1. ASSUME unreg = 0 PROVE FALSE
        BY <1>9, <3>1, NoneUnregistered DEF LeaveUnregistered, Holding
      <3> QED
        BY <3>1
    <2>2. unreg' \in Nat
      BY <1>9, <2>1 DEF LeaveUnregistered
    <2>3. /\ slot' \in [Snapshot -> Slots \cup {unregistered}]
          /\ startTS' \in [Snapshot -> Nat]
      BY <1>9 DEF LeaveUnregistered, Departed
    <2>4. /\ pc' \in [Proc -> {"idle", "sweep"} \cup SnapLabels \cup ScanLabels]
          /\ \A r \in Proc : /\ pc'[r] \in SnapLabels => r \in Snapshot
                             /\ pc'[r] \in ScanLabels => r \in Scanner
                             /\ pc'[r] = "sweep" => r \in Vacuum
      BY <1>9 DEF LeaveUnregistered, Departed, Scanner
    <2> QED
      BY <1>9, <2>2, <2>3, <2>4 DEF LeaveUnregistered
  <1> QED
    BY <1>1, <1>2, <1>3, <1>4, <1>5, <1>6, <1>7, <1>8, <1>9 DEF SnapStep

\* The steps of a scan are well typed.
LEMMA ScanTypes ==
  ASSUME TypeOK, NEW p \in Scanner, ScanStep(p)
  PROVE  TypeOK'
  <1>0. p \in Proc
    BY DEF Proc, Scanner, Snapshot
  <1> USE <1>0 DEF TypeOK, At, Goto, SnapLabels, ScanLabels, horizonVars, vacuumVars,
           snapVars, scanVars
  <1>1. ASSUME Suspend(p), UNCHANGED <<visible, horizonVars, vacuumVars, snapVars, before>>
        PROVE  TypeOK'
    BY <1>1 DEF Suspend
  <1>2. ASSUME NEW m \in SUBSET Slots, ScanOn(p, m), oldest' \in [Scanner -> Nat],
               UNCHANGED <<visible, horizonVars, vacuumVars, snapVars, before>>
        PROVE  TypeOK'
    <2>1. mask' \in [Scanner -> SUBSET Slots] /\ word' \in [Proc -> 0 .. Words - 1]
      BY <1>2 DEF ScanOn
    <2>2. /\ pc' \in [Proc -> {"idle", "sweep"} \cup SnapLabels \cup ScanLabels]
          /\ \A r \in Proc : /\ pc'[r] \in SnapLabels => r \in Snapshot
                             /\ pc'[r] \in ScanLabels => r \in Scanner
                             /\ pc'[r] = "sweep" => r \in Vacuum
      BY <1>2 DEF ScanOn
    <2> QED
      BY <1>2, <2>1, <2>2
  <1>3. CASE SampleBefore(p)
    BY <1>3 DEF SampleBefore
  <1>4. CASE SampleFallback(p)
    BY <1>4 DEF SampleFallback
  <1>5. CASE CheckUnregistered(p)
    <2>1. CASE unreg = 0
      BY <1>5, <2>1 DEF CheckUnregistered
    <2>2. CASE unreg # 0
      BY <1>1, <1>5, <2>2 DEF CheckUnregistered
    <2> QED
      BY <2>1, <2>2
  <1>6. CASE LoadWord(p)
    <2>1. WordSlots(word[p]) \cap occ \in SUBSET Slots
      BY DEF WordSlots
    <2> QED
      BY <1>2, <1>6, <2>1 DEF LoadWord
  <1>7. CASE LoadSlot(p)
    <2>1. PICK s \in mask[p] :
            \/ ts[s] = 0 /\ Suspend(p)
            \/ /\ ts[s] # 0
               /\ oldest' = [oldest EXCEPT ![p] = IF ts[s] - 1 < @ THEN ts[s] - 1 ELSE @]
               /\ ScanOn(p, mask[p] \ {s})
      BY <1>7 DEF LoadSlot
    <2>2. CASE ts[s] = 0
      BY <1>1, <1>7, <2>1, <2>2 DEF LoadSlot
    <2>3. CASE ts[s] # 0
      <3>1. oldest' \in [Scanner -> Nat]
        BY <2>1, <2>3
      <3>2. mask[p] \ {s} \in SUBSET Slots
        OBVIOUS
      <3> QED
        BY <1>2, <1>7, <2>1, <2>3, <3>1, <3>2 DEF LoadSlot
    <2> QED
      BY <2>2, <2>3
  <1>8. CASE RecheckUnregistered(p)
    <2>1. CASE unreg = 0
      BY <1>8, <2>1 DEF RecheckUnregistered
    <2>2. CASE unreg # 0
      BY <1>1, <1>8, <2>2 DEF RecheckUnregistered
    <2> QED
      BY <2>1, <2>2
  <1>9. CASE Suspended(p)
    BY <1>9 DEF Suspended, Return
  <1>10. CASE PublishWatermark(p)
    <2>1. wmRegress' \in Nat /\ lastWatermark' \in Nat
      BY <1>10 DEF PublishWatermark
    <2>2. /\ oldest' \in [Scanner -> Nat] /\ before' \in [Scanner -> Nat]
      BY <1>10 DEF PublishWatermark, Return
    <2>3. /\ pc' \in [Proc -> {"idle", "sweep"} \cup SnapLabels \cup ScanLabels]
          /\ \A r \in Proc : /\ pc'[r] \in SnapLabels => r \in Snapshot
                             /\ pc'[r] \in ScanLabels => r \in Scanner
                             /\ pc'[r] = "sweep" => r \in Vacuum
      BY <1>10 DEF PublishWatermark, Return
    <2> QED
      BY <1>10, <2>1, <2>2, <2>3 DEF PublishWatermark
  <1> QED
    BY <1>3, <1>4, <1>5, <1>6, <1>7, <1>8, <1>9, <1>10 DEF ScanStep

\* The steps of a sweeper and of the clock are well typed.
LEMMA SweepTypes ==
  ASSUME TypeOK, Tick \/ \E p \in Sweeper : SweepStep(p)
  PROVE  TypeOK'
  <1> USE DEF TypeOK, At, Goto, SnapLabels, ScanLabels, horizonVars, vacuumVars,
          snapVars, scanVars
  <1>1. CASE Tick
    BY <1>1 DEF Tick
  <1>2. ASSUME NEW p \in Sweeper, AcquireSweeper(p) PROVE TypeOK'
    BY <1>2 DEF AcquireSweeper, Proc, Scanner
  <1>3. ASSUME NEW p \in Sweeper, Sweep(p) PROVE TypeOK'
    BY <1>3 DEF Sweep, Return, Proc, Scanner
  <1> QED
    BY <1>1, <1>2, <1>3 DEF SweepStep

-----------------------------------------------------------------------------
(* Slots.                                                                  *)

\* A step of p leaves the other processes where they are.
Others(p) ==
  /\ \A q \in Proc \ {p} : pc'[q] = pc[q] /\ word'[q] = word[q]
  /\ \A q \in Snapshot \ {p} : slot'[q] = slot[q] /\ startTS'[q] = startTS[q]

\* What every step of a snapshot leaves alone.
LEMMA SnapFrame ==
  ASSUME TypeOK, NEW p \in Snapshot, SnapStep(p)
  PROVE  /\ Others(p) /\ UNCHANGED <<visible, vacuumVars, scanVars>>
         /\ pc[p] \in {"idle"} \cup SnapLabels
         /\ pc'[p] \in {"idle", "before"} \cup SnapLabels
  <1>0. p \in Proc
    BY DEF Proc
  <1> USE <1>0 DEF TypeOK, At, Goto, SnapLabels, Others, snapVars, horizonVars
  <1>1. CASE EnterHolding(p)
    BY <1>1 DEF EnterHolding
  <1>2. CASE ClaimBit(p)
    BY <1>2 DEF ClaimBit, ClaimDone
  <1>3. CASE ClaimFull(p)
    BY <1>3 DEF ClaimFull, ClaimDone
  <1>4. CASE Hold(p) \/ ReadClock(p) \/ Publish(p) \/ LeaveTS(p)
    BY <1>4 DEF Hold, ReadClock, Publish, LeaveTS
  <1>5. CASE LeaveBit(p) \/ LeaveUnregistered(p)
    BY <1>5 DEF LeaveBit, LeaveUnregistered, Departed
  <1> QED
    BY <1>1, <1>2, <1>3, <1>4, <1>5 DEF SnapStep

\* A snapshot step changes at most its own slot.
LEMMA SnapSlots ==
  ASSUME TypeOK, SlotInv, NEW p \in Snapshot, SnapStep(p)
  PROVE  SlotInv'
  <1>0. p \in Proc /\ Others(p) /\ \A q \in Snapshot : q \in Proc
    BY SnapFrame DEF Proc
  <1>n. unregistered \notin Slots
    BY NoSlot
  <1> USE <1>0, <1>n DEF TypeOK, At, Goto, SnapLabels, Others, Holding, SlotInv, SlotValue
  <1>1. CASE EnterHolding(p)
    <2>1. pc[p] = "idle" /\ pc'[p] = "claim" /\ UNCHANGED <<occ, ts, staleLeave, slot, startTS>>
      BY <1>1 DEF EnterHolding
    <2> QED
      BY <2>1
  <1>2. CASE ClaimBit(p)
    <2>1. PICK s \in Slots \ occ : occ' = occ \cup {s} /\ slot' = [slot EXCEPT ![p] = s]
      BY <1>2 DEF ClaimBit, WordSlots
    <2>2. pc[p] = "claim" /\ pc'[p] = "hold" /\ UNCHANGED <<ts, staleLeave, startTS>>
      BY <1>2 DEF ClaimBit
    <2>3. slot'[p] = s /\ ts[s] = 0
      BY <2>1
    <2>4. \A q \in Snapshot : Holding(q)' => q = p \/ Holding(q)
      BY <2>2
    <2>5. ASSUME NEW q \in Snapshot
          PROVE  /\ pc'[q] \in {"hold", "leave"} => slot'[q] # unregistered
                 /\ Holding(q)' /\ slot'[q] # unregistered =>
                      slot'[q] \in occ' /\ ts'[slot'[q]] = SlotValue(q)'
      BY <2>1, <2>2, <2>3
    <2>6. ASSUME NEW q \in Snapshot, NEW r \in Snapshot, Holding(q)', Holding(r)',
                 slot'[q] = slot'[r], slot'[q] # unregistered
          PROVE  q = r
      BY <2>1, <2>2, <2>3, <2>6
    <2>7. ASSUME NEW t \in occ' PROVE \E q \in Snapshot : Holding(q)' /\ slot'[q] = t
      <3>1. CASE t = s
        BY <2>2, <2>3, <3>1
      <3>2. CASE t \in occ
        BY <2>2, <3>2
      <3> QED
        BY <2>1, <3>1, <3>2
    <2>8. \A t \in Slots \ occ' : ts'[t] = 0
      BY <2>1, <2>2
    <2> QED
      BY <2>2, <2>5, <2>6, <2>7, <2>8
  <1>3. CASE ClaimFull(p)
    <2>1. UNCHANGED <<occ, ts, staleLeave, startTS>> /\ pc[p] = "claim"
          /\ (pc'[p] = "claim" \/ (pc'[p] = "clock" /\ slot'[p] = unregistered))
      BY <1>3 DEF ClaimFull
    <2> QED
      BY <2>1
  <1>4. CASE Hold(p)
    <2>1. /\ pc[p] = "hold" /\ pc'[p] = "clock" /\ UNCHANGED <<occ, staleLeave, slot, startTS>>
          /\ ts' = [ts EXCEPT ![slot[p]] = holdEverything] /\ slot[p] \in Slots
      BY <1>4 DEF Hold, snapVars
    <2> QED
      BY <2>1
  <1>5. CASE ReadClock(p)
    <2>1. /\ pc[p] = "clock" /\ pc'[p] = "publish"
          /\ UNCHANGED <<occ, ts, staleLeave, slot>>
      BY <1>5 DEF ReadClock, horizonVars
    <2> QED
      BY <2>1
  <1>6. CASE Publish(p)
    <2>1. /\ pc[p] = "publish" /\ pc'[p] = "reading" /\ UNCHANGED <<occ, staleLeave, slot, startTS>>
          /\ ts' = IF slot[p] = unregistered THEN ts
                   ELSE [ts EXCEPT ![slot[p]] = startTS[p] + 1]
      BY <1>6 DEF Publish, snapVars
    <2> QED
      BY <2>1
  <1>7. CASE LeaveTS(p)
    <2>1. /\ pc[p] = "reading" /\ pc'[p] = "leave" /\ UNCHANGED <<occ, staleLeave, slot, startTS>>
          /\ slot[p] # unregistered /\ ts' = [ts EXCEPT ![slot[p]] = 0]
      BY <1>7 DEF LeaveTS, snapVars
    <2> QED
      BY <2>1
  <1>8. CASE LeaveBit(p)
    <2>1. /\ pc[p] = "leave" /\ ~Holding(p)' /\ occ' = occ \ {slot[p]} /\ ts' = ts
          /\ pc'[p] \notin {"hold", "leave"}
          /\ staleLeave' = staleLeave + (IF slot[p] \in occ THEN 0 ELSE 1)
      BY <1>8 DEF LeaveBit, Departed
    <2>2. slot[p] \in occ /\ ts[slot[p]] = 0 /\ staleLeave' = 0
      BY <2>1
    <2>3. ASSUME NEW q \in Snapshot
          PROVE  /\ pc'[q] \in {"hold", "leave"} => slot'[q] # unregistered
                 /\ Holding(q)' /\ slot'[q] # unregistered =>
                      slot'[q] \in occ' /\ ts'[slot'[q]] = SlotValue(q)'
      BY <2>1, <2>2
    <2>4. ASSUME NEW t \in occ' PROVE \E q \in Snapshot : Holding(q)' /\ slot'[q] = t
      <3>1. PICK q \in Snapshot : Holding(q) /\ slot[q] = t
        BY <2>1, <2>4
      <3>2. q # p
        BY <2>1, <2>4, <3>1
      <3> QED
        BY <3>1, <3>2
    <2>5. \A t \in Slots \ occ' : ts'[t] = 0
      BY <2>1, <2>2
    <2> QED
      BY <2>1, <2>2, <2>3, <2>4, <2>5
  <1>9. CASE LeaveUnregistered(p)
    <2>1. /\ pc[p] = "reading" /\ ~Holding(p)' /\ slot[p] = unregistered
          /\ pc'[p] \notin {"hold", "leave"} /\ UNCHANGED <<occ, ts, staleLeave>>
      BY <1>9 DEF LeaveUnregistered, Departed
    <2>2. ASSUME NEW t \in occ' PROVE \E q \in Snapshot : Holding(q)' /\ slot'[q] = t
      <3>1. PICK q \in Snapshot : Holding(q) /\ slot[q] = t
        BY <2>1, <2>2
      <3>2. q # p
        BY <2>1, <2>2, <3>1
      <3> QED
        BY <3>1, <3>2
    <2> QED
      BY <2>1, <2>2
  <1> QED
    BY <1>1, <1>2, <1>3, <1>4, <1>5, <1>6, <1>7, <1>8, <1>9 DEF SnapStep

\* A snapshot step moves unreg with the snapshot.
LEMMA SnapUnreg ==
  ASSUME TypeOK, SlotInv, UnregInv, NEW p \in Snapshot, SnapStep(p)
  PROVE  UnregInv'
  <1>0. p \in Proc /\ Others(p) /\ \A q \in Snapshot : q \in Proc
    BY SnapFrame DEF Proc
  <1> DEFINE S == UnregisteredSet
             T == UnregisteredSet'
             in == Holding(p) /\ slot[p] = unregistered
             inNew == Holding(p)' /\ slot'[p] = unregistered
  <1>1. /\ S \in SUBSET Snapshot /\ T \in SUBSET Snapshot
        /\ \A q \in Snapshot \ {p} : q \in S <=> q \in T
    BY <1>0 DEF UnregisteredSet, Holding, Others
  <1>2. (p \in S <=> in) /\ (p \in T <=> inNew)
    BY DEF UnregisteredSet
  <1>3. \/ in /\ ~inNew /\ unreg' = unreg - 1
        \/ ~in /\ inNew /\ unreg' = unreg + 1
        \/ (in <=> inNew) /\ unreg' = unreg
    <2> USE <1>0, NoSlot DEF TypeOK, At, Goto, SnapLabels, Holding
    <2>1. CASE EnterHolding(p)
      BY <2>1 DEF EnterHolding
    <2>2. CASE ClaimBit(p)
      BY <2>2 DEF ClaimBit, WordSlots
    <2>3. CASE ClaimFull(p)
      BY <2>3 DEF ClaimFull
    <2>4. CASE Hold(p) \/ ReadClock(p) \/ Publish(p) \/ LeaveTS(p)
      BY <2>4 DEF Hold, ReadClock, Publish, LeaveTS, snapVars, horizonVars
    <2>5. CASE LeaveBit(p)
      BY <2>5 DEF LeaveBit, Departed, SlotInv
    <2>6. CASE LeaveUnregistered(p)
      BY <2>6 DEF LeaveUnregistered, Departed
    <2> QED
      BY <2>1, <2>2, <2>3, <2>4, <2>5, <2>6 DEF SnapStep
  <1>4. unreg = Cardinality(S)
    BY DEF UnregInv
  <1>5. SUFFICES unreg' = Cardinality(T)
    BY DEF UnregInv
  <1> HIDE DEF S, T, in, inNew
  <1> QED
    BY <1>1, <1>2, <1>3, <1>4, CountMove

\* Steps that touch no slot and no registration keep both.
LEMMA SlotFrame ==
  ASSUME SlotInv, UnregInv, UNCHANGED <<horizonVars, snapVars>>,
         \A q \in Snapshot : \/ pc'[q] = pc[q]
                             \/ pc[q] \notin SnapLabels /\ pc'[q] \notin SnapLabels
  PROVE  SlotInv' /\ UnregInv'
  <1>1. UNCHANGED <<occ, ts, unreg, staleLeave, slot, startTS>>
    BY DEF horizonVars, snapVars
  <1>2. \A q \in Snapshot : (Holding(q)' <=> Holding(q))
                            /\ (Holding(q) => pc'[q] = pc[q])
                            /\ (pc'[q] \in {"hold", "leave"} => pc[q] = pc'[q])
    BY DEF Holding, SnapLabels
  <1>3. UnregisteredSet' = UnregisteredSet
    BY <1>1, <1>2 DEF UnregisteredSet
  <1>4. UnregInv'
    BY <1>1, <1>3 DEF UnregInv
  <1>5. \A q \in Snapshot : Holding(q) => SlotValue(q)' = SlotValue(q)
    BY <1>1, <1>2 DEF SlotValue, At
  <1>6. SlotInv'
    BY <1>1, <1>2, <1>5 DEF SlotInv
  <1> QED
    BY <1>4, <1>6

-----------------------------------------------------------------------------
(* Bounds and scans.                                                       *)

\* A snapshot that reads the frontier starts above every watermark; the others
\* keep their instants and their places in front of the scans.
LEMMA SnapBounds ==
  ASSUME TypeOK, BoundInv, ScanInv, NEW p \in Snapshot, SnapStep(p)
  PROVE  BoundInv' /\ ScanInv'
  <1>0. /\ p \in Proc /\ Others(p) /\ \A q \in Snapshot : q \in Proc
        /\ \A q \in Scanner : q \in Proc
        /\ UNCHANGED <<visible, lastWatermark, wmRegress, freed, mask, oldest, before>>
        /\ pc[p] \in {"idle"} \cup SnapLabels
        /\ pc'[p] \in {"idle", "before"} \cup SnapLabels
    BY SnapFrame DEF Proc, Scanner, Snapshot, vacuumVars, scanVars
  <1>1. Active(p)' => \/ startTS'[p] = visible
                      \/ Active(p) /\ startTS'[p] = startTS[p] /\ slot'[p] = slot[p]
    <2> USE <1>0 DEF TypeOK, At, Goto, Active
    <2>1. CASE EnterHolding(p) \/ ClaimBit(p) \/ ClaimFull(p)
      BY <2>1 DEF EnterHolding, ClaimBit, ClaimFull
    <2>2. CASE Hold(p) \/ ReadClock(p) \/ Publish(p) \/ LeaveTS(p)
      BY <2>2 DEF Hold, ReadClock, Publish, LeaveTS, snapVars
    <2>3. CASE LeaveBit(p) \/ LeaveUnregistered(p)
      BY <2>3 DEF LeaveBit, LeaveUnregistered, Departed
    <2> QED
      BY <2>1, <2>2, <2>3 DEF SnapStep
  <1>2. \A r \in Snapshot : Active(r)' =>
          \/ startTS'[r] = visible
          \/ Active(r) /\ startTS'[r] = startTS[r] /\ slot'[r] = slot[r]
    BY <1>0, <1>1 DEF Others, Active
  <1>3. BoundInv'
    BY <1>0, <1>2 DEF BoundInv, TypeOK
  <1>4. pc'[p] \notin {"claim", "word", "slot"} => word'[p] = 0
    <2> USE <1>0 DEF TypeOK, At, Goto
    <2>1. CASE EnterHolding(p)
      BY <2>1 DEF EnterHolding
    <2>2. CASE ClaimBit(p) \/ ClaimFull(p)
      BY <2>2 DEF ClaimBit, ClaimFull, ClaimDone
    <2>3. CASE Hold(p) \/ ReadClock(p) \/ Publish(p) \/ LeaveTS(p)
      BY <2>3 DEF Hold, ReadClock, Publish, LeaveTS, ScanInv
    <2>4. CASE LeaveBit(p) \/ LeaveUnregistered(p)
      BY <2>4 DEF LeaveBit, LeaveUnregistered, ScanInv
    <2> QED
      BY <2>1, <2>2, <2>3, <2>4 DEF SnapStep
  <1>5. \A q \in Proc : pc'[q] \notin {"claim", "word", "slot"} => word'[q] = 0
    BY <1>0, <1>4 DEF Others, ScanInv
  <1>6. ASSUME NEW q \in Scanner
        PROVE  /\ pc'[q] \notin ScanLabels \cup {"sweep"} => oldest'[q] = 0 /\ before'[q] = 0
               /\ pc'[q] \in {"before", "fallback"} => oldest'[q] = 0
               /\ q = p => oldest'[q] = 0
    <2>1. CASE q = p
      BY <1>0, <1>6, <2>1 DEF ScanInv, ScanLabels, SnapLabels
    <2>2. CASE q # p
      BY <1>0, <1>6, <2>2 DEF ScanInv, Others
    <2> QED
      BY <2>1, <2>2
  <1>7. ASSUME NEW q \in Scanner, NEW r \in Snapshot, Active(r)'
        PROVE  oldest'[q] <= startTS'[r] \/ Pending(r, q)'
    <2>0. oldest[q] \in Nat /\ oldest[q] <= visible /\ startTS'[r] \in Nat /\ oldest'[q] = oldest[q]
      BY <1>0, SnapTypes, <1>2, <1>7 DEF ScanInv, TypeOK
    <2>1. CASE q = p
      BY <1>6, <2>0, <2>1
    <2>2. CASE q # p /\ startTS'[r] = visible
      BY <2>0, <2>2
    <2>3. CASE q # p /\ Active(r) /\ startTS'[r] = startTS[r] /\ slot'[r] = slot[r]
      <3>1. pc'[q] = pc[q] /\ word'[q] = word[q] /\ mask'[q] = mask[q]
        BY <1>0, <2>3 DEF Others
      <3>2. oldest[q] <= startTS[r] \/ Pending(r, q)
        BY <2>3 DEF ScanInv
      <3> QED
        BY <2>0, <2>3, <3>1, <3>2 DEF Pending, At
    <2> QED
      BY <1>2, <1>7, <2>1, <2>2, <2>3
  <1>8. ScanInv'
    BY <1>0, <1>5, <1>6, <1>7 DEF ScanInv
  <1> QED
    BY <1>3, <1>8

\* What a step of a scanner or a sweeper leaves alone.
ScanFrame(p) ==
  /\ \A q \in Proc \ {p} : pc'[q] = pc[q] /\ word'[q] = word[q]
  /\ \A q \in Scanner \ {p} : /\ mask'[q] = mask[q]
                              /\ oldest'[q] = oldest[q] /\ before'[q] = before[q]
  /\ UNCHANGED <<visible, horizonVars, snapVars>>
  /\ pc[p] \notin SnapLabels /\ pc'[p] \notin SnapLabels

\* A step of a scanner that keeps its own part of the invariant keeps the rest:
\* a published or swept watermark is at or below every active instant.
LEMMA ScanBounds ==
  ASSUME TypeOK, SlotInv, UnregInv, BoundInv, ScanInv, NEW p \in Scanner, ScanFrame(p),
         wmRegress' = 0,
         \/ UNCHANGED <<lastWatermark, freed>>
         \/ /\ pc[p] \in {"watermark", "sweep"}
            /\ lastWatermark' \in {lastWatermark, oldest[p]}
            /\ lastWatermark <= lastWatermark'
            /\ freed' \in {freed, oldest[p]},
         pc'[p] \notin {"word", "slot"} => word'[p] = 0,
         pc'[p] \notin ScanLabels \cup {"sweep"} => oldest'[p] = 0 /\ before'[p] = 0,
         pc'[p] \in {"before", "fallback"} => oldest'[p] = 0,
         oldest'[p] \in Nat, before'[p] \in Nat,
         oldest'[p] <= visible, before'[p] <= lastWatermark',
         oldest'[p] = 0 \/ before'[p] <= oldest'[p],
         \A r \in Snapshot : Active(r) => oldest'[p] <= startTS[r] \/ Pending(r, p)'
  PROVE  SlotInv' /\ UnregInv' /\ BoundInv' /\ ScanInv'
  <1>0. p \in Proc /\ (\A q \in Snapshot : q \in Proc) /\ (\A q \in Scanner : q \in Proc)
    BY DEF Proc, Scanner, Snapshot
  <1>1. SlotInv' /\ UnregInv'
    <2>1. \A q \in Snapshot : \/ pc'[q] = pc[q]
                              \/ pc[q] \notin SnapLabels /\ pc'[q] \notin SnapLabels
      BY <1>0 DEF ScanFrame
    <2> QED
      BY <2>1, SlotFrame DEF ScanFrame
  <1>2. UNCHANGED <<visible, slot, startTS>> /\ \A r \in Snapshot : Active(r)' <=> Active(r)
    BY <1>0 DEF ScanFrame, Active, SnapLabels, snapVars
  <1>3. pc[p] \in {"watermark", "sweep"} =>
          \A r \in Snapshot : Active(r) => oldest[p] <= startTS[r]
    BY DEF ScanInv, Pending, At
  <1>4. oldest[p] \in Nat /\ oldest[p] <= visible
    BY DEF TypeOK, ScanInv
  <1>5. BoundInv'
    BY <1>2, <1>3, <1>4 DEF BoundInv, TypeOK
  <1>6. \A q \in Proc : pc'[q] \notin {"claim", "word", "slot"} => word'[q] = 0
    BY DEF ScanFrame, ScanInv
  <1>7. ASSUME NEW q \in Scanner, q # p
        PROVE  /\ pc'[q] \notin ScanLabels \cup {"sweep"} => oldest'[q] = 0 /\ before'[q] = 0
               /\ pc'[q] \in {"before", "fallback"} => oldest'[q] = 0
               /\ oldest'[q] <= visible /\ before'[q] <= lastWatermark'
               /\ oldest'[q] = 0 \/ before'[q] <= oldest'[q]
               /\ \A r \in Snapshot : Active(r) => oldest'[q] <= startTS[r] \/ Pending(r, q)'
    <2>1. /\ pc'[q] = pc[q] /\ word'[q] = word[q] /\ mask'[q] = mask[q]
          /\ oldest'[q] = oldest[q] /\ before'[q] = before[q] /\ before[q] \in Nat
          /\ lastWatermark \in Nat /\ lastWatermark' \in Nat
      BY <1>0, <1>4, <1>7 DEF ScanFrame, TypeOK
    <2>2. \A r \in Snapshot : Pending(r, q)' <=> Pending(r, q)
      BY <1>2, <2>1 DEF Pending, At
    <2> QED
      BY <2>1, <2>2 DEF ScanInv
  <1>8. ScanInv'
    BY <1>2, <1>6, <1>7 DEF ScanInv
  <1> QED
    BY <1>1, <1>5, <1>8

\* Every step of a scan keeps the invariant.
LEMMA ScanKeeps ==
  ASSUME IInv, NEW p \in Scanner, ScanStep(p)
  PROVE  SlotInv' /\ UnregInv' /\ BoundInv' /\ ScanInv'
  <1>0. /\ TypeOK /\ SlotInv /\ UnregInv /\ BoundInv /\ ScanInv /\ p \in Proc
        /\ oldest[p] \in Nat /\ before[p] \in Nat /\ visible \in Nat
        /\ lastWatermark \in Nat /\ freed \in Nat
        /\ oldest[p] <= visible /\ before[p] <= lastWatermark
        /\ oldest[p] = 0 \/ before[p] <= oldest[p]
        /\ lastWatermark <= visible /\ wmRegress = 0
        /\ \A r \in Snapshot : Active(r) => oldest[p] <= startTS[r] \/ Pending(r, p)
        /\ \A r \in Snapshot : startTS[r] \in Nat
    BY DEF IInv, TypeOK, BoundInv, ScanInv, Proc, Scanner, Snapshot
  <1>t. /\ pc \in [Proc -> {"idle", "sweep"} \cup SnapLabels \cup ScanLabels]
        /\ word \in [Proc -> 0 .. Words - 1] /\ mask \in [Scanner -> SUBSET Slots]
        /\ oldest \in [Scanner -> Nat] /\ before \in [Scanner -> Nat]
    BY <1>0 DEF TypeOK
  \* A scan that stays below every instant it will not see any more.
  <1>1. ASSUME ScanFrame(p), UNCHANGED <<lastWatermark, wmRegress, freed>>,
               pc'[p] \in ScanLabels \ {"before", "fallback"},
               pc'[p] \notin {"word", "slot"} => word'[p] = 0,
               oldest'[p] \in Nat, oldest'[p] <= visible, before'[p] = before[p],
               oldest'[p] = 0 \/ before[p] <= oldest'[p],
               \A r \in Snapshot : Active(r) => oldest'[p] <= startTS[r] \/ Pending(r, p)'
        PROVE  SlotInv' /\ UnregInv' /\ BoundInv' /\ ScanInv'
    BY <1>0, <1>1, ScanBounds
  <1>2. ASSUME Suspend(p), pc[p] \notin SnapLabels,
               UNCHANGED <<visible, horizonVars, vacuumVars, snapVars, before>>
        PROVE  SlotInv' /\ UnregInv' /\ BoundInv' /\ ScanInv'
    <2>1. ScanFrame(p)
      BY <1>0, <1>t, <1>2 DEF Suspend, ScanFrame, Goto, SnapLabels
    <2>2. oldest'[p] = 0 /\ pc'[p] = "watermark" /\ word'[p] = 0
      BY <1>0, <1>t, <1>2 DEF Suspend, Goto
    <2>3. UNCHANGED <<lastWatermark, wmRegress, freed>> /\ before'[p] = before[p]
      BY <1>2 DEF vacuumVars
    <2> QED
      BY <1>0, <1>1, <2>1, <2>2, <2>3 DEF ScanLabels
  <1>3. CASE SampleBefore(p)
    <2>1. /\ pc[p] = "before" /\ pc'[p] = "fallback" /\ before'[p] = lastWatermark
          /\ oldest'[p] = oldest[p] /\ oldest[p] = 0 /\ word'[p] = word[p] /\ word[p] = 0
          /\ UNCHANGED <<lastWatermark, wmRegress, freed>>
      BY <1>0, <1>t, <1>3 DEF SampleBefore, Goto, At, vacuumVars, ScanInv
    <2>2. ScanFrame(p)
      BY <1>0, <1>t, <1>3 DEF SampleBefore, ScanFrame, Goto, At, SnapLabels
    <2> QED
      BY <1>0, <2>1, <2>2, ScanBounds DEF ScanLabels
  <1>4. CASE SampleFallback(p)
    <2>1. /\ pc[p] = "fallback" /\ pc'[p] = "unreg" /\ oldest'[p] = visible
          /\ word'[p] = word[p] /\ word[p] = 0 /\ before'[p] = before[p]
          /\ UNCHANGED <<lastWatermark, wmRegress, freed>>
      BY <1>0, <1>t, <1>4 DEF SampleFallback, Goto, At, vacuumVars, ScanInv
    <2>2. ScanFrame(p)
      BY <1>0, <1>t, <1>4 DEF SampleFallback, ScanFrame, Goto, At, SnapLabels
    <2>3. \A r \in Snapshot : Pending(r, p)'
      BY <2>1 DEF Pending, At
    <2> QED
      BY <1>0, <1>1, <2>1, <2>2, <2>3 DEF ScanLabels
  <1>5. CASE CheckUnregistered(p)
    <2>1. CASE unreg # 0
      BY <1>2, <1>5, <2>1 DEF CheckUnregistered, At, SnapLabels
    <2>2. CASE unreg = 0
      <3>1. /\ pc[p] = "unreg" /\ pc'[p] = "word" /\ oldest'[p] = oldest[p]
            /\ word'[p] = 0 /\ before'[p] = before[p]
            /\ UNCHANGED <<lastWatermark, wmRegress, freed, slot>>
        BY <1>0, <1>t, <1>5, <2>2 DEF CheckUnregistered, Goto, At, vacuumVars, snapVars, ScanInv
      <3>2. ScanFrame(p)
        BY <1>0, <1>t, <1>5, <2>2 DEF CheckUnregistered, ScanFrame, Goto, At, SnapLabels
      <3>3. \A r \in Snapshot : Active(r) => slot[r] \in Slots
        BY <1>0, <2>2, NoneUnregistered DEF TypeOK, Active, Holding, SnapLabels
      <3>4. \A r \in Snapshot : Active(r) => slot[r] # unregistered /\ slot[r][1] >= 0
        BY <3>3, NoSlot DEF Slots
      <3>5. \A r \in Snapshot : Active(r) => Pending(r, p)'
        BY <3>1, <3>4 DEF Pending, At
      <3> QED
        BY <1>0, <1>1, <3>1, <3>2, <3>5 DEF ScanLabels
    <2> QED
      BY <2>1, <2>2
  \* Going on with the slots m of the word: every instant is accounted for, or
  \* its slot is in m or in a later word.
  <1>6. ASSUME NEW m \in SUBSET Slots, ScanOn(p, m), pc[p] \notin SnapLabels,
               UNCHANGED <<visible, horizonVars, vacuumVars, snapVars, before>>,
               \A q \in Scanner \ {p} : oldest'[q] = oldest[q],
               oldest'[p] \in Nat, oldest'[p] <= visible,
               oldest'[p] = 0 \/ before[p] <= oldest'[p],
               \A r \in Snapshot : Active(r) =>
                 \/ oldest'[p] <= startTS[r]
                 \/ slot[r] \in Slots /\ (slot[r] \in m \/ slot[r][1] > word[p])
        PROVE  SlotInv' /\ UnregInv' /\ BoundInv' /\ ScanInv'
    <2>1. ScanFrame(p)
      BY <1>0, <1>t, <1>6 DEF ScanOn, ScanFrame, Goto, SnapLabels
    <2>2. UNCHANGED <<lastWatermark, wmRegress, freed, slot>> /\ before'[p] = before[p]
      BY <1>6 DEF vacuumVars, snapVars
    <2>3. CASE m # {}
      <3>1. pc'[p] = "slot" /\ mask'[p] = m /\ word'[p] = word[p]
        BY <1>0, <1>t, <1>6, <2>3 DEF ScanOn, Goto
      <3>2. \A r \in Snapshot : Active(r) => oldest'[p] <= startTS[r] \/ Pending(r, p)'
        BY <1>6, <2>2, <3>1, NoSlot DEF Pending, At
      <3> QED
        BY <1>1, <1>6, <2>1, <2>2, <3>1, <3>2 DEF ScanLabels
    <2>4. CASE m = {} /\ word[p] + 1 < Words
      <3>1. pc'[p] = "word" /\ word'[p] = word[p] + 1
        BY <1>0, <1>t, <1>6, <2>4 DEF ScanOn, Goto
      <3>2. \A r \in Snapshot : slot[r] \in Slots /\ slot[r][1] > word[p] => slot[r][1] >= word[p] + 1
        BY <1>0, <1>t DEF Slots
      <3>3. \A r \in Snapshot : Active(r) => oldest'[p] <= startTS[r] \/ Pending(r, p)'
        BY <1>6, <2>2, <2>4, <3>1, <3>2, NoSlot DEF Pending, At
      <3> QED
        BY <1>1, <1>6, <2>1, <2>2, <3>1, <3>3 DEF ScanLabels
    <2>5. CASE m = {} /\ ~(word[p] + 1 < Words)
      <3>1. pc'[p] = "recheck" /\ word'[p] = 0
        BY <1>0, <1>t, <1>6, <2>5 DEF ScanOn, Goto
      <3>2. \A r \in Snapshot : slot[r] \in Slots => ~(slot[r][1] > word[p])
        BY <1>0, <1>t, <2>5 DEF Slots
      <3>3. \A r \in Snapshot : Active(r) => oldest'[p] <= startTS[r]
        BY <1>6, <2>5, <3>2
      <3> QED
        BY <1>1, <1>6, <2>1, <2>2, <3>1, <3>3 DEF ScanLabels
    <2> QED
      BY <2>3, <2>4, <2>5
  <1>7. CASE LoadWord(p)
    <2> DEFINE m == WordSlots(word[p]) \cap occ
    <2>1. m \in SUBSET Slots /\ ScanOn(p, m) /\ oldest' = oldest /\ pc[p] = "word"
          /\ UNCHANGED <<visible, horizonVars, vacuumVars, snapVars, before>>
      BY <1>7 DEF LoadWord, WordSlots, At
    <2>2. ASSUME NEW r \in Snapshot, Active(r), Pending(r, p)
          PROVE  slot[r] \in Slots /\ (slot[r] \in m \/ slot[r][1] > word[p])
      <3>1. slot[r] # unregistered /\ slot[r][1] >= word[p]
        BY <2>1, <2>2 DEF Pending, At
      <3>2. slot[r] \in occ /\ slot[r] \in Slots
        BY <1>0, <2>2, <3>1 DEF SlotInv, TypeOK, Active, Holding, SnapLabels
      <3>3. slot[r][1] \in Int
        BY <3>2 DEF Slots
      <3> QED
        BY <1>0, <1>t, <3>1, <3>2, <3>3 DEF WordSlots
    <2> HIDE DEF m
    <2>3. \A r \in Snapshot : Active(r) =>
            \/ oldest'[p] <= startTS[r]
            \/ slot[r] \in Slots /\ (slot[r] \in m \/ slot[r][1] > word[p])
      BY <1>0, <2>1, <2>2
    <2> QED
      BY <1>0, <1>6, <2>1, <2>3 DEF SnapLabels
  <1>8. CASE LoadSlot(p)
    <2>1. PICK s \in mask[p] :
            \/ ts[s] = 0 /\ Suspend(p)
            \/ /\ ts[s] # 0
               /\ oldest' = [oldest EXCEPT ![p] = IF ts[s] - 1 < @ THEN ts[s] - 1 ELSE @]
               /\ ScanOn(p, mask[p] \ {s})
      BY <1>8 DEF LoadSlot
    <2>2. pc[p] = "slot" /\ UNCHANGED <<visible, horizonVars, vacuumVars, snapVars, before>>
      BY <1>8 DEF LoadSlot, At
    <2>3. CASE ts[s] = 0
      BY <1>2, <2>1, <2>2, <2>3 DEF SnapLabels
    <2>4. CASE ts[s] # 0
      <3>1. s \in Slots /\ ts[s] \in Nat
        BY <1>0, <1>t DEF TypeOK
      <3>2. /\ oldest'[p] = IF ts[s] - 1 < oldest[p] THEN ts[s] - 1 ELSE oldest[p]
            /\ \A q \in Scanner \ {p} : oldest'[q] = oldest[q]
        BY <1>t, <2>1, <2>4
      <3>3. oldest'[p] \in Nat /\ oldest'[p] <= oldest[p] /\ oldest'[p] <= ts[s] - 1
        BY <1>0, <2>4, <3>1, <3>2
      <3>4. PICK h \in Snapshot : Holding(h) /\ slot[h] = s
        BY <1>0, <2>4, <3>1 DEF SlotInv
      <3>5. ts[s] = SlotValue(h)
        BY <1>0, <3>1, <3>4, NoSlot DEF SlotInv
      <3>6. ts[s] = 1 \/ (Active(h) /\ ts[s] = startTS[h] + 1)
        BY <2>4, <3>5 DEF SlotValue, holdEverything, Active, At
      <3>7. oldest'[p] = 0 \/ before[p] <= oldest'[p]
        <4>1. CASE ts[s] = 1
          BY <3>3, <4>1
        <4>2. CASE Active(h) /\ ts[s] = startTS[h] + 1
          <5>1. before[p] <= startTS[h]
            BY <1>0, <4>2 DEF BoundInv
          <5>2. ts[s] - 1 = startTS[h]
            BY <1>0, <4>2
          <5> QED
            BY <1>0, <3>2, <5>1, <5>2
        <4> QED
          BY <3>6, <4>1, <4>2
      <3>8. ASSUME NEW r \in Snapshot, Active(r)
            PROVE  \/ oldest'[p] <= startTS[r]
                   \/ slot[r] \in Slots /\ (slot[r] \in mask[p] \ {s} \/ slot[r][1] > word[p])
        <4>1. CASE oldest[p] <= startTS[r]
          BY <1>0, <3>3, <4>1
        <4>2. CASE Pending(r, p)
          <5>1. slot[r] \in Slots /\ (slot[r] \in mask[p] \/ slot[r][1] > word[p])
            BY <1>0, <2>2, <4>2 DEF Pending, At, TypeOK
          <5>2. CASE slot[r] = s
            <6>1. ts[s] = SlotValue(r) /\ startTS[r] \in Nat
              BY <1>0, <3>1, <3>8, <5>2, NoSlot DEF SlotInv, Active, Holding, SnapLabels
            <6>2. ts[s] - 1 <= startTS[r]
              BY <3>8, <6>1 DEF SlotValue, Active, At, holdEverything
            <6> QED
              BY <3>1, <3>3, <6>1, <6>2
          <5>3. CASE slot[r] # s
            BY <5>1, <5>3
          <5> QED
            BY <5>2, <5>3
        <4> QED
          BY <1>0, <3>8, <4>1, <4>2
      <3>9. mask[p] \ {s} \in SUBSET Slots /\ ScanOn(p, mask[p] \ {s}) /\ oldest'[p] <= visible
        BY <1>0, <1>t, <2>1, <2>4, <3>3
      <3> QED
        BY <1>6, <2>2, <3>2, <3>3, <3>7, <3>8, <3>9 DEF SnapLabels
    <2> QED
      BY <2>3, <2>4
  <1>9. CASE RecheckUnregistered(p)
    <2>1. CASE unreg # 0
      BY <1>2, <1>9, <2>1 DEF RecheckUnregistered, At, SnapLabels
    <2>2. CASE unreg = 0
      <3>1. /\ pc[p] = "recheck" /\ pc'[p] = "watermark" /\ oldest'[p] = oldest[p]
            /\ word'[p] = 0 /\ before'[p] = before[p]
            /\ UNCHANGED <<lastWatermark, wmRegress, freed>>
        BY <1>0, <1>t, <1>9, <2>2 DEF RecheckUnregistered, Goto, At, vacuumVars, ScanInv
      <3>2. ScanFrame(p)
        BY <1>0, <1>t, <1>9, <2>2 DEF RecheckUnregistered, ScanFrame, Goto, At, SnapLabels
      <3>3. \A r \in Snapshot : ~Pending(r, p)
        BY <3>1 DEF Pending, At
      <3> QED
        BY <1>0, <1>1, <3>1, <3>2, <3>3 DEF ScanLabels
    <2> QED
      BY <2>1, <2>2
  <1>10. CASE Suspended(p)
    <2>1. /\ pc[p] = "watermark" /\ pc'[p] = "idle" /\ oldest'[p] = 0 /\ before'[p] = 0
          /\ word'[p] = 0 /\ UNCHANGED <<lastWatermark, wmRegress, freed>>
      BY <1>0, <1>t, <1>10 DEF Suspended, Return, Goto, At, ScanInv
    <2>2. ScanFrame(p)
      BY <1>0, <1>t, <1>10 DEF Suspended, Return, ScanFrame, Goto, At, SnapLabels
    <2> QED
      BY <1>0, <2>1, <2>2, ScanBounds DEF ScanLabels
  <1>11. CASE PublishWatermark(p)
    <2>1. /\ pc[p] = "watermark" /\ oldest[p] # 0 /\ word'[p] = 0
          /\ wmRegress' = wmRegress + (IF oldest[p] < before[p] THEN 1 ELSE 0)
          /\ lastWatermark' = IF oldest[p] < before[p] \/ oldest[p] <= lastWatermark
                              THEN lastWatermark ELSE oldest[p]
          /\ freed' = freed
      BY <1>0, <1>11 DEF PublishWatermark, At, ScanInv
    <2>2. ~(oldest[p] < before[p])
      BY <1>0, <2>1
    <2>3. /\ wmRegress' = 0 /\ lastWatermark' \in {lastWatermark, oldest[p]}
          /\ lastWatermark <= lastWatermark' /\ lastWatermark' \in Nat
      BY <1>0, <2>1, <2>2
    <2>4. \/ pc'[p] = "idle" /\ oldest'[p] = 0 /\ before'[p] = 0
          \/ pc'[p] = "sweep" /\ oldest'[p] = oldest[p] /\ before'[p] = before[p]
      BY <1>0, <1>t, <1>11 DEF PublishWatermark, Return, Goto
    <2>5. ScanFrame(p)
      BY <1>0, <1>t, <1>11 DEF PublishWatermark, Return, ScanFrame, Goto, At, SnapLabels
    <2>6. \A r \in Snapshot : Active(r) => oldest[p] <= startTS[r]
      BY <1>0, <2>1 DEF Pending, At
    <2>7. before'[p] <= lastWatermark' /\ oldest'[p] <= visible
      BY <1>0, <2>3, <2>4
    <2>8. \A r \in Snapshot : Active(r) => oldest'[p] <= startTS[r]
      BY <1>0, <2>4, <2>6
    <2> QED
      BY <1>0, <2>1, <2>3, <2>4, <2>5, <2>7, <2>8, ScanBounds DEF ScanLabels
  <1> QED
    BY <1>3, <1>4, <1>5, <1>7, <1>8, <1>9, <1>10, <1>11 DEF ScanStep

\* Every step of a sweeper, and of the clock, keeps the invariant.
LEMMA SweepKeeps ==
  ASSUME IInv, Tick \/ \E p \in Sweeper : SweepStep(p)
  PROVE  SlotInv' /\ UnregInv' /\ BoundInv' /\ ScanInv'
  <1>0. /\ TypeOK /\ SlotInv /\ UnregInv /\ BoundInv /\ ScanInv
        /\ visible \in Nat /\ lastWatermark \in Nat /\ freed \in Nat /\ wmRegress = 0
    BY DEF IInv, TypeOK, BoundInv
  <1>t. /\ pc \in [Proc -> {"idle", "sweep"} \cup SnapLabels \cup ScanLabels]
        /\ oldest \in [Scanner -> Nat] /\ before \in [Scanner -> Nat]
        /\ \A r \in Snapshot : startTS[r] \in Nat
    BY <1>0 DEF TypeOK
  <1>1. CASE Tick
    <2>1. visible' = visible + 1 /\ UNCHANGED <<horizonVars, vacuumVars, pc, snapVars, word, scanVars>>
      BY <1>1 DEF Tick
    <2>2. SlotInv' /\ UnregInv'
      BY <1>0, <2>1, SlotFrame
    <2>3. BoundInv'
      BY <1>0, <1>t, <2>1 DEF BoundInv, vacuumVars, snapVars, Active
    <2>4. ScanInv'
      BY <1>0, <1>t, <2>1 DEF ScanInv, Active, Pending, At, vacuumVars, snapVars, scanVars
    <2> QED
      BY <2>2, <2>3, <2>4
  <1>2. ASSUME NEW p \in Sweeper, AcquireSweeper(p)
        PROVE  SlotInv' /\ UnregInv' /\ BoundInv' /\ ScanInv'
    <2>0. p \in Scanner /\ p \in Proc
      BY DEF Scanner, Proc
    <2>1. /\ pc[p] = "idle" /\ pc'[p] \in {"before", "fallback"} /\ word'[p] = 0
          /\ oldest'[p] = 0 /\ before'[p] = 0 /\ UNCHANGED <<lastWatermark, wmRegress, freed>>
      BY <1>0, <1>t, <1>2, <2>0 DEF AcquireSweeper, Goto, At, ScanInv, ScanLabels, scanVars
    <2>2. ScanFrame(p)
      BY <1>t, <1>2, <2>0 DEF AcquireSweeper, ScanFrame, Goto, At, SnapLabels, scanVars
    <2> QED
      BY <1>0, <1>t, <2>0, <2>1, <2>2, ScanBounds DEF ScanLabels
  <1>3. ASSUME NEW p \in Sweeper, Sweep(p)
        PROVE  SlotInv' /\ UnregInv' /\ BoundInv' /\ ScanInv'
    <2>0. p \in Scanner /\ p \in Proc
      BY DEF Scanner, Proc
    <2>1. /\ pc[p] \in {"watermark", "sweep"} /\ pc'[p] = "idle" /\ word'[p] = 0
          /\ oldest'[p] = 0 /\ before'[p] = 0 /\ UNCHANGED <<lastWatermark, wmRegress>>
          /\ freed' \in {freed, oldest[p]}
      BY <1>0, <1>t, <1>3, <2>0 DEF Sweep, Return, Goto, At, ScanInv
    <2>2. ScanFrame(p)
      BY <1>t, <1>3, <2>0 DEF Sweep, Return, ScanFrame, Goto, At, SnapLabels
    <2> QED
      BY <1>0, <1>t, <2>0, <2>1, <2>2, ScanBounds DEF ScanLabels
  <1> QED
    BY <1>1, <1>2, <1>3 DEF SweepStep

-----------------------------------------------------------------------------
\* The invariant holds before any snapshot is taken.
LEMMA HorizonInit == Init => IInv
  <1> SUFFICES ASSUME Init PROVE IInv
    OBVIOUS
  <1>1. TypeOK
    <2>1. 0 \in 0 .. Words - 1 /\ 0 \in 0 .. MaxTS
      OBVIOUS
    <2>2. pc \in [Proc -> {"idle", "sweep"} \cup SnapLabels \cup ScanLabels]
      BY DEF Init
    <2>3. word \in [Proc -> 0 .. Words - 1]
      BY <2>1 DEF Init
    <2>4. \A p \in Proc : pc[p] = "idle"
      BY DEF Init
    <2> QED
      BY <2>1, <2>2, <2>3, <2>4 DEF Init, TypeOK, SnapLabels, ScanLabels, At
  <1>2. \A p \in Snapshot : ~Holding(p) /\ ~Active(p) /\ pc[p] = "idle"
    BY DEF Init, Holding, Active, SnapLabels, Proc
  <1>3. SlotInv
    BY <1>2 DEF Init, SlotInv
  <1>4. UnregInv
    <2>1. UnregisteredSet = {}
      BY <1>2 DEF UnregisteredSet
    <2> QED
      BY <2>1, FS_EmptySet DEF Init, UnregInv
  <1>5. BoundInv
    BY <1>2 DEF Init, BoundInv
  <1>6. ScanInv
    BY <1>2 DEF Init, ScanInv
  <1> QED
    BY <1>1, <1>3, <1>4, <1>5, <1>6 DEF IInv

\* Every step keeps the invariant.
LEMMA HorizonNext == IInv /\ [Next]_vars => IInv'
  <1> SUFFICES ASSUME IInv, [Next]_vars PROVE IInv'
    OBVIOUS
  <1>1. ASSUME NEW p \in Snapshot, SnapStep(p) PROVE IInv'
    BY <1>1, SnapTypes, SnapSlots, SnapUnreg, SnapBounds DEF IInv
  <1>2. ASSUME NEW p \in Scanner, ScanStep(p) PROVE IInv'
    BY <1>2, ScanTypes, ScanKeeps DEF IInv
  <1>3. CASE Tick \/ \E p \in Sweeper : SweepStep(p)
    BY <1>3, SweepTypes, SweepKeeps DEF IInv
  <1>4. CASE UNCHANGED vars
    <2>1. UNCHANGED <<visible, horizonVars, vacuumVars, pc, snapVars, word, scanVars>>
      BY <1>4 DEF vars
    <2>2. TypeOK'
      BY <2>1 DEF IInv, TypeOK, At, horizonVars, vacuumVars, snapVars, scanVars
    <2>3. SlotInv' /\ UnregInv'
      BY <2>1, SlotFrame DEF IInv
    <2>4. BoundInv' /\ ScanInv'
      BY <2>1 DEF IInv, BoundInv, ScanInv, Active, Pending, At, vacuumVars, snapVars, scanVars
    <2> QED
      BY <2>2, <2>3, <2>4 DEF IInv
  <1> QED
    BY <1>1, <1>2, <1>3, <1>4 DEF Next

\* Every reachable state of the horizon satisfies the invariant.
THEOREM HorizonInvariance == Spec => []IInv
  BY HorizonInit, HorizonNext, PTL DEF Spec

\* The horizon is well typed: unreg is never negative.
THEOREM HorizonTypeCorrect == Spec => []TypeOK
  <1>1. IInv => TypeOK
    BY DEF IInv
  <1> QED
    BY <1>1, HorizonInvariance, PTL

\* No reclaimer frees a version that an active snapshot can still reach, for any
\* number of snapshots, sweepers and slots.
THEOREM HorizonSafety == Spec => []ReachableKept
  <1>1. ASSUME IInv PROVE ReachableKept
    <2>1. \A q \in Vacuum : q \in Scanner
      BY DEF Scanner, Sweeper
    <2>2. \A q \in Vacuum : At(q, "sweep") => \A p \in Snapshot : ~Pending(p, q)
      BY DEF Pending, At
    <2> QED
      BY <1>1, <2>1, <2>2 DEF IInv, BoundInv, ScanInv, ReachableKept
  <1> QED
    BY <1>1, HorizonInvariance, PTL

\* publishWatermark never counts a regression.
THEOREM WatermarkMonotone == Spec => []NoRegression
  <1>1. IInv => NoRegression
    BY DEF IInv, BoundInv, NoRegression
  <1> QED
    BY <1>1, HorizonInvariance, PTL

\* A reading snapshot's slot holds its own instant, and no release is stale.
THEOREM SlotsRepresent == Spec => []Represented
  <1>1. IInv => Represented
    BY DEF IInv, SlotInv, SlotValue, Represented, Holding, SnapLabels, At
  <1> QED
    BY <1>1, HorizonInvariance, PTL
=============================================================================
