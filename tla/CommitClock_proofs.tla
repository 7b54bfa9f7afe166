------------------------- MODULE CommitClock_proofs -------------------------
(***************************************************************************)
(* Safety of the commit clock for every number of transactions, waiters    *)
(* and registry slots: the frontier never passes a commit in flight, one   *)
(* record owns each timestamp, and the frontier stays at or below the      *)
(* allocation counter.                                                     *)
(***************************************************************************)
EXTENDS CommitClock, TLAPS

USE KindsAssumption, SlotsAssumption, FloorAssumption, NoTxAssumption

(***************************************************************************)
(* Frames: the groups of variables, expanded.                              *)
(***************************************************************************)
LEMMA InitType == Init => TypeOK
  BY DEF Init, TypeOK, Claiming, AllKinds

LEMMA SlotType == \A n \in Nat : Slot(n) \in 0 .. RegistrySlots - 1
  BY DEF Slot

LEMMA AllocatingType ==
  ASSUME TypeOK, NEW t \in Tx, Allocating(t)
  PROVE  TypeOK'
  <1> USE DEF TypeOK, counters, records, locals, waiting, At, Goto, Continue
  <1>1. CASE AllocateFor(t)
    BY <1>1 DEF AllocateFor, Claiming
  <1>2. CASE ClaimLoad(t)
    BY <1>2 DEF ClaimLoad, Claiming
  <1>3. CASE ClaimHead(t)
    BY <1>3, SlotType DEF ClaimHead, Claiming
  <1>9. CASE ClaimTaken(t)
    BY <1>9 DEF ClaimTaken, Claiming
  <1>10. CASE ClaimFresh(t)
    BY <1>10 DEF ClaimFresh, Claiming
  <1>4. CASE ClaimAssist(t)
    BY <1>4 DEF ClaimAssist, Claiming
  <1>5. CASE ClaimLink(t)
    BY <1>5 DEF ClaimLink, Claiming
  <1>6. CASE ClaimInstall(t)
    BY <1>6 DEF ClaimInstall, Owning
  <1>7. CASE ClaimLost(t)
    BY <1>7 DEF ClaimLost, Claiming
  <1>8. CASE ClaimCounter(t)
    BY <1>8 DEF ClaimCounter, Owning, Finishing
  <1> QED
    BY <1>1, <1>2, <1>3, <1>4, <1>5, <1>6, <1>7, <1>8, <1>9, <1>10 DEF Allocating

LEMMA CommittingType ==
  ASSUME TypeOK, NEW t \in Tx, Committing(t)
  PROVE  TypeOK'
  <1> USE DEF TypeOK, counters, records, locals, waiting, At, Goto
  <1>1. CASE MarkReady(t)
    BY <1>1 DEF MarkReady, Owning
  <1>2. CASE Abort(t)
    BY <1>2 DEF Abort, Finishing
  <1>3. CASE Commit(t)
    BY <1>3 DEF Commit, StampOf, Finishing
  <1> QED
    BY <1>1, <1>2, <1>3 DEF Committing

LEMMA FoundType ==
  ASSUME TypeOK, NEW t \in Tx, NEW n \in Nat, NEW yes \in Finishing,
         Found(t, n, yes)
  PROVE  TypeOK'
  <1>1. Loaded(t, n) \in Tx
    BY SlotType, SMTT(20) DEF Found, Reaches, Loaded, TypeOK
  <1> QED
    BY <1>1 DEF Found, TypeOK, counters, records, waiting, Goto

LEMMA NotFoundType ==
  ASSUME TypeOK, NEW t \in Tx, NEW n \in Nat, NEW no \in Finishing,
         NotFound(t, n, no)
  PROVE  TypeOK'
  BY DEF NotFound, TypeOK, counters, records, waiting, Goto

LEMMA ReturnType ==
  ASSUME TypeOK, NEW t \in Tx, Return(t)
  PROVE  TypeOK'
  BY DEF Return, TypeOK, counters, records, waiting, Goto, Finishing

LEMMA ContinueType ==
  ASSUME TypeOK, NEW t \in Tx, NEW label \in Finishing, Continue(t, label)
  PROVE  TypeOK'
  BY DEF Continue, TypeOK, counters, records, locals, waiting, Goto

LEMMA PublishingType ==
  ASSUME TypeOK, NEW t \in Tx, Publishing(t)
  PROVE  TypeOK'
  <1> USE DEF TypeOK, counters, records, locals, waiting, At, Goto, Continue
  <1>1. CASE PublishInOrder(t)
    BY <1>1 DEF PublishInOrder, Finishing
  <1>2. CASE PublishBlocked(t)
    BY <1>2 DEF PublishBlocked, Finishing
  <1>3. CASE CheckPending(t)
    BY <1>3 DEF CheckPending, Finishing
  <1>4. CASE CheckLinked(t)
    BY <1>4 DEF CheckLinked, Finishing
  <1>5. CASE SeekOwn(t)
    <2>1. claim[t] \in Nat /\ "unlink" \in Finishing /\ "waiters" \in Finishing
      BY DEF Finishing
    <2> QED
      BY <1>5, <2>1, FoundType, NotFoundType DEF SeekOwn
  <1>6. CASE Unlink(t)
    BY <1>6 DEF Unlink, ClearLink, Finishing
  <1>7. CASE Unlinked(t)
    BY <1>7 DEF Unlinked, CountLink, Finishing
  <1>8. CASE CheckLate(t)
    BY <1>8 DEF CheckLate, Finishing
  <1>9. CASE SeekMark(t)
    <2>1. claim[t] \in Nat /\ "mark" \in Finishing /\ "advance" \in Finishing
      BY DEF Finishing
    <2> QED
      BY <1>9, <2>1, FoundType, NotFoundType DEF SeekMark
  <1>10. CASE Mark(t)
    BY <1>10 DEF Mark, Finishing
  <1>11. CASE Count(t)
    BY <1>11 DEF Count, Finishing
  <1>12. CASE Recheck(t)
    BY <1>12 DEF Recheck, Finishing
  <1>13. CASE Settle(t)
    BY <1>13 DEF Settle, SettleRec, Finishing
  <1>14. CASE Uncount(t)
    BY <1>14 DEF Uncount, CountOut, Finishing
  <1> QED
    BY <1>1, <1>2, <1>3, <1>4, <1>5, <1>6, <1>7, <1>8, <1>9, <1>10, <1>11,
       <1>12, <1>13, <1>14 DEF Publishing

LEMMA AdvancingType ==
  ASSUME TypeOK, NEW t \in Tx, Advancing(t)
  PROVE  TypeOK'
  <1> USE DEF TypeOK, counters, records, locals, waiting, At, Goto, Continue
  <1>1. CASE Advance(t)
    BY <1>1 DEF Advance, Finishing
  <1>2. CASE SeekNext(t)
    <2>1. f[t] + 1 \in Nat /\ "examine" \in Finishing
      BY DEF Finishing
    <2> QED
      BY <1>2, <2>1, FoundType, ReturnType DEF SeekNext
  <1>3. CASE Examine(t)
    <2>1. "raise" \in Finishing /\ "checkReady" \in Finishing
      BY DEF Finishing
    <2> HIDE DEF TypeOK, Continue
    <2> QED
      BY <1>3, <2>1, ReturnType, ContinueType DEF Examine
  <1>4. CASE CheckReady(t)
    <2>1. "helpStamp" \in Finishing
      BY DEF Finishing
    <2> HIDE DEF TypeOK, Continue
    <2> QED
      BY <1>4, <2>1, ReturnType, ContinueType DEF CheckReady
  <1>5. CASE HelpStamp(t)
    BY <1>5 DEF HelpStamp, StampOf, Finishing
  <1>6. CASE Raise(t)
    BY <1>6 DEF Raise, Finishing
  <1>7. CASE RaiseLost(t)
    BY <1>7 DEF RaiseLost, Finishing
  <1>8. CASE PassSettle(t)
    BY <1>8 DEF PassSettle, SettleRec, Finishing
  <1>9. CASE PassUncount(t)
    BY <1>9 DEF PassUncount, CountOut, Finishing
  <1>10. CASE PassUnlink(t)
    BY <1>10 DEF PassUnlink, ClearLink, Finishing
  <1>11. CASE PassDrop(t)
    BY <1>11 DEF PassDrop, CountLink, Finishing
  <1>12. CASE CheckWaiters(t)
    BY <1>12 DEF CheckWaiters, Finishing
  <1>13. CASE WakeWaiters(t)
    BY <1>13 DEF WakeWaiters, Finishing
  <1> QED
    BY <1>1, <1>2, <1>3, <1>4, <1>5, <1>6, <1>7, <1>8, <1>9, <1>10, <1>11,
       <1>12, <1>13 DEF Advancing

LEMMA WaitersType ==
  ASSUME TypeOK, NEW w \in Waiters, Await(w) \/ Awaiting(w) \/ AwaitCancel(w)
  PROVE  TypeOK'
  <1> USE DEF TypeOK, counters, records, locals, WGoto
  <1>1. CASE Await(w)
    BY <1>1 DEF Await
  <1>2. CASE AwaitEnter(w)
    BY <1>2 DEF AwaitEnter
  <1>3. CASE AwaitGate(w)
    BY <1>3 DEF AwaitGate
  <1>4. CASE AwaitCheck(w)
    BY <1>4 DEF AwaitCheck
  <1>5. CASE AwaitWoken(w)
    BY <1>5 DEF AwaitWoken
  <1>6. CASE AwaitLeave(w)
    BY <1>6 DEF AwaitLeave
  <1>7. CASE AwaitCancel(w)
    BY <1>7 DEF AwaitCancel
  <1> QED
    BY <1>1, <1>2, <1>3, <1>4, <1>5, <1>6, <1>7 DEF Awaiting

LEMMA RatchetType ==
  ASSUME TypeOK, NEW n \in 1 .. MaxFloor, RatchetTo(n)
  PROVE  TypeOK'
  BY DEF RatchetTo, TypeOK, records, locals, waiting

LEMMA NextType == TypeOK /\ [Next]_vars => TypeOK'
  <1> SUFFICES ASSUME TypeOK, [Next]_vars PROVE TypeOK'
    OBVIOUS
  <1>1. CASE UNCHANGED vars
    BY <1>1 DEF TypeOK, vars, counters, records, locals, waiting
  <1>2. CASE Stopped
    BY <1>2, <1>1 DEF Stopped
  <1>3. CASE \E t \in Tx : TxStep(t)
    BY <1>3, AllocatingType, CommittingType, PublishingType, AdvancingType
       DEF TxStep
  <1>4. CASE \E w \in Waiters : Await(w) \/ Awaiting(w) \/ AwaitCancel(w)
    BY <1>4, WaitersType
  <1>5. CASE \E n \in 1 .. MaxFloor : RatchetTo(n)
    BY <1>5, RatchetType
  <1> QED
    BY <1>1, <1>2, <1>3, <1>4, <1>5 DEF Next

\* The clock's counters, registry and records keep their types.
THEOREM TypeCorrect == Spec => []TypeOK
  BY InitType, NextType, PTL DEF Spec

-----------------------------------------------------------------------------
(***************************************************************************)
(* Most steps of a publication are quiet: they move neither counter, stamp *)
(* nothing and only follow or clear pointers.                              *)
(***************************************************************************)
QuietStep(t) ==
  /\ pc[t] \in Finishing
  /\ pc'[t] \in Finishing
  /\ \A s \in Tx \ {t} : pc'[s] = pc[s] /\ cur'[s] = cur[s] /\ f'[s] = f[s]
  /\ UNCHANGED <<commit, visible, slots, claim, stamp, ready, kind, head>>
  /\ \A s \in Tx : finished'[s] # "none" => finished[s] # "none" \/ s = t
  /\ \A s \in Tx : older'[s] = older[s] \/ older'[s] = NoTx
  /\ cur'[t] # NoTx => Installed(cur'[t])
  /\ CursorOK(t)'

LEMMA Disjoint ==
  /\ Claiming \cap Finishing = {} /\ Claiming \cap Owning = {}
  /\ Owning \cap Finishing = {}
  BY DEF Claiming, Finishing, Owning

LEMMA QuietPreserves ==
  ASSUME IInv, TypeOK', NEW t \in Tx, QuietStep(t)
  PROVE  IInv'
  <1> USE DEF IInv, QuietStep
  <1>1. \A s \in Tx : /\ Installed(s)' <=> Installed(s)
                      /\ pc'[s] \in Finishing <=> pc[s] \in Finishing
    BY Disjoint DEF Installed
  <1>2. SlotInv'
    BY <1>1 DEF SlotInv, TypeOK, Slot
  <1>3. PointerInv'
    <2> SUFFICES ASSUME NEW s \in Tx PROVE PointerOK(s)'
      BY DEF PointerInv
    <2>1. PointerOK(s)
      BY DEF PointerInv
    <2>2. head'[s] # NoTx => Installed(head[s])'
      BY <1>1, <2>1 DEF PointerOK, TypeOK
    <2>3. older'[s] # NoTx => Installed(older[s])'
      BY <1>1, <2>1 DEF PointerOK, TypeOK
    <2>4. cur'[s] # NoTx => Installed(cur[s])'
      BY <1>1, <2>1 DEF PointerOK, TypeOK
    <2> QED
      BY <2>2, <2>3, <2>4 DEF PointerOK
  <1>4. ClaimInv'
    <2> SUFFICES ASSUME NEW s \in Tx PROVE ClaimOK(s)'
      BY DEF ClaimInv
    <2>1. CASE s = t
      BY <1>1, <2>1 DEF ClaimInv, ClaimOK, Finishing
    <2>2. CASE s # t
      BY <1>1, <2>2 DEF ClaimInv, ClaimOK
    <2> QED
      BY <2>1, <2>2
  <1>5. OwnerInv'
    <2> SUFFICES ASSUME NEW s \in Tx PROVE OwnerOK(s)'
      BY DEF OwnerInv
    <2>1. CASE s = t
      BY <1>1, <2>1 DEF OwnerInv, OwnerOK, Finishing, Claiming
    <2>2. CASE s # t
      BY <1>1, <2>2 DEF OwnerInv, OwnerOK
    <2> QED
      BY <2>1, <2>2
  <1>6. CursorInv'
    <2> SUFFICES ASSUME NEW s \in Tx \ {t} PROVE CursorOK(s)'
      BY DEF CursorInv
    <2> QED
      BY <1>1, SMTT(20) DEF CursorInv, CursorOK, Discharged, TypeOK
  <1>7. FrontierSafe' /\ OneOwner' /\ FrontierAllocated'
    BY <1>1 DEF FrontierSafe, Discharged, OneOwner, FrontierAllocated
  <1> QED
    BY <1>2, <1>3, <1>4, <1>5, <1>6, <1>7

(***************************************************************************)
(* The quiet steps, one by one.                                            *)
(***************************************************************************)
LEMMA QuietSteps ==
  ASSUME IInv, NEW t \in Tx,
         \/ PublishBlocked(t) \/ CheckPending(t) \/ CheckLinked(t) \/ Unlink(t) \/ Unlinked(t) \/ CheckLate(t) \/ Count(t) \/ Recheck(t) \/ Settle(t) \/ Uncount(t) \/ Advance(t) \/ RaiseLost(t) \/ PassSettle(t) \/ PassUncount(t) \/ PassUnlink(t) \/ PassDrop(t) \/ CheckWaiters(t) \/ WakeWaiters(t)
  PROVE  QuietStep(t)
  <1> USE DEF IInv, TypeOK, QuietStep, CursorOK, PointerInv, PointerOK,
              counters, records, waiting, At, Goto, Finishing
  <1>1. CASE PublishBlocked(t)
    BY <1>1 DEF PublishBlocked
  <1>2. CASE CheckPending(t)
    BY <1>2 DEF CheckPending, Continue, locals
  <1>3. CASE CheckLinked(t)
    BY <1>3, Disjoint DEF CheckLinked, Installed
  <1>4. CASE Unlink(t)
    BY <1>4 DEF Unlink, ClearLink
  <1>5. CASE Unlinked(t)
    BY <1>5 DEF Unlinked, CountLink, locals
  <1>6. CASE CheckLate(t)
    BY <1>6 DEF CheckLate, Continue, locals, KeepsRecord
  <1>7. CASE Count(t)
    BY <1>7 DEF Count
  <1>8. CASE Recheck(t)
    BY <1>8 DEF Recheck, Continue, locals
  <1>9. CASE Settle(t)
    BY <1>9 DEF Settle, SettleRec, locals
  <1>10. CASE Uncount(t)
    BY <1>10 DEF Uncount, CountOut, locals
  <1>11. CASE Advance(t)
    BY <1>11 DEF Advance
  <1>12. CASE RaiseLost(t)
    BY <1>12 DEF RaiseLost
  <1>13. CASE PassSettle(t)
    BY <1>13 DEF PassSettle, SettleRec, locals
  <1>14. CASE PassUncount(t)
    BY <1>14 DEF PassUncount, CountOut, locals
  <1>15. CASE PassUnlink(t)
    BY <1>15 DEF PassUnlink, ClearLink
  <1>16. CASE PassDrop(t)
    BY <1>16 DEF PassDrop, CountLink, locals
  <1>17. CASE CheckWaiters(t)
    BY <1>17 DEF CheckWaiters, Continue, locals
  <1>18. CASE WakeWaiters(t)
    BY <1>18 DEF WakeWaiters, locals
  <1> QED
    BY <1>1, <1>2, <1>3, <1>4, <1>5, <1>6, <1>7, <1>8, <1>9, <1>10, <1>11, <1>12, <1>13, <1>14, <1>15, <1>16, <1>17, <1>18

LEMMA LoadedInstalled ==
  ASSUME IInv, NEW t \in Tx, NEW n \in Nat, Reaches(t, n)
  PROVE  Loaded(t, n) \in Tx /\ Installed(Loaded(t, n))
  BY SlotType, SMTT(20) DEF Reaches, Loaded, IInv, TypeOK, SlotInv, PointerInv, PointerOK

LEMMA ReturnQuiet ==
  ASSUME IInv, NEW t \in Tx, pc[t] \in Finishing, Return(t)
  PROVE  QuietStep(t)
  BY DEF Return, IInv, TypeOK, QuietStep, CursorOK, counters, records, waiting,
         Goto, Finishing

LEMMA FoundQuiet ==
  ASSUME IInv, NEW t \in Tx, NEW n \in Nat, NEW yes \in Finishing,
         Found(t, n, yes), pc[t] \in {"seekOwn", "seekMark", "seekNext"},
         yes \in {"unlink", "mark", "examine"},
         yes = "mark" => n = claim[t], yes = "examine" => n = f[t] + 1
  PROVE  QuietStep(t)
  <1>1. Loaded(t, n) \in Tx /\ Installed(Loaded(t, n))
    BY LoadedInstalled DEF Found
  <1> QED
    BY <1>1 DEF Found, IInv, TypeOK, QuietStep, CursorOK, counters, records,
                waiting, Goto, Finishing

LEMMA SeekSteps ==
  ASSUME IInv, NEW t \in Tx,
         \/ SeekOwn(t) \/ SeekMark(t) \/ SeekNext(t) \/ Examine(t)
         \/ CheckReady(t) \/ Mark(t)
  PROVE  QuietStep(t)
  <1> USE DEF At
  <1>0. claim[t] \in Nat /\ f[t] + 1 \in Nat
    BY DEF IInv, TypeOK
  <1>1. CASE SeekOwn(t)
    <2>1. CASE Found(t, claim[t], "unlink")
      BY <1>0, <1>1, <2>1, FoundQuiet DEF SeekOwn, Finishing
    <2>2. CASE NotFound(t, claim[t], "waiters")
      BY <1>1, <2>2 DEF SeekOwn, NotFound, IInv, TypeOK, QuietStep, CursorOK,
                        counters, records, waiting, Goto, Finishing
    <2> QED
      BY <1>1, <2>1, <2>2 DEF SeekOwn
  <1>2. CASE SeekMark(t)
    <2>1. CASE Found(t, claim[t], "mark")
      BY <1>0, <1>2, <2>1, FoundQuiet DEF SeekMark, Finishing
    <2>2. CASE NotFound(t, claim[t], "advance")
      BY <1>2, <2>2 DEF SeekMark, NotFound, IInv, TypeOK, QuietStep, CursorOK,
                        counters, records, waiting, Goto, Finishing
    <2> QED
      BY <1>2, <2>1, <2>2 DEF SeekMark
  <1>3. CASE SeekNext(t)
    <2>1. CASE Found(t, f[t] + 1, "examine")
      BY <1>0, <1>3, <2>1, FoundQuiet DEF SeekNext, Finishing
    <2>2. CASE Return(t)
      BY <1>3, <2>2, ReturnQuiet DEF SeekNext, Finishing
    <2> QED
      BY <1>3, <2>1, <2>2 DEF SeekNext
  <1>4. CASE Examine(t)
    <2>1. CASE Return(t)
      BY <1>4, <2>1, ReturnQuiet DEF Examine, Finishing
    <2>2. CASE finished[cur[t]] # "none" /\ Continue(t, "raise")
      <3>1. cur[t] \in Tx /\ claim[cur[t]] = f[t] + 1
        BY <1>4 DEF Examine, IInv, TypeOK, CursorInv, CursorOK
      <3>2. Discharged(cur[t]) /\ f[t] < commit
        BY <2>2, <3>1 DEF IInv, TypeOK, OwnerInv, OwnerOK, Discharged, ClaimInv,
                          ClaimOK
      <3> QED
        BY <1>4, <2>2, <3>1, <3>2
           DEF Examine, Continue, IInv, TypeOK, QuietStep, CursorOK, Discharged,
               PointerInv, PointerOK, counters, records, locals, waiting, Goto,
               Finishing
    <2>3. CASE MayHelp(t) /\ Continue(t, "checkReady")
      BY <1>4, <2>3
         DEF Examine, MayHelp, Continue, IInv, TypeOK, QuietStep, CursorInv,
             CursorOK, PointerInv, PointerOK, counters, records, locals, waiting,
             Goto, Finishing
    <2> QED
      BY <1>4, <2>1, <2>2, <2>3 DEF Examine
  <1>5. CASE CheckReady(t)
    <2>1. CASE Return(t)
      BY <1>5, <2>1, ReturnQuiet DEF CheckReady, Finishing
    <2>2. CASE ready[cur[t]] /\ Continue(t, "helpStamp")
      BY <1>5, <2>2
         DEF CheckReady, Continue, IInv, TypeOK, QuietStep, CursorInv, CursorOK,
             PointerInv, PointerOK, counters, records, locals, waiting, Goto,
             Finishing
    <2> QED
      BY <1>5, <2>1, <2>2 DEF CheckReady
  <1>6. CASE Mark(t)
    <2> DEFINE rec == IF KeepsRecord(t) THEN t ELSE cur[t]
    <2>1. rec = t
      BY <1>6, Disjoint
         DEF Mark, KeepsRecord, IInv, TypeOK, CursorInv, CursorOK, PointerInv,
             PointerOK, OneOwner, Installed, Finishing
    <2> QED
      BY <1>6, <2>1 DEF Mark, IInv, TypeOK, QuietStep, CursorOK, counters, records,
                        waiting, Goto, Finishing
  <1> QED
    BY <1>1, <1>2, <1>3, <1>4, <1>5, <1>6

-----------------------------------------------------------------------------
(***************************************************************************)
(* Steps of a claimant before its record is installed: nobody points to    *)
(* the record yet, and the counter only rises over an installed one.       *)
(***************************************************************************)
ClaimStep(t) ==
  /\ pc[t] \in Claiming
  /\ pc'[t] \in Claiming \ {"idle"}
  /\ \A s \in Tx \ {t} : /\ pc'[s] = pc[s] /\ claim'[s] = claim[s]
                         /\ stamp'[s] = stamp[s] /\ ready'[s] = ready[s]
                         /\ head'[s] = head[s] /\ older'[s] = older[s]
  /\ UNCHANGED <<visible, slots, kind, cur, f, finished>>
  /\ \/ commit' = commit
     \/ /\ commit' = commit + 1
        /\ \E s \in Tx : Installed(s) /\ claim[s] = commit + 1
  /\ head'[t] # NoTx => head'[t] \in Tx /\ Installed(head'[t])
  /\ older'[t] # NoTx => older'[t] \in Tx /\ Installed(older'[t])
  /\ ClaimOK(t)'
  /\ kind[t] = "untracked" => stamp'[t] = "inline"
  /\ ready'[t] => kind[t] = "direct"

LEMMA HeadNewest ==
  ASSUME IInv, NEW s \in Tx, Installed(s)
  PROVE  LET h == slots[Slot(claim[s])] IN
           h \in Tx /\ Installed(h) /\ claim[h] >= claim[s]
  <1> DEFINE i == Slot(claim[s])
  <1>1. i \in 0 .. RegistrySlots - 1
    BY SlotType DEF IInv, TypeOK
  <1>2. slots[i] # NoTx /\ claim[slots[i]] >= claim[s]
    BY DEF IInv, SlotInv
  <1> HIDE DEF i
  <1>3. slots[i] \in Tx /\ Installed(slots[i])
    BY <1>1, <1>2 DEF IInv, SlotInv, TypeOK
  <1> QED
    BY <1>2, <1>3 DEF i

LEMMA ClaimPreserves ==
  ASSUME IInv, TypeOK', NEW t \in Tx, ClaimStep(t)
  PROVE  IInv'
  <1> USE DEF IInv, ClaimStep
  <1>1. \A s \in Tx : /\ Installed(s)' <=> Installed(s)
                      /\ pc'[s] \in Finishing <=> pc[s] \in Finishing
                      /\ Installed(s) => s # t
    BY Disjoint DEF Installed
  <1>2. SlotInv'
    <2>1. ASSUME NEW i \in 0 .. RegistrySlots - 1, slots'[i] # NoTx
          PROVE  Installed(slots[i])' /\ Slot(claim[slots[i]])' = i
      BY <1>1, <2>1 DEF SlotInv, TypeOK
    <2>2. ASSUME NEW s \in Tx, Installed(s)'
          PROVE  /\ slots'[Slot(claim'[s])] # NoTx
                 /\ claim'[slots'[Slot(claim'[s])]] >= claim'[s]
      <3>1. claim'[s] = claim[s] /\ claim[s] \in Nat /\ Installed(s)
        BY <1>1, <2>2 DEF TypeOK
      <3> DEFINE h == slots[Slot(claim[s])]
      <3>2. h \in Tx /\ Installed(h) /\ claim[h] >= claim[s]
        BY <3>1, HeadNewest
      <3>3. claim'[h] = claim[h]
        BY <1>1, <3>2
      <3>4. slots'[Slot(claim'[s])] = h
        BY <3>1
      <3>5. claim'[h] >= claim'[s]
        BY <3>1, <3>2, <3>3
      <3>6. h # NoTx
        BY <3>2
      <3> HIDE DEF h, IInv, ClaimStep
      <3> QED
        BY <3>4, <3>5, <3>6
    <2> QED
      BY <2>1, <2>2 DEF SlotInv
  <1>3. PointerInv'
    <2> SUFFICES ASSUME NEW s \in Tx PROVE PointerOK(s)'
      BY DEF PointerInv
    <2>1. PointerOK(s)
      BY DEF PointerInv
    <2> QED
      BY <1>1, <2>1 DEF PointerOK, TypeOK
  <1>4. ClaimInv'
    <2> SUFFICES ASSUME NEW s \in Tx \ {t} PROVE ClaimOK(s)'
      BY DEF ClaimInv
    <2>1. ClaimOK(s) /\ PointerOK(s)
      BY DEF ClaimInv, PointerInv
    <2>2. \A u \in Tx : Installed(u) => Installed(u)' /\ claim'[u] = claim[u]
      BY <1>1
    <2>3. ASSUME \E u \in Tx : Installed(u) /\ claim[u] = claim[s]
          PROVE  \E u \in Tx : Installed(u)' /\ claim'[u] = claim'[s]
      BY <2>2, <2>3
    <2>4. commit \in Nat /\ claim[s] \in Nat /\ claim'[s] = claim[s] /\ pc'[s] = pc[s]
      BY DEF TypeOK
    <2>5. claim[s] <= commit' => claim[s] <= commit \/
            \E u \in Tx : Installed(u) /\ claim[u] = claim[s]
      BY <2>4
    <2>6. commit' >= commit
      BY <2>4
    <2>7. head'[s] # NoTx => claim'[head'[s]] = claim[head[s]]
      BY <2>1, <2>2 DEF PointerOK, TypeOK
    <2>8. commit' \in Nat /\ head'[s] = head[s]
      BY DEF TypeOK
    <2>9. pc'[s] \notin {"idle", "load"} => claim'[s] >= 1 /\ claim'[s] <= commit' + 1
      BY <2>1, <2>4, <2>6, <2>8 DEF ClaimOK
    <2>10. pc'[s] \in {"decide", "stamp"} \cup Finishing => claim'[s] <= commit'
      BY <2>1, <2>4, <2>6, <2>8 DEF ClaimOK
    <2>11. pc'[s] \in {"head", "link", "install"} /\ claim'[s] <= commit' =>
             \E u \in Tx : Installed(u)' /\ claim'[u] = claim'[s]
      BY <2>1, <2>3, <2>4, <2>5 DEF ClaimOK
    <2>12. pc'[s] = "assist" /\ claim'[s] > commit' =>
             \E u \in Tx : Installed(u)' /\ claim'[u] = claim'[s]
      BY <2>1, <2>3, <2>4, <2>6, <2>8 DEF ClaimOK
    <2>13. pc'[s] \in {"link", "install"} /\ head'[s] # NoTx =>
             claim'[head'[s]] < claim'[s]
      BY <2>1, <2>4, <2>7, <2>8 DEF ClaimOK
    <2> QED
      BY <2>9, <2>10, <2>11, <2>12, <2>13 DEF ClaimOK
  <1>5. OwnerInv'
    <2> SUFFICES ASSUME NEW s \in Tx PROVE OwnerOK(s)'
      BY DEF OwnerInv
    <2>1. OwnerOK(s)
      BY DEF OwnerInv
    <2>2. CASE s = t
      BY <1>1, <2>1, <2>2 DEF OwnerOK, Claiming, Finishing
    <2>3. CASE s # t
      BY <1>1, <2>1, <2>3 DEF OwnerOK
    <2> QED
      BY <2>2, <2>3
  <1>6. CursorInv'
    <2> SUFFICES ASSUME NEW s \in Tx PROVE CursorOK(s)'
      BY DEF CursorInv
    <2>1. CursorOK(s) /\ PointerOK(s)
      BY DEF CursorInv, PointerInv
    <2>2. CASE s = t
      BY <2>2 DEF CursorOK, Claiming
    <2>3. CASE s # t
      BY <1>1, <2>1, <2>3, SMTT(20) DEF CursorOK, PointerOK, Discharged, TypeOK
    <2> QED
      BY <2>2, <2>3
  <1>7. FrontierSafe' /\ OneOwner' /\ FrontierAllocated'
    BY <1>1 DEF FrontierSafe, Discharged, OneOwner, FrontierAllocated, TypeOK
  <1> QED
    BY <1>2, <1>3, <1>4, <1>5, <1>6, <1>7

LEMMA ClaimSteps ==
  ASSUME IInv, NEW t \in Tx,
         \/ AllocateFor(t) \/ ClaimLoad(t) \/ ClaimTaken(t) \/ ClaimHead(t)
         \/ ClaimAssist(t) \/ ClaimLink(t) \/ ClaimFresh(t) \/ ClaimLost(t)
  PROVE  ClaimStep(t)
  <1> USE DEF IInv, TypeOK, ClaimStep, PointerInv, PointerOK, ClaimInv, OwnerInv,
              OwnerOK, counters, records, locals, waiting, At, Goto, Continue,
              Claiming
  <1>0. ClaimOK(t)
    OBVIOUS
  <1>1. CASE AllocateFor(t)
    <2>1. ready'[t] = (kind[t] = "direct")
      BY <1>1, Zenon DEF AllocateFor
    <2>2. ready'[t] => kind[t] = "direct"
      BY <2>1, Zenon
    <2>3. \A s \in Tx \ {t} : ready'[s] = ready[s]
      BY <1>1 DEF AllocateFor
    <2>4. /\ pc[t] = "idle" /\ pc' = [pc EXCEPT ![t] = "load"]
          /\ stamp' = [stamp EXCEPT ![t] = IF KeepsRecord(t) THEN "open" ELSE "inline"]
          /\ UNCHANGED <<counters, claim, finished, older, locals, waiting>>
      BY <1>1, Zenon DEF AllocateFor
    <2> QED
      BY <2>2, <2>3, <2>4 DEF KeepsRecord, ClaimOK, Finishing
  <1>2. CASE ClaimLoad(t)
    BY <1>2 DEF ClaimLoad, ClaimOK, Finishing
  <1>3. CASE ClaimTaken(t)
    <2> DEFINE h == slots[Slot(claim[t])]
    <2>1. h \in Tx /\ Installed(h) /\ claim[h] >= claim[t]
      BY <1>3, SlotType DEF ClaimTaken, Taken, SlotInv
    <2>2. claim[h] <= commit + 1
      BY <2>1, Disjoint DEF ClaimOK, Installed
    <2>3. claim[t] > commit => claim[h] = claim[t]
      BY <2>1, <2>2
    <2> QED
      BY <1>0, <1>3, <2>1, <2>3 DEF ClaimTaken, ClaimOK, Installed, Finishing
  <1>4. CASE ClaimHead(t)
    <2>1. head'[t] # NoTx =>
            /\ head'[t] \in Tx /\ Installed(head'[t])
            /\ claim[head'[t]] < claim[t]
      BY <1>4, SlotType DEF ClaimHead, Taken, SlotInv
    <2> QED
      BY <1>0, <1>4, <2>1 DEF ClaimHead, ClaimOK, Installed, Finishing
  <1>5. CASE ClaimAssist(t)
    BY <1>0, <1>5 DEF ClaimAssist, ClaimOK, Finishing
  <1>6. CASE ClaimLink(t)
    BY <1>0, <1>6 DEF ClaimLink, HeadPending, ClaimOK, Installed, Finishing
  <1>7. CASE ClaimFresh(t)
    BY <1>0, <1>7 DEF ClaimFresh, ClaimOK, Installed, Finishing
  <1>8. CASE ClaimLost(t)
    BY <1>0, <1>8 DEF ClaimLost, ClaimOK, Finishing
  <1> QED
    BY <1>1, <1>2, <1>3, <1>4, <1>5, <1>6, <1>7, <1>8

-----------------------------------------------------------------------------
(***************************************************************************)
(* The allocation itself: the compare-and-swap of the slot succeeds only   *)
(* for a timestamp that no installed record owns, so it lies above the     *)
(* counter and above the frontier.                                         *)
(***************************************************************************)
LEMMA InstallFresh ==
  ASSUME IInv, NEW t \in Tx, ClaimInstall(t)
  PROVE  /\ \A s \in Tx : Installed(s) => claim[s] # claim[t]
         /\ claim[t] > commit /\ claim[t] > visible
  <1>1. ASSUME NEW s \in Tx, Installed(s), claim[s] = claim[t]
        PROVE  FALSE
    <2>1. head[t] \in Tx /\ claim[head[t]] >= claim[t]
      BY <1>1, HeadNewest DEF ClaimInstall
    <2>2. claim[head[t]] < claim[t]
      BY <2>1 DEF ClaimInstall, At, IInv, ClaimInv, ClaimOK
    <2> QED
      BY <2>1, <2>2 DEF IInv, TypeOK
  <1>2. claim[t] > commit
    <2>1. ClaimOK(t) /\ pc[t] = "install" /\ claim[t] \in Nat /\ commit \in Nat
      BY DEF ClaimInstall, At, IInv, TypeOK, ClaimInv
    <2> QED
      BY <1>1, <2>1 DEF ClaimOK
  <1> QED
    BY <1>1, <1>2 DEF IInv, TypeOK, FrontierAllocated

LEMMA InstallPreserves ==
  ASSUME IInv, TypeOK', NEW t \in Tx, ClaimInstall(t)
  PROVE  IInv'
  <1> DEFINE k == Slot(claim[t])
  <1>0. /\ pc[t] = "install" /\ pc'[t] = "counter" /\ head'[t] = NoTx
        /\ slots' = [slots EXCEPT ![k] = t]
        /\ \A s \in Tx \ {t} : pc'[s] = pc[s] /\ head'[s] = head[s]
        /\ UNCHANGED <<commit, visible, records, kind, cur, f>>
        /\ UNCHANGED <<claim, stamp, ready, finished, older>>
    BY DEF ClaimInstall, At, Goto, IInv, TypeOK, records
  <1>1. \A s \in Tx : /\ Installed(s)' <=> Installed(s) \/ s = t
                      /\ pc'[s] \in Finishing <=> pc[s] \in Finishing
    BY <1>0 DEF Installed, Claiming, Finishing
  <1>2. ~Installed(t)
    BY <1>0 DEF Installed, Claiming
  <1>3. k \in 0 .. RegistrySlots - 1
    BY SlotType DEF IInv, TypeOK
  <1>4. SlotInv'
    <2>1. ASSUME NEW i \in 0 .. RegistrySlots - 1, slots'[i] # NoTx
          PROVE  Installed(slots[i])' /\ Slot(claim[slots[i]])' = i
      <3>1. CASE i = k
        BY <1>0, <1>1, <1>3, <3>1 DEF IInv, TypeOK, Slot
      <3>2. CASE i # k
        <4> HIDE DEF k
        <4>1. slots'[i] = slots[i]
          BY <1>0, <3>2 DEF IInv, TypeOK
        <4>2. slots[i] \in Tx /\ Installed(slots[i]) /\ Slot(claim[slots[i]]) = i
          BY <2>1, <4>1 DEF IInv, TypeOK, SlotInv
        <4> QED
          BY <1>0, <1>1, <4>1, <4>2 DEF Slot
      <3> QED
        BY <3>1, <3>2
    <2>2. ASSUME NEW s \in Tx, Installed(s)'
          PROVE  LET h == slots'[Slot(claim'[s])] IN
                   h # NoTx /\ claim'[h] >= claim'[s]
      <3>0. claim' = claim /\ claim \in [Tx -> Nat]
        BY <1>0 DEF IInv, TypeOK
      <3>1. CASE Slot(claim[s]) = k
        <4>1. slots'[k] = t
          BY <1>0, <1>3 DEF IInv, TypeOK
        <4>2. claim[t] >= claim[s]
          <5>1. CASE s = t
            BY <3>0, <5>1
          <5>2. CASE s # t
            <6>1. head[t] \in Tx /\ claim[head[t]] >= claim[s]
              BY <1>1, <2>2, <3>1, <5>2, HeadNewest DEF ClaimInstall
            <6>2. claim[head[t]] < claim[t]
              BY <1>0, <6>1 DEF IInv, ClaimInv, ClaimOK
            <6> QED
              BY <3>0, <6>1, <6>2
          <5> QED
            BY <5>1, <5>2
        <4> QED
          BY <3>0, <3>1, <4>1, <4>2
      <3>2. CASE Slot(claim[s]) # k
        <4>1. s # t /\ Installed(s)
          BY <1>1, <2>2, <3>2
        <4>2. slots'[Slot(claim[s])] = slots[Slot(claim[s])]
          <5> HIDE DEF k
          <5> QED
            BY <1>0, <3>0, <3>2, SlotType DEF IInv, TypeOK
        <4> QED
          BY <3>0, <4>1, <4>2, HeadNewest
      <3> QED
        BY <3>1, <3>2
    <2> QED
      BY <2>1, <2>2 DEF SlotInv
  <1> HIDE DEF k
  <1>5. PointerInv'
    <2> SUFFICES ASSUME NEW s \in Tx PROVE PointerOK(s)'
      BY DEF PointerInv
    <2>1. PointerOK(s) /\ \A p \in Tx : Installed(p) => Installed(p)'
      BY <1>1 DEF IInv, PointerInv
    <2>2. /\ head'[s] = NoTx \/ head'[s] = head[s]
          /\ head[s] \in Tx \cup {NoTx} /\ cur[s] \in Tx \cup {NoTx}
          /\ older[s] \in Tx \cup {NoTx}
      BY <1>0 DEF IInv, TypeOK
    <2> QED
      BY <1>0, <2>1, <2>2 DEF PointerOK
  <1>6. ClaimInv'
    <2> SUFFICES ASSUME NEW s \in Tx PROVE ClaimOK(s)'
      BY DEF ClaimInv
    <2>1. ClaimOK(s) /\ ClaimOK(t)
      BY DEF IInv, ClaimInv
    <2>2. CASE s = t
      BY <1>0, <2>1, <2>2 DEF ClaimOK, Finishing
    <2>3. CASE s # t
      BY <1>0, <1>1, <2>1, <2>3 DEF ClaimOK
    <2> QED
      BY <2>2, <2>3
  <1>7. OwnerInv'
    <2> SUFFICES ASSUME NEW s \in Tx PROVE OwnerOK(s)'
      BY DEF OwnerInv
    <2>1. CASE s = t
      BY <1>0, <1>1, <2>1 DEF IInv, OwnerInv, OwnerOK, Claiming
    <2>2. CASE s # t
      BY <1>0, <2>2 DEF IInv, OwnerInv, OwnerOK
    <2> QED
      BY <2>1, <2>2
  <1>8. CursorInv'
    <2> SUFFICES ASSUME NEW s \in Tx PROVE CursorOK(s)'
      BY DEF CursorInv
    <2>1. CursorOK(s)
      BY DEF IInv, CursorInv
    <2>2. CASE s = t
      BY <1>0, <2>2 DEF CursorOK
    <2>3. CASE s # t
      BY <1>0, <1>1, <2>1, <2>3 DEF CursorOK, Discharged, IInv, TypeOK
    <2> QED
      BY <2>2, <2>3
  <1>9. FrontierSafe'
    <2> SUFFICES ASSUME NEW s \in Tx, Installed(s)', claim'[s] <= visible'
                 PROVE  Discharged(s)'
      BY DEF FrontierSafe
    <2>1. s # t /\ Installed(s)
      BY <1>0, <1>1, InstallFresh DEF IInv, TypeOK
    <2> QED
      BY <1>0, <1>1, <2>1 DEF IInv, FrontierSafe, Discharged
  <1>10. OneOwner'
    BY <1>0, <1>1, InstallFresh DEF IInv, OneOwner
  <1>11. FrontierAllocated'
    BY <1>0 DEF IInv, FrontierAllocated
  <1> QED
    BY <1>4, <1>5, <1>6, <1>7, <1>8, <1>9, <1>10, <1>11 DEF IInv

-----------------------------------------------------------------------------
(***************************************************************************)
(* Steps of an owner or a helper that stamp a record or move a counter:    *)
(* nothing that was discharged stops being so, the counter rises over the  *)
(* step's own timestamp, the frontier over a discharged one.               *)
(***************************************************************************)
OwnStep(t) ==
  /\ pc[t] \notin Claiming /\ pc'[t] \notin Claiming
  /\ \A s \in Tx \ {t} : /\ pc'[s] = pc[s] /\ f'[s] = f[s] /\ ready'[s] = ready[s]
                         /\ \/ stamp'[s] = stamp[s]
                            \/ stamp[s] = "open" /\ stamp'[s] = "committed"
  /\ UNCHANGED <<slots, claim, head, older, cur, kind, finished>>
  /\ ClaimOK(t)' /\ OwnerOK(t)' /\ CursorOK(t)'
  /\ Discharged(t) => Discharged(t)' /\ stamp'[t] = stamp[t]
  /\ ready[t] => ready'[t]
  /\ commit' = commit \/ (commit' = commit + 1 /\ claim[t] = commit + 1)
  /\ \/ visible' = visible
     \/ /\ visible' = visible + 1 /\ visible < commit'
        /\ \E s \in Tx : Installed(s) /\ claim[s] = visible + 1 /\ Discharged(s)'

LEMMA OwnPreserves ==
  ASSUME IInv, TypeOK', NEW t \in Tx, OwnStep(t)
  PROVE  IInv'
  <1>1. \A s \in Tx : Installed(s)' <=> Installed(s)
    BY DEF OwnStep, Installed
  <1>2. Installed(t) /\ commit \in Nat /\ visible \in Nat /\ commit' >= commit
    BY DEF OwnStep, Installed, IInv, TypeOK
  <1>3. \A s \in Tx : Discharged(s) => Discharged(s)'
    BY DEF OwnStep, Discharged
  <1>4. SlotInv'
    BY <1>1 DEF OwnStep, IInv, SlotInv, TypeOK, Slot
  <1>5. PointerInv'
    <2> SUFFICES ASSUME NEW s \in Tx PROVE PointerOK(s)'
      BY DEF PointerInv
    <2>1. PointerOK(s) /\ \A p \in Tx : Installed(p) => Installed(p)'
      BY <1>1 DEF IInv, PointerInv
    <2>2. /\ head[s] \in Tx \cup {NoTx} /\ cur[s] \in Tx \cup {NoTx}
          /\ older[s] \in Tx \cup {NoTx}
      BY DEF IInv, TypeOK
    <2> QED
      BY <2>1, <2>2 DEF PointerOK, OwnStep
  <1>6. ClaimInv'
    <2> SUFFICES ASSUME NEW s \in Tx \ {t} PROVE ClaimOK(s)'
      BY DEF ClaimInv, OwnStep
    <2>1. ClaimOK(s) /\ claim[s] \in Nat
      BY DEF IInv, ClaimInv, TypeOK
    <2>2. claim' = claim /\ head' = head /\ pc'[s] = pc[s]
      BY DEF OwnStep
    <2>3. claim[s] <= commit' => claim[s] <= commit \/ claim[t] = claim[s]
      BY <1>2, <2>1 DEF OwnStep
    <2>4. (\E u \in Tx : Installed(u) /\ claim[u] = claim[s]) =>
            \E u \in Tx : Installed(u)' /\ claim'[u] = claim'[s]
      BY <1>1, <2>2
    <2>5. commit' \in Nat
      BY DEF TypeOK
    <2>6. /\ pc'[s] \notin {"idle", "load"} => claim'[s] >= 1 /\ claim'[s] <= commit' + 1
          /\ pc'[s] \in {"decide", "stamp"} \cup Finishing => claim'[s] <= commit'
      BY <1>2, <2>1, <2>2, <2>5 DEF ClaimOK
    <2>7. pc'[s] \in {"head", "link", "install"} /\ claim'[s] <= commit' =>
            \E u \in Tx : Installed(u)' /\ claim'[u] = claim'[s]
      BY <1>2, <2>1, <2>2, <2>3, <2>4 DEF ClaimOK
    <2>8. pc'[s] = "assist" /\ claim'[s] > commit' =>
            \E u \in Tx : Installed(u)' /\ claim'[u] = claim'[s]
      BY <1>2, <2>1, <2>2, <2>4, <2>5 DEF ClaimOK
    <2>9. pc'[s] \in {"link", "install"} /\ head'[s] # NoTx =>
            claim'[head'[s]] < claim'[s]
      BY <2>1, <2>2 DEF ClaimOK
    <2> QED
      BY <2>6, <2>7, <2>8, <2>9 DEF ClaimOK
  <1>7. OwnerInv'
    <2> SUFFICES ASSUME NEW s \in Tx \ {t} PROVE OwnerOK(s)'
      BY DEF OwnerInv, OwnStep
    <2> QED
      BY DEF IInv, OwnerInv, OwnerOK, OwnStep
  <1>8. CursorInv'
    <2> SUFFICES ASSUME NEW s \in Tx \ {t} PROVE CursorOK(s)'
      BY DEF CursorInv, OwnStep
    <2>1. CursorOK(s) /\ cur[s] \in Tx \cup {NoTx} /\ f[s] \in Nat
      BY DEF IInv, CursorInv, TypeOK
    <2>2. /\ pc'[s] = pc[s] /\ cur' = cur /\ f'[s] = f[s] /\ claim' = claim
          /\ kind' = kind
      BY DEF OwnStep
    <2>3. \A u \in Tx : ready[u] => ready'[u]
      BY DEF OwnStep
    <2>4. commit' \in Nat
      BY DEF TypeOK
    <2>5. pc[s] = "raise" => Discharged(cur[s])' /\ f[s] < commit'
      BY <1>2, <1>3, <2>1, <2>2, <2>4 DEF CursorOK
    <2> QED
      BY <2>1, <2>2, <2>3, <2>5 DEF CursorOK
  <1>9. FrontierSafe'
    <2> SUFFICES ASSUME NEW s \in Tx, Installed(s), claim[s] <= visible'
                 PROVE  Discharged(s)'
      BY <1>1 DEF FrontierSafe, OwnStep
    <2>1. CASE claim[s] <= visible
      BY <1>3, <2>1 DEF IInv, FrontierSafe
    <2>2. CASE claim[s] = visible + 1 /\ visible' = visible + 1
      BY <1>2, <2>2 DEF OwnStep, IInv, OneOwner
    <2> QED
      BY <1>2, <2>1, <2>2, SMTT(20) DEF OwnStep, IInv, TypeOK
  <1>10. OneOwner'
    BY <1>1 DEF IInv, OneOwner, OwnStep
  <1>11. FrontierAllocated'
    BY <1>2 DEF IInv, FrontierAllocated, OwnStep, TypeOK
  <1> QED
    BY <1>4, <1>5, <1>6, <1>7, <1>8, <1>9, <1>10, <1>11 DEF IInv

LEMMA OwnSteps ==
  ASSUME IInv, NEW t \in Tx,
         \/ ClaimCounter(t) \/ MarkReady(t) \/ Abort(t) \/ Commit(t)
         \/ PublishInOrder(t) \/ HelpStamp(t) \/ Raise(t)
  PROVE  OwnStep(t)
  <1>0. /\ TypeOK /\ ClaimOK(t) /\ OwnerOK(t) /\ CursorOK(t) /\ PointerOK(t)
        /\ \A s \in Tx : OwnerOK(s)
    BY DEF IInv, ClaimInv, OwnerInv, CursorInv, PointerInv
  <1> USE <1>0 DEF TypeOK, OwnStep, OwnerOK, counters, records, locals, waiting,
              At, Goto, Claiming, Finishing
  <1>1. CASE ClaimCounter(t)
    <2>1. kind[t] = "untracked" => stamp[t] = "inline"
      BY <1>1 DEF ClaimCounter
    <2>2. kind[t] \in AllKinds
      OBVIOUS
    <2>3. /\ pc'[t] \in {"stamp", "publish", "decide"}
          /\ pc'[t] = "publish" => kind[t] = "untracked"
          /\ pc'[t] = "decide" => kind[t] \in {"durable", "split"}
      BY <1>1, <2>2 DEF ClaimCounter, AllKinds
    <2>4. OwnerOK(t)'
      BY <1>1, <2>1, <2>3 DEF ClaimCounter
    <2>5. ClaimOK(t)' /\ CursorOK(t)'
      BY <1>1, <2>3 DEF ClaimCounter, ClaimOK, CursorOK
    <2> HIDE DEF OwnerOK
    <2> QED
      BY <1>1, <2>3, <2>4, <2>5 DEF ClaimCounter, ClaimOK, Discharged
  <1>2. CASE MarkReady(t)
    BY <1>2 DEF MarkReady, ClaimOK, CursorOK, Discharged
  <1>3. CASE Abort(t)
    BY <1>3 DEF Abort, ClaimOK, CursorOK, Discharged
  <1>4. CASE Commit(t)
    BY <1>4 DEF Commit, StampOf, ClaimOK, CursorOK, Discharged
  <1>5. CASE PublishInOrder(t)
    <2>1. Installed(t) /\ claim[t] = visible + 1 /\ Discharged(t)' /\ visible < commit
      BY <1>5 DEF PublishInOrder, Installed, ClaimOK, Discharged
    <2> QED
      BY <1>5, <2>1 DEF PublishInOrder, ClaimOK, CursorOK, Discharged
  <1>6. CASE HelpStamp(t)
    BY <1>6 DEF HelpStamp, StampOf, Installed, ClaimOK, CursorOK, PointerOK,
                Discharged
  <1>7. CASE Raise(t)
    BY <1>7 DEF Raise, Installed, ClaimOK, CursorOK, PointerOK, Discharged
  <1> QED
    BY <1>1, <1>2, <1>3, <1>4, <1>5, <1>6, <1>7

-----------------------------------------------------------------------------
LEMMA InitIInv == Init => IInv
  <1> SUFFICES ASSUME Init PROVE IInv
    OBVIOUS
  <1>1. TypeOK
    BY InitType
  <1>2. \A t \in Tx : ~Installed(t) /\ pc[t] = "idle"
    BY DEF Init, Installed, Claiming
  <1> QED
    BY <1>1, <1>2 DEF Init, IInv, SlotInv, PointerInv, PointerOK, ClaimInv, ClaimOK,
       OwnerInv, OwnerOK, CursorInv, CursorOK, FrontierSafe, OneOwner,
       FrontierAllocated, Finishing

LEMMA RatchetPreserves ==
  ASSUME IInv, TypeOK', NEW n \in 1 .. MaxFloor, RatchetTo(n)
  PROVE  IInv'
  <1>1. \A t \in Tx : pc[t] \in {"idle", "done"}
    BY DEF RatchetTo
  <1>2. /\ commit \in Nat /\ visible \in Nat /\ visible <= commit /\ commit < n
        /\ commit' = n /\ visible' = n
    BY DEF RatchetTo, IInv, TypeOK, FrontierAllocated
  <1>3. UNCHANGED <<slots, claim, stamp, ready, finished, older, kind, head, cur,
                    f, pc>>
    BY DEF RatchetTo, records, locals
  <1>4. SlotInv' /\ PointerInv' /\ OwnerInv' /\ OneOwner'
    BY <1>3 DEF IInv, SlotInv, PointerInv, PointerOK, OwnerInv, OwnerOK, OneOwner,
                Installed, Slot
  <1>5. ClaimInv'
    BY <1>1, <1>2, <1>3 DEF IInv, TypeOK, ClaimInv, ClaimOK
  <1>6. CursorInv'
    BY <1>1, <1>3 DEF CursorInv, CursorOK
  <1>7. FrontierSafe'
    BY <1>1, <1>3 DEF IInv, FrontierSafe, Discharged, OwnerInv, OwnerOK, Installed,
                      Claiming, Finishing
  <1> QED
    BY <1>2, <1>4, <1>5, <1>6, <1>7 DEF IInv, FrontierAllocated

\* A waiter's step, or none, leaves the clock alone.
LEMMA IdlePreserves ==
  ASSUME IInv, TypeOK', UNCHANGED <<counters, records, locals, pc>>
  PROVE  IInv'
  BY DEF counters, records, locals, IInv, SlotInv, PointerInv, PointerOK, ClaimInv,
         ClaimOK, OwnerInv, OwnerOK, CursorInv, CursorOK, FrontierSafe, OneOwner,
         FrontierAllocated, Installed, Discharged, Slot

LEMMA WaitersIdle ==
  ASSUME NEW w \in Waiters, Await(w) \/ Awaiting(w) \/ AwaitCancel(w)
  PROVE  UNCHANGED <<counters, records, locals, pc>>
  BY DEF Await, Awaiting, AwaitEnter, AwaitGate, AwaitCheck, AwaitWoken, AwaitLeave,
         AwaitCancel

\* What a step of the clock is, for the invariant and for the snapshots.
LEMMA StepKinds ==
  ASSUME IInv, [Next]_vars
  PROVE  \/ \E t \in Tx : \/ QuietStep(t) \/ ClaimStep(t)
                          \/ ClaimInstall(t) \/ OwnStep(t)
         \/ \E n \in 1 .. MaxFloor : RatchetTo(n)
         \/ UNCHANGED <<counters, records, locals, pc>>
  <1>1. CASE UNCHANGED vars
    BY <1>1 DEF vars
  <1>2. CASE Stopped
    BY <1>2 DEF Stopped, vars
  <1>3. ASSUME NEW t \in Tx, TxStep(t)
        PROVE  QuietStep(t) \/ ClaimStep(t) \/ ClaimInstall(t) \/ OwnStep(t)
    <2>1. CASE Allocating(t)
      BY <2>1, ClaimSteps, OwnSteps DEF Allocating
    <2>2. CASE Committing(t)
      BY <2>2, OwnSteps DEF Committing
    <2>3. CASE Publishing(t)
      BY <2>3, QuietSteps, SeekSteps, OwnSteps DEF Publishing
    <2>4. CASE Advancing(t)
      BY <2>4, QuietSteps, SeekSteps, OwnSteps DEF Advancing
    <2> QED
      BY <1>3, <2>1, <2>2, <2>3, <2>4 DEF TxStep
  <1>4. CASE \E w \in Waiters : Await(w) \/ Awaiting(w) \/ AwaitCancel(w)
    BY <1>4, WaitersIdle
  <1> QED
    BY <1>1, <1>2, <1>3, <1>4 DEF Next

LEMMA NextIInv == IInv /\ [Next]_vars => IInv'
  <1> SUFFICES ASSUME IInv, [Next]_vars PROVE IInv'
    OBVIOUS
  <1>1. TypeOK'
    BY NextType DEF IInv
  <1> QED
    BY <1>1, StepKinds, QuietPreserves, ClaimPreserves, InstallPreserves,
       OwnPreserves, RatchetPreserves, IdlePreserves

\* The invariant of the clock holds in every reachable state.
THEOREM Invariance == Spec => []IInv
  BY InitIInv, NextIInv, PTL DEF Spec

\* The frontier never passes a commit in flight, whatever the interleaving of
\* owners and helpers: everything at or below Clock.visible has been stamped or
\* aborted, by its owner's publication or by a helper that found it ready.
THEOREM FrontierSafety == Spec => []FrontierSafe
  <1>1. IInv => FrontierSafe
    BY DEF IInv
  <1> QED
    BY <1>1, Invariance, PTL

\* The slot compare-and-swap allocates: two records never own one timestamp,
\* although claimants compute it from a counter that lags.
THEOREM Ownership == Spec => []OneOwner
  <1>1. IInv => OneOwner
    BY DEF IInv
  <1> QED
    BY <1>1, Invariance, PTL

\* The published frontier never overtakes the allocation counter, so
\* InFlightCommits does not underflow.
THEOREM FrontierBelowCounter == Spec => []FrontierAllocated
  <1>1. IInv => FrontierAllocated
    BY DEF IInv
  <1> QED
    BY <1>1, Invariance, PTL

LEMMA StepStable ==
  ASSUME IInv, [Next]_vars
  PROVE  /\ visible' >= visible
         /\ \A t \in Tx : Installed(t) /\ claim[t] <= visible =>
              stamp'[t] = stamp[t] /\ claim'[t] = claim[t]
  <1>0. visible \in Nat /\ commit \in Nat /\ visible <= commit
    BY DEF IInv, TypeOK, FrontierAllocated
  <1>1. ASSUME NEW t \in Tx, QuietStep(t)
        PROVE  visible' = visible /\ stamp' = stamp /\ claim' = claim
    BY <1>1 DEF QuietStep
  <1>2. ASSUME NEW t \in Tx, ClaimStep(t)
        PROVE  /\ visible' = visible /\ ~Installed(t)
               /\ \A s \in Tx \ {t} : stamp'[s] = stamp[s] /\ claim'[s] = claim[s]
    BY <1>2 DEF ClaimStep, Installed
  <1>3. ASSUME NEW t \in Tx, ClaimInstall(t)
        PROVE  visible' = visible /\ stamp' = stamp /\ claim' = claim
    BY <1>3 DEF ClaimInstall, records
  <1>4. ASSUME NEW t \in Tx, OwnStep(t)
        PROVE  /\ visible' >= visible /\ claim' = claim
               /\ \A s \in Tx : Discharged(s) => stamp'[s] = stamp[s]
    BY <1>0, <1>4 DEF OwnStep, Discharged
  <1>5. ASSUME NEW n \in 1 .. MaxFloor, RatchetTo(n)
        PROVE  visible' >= visible /\ stamp' = stamp /\ claim' = claim
    BY <1>0, <1>5 DEF RatchetTo, records
  <1>6. ASSUME UNCHANGED <<counters, records, locals, pc>>
        PROVE  visible' = visible /\ stamp' = stamp /\ claim' = claim
    BY <1>6 DEF counters, records
  <1>7. \A s \in Tx : Installed(s) /\ claim[s] <= visible => Discharged(s)
    BY DEF IInv, FrontierSafe
  <1> QED
    BY <1>0, <1>1, <1>2, <1>3, <1>4, <1>5, <1>6, <1>7, StepKinds

\* A snapshot taken at the frontier is stable: no later step of any owner or
\* helper changes the outcome of a transaction the snapshot covers, and the
\* frontier never moves back.
THEOREM SnapshotStability == Spec => SnapshotStable
  <1>1. IInv /\ [Next]_vars =>
          [/\ visible' >= visible
           /\ \A t \in Tx : Installed(t) /\ claim[t] <= visible =>
                stamp'[t] = stamp[t] /\ claim'[t] = claim[t]]_vars
    BY StepStable
  <1> QED
    BY <1>1, Invariance, PTL DEF Spec, SnapshotStable
=============================================================================
