------------------------ MODULE CommitSettled_proofs ------------------------
(***************************************************************************)
(* What the publications of the commit clock leave behind, for every       *)
(* number of transactions, waiters and registry slots: once none is        *)
(* running every allocated timestamp is visible, nothing is counted as     *)
(* pending, no lap link remains and no waiter is left asleep.  At the end, *)
(* the clock implements CommitFrontier.                                    *)
(*                                                                         *)
(* The argument is the one the comments of finishCommitTS sketch as a      *)
(* pairing of a store with a load on either side: the record after the     *)
(* frontier, once it is marked, always has somebody who will walk to it.   *)
(***************************************************************************)
EXTENDS CommitClock_proofs, FiniteSetTheorems, WellFoundedInduction

USE KindsAssumption, SlotsAssumption, FloorAssumption, NoTxAssumption

-----------------------------------------------------------------------------
(* The invariant.                                                          *)

\* Every timestamp between the frontier and the counter has its record.
Dense ==
  \A n \in Nat : visible < n /\ n <= commit => \E s \in Tx : Installed(s) /\ claim[s] = n

SameSlot(x, y) == Slot(claim[x]) = Slot(claim[y])

\* A link leads to an older claim of the same slot; before it is installed a
\* record is linked to the head it is about to displace, if that is pending.
LinkOK(t) ==
  /\ older[t] # NoTx => claim[older[t]] < claim[t] /\ SameSlot(older[t], t)
  /\ older[t] # NoTx => pc[t] \notin Claiming \ {"install"}
  /\ pc[t] \in {"link", "install"} /\ head[t] # NoTx => SameSlot(head[t], t)
  /\ pc[t] = "install" =>
       \/ older[t] = head[t]
       \/ older[t] = NoTx /\ claim[head[t]] <= visible

LinkInv == \A t \in Tx : LinkOK(t)

\* From a record the chain goes on to every older one of its slot that the
\* frontier has not passed, without leaving one out.
ChainInv ==
  \A x, y \in Tx :
    Installed(x) /\ Installed(y) /\ SameSlot(x, y) /\ visible < claim[y] /\ claim[y] < claim[x] =>
      older[x] # NoTx /\ claim[y] <= claim[older[x]]

\* Where advance is, and where cur is in use.
Walking == {"advance", "seekNext", "examine", "checkReady", "helpStamp", "raise",
            "passSettle", "passUncount", "passUnlink", "passDrop"}

Using == {"seekOwn", "unlink", "seekMark", "mark", "seekNext", "examine", "checkReady",
          "helpStamp", "raise", "passSettle", "passUncount", "passUnlink"}

Unmarked == {"publish", "late", "seekMark", "mark"}

\* A search is above what it looks for; what is settled or unlinked is passed.
WalkOK(t) ==
  /\ cur[t] # NoTx => pc[t] \in Using
  /\ pc[t] = "seekNext" /\ cur[t] # NoTx =>
       claim[cur[t]] > f[t] + 1 /\ Slot(claim[cur[t]]) = Slot(f[t] + 1)
  /\ pc[t] = "seekMark" /\ cur[t] # NoTx => claim[cur[t]] > claim[t] /\ SameSlot(cur[t], t)
  /\ pc[t] \in {"unlink", "passSettle", "passUncount", "passUnlink"} =>
       cur[t] # NoTx /\ claim[cur[t]] <= visible
  /\ pc[t] \in {"pending", "linked", "seekOwn", "settle"} => claim[t] <= visible
  /\ pc[t] \in Walking /\ mode[t] = "inorder" => claim[t] <= visible
  /\ pc[t] \in {"late", "seekMark", "mark", "recheck", "settle", "uncount"} => mode[t] # "inorder"
  /\ f[t] <= visible

WalkInv == \A t \in Tx : WalkOK(t)

\* A record its owner has finished with is marked until it is passed, and then
\* somebody is about to take the mark back.
MarkOK(t) ==
  /\ finished[t] # "none" => pc[t] \in Finishing \ Unmarked
  /\ pc[t] = "count" => finished[t] # "none"
  /\ pc[t] \in Finishing \ Unmarked /\ claim[t] > visible => finished[t] = "marked"
  /\ finished[t] = "marked" /\ claim[t] <= visible =>
       \/ pc[t] \in {"count", "recheck", "settle"}
       \/ \E u \in Tx : pc[u] = "passSettle" /\ cur[u] = t

MarkInv == \A t \in Tx : MarkOK(t)

\* pending counts the marks, less the records passed between their mark and
\* their count, and those that are being counted out.
Marked == {t \in Tx : finished[t] = "marked" /\ pc[t] # "count"}
Overtaken == {t \in Tx : finished[t] = "counted" /\ pc[t] = "count"}
Uncounting == {t \in Tx : pc[t] \in {"uncount", "passUncount"}}

PendingInv ==
  /\ IsFiniteSet(Marked) /\ IsFiniteSet(Overtaken) /\ IsFiniteSet(Uncounting)
  /\ pending = Cardinality(Marked) - Cardinality(Overtaken) + Cardinality(Uncounting)

\* Somebody who reads the frontier again before it leaves advance, or who has
\* read it and comes to the record after it.
Returning == {"late", "seekMark", "mark", "count", "recheck", "settle", "uncount", "advance",
              "raise", "passSettle", "passUncount", "passUnlink", "passDrop"}

Comes(u) ==
  \/ pc[u] \in Returning \cup {"pending"}
  \/ pc[u] \in {"seekNext", "examine"} /\ f[u] = visible

CarryInv ==
  \A r \in Tx : Installed(r) /\ claim[r] = visible + 1 /\ finished[r] = "marked" =>
    \E u \in Tx : Comes(u)

SInv ==
  /\ IInv /\ Dense /\ LinkInv /\ ChainInv /\ WalkInv /\ MarkInv /\ PendingInv /\ CarryInv

-----------------------------------------------------------------------------
(* The links, for the protocols that keep their record.                    *)

Linkers == {t \in Tx : older[t] # NoTx}
Dropping == {t \in Tx : pc[t] \in {"unlinked", "passDrop"}}

LinkedInv ==
  /\ IsFiniteSet(Linkers) /\ IsFiniteSet(Dropping)
  /\ linked = Cardinality(Linkers) + Cardinality(Dropping)

\* Who drops the link of the passed record r, and that somebody does.
Drops(u, r) ==
  \/ pc[u] \in {"passSettle", "passUncount", "passUnlink"} /\ cur[u] = r
  \/ u = r /\ pc[r] \in {"pending", "linked"}
  \/ u = r /\ pc[r] \in Walking /\ mode[r] = "inorder"
  \/ u = r /\ pc[r] = "unlink" /\ cur[r] = r

DropInv ==
  \A r \in Tx : Installed(r) /\ claim[r] <= visible /\ older[r] # NoTx =>
    \E u \in Tx : Drops(u, r)

-----------------------------------------------------------------------------
(* The waiters.                                                            *)

Registered == {w \in Waiters : wpc[w] \in {"gate", "check", "blocked", "leave"}}

\* Who comes to wakeWaiters.
Wakes(u) ==
  \/ pc[u] \in {"pending", "linked", "seekOwn", "unlink", "unlinked", "waiters", "wake"}
  \/ pc[u] \in Walking /\ (mode[u] = "inorder" \/ moved[u])

WaitInv ==
  /\ IsFiniteSet(Registered) /\ waiters = Cardinality(Registered)
  /\ \A w \in Waiters :
       /\ ch[w] <= gate /\ floor[w] <= commit
       /\ wpc[w] = "blocked" /\ ch[w] = gate /\ floor[w] <= visible => \E u \in Tx : Wakes(u)
  /\ \A t \in Tx : pc[t] = "pending" => mode[t] = "inorder"

-----------------------------------------------------------------------------
(***************************************************************************)
(* The two halves of a commit.  Up to its publication a transaction leaves *)
(* the frontier and the marks alone; from there on it leaves the counter,  *)
(* the slots and the claims alone.                                         *)
(***************************************************************************)
Elsewhere(t) ==
  \A s \in Tx \ {t} : /\ pc'[s] = pc[s] /\ claim'[s] = claim[s] /\ head'[s] = head[s]
                      /\ cur'[s] = cur[s] /\ f'[s] = f[s] /\ mode'[s] = mode[s]
                      /\ moved'[s] = moved[s]

EarlyStep(t) ==
  /\ pc[t] \in Claiming \cup Owning
  /\ pc'[t] \in Claiming \cup Owning \cup {"publish"}
  /\ pc[t] \notin Claiming => pc'[t] \notin Claiming /\ claim'[t] = claim[t]
  /\ \A s \in Tx \ {t} : older'[s] = older[s]
  /\ UNCHANGED <<visible, pending, finished, kind, cur, f, mode, moved>>

LateStep(t) ==
  /\ pc[t] \in Finishing
  /\ pc'[t] \in Finishing
  /\ UNCHANGED <<commit, slots, claim, kind, head>>
  /\ \A s \in Tx : \/ older'[s] = older[s]
                   \/ /\ pc[t] \in {"unlink", "passUnlink"} /\ s = cur[t]
                      /\ older'[s] = NoTx
  /\ \/ visible' = visible
     \/ /\ pc[t] = "publish" /\ pc'[t] = "pending"
        /\ visible = claim[t] - 1 /\ visible' = claim[t]
     \/ /\ pc[t] = "raise" /\ pc'[t] = "passSettle" /\ cur'[t] = cur[t]
        /\ visible = f[t] /\ visible' = f[t] + 1

LEMMA EarlySteps ==
  ASSUME TypeOK, NEW t \in Tx, Allocating(t) \/ Committing(t)
  PROVE  Elsewhere(t) /\ EarlyStep(t)
  <1> USE DEF TypeOK, Elsewhere, EarlyStep, Claiming, Owning, counters, records, waiting,
              locals, At, Goto
  <1>1. CASE AllocateFor(t)
    BY <1>1 DEF AllocateFor
  <1>2. CASE ClaimLoad(t)
    BY <1>2 DEF ClaimLoad
  <1>3. CASE ClaimTaken(t)
    BY <1>3 DEF ClaimTaken, Continue, locals
  <1>4. CASE ClaimHead(t)
    BY <1>4 DEF ClaimHead
  <1>5. CASE ClaimAssist(t)
    BY <1>5 DEF ClaimAssist, locals
  <1>6. CASE ClaimLink(t)
    BY <1>6 DEF ClaimLink, locals
  <1>7. CASE ClaimFresh(t)
    BY <1>7 DEF ClaimFresh, Continue, locals
  <1>8. CASE ClaimInstall(t)
    BY <1>8 DEF ClaimInstall
  <1>9. CASE ClaimLost(t)
    BY <1>9 DEF ClaimLost
  <1>10. CASE ClaimCounter(t)
    BY <1>10 DEF ClaimCounter, locals
  <1>11. CASE MarkReady(t)
    BY <1>11 DEF MarkReady, locals
  <1>12. CASE Abort(t)
    BY <1>12 DEF Abort, locals
  <1>13. CASE Commit(t)
    BY <1>13 DEF Commit, locals
  <1> QED
    BY <1>1, <1>2, <1>3, <1>4, <1>5, <1>6, <1>7, <1>8, <1>9, <1>10, <1>11, <1>12,
       <1>13
       DEF Allocating, Committing

LEMMA LateSteps ==
  ASSUME TypeOK, NEW t \in Tx, Publishing(t) \/ Advancing(t)
  PROVE  Elsewhere(t) /\ LateStep(t)
  <1> USE DEF TypeOK, Elsewhere, LateStep, Finishing, counters, records, waiting, locals,
              At, Goto
  <1>1. CASE PublishInOrder(t)
    BY <1>1 DEF PublishInOrder
  <1>2. CASE PublishBlocked(t)
    BY <1>2 DEF PublishBlocked
  <1>3. CASE CheckPending(t)
    BY <1>3 DEF CheckPending, Continue
  <1>4. CASE CheckLinked(t)
    BY <1>4 DEF CheckLinked
  <1>5. CASE SeekOwn(t)
    BY <1>5 DEF SeekOwn, Found, NotFound
  <1>6. CASE Unlink(t)
    BY <1>6 DEF Unlink, ClearLink
  <1>7. CASE Unlinked(t)
    BY <1>7 DEF Unlinked, CountLink
  <1>8. CASE CheckLate(t)
    BY <1>8 DEF CheckLate, Continue
  <1>9. CASE SeekMark(t)
    BY <1>9 DEF SeekMark, Found, NotFound
  <1>10. CASE Mark(t)
    BY <1>10 DEF Mark
  <1>11. CASE Count(t)
    BY <1>11 DEF Count
  <1>12. CASE Recheck(t)
    BY <1>12 DEF Recheck, Continue
  <1>13. CASE Settle(t)
    BY <1>13 DEF Settle, SettleRec
  <1>14. CASE Uncount(t)
    BY <1>14 DEF Uncount, CountOut
  <1>15. CASE Advance(t)
    BY <1>15 DEF Advance
  <1>16. CASE SeekNext(t)
    BY <1>16 DEF SeekNext, Found, Return
  <1>17. CASE Examine(t)
    BY <1>17 DEF Examine, Continue, Return
  <1>18. CASE CheckReady(t)
    BY <1>18 DEF CheckReady, Continue, Return
  <1>19. CASE HelpStamp(t)
    BY <1>19 DEF HelpStamp
  <1>20. CASE Raise(t)
    BY <1>20 DEF Raise
  <1>21. CASE RaiseLost(t)
    BY <1>21 DEF RaiseLost
  <1>22. CASE PassSettle(t)
    BY <1>22 DEF PassSettle, SettleRec
  <1>23. CASE PassUncount(t)
    BY <1>23 DEF PassUncount, CountOut
  <1>24. CASE PassUnlink(t)
    BY <1>24 DEF PassUnlink, ClearLink
  <1>25. CASE PassDrop(t)
    BY <1>25 DEF PassDrop, CountLink
  <1>26. CASE CheckWaiters(t)
    BY <1>26 DEF CheckWaiters, Continue
  <1>27. CASE WakeWaiters(t)
    BY <1>27 DEF WakeWaiters
  <1> QED
    BY <1>1, <1>2, <1>3, <1>4, <1>5, <1>6, <1>7, <1>8, <1>9, <1>10, <1>11, <1>12,
       <1>13, <1>14, <1>15, <1>16, <1>17, <1>18, <1>19, <1>20, <1>21, <1>22,
       <1>23, <1>24, <1>25, <1>26, <1>27
       DEF Publishing, Advancing

\* What is installed stays where it is.
LEMMA StaysInstalled ==
  ASSUME NEW t \in Tx, Elsewhere(t), EarlyStep(t) \/ LateStep(t)
  PROVE  \A s \in Tx : Installed(s) => Installed(s)' /\ claim'[s] = claim[s]
  BY Disjoint DEF Installed, Elsewhere, EarlyStep, LateStep

LEMMA LateInstalled ==
  ASSUME NEW t \in Tx, Elsewhere(t), LateStep(t)
  PROVE  \A s \in Tx : Installed(s)' <=> Installed(s)
  BY Disjoint DEF Installed, Elsewhere, LateStep

\* The frontier moves by one, over the record whose publication moves it.
LEMMA FrontierMoves ==
  ASSUME IInv, NEW t \in Tx, LateStep(t)
  PROVE  \/ visible' = visible
         \/ /\ visible' = visible + 1
            /\ \/ pc[t] = "publish" /\ pc'[t] = "pending" /\ claim[t] = visible'
               \/ /\ pc[t] = "raise" /\ pc'[t] = "passSettle" /\ cur'[t] = cur[t]
                  /\ cur[t] \in Tx /\ claim[cur[t]] = visible'
  <1>1. visible \in Nat /\ claim[t] \in Nat /\ f[t] \in Nat
    BY DEF IInv, TypeOK
  <1>2. CASE visible' = visible
    BY <1>2
  <1>3. CASE /\ pc[t] = "publish" /\ pc'[t] = "pending"
             /\ visible = claim[t] - 1 /\ visible' = claim[t]
    BY <1>1, <1>3
  <1>4. CASE /\ pc[t] = "raise" /\ pc'[t] = "passSettle" /\ cur'[t] = cur[t]
             /\ visible = f[t] /\ visible' = f[t] + 1
    <2>1. cur[t] \in Tx /\ claim[cur[t]] = f[t] + 1
      BY <1>4 DEF IInv, TypeOK, CursorInv, CursorOK
    <2> QED
      BY <1>4, <2>1
  <1> QED
    BY <1>2, <1>3, <1>4 DEF LateStep

\* The counter moves by one, over an installed record.
LEMMA CounterMoves ==
  ASSUME IInv, NEW t \in Tx, Allocating(t) \/ Committing(t)
  PROVE  \/ commit' = commit
         \/ commit' = commit + 1 /\ \E s \in Tx : Installed(s) /\ claim[s] = commit + 1
  <1>0. commit \in Nat /\ claim[t] \in Nat /\ ClaimOK(t)
    BY DEF IInv, TypeOK, ClaimInv
  <1>1. CASE ClaimAssist(t) /\ commit = claim[t] - 1
    <2>1. commit' = commit + 1 /\ claim[t] = commit + 1 /\ pc[t] = "assist"
      BY <1>0, <1>1 DEF ClaimAssist, At
    <2> QED
      BY <1>0, <2>1 DEF ClaimOK
  <1>2. CASE ClaimCounter(t) /\ commit = claim[t] - 1
    <2>1. commit' = commit + 1 /\ claim[t] = commit + 1 /\ pc[t] = "counter"
      BY <1>0, <1>2 DEF ClaimCounter, At
    <2> QED
      BY <2>1 DEF Installed, Claiming
  <1>3. CASE commit' = commit
    BY <1>3
  <1> QED
    BY <1>1, <1>2, <1>3
       DEF Allocating, Committing, AllocateFor, ClaimLoad, ClaimTaken, ClaimHead, ClaimAssist,
           ClaimLink, ClaimFresh, ClaimInstall, ClaimLost, ClaimCounter, MarkReady, Abort,
           Commit, Continue, counters

-----------------------------------------------------------------------------
(* The timestamps above the frontier have their records.                   *)

LEMMA DenseStep ==
  ASSUME IInv, Dense, NEW t \in Tx, TxStep(t)
  PROVE  Dense'
  <1>0. TypeOK /\ commit \in Nat /\ visible \in Nat
    BY DEF IInv, TypeOK
  <1>1. CASE Allocating(t) \/ Committing(t)
    <2>1. Elsewhere(t) /\ EarlyStep(t)
      BY <1>0, <1>1, EarlySteps
    <2>2. \A s \in Tx : Installed(s) => Installed(s)' /\ claim'[s] = claim[s]
      BY <2>1, StaysInstalled
    <2>3. visible' = visible
      BY <2>1 DEF EarlyStep
    <2>4. \/ commit' = commit
          \/ commit' = commit + 1 /\ \E s \in Tx : Installed(s) /\ claim[s] = commit + 1
      BY <1>1, CounterMoves
    <2>5. SUFFICES ASSUME NEW n \in Nat, visible < n, n <= commit'
                   PROVE  \E s \in Tx : Installed(s) /\ claim[s] = n
      BY <2>2, <2>3, <2>5 DEF Dense
    <2> QED
      BY <1>0, <2>4, <2>5 DEF Dense
  <1>2. CASE Publishing(t) \/ Advancing(t)
    <2>1. Elsewhere(t) /\ LateStep(t)
      BY <1>0, <1>2, LateSteps
    <2>2. \A s \in Tx : Installed(s) => Installed(s)' /\ claim'[s] = claim[s]
      BY <2>1, StaysInstalled
    <2>3. visible' = visible \/ visible' = visible + 1
      BY <2>1, FrontierMoves
    <2>4. commit' = commit
      BY <2>1 DEF LateStep
    <2>5. SUFFICES ASSUME NEW n \in Nat, visible < n, n <= commit
                   PROVE  \E s \in Tx : Installed(s) /\ claim[s] = n
      BY <1>0, <2>2, <2>3, <2>4, <2>5 DEF Dense
    <2> QED
      BY <2>5 DEF Dense
  <1> QED
    BY <1>1, <1>2 DEF TxStep

-----------------------------------------------------------------------------
(* The links of a slot and the chain they make.                            *)

LEMMA LinkElsewhere ==
  ASSUME IInv, LinkInv, NEW t \in Tx, Elsewhere(t), EarlyStep(t), NEW s \in Tx \ {t}
  PROVE  LinkOK(s)'
  <1>1. LinkOK(s) /\ PointerOK(s)
    BY DEF LinkInv, IInv, PointerInv
  <1>2. /\ pc'[s] = pc[s] /\ claim'[s] = claim[s] /\ head'[s] = head[s]
        /\ older'[s] = older[s] /\ visible' = visible
    BY DEF Elsewhere, EarlyStep
  <1>3. \A x \in Tx : Installed(x) => claim'[x] = claim[x]
    BY StaysInstalled
  <1>4. older[s] # NoTx => older[s] \in Tx /\ claim'[older[s]] = claim[older[s]]
    BY <1>1, <1>3 DEF PointerOK, IInv, TypeOK
  <1>5. head[s] # NoTx => head[s] \in Tx /\ claim'[head[s]] = claim[head[s]]
    BY <1>1, <1>3 DEF PointerOK, IInv, TypeOK
  <1>6. pc[s] = "install" /\ older[s] = NoTx /\ head[s] = NoTx => older[s] = head[s]
    OBVIOUS
  <1> QED
    BY <1>1, <1>2, <1>4, <1>5, <1>6 DEF LinkOK, SameSlot, Slot

LEMMA LinkOwn ==
  ASSUME IInv, LinkInv, NEW t \in Tx, Allocating(t) \/ Committing(t)
  PROVE  LinkOK(t)'
  <1>0. /\ LinkOK(t) /\ PointerOK(t) /\ ClaimOK(t) /\ TypeOK
        /\ claim[t] \in Nat /\ visible \in Nat /\ older[t] \in Tx \cup {NoTx}
        /\ head[t] \in Tx \cup {NoTx}
    BY DEF LinkInv, IInv, PointerInv, ClaimInv, TypeOK
  <1>a. Elsewhere(t) /\ EarlyStep(t)
    BY <1>0, EarlySteps
  <1>b. \A x \in Tx : Installed(x) => claim'[x] = claim[x]
    BY <1>a, StaysInstalled
  <1>c. older[t] # NoTx => older[t] \in Tx /\ claim'[older[t]] = claim[older[t]]
    BY <1>0, <1>b DEF PointerOK
  <1>d. head[t] # NoTx => head[t] \in Tx /\ claim'[head[t]] = claim[head[t]]
    BY <1>0, <1>b DEF PointerOK
  <1>1. CASE AllocateFor(t) \/ ClaimLoad(t) \/ ClaimTaken(t) \/ ClaimAssist(t)
    <2>1. pc[t] \in {"idle", "load", "head", "assist"} /\ older' = older
          /\ pc'[t] \in {"load", "head", "assist"}
      BY <1>0, <1>1 DEF AllocateFor, ClaimLoad, ClaimTaken, ClaimAssist, Continue, records, At,
                        Goto, TypeOK
    <2>2. older[t] = NoTx
      BY <1>0, <2>1 DEF LinkOK, Claiming
    <2> QED
      BY <2>1, <2>2 DEF LinkOK
  <1>2. CASE ClaimCounter(t) \/ MarkReady(t) \/ Abort(t) \/ Commit(t) \/ ClaimInstall(t)
    <2>1. older' = older /\ claim' = claim /\ pc'[t] \notin Claiming
      BY <1>0, <1>2 DEF ClaimCounter, MarkReady, Abort, Commit, ClaimInstall, records, At, Goto,
                        TypeOK, Claiming
    <2> QED
      BY <1>0, <2>1 DEF LinkOK, SameSlot, Slot, Claiming
  <1>3. CASE ClaimHead(t)
    <2>1. /\ pc[t] = "head" /\ pc'[t] = "link" /\ older' = older /\ claim' = claim
          /\ head'[t] = slots[Slot(claim[t])]
      BY <1>0, <1>3 DEF ClaimHead, records, At, Goto, TypeOK
    <2>2. older[t] = NoTx
      BY <1>0, <2>1 DEF LinkOK, Claiming
    <2>3. head'[t] # NoTx => Slot(claim[head'[t]]) = Slot(claim[t])
      BY <1>0, <2>1, SlotType DEF IInv, SlotInv
    <2> QED
      BY <2>1, <2>2, <2>3 DEF LinkOK, SameSlot, Slot
  <1>4. CASE ClaimLink(t)
    <2>1. /\ pc[t] = "link" /\ pc'[t] = "install" /\ older'[t] = head[t] /\ claim' = claim
          /\ head' = head
      BY <1>0, <1>4 DEF ClaimLink, locals, At, Goto, TypeOK
    <2>2. head[t] # NoTx => SameSlot(head[t], t) /\ claim[head[t]] < claim[t]
      BY <1>0, <2>1 DEF LinkOK, ClaimOK
    <2> QED
      BY <2>1, <2>2 DEF LinkOK, SameSlot, Slot
  <1>5. CASE ClaimFresh(t)
    <2>1. /\ pc[t] = "link" /\ pc'[t] = "install" /\ older' = older /\ claim' = claim
          /\ head' = head /\ visible' = visible /\ ~HeadPending(t)
      BY <1>0, <1>5 DEF ClaimFresh, Continue, counters, records, locals, At, Goto, TypeOK
    <2>2. older[t] = NoTx /\ (head[t] # NoTx => SameSlot(head[t], t))
      BY <1>0, <2>1 DEF LinkOK, Claiming
    <2>3. head[t] = NoTx \/ claim[head[t]] <= visible
      BY <1>0, <2>1 DEF HeadPending, TypeOK
    <2> QED
      BY <2>1, <2>2, <2>3 DEF LinkOK, SameSlot, Slot
  <1>6. CASE ClaimLost(t)
    <2>1. pc'[t] = "load" /\ older'[t] = NoTx
      BY <1>0, <1>6 DEF ClaimLost, At, Goto, TypeOK
    <2> QED
      BY <2>1 DEF LinkOK
  <1> QED
    BY <1>1, <1>2, <1>3, <1>4, <1>5, <1>6 DEF Allocating, Committing

LEMMA LinkLate ==
  ASSUME IInv, LinkInv, NEW t \in Tx, Elsewhere(t), LateStep(t), NEW s \in Tx
  PROVE  LinkOK(s)'
  <1>1. LinkOK(s) /\ PointerOK(s) /\ PointerOK(t) /\ TypeOK
    BY DEF LinkInv, IInv, PointerInv
  <1>2. claim' = claim /\ head' = head /\ (pc'[s] \in Claiming => pc'[s] = pc[s])
    BY Disjoint DEF Elsewhere, LateStep
  <1>3. visible' >= visible /\ visible \in Nat /\ visible' \in Nat
    <2>1. visible \in Nat
      BY DEF IInv, TypeOK
    <2>2. visible' = visible \/ visible' = visible + 1
      BY FrontierMoves
    <2> QED
      BY <2>1, <2>2
  <1>4. head[s] # NoTx => claim[head[s]] \in Nat
    BY <1>1 DEF TypeOK
  <1>5. CASE older'[s] = older[s]
    <2>1. /\ older'[s] # NoTx => claim'[older'[s]] < claim'[s] /\ SameSlot(older[s], s)'
          /\ older'[s] # NoTx => pc'[s] \notin Claiming \ {"install"}
      BY <1>1, <1>2, <1>5 DEF LinkOK, SameSlot, Slot
    <2>2. pc'[s] \in {"link", "install"} => pc'[s] = pc[s]
      BY <1>2 DEF Claiming
    <2>3. pc'[s] \in {"link", "install"} /\ head'[s] # NoTx => SameSlot(head[s], s)'
      BY <1>1, <1>2, <2>2 DEF LinkOK, SameSlot, Slot
    <2>4. pc'[s] = "install" => \/ older'[s] = head'[s]
                                \/ older'[s] = NoTx /\ claim'[head'[s]] <= visible'
      BY <1>1, <1>2, <1>3, <1>4, <1>5, <2>2 DEF LinkOK
    <2> QED
      BY <2>1, <2>3, <2>4 DEF LinkOK
  <1>6. CASE pc[t] \in {"unlink", "passUnlink"} /\ s = cur[t] /\ older'[s] = NoTx
    <2>1. Installed(s)
      BY <1>1, <1>6 DEF PointerOK
    <2>2. pc'[s] \notin Claiming
      BY <1>2, <2>1 DEF Installed
    <2> QED
      BY <1>6, <2>2 DEF LinkOK, Claiming
  <1> QED
    BY <1>5, <1>6 DEF LateStep

LEMMA LinkStep ==
  ASSUME IInv, LinkInv, NEW t \in Tx, TxStep(t)
  PROVE  LinkInv'
  <1>0. TypeOK
    BY DEF IInv
  <1>1. CASE Allocating(t) \/ Committing(t)
    BY <1>0, <1>1, EarlySteps, LinkElsewhere, LinkOwn DEF LinkInv
  <1>2. CASE Publishing(t) \/ Advancing(t)
    BY <1>0, <1>2, LateSteps, LinkLate DEF LinkInv
  <1> QED
    BY <1>1, <1>2 DEF TxStep

\* An installed record of the slot is not newer than the head that a claimant
\* replaces.
LEMMA InstallOnTop ==
  ASSUME IInv, NEW t \in Tx, ClaimInstall(t), NEW y \in Tx, Installed(y), SameSlot(y, t)
  PROVE  head[t] \in Tx /\ claim[y] <= claim[head[t]] /\ claim[head[t]] < claim[t]
  <1>1. slots[Slot(claim[y])] = head[t] /\ pc[t] = "install" /\ ClaimOK(t)
    BY DEF ClaimInstall, SameSlot, At, IInv, ClaimInv
  <1>2. head[t] \in Tx /\ claim[head[t]] >= claim[y]
    BY <1>1, HeadNewest
  <1>3. claim[head[t]] < claim[t]
    BY <1>1, <1>2 DEF ClaimOK
  <1> QED
    BY <1>2, <1>3 DEF IInv, TypeOK

LEMMA ChainInstall ==
  ASSUME IInv, LinkInv, ChainInv, NEW t \in Tx, ClaimInstall(t)
  PROVE  ChainInv'
  <1>1. /\ pc[t] = "install" /\ visible' = visible /\ claim' = claim /\ older' = older
        /\ \A s \in Tx \ {t} : Installed(s)' <=> Installed(s)
    BY DEF ClaimInstall, At, Goto, Installed, records, IInv, TypeOK
  <1>2. LinkOK(t) /\ visible \in Nat /\ claim \in [Tx -> Nat]
    BY DEF LinkInv, IInv, TypeOK
  <1>3. SUFFICES ASSUME NEW x \in Tx, NEW y \in Tx, Installed(x)', Installed(y)',
                        SameSlot(x, y), visible < claim[y], claim[y] < claim[x]
                 PROVE  older[x] # NoTx /\ claim[y] <= claim[older[x]]
    BY <1>1 DEF ChainInv, SameSlot, Slot
  <1>4. CASE x # t /\ y # t
    BY <1>1, <1>3, <1>4 DEF ChainInv
  <1>5. CASE x = t
    <2>1. y # t /\ Installed(y)
      BY <1>1, <1>2, <1>3, <1>5
    <2>2. head[t] \in Tx /\ claim[y] <= claim[head[t]]
      BY <1>3, <1>5, <2>1, InstallOnTop DEF SameSlot
    <2>3. older[t] = head[t]
      BY <1>1, <1>2, <1>3, <2>2 DEF LinkOK
    <2> QED
      BY <1>5, <2>2, <2>3
  <1>6. CASE y = t
    <2>1. x # t /\ Installed(x)
      BY <1>1, <1>2, <1>3, <1>6
    <2>2. head[t] \in Tx /\ claim[x] <= claim[head[t]] /\ claim[head[t]] < claim[t]
      BY <1>3, <1>6, <2>1, InstallOnTop DEF SameSlot
    <2> QED
      BY <1>2, <1>3, <1>6, <2>2
  <1> QED
    BY <1>4, <1>5, <1>6

LEMMA ChainStep ==
  ASSUME IInv, LinkInv, ChainInv, WalkInv, NEW t \in Tx, TxStep(t)
  PROVE  ChainInv'
  <1>0. TypeOK /\ visible \in Nat /\ claim \in [Tx -> Nat] /\ WalkOK(t)
    BY DEF IInv, TypeOK, WalkInv
  <1>1. CASE (Allocating(t) \/ Committing(t)) /\ ~ClaimInstall(t)
    <2>1. Elsewhere(t) /\ EarlyStep(t)
      BY <1>0, <1>1, EarlySteps
    <2>2. Installed(t)' => Installed(t) /\ older'[t] = older[t]
      BY <1>0, <1>1
         DEF Allocating, Committing, AllocateFor, ClaimLoad, ClaimTaken, ClaimHead, ClaimAssist,
             ClaimLink, ClaimFresh, ClaimLost, ClaimCounter, MarkReady, Abort, Commit,
             Continue, records, At, Goto, Installed, Claiming, TypeOK
    <2>3. \A s \in Tx : Installed(s)' =>
            Installed(s) /\ claim'[s] = claim[s] /\ older'[s] = older[s]
      BY <2>1, <2>2 DEF Elsewhere, EarlyStep, Installed
    <2>4. \A s \in Tx : Installed(s) => claim'[s] = claim[s]
      BY <2>1, StaysInstalled
    <2>5. \A s \in Tx : Installed(s) /\ older[s] # NoTx =>
            older[s] \in Tx /\ claim'[older[s]] = claim[older[s]]
      BY <1>0, <2>4 DEF IInv, PointerInv, PointerOK, TypeOK
    <2>6. visible' = visible
      BY <2>1 DEF EarlyStep
    <2> QED
      BY <2>3, <2>5, <2>6 DEF ChainInv, SameSlot, Slot
  <1>2. CASE ClaimInstall(t)
    BY <1>2, ChainInstall
  <1>3. CASE Publishing(t) \/ Advancing(t)
    <2>1. Elsewhere(t) /\ LateStep(t)
      BY <1>0, <1>3, LateSteps
    <2>2. /\ claim' = claim /\ visible' >= visible /\ visible' \in Nat
          /\ \A s \in Tx : Installed(s)' <=> Installed(s)
      BY <1>0, <2>1, FrontierMoves, LateInstalled DEF LateStep
    <2>3. \A s \in Tx : older'[s] = older[s] \/ claim[s] <= visible
      BY <1>0, <2>1 DEF LateStep, WalkOK
    <2> QED
      BY <1>0, <2>2, <2>3 DEF ChainInv, SameSlot, Slot
  <1> QED
    BY <1>1, <1>2, <1>3 DEF TxStep

-----------------------------------------------------------------------------
(* The searches and the walk.                                              *)

\* A search for a timestamp above the frontier does not run out before it
\* comes to the record that owns it.
LEMMA SearchReaches ==
  ASSUME IInv, ChainInv, NEW t \in Tx, NEW r \in Tx, Installed(r), claim[r] > visible,
         cur[t] # NoTx => claim[cur[t]] > claim[r] /\ SameSlot(cur[t], r)
  PROVE  Reaches(t, claim[r])
  <1>1. CASE cur[t] = NoTx
    <2>1. slots[Slot(claim[r])] \in Tx /\ claim[slots[Slot(claim[r])]] >= claim[r]
      BY HeadNewest
    <2> QED
      BY <1>1, <2>1 DEF Reaches, Loaded
  <1>2. CASE cur[t] # NoTx
    <2>1. cur[t] \in Tx /\ Installed(cur[t]) /\ claim[r] \in Nat /\ visible \in Nat
      BY <1>2 DEF IInv, TypeOK, PointerInv, PointerOK
    <2>2. older[cur[t]] # NoTx /\ claim[r] <= claim[older[cur[t]]]
      BY <1>2, <2>1 DEF ChainInv
    <2>3. older[cur[t]] \in Tx /\ claim[older[cur[t]]] \in Nat
      BY <2>1, <2>2 DEF IInv, TypeOK
    <2> QED
      BY <1>2, <2>1, <2>2, <2>3 DEF Reaches, Loaded
  <1> QED
    BY <1>1, <1>2

\* What a search comes to: a record of the slot, not older than what it looks for.
LEMMA SearchFinds ==
  ASSUME IInv, LinkInv, NEW t \in Tx, NEW n \in Nat, Reaches(t, n),
         cur[t] # NoTx => Slot(claim[cur[t]]) = Slot(n)
  PROVE  /\ Loaded(t, n) \in Tx /\ Installed(Loaded(t, n))
         /\ claim[Loaded(t, n)] \in Nat /\ claim[Loaded(t, n)] >= n
         /\ Slot(claim[Loaded(t, n)]) = Slot(n)
  <1>1. Loaded(t, n) \in Tx /\ Installed(Loaded(t, n))
    BY LoadedInstalled
  <1>2. claim[Loaded(t, n)] \in Nat /\ claim[Loaded(t, n)] >= n
    BY <1>1 DEF Reaches, IInv, TypeOK
  <1>3. CASE cur[t] = NoTx
    BY <1>1, <1>2, <1>3, SlotType DEF Loaded, IInv, SlotInv
  <1>4. CASE cur[t] # NoTx
    <2>1. cur[t] \in Tx /\ LinkOK(cur[t]) /\ Loaded(t, n) = older[cur[t]]
      BY <1>4 DEF IInv, TypeOK, LinkInv, Loaded
    <2> QED
      BY <1>1, <1>2, <1>4, <2>1 DEF LinkOK, SameSlot
  <1> QED
    BY <1>1, <1>2, <1>3, <1>4

LEMMA WalkEarly ==
  ASSUME IInv, WalkInv, NEW t \in Tx, Elsewhere(t), EarlyStep(t)
  PROVE  WalkInv'
  <1> SUFFICES ASSUME NEW s \in Tx PROVE WalkOK(s)'
    BY DEF WalkInv
  <1>1. WalkOK(s) /\ cur[s] \in Tx \cup {NoTx} /\ PointerOK(s)
    BY DEF WalkInv, IInv, TypeOK, PointerInv
  <1>2. cur' = cur /\ f' = f /\ mode' = mode /\ visible' = visible
    BY DEF EarlyStep
  <1>3. cur[s] # NoTx => claim'[cur[s]] = claim[cur[s]]
    BY <1>1, StaysInstalled DEF PointerOK
  <1>4. CASE s = t
    <2>1. pc[s] \notin Using
      BY <1>4 DEF EarlyStep, Using, Claiming, Owning
    <2>2. cur[s] = NoTx
      BY <1>1, <2>1 DEF WalkOK
    <2>3. pc'[s] \in Claiming \cup Owning \cup {"publish"}
      BY <1>4 DEF EarlyStep
    <2> QED
      BY <1>1, <1>2, <2>2, <2>3 DEF WalkOK, Claiming, Owning, Walking
  <1>5. CASE s # t
    <2>1. pc'[s] = pc[s] /\ claim'[s] = claim[s]
      BY <1>5 DEF Elsewhere
    <2> QED
      BY <1>1, <1>2, <1>3, <2>1 DEF WalkOK, SameSlot, Slot
  <1> QED
    BY <1>4, <1>5

LEMMA WalkElsewhere ==
  ASSUME IInv, WalkInv, NEW t \in Tx, Elsewhere(t), LateStep(t), NEW s \in Tx \ {t}
  PROVE  WalkOK(s)'
  <1>1. /\ WalkOK(s) /\ cur[s] \in Tx \cup {NoTx} /\ claim \in [Tx -> Nat]
        /\ visible \in Nat /\ f[s] \in Nat
    BY DEF WalkInv, IInv, TypeOK
  <1>2. /\ cur'[s] = cur[s] /\ f'[s] = f[s] /\ mode'[s] = mode[s] /\ pc'[s] = pc[s]
        /\ claim' = claim
    BY DEF Elsewhere, LateStep
  <1>3. visible' = visible \/ visible' = visible + 1
    BY FrontierMoves
  <1> QED
    BY <1>1, <1>2, <1>3 DEF WalkOK, SameSlot, Slot

\* advance returns to where finishCommitTS called it.
LEMMA WalkReturn ==
  ASSUME IInv, WalkInv, NEW t \in Tx, pc[t] \in Walking, Return(t)
  PROVE  WalkOK(t)'
  <1>1. /\ WalkOK(t) /\ visible \in Nat
    BY DEF WalkInv, IInv, TypeOK
  <1>2. /\ pc'[t] \in {"linked", "waiters", "done"}
        /\ pc'[t] = "linked" => mode[t] = "inorder"
        /\ cur'[t] = NoTx /\ f'[t] = 0 /\ visible' = visible /\ claim' = claim
    BY DEF Return, Goto, IInv, TypeOK, counters, records
  <1> QED
    BY <1>1, <1>2 DEF WalkOK, Walking

\* A search, one load at a time.
LEMMA WalkSeek ==
  ASSUME IInv, LinkInv, WalkInv, NEW t \in Tx, SeekOwn(t) \/ SeekMark(t) \/ SeekNext(t)
  PROVE  WalkOK(t)'
  <1>0. /\ WalkOK(t) /\ visible \in Nat /\ claim \in [Tx -> Nat] /\ f[t] \in Nat
        /\ cur[t] \in Tx \cup {NoTx} /\ TypeOK
    BY DEF WalkInv, IInv, TypeOK
  <1>1. CASE SeekOwn(t)
    <2>1. CASE Found(t, claim[t], "unlink")
      <3>1. Loaded(t, claim[t]) \in Tx
        BY <1>0, <2>1, LoadedInstalled DEF Found
      <3>2. /\ pc[t] = "seekOwn" /\ pc'[t] \in {"seekOwn", "unlink"}
            /\ pc'[t] = "unlink" => claim[cur'[t]] = claim[t]
            /\ cur'[t] \in Tx /\ f' = f /\ mode' = mode /\ visible' = visible /\ claim' = claim
        BY <1>0, <1>1, <2>1, <3>1 DEF SeekOwn, Found, At, Goto, counters, records, TypeOK
      <3> QED
        BY <1>0, <3>2 DEF WalkOK, Using, Walking
    <2>2. CASE NotFound(t, claim[t], "waiters")
      <3>1. /\ pc'[t] = "waiters" /\ cur'[t] = NoTx /\ f' = f /\ visible' = visible
            /\ claim' = claim
        BY <1>0, <1>1, <2>2 DEF SeekOwn, NotFound, At, Goto, counters, records, TypeOK
      <3> QED
        BY <1>0, <3>1 DEF WalkOK, Walking
    <2> QED
      BY <1>1, <2>1, <2>2 DEF SeekOwn
  <1>2. CASE SeekMark(t)
    <2>0. pc[t] = "seekMark"
      BY <1>2 DEF SeekMark, At
    <2>1. CASE Found(t, claim[t], "mark")
      <3>1. /\ Loaded(t, claim[t]) \in Tx /\ claim[Loaded(t, claim[t])] \in Nat
            /\ claim[Loaded(t, claim[t])] >= claim[t]
            /\ Slot(claim[Loaded(t, claim[t])]) = Slot(claim[t])
        BY <1>0, <2>0, <2>1, SearchFinds DEF Found, WalkOK, SameSlot
      <3>2. /\ pc'[t] \in {"seekMark", "mark"} /\ cur'[t] = Loaded(t, claim[t])
            /\ pc'[t] = "seekMark" => claim[cur'[t]] # claim[t]
            /\ f' = f /\ mode' = mode /\ visible' = visible /\ claim' = claim
        BY <1>0, <2>0, <2>1 DEF Found, Goto, counters, records, TypeOK
      <3> QED
        BY <1>0, <2>0, <3>1, <3>2 DEF WalkOK, Using, Walking, SameSlot, Slot
    <2>2. CASE NotFound(t, claim[t], "advance")
      <3>1. /\ pc'[t] = "advance" /\ cur'[t] = NoTx /\ f' = f /\ visible' = visible
            /\ claim' = claim /\ mode' = mode
        BY <1>0, <2>2 DEF NotFound, Goto, counters, records, TypeOK
      <3> QED
        BY <1>0, <2>0, <3>1 DEF WalkOK, Walking
    <2> QED
      BY <1>2, <2>1, <2>2 DEF SeekMark
  <1>3. CASE SeekNext(t)
    <2>0. pc[t] = "seekNext"
      BY <1>3 DEF SeekNext, At
    <2>1. CASE Found(t, f[t] + 1, "examine")
      <3>1. /\ Loaded(t, f[t] + 1) \in Tx /\ claim[Loaded(t, f[t] + 1)] \in Nat
            /\ claim[Loaded(t, f[t] + 1)] >= f[t] + 1
            /\ Slot(claim[Loaded(t, f[t] + 1)]) = Slot(f[t] + 1)
        <4>1. f[t] + 1 \in Nat /\ Reaches(t, f[t] + 1)
          BY <1>0, <2>1 DEF Found
        <4>2. cur[t] # NoTx => Slot(claim[cur[t]]) = Slot(f[t] + 1)
          BY <1>0, <2>0 DEF WalkOK
        <4> QED
          BY <4>1, <4>2, SearchFinds
      <3>2. /\ pc'[t] \in {"seekNext", "examine"} /\ cur'[t] = Loaded(t, f[t] + 1)
            /\ pc'[t] = "seekNext" => claim[cur'[t]] # f[t] + 1
            /\ f' = f /\ mode' = mode /\ visible' = visible /\ claim' = claim
        BY <1>0, <2>0, <2>1 DEF Found, Goto, counters, records, TypeOK
      <3> QED
        BY <1>0, <2>0, <3>1, <3>2 DEF WalkOK, Using, Walking, Slot
    <2>2. CASE Return(t)
      BY <2>0, <2>2, WalkReturn DEF Walking
    <2> QED
      BY <1>3, <2>1, <2>2 DEF SeekNext
  <1> QED
    BY <1>1, <1>2, <1>3

LEMMA WalkExamine ==
  ASSUME IInv, WalkInv, NEW t \in Tx, Examine(t) \/ CheckReady(t) \/ Raise(t)
  PROVE  WalkOK(t)'
  <1>0. /\ WalkOK(t) /\ visible \in Nat /\ claim \in [Tx -> Nat] /\ f[t] \in Nat
        /\ cur[t] \in Tx \cup {NoTx} /\ TypeOK /\ CursorOK(t)
    BY DEF WalkInv, IInv, TypeOK, CursorInv
  <1>1. CASE Raise(t)
    <2>1. /\ pc[t] = "raise" /\ pc'[t] = "passSettle" /\ visible' = f[t] + 1 /\ f'[t] = 0
          /\ cur' = cur /\ mode' = mode /\ claim' = claim /\ visible = f[t]
      BY <1>0, <1>1 DEF Raise, At, Goto, records, TypeOK
    <2>2. cur[t] \in Tx /\ claim[cur[t]] = f[t] + 1
      BY <1>0, <2>1 DEF CursorOK
    <2> QED
      BY <1>0, <2>1, <2>2 DEF WalkOK, Using, Walking
  <1>2. CASE Examine(t) \/ CheckReady(t)
    <2>0. pc[t] \in {"examine", "checkReady"}
      BY <1>2 DEF Examine, CheckReady, At
    <2>1. CASE Return(t)
      BY <2>0, <2>1, WalkReturn DEF Walking
    <2>2. CASE \E l \in {"raise", "checkReady", "helpStamp"} : Continue(t, l)
      <3>1. /\ pc'[t] \in {"raise", "checkReady", "helpStamp"} /\ visible' = visible
            /\ f' = f /\ cur' = cur /\ mode' = mode /\ claim' = claim
        BY <1>0, <2>2 DEF Continue, Goto, counters, records, locals, TypeOK
      <3> QED
        BY <1>0, <2>0, <3>1 DEF WalkOK, Using, Walking
    <2> QED
      BY <1>2, <2>1, <2>2 DEF Examine, CheckReady
  <1> QED
    BY <1>1, <1>2

LEMMA WalkOwn ==
  ASSUME IInv, LinkInv, WalkInv, NEW t \in Tx, Publishing(t) \/ Advancing(t)
  PROVE  WalkOK(t)'
  <1>0. /\ WalkOK(t) /\ visible \in Nat /\ claim \in [Tx -> Nat] /\ f \in [Tx -> Nat]
        /\ cur \in [Tx -> Tx \cup {NoTx}] /\ mode \in [Tx -> {"inorder", "late", "help"}]
        /\ pc \in [Tx -> Claiming \cup Owning \cup Finishing]
    BY DEF WalkInv, IInv, TypeOK
  <1> USE <1>0 DEF WalkOK, Using, Walking, SameSlot, Slot, At, Goto, counters, records
  <1>1. CASE PublishInOrder(t)
    BY <1>1 DEF PublishInOrder
  <1>2. CASE PublishBlocked(t)
    BY <1>2 DEF PublishBlocked
  <1>3. CASE CheckPending(t)
    BY <1>3 DEF CheckPending, Continue, locals
  <1>4. CASE Unlinked(t)
    BY <1>4 DEF Unlinked, CountLink, locals
  <1>5. CASE CheckLate(t)
    BY <1>5 DEF CheckLate, Continue, locals
  <1>6. CASE Count(t)
    BY <1>6 DEF Count
  <1>7. CASE Recheck(t)
    BY <1>7 DEF Recheck, Continue, locals
  <1>8. CASE Settle(t)
    BY <1>8 DEF Settle, SettleRec, locals
  <1>9. CASE Uncount(t)
    BY <1>9 DEF Uncount, CountOut, locals
  <1>10. CASE Mark(t)
    BY <1>10 DEF Mark
  <1>11. CASE Unlink(t)
    BY <1>11 DEF Unlink, ClearLink
  <1>12. CASE PassUnlink(t)
    BY <1>12 DEF PassUnlink, ClearLink
  <1>13. CASE Advance(t)
    BY <1>13 DEF Advance
  <1>14. CASE HelpStamp(t)
    BY <1>14 DEF HelpStamp, locals
  <1>15. CASE RaiseLost(t)
    BY <1>15 DEF RaiseLost
  <1>16. CASE PassSettle(t)
    BY <1>16 DEF PassSettle, SettleRec, locals
  <1>17. CASE PassUncount(t)
    BY <1>17 DEF PassUncount, CountOut, locals
  <1>18. CASE PassDrop(t)
    BY <1>18 DEF PassDrop, CountLink, locals
  <1>19. CASE CheckWaiters(t)
    BY <1>19 DEF CheckWaiters, Continue, locals
  <1>20. CASE WakeWaiters(t)
    BY <1>20 DEF WakeWaiters, locals
  <1>21. CASE CheckLinked(t)
    BY <1>21 DEF CheckLinked, KeepsRecord
  <1>22. CASE SeekOwn(t) \/ SeekMark(t) \/ SeekNext(t)
    BY <1>22, WalkSeek
  <1>23. CASE Examine(t) \/ CheckReady(t) \/ Raise(t)
    BY <1>23, WalkExamine
  <1> HIDE DEF WalkOK
  <1> QED
    BY <1>1, <1>2, <1>3, <1>4, <1>5, <1>6, <1>7, <1>8, <1>9, <1>10, <1>11, <1>12, <1>13, <1>14,
       <1>15, <1>16, <1>17, <1>18, <1>19, <1>20, <1>21, <1>22, <1>23
       DEF Publishing, Advancing

LEMMA WalkStep ==
  ASSUME IInv, LinkInv, WalkInv, NEW t \in Tx, TxStep(t)
  PROVE  WalkInv'
  <1>0. TypeOK
    BY DEF IInv
  <1>1. CASE Allocating(t) \/ Committing(t)
    BY <1>0, <1>1, EarlySteps, WalkEarly
  <1>2. CASE Publishing(t) \/ Advancing(t)
    BY <1>0, <1>2, LateSteps, WalkElsewhere, WalkOwn DEF WalkInv
  <1> QED
    BY <1>1, <1>2 DEF TxStep

-----------------------------------------------------------------------------
(***************************************************************************)
(* The marks.  MarkEffect is what a publication does to finished and to    *)
(* pending; MarkMoves is how it comes to its mark and leaves it.           *)
(***************************************************************************)
MarkEffect(t) ==
  /\ \A s \in Tx :
       \/ finished'[s] = finished[s]
       \/ pc[t] = "mark" /\ s = t
       \/ /\ finished[s] = "marked" /\ finished'[s] = "counted"
          /\ \/ pc[t] = "settle" /\ s = t /\ pc'[t] = "uncount"
             \/ pc[t] = "passSettle" /\ s = cur[t] /\ pc'[t] = "passUncount"
  /\ pc[t] = "mark" => finished[t] = "none" /\ finished'[t] = "marked" /\ pc'[t] = "count"
  /\ pc[t] = "settle" => finished'[t] # "marked"
  /\ pc[t] = "passSettle" => finished'[cur[t]] # "marked"
  /\ pc'[t] = "uncount" => pc[t] = "settle" /\ finished[t] = "marked"
  /\ pc'[t] = "passUncount" => pc[t] = "passSettle" /\ finished[cur[t]] = "marked"

MarkMoves(t) ==
  /\ pc'[t] = "count" => pc[t] = "mark"
  /\ pc[t] = "count" => pc'[t] = "recheck"
  /\ pc[t] = "recheck" => pc'[t] = "settle" \/ claim[t] > visible
  /\ pc[t] \in Unmarked =>
       \/ pc'[t] \in Unmarked
       \/ pc'[t] \notin Unmarked /\ claim[t] <= visible'
       \/ pc[t] = "mark"
  /\ pc[t] \notin Unmarked => pc'[t] \notin Unmarked
  /\ pending' = CASE pc[t] = "count" -> pending + 1
                  [] pc[t] \in {"uncount", "passUncount"} -> pending - 1
                  [] OTHER -> pending

\* A transaction that is not given its record has found it.
LEMMA MarkOwnRecord ==
  ASSUME IInv, NEW t \in Tx, Mark(t)
  PROVE  (IF KeepsRecord(t) THEN t ELSE cur[t]) = t
  BY Disjoint DEF Mark, At, KeepsRecord, IInv, TypeOK, CursorInv, CursorOK, PointerInv,
                  PointerOK, OneOwner, Installed, Finishing

\* Its record is not found only when the frontier has passed it.
LEMMA MarkNotFound ==
  ASSUME IInv, ChainInv, WalkInv, NEW t \in Tx, pc[t] = "seekMark", ~Reaches(t, claim[t])
  PROVE  claim[t] <= visible
  <1>1. claim[t] \in Nat /\ visible \in Nat /\ Installed(t) /\ WalkOK(t)
    BY DEF IInv, TypeOK, Installed, Claiming, WalkInv
  <1>2. cur[t] # NoTx => claim[cur[t]] > claim[t] /\ SameSlot(cur[t], t)
    BY <1>1 DEF WalkOK
  <1> QED
    BY <1>1, <1>2, SearchReaches

LEMMA MarkSteps ==
  ASSUME IInv, ChainInv, WalkInv, NEW t \in Tx, Publishing(t) \/ Advancing(t)
  PROVE  MarkEffect(t) /\ MarkMoves(t)
  <1>0. /\ TypeOK /\ visible \in Nat /\ claim[t] \in Nat
        /\ pc \in [Tx -> Claiming \cup Owning \cup Finishing]
        /\ finished \in [Tx -> {"none", "marked", "counted"}]
    BY DEF IInv, TypeOK
  <1>a. CASE Mark(t)
    <2>1. /\ pc[t] = "mark" /\ pc'[t] = "count" /\ finished[t] = "none" /\ pending' = pending
          /\ finished' = [finished EXCEPT ![t] = "marked"]
      BY <1>0, <1>a, MarkOwnRecord DEF Mark, At, Goto, counters
    <2> QED
      BY <1>0, <2>1 DEF MarkEffect, MarkMoves, Unmarked
  <1>b. CASE SeekMark(t)
    <2>1. /\ pc[t] = "seekMark" /\ pc'[t] \in {"seekMark", "mark", "advance"}
          /\ pc'[t] = "advance" => ~Reaches(t, claim[t])
          /\ finished' = finished /\ pending' = pending /\ visible' = visible
      BY <1>0, <1>b DEF SeekMark, Found, NotFound, At, Goto, counters, records
    <2>2. pc'[t] = "advance" => claim[t] <= visible'
      BY <2>1, MarkNotFound
    <2> QED
      BY <2>1, <2>2 DEF MarkEffect, MarkMoves, Unmarked
  <1> USE <1>0 DEF MarkEffect, MarkMoves, Unmarked, counters, records, At, Goto
  <1>1. CASE PublishInOrder(t)
    BY <1>1 DEF PublishInOrder
  <1>2. CASE PublishBlocked(t)
    BY <1>2 DEF PublishBlocked
  <1>3. CASE CheckPending(t)
    BY <1>3 DEF CheckPending, Continue
  <1>4. CASE CheckLinked(t)
    BY <1>4 DEF CheckLinked
  <1>5. CASE SeekOwn(t)
    BY <1>5 DEF SeekOwn, Found, NotFound
  <1>6. CASE Unlink(t)
    BY <1>6 DEF Unlink, ClearLink
  <1>7. CASE Unlinked(t)
    BY <1>7 DEF Unlinked, CountLink
  <1>8. CASE CheckLate(t)
    BY <1>8 DEF CheckLate, Continue
  <1>9. CASE Count(t)
    BY <1>9 DEF Count
  <1>10. CASE Recheck(t)
    BY <1>10 DEF Recheck, Continue
  <1>11. CASE Settle(t)
    BY <1>11 DEF Settle, SettleRec
  <1>12. CASE Uncount(t)
    BY <1>12 DEF Uncount, CountOut
  <1>13. CASE Advance(t)
    BY <1>13 DEF Advance
  <1>14. CASE SeekNext(t)
    BY <1>14 DEF SeekNext, Found, Return
  <1>15. CASE Examine(t)
    BY <1>15 DEF Examine, Continue, Return
  <1>16. CASE CheckReady(t)
    BY <1>16 DEF CheckReady, Continue, Return
  <1>17. CASE HelpStamp(t)
    BY <1>17 DEF HelpStamp
  <1>18. CASE Raise(t)
    BY <1>18 DEF Raise
  <1>19. CASE RaiseLost(t)
    BY <1>19 DEF RaiseLost
  <1>20. CASE PassSettle(t)
    <2>1. pc[t] = "passSettle" /\ cur[t] \in Tx
      BY <1>20 DEF PassSettle, WalkInv, WalkOK, TypeOK
    <2> QED
      BY <1>20, <2>1 DEF PassSettle, SettleRec
  <1>21. CASE PassUncount(t)
    BY <1>21 DEF PassUncount, CountOut
  <1>22. CASE PassUnlink(t)
    BY <1>22 DEF PassUnlink, ClearLink
  <1>23. CASE PassDrop(t)
    BY <1>23 DEF PassDrop, CountLink
  <1>24. CASE CheckWaiters(t)
    BY <1>24 DEF CheckWaiters, Continue
  <1>25. CASE WakeWaiters(t)
    BY <1>25 DEF WakeWaiters
  <1> HIDE DEF MarkEffect, MarkMoves
  <1> QED
    BY <1>a, <1>b, <1>1, <1>2, <1>3, <1>4, <1>5, <1>6, <1>7, <1>8, <1>9, <1>10, <1>11, <1>12, <1>13, <1>14,
       <1>15, <1>16, <1>17, <1>18, <1>19, <1>20, <1>21, <1>22, <1>23, <1>24, <1>25
       DEF Publishing, Advancing

LEMMA MarkEarly ==
  ASSUME IInv, MarkInv, NEW t \in Tx, Elsewhere(t), EarlyStep(t)
  PROVE  MarkInv'
  <1> SUFFICES ASSUME NEW s \in Tx PROVE MarkOK(s)'
    BY DEF MarkInv
  <1>1. MarkOK(s)
    BY DEF MarkInv
  <1>2. finished' = finished /\ cur' = cur /\ visible' = visible
    BY DEF EarlyStep
  <1>3. CASE s = t
    <2>1. pc[s] \notin Finishing /\ pc'[s] \notin Finishing \ Unmarked
      BY <1>3, Disjoint DEF EarlyStep, Unmarked
    <2>2. finished[s] = "none" /\ pc'[s] # "count"
      BY <1>1, <2>1 DEF MarkOK, Finishing, Unmarked
    <2> QED
      BY <1>2, <2>1, <2>2 DEF MarkOK
  <1>4. CASE s # t
    <2>1. pc'[s] = pc[s] /\ claim'[s] = claim[s]
      BY <1>4 DEF Elsewhere
    <2>2. \A u \in Tx : pc[u] = "passSettle" => pc'[u] = "passSettle"
      BY DEF Elsewhere, EarlyStep, Claiming, Owning
    <2> QED
      BY <1>1, <1>2, <2>1, <2>2 DEF MarkOK
  <1> QED
    BY <1>3, <1>4

\* A record that the frontier has just passed is the publisher's own, which is
\* not marked, or is settled next.
LEMMA MarkPassed ==
  ASSUME IInv, MarkInv, NEW t \in Tx, LateStep(t), NEW s \in Tx, Installed(s),
         claim[s] > visible, claim[s] <= visible'
  PROVE  \/ s = t /\ pc[t] = "publish" /\ finished[s] = "none"
         \/ pc'[t] = "passSettle" /\ cur'[t] = s
  <1>1. visible \in Nat /\ claim \in [Tx -> Nat]
    BY DEF IInv, TypeOK
  <1>2. visible' = visible + 1 /\ claim[s] = visible'
    BY <1>1, FrontierMoves
  <1>3. \A x \in Tx : Installed(x) /\ claim[x] = claim[s] => x = s
    BY DEF IInv, OneOwner
  <1>4. CASE pc[t] = "publish" /\ claim[t] = visible'
    <2>1. s = t
      BY <1>2, <1>3, <1>4 DEF Installed, Claiming
    <2> QED
      BY <1>4, <2>1 DEF MarkInv, MarkOK, Unmarked, Finishing
  <1>5. CASE /\ pc[t] = "raise" /\ pc'[t] = "passSettle" /\ cur'[t] = cur[t]
             /\ cur[t] \in Tx /\ claim[cur[t]] = visible'
    <2>1. Installed(cur[t])
      BY <1>5 DEF IInv, PointerInv, PointerOK
    <2> QED
      BY <1>2, <1>3, <1>5, <2>1
  <1> QED
    BY <1>1, <1>2, <1>4, <1>5, FrontierMoves

LEMMA MarkLate ==
  ASSUME IInv, WalkInv, MarkInv, NEW t \in Tx, Elsewhere(t), LateStep(t), MarkEffect(t),
         MarkMoves(t)
  PROVE  MarkInv'
  <1> SUFFICES ASSUME NEW s \in Tx PROVE MarkOK(s)'
    BY DEF MarkInv
  <1>1. /\ MarkOK(s) /\ WalkOK(t) /\ visible \in Nat /\ claim \in [Tx -> Nat] /\ claim' = claim
        /\ finished[s] \in {"none", "marked", "counted"}
        /\ pc[t] \in Finishing /\ pc'[t] \in Finishing
    BY DEF MarkInv, WalkInv, LateStep, IInv, TypeOK
  <1>2. visible' = visible \/ visible' = visible + 1
    BY FrontierMoves
  <1>3. s # t => pc'[s] = pc[s]
    BY DEF Elsewhere
  <1>4. finished'[s] # "none" => pc'[s] \in Finishing \ Unmarked
    <2>1. CASE pc[t] = "mark" /\ s = t
      BY <1>1, <2>1 DEF MarkEffect, Unmarked
    <2>2. CASE finished[s] # "none"
      BY <1>1, <1>3, <2>2 DEF MarkOK, MarkMoves
    <2> QED
      BY <2>1, <2>2 DEF MarkEffect
  <1>5. pc'[s] = "count" => finished'[s] # "none"
    <2>1. CASE s = t /\ pc'[s] = "count"
      BY <2>1 DEF MarkMoves, MarkEffect
    <2>2. CASE s # t /\ pc'[s] = "count"
      <3>1. finished[s] # "none"
        BY <1>1, <1>3, <2>2 DEF MarkOK
      <3> QED
        BY <2>2, <3>1 DEF MarkEffect
    <2> QED
      BY <2>1, <2>2
  <1>6. pc'[s] \in Finishing \ Unmarked /\ claim'[s] > visible' => finished'[s] = "marked"
    <2> SUFFICES ASSUME pc'[s] \in Finishing \ Unmarked, claim[s] > visible'
                 PROVE  finished'[s] = "marked"
      BY <1>1
    <2>1. claim[s] > visible
      BY <1>1, <1>2
    <2>2. CASE pc[s] \in Finishing \ Unmarked
      <3>1. finished[s] = "marked"
        BY <1>1, <2>1, <2>2 DEF MarkOK
      <3>2. ~(pc[t] = "settle" /\ s = t) /\ ~(pc[t] = "passSettle" /\ s = cur[t])
        BY <1>1, <2>1 DEF WalkOK
      <3> QED
        BY <3>1, <3>2 DEF MarkEffect
    <2>3. CASE pc[s] \notin Finishing \ Unmarked
      <3>1. s = t /\ pc[t] \in Unmarked
        BY <1>1, <1>3, <2>3
      <3>2. pc[t] = "mark"
        BY <1>1, <1>2, <3>1 DEF MarkMoves
      <3> QED
        BY <3>1, <3>2 DEF MarkEffect
    <2> QED
      BY <2>2, <2>3
  <1>7. finished'[s] = "marked" /\ claim'[s] <= visible' =>
          \/ pc'[s] \in {"count", "recheck", "settle"}
          \/ \E u \in Tx : pc'[u] = "passSettle" /\ cur'[u] = s
    <2> SUFFICES ASSUME finished'[s] = "marked", claim[s] <= visible'
                 PROVE  \/ pc'[s] \in {"count", "recheck", "settle"}
                        \/ \E u \in Tx : pc'[u] = "passSettle" /\ cur'[u] = s
      BY <1>1
    <2>1. CASE pc[t] = "mark" /\ s = t
      BY <2>1 DEF MarkEffect
    <2>2. CASE ~(pc[t] = "mark" /\ s = t)
      <3>1. finished[s] = "marked"
        BY <2>2 DEF MarkEffect
      <3>2. Installed(s)
        BY <1>1, <3>1, Disjoint DEF MarkOK, Installed
      <3>3. CASE claim[s] > visible
        BY <3>1, <3>2, <3>3, MarkPassed
      <3>4. CASE claim[s] <= visible /\ pc[s] \in {"count", "recheck", "settle"}
        <4>1. CASE s = t
          BY <1>1, <3>4, <4>1 DEF MarkMoves, MarkEffect
        <4> QED
          BY <1>3, <3>4, <4>1
      <3>5. ASSUME NEW u \in Tx, pc[u] = "passSettle", cur[u] = s
            PROVE  \E v \in Tx : pc'[v] = "passSettle" /\ cur'[v] = s
        <4>1. u # t
          BY <3>5 DEF MarkEffect
        <4> QED
          BY <3>5, <4>1 DEF Elsewhere
      <3>6. claim[s] > visible \/ claim[s] <= visible
        BY <1>1
      <3> QED
        BY <1>1, <3>1, <3>3, <3>4, <3>5, <3>6 DEF MarkOK
    <2> QED
      BY <2>1, <2>2
  <1> QED
    BY <1>4, <1>5, <1>6, <1>7 DEF MarkOK

-----------------------------------------------------------------------------
(* The count of the marks.                                                 *)

LEMMA PendingEarly ==
  ASSUME IInv, MarkInv, PendingInv, NEW t \in Tx, Elsewhere(t), EarlyStep(t)
  PROVE  PendingInv'
  <1>1. finished' = finished /\ pending' = pending /\ \A s \in Tx \ {t} : pc'[s] = pc[s]
    BY DEF EarlyStep, Elsewhere
  <1>2. pc[t] \notin Finishing /\ pc'[t] \notin Finishing \ {"publish"}
    BY Disjoint DEF EarlyStep
  <1>3. finished[t] = "none"
    BY <1>2 DEF MarkInv, MarkOK
  <1>4. pc[t] \notin {"uncount", "passUncount"} /\ pc'[t] \notin {"uncount", "passUncount"}
    BY <1>2 DEF Finishing
  <1>5. Marked' = Marked /\ Overtaken' = Overtaken /\ Uncounting' = Uncounting
    BY <1>1, <1>3, <1>4 DEF Marked, Overtaken, Uncounting
  <1> QED
    BY <1>1, <1>5 DEF PendingInv

LEMMA PendingLate ==
  ASSUME IInv, WalkInv, MarkInv, PendingInv, NEW t \in Tx, Elsewhere(t), MarkEffect(t),
         MarkMoves(t)
  PROVE  PendingInv'
  <1> DEFINE m == Cardinality(Marked)
             o == Cardinality(Overtaken)
             u == Cardinality(Uncounting)
  <1>0. /\ pending \in Int /\ finished \in [Tx -> {"none", "marked", "counted"}]
        /\ MarkOK(t) /\ WalkOK(t) /\ \A s \in Tx \ {t} : pc'[s] = pc[s]
    BY DEF IInv, TypeOK, MarkInv, WalkInv, Elsewhere
  <1>1. /\ IsFiniteSet(Marked) /\ IsFiniteSet(Overtaken) /\ IsFiniteSet(Uncounting)
        /\ m \in Nat /\ o \in Nat /\ u \in Nat /\ pending = m - o + u
    BY FS_CardinalityType DEF PendingInv
  <1>2. CASE pc[t] = "count"
    <2>1. pc'[t] = "recheck" /\ pending' = pending + 1 /\ finished[t] # "none"
      BY <1>0, <1>2 DEF MarkMoves, MarkOK
    <2>2. \A s \in Tx : finished'[s] = finished[s]
      BY <1>2 DEF MarkEffect
    <2>3. Uncounting' = Uncounting
      BY <1>0, <1>2, <2>1 DEF Uncounting
    <2>4. CASE finished[t] = "marked"
      <3>1. Marked' = Marked \cup {t} /\ t \notin Marked /\ Overtaken' = Overtaken
        BY <1>0, <1>2, <2>1, <2>2, <2>4 DEF Marked, Overtaken
      <3>2. IsFiniteSet(Marked') /\ Cardinality(Marked') = m + 1
        BY <1>1, <3>1, FS_AddElement
      <3> QED
        BY <1>1, <2>1, <2>3, <3>1, <3>2 DEF PendingInv
    <2>5. CASE finished[t] = "counted"
      <3>1. Overtaken' = Overtaken \ {t} /\ t \in Overtaken /\ Marked' = Marked
        BY <1>0, <1>2, <2>1, <2>2, <2>5 DEF Marked, Overtaken
      <3>2. IsFiniteSet(Overtaken') /\ Cardinality(Overtaken') = o - 1
        BY <1>1, <3>1, FS_RemoveElement
      <3> QED
        BY <1>1, <2>1, <2>3, <3>1, <3>2 DEF PendingInv
    <2> QED
      BY <1>0, <2>1, <2>4, <2>5
  <1>3. CASE pc[t] \in {"uncount", "passUncount"}
    <2>1. /\ \A s \in Tx : finished'[s] = finished[s]
          /\ pc'[t] # "count" /\ pending' = pending - 1 /\ pc'[t] \notin {"uncount", "passUncount"}
      BY <1>0, <1>3 DEF MarkEffect, MarkMoves
    <2>2. Uncounting' = Uncounting \ {t} /\ t \in Uncounting
      BY <1>0, <1>3, <2>1 DEF Uncounting
    <2>3. Marked' = Marked /\ Overtaken' = Overtaken
      BY <1>0, <1>3, <2>1 DEF Marked, Overtaken
    <2>4. IsFiniteSet(Uncounting') /\ Cardinality(Uncounting') = u - 1
      BY <1>1, <2>2, FS_RemoveElement
    <2> QED
      BY <1>1, <2>1, <2>3, <2>4 DEF PendingInv
  <1>4. ASSUME NEW r \in Tx, finished[r] = "marked", finished'[r] = "counted",
               pc[t] \in {"settle", "passSettle"}, pc'[t] \in {"uncount", "passUncount"},
               \A s \in Tx \ {r} : finished'[s] = finished[s],
               pc[r] = "count" => r # t
        PROVE  PendingInv'
    <2>1. pending' = pending /\ (pc'[r] = "count" <=> pc[r] = "count")
      BY <1>0, <1>4 DEF MarkMoves
    <2>2. Uncounting' = Uncounting \cup {t} /\ t \notin Uncounting
      BY <1>0, <1>4 DEF Uncounting
    <2>3. IsFiniteSet(Uncounting') /\ Cardinality(Uncounting') = u + 1
      BY <1>1, <2>2, FS_AddElement
    <2>4. CASE pc[r] = "count"
      <3>1. Overtaken' = Overtaken \cup {r} /\ r \notin Overtaken /\ Marked' = Marked
        BY <1>0, <1>4, <2>1, <2>4 DEF Marked, Overtaken
      <3>2. IsFiniteSet(Overtaken') /\ Cardinality(Overtaken') = o + 1
        BY <1>1, <3>1, FS_AddElement
      <3> QED
        BY <1>1, <2>1, <2>3, <3>1, <3>2 DEF PendingInv
    <2>5. CASE pc[r] # "count"
      <3>1. Marked' = Marked \ {r} /\ r \in Marked /\ Overtaken' = Overtaken
        BY <1>0, <1>4, <2>1, <2>5 DEF Marked, Overtaken
      <3>2. IsFiniteSet(Marked') /\ Cardinality(Marked') = m - 1
        BY <1>1, <3>1, FS_RemoveElement
      <3> QED
        BY <1>1, <2>1, <2>3, <3>1, <3>2 DEF PendingInv
    <2> QED
      BY <2>4, <2>5
  <1>5. CASE /\ pc[t] \notin {"count", "uncount", "passUncount"}
             /\ pc'[t] \notin {"uncount", "passUncount"}
    <2>1. pending' = pending
      BY <1>5 DEF MarkMoves
    <2>2. Uncounting' = Uncounting
      BY <1>0, <1>5 DEF Uncounting
    <2>3. CASE pc[t] # "mark"
      <3>1. (\A s \in Tx : finished'[s] = finished[s]) /\ pc'[t] # "count"
        BY <1>5, <2>3 DEF MarkEffect, MarkMoves
      <3>2. Marked' = Marked /\ Overtaken' = Overtaken
        BY <1>0, <1>5, <3>1 DEF Marked, Overtaken
      <3> QED
        BY <1>1, <2>1, <2>2, <3>2 DEF PendingInv
    <2>4. CASE pc[t] = "mark"
      <3>1. /\ \A s \in Tx \ {t} : finished'[s] = finished[s]
            /\ finished[t] = "none" /\ finished'[t] = "marked" /\ pc'[t] = "count"
        BY <2>4 DEF MarkEffect
      <3>2. Marked' = Marked /\ Overtaken' = Overtaken
        BY <1>0, <3>1 DEF Marked, Overtaken
      <3> QED
        BY <1>1, <2>1, <2>2, <3>2 DEF PendingInv
    <2> QED
      BY <2>3, <2>4
  <1>6. CASE pc'[t] \in {"uncount", "passUncount"}
    <2>1. CASE pc'[t] = "uncount"
      <3>1. /\ pc[t] = "settle" /\ finished[t] = "marked" /\ finished'[t] # "marked"
            /\ \A s \in Tx \ {t} : finished'[s] = finished[s]
        BY <2>1 DEF MarkEffect
      <3>2. finished'[t] = "counted"
        BY <3>1 DEF MarkEffect
      <3> QED
        BY <1>4, <2>1, <3>1, <3>2
    <2>2. CASE pc'[t] = "passUncount"
      <3>1. /\ pc[t] = "passSettle" /\ finished[cur[t]] = "marked" /\ finished'[cur[t]] # "marked"
            /\ \A s \in Tx \ {cur[t]} : finished'[s] = finished[s]
        BY <2>2 DEF MarkEffect
      <3>2. cur[t] \in Tx
        BY <1>0, <3>1 DEF WalkOK, IInv, TypeOK
      <3>3. finished'[cur[t]] = "counted"
        BY <3>1, <3>2 DEF MarkEffect
      <3> QED
        BY <1>4, <2>2, <3>1, <3>2, <3>3
    <2> QED
      BY <1>6, <2>1, <2>2
  <1> QED
    BY <1>2, <1>3, <1>5, <1>6

-----------------------------------------------------------------------------
(* The record after the frontier has somebody who comes to it.             *)

LEMMA CarryEarly ==
  ASSUME IInv, MarkInv, CarryInv, NEW t \in Tx, Elsewhere(t), EarlyStep(t)
  PROVE  CarryInv'
  <1>1. finished' = finished /\ visible' = visible /\ f' = f
    BY DEF EarlyStep
  <1>2. pc[t] \notin Finishing
    BY Disjoint DEF EarlyStep
  <1>3. finished[t] = "none"
    BY <1>2 DEF MarkInv, MarkOK
  <1>4. SUFFICES ASSUME NEW r \in Tx, Installed(r)', claim'[r] = visible + 1,
                        finished[r] = "marked"
                 PROVE  \E u \in Tx : Comes(u)'
    BY <1>1 DEF CarryInv
  <1>5. r # t /\ Installed(r) /\ claim[r] = visible + 1
    BY <1>3, <1>4 DEF Elsewhere, Installed
  <1>6. PICK u \in Tx : Comes(u)
    BY <1>4, <1>5 DEF CarryInv
  <1>7. u # t
    BY <1>2, <1>6 DEF Comes, Returning, Finishing
  <1> QED
    BY <1>1, <1>6, <1>7 DEF Comes, Elsewhere

\* Whoever finds nothing pending leaves somebody behind who is about to count.
LEMMA PendingSeen ==
  ASSUME PendingInv, pending = 0, NEW r \in Tx, finished[r] = "marked"
  PROVE  \E u \in Tx : pc[u] = "count"
  <1>1. /\ IsFiniteSet(Marked) /\ IsFiniteSet(Overtaken) /\ IsFiniteSet(Uncounting)
        /\ Cardinality(Marked) \in Nat /\ Cardinality(Overtaken) \in Nat
        /\ Cardinality(Uncounting) \in Nat
    BY FS_CardinalityType DEF PendingInv
  <1>2. SUFFICES ASSUME \A u \in Tx : pc[u] # "count" PROVE FALSE
    OBVIOUS
  <1>3. Overtaken = {} /\ Marked # {}
    BY <1>2 DEF Overtaken, Marked
  <1>4. Cardinality(Overtaken) = 0 /\ Cardinality(Marked) # 0
    BY <1>1, <1>3, FS_EmptySet
  <1> QED
    BY <1>1, <1>4 DEF PendingInv

\* Whoever comes to the record after the frontier goes on doing so until it is
\* there, unless somebody else has taken over.
LEMMA ComesOn ==
  ASSUME SInv, NEW t \in Tx, Publishing(t) \/ Advancing(t), visible' = visible, Comes(t),
         NEW r \in Tx, Installed(r), claim[r] = visible + 1, finished[r] = "marked"
  PROVE  Comes(t)' \/ \E u \in Tx \ {t} : pc[u] = "count"
  <1>0. /\ TypeOK /\ IInv /\ visible \in Nat /\ claim \in [Tx -> Nat] /\ WalkOK(t)
        /\ f \in [Tx -> Nat] /\ pc \in [Tx -> Claiming \cup Owning \cup Finishing]
    BY DEF SInv, IInv, TypeOK, WalkInv
  <1>a. CASE CheckPending(t)
    <2>1. pc[t] = "pending" /\ (pc'[t] = "advance" \/ pending = 0)
      BY <1>0, <1>a DEF CheckPending, Continue, At, Goto
    <2>2. CASE pending = 0
      BY <2>1, <2>2, PendingSeen DEF SInv
    <2> QED
      BY <2>1, <2>2 DEF Comes, Returning
  <1>b. CASE SeekNext(t)
    <2>1. pc[t] = "seekNext" /\ f[t] = visible
      BY <1>b DEF SeekNext, At, Comes, Returning
    <2>2. cur[t] # NoTx => claim[cur[t]] > claim[r] /\ SameSlot(cur[t], r)
      BY <1>0, <2>1 DEF WalkOK, SameSlot
    <2>3. Reaches(t, f[t] + 1)
      <3>1. claim[r] > visible /\ claim[r] = f[t] + 1
        BY <1>0, <2>1
      <3> QED
        BY <1>0, <2>2, <3>1, SearchReaches DEF SInv
    <2>4. Found(t, f[t] + 1, "examine")
      BY <1>b, <2>3 DEF SeekNext
    <2>5. pc'[t] \in {"seekNext", "examine"} /\ f' = f
      BY <1>0, <2>1, <2>4 DEF Found, Goto
    <2> QED
      BY <2>1, <2>5 DEF Comes
  <1>c. CASE Examine(t)
    <2>1. pc[t] = "examine" /\ f[t] = visible
      BY <1>c DEF Examine, At, Comes, Returning
    <2>2. cur[t] \in Tx /\ Installed(cur[t]) /\ claim[cur[t]] = visible + 1
      BY <1>0, <2>1 DEF IInv, TypeOK, CursorInv, CursorOK, PointerInv, PointerOK
    <2>3. cur[t] = r
      BY <1>0, <2>2 DEF IInv, OneOwner
    <2>4. pc'[t] = "raise"
      BY <1>0, <1>c, <2>3 DEF Examine, Continue, Goto
    <2> QED
      BY <2>4 DEF Comes, Returning
  <1> USE <1>0 DEF Comes, Returning, At, Goto
  <1>1. CASE PublishBlocked(t)
    BY <1>1 DEF PublishBlocked
  <1>2. CASE Unlink(t)
    BY <1>2 DEF Unlink, ClearLink
  <1>3. CASE Unlinked(t)
    BY <1>3 DEF Unlinked, CountLink
  <1>4. CASE CheckLate(t)
    BY <1>4 DEF CheckLate, Continue
  <1>5. CASE SeekMark(t)
    BY <1>5 DEF SeekMark, Found, NotFound
  <1>6. CASE Mark(t)
    BY <1>6 DEF Mark
  <1>7. CASE Count(t)
    BY <1>7 DEF Count
  <1>8. CASE Recheck(t)
    BY <1>8 DEF Recheck, Continue
  <1>9. CASE Settle(t)
    BY <1>9 DEF Settle, SettleRec
  <1>10. CASE Uncount(t)
    BY <1>10 DEF Uncount, CountOut
  <1>11. CASE Advance(t)
    BY <1>11 DEF Advance
  <1>12. CASE PublishInOrder(t)
    BY <1>12 DEF PublishInOrder
  <1>13. CASE CheckLinked(t)
    BY <1>13 DEF CheckLinked
  <1>14. CASE SeekOwn(t)
    BY <1>14 DEF SeekOwn, Found, NotFound
  <1>15. CASE CheckReady(t)
    BY <1>15 DEF CheckReady, Continue, Return
  <1>16. CASE HelpStamp(t)
    BY <1>16 DEF HelpStamp
  <1>17. CASE Raise(t)
    BY <1>17 DEF Raise
  <1>18. CASE RaiseLost(t)
    BY <1>18 DEF RaiseLost
  <1>19. CASE PassSettle(t)
    BY <1>19 DEF PassSettle, SettleRec
  <1>20. CASE PassUncount(t)
    BY <1>20 DEF PassUncount, CountOut
  <1>21. CASE PassUnlink(t)
    BY <1>21 DEF PassUnlink, ClearLink
  <1>22. CASE PassDrop(t)
    BY <1>22 DEF PassDrop, CountLink
  <1>23. CASE CheckWaiters(t)
    BY <1>23 DEF CheckWaiters, Continue
  <1>24. CASE WakeWaiters(t)
    BY <1>24 DEF WakeWaiters
  <1> HIDE DEF Comes
  <1> QED
    BY <1>a, <1>b, <1>c, <1>1, <1>2, <1>3, <1>4, <1>5, <1>6, <1>7, <1>8, <1>9, <1>10, <1>11, <1>12, <1>13, <1>14,
       <1>15, <1>16, <1>17, <1>18, <1>19, <1>20, <1>21, <1>22, <1>23, <1>24
       DEF Publishing, Advancing

LEMMA CarryLate ==
  ASSUME SInv, NEW t \in Tx, Publishing(t) \/ Advancing(t)
  PROVE  CarryInv'
  <1>0. /\ IInv /\ TypeOK /\ ChainInv /\ WalkInv /\ visible \in Nat /\ claim \in [Tx -> Nat]
    BY DEF SInv, IInv, TypeOK
  <1>1. Elsewhere(t) /\ LateStep(t) /\ MarkEffect(t) /\ MarkMoves(t)
    BY <1>0, LateSteps, MarkSteps
  <1>2. claim' = claim /\ \A s \in Tx : Installed(s)' <=> Installed(s)
    BY <1>1, LateInstalled DEF LateStep
  <1>3. SUFFICES ASSUME NEW r \in Tx, Installed(r), claim[r] = visible' + 1,
                        finished'[r] = "marked"
                 PROVE  \E u \in Tx : Comes(u)'
    BY <1>2 DEF CarryInv
  <1>4. CASE visible' # visible
    <2>1. pc'[t] \in {"pending", "passSettle"}
      BY <1>0, <1>1, <1>4, FrontierMoves
    <2> QED
      BY <2>1 DEF Comes, Returning
  <1>5. CASE pc[t] = "mark"
    <2>1. pc'[t] = "count"
      BY <1>1, <1>5 DEF MarkEffect
    <2> QED
      BY <2>1 DEF Comes, Returning
  <1>6. CASE visible' = visible /\ pc[t] # "mark"
    <2>1. finished[r] = "marked"
      BY <1>1, <1>3, <1>6 DEF MarkEffect
    <2>2. PICK u \in Tx : Comes(u)
      BY <1>3, <1>6, <2>1 DEF SInv, CarryInv
    <2>3. \A s \in Tx \ {t} : Comes(s) => Comes(s)'
      BY <1>1, <1>6 DEF Elsewhere, Comes
    <2>4. \A s \in Tx : pc[s] = "count" => Comes(s)
      BY DEF Comes, Returning
    <2>5. CASE u = t
      BY <1>3, <1>6, <2>1, <2>2, <2>3, <2>4, <2>5, ComesOn
    <2> QED
      BY <2>2, <2>3, <2>5
  <1> QED
    BY <1>4, <1>5, <1>6

-----------------------------------------------------------------------------
(* The invariant.                                                          *)

LEMMA TxSettles ==
  ASSUME SInv, NEW t \in Tx, TxStep(t), IInv'
  PROVE  SInv'
  <1>0. /\ IInv /\ TypeOK /\ Dense /\ LinkInv /\ ChainInv /\ WalkInv /\ MarkInv
        /\ PendingInv /\ CarryInv
    BY DEF SInv, IInv
  <1>1. Dense' /\ LinkInv' /\ ChainInv' /\ WalkInv'
    BY <1>0, DenseStep, LinkStep, ChainStep, WalkStep
  <1>2. CASE Allocating(t) \/ Committing(t)
    <2>1. Elsewhere(t) /\ EarlyStep(t)
      BY <1>0, <1>2, EarlySteps
    <2>2. MarkInv' /\ PendingInv' /\ CarryInv'
      BY <1>0, <2>1, MarkEarly, PendingEarly, CarryEarly
    <2> QED
      BY <1>1, <2>2 DEF SInv
  <1>3. CASE Publishing(t) \/ Advancing(t)
    <2>1. Elsewhere(t) /\ LateStep(t) /\ MarkEffect(t) /\ MarkMoves(t)
      BY <1>0, <1>3, LateSteps, MarkSteps
    <2>2. MarkInv' /\ PendingInv' /\ CarryInv'
      BY <1>0, <1>3, <2>1, MarkLate, PendingLate, CarryLate
    <2> QED
      BY <1>1, <2>2 DEF SInv
  <1> QED
    BY <1>2, <1>3 DEF TxStep

\* Where no publication runs, every timestamp is visible and nothing pending.
LEMMA SettledWhenQuiet ==
  ASSUME SInv, Quiet
  PROVE  /\ visible = commit /\ pending = 0
         /\ \A t \in Tx : Installed(t) => claim[t] <= visible
  <1>0. /\ visible \in Nat /\ commit \in Nat /\ visible <= commit /\ claim \in [Tx -> Nat]
        /\ finished \in [Tx -> {"none", "marked", "counted"}]
    BY DEF SInv, IInv, TypeOK, FrontierAllocated
  <1>1. \A t \in Tx : ~Comes(t) /\ pc[t] \in {"idle", "done"}
    BY DEF Quiet, Comes, Returning
  <1>2. \A t \in Tx : MarkOK(t) /\ ClaimOK(t)
    BY DEF SInv, MarkInv, IInv, ClaimInv
  <1>3. visible = commit
    <2> SUFFICES ASSUME visible # commit PROVE FALSE
      OBVIOUS
    <2>1. PICK r \in Tx : Installed(r) /\ claim[r] = visible + 1
      BY <1>0 DEF SInv, Dense
    <2>2. pc[r] = "done"
      BY <1>1, <2>1 DEF Installed, Claiming
    <2>3. finished[r] = "marked"
      BY <1>0, <1>2, <2>1, <2>2 DEF MarkOK, Finishing, Unmarked
    <2> QED
      BY <1>1, <2>1, <2>3 DEF SInv, CarryInv
  <1>4. \A t \in Tx : Installed(t) => claim[t] <= visible
    BY <1>1, <1>2, <1>3 DEF Installed, Claiming, ClaimOK, Finishing
  <1>5. pending = 0
    <2>1. \A t \in Tx : finished[t] # "marked"
      BY <1>1, <1>2, <1>4, Disjoint DEF MarkOK, Installed
    <2>2. Marked = {} /\ Overtaken = {} /\ Uncounting = {}
      BY <1>1, <2>1 DEF Marked, Overtaken, Uncounting
    <2> QED
      BY <2>2, FS_EmptySet DEF SInv, PendingInv
  <1> QED
    BY <1>3, <1>4, <1>5

LEMMA RatchetSettles ==
  ASSUME SInv, NEW n \in 1 .. MaxFloor, RatchetTo(n), IInv'
  PROVE  SInv'
  <1>0. visible \in Nat /\ commit \in Nat /\ claim \in [Tx -> Nat] /\ f \in [Tx -> Nat]
    BY DEF SInv, IInv, TypeOK
  <1>1. Quiet
    BY DEF RatchetTo, Quiet
  <1>2. visible = commit /\ \A t \in Tx : Installed(t) => claim[t] <= visible
    BY <1>1, SettledWhenQuiet
  <1>3. /\ commit' = n /\ visible' = n /\ visible < n
        /\ UNCHANGED <<slots, pending, linked, claim, stamp, ready, finished, older, kind, head,
                       cur, f, mode, moved, pc>>
    BY <1>0, <1>2 DEF RatchetTo, records, locals
  <1>4. \A t \in Tx : pc[t] \in {"idle", "done"} /\ (Installed(t)' <=> Installed(t))
    BY <1>1, <1>3 DEF Quiet, Installed
  <1>5. Dense'
    BY <1>3 DEF Dense
  <1>6. LinkInv' /\ ChainInv'
    <2>1. LinkInv'
      BY <1>3, <1>4 DEF SInv, LinkInv, LinkOK, SameSlot, Slot
    <2>2. ChainInv'
      BY <1>0, <1>2, <1>3, <1>4 DEF ChainInv
    <2> QED
      BY <2>1, <2>2
  <1>7. WalkInv'
    BY <1>0, <1>3, <1>4 DEF SInv, WalkInv, WalkOK, Using, Walking
  <1>8. MarkInv'
    <2>1. \A t \in Tx : finished[t] = "marked" => claim[t] <= visible
      BY <1>2, Disjoint DEF SInv, MarkInv, MarkOK, Installed
    <2> QED
      BY <1>0, <1>2, <1>3, <1>4, <2>1 DEF SInv, MarkInv, MarkOK, Finishing, Installed, Claiming
  <1>9. PendingInv'
    <2>1. Marked' = Marked /\ Overtaken' = Overtaken /\ Uncounting' = Uncounting
      BY <1>3 DEF Marked, Overtaken, Uncounting
    <2> QED
      BY <1>3, <2>1 DEF SInv, PendingInv
  <1>10. CarryInv'
    BY <1>0, <1>2, <1>3, <1>4 DEF CarryInv
  <1> QED
    BY <1>5, <1>6, <1>7, <1>8, <1>9, <1>10 DEF SInv

LEMMA IdleSettles ==
  ASSUME SInv, UNCHANGED <<counters, records, locals, pc>>, IInv'
  PROVE  SInv'
  <1>1. UNCHANGED <<commit, visible, pending, claim, finished, older, head, cur, f, mode, pc>>
    BY DEF counters, records, locals
  <1>2. Dense' /\ LinkInv' /\ ChainInv'
    BY <1>1 DEF SInv, Dense, LinkInv, LinkOK, ChainInv, SameSlot, Slot, Installed
  <1>3. WalkInv' /\ MarkInv' /\ CarryInv'
    BY <1>1 DEF SInv, WalkInv, WalkOK, MarkInv, MarkOK, CarryInv, Comes, SameSlot, Slot,
                Installed
  <1>4. Marked' = Marked /\ Overtaken' = Overtaken /\ Uncounting' = Uncounting
    BY <1>1 DEF Marked, Overtaken, Uncounting
  <1> QED
    BY <1>1, <1>2, <1>3, <1>4 DEF SInv, PendingInv

LEMMA InitSettled == Init => SInv
  <1> SUFFICES ASSUME Init PROVE SInv
    OBVIOUS
  <1>1. IInv
    BY InitIInv
  <1>2. Dense /\ ChainInv /\ CarryInv
    BY DEF Init, Dense, ChainInv, CarryInv, Installed, Claiming
  <1>3. LinkInv /\ WalkInv /\ MarkInv
    BY DEF Init, LinkInv, LinkOK, WalkInv, WalkOK, MarkInv, MarkOK, Walking, Finishing
  <1>4. PendingInv
    <2>1. Marked = {} /\ Overtaken = {} /\ Uncounting = {}
      BY DEF Init, Marked, Overtaken, Uncounting
    <2> QED
      BY <2>1, FS_EmptySet DEF Init, PendingInv
  <1> QED
    BY <1>1, <1>2, <1>3, <1>4 DEF SInv

LEMMA NextSettled == SInv /\ [Next]_vars => SInv'
  <1> SUFFICES ASSUME SInv, [Next]_vars PROVE SInv'
    OBVIOUS
  <1>1. IInv'
    BY NextIInv DEF SInv
  <1>2. CASE UNCHANGED vars
    BY <1>1, <1>2, IdleSettles DEF vars
  <1>3. CASE Stopped
    BY <1>1, <1>3, IdleSettles DEF Stopped, vars
  <1>4. CASE \E t \in Tx : TxStep(t)
    BY <1>1, <1>4, TxSettles
  <1>5. CASE \E w \in Waiters : Await(w) \/ Awaiting(w) \/ AwaitCancel(w)
    BY <1>1, <1>5, WaitersIdle, IdleSettles
  <1>6. CASE \E n \in 1 .. MaxFloor : RatchetTo(n)
    BY <1>1, <1>6, RatchetSettles
  <1> QED
    BY <1>2, <1>3, <1>4, <1>5, <1>6 DEF Next

\* What the publications keep between them: the marks, their count, the chains
\* and somebody for the record after the frontier.
THEOREM SettledInvariance == Spec => []SInv
  BY InitSettled, NextSettled, PTL DEF Spec

\* The pairings of finishCommitTS lose nothing: when no publication is running,
\* every allocated timestamp is visible and commitRegistry.pending is zero.
THEOREM Settled == Spec => []QuietSettled
  <1>1. SInv => QuietSettled
    BY SettledWhenQuiet DEF QuietSettled
  <1> QED
    BY <1>1, SettledInvariance, PTL

-----------------------------------------------------------------------------
(* What a search can come to.                                              *)

LEMMA LeastClaim ==
  ASSUME NEW S, S \subseteq Nat, S # {}
  PROVE  \E n \in S : \A k \in S : n <= k
  <1> DEFINE R == {ss \in Nat \X Nat : ss[1] < ss[2]}
  <1>1. IsWellFoundedOn(R, Nat)
    BY NatLessThanWellFounded, Zenon DEF OpToRel
  <1> HIDE DEF R
  <1>2. PICK n \in S : \A k \in S : ~(<<k, n>> \in R)
    BY <1>1, WFMin
  <1>3. \A k \in S : n <= k
    <2> TAKE k \in S
    <2>1. <<k, n>> \in R <=> k < n
      BY DEF R
    <2> QED
      BY <1>2, <2>1
  <1> QED
    BY <1>3

\* The oldest record above t that a chain holds leads to t itself.
LEMMA ChainComplete ==
  ASSUME SInv, NEW t \in Tx, Installed(t), claim[t] > visible
  PROVE  t \in Chain(Slot(claim[t]))
  <1>0. IInv /\ visible \in Nat /\ claim \in [Tx -> Nat] /\ older \in [Tx -> Tx \cup {NoTx}]
    BY DEF SInv, IInv, TypeOK
  <1> DEFINE i == Slot(claim[t])
  <1>1. SUFFICES ASSUME NEW S \in SUBSET Tx, slots[i] # NoTx => slots[i] \in S,
                        \A x \in S : older[x] # NoTx => older[x] \in S, t \notin S
                 PROVE  FALSE
    BY DEF Chain
  <1> DEFINE Above == {x \in S : Installed(x) /\ SameSlot(x, t) /\ claim[x] > claim[t]}
             C == {claim[x] : x \in Above}
  <1>2. slots[i] \in Above
    <2>1. slots[i] \in Tx /\ Installed(slots[i]) /\ claim[slots[i]] >= claim[t]
      BY <1>0, HeadNewest
    <2>2. slots[i] \in S /\ slots[i] # t
      BY <1>1, <2>1
    <2>3. claim[slots[i]] > claim[t]
      BY <1>0, <2>1, <2>2 DEF IInv, OneOwner
    <2>4. Slot(claim[slots[i]]) = i
      BY <1>0, <2>1, SlotType DEF IInv, SlotInv
    <2> QED
      BY <2>1, <2>2, <2>3, <2>4 DEF SameSlot
  <1>3. PICK x \in Above : \A y \in Above : claim[x] <= claim[y]
    <2>1. C \subseteq Nat /\ C # {}
      BY <1>0, <1>2
    <2>2. PICK n \in C : \A k \in C : n <= k
      BY <2>1, LeastClaim
    <2> QED
      BY <2>2
  <1>4. x \in Tx /\ Installed(x) /\ SameSlot(x, t) /\ claim[t] < claim[x] /\ x \in S
    BY <1>0, <1>3
  <1>5. older[x] # NoTx /\ claim[t] <= claim[older[x]]
    BY <1>4 DEF SInv, ChainInv
  <1>6. /\ older[x] \in Tx /\ older[x] \in S /\ Installed(older[x])
        /\ claim[older[x]] < claim[x] /\ SameSlot(older[x], x)
    BY <1>0, <1>1, <1>4, <1>5 DEF SInv, LinkInv, LinkOK, IInv, PointerInv, PointerOK
  <1>7. older[x] # t
    BY <1>1, <1>6
  <1>8. claim[t] < claim[older[x]]
    BY <1>0, <1>5, <1>6, <1>7 DEF IInv, OneOwner
  <1>9. older[x] \in Above
    BY <1>4, <1>6, <1>8 DEF SameSlot
  <1> QED
    BY <1>0, <1>3, <1>4, <1>6, <1>9

\* A record the frontier has not passed is on the chain of its slot: the laps
\* of the registry displace it and never hide it from find.
THEOREM Findable == Spec => []UnpassedFindable
  <1>1. SInv => UnpassedFindable
    BY ChainComplete DEF UnpassedFindable
  <1> QED
    BY <1>1, SettledInvariance, PTL

-----------------------------------------------------------------------------
(* The waiters.                                                            *)

\* What a step of a transaction leaves of the waiters.
LEMMA WaitersFrame ==
  ASSUME NEW t \in Tx, TxStep(t)
  PROVE  /\ UNCHANGED <<waiters, wpc, floor, ch>>
         /\ gate' = IF pc[t] = "wake" THEN gate + 1 ELSE gate
  <1> USE DEF waiting, At, Continue
  <1>1. CASE Allocating(t)
    BY <1>1 DEF Allocating, AllocateFor, ClaimLoad, ClaimTaken, ClaimHead, ClaimAssist, ClaimLink,
                ClaimFresh, ClaimInstall, ClaimLost, ClaimCounter
  <1>2. CASE Committing(t)
    BY <1>2 DEF Committing, MarkReady, Abort, Commit
  <1>3. CASE Publishing(t)
    BY <1>3 DEF Publishing, PublishInOrder, PublishBlocked, CheckPending, CheckLinked, SeekOwn,
                Unlink, Unlinked, CheckLate, SeekMark, Mark, Count, Recheck, Settle, Uncount,
                Found, NotFound, ClearLink, CountLink, SettleRec, CountOut
  <1>4. CASE Advancing(t)
    BY <1>4 DEF Advancing, Advance, SeekNext, Examine, CheckReady, HelpStamp, Raise, RaiseLost,
                PassSettle, PassUncount, PassUnlink, PassDrop, CheckWaiters, WakeWaiters, Found,
                Return, ClearLink, CountLink, SettleRec, CountOut
  <1> QED
    BY <1>1, <1>2, <1>3, <1>4 DEF TxStep

\* Whoever comes to wakeWaiters gets there, and wakes unless nobody is
\* registered.
LEMMA WakesOn ==
  ASSUME IInv, WaitInv, NEW t \in Tx, Publishing(t) \/ Advancing(t), Wakes(t)
  PROVE  Wakes(t)' \/ pc[t] = "wake" \/ (pc[t] = "waiters" /\ ~(waiters > 0))
  <1>0. /\ pc \in [Tx -> Claiming \cup Owning \cup Finishing] /\ moved \in [Tx -> BOOLEAN]
        /\ mode \in [Tx -> {"inorder", "late", "help"}]
        /\ pc[t] = "pending" => mode[t] = "inorder"
    BY DEF IInv, TypeOK, WaitInv
  <1> USE <1>0 DEF Wakes, Walking, At, Goto
  <1>1. CASE CheckPending(t)
    BY <1>1 DEF CheckPending, Continue, locals
  <1>2. CASE PublishBlocked(t)
    BY <1>2 DEF PublishBlocked
  <1>3. CASE Unlink(t)
    BY <1>3 DEF Unlink, ClearLink
  <1>4. CASE Unlinked(t)
    BY <1>4 DEF Unlinked, CountLink, locals
  <1>5. CASE CheckLate(t)
    BY <1>5 DEF CheckLate, Continue, locals
  <1>6. CASE SeekMark(t)
    BY <1>6 DEF SeekMark, Found, NotFound
  <1>7. CASE Mark(t)
    BY <1>7 DEF Mark
  <1>8. CASE Count(t)
    BY <1>8 DEF Count
  <1>9. CASE Recheck(t)
    BY <1>9 DEF Recheck, Continue, locals
  <1>10. CASE Settle(t)
    BY <1>10 DEF Settle, SettleRec, locals
  <1>11. CASE Uncount(t)
    BY <1>11 DEF Uncount, CountOut, locals
  <1>12. CASE Advance(t)
    BY <1>12 DEF Advance
  <1>13. CASE PublishInOrder(t)
    BY <1>13 DEF PublishInOrder
  <1>14. CASE CheckLinked(t)
    BY <1>14 DEF CheckLinked
  <1>15. CASE SeekOwn(t)
    BY <1>15 DEF SeekOwn, Found, NotFound
  <1>16. CASE SeekNext(t)
    BY <1>16 DEF SeekNext, Found, Return
  <1>17. CASE Examine(t)
    BY <1>17 DEF Examine, Continue, Return, locals
  <1>18. CASE CheckReady(t)
    BY <1>18 DEF CheckReady, Continue, Return, locals
  <1>19. CASE HelpStamp(t)
    BY <1>19 DEF HelpStamp, locals
  <1>20. CASE Raise(t)
    BY <1>20 DEF Raise
  <1>21. CASE RaiseLost(t)
    BY <1>21 DEF RaiseLost
  <1>22. CASE PassSettle(t)
    BY <1>22 DEF PassSettle, SettleRec, locals
  <1>23. CASE PassUncount(t)
    BY <1>23 DEF PassUncount, CountOut, locals
  <1>24. CASE PassUnlink(t)
    BY <1>24 DEF PassUnlink, ClearLink
  <1>25. CASE PassDrop(t)
    BY <1>25 DEF PassDrop, CountLink, locals
  <1>26. CASE CheckWaiters(t)
    BY <1>26 DEF CheckWaiters, Continue, locals
  <1>27. CASE WakeWaiters(t)
    BY <1>27 DEF WakeWaiters, locals
  <1> HIDE DEF Wakes
  <1> QED
    BY <1>1, <1>2, <1>3, <1>4, <1>5, <1>6, <1>7, <1>8, <1>9, <1>10, <1>11, <1>12, <1>13, <1>14,
       <1>15, <1>16, <1>17, <1>18, <1>19, <1>20, <1>21, <1>22, <1>23, <1>24, <1>25,
       <1>26, <1>27
       DEF Publishing, Advancing

LEMMA PendingInOrder ==
  ASSUME TypeOK, NEW t \in Tx, Publishing(t) \/ Advancing(t), pc'[t] = "pending"
  PROVE  mode'[t] = "inorder"
  <1>1. CASE PublishInOrder(t)
    BY <1>1 DEF PublishInOrder, TypeOK
  <1>2. CASE ~PublishInOrder(t)
    <2>1. pc'[t] # "pending"
      <3> USE DEF TypeOK, At, Goto, Continue
      <3>1. CASE Publishing(t)
        BY <1>2, <3>1
           DEF Publishing, PublishBlocked, CheckPending, CheckLinked, SeekOwn, Unlink, Unlinked,
               CheckLate, SeekMark, Mark, Count, Recheck, Settle, Uncount, Found, NotFound,
               ClearLink, CountLink, SettleRec, CountOut
      <3>2. CASE Advancing(t)
        BY <3>2
           DEF Advancing, Advance, SeekNext, Examine, CheckReady, HelpStamp, Raise, RaiseLost,
               PassSettle, PassUncount, PassUnlink, PassDrop, CheckWaiters, WakeWaiters, Found,
               Return, ClearLink, CountLink, SettleRec, CountOut
      <3> QED
        BY <3>1, <3>2
    <2> QED
      BY <2>1
  <1> QED
    BY <1>1, <1>2

LEMMA RaiseMoves ==
  ASSUME TypeOK, NEW t \in Tx, Publishing(t) \/ Advancing(t), pc[t] = "raise",
         visible' # visible
  PROVE  pc'[t] \in Walking /\ (mode'[t] = "inorder" \/ moved'[t])
  <1>1. Raise(t)
    BY DEF Publishing, PublishInOrder, PublishBlocked, CheckPending, CheckLinked, SeekOwn,
           Unlink, Unlinked, CheckLate, SeekMark, Mark, Count, Recheck, Settle, Uncount,
           Advancing, Advance, SeekNext, Examine, CheckReady, HelpStamp, RaiseLost, PassSettle,
           PassUncount, PassUnlink, PassDrop, CheckWaiters, WakeWaiters, At, counters
  <1> QED
    BY <1>1 DEF Raise, Goto, TypeOK, Walking

\* A step of a transaction keeps the waiters in sight of somebody who wakes them.
LEMMA TxWaits ==
  ASSUME SInv, WaitInv, NEW t \in Tx, TxStep(t), SInv'
  PROVE  WaitInv'
  <1>0. /\ IInv /\ TypeOK /\ commit \in Nat /\ visible \in Nat /\ gate \in Nat
        /\ waiters \in Int /\ ch \in [Waiters -> Nat] /\ floor \in [Waiters -> Nat]
        /\ mode \in [Tx -> {"inorder", "late", "help"}] /\ moved \in [Tx -> BOOLEAN]
        /\ pc \in [Tx -> Claiming \cup Owning \cup Finishing]
    BY DEF SInv, IInv, TypeOK
  <1>1. /\ UNCHANGED <<waiters, wpc, floor, ch>>
        /\ gate' = IF pc[t] = "wake" THEN gate + 1 ELSE gate
    BY WaitersFrame
  <1>2. Registered' = Registered
    BY <1>1 DEF Registered
  <1>3. CASE Allocating(t) \/ Committing(t)
    <2>1. Elsewhere(t) /\ EarlyStep(t)
      BY <1>0, <1>3, EarlySteps
    <2>2. commit' = commit \/ commit' = commit + 1
      BY <1>0, <1>3, CounterMoves
    <2>3. visible' = visible /\ mode' = mode /\ moved' = moved
      BY <2>1 DEF EarlyStep
    <2>4. pc[t] # "wake" /\ ~Wakes(t) /\ pc'[t] # "pending"
      BY <2>1 DEF EarlyStep, Claiming, Owning, Wakes, Walking
    <2>5. \A u \in Tx : Wakes(u) => Wakes(u)'
      BY <2>1, <2>3, <2>4 DEF Elsewhere, Wakes
    <2>6. \A s \in Tx : pc'[s] = "pending" => mode'[s] = "inorder"
      BY <2>1, <2>3, <2>4 DEF Elsewhere, WaitInv
    <2> QED
      BY <1>0, <1>1, <1>2, <2>2, <2>3, <2>4, <2>5, <2>6 DEF WaitInv
  <1>4. CASE Publishing(t) \/ Advancing(t)
    <2>1. Elsewhere(t) /\ LateStep(t)
      BY <1>0, <1>4, LateSteps
    <2>2. commit' = commit
      BY <2>1 DEF LateStep
    <2>3. \A s \in Tx : pc'[s] = "pending" => mode'[s] = "inorder"
      <3>1. pc'[t] = "pending" => mode'[t] = "inorder"
        BY <1>0, <1>4, <2>1, PendingInOrder
      <3> QED
        BY <2>1, <3>1 DEF Elsewhere, WaitInv
    <2>4. ASSUME NEW w \in Waiters, wpc[w] = "blocked", ch[w] = gate', floor[w] <= visible'
          PROVE  \E u \in Tx : Wakes(u)'
      <3>1. pc[t] # "wake" /\ ch[w] = gate
        BY <1>0, <1>1, <2>4 DEF WaitInv
      <3>2. CASE visible' # visible
        <4>1. \/ pc'[t] = "pending"
              \/ pc'[t] = "passSettle" /\ pc[t] = "raise"
          BY <1>0, <2>1, <3>2, FrontierMoves
        <4>2. pc[t] = "raise" /\ visible' # visible =>
                pc'[t] \in Walking /\ (mode'[t] = "inorder" \/ moved'[t])
          BY <1>0, <1>4, RaiseMoves
        <4> QED
          BY <3>2, <4>1, <4>2 DEF Wakes
      <3>3. CASE visible' = visible
        <4>1. PICK u \in Tx : Wakes(u)
          BY <2>4, <3>1, <3>3 DEF WaitInv
        <4>2. CASE u # t
          BY <2>1, <4>1, <4>2 DEF Elsewhere, Wakes
        <4>3. CASE u = t
          <5>1. waiters > 0
            <6>1. /\ IsFiniteSet(Registered) /\ Registered # {}
                  /\ waiters = Cardinality(Registered)
              BY <2>4 DEF WaitInv, Registered
            <6>2. Cardinality(Registered) # 0 /\ Cardinality(Registered) \in Nat
              BY <6>1, FS_EmptySet, FS_CardinalityType
            <6> QED
              BY <6>1, <6>2
          <5> QED
            BY <1>0, <1>4, <3>1, <4>1, <4>3, <5>1, WakesOn
        <4> QED
          BY <4>2, <4>3
      <3> QED
        BY <3>2, <3>3
    <2>5. \A w \in Waiters : ch'[w] <= gate' /\ floor'[w] <= commit'
      BY <1>0, <1>1, <2>2 DEF WaitInv
    <2>6. IsFiniteSet(Registered') /\ waiters' = Cardinality(Registered')
      BY <1>1, <1>2 DEF WaitInv
    <2> QED
      BY <1>1, <2>3, <2>4, <2>5, <2>6 DEF WaitInv
  <1> QED
    BY <1>3, <1>4 DEF TxStep

LEMMA WaiterWaits ==
  ASSUME SInv, WaitInv, NEW w \in Waiters, Await(w) \/ Awaiting(w) \/ AwaitCancel(w)
  PROVE  WaitInv'
  <1>0. /\ commit \in Nat /\ visible \in Nat /\ gate \in Nat
        /\ waiters \in Int /\ ch \in [Waiters -> Nat] /\ floor \in [Waiters -> Nat]
        /\ wpc \in [Waiters -> {"idle", "enter", "gate", "check", "blocked", "leave", "done"}]
    BY DEF SInv, IInv, TypeOK
  <1>1. UNCHANGED <<commit, visible, pc, mode, moved>>
    BY WaitersIdle DEF counters, locals
  <1>2. (\E u \in Tx : Wakes(u)) => \E u \in Tx : Wakes(u)'
    BY <1>1 DEF Wakes
  <1>3. \A t \in Tx : pc'[t] = "pending" => mode'[t] = "inorder"
    BY <1>1 DEF WaitInv
  <1>4. \A v \in Waiters \ {w} :
          wpc'[v] = wpc[v] /\ floor'[v] = floor[v] /\ ch'[v] = ch[v]
    BY <1>0 DEF Await, Awaiting, AwaitEnter, AwaitGate, AwaitCheck, AwaitWoken, AwaitLeave,
                AwaitCancel, WGoto, waiting
  <1>5. gate' = gate \/ (gate = 0 /\ gate' = 1)
    BY <1>0 DEF Await, Awaiting, AwaitEnter, AwaitGate, AwaitCheck, AwaitWoken, AwaitLeave,
                AwaitCancel
  <1>6. /\ ch'[w] <= gate' /\ floor'[w] <= commit'
        /\ wpc'[w] = "blocked" => ~(floor'[w] <= visible')
    <2>1. ch[w] <= gate /\ floor[w] <= commit
      BY DEF WaitInv
    <2> USE <1>0, <1>1, <2>1 DEF WGoto
    <2>2. CASE Await(w)
      BY <2>2 DEF Await
    <2>3. CASE AwaitEnter(w)
      BY <2>3 DEF AwaitEnter
    <2>4. CASE AwaitGate(w)
      BY <2>4 DEF AwaitGate
    <2>5. CASE AwaitCheck(w)
      BY <2>5 DEF AwaitCheck
    <2>6. CASE AwaitWoken(w)
      BY <2>6 DEF AwaitWoken
    <2>7. CASE AwaitLeave(w)
      BY <2>7 DEF AwaitLeave
    <2>8. CASE AwaitCancel(w)
      BY <2>8 DEF AwaitCancel
    <2> QED
      BY <2>2, <2>3, <2>4, <2>5, <2>6, <2>7, <2>8 DEF Awaiting
  <1>7. ASSUME NEW v \in Waiters, wpc'[v] = "blocked", ch'[v] = gate', floor'[v] <= visible'
        PROVE  \E u \in Tx : Wakes(u)'
    <2>1. v # w
      BY <1>6, <1>7
    <2>2. wpc[v] = "blocked" /\ ch[v] = gate' /\ floor[v] <= visible /\ ch[v] <= gate
      BY <1>1, <1>4, <1>7, <2>1 DEF WaitInv
    <2>3. ch[v] = gate
      BY <1>0, <1>5, <2>2
    <2> QED
      BY <1>2, <2>2, <2>3 DEF WaitInv
  <1>8. \A v \in Waiters : ch'[v] <= gate' /\ floor'[v] <= commit'
    BY <1>0, <1>1, <1>4, <1>5, <1>6 DEF WaitInv
  <1>9. IsFiniteSet(Registered') /\ waiters' = Cardinality(Registered')
    <2>1. IsFiniteSet(Registered) /\ waiters = Cardinality(Registered)
      BY DEF WaitInv
    <2>2. CASE AwaitEnter(w)
      <3>1. Registered' = Registered \cup {w} /\ w \notin Registered /\ waiters' = waiters + 1
        BY <1>0, <2>2 DEF AwaitEnter, WGoto, Registered
      <3> QED
        BY <2>1, <3>1, FS_AddElement
    <2>3. CASE AwaitLeave(w)
      <3>1. Registered' = Registered \ {w} /\ w \in Registered /\ waiters' = waiters - 1
        BY <1>0, <2>3 DEF AwaitLeave, WGoto, Registered
      <3> QED
        BY <2>1, <3>1, FS_RemoveElement
    <2>4. CASE Await(w) \/ AwaitGate(w) \/ AwaitCheck(w) \/ AwaitWoken(w) \/ AwaitCancel(w)
      <3>1. waiters' = waiters
        BY <2>4 DEF Await, AwaitGate, AwaitCheck, AwaitWoken, AwaitCancel
      <3>2. w \in Registered' <=> w \in Registered
        BY <1>0, <2>4 DEF Await, AwaitGate, AwaitCheck, AwaitWoken, AwaitCancel, WGoto, Registered
      <3>3. Registered' = Registered
        BY <1>4, <3>2 DEF Registered
      <3> QED
        BY <2>1, <3>1, <3>3
    <2> QED
      BY <2>2, <2>3, <2>4 DEF Awaiting
  <1> QED
    BY <1>3, <1>7, <1>8, <1>9 DEF WaitInv

\* Recovery ratchets a clock that nobody waits for: a waiter's floor is at or
\* below the counter, and the frontier has reached it.
LEMMA RatchetWaits ==
  ASSUME SInv, WaitInv, NEW n \in 1 .. MaxFloor, RatchetTo(n)
  PROVE  WaitInv'
  <1>0. commit \in Nat /\ visible \in Nat /\ floor \in [Waiters -> Nat]
    BY DEF SInv, IInv, TypeOK
  <1>1. Quiet
    BY DEF RatchetTo, Quiet
  <1>2. visible = commit
    BY <1>1, SettledWhenQuiet
  <1>3. UNCHANGED <<waiters, gate, wpc, floor, ch, pc, mode, moved>> /\ commit' = n /\ commit < n
    BY DEF RatchetTo, waiting, locals
  <1>4. \A w \in Waiters : ~(wpc[w] = "blocked" /\ ch[w] = gate)
    <2>1. \A u \in Tx : ~Wakes(u)
      BY <1>1 DEF Quiet, Wakes, Walking
    <2> QED
      BY <1>2, <2>1 DEF WaitInv
  <1>5. Registered' = Registered
    BY <1>3 DEF Registered
  <1> QED
    BY <1>0, <1>3, <1>4, <1>5 DEF WaitInv

LEMMA InitWaits == Init => WaitInv
  <1> SUFFICES ASSUME Init PROVE WaitInv
    OBVIOUS
  <1>1. Registered = {}
    BY DEF Init, Registered
  <1> QED
    BY <1>1, FS_EmptySet DEF Init, WaitInv

LEMMA NextWaits == SInv /\ WaitInv /\ [Next]_vars => WaitInv'
  <1> SUFFICES ASSUME SInv, WaitInv, [Next]_vars PROVE WaitInv'
    OBVIOUS
  <1>1. CASE UNCHANGED vars
    <2>1. UNCHANGED <<commit, visible, pc, mode, moved, waiters, gate, wpc, floor, ch>>
      BY <1>1 DEF vars, counters, locals, waiting
    <2>2. Registered' = Registered
      BY <2>1 DEF Registered
    <2> QED
      BY <2>1, <2>2 DEF WaitInv, Wakes
  <1>2. CASE Stopped
    BY <1>1, <1>2 DEF Stopped
  <1>3. CASE \E t \in Tx : TxStep(t)
    BY <1>3, NextSettled, TxWaits
  <1>4. CASE \E w \in Waiters : Await(w) \/ Awaiting(w) \/ AwaitCancel(w)
    BY <1>4, WaiterWaits
  <1>5. CASE \E n \in 1 .. MaxFloor : RatchetTo(n)
    BY <1>5, RatchetWaits
  <1> QED
    BY <1>1, <1>2, <1>3, <1>4, <1>5 DEF Next

\* A waiter of AwaitVisible whose floor the frontier has reached is never left
\* asleep on the current channel with no publication to close it.
THEOREM WakeupsKept == Spec => []NoLostWakeup
  <1>1. SInv /\ WaitInv => NoLostWakeup
    <2> SUFFICES ASSUME SInv, WaitInv, Quiet, NEW w \in Waiters, wpc[w] = "blocked",
                        ch[w] = gate
                 PROVE  visible < floor[w]
      BY DEF NoLostWakeup
    <2>1. \A u \in Tx : ~Wakes(u)
      BY DEF Quiet, Wakes, Walking
    <2>2. ~(floor[w] <= visible)
      BY <2>1 DEF WaitInv
    <2> QED
      BY <2>2 DEF SInv, IInv, TypeOK
  <1> QED
    BY <1>1, InitWaits, NextWaits, SettledInvariance, PTL DEF Spec

-----------------------------------------------------------------------------
(***************************************************************************)
(* The links.  A transaction that is given its record back (every one but  *)
(* an untracked one) drops its link, or somebody who passes it does.       *)
(***************************************************************************)
LinkPlain(t) ==
  /\ linked' = linked /\ older' = older
  /\ pc[t] \notin {"unlinked", "passDrop"} /\ pc'[t] \notin {"unlinked", "passDrop"}

LinkMade(t) ==
  /\ pc[t] = "link" /\ pc'[t] = "install"
  /\ head[t] # NoTx /\ older' = [older EXCEPT ![t] = head[t]] /\ linked' = linked + 1

LinkLost(t) ==
  /\ pc[t] = "install" /\ pc'[t] = "load"
  /\ older' = [older EXCEPT ![t] = NoTx]
  /\ linked' = IF older[t] # NoTx THEN linked - 1 ELSE linked

LinkCleared(t) ==
  /\ pc[t] \in {"unlink", "passUnlink"} /\ cur[t] \in Tx
  /\ older' = [older EXCEPT ![cur[t]] = NoTx] /\ linked' = linked
  /\ pc'[t] \in {"unlinked", "passDrop"} <=> older[cur[t]] # NoTx

LinkCounted(t) ==
  /\ pc[t] \in {"unlinked", "passDrop"} /\ pc'[t] \notin {"unlinked", "passDrop"}
  /\ older' = older /\ linked' = linked - 1

LEMMA LinkEffects ==
  ASSUME IInv, WalkInv, NEW t \in Tx, TxStep(t)
  PROVE  LinkPlain(t) \/ LinkMade(t) \/ LinkLost(t) \/ LinkCleared(t) \/ LinkCounted(t)
  <1>0. /\ pc \in [Tx -> Claiming \cup Owning \cup Finishing]
        /\ WalkOK(t) /\ cur[t] \in Tx \cup {NoTx}
    BY DEF IInv, TypeOK, WalkInv
  <1>a. CASE ClaimLink(t)
    BY <1>0, <1>a DEF ClaimLink, HeadPending, LinkMade, At, Goto
  <1>b. CASE ClaimLost(t)
    BY <1>0, <1>b DEF ClaimLost, LinkLost, At, Goto
  <1>c. CASE Unlink(t) \/ PassUnlink(t)
    <2>1. pc[t] \in {"unlink", "passUnlink"} /\ cur[t] \in Tx
      BY <1>0, <1>c DEF Unlink, PassUnlink, At, WalkOK
    <2> QED
      BY <1>0, <1>c, <2>1 DEF Unlink, PassUnlink, ClearLink, LinkCleared, Goto, counters
  <1>d. CASE Unlinked(t) \/ PassDrop(t)
    BY <1>0, <1>d DEF Unlinked, PassDrop, CountLink, LinkCounted, At, Goto, records
  <1> USE <1>0 DEF counters, records, At, Goto
  <1>1. CASE AllocateFor(t)
    BY <1>1 DEF AllocateFor, LinkPlain
  <1>2. CASE ClaimLoad(t)
    BY <1>2 DEF ClaimLoad, LinkPlain
  <1>3. CASE ClaimTaken(t)
    BY <1>3 DEF ClaimTaken, LinkPlain, Continue
  <1>4. CASE ClaimHead(t)
    BY <1>4 DEF ClaimHead, LinkPlain
  <1>5. CASE ClaimAssist(t)
    BY <1>5 DEF ClaimAssist, LinkPlain
  <1>6. CASE ClaimFresh(t)
    BY <1>6 DEF ClaimFresh, LinkPlain, Continue
  <1>7. CASE ClaimInstall(t)
    BY <1>7 DEF ClaimInstall, LinkPlain
  <1>8. CASE ClaimCounter(t)
    BY <1>8 DEF ClaimCounter, LinkPlain
  <1>9. CASE MarkReady(t)
    BY <1>9 DEF MarkReady, LinkPlain
  <1>10. CASE Abort(t)
    BY <1>10 DEF Abort, LinkPlain
  <1>11. CASE Commit(t)
    BY <1>11 DEF Commit, LinkPlain
  <1>12. CASE PublishInOrder(t)
    BY <1>12 DEF PublishInOrder, LinkPlain
  <1>13. CASE PublishBlocked(t)
    BY <1>13 DEF PublishBlocked, LinkPlain
  <1>14. CASE CheckPending(t)
    BY <1>14 DEF CheckPending, LinkPlain, Continue
  <1>15. CASE CheckLinked(t)
    BY <1>15 DEF CheckLinked, LinkPlain
  <1>16. CASE SeekOwn(t)
    BY <1>16 DEF SeekOwn, LinkPlain, Found, NotFound
  <1>17. CASE CheckLate(t)
    BY <1>17 DEF CheckLate, LinkPlain, Continue
  <1>18. CASE SeekMark(t)
    BY <1>18 DEF SeekMark, LinkPlain, Found, NotFound
  <1>19. CASE Mark(t)
    BY <1>19 DEF Mark, LinkPlain
  <1>20. CASE Count(t)
    BY <1>20 DEF Count, LinkPlain
  <1>21. CASE Recheck(t)
    BY <1>21 DEF Recheck, LinkPlain, Continue
  <1>22. CASE Settle(t)
    BY <1>22 DEF Settle, LinkPlain, SettleRec
  <1>23. CASE Uncount(t)
    BY <1>23 DEF Uncount, LinkPlain, CountOut
  <1>24. CASE Advance(t)
    BY <1>24 DEF Advance, LinkPlain
  <1>25. CASE SeekNext(t)
    BY <1>25 DEF SeekNext, LinkPlain, Found, Return
  <1>26. CASE Examine(t)
    BY <1>26 DEF Examine, LinkPlain, Continue, Return
  <1>27. CASE CheckReady(t)
    BY <1>27 DEF CheckReady, LinkPlain, Continue, Return
  <1>28. CASE HelpStamp(t)
    BY <1>28 DEF HelpStamp, LinkPlain
  <1>29. CASE Raise(t)
    BY <1>29 DEF Raise, LinkPlain
  <1>30. CASE RaiseLost(t)
    BY <1>30 DEF RaiseLost, LinkPlain
  <1>31. CASE PassSettle(t)
    BY <1>31 DEF PassSettle, LinkPlain, SettleRec
  <1>32. CASE PassUncount(t)
    BY <1>32 DEF PassUncount, LinkPlain, CountOut
  <1>33. CASE CheckWaiters(t)
    BY <1>33 DEF CheckWaiters, LinkPlain, Continue
  <1>34. CASE WakeWaiters(t)
    BY <1>34 DEF WakeWaiters, LinkPlain
  <1> QED
    BY <1>a, <1>b, <1>c, <1>d,
       <1>1, <1>2, <1>3, <1>4, <1>5, <1>6, <1>7, <1>8, <1>9, <1>10, <1>11, <1>12, <1>13, <1>14,
       <1>15, <1>16, <1>17, <1>18, <1>19, <1>20, <1>21, <1>22, <1>23, <1>24, <1>25,
       <1>26, <1>27, <1>28, <1>29, <1>30, <1>31, <1>32, <1>33, <1>34
       DEF TxStep, Allocating, Committing, Publishing, Advancing

LEMMA LinkedStep ==
  ASSUME IInv, LinkInv, WalkInv, LinkedInv, NEW t \in Tx, TxStep(t)
  PROVE  LinkedInv'
  <1> DEFINE l == Cardinality(Linkers)
             d == Cardinality(Dropping)
  <1>0. /\ linked \in Int /\ older \in [Tx -> Tx \cup {NoTx}] /\ head[t] \in Tx \cup {NoTx}
        /\ LinkOK(t) /\ TypeOK
    BY DEF IInv, TypeOK, LinkInv
  <1>1. /\ IsFiniteSet(Linkers) /\ IsFiniteSet(Dropping) /\ l \in Nat /\ d \in Nat
        /\ linked = l + d
    BY FS_CardinalityType DEF LinkedInv
  <1>2. \A s \in Tx \ {t} : pc'[s] = pc[s]
    BY <1>0, EarlySteps, LateSteps DEF TxStep, Elsewhere
  <1>3. CASE LinkPlain(t)
    <2>1. Linkers' = Linkers /\ Dropping' = Dropping
      BY <1>2, <1>3 DEF LinkPlain, Linkers, Dropping
    <2> QED
      BY <1>3, <2>1 DEF LinkPlain, LinkedInv
  <1>4. CASE LinkMade(t)
    <2>1. older[t] = NoTx
      BY <1>0, <1>4 DEF LinkMade, LinkOK, Claiming
    <2>2. Linkers' = Linkers \cup {t} /\ t \notin Linkers
      BY <1>0, <1>4, <2>1 DEF LinkMade, Linkers
    <2>3. Dropping' = Dropping
      BY <1>2, <1>4 DEF LinkMade, Dropping
    <2>4. IsFiniteSet(Linkers') /\ Cardinality(Linkers') = l + 1
      BY <1>1, <2>2, FS_AddElement
    <2> QED
      BY <1>1, <1>4, <2>3, <2>4 DEF LinkMade, LinkedInv
  <1>5. CASE LinkLost(t)
    <2>1. Dropping' = Dropping
      BY <1>2, <1>5 DEF LinkLost, Dropping
    <2>2. Linkers' = Linkers \ {t} /\ (t \in Linkers <=> older[t] # NoTx)
      BY <1>0, <1>5 DEF LinkLost, Linkers
    <2>3. /\ IsFiniteSet(Linkers')
          /\ Cardinality(Linkers') = IF older[t] # NoTx THEN l - 1 ELSE l
      BY <1>1, <2>2, FS_RemoveElement
    <2> QED
      BY <1>1, <1>5, <2>1, <2>3 DEF LinkLost, LinkedInv
  <1>6. CASE LinkCleared(t)
    <2>1. Linkers' = Linkers \ {cur[t]} /\ (cur[t] \in Linkers <=> older[cur[t]] # NoTx)
      BY <1>0, <1>6 DEF LinkCleared, Linkers
    <2>2. CASE older[cur[t]] = NoTx
      <3>1. Dropping' = Dropping /\ Linkers' = Linkers
        BY <1>2, <1>6, <2>1, <2>2 DEF LinkCleared, Dropping
      <3> QED
        BY <1>1, <1>6, <3>1 DEF LinkCleared, LinkedInv
    <2>3. CASE older[cur[t]] # NoTx
      <3>1. Dropping' = Dropping \cup {t} /\ t \notin Dropping
        BY <1>2, <1>6, <2>3 DEF LinkCleared, Dropping
      <3>2. IsFiniteSet(Dropping') /\ Cardinality(Dropping') = d + 1
        BY <1>1, <3>1, FS_AddElement
      <3>3. IsFiniteSet(Linkers') /\ Cardinality(Linkers') = l - 1
        BY <1>1, <2>1, <2>3, FS_RemoveElement
      <3> QED
        BY <1>1, <1>6, <3>2, <3>3 DEF LinkCleared, LinkedInv
    <2> QED
      BY <2>2, <2>3
  <1>7. CASE LinkCounted(t)
    <2>1. Linkers' = Linkers /\ Dropping' = Dropping \ {t} /\ t \in Dropping
      BY <1>2, <1>7 DEF LinkCounted, Linkers, Dropping
    <2>2. IsFiniteSet(Dropping') /\ Cardinality(Dropping') = d - 1
      BY <1>1, <2>1, FS_RemoveElement
    <2> QED
      BY <1>1, <1>7, <2>1, <2>2 DEF LinkCounted, LinkedInv
  <1> QED
    BY <1>3, <1>4, <1>5, <1>6, <1>7, LinkEffects

LEMMA DropsOn ==
  ASSUME IInv, WaitInv, LinkedInv, "untracked" \notin Kinds,
         NEW t \in Tx, Publishing(t) \/ Advancing(t),
         NEW r \in Tx, older[r] # NoTx, Drops(t, r)
  PROVE  Drops(t, r)' \/ older'[r] = NoTx
  <1>0. /\ pc \in [Tx -> Claiming \cup Owning \cup Finishing] /\ moved \in [Tx -> BOOLEAN]
        /\ mode \in [Tx -> {"inorder", "late", "help"}] /\ cur \in [Tx -> Tx \cup {NoTx}]
        /\ older \in [Tx -> Tx \cup {NoTx}]
        /\ pc[t] = "pending" => mode[t] = "inorder"
    BY DEF IInv, TypeOK, WaitInv
  <1>a. CASE CheckLinked(t)
    <2>1. t = r /\ pc[t] = "linked"
      BY <1>a DEF CheckLinked, At, Drops, Walking
    <2>2. linked # 0
      <3>1. Linkers # {} /\ IsFiniteSet(Linkers) /\ IsFiniteSet(Dropping)
        BY DEF LinkedInv, Linkers
      <3>2. /\ Cardinality(Linkers) \in Nat /\ Cardinality(Linkers) # 0
            /\ Cardinality(Dropping) \in Nat
        BY <3>1, FS_EmptySet, FS_CardinalityType
      <3> QED
        BY <3>2 DEF LinkedInv
    <2>3. KeepsRecord(t)
      BY DEF KeepsRecord, IInv, TypeOK
    <2>4. pc'[t] = "unlink" /\ cur'[t] = t
      BY <1>0, <1>a, <2>2, <2>3 DEF CheckLinked, Goto
    <2> QED
      BY <2>1, <2>4 DEF Drops
  <1>b. CASE Unlink(t)
    <2>1. cur[t] = r
      BY <1>b DEF Unlink, At, Drops, Walking
    <2> QED
      BY <1>0, <1>b, <2>1 DEF Unlink, ClearLink
  <1> USE <1>0 DEF Drops, Walking, At, Goto
  <1>1. CASE CheckPending(t)
    BY <1>1 DEF CheckPending, Continue, locals
  <1>2. CASE PassSettle(t)
    BY <1>2 DEF PassSettle, SettleRec, locals
  <1>3. CASE PassUncount(t)
    BY <1>3 DEF PassUncount, CountOut, locals
  <1>4. CASE Advance(t)
    BY <1>4 DEF Advance
  <1>5. CASE SeekNext(t)
    BY <1>5 DEF SeekNext, Found, Return
  <1>6. CASE Examine(t)
    BY <1>6 DEF Examine, Continue, Return, locals
  <1>7. CASE CheckReady(t)
    BY <1>7 DEF CheckReady, Continue, Return, locals
  <1>8. CASE HelpStamp(t)
    BY <1>8 DEF HelpStamp, locals
  <1>9. CASE Raise(t)
    BY <1>9 DEF Raise
  <1>10. CASE RaiseLost(t)
    BY <1>10 DEF RaiseLost
  <1>11. CASE PassUnlink(t)
    BY <1>11 DEF PassUnlink, ClearLink
  <1>12. CASE PassDrop(t)
    BY <1>12 DEF PassDrop, CountLink, locals
  <1>13. CASE PublishInOrder(t)
    BY <1>13 DEF PublishInOrder
  <1>14. CASE PublishBlocked(t)
    BY <1>14 DEF PublishBlocked
  <1>15. CASE SeekOwn(t)
    BY <1>15 DEF SeekOwn, Found, NotFound
  <1>16. CASE CheckLate(t)
    BY <1>16 DEF CheckLate, Continue
  <1>17. CASE SeekMark(t)
    BY <1>17 DEF SeekMark, Found, NotFound
  <1>18. CASE Mark(t)
    BY <1>18 DEF Mark
  <1>19. CASE Count(t)
    BY <1>19 DEF Count
  <1>20. CASE Recheck(t)
    BY <1>20 DEF Recheck, Continue
  <1>21. CASE Settle(t)
    BY <1>21 DEF Settle, SettleRec
  <1>22. CASE Uncount(t)
    BY <1>22 DEF Uncount, CountOut
  <1>23. CASE Unlinked(t)
    BY <1>23 DEF Unlinked, CountLink
  <1>24. CASE CheckWaiters(t)
    BY <1>24 DEF CheckWaiters, Continue
  <1>25. CASE WakeWaiters(t)
    BY <1>25 DEF WakeWaiters
  <1> HIDE DEF Drops
  <1> QED
    BY <1>a, <1>b, <1>1, <1>2, <1>3, <1>4, <1>5, <1>6, <1>7, <1>8, <1>9, <1>10, <1>11, <1>12, <1>13, <1>14,
       <1>15, <1>16, <1>17, <1>18, <1>19, <1>20, <1>21, <1>22, <1>23, <1>24, <1>25
       DEF Publishing, Advancing

LEMMA DropStep ==
  ASSUME SInv, WaitInv, LinkedInv, DropInv, "untracked" \notin Kinds, NEW t \in Tx, TxStep(t)
  PROVE  DropInv'
  <1>0. /\ IInv /\ TypeOK /\ visible \in Nat /\ claim \in [Tx -> Nat]
    BY DEF SInv, IInv, TypeOK
  <1>1. CASE Allocating(t) \/ Committing(t)
    <2>1. Elsewhere(t) /\ EarlyStep(t)
      BY <1>0, <1>1, EarlySteps
    <2>2. visible' = visible /\ cur' = cur /\ mode' = mode
      BY <2>1 DEF EarlyStep
    <2>3. SUFFICES ASSUME NEW r \in Tx, Installed(r)', claim'[r] <= visible, older'[r] # NoTx
                   PROVE  \E u \in Tx : Drops(u, r)'
      BY <2>2 DEF DropInv
    <2>4. Installed(r) /\ claim[r] <= visible /\ older[r] # NoTx
      <3>1. CASE r # t
        BY <2>1, <2>3, <3>1 DEF Elsewhere, EarlyStep, Installed
      <3>2. CASE r = t /\ Installed(t)
        <4>1. claim'[t] = claim[t]
          BY <2>1, <3>2 DEF EarlyStep, Installed
        <4>2. LinkPlain(t)
          <5>1. pc[t] \in Owning
            BY <2>1, <3>2 DEF EarlyStep, Installed
          <5> QED
            BY <1>0, <5>1, LinkEffects DEF SInv, LinkMade, LinkLost, LinkCleared, LinkCounted,
                                           Owning
        <4> QED
          BY <2>3, <3>2, <4>1, <4>2 DEF LinkPlain
      <3>3. CASE r = t /\ ~Installed(t)
        <4>1. ClaimInstall(t)
          BY <1>0, <1>1, <2>3, <3>3
             DEF Allocating, Committing, AllocateFor, ClaimLoad, ClaimTaken, ClaimHead,
                 ClaimAssist, ClaimLink, ClaimFresh, ClaimLost, ClaimCounter, MarkReady, Abort,
                 Commit, Continue, At, Goto, Installed, Claiming, TypeOK
        <4>2. claim[t] > visible /\ claim' = claim
          BY <1>0, <4>1, InstallFresh DEF ClaimInstall, records
        <4> QED
          BY <1>0, <2>3, <3>3, <4>2
      <3> QED
        BY <3>1, <3>2, <3>3
    <2>5. PICK u \in Tx : Drops(u, r)
      BY <2>4 DEF DropInv
    <2>6. u # t
      BY <2>1, <2>5 DEF EarlyStep, Claiming, Owning, Drops, Walking
    <2> QED
      BY <2>1, <2>2, <2>5, <2>6 DEF Elsewhere, Drops
  <1>2. CASE Publishing(t) \/ Advancing(t)
    <2>1. Elsewhere(t) /\ LateStep(t)
      BY <1>0, <1>2, LateSteps
    <2>2. claim' = claim /\ \A s \in Tx : Installed(s)' <=> Installed(s)
      BY <2>1, LateInstalled DEF LateStep
    <2>3. SUFFICES ASSUME NEW r \in Tx, Installed(r), claim[r] <= visible', older'[r] # NoTx
                   PROVE  \E u \in Tx : Drops(u, r)'
      BY <2>2 DEF DropInv
    <2>4. older[r] # NoTx
      BY <2>1, <2>3 DEF LateStep
    <2>5. CASE claim[r] > visible
      <3>1. \/ r = t /\ pc[t] = "publish"
            \/ pc'[t] = "passSettle" /\ cur'[t] = r
        BY <1>0, <2>1, <2>3, <2>5, MarkPassed DEF SInv
      <3>2. CASE r = t /\ pc[t] = "publish"
        <4>1. visible' # visible
          BY <1>0, <2>3, <2>5
        <4>2. pc'[t] = "pending"
          BY <1>0, <2>1, <3>2, <4>1, FrontierMoves
        <4> QED
          BY <3>2, <4>2 DEF Drops
      <3> QED
        BY <3>1, <3>2 DEF Drops
    <2>6. CASE claim[r] <= visible
      <3>1. PICK u \in Tx : Drops(u, r)
        BY <2>3, <2>4, <2>6 DEF DropInv
      <3>2. CASE u = t
        BY <1>0, <1>2, <2>3, <2>4, <3>1, <3>2, DropsOn
      <3>3. CASE u # t
        <4>1. /\ pc'[u] = pc[u] /\ cur'[u] = cur[u] /\ mode'[u] = mode[u]
          BY <2>1, <3>3 DEF Elsewhere
        <4> QED
          BY <3>1, <4>1 DEF Drops
      <3> QED
        BY <3>2, <3>3
    <2> QED
      BY <1>0, <2>5, <2>6
  <1> QED
    BY <1>1, <1>2 DEF TxStep

LEMMA RatchetDrops ==
  ASSUME SInv, LinkedInv, DropInv, NEW n \in 1 .. MaxFloor, RatchetTo(n)
  PROVE  LinkedInv' /\ DropInv'
  <1>1. Quiet /\ UNCHANGED <<linked, older, claim, pc, cur, mode>>
    BY DEF RatchetTo, Quiet, records, locals
  <1>2. \A t \in Tx : Installed(t) => claim[t] <= visible
    BY <1>1, SettledWhenQuiet
  <1>3. Linkers' = Linkers /\ Dropping' = Dropping
    BY <1>1 DEF Linkers, Dropping
  <1>4. \A u, r \in Tx : Drops(u, r)' <=> Drops(u, r)
    BY <1>1 DEF Drops
  <1> QED
    BY <1>1, <1>2, <1>3, <1>4 DEF LinkedInv, DropInv, Installed

LEMMA IdleDrops ==
  ASSUME LinkedInv, DropInv, UNCHANGED <<counters, records, locals, pc>>
  PROVE  LinkedInv' /\ DropInv'
  <1>1. UNCHANGED <<linked, visible, older, claim, pc, cur, mode>>
    BY DEF counters, records, locals
  <1>2. Linkers' = Linkers /\ Dropping' = Dropping
    BY <1>1 DEF Linkers, Dropping
  <1> QED
    BY <1>1, <1>2 DEF LinkedInv, DropInv, Installed, Drops

LEMMA InitDrops == Init => LinkedInv /\ DropInv
  <1> SUFFICES ASSUME Init PROVE LinkedInv /\ DropInv
    OBVIOUS
  <1>1. Linkers = {} /\ Dropping = {}
    BY DEF Init, Linkers, Dropping
  <1> QED
    BY <1>1, FS_EmptySet DEF Init, LinkedInv, DropInv

LEMMA NextDrops ==
  ASSUME "untracked" \notin Kinds
  PROVE  SInv /\ WaitInv /\ LinkedInv /\ DropInv /\ [Next]_vars => LinkedInv' /\ DropInv'
  <1> SUFFICES ASSUME SInv, WaitInv, LinkedInv, DropInv, [Next]_vars
               PROVE  LinkedInv' /\ DropInv'
    OBVIOUS
  <1>1. CASE UNCHANGED vars
    BY <1>1, IdleDrops DEF vars
  <1>2. CASE Stopped
    BY <1>1, <1>2 DEF Stopped
  <1>3. CASE \E t \in Tx : TxStep(t)
    BY <1>3, LinkedStep, DropStep DEF SInv
  <1>4. CASE \E w \in Waiters : Await(w) \/ Awaiting(w) \/ AwaitCancel(w)
    BY <1>4, WaitersIdle, IdleDrops
  <1>5. CASE \E n \in 1 .. MaxFloor : RatchetTo(n)
    BY <1>5, RatchetDrops
  <1> QED
    BY <1>1, <1>2, <1>3, <1>4, <1>5 DEF Next

\* Where every transaction keeps its record (NextCommitTS is not used), no lap
\* link and no count of one outlives the publications that built it.
THEOREM LinksGone ==
  ASSUME "untracked" \notin Kinds
  PROVE  Spec => []LinksDropped
  <1>1. SInv /\ LinkedInv /\ DropInv => LinksDropped
    <2> SUFFICES ASSUME SInv, LinkedInv, DropInv, Quiet
                 PROVE  linked = 0 /\ \A t \in Tx : older[t] = NoTx
      BY DEF LinksDropped
    <2>1. \A t \in Tx : Installed(t) => claim[t] <= visible
      BY SettledWhenQuiet
    <2>2. \A t, r \in Tx : ~Drops(t, r)
      BY DEF Quiet, Drops, Walking
    <2>3. \A t \in Tx : older[t] = NoTx
      BY <2>1, <2>2 DEF Quiet, DropInv, SInv, LinkInv, LinkOK, Installed, Claiming
    <2>4. Linkers = {} /\ Dropping = {}
      BY <2>3 DEF Linkers, Dropping, Quiet
    <2> QED
      BY <2>3, <2>4, FS_EmptySet DEF LinkedInv
  <1>2. Init => SInv /\ WaitInv /\ LinkedInv /\ DropInv
    BY InitSettled, InitWaits, InitDrops
  <1>3. SInv /\ WaitInv /\ LinkedInv /\ DropInv /\ [Next]_vars =>
          SInv' /\ WaitInv' /\ LinkedInv' /\ DropInv'
    BY NextSettled, NextWaits, NextDrops
  <1> QED
    BY <1>1, <1>2, <1>3, PTL DEF Spec

-----------------------------------------------------------------------------
(* The commit clock implements CommitFrontier: a timestamp is allocated    *)
(* when its record is installed, its outcome is decided by the owner or by *)
(* a helper, and the frontier passes one decided timestamp at a time.      *)

\* A record is stamped by its owner, or by a helper once it is ready.
OutcomeOK(t) ==
  /\ stamp[t] \in {"committed", "aborted"} => ready[t] \/ pc[t] \in Finishing
  /\ pc[t] \in Claiming => stamp[t] \in {"open", "inline"}
  /\ pc[t] = "idle" => stamp[t] = "open"
  /\ stamp[t] = "inline" => kind[t] = "untracked"

OutcomeInv == \A t \in Tx : OutcomeOK(t)

\* Before its owner decides, a record under the durability hooks is open.
LEMMA UndecidedOpen ==
  ASSUME IInv, OutcomeInv, NEW t \in Tx, pc[t] = "decide"
  PROVE  stamp[t] = "open"
  <1>1. OutcomeOK(t) /\ OwnerOK(t) /\ stamp[t] \in {"open", "committed", "aborted", "inline"}
    BY DEF IInv, TypeOK, OwnerInv, OutcomeInv
  <1>2. kind[t] \in {"durable", "split"} /\ ~ready[t]
    BY <1>1 DEF OwnerOK
  <1> QED
    BY <1>1, <1>2 DEF OutcomeOK, Finishing

LEMMA OutcomeStep ==
  ASSUME IInv, OutcomeInv, NEW t \in Tx, TxStep(t)
  PROVE  OutcomeInv'
  <1>0. /\ TypeOK /\ CursorOK(t) /\ PointerOK(t)
        /\ \A s \in Tx : OutcomeOK(s)
        /\ pc \in [Tx -> Claiming \cup Owning \cup Finishing]
        /\ stamp \in [Tx -> {"open", "committed", "aborted", "inline"}]
        /\ ready \in [Tx -> BOOLEAN]
    BY DEF IInv, TypeOK, CursorInv, PointerInv, OutcomeInv
  <1>1. SUFFICES \A s \in Tx : OutcomeOK(s)'
    BY DEF OutcomeInv
  <1>2. CASE Allocating(t) \/ MarkReady(t) \/ Abort(t) \/ Commit(t)
    <2>1. kind' = kind /\ \A s \in Tx \ {t} : pc'[s] = pc[s] /\ stamp'[s] = stamp[s]
                                              /\ ready'[s] = ready[s]
      BY <1>0, <1>2
         DEF Allocating, AllocateFor, ClaimLoad, ClaimTaken, ClaimHead, ClaimAssist, ClaimLink,
             ClaimFresh, ClaimInstall, ClaimLost, ClaimCounter, MarkReady, Abort, Commit,
             Continue, records, locals, Goto
    <2>2. \A s \in Tx \ {t} : OutcomeOK(s)'
      BY <1>0, <2>1 DEF OutcomeOK
    <2>3. OutcomeOK(t)'
      <3>1. CASE AllocateFor(t)
        BY <1>0, <2>1, <3>1 DEF AllocateFor, KeepsRecord, OutcomeOK, At, Goto, Claiming
      <3>2. CASE Allocating(t) /\ ~AllocateFor(t)
        <4>1. /\ stamp' = stamp /\ ready' = ready /\ pc'[t] # "idle" /\ pc[t] \notin Finishing
              /\ pc'[t] \in Claiming => pc[t] \in Claiming
          BY <1>0, <3>2
             DEF Allocating, ClaimLoad, ClaimTaken, ClaimHead, ClaimAssist, ClaimLink,
                 ClaimFresh, ClaimInstall, ClaimLost, ClaimCounter, Continue, records, At, Goto,
                 Claiming, Finishing
        <4> QED
          BY <1>0, <2>1, <4>1 DEF OutcomeOK
      <3>3. CASE MarkReady(t)
        <4>1. pc[t] = "decide" /\ pc'[t] = "stamp" /\ stamp' = stamp
          BY <1>0, <3>3 DEF MarkReady, At, Goto
        <4>2. stamp[t] = "open"
          BY <4>1, UndecidedOpen
        <4> QED
          BY <4>1, <4>2 DEF OutcomeOK, Claiming
      <3>4. CASE Abort(t) \/ Commit(t)
        <4>1. pc'[t] = "publish" /\ (stamp'[t] = "inline" => stamp[t] = "inline")
          BY <1>0, <3>4 DEF Abort, Commit, StampOf, Goto
        <4> QED
          BY <1>0, <2>1, <4>1 DEF OutcomeOK, Finishing, Claiming
      <3> QED
        BY <1>2, <3>1, <3>2, <3>3, <3>4
    <2> QED
      BY <2>2, <2>3
  <1>3. CASE HelpStamp(t)
    <2>1. pc[t] = "helpStamp" /\ cur[t] \in Tx /\ Installed(cur[t]) /\ ready[cur[t]]
      BY <1>0, <1>3 DEF HelpStamp, At, CursorOK, PointerOK, TypeOK
    <2>2. /\ kind' = kind /\ ready' = ready /\ pc'[t] = "raise"
          /\ \A s \in Tx \ {t} : pc'[s] = pc[s]
          /\ \A s \in Tx \ {cur[t]} : stamp'[s] = stamp[s]
          /\ stamp'[cur[t]] = "committed"
      BY <1>0, <1>3, <2>1 DEF HelpStamp, Goto, locals
    <2>3. \A s \in Tx : /\ pc'[s] \in Finishing <=> pc[s] \in Finishing
                        /\ pc'[s] \in Claiming <=> pc[s] \in Claiming
                        /\ pc'[s] = "idle" <=> pc[s] = "idle"
      BY <2>1, <2>2 DEF Finishing, Claiming
    <2>4. pc[cur[t]] \notin Claiming
      BY <2>1 DEF Installed
    <2> QED
      BY <1>0, <2>1, <2>2, <2>3, <2>4 DEF OutcomeOK, Claiming
  <1>4. CASE (Publishing(t) \/ Advancing(t)) /\ ~HelpStamp(t)
    <2>1. Elsewhere(t) /\ LateStep(t)
      BY <1>0, <1>4, LateSteps
    <2>2. stamp' = stamp /\ ready' = ready
      BY <1>4 DEF Publishing, PublishInOrder, PublishBlocked, CheckPending, CheckLinked, SeekOwn,
                  Unlink, Unlinked, CheckLate, SeekMark, Mark, Count, Recheck, Settle, Uncount,
                  Found, NotFound, ClearLink, CountLink, SettleRec, CountOut, Advancing, Advance,
                  SeekNext, Examine, CheckReady, Raise, RaiseLost, PassSettle, PassUncount,
                  PassUnlink, PassDrop, CheckWaiters, WakeWaiters, Return, Continue, records
    <2>3. \A s \in Tx : /\ pc'[s] \in Finishing <=> pc[s] \in Finishing
                        /\ pc'[s] \in Claiming <=> pc[s] \in Claiming
                        /\ pc'[s] = "idle" <=> pc[s] = "idle"
      BY <2>1, Disjoint DEF Elsewhere, LateStep, Finishing
    <2> QED
      BY <1>0, <2>1, <2>2, <2>3 DEF OutcomeOK, LateStep
  <1> QED
    BY <1>2, <1>3, <1>4 DEF TxStep, Committing

LEMMA NextOutcome == IInv /\ OutcomeInv /\ [Next]_vars => OutcomeInv'
  <1> SUFFICES ASSUME IInv, OutcomeInv, [Next]_vars PROVE OutcomeInv'
    OBVIOUS
  <1>1. CASE UNCHANGED <<stamp, ready, kind, pc>>
    BY <1>1 DEF OutcomeInv, OutcomeOK
  <1>2. CASE UNCHANGED vars \/ Stopped
    BY <1>1, <1>2 DEF Stopped, vars, records, locals
  <1>3. CASE \E t \in Tx : TxStep(t)
    BY <1>3, OutcomeStep
  <1>4. CASE \E w \in Waiters : Await(w) \/ Awaiting(w) \/ AwaitCancel(w)
    BY <1>1, <1>4, WaitersIdle DEF records, locals
  <1>5. CASE \E n \in 1 .. MaxFloor : RatchetTo(n)
    BY <1>1, <1>5 DEF RatchetTo, records, locals
  <1> QED
    BY <1>2, <1>3, <1>4, <1>5 DEF Next

-----------------------------------------------------------------------------
(* The mapping.                                                            *)

\* Undecided(t): the abstract outcome of t is "none".
Undecided(t) == stamp[t] = "open" \/ (stamp[t] = "inline" /\ pc[t] \notin Finishing)

LEMMA AbsValues ==
  ASSUME IInv, NEW t \in Tx
  PROVE  /\ AbsAt[t] = IF Installed(t) THEN claim[t] ELSE 0
         /\ AbsOutcome[t] = "none" <=> Undecided(t)
         /\ Installed(t) => AbsAt[t] # 0
  <1>1. /\ stamp[t] \in {"open", "committed", "aborted", "inline"}
        /\ Installed(t) => claim[t] >= 1
    BY DEF IInv, TypeOK, ClaimInv, ClaimOK, Installed, Claiming
  <1>2. AbsOutcome[t] = "none" <=> Undecided(t)
    BY <1>1 DEF AbsOutcome, Undecided
  <1> QED
    BY <1>1, <1>2 DEF AbsAt, IInv, TypeOK

\* Steps that install nothing keep the timestamps.
LEMMA AtSame ==
  ASSUME \A s \in Tx : /\ Installed(s)' <=> Installed(s)
                       /\ Installed(s) => claim'[s] = claim[s]
  PROVE  AbsAt' = AbsAt
  BY DEF AbsAt

LEMMA OutcomeSame ==
  ASSUME IInv, IInv', NEW s \in Tx,
         \/ /\ stamp'[s] = stamp[s]
            /\ (pc'[s] \in Finishing <=> pc[s] \in Finishing) \/ stamp[s] # "inline"
         \/ Undecided(s) /\ Undecided(s)'
  PROVE  AbsOutcome'[s] = AbsOutcome[s]
  <1>1. /\ stamp[s] \in {"open", "committed", "aborted", "inline"}
        /\ stamp'[s] \in {"open", "committed", "aborted", "inline"}
    BY DEF IInv, TypeOK
  <1>2. CASE Undecided(s) /\ Undecided(s)'
    BY <1>1, <1>2 DEF AbsOutcome, Undecided
  <1>3. CASE /\ stamp'[s] = stamp[s]
             /\ (pc'[s] \in Finishing <=> pc[s] \in Finishing) \/ stamp[s] # "inline"
    BY <1>1, <1>3 DEF AbsOutcome
  <1> QED
    BY <1>2, <1>3

LEMMA OutcomeFunction ==
  ASSUME \A s \in Tx : AbsOutcome'[s] = AbsOutcome[s]
  PROVE  AbsOutcome' = AbsOutcome
  BY DEF AbsOutcome

\* The counter catches up with an installed record: nothing is allocated.
LEMMA AllocatedSame ==
  ASSUME IInv, IInv',
         \A s \in Tx : /\ Installed(s)' <=> Installed(s)
                       /\ Installed(s) => claim'[s] = claim[s],
         \/ commit' = commit
         \/ commit' = commit + 1 /\ \E s \in Tx : Installed(s) /\ claim[s] = commit + 1
  PROVE  AbsAllocated' = AbsAllocated
  <1>1. commit \in Nat /\ claim \in [Tx -> Nat]
    BY DEF IInv, TypeOK
  <1>2. \A s \in Tx : Installed(s) => claim[s] <= commit + 1
    BY DEF IInv, ClaimInv, ClaimOK, Installed, Claiming
  <1>3. CASE commit' = commit
    BY <1>3 DEF AbsAllocated
  <1>4. CASE commit' = commit + 1 /\ \E s \in Tx : Installed(s) /\ claim[s] = commit + 1
    <2>1. \A s \in Tx : Installed(s)' => ~(claim'[s] > commit')
      BY <1>1, <1>2, <1>4
    <2>2. AbsAllocated' = commit + 1
      BY <1>4, <2>1 DEF AbsAllocated
    <2>3. AbsAllocated = commit + 1
      BY <1>1, <1>4 DEF AbsAllocated
    <2> QED
      BY <2>2, <2>3
  <1> QED
    BY <1>3, <1>4

\* The slot's compare-and-swap is the allocation.
LEMMA InstallAllocates ==
  ASSUME IInv, IInv', NEW t \in Tx, ClaimInstall(t)
  PROVE  Frontier!Allocate(t)
  <1>0. /\ commit \in Nat /\ claim \in [Tx -> Nat] /\ TypeOK /\ ClaimOK(t)
    BY DEF IInv, TypeOK, ClaimInv
  <1>1. /\ pc[t] = "install" /\ pc'[t] = "counter" /\ commit' = commit /\ visible' = visible
        /\ claim' = claim /\ stamp' = stamp /\ \A s \in Tx \ {t} : pc'[s] = pc[s]
    BY <1>0 DEF ClaimInstall, At, Goto, records, TypeOK
  <1>2. /\ \A s \in Tx : Installed(s) => claim[s] # claim[t]
        /\ claim[t] > commit
    BY InstallFresh
  <1>3. claim[t] = commit + 1
    BY <1>0, <1>1, <1>2 DEF ClaimOK
  <1>4. \A s \in Tx : Installed(s) => claim[s] <= commit
    <2>1. \A s \in Tx : Installed(s) => claim[s] <= commit + 1
      BY DEF IInv, ClaimInv, ClaimOK, Installed, Claiming
    <2> QED
      BY <1>0, <1>2, <1>3, <2>1
  <1>5. ~Installed(t) /\ Installed(t)' /\ \A s \in Tx \ {t} : Installed(s)' <=> Installed(s)
    BY <1>1 DEF Installed, Claiming
  <1>6. AbsAllocated = commit
    BY <1>0, <1>4 DEF AbsAllocated
  <1>7. AbsAllocated' = commit + 1
    BY <1>0, <1>1, <1>3, <1>5 DEF AbsAllocated
  <1>8. AbsAt[t] = 0 /\ AbsAt' = [AbsAt EXCEPT ![t] = commit + 1]
    BY <1>1, <1>3, <1>5 DEF AbsAt
  <1>9. AbsOutcome' = AbsOutcome
    BY <1>1, OutcomeSame, OutcomeFunction DEF Finishing
  <1> QED
    BY <1>1, <1>6, <1>7, <1>8, <1>9 DEF Frontier!Allocate

\* One record's outcome goes from none to o, and nothing else changes.
LEMMA Decides ==
  ASSUME IInv, IInv', NEW t \in Tx, NEW o \in {"committed", "aborted"},
         Installed(t), Undecided(t), AbsOutcome'[t] = o,
         \A s \in Tx \ {t} : AbsOutcome'[s] = AbsOutcome[s],
         AbsAt' = AbsAt, AbsAllocated' = AbsAllocated, visible' = visible
  PROVE  Frontier!Decide(t, o)
  <1>1. AbsAt[t] # 0 /\ AbsOutcome[t] = "none"
    BY AbsValues
  <1>2. AbsOutcome' = [AbsOutcome EXCEPT ![t] = o]
    BY DEF AbsOutcome
  <1> QED
    BY <1>1, <1>2 DEF Frontier!Decide

\* What the owner does before it publishes, other than installing its record.
LEMMA EarlyRefines ==
  ASSUME IInv, IInv', OutcomeInv, NEW t \in Tx, Allocating(t) \/ Committing(t),
         ~ClaimInstall(t)
  PROVE  \/ UNCHANGED <<AbsAt, AbsOutcome, AbsAllocated, visible>>
         \/ \E o \in {"committed", "aborted"} : Frontier!Decide(t, o)
  <1>0. /\ TypeOK /\ OutcomeOK(t) /\ OwnerOK(t)
        /\ stamp \in [Tx -> {"open", "committed", "aborted", "inline"}]
        /\ pc \in [Tx -> Claiming \cup Owning \cup Finishing]
    BY DEF IInv, TypeOK, OutcomeInv, OwnerInv
  <1>1. Elsewhere(t) /\ EarlyStep(t)
    BY <1>0, EarlySteps
  <1>2. \A s \in Tx : Installed(s) => Installed(s)' /\ claim'[s] = claim[s]
    BY <1>1, StaysInstalled
  <1>3. Installed(t)' => Installed(t)
    BY <1>0 DEF Allocating, Committing, AllocateFor, ClaimLoad, ClaimTaken, ClaimHead,
                ClaimAssist, ClaimLink, ClaimFresh, ClaimLost, ClaimCounter, MarkReady, Abort,
                Commit, Continue, At, Goto, Installed, Claiming
  <1>4. \A s \in Tx : /\ Installed(s)' <=> Installed(s)
                      /\ Installed(s) => claim'[s] = claim[s]
    BY <1>1, <1>2, <1>3 DEF Elsewhere, Installed
  <1>5. AbsAt' = AbsAt /\ visible' = visible
    BY <1>1, <1>4, AtSame DEF EarlyStep
  <1>6. AbsAllocated' = AbsAllocated
    BY <1>4, CounterMoves, AllocatedSame
  <1>7. \A s \in Tx \ {t} : pc'[s] = pc[s] /\ stamp'[s] = stamp[s]
    BY <1>0 DEF Allocating, Committing, AllocateFor, ClaimLoad, ClaimTaken, ClaimHead,
                ClaimAssist, ClaimLink, ClaimFresh, ClaimLost, ClaimCounter, MarkReady, Abort,
                Commit, Continue, records, Goto
  <1>8. \A s \in Tx \ {t} : AbsOutcome'[s] = AbsOutcome[s]
    BY <1>7, OutcomeSame
  <1>9. pc[t] \notin Finishing
    BY <1>1, Disjoint DEF EarlyStep
  <1>10. CASE AbsOutcome'[t] = AbsOutcome[t]
    BY <1>5, <1>6, <1>8, <1>10, OutcomeFunction
  <1>11. CASE AbsOutcome'[t] # AbsOutcome[t]
    <2>1. pc[t] \notin Claiming
      <3> SUFFICES ASSUME pc[t] \in Claiming PROVE FALSE
        OBVIOUS
      <3>1. stamp[t] \in {"open", "inline"} /\ stamp'[t] \in {"open", "inline"}
        <4>1. stamp[t] \in {"open", "inline"}
          BY <1>0 DEF OutcomeOK
        <4> QED
          BY <1>0, <4>1
             DEF Allocating, Committing, AllocateFor, ClaimLoad, ClaimTaken, ClaimHead,
                 ClaimAssist, ClaimLink, ClaimFresh, ClaimLost, ClaimCounter, MarkReady, Abort,
                 Commit, Continue, records, At, Claiming
      <3>2. pc'[t] \in Claiming
        BY <1>3 DEF Installed
      <3>3. Undecided(t) /\ Undecided(t)'
        BY <1>9, <3>1, <3>2, Disjoint DEF Undecided
      <3> QED
        BY <1>11, <3>3, OutcomeSame
    <2>2. CASE ClaimCounter(t)
      <3>1. stamp' = stamp /\ stamp[t] = "inline"
        <4>1. stamp' = stamp
          BY <2>2 DEF ClaimCounter, records
        <4> QED
          BY <1>11, <4>1, OutcomeSame
      <3>2. pc'[t] = "publish"
        BY <1>0, <2>2, <3>1 DEF ClaimCounter, Goto, OutcomeOK
      <3>3. Undecided(t) /\ AbsOutcome'[t] = "committed"
        BY <1>9, <3>1, <3>2 DEF Undecided, AbsOutcome, Finishing
      <3> QED
        BY <1>5, <1>6, <1>8, <2>1, <3>3, Decides DEF Installed
    <2>3. CASE MarkReady(t)
      <3>1. stamp' = stamp /\ pc[t] = "decide"
        BY <2>3 DEF MarkReady, At
      <3>2. stamp[t] = "open"
        BY <3>1, UndecidedOpen
      <3>3. Undecided(t) /\ Undecided(t)'
        BY <3>1, <3>2 DEF Undecided
      <3> QED
        BY <1>11, <3>3, OutcomeSame
    <2>4. CASE Abort(t)
      <3>1. stamp'[t] = "aborted" /\ pc[t] = "decide"
        BY <1>0, <2>4 DEF Abort, At
      <3>2. Undecided(t)
        BY <3>1, UndecidedOpen DEF Undecided
      <3>3. AbsOutcome'[t] = "aborted"
        BY <3>1 DEF AbsOutcome
      <3> QED
        BY <1>5, <1>6, <1>8, <2>1, <3>2, <3>3, Decides DEF Installed
    <2>5. CASE Commit(t)
      <3>1. stamp'[t] = StampOf(t) /\ pc'[t] = "publish"
        BY <1>0, <2>5 DEF Commit, Goto
      <3>2. CASE stamp[t] \in {"open", "inline"}
        <4>1. Undecided(t) /\ AbsOutcome'[t] = "committed"
          BY <1>9, <3>1, <3>2 DEF Undecided, StampOf, AbsOutcome, Finishing
        <4> QED
          BY <1>5, <1>6, <1>8, <2>1, <4>1, Decides DEF Installed
      <3>3. CASE stamp[t] \notin {"open", "inline"}
        <4>1. stamp'[t] = stamp[t]
          BY <3>1, <3>3 DEF StampOf
        <4> QED
          BY <1>11, <3>3, <4>1, OutcomeSame
      <3> QED
        BY <3>2, <3>3
    <2> QED
      BY <2>1, <2>2, <2>3, <2>4, <2>5
         DEF Allocating, Committing, AllocateFor, ClaimLoad, ClaimTaken, ClaimHead, ClaimAssist,
             ClaimLink, ClaimFresh, ClaimInstall, ClaimLost, At, Claiming
  <1> QED
    BY <1>10, <1>11

\* What a publication does: it may stamp a ready record and move the frontier.
LEMMA LateRefines ==
  ASSUME IInv, IInv', NEW t \in Tx, Publishing(t) \/ Advancing(t)
  PROVE  \/ UNCHANGED <<AbsAt, AbsOutcome, AbsAllocated, visible>>
         \/ \E s \in Tx : Frontier!Decide(s, "committed") \/ Frontier!Pass(s)
  <1>0. /\ TypeOK /\ visible \in Nat /\ CursorOK(t) /\ PointerOK(t)
        /\ stamp \in [Tx -> {"open", "committed", "aborted", "inline"}]
        /\ pc \in [Tx -> Claiming \cup Owning \cup Finishing]
    BY DEF IInv, TypeOK, CursorInv, PointerInv
  <1>1. Elsewhere(t) /\ LateStep(t)
    BY <1>0, LateSteps
  <1>2. /\ claim' = claim /\ commit' = commit
        /\ \A s \in Tx : Installed(s)' <=> Installed(s)
        /\ \A s \in Tx : pc'[s] \in Finishing <=> pc[s] \in Finishing
    BY <1>1, LateInstalled DEF LateStep, Elsewhere
  <1>3. AbsAt' = AbsAt /\ AbsAllocated' = AbsAllocated
    BY <1>2, AtSame, AllocatedSame
  <1>4. CASE HelpStamp(t)
    <2>1. /\ cur[t] \in Tx /\ Installed(cur[t]) /\ visible' = visible
          /\ \A s \in Tx \ {cur[t]} : stamp'[s] = stamp[s]
          /\ stamp'[cur[t]] = "committed" /\ stamp[cur[t]] \in {"open", "committed"}
      BY <1>0, <1>4 DEF HelpStamp, StampOf, At, CursorOK, PointerOK, TypeOK, counters
    <2>2. \A s \in Tx \ {cur[t]} : AbsOutcome'[s] = AbsOutcome[s]
      BY <1>2, <2>1, OutcomeSame
    <2>3. AbsOutcome'[cur[t]] = "committed"
      BY <2>1 DEF AbsOutcome
    <2>4. CASE stamp[cur[t]] = "open"
      <3>1. Undecided(cur[t])
        BY <2>4 DEF Undecided
      <3> QED
        BY <1>3, <2>1, <2>2, <2>3, <3>1, Decides
    <2>5. CASE stamp[cur[t]] = "committed"
      <3>1. AbsOutcome'[cur[t]] = AbsOutcome[cur[t]]
        BY <1>2, <2>1, <2>5, OutcomeSame
      <3> QED
        BY <1>3, <2>1, <2>2, <3>1, OutcomeFunction
    <2> QED
      BY <2>1, <2>4, <2>5
  <1>5. CASE ~HelpStamp(t)
    <2>1. stamp' = stamp
      BY <1>5 DEF Publishing, PublishInOrder, PublishBlocked, CheckPending, CheckLinked, SeekOwn,
                  Unlink, Unlinked, CheckLate, SeekMark, Mark, Count, Recheck, Settle, Uncount,
                  Found, NotFound, ClearLink, CountLink, SettleRec, CountOut, Advancing, Advance,
                  SeekNext, Examine, CheckReady, Raise, RaiseLost, PassSettle, PassUncount,
                  PassUnlink, PassDrop, CheckWaiters, WakeWaiters, Return, Continue, records
    <2>2. AbsOutcome' = AbsOutcome
      BY <1>2, <2>1, OutcomeSame, OutcomeFunction
    <2>3. ASSUME NEW s \in Tx, Installed(s), claim[s] = visible + 1, visible' = visible + 1,
                 ~Undecided(s)
          PROVE  Frontier!Pass(s)
      <3>1. AbsAt[s] = visible + 1 /\ AbsOutcome[s] # "none"
        BY <2>3, AbsValues
      <3> QED
        BY <1>3, <2>2, <2>3, <3>1 DEF Frontier!Pass
    <2>4. CASE visible' # visible /\ pc[t] = "publish"
      <3>1. visible' = visible + 1 /\ claim[t] = visible'
        BY <1>1, <2>4, FrontierMoves
      <3>2. Installed(t) /\ pc[t] \in Finishing /\ stamp[t] # "open"
        BY <2>4 DEF Installed, Claiming, Finishing, IInv, OwnerInv, OwnerOK
      <3> QED
        BY <2>3, <3>1, <3>2 DEF Undecided
    <2>5. CASE visible' # visible /\ pc[t] = "raise"
      <3>1. visible' = visible + 1 /\ cur[t] \in Tx /\ claim[cur[t]] = visible'
        BY <1>1, <2>5, FrontierMoves
      <3>2. Discharged(cur[t]) /\ Installed(cur[t])
        BY <1>0, <2>5, <3>1 DEF CursorOK, PointerOK
      <3> QED
        BY <2>3, <3>1, <3>2 DEF Undecided, Discharged
    <2>6. CASE visible' = visible
      BY <1>3, <2>2, <2>6
    <2> QED
      BY <1>1, <2>4, <2>5, <2>6, FrontierMoves
  <1> QED
    BY <1>4, <1>5

LEMMA RatchetRefines ==
  ASSUME SInv, NEW n \in 1 .. MaxFloor, RatchetTo(n)
  PROVE  Frontier!Ratchet(n)
  <1>0. /\ IInv /\ visible \in Nat /\ commit \in Nat /\ claim \in [Tx -> Nat]
    BY DEF SInv, IInv, TypeOK
  <1>1. Quiet /\ UNCHANGED <<claim, stamp, pc>>
    BY DEF RatchetTo, Quiet, records
  <1>2. visible = commit /\ \A t \in Tx : Installed(t) => claim[t] <= visible
    BY <1>1, SettledWhenQuiet
  <1>3. commit' = n /\ visible' = n /\ commit < n
    BY <1>0, <1>2 DEF RatchetTo
  <1>4. AbsAt' = AbsAt /\ AbsOutcome' = AbsOutcome
    BY <1>1 DEF AbsAt, AbsOutcome, Installed
  <1>5. AbsAllocated = commit
    BY <1>0, <1>2 DEF AbsAllocated
  <1>6. AbsAllocated' = n
    <2>1. \A t \in Tx : Installed(t)' => ~(claim'[t] > commit')
      BY <1>0, <1>1, <1>2, <1>3 DEF Installed
    <2> QED
      BY <1>3, <2>1 DEF AbsAllocated
  <1>7. \A t \in Tx : AbsAt[t] # 0 => AbsOutcome[t] # "none"
    <2> SUFFICES ASSUME NEW t \in Tx, Installed(t) PROVE ~Undecided(t)
      BY <1>0, AbsValues
    <2>1. pc[t] \in Finishing
      BY <1>1 DEF Quiet, Installed, Claiming, Finishing
    <2> QED
      BY <1>0, <2>1 DEF Undecided, IInv, OwnerInv, OwnerOK
  <1> QED
    BY <1>2, <1>3, <1>4, <1>5, <1>6, <1>7 DEF Frontier!Ratchet

\* A waiter's step, or none.
LEMMA IdleRefines ==
  ASSUME UNCHANGED <<counters, records, locals, pc>>
  PROVE  UNCHANGED <<AbsAt, AbsOutcome, AbsAllocated, visible>>
  <1>1. UNCHANGED <<commit, visible, claim, stamp, pc>>
    BY DEF counters, records
  <1> QED
    BY <1>1 DEF AbsAt, AbsOutcome, AbsAllocated, Installed

LEMMA NextRefines ==
  SInv /\ OutcomeInv /\ [Next]_vars => [Frontier!Next]_(Frontier!fvars)
  <1> SUFFICES ASSUME SInv, OutcomeInv, [Next]_vars
               PROVE  \/ Frontier!Next
                      \/ UNCHANGED <<AbsAt, AbsOutcome, AbsAllocated, visible>>
    BY DEF Frontier!fvars
  <1>0. IInv /\ IInv'
    BY NextIInv DEF SInv
  <1>1. CASE UNCHANGED vars \/ Stopped
    BY <1>1, IdleRefines DEF Stopped, vars
  <1>2. CASE \E w \in Waiters : Await(w) \/ Awaiting(w) \/ AwaitCancel(w)
    BY <1>2, WaitersIdle, IdleRefines
  <1>3. CASE \E n \in 1 .. MaxFloor : RatchetTo(n)
    BY <1>3, RatchetRefines DEF Frontier!Next
  <1>4. ASSUME NEW t \in Tx, TxStep(t)
        PROVE  \/ Frontier!Next
               \/ UNCHANGED <<AbsAt, AbsOutcome, AbsAllocated, visible>>
    <2>1. CASE ClaimInstall(t)
      BY <1>0, <2>1, InstallAllocates DEF Frontier!Next
    <2>2. CASE (Allocating(t) \/ Committing(t)) /\ ~ClaimInstall(t)
      BY <1>0, <2>2, EarlyRefines DEF Frontier!Next, Frontier!Outcomes
    <2>3. CASE Publishing(t) \/ Advancing(t)
      BY <1>0, <2>3, LateRefines DEF Frontier!Next, Frontier!Outcomes
    <2> QED
      BY <1>4, <2>1, <2>2, <2>3 DEF TxStep
  <1> QED
    BY <1>1, <1>2, <1>3, <1>4 DEF Next

LEMMA InitRefines == Init => OutcomeInv /\ Frontier!Init
  <1> SUFFICES ASSUME Init PROVE OutcomeInv /\ Frontier!Init
    OBVIOUS
  <1>1. \A t \in Tx : ~Installed(t) /\ stamp[t] = "open"
    BY DEF Init, Installed, Claiming
  <1>2. OutcomeInv
    BY <1>1 DEF OutcomeInv, OutcomeOK
  <1>3. AbsAt = [t \in Tx |-> 0] /\ AbsOutcome = [t \in Tx |-> "none"] /\ AbsAllocated = 0
    BY <1>1 DEF AbsAt, AbsOutcome, AbsAllocated, Init
  <1> QED
    BY <1>2, <1>3 DEF Frontier!Init, Init

\* The lock-free clock implements the abstract one: to its callers a commit
\* takes the next timestamp, is decided once, and becomes visible in order,
\* whoever helped whom.
THEOREM Refinement == Spec => ImplementsFrontier
  <1>1. Init => SInv /\ OutcomeInv /\ Frontier!Init
    BY InitSettled, InitRefines
  <1>2. SInv /\ OutcomeInv /\ [Next]_vars => SInv' /\ OutcomeInv'
    BY NextSettled, NextOutcome DEF SInv
  <1> QED
    BY <1>1, <1>2, NextRefines, PTL DEF Spec, ImplementsFrontier, Frontier!Spec
=============================================================================
