---------------------------- MODULE CommitClock ----------------------------
(***************************************************************************)
(* The MVCC commit clock of graph/mvcc: timestamp allocation through the   *)
(* lock-free commit registry (commitlog.go), publication in and out of     *)
(* order with helping (mvcc.go), and the waiters on the visible frontier   *)
(* (await.go).                                                             *)
(*                                                                         *)
(* A member of Tx is one committing transaction: the goroutine that runs   *)
(* it and the CommitInfo it registers.  Every load, store and              *)
(* compare-and-swap of shared memory that another goroutine can observe is *)
(* a step of its own; loads of fields that no longer change (the claim of  *)
(* an installed record) are folded into the step that uses them.           *)
(*                                                                         *)
(* The four ways the code commits are the Kinds:                           *)
(*   "direct"   AllocateFor(info, true), Commit, PublishCommit(info)       *)
(*   "durable"  AllocateFor(info, false) before the WAL fsync, then either *)
(*              MarkReady, Commit, PublishCommit(info) or Abort and        *)
(*              AbandonCommit(info)                                        *)
(*   "split"    like "durable" for a transaction that had no version       *)
(*              record yet: the registered record is an anonymous one that *)
(*              never becomes ready, the versions carry another            *)
(*   "untracked" NextCommitTS, PublishCommitTS: nobody keeps the record    *)
(***************************************************************************)
EXTENDS Integers, FiniteSets

CONSTANTS
  Tx,             \* the transactions that may commit (bounds the timestamps)
  Waiters,        \* the goroutines that may call AwaitVisible
  Kinds,          \* the commit protocols in use, a subset of AllKinds
  RegistrySlots,  \* the number of slots of the registry (4096 in the code)
  MaxFloor,       \* the highest floor recovery may ratchet the clock to
  NoTx            \* the nil record

AllKinds == {"direct", "durable", "split", "untracked"}

ASSUME KindsAssumption == Kinds \subseteq AllKinds
ASSUME SlotsAssumption == RegistrySlots \in Nat \ {0}
ASSUME FloorAssumption == MaxFloor \in Nat
ASSUME NoTxAssumption == NoTx \notin Tx

VARIABLES
  commit,    \* Clock.commit: the allocation counter
  visible,   \* Clock.visible: the published frontier
  slots,     \* commitRegistry.slots: the newest record of each residue
  pending,   \* commitRegistry.pending
  linked,    \* commitRegistry.linked
  claim,     \* CommitInfo.claim
  stamp,     \* CommitInfo.ts of the record the versions carry
  ready,     \* CommitInfo.ready
  finished,  \* CommitInfo.finished
  older,     \* CommitInfo.older
  waiters,   \* Clock.waiters
  gate,      \* Clock.wait: number of the current channel, 0 while nil
  kind,      \* which protocol the transaction commits by
  pc,        \* where each transaction's goroutine is
  head,      \* claim's head
  cur,       \* the record find is at, or the one advance works on
  f,         \* advance's f
  mode,      \* how finishCommitTS runs advance: in order, late or helping
  moved,     \* advance's moved
  wpc,       \* where each waiter is
  floor,     \* AwaitVisible's floor
  ch         \* the channel AwaitVisible took

counters == <<commit, visible, slots, pending, linked>>
records == <<claim, stamp, ready, finished, older>>
locals == <<kind, head, cur, f, mode, moved>>
waiting == <<waiters, gate, wpc, floor, ch>>
vars == <<counters, records, locals, waiting, pc>>

(***************************************************************************)
(* Program points.  Before Claimed the transaction has no timestamp; from  *)
(* Finishing on its owner is inside finishCommitTS.                        *)
(***************************************************************************)
Claiming == {"idle", "load", "head", "assist", "link", "install"}
Owning == {"counter", "decide", "stamp"}
Finishing == {"publish", "pending", "linked", "seekOwn", "unlink", "unlinked",
              "late", "seekMark", "mark", "count", "recheck", "settle",
              "uncount", "advance", "seekNext", "examine", "checkReady",
              "helpStamp", "raise", "passSettle", "passUncount",
              "passUnlink", "passDrop", "waiters", "wake", "done"}

Installed(t) == pc[t] \notin Claiming

Slot(n) == n % RegistrySlots

KeepsRecord(t) == kind[t] # "untracked"

Init ==
  /\ commit = 0 /\ visible = 0 /\ pending = 0 /\ linked = 0
  /\ slots = [i \in 0 .. RegistrySlots - 1 |-> NoTx]
  /\ claim = [t \in Tx |-> 0]
  /\ stamp = [t \in Tx |-> "open"]
  /\ ready = [t \in Tx |-> FALSE]
  /\ finished = [t \in Tx |-> "none"]
  /\ older = [t \in Tx |-> NoTx]
  /\ waiters = 0 /\ gate = 0
  /\ kind \in [Tx -> Kinds]
  /\ pc = [t \in Tx |-> "idle"]
  /\ head = [t \in Tx |-> NoTx]
  /\ cur = [t \in Tx |-> NoTx]
  /\ f = [t \in Tx |-> 0]
  /\ mode = [t \in Tx |-> "inorder"]
  /\ moved = [t \in Tx |-> FALSE]
  /\ wpc = [w \in Waiters |-> "idle"]
  /\ floor = [w \in Waiters |-> 0]
  /\ ch = [w \in Waiters |-> 0]

Goto(t, label) == pc' = [pc EXCEPT ![t] = label]

At(t, label) == pc[t] = label

\* A step that only reads shared memory and branches.
Continue(t, label) ==
  /\ Goto(t, label)
  /\ UNCHANGED <<counters, records, locals, waiting>>

-----------------------------------------------------------------------------
(* RatchetTo: recovery raises the clock while no commit is in flight.      *)

RatchetTo(n) ==
  /\ \A t \in Tx : pc[t] \in {"idle", "done"}
  /\ commit < n
  /\ commit' = n
  /\ visible' = IF visible < n THEN n ELSE visible
  /\ UNCHANGED <<slots, pending, linked, records, locals, waiting, pc>>

-----------------------------------------------------------------------------
(* AllocateFor and commitRegistry.claim.                                   *)

AllocateFor(t) ==
  /\ At(t, "idle")
  /\ ready' = [ready EXCEPT ![t] = kind[t] = "direct"]
  /\ stamp' = [stamp EXCEPT ![t] = IF KeepsRecord(t) THEN "open" ELSE "inline"]
  /\ Goto(t, "load")
  /\ UNCHANGED <<counters, claim, finished, older, locals, waiting>>

\* Mutant: the timestamp is computed below the counter.
ClaimLoadBelow(t) ==
  /\ At(t, "load")
  /\ claim' = [claim EXCEPT ![t] = commit - 1]
  /\ Goto(t, "head")
  /\ UNCHANGED <<counters, stamp, ready, finished, older, locals, waiting>>

\* Mutant: a timestamp is left out.
ClaimLoadAhead(t) ==
  /\ At(t, "load")
  /\ claim' = [claim EXCEPT ![t] = commit + 2]
  /\ Goto(t, "head")
  /\ UNCHANGED <<counters, stamp, ready, finished, older, locals, waiting>>

\* ts := commit.Load() + 1.  The claim field is private until the record is
\* installed, so it stands for the local ts as well.
ClaimLoad(t) ==
  /\ At(t, "load")
  /\ claim' = [claim EXCEPT ![t] = commit + 1]
  /\ Goto(t, "head")
  /\ UNCHANGED <<counters, stamp, ready, finished, older, locals, waiting>>

\* head := slot.Load(): somebody has claimed the timestamp already, or nobody
\* has.
Taken(t) ==
  LET h == slots[Slot(claim[t])] IN h # NoTx /\ claim[h] >= claim[t]

ClaimTaken(t) ==
  /\ At(t, "head")
  /\ Taken(t)
  /\ Continue(t, "assist")

ClaimHead(t) ==
  /\ At(t, "head")
  /\ ~Taken(t)
  /\ head' = [head EXCEPT ![t] = slots[Slot(claim[t])]]
  /\ Goto(t, "link")
  /\ UNCHANGED <<counters, records, kind, cur, f, mode, moved, waiting>>

\* The counter is advanced for the claimant, and the loop starts over.
ClaimAssist(t) ==
  /\ At(t, "assist")
  /\ commit' = IF commit = claim[t] - 1 THEN claim[t] ELSE commit
  /\ Goto(t, "load")
  /\ UNCHANGED <<visible, slots, pending, linked, records, locals, waiting>>

\* A head the frontier has not passed is kept findable behind the record.
HeadPending(t) == head[t] # NoTx /\ claim[head[t]] > visible

\* Mutant: a pending head is replaced, not linked.
ClaimLinkNever(t) ==
  /\ At(t, "link")
  /\ HeadPending(t)
  /\ Continue(t, "install")

ClaimLink(t) ==
  /\ At(t, "link")
  /\ HeadPending(t)
  /\ older' = [older EXCEPT ![t] = head[t]]
  /\ linked' = linked + 1
  /\ Goto(t, "install")
  /\ UNCHANGED <<commit, visible, slots, pending, claim, stamp, ready,
                 finished, locals, waiting>>

ClaimFresh(t) ==
  /\ At(t, "link")
  /\ ~HeadPending(t)
  /\ Continue(t, "install")

\* Mutant: the record is stored without comparing the slot.
ClaimInstallBlind(t) ==
  /\ At(t, "install")
  /\ slots' = [slots EXCEPT ![Slot(claim[t])] = t]
  /\ head' = [head EXCEPT ![t] = NoTx]
  /\ Goto(t, "counter")
  /\ UNCHANGED <<commit, visible, pending, linked, records, kind, cur, f,
                 mode, moved, waiting>>

\* slot.CompareAndSwap(head, info): this is the allocation.
ClaimInstall(t) ==
  /\ At(t, "install")
  /\ slots[Slot(claim[t])] = head[t]
  /\ slots' = [slots EXCEPT ![Slot(claim[t])] = t]
  /\ head' = [head EXCEPT ![t] = NoTx]
  /\ Goto(t, "counter")
  /\ UNCHANGED <<commit, visible, pending, linked, records, kind, cur, f,
                 mode, moved, waiting>>

\* The slot went to somebody else: the link is taken back.
ClaimLost(t) ==
  /\ At(t, "install")
  /\ slots[Slot(claim[t])] # head[t]
  /\ older' = [older EXCEPT ![t] = NoTx]
  /\ linked' = IF older[t] # NoTx THEN linked - 1 ELSE linked
  /\ head' = [head EXCEPT ![t] = NoTx]
  /\ Goto(t, "load")
  /\ UNCHANGED <<commit, visible, slots, pending, claim, stamp, ready,
                 finished, kind, cur, f, mode, moved, waiting>>

\* The counter follows the slot.
ClaimCounter(t) ==
  /\ At(t, "counter")
  /\ commit' = IF commit = claim[t] - 1 THEN claim[t] ELSE commit
  /\ Goto(t, CASE kind[t] = "direct" -> "stamp"
               [] kind[t] = "untracked" -> "publish"
               [] OTHER -> "decide")
  /\ UNCHANGED <<visible, slots, pending, linked, records, locals, waiting>>

-----------------------------------------------------------------------------
(* The owner between its allocation and its publication (graph/lpg's       *)
(* endWrite).                                                              *)

\* allocateReady marks the record the versions carry, which for a "split"
\* transaction is not the one the clock knows.
MarkReady(t) ==
  /\ At(t, "decide")
  /\ ready' = [ready EXCEPT ![t] = kind[t] = "durable"]
  /\ Goto(t, "stamp")
  /\ UNCHANGED <<counters, claim, stamp, finished, older, locals, waiting>>

\* abortRecord, then AbandonCommit.
Abort(t) ==
  /\ At(t, "decide")
  /\ stamp' = [stamp EXCEPT ![t] = "aborted"]
  /\ Goto(t, "publish")
  /\ UNCHANGED <<counters, claim, ready, finished, older, locals, waiting>>

StampOf(t) == IF stamp[t] = "open" THEN "committed" ELSE stamp[t]

\* CommitInfo.Commit: a no-op when a helper has stamped the record.
Commit(t) ==
  /\ At(t, "stamp")
  /\ stamp' = [stamp EXCEPT ![t] = StampOf(t)]
  /\ Goto(t, "publish")
  /\ UNCHANGED <<counters, claim, ready, finished, older, locals, waiting>>

-----------------------------------------------------------------------------
(* finishCommitTS, in order.                                               *)

PublishInOrder(t) ==
  /\ At(t, "publish")
  /\ visible = claim[t] - 1
  /\ visible' = claim[t]
  /\ mode' = [mode EXCEPT ![t] = "inorder"]
  /\ Goto(t, "pending")
  /\ UNCHANGED <<commit, slots, pending, linked, records, kind, head, cur, f,
                 moved, waiting>>

PublishBlocked(t) ==
  /\ At(t, "publish")
  /\ visible # claim[t] - 1
  /\ mode' = [mode EXCEPT ![t] = "late"]
  /\ Goto(t, "late")
  /\ UNCHANGED <<counters, records, kind, head, cur, f, moved, waiting>>

\* Mutant: an in-order publication never walks on.
CheckPendingSkip(t) == At(t, "pending") /\ Continue(t, "linked")

CheckPending(t) ==
  /\ At(t, "pending")
  /\ Continue(t, IF pending # 0 THEN "advance" ELSE "linked")

CheckLinked(t) ==
  /\ At(t, "linked")
  /\ cur' = [cur EXCEPT ![t] = IF linked # 0 /\ KeepsRecord(t) THEN t ELSE NoTx]
  /\ Goto(t, CASE linked = 0 -> "waiters"
               [] linked # 0 /\ KeepsRecord(t) -> "unlink"
               [] OTHER -> "seekOwn")
  /\ UNCHANGED <<counters, records, kind, head, f, mode, moved, waiting>>

\* One load of commitRegistry.find(n): the slot's head first, then the older
\* links.  The search fails when it runs out or meets an older claim.
Loaded(t, n) == IF cur[t] = NoTx THEN slots[Slot(n)] ELSE older[cur[t]]

Reaches(t, n) == Loaded(t, n) # NoTx /\ claim[Loaded(t, n)] >= n

\* A search that goes on, at the same label, or ends at yes, the record in cur.
Found(t, n, yes) ==
  /\ Reaches(t, n)
  /\ cur' = [cur EXCEPT ![t] = Loaded(t, n)]
  /\ Goto(t, IF claim[Loaded(t, n)] = n THEN yes ELSE pc[t])
  /\ UNCHANGED <<counters, records, kind, head, f, mode, moved, waiting>>

NotFound(t, n, no) ==
  /\ ~Reaches(t, n)
  /\ cur' = [cur EXCEPT ![t] = NoTx]
  /\ Goto(t, no)
  /\ UNCHANGED <<counters, records, kind, head, f, mode, moved, waiting>>

SeekOwn(t) ==
  /\ At(t, "seekOwn")
  /\ Found(t, claim[t], "unlink") \/ NotFound(t, claim[t], "waiters")

\* commitRegistry.unlink of the record in cur: clear the link, then count it
\* out.
ClearLink(t, counted, next) ==
  /\ older' = [older EXCEPT ![cur[t]] = NoTx]
  /\ cur' = [cur EXCEPT ![t] = NoTx]
  /\ Goto(t, IF older[cur[t]] # NoTx THEN counted ELSE next)
  /\ UNCHANGED <<counters, claim, stamp, ready, finished, kind, head, f, mode,
                 moved, waiting>>

CountLink(t, next) ==
  /\ linked' = linked - 1
  /\ Goto(t, next)
  /\ UNCHANGED <<commit, visible, slots, pending, records, locals, waiting>>

Unlink(t) == At(t, "unlink") /\ ClearLink(t, "unlinked", "waiters")

Unlinked(t) == At(t, "unlinked") /\ CountLink(t, "waiters")

-----------------------------------------------------------------------------
(* finishCommitTS, out of order.                                           *)

CheckLate(t) ==
  /\ At(t, "late")
  /\ Continue(t, CASE claim[t] <= visible -> "advance"
                   [] claim[t] > visible /\ KeepsRecord(t) -> "mark"
                   [] OTHER -> "seekMark")

SeekMark(t) ==
  /\ At(t, "seekMark")
  /\ Found(t, claim[t], "mark") \/ NotFound(t, claim[t], "advance")

\* finished.CompareAndSwap(none, marked).  The record is the caller's own or
\* the one found under its timestamp.
Mark(t) ==
  /\ At(t, "mark")
  /\ LET rec == IF KeepsRecord(t) THEN t ELSE cur[t]
     IN  /\ finished[rec] = "none"
         /\ finished' = [finished EXCEPT ![rec] = "marked"]
  /\ cur' = [cur EXCEPT ![t] = NoTx]
  /\ Goto(t, "count")
  /\ UNCHANGED <<counters, claim, stamp, ready, older, kind, head, f, mode,
                 moved, waiting>>

Count(t) ==
  /\ At(t, "count")
  /\ pending' = pending + 1
  /\ mode' = [mode EXCEPT ![t] = "help"]
  /\ Goto(t, "recheck")
  /\ UNCHANGED <<commit, visible, slots, linked, records, kind, head, cur, f,
                 moved, waiting>>

\* Mutant: the frontier is not read again after the mark.
RecheckMissing(t) == At(t, "recheck") /\ Continue(t, "advance")

\* A helper may have passed the record before it was marked.
Recheck(t) ==
  /\ At(t, "recheck")
  /\ Continue(t, IF visible >= claim[t] THEN "settle" ELSE "advance")

\* commitRegistry.settle: the mark is taken back once, then counted out.
SettleRec(t, rec, counted, next) ==
  /\ finished' = [finished EXCEPT ![rec] =
                    IF @ = "marked" THEN "counted" ELSE @]
  /\ Goto(t, IF finished[rec] = "marked" THEN counted ELSE next)
  /\ UNCHANGED <<counters, claim, stamp, ready, older, locals, waiting>>

CountOut(t, next) ==
  /\ pending' = pending - 1
  /\ Goto(t, next)
  /\ UNCHANGED <<commit, visible, slots, linked, records, locals, waiting>>

Settle(t) == At(t, "settle") /\ SettleRec(t, t, "uncount", "advance")

Uncount(t) == At(t, "uncount") /\ CountOut(t, "advance")

-----------------------------------------------------------------------------
(* advance.                                                                *)

\* Mutant: only an in-order publication wakes the waiters.
ReturnSilent(t) ==
  /\ Goto(t, IF mode[t] = "inorder" THEN "linked" ELSE "done")
  /\ cur' = [cur EXCEPT ![t] = NoTx]
  /\ f' = [f EXCEPT ![t] = 0]
  /\ mode' = [mode EXCEPT ![t] = "inorder"]
  /\ moved' = [moved EXCEPT ![t] = FALSE]
  /\ UNCHANGED <<counters, records, kind, head, waiting>>

\* advance returns: an in-order publication goes on to its link, another one
\* wakes the waiters if the frontier moved.
Return(t) ==
  /\ Goto(t, CASE mode[t] = "inorder" -> "linked"
               [] mode[t] # "inorder" /\ moved[t] -> "waiters"
               [] OTHER -> "done")
  /\ cur' = [cur EXCEPT ![t] = NoTx]
  /\ f' = [f EXCEPT ![t] = 0]
  /\ mode' = [mode EXCEPT ![t] = "inorder"]
  /\ moved' = [moved EXCEPT ![t] = FALSE]
  /\ UNCHANGED <<counters, records, kind, head, waiting>>

Advance(t) ==
  /\ At(t, "advance")
  /\ f' = [f EXCEPT ![t] = visible]
  /\ Goto(t, "seekNext")
  /\ UNCHANGED <<counters, records, kind, head, cur, mode, moved, waiting>>

SeekNext(t) ==
  /\ At(t, "seekNext")
  /\ Found(t, f[t] + 1, "examine") \/ (~Reaches(t, f[t] + 1) /\ Return(t))

\* Mutant: help is given beyond the helper's own timestamp.
MayHelpBeyond(t) == mode[t] = "help"

MayHelp(t) == mode[t] = "help" /\ f[t] < claim[t]

Examine(t) ==
  /\ At(t, "examine")
  /\ CASE finished[cur[t]] # "none" -> Continue(t, "raise")
       [] finished[cur[t]] = "none" /\ MayHelp(t) -> Continue(t, "checkReady")
       [] OTHER -> Return(t)

\* Mutant: a record that is not ready is helped too.
CheckReadyAny(t) == At(t, "checkReady") /\ Continue(t, "helpStamp")

CheckReady(t) ==
  /\ At(t, "checkReady")
  /\ IF ready[cur[t]] THEN Continue(t, "helpStamp") ELSE Return(t)

\* Mutant: the frontier is raised over a record left unstamped.
HelpStampMissing(t) == At(t, "helpStamp") /\ Continue(t, "raise")

\* rec.stamp(next), and the re-read that finds it committed at next.
HelpStamp(t) ==
  /\ At(t, "helpStamp")
  /\ stamp' = [stamp EXCEPT ![cur[t]] = StampOf(cur[t])]
  /\ StampOf(cur[t]) = "committed"
  /\ Goto(t, "raise")
  /\ UNCHANGED <<counters, claim, ready, finished, older, locals, waiting>>

\* The frontier moves from f to f + 1, or somebody else has moved it.
Raise(t) ==
  /\ At(t, "raise")
  /\ visible = f[t]
  /\ visible' = f[t] + 1
  /\ moved' = [moved EXCEPT ![t] = mode[t] # "inorder"]
  /\ f' = [f EXCEPT ![t] = 0]
  /\ Goto(t, "passSettle")
  /\ UNCHANGED <<commit, slots, pending, linked, records, kind, head, cur,
                 mode, waiting>>

RaiseLost(t) ==
  /\ At(t, "raise")
  /\ visible # f[t]
  /\ cur' = [cur EXCEPT ![t] = NoTx]
  /\ f' = [f EXCEPT ![t] = 0]
  /\ Goto(t, "advance")
  /\ UNCHANGED <<counters, records, kind, head, mode, moved, waiting>>

\* commitRegistry.passed.
PassSettle(t) ==
  At(t, "passSettle") /\ SettleRec(t, cur[t], "passUncount", "passUnlink")

PassUncount(t) == At(t, "passUncount") /\ CountOut(t, "passUnlink")

\* Mutant: passing a record leaves its link.
PassUnlinkMissing(t) ==
  /\ At(t, "passUnlink")
  /\ cur' = [cur EXCEPT ![t] = NoTx]
  /\ Goto(t, "advance")
  /\ UNCHANGED <<counters, records, kind, head, f, mode, moved, waiting>>

PassUnlink(t) == At(t, "passUnlink") /\ ClearLink(t, "passDrop", "advance")

PassDrop(t) == At(t, "passDrop") /\ CountLink(t, "advance")

-----------------------------------------------------------------------------
(* wakeWaiters and AwaitVisible.                                           *)

CheckWaiters(t) ==
  /\ At(t, "waiters")
  /\ Continue(t, IF waiters > 0 THEN "wake" ELSE "done")

\* The current channel is closed and a fresh one installed.
WakeWaiters(t) ==
  /\ At(t, "wake")
  /\ gate' = gate + 1
  /\ Goto(t, "done")
  /\ UNCHANGED <<counters, records, locals, waiters, wpc, floor, ch>>

WGoto(w, label) == wpc' = [wpc EXCEPT ![w] = label]

\* AwaitVisible(floor) with its fast path; a floor is the timestamp of an
\* allocated commit (a session's own, or Clock.Allocated).
Await(w) ==
  /\ wpc[w] = "idle"
  /\ \E n \in 1 .. commit :
       /\ floor' = [floor EXCEPT ![w] = n]
       /\ WGoto(w, IF visible >= n THEN "done" ELSE "enter")
  /\ UNCHANGED <<counters, records, locals, pc, waiters, gate, ch>>

\* Mutant: the waiter does not register.
AwaitEnterUncounted(w) ==
  /\ wpc[w] = "enter"
  /\ WGoto(w, "gate")
  /\ UNCHANGED <<counters, records, locals, pc, waiters, gate, floor, ch>>

AwaitEnter(w) ==
  /\ wpc[w] = "enter"
  /\ waiters' = waiters + 1
  /\ WGoto(w, "gate")
  /\ UNCHANGED <<counters, records, locals, pc, gate, floor, ch>>

\* The channel is taken before the frontier is re-read.
AwaitGate(w) ==
  /\ wpc[w] = "gate"
  /\ gate' = IF gate = 0 THEN 1 ELSE gate
  /\ ch' = [ch EXCEPT ![w] = gate']
  /\ WGoto(w, "check")
  /\ UNCHANGED <<counters, records, locals, pc, waiters, floor>>

AwaitCheck(w) ==
  /\ wpc[w] = "check"
  /\ WGoto(w, IF visible >= floor[w] THEN "leave" ELSE "blocked")
  /\ UNCHANGED <<counters, records, locals, pc, waiters, gate, floor, ch>>

\* A channel below the current one has been closed.
AwaitWoken(w) ==
  /\ wpc[w] = "blocked"
  /\ ch[w] < gate
  /\ WGoto(w, "gate")
  /\ UNCHANGED <<counters, records, locals, pc, waiters, gate, floor, ch>>

AwaitCancel(w) ==
  /\ wpc[w] = "blocked"
  /\ WGoto(w, "leave")
  /\ UNCHANGED <<counters, records, locals, pc, waiters, gate, floor, ch>>

AwaitLeave(w) ==
  /\ wpc[w] = "leave"
  /\ waiters' = waiters - 1
  /\ WGoto(w, "done")
  /\ UNCHANGED <<counters, records, locals, pc, gate, floor, ch>>

-----------------------------------------------------------------------------
Allocating(t) ==
  \/ AllocateFor(t) \/ ClaimLoad(t) \/ ClaimTaken(t) \/ ClaimHead(t)
  \/ ClaimAssist(t) \/ ClaimLink(t) \/ ClaimFresh(t) \/ ClaimInstall(t)
  \/ ClaimLost(t) \/ ClaimCounter(t)

Committing(t) == MarkReady(t) \/ Abort(t) \/ Commit(t)

Publishing(t) ==
  \/ PublishInOrder(t) \/ PublishBlocked(t) \/ CheckPending(t)
  \/ CheckLinked(t) \/ SeekOwn(t) \/ Unlink(t) \/ Unlinked(t)
  \/ CheckLate(t) \/ SeekMark(t) \/ Mark(t) \/ Count(t) \/ Recheck(t)
  \/ Settle(t) \/ Uncount(t)

Advancing(t) ==
  \/ Advance(t) \/ SeekNext(t) \/ Examine(t) \/ CheckReady(t) \/ HelpStamp(t)
  \/ Raise(t) \/ RaiseLost(t) \/ PassSettle(t) \/ PassUncount(t) \/ PassUnlink(t)
  \/ PassDrop(t) \/ CheckWaiters(t) \/ WakeWaiters(t)

Awaiting(w) ==
  \/ AwaitEnter(w) \/ AwaitGate(w) \/ AwaitCheck(w) \/ AwaitWoken(w)
  \/ AwaitLeave(w)

\* The bounded set of transactions has run out.
Stopped ==
  /\ \A t \in Tx : pc[t] = "done"
  /\ \A w \in Waiters : wpc[w] = "done"
  /\ UNCHANGED vars

TxStep(t) == Allocating(t) \/ Committing(t) \/ Publishing(t) \/ Advancing(t)

Next ==
  \/ \E t \in Tx : TxStep(t)
  \/ \E w \in Waiters : Await(w) \/ Awaiting(w) \/ AwaitCancel(w)
  \/ \E n \in 1 .. MaxFloor : RatchetTo(n)
  \/ Stopped

Spec == Init /\ [][Next]_vars

\* Goroutines are scheduled: one that can run does.  A transaction need not
\* begin and a waiter need not be cancelled.
Fairness ==
  /\ \A t \in Tx : WF_vars(pc[t] # "idle" /\ TxStep(t))
  /\ \A w \in Waiters : WF_vars(Awaiting(w))

FairSpec == Spec /\ Fairness

-----------------------------------------------------------------------------
(* Properties.                                                             *)

TypeOK ==
  /\ commit \in Nat /\ visible \in Nat /\ pending \in Int /\ linked \in Int
  /\ slots \in [0 .. RegistrySlots - 1 -> Tx \cup {NoTx}]
  /\ claim \in [Tx -> Nat]
  /\ stamp \in [Tx -> {"open", "committed", "aborted", "inline"}]
  /\ ready \in [Tx -> BOOLEAN]
  /\ finished \in [Tx -> {"none", "marked", "counted"}]
  /\ older \in [Tx -> Tx \cup {NoTx}]
  /\ waiters \in Int /\ gate \in Nat
  /\ kind \in [Tx -> Kinds]
  /\ pc \in [Tx -> Claiming \cup Owning \cup Finishing]
  /\ head \in [Tx -> Tx \cup {NoTx}]
  /\ cur \in [Tx -> Tx \cup {NoTx}]
  /\ f \in [Tx -> Nat]
  /\ mode \in [Tx -> {"inorder", "late", "help"}]
  /\ moved \in [Tx -> BOOLEAN]
  /\ wpc \in [Waiters -> {"idle", "enter", "gate", "check", "blocked",
                          "leave", "done"}]
  /\ floor \in [Waiters -> Nat]
  /\ ch \in [Waiters -> Nat]

\* The owner publishes t, or t is ready and a helper may have.
Discharged(t) ==
  /\ stamp[t] # "open"
  /\ pc[t] \in Finishing \/ (ready[t] /\ stamp[t] = "committed")

\* The frontier never passes a commit in flight (mvcc.go, invariants 1, 3 and
\* 5): a timestamp at or below visible belongs to a transaction that has been
\* stamped or aborted, and it got there because its owner published it or
\* because it was ready for a helper.
FrontierSafe ==
  \A t \in Tx : Installed(t) /\ claim[t] <= visible => Discharged(t)

\* Exactly one record owns each timestamp (mvcc.go, invariant 7), although the
\* counter may lag behind the slots.
OneOwner ==
  \A s, t \in Tx : Installed(s) /\ Installed(t) /\ claim[s] = claim[t] => s = t

\* InFlightCommits never underflows: the frontier does not overtake the
\* allocation counter, even when a helper publishes for a claimant that has
\* not advanced the counter yet.
FrontierAllocated == visible <= commit

\* The records find can come to in slot i: its head and what the lap links
\* lead to from there, the least set with both.
Chain(i) ==
  LET Closed(S) == /\ slots[i] # NoTx => slots[i] \in S
                   /\ \A x \in S : older[x] # NoTx => older[x] \in S
  IN  {t \in Tx : \A S \in SUBSET Tx : Closed(S) => t \in S}

\* A record the frontier has not passed is reachable from its slot through
\* the lap links, so a helper can find it (claim, find and unlink).
UnpassedFindable ==
  \A t \in Tx : Installed(t) /\ claim[t] > visible => t \in Chain(Slot(claim[t]))

\* No publication is running.
Quiet == \A t \in Tx : pc[t] \in {"idle", "done"}

\* The pairings of finishCommitTS lose nothing: once no publication is running
\* every allocated timestamp is visible and pending is back at zero, although
\* pending may read too low, and the walk be skipped, in between.
QuietSettled == Quiet => visible = commit /\ pending = 0

\* Every lap link is dropped by whoever carries the frontier over its record,
\* so the chains do not outlive the burst that built them (unlink).
LinksDropped == Quiet => linked = 0 /\ \A t \in Tx : older[t] = NoTx

\* A waiter whose floor is reached is never left asleep with nobody to wake it
\* (AwaitVisible's order of the two loads and finishCommitTS's broadcast).
NoLostWakeup ==
  Quiet => \A w \in Waiters :
    wpc[w] = "blocked" /\ ch[w] = gate => visible < floor[w]

\* A snapshot is stable: no step changes what a reader that started at the
\* frontier sees of the transactions at or below it, and the frontier itself
\* never moves back (mvcc.go, invariants 1 and 2).
SnapshotStable ==
  [][/\ visible' >= visible
     /\ \A t \in Tx : Installed(t) /\ claim[t] <= visible =>
          stamp'[t] = stamp[t] /\ claim'[t] = claim[t]]_vars

\* Every allocated timestamp becomes visible although its owner, and every
\* owner before it, may be helped, blocked or overtaken at any point.
EventuallyVisible == \A t \in Tx : Installed(t) ~> visible >= claim[t]

\* AwaitVisible returns.
WaiterReturns == \A w \in Waiters : wpc[w] = "blocked" ~> wpc[w] = "done"

(***************************************************************************)
(* The inductive invariant behind FrontierSafe, OneOwner and               *)
(* FrontierAllocated.                                                      *)
(***************************************************************************)

\* The head of a slot is installed and is the newest record of its residue.
SlotInv ==
  /\ \A i \in 0 .. RegistrySlots - 1 : slots[i] # NoTx =>
       Installed(slots[i]) /\ Slot(claim[slots[i]]) = i
  /\ \A t \in Tx : Installed(t) =>
       /\ slots[Slot(claim[t])] # NoTx
       /\ claim[slots[Slot(claim[t])]] >= claim[t]

\* Every pointer leads to an installed record.
PointerOK(t) ==
  /\ head[t] # NoTx => Installed(head[t])
  /\ cur[t] # NoTx => Installed(cur[t])
  /\ older[t] # NoTx => Installed(older[t])

PointerInv == \A t \in Tx : PointerOK(t)

\* A claimant is at most one ahead of the counter; one the counter has caught
\* up with has lost its timestamp to an installed record.
ClaimOK(t) ==
  /\ pc[t] \notin {"idle", "load"} => claim[t] >= 1 /\ claim[t] <= commit + 1
  /\ pc[t] \in {"decide", "stamp"} \cup Finishing => claim[t] <= commit
  /\ pc[t] \in {"head", "link", "install"} /\ claim[t] <= commit =>
       \E s \in Tx : Installed(s) /\ claim[s] = claim[t]
  /\ pc[t] = "assist" /\ claim[t] > commit =>
       \E s \in Tx : Installed(s) /\ claim[s] = claim[t]
  /\ pc[t] \in {"link", "install"} /\ head[t] # NoTx => claim[head[t]] < claim[t]

ClaimInv == \A t \in Tx : ClaimOK(t)

\* An owner publishes a record it has stamped, aborted or never had, and only
\* a finished one is marked.
OwnerOK(t) ==
  /\ pc[t] \in Finishing => stamp[t] # "open"
  /\ pc[t] # "idle" /\ kind[t] = "untracked" => stamp[t] = "inline"
  /\ pc[t] = "decide" => kind[t] \in {"durable", "split"}
  /\ pc[t] \in (Claiming \ {"idle"}) \cup {"counter", "decide"} =>
       (ready[t] => kind[t] = "direct")
  /\ finished[t] # "none" => pc[t] \in Finishing

OwnerInv == \A t \in Tx : OwnerOK(t)

\* What advance knows of the record it works on.
CursorOK(t) ==
  /\ pc[t] \in {"examine", "checkReady", "helpStamp", "raise"} =>
       cur[t] # NoTx /\ claim[cur[t]] = f[t] + 1
  /\ pc[t] \in {"checkReady", "helpStamp"} => f[t] < claim[t]
  /\ pc[t] = "helpStamp" => ready[cur[t]]
  /\ pc[t] = "raise" => Discharged(cur[t]) /\ f[t] < commit
  /\ pc[t] = "mark" /\ kind[t] = "untracked" =>
       cur[t] # NoTx /\ claim[cur[t]] = claim[t]

CursorInv == \A t \in Tx : CursorOK(t)

\* The conjunction is preserved by every step of the clock.
IInv ==
  /\ TypeOK /\ SlotInv /\ PointerInv /\ ClaimInv /\ OwnerInv /\ CursorInv
  /\ FrontierSafe /\ OneOwner /\ FrontierAllocated

(***************************************************************************)
(* The refinement.  A timestamp exists from the step that installs its     *)
(* record; a transaction without a record has its outcome when its owner   *)
(* publishes it.                                                           *)
(***************************************************************************)
AbsAt == [t \in Tx |-> IF Installed(t) THEN claim[t] ELSE 0]

AbsOutcome ==
  [t \in Tx |-> CASE stamp[t] = "open" -> "none"
                  [] stamp[t] = "inline" ->
                       IF pc[t] \in Finishing THEN "committed" ELSE "none"
                  [] OTHER -> stamp[t]]

AbsAllocated ==
  IF \E t \in Tx : Installed(t) /\ claim[t] > commit THEN commit + 1 ELSE commit

Frontier == INSTANCE CommitFrontier WITH
  at <- AbsAt, outcome <- AbsOutcome, allocated <- AbsAllocated,
  frontier <- visible

\* The lock-free clock implements the abstract one: helping, out-of-order
\* publication and the lagging counter are invisible to its callers.
ImplementsFrontier == Frontier!Spec
=============================================================================
