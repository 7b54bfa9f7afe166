------------------------------- MODULE Vacuum -------------------------------
(***************************************************************************)
(* The life of the background vacuum (graph/lpg/mvcc_vacuum.go and         *)
(* mvcc_gc.go): a sweeper goroutine that is started on demand by commits,  *)
(* aborts and departing readers, paces itself, ends when two passes freed  *)
(* nothing, and is joined by Close.                                        *)
(*                                                                         *)
(* A version is its commit timestamp and the store (unit) it is in; what a *)
(* version holds is module VersionStore's business.  The horizon is its    *)
(* answer alone: a registered snapshot counts with its timestamp, and with *)
(* zero while it is entering or has no slot (module Horizon has the scan   *)
(* in detail, and proves that the watermark never moves back).             *)
(***************************************************************************)
EXTENDS Integers, FiniteSets, FiniteSetsExt

CONSTANTS
  Reader,     \* clients that read, or call ReclaimNow or Close
  Bracket,    \* clients that write in a bracket, which holds the horizon
  Direct,     \* clients that write directly, which does not
  Slotless,   \* clients that may find every slot of the horizon taken
  Sweeper,    \* identities for the vacuum's goroutines, reused
  Units,      \* vacuumUnitCount
  Chained,    \* units whose sweep withdraws aborted versions as well
  reclaimThreshold, vacuumRecordsPerPass

ASSUME SizesAssumption ==
  /\ Units \in Nat \ {0} /\ Chained \subseteq 0 .. Units - 1 
  /\ IsFiniteSet(Bracket \union Direct)
  /\ reclaimThreshold \in Nat \ {0}
  /\ vacuumRecordsPerPass \in Nat \ {0}

Writer == Bracket \union Direct
Client == Reader \union Writer
Proc == Client \union Sweeper

ASSUME KindsAssumption == Reader \intersect Writer = {} /\ Client \intersect Sweeper = {}

\* Every client makes one call, so there are at most as many commits.
MaxTS == Cardinality(Writer)
Unit == 0 .. Units - 1
vacuumIdlePasses == 2

VARIABLES
  visible,       \* the clock's frontier
  versions,      \* the committed versions that are retained
  start,         \* what a snapshot holds the horizon at, -1 for nothing
  pending,       \* the units of the versions an open transaction has made
  created,       \* how many versions an ended one has to charge
  reclaimDebt, wake, running, closed, wg, sweeping, lastWatermark, cursor,
  pc,
  wm,            \* the watermark a release, a pass or ReclaimNow computed
  freed, visited, idle, \* a pass so far, and the count of idle passes
  held           \* history: what kept the last pass from the newest versions

storeVars == <<visible, versions, start, pending, created>>
wakeVars == <<reclaimDebt, wake, running, closed, wg>>
sweepVars == <<sweeping, lastWatermark, cursor, wm, freed, visited, idle, held>>
vars == <<storeVars, wakeVars, sweepVars, pc>>

At(p, label) == pc[p] = label

Goto(p, label) == pc' = [pc EXCEPT ![p] = label]

Version == [ts : 1 .. MaxTS, unit : Unit]

\* The versions of open transactions count as well.
VersionCount ==
  Cardinality(versions) + MapThenSumSet(LAMBDA p : Cardinality(pending[p]), Writer)

Init ==
  /\ visible = 0 /\ versions = {} /\ start = [p \in Client |-> -1]
  /\ pending = [p \in Writer |-> {}] /\ created = [p \in Writer |-> 0]
  /\ reclaimDebt = 0 /\ wake = 0 /\ running = FALSE /\ closed = FALSE /\ wg = 0
  /\ sweeping = FALSE /\ lastWatermark = 0 /\ cursor = 0
  /\ pc = [p \in Proc |-> "out"]
  /\ wm = [p \in Reader \union Sweeper |-> 0]
  /\ freed = [s \in Sweeper |-> 0]
  /\ visited = [p \in Reader \union Sweeper |-> 0]
  /\ idle = [s \in Sweeper |-> 0]
  /\ held = "none"

-----------------------------------------------------------------------------
(* Snapshots of readers and of write brackets hold the horizon.            *)

EnterHolding(p) ==
  /\ At(p, "out")
  /\ start' = [start EXCEPT ![p] = 0]
  /\ Goto(p, "enter")
  /\ UNCHANGED <<visible, versions, pending, created, wakeVars, sweepVars>>

\* Without a slot the snapshot keeps the horizon at zero.
Publish(p) ==
  /\ At(p, "enter")
  /\ start' = [start EXCEPT ![p] = visible] \/ (p \in Slotless /\ UNCHANGED start)
  /\ Goto(p, "open")
  /\ UNCHANGED <<visible, versions, pending, created, wakeVars, sweepVars>>

Leave(p, label, next) ==
  /\ At(p, label)
  /\ start' = [start EXCEPT ![p] = -1]
  /\ Goto(p, next)
  /\ UNCHANGED <<visible, versions, pending, created, wakeVars, sweepVars>>

\* A reader that leaves goes on to the drain wake, a bracket does not.
EndRead(p) == Leave(p, "open", "drain")
releaseWriterSnapshot(p) == Leave(p, "ended", "done")

-----------------------------------------------------------------------------
(* Waking the vacuum.                                                      *)

\* Where a caller goes on after the wake: a bracket to its release, and a
\* sweeper's goroutine may be used again.
Return(p) ==
  CASE p \in Sweeper -> "out"
    [] p \in Reader -> "done"
    [] p \in Writer -> IF start[p] # -1 THEN "ended" ELSE "done"

\* The signal is a level: one is kept.
SendWake(p) ==
  /\ At(p, "send")
  /\ wake' = 1
  /\ Goto(p, "load")
  /\ UNCHANGED <<storeVars, reclaimDebt, running, closed, wg, sweepVars>>

LoadRunning(p) ==
  /\ At(p, "load")
  /\ Goto(p, IF running THEN Return(p) ELSE "start")
  /\ UNCHANGED <<storeVars, wakeVars, sweepVars>>

\* The identity of a new goroutine.
Spawned(p) == IF p \in Sweeper THEN p ELSE CHOOSE s \in Sweeper : At(s, "out")

\* Mutant: a closed graph starts a sweeper all the same.
startVacuumClosed(p) ==
  /\ At(p, "start")
  /\ \/ /\ running
        /\ Goto(p, Return(p))
        /\ UNCHANGED <<running, wg>>
     \/ /\ ~running
        /\ running' = TRUE
        /\ wg' = wg + 1
        /\ p \in Sweeper \/ \E s \in Sweeper : At(s, "out")
        /\ pc' = [pc EXCEPT ![p] = Return(p), ![Spawned(p)] = "consume"]
  /\ UNCHANGED <<storeVars, reclaimDebt, wake, closed, sweepVars>>

\* Under the vacuum's mutex.
startVacuum(p) ==
  /\ At(p, "start")
  /\ \/ /\ closed \/ running
        /\ Goto(p, Return(p))
        /\ UNCHANGED <<running, wg>>
     \/ /\ ~closed /\ ~running
        /\ running' = TRUE
        /\ wg' = wg + 1
        /\ p \in Sweeper \/ \E s \in Sweeper : At(s, "out")
        /\ pc' = [pc EXCEPT ![p] = Return(p), ![Spawned(p)] = "consume"]
  /\ UNCHANGED <<storeVars, reclaimDebt, wake, closed, sweepVars>>

-----------------------------------------------------------------------------
(* The drain wake of a departed reader.                                    *)

\* The answer of Horizon.Oldest, zero for "reclaim nothing".
Oldest == Min({visible} \union {start[p] : p \in {q \in Client : start[q] # -1}})

wakeVacuumOnRelease(p) ==
  /\ At(p, "drain")
  /\ \/ /\ VersionCount = 0 \/ Oldest = 0
        /\ Goto(p, "done")
        /\ UNCHANGED wm
     \/ /\ VersionCount > 0 /\ Oldest > 0
        /\ wm' = [wm EXCEPT ![p] = Oldest]
        /\ Goto(p, "publish")
  /\ UNCHANGED <<storeVars, wakeVars, sweeping, lastWatermark, cursor, freed, visited,
                 idle, held>>

\* Mutant: a watermark that advances by one is not news.
publishWatermarkCoarse(p) ==
  /\ At(p, "publish")
  /\ lastWatermark' = Max({lastWatermark, wm[p]})
  /\ Goto(p, IF wm[p] > lastWatermark + 1 THEN "send" ELSE "done")
  /\ wm' = [wm EXCEPT ![p] = 0]
  /\ UNCHANGED <<storeVars, wakeVars, sweeping, cursor, freed, visited, idle, held>>

\* Only a watermark past the recorded one is news.
publishWatermark(p) ==
  /\ At(p, "publish")
  /\ lastWatermark' = Max({lastWatermark, wm[p]})
  /\ Goto(p, IF wm[p] > lastWatermark THEN "send" ELSE "done")
  /\ wm' = [wm EXCEPT ![p] = 0]
  /\ UNCHANGED <<storeVars, wakeVars, sweeping, cursor, freed, visited, idle, held>>

-----------------------------------------------------------------------------
(* Writers: a bracket makes versions one by one, a direct write at once.   *)

Modify(p) ==
  /\ At(p, "open")
  /\ \E u \in Unit \ pending[p] : pending' = [pending EXCEPT ![p] = @ \union {u}]
  /\ UNCHANGED <<visible, versions, start, created, wakeVars, sweepVars, pc>>

\* An implicit transaction: its snapshot is not registered.
DirectWrite(p) ==
  /\ At(p, "out")
  /\ \E us \in SUBSET Unit \ {{}} : pending' = [pending EXCEPT ![p] = us]
  /\ Goto(p, "open")
  /\ UNCHANGED <<visible, versions, start, created, wakeVars, sweepVars>>

\* endWrite of a transaction that versioned nothing charges nothing.
EndEmpty(p) ==
  /\ At(p, "open")
  /\ pending[p] = {}
  /\ Goto(p, "ended")
  /\ UNCHANGED <<storeVars, wakeVars, sweepVars>>

\* The commit is published, then charged.
Commit(p) ==
  /\ At(p, "open")
  /\ pending[p] # {}
  /\ visible' = visible + 1
  /\ versions' = versions \union [ts : {visible'}, unit : pending[p]]
  /\ pending' = [pending EXCEPT ![p] = {}]
  /\ created' = [created EXCEPT ![p] = Cardinality(pending[p])]
  /\ Goto(p, "charge")
  /\ UNCHANGED <<start, wakeVars, sweepVars>>

\* A caller past the ceiling also waits for a pass (awaitVacuumProgress), at
\* most a fixed time: a delay, which any step of the model may have.
chargeReclaimDebt(p) ==
  /\ At(p, "charge")
  /\ reclaimDebt' = reclaimDebt + created[p]
  /\ created' = [created EXCEPT ![p] = 0]
  /\ Goto(p, IF reclaimDebt' < reclaimThreshold THEN "small" ELSE "send")
  /\ UNCHANGED <<visible, versions, start, pending, wake, running, closed, wg, sweepVars>>

\* A debt below the threshold wakes nobody while a sweeper is alive.
ChargeStranded(p) ==
  /\ At(p, "small")
  /\ Goto(p, IF ~running /\ VersionCount > reclaimThreshold THEN "send" ELSE Return(p))
  /\ UNCHANGED <<storeVars, wakeVars, sweepVars>>

\* The transaction is refused or fails: abortWake charges its versions,
\* withdraws them and takes the charge back.
abortWake(p) ==
  /\ At(p, "open")
  /\ pending[p] # {}
  /\ reclaimDebt' = reclaimDebt + Cardinality(pending[p])
  /\ Goto(p, "acquire")
  /\ UNCHANGED <<storeVars, wake, running, closed, wg, sweepVars>>

\* withdrawAbortedNow spins for the slot, as ReclaimNow does.
acquireSweeper(p) ==
  /\ At(p, "acquire")
  /\ ~sweeping
  /\ sweeping' = TRUE
  /\ Goto(p, "sweep")
  /\ UNCHANGED <<storeVars, wakeVars, lastWatermark, cursor, wm, freed, visited, idle, held>>

withdrawAbortedNow(p) ==
  /\ At(p, "sweep")
  /\ pending' = [pending EXCEPT ![p] = {}]
  /\ created' = [created EXCEPT ![p] = Cardinality(pending[p])]
  /\ sweeping' = FALSE
  /\ Goto(p, "credit")
  /\ UNCHANGED <<visible, versions, start, wakeVars, lastWatermark, cursor, wm, freed,
                 visited, idle, held>>

\* A sweeper may have reset the debt since the charge: it can go below zero.
Credit(p) ==
  /\ At(p, "credit")
  /\ reclaimDebt' = reclaimDebt - created[p]
  /\ created' = [created EXCEPT ![p] = 0]
  /\ Goto(p, "send")
  /\ UNCHANGED <<visible, versions, start, pending, wake, running, closed, wg, sweepVars>>

-----------------------------------------------------------------------------
(* The sweeper goroutine.                                                  *)

\* Mutant: the wake stays in the channel.
ConsumeWakeKept(s) ==
  /\ At(s, "consume")
  /\ Goto(s, "reset")
  /\ UNCHANGED <<storeVars, wakeVars, sweepVars>>

\* vacuumLoop's top: the pending wake is consumed, then the debt is reset.
ConsumeWake(s) ==
  /\ At(s, "consume")
  /\ wake' = 0
  /\ Goto(s, "reset")
  /\ UNCHANGED <<storeVars, reclaimDebt, running, closed, wg, sweepVars>>

ResetDebt(s) ==
  /\ At(s, "reset")
  /\ reclaimDebt' = 0
  /\ Goto(s, "try")
  /\ UNCHANGED <<storeVars, wake, running, closed, wg, sweepVars>>

\* The slot is held by a synchronous sweep: wait, which is no idle pass.
SlotTaken(s) ==
  /\ At(s, "try")
  /\ sweeping
  /\ Goto(s, "consume") \/ (closed /\ Goto(s, "exit"))
  /\ UNCHANGED <<storeVars, wakeVars, sweepVars>>

\* What keeps a pass back: nothing, readers, whose departure is signalled, or
\* a write bracket or an unknown snapshot, whose departure is not.
Obstacle ==
  CASE Oldest = visible /\ Oldest > 0 -> "none"
    [] Oldest = 0 \/ (\E p \in Writer : start[p] \in 0 .. visible - 1) -> "silent"
    [] OTHER -> "reader"

\* The watermark is computed and recorded; at zero the pass frees nothing.
vacuumPass(s) ==
  /\ At(s, "try")
  /\ ~sweeping
  /\ sweeping' = TRUE
  /\ wm' = [wm EXCEPT ![s] = Oldest]
  /\ lastWatermark' = Max({lastWatermark, Oldest})
  /\ held' = Obstacle
  /\ Goto(s, IF Oldest = 0 THEN "pass end" ELSE "unit")
  /\ UNCHANGED <<storeVars, wakeVars, cursor, freed, visited, idle>>

\* The versions of unit u that nobody at or after w can need.
Reclaimable(u, w) == {v \in versions : v.unit = u /\ v.ts <= w}

\* The sweep of a label or property store may meet an aborted transaction's
\* versions before its abort does.
AbortedIn(u) == {p \in Writer : u \in Chained /\ At(p, "acquire") /\ u \in pending[p]}

SweepStore(u, w) ==
  /\ versions' = versions \ Reclaimable(u, w)
  /\ pending' = [p \in Writer |-> IF p \in AbortedIn(u) THEN pending[p] \ {u} ELSE pending[p]]

\* One store, then the next one from the cursor on, until the cap.
sweepUnit(s) ==
  /\ At(s, "unit")
  /\ LET u == (cursor + visited[s]) % Units
         sum == freed[s] + Cardinality(Reclaimable(u, wm[s])) + Cardinality(AbortedIn(u))
         capped == sum >= vacuumRecordsPerPass
     IN  /\ SweepStore(u, wm[s])
         /\ freed' = [freed EXCEPT ![s] = sum]
         /\ cursor' = IF capped THEN (cursor + visited[s] + 1) % Units ELSE cursor
         /\ \/ /\ capped \/ visited[s] + 1 = Units
               /\ visited' = [visited EXCEPT ![s] = 0]
               /\ Goto(s, "pass end")
            \/ /\ ~capped /\ visited[s] + 1 < Units
               /\ visited' = [visited EXCEPT ![s] = @ + 1]
               /\ UNCHANGED pc
  /\ UNCHANGED <<visible, start, created, wakeVars, sweeping, lastWatermark, wm, idle, held>>

\* A pass that stopped at the cap or freed a threshold's worth.
Backlog(s) == freed[s] >= Min({vacuumRecordsPerPass, reclaimThreshold})

\* Mutant: the debt is reset after the pass, not before it.
EndPassSwallowing(s) ==
  /\ At(s, "pass end")
  /\ sweeping' = FALSE
  /\ wm' = [wm EXCEPT ![s] = 0]
  /\ freed' = [freed EXCEPT ![s] = 0]
  /\ idle' = [idle EXCEPT ![s] = IF freed[s] > 0 THEN 0 ELSE @ + 1]
  /\ reclaimDebt' = 0
  /\ Goto(s, CASE Backlog(s) -> "stop"
               [] freed[s] > 0 /\ ~Backlog(s) -> "pace"
               [] freed[s] = 0 /\ idle'[s] < vacuumIdlePasses -> "backoff"
               [] freed[s] = 0 /\ idle'[s] >= vacuumIdlePasses -> "idle")
  /\ UNCHANGED <<storeVars, wake, running, closed, wg, lastWatermark, cursor, visited, held>>

\* The slot is released and the pass judged: a backlog is drained at full
\* speed, a small pass paces, the first idle one backs off, the second ends.
EndPass(s) ==
  /\ At(s, "pass end")
  /\ sweeping' = FALSE
  /\ wm' = [wm EXCEPT ![s] = 0]
  /\ freed' = [freed EXCEPT ![s] = 0]
  /\ idle' = [idle EXCEPT ![s] = IF freed[s] > 0 THEN 0 ELSE @ + 1]
  /\ Goto(s, CASE Backlog(s) -> "stop"
               [] freed[s] > 0 /\ ~Backlog(s) -> "pace"
               [] freed[s] = 0 /\ idle'[s] < vacuumIdlePasses -> "backoff"
               [] freed[s] = 0 /\ idle'[s] >= vacuumIdlePasses -> "idle")
  /\ UNCHANGED <<storeVars, wakeVars, lastWatermark, cursor, visited, held>>

\* Between two passes of a backlog only a shutdown is looked for.
NextPass(s) ==
  /\ At(s, "stop")
  /\ Goto(s, IF closed THEN "exit" ELSE "consume")
  /\ UNCHANGED <<storeVars, wakeVars, sweepVars>>

\* A shutdown, a wake or the timer ends the wait after a small pass.
Pace(s) ==
  /\ At(s, "pace")
  /\ \/ closed /\ Goto(s, "exit") /\ UNCHANGED wake
     \/ Goto(s, "consume") /\ wake' \in {0, wake}
  /\ UNCHANGED <<storeVars, reclaimDebt, running, closed, wg, sweepVars>>

\* A wake does not cut the backoff short.
Backoff(s) ==
  /\ At(s, "backoff")
  /\ Goto(s, "consume") \/ (closed /\ Goto(s, "exit"))
  /\ UNCHANGED <<storeVars, wakeVars, sweepVars>>

\* Mutant: the count of idle passes goes on when the sweeper stays.
IdleExitCounting(s) ==
  /\ At(s, "idle")
  /\ Goto(s, IF reclaimDebt > 0 THEN "consume" ELSE "exit")
  /\ UNCHANGED <<storeVars, wakeVars, sweepVars>>

\* Versions that arrived after the debt was reset keep the sweeper.
IdleExit(s) ==
  /\ At(s, "idle")
  /\ idle' = [idle EXCEPT ![s] = 0]
  /\ Goto(s, IF reclaimDebt > 0 THEN "consume" ELSE "exit")
  /\ UNCHANGED <<storeVars, wakeVars, sweeping, lastWatermark, cursor, wm, freed, visited,
                 held>>

\* The deferred function: running is cleared, Close may go on, and a wake that
\* was left by a sender which still saw the sweeper starts another one.
ClearRunning(s) ==
  /\ At(s, "exit")
  /\ running' = FALSE
  /\ idle' = [idle EXCEPT ![s] = 0]
  /\ Goto(s, "join")
  /\ UNCHANGED <<storeVars, reclaimDebt, wake, closed, wg, sweeping, lastWatermark, cursor,
                 wm, freed, visited, held>>

Join(s) ==
  /\ At(s, "join")
  /\ wg' = wg - 1
  /\ Goto(s, "tail")
  /\ UNCHANGED <<storeVars, reclaimDebt, wake, running, closed, sweepVars>>

\* Mutant: nobody looks for a wake that came during the exit.
CheckWakeSkipped(s) ==
  /\ At(s, "tail")
  /\ Goto(s, "out")
  /\ UNCHANGED <<storeVars, wakeVars, sweepVars>>

CheckWake(s) ==
  /\ At(s, "tail")
  /\ Goto(s, IF wake > 0 THEN "start" ELSE "out")
  /\ UNCHANGED <<storeVars, wakeVars, sweepVars>>

-----------------------------------------------------------------------------
(* ReclaimNow and Close.                                                   *)

ReclaimNow(c) ==
  /\ At(c, "out")
  /\ Goto(c, "acquire")
  /\ UNCHANGED <<storeVars, wakeVars, sweepVars>>

ReclaimScan(c) ==
  /\ At(c, "sweep")
  /\ wm' = [wm EXCEPT ![c] = Oldest]
  /\ Goto(c, IF Oldest = 0 THEN "release" ELSE "unit")
  /\ UNCHANGED <<storeVars, wakeVars, sweeping, lastWatermark, cursor, freed, visited,
                 idle, held>>

\* Every store to completion, without a cap.
ReclaimUnit(c) ==
  /\ At(c, "unit")
  /\ SweepStore(visited[c], wm[c])
  /\ visited' = [visited EXCEPT ![c] = (@ + 1) % Units]
  /\ Goto(c, IF visited[c] + 1 = Units THEN "release" ELSE "unit")
  /\ UNCHANGED <<visible, start, created, wakeVars, sweeping, lastWatermark, cursor, wm,
                 freed, idle, held>>

releaseSweeper(c) ==
  /\ At(c, "release")
  /\ sweeping' = FALSE
  /\ wm' = [wm EXCEPT ![c] = 0]
  /\ Goto(c, "done")
  /\ UNCHANGED <<storeVars, wakeVars, lastWatermark, cursor, freed, visited, idle, held>>

\* closeOnce, under the mutex, so that no start is half done.
Close(c) ==
  /\ At(c, "out")
  /\ closed' = TRUE
  /\ Goto(c, "wait")
  /\ UNCHANGED <<storeVars, reclaimDebt, wake, running, wg, sweepVars>>

\* The wait for the sweeper ends, or the deadline of CloseCtx passes.
CloseReturns(c) ==
  /\ At(c, "wait")
  /\ (wg = 0 /\ Goto(c, "closed")) \/ Goto(c, "done")
  /\ UNCHANGED <<storeVars, wakeVars, sweepVars>>

-----------------------------------------------------------------------------
Read(r) ==
  \/ EnterHolding(r) \/ Publish(r) \/ EndRead(r)
  \/ wakeVacuumOnRelease(r) \/ publishWatermark(r)

Write(w) ==
  \/ EnterHolding(w) \/ Publish(w) \/ Modify(w) \/ EndEmpty(w) \/ releaseWriterSnapshot(w)

EndWrite(w) ==
  \/ Commit(w) \/ chargeReclaimDebt(w) \/ ChargeStranded(w) \/ abortWake(w)
  \/ acquireSweeper(w) \/ withdrawAbortedNow(w) \/ Credit(w)

Wake(p) == SendWake(p) \/ LoadRunning(p) \/ startVacuum(p)

Reclaim(c) ==
  ReclaimNow(c) \/ acquireSweeper(c) \/ ReclaimScan(c) \/ ReclaimUnit(c) \/ releaseSweeper(c)

vacuumLoop(s) ==
  \/ ConsumeWake(s) \/ ResetDebt(s) \/ SlotTaken(s) \/ vacuumPass(s) \/ sweepUnit(s)
  \/ EndPass(s) \/ NextPass(s) \/ Pace(s) \/ Backoff(s) \/ IdleExit(s)
  \/ ClearRunning(s) \/ Join(s) \/ CheckWake(s) \/ startVacuum(s)

Next ==
  \/ \E r \in Reader : Read(r) \/ Wake(r) \/ Reclaim(r) \/ Close(r) \/ CloseReturns(r)
  \/ \E w \in Bracket : Write(w)
  \/ \E w \in Direct : DirectWrite(w)
  \/ \E w \in Writer : EndWrite(w) \/ Wake(w)
  \/ \E s \in Sweeper : vacuumLoop(s)

Spec == Init /\ [][Next]_vars

\* A client that has begun a call goes on, and so does the sweeper, its timers
\* included.  Nobody need begin, end a read or a transaction, or call Close.
Begun(p) == pc[p] \notin {"out", "open", "wait", "closed", "done"}

ClientStep ==
  \/ \E r \in Reader : Begun(r) /\ (Read(r) \/ Wake(r) \/ Reclaim(r))
  \/ \E w \in Bracket : Begun(w) /\ Write(w)
  \/ \E w \in Writer : Begun(w) /\ (EndWrite(w) \/ Wake(w))

SweeperStep == \E s \in Sweeper : vacuumLoop(s)

FairSpec == Spec /\ WF_vars(ClientStep) /\ WF_vars(SweeperStep)

-----------------------------------------------------------------------------
ClientLabels ==
  {"out", "enter", "open", "drain", "publish", "send", "load", "start", "charge", "small",
   "acquire", "sweep", "credit", "ended", "unit", "release", "wait", "closed", "done"}

SweeperLabels ==
  {"out", "consume", "reset", "try", "unit", "pass end", "stop", "pace", "backoff", "idle",
   "exit", "join", "tail", "start"}

StoreType ==
  /\ visible \in 0 .. MaxTS /\ versions \subseteq Version
  /\ start \in [Client -> -1 .. visible]
  /\ pending \in [Writer -> SUBSET Unit]
  /\ created \in [Writer -> 0 .. Units]

WakeType ==
  /\ running \in BOOLEAN /\ closed \in BOOLEAN /\ sweeping \in BOOLEAN
  /\ reclaimDebt \in Int /\ wake \in 0 .. 1 /\ wg \in Nat
  /\ held \in {"none", "reader", "silent"}

SweepType ==
  /\ lastWatermark \in 0 .. visible /\ cursor \in Unit
  /\ wm \in [Reader \union Sweeper -> 0 .. visible]
  /\ freed \in [Sweeper -> Nat]
  /\ visited \in [Reader \union Sweeper -> Unit]
  /\ idle \in [Sweeper -> 0 .. vacuumIdlePasses]

PcType ==
  /\ pc \in [Proc -> ClientLabels \union SweeperLabels]
  /\ \A p \in Client : pc[p] \in ClientLabels
  /\ \A s \in Sweeper : pc[s] \in SweeperLabels

\* The state of the vacuum and of its clients is well formed.
TypeOK == StoreType /\ WakeType /\ SweepType /\ PcType

\* A wake is never lost: while the graph is open, a signal in the channel has a
\* sweeper that will consume it, an exiting one that will look again, or a
\* sender that has yet to look whether one is running.
NoLostWake ==
  wake > 0 /\ ~closed =>
    \/ running
    \/ \E p \in Proc : pc[p] \in {"load", "start"}
    \/ \E s \in Sweeper : pc[s] \in {"join", "tail"}

\* When Close has returned no sweeper touches the graph, and none ever will:
\* what is left of a goroutine is only the end of its deferred function.
ClosedStopped ==
  (\E c \in Reader : At(c, "closed")) =>
    ~running /\ \A s \in Sweeper : pc[s] \in {"out", "tail", "start"}

\* No call is under way, nothing is open and no sweeper is alive.
Quiet == \A p \in Proc : pc[p] \in {"out", "wait", "closed", "done"}

\* Nothing is retained unaccounted for: when the graph is quiet and open and the
\* last pass was kept back by nobody, every version left is in the reclamation
\* debt, and the debt is below the threshold.  So versions that arrive while
\* the sweeper passes, or leaves, are neither forgotten nor more than the bound.
Accounted ==
  Quiet /\ ~closed /\ held = "none" =>
    Cardinality(versions) <= reclaimDebt /\ reclaimDebt < reclaimThreshold

\* What a departed reader announced is done: when the graph is quiet and open
\* the versions up to the recorded watermark are freed, unless the last pass
\* was kept back by a bracket or an unknown snapshot.
AnnouncedDone ==
  Quiet /\ ~closed /\ held # "silent" => \A v \in versions : v.ts > lastWatermark

\* The sweeper is no permanent goroutine: when the clients have called what they
\* will it ends and stays away, whatever the snapshots that remain hold back.
SelfTerminating == <>[]~running
=============================================================================
