--------------------------- MODULE Vacuum_proofs ---------------------------
(***************************************************************************)
(* Theorems about the life of the background vacuum, for every set of      *)
(* readers, writers and sweepers, number of units and size of a pass: no   *)
(* wake is lost, Close leaves no sweeper behind, what a departed reader    *)
(* announced is reclaimed, and what is retained is in the debt.            *)
(***************************************************************************)
EXTENDS Vacuum, FiniteSetTheorems, WellFoundedInduction, TLAPS

USE SizesAssumption, KindsAssumption

-----------------------------------------------------------------------------
(* The inductive invariant.                                                *)

\* The writers that are past their one commit.
Past == {w \in Writer : pc[w] \notin {"out", "enter", "open"}}

\* Nobody commits twice.
Counted == visible <= Cardinality(Past)

\* The second idle pass ends at the exit, where the count starts again.
IdleCount == \A s \in Sweeper : idle[s] = vacuumIdlePasses => pc[s] = "idle"

\* vacuumLoop up to the deferred function, which clears running.
Loop == {"consume", "reset", "try", "unit", "pass end", "stop", "pace", "backoff", "idle", "exit"}

\* The goroutines that the wait group counts.
Alive == {s \in Sweeper : pc[s] \in Loop \union {"join"}}

\* One sweeper is in its loop while running is set, and none otherwise.
OneSweeper ==
  /\ running <=> \E s \in Sweeper : pc[s] \in Loop
  /\ \A s, t \in Sweeper : pc[s] \in Loop /\ pc[t] \in Loop => s = t

\* The wait group counts the goroutines that have not called Done.
Joined == IsFiniteSet(Alive) /\ wg = Cardinality(Alive)

\* Close has set closed before it waits, and returns with nobody alive.
Closing ==
  /\ \A r \in Reader : pc[r] \in {"wait", "closed"} => closed
  /\ (\E r \in Reader : pc[r] = "closed") => Alive = {}

\* No snapshot holds the horizon below a watermark that somebody computed.
Watermarks ==
  \A q \in Client : start[q] > 0 =>
    /\ lastWatermark <= start[q]
    /\ \A p \in Reader \union Sweeper : wm[p] <= start[q]

\* A pass begins at its first unit.
Fresh == \A s \in Sweeper : pc[s] # "unit" => visited[s] = 0

\* Somebody will come to the version v: a wake is under way, the sweeper has
\* yet to pass or will pass again, or its pass has yet to reach the unit.
Ahead(s, v) ==
  v.ts <= wm[s] /\ \A j \in 0 .. visited[s] - 1 : (cursor + j) % Units # v.unit

Scheduled(v) ==
  \/ wake > 0
  \/ \E p \in Proc : pc[p] = "send"
  \/ \E s \in Sweeper :
       \/ pc[s] \in {"consume", "reset", "try", "stop", "pace", "backoff"}
       \/ pc[s] = "unit" /\ Ahead(s, v)
       \/ pc[s] = "pass end" /\ Backlog(s)

\* Nothing at or below the announced watermark is left without one.
Owed ==
  held # "silent" /\ ~closed =>
    \A v \in versions : v.ts <= lastWatermark => Scheduled(v)

VInv ==
  /\ TypeOK /\ Counted /\ IdleCount
  /\ OneSweeper /\ Joined /\ Closing /\ NoLostWake
  /\ Watermarks /\ Fresh /\ Owed

-----------------------------------------------------------------------------
(* Numbers and sets.                                                       *)

\* The well-foundedness of < on the naturals, for the sets used below.
LEMMA NatMin ==
  ASSUME NEW T, T \subseteq Nat, T # {}
  PROVE  Min(T) \in T /\ \A y \in T : Min(T) <= y
  <1> DEFINE R == {ss \in Nat \X Nat : ss[1] < ss[2]}
  <1>1. IsWellFoundedOn(R, Nat)
    BY NatLessThanWellFounded, Zenon DEF OpToRel
  <1> HIDE DEF R
  <1>2. PICK x \in T : \A y \in T : ~(<<y, x>> \in R)
    BY <1>1, WFMin
  <1>3. \A y \in T : x <= y
    <2> TAKE y \in T
    <2>1. <<y, x>> \in R <=> y < x
      BY DEF R
    <2> QED
      BY <1>2, <2>1
  <1> QED
    BY <1>3 DEF Min

LEMMA MinPair ==
  ASSUME NEW a \in Nat, NEW b \in Nat
  PROVE  Min({a, b}) \in {a, b} /\ Min({a, b}) <= a /\ Min({a, b}) <= b
  BY NatMin

LEMMA MaxPair ==
  ASSUME NEW a \in Nat, NEW b \in Nat
  PROVE  Max({a, b}) = IF a >= b THEN a ELSE b
  <1>1. \E x \in {a, b} : \A y \in {a, b} : x >= y
    OBVIOUS
  <1>2. Max({a, b}) \in {a, b} /\ \A y \in {a, b} : Max({a, b}) >= y
    BY <1>1 DEF Max
  <1> QED
    BY <1>2

LEMMA UnitFacts ==
  /\ Unit \subseteq Nat /\ 0 \in Unit /\ IsFiniteSet(Unit) /\ Cardinality(Unit) = Units
  /\ \A n \in Nat : n % Units \in Unit
  <1>1. IsFiniteSet(0 .. Units - 1) /\ Cardinality(0 .. Units - 1) = Units
    BY FS_Interval
  <1> QED
    BY <1>1 DEF Unit

\* The sweep of u and of the units before it, from the cursor on, is of all units
\* once Units of them have been visited.
LEMMA AllVisited ==
  ASSUME NEW c \in Unit, NEW u \in Unit
  PROVE  \E j \in 0 .. Units - 1 : (c + j) % Units = u
  <1>1. CASE c <= u
    <2>1. u - c \in 0 .. Units - 1 /\ c + (u - c) = u /\ u % Units = u
      BY <1>1 DEF Unit
    <2> QED
      BY <2>1
  <1>2. CASE u < c
    <2>1. /\ u + Units - c \in 0 .. Units - 1
          /\ c + (u + Units - c) = u + Units /\ (u + Units) % Units = u
      BY <1>2 DEF Unit
    <2> QED
      BY <2>1
  <1> QED
    BY <1>1, <1>2 DEF Unit

LEMMA UnitsCounted ==
  ASSUME NEW P, P \subseteq Unit
  PROVE  Cardinality(P) \in 0 .. Units
  <1>1. IsFiniteSet(P) /\ Cardinality(P) <= Units
    BY UnitFacts, FS_Subset
  <1> QED
    BY <1>1, FS_CardinalityType

LEMMA MaxTSType == MaxTS \in Nat
  BY FS_CardinalityType DEF MaxTS, Writer

LEMMA VersionFinite == IsFiniteSet(Version)
  <1> DEFINE f == [v \in Version |-> <<v.ts, v.unit>>]
             T == (1 .. MaxTS) \X Unit
  <1>1. IsFiniteSet(T)
    <2>1. IsFiniteSet(1 .. MaxTS)
      BY MaxTSType, FS_Interval
    <2>2. IsFiniteSet(Unit)
      BY UnitFacts
    <2> QED
      BY <2>1, <2>2, FS_Product
  <1>2. f \in [Version -> T]
    BY DEF Version
  <1>3. \A v, w \in Version : f[v] = f[w] => v = w
    BY DEF Version
  <1>4. f \in Injection(Version, T)
    BY <1>2, <1>3 DEF Injection, IsInjective
  <1> QED
    BY <1>1, <1>4, FS_Injection

\* The answer of the horizon: at most the frontier, and at or below what every
\* registered snapshot holds.
LEMMA OldestFacts ==
  ASSUME StoreType
  PROVE  /\ Oldest \in 0 .. visible
         /\ \A q \in Client : start[q] # -1 => Oldest <= start[q]
         /\ Oldest = visible \/ \E q \in Client : start[q] # -1 /\ start[q] = Oldest
  <1> DEFINE T == {visible} \union {start[p] : p \in {q \in Client : start[q] # -1}}
  <1>1. T \subseteq Nat /\ T # {}
    BY MaxTSType DEF StoreType
  <1>2. Min(T) \in T /\ \A y \in T : Min(T) <= y
    BY <1>1, NatMin
  <1>3. Oldest = Min(T)
    BY DEF Oldest
  <1>4. visible \in T /\ \A q \in Client : start[q] # -1 => start[q] \in T
    OBVIOUS
  <1>5. \A y \in T : y = visible \/ \E q \in Client : start[q] # -1 /\ start[q] = y
    OBVIOUS
  <1>6. visible \in Nat
    BY MaxTSType DEF StoreType
  <1> HIDE DEF T
  <1>7. Oldest \in T /\ Oldest \in Nat /\ \A y \in T : Oldest <= y
    BY <1>1, <1>2, <1>3
  <1>8. Oldest \in 0 .. visible
    BY <1>4, <1>6, <1>7
  <1> QED
    BY <1>4, <1>5, <1>7, <1>8

-----------------------------------------------------------------------------
(* Types.                                                                  *)

Typed == TypeOK /\ Counted /\ IdleCount

\* Where a client is before its commit.
Early == {"out", "enter", "open"}

LEMMA ReturnFacts ==
  ASSUME NEW p \in Proc
  PROVE  /\ p \in Sweeper => Return(p) = "out"
         /\ p \in Client => Return(p) \in {"done", "ended"}
         /\ p \in Reader => Return(p) = "done"
  BY DEF Return, Proc, Client

\* The bounds behind the types, for steps that need numbers and not functions.
LEMMA Ranges ==
  ASSUME TypeOK
  PROVE  /\ visible \in Nat /\ visible <= MaxTS /\ lastWatermark \in Nat /\ lastWatermark <= visible
         /\ \A p \in Reader \union Sweeper :
              wm[p] \in Nat /\ wm[p] <= visible /\ visited[p] \in Nat /\ visited[p] < Units
         /\ \A q \in Client : start[q] \in Int /\ start[q] >= -1 /\ start[q] <= visible
         /\ \A v \in versions : v.ts \in Nat /\ v.ts > 0 /\ v.unit \in Unit
         /\ \A s \in Sweeper : freed[s] \in Nat /\ idle[s] \in 0 .. 2
         /\ cursor \in Nat /\ cursor < Units /\ wake \in 0 .. 1
         /\ \A w \in Writer : Cardinality(pending[w]) \in 0 .. Units /\ created[w] \in 0 .. Units
  <1>1. visible \in Nat /\ visible <= MaxTS /\ lastWatermark \in Nat /\ lastWatermark <= visible
    BY MaxTSType DEF TypeOK, StoreType, SweepType
  <1>2. \A p \in Reader \union Sweeper :
           wm[p] \in Nat /\ wm[p] <= visible /\ visited[p] \in Nat /\ visited[p] < Units
    BY <1>1 DEF TypeOK, SweepType, Unit
  <1>3. \A q \in Client : start[q] \in Int /\ start[q] >= -1 /\ start[q] <= visible
    BY <1>1 DEF TypeOK, StoreType
  <1>4. \A v \in versions : v.ts \in Nat /\ v.ts > 0 /\ v.unit \in Unit
    BY MaxTSType DEF TypeOK, StoreType, Version
  <1>5. \A s \in Sweeper : freed[s] \in Nat /\ idle[s] \in 0 .. 2
    BY DEF TypeOK, SweepType, vacuumIdlePasses
  <1>6. cursor \in Nat /\ cursor < Units /\ wake \in 0 .. 1
    BY DEF TypeOK, SweepType, WakeType, Unit
  <1>7. \A w \in Writer : Cardinality(pending[w]) \in 0 .. Units /\ created[w] \in 0 .. Units
    BY UnitsCounted DEF TypeOK, StoreType
  <1> QED
    BY <1>1, <1>2, <1>3, <1>4, <1>5, <1>6, <1>7

LEMMA PastFacts ==
  IsFiniteSet(Writer) /\ \A P \in SUBSET Writer :
    IsFiniteSet(P) /\ Cardinality(P) \in Nat /\ Cardinality(P) <= MaxTS
  <1>1. IsFiniteSet(Writer)
    BY DEF Writer
  <1>2. ASSUME NEW P \in SUBSET Writer
        PROVE  IsFiniteSet(P) /\ Cardinality(P) \in Nat /\ Cardinality(P) <= MaxTS
    BY <1>1, FS_Subset, FS_CardinalityType DEF MaxTS
  <1> QED
    BY <1>1, <1>2

\* No step takes a writer back to before its commit.
LEMMA PastKept ==
  ASSUME Typed, visible' = visible,
         \A w \in Writer : pc[w] \notin Early => pc'[w] \notin Early
  PROVE  Counted'
  <1>1. Past \subseteq Past' /\ Past' \subseteq Writer
    BY DEF Past, Early
  <1>2. Cardinality(Past) <= Cardinality(Past')
    BY <1>1, PastFacts, FS_Subset
  <1>3. Cardinality(Past) \in Nat /\ Cardinality(Past') \in Nat /\ visible \in Nat
    BY <1>1, PastFacts, Ranges DEF Typed, Past
  <1>4. visible <= Cardinality(Past')
    BY <1>2, <1>3 DEF Typed, Counted
  <1> QED
    BY <1>4 DEF Counted

LEMMA Moved ==
  ASSUME TypeOK, NEW p \in Proc, NEW l, Goto(p, l),
         p \in Client => l \in ClientLabels, p \in Sweeper => l \in SweeperLabels
  PROVE  PcType' /\ pc'[p] = l /\ \A q \in Proc \ {p} : pc'[q] = pc[q]
  BY DEF TypeOK, PcType, Goto, Proc

LEMMA ClientMoved ==
  ASSUME Typed, NEW p \in Client, NEW l \in ClientLabels, Goto(p, l),
         pc[p] \notin Early => l \notin Early, visible' = visible, idle' = idle
  PROVE  PcType' /\ Counted' /\ IdleCount'
  <1>0. p \in Proc /\ p \notin Sweeper /\ TypeOK
    BY DEF Typed, Proc
  <1>1. PcType' /\ pc'[p] = l /\ \A q \in Proc \ {p} : pc'[q] = pc[q]
    BY <1>0, Moved
  <1>2. Writer \subseteq Proc /\ Sweeper \subseteq Proc
    BY DEF Proc, Client
  <1>3. Counted'
    BY <1>1, <1>2, PastKept
  <1>4. IdleCount'
    BY <1>0, <1>1, <1>2 DEF IdleCount, Typed
  <1> QED
    BY <1>1, <1>3, <1>4

LEMMA SweeperMoved ==
  ASSUME Typed, NEW s \in Sweeper, NEW l \in SweeperLabels, Goto(s, l), visible' = visible,
         \A t \in Sweeper \ {s} : idle'[t] = idle[t],
         idle'[s] = 2 => l = "idle"
  PROVE  PcType' /\ Counted' /\ IdleCount'
  <1>0. s \in Proc /\ s \notin Client /\ TypeOK
    BY DEF Typed, Proc
  <1>1. PcType' /\ pc'[s] = l /\ \A q \in Proc \ {s} : pc'[q] = pc[q]
    BY <1>0, Moved
  <1>2. Writer \subseteq Proc /\ Sweeper \subseteq Proc /\ s \notin Writer
    BY <1>0 DEF Proc, Client
  <1>3. Counted'
    BY <1>1, <1>2, PastKept
  <1>4. IdleCount'
    BY <1>1, <1>2 DEF IdleCount, Typed, vacuumIdlePasses
  <1> QED
    BY <1>1, <1>3, <1>4

\* A step that changes the store's part of the state, the vacuum's or neither.
LEMMA StoreKept == ASSUME TypeOK, UNCHANGED storeVars PROVE StoreType'
  BY DEF TypeOK, StoreType, storeVars

LEMMA WakeKept == ASSUME TypeOK, UNCHANGED <<wakeVars, sweeping, held>> PROVE WakeType'
  BY DEF TypeOK, WakeType, wakeVars

LEMMA SweepKept ==
  ASSUME TypeOK, UNCHANGED <<lastWatermark, cursor, wm, freed, visited, idle>>, visible' = visible
  PROVE  SweepType'
  BY DEF TypeOK, SweepType

LEMMA SnapshotTyped ==
  ASSUME Typed, NEW p \in Client,
         EnterHolding(p) \/ Publish(p) \/ EndRead(p) \/ releaseWriterSnapshot(p)
  PROVE  Typed'
  <1>0. TypeOK
    BY DEF Typed
  <1>1. PICK l \in ClientLabels : Goto(p, l) /\ (pc[p] \notin Early => l \notin Early)
    BY DEF EnterHolding, Publish, EndRead, releaseWriterSnapshot, Leave, At, ClientLabels, Early
  <1>2. UNCHANGED <<visible, versions, pending, created, wakeVars, sweepVars>>
    BY DEF EnterHolding, Publish, EndRead, releaseWriterSnapshot, Leave
  <1>3. PcType' /\ Counted' /\ IdleCount'
    BY <1>1, <1>2, ClientMoved DEF sweepVars
  <1>4. PICK n \in {0, -1, visible, start[p]} : start' = [start EXCEPT ![p] = n]
    <2>1. CASE UNCHANGED start
      BY <1>0, <2>1 DEF TypeOK, StoreType
    <2> QED
      BY <2>1 DEF EnterHolding, Publish, EndRead, releaseWriterSnapshot, Leave
  <1>5. StoreType'
    BY <1>0, <1>2, <1>4, Ranges DEF TypeOK, StoreType
  <1>6. WakeType' /\ SweepType'
    BY <1>0, <1>2, WakeKept, SweepKept DEF sweepVars
  <1> QED
    BY <1>3, <1>5, <1>6 DEF Typed, TypeOK

\* Steps of a client that change the program counter alone.
LEMMA StepTyped ==
  ASSUME Typed, NEW p \in Client,
         EndEmpty(p) \/ LoadRunning(p) \/ ChargeStranded(p) \/ ReclaimNow(p) \/ CloseReturns(p)
  PROVE  Typed'
  <1>0. TypeOK /\ p \in Proc
    BY DEF Typed, Proc
  <1>r. Return(p) \in {"done", "ended"}
    BY <1>0, ReturnFacts
  <1>1. PICK l \in ClientLabels : Goto(p, l) /\ (pc[p] \notin Early => l \notin Early)
    BY <1>r DEF EndEmpty, LoadRunning, ChargeStranded, ReclaimNow, CloseReturns, At, ClientLabels, Early
  <1>2. UNCHANGED <<storeVars, wakeVars, sweepVars>>
    BY DEF EndEmpty, LoadRunning, ChargeStranded, ReclaimNow, CloseReturns
  <1>3. PcType' /\ Counted' /\ IdleCount'
    BY <1>1, <1>2, ClientMoved DEF sweepVars, storeVars
  <1>4. StoreType' /\ WakeType' /\ SweepType'
    BY <1>0, <1>2, StoreKept, WakeKept, SweepKept DEF sweepVars, storeVars
  <1> QED
    BY <1>3, <1>4 DEF Typed, TypeOK

\* Steps that change the debt, the wake or the closed flag.
LEMMA WakeTyped ==
  ASSUME Typed, NEW p \in Client,
         SendWake(p) \/ Close(p) \/ (p \in Writer /\ abortWake(p)) \/ acquireSweeper(p)
  PROVE  Typed'
  <1>0. TypeOK /\ \A w \in Writer : Cardinality(pending[w]) \in 0 .. Units
    BY Ranges DEF Typed
  <1>1. PICK l \in ClientLabels : Goto(p, l) /\ (pc[p] \notin Early => l \notin Early)
    BY DEF SendWake, Close, abortWake, acquireSweeper, At, ClientLabels, Early
  <1>2. UNCHANGED <<storeVars, lastWatermark, cursor, wm, freed, visited, idle, held>>
    BY DEF SendWake, Close, abortWake, acquireSweeper, sweepVars
  <1>3. PcType' /\ Counted' /\ IdleCount'
    BY <1>1, <1>2, ClientMoved DEF storeVars
  <1>4. StoreType' /\ SweepType'
    BY <1>0, <1>2, StoreKept, SweepKept DEF storeVars
  <1>5. WakeType'
    <2>1. CASE SendWake(p)
      BY <1>0, <2>1 DEF TypeOK, WakeType, SendWake, sweepVars
    <2>2. CASE Close(p)
      BY <1>0, <2>2 DEF TypeOK, WakeType, Close, sweepVars
    <2>3. CASE p \in Writer /\ abortWake(p)
      BY <1>0, <2>3 DEF TypeOK, WakeType, abortWake, sweepVars
    <2>4. CASE acquireSweeper(p)
      BY <1>0, <2>4 DEF TypeOK, WakeType, acquireSweeper, wakeVars
    <2> QED
      BY <2>1, <2>2, <2>3, <2>4
  <1> QED
    BY <1>3, <1>4, <1>5 DEF Typed, TypeOK

\* A commit is the writer's first, so the frontier stays within the writers.
LEMMA CommitTyped ==
  ASSUME Typed, NEW p \in Writer, Commit(p)
  PROVE  Typed'
  <1>0. TypeOK /\ p \in Client /\ p \in Proc /\ p \notin Sweeper
    BY DEF Typed, Client, Proc
  <1>r. visible \in Nat /\ Cardinality(pending[p]) \in 0 .. Units
    BY <1>0, Ranges
  <1>1. Goto(p, "charge") /\ pc[p] = "open"
    BY DEF Commit, At
  <1>2. PcType' /\ pc'[p] = "charge" /\ \A q \in Proc \ {p} : pc'[q] = pc[q]
    BY <1>0, <1>1, Moved DEF ClientLabels
  <1>3. p \notin Past /\ Past \subseteq Writer /\ Past' = Past \union {p}
    BY <1>1, <1>2 DEF Past, Proc, Client
  <1>4. IsFiniteSet(Past) /\ Cardinality(Past) \in Nat /\ Cardinality(Past') <= MaxTS
    BY <1>3, PastFacts
  <1>5. Cardinality(Past') = Cardinality(Past) + 1
    BY <1>3, <1>4, FS_AddElement
  <1>6. visible' = visible + 1 /\ visible' <= Cardinality(Past') /\ visible' <= MaxTS
    BY <1>r, <1>4, <1>5, MaxTSType DEF Commit, Typed, Counted
  <1>7. versions' \subseteq Version
    <2>1. visible' \in 1 .. MaxTS /\ pending[p] \subseteq Unit
      BY <1>r, <1>0, <1>6, MaxTSType DEF TypeOK, StoreType
    <2>2. [ts : {visible'}, unit : pending[p]] \subseteq Version
      BY <2>1 DEF Version
    <2> QED
      BY <1>0, <2>2 DEF Commit, TypeOK, StoreType
  <1>8. StoreType'
    BY <1>0, <1>r, <1>6, <1>7, MaxTSType DEF Commit, TypeOK, StoreType
  <1>9. WakeType'
    BY <1>0, WakeKept DEF Commit, sweepVars
  <1>10. SweepType'
    BY <1>0, <1>r, <1>6 DEF Commit, TypeOK, SweepType, sweepVars
  <1>11. IdleCount'
    BY <1>0, <1>2 DEF IdleCount, Commit, sweepVars, Typed, Proc
  <1> QED
    BY <1>2, <1>6, <1>8, <1>9, <1>10, <1>11 DEF Typed, TypeOK, Counted

LEMMA WriterTyped ==
  ASSUME Typed, NEW p \in Writer,
         DirectWrite(p) \/ chargeReclaimDebt(p) \/ withdrawAbortedNow(p) \/ Credit(p)
  PROVE  Typed'
  <1>0. TypeOK /\ p \in Client
    BY DEF Typed, Client
  <1>r. Cardinality(pending[p]) \in 0 .. Units /\ created[p] \in 0 .. Units
    BY <1>0, Ranges
  <1>1. PICK l \in ClientLabels : Goto(p, l) /\ (pc[p] \notin Early => l \notin Early)
    BY DEF DirectWrite, chargeReclaimDebt, withdrawAbortedNow, Credit, At, ClientLabels, Early
  <1>2. UNCHANGED <<visible, versions, start, lastWatermark, cursor, wm, freed, visited, idle>>
    BY DEF DirectWrite, chargeReclaimDebt, withdrawAbortedNow, Credit, sweepVars
  <1>3. PcType' /\ Counted' /\ IdleCount'
    BY <1>0, <1>1, <1>2, ClientMoved
  <1>4. SweepType'
    BY <1>0, <1>2, SweepKept
  <1>5. StoreType'
    <2>1. pending' \in [Writer -> SUBSET Unit]
      BY <1>0 DEF DirectWrite, chargeReclaimDebt, withdrawAbortedNow, Credit, TypeOK, StoreType
    <2>2. created' \in [Writer -> 0 .. Units]
      BY <1>0, <1>r DEF DirectWrite, chargeReclaimDebt, withdrawAbortedNow, Credit, TypeOK, StoreType
    <2> QED
      BY <1>0, <1>2, <2>1, <2>2 DEF TypeOK, StoreType
  <1>6. WakeType'
    <2>1. CASE DirectWrite(p)
      BY <1>0, <2>1, WakeKept DEF DirectWrite, sweepVars
    <2>2. CASE chargeReclaimDebt(p)
      BY <1>0, <1>r, <2>2 DEF TypeOK, WakeType, chargeReclaimDebt, sweepVars
    <2>3. CASE withdrawAbortedNow(p)
      BY <1>0, <2>3 DEF TypeOK, WakeType, withdrawAbortedNow, wakeVars
    <2>4. CASE Credit(p)
      BY <1>0, <1>r, <2>4 DEF TypeOK, WakeType, Credit, sweepVars
    <2> QED
      BY <2>1, <2>2, <2>3, <2>4
  <1> QED
    BY <1>3, <1>4, <1>5, <1>6 DEF Typed, TypeOK

LEMMA ModifyTyped ==
  ASSUME Typed, NEW p \in Writer, Modify(p)
  PROVE  Typed'
  <1>0. TypeOK
    BY DEF Typed
  <1>1. UNCHANGED <<visible, versions, start, created, wakeVars, sweepVars, pc>>
    BY DEF Modify
  <1>2. StoreType'
    <2>1. pending' \in [Writer -> SUBSET Unit]
      BY <1>0 DEF Modify, TypeOK, StoreType
    <2> QED
      BY <1>0, <1>1, <2>1 DEF TypeOK, StoreType
  <1>3. WakeType' /\ SweepType' /\ PcType'
    BY <1>0, <1>1, WakeKept, SweepKept DEF sweepVars, TypeOK, PcType
  <1>4. Counted' /\ IdleCount'
    BY <1>1, PastKept DEF Typed, IdleCount, sweepVars
  <1> QED
    BY <1>2, <1>3, <1>4 DEF Typed, TypeOK

\* The sweep of a unit takes versions out, the pending ones of an abort included.
LEMMA SweepStoreTyped ==
  ASSUME TypeOK, NEW u \in Unit, NEW w, SweepStore(u, w), UNCHANGED <<visible, start, created>>
  PROVE  StoreType' /\ versions' \subseteq versions
  BY DEF SweepStore, TypeOK, StoreType

LEMMA ReaderTyped ==
  ASSUME Typed, NEW p \in Reader,
         \/ wakeVacuumOnRelease(p) \/ publishWatermark(p)
         \/ ReclaimScan(p) \/ ReclaimUnit(p) \/ releaseSweeper(p)
  PROVE  Typed'
  <1>0. TypeOK /\ p \in Client /\ StoreType
    BY DEF Typed, Client, TypeOK
  <1>r. /\ Oldest \in 0 .. visible /\ visible \in Nat
        /\ wm[p] \in 0 .. visible /\ visited[p] \in Unit /\ lastWatermark \in Nat
    BY <1>0, Ranges, OldestFacts DEF TypeOK, SweepType
  <1>1. PICK l \in ClientLabels : Goto(p, l) /\ (pc[p] \notin Early => l \notin Early)
    BY DEF wakeVacuumOnRelease, publishWatermark, ReclaimScan, ReclaimUnit, releaseSweeper, At,
           ClientLabels, Early
  <1>2. UNCHANGED <<visible, start, created, wakeVars, cursor, freed, idle, held>>
    BY DEF wakeVacuumOnRelease, publishWatermark, ReclaimScan, ReclaimUnit, releaseSweeper, storeVars
  <1>3. PcType' /\ Counted' /\ IdleCount'
    BY <1>0, <1>1, <1>2, ClientMoved
  <1>4. StoreType'
    <2>1. CASE ReclaimUnit(p)
      BY <1>0, <1>r, <1>2, <2>1, SweepStoreTyped DEF ReclaimUnit
    <2>2. CASE ~ReclaimUnit(p)
      BY <1>0, <2>2, StoreKept
         DEF wakeVacuumOnRelease, publishWatermark, ReclaimScan, releaseSweeper
    <2> QED
      BY <2>1, <2>2
  <1>5. WakeType'
    <2>1. sweeping' \in BOOLEAN
      BY <1>0 DEF wakeVacuumOnRelease, publishWatermark, ReclaimScan, ReclaimUnit, releaseSweeper,
                  TypeOK, WakeType
    <2> QED
      BY <1>0, <1>2, <2>1 DEF TypeOK, WakeType, wakeVars
  <1>6. SweepType'
    <2>1. wm' \in [Reader \union Sweeper -> 0 .. visible]
      BY <1>0, <1>r DEF wakeVacuumOnRelease, publishWatermark, ReclaimScan, ReclaimUnit,
                        releaseSweeper, TypeOK, SweepType
    <2>2. lastWatermark' \in 0 .. visible
      BY <1>0, <1>r, MaxPair DEF wakeVacuumOnRelease, publishWatermark, ReclaimScan, ReclaimUnit,
                        releaseSweeper, TypeOK, SweepType
    <2>3. visited' \in [Reader \union Sweeper -> Unit]
      <3>1. (visited[p] + 1) % Units \in Unit
        BY <1>r, UnitFacts
      <3> QED
        BY <1>0, <3>1 DEF wakeVacuumOnRelease, publishWatermark, ReclaimScan, ReclaimUnit,
                        releaseSweeper, TypeOK, SweepType
    <2> QED
      BY <1>0, <1>2, <2>1, <2>2, <2>3 DEF TypeOK, SweepType
  <1> QED
    BY <1>3, <1>4, <1>5, <1>6 DEF Typed, TypeOK

\* What startVacuum does: nothing but return, or one goroutine begins its loop.
Refuses(p) ==
  (closed \/ running) /\ UNCHANGED <<running, wg>> /\ pc'[p] = Return(p)
    /\ \A q \in Proc \ {p} : pc'[q] = pc[q]

Spawns(p, s) ==
  /\ ~closed /\ ~running /\ running' /\ wg' = wg + 1
  /\ pc[s] \in {"out", "start"} /\ pc'[s] = "consume"
  /\ p \in Sweeper => p = s
  /\ p \in Client => pc'[p] \in {"done", "ended"}
  /\ \A q \in Proc \ {p, s} : pc'[q] = pc[q]

LEMMA StartKinds ==
  ASSUME TypeOK, NEW p \in Proc, startVacuum(p)
  PROVE  pc' \in [Proc -> ClientLabels \union SweeperLabels] /\ (Refuses(p) \/ \E s \in Sweeper : Spawns(p, s))
  <1>1. pc \in [Proc -> ClientLabels \union SweeperLabels] /\ pc[p] = "start"
    BY DEF TypeOK, PcType, startVacuum, At
  <1>2. /\ p \in Sweeper => Return(p) = "out"
        /\ p \in Client => Return(p) \in {"done", "ended"}
    BY ReturnFacts
  <1>3. Return(p) \in ClientLabels \union SweeperLabels
    BY <1>2 DEF Proc, ClientLabels, SweeperLabels
  <1>4. CASE closed \/ running
    <2>1. Goto(p, Return(p)) /\ UNCHANGED <<running, wg>>
      BY <1>4 DEF startVacuum
    <2> QED
      BY <1>1, <1>3, <1>4, <2>1 DEF Goto, Refuses
  <1>5. CASE ~(closed \/ running)
    <2>1. /\ running' /\ wg' = wg + 1
          /\ p \in Sweeper \/ \E s \in Sweeper : At(s, "out")
          /\ pc' = [pc EXCEPT ![p] = Return(p), ![Spawned(p)] = "consume"]
      BY <1>5 DEF startVacuum
    <2>2. "consume" \in ClientLabels \union SweeperLabels
      BY DEF SweeperLabels
    <2>3. CASE p \in Sweeper
      <3>1. Spawned(p) = p /\ p \notin Client
        BY <2>3 DEF Spawned
      <3>2. Spawns(p, p)
        BY <1>1, <1>5, <2>1, <3>1 DEF Spawns
      <3> QED
        BY <1>1, <1>3, <2>1, <2>2, <2>3, <3>1, <3>2
    <2>4. CASE p \notin Sweeper
      <3> DEFINE s == Spawned(p)
      <3>1. s \in Sweeper /\ pc[s] = "out"
        BY <2>1, <2>4 DEF Spawned, At
      <3>2. s \in Proc /\ s # p
        BY <2>4, <3>1 DEF Proc
      <3> HIDE DEF s
      <3>3. pc' = [pc EXCEPT ![p] = Return(p), ![s] = "consume"]
        BY <2>1 DEF s
      <3>4. Spawns(p, s)
        BY <1>1, <1>2, <1>5, <2>1, <2>4, <3>1, <3>2, <3>3 DEF Spawns
      <3> QED
        BY <1>1, <1>3, <2>2, <3>1, <3>2, <3>3, <3>4
    <2> QED
      BY <2>3, <2>4
  <1> QED
    BY <1>4, <1>5

LEMMA StartTyped ==
  ASSUME Typed, NEW p \in Proc, startVacuum(p)
  PROVE  Typed'
  <1>0. TypeOK /\ pc[p] = "start"
    BY DEF Typed, startVacuum, At
  <1>u. UNCHANGED <<storeVars, reclaimDebt, wake, closed, sweepVars>>
    BY DEF startVacuum
  <1>1. /\ pc' \in [Proc -> ClientLabels \union SweeperLabels]
        /\ Refuses(p) \/ \E s \in Sweeper : Spawns(p, s)
    BY <1>0, StartKinds
  <1>2. /\ p \in Sweeper => Return(p) = "out"
        /\ p \in Client => Return(p) \in {"done", "ended"}
    BY ReturnFacts
  <1>3. Client \subseteq Proc /\ Sweeper \subseteq Proc /\ Writer \subseteq Client
    BY DEF Proc, Client
  <1>4. \A q \in Client : pc'[q] = pc[q] \/ (pc[q] = "start" /\ pc'[q] \in {"done", "ended"})
    BY <1>0, <1>1, <1>2, <1>3 DEF Refuses, Spawns
  <1>5. \A t \in Sweeper : pc'[t] = pc[t] \/ (pc[t] \in {"out", "start"} /\ pc'[t] \in {"out", "consume"})
    BY <1>0, <1>1, <1>2, <1>3 DEF Refuses, Spawns
  <1>6. PcType'
    BY <1>0, <1>1, <1>4, <1>5 DEF TypeOK, PcType, ClientLabels, SweeperLabels
  <1>7. Counted'
    BY <1>3, <1>4, <1>u, PastKept DEF Early, storeVars
  <1>8. IdleCount'
    BY <1>5, <1>u DEF IdleCount, Typed, sweepVars
  <1>9. wg' \in Nat /\ running' \in BOOLEAN
    <2>1. wg' \in Nat
      BY <1>0, <1>1 DEF Refuses, Spawns, TypeOK, WakeType
    <2>2. running' \in BOOLEAN
      BY <1>0 DEF startVacuum, TypeOK, WakeType
    <2> QED
      BY <2>1, <2>2
  <1>10. WakeType'
    BY <1>0, <1>u, <1>9 DEF TypeOK, WakeType, sweepVars
  <1>11. StoreType' /\ SweepType'
    BY <1>0, <1>u, StoreKept, SweepKept DEF storeVars, sweepVars
  <1> QED
    BY <1>6, <1>7, <1>8, <1>10, <1>11 DEF Typed, TypeOK

\* Steps of the loop that leave the pass alone.
LEMMA LoopTyped ==
  ASSUME Typed, NEW s \in Sweeper,
         \/ ConsumeWake(s) \/ ResetDebt(s) \/ SlotTaken(s) \/ NextPass(s) \/ Pace(s)
         \/ Backoff(s) \/ CheckWake(s)
  PROVE  Typed'
  <1>0. TypeOK
    BY DEF Typed
  <1>1. PICK l \in SweeperLabels : Goto(s, l)
    BY DEF ConsumeWake, ResetDebt, SlotTaken, NextPass, Pace, Backoff, CheckWake, SweeperLabels
  <1>2. pc[s] # "idle"
    BY DEF ConsumeWake, ResetDebt, SlotTaken, NextPass, Pace, Backoff, CheckWake, At
  <1>3. UNCHANGED <<storeVars, sweepVars, running, closed, wg>>
    BY DEF ConsumeWake, ResetDebt, SlotTaken, NextPass, Pace, Backoff, CheckWake, wakeVars
  <1>4. idle[s] # 2
    BY <1>2 DEF Typed, IdleCount, vacuumIdlePasses
  <1>5. PcType' /\ Counted' /\ IdleCount'
    BY <1>1, <1>3, <1>4, SweeperMoved DEF sweepVars, storeVars
  <1>6. wake' \in 0 .. 1 /\ reclaimDebt' \in Int
    BY <1>0 DEF ConsumeWake, ResetDebt, SlotTaken, NextPass, Pace, Backoff, CheckWake,
                TypeOK, WakeType, wakeVars
  <1>7. WakeType'
    BY <1>0, <1>3, <1>6 DEF TypeOK, WakeType, sweepVars
  <1>8. StoreType' /\ SweepType'
    BY <1>0, <1>3, StoreKept, SweepKept DEF storeVars, sweepVars
  <1> QED
    BY <1>5, <1>7, <1>8 DEF Typed, TypeOK

\* The wait group counts a sweeper that has yet to join.
LEMMA ExitTyped ==
  ASSUME Typed, Joined, NEW s \in Sweeper, IdleExit(s) \/ ClearRunning(s) \/ Join(s)
  PROVE  Typed'
  <1>0. TypeOK
    BY DEF Typed
  <1>1. PICK l \in SweeperLabels : Goto(s, l)
    BY DEF IdleExit, ClearRunning, Join, SweeperLabels
  <1>2. UNCHANGED <<storeVars, reclaimDebt, wake, closed, sweeping, lastWatermark, cursor, wm, freed,
                    visited, held>>
    BY DEF IdleExit, ClearRunning, Join, wakeVars, sweepVars
  <1>3. idle' \in [Sweeper -> 0 .. 2] /\ idle'[s] # 2 /\ \A t \in Sweeper \ {s} : idle'[t] = idle[t]
    <2>1. CASE Join(s)
      BY <1>0, <2>1 DEF Join, At, Typed, IdleCount, vacuumIdlePasses, sweepVars, TypeOK, SweepType
    <2>2. CASE ~Join(s)
      BY <1>0, <2>2 DEF IdleExit, ClearRunning, vacuumIdlePasses, TypeOK, SweepType
    <2> QED
      BY <2>1, <2>2
  <1>4. PcType' /\ Counted' /\ IdleCount'
    BY <1>1, <1>2, <1>3, SweeperMoved DEF storeVars
  <1>5. wg' \in Nat /\ running' \in BOOLEAN
    <2>1. CASE Join(s)
      <3>1. s \in Alive /\ IsFiniteSet(Alive)
        BY <2>1 DEF Join, At, Alive, Joined
      <3>2. Cardinality(Alive) \in Nat /\ Cardinality(Alive) # 0
        BY <3>1, FS_EmptySet, FS_CardinalityType
      <3> QED
        BY <1>0, <2>1, <3>2 DEF Join, Joined, TypeOK, WakeType
    <2>2. CASE ~Join(s)
      BY <1>0, <2>2 DEF IdleExit, ClearRunning, wakeVars, TypeOK, WakeType
    <2> QED
      BY <2>1, <2>2
  <1>6. WakeType'
    BY <1>0, <1>2, <1>5 DEF TypeOK, WakeType
  <1>7. StoreType'
    BY <1>0, <1>2, StoreKept
  <1>8. SweepType'
    BY <1>0, <1>2, <1>3 DEF TypeOK, SweepType, storeVars, vacuumIdlePasses
  <1> QED
    BY <1>4, <1>6, <1>7, <1>8 DEF Typed, TypeOK

LEMMA PassTyped ==
  ASSUME Typed, NEW s \in Sweeper, vacuumPass(s)
  PROVE  Typed'
  <1>0. TypeOK /\ StoreType
    BY DEF Typed, TypeOK
  <1>r. Oldest \in 0 .. visible /\ visible \in Nat /\ lastWatermark \in Nat /\ lastWatermark <= visible
    BY <1>0, Ranges, OldestFacts
  <1>1. Goto(s, IF Oldest = 0 THEN "pass end" ELSE "unit") /\ pc[s] = "try"
    BY DEF vacuumPass, At
  <1>2. UNCHANGED <<storeVars, wakeVars, cursor, freed, visited, idle>>
    BY DEF vacuumPass
  <1>3. PcType' /\ Counted' /\ IdleCount'
    <2>1. idle[s] # 2
      BY <1>1 DEF Typed, IdleCount, vacuumIdlePasses
    <2>2. (IF Oldest = 0 THEN "pass end" ELSE "unit") \in SweeperLabels
      BY DEF SweeperLabels
    <2> QED
      BY <1>1, <1>2, <2>1, <2>2, SweeperMoved DEF storeVars
  <1>4. StoreType'
    BY <1>0, <1>2, StoreKept
  <1>5. WakeType'
    <2>1. held' \in {"none", "reader", "silent"}
      BY DEF vacuumPass, Obstacle
    <2>2. sweeping' \in BOOLEAN
      BY DEF vacuumPass
    <2> QED
      BY <1>0, <1>2, <2>1, <2>2 DEF TypeOK, WakeType, wakeVars
  <1>6. SweepType'
    <2>1. lastWatermark' \in 0 .. visible
      <3>0. Oldest \in Nat
        BY <1>r
      <3>1. lastWatermark' = Max({lastWatermark, Oldest})
        BY Zenon DEF vacuumPass
      <3>2. Max({lastWatermark, Oldest}) = IF lastWatermark >= Oldest THEN lastWatermark ELSE Oldest
        BY <1>r, <3>0, MaxPair
      <3> QED
        BY <1>r, <3>0, <3>1, <3>2
    <2>2. wm' \in [Reader \union Sweeper -> 0 .. visible]
      BY <1>0, <1>r DEF vacuumPass, TypeOK, SweepType
    <2> QED
      BY <1>0, <1>2, <2>1, <2>2 DEF TypeOK, SweepType, storeVars
  <1> QED
    BY <1>3, <1>4, <1>5, <1>6 DEF Typed, TypeOK

LEMMA ReclaimedCount ==
  ASSUME TypeOK, NEW u, NEW w
  PROVE  Cardinality(Reclaimable(u, w)) \in Nat /\ Cardinality(AbortedIn(u)) \in Nat
  <1>1. Reclaimable(u, w) \subseteq Version /\ AbortedIn(u) \subseteq Writer
    BY DEF TypeOK, StoreType, Reclaimable, AbortedIn
  <1>2. IsFiniteSet(Reclaimable(u, w))
    BY <1>1, VersionFinite, FS_Subset
  <1> QED
    BY <1>1, <1>2, PastFacts, FS_CardinalityType

\* The unit that sweepUnit comes to, and what it has freed then.
UnitAt(s) == (cursor + visited[s]) % Units

FreedBy(s) ==
  freed[s] + Cardinality(Reclaimable(UnitAt(s), wm[s])) + Cardinality(AbortedIn(UnitAt(s)))

LEMMA UnitSwept ==
  ASSUME TypeOK, NEW s \in Sweeper, sweepUnit(s)
  PROVE  /\ pc[s] = "unit" /\ UnitAt(s) \in Unit /\ FreedBy(s) \in Nat
         /\ SweepStore(UnitAt(s), wm[s])
         /\ freed' = [freed EXCEPT ![s] = FreedBy(s)]
         /\ \/ /\ FreedBy(s) >= vacuumRecordsPerPass \/ visited[s] + 1 = Units
               /\ visited' = [visited EXCEPT ![s] = 0]
               /\ Goto(s, "pass end")
               /\ cursor' \in Unit
            \/ /\ FreedBy(s) < vacuumRecordsPerPass /\ visited[s] + 1 < Units
               /\ visited' = [visited EXCEPT ![s] = visited[s] + 1]
               /\ UNCHANGED <<pc, cursor>>
  <1>1. /\ cursor \in Nat /\ cursor \in Unit /\ visited[s] \in Nat /\ freed[s] \in Nat
        /\ visited \in [Reader \union Sweeper -> Unit]
    BY Ranges DEF TypeOK, SweepType
  <1>2. UnitAt(s) \in Unit /\ (cursor + visited[s] + 1) % Units \in Unit
    BY <1>1, UnitFacts DEF UnitAt
  <1>3. FreedBy(s) \in Nat
    <2>1. /\ Cardinality(Reclaimable(UnitAt(s), wm[s])) \in Nat
          /\ Cardinality(AbortedIn(UnitAt(s))) \in Nat
      BY ReclaimedCount
    <2> QED
      BY <1>1, <2>1 DEF FreedBy
  <1>4. /\ SweepStore(UnitAt(s), wm[s])
        /\ freed' = [freed EXCEPT ![s] = FreedBy(s)]
        /\ cursor' = IF FreedBy(s) >= vacuumRecordsPerPass
                     THEN (cursor + visited[s] + 1) % Units ELSE cursor
        /\ \/ /\ FreedBy(s) >= vacuumRecordsPerPass \/ visited[s] + 1 = Units
              /\ visited' = [visited EXCEPT ![s] = 0]
              /\ Goto(s, "pass end")
           \/ /\ ~(FreedBy(s) >= vacuumRecordsPerPass) /\ visited[s] + 1 < Units
              /\ visited' = [visited EXCEPT ![s] = @ + 1]
              /\ UNCHANGED pc
    BY DEF sweepUnit, FreedBy, UnitAt
  <1>5. visited' = [visited EXCEPT ![s] = @ + 1] => visited' = [visited EXCEPT ![s] = visited[s] + 1]
    BY <1>1
  <1>6. pc[s] = "unit"
    BY DEF sweepUnit, At
  <1>7. cursor' \in Unit
    BY <1>1, <1>2, <1>4
  <1>8. CASE FreedBy(s) >= vacuumRecordsPerPass
    BY <1>2, <1>3, <1>4, <1>6, <1>7, <1>8
  <1>9. CASE ~(FreedBy(s) >= vacuumRecordsPerPass)
    <2>1. FreedBy(s) < vacuumRecordsPerPass
      BY <1>3, <1>9
    <2> QED
      BY <1>2, <1>3, <1>4, <1>5, <1>6, <1>7, <1>9, <2>1
  <1> QED
    BY <1>8, <1>9

LEMMA SweepTyped ==
  ASSUME Typed, NEW s \in Sweeper, sweepUnit(s)
  PROVE  Typed'
  <1>0. TypeOK /\ visited[s] \in Nat
    BY Ranges DEF Typed
  <1>1. UNCHANGED <<visible, start, created, wakeVars, sweeping, lastWatermark, wm, idle, held>>
    BY DEF sweepUnit
  <1>2. /\ pc[s] = "unit" /\ UnitAt(s) \in Unit /\ FreedBy(s) \in Nat
        /\ SweepStore(UnitAt(s), wm[s])
        /\ freed' = [freed EXCEPT ![s] = FreedBy(s)]
        /\ \/ /\ visited' = [visited EXCEPT ![s] = 0]
              /\ Goto(s, "pass end")
              /\ cursor' \in Unit
           \/ /\ visited[s] + 1 < Units
              /\ visited' = [visited EXCEPT ![s] = visited[s] + 1]
              /\ UNCHANGED <<pc, cursor>>
    BY <1>0, UnitSwept
  <1>3. idle[s] # 2
    BY <1>2 DEF Typed, IdleCount, vacuumIdlePasses
  <1>4. Goto(s, "pass end") \/ Goto(s, "unit")
    <2>1. UNCHANGED pc => Goto(s, "unit")
      BY <1>0, <1>2 DEF TypeOK, PcType, Goto
    <2> QED
      BY <1>2, <2>1
  <1>5. PcType' /\ Counted' /\ IdleCount'
    BY <1>1, <1>3, <1>4, SweeperMoved DEF SweeperLabels
  <1>6. StoreType'
    BY <1>0, <1>1, <1>2, SweepStoreTyped
  <1>7. WakeType'
    BY <1>0, <1>1, WakeKept
  <1>8. SweepType'
    <2>1. visited' \in [Reader \union Sweeper -> Unit] /\ cursor' \in Unit
      <3>1. visited[s] + 1 < Units => visited[s] + 1 \in Unit
        BY <1>0 DEF Unit
      <3> QED
        BY <1>0, <1>2, <3>1, UnitFacts DEF TypeOK, SweepType
    <2>2. freed' \in [Sweeper -> Nat]
      BY <1>0, <1>2 DEF TypeOK, SweepType
    <2> QED
      BY <1>0, <1>1, <2>1, <2>2 DEF TypeOK, SweepType
  <1> QED
    BY <1>5, <1>6, <1>7, <1>8 DEF Typed, TypeOK

\* What EndPass does with the goroutine.
EndsAt(s, l) ==
  /\ Goto(s, l) /\ (Backlog(s) => l = "stop")
  /\ \E n \in 0 .. 2 : idle' = [idle EXCEPT ![s] = n] /\ (n = 2 => l = "idle")

LEMMA PassEnded ==
  ASSUME Typed, NEW s \in Sweeper, EndPass(s)
  PROVE  pc[s] = "pass end" /\ \E l \in {"stop", "pace", "backoff", "idle"} : EndsAt(s, l)
  <1> DEFINE n == IF freed[s] > 0 THEN 0 ELSE idle[s] + 1
             l == CASE Backlog(s) -> "stop"
                    [] freed[s] > 0 /\ ~Backlog(s) -> "pace"
                    [] freed[s] = 0 /\ n < 2 -> "backoff"
                    [] freed[s] = 0 /\ n >= 2 -> "idle"
  <1>1. pc[s] = "pass end"
    BY DEF EndPass, At
  <1>2. freed[s] \in Nat /\ idle[s] \in 0 .. 1 /\ idle \in [Sweeper -> 0 .. 2]
    <2>1. freed[s] \in Nat /\ idle[s] \in 0 .. 2
      BY Ranges DEF Typed
    <2>2. idle[s] # 2
      BY <1>1 DEF Typed, IdleCount, vacuumIdlePasses
    <2>3. idle \in [Sweeper -> 0 .. 2]
      BY DEF Typed, TypeOK, SweepType, vacuumIdlePasses
    <2> QED
      BY <2>1, <2>2, <2>3
  <1>3. n \in 0 .. 2 /\ (freed[s] > 0 => n = 0)
    BY <1>2
  <1>4. idle' = [idle EXCEPT ![s] = n]
    BY DEF EndPass
  <1>5. idle'[s] = n
    BY <1>2, <1>4
  <1>6. Goto(s, l)
    BY <1>5 DEF EndPass, vacuumIdlePasses
  <1>b. Backlog(s) => freed[s] > 0
    <2>1. Min({vacuumRecordsPerPass, reclaimThreshold}) \in {vacuumRecordsPerPass, reclaimThreshold}
      BY MinPair
    <2> QED
      BY <1>2, <2>1 DEF Backlog
  <1>7. l \in {"stop", "pace", "backoff", "idle"} /\ (Backlog(s) => l = "stop") /\ (n = 2 => l = "idle")
    BY <1>b, <1>2, <1>3
  <1> HIDE DEF n, l
  <1>8. EndsAt(s, l)
    BY <1>3, <1>4, <1>6, <1>7 DEF EndsAt
  <1> QED
    BY <1>1, <1>7, <1>8

LEMMA EndTyped ==
  ASSUME Typed, NEW s \in Sweeper, EndPass(s)
  PROVE  Typed'
  <1>0. TypeOK
    BY DEF Typed
  <1>l. PICK l \in {"stop", "pace", "backoff", "idle"} : EndsAt(s, l)
    BY PassEnded
  <1>1. PICK n \in 0 .. 2 :
           Goto(s, l) /\ idle' = [idle EXCEPT ![s] = n] /\ (n = 2 => l = "idle")
    BY <1>l, Zenon DEF EndsAt
  <1>2. UNCHANGED <<storeVars, wakeVars, lastWatermark, cursor, visited, held>>
    BY DEF EndPass
  <1>3. idle \in [Sweeper -> 0 .. 2]
    BY <1>0 DEF TypeOK, SweepType, vacuumIdlePasses
  <1>4. PcType' /\ Counted' /\ IdleCount'
    BY <1>1, <1>2, <1>3, SweeperMoved DEF storeVars, SweeperLabels
  <1>5. StoreType'
    BY <1>0, <1>2, StoreKept
  <1>6. WakeType'
    BY <1>0, <1>2 DEF EndPass, TypeOK, WakeType, wakeVars
  <1>7. SweepType'
    <2>1. idle' \in [Sweeper -> 0 .. vacuumIdlePasses]
      BY <1>1, <1>3 DEF vacuumIdlePasses
    <2>2. wm' \in [Reader \union Sweeper -> 0 .. visible] /\ freed' \in [Sweeper -> Nat]
      <3>1. 0 \in 0 .. visible
        BY <1>0, Ranges
      <3> QED
        BY <1>0, <3>1 DEF EndPass, TypeOK, SweepType
    <2> QED
      BY <1>0, <1>2, <2>1, <2>2 DEF TypeOK, SweepType, storeVars
  <1> QED
    BY <1>4, <1>5, <1>6, <1>7 DEF Typed, TypeOK

LEMMA TypedStep ==
  ASSUME VInv, [Next]_vars
  PROVE  Typed'
  <1>0. Typed /\ Joined
    BY DEF VInv, Typed
  <1>k. Reader \subseteq Client /\ Writer \subseteq Client /\ Bracket \subseteq Writer
        /\ Direct \subseteq Writer /\ Client \subseteq Proc /\ Sweeper \subseteq Proc
    BY DEF Client, Writer, Proc
  <1>1. ASSUME NEW r \in Reader, Read(r) \/ Wake(r) \/ Reclaim(r) \/ Close(r) \/ CloseReturns(r)
        PROVE  Typed'
    BY <1>0, <1>1, <1>k, SnapshotTyped, StepTyped, WakeTyped, ReaderTyped, StartTyped
       DEF Read, Wake, Reclaim
  <1>2. ASSUME NEW w \in Bracket, Write(w)
        PROVE  Typed'
    BY <1>0, <1>2, <1>k, SnapshotTyped, ModifyTyped, StepTyped DEF Write
  <1>3. ASSUME NEW w \in Direct, DirectWrite(w)
        PROVE  Typed'
    BY <1>0, <1>3, <1>k, WriterTyped
  <1>4. ASSUME NEW w \in Writer, EndWrite(w) \/ Wake(w)
        PROVE  Typed'
    BY <1>0, <1>4, <1>k, CommitTyped, WriterTyped, StepTyped, WakeTyped, StartTyped
       DEF EndWrite, Wake
  <1>5. ASSUME NEW s \in Sweeper, vacuumLoop(s)
        PROVE  Typed'
    BY <1>0, <1>5, <1>k, LoopTyped, ExitTyped, PassTyped, SweepTyped, EndTyped, StartTyped
       DEF vacuumLoop
  <1>6. CASE UNCHANGED vars
    <2>1. UNCHANGED <<storeVars, wakeVars, sweepVars, pc>>
      BY <1>6 DEF vars
    <2>2. TypeOK /\ StoreType' /\ WakeType' /\ SweepType'
      BY <1>0, <2>1, StoreKept, WakeKept, SweepKept DEF Typed, storeVars, sweepVars
    <2>3. PcType' /\ IdleCount' /\ Counted'
      BY <1>0, <2>1, <2>2, PastKept DEF TypeOK, PcType, Typed, IdleCount, storeVars, sweepVars
    <2> QED
      BY <2>2, <2>3 DEF Typed, TypeOK
  <1> QED
    BY <1>1, <1>2, <1>3, <1>4, <1>5, <1>6 DEF Next

-----------------------------------------------------------------------------
(* The life of the goroutine: running, the wait group, the wake, closed.   *)

Life == OneSweeper /\ Joined /\ Closing /\ NoLostWake

LifeKept == UNCHANGED <<running, wg, closed>>

Others(p) == \A q \in Proc \ {p} : pc'[q] = pc[q]

\* A client goes on: it leaves the wake to a sweeper that runs or to itself.
ClientGoes(p) ==
  /\ LifeKept /\ Others(p)
  /\ pc'[p] \notin {"wait", "closed"}
  /\ wake' = wake \/ pc'[p] = "load"
  /\ pc[p] \in {"load", "start"} => running \/ closed \/ pc'[p] \in {"load", "start"}

\* The sweeper goes on in its loop.
LoopGoes(s) == LifeKept /\ Others(s) /\ pc[s] \in Loop /\ pc'[s] \in Loop

\* The goroutine's end, where it looks for a wake again.
EndGoes(s) ==
  /\ LifeKept /\ Others(s) /\ wake' = wake
  /\ pc[s] \in {"tail", "start"} /\ pc'[s] \in {"out", "start"}
  /\ wake > 0 /\ ~closed => running \/ pc'[s] = "start"

LEMMA ClientLife ==
  ASSUME TypeOK, Life, NEW p \in Client, ClientGoes(p)
  PROVE  Life'
  <1>1. p \in Proc /\ p \notin Sweeper /\ Sweeper \subseteq Proc /\ Reader \subseteq Proc
    BY DEF Proc, Client
  <1>2. \A s \in Sweeper : pc'[s] = pc[s]
    BY <1>1 DEF ClientGoes, Others
  <1>3. LifeKept
    BY DEF ClientGoes
  <1>4. OneSweeper'
    BY <1>2, <1>3 DEF Life, OneSweeper, LifeKept
  <1>5. Alive' = Alive
    BY <1>2 DEF Alive
  <1>6. Joined'
    BY <1>3, <1>5 DEF Life, Joined, LifeKept
  <1>7. Closing'
    BY <1>1, <1>3, <1>5 DEF Life, Closing, LifeKept, ClientGoes, Others
  <1>8. NoLostWake'
    <2>1. CASE pc'[p] \in {"load", "start"}
      BY <1>1, <2>1 DEF NoLostWake
    <2>2. CASE pc'[p] \notin {"load", "start"}
      <3>1. wake' = wake /\ (pc[p] \in {"load", "start"} => running \/ closed)
        BY <2>2 DEF ClientGoes
      <3>2. \A q \in Proc : q # p => pc'[q] = pc[q]
        BY DEF ClientGoes, Others
      <3> QED
        BY <1>2, <1>3, <3>1, <3>2 DEF Life, NoLostWake, LifeKept
    <2> QED
      BY <2>1, <2>2
  <1> QED
    BY <1>4, <1>6, <1>7, <1>8 DEF Life

\* A sweeper's step within its loop, or within its end.
LEMMA SweeperLife ==
  ASSUME TypeOK, Life, NEW s \in Sweeper, LoopGoes(s) \/ EndGoes(s)
  PROVE  Life'
  <1>1. s \in Proc /\ s \notin Reader /\ Sweeper \subseteq Proc /\ Reader \subseteq Proc
    BY DEF Proc, Client
  <1>2. LifeKept /\ \A q \in Proc : q # s => pc'[q] = pc[q]
    BY DEF LoopGoes, EndGoes, Others
  <1>3. pc[s] \in Loop <=> pc'[s] \in Loop
    BY DEF LoopGoes, EndGoes, Loop
  <1>4. OneSweeper'
    BY <1>1, <1>2, <1>3 DEF Life, OneSweeper, LifeKept
  <1>5. pc[s] \in Loop \union {"join"} <=> pc'[s] \in Loop \union {"join"}
    BY DEF LoopGoes, EndGoes, Loop
  <1>6. Alive' = Alive
    BY <1>1, <1>2, <1>5 DEF Alive
  <1>7. Joined'
    BY <1>2, <1>6 DEF Life, Joined, LifeKept
  <1>8. Closing'
    BY <1>1, <1>2, <1>6 DEF Life, Closing, LifeKept
  <1>9. NoLostWake'
    <2>1. CASE LoopGoes(s)
      <3>1. running'
        BY <2>1 DEF LoopGoes, LifeKept, Life, OneSweeper
      <3> QED
        BY <3>1 DEF NoLostWake
    <2>2. CASE EndGoes(s)
      <3>1. /\ wake' = wake /\ (wake > 0 /\ ~closed => running \/ pc'[s] = "start")
            /\ (running' <=> running) /\ (closed' <=> closed)
        BY <2>2 DEF EndGoes, LifeKept
      <3> QED
        BY <1>1, <3>1 DEF NoLostWake
    <2> QED
      BY <2>1, <2>2
  <1> QED
    BY <1>4, <1>7, <1>8, <1>9 DEF Life

LEMMA SpawnLife ==
  ASSUME TypeOK, Life, NEW p \in Proc, NEW s \in Sweeper, Spawns(p, s), closed' = closed
  PROVE  Life'
  <1>1. s \in Proc /\ s \notin Reader /\ s \notin Client /\ Sweeper \subseteq Proc /\ Reader \subseteq Proc
        /\ Reader \subseteq Client
    BY DEF Proc, Client
  <1>2. \A q \in Proc : q # s /\ q # p => pc'[q] = pc[q]
    BY DEF Spawns
  <1>3. \A t \in Sweeper : t # s => pc'[t] = pc[t]
    BY <1>1, <1>2 DEF Spawns
  <1>4. pc[s] \notin Loop \union {"join"} /\ pc'[s] \in Loop
    BY DEF Spawns, Loop
  <1>5. \A t \in Sweeper : pc[t] \notin Loop
    BY DEF Spawns, Life, OneSweeper
  <1>6. OneSweeper'
    BY <1>3, <1>4, <1>5 DEF OneSweeper, Spawns
  <1>7. Joined'
    <2>1. s \notin Alive /\ Alive' = Alive \union {s}
      BY <1>3, <1>4 DEF Alive
    <2>2. IsFiniteSet(Alive) /\ wg = Cardinality(Alive) /\ wg' = wg + 1
      BY DEF Life, Joined, Spawns
    <2> QED
      BY <2>1, <2>2, FS_AddElement DEF Joined
  <1>8. Closing'
    <2>1. \A r \in Reader : pc'[r] \in {"wait", "closed"} => pc[r] \in {"wait", "closed"}
      BY <1>1, <1>2 DEF Spawns
    <2> QED
      BY <2>1 DEF Life, Closing, Spawns
  <1>9. NoLostWake'
    BY DEF NoLostWake, Spawns
  <1> QED
    BY <1>6, <1>7, <1>8, <1>9 DEF Life

LEMMA CloseLife ==
  ASSUME TypeOK, Life, NEW c \in Reader, Close(c) \/ CloseReturns(c)
  PROVE  Life'
  <1>1. c \in Proc /\ c \notin Sweeper /\ Sweeper \subseteq Proc /\ Reader \subseteq Proc
    BY DEF Proc, Client
  <1>2. PICK l \in {"wait", "closed", "done"} :
          pc' = [pc EXCEPT ![c] = l] /\ (l = "closed" => wg = 0) /\ (CloseReturns(c) => l # "wait")
    BY DEF Close, CloseReturns, Goto, At
  <1>3. pc'[c] = l /\ \A q \in Proc : q # c => pc'[q] = pc[q]
    BY <1>1, <1>2 DEF TypeOK, PcType
  <1>4. UNCHANGED <<running, wg, wake>> /\ pc[c] \in {"out", "wait"}
    BY DEF Close, CloseReturns, wakeVars, At
  <1>5. (closed => closed') /\ (Close(c) => closed') /\ (CloseReturns(c) => pc[c] = "wait")
    BY DEF Close, CloseReturns, wakeVars, At
  <1>6. Alive' = Alive /\ OneSweeper'
    BY <1>1, <1>3, <1>4 DEF Alive, Life, OneSweeper
  <1>7. Joined'
    BY <1>4, <1>6 DEF Joined, Life
  <1>8. Closing'
    <2>1. \A r \in Reader : pc'[r] \in {"wait", "closed"} => closed'
      BY <1>1, <1>3, <1>5 DEF Life, Closing
    <2>2. l = "closed" => Alive = {}
      BY <1>2, FS_EmptySet DEF Life, Joined
    <2>3. (\E r \in Reader : pc'[r] = "closed") => Alive = {}
      BY <1>1, <1>2, <1>3, <2>2 DEF Life, Closing
    <2> QED
      BY <1>6, <2>1, <2>3 DEF Closing
  <1>9. NoLostWake'
    <2>1. CASE closed'
      BY <2>1 DEF NoLostWake
    <2>2. CASE ~closed'
      <3>1. ~closed /\ \A q \in Proc : pc[q] \in {"load", "start", "join", "tail"} => pc'[q] = pc[q]
        BY <1>3, <1>4, <1>5, <2>2
      <3> QED
        BY <1>1, <1>4, <3>1 DEF NoLostWake, Life
    <2> QED
      BY <2>1, <2>2
  <1> QED
    BY <1>6, <1>7, <1>8, <1>9 DEF Life

LEMMA ExitLife ==
  ASSUME TypeOK, Life, NEW s \in Sweeper, ClearRunning(s) \/ Join(s)
  PROVE  Life'
  <1>1. s \in Proc /\ s \notin Reader /\ Sweeper \subseteq Proc /\ Reader \subseteq Proc
    BY DEF Proc, Client
  <1>2. UNCHANGED <<wake, closed>>
    BY DEF ClearRunning, Join, sweepVars
  <1>3. CASE ClearRunning(s)
    <2>1. pc[s] = "exit" /\ ~running' /\ wg' = wg /\ pc' = [pc EXCEPT ![s] = "join"]
      BY <1>3 DEF ClearRunning, At, Goto
    <2>2. pc'[s] = "join" /\ \A q \in Proc : q # s => pc'[q] = pc[q]
      BY <1>1, <2>1 DEF TypeOK, PcType
    <2>3. \A t \in Sweeper : t # s => pc[t] \notin Loop
      BY <2>1 DEF Life, OneSweeper, Loop
    <2>4. OneSweeper'
      BY <1>1, <2>1, <2>2, <2>3 DEF OneSweeper, Loop
    <2>5. Alive' = Alive
      BY <1>1, <2>1, <2>2 DEF Alive, Loop
    <2>6. Joined' /\ Closing'
      BY <1>1, <1>2, <2>1, <2>2, <2>5 DEF Life, Joined, Closing
    <2>7. NoLostWake'
      BY <2>2 DEF NoLostWake
    <2> QED
      BY <2>4, <2>6, <2>7 DEF Life
  <1>4. CASE Join(s)
    <2>1. pc[s] = "join" /\ running' = running /\ wg' = wg - 1 /\ pc' = [pc EXCEPT ![s] = "tail"]
      BY <1>4 DEF Join, At, Goto
    <2>2. pc'[s] = "tail" /\ \A q \in Proc : q # s => pc'[q] = pc[q]
      BY <1>1, <2>1 DEF TypeOK, PcType
    <2>3. OneSweeper'
      BY <1>1, <2>1, <2>2 DEF Life, OneSweeper, Loop
    <2>4. s \in Alive /\ Alive' = Alive \ {s}
      BY <1>1, <2>1, <2>2 DEF Alive, Loop
    <2>5. Joined'
      BY <2>1, <2>4, FS_RemoveElement DEF Life, Joined
    <2>6. Closing'
      BY <1>1, <1>2, <2>2, <2>4 DEF Life, Closing
    <2>7. NoLostWake'
      BY <2>2 DEF NoLostWake
    <2> QED
      BY <2>3, <2>5, <2>6, <2>7 DEF Life
  <1> QED
    BY <1>3, <1>4

LEMMA Went ==
  ASSUME TypeOK, NEW p \in Proc, NEW l, Goto(p, l)
  PROVE  pc'[p] = l /\ Others(p)
  BY DEF TypeOK, PcType, Goto, Others

\* The steps of the clients, as the vacuum's life cycle sees them.
LEMMA ClientSteps ==
  ASSUME TypeOK, NEW p \in Client,
         \/ EnterHolding(p) \/ Publish(p) \/ EndRead(p) \/ wakeVacuumOnRelease(p)
         \/ publishWatermark(p) \/ EndEmpty(p) \/ releaseWriterSnapshot(p) \/ DirectWrite(p)
         \/ Commit(p) \/ chargeReclaimDebt(p) \/ ChargeStranded(p) \/ abortWake(p)
         \/ acquireSweeper(p) \/ withdrawAbortedNow(p) \/ Credit(p) \/ SendWake(p)
         \/ LoadRunning(p) \/ ReclaimNow(p) \/ ReclaimScan(p) \/ ReclaimUnit(p)
         \/ releaseSweeper(p)
  PROVE  ClientGoes(p)
  <1>1. p \in Proc
    BY DEF Proc
  <1>r. Return(p) \in {"done", "ended"}
    BY <1>1, ReturnFacts
  <1>2. LifeKept
    BY DEF EnterHolding, Publish, EndRead, wakeVacuumOnRelease, publishWatermark, EndEmpty,
           releaseWriterSnapshot, Leave, DirectWrite, Commit, chargeReclaimDebt, ChargeStranded,
           abortWake, acquireSweeper, withdrawAbortedNow, Credit, SendWake, LoadRunning, ReclaimNow,
           ReclaimScan, ReclaimUnit, releaseSweeper, wakeVars, LifeKept
  <1>3. PICK l : /\ Goto(p, l) /\ l \notin {"wait", "closed"}
                 /\ wake' = wake \/ l = "load"
                 /\ pc[p] \in {"load", "start"} => running \/ l = "start"
    <2>1. CASE SendWake(p)
      BY <2>1 DEF SendWake, At
    <2>2. CASE LoadRunning(p)
      <3>1. CASE running
        BY <1>r, <2>2, <3>1 DEF LoadRunning, wakeVars
      <3>2. CASE ~running
        BY <2>2, <3>2 DEF LoadRunning, wakeVars
      <3> QED
        BY <3>1, <3>2
    <2>3. CASE ~SendWake(p) /\ ~LoadRunning(p)
      <3>1. pc[p] \notin {"load", "start"} /\ wake' = wake
        BY <2>3
           DEF EnterHolding, Publish, EndRead, wakeVacuumOnRelease, publishWatermark, EndEmpty,
           releaseWriterSnapshot, Leave, DirectWrite, Commit, chargeReclaimDebt, ChargeStranded,
           abortWake, acquireSweeper, withdrawAbortedNow, Credit, ReclaimNow,
           ReclaimScan, ReclaimUnit, releaseSweeper, wakeVars, At
      <3>2. \E l : Goto(p, l) /\ l \notin {"wait", "closed"}
        BY <1>r, <2>3
           DEF EnterHolding, Publish, EndRead, wakeVacuumOnRelease, publishWatermark, EndEmpty,
           releaseWriterSnapshot, Leave, DirectWrite, Commit, chargeReclaimDebt, ChargeStranded,
           abortWake, acquireSweeper, withdrawAbortedNow, Credit, ReclaimNow,
           ReclaimScan, ReclaimUnit, releaseSweeper
      <3> QED
        BY <3>1, <3>2
    <2> QED
      BY <2>1, <2>2, <2>3
  <1>4. pc'[p] = l /\ Others(p)
    BY <1>1, <1>3, Went
  <1> QED
    BY <1>2, <1>3, <1>4 DEF ClientGoes

\* The steps of the sweeper within its loop, and at its end.
LEMMA LoopSteps ==
  ASSUME Typed, NEW s \in Sweeper,
         \/ ConsumeWake(s) \/ ResetDebt(s) \/ SlotTaken(s) \/ vacuumPass(s) \/ sweepUnit(s)
         \/ EndPass(s) \/ NextPass(s) \/ Pace(s) \/ Backoff(s) \/ IdleExit(s)
  PROVE  LoopGoes(s)
  <1>1. TypeOK /\ s \in Proc
    BY DEF Proc, Typed
  <1>2. LifeKept
    BY DEF ConsumeWake, ResetDebt, SlotTaken, vacuumPass, sweepUnit, EndPass, NextPass, Pace,
           Backoff, IdleExit, wakeVars, LifeKept
  <1>3. pc[s] \in Loop
    BY DEF ConsumeWake, ResetDebt, SlotTaken, vacuumPass, sweepUnit, EndPass, NextPass, Pace,
           Backoff, IdleExit, At, Loop
  <1>4. \E l \in Loop : Goto(s, l)
    <2>1. CASE sweepUnit(s)
      <3>1. pc[s] = "unit" /\ (Goto(s, "pass end") \/ UNCHANGED pc)
        BY <1>1, <2>1, UnitSwept
      <3>2. UNCHANGED pc => Goto(s, "unit")
        BY <1>1, <3>1 DEF TypeOK, PcType, Goto
      <3> QED
        BY <3>1, <3>2 DEF Loop
    <2>2. CASE EndPass(s)
      BY <2>2, PassEnded DEF EndsAt, Loop
    <2>3. CASE ~sweepUnit(s) /\ ~EndPass(s)
      BY <2>3 DEF ConsumeWake, ResetDebt, SlotTaken, vacuumPass, NextPass, Pace, Backoff, IdleExit, Loop
    <2> QED
      BY <2>1, <2>2, <2>3
  <1> QED
    BY <1>1, <1>2, <1>3, <1>4, Went DEF LoopGoes

LEMMA EndSteps ==
  ASSUME TypeOK, NEW s \in Sweeper, CheckWake(s) \/ (startVacuum(s) /\ Refuses(s))
  PROVE  EndGoes(s)
  <1>1. s \in Proc /\ Return(s) = "out"
    BY ReturnFacts DEF Proc
  <1>2. CASE CheckWake(s)
    <2>1. /\ pc[s] = "tail" /\ Goto(s, IF wake > 0 THEN "start" ELSE "out") /\ wake' = wake
          /\ LifeKept
      BY <1>2 DEF CheckWake, At, wakeVars, LifeKept
    <2>2. pc'[s] = (IF wake > 0 THEN "start" ELSE "out") /\ Others(s)
      BY <1>1, <2>1, Went
    <2> QED
      BY <2>1, <2>2 DEF EndGoes
  <1>3. CASE startVacuum(s) /\ Refuses(s)
    <2>1. pc[s] = "start" /\ wake' = wake /\ closed' = closed
      BY <1>3 DEF startVacuum, At
    <2> QED
      BY <1>1, <1>3, <2>1 DEF Refuses, EndGoes, Others, LifeKept
  <1> QED
    BY <1>2, <1>3

LEMMA StartLife ==
  ASSUME TypeOK, Life, NEW p \in Proc, startVacuum(p)
  PROVE  Life'
  <1>1. closed' = closed /\ wake' = wake /\ pc[p] = "start"
    BY DEF startVacuum, At
  <1>2. Refuses(p) \/ \E s \in Sweeper : Spawns(p, s)
    BY StartKinds
  <1>3. CASE \E s \in Sweeper : Spawns(p, s)
    BY <1>1, <1>3, SpawnLife
  <1>4. CASE Refuses(p) /\ p \in Sweeper
    BY <1>4, EndSteps, SweeperLife
  <1>5. CASE Refuses(p) /\ p \in Client
    <2>1. Return(p) \in {"done", "ended"}
      BY <1>5, ReturnFacts
    <2>2. ClientGoes(p)
      BY <1>1, <1>5, <2>1 DEF Refuses, ClientGoes, LifeKept, Others
    <2> QED
      BY <1>5, <2>2, ClientLife
  <1> QED
    BY <1>2, <1>3, <1>4, <1>5 DEF Proc

LEMMA LifeStep ==
  ASSUME VInv, [Next]_vars
  PROVE  Life'
  <1>0. TypeOK /\ Typed /\ Life
    BY DEF VInv, Typed, Life
  <1>k. Reader \subseteq Client /\ Writer \subseteq Client /\ Bracket \subseteq Writer
        /\ Direct \subseteq Writer /\ Client \subseteq Proc /\ Sweeper \subseteq Proc
    BY DEF Client, Writer, Proc
  <1>1. ASSUME NEW r \in Reader, Read(r) \/ Wake(r) \/ Reclaim(r) \/ Close(r) \/ CloseReturns(r)
        PROVE  Life'
    BY <1>0, <1>1, <1>k, ClientSteps, ClientLife, StartLife, CloseLife DEF Read, Wake, Reclaim
  <1>2. ASSUME NEW w \in Bracket, Write(w)
        PROVE  Life'
    <2>1. CASE Modify(w)
      <3>1. UNCHANGED <<pc, wakeVars>>
        BY <2>1 DEF Modify
      <3> QED
        BY <1>0, <3>1 DEF wakeVars, Life, OneSweeper, Joined, Alive, Closing, NoLostWake
    <2>2. CASE ~Modify(w)
      BY <1>0, <1>2, <1>k, <2>2, ClientSteps, ClientLife DEF Write
    <2> QED
      BY <2>1, <2>2
  <1>3. ASSUME NEW w \in Direct, DirectWrite(w)
        PROVE  Life'
    BY <1>0, <1>3, <1>k, ClientSteps, ClientLife
  <1>4. ASSUME NEW w \in Writer, EndWrite(w) \/ Wake(w)
        PROVE  Life'
    BY <1>0, <1>4, <1>k, ClientSteps, ClientLife, StartLife DEF EndWrite, Wake
  <1>5. ASSUME NEW s \in Sweeper, vacuumLoop(s)
        PROVE  Life'
    BY <1>0, <1>5, <1>k, LoopSteps, EndSteps, SweeperLife, ExitLife, StartLife DEF vacuumLoop
  <1>6. CASE UNCHANGED vars
    <2>1. UNCHANGED <<pc, wakeVars>>
      BY <1>6 DEF vars
    <2> QED
      BY <1>0, <2>1 DEF wakeVars, Life, OneSweeper, Joined, Alive, Closing, NoLostWake
  <1> QED
    BY <1>1, <1>2, <1>3, <1>4, <1>5, <1>6 DEF Next

-----------------------------------------------------------------------------
(* What an announced watermark owes.                                       *)

Reach == Watermarks /\ Fresh /\ Owed

\* A snapshot comes at the frontier or at zero, or goes.
LEMMA MarksUnderSnapshot ==
  ASSUME TypeOK, Watermarks, lastWatermark' = lastWatermark, wm' = wm,
         \A q \in Client : start'[q] = start[q] \/ start'[q] \in {-1, 0, visible}
  PROVE  Watermarks'
  <1>1. SUFFICES ASSUME NEW q \in Client, start'[q] > 0
                 PROVE  /\ lastWatermark <= start'[q]
                        /\ \A p \in Reader \union Sweeper : wm[p] <= start'[q]
    BY DEF Watermarks
  <1>2. CASE start'[q] = start[q]
    BY <1>1, <1>2 DEF Watermarks
  <1>3. CASE start'[q] \in {-1, 0, visible}
    BY <1>1, <1>3, Ranges
  <1> QED
    BY <1>2, <1>3

\* A watermark is computed, forgotten or recorded.
LEMMA MarksUnderScan ==
  ASSUME TypeOK, Watermarks, start' = start,
         lastWatermark' \in {lastWatermark, Oldest} \union {wm[p] : p \in Reader \union Sweeper},
         \A p \in Reader \union Sweeper : wm'[p] \in {wm[p], 0, Oldest}
  PROVE  Watermarks'
  <1>1. SUFFICES ASSUME NEW q \in Client, start[q] > 0
                 PROVE  /\ lastWatermark' <= start[q]
                        /\ \A p \in Reader \union Sweeper : wm'[p] <= start[q]
    BY DEF Watermarks
  <1>2. StoreType /\ start[q] \in Int /\ start[q] # -1
    BY <1>1, Ranges DEF TypeOK
  <1>3. Oldest <= start[q]
    BY <1>2, OldestFacts
  <1>4. lastWatermark <= start[q] /\ \A p \in Reader \union Sweeper : wm[p] <= start[q]
    BY <1>1 DEF Watermarks
  <1>5. 0 <= start[q]
    BY <1>1, <1>2
  <1>6. ASSUME NEW p \in Reader \union Sweeper
        PROVE  wm'[p] <= start[q]
    BY <1>3, <1>4, <1>5
  <1> QED
    BY <1>3, <1>4, <1>6

\* A watermark above zero is at or past the recorded one.
LEMMA OldestMoves ==
  ASSUME TypeOK, Watermarks, Oldest > 0
  PROVE  lastWatermark <= Oldest
  <1>1. StoreType /\ lastWatermark <= visible
    BY Ranges DEF TypeOK
  <1>2. Oldest = visible \/ \E q \in Client : start[q] = Oldest
    BY <1>1, OldestFacts
  <1> QED
    BY <1>1, <1>2 DEF Watermarks

\* Where a sweeper is when it will certainly begin a pass.
Coming == {"consume", "reset", "try", "stop", "pace", "backoff"}

LEMMA OwedAtOnce ==
  ASSUME TypeOK, closed' \/ wake' > 0 \/ (\E p \in Proc : pc'[p] = "send")
                 \/ \E s \in Sweeper : pc'[s] \in Coming
  PROVE  Owed'
  BY DEF Owed, Scheduled, Coming

SweeperKept(t) == UNCHANGED <<pc[t], visited[t], wm[t], freed[t]>>

\* A step that takes no wake, no sender and no sweeper away.
LEMMA ScheduledKept ==
  ASSUME TypeOK, wake > 0 => wake' > 0,
         \A q \in Proc : pc[q] = "send" => pc'[q] = "send" \/ wake' > 0,
         \A t \in Sweeper : pc[t] \in Coming \union {"unit", "pass end"} => SweeperKept(t) /\ cursor' = cursor,
         NEW v, Scheduled(v)
  PROVE  Scheduled(v)'
  <1>1. CASE wake > 0 \/ \E p \in Proc : pc[p] = "send"
    BY <1>1 DEF Scheduled
  <1>2. ASSUME NEW s \in Sweeper, pc[s] \in Coming
        PROVE  Scheduled(v)'
    BY <1>2 DEF Scheduled, SweeperKept, Coming
  <1>3. ASSUME NEW s \in Sweeper, pc[s] = "unit", Ahead(s, v)
        PROVE  Scheduled(v)'
    <2>1. SweeperKept(s) /\ cursor' = cursor
      BY <1>3
    <2>2. pc'[s] = "unit" /\ Ahead(s, v)'
      BY <1>3, <2>1 DEF Ahead, SweeperKept
    <2> QED
      BY <2>2 DEF Scheduled
  <1>4. ASSUME NEW s \in Sweeper, pc[s] = "pass end", Backlog(s)
        PROVE  Scheduled(v)'
    <2>1. SweeperKept(s)
      BY <1>4
    <2>2. pc'[s] = "pass end" /\ Backlog(s)'
      BY <1>4, <2>1 DEF Backlog, SweeperKept
    <2> QED
      BY <2>2 DEF Scheduled
  <1> QED
    BY <1>1, <1>2, <1>3, <1>4 DEF Scheduled, Coming

LEMMA OwedKept ==
  ASSUME TypeOK, Owed, UNCHANGED <<held, lastWatermark>>, closed => closed',
         \A v \in versions' : v \in versions \/ ~(v.ts <= lastWatermark),
         wake > 0 => wake' > 0,
         \A q \in Proc : pc[q] = "send" => pc'[q] = "send" \/ wake' > 0,
         \A t \in Sweeper : pc[t] \in Coming \union {"unit", "pass end"} => SweeperKept(t) /\ cursor' = cursor
  PROVE  Owed'
  <1>1. SUFFICES ASSUME held # "silent", ~closed, NEW v \in versions', v.ts <= lastWatermark
                 PROVE  Scheduled(v)'
    BY DEF Owed
  <1>2. v \in versions
    BY <1>1
  <1>3. Scheduled(v)
    BY <1>1, <1>2 DEF Owed
  <1> QED
    BY <1>3, ScheduledKept

LEMMA FreshKept ==
  ASSUME Fresh, \A t \in Sweeper : SweeperKept(t)
  PROVE  Fresh'
  BY DEF Fresh, SweeperKept

\* Of a snapshot.
LEMMA SnapshotReach ==
  ASSUME TypeOK, Reach, NEW p \in Client,
         EnterHolding(p) \/ Publish(p) \/ EndRead(p) \/ releaseWriterSnapshot(p)
  PROVE  Reach'
  <1>1. p \in Proc /\ p \notin Sweeper
    BY DEF Proc
  <1>2. pc[p] # "send" /\ \E l : Goto(p, l)
    BY DEF EnterHolding, Publish, EndRead, releaseWriterSnapshot, Leave, At
  <1>3. UNCHANGED <<visible, versions, wake, closed, held, lastWatermark, cursor, wm, freed, visited>>
    BY DEF EnterHolding, Publish, EndRead, releaseWriterSnapshot, Leave, wakeVars, sweepVars
  <1>4. Others(p)
    BY <1>1, <1>2, Went
  <1>5. \A t \in Sweeper : SweeperKept(t)
    BY <1>1, <1>3, <1>4 DEF SweeperKept, Others, Proc
  <1>6. \A q \in Proc : pc[q] = "send" => pc'[q] = "send"
    BY <1>2, <1>4 DEF Others
  <1>7. Owed' /\ Fresh'
    BY <1>3, <1>5, <1>6, OwedKept, FreshKept DEF Reach
  <1>8. \A q \in Client : start'[q] = start[q] \/ start'[q] \in {-1, 0, visible}
    BY DEF EnterHolding, Publish, EndRead, releaseWriterSnapshot, Leave, TypeOK, StoreType
  <1>9. Watermarks'
    BY <1>3, <1>8, MarksUnderSnapshot DEF Reach
  <1> QED
    BY <1>7, <1>9 DEF Reach

\* Of a client's step that leaves the watermarks alone: a commit's versions are
\* past the recorded one.
LEMMA ClientReach ==
  ASSUME TypeOK, Reach, NEW p \in Client,
         \/ EndEmpty(p) \/ Modify(p) \/ DirectWrite(p) \/ Commit(p) \/ chargeReclaimDebt(p)
         \/ ChargeStranded(p) \/ abortWake(p) \/ acquireSweeper(p) \/ withdrawAbortedNow(p)
         \/ Credit(p) \/ SendWake(p) \/ LoadRunning(p) \/ ReclaimNow(p) \/ Close(p)
         \/ CloseReturns(p)
  PROVE  Reach'
  <1>1. p \in Proc /\ p \notin Sweeper
    BY DEF Proc
  <1>2. UNCHANGED <<start, held, lastWatermark, cursor, wm, freed, visited>>
    BY DEF EndEmpty, Modify, DirectWrite, Commit, chargeReclaimDebt, ChargeStranded, abortWake,
           acquireSweeper, withdrawAbortedNow, Credit, SendWake, LoadRunning, ReclaimNow, Close,
           CloseReturns, storeVars, sweepVars
  <1>3. closed => closed'
    BY DEF EndEmpty, Modify, DirectWrite, Commit, chargeReclaimDebt, ChargeStranded, abortWake,
           acquireSweeper, withdrawAbortedNow, Credit, SendWake, LoadRunning, ReclaimNow, Close,
           CloseReturns, wakeVars
  <1>4. pc[p] = "send" => wake' > 0
    BY DEF EndEmpty, Modify, DirectWrite, Commit, chargeReclaimDebt, ChargeStranded, abortWake,
           acquireSweeper, withdrawAbortedNow, Credit, SendWake, LoadRunning, ReclaimNow, Close,
           CloseReturns, At
  <1>5. wake > 0 => wake' > 0
    BY DEF EndEmpty, Modify, DirectWrite, Commit, chargeReclaimDebt, ChargeStranded, abortWake,
           acquireSweeper, withdrawAbortedNow, Credit, SendWake, LoadRunning, ReclaimNow, Close,
           CloseReturns, wakeVars
  <1>6. Others(p)
    <2>1. UNCHANGED pc \/ \E l : Goto(p, l)
      BY DEF EndEmpty, Modify, DirectWrite, Commit, chargeReclaimDebt, ChargeStranded, abortWake,
           acquireSweeper, withdrawAbortedNow, Credit, SendWake, LoadRunning, ReclaimNow, Close,
           CloseReturns
    <2>2. UNCHANGED pc => Others(p)
      BY DEF Others
    <2> QED
      BY <1>1, <2>1, <2>2, Went
  <1>7. \A v \in versions' : v \in versions \/ ~(v.ts <= lastWatermark)
    <2>1. CASE Commit(p)
      <3>1. lastWatermark \in Nat /\ visible \in Nat /\ lastWatermark <= visible
        BY Ranges
      <3>2. versions' = versions \union [ts : {visible + 1}, unit : pending[p]]
        BY <2>1 DEF Commit
      <3>3. \A v \in [ts : {visible + 1}, unit : pending[p]] : v.ts = visible + 1
        OBVIOUS
      <3> QED
        BY <3>1, <3>2, <3>3
    <2>2. CASE ~Commit(p)
      <3>1. versions' = versions
        BY <2>2 DEF EndEmpty, Modify, DirectWrite, chargeReclaimDebt, ChargeStranded, abortWake,
           acquireSweeper, withdrawAbortedNow, Credit, SendWake, LoadRunning, ReclaimNow, Close,
           CloseReturns, storeVars
      <3> QED
        BY <3>1
    <2> QED
      BY <2>1, <2>2
  <1>8. \A t \in Sweeper : SweeperKept(t)
    BY <1>1, <1>2, <1>6 DEF SweeperKept, Others, Proc
  <1>9. \A q \in Proc : pc[q] = "send" => pc'[q] = "send" \/ wake' > 0
    BY <1>4, <1>6 DEF Others
  <1>10. Owed'
    BY <1>2, <1>3, <1>5, <1>7, <1>8, <1>9, OwedKept DEF Reach
  <1>11. Fresh'
    BY <1>8, FreshKept DEF Reach
  <1>12. Watermarks'
    BY <1>2, MarksUnderSnapshot DEF Reach
  <1> QED
    BY <1>10, <1>11, <1>12 DEF Reach

\* Of a reader's step that computes, records or uses a watermark: what it
\* records is either no news or sent.
LEMMA ReaderReach ==
  ASSUME TypeOK, Reach, NEW p \in Reader,
         \/ wakeVacuumOnRelease(p) \/ publishWatermark(p)
         \/ ReclaimScan(p) \/ ReclaimUnit(p) \/ releaseSweeper(p)
  PROVE  Reach'
  <1>1. p \in Proc /\ p \notin Sweeper /\ p \in Reader \union Sweeper
    BY DEF Proc, Client
  <1>r. wm[p] \in Nat /\ lastWatermark \in Nat /\ wm \in [Reader \union Sweeper -> 0 .. visible]
        /\ visited \in [Reader \union Sweeper -> Unit] /\ visited[p] \in Unit
    BY <1>1, Ranges DEF TypeOK, SweepType
  <1>2. UNCHANGED <<visible, start, held, cursor, freed, closed, wake>>
    BY DEF wakeVacuumOnRelease, publishWatermark, ReclaimScan, ReclaimUnit, releaseSweeper,
           storeVars, wakeVars
  <1>3. pc[p] # "send" /\ \E l : Goto(p, l)
    BY DEF wakeVacuumOnRelease, publishWatermark, ReclaimScan, ReclaimUnit, releaseSweeper, At
  <1>4. Others(p)
    BY <1>1, <1>3, Went
  <1>5. \E n \in {wm[p], 0, Oldest} : wm' = [wm EXCEPT ![p] = n]
    BY <1>r DEF wakeVacuumOnRelease, publishWatermark, ReclaimScan, ReclaimUnit, releaseSweeper
  <1>6. \A q \in Reader \union Sweeper : q # p => wm'[q] = wm[q] /\ visited'[q] = visited[q]
    <2>1. \A q \in Reader \union Sweeper : q # p => wm'[q] = wm[q]
      BY <1>r, <1>5
    <2>2. \A q \in Reader \union Sweeper : q # p => visited'[q] = visited[q]
      BY <1>r DEF wakeVacuumOnRelease, publishWatermark, ReclaimScan, ReclaimUnit, releaseSweeper
    <2> QED
      BY <2>1, <2>2
  <1>7. \A t \in Sweeper : SweeperKept(t)
    BY <1>1, <1>2, <1>4, <1>6 DEF SweeperKept, Others, Proc
  <1>8. Fresh'
    BY <1>7, FreshKept DEF Reach
  <1>9. /\ lastWatermark' \in {lastWatermark, wm[p]}
        /\ lastWatermark' = lastWatermark \/ pc'[p] = "send"
    <2>1. CASE publishWatermark(p)
      <3>1. Max({lastWatermark, wm[p]}) = IF lastWatermark >= wm[p] THEN lastWatermark ELSE wm[p]
        BY <1>r, MaxPair
      <3>2. lastWatermark' = Max({lastWatermark, wm[p]})
            /\ Goto(p, IF wm[p] > lastWatermark THEN "send" ELSE "done")
        BY <2>1 DEF publishWatermark
      <3>3. pc'[p] = IF wm[p] > lastWatermark THEN "send" ELSE "done"
        BY <1>1, <3>2, Went
      <3> QED
        BY <1>r, <3>1, <3>2, <3>3
    <2>2. CASE ~publishWatermark(p)
      BY <2>2 DEF wakeVacuumOnRelease, ReclaimScan, ReclaimUnit, releaseSweeper
    <2> QED
      BY <2>1, <2>2
  <1>10. Watermarks'
    <2>1. \A q \in Reader \union Sweeper : wm'[q] \in {wm[q], 0, Oldest}
      BY <1>r, <1>5, <1>6
    <2> QED
      BY <1>1, <1>2, <1>9, <2>1, MarksUnderScan DEF Reach
  <1>11. Owed'
    <2>1. CASE pc'[p] = "send"
      BY <1>1, <2>1, OwedAtOnce
    <2>2. CASE pc'[p] # "send"
      <3>1. versions' \subseteq versions
        <4>1. CASE ReclaimUnit(p)
          BY <1>r, <4>1 DEF ReclaimUnit, SweepStore
        <4>2. CASE ~ReclaimUnit(p)
          BY <4>2 DEF wakeVacuumOnRelease, publishWatermark, ReclaimScan, releaseSweeper, storeVars
        <4> QED
          BY <4>1, <4>2
      <3>2. lastWatermark' = lastWatermark
        BY <1>9, <2>2
      <3>3. \A q \in Proc : pc[q] = "send" => pc'[q] = "send"
        BY <1>3, <1>4 DEF Others
      <3> QED
        BY <1>2, <1>7, <3>1, <3>2, <3>3, OwedKept DEF Reach
    <2> QED
      BY <2>1, <2>2
  <1> QED
    BY <1>8, <1>10, <1>11 DEF Reach

\* Of the sweeper's steps that keep it coming, and of those of its exit, where
\* nobody counts on it any more.
LEMMA LoopReach ==
  ASSUME TypeOK, Reach, NEW s \in Sweeper,
         \/ ConsumeWake(s) \/ ResetDebt(s) \/ SlotTaken(s) \/ NextPass(s) \/ Pace(s)
         \/ Backoff(s) \/ IdleExit(s) \/ ClearRunning(s) \/ Join(s) \/ CheckWake(s)
  PROVE  Reach'
  <1>1. s \in Proc
    BY DEF Proc
  <1>2. UNCHANGED <<start, versions, closed, held, lastWatermark, cursor, wm, freed, visited>>
    BY DEF ConsumeWake, ResetDebt, SlotTaken, NextPass, Pace, Backoff, IdleExit, ClearRunning, Join,
           CheckWake, storeVars, wakeVars, sweepVars
  <1>3. PICK l : Goto(s, l) /\ l # "unit"
    BY DEF ConsumeWake, ResetDebt, SlotTaken, NextPass, Pace, Backoff, IdleExit, ClearRunning, Join,
           CheckWake
  <1>4. pc'[s] = l /\ Others(s)
    BY <1>1, <1>3, Went
  <1>5. pc[s] \notin {"unit", "send"}
    BY DEF ConsumeWake, ResetDebt, SlotTaken, NextPass, Pace, Backoff, IdleExit, ClearRunning, Join,
           CheckWake, At
  <1>6. Watermarks'
    BY <1>2, MarksUnderSnapshot DEF Reach
  <1>7. Fresh'
    BY <1>2, <1>4, <1>5 DEF Reach, Fresh, Others, Proc
  <1>8. Owed'
    <2>1. CASE IdleExit(s) \/ ClearRunning(s) \/ Join(s) \/ CheckWake(s)
      <3>1. pc[s] \notin Coming \union {"unit", "pass end"} /\ wake' = wake
        BY <2>1 DEF IdleExit, ClearRunning, Join, CheckWake, At, Coming, wakeVars
      <3>2. \A t \in Sweeper : t # s => SweeperKept(t)
        BY <1>2, <1>4 DEF SweeperKept, Others, Proc
      <3>3. \A q \in Proc : pc[q] = "send" => pc'[q] = "send"
        BY <1>4, <1>5 DEF Others
      <3> QED
        BY <1>2, <3>1, <3>2, <3>3, OwedKept DEF Reach
    <2>2. CASE ~(IdleExit(s) \/ ClearRunning(s) \/ Join(s) \/ CheckWake(s))
      <3>1. closed \/ \E m \in Coming : Goto(s, m)
        BY <2>2 DEF ConsumeWake, ResetDebt, SlotTaken, NextPass, Pace, Backoff, Coming
      <3>2. closed' \/ pc'[s] \in Coming
        BY <1>1, <1>2, <3>1, Went
      <3> QED
        BY <3>2, OwedAtOnce
    <2> QED
      BY <2>1, <2>2
  <1> QED
    BY <1>6, <1>7, <1>8 DEF Reach

LEMMA StartReach ==
  ASSUME TypeOK, Reach, NEW p \in Proc, startVacuum(p)
  PROVE  Reach'
  <1>1. UNCHANGED <<start, versions, wake, closed, held, lastWatermark, cursor, wm, freed, visited>>
        /\ pc[p] = "start"
    BY DEF startVacuum, storeVars, sweepVars, At
  <1>2. Refuses(p) \/ \E s \in Sweeper : Spawns(p, s)
    BY StartKinds
  <1>3. Watermarks'
    BY <1>1, MarksUnderSnapshot DEF Reach
  <1>4. CASE Refuses(p)
    <2>1. \A q \in Proc : q # p => pc'[q] = pc[q]
      BY <1>4 DEF Refuses
    <2>2. p \in Sweeper => pc'[p] # "unit"
      BY <1>4, ReturnFacts DEF Refuses
    <2>3. Fresh'
      BY <1>1, <2>1, <2>2 DEF Reach, Fresh, Proc
    <2>4. \A t \in Sweeper : t # p => SweeperKept(t)
      BY <1>1, <2>1 DEF SweeperKept, Proc
    <2>5. \A q \in Proc : pc[q] = "send" => pc'[q] = "send"
      BY <1>1, <2>1
    <2>6. pc[p] \notin Coming \union {"unit", "pass end"}
      BY <1>1 DEF Coming
    <2>7. Owed'
      BY <1>1, <2>4, <2>5, <2>6, OwedKept DEF Reach
    <2> QED
      BY <1>3, <2>3, <2>7 DEF Reach
  <1>5. ASSUME NEW s \in Sweeper, Spawns(p, s)
        PROVE  Reach'
    <2>1. pc[s] # "unit" /\ pc'[s] = "consume"
      BY <1>5 DEF Spawns
    <2>2. \A t \in Sweeper : t # s => pc'[t] = pc[t]
      BY <1>5 DEF Spawns, Proc
    <2>3. Fresh'
      BY <1>1, <2>1, <2>2 DEF Reach, Fresh
    <2>4. Owed'
      BY <2>1, OwedAtOnce DEF Coming
    <2> QED
      BY <1>3, <2>3, <2>4 DEF Reach
  <1> QED
    BY <1>2, <1>4, <1>5

\* A pass covers all that was announced, or it found no watermark at all.
LEMMA PassReach ==
  ASSUME TypeOK, Reach, NEW s \in Sweeper, vacuumPass(s)
  PROVE  Reach'
  <1>0. StoreType /\ Watermarks /\ Fresh
    BY DEF TypeOK, Reach
  <1>r. /\ Oldest \in 0 .. visible /\ Oldest \in Nat /\ lastWatermark \in Nat
        /\ wm \in [Reader \union Sweeper -> 0 .. visible] /\ visible \in Nat
    BY <1>0, Ranges, OldestFacts DEF TypeOK, SweepType
  <1>1. s \in Proc /\ s \in Reader \union Sweeper
    BY DEF Proc
  <1>2. /\ UNCHANGED <<start, versions, cursor, freed, visited>>
        /\ wm' = [wm EXCEPT ![s] = Oldest] /\ pc[s] = "try" /\ held' = Obstacle
        /\ Goto(s, IF Oldest = 0 THEN "pass end" ELSE "unit")
    BY DEF vacuumPass, At, storeVars
  <1>3. lastWatermark' = Max({lastWatermark, Oldest})
    BY Zenon DEF vacuumPass
  <1>4. Max({lastWatermark, Oldest}) = IF lastWatermark >= Oldest THEN lastWatermark ELSE Oldest
    BY <1>r, MaxPair
  <1>5. pc'[s] = (IF Oldest = 0 THEN "pass end" ELSE "unit") /\ Others(s)
    BY <1>1, <1>2, Went
  <1>6. visited[s] = 0
    BY <1>0, <1>2 DEF Fresh
  <1>7. Fresh'
    BY <1>0, <1>2, <1>5, <1>6 DEF Fresh, Others, Proc
  <1>8. Watermarks'
    <2>1. \A p \in Reader \union Sweeper : wm'[p] \in {wm[p], Oldest}
      BY <1>r, <1>2
    <2>2. lastWatermark' \in {lastWatermark, Oldest}
      BY <1>3, <1>4
    <2> QED
      BY <1>0, <1>2, <2>1, <2>2, MarksUnderScan
  <1>9. Owed'
    <2>1. CASE Oldest = 0
      <3>1. held' = "silent"
        <4>1. ~(Oldest = visible /\ Oldest > 0)
          BY <2>1
        <4>2. Obstacle = "silent"
          BY <2>1, <4>1, Zenon DEF Obstacle
        <4> QED
          BY <1>2, <4>2
      <3> QED
        BY <3>1 DEF Owed
    <2>2. CASE Oldest # 0
      <3>1. lastWatermark <= Oldest
        BY <1>0, <1>r, <2>2, OldestMoves
      <3>2. lastWatermark' = Oldest
        BY <1>r, <1>3, <1>4, <3>1
      <3>3. wm'[s] = Oldest /\ visited'[s] = 0 /\ pc'[s] = "unit"
        BY <1>r, <1>1, <1>2, <1>5, <1>6, <2>2
      <3>4. \A v \in versions' : v.ts <= lastWatermark' => Ahead(s, v)'
        BY <3>2, <3>3 DEF Ahead
      <3> QED
        BY <3>3, <3>4 DEF Owed, Scheduled
    <2> QED
      BY <2>1, <2>2
  <1> QED
    BY <1>7, <1>8, <1>9 DEF Reach

\* Only the sweeper in its loop can be the one a version waits for.
LEMMA OnlySweeper ==
  ASSUME TypeOK, OneSweeper, NEW s \in Sweeper, pc[s] \in Loop, NEW v, Scheduled(v)
  PROVE  \/ wake > 0 \/ \E p \in Proc : pc[p] = "send"
         \/ pc[s] \in Coming \/ (pc[s] = "unit" /\ Ahead(s, v)) \/ (pc[s] = "pass end" /\ Backlog(s))
  <1>1. \A t \in Sweeper : pc[t] \in Coming \union {"unit", "pass end"} => t = s
    BY DEF OneSweeper, Loop, Coming
  <1> QED
    BY <1>1 DEF Scheduled, Coming

\* The end of a pass leaves nothing behind that the sweeper was to come to.
LEMMA EndScheduled ==
  ASSUME Typed, OneSweeper, NEW s \in Sweeper, EndPass(s), NEW v, Scheduled(v)
  PROVE  Scheduled(v)'
  <1>0. TypeOK /\ s \in Proc
    BY DEF Typed, Proc
  <1>1. pc[s] = "pass end"
    BY PassEnded
  <1>l. PICK l \in {"stop", "pace", "backoff", "idle"} : EndsAt(s, l)
    BY PassEnded
  <1>2. Goto(s, l) /\ (Backlog(s) => l = "stop")
    BY <1>l, Zenon DEF EndsAt
  <1>3. pc'[s] = l /\ Others(s) /\ wake' = wake
    BY <1>0, <1>2, Went DEF EndPass, wakeVars
  <1>4. CASE l # "idle"
    BY <1>3, <1>4 DEF Scheduled
  <1>5. CASE l = "idle"
    <2>1. wake > 0 \/ \E p \in Proc : pc[p] = "send"
      BY <1>0, <1>1, <1>2, <1>5, OnlySweeper DEF Loop, Coming
    <2>2. \A q \in Proc : pc[q] = "send" => pc'[q] = "send"
      BY <1>1, <1>3 DEF Others
    <2> QED
      BY <1>3, <2>1, <2>2 DEF Scheduled
  <1> QED
    BY <1>4, <1>5

LEMMA EndReach ==
  ASSUME Typed, OneSweeper, Reach, NEW s \in Sweeper, EndPass(s)
  PROVE  Reach'
  <1>0. TypeOK /\ s \in Proc /\ s \in Reader \union Sweeper
    BY DEF Typed, Proc
  <1>1. pc[s] = "pass end"
    BY PassEnded
  <1>l. PICK l \in {"stop", "pace", "backoff", "idle"} : EndsAt(s, l)
    BY PassEnded
  <1>2. Goto(s, l) /\ (Backlog(s) => l = "stop")
    BY <1>l, Zenon DEF EndsAt
  <1>3. UNCHANGED <<start, versions, wake, closed, lastWatermark, cursor, visited, held>>
        /\ wm' = [wm EXCEPT ![s] = 0]
    BY DEF EndPass, storeVars, wakeVars
  <1>4. pc'[s] = l /\ Others(s)
    BY <1>0, <1>2, Went
  <1>5. Fresh'
    BY <1>1, <1>3, <1>4 DEF Reach, Fresh, Others, Proc
  <1>6. Watermarks'
    <2>1. \A p \in Reader \union Sweeper : wm'[p] \in {wm[p], 0}
      BY <1>0, <1>3 DEF TypeOK, SweepType
    <2> QED
      BY <1>0, <1>3, <2>1, MarksUnderScan DEF Reach
  <1>7. Owed'
    <2>1. SUFFICES ASSUME held # "silent", ~closed, NEW v \in versions, v.ts <= lastWatermark
                   PROVE  Scheduled(v)'
      BY <1>3 DEF Owed
    <2>2. Scheduled(v)
      BY <2>1 DEF Reach, Owed
    <2> QED
      BY <2>2, EndScheduled
  <1> QED
    BY <1>5, <1>6, <1>7 DEF Reach

\* A unit's sweep frees what the pass came for there: what is left is in a unit
\* ahead, or the pass was capped and another follows.
LEMMA SweepScheduled ==
  ASSUME Typed, OneSweeper, NEW s \in Sweeper, sweepUnit(s), NEW v \in versions', Scheduled(v)
  PROVE  Scheduled(v)'
  <1>0. TypeOK /\ s \in Proc /\ s \in Reader \union Sweeper
    BY DEF Typed, Proc
  <1>r. /\ visited[s] \in Nat /\ cursor \in Unit /\ wm[s] \in Nat
        /\ visited \in [Reader \union Sweeper -> Unit] /\ freed \in [Sweeper -> Nat]
    BY <1>0, Ranges DEF TypeOK, SweepType
  <1>1. UNCHANGED <<wake, wm>>
    BY DEF sweepUnit, wakeVars
  <1>2. pc[s] = "unit" /\ FreedBy(s) \in Nat /\ SweepStore(UnitAt(s), wm[s])
        /\ freed' = [freed EXCEPT ![s] = FreedBy(s)]
    BY <1>0, UnitSwept
  <1>3. \/ /\ FreedBy(s) >= vacuumRecordsPerPass \/ visited[s] + 1 = Units
           /\ visited' = [visited EXCEPT ![s] = 0]
           /\ pc'[s] = "pass end" /\ Others(s)
        \/ /\ visited[s] + 1 < Units
           /\ visited' = [visited EXCEPT ![s] = visited[s] + 1]
           /\ UNCHANGED <<pc, cursor>>
    BY <1>0, UnitSwept, Went
  <1>4. \A q \in Proc : q # s => pc'[q] = pc[q]
    BY <1>3 DEF Others
  <1>5. v \in versions /\ ~(v.unit = UnitAt(s) /\ v.ts <= wm[s])
    BY <1>2 DEF SweepStore, Reclaimable
  <1>6. CASE wake > 0 \/ \E p \in Proc : pc[p] = "send"
    BY <1>1, <1>2, <1>4, <1>6 DEF Scheduled
  <1>7. CASE Ahead(s, v)
    <2>1. v.unit # UnitAt(s) /\ v.ts <= wm[s] /\ v.unit \in Unit
      BY <1>0, <1>5, <1>7, Ranges DEF Ahead
    <2>2. \A j \in 0 .. visited[s] : (cursor + j) % Units # v.unit
      <3> TAKE j \in 0 .. visited[s]
      <3>1. CASE j = visited[s]
        BY <2>1, <3>1 DEF UnitAt
      <3>2. CASE j # visited[s]
        BY <1>r, <1>7, <3>2 DEF Ahead
      <3> QED
        BY <3>1, <3>2
    <2>3. visited[s] + 1 # Units
      <3>1. PICK j \in 0 .. Units - 1 : (cursor + j) % Units = v.unit
        BY <1>r, <2>1, AllVisited
      <3> QED
        BY <1>r, <2>2, <3>1
    <2>4. CASE /\ FreedBy(s) >= vacuumRecordsPerPass
               /\ pc'[s] = "pass end"
      <3>1. freed'[s] >= Min({vacuumRecordsPerPass, reclaimThreshold})
        <4>1. /\ Min({vacuumRecordsPerPass, reclaimThreshold}) <= vacuumRecordsPerPass
              /\ Min({vacuumRecordsPerPass, reclaimThreshold})
                   \in {vacuumRecordsPerPass, reclaimThreshold}
          BY MinPair
        <4>2. freed'[s] = FreedBy(s)
          BY <1>r, <1>2
        <4>3. Min({vacuumRecordsPerPass, reclaimThreshold}) \in Nat
          BY <4>1
        <4>4. FreedBy(s) \in Nat /\ FreedBy(s) >= vacuumRecordsPerPass
          BY <1>2, <2>4
        <4> QED
          BY <4>1, <4>2, <4>3, <4>4
      <3> QED
        BY <2>4, <3>1 DEF Scheduled, Backlog
    <2>5. CASE /\ visited' = [visited EXCEPT ![s] = visited[s] + 1]
               /\ UNCHANGED <<pc, cursor>>
      <3>1. visited'[s] = visited[s] + 1 /\ pc'[s] = "unit" /\ cursor' = cursor
        BY <1>0, <1>r, <1>2, <2>5
      <3>2. visited'[s] - 1 = visited[s]
        BY <1>r, <3>1
      <3>3. Ahead(s, v)'
        BY <1>1, <2>1, <2>2, <3>1, <3>2 DEF Ahead
      <3> QED
        BY <3>1, <3>3 DEF Scheduled
    <2> QED
      BY <1>3, <2>3, <2>4, <2>5
  <1> QED
    BY <1>0, <1>2, <1>6, <1>7, OnlySweeper DEF Loop, Coming

LEMMA SweepReach ==
  ASSUME Typed, OneSweeper, Reach, NEW s \in Sweeper, sweepUnit(s)
  PROVE  Reach'
  <1>0. TypeOK /\ s \in Proc /\ s \in Reader \union Sweeper
    BY DEF Typed, Proc
  <1>r. /\ visited[s] \in Nat /\ cursor \in Unit /\ wm[s] \in Nat
        /\ visited \in [Reader \union Sweeper -> Unit] /\ freed \in [Sweeper -> Nat]
    BY <1>0, Ranges DEF TypeOK, SweepType
  <1>1. UNCHANGED <<start, wake, closed, lastWatermark, wm, held>>
    BY DEF sweepUnit, wakeVars
  <1>2. pc[s] = "unit" /\ FreedBy(s) \in Nat /\ SweepStore(UnitAt(s), wm[s])
        /\ freed' = [freed EXCEPT ![s] = FreedBy(s)]
    BY <1>0, UnitSwept
  <1>3. \/ /\ FreedBy(s) >= vacuumRecordsPerPass \/ visited[s] + 1 = Units
           /\ visited' = [visited EXCEPT ![s] = 0]
           /\ pc'[s] = "pass end" /\ Others(s)
        \/ /\ visited[s] + 1 < Units
           /\ visited' = [visited EXCEPT ![s] = visited[s] + 1]
           /\ UNCHANGED <<pc, cursor>>
    BY <1>0, UnitSwept, Went
  <1>4. \A q \in Proc : q # s => pc'[q] = pc[q]
    BY <1>3 DEF Others
  <1>5. Fresh'
    BY <1>2, <1>3, <1>4, <1>r DEF Reach, Fresh, Proc
  <1>6. Watermarks'
    BY <1>0, <1>1, MarksUnderSnapshot DEF Reach
  <1>7. Owed'
    <2>1. SUFFICES ASSUME held # "silent", ~closed, NEW v \in versions', v.ts <= lastWatermark
                   PROVE  Scheduled(v)'
      BY <1>1 DEF Owed
    <2>2. v \in versions
      BY <1>2, <2>1 DEF SweepStore
    <2>3. Scheduled(v)
      BY <2>1, <2>2 DEF Reach, Owed
    <2> QED
      BY <2>1, <2>3, SweepScheduled
  <1> QED
    BY <1>5, <1>6, <1>7 DEF Reach

LEMMA ReachStep ==
  ASSUME VInv, [Next]_vars
  PROVE  Reach'
  <1>0. TypeOK /\ Typed /\ OneSweeper /\ Reach
    BY DEF VInv, Typed, Reach
  <1>k. Reader \subseteq Client /\ Writer \subseteq Client /\ Bracket \subseteq Writer
        /\ Direct \subseteq Writer /\ Client \subseteq Proc /\ Sweeper \subseteq Proc
    BY DEF Client, Writer, Proc
  <1>1. ASSUME NEW r \in Reader, Read(r) \/ Wake(r) \/ Reclaim(r) \/ Close(r) \/ CloseReturns(r)
        PROVE  Reach'
    BY <1>0, <1>1, <1>k, SnapshotReach, ClientReach, ReaderReach, StartReach DEF Read, Wake, Reclaim
  <1>2. ASSUME NEW w \in Bracket, Write(w)
        PROVE  Reach'
    BY <1>0, <1>2, <1>k, SnapshotReach, ClientReach DEF Write
  <1>3. ASSUME NEW w \in Direct, DirectWrite(w)
        PROVE  Reach'
    BY <1>0, <1>3, <1>k, ClientReach
  <1>4. ASSUME NEW w \in Writer, EndWrite(w) \/ Wake(w)
        PROVE  Reach'
    BY <1>0, <1>4, <1>k, ClientReach, StartReach DEF EndWrite, Wake
  <1>5. ASSUME NEW s \in Sweeper, vacuumLoop(s)
        PROVE  Reach'
    BY <1>0, <1>5, <1>k, LoopReach, PassReach, SweepReach, EndReach, StartReach DEF vacuumLoop
  <1>6. CASE UNCHANGED vars
    <2>1. UNCHANGED <<start, versions, wake, closed, held, lastWatermark, cursor, wm, freed, visited, pc>>
      BY <1>6 DEF vars, storeVars, wakeVars, sweepVars
    <2>2. \A t \in Sweeper : SweeperKept(t)
      BY <2>1 DEF SweeperKept
    <2> QED
      BY <1>0, <2>1, <2>2, OwedKept, FreshKept, MarksUnderSnapshot DEF Reach
  <1> QED
    BY <1>1, <1>2, <1>3, <1>4, <1>5, <1>6 DEF Next

-----------------------------------------------------------------------------
(* The theorems.                                                           *)

LEMMA Initially == Init => VInv
  <1> SUFFICES ASSUME Init
               PROVE  VInv
    OBVIOUS
  <1>0. Writer \subseteq Client /\ Client \subseteq Proc /\ Sweeper \subseteq Proc /\ Reader \subseteq Proc
    BY DEF Client, Proc
  <1>1. \A p \in Proc : pc[p] = "out"
    BY DEF Init
  <1>2. StoreType
    <2>1. visible \in 0 .. MaxTS /\ visible = 0
      BY MaxTSType DEF Init
    <2>2. start \in [Client -> -1 .. visible] /\ versions \subseteq Version
      BY <2>1 DEF Init
    <2>3. pending \in [Writer -> SUBSET Unit] /\ created \in [Writer -> 0 .. Units]
      BY DEF Init
    <2> QED
      BY <2>1, <2>2, <2>3 DEF StoreType
  <1>3. WakeType
    <2>1. running \in BOOLEAN /\ closed \in BOOLEAN /\ sweeping \in BOOLEAN
      BY Zenon DEF Init
    <2>2. reclaimDebt \in Int /\ wake \in 0 .. 1 /\ wg \in Nat
      BY DEF Init
    <2>3. held \in {"none", "reader", "silent"}
      BY Zenon DEF Init
    <2> QED
      BY <2>1, <2>2, <2>3, Zenon DEF WakeType
  <1>4. SweepType
    BY UnitFacts DEF Init, SweepType, vacuumIdlePasses
  <1>5. PcType
    BY <1>0, <1>1 DEF Init, PcType, ClientLabels, SweeperLabels
  <1>6. Past = {} /\ Alive = {}
    BY <1>0, <1>1 DEF Past, Alive, Loop
  <1>7. Counted /\ Joined
    BY <1>6, FS_EmptySet DEF Counted, Joined, Init
  <1>8. IdleCount /\ Closing /\ NoLostWake
    BY <1>0, <1>1 DEF IdleCount, Closing, NoLostWake, Init, vacuumIdlePasses
  <1>9. OneSweeper
    BY <1>0, <1>1 DEF OneSweeper, Loop, Init
  <1>10. Watermarks /\ Fresh /\ Owed
    BY DEF Watermarks, Fresh, Owed, Init
  <1> QED
    BY <1>2, <1>3, <1>4, <1>5, <1>7, <1>8, <1>9, <1>10 DEF VInv, TypeOK

LEMMA Inductive == VInv /\ [Next]_vars => VInv'
  <1> SUFFICES ASSUME VInv, [Next]_vars
               PROVE  VInv'
    OBVIOUS
  <1>1. Typed' /\ Life' /\ Reach'
    BY TypedStep, LifeStep, ReachStep
  <1> QED
    BY <1>1 DEF VInv, Typed, Life, Reach

\* The inductive invariant holds in every state of the specification.
THEOREM Invariance == Spec => []VInv
  BY Initially, Inductive, PTL DEF Spec

\* Type correctness: the frontier never passes the number of writers, and no
\* pass leaves the store's units.
THEOREM TypeInvariance == Spec => []TypeOK
  <1>1. VInv => TypeOK
    BY DEF VInv
  <1> QED
    BY <1>1, Invariance, PTL

\* A wake is never lost between a sender that saw the sweeper running and the
\* sweeper that leaves (wakeVacuum, vacuumLoop's deferred function).
THEOREM WakesKept == Spec => []NoLostWake
  <1>1. VInv => NoLostWake
    BY DEF VInv
  <1> QED
    BY <1>1, Invariance, PTL

\* When Close has returned, no sweeper is left and none starts (startVacuum's
\* test of closed under the mutex, the wait group).
THEOREM CloseStops == Spec => []ClosedStopped
  <1>1. VInv => ClosedStopped
    <2> SUFFICES ASSUME VInv, NEW c \in Reader, At(c, "closed")
                 PROVE  ~running /\ \A s \in Sweeper : pc[s] \in {"out", "tail", "start"}
      BY DEF ClosedStopped
    <2>1. Alive = {}
      BY DEF VInv, Closing, At
    <2>2. \A s \in Sweeper : pc[s] \notin Loop \union {"join"}
      BY <2>1 DEF Alive
    <2>3. ~running
      BY <2>2 DEF VInv, OneSweeper
    <2>4. \A s \in Sweeper : pc[s] \in SweeperLabels
      BY DEF VInv, TypeOK, PcType
    <2> QED
      BY <2>2, <2>3, <2>4 DEF SweeperLabels, Loop
  <1> QED
    BY <1>1, Invariance, PTL

\* What a departed reader announced is freed by the time the graph is quiet,
\* whatever commits, aborts, sweeps and exits ran in between
\* (wakeVacuumOnRelease, vacuumPass).
THEOREM AnnouncedFreed == Spec => []AnnouncedDone
  <1>1. VInv => AnnouncedDone
    <2> SUFFICES ASSUME VInv, Quiet, ~closed, held # "silent", NEW v \in versions
                 PROVE  v.ts > lastWatermark
      BY DEF AnnouncedDone
    <2>1. v.ts \in Nat /\ lastWatermark \in Nat /\ wake \in 0 .. 1
      BY Ranges DEF VInv
    <2>2. Sweeper \subseteq Proc
      BY DEF Proc
    <2>3. \A p \in Proc : pc[p] \notin {"send", "load", "start"}
      BY DEF Quiet
    <2>4. \A s \in Sweeper : pc[s] = "out"
      BY <2>2 DEF Quiet, VInv, TypeOK, PcType, SweeperLabels
    <2>5. ~running
      BY <2>4 DEF VInv, OneSweeper, Loop
    <2>6. ~(wake > 0)
      BY <2>3, <2>4, <2>5 DEF VInv, NoLostWake
    <2>7. ~Scheduled(v)
      BY <2>3, <2>4, <2>6 DEF Scheduled
    <2>8. ~(v.ts <= lastWatermark)
      BY <2>7 DEF VInv, Owed
    <2> QED
      BY <2>1, <2>8
  <1> QED
    BY <1>1, Invariance, PTL
-----------------------------------------------------------------------------
(* The reclamation debt.  A commit's versions are in no account until its  *)
(* charge, an abort's charge is taken back whatever was reset in between,  *)
(* and a reset comes before the pass it pays for.                          *)

\* The debt will be reset before anybody counts on it: a wake is there or on
\* its way, or the sweeper is about to.
Notified ==
  \/ wake > 0
  \/ \E p \in Proc : pc[p] = "send"
  \/ \E w \in Writer : pc[w] \in {"acquire", "sweep", "credit"}
  \/ \E s \in Sweeper : pc[s] \in {"consume", "reset"}

\* A sweeper that will look at the debt before it exits.
Staying == \E s \in Sweeper : pc[s] \in Loop \ {"exit"}

\* V[w] is what w has committed and not charged yet.
Charging(V) ==
  /\ V \in [Writer -> SUBSET Version]
  /\ \A w \in Writer : IF pc[w] = "charge" THEN Cardinality(V[w]) <= created[w] ELSE V[w] = {}

\* The versions that no sweeper comes to and nobody has yet to charge.
Left(V) == {v \in versions : ~Scheduled(v) /\ \A w \in Writer : v \notin V[w]}

Tally == \E V : Charging(V) /\ Cardinality(Left(V)) <= reclaimDebt

Debts ==
  \/ closed \/ Notified
  \/ /\ 0 <= reclaimDebt
     /\ reclaimDebt < reclaimThreshold \/ Staying
     /\ held = "none" => Tally

\* Nothing is retained from beyond the frontier.
Known == \A v \in versions : v.ts <= visible

DInv == Debts /\ Known

LEMMA LeftFinite ==
  ASSUME TypeOK, NEW L, L \subseteq versions
  PROVE  IsFiniteSet(L) /\ Cardinality(L) \in Nat
  <1>1. L \subseteq Version
    BY DEF TypeOK, StoreType
  <1>2. IsFiniteSet(L)
    BY <1>1, VersionFinite, FS_Subset
  <1> QED
    BY <1>2, FS_CardinalityType

\* What is left of a smaller rest is no more.
LEMMA LeftCounted ==
  ASSUME TypeOK, NEW L, NEW M, L \subseteq M, M \subseteq versions
  PROVE  Cardinality(L) \in Nat /\ Cardinality(M) \in Nat /\ Cardinality(L) <= Cardinality(M)
  <1>1. IsFiniteSet(M) /\ Cardinality(M) \in Nat /\ Cardinality(L) \in Nat
    BY LeftFinite
  <1> QED
    BY <1>1, FS_Subset

\* A step after which no version waits for a sweeper in vain that did not before.
NothingNew == \A v \in versions' : v \in versions /\ (Scheduled(v) => Scheduled(v)')

\* A step that leaves the writers at their charge there, and brings none.
ChargesKept == \A w \in Writer : pc'[w] = "charge" <=> pc[w] = "charge"

LEMMA TallyKept ==
  ASSUME TypeOK, Tally, UNCHANGED <<reclaimDebt, created>>, ChargesKept, NothingNew
  PROVE  Tally'
  <1>1. PICK V : Charging(V) /\ Cardinality(Left(V)) <= reclaimDebt
    BY DEF Tally
  <1>2. Charging(V)'
    BY <1>1 DEF Charging, ChargesKept
  <1>3. Left(V)' \subseteq Left(V) /\ Left(V) \subseteq versions
    BY DEF Left, NothingNew
  <1>4. /\ Cardinality(Left(V)') \in Nat /\ Cardinality(Left(V)) \in Nat
        /\ Cardinality(Left(V)') <= Cardinality(Left(V))
    BY <1>3, LeftCounted
  <1>5. reclaimDebt \in Int
    BY DEF TypeOK, WakeType
  <1>6. Cardinality(Left(V)') <= reclaimDebt'
    BY <1>1, <1>4, <1>5
  <1> QED
    BY <1>2, <1>6 DEF Tally

\* A sweeper that comes to everything leaves nothing to charge.
LEMMA TallyNone ==
  ASSUME TypeOK, 0 <= reclaimDebt, \A v \in versions : Scheduled(v)
  PROVE  Tally
  <1> DEFINE V == [w \in Writer |-> {}]
  <1>1. V \in [Writer -> SUBSET Version] /\ \A w \in Writer : V[w] = {}
    OBVIOUS
  <1>2. created \in [Writer -> 0 .. Units] /\ Cardinality({}) = 0
    BY FS_EmptySet DEF TypeOK, StoreType
  <1>3. \A w \in Writer : Cardinality({}) <= created[w]
    BY <1>2
  <1> HIDE DEF V
  <1>4. Charging(V)
    BY <1>1, <1>3 DEF Charging
  <1>5. Left(V) = {}
    BY DEF Left
  <1>6. Cardinality(Left(V)) <= reclaimDebt
    BY <1>2, <1>5
  <1> QED
    BY <1>4, <1>6 DEF Tally

LEMMA TallyNoneNext ==
  (TypeOK /\ 0 <= reclaimDebt /\ \A v \in versions : Scheduled(v))' => Tally'
  <1>1. TypeOK /\ 0 <= reclaimDebt /\ (\A v \in versions : Scheduled(v)) => Tally
    BY TallyNone
  <1> QED
    BY <1>1, PTL

LEMMA DebtsAtOnce ==
  ASSUME closed' \/ Notified'
  PROVE  Debts'
  BY DEF Debts

\* A step that neither makes versions nor takes a sweeper from those there are.
LEMMA DebtsKept ==
  ASSUME TypeOK, Debts, closed => closed', Notified => Notified',
         UNCHANGED <<held, reclaimDebt, created>>,
         Staying => Staying' \/ reclaimDebt < reclaimThreshold,
         ChargesKept, NothingNew
  PROVE  Debts'
  <1>1. CASE closed \/ Notified
    BY <1>1, DebtsAtOnce
  <1>2. CASE ~(closed \/ Notified)
    <2>1. 0 <= reclaimDebt /\ (reclaimDebt < reclaimThreshold \/ Staying) /\ (held = "none" => Tally)
      BY <1>2 DEF Debts
    <2>2. held' = "none" => Tally'
      BY <2>1, TallyKept
    <2> QED
      BY <2>1, <2>2 DEF Debts
  <1> QED
    BY <1>1, <1>2

\* A client goes on without a word about the debt.
Aside(p) ==
  /\ Others(p) /\ pc[p] \notin {"charge", "send"} /\ pc'[p] # "charge"
  /\ p \in Writer => pc[p] \notin {"acquire", "sweep", "credit"}
  /\ UNCHANGED <<closed, wake, reclaimDebt, held, created, cursor>>
  /\ versions' \subseteq versions
  /\ \A t \in Sweeper : SweeperKept(t)

LEMMA AsideDebts ==
  ASSUME TypeOK, Debts, NEW p \in Client, Aside(p)
  PROVE  Debts'
  <1>0. p \in Proc /\ p \notin Sweeper /\ Writer \subseteq Proc /\ Sweeper \subseteq Proc
    BY DEF Proc, Client
  <1>1. /\ \A q \in Proc : q # p => pc'[q] = pc[q]
        /\ \A s \in Sweeper : pc'[s] = pc[s] /\ SweeperKept(s)
        /\ UNCHANGED <<closed, wake, reclaimDebt, held, created, cursor>>
        /\ pc[p] \notin {"charge", "send"} /\ pc'[p] # "charge"
    BY <1>0 DEF Aside, Others
  <1>2. Notified => Notified'
    BY <1>0, <1>1 DEF Notified, Aside
  <1>3. Staying => Staying'
    BY <1>1 DEF Staying
  <1>4. ChargesKept
    BY <1>0, <1>1 DEF ChargesKept
  <1>5. \A q \in Proc : pc[q] = "send" => pc'[q] = "send"
    BY <1>1
  <1>6. ASSUME NEW v, Scheduled(v)
        PROVE  Scheduled(v)'
    BY <1>1, <1>5, <1>6, ScheduledKept
  <1>7. NothingNew
    BY <1>6 DEF NothingNew, Aside
  <1> QED
    BY <1>1, <1>2, <1>3, <1>4, <1>7, DebtsKept

LEMMA ClientAside ==
  ASSUME TypeOK, NEW p \in Client,
         \/ EnterHolding(p) \/ Publish(p) \/ EndRead(p) \/ releaseWriterSnapshot(p)
         \/ EndEmpty(p) \/ Modify(p) \/ DirectWrite(p) \/ LoadRunning(p) \/ ChargeStranded(p)
  PROVE  Aside(p)
  <1>1. p \in Proc /\ p \notin Sweeper
    BY DEF Proc
  <1>r. Return(p) \in {"done", "ended"}
    BY <1>1, ReturnFacts
  <1>2. UNCHANGED <<versions, created, reclaimDebt, wake, closed, held, cursor, wm, freed, visited>>
    BY DEF EnterHolding, Publish, EndRead, releaseWriterSnapshot, Leave, EndEmpty, Modify,
           DirectWrite, LoadRunning, ChargeStranded, storeVars, wakeVars, sweepVars
  <1>3. pc[p] \in {"out", "enter", "open", "ended", "load", "small"}
    BY DEF EnterHolding, Publish, EndRead, releaseWriterSnapshot, Leave, EndEmpty, Modify,
           DirectWrite, LoadRunning, ChargeStranded, At
  <1>4. Others(p) /\ pc'[p] # "charge"
    <2>1. UNCHANGED pc \/ \E l : Goto(p, l) /\ l # "charge"
      BY <1>r DEF EnterHolding, Publish, EndRead, releaseWriterSnapshot, Leave, EndEmpty, Modify,
                  DirectWrite, LoadRunning, ChargeStranded
    <2>2. UNCHANGED pc => Others(p) /\ pc'[p] # "charge"
      BY <1>3 DEF Others
    <2>3. ASSUME NEW l, Goto(p, l), l # "charge"
          PROVE  Others(p) /\ pc'[p] # "charge"
      BY <1>1, <2>3, Went
    <2> QED
      BY <2>1, <2>2, <2>3
  <1>5. \A t \in Sweeper : SweeperKept(t)
    BY <1>1, <1>2, <1>4 DEF SweeperKept, Others, Proc
  <1> QED
    BY <1>2, <1>3, <1>4, <1>5 DEF Aside

LEMMA ReaderAside ==
  ASSUME TypeOK, NEW p \in Reader,
         \/ wakeVacuumOnRelease(p) \/ publishWatermark(p) \/ ReclaimNow(p) \/ acquireSweeper(p)
         \/ ReclaimScan(p) \/ ReclaimUnit(p) \/ releaseSweeper(p) \/ CloseReturns(p)
  PROVE  Aside(p)
  <1>1. p \in Proc /\ p \notin Sweeper /\ p \notin Writer
    BY DEF Proc, Client
  <1>2. UNCHANGED <<created, reclaimDebt, wake, closed, held, cursor, freed>>
    BY DEF wakeVacuumOnRelease, publishWatermark, ReclaimNow, acquireSweeper, ReclaimScan,
           ReclaimUnit, releaseSweeper, CloseReturns, storeVars, wakeVars, sweepVars
  <1>3. pc[p] \in {"drain", "publish", "out", "acquire", "sweep", "unit", "release", "wait"}
    BY DEF wakeVacuumOnRelease, publishWatermark, ReclaimNow, acquireSweeper, ReclaimScan,
           ReclaimUnit, releaseSweeper, CloseReturns, At
  <1>4. \E l : Goto(p, l) /\ l # "charge"
    BY DEF wakeVacuumOnRelease, publishWatermark, ReclaimNow, acquireSweeper, ReclaimScan,
           ReclaimUnit, releaseSweeper, CloseReturns
  <1>5. Others(p) /\ pc'[p] # "charge"
    BY <1>1, <1>4, Went
  <1>6. versions' \subseteq versions
    <2>1. CASE ReclaimUnit(p)
      BY <2>1 DEF ReclaimUnit, SweepStore
    <2>2. CASE ~ReclaimUnit(p)
      BY <2>2 DEF wakeVacuumOnRelease, publishWatermark, ReclaimNow, acquireSweeper, ReclaimScan,
                  releaseSweeper, CloseReturns, storeVars
    <2> QED
      BY <2>1, <2>2
  <1>7. \A t \in Sweeper : wm'[t] = wm[t] /\ visited'[t] = visited[t]
    <2>1. \A t \in Sweeper : t # p
      BY <1>1
    <2>2. /\ wm \in [Reader \union Sweeper -> 0 .. visible]
          /\ visited \in [Reader \union Sweeper -> Unit]
      BY DEF TypeOK, SweepType
    <2>3. wm' = wm \/ \E n : wm' = [wm EXCEPT ![p] = n]
      BY DEF wakeVacuumOnRelease, publishWatermark, ReclaimNow, acquireSweeper, ReclaimScan,
             ReclaimUnit, releaseSweeper, CloseReturns, sweepVars
    <2>4. visited' = visited \/ \E n : visited' = [visited EXCEPT ![p] = n]
      BY <2>2 DEF wakeVacuumOnRelease, publishWatermark, ReclaimNow, acquireSweeper, ReclaimScan,
             ReclaimUnit, releaseSweeper, CloseReturns, sweepVars
    <2> QED
      BY <2>1, <2>2, <2>3, <2>4
  <1>8. \A t \in Sweeper : SweeperKept(t)
    BY <1>1, <1>2, <1>5, <1>7 DEF SweeperKept, Others, Proc
  <1> QED
    BY <1>1, <1>2, <1>3, <1>5, <1>6, <1>8 DEF Aside

\* Close, and the steps after which a wake is on its way.
LEMMA AtOnce ==
  ASSUME TypeOK, NEW p \in Client,
         \/ SendWake(p) \/ Close(p)
         \/ p \in Writer /\ (abortWake(p) \/ acquireSweeper(p) \/ withdrawAbortedNow(p) \/ Credit(p))
  PROVE  Debts'
  <1>1. p \in Proc
    BY DEF Proc
  <1>2. CASE SendWake(p) \/ Close(p)
    <2>1. closed' \/ Notified'
      BY <1>2 DEF SendWake, Close, Notified
    <2> QED
      BY <2>1, DebtsAtOnce
  <1>3. CASE p \in Writer /\ (abortWake(p) \/ acquireSweeper(p) \/ withdrawAbortedNow(p) \/ Credit(p))
    <2>1. \E l \in {"acquire", "sweep", "credit", "send"} : Goto(p, l)
      BY <1>3 DEF abortWake, acquireSweeper, withdrawAbortedNow, Credit
    <2>2. pc'[p] \in {"acquire", "sweep", "credit", "send"}
      BY <1>1, <2>1, Went
    <2>3. Notified'
      BY <1>1, <1>3, <2>2 DEF Notified
    <2> QED
      BY <2>3, DebtsAtOnce
  <1> QED
    BY <1>2, <1>3

\* A commit has as many versions to charge as it made.
LEMMA CommitCounted ==
  ASSUME NEW n, NEW P, P \subseteq Unit
  PROVE  Cardinality([ts : {n}, unit : P]) <= Cardinality(P)
  <1> DEFINE N == [ts : {n}, unit : P]
             f == [v \in N |-> v.unit]
  <1>1. IsFiniteSet(P)
    BY UnitFacts, FS_Subset
  <1>2. f \in [N -> P]
    OBVIOUS
  <1>3. \A v, w \in N : v.unit = w.unit => v = w
    OBVIOUS
  <1>4. \A v, w \in N : f[v] = f[w] => v = w
    BY <1>3
  <1> HIDE DEF N, f
  <1>5. f \in Injection(N, P)
    BY <1>2, <1>4 DEF Injection, IsInjective
  <1>6. Cardinality(N) <= Cardinality(P)
    BY <1>1, <1>5, FS_Injection
  <1> QED
    BY <1>6 DEF N

\* What a client's step at the store or at the debt leaves alone.
Bystanders(p) ==
  /\ Others(p) /\ pc[p] \in {"open", "charge"} /\ UNCHANGED <<closed, wake, held, cursor>>
  /\ \A t \in Sweeper : SweeperKept(t)
  /\ \A w \in Writer \ {p} : created'[w] = created[w]

LEMMA Stand ==
  ASSUME TypeOK, NEW p \in Writer, Bystanders(p)
  PROVE  /\ Notified => Notified'
         /\ Staying => Staying'
         /\ \A v : Scheduled(v) => Scheduled(v)'
         /\ \A w \in Writer : w # p => pc'[w] = pc[w] /\ created'[w] = created[w]
  <1>0. p \in Proc /\ p \notin Sweeper /\ Writer \subseteq Proc /\ Sweeper \subseteq Proc
    BY DEF Proc, Client
  <1>1. /\ \A q \in Proc : q # p => pc'[q] = pc[q]
        /\ \A s \in Sweeper : pc'[s] = pc[s] /\ SweeperKept(s)
        /\ UNCHANGED <<closed, wake, held, cursor>>
        /\ pc[p] \in {"open", "charge"}
    BY <1>0 DEF Bystanders, Others
  <1>2. Notified => Notified'
    BY <1>0, <1>1 DEF Notified
  <1>3. Staying => Staying'
    BY <1>1 DEF Staying
  <1>4. \A q \in Proc : pc[q] = "send" => pc'[q] = "send"
    BY <1>1
  <1>5. ASSUME NEW v, Scheduled(v)
        PROVE  Scheduled(v)'
    BY <1>1, <1>4, <1>5, ScheduledKept
  <1>6. \A w \in Writer : w # p => pc'[w] = pc[w] /\ created'[w] = created[w]
    BY <1>0, <1>1 DEF Bystanders
  <1> QED
    BY <1>2, <1>3, <1>5, <1>6

LEMMA CommitTally ==
  ASSUME TypeOK, TypeOK', NEW p \in Writer, Commit(p), Bystanders(p), Tally
  PROVE  Tally'
  <1> DEFINE N == [ts : {visible'}, unit : pending[p]]
  <1>1. PICK V : Charging(V) /\ Cardinality(Left(V)) <= reclaimDebt
    BY DEF Tally
  <1>2. /\ pc[p] = "open" /\ versions' = versions \union N /\ reclaimDebt' = reclaimDebt
        /\ visible' = visible + 1
    BY DEF Commit, At, wakeVars
  <1>3. pc'[p] = "charge"
    BY Went DEF Commit, Proc, Client
  <1>4. created'[p] = Cardinality(pending[p])
    BY DEF Commit, TypeOK, StoreType
  <1>5. pending[p] \subseteq Unit /\ visible' \in 1 .. MaxTS
    BY <1>2, MaxTSType DEF TypeOK, StoreType
  <1>6. N \in SUBSET Version
    BY <1>5 DEF Version
  <1>7. Cardinality(N) <= created'[p]
    BY <1>4, <1>5, CommitCounted
  <1>8. /\ V \in [Writer -> SUBSET Version] /\ V[p] = {}
        /\ \A w \in Writer : IF pc[w] = "charge" THEN Cardinality(V[w]) <= created[w] ELSE V[w] = {}
    BY <1>1, <1>2 DEF Charging
  <1> HIDE DEF N
  <1>9. PICK W \in [Writer -> SUBSET Version] : W[p] = N /\ \A w \in Writer : w # p => W[w] = V[w]
    <2>1. /\ [V EXCEPT ![p] = N] \in [Writer -> SUBSET Version] /\ [V EXCEPT ![p] = N][p] = N
          /\ \A w \in Writer : w # p => [V EXCEPT ![p] = N][w] = V[w]
      BY <1>6, <1>8
    <2> QED
      BY <2>1
  <1>10. Charging(W)'
    <2>1. \A w \in Writer : IF pc'[w] = "charge" THEN Cardinality(W[w]) <= created'[w] ELSE W[w] = {}
      BY <1>3, <1>7, <1>8, <1>9, Stand
    <2> QED
      BY <1>9, <2>1 DEF Charging
  <1>11. Left(W)' \subseteq Left(V) /\ Left(V) \subseteq versions
    <2>1. ASSUME NEW v \in Left(W)'
          PROVE  v \in Left(V)
      <3>1. v \in versions' /\ ~Scheduled(v)' /\ \A w \in Writer : v \notin W[w]
        BY <2>1 DEF Left
      <3>2. v \in versions /\ ~Scheduled(v)
        BY <1>2, <1>9, <3>1, Stand
      <3>3. \A w \in Writer : v \notin V[w]
        BY <1>8, <1>9, <3>1
      <3> QED
        BY <3>2, <3>3 DEF Left
    <2> QED
      BY <2>1 DEF Left
  <1>12. /\ Cardinality(Left(W)') \in Nat /\ Cardinality(Left(V)) \in Nat
         /\ Cardinality(Left(W)') <= Cardinality(Left(V)) /\ reclaimDebt \in Int
    BY <1>11, LeftCounted DEF TypeOK, WakeType
  <1>13. Cardinality(Left(W)') <= reclaimDebt'
    BY <1>1, <1>2, <1>12
  <1> QED
    BY <1>10, <1>13 DEF Tally

LEMMA CommitDebts ==
  ASSUME TypeOK, TypeOK', Debts, NEW p \in Writer, Commit(p)
  PROVE  Debts'
  <1>1. p \in Proc /\ p \notin Sweeper
    BY DEF Proc, Client
  <1>2. /\ UNCHANGED <<reclaimDebt, closed, wake, held, cursor, wm, freed, visited>>
        /\ pc[p] = "open" /\ Goto(p, "charge")
    BY DEF Commit, At, wakeVars, sweepVars
  <1>3. \A w \in Writer \ {p} : created'[w] = created[w]
    BY DEF Commit, TypeOK, StoreType
  <1>4. Bystanders(p)
    <2>1. Others(p)
      BY <1>1, <1>2, Went
    <2>2. \A t \in Sweeper : SweeperKept(t)
      BY <1>1, <1>2, <2>1 DEF SweeperKept, Others, Proc
    <2> QED
      BY <1>2, <1>3, <2>1, <2>2 DEF Bystanders
  <1>5. (Notified => Notified') /\ (Staying => Staying')
    BY <1>4, Stand
  <1>6. Tally => Tally'
    BY <1>4, CommitTally
  <1> QED
    BY <1>2, <1>5, <1>6 DEF Debts

LEMMA ChargeTally ==
  ASSUME TypeOK, NEW p \in Writer, chargeReclaimDebt(p), Bystanders(p), Tally, pc'[p] # "charge"
  PROVE  Tally'
  <1>1. PICK V : Charging(V) /\ Cardinality(Left(V)) <= reclaimDebt
    BY DEF Tally
  <1>2. /\ pc[p] = "charge" /\ versions' = versions /\ reclaimDebt' = reclaimDebt + created[p]
    BY DEF chargeReclaimDebt, At
  <1>3. reclaimDebt \in Int /\ created[p] \in Nat
    BY DEF TypeOK, WakeType, StoreType
  <1>4. /\ V \in [Writer -> SUBSET Version] /\ Cardinality(V[p]) <= created[p]
        /\ \A w \in Writer : IF pc[w] = "charge" THEN Cardinality(V[w]) <= created[w] ELSE V[w] = {}
    BY <1>1, <1>2 DEF Charging
  <1>5. PICK W \in [Writer -> SUBSET Version] : W[p] = {} /\ \A w \in Writer : w # p => W[w] = V[w]
    <2>1. /\ [V EXCEPT ![p] = {}] \in [Writer -> SUBSET Version] /\ [V EXCEPT ![p] = {}][p] = {}
          /\ \A w \in Writer : w # p => [V EXCEPT ![p] = {}][w] = V[w]
      BY <1>4
    <2> QED
      BY <2>1
  <1>6. Charging(W)'
    <2>1. \A w \in Writer : IF pc'[w] = "charge" THEN Cardinality(W[w]) <= created'[w] ELSE W[w] = {}
      BY <1>4, <1>5, Stand
    <2> QED
      BY <1>5, <2>1 DEF Charging
  <1>7. Left(W)' \subseteq Left(V) \union V[p] /\ Left(V) \subseteq versions
    <2>1. ASSUME NEW v \in Left(W)', v \notin V[p]
          PROVE  v \in Left(V)
      <3>1. v \in versions' /\ ~Scheduled(v)' /\ \A w \in Writer : v \notin W[w]
        BY <2>1 DEF Left
      <3>2. v \in versions /\ ~Scheduled(v)
        BY <1>2, <3>1, Stand
      <3>3. \A w \in Writer : v \notin V[w]
        BY <1>5, <2>1, <3>1
      <3> QED
        BY <3>2, <3>3 DEF Left
    <2> QED
      BY <2>1 DEF Left
  <1>8. IsFiniteSet(Left(V)) /\ IsFiniteSet(V[p])
    BY <1>4, <1>7, LeftFinite, VersionFinite, FS_Subset
  <1>9. /\ IsFiniteSet(Left(V) \union V[p])
        /\ Cardinality(Left(V) \union V[p])
             = Cardinality(Left(V)) + Cardinality(V[p]) - Cardinality(Left(V) \intersect V[p])
    BY <1>8, FS_Union
  <1>10. /\ Cardinality(Left(V)) \in Nat /\ Cardinality(V[p]) \in Nat
         /\ Cardinality(Left(V) \intersect V[p]) \in Nat
    <2>1. IsFiniteSet(Left(V) \intersect V[p])
      BY <1>8, FS_Subset
    <2> QED
      BY <1>8, <2>1, FS_CardinalityType
  <1>11. /\ Cardinality(Left(W)') <= Cardinality(Left(V) \union V[p])
         /\ Cardinality(Left(W)') \in Nat
    <2>1. IsFiniteSet(Left(W)') /\ Cardinality(Left(W)') <= Cardinality(Left(V) \union V[p])
      BY <1>7, <1>9, FS_Subset
    <2> QED
      BY <2>1, FS_CardinalityType
  <1>12. Cardinality(Left(W)') <= reclaimDebt'
    BY <1>1, <1>2, <1>3, <1>4, <1>9, <1>10, <1>11
  <1> QED
    BY <1>6, <1>12 DEF Tally

LEMMA ChargeDebts ==
  ASSUME TypeOK, Debts, NEW p \in Writer, chargeReclaimDebt(p)
  PROVE  Debts'
  <1>1. p \in Proc /\ p \notin Sweeper
    BY DEF Proc, Client
  <1>2. /\ UNCHANGED <<closed, wake, held, cursor, wm, freed, visited>> /\ pc[p] = "charge"
        /\ reclaimDebt' = reclaimDebt + created[p]
        /\ Goto(p, IF reclaimDebt' < reclaimThreshold THEN "small" ELSE "send")
    BY DEF chargeReclaimDebt, At, sweepVars
  <1>3. \A w \in Writer \ {p} : created'[w] = created[w]
    BY DEF chargeReclaimDebt, TypeOK, StoreType
  <1>4. pc'[p] = (IF reclaimDebt' < reclaimThreshold THEN "small" ELSE "send") /\ Others(p)
    BY <1>1, <1>2, Went
  <1>5. Bystanders(p)
    <2>1. \A t \in Sweeper : SweeperKept(t)
      BY <1>1, <1>2, <1>4 DEF SweeperKept, Others, Proc
    <2> QED
      BY <1>2, <1>3, <1>4, <2>1 DEF Bystanders
  <1>6. CASE pc'[p] = "send"
    <2>1. Notified'
      BY <1>1, <1>6 DEF Notified
    <2> QED
      BY <2>1, DebtsAtOnce
  <1>7. CASE pc'[p] # "send"
    <2>1. reclaimDebt' < reclaimThreshold /\ pc'[p] # "charge"
      BY <1>4, <1>7
    <2>2. Tally => Tally'
      BY <1>5, <2>1, ChargeTally
    <2>3. Notified => Notified'
      BY <1>5, Stand
    <2>4. 0 <= reclaimDebt => 0 <= reclaimDebt'
      BY <1>2 DEF TypeOK, WakeType, StoreType
    <2> QED
      BY <1>2, <2>1, <2>2, <2>3, <2>4 DEF Debts
  <1> QED
    BY <1>6, <1>7

\* A sweeper goes on where no version counts on it.
Unneeded(s) ==
  /\ Others(s) /\ pc[s] \in {"idle", "exit", "join", "tail", "start"}
  /\ UNCHANGED <<versions, created, reclaimDebt, wake, closed, held, cursor, wm, freed, visited>>
  /\ pc[s] = "idle" => reclaimDebt < reclaimThreshold

LEMMA UnneededDebts ==
  ASSUME TypeOK, Debts, NEW s \in Sweeper, Unneeded(s)
  PROVE  Debts'
  <1>0. s \in Proc /\ s \notin Client /\ Writer \subseteq Proc /\ Sweeper \subseteq Proc /\ s \notin Writer
    BY DEF Proc, Client
  <1>1. /\ \A q \in Proc : q # s => pc'[q] = pc[q]
        /\ UNCHANGED <<versions, created, reclaimDebt, wake, closed, held, cursor, wm, freed, visited>>
        /\ pc[s] \in {"idle", "exit", "join", "tail", "start"}
    BY DEF Unneeded, Others
  <1>2. \A t \in Sweeper : t # s => SweeperKept(t)
    BY <1>0, <1>1 DEF SweeperKept
  <1>3. Notified => Notified'
    BY <1>0, <1>1 DEF Notified
  <1>4. Staying => Staying' \/ reclaimDebt < reclaimThreshold
    BY <1>0, <1>1 DEF Staying, Unneeded, Loop
  <1>5. ChargesKept
    BY <1>0, <1>1 DEF ChargesKept
  <1>6. \A q \in Proc : pc[q] = "send" => pc'[q] = "send"
    BY <1>1
  <1>7. pc[s] \notin Coming \union {"unit", "pass end"}
    BY <1>1 DEF Coming
  <1>8. ASSUME NEW v, Scheduled(v)
        PROVE  Scheduled(v)'
    BY <1>1, <1>2, <1>6, <1>7, <1>8, ScheduledKept
  <1>9. NothingNew
    BY <1>1, <1>8 DEF NothingNew
  <1> QED
    BY <1>1, <1>3, <1>4, <1>5, <1>9, DebtsKept

\* The sweeper turns to its next pass, or the graph is closed.
LEMMA TurnDebts ==
  ASSUME TypeOK, NEW s \in Sweeper,
         ConsumeWake(s) \/ SlotTaken(s) \/ NextPass(s) \/ Pace(s) \/ Backoff(s)
  PROVE  Debts'
  <1>1. closed' = closed
    BY DEF ConsumeWake, SlotTaken, NextPass, Pace, Backoff, wakeVars
  <1>2. closed \/ \E l \in {"consume", "reset"} : Goto(s, l)
    BY DEF ConsumeWake, SlotTaken, NextPass, Pace, Backoff
  <1>3. closed \/ pc'[s] \in {"consume", "reset"}
    BY <1>2, Went DEF Proc
  <1>4. closed' \/ Notified'
    BY <1>1, <1>3 DEF Notified
  <1> QED
    BY <1>4, DebtsAtOnce

LEMMA ResetDebts ==
  ASSUME TypeOK, TypeOK', NEW s \in Sweeper, ResetDebt(s)
  PROVE  Debts'
  <1>1. reclaimDebt' = 0 /\ Goto(s, "try")
    BY DEF ResetDebt
  <1>2. pc'[s] = "try"
    BY <1>1, Went DEF Proc
  <1>3. \A v \in versions' : Scheduled(v)'
    BY <1>2 DEF Scheduled
  <1>4. Tally'
    BY <1>1, <1>3, TallyNoneNext
  <1> QED
    BY <1>1, <1>4 DEF Debts

LEMMA IdleDebts ==
  ASSUME TypeOK, Debts, NEW s \in Sweeper,
         IdleExit(s) \/ ClearRunning(s) \/ Join(s) \/ CheckWake(s)
  PROVE  Debts'
  <1>0. s \in Proc /\ reclaimDebt \in Int
    BY DEF Proc, TypeOK, WakeType
  <1>1. UNCHANGED <<versions, created, reclaimDebt, wake, closed, held, cursor, wm, freed, visited>>
    BY DEF IdleExit, ClearRunning, Join, CheckWake, storeVars, wakeVars, sweepVars
  <1>2. /\ pc[s] \in {"idle", "exit", "join", "tail", "start"} /\ \E l : Goto(s, l)
        /\ pc[s] = "idle" => Goto(s, IF reclaimDebt > 0 THEN "consume" ELSE "exit")
    BY DEF IdleExit, ClearRunning, Join, CheckWake, At
  <1>3. Others(s)
    BY <1>0, <1>2, Went
  <1>4. CASE pc[s] = "idle" /\ reclaimDebt > 0
    <2>1. pc'[s] = "consume"
      BY <1>0, <1>2, <1>4, Went
    <2>2. Notified'
      BY <2>1 DEF Notified
    <2> QED
      BY <2>2, DebtsAtOnce
  <1>5. CASE ~(pc[s] = "idle" /\ reclaimDebt > 0)
    <2>1. pc[s] = "idle" => reclaimDebt < reclaimThreshold
      BY <1>0, <1>5
    <2>2. Unneeded(s)
      BY <1>1, <1>2, <1>3, <2>1 DEF Unneeded
    <2> QED
      BY <2>2, UnneededDebts
  <1> QED
    BY <1>4, <1>5

LEMMA StartDebts ==
  ASSUME TypeOK, Debts, NEW p \in Proc, startVacuum(p)
  PROVE  Debts'
  <1>1. UNCHANGED <<versions, created, reclaimDebt, wake, closed, held, cursor, wm, freed, visited>>
        /\ pc[p] = "start"
    BY DEF startVacuum, storeVars, sweepVars, At
  <1>2. Refuses(p) \/ \E s \in Sweeper : Spawns(p, s)
    BY StartKinds
  <1>3. ASSUME NEW s \in Sweeper, Spawns(p, s)
        PROVE  Debts'
    <2>1. Notified'
      BY <1>3 DEF Spawns, Notified
    <2> QED
      BY <2>1, DebtsAtOnce
  <1>4. CASE Refuses(p)
    <2>1. Others(p) /\ pc'[p] = Return(p)
      BY <1>4 DEF Refuses, Others
    <2>2. CASE p \in Sweeper
      <3>1. Unneeded(p)
        BY <1>1, <2>1 DEF Unneeded
      <3> QED
        BY <2>2, <3>1, UnneededDebts
    <2>3. CASE p \in Client
      <3>1. p \notin Sweeper /\ Return(p) # "charge"
        BY <2>3, ReturnFacts
      <3>2. \A t \in Sweeper : SweeperKept(t)
        BY <1>1, <2>1, <3>1 DEF SweeperKept, Others, Proc
      <3>3. Aside(p)
        BY <1>1, <2>1, <3>1, <3>2 DEF Aside
      <3> QED
        BY <2>3, <3>3, AsideDebts
    <2> QED
      BY <2>2, <2>3 DEF Proc
  <1> QED
    BY <1>2, <1>3, <1>4

\* The sweeper within a pass: it stays, and what waits for it still does.
LEMMA WithinPass ==
  ASSUME TypeOK, Debts, NEW s \in Sweeper, pc[s] \notin {"consume", "reset", "send"},
         \A q \in Proc : q # s => pc'[q] = pc[q],
         pc'[s] \in Loop \ {"exit"}, UNCHANGED <<wake, closed, reclaimDebt, created>>
  PROVE  /\ Notified => Notified'
         /\ Staying' /\ ChargesKept
  <1>0. s \in Proc /\ s \notin Writer /\ Writer \subseteq Proc /\ Sweeper \subseteq Proc
    BY DEF Proc, Client
  <1>1. Notified => Notified'
    BY <1>0 DEF Notified
  <1>2. Staying' /\ ChargesKept
    BY <1>0 DEF Staying, ChargesKept
  <1> QED
    BY <1>1, <1>2

LEMMA SweepDebts ==
  ASSUME Typed, OneSweeper, Debts, NEW s \in Sweeper, sweepUnit(s) \/ EndPass(s)
  PROVE  Debts'
  <1>0. TypeOK /\ s \in Proc
    BY DEF Typed, Proc
  <1>1. UNCHANGED <<wake, closed, reclaimDebt, created, held>>
    BY DEF sweepUnit, EndPass, storeVars, wakeVars
  <1>2. /\ pc[s] \in {"unit", "pass end"}
        /\ pc'[s] \in {"unit", "pass end", "stop", "pace", "backoff", "idle"}
        /\ \A q \in Proc : q # s => pc'[q] = pc[q]
    <2>1. CASE sweepUnit(s)
      <3>1. pc[s] = "unit" /\ (Goto(s, "pass end") \/ UNCHANGED pc)
        BY <1>0, <2>1, UnitSwept
      <3>2. Goto(s, "pass end") => pc'[s] = "pass end" /\ Others(s)
        BY <1>0, Went
      <3> QED
        BY <3>1, <3>2 DEF Others
    <2>2. CASE EndPass(s)
      <3>1. pc[s] = "pass end"
        BY <2>2, PassEnded
      <3>2. PICK l \in {"stop", "pace", "backoff", "idle"} : EndsAt(s, l)
        BY <2>2, PassEnded
      <3>3. Goto(s, l)
        BY <3>2, Zenon DEF EndsAt
      <3>4. pc'[s] = l /\ Others(s)
        BY <1>0, <3>3, Went
      <3> QED
        BY <3>1, <3>2, <3>4 DEF Others
    <2> QED
      BY <2>1, <2>2
  <1>3. pc'[s] \in Loop \ {"exit"}
    BY <1>2 DEF Loop
  <1>4. (Notified => Notified') /\ Staying' /\ ChargesKept
    BY <1>0, <1>1, <1>2, <1>3, WithinPass
  <1>5. NothingNew
    <2>1. ASSUME NEW v \in versions'
          PROVE  v \in versions
      BY <2>1 DEF sweepUnit, SweepStore, EndPass, storeVars
    <2>2. ASSUME NEW v \in versions', Scheduled(v)
          PROVE  Scheduled(v)'
      BY <2>2, SweepScheduled, EndScheduled
    <2> QED
      BY <2>1, <2>2 DEF NothingNew
  <1> QED
    BY <1>0, <1>1, <1>4, <1>5, DebtsKept

\* A pass that nothing keeps back comes to every version there is.
LEMMA PassDebts ==
  ASSUME TypeOK, TypeOK', Fresh, Debts, Known, NEW s \in Sweeper, vacuumPass(s)
  PROVE  Debts'
  <1>0. s \in Proc /\ s \in Reader \union Sweeper
    BY DEF Proc
  <1>1. /\ UNCHANGED <<visible, versions, created, wake, closed, reclaimDebt, visited>>
        /\ wm' = [wm EXCEPT ![s] = Oldest] /\ pc[s] = "try" /\ held' = Obstacle
        /\ Goto(s, IF Oldest = 0 THEN "pass end" ELSE "unit")
    BY DEF vacuumPass, At, storeVars, wakeVars
  <1>2. pc'[s] = (IF Oldest = 0 THEN "pass end" ELSE "unit") /\ Others(s)
    BY <1>0, <1>1, Went
  <1>3. /\ pc'[s] \in Loop \ {"exit"} /\ pc[s] \notin {"consume", "reset", "send"}
        /\ \A q \in Proc : q # s => pc'[q] = pc[q]
    BY <1>1, <1>2 DEF Loop, Others
  <1>4. (Notified => Notified') /\ Staying'
    BY <1>1, <1>3, WithinPass
  <1>5. ASSUME held' = "none", 0 <= reclaimDebt'
        PROVE  Tally'
    <2>1. Oldest = visible /\ Oldest > 0
      <3>1. Obstacle = "none"
        BY <1>1, <1>5
      <3> QED
        BY <3>1 DEF Obstacle
    <2>2. wm'[s] = visible
      BY <1>0, <1>1, <2>1 DEF TypeOK, SweepType
    <2>3. visible \in Nat
      BY Ranges
    <2>4. pc'[s] = "unit" /\ visited'[s] = 0
      <3>1. visited[s] = 0
        BY <1>1 DEF Fresh
      <3>2. Oldest # 0
        BY <2>1, <2>3
      <3> QED
        BY <1>1, <1>2, <3>1, <3>2
    <2>5. \A v \in versions' : v.ts <= wm'[s]
      BY <1>1, <2>2 DEF Known
    <2>6. \A v \in versions' : Ahead(s, v)'
      BY <2>4, <2>5 DEF Ahead
    <2>7. \A v \in versions' : Scheduled(v)'
      BY <2>4, <2>6 DEF Scheduled
    <2> QED
      BY <1>5, <2>7, TallyNoneNext
  <1> QED
    BY <1>1, <1>4, <1>5 DEF Debts

\* Versions appear with the commit that moves the frontier, and go in sweeps.
LEMMA StoreSteps ==
  ASSUME [Next]_vars
  PROVE  (visible' = visible /\ versions' \subseteq versions) \/ \E w \in Writer : Commit(w)
  <1> DEFINE Old == visible' = visible /\ versions' \subseteq versions
  <1>1. ASSUME NEW r \in Reader, Read(r) \/ Reclaim(r) \/ Close(r) \/ CloseReturns(r)
        PROVE  Old
    <2>1. CASE ReclaimUnit(r)
      BY <2>1 DEF ReclaimUnit, SweepStore
    <2>2. CASE ~ReclaimUnit(r)
      BY <1>1, <2>2 DEF Read, Reclaim, EnterHolding, Publish, EndRead, Leave, wakeVacuumOnRelease,
         publishWatermark, ReclaimNow, acquireSweeper, ReclaimScan, releaseSweeper, Close,
         CloseReturns, storeVars
    <2> QED
      BY <2>1, <2>2
  <1>2. ASSUME NEW p \in Proc, Wake(p)
        PROVE  Old
    BY <1>2 DEF Wake, SendWake, LoadRunning, startVacuum, storeVars
  <1>3. ASSUME NEW w \in Writer, Write(w) \/ DirectWrite(w) \/ (EndWrite(w) /\ ~Commit(w))
        PROVE  Old
    BY <1>3 DEF Write, EndWrite, EnterHolding, Publish, Modify, EndEmpty, releaseWriterSnapshot,
       Leave, DirectWrite, chargeReclaimDebt, ChargeStranded, abortWake, acquireSweeper,
       withdrawAbortedNow, Credit, storeVars
  <1>4. ASSUME NEW s \in Sweeper, vacuumLoop(s)
        PROVE  Old
    <2>1. CASE sweepUnit(s)
      BY <2>1 DEF sweepUnit, SweepStore
    <2>2. CASE ~sweepUnit(s)
      BY <1>4, <2>2 DEF vacuumLoop, ConsumeWake, ResetDebt, SlotTaken, vacuumPass, EndPass, NextPass,
         Pace, Backoff, IdleExit, ClearRunning, Join, CheckWake, startVacuum, storeVars
    <2> QED
      BY <2>1, <2>2
  <1>5. ASSUME UNCHANGED vars
        PROVE  Old
    BY <1>5 DEF vars, storeVars
  <1> HIDE DEF Old
  <1>k. /\ Reader \subseteq Proc /\ Writer \subseteq Proc
        /\ Bracket \subseteq Writer /\ Direct \subseteq Writer
    BY DEF Client, Writer, Proc
  <1>6. ASSUME NEW w \in Writer, EndWrite(w)
        PROVE  Old \/ \E u \in Writer : Commit(u)
    BY <1>3, <1>6
  <1>7. Old \/ \E w \in Writer : Commit(w)
    <2>1. ASSUME NEW r \in Reader, Read(r) \/ Wake(r) \/ Reclaim(r) \/ Close(r) \/ CloseReturns(r)
          PROVE  Old
      BY <1>k, <1>1, <1>2, <2>1
    <2>2. ASSUME NEW w \in Bracket, Write(w)
          PROVE  Old
      BY <1>k, <1>3, <2>2
    <2>3. ASSUME NEW w \in Direct, DirectWrite(w)
          PROVE  Old
      BY <1>k, <1>3, <2>3
    <2>4. ASSUME NEW w \in Writer, Wake(w)
          PROVE  Old
      BY <1>k, <1>2, <2>4
    <2> QED
      BY <1>4, <1>5, <1>6, <2>1, <2>2, <2>3, <2>4 DEF Next
  <1> QED
    BY <1>7 DEF Old

LEMMA KnownStep ==
  ASSUME TypeOK, Known, [Next]_vars
  PROVE  Known'
  <1>0. visible \in Nat /\ \A v \in versions : v.ts \in Nat /\ v.ts <= visible
    BY Ranges DEF Known
  <1>1. CASE visible' = visible /\ versions' \subseteq versions
    BY <1>0, <1>1 DEF Known
  <1>2. ASSUME NEW w \in Writer, Commit(w)
        PROVE  Known'
    <2>1. visible' = visible + 1 /\ versions' = versions \union [ts : {visible + 1}, unit : pending[w]]
      BY <1>2 DEF Commit
    <2>2. \A v \in [ts : {visible + 1}, unit : pending[w]] : v.ts = visible + 1
      OBVIOUS
    <2> QED
      BY <1>0, <2>1, <2>2 DEF Known
  <1> QED
    BY <1>1, <1>2, StoreSteps

LEMMA DebtsStep ==
  ASSUME VInv, TypeOK', DInv, [Next]_vars
  PROVE  Debts'
  <1>0. TypeOK /\ Typed /\ OneSweeper /\ Fresh /\ Debts /\ Known
    BY DEF VInv, Typed, DInv
  <1>k. Reader \subseteq Client /\ Writer \subseteq Client /\ Bracket \subseteq Writer
        /\ Direct \subseteq Writer /\ Client \subseteq Proc /\ Sweeper \subseteq Proc
    BY DEF Client, Writer, Proc
  <1>1. ASSUME NEW r \in Reader, Read(r) \/ Wake(r) \/ Reclaim(r) \/ Close(r) \/ CloseReturns(r)
        PROVE  Debts'
    BY <1>0, <1>1, <1>k, ClientAside, ReaderAside, AsideDebts, AtOnce, StartDebts
       DEF Read, Wake, Reclaim
  <1>2. ASSUME NEW w \in Bracket, Write(w)
        PROVE  Debts'
    BY <1>0, <1>2, <1>k, ClientAside, AsideDebts DEF Write
  <1>3. ASSUME NEW w \in Direct, DirectWrite(w)
        PROVE  Debts'
    BY <1>0, <1>3, <1>k, ClientAside, AsideDebts
  <1>4. ASSUME NEW w \in Writer, EndWrite(w) \/ Wake(w)
        PROVE  Debts'
    BY <1>0, <1>4, <1>k, ClientAside, AsideDebts, AtOnce, CommitDebts, ChargeDebts, StartDebts
       DEF EndWrite, Wake
  <1>5. ASSUME NEW s \in Sweeper, vacuumLoop(s)
        PROVE  Debts'
    BY <1>0, <1>5, <1>k, TurnDebts, ResetDebts, IdleDebts, PassDebts, SweepDebts, StartDebts
       DEF vacuumLoop
  <1>6. CASE UNCHANGED vars
    <2>1. UNCHANGED <<versions, created, reclaimDebt, wake, closed, held, cursor, wm, freed, visited, pc>>
      BY <1>6 DEF vars, storeVars, wakeVars, sweepVars
    <2>2. \A t \in Sweeper : SweeperKept(t)
      BY <2>1 DEF SweeperKept
    <2>3. ASSUME NEW v, Scheduled(v)
          PROVE  Scheduled(v)'
      BY <1>0, <2>1, <2>2, <2>3, ScheduledKept
    <2>4. ChargesKept /\ NothingNew
      BY <2>1, <2>3 DEF ChargesKept, NothingNew
    <2>5. (Notified => Notified') /\ (Staying => Staying')
      BY <2>1 DEF Notified, Staying
    <2> QED
      BY <1>0, <2>1, <2>4, <2>5, DebtsKept
  <1> QED
    BY <1>1, <1>2, <1>3, <1>4, <1>5, <1>6 DEF Next

LEMMA DebtsInitially == Init => DInv
  <1> SUFFICES ASSUME Init
               PROVE  DInv
    OBVIOUS
  <1>1. versions = {} /\ reclaimDebt = 0 /\ TypeOK
    BY Initially DEF Init, VInv
  <1>2. Tally
    BY <1>1, TallyNone
  <1> QED
    BY <1>1, <1>2 DEF DInv, Debts, Known

\* The debt covers what no sweeper comes to, in every state: the inductive
\* invariant behind the next theorem (chargeReclaimDebt, abortWake, vacuumLoop).
THEOREM DebtsInvariance == Spec => [](VInv /\ DInv)
  <1>1. VInv /\ DInv /\ [Next]_vars => (VInv /\ DInv)'
    <2> SUFFICES ASSUME VInv, DInv, [Next]_vars
                 PROVE  VInv' /\ DInv'
      OBVIOUS
    <2>1. VInv' /\ TypeOK'
      BY Inductive DEF VInv
    <2>2. Debts' /\ Known'
      BY <2>1, DebtsStep, KnownStep DEF VInv, DInv
    <2> QED
      BY <2>1, <2>2 DEF DInv
  <1> QED
    BY <1>1, Initially, DebtsInitially, PTL DEF Spec

\* Nothing is retained unaccounted for: in a quiet open graph that nobody kept
\* the last pass from, the versions left are in the debt and the debt is below
\* the threshold, whatever a charge, a reset, an abort's credit and an exit did
\* between one another (chargeReclaimDebt, abortWake, vacuumLoop).
THEOREM DebtAccounts == Spec => []Accounted
  <1>1. VInv /\ DInv => Accounted
    <2> SUFFICES ASSUME VInv, DInv, Quiet, ~closed, held = "none"
                 PROVE  Cardinality(versions) <= reclaimDebt /\ reclaimDebt < reclaimThreshold
      BY DEF Accounted
    <2>1. Sweeper \subseteq Proc /\ Writer \subseteq Proc
      BY DEF Proc, Client
    <2>2. \A p \in Proc : pc[p] \notin {"send", "load", "start", "acquire", "sweep", "credit", "charge"}
      BY DEF Quiet
    <2>3. \A s \in Sweeper : pc[s] = "out"
      BY <2>1 DEF Quiet, VInv, TypeOK, PcType, SweeperLabels
    <2>4. ~running
      BY <2>3 DEF VInv, OneSweeper, Loop
    <2>5. ~(wake > 0)
      BY <2>2, <2>3, <2>4 DEF VInv, NoLostWake
    <2>6. ~Notified /\ ~Staying /\ \A v : ~Scheduled(v)
      BY <2>1, <2>2, <2>3, <2>5 DEF Notified, Staying, Scheduled, Loop
    <2>7. reclaimDebt < reclaimThreshold /\ Tally
      BY <2>6 DEF DInv, Debts
    <2>8. PICK V : Charging(V) /\ Cardinality(Left(V)) <= reclaimDebt
      BY <2>7 DEF Tally
    <2>9. \A w \in Writer : V[w] = {}
      BY <2>1, <2>2, <2>8 DEF Charging
    <2>10. Left(V) = versions
      BY <2>6, <2>9 DEF Left
    <2> QED
      BY <2>7, <2>8, <2>10
  <1> QED
    BY <1>1, DebtsInvariance, PTL
=============================================================================
