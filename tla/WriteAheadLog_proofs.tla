------------------------ MODULE WriteAheadLog_proofs ------------------------
(***************************************************************************)
(* Theorems about the write-ahead log, for every set of transactions, size *)
(* of a run and of a segment, and kind of crash.                           *)
(*                                                                         *)
(* None of the six safety properties is inductive alone.  WInv ties        *)
(* together the four positions of the log, the one leader of a round, the  *)
(* place of a run in the segments, and what the checkpointer has captured. *)
(***************************************************************************)
EXTENDS WriteAheadLog, TLAPS

-----------------------------------------------------------------------------
(* The inductive invariant.                                                *)

\* What has been fsynced was written, and nothing was published or left to a
\* leader that was not written.  The fsync of a round runs ahead of the durable
\* position only until the round publishes.
LogOrder ==
  /\ stable <= written /\ flushed <= written
  /\ state = "open" => durablePos <= written
  /\ state = "open" /\ ~syncErr => written <= appendedPos
  /\ state = "open" /\ (\A c \in Committer : pc[c] # "publish") => stable <= durablePos

\* Segments follow each other, and the active one begins in the durable part.
SegOrder ==
  /\ \A i, j \in 1 .. Active : i <= j => starts[i] <= starts[j]
  /\ starts[Active] <= stable
  /\ state = "open" => starts[Active] <= durablePos
  /\ starts[first] <= oldest /\ starts[diskFirst] <= oldest

\* There is one leader while leaderActive is set, and none otherwise; it fsyncs
\* its own target, and nobody poisons the writer meanwhile.
Leading ==
  /\ asleep # {} => leaderActive
  /\ leaderActive => /\ state = "open" /\ ~syncErr
                     /\ \E c \in Committer : pc[c] \in {"fsync", "publish"}
  /\ ~leaderActive => flushed = 0
  /\ \A c \in Committer : pc[c] \in {"fsync", "publish"} =>
       /\ leaderActive /\ durablePos < target[c]
       /\ outcome[c] = "none" => target[c] <= flushed
  /\ \A c \in Committer : pc[c] = "publish" =>
       flushed <= stable /\ (stable <= durablePos \/ stable <= flushed)
  /\ \A c, d \in Committer :
       pc[c] \in {"fsync", "publish"} /\ pc[d] \in {"fsync", "publish"} => c = d

\* What the place of a committer says about its commit.
Calls ==
  \A c \in Committer :
    /\ pc[c] \in {"emit", "sync", "fsync", "publish"} => state = "open"
    /\ pc[c] = "emit" => ~syncErr
    /\ pc[c] \in {"idle", "append", "roll", "emit"} => outcome[c] = "none" /\ mark[c] = 0
    /\ outcome[c] = "durable" => pc[c] \in {"exit", "settle"}
    /\ pc[c] = "settle" => outcome[c] = "durable"
    /\ outcome[c] \in {"acked", "recovered", "lost"} => pc[c] = "done"

\* The run of c is appended and its caller has no answer yet.
InFlight(c) == pc[c] \in {"sync", "fsync", "publish"} /\ outcome[c] = "none"

\* A run that ends at p lies in the segment recorded for c, which is on disk.
Placed(c, p) ==
  /\ seg[c] \in diskFirst .. Active
  /\ starts[seg[c]] < p
  /\ seg[c] < Active => p <= starts[seg[c] + 1]

\* The run of c is on stable storage above the redo position r.
Kept(c, r) == r < mark[c] /\ mark[c] <= stable /\ Placed(c, mark[c])

\* A run in flight is above every redo position that is or will be published.
Pending(c) ==
  /\ snapRedo < target[c] /\ (cpc = "write" => watermark < target[c])
  /\ Placed(c, target[c])
  /\ mark[c] = target[c] \/ (syncErr /\ mark[c] = 0 /\ durablePos < target[c])
  /\ target[c] <= durablePos => target[c] <= stable
  /\ ~syncErr => target[c] <= appendedPos

\* Every run is where recovery looks for it.
Runs ==
  \A c \in Committer :
    /\ InFlight(c) => Pending(c)
    /\ outcome[c] = "durable" => Kept(c, snapRedo) /\ (cpc = "write" => Kept(c, watermark))
    /\ outcome[c] = "acked" =>
         /\ c \in snapTxs \/ Kept(c, snapRedo)
         /\ cpc = "write" => c \in image \/ Kept(c, watermark)
    /\ outcome[c] = "recovered" /\ state = "open" => mark[c] <= durablePos
    /\ mark[c] <= written \/ (InFlight(c) /\ ~syncErr)

\* The snapshot, and the one being written, hold what lies below their redo
\* position, and no more of the log is given up than the snapshot covers.
Images ==
  /\ oldest <= snapRedo
  /\ state = "open" => snapRedo <= durablePos
  /\ cpc # "idle" => state = "open" /\ watermark <= durablePos
  /\ cpc = "write" => snapRedo <= watermark /\ \A c \in image : mark[c] <= watermark
  /\ cpc \in {"mark", "reclaim"} => snapRedo = watermark
  /\ \A c \in snapTxs : mark[c] <= snapRedo
  /\ \A c \in snapTxs \cup image : outcome[c] \in {"acked", "recovered"}

\* A poison that discarded the un-synced suffix discarded every run it fails.
Failures ==
  ~residue => \A c \in Committer :
    /\ outcome[c] = "failed" => mark[c] = 0
    /\ InFlight(c) /\ syncErr /\ durablePos < target[c] => mark[c] = 0

WInv ==
  /\ TypeOK /\ LogOrder /\ SegOrder /\ Leading
  /\ Calls /\ Runs /\ Images /\ Failures

-----------------------------------------------------------------------------
(* The initial state.                                                      *)

LEMMA InitWInv == Init => WInv
  <1> SUFFICES ASSUME Init PROVE WInv
    OBVIOUS
  <1> USE DEF Init
  <1>0. Active = 1
    BY DEF Active
  <1>1. TypeOK
    <2>1. LogType /\ SegType
      BY <1>0 DEF LogType, SegType
    <2>2. SyncType
      BY DEF SyncType
    <2>3. TxType /\ CpType
      BY DEF TxType, CpType, Outcomes
    <2> QED
      BY <2>1, <2>2, <2>3 DEF TypeOK
  <1>2. LogOrder /\ SegOrder
    BY <1>0 DEF LogOrder, SegOrder
  <1>3. Leading /\ Calls
    BY DEF Leading, Calls
  <1>4. Runs /\ Images /\ Failures
    BY DEF Runs, Images, Failures, InFlight
  <1> QED
    BY <1>1, <1>2, <1>3, <1>4 DEF WInv

-----------------------------------------------------------------------------
(* Types.                                                                  *)

LEMMA AppendFacts ==
  ASSUME NEW S, NEW q \in Seq(S), NEW e \in S
  PROVE  /\ Append(q, e) \in Seq(S)
         /\ Len(Append(q, e)) = Len(q) + 1
         /\ \A i \in 1 .. Len(q) : Append(q, e)[i] = q[i]
         /\ Append(q, e)[Len(q) + 1] = e
  OBVIOUS

LEMMA TailFacts ==
  ASSUME NEW S, NEW q \in Seq(S), q # <<>>
  PROVE  Tail(q) \in Seq(S)
  OBVIOUS

LEMMA PrefixFacts ==
  ASSUME NEW S, NEW q \in Seq(S), NEW n \in 0 .. Len(q)
  PROVE  /\ SubSeq(q, 1, n) \in Seq(S)
         /\ Len(SubSeq(q, 1, n)) = n
         /\ \A i \in 1 .. n : SubSeq(q, 1, n)[i] = q[i]
  OBVIOUS

LEMMA MarksUpToType ==
  ASSUME TypeOK, NEW n \in Nat
  PROVE  MarksUpTo(n) \in [Committer -> Nat]
  BY DEF TypeOK, LogType, MarksUpTo

LEMMA PoisonType ==
  ASSUME TypeOK, NEW d \in Nat, NEW w \in Nat, NEW s \in Nat, poison(d, w, s)
  PROVE  LogType' /\ syncErr' /\ ~bufErr' /\ asleep' = {} /\ residue' \in BOOLEAN
  <1>1. MarksUpTo(d) \in [Committer -> Nat] /\ MarksUpTo(w) \in [Committer -> Nat]
    BY MarksUpToType
  <1>2. LogType'
    BY <1>1 DEF poison, LogType, TypeOK
  <1>3. residue' \in BOOLEAN
    BY DEF poison, TypeOK, SyncType
  <1> QED
    BY <1>2, <1>3 DEF poison

LEMMA ReturnType ==
  ASSUME TypeOK, NEW c \in Committer, NEW r \in Outcomes, Return(c, r),
         flushed' \in Nat, gate' = gate
  PROVE  TxType'
  <1>1. outcome' \in [Committer -> Outcomes]
    BY DEF TypeOK, TxType, Return
  <1>2. target' \in [Committer -> Nat]
    BY DEF TypeOK, TxType, Return
  <1> QED
    BY <1>1, <1>2 DEF TypeOK, TxType, Return, Goto

LEMMA BufferType ==
  ASSUME TypeOK, NEW n \in Nat, Buffer(n)
  PROVE  appendedPos' \in Nat /\ written' \in Nat /\ UNCHANGED <<durablePos, stable>>
  BY DEF TypeOK, LogType, Buffer

\* The steps of a committer keep the type invariant.
LEMMA CommitterType ==
  ASSUME TypeOK, NEW c \in Committer, enterWriter(c) \/ Appending(c) \/ Committing(c)
  PROVE  TypeOK'
  <1> USE DEF TypeOK, logVars, segVars, cpVars, syncVars, txVars, Goto, Return, Outcomes
  <1>1. CASE enterWriter(c) \/ Start(c) \/ RolloverWait(c) \/ Follow(c)
    <2>1. LogType' /\ SegType' /\ CpType'
      BY <1>1 DEF LogType, SegType, CpType, Active, enterWriter, Start, RolloverWait, Follow
    <2>2. SyncType'
      BY <1>1 DEF SyncType, enterWriter, Start, RolloverWait, Follow
    <2>3. TxType'
      BY <1>1 DEF TxType, enterWriter, Start, RolloverWait, Follow
    <2> QED
      BY <2>1, <2>2, <2>3
  <1>2. CASE Refuse(c) \/ SyncBuffered(c) \/ Coalesce(c) \/ SyncPoisoned(c)
    <2>1. LogType' /\ SegType' /\ CpType'
      BY <1>2 DEF LogType, SegType, CpType, Active, Refuse, SyncBuffered, Coalesce, SyncPoisoned
    <2>2. SyncType'
      BY <1>2 DEF SyncType, Refuse, SyncBuffered, Coalesce, SyncPoisoned
    <2>3. CASE SyncBuffered(c)
      <3>1. TxType'
        BY <2>3 DEF LogType, TxType, SyncBuffered
      <3> QED
        BY <2>1, <2>2, <3>1
    <2>4. CASE Refuse(c) \/ Coalesce(c) \/ SyncPoisoned(c)
      <3>1. PICK r \in {"failed", "durable"} : Return(c, r)
        BY <2>4 DEF Refuse, Coalesce, SyncPoisoned
      <3>2. flushed' \in Nat /\ gate' = gate
        BY <2>4 DEF TxType, Refuse, Coalesce, SyncPoisoned
      <3>3. TxType'
        BY <3>1, <3>2, ReturnType
      <3> QED
        BY <2>1, <2>2, <3>3
    <2> QED
      BY <1>2, <2>3, <2>4
  <1>3. CASE exitWriter(c) \/ CommitWALOnly(c) \/ PublishInstant(c)
    <2>1. LogType' /\ SegType' /\ CpType'
      BY <1>3 DEF LogType, SegType, CpType, Active, exitWriter, CommitWALOnly, PublishInstant
    <2>2. SyncType'
      BY <1>3 DEF SyncType, exitWriter, CommitWALOnly, PublishInstant
    <2>3. gate' \in Seq(Committer)
      <3>1. (gate' = gate) \/ (gate # <<>> /\ gate' = Tail(gate))
        BY <1>3 DEF TxType, exitWriter, CommitWALOnly, PublishInstant, TakeTurn
      <3> QED
        BY <3>1, TailFacts DEF TxType
    <2>4. TxType'
      BY <1>3, <2>3 DEF TxType, exitWriter, CommitWALOnly, PublishInstant
    <2> QED
      BY <2>1, <2>2, <2>4
  <1>4. CASE Rollover(c)
    <2>1. LogType' /\ CpType'
      BY <1>4 DEF LogType, CpType, Rollover
    <2>2. starts' \in Seq(Nat) /\ Active' = Active + 1
      BY <1>4 DEF LogType, SegType, Rollover, Active
    <2>3. SegType'
      BY <1>4, <2>2 DEF SegType, Rollover, Active
    <2>4. SyncType'
      BY <1>4 DEF SyncType, Rollover
    <2>5. TxType'
      BY <1>4 DEF TxType, Rollover
    <2> QED
      BY <2>1, <2>3, <2>4, <2>5
  <1>5. CASE RolloverFails(c) \/ LeadFails(c) \/ FsyncFails(c)
    <2>1. PICK d, w, s \in Nat : poison(d, w, s)
      BY <1>5 DEF RolloverFails, LeadFails, FsyncFails, LogType
    <2>2. LogType' /\ syncErr' /\ ~bufErr' /\ asleep' = {} /\ residue' \in BOOLEAN
      BY <2>1, PoisonType
    <2>3. SegType' /\ CpType'
      BY <1>5 DEF SegType, CpType, Active, RolloverFails, LeadFails, FsyncFails
    <2>4. SyncType'
      <3>1. leaderActive' \in BOOLEAN
        BY <1>5 DEF SyncType, RolloverFails, LeadFails, FsyncFails
      <3>2. bufErr' = FALSE /\ syncErr' = TRUE
        BY <2>1 DEF poison
      <3> QED
        BY <2>2, <3>1, <3>2 DEF SyncType
    <2>5. TxType'
      <3>1. Return(c, "failed") /\ flushed' \in Nat /\ gate' = gate
        BY <1>5 DEF TxType, RolloverFails, LeadFails, FsyncFails
      <3> QED
        BY <3>1, ReturnType
    <2> QED
      BY <2>2, <2>3, <2>4, <2>5
  <1>6. CASE Emit(c) \/ EmitFails(c) \/ ReserveIDs(c)
    <2>1. appendedPos' \in Nat /\ written' \in Nat /\ UNCHANGED <<durablePos, stable>>
      <3>1. PICK n \in Nat : Buffer(n)
        <4>1. CASE Emit(c)
          BY <4>1, SizesAssumption DEF Emit
        <4>2. CASE EmitFails(c)
          BY <4>2, SizesAssumption DEF EmitFails
        <4>3. CASE ReserveIDs(c)
          BY <4>3 DEF ReserveIDs
        <4> QED
          BY <1>6, <4>1, <4>2, <4>3
      <3> QED
        BY <3>1, BufferType
    <2>2. LogType'
      <3>1. Active \in Nat
        BY DEF SegType, Active
      <3>2. mark' \in [Committer -> Nat] /\ seg' \in [Committer -> Nat]
        BY <1>6, <2>1, <3>1 DEF LogType, Emit, EmitFails, ReserveIDs
      <3> QED
        BY <2>1, <3>2 DEF LogType
    <2>3. SegType' /\ CpType'
      BY <1>6 DEF SegType, CpType, Active, Emit, EmitFails, ReserveIDs
    <2>4. SyncType'
      BY <1>6 DEF SyncType, Emit, EmitFails, ReserveIDs
    <2>5. gate' \in Seq(Committer)
      <3>1. gate' = gate \/ gate' = Append(gate, c)
        BY <1>6 DEF Emit, EmitFails, ReserveIDs
      <3>2. gate \in Seq(Committer) /\ Append(gate, c) \in Seq(Committer)
        BY AppendFacts DEF TxType
      <3> QED
        BY <3>1, <3>2
    <2>6. TxType'
      BY <1>6, <2>1, <2>5 DEF TxType, Emit, EmitFails, ReserveIDs
    <2> QED
      BY <2>2, <2>3, <2>4, <2>6
  <1>7. CASE Lead(c) \/ Fsync(c) \/ Publish(c)
    <2>1. LogType' /\ SegType' /\ CpType'
      BY <1>7 DEF LogType, SegType, CpType, TxType, Active, Larger, Lead, Fsync, Publish
    <2>2. SyncType'
      BY <1>7 DEF SyncType, Lead, Fsync, Publish
    <2>3. CASE Lead(c) \/ Fsync(c)
      <3>1. TxType'
        BY <2>3 DEF TxType, LogType, Lead, Fsync
      <3> QED
        BY <2>1, <2>2, <3>1
    <2>4. CASE Publish(c)
      <3>1. Return(c, "durable") /\ flushed' \in Nat /\ gate' = gate
        BY <2>4 DEF Publish
      <3>2. TxType'
        BY <3>1, ReturnType
      <3> QED
        BY <2>1, <2>2, <3>2
    <2> QED
      BY <1>7, <2>3, <2>4
  <1> QED
    BY <1>1, <1>2, <1>3, <1>4, <1>5, <1>6, <1>7 DEF Appending, Committing

\* So do the steps of the checkpointer ...
LEMMA CheckpointType ==
  ASSUME TypeOK, Checkpointing
  PROVE  TypeOK'
  <1> USE DEF TypeOK, Checkpointing, Capture, WriteSnapshot, MarkCheckpoint, Unlink,
              ReclaimSegments, CheckpointStops, logVars, segVars, syncVars, txVars, cpVars
  <1>1. LogType'
    BY DEF LogType
  <1>2. SyncType'
    BY DEF SyncType
  <1>3. TxType'
    BY DEF TxType
  <1>4. SegType'
    BY DEF SegType, Active, Victim
  <1>5. oldest' \in Nat
    <2>1. \A i \in first .. Active : starts[i] \in Nat
      BY DEF SegType, Active
    <2> QED
      BY <2>1 DEF CpType, Larger
  <1>6. image' \in SUBSET Committer /\ snapTxs' \in SUBSET Committer
    BY DEF CpType, Visible
  <1>7. CpType'
    BY <1>5, <1>6 DEF CpType, LogType
  <1> QED
    BY <1>1, <1>2, <1>3, <1>4, <1>7

\* The log that Open attaches.
LEMMA OpenSegments ==
  ASSUME TypeOK, NEW s \in diskFirst .. Active, NEW a \in diskFirst .. Active,
         StartSegment(s), ActiveSegment(a, s)
  PROVE  s <= a
  BY DEF TypeOK, SegType, StartSegment, ActiveSegment, Framed

\* ... and the end of a process and the beginning of the next.
LEMMA RestartType ==
  ASSUME TypeOK, Restarting
  PROVE  TypeOK'
  <1> USE DEF TypeOK, logVars, segVars, syncVars, txVars, cpVars
  <1>1. CASE Close
    <2>1. MarksUpTo(durablePos) \in [Committer -> Nat]
      BY MarksUpToType DEF LogType
    <2>2. LogType'
      BY <1>1, <2>1 DEF LogType, Close
    <2>3. SegType' /\ CpType'
      BY <1>1 DEF SegType, CpType, Active, Close
    <2>4. SyncType'
      BY <1>1 DEF SyncType, Close
    <2>5. TxType'
      BY <1>1 DEF TxType, Close
    <2> QED
      BY <2>2, <2>3, <2>4, <2>5
  <1>2. ASSUME NEW n \in Nat, Down(n), stable' \in Nat
        PROVE  TypeOK'
    <2>1. MarksUpTo(n) \in [Committer -> Nat]
      BY MarksUpToType
    <2>2. LogType'
      BY <1>2, <2>1 DEF LogType, Down
    <2>3. SegType' /\ CpType'
      BY <1>2 DEF SegType, CpType, Active, Down
    <2>4. SyncType'
      BY <1>2 DEF SyncType, Down
    <2>5. gate' \in Seq(Committer) /\ outcome' \in [Committer -> Outcomes]
      BY <1>2 DEF TxType, Down, Outcomes
    <2>6. TxType'
      BY <1>2, <2>5 DEF TxType, Down
    <2> QED
      BY <2>2, <2>3, <2>4, <2>6
  <1>3. CASE Kill
    BY <1>2, <1>3 DEF Kill, LogType
  <1>4. CASE PowerLoss
    BY <1>2, <1>4 DEF PowerLoss, LogType
  <1>5. CASE Open
    <2>1. LogType' /\ CpType'
      BY <1>5 DEF LogType, CpType, Open
    <2>2. SegType'
      <3>1. PICK s, a \in diskFirst .. Active :
              /\ StartSegment(s) /\ ActiveSegment(a, s)
              /\ starts' = SubSeq(starts, 1, a) /\ first' = s /\ diskFirst' = s
        BY <1>5 DEF Open
      <3>2. starts \in Seq(Nat) /\ a \in 0 .. Len(starts) /\ s \in 1 .. a
        BY OpenSegments, <3>1 DEF SegType, Active
      <3>3. starts' \in Seq(Nat) /\ Active' = a
        BY <3>1, <3>2, PrefixFacts DEF Active
      <3> QED
        BY <3>1, <3>2, <3>3 DEF SegType
    <2>3. SyncType'
      BY <1>5 DEF SyncType, Open
    <2>4. outcome' \in [Committer -> Outcomes]
      BY <1>5 DEF TxType, Open, Outcomes
    <2>5. TxType'
      BY <1>5, <2>4 DEF TxType, Open
    <2> QED
      BY <2>1, <2>2, <2>3, <2>5
  <1>6. CASE OpenRefused
    <2>1. LogType' /\ SegType' /\ CpType'
      BY <1>6 DEF LogType, SegType, CpType, Active, OpenRefused
    <2>2. SyncType'
      BY <1>6 DEF SyncType, OpenRefused
    <2>3. TxType'
      BY <1>6 DEF TxType, OpenRefused
    <2> QED
      BY <2>1, <2>2, <2>3
  <1> QED
    BY <1>1, <1>3, <1>4, <1>5, <1>6 DEF Restarting

\* The type invariant is inductive on its own.
LEMMA TypeStep ==
  ASSUME TypeOK, [Next]_vars
  PROVE  TypeOK'
  <1>1. CASE UNCHANGED vars
    <2> USE <1>1 DEF vars, logVars, segVars, syncVars, txVars, cpVars, TypeOK
    <2>1. LogType' /\ SegType' /\ CpType'
      BY DEF LogType, SegType, CpType, Active
    <2>2. SyncType'
      BY DEF SyncType
    <2>3. TxType'
      BY DEF TxType
    <2> QED
      BY <2>1, <2>2, <2>3
  <1>2. CASE Next
    BY <1>1, <1>2, CommitterType, CheckpointType, RestartType DEF Next, Finished
  <1> QED
    BY <1>1, <1>2

-----------------------------------------------------------------------------
(* Steps of one committer that leave the log alone.                        *)

\* Everything but the committer's own place, target and outcome.
LogQuiet ==
  UNCHANGED <<state, logVars, segVars, syncErr, leaderActive, residue, flushed, cpVars>>

\* The others are where they were, and nobody sleeps without a leader.
Alone(c) ==
  /\ LogQuiet
  /\ asleep' # {} => leaderActive
  /\ \A d \in Committer \ {c} :
       pc'[d] = pc[d] /\ target'[d] = target[d] /\ outcome'[d] = outcome[d]

\* What c may do: move on before its run is appended, join a round with an empty
\* commit, stay where it is, have its answer, or leave with it.
Moves(c) ==
  \/ /\ pc[c] \in {"idle", "append", "roll"} /\ pc'[c] \in {"append", "roll", "emit"}
     /\ pc'[c] = "emit" => state = "open" /\ ~syncErr
     /\ outcome'[c] = outcome[c]
  \/ pc[c] = "append" /\ pc'[c] = "sync" /\ outcome'[c] = "empty" /\ state = "open"
  \/ pc'[c] = pc[c] /\ target'[c] = target[c] /\ outcome'[c] = outcome[c]

Answers(c) ==
  /\ pc'[c] = "exit"
  /\ \/ pc[c] \in {"append", "roll"} /\ outcome'[c] = "failed"
     \/ pc[c] = "sync" /\ outcome[c] # "none" /\ outcome'[c] = outcome[c]
     \/ pc[c] = "sync" /\ outcome[c] = "none" /\ syncErr /\ durablePos < target[c] /\ outcome'[c] = "failed"
     \/ pc[c] = "sync" /\ outcome[c] = "none" /\ target[c] <= durablePos /\ outcome'[c] = "durable"

Leaves(c) ==
  \/ pc[c] = "exit" /\ outcome[c] # "durable" /\ pc'[c] = "done" /\ outcome'[c] = outcome[c]
  \/ pc[c] = "exit" /\ outcome[c] = "durable" /\ pc'[c] = "settle" /\ outcome'[c] = outcome[c]
  \/ outcome[c] = "durable" /\ pc'[c] = "done" /\ outcome'[c] = "acked"

LEMMA QuietStep ==
  ASSUME WInv, TypeOK', NEW c \in Committer, Alone(c), Moves(c) \/ Answers(c) \/ Leaves(c)
  PROVE  WInv'
  <1> USE DEF WInv, TypeOK, LogType, SegType, SyncType, TxType, CpType,
              Alone, LogQuiet, logVars, segVars, cpVars
  <1>1. Calls'
    BY DEF Calls, Moves, Answers, Leaves
  <1>2. \A d \in Committer : pc'[d] \in {"fsync", "publish"} <=> pc[d] \in {"fsync", "publish"}
    BY DEF Calls, Moves, Answers, Leaves
  <1>3. \A d \in Committer : pc[d] \in {"fsync", "publish"} =>
          pc'[d] = pc[d] /\ target'[d] = target[d] /\ outcome'[d] = outcome[d]
    BY DEF Calls, Moves, Answers, Leaves
  <1>4. LogOrder' /\ SegOrder'
    BY <1>2, <1>3 DEF LogOrder, SegOrder, Active
  <1>5. Leading'
    BY <1>2, <1>3 DEF Leading
  <1>6. Images'
    BY DEF Images, Calls, Moves, Answers, Leaves
  <1>7. Failures'
    BY DEF Failures, InFlight, Calls, Moves, Answers, Leaves
  <1>8. Runs'
    <2> SUFFICES ASSUME NEW d \in Committer
                 PROVE  /\ InFlight(d)' => Pending(d)'
                        /\ (outcome[d] = "durable" => Kept(d, snapRedo) /\ (cpc = "write" => Kept(d, watermark)))'
                        /\ (outcome[d] = "acked" =>
                             /\ d \in snapTxs \/ Kept(d, snapRedo)
                             /\ cpc = "write" => d \in image \/ Kept(d, watermark))'
                        /\ (outcome[d] = "recovered" /\ state = "open" => mark[d] <= durablePos)'
                        /\ (mark[d] <= written \/ (InFlight(d) /\ ~syncErr))'
      BY DEF Runs
    <2>1. \A r \in Nat : Kept(d, r)' <=> Kept(d, r)
      BY DEF Kept, Placed, Active
    <2>2. InFlight(d)' => Pending(d)'
      <3>1. InFlight(d)' => InFlight(d) /\ target'[d] = target[d]
        BY DEF Calls, InFlight, Moves, Answers, Leaves
      <3>2. InFlight(d) => Pending(d)
        BY DEF Runs
      <3>3. Pending(d) /\ target'[d] = target[d] => Pending(d)'
        BY DEF Pending, Placed, Active
      <3> QED
        BY <3>1, <3>2, <3>3
    <2>3. (mark[d] <= written \/ (InFlight(d) /\ ~syncErr))'
      <3>1. CASE mark[d] <= written
        BY <3>1
      <3>2. CASE InFlight(d) /\ ~syncErr /\ InFlight(d)'
        BY <3>2
      <3>3. CASE InFlight(d) /\ ~syncErr /\ ~InFlight(d)'
        <4>1. mark[d] = target[d] /\ state = "open"
          BY <3>3 DEF Runs, Pending, InFlight, Calls
        <4>2. target[d] <= durablePos
          BY <3>3 DEF InFlight, Calls, Moves, Answers, Leaves
        <4> QED
          BY <4>1, <4>2 DEF LogOrder
      <3> QED
        BY <3>1, <3>2, <3>3 DEF Runs
    <2>4. (outcome[d] = "recovered" /\ state = "open" => mark[d] <= durablePos)'
      BY DEF Runs, Moves, Answers, Leaves
    <2>5. outcome'[d] = "durable" => Kept(d, snapRedo) /\ (cpc = "write" => Kept(d, watermark))
      <3> SUFFICES ASSUME outcome'[d] = "durable"
                   PROVE  Kept(d, snapRedo) /\ (cpc = "write" => Kept(d, watermark))
        OBVIOUS
      <3>1. outcome[d] = "durable" \/ (InFlight(d) /\ target[d] <= durablePos)
        BY DEF InFlight, Calls, Moves, Answers, Leaves
      <3>2. CASE outcome[d] = "durable"
        BY <3>2 DEF Runs
      <3>3. CASE InFlight(d) /\ target[d] <= durablePos
        <4>1. Pending(d)
          BY <3>3 DEF Runs
        <4>2. durablePos \in Nat /\ target[d] \in Nat
          OBVIOUS
        <4>3. mark[d] = target[d] /\ target[d] <= stable
          BY <3>3, <4>1, <4>2 DEF Pending
        <4> QED
          BY <4>1, <4>3 DEF Pending, Kept
      <3> QED
        BY <3>1, <3>2, <3>3
    <2>6. outcome'[d] = "acked" => /\ d \in snapTxs \/ Kept(d, snapRedo)
                                   /\ cpc = "write" => d \in image \/ Kept(d, watermark)
      BY DEF Runs, Moves, Answers, Leaves
    <2> QED
      BY <2>1, <2>2, <2>3, <2>4, <2>5, <2>6
  <1> QED
    BY <1>1, <1>4, <1>5, <1>6, <1>7, <1>8

LEMMA QuietCommitter ==
  ASSUME WInv, TypeOK', NEW c \in Committer,
         \/ enterWriter(c) \/ Start(c) \/ RolloverWait(c) \/ Follow(c) \/ SyncBuffered(c)
         \/ Refuse(c) \/ Coalesce(c) \/ SyncPoisoned(c)
         \/ exitWriter(c) \/ CommitWALOnly(c) \/ PublishInstant(c)
  PROVE  WInv'
  <1> USE DEF WInv, TypeOK, LogType, TxType, logVars, segVars, cpVars, syncVars, txVars,
              Goto, Return, Alone, LogQuiet, Leading
  <1>1. CASE enterWriter(c)
    <2>1. Alone(c) /\ Moves(c)
      BY <1>1 DEF enterWriter, Moves
    <2> QED
      BY <2>1, QuietStep
  <1>2. CASE Start(c)
    <2>1. Alone(c) /\ Moves(c)
      BY <1>2 DEF Start, Moves
    <2> QED
      BY <2>1, QuietStep
  <1>3. CASE RolloverWait(c)
    <2>1. Alone(c) /\ Moves(c)
      BY <1>3 DEF RolloverWait, Rolling, Moves
    <2> QED
      BY <2>1, QuietStep
  <1>4. CASE Follow(c)
    <2>1. Alone(c) /\ Moves(c)
      BY <1>4 DEF Follow, Moves
    <2> QED
      BY <2>1, QuietStep
  <1>5. CASE SyncBuffered(c)
    <2>1. Alone(c) /\ Moves(c)
      BY <1>5 DEF SyncBuffered, Moves
    <2> QED
      BY <2>1, QuietStep
  <1>6. CASE Refuse(c)
    <2>1. Alone(c) /\ Answers(c)
      BY <1>6 DEF Refuse, Answers, Calls
    <2> QED
      BY <2>1, QuietStep
  <1>7. CASE Coalesce(c)
    <2>1. Alone(c) /\ Answers(c)
      BY <1>7 DEF Coalesce, Syncing, Answers
    <2> QED
      BY <2>1, QuietStep
  <1>8. CASE SyncPoisoned(c)
    <2>1. Alone(c) /\ Answers(c)
      BY <1>8 DEF SyncPoisoned, Syncing, Answers
    <2> QED
      BY <2>1, QuietStep
  <1>9. CASE exitWriter(c)
    <2>1. Alone(c) /\ Leaves(c)
      BY <1>9 DEF exitWriter, Leaves
    <2> QED
      BY <2>1, QuietStep
  <1>10. CASE CommitWALOnly(c)
    <2>1. Alone(c) /\ Leaves(c)
      BY <1>10 DEF CommitWALOnly, Leaves
    <2> QED
      BY <2>1, QuietStep
  <1>11. CASE PublishInstant(c)
    <2>1. Alone(c) /\ Leaves(c)
      BY <1>11 DEF PublishInstant, Leaves, Calls
    <2> QED
      BY <2>1, QuietStep
  <1> QED
    BY <1>1, <1>2, <1>3, <1>4, <1>5, <1>6, <1>7, <1>8, <1>9, <1>10, <1>11

-----------------------------------------------------------------------------
(* Appending.                                                              *)

\* The log grows in its buffer, and what was written stays.
Grows(c) ==
  /\ pc[c] = "emit"
  /\ UNCHANGED <<state, durablePos, stable, segVars, syncErr, leaderActive, asleep,
                 residue, flushed, cpVars>>
  /\ appendedPos <= appendedPos' /\ written <= written' /\ written' <= appendedPos'
  /\ \A d \in Committer \ {c} :
       /\ pc'[d] = pc[d] /\ target'[d] = target[d] /\ outcome'[d] = outcome[d]
       /\ mark'[d] = mark[d] /\ seg'[d] = seg[d]

\* The run of c is in the log, or it has failed or was empty and is not.
Appends(c) ==
  \/ /\ pc'[c] = "sync" /\ outcome'[c] = outcome[c] /\ appendedPos < appendedPos'
     /\ mark'[c] = appendedPos' /\ target'[c] = appendedPos' /\ seg'[c] = Active
  \/ /\ pc'[c] = "sync" /\ outcome'[c] = "failed"
     /\ mark'[c] = mark[c] /\ seg'[c] = seg[c]
  \/ /\ pc'[c] = "exit" /\ outcome'[c] = "empty"
     /\ mark'[c] = mark[c] /\ seg'[c] = seg[c]

LEMMA GrowStep ==
  ASSUME WInv, TypeOK', NEW c \in Committer, Grows(c), Appends(c)
  PROVE  WInv'
  <1> USE DEF WInv, TypeOK, LogType, SegType, SyncType, TxType, CpType,
              Grows, segVars, cpVars
  <1>0. state = "open" /\ ~syncErr /\ outcome[c] = "none" /\ mark[c] = 0
    BY DEF Calls
  <1>1. Calls'
    <2>1. state' = state /\ syncErr' = syncErr /\ pc[c] = "emit"
      OBVIOUS
    <2>2. pc'[c] \in {"sync", "exit"} /\ outcome'[c] \in {"none", "failed", "empty"}
      BY <1>0 DEF Appends
    <2>3. \A d \in Committer \ {c} :
            pc'[d] = pc[d] /\ outcome'[d] = outcome[d] /\ mark'[d] = mark[d]
      OBVIOUS
    <2> HIDE DEF WInv, TypeOK, LogType, SegType, SyncType, TxType, CpType, Grows
    <2>4. Calls
      BY DEF WInv
    <2> QED
      BY <1>0, <2>1, <2>2, <2>3, <2>4 DEF Calls
  <1>2. \A d \in Committer : pc'[d] \in {"fsync", "publish"} <=> pc[d] \in {"fsync", "publish"}
    BY DEF Appends
  <1>3. \A d \in Committer : pc[d] \in {"fsync", "publish"} =>
          pc'[d] = pc[d] /\ target'[d] = target[d] /\ outcome'[d] = outcome[d]
    BY DEF Appends
  <1>4. LogOrder' /\ SegOrder'
    <2>1. LogOrder'
      <3>1. /\ UNCHANGED <<state, durablePos, stable, syncErr, flushed>>
            /\ written <= written' /\ written' <= appendedPos'
            /\ {written, written', stable, flushed, durablePos, appendedPos'} \subseteq Nat
        OBVIOUS
      <3>2. LogOrder
        OBVIOUS
      <3> HIDE DEF WInv, TypeOK, LogType, SegType, SyncType, TxType, CpType, Grows
      <3>3. (\A d \in Committer : pc'[d] # "publish") => \A d \in Committer : pc[d] # "publish"
        BY <1>3
      <3> QED
        BY <3>1, <3>2, <3>3 DEF LogOrder
    <2>2. SegOrder'
      BY DEF SegOrder, Active
    <2> QED
      BY <2>1, <2>2
  <1>5. Leading'
    BY <1>2, <1>3 DEF Leading
  <1>6. Images'
    BY <1>0 DEF Images, Appends
  <1>7. Failures'
    BY <1>0 DEF Failures, InFlight, Appends
  <1>8. Runs'
    <2>1. ASSUME NEW d \in Committer, d # c
          PROVE  /\ InFlight(d)' <=> InFlight(d)
                 /\ Pending(d) => Pending(d)'
                 /\ \A r \in Nat : Kept(d, r)' <=> Kept(d, r)
      <3>1. /\ pc'[d] = pc[d] /\ target'[d] = target[d] /\ outcome'[d] = outcome[d]
            /\ mark'[d] = mark[d] /\ seg'[d] = seg[d]
        BY <2>1
      <3>2. InFlight(d)' <=> InFlight(d)
        BY <3>1 DEF InFlight
      <3>3. \A p \in Nat : Placed(d, p)' <=> Placed(d, p)
        BY <3>1 DEF Placed, Active
      <3>4. Pending(d) => Pending(d)'
        <4>1. UNCHANGED <<snapRedo, cpc, watermark, syncErr, durablePos, stable>>
          OBVIOUS
        <4>2. appendedPos <= appendedPos' /\ appendedPos \in Nat /\ appendedPos' \in Nat
              /\ target[d] \in Nat
          OBVIOUS
        <4> HIDE DEF WInv, TypeOK, LogType, SegType, SyncType, TxType, CpType, Grows
        <4> QED
          BY <3>1, <3>3, <4>1, <4>2 DEF Pending
      <3>5. \A r \in Nat : Kept(d, r)' <=> Kept(d, r)
        BY <3>1, <3>3 DEF Kept
      <3> QED
        BY <3>2, <3>4, <3>5
    <2>2. InFlight(c)' => Pending(c)'
      BY <1>0 DEF InFlight, Pending, Placed, Appends, Active, LogOrder, SegOrder, Images
    <2>3. mark'[c] <= written' \/ (InFlight(c)' /\ ~syncErr')
      BY <1>0 DEF InFlight, Appends
    <2>4. outcome'[c] \notin {"durable", "acked", "recovered"}
      BY <1>0 DEF Appends
    <2>5. \A d \in Committer \ {c} : mark[d] <= written => mark'[d] <= written'
      <3>1. /\ written <= written' /\ written \in Nat /\ written' \in Nat
            /\ \A d \in Committer \ {c} : mark'[d] = mark[d] /\ mark[d] \in Nat
        OBVIOUS
      <3> HIDE DEF WInv, TypeOK, LogType, SegType, SyncType, TxType, CpType, Grows
      <3> QED
        BY <3>1
    <2> QED
      BY <2>1, <2>2, <2>3, <2>4, <2>5 DEF Runs
  <1> QED
    BY <1>1, <1>4, <1>5, <1>6, <1>7, <1>8

LEMMA AppendCommitter ==
  ASSUME WInv, TypeOK', NEW c \in Committer, Emit(c) \/ EmitFails(c) \/ ReserveIDs(c)
  PROVE  WInv'
  <1> USE DEF WInv, TypeOK, LogType, TxType, segVars, cpVars, syncVars, Goto, Grows
  <1>0. pc[c] = "emit" => written <= appendedPos
    BY DEF Calls, LogOrder
  <1>1. CASE Emit(c)
    <2>1. PICK n \in 1 .. MaxOps : Buffer(n + 1)
      BY <1>1 DEF Emit
    <2>2. Grows(c) /\ Appends(c)
      BY <1>0, <1>1, <2>1, SizesAssumption DEF Emit, Buffer, Appends
    <2> QED
      BY <2>2, GrowStep
  <1>2. CASE EmitFails(c)
    <2>1. PICK n \in 0 .. MaxOps : Buffer(n)
      BY <1>2 DEF EmitFails
    <2>2. Grows(c) /\ Appends(c)
      BY <1>0, <1>2, <2>1, SizesAssumption DEF EmitFails, Buffer, Appends
    <2> QED
      BY <2>2, GrowStep
  <1>3. CASE ReserveIDs(c)
    <2>1. Grows(c) /\ Appends(c)
      BY <1>0, <1>3 DEF ReserveIDs, Buffer, Appends
    <2> QED
      BY <2>1, GrowStep
  <1> QED
    BY <1>1, <1>2, <1>3

-----------------------------------------------------------------------------
(* The poison.                                                             *)

\* The ranges of the positions and segments.
LEMMA Ranges ==
  ASSUME TypeOK
  PROVE  /\ appendedPos \in Nat /\ durablePos \in Nat /\ written \in Nat /\ stable \in Nat
         /\ flushed \in Nat /\ watermark \in Nat /\ snapRedo \in Nat /\ oldest \in Nat
         /\ \A c \in Committer : mark[c] \in Nat /\ target[c] \in Nat /\ seg[c] \in Nat
         /\ Active \in Nat /\ first \in 1 .. Active /\ diskFirst \in 1 .. Active
         /\ \A i \in 1 .. Active : starts[i] \in Nat
         /\ image \subseteq Committer /\ snapTxs \subseteq Committer
  BY DEF TypeOK, LogType, SegType, TxType, CpType, Active

\* The writer fails with d durable; of the log x is left, and y of it is stable.
Poisons(d, x, y) ==
  /\ state = "open" /\ ~syncErr /\ Free
  /\ UNCHANGED <<state, seg, segVars, cpVars>>
  /\ syncErr' /\ asleep' = {} /\ ~leaderActive' /\ flushed' = 0
  /\ durablePos' = d /\ written' = x /\ stable' = y /\ mark' = MarksUpTo(x)
  /\ d = durablePos \/ (d = appendedPos /\ y = d)
  /\ stable <= y /\ y <= d /\ d <= x
  /\ ~residue' => ~residue /\ x = d

\* Nobody else leads a round, and the caller has not been answered.
PoisonedBy(c, d) ==
  /\ \A e \in Committer \ {c} : pc[e] \notin {"fsync", "publish"}
  /\ \/ pc[c] \in {"append", "roll"}
     \/ pc[c] \in {"sync", "fsync"} /\ d = durablePos /\ d < target[c]
  /\ Return(c, "failed")

LEMMA PoisonStep ==
  ASSUME WInv, TypeOK', NEW c \in Committer, NEW d \in Nat, NEW x \in Nat, NEW y \in Nat,
         Poisons(d, x, y), PoisonedBy(c, d)
  PROVE  WInv'
  <1>p. TypeOK /\ LogOrder /\ SegOrder /\ Leading /\ Calls /\ Runs /\ Images /\ Failures
    BY DEF WInv
  <1>t. /\ appendedPos \in Nat /\ durablePos \in Nat /\ written \in Nat /\ stable \in Nat
        /\ watermark \in Nat /\ snapRedo \in Nat /\ oldest \in Nat
        /\ \A e \in Committer : mark[e] \in Nat /\ target[e] \in Nat /\ seg[e] \in Nat
        /\ Active \in Nat /\ first \in 1 .. Active /\ diskFirst \in 1 .. Active
        /\ \A i \in 1 .. Active : starts[i] \in Nat
        /\ image \subseteq Committer /\ snapTxs \subseteq Committer
    BY <1>p, Ranges
  <1>a. /\ durablePos' = d /\ written' = x /\ stable' = y /\ flushed' = 0
        /\ stable <= y /\ y <= d /\ d <= x
        /\ d = durablePos \/ (d = appendedPos /\ y = d)
    BY DEF Poisons
  <1>b. /\ state = "open" /\ state' = "open" /\ ~syncErr /\ syncErr'
        /\ asleep' = {} /\ ~leaderActive'
        /\ ~residue' => ~residue /\ x = d
    BY DEF Poisons
  <1>c. UNCHANGED <<starts, first, diskFirst, seg, cpc, watermark, image, snapRedo, snapTxs, oldest>>
    BY DEF Poisons, segVars, cpVars
  <1>1. /\ pc'[c] = "exit"
        /\ outcome'[c] = IF outcome[c] = "none" THEN "failed" ELSE outcome[c]
        /\ \A e \in Committer \ {c} :
             pc'[e] = pc[e] /\ target'[e] = target[e] /\ outcome'[e] = outcome[e]
    BY <1>p DEF PoisonedBy, Return, Goto, TypeOK, TxType
  <1>2. \A e \in Committer :
          /\ mark[e] \in Nat /\ mark'[e] \in Nat /\ mark'[e] <= x /\ mark'[e] <= mark[e]
          /\ mark'[e] = IF mark[e] <= x THEN mark[e] ELSE 0
    BY <1>t DEF Poisons, MarksUpTo
  <1>3. \A e \in Committer : pc[e] # "emit" /\ pc[e] # "publish" /\ pc'[e] \notin {"fsync", "publish"}
    BY <1>1 DEF Free, Poisons, PoisonedBy
  <1>4. pc[c] \in {"append", "roll", "sync", "fsync"}
    BY DEF PoisonedBy
  <1>5. Calls'
    BY <1>p, <1>t, <1>b, <1>1, <1>2, <1>3, <1>4 DEF Calls
  <1>6. durablePos <= d
    BY <1>p, <1>t, <1>a, <1>b DEF LogOrder
  <1>7. LogOrder' /\ SegOrder'
    <2>1. LogOrder'
      BY <1>p, <1>t, <1>a, <1>b DEF LogOrder
    <2>2. SegOrder'
      <3>1. Active' = Active /\ starts[Active] \in Nat /\ starts[Active] <= stable
        BY <1>p, <1>t, <1>c DEF Active, SegOrder
      <3>2. (starts[Active] <= stable)' /\ (state = "open" => starts[Active] <= durablePos)'
        BY <1>p, <1>t, <1>a, <1>c, <3>1
      <3> QED
        BY <1>p, <1>t, <1>c, <3>1, <3>2 DEF SegOrder
    <2> QED
      BY <2>1, <2>2
  <1>8. Leading'
    BY <1>p, <1>t, <1>a, <1>b, <1>3 DEF Leading
  <1>9. Images'
    BY <1>p, <1>t, <1>a, <1>b, <1>c, <1>1, <1>2, <1>4, <1>6 DEF Images, Calls
  <1>10. ASSUME NEW e \in Committer, InFlight(e)
         PROVE  /\ mark[e] = target[e]
                /\ mark'[e] = target[e] \/ (mark'[e] = 0 /\ d < target[e])
                /\ ~residue' /\ d < target[e] => mark'[e] = 0
    <2>1. mark[e] = target[e]
      BY <1>p, <1>t, <1>b, <1>10 DEF Runs, Pending
    <2> QED
      BY <1>t, <2>1, <1>a, <1>b, <1>2
  <1>11. \A e \in Committer : InFlight(e)' => InFlight(e) /\ target'[e] = target[e] /\ e # c
    BY <1>1 DEF InFlight
  <1>12. Failures'
    <2>1. \A e \in Committer \ {c} : ~residue' /\ outcome'[e] = "failed" => mark'[e] = 0
      BY <1>p, <1>t, <1>b, <1>1, <1>2 DEF Failures
    <2>2. ~residue' /\ outcome'[c] = "failed" => mark'[c] = 0
      <3>1. CASE outcome[c] = "failed"
        BY <1>p, <1>t, <1>b, <3>1, <1>2 DEF Failures
      <3>2. CASE outcome[c] = "none" /\ pc[c] \in {"append", "roll"}
        BY <1>p, <3>2, <1>2 DEF Calls
      <3>3. CASE outcome[c] = "none" /\ pc[c] \in {"sync", "fsync"}
        BY <3>3, <1>10 DEF PoisonedBy, InFlight
      <3> QED
        BY <3>1, <3>2, <3>3, <1>1, <1>4
    <2> QED
      BY <1>p, <1>t, <1>a, <2>1, <2>2, <1>10, <1>11 DEF Failures
  <1>13. Runs'
    <2> SUFFICES ASSUME NEW e \in Committer
                 PROVE  /\ InFlight(e)' => Pending(e)'
                        /\ (outcome[e] = "durable" => Kept(e, snapRedo) /\ (cpc = "write" => Kept(e, watermark)))'
                        /\ (outcome[e] = "acked" =>
                             /\ e \in snapTxs \/ Kept(e, snapRedo)
                             /\ cpc = "write" => e \in image \/ Kept(e, watermark))'
                        /\ (outcome[e] = "recovered" /\ state = "open" => mark[e] <= durablePos)'
                        /\ (mark[e] <= written \/ (InFlight(e) /\ ~syncErr))'
      BY DEF Runs
    <2>1. \A p \in Nat : Placed(e, p)' <=> Placed(e, p)
      BY <1>p, <1>t, <1>c DEF Placed, Active
    <2>2. \A r \in Nat : Kept(e, r) => Kept(e, r)'
      <3> SUFFICES ASSUME NEW r \in Nat, Kept(e, r) PROVE Kept(e, r)'
        OBVIOUS
      <3>1. mark[e] <= stable /\ mark[e] <= x /\ mark'[e] = mark[e]
        BY <1>p, <1>t, <1>a, <1>2 DEF Kept
      <3> QED
        BY <1>p, <1>t, <1>a, <2>1, <3>1 DEF Kept
    <2>3. InFlight(e)' => Pending(e)'
      <3>1. InFlight(e)' => Pending(e) /\ target'[e] = target[e]
        BY <1>p, <1>11 DEF Runs
      <3>2. InFlight(e)' => (target[e] <= d => target[e] <= y)
        <4>1. InFlight(e)' => target[e] <= appendedPos
          BY <1>p, <1>t, <1>b, <3>1 DEF Pending
        <4> QED
          BY <1>p, <1>t, <1>a, <3>1, <4>1 DEF Pending
      <3> QED
        BY <1>p, <1>t, <1>a, <1>b, <1>c, <1>10, <1>11, <2>1, <3>1, <3>2 DEF Pending
    <2>4. outcome'[e] \in {"durable", "acked", "recovered"} => outcome'[e] = outcome[e]
      BY <1>1
    <2>5. (outcome[e] = "recovered" /\ state = "open" => mark[e] <= durablePos)'
      BY <1>p, <1>t, <1>a, <1>b, <1>2, <1>6, <2>4 DEF Runs
    <2>6. mark'[e] <= written'
      BY <1>p, <1>t, <1>a, <1>2
    <2> QED
      BY <1>p, <1>t, <1>c, <2>2, <2>3, <2>4, <2>5, <2>6 DEF Runs
  <1> QED
    BY <1>5, <1>7, <1>8, <1>9, <1>12, <1>13 DEF WInv

\* What poison leaves of the log, whether or not it could truncate it.
LEMMA PoisonOutcome ==
  ASSUME WInv, NEW d \in Nat, NEW w \in Nat, NEW z \in Nat, poison(d, w, z),
         stable <= z, z <= d, d <= w
  PROVE  \E x, y \in Nat :
           /\ durablePos' = d /\ written' = x /\ stable' = y /\ mark' = MarksUpTo(x)
           /\ y = d \/ y = z
           /\ stable <= y /\ y <= d /\ d <= x
           /\ ~residue' => ~residue /\ x = d
           /\ syncErr' /\ asleep' = {} /\ seg' = seg
  <1>0. stable \in Nat /\ syncErr' /\ asleep' = {} /\ seg' = seg /\ durablePos' = d
    BY Ranges DEF WInv, poison
  <1>1. CASE written' = d /\ stable' = d /\ mark' = MarksUpTo(d) /\ UNCHANGED residue
    <2>1. WITNESS d \in Nat, d \in Nat
    <2> QED
      BY <1>0, <1>1
  <1>2. CASE /\ written' = w /\ stable' = z /\ mark' = MarksUpTo(w)
             /\ residue' = (residue \/ w > d)
    <2>1. ~residue' => ~residue /\ w = d
      <3>1. ~residue' => ~residue /\ ~(w > d)
        BY <1>2, Zenon
      <3> QED
        BY <3>1
    <2>2. WITNESS w \in Nat, z \in Nat
    <2> QED
      BY <1>0, <1>2, <2>1
  <1> QED
    BY <1>1, <1>2 DEF poison

LEMMA PoisonCommitter ==
  ASSUME WInv, TypeOK', NEW c \in Committer, RolloverFails(c) \/ LeadFails(c) \/ FsyncFails(c)
  PROVE  WInv'
  <1>p. TypeOK /\ LogOrder /\ SegOrder /\ Leading /\ Calls /\ Runs /\ Images /\ Failures
    BY DEF WInv
  <1>t. /\ appendedPos \in Nat /\ durablePos \in Nat /\ written \in Nat /\ stable \in Nat
        /\ target[c] \in Nat
    BY <1>p, Ranges
  <1>1. /\ state = "open" /\ ~syncErr /\ Free
        /\ UNCHANGED <<state, segVars, cpVars>>
        /\ ~leaderActive' /\ flushed' = 0
        /\ Return(c, "failed")
    <2>1. CASE RolloverFails(c)
      BY <1>p, <2>1 DEF RolloverFails, Rolling, Leading
    <2>2. CASE LeadFails(c)
      BY <1>p, <2>2 DEF LeadFails, MayLead, Syncing, Leading, Calls
    <2>3. CASE FsyncFails(c)
      BY <1>p, <2>3 DEF FsyncFails, Leading, Calls
    <2> QED
      BY <2>1, <2>2, <2>3
  <1>2. \A e \in Committer \ {c} : pc[e] \notin {"fsync", "publish"}
    BY <1>p DEF RolloverFails, LeadFails, FsyncFails, MayLead, Leading
  <1>3. pc[c] # "publish"
    BY DEF RolloverFails, LeadFails, FsyncFails, Rolling, MayLead, Syncing
  <1>4. stable <= durablePos /\ durablePos <= written /\ written <= appendedPos
    BY <1>p, <1>1, <1>2, <1>3 DEF LogOrder
  <1>5. PICK d, w, z \in Nat :
          /\ poison(d, w, z)
          /\ stable <= z /\ z <= d /\ d <= w
          /\ (d = durablePos /\ z = stable) \/ (d = appendedPos /\ z = d)
          /\ \/ pc[c] \in {"append", "roll"}
             \/ pc[c] \in {"sync", "fsync"} /\ d = durablePos /\ d < target[c]
    <2>1. CASE RolloverFails(c)
      <3>1. pc[c] \in {"append", "roll"}
        BY <2>1 DEF RolloverFails, Rolling
      <3>2. CASE \E w \in written .. appendedPos : poison(durablePos, w, stable)
        BY <1>t, <1>4, <3>1, <3>2
      <3>3. CASE poison(appendedPos, appendedPos, appendedPos)
        BY <1>t, <1>4, <3>1, <3>3
      <3> QED
        BY <2>1, <3>2, <3>3 DEF RolloverFails
    <2>2. CASE LeadFails(c)
      BY <1>t, <1>4, <2>2 DEF LeadFails, MayLead, Syncing
    <2>3. CASE FsyncFails(c)
      BY <1>p, <1>t, <1>4, <2>3 DEF FsyncFails, Leading
    <2> QED
      BY <2>1, <2>2, <2>3
  <1>6. PICK x, y \in Nat :
           /\ durablePos' = d /\ written' = x /\ stable' = y /\ mark' = MarksUpTo(x)
           /\ y = d \/ y = z
           /\ stable <= y /\ y <= d /\ d <= x
           /\ ~residue' => ~residue /\ x = d
           /\ syncErr' /\ asleep' = {} /\ seg' = seg
    BY <1>5, PoisonOutcome
  <1>7. Poisons(d, x, y)
    BY <1>1, <1>5, <1>6 DEF Poisons
  <1>8. PoisonedBy(c, d)
    BY <1>1, <1>2, <1>5 DEF PoisonedBy
  <1> QED
    BY <1>7, <1>8, PoisonStep

-----------------------------------------------------------------------------
(* The rounds of the group fsync, and the rollover.                        *)

LEMMA LeadStep ==
  ASSUME WInv, TypeOK', NEW c \in Committer, Lead(c)
  PROVE  WInv'
  <1>p. TypeOK /\ LogOrder /\ SegOrder /\ Leading /\ Calls /\ Runs /\ Images /\ Failures
    BY DEF WInv
  <1>t. /\ appendedPos \in Nat /\ durablePos \in Nat /\ written \in Nat /\ stable \in Nat
        /\ \A e \in Committer : mark[e] \in Nat /\ target[e] \in Nat
    BY <1>p, Ranges
  <1>a. /\ pc[c] = "sync" /\ durablePos < target[c] /\ ~syncErr /\ ~leaderActive
        /\ state = "open" /\ state' = "open" /\ ~syncErr' /\ leaderActive'
    BY <1>p DEF Lead, MayLead, Syncing, Calls
  <1>b. /\ flushed' = appendedPos /\ written' = appendedPos
        /\ UNCHANGED <<appendedPos, durablePos, stable, mark, seg, starts, first, diskFirst,
                       residue, target, outcome, cpc, watermark, image, snapRedo, snapTxs, oldest>>
    BY DEF Lead, segVars, cpVars
  <1>c. pc'[c] = "fsync" /\ \A e \in Committer \ {c} : pc'[e] = pc[e]
    BY <1>p DEF Lead, Goto, TypeOK, TxType
  <1>1. \A e \in Committer \ {c} : pc[e] \notin {"fsync", "publish"}
    BY <1>p, <1>a DEF Leading
  <1>2. stable <= durablePos /\ durablePos <= written /\ written <= appendedPos
    BY <1>p, <1>a, <1>1 DEF LogOrder
  <1>3. \A e \in Committer : (InFlight(e)' <=> InFlight(e)) /\ (Pending(e)' <=> Pending(e))
    <2>1. \A e \in Committer : InFlight(e)' <=> InFlight(e)
      BY <1>a, <1>b, <1>c DEF InFlight
    <2>2. \A e \in Committer : Pending(e)' <=> Pending(e)
      BY <1>a, <1>b DEF Pending, Placed, Active
    <2> QED
      BY <2>1, <2>2
  <1>4. LogOrder'
    BY <1>t, <1>b, <1>2 DEF LogOrder
  <1>5. SegOrder' /\ Images'
    BY <1>p, <1>a, <1>b DEF SegOrder, Images, Active
  <1>6. Leading'
    <2>1. outcome[c] = "none" => target[c] <= appendedPos
      BY <1>p, <1>a DEF Runs, InFlight, Pending
    <2> QED
      BY <2>1, <1>a, <1>b, <1>c, <1>1 DEF Leading
  <1>7. Calls' /\ Failures'
    BY <1>p, <1>a, <1>b, <1>c, <1>3 DEF Calls, Failures
  <1>8. Runs'
    <2>1. \A e \in Committer, r \in Nat : Kept(e, r)' <=> Kept(e, r)
      BY <1>b DEF Kept, Placed, Active
    <2>2. \A e \in Committer : mark[e] <= written => mark'[e] <= written'
      BY <1>t, <1>b, <1>2
    <2>3. snapRedo \in Nat /\ watermark \in Nat
      BY <1>p, Ranges
    <2> QED
      BY <1>p, <1>a, <1>b, <1>3, <2>1, <2>2, <2>3 DEF Runs
  <1> QED
    BY <1>4, <1>5, <1>6, <1>7, <1>8 DEF WInv

LEMMA FsyncStep ==
  ASSUME WInv, TypeOK', NEW c \in Committer, Fsync(c)
  PROVE  WInv'
  <1>p. TypeOK /\ LogOrder /\ SegOrder /\ Leading /\ Calls /\ Runs /\ Images /\ Failures
    BY DEF WInv
  <1>t. /\ appendedPos \in Nat /\ durablePos \in Nat /\ written \in Nat /\ stable \in Nat
        /\ flushed \in Nat /\ snapRedo \in Nat /\ watermark \in Nat
        /\ \A e \in Committer : mark[e] \in Nat /\ target[e] \in Nat
        /\ Active \in Nat /\ first \in 1 .. Active
        /\ \A i \in 1 .. Active : starts[i] \in Nat
    BY <1>p, Ranges
  <1>a. pc[c] = "fsync" /\ leaderActive /\ flushed <= written
    BY <1>p DEF Fsync, Leading, LogOrder
  <1>b. UNCHANGED <<state, appendedPos, durablePos, written, mark, seg, starts, first, diskFirst,
                    syncErr, asleep, leaderActive, residue, target, flushed, outcome,
                    cpc, watermark, image, snapRedo, snapTxs, oldest>>
    BY DEF Fsync, segVars, syncVars, cpVars
  <1>c. pc'[c] = "publish" /\ \A e \in Committer \ {c} : pc'[e] = pc[e]
    BY <1>p DEF Fsync, Goto, TypeOK, TxType
  <1>d. stable' \in Nat /\ stable <= stable' /\ flushed <= stable' /\ stable' <= written
    BY <1>p, <1>t, <1>a DEF Fsync, Larger, LogOrder
  <1>3. \A e \in Committer : (InFlight(e)' <=> InFlight(e)) /\ (Pending(e) => Pending(e)')
    <2>1. \A e \in Committer : InFlight(e)' <=> InFlight(e)
      BY <1>a, <1>b, <1>c DEF InFlight
    <2>2. \A e \in Committer, p \in Nat : Placed(e, p)' <=> Placed(e, p)
      BY <1>b DEF Placed, Active
    <2>3. \A e \in Committer : Pending(e) => Pending(e)'
      BY <1>t, <1>b, <1>d, <2>2 DEF Pending
    <2> QED
      BY <2>1, <2>3
  <1>4. LogOrder'
    BY <1>p, <1>b, <1>c, <1>d DEF LogOrder
  <1>5. SegOrder'
    <2>1. Active' = Active /\ (starts[Active] <= stable)'
      BY <1>p, <1>t, <1>b, <1>d DEF SegOrder, Active
    <2> QED
      BY <1>p, <1>b, <2>1 DEF SegOrder
  <1>6. Images'
    BY <1>p, <1>b DEF Images
  <1>7. Leading'
    <2>1. stable <= durablePos
      BY <1>p, <1>a DEF Leading, LogOrder
    <2>2. stable' <= durablePos \/ stable' <= flushed
      BY <1>t, <2>1 DEF Fsync, Larger
    <2> QED
      BY <1>p, <1>a, <1>b, <1>c, <1>d, <2>2 DEF Leading
  <1>8. Calls' /\ Failures'
    BY <1>p, <1>a, <1>b, <1>c, <1>3 DEF Calls, Failures
  <1>9. Runs'
    <2>1. \A e \in Committer, r \in Nat : Kept(e, r) => Kept(e, r)'
      BY <1>t, <1>b, <1>d DEF Kept, Placed, Active
    <2> QED
      BY <1>p, <1>t, <1>b, <1>3, <2>1 DEF Runs
  <1> QED
    BY <1>4, <1>5, <1>6, <1>7, <1>8, <1>9 DEF WInv

LEMMA PublishStep ==
  ASSUME WInv, TypeOK', NEW c \in Committer, Publish(c)
  PROVE  WInv'
  <1>p. TypeOK /\ LogOrder /\ SegOrder /\ Leading /\ Calls /\ Runs /\ Images /\ Failures
    BY DEF WInv
  <1>t. /\ appendedPos \in Nat /\ durablePos \in Nat /\ written \in Nat /\ stable \in Nat
        /\ flushed \in Nat /\ snapRedo \in Nat /\ watermark \in Nat
        /\ \A e \in Committer : mark[e] \in Nat /\ target[e] \in Nat
        /\ Active \in Nat /\ first \in 1 .. Active
        /\ \A i \in 1 .. Active : starts[i] \in Nat
        /\ image \subseteq Committer /\ snapTxs \subseteq Committer
    BY <1>p, Ranges
  <1>a. /\ pc[c] = "publish" /\ leaderActive /\ ~syncErr /\ state = "open"
        /\ flushed <= stable /\ stable <= written
        /\ durablePos < target[c]
        /\ outcome[c] = "none" => target[c] <= flushed
    BY <1>p DEF Publish, Leading, LogOrder
  <1>b. /\ asleep' = {} /\ ~leaderActive' /\ flushed' = 0
        /\ UNCHANGED <<state, appendedPos, written, stable, mark, seg, starts, first, diskFirst,
                       syncErr, residue, cpc, watermark, image, snapRedo, snapTxs, oldest>>
    BY DEF Publish, segVars, cpVars
  <1>c. /\ pc'[c] = "exit"
        /\ outcome'[c] = IF outcome[c] = "none" THEN "durable" ELSE outcome[c]
        /\ \A e \in Committer \ {c} :
             pc'[e] = pc[e] /\ target'[e] = target[e] /\ outcome'[e] = outcome[e]
    BY <1>p DEF Publish, Return, Goto, TypeOK, TxType
  <1>d. /\ durablePos' \in Nat /\ durablePos <= durablePos' /\ flushed <= durablePos'
        /\ durablePos' = durablePos \/ durablePos' = flushed
    BY <1>t DEF Publish, Larger
  <1>1. \A e \in Committer \ {c} : pc[e] \notin {"fsync", "publish"}
    BY <1>p, <1>a DEF Leading
  <1>2. \A e \in Committer : InFlight(e)' => InFlight(e) /\ target'[e] = target[e] /\ e # c
    BY <1>c DEF InFlight
  <1>3. \A e \in Committer : InFlight(e) /\ e # c => InFlight(e)'
    BY <1>c DEF InFlight
  <1>4. LogOrder'
    <2>1. stable <= durablePos'
      BY <1>p, <1>t, <1>a, <1>d DEF Leading
    <2> QED
      BY <1>p, <1>t, <1>a, <1>b, <1>d, <2>1 DEF LogOrder
  <1>5. SegOrder'
    <2>1. Active' = Active /\ (starts[Active] <= durablePos)'
      BY <1>p, <1>t, <1>a, <1>b, <1>d DEF SegOrder, Active
    <2> QED
      BY <1>p, <1>b, <2>1 DEF SegOrder
  <1>6. Leading'
    BY <1>b, <1>c, <1>1 DEF Leading
  <1>7. Calls'
    BY <1>p, <1>a, <1>b, <1>c DEF Calls
  <1>8. Images'
    BY <1>p, <1>t, <1>a, <1>b, <1>c, <1>d DEF Images, Calls
  <1>9. Failures'
    BY <1>p, <1>a, <1>b, <1>c, <1>2 DEF Failures
  <1>10. Runs'
    <2>1. \A e \in Committer, q \in Nat : Placed(e, q)' <=> Placed(e, q)
      BY <1>b DEF Placed, Active
    <2>2. \A e \in Committer, r \in Nat : Kept(e, r)' <=> Kept(e, r)
      BY <1>t, <1>b, <2>1 DEF Kept
    <2>3. \A e \in Committer : InFlight(e)' => Pending(e)'
      <3>1. \A e \in Committer : InFlight(e) => Pending(e)
        BY <1>p DEF Runs
      <3>2. ASSUME NEW e \in Committer, Pending(e), target'[e] = target[e]
            PROVE  Pending(e)'
        <4>1. target[e] <= durablePos' => target[e] <= stable
          BY <1>t, <1>a, <1>d, <3>2 DEF Pending
        <4> QED
          BY <1>t, <1>a, <1>b, <1>d, <2>1, <3>2, <4>1 DEF Pending
      <3> QED
        BY <1>2, <3>1, <3>2
    <2>4. outcome[c] = "none" => Kept(c, snapRedo) /\ (cpc = "write" => Kept(c, watermark))
      <3>1. outcome[c] = "none" => Pending(c) /\ mark[c] = target[c]
        BY <1>p, <1>a DEF Runs, InFlight, Pending
      <3> QED
        BY <1>t, <1>a, <3>1 DEF Pending, Kept
    <2>5. mark[c] <= written
      BY <1>p, <1>t, <1>a, <2>4 DEF Runs, InFlight, Kept
    <2> SUFFICES ASSUME NEW e \in Committer
                 PROVE  /\ InFlight(e)' => Pending(e)'
                        /\ (outcome[e] = "durable" => Kept(e, snapRedo) /\ (cpc = "write" => Kept(e, watermark)))'
                        /\ (outcome[e] = "acked" =>
                             /\ e \in snapTxs \/ Kept(e, snapRedo)
                             /\ cpc = "write" => e \in image \/ Kept(e, watermark))'
                        /\ (outcome[e] = "recovered" /\ state = "open" => mark[e] <= durablePos)'
                        /\ (mark[e] <= written \/ (InFlight(e) /\ ~syncErr))'
      BY DEF Runs
    <2>6. CASE e = c
      BY <1>p, <1>t, <1>a, <1>b, <1>c, <2>2, <2>3, <2>4, <2>5, <2>6 DEF Calls
    <2>7. CASE e # c
      BY <1>p, <1>t, <1>a, <1>b, <1>c, <1>d, <1>3, <2>2, <2>3, <2>7 DEF Runs
    <2> QED
      BY <2>6, <2>7
  <1> QED
    BY <1>4, <1>5, <1>6, <1>7, <1>8, <1>9, <1>10 DEF WInv

LEMMA RolloverStep ==
  ASSUME WInv, TypeOK', NEW c \in Committer, Rollover(c)
  PROVE  WInv'
  <1>p. TypeOK /\ LogOrder /\ SegOrder /\ Leading /\ Calls /\ Runs /\ Images /\ Failures
    BY DEF WInv
  <1>t. /\ appendedPos \in Nat /\ durablePos \in Nat /\ written \in Nat /\ stable \in Nat
        /\ oldest \in Nat /\ flushed \in Nat /\ snapRedo \in Nat /\ watermark \in Nat
        /\ \A e \in Committer : mark[e] \in Nat /\ target[e] \in Nat /\ seg[e] \in Nat
        /\ Active \in Nat /\ first \in 1 .. Active /\ diskFirst \in 1 .. Active
        /\ \A i \in 1 .. Active : starts[i] \in Nat
    BY <1>p, Ranges
  <1>a. /\ pc[c] \in {"append", "roll"} /\ ~leaderActive /\ ~syncErr /\ state = "open"
        /\ flushed = 0
    BY <1>p DEF Rollover, Rolling, Leading
  <1>b. /\ written' = appendedPos /\ stable' = appendedPos /\ durablePos' = appendedPos
        /\ asleep' = {}
        /\ UNCHANGED <<state, appendedPos, mark, seg, first, diskFirst, syncErr, leaderActive,
                       residue, target, flushed, outcome, cpc, watermark, image, snapRedo,
                       snapTxs, oldest>>
    BY DEF Rollover, cpVars
  <1>c. pc'[c] = "emit" /\ \A e \in Committer \ {c} : pc'[e] = pc[e]
    BY <1>p DEF Rollover, Goto, TypeOK, TxType
  <1>d. /\ Active' = Active + 1
        /\ \A i \in 1 .. Active : starts'[i] = starts[i]
        /\ starts'[Active + 1] = appendedPos
    BY <1>p, <1>t, AppendFacts DEF Rollover, Active, TypeOK, SegType
  <1>1. \A e \in Committer : pc[e] \notin {"fsync", "publish"} /\ pc'[e] \notin {"fsync", "publish"}
    BY <1>p, <1>a, <1>c DEF Leading
  <1>2. stable <= durablePos /\ durablePos <= written /\ written <= appendedPos
    BY <1>p, <1>a, <1>1 DEF LogOrder
  <1>3. \A e \in Committer : InFlight(e)' <=> InFlight(e)
    BY <1>a, <1>b, <1>c DEF InFlight
  <1>4. LogOrder'
    BY <1>t, <1>a, <1>b DEF LogOrder
  <1>5. SegOrder'
    <2>1. \A i \in 1 .. Active : starts[i] <= appendedPos
      BY <1>p, <1>t, <1>2 DEF SegOrder
    <2>2. \A i, j \in 1 .. Active' : i <= j => starts'[i] <= starts'[j]
      BY <1>p, <1>t, <1>d, <2>1 DEF SegOrder
    <2>3. starts'[first'] <= oldest' /\ starts'[diskFirst'] <= oldest'
      BY <1>p, <1>t, <1>b, <1>d DEF SegOrder
    <2> QED
      BY <1>t, <1>b, <1>d, <2>2, <2>3 DEF SegOrder
  <1>6. Leading'
    BY <1>p, <1>b, <1>1 DEF Leading
  <1>7. Calls'
    BY <1>p, <1>a, <1>b, <1>c DEF Calls
  <1>8. Images'
    BY <1>p, <1>t, <1>b, <1>2 DEF Images
  <1>9. Failures'
    BY <1>p, <1>a, <1>b, <1>3 DEF Failures
  <1>10. Runs'
    <2>1. ASSUME NEW e \in Committer, NEW q \in Nat, Placed(e, q), q <= appendedPos
          PROVE  Placed(e, q)'
      BY <1>t, <1>b, <1>d, <2>1 DEF Placed
    <2>2. \A e \in Committer, r \in Nat : Kept(e, r) => Kept(e, r)'
      BY <1>t, <1>b, <1>2, <2>1 DEF Kept
    <2>3. \A e \in Committer : InFlight(e)' => Pending(e)' /\ mark[e] <= appendedPos
      <3>1. \A e \in Committer : InFlight(e) => Pending(e)
        BY <1>p DEF Runs
      <3>2. ASSUME NEW e \in Committer, Pending(e)
            PROVE  Pending(e)' /\ mark[e] <= appendedPos
        <4>1. target[e] <= appendedPos /\ Placed(e, target[e])'
          BY <1>t, <1>a, <1>b, <2>1, <3>2 DEF Pending
        <4> QED
          BY <1>t, <1>a, <1>b, <3>2, <4>1 DEF Pending
      <3> QED
        BY <1>3, <3>1, <3>2
    <2>4. \A e \in Committer : mark'[e] <= written'
      BY <1>p, <1>t, <1>b, <1>2, <1>3, <2>3 DEF Runs
    <2>5. \A e \in Committer : mark[e] <= durablePos => mark'[e] <= durablePos'
      BY <1>t, <1>b, <1>2
    <2> QED
      BY <1>p, <1>t, <1>b, <2>2, <2>3, <2>4, <2>5 DEF Runs
  <1> QED
    BY <1>4, <1>5, <1>6, <1>7, <1>8, <1>9, <1>10 DEF WInv

-----------------------------------------------------------------------------
(* Checkpoints.                                                            *)

\* What the checkpointer leaves alone.
CommitsQuiet ==
  UNCHANGED <<state, appendedPos, durablePos, written, stable, mark, seg, starts, syncErr,
              leaderActive, asleep, residue, pc, target, flushed, outcome>>

LEMMA CommitsFrame ==
  ASSUME WInv, CommitsQuiet
  PROVE  LogOrder' /\ Leading' /\ Calls' /\ Failures'
  <1> USE DEF CommitsQuiet
  <1>1. LogOrder' /\ Leading'
    BY DEF WInv, LogOrder, Leading
  <1>2. Calls' /\ Failures'
    BY DEF WInv, Calls, Failures, InFlight
  <1> QED
    BY <1>1, <1>2

\* With the segments as they are a run keeps its place.
LEMMA PlaceFrame ==
  ASSUME CommitsQuiet, diskFirst' = diskFirst
  PROVE  /\ \A c \in Committer : InFlight(c)' <=> InFlight(c)
         /\ \A c \in Committer, q \in Nat : Placed(c, q)' <=> Placed(c, q)
         /\ \A c \in Committer, r \in Nat : Kept(c, r)' <=> Kept(c, r)
  BY DEF CommitsQuiet, InFlight, Placed, Kept, Active

\* The image is of the moment of its watermark: every commit has been answered
\* and shows, so what does not show lies above it or was lost.
LEMMA CaptureStep ==
  ASSUME WInv, TypeOK', Capture
  PROVE  WInv'
  <1>p. TypeOK /\ LogOrder /\ SegOrder /\ Leading /\ Calls /\ Runs /\ Images /\ Failures
    BY DEF WInv
  <1>t. /\ durablePos \in Nat /\ stable \in Nat /\ snapRedo \in Nat /\ watermark \in Nat
        /\ \A e \in Committer : mark[e] \in Nat
        /\ image \subseteq Committer /\ snapTxs \subseteq Committer
    BY <1>p, Ranges
  <1>q. CommitsQuiet /\ UNCHANGED <<first, diskFirst, snapRedo, snapTxs, oldest>>
    BY DEF Capture, CommitsQuiet, logVars, segVars, syncVars, txVars
  <1>a. state = "open" /\ cpc' = "write" /\ watermark' = durablePos /\ image' = Visible
    BY DEF Capture
  <1>1. \A c \in Committer : pc[c] \in {"idle", "done"}
    BY <1>p DEF Capture, Drained, Admitted, Settled, TypeOK, TxType
  <1>2. \A c \in Committer : ~InFlight(c) /\ outcome[c] # "durable"
    BY <1>p, <1>1 DEF InFlight, Calls
  <1>3. stable <= durablePos /\ snapRedo <= durablePos
    BY <1>p, <1>a, <1>1 DEF LogOrder, Images
  <1>4. \A c \in Visible : mark[c] <= durablePos
    BY <1>p, <1>t, <1>a, <1>3 DEF Visible, Runs, Images, Kept
  <1>5. SegOrder'
    BY <1>p, <1>q DEF SegOrder, CommitsQuiet, Active
  <1>6. Images'
    BY <1>p, <1>t, <1>q, <1>a, <1>3, <1>4 DEF Images, Visible, CommitsQuiet
  <1>7. Runs'
    BY <1>p, <1>t, <1>q, <1>a, <1>2, PlaceFrame DEF Runs, Visible, CommitsQuiet
  <1> QED
    BY <1>q, <1>5, <1>6, <1>7, CommitsFrame DEF WInv

LEMMA WriteSnapshotStep ==
  ASSUME WInv, TypeOK', WriteSnapshot
  PROVE  WInv'
  <1>p. TypeOK /\ LogOrder /\ SegOrder /\ Leading /\ Calls /\ Runs /\ Images /\ Failures
    BY DEF WInv
  <1>t. /\ durablePos \in Nat /\ snapRedo \in Nat /\ watermark \in Nat /\ oldest \in Nat
        /\ \A e \in Committer : target[e] \in Nat
        /\ image \subseteq Committer /\ snapTxs \subseteq Committer
    BY <1>p, Ranges
  <1>q. CommitsQuiet /\ UNCHANGED <<first, diskFirst, watermark, image, oldest>>
    BY DEF WriteSnapshot, CommitsQuiet, logVars, segVars, syncVars, txVars
  <1>a. cpc = "write" /\ cpc' = "mark" /\ snapRedo' = watermark /\ snapTxs' = image
    BY DEF WriteSnapshot
  <1>1. SegOrder'
    BY <1>p, <1>q DEF SegOrder, CommitsQuiet, Active
  <1>2. Images'
    BY <1>p, <1>t, <1>q, <1>a DEF Images, CommitsQuiet
  <1>3. \A c \in Committer : Pending(c) => Pending(c)'
    BY <1>t, <1>q, <1>a, PlaceFrame DEF Pending, CommitsQuiet
  <1>4. Runs'
    BY <1>p, <1>t, <1>q, <1>a, <1>3, PlaceFrame DEF Runs, CommitsQuiet
  <1> QED
    BY <1>q, <1>1, <1>2, <1>4, CommitsFrame DEF WInv

LEMMA MarkCheckpointStep ==
  ASSUME WInv, TypeOK', MarkCheckpoint
  PROVE  WInv'
  <1>p. TypeOK /\ LogOrder /\ SegOrder /\ Leading /\ Calls /\ Runs /\ Images /\ Failures
    BY DEF WInv
  <1>t. /\ durablePos \in Nat /\ snapRedo \in Nat /\ watermark \in Nat /\ oldest \in Nat
        /\ \A e \in Committer : target[e] \in Nat
        /\ Active \in Nat /\ first \in 1 .. Active /\ diskFirst \in 1 .. Active
        /\ \A i \in 1 .. Active : starts[i] \in Nat
    BY <1>p, Ranges
  <1>q. CommitsQuiet /\ UNCHANGED <<first, diskFirst, watermark, image, snapRedo, snapTxs>>
    BY DEF MarkCheckpoint, CommitsQuiet, logVars, segVars, syncVars, txVars
  <1>a. cpc = "mark" /\ cpc' \in {"reclaim", "idle"} /\ snapRedo = watermark
    BY <1>p DEF MarkCheckpoint, Images
  <1>1. PICK i \in first .. Active :
          segmentStartAt(i, watermark) /\ oldest' = Larger(oldest, starts[i])
    BY DEF MarkCheckpoint
  <1>2. oldest' \in Nat /\ oldest <= oldest' /\ oldest' <= snapRedo
    <2>1. starts[i] \in Nat /\ starts[i] <= snapRedo
      BY <1>p, <1>t, <1>a, <1>1 DEF segmentStartAt, SegOrder, Images
    <2> QED
      BY <1>p, <1>t, <1>1, <2>1 DEF Larger, Images
  <1>3. SegOrder'
    <2>1. (starts[first] <= oldest)' /\ (starts[diskFirst] <= oldest)'
      BY <1>p, <1>t, <1>q, <1>2 DEF SegOrder, CommitsQuiet
    <2> QED
      BY <1>p, <1>q, <2>1 DEF SegOrder, CommitsQuiet, Active
  <1>4. Images'
    BY <1>p, <1>q, <1>a, <1>2 DEF Images, CommitsQuiet
  <1>5. \A c \in Committer : Pending(c) => Pending(c)'
    BY <1>t, <1>q, <1>a, PlaceFrame DEF Pending, CommitsQuiet
  <1>6. Runs'
    BY <1>p, <1>t, <1>q, <1>a, <1>5, PlaceFrame DEF Runs, CommitsQuiet
  <1> QED
    BY <1>q, <1>3, <1>4, <1>6, CommitsFrame DEF WInv

\* The unlinked segment ends at or below the snapshot's redo position, and every
\* run that is still needed ends above it.
LEMMA UnlinkStep ==
  ASSUME WInv, TypeOK', Unlink
  PROVE  WInv'
  <1>p. TypeOK /\ LogOrder /\ SegOrder /\ Leading /\ Calls /\ Runs /\ Images /\ Failures
    BY DEF WInv
  <1>t. /\ snapRedo \in Nat /\ watermark \in Nat /\ oldest \in Nat
        /\ \A e \in Committer : target[e] \in Nat /\ mark[e] \in Nat /\ seg[e] \in Nat
        /\ Active \in Nat /\ diskFirst \in 1 .. Active
        /\ \A i \in 1 .. Active : starts[i] \in Nat
    BY <1>p, Ranges
  <1>q. CommitsQuiet /\ UNCHANGED <<first, cpc, watermark, image, snapRedo, snapTxs, oldest>>
    BY DEF Unlink, CommitsQuiet, logVars, syncVars, txVars, cpVars
  <1>a. /\ cpc = "reclaim" /\ diskFirst < Active /\ diskFirst' = diskFirst + 1
        /\ starts[diskFirst + 1] <= oldest /\ oldest <= snapRedo
    BY <1>p DEF Unlink, Victim, Images
  <1>1. SegOrder'
    BY <1>p, <1>q, <1>a DEF SegOrder, CommitsQuiet, Active
  <1>2. Images'
    BY <1>p, <1>q DEF Images, CommitsQuiet
  <1>3. Active' = Active /\ \A c \in Committer : InFlight(c)' <=> InFlight(c)
    BY <1>q DEF CommitsQuiet, Active, InFlight
  <1>4. ASSUME NEW c \in Committer, NEW q \in Nat, snapRedo < q, Placed(c, q)
        PROVE  Placed(c, q)'
    <2>1. seg[c] # diskFirst
      BY <1>t, <1>a, <1>4 DEF Placed
    <2>2. seg[c] \in diskFirst + 1 .. Active
      BY <1>t, <1>4, <2>1 DEF Placed
    <2> QED
      BY <1>q, <1>a, <1>3, <1>4, <2>2 DEF Placed, CommitsQuiet
  <1>5. \A c \in Committer : Pending(c) => Pending(c)'
    BY <1>t, <1>q, <1>a, <1>4 DEF Pending, CommitsQuiet
  <1>6. \A c \in Committer : Kept(c, snapRedo) => Kept(c, snapRedo)'
    BY <1>t, <1>q, <1>4 DEF Kept, CommitsQuiet
  <1>7. Runs'
    BY <1>p, <1>q, <1>a, <1>3, <1>5, <1>6 DEF Runs, CommitsQuiet
  <1> QED
    BY <1>q, <1>1, <1>2, <1>7, CommitsFrame DEF WInv

LEMMA EndCheckpointStep ==
  ASSUME WInv, TypeOK', ReclaimSegments \/ CheckpointStops
  PROVE  WInv'
  <1>p. TypeOK /\ LogOrder /\ SegOrder /\ Leading /\ Calls /\ Runs /\ Images /\ Failures
    BY DEF WInv
  <1>t. /\ snapRedo \in Nat /\ watermark \in Nat /\ \A e \in Committer : target[e] \in Nat
    BY <1>p, Ranges
  <1>q. /\ CommitsQuiet /\ UNCHANGED <<diskFirst, watermark, image, snapRedo, snapTxs, oldest>>
        /\ cpc' = "idle" /\ first' \in {first, diskFirst}
    BY DEF ReclaimSegments, CheckpointStops, CommitsQuiet, logVars, segVars, syncVars, txVars
  <1>1. SegOrder'
    BY <1>p, <1>q DEF SegOrder, CommitsQuiet, Active
  <1>2. Images'
    BY <1>p, <1>q DEF Images, CommitsQuiet
  <1>3. \A c \in Committer : Pending(c) => Pending(c)'
    BY <1>t, <1>q, PlaceFrame DEF Pending, CommitsQuiet
  <1>4. Runs'
    BY <1>p, <1>t, <1>q, <1>3, PlaceFrame DEF Runs, CommitsQuiet
  <1> QED
    BY <1>q, <1>1, <1>2, <1>4, CommitsFrame DEF WInv

-----------------------------------------------------------------------------
(* Shutdown, crash and recovery.                                           *)

\* The store is closed or gone; the log may have lost what was not stable.
Ends ==
  /\ state' # "open" /\ cpc' = "idle" /\ ~leaderActive' /\ asleep' = {} /\ flushed' = 0
  /\ UNCHANGED <<seg, starts, first, diskFirst, residue, image, snapRedo, snapTxs, oldest>>
  /\ stable <= stable' /\ stable' <= written'
  /\ \A c \in Committer :
       /\ mark'[c] <= mark[c] /\ mark'[c] <= written'
       /\ mark[c] <= stable => mark'[c] = mark[c]

\* A commit that has not shown is lost, unless the process ends in good order.
Cuts ==
  \A c \in Committer :
    \/ pc'[c] = pc[c] /\ outcome'[c] = outcome[c] /\ pc[c] \in {"idle", "settle", "done"}
    \/ /\ pc'[c] = "done" /\ pc[c] # "idle"
       /\ outcome'[c] = IF outcome[c] \in {"none", "durable"} THEN "lost" ELSE outcome[c]

LEMMA EndStep ==
  ASSUME WInv, TypeOK', Ends, Cuts
  PROVE  WInv'
  <1>p. TypeOK /\ LogOrder /\ SegOrder /\ Leading /\ Calls /\ Runs /\ Images /\ Failures
    BY DEF WInv
  <1>t. /\ stable \in Nat /\ stable' \in Nat /\ written' \in Nat /\ snapRedo \in Nat
        /\ \A c \in Committer : mark[c] \in Nat /\ mark'[c] \in Nat
        /\ Active \in Nat /\ first \in 1 .. Active /\ diskFirst \in 1 .. Active
        /\ \A i \in 1 .. Active : starts[i] \in Nat
        /\ image \subseteq Committer /\ snapTxs \subseteq Committer
    BY <1>p, Ranges DEF TypeOK, LogType
  <1>1. \A c \in Committer :
          /\ pc'[c] \in {"idle", "settle", "done"}
          /\ outcome'[c] # outcome[c] => outcome'[c] = "lost" /\ outcome[c] \in {"none", "durable"}
    BY DEF Cuts
  <1>2. Calls'
    BY <1>p, <1>t DEF Calls, Cuts, Ends
  <1>3. LogOrder' /\ Leading'
    BY <1>t, <1>1 DEF LogOrder, Leading, Ends
  <1>4. SegOrder'
    <2>1. Active' = Active /\ (starts[Active] <= stable)'
      <3>1. Active' = Active /\ starts' = starts /\ stable <= stable'
        BY DEF Active, Ends
      <3>2. starts[Active] <= stable /\ starts[Active] \in Nat
        BY <1>p, <1>t DEF SegOrder
      <3> QED
        BY <1>t, <3>1, <3>2
    <2> QED
      BY <1>p, <2>1 DEF SegOrder, Ends
  <1>5. Images'
    BY <1>p, <1>t, <1>1 DEF Images, Ends
  <1>6. \A c \in Committer : ~InFlight(c)'
    BY <1>1 DEF InFlight
  <1>7. Failures'
    BY <1>p, <1>t, <1>1, <1>6 DEF Failures, Ends
  <1>8. \A c \in Committer, r \in Nat : Kept(c, r) => Kept(c, r)'
    BY <1>t DEF Kept, Placed, Active, Ends
  <1>9. Runs'
    BY <1>p, <1>t, <1>1, <1>6, <1>8 DEF Runs, Ends
  <1> QED
    BY <1>2, <1>3, <1>4, <1>5, <1>7, <1>9 DEF WInv

LEMMA CloseStep ==
  ASSUME WInv, TypeOK', Close
  PROVE  WInv'
  <1>p. TypeOK /\ LogOrder /\ SegOrder /\ Leading /\ Calls /\ Runs /\ Images /\ Failures
    BY DEF WInv
  <1>t. /\ appendedPos \in Nat /\ durablePos \in Nat /\ written \in Nat /\ stable \in Nat
        /\ \A c \in Committer : mark[c] \in Nat
    BY <1>p, Ranges
  <1>1. \A c \in Committer : pc[c] \in {"idle", "settle", "done"}
    BY <1>p DEF Close, Drained, Admitted, TypeOK, TxType
  <1>2. ~leaderActive /\ asleep = {} /\ flushed = 0
    BY <1>p, <1>1 DEF Leading
  <1>3. /\ stable <= written /\ stable <= durablePos
        /\ ~syncErr => written <= appendedPos
        /\ \A c \in Committer : mark[c] <= written
    BY <1>p, <1>1 DEF Close, LogOrder, Runs, InFlight
  <1>4. /\ stable <= stable' /\ stable' <= written'
        /\ \A c \in Committer :
             /\ mark'[c] <= mark[c] /\ mark'[c] <= written'
             /\ mark[c] <= stable => mark'[c] = mark[c]
    BY <1>t, <1>3 DEF Close, MarksUpTo
  <1>5. Ends
    BY <1>2, <1>4 DEF Close, Ends, segVars, syncVars, txVars, cpVars
  <1>6. Cuts
    BY <1>1 DEF Close, Cuts, txVars
  <1> QED
    BY <1>5, <1>6, EndStep

LEMMA CrashStep ==
  ASSUME WInv, TypeOK', Kill \/ PowerLoss
  PROVE  WInv'
  <1>p. TypeOK /\ LogOrder /\ SegOrder /\ Leading /\ Calls /\ Runs /\ Images /\ Failures
    BY DEF WInv
  <1>t. /\ written \in Nat /\ stable \in Nat /\ stable <= written
        /\ \A c \in Committer : mark[c] \in Nat
    BY <1>p, Ranges DEF LogOrder
  <1>1. PICK n \in stable .. written : Down(n) /\ stable' \in {stable, n}
    BY <1>t DEF Kill, PowerLoss
  <1>2. Ends
    BY <1>t, <1>1 DEF Down, Ends, MarksUpTo, segVars
  <1>3. Cuts
    BY <1>1 DEF Down, Cuts
  <1> QED
    BY <1>2, <1>3, EndStep

\* A run that is needed lies in a segment with a frame, and neither the segments
\* that recovery leaves out in front nor those it drops behind hold it.
LEMMA OpenStep ==
  ASSUME WInv, TypeOK', Open
  PROVE  WInv'
  <1>p. TypeOK /\ LogOrder /\ SegOrder /\ Leading /\ Calls /\ Runs /\ Images /\ Failures
    BY DEF WInv
  <1>t. /\ written \in Nat /\ stable \in Nat /\ stable <= written
        /\ oldest \in Nat /\ snapRedo \in Nat /\ watermark \in Nat
        /\ \A c \in Committer : mark[c] \in Nat /\ seg[c] \in Nat
        /\ Active \in Nat /\ first \in 1 .. Active /\ diskFirst \in 1 .. Active
        /\ \A i \in 1 .. Active : starts[i] \in Nat
        /\ image \subseteq Committer /\ snapTxs \subseteq Committer
    BY <1>p, Ranges DEF LogOrder
  <1>1. /\ state \in {"down", "closed"} /\ state' = "open"
        /\ \A c \in Committer : pc[c] \in {"idle", "done"}
    BY DEF Open, Reopening
  <1>2. ~leaderActive /\ asleep = {} /\ flushed = 0 /\ cpc = "idle"
    BY <1>p, <1>1 DEF Leading, Images
  <1>3. /\ appendedPos' = written /\ durablePos' = written /\ ~syncErr'
        /\ stable' \in {stable, written}
        /\ UNCHANGED <<written, mark, seg, leaderActive, asleep, residue, pc, target, flushed,
                       cpc, watermark, image, snapRedo, snapTxs, oldest>>
    BY DEF Open, cpVars
  <1>4. \A c \in Committer :
          outcome'[c] = IF c \in Recovered(written) /\ outcome[c] # "acked"
                        THEN "recovered" ELSE outcome[c]
    BY DEF Open
  <1>5. PICK s, a \in diskFirst .. Active :
          /\ StartSegment(s) /\ ActiveSegment(a, s) /\ Readable(s, a)
          /\ starts' = SubSeq(starts, 1, a) /\ first' = s /\ diskFirst' = s
    BY DEF Open
  <1>6. s <= a
    BY <1>p, <1>5, OpenSegments
  <1>7. Active' = a /\ \A i \in 1 .. a : starts'[i] = starts[i]
    <2>1. starts \in Seq(Nat) /\ a \in 0 .. Len(starts)
      BY <1>p, <1>5 DEF TypeOK, SegType, Active
    <2> QED
      BY <1>5, <2>1, PrefixFacts DEF Active
  <1>8. oldest <= snapRedo /\ snapRedo <= written
    BY <1>5 DEF Readable
  <1>9. starts[s] <= oldest
    BY <1>p, <1>5 DEF StartSegment, SegOrder
  <1>10. \A c \in Committer : ~InFlight(c) /\ ~InFlight(c)' /\ outcome[c] # "durable"
    BY <1>p, <1>1, <1>3 DEF InFlight, Calls
  <1>11. LogOrder' /\ Leading'
    BY <1>p, <1>t, <1>1, <1>2, <1>3 DEF LogOrder, Leading
  <1>12. SegOrder'
    <2>1. \A i, j \in 1 .. Active' : i <= j => starts'[i] <= starts'[j]
      BY <1>p, <1>t, <1>5, <1>7 DEF SegOrder
    <2>2. starts'[a] <= stable'
      <3>1. starts[a] <= starts[Active] /\ starts[Active] <= stable
        BY <1>p, <1>t, <1>5 DEF SegOrder
      <3> QED
        BY <1>t, <1>3, <1>5, <1>7, <3>1
    <2>3. starts'[a] <= durablePos'
      BY <1>t, <1>3, <1>5, <1>7, <2>2
    <2>4. starts'[s] <= oldest'
      BY <1>t, <1>3, <1>5, <1>6, <1>7, <1>9
    <2> QED
      BY <1>5, <1>7, <2>1, <2>2, <2>3, <2>4 DEF SegOrder
  <1>13. \A c \in Committer : pc[c] = "idle" => outcome'[c] = "none"
    BY <1>p, <1>t, <1>4 DEF Calls, Images, Recovered
  <1>14. Calls'
    BY <1>p, <1>1, <1>3, <1>4, <1>10, <1>13 DEF Calls
  <1>15. Images'
    BY <1>p, <1>t, <1>2, <1>3, <1>4, <1>8 DEF Images
  <1>16. Failures'
    BY <1>p, <1>3, <1>4, <1>10 DEF Failures
  <1>17. ASSUME NEW c \in Committer, Kept(c, snapRedo)
         PROVE  Kept(c, snapRedo)'
    <2>1. /\ seg[c] \in diskFirst .. Active /\ starts[seg[c]] < mark[c]
          /\ seg[c] < Active => mark[c] <= starts[seg[c] + 1]
          /\ snapRedo < mark[c] /\ mark[c] <= stable
      BY <1>17 DEF Kept, Placed
    <2>2. seg[c] \in Framed
      BY <1>t, <2>1 DEF Framed, End
    <2>3. seg[c] <= a
      BY <1>5, <2>2 DEF ActiveSegment
    <2>4. s <= seg[c]
      <3> SUFFICES ASSUME seg[c] < s PROVE FALSE
        BY <1>t, <1>5, <2>1
      <3>1. mark[c] <= starts[seg[c] + 1]
        BY <1>t, <1>5, <2>1
      <3>2. starts[seg[c] + 1] <= starts[s]
        BY <1>p, <1>t, <1>5, <2>1 DEF SegOrder
      <3>3. starts[s] <= oldest /\ oldest <= snapRedo /\ snapRedo < mark[c]
        BY <1>8, <1>9, <2>1
      <3>4. /\ starts[s] \in Nat /\ starts[seg[c] + 1] \in Nat
            /\ oldest \in Nat /\ snapRedo \in Nat /\ mark[c] \in Nat
        BY <1>t, <1>5, <2>1
      <3> QED
        BY <3>1, <3>2, <3>3, <3>4
    <2>5. Placed(c, mark[c])'
      <3>1. seg'[c] = seg[c] /\ mark'[c] = mark[c] /\ seg[c] \in s .. a
        BY <1>t, <1>3, <1>5, <2>1, <2>3, <2>4
      <3>2. starts'[seg[c]] < mark[c]
        BY <1>t, <1>5, <1>7, <2>1, <3>1
      <3>3. seg[c] < a => mark[c] <= starts'[seg[c] + 1]
        BY <1>t, <1>5, <1>7, <2>1, <3>1
      <3> QED
        BY <1>5, <1>7, <3>1, <3>2, <3>3 DEF Placed
    <2> QED
      BY <1>t, <1>3, <2>1, <2>5 DEF Kept
  <1>18. Runs'
    <2>1. \A c \in Committer : outcome'[c] = "acked" => outcome[c] = "acked"
      BY <1>4
    <2>2. \A c \in Committer : mark'[c] <= written' /\ mark'[c] <= durablePos'
      BY <1>p, <1>3, <1>10 DEF Runs
    <2>3. \A c \in Committer : outcome'[c] # "durable"
      BY <1>4, <1>10
    <2> QED
      BY <1>p, <1>2, <1>3, <1>10, <1>17, <2>1, <2>2, <2>3 DEF Runs
  <1> QED
    BY <1>11, <1>12, <1>14, <1>15, <1>16, <1>18 DEF WInv

LEMMA OpenRefusedStep ==
  ASSUME WInv, TypeOK', OpenRefused
  PROVE  WInv'
  <1>p. TypeOK /\ LogOrder /\ SegOrder /\ Leading /\ Calls /\ Runs /\ Images /\ Failures
    BY DEF WInv
  <1>1. /\ state' = "refused" /\ state \in {"down", "closed"}
        /\ \A c \in Committer : pc[c] \in {"idle", "done"}
        /\ UNCHANGED <<logVars, segVars, syncVars, txVars, cpVars>>
    BY DEF OpenRefused, Reopening
  <1> USE DEF logVars, segVars, syncVars, txVars, cpVars
  <1>2. LogOrder' /\ SegOrder'
    BY <1>p, <1>1 DEF LogOrder, SegOrder, Active
  <1>3. Leading' /\ Calls'
    BY <1>p, <1>1 DEF Leading, Calls
  <1>4. Images' /\ Failures'
    BY <1>p, <1>1 DEF Images, Failures, InFlight
  <1>5. Runs'
    BY <1>p, <1>1 DEF Runs, InFlight, Kept, Placed, Active
  <1> QED
    BY <1>2, <1>3, <1>4, <1>5 DEF WInv

-----------------------------------------------------------------------------
(* Theorems.                                                               *)

LEMMA StutterStep ==
  ASSUME WInv, TypeOK', UNCHANGED vars
  PROVE  WInv'
  <1> USE DEF vars, logVars, segVars, syncVars, txVars, cpVars
  <1>1. LogOrder' /\ SegOrder'
    BY DEF WInv, LogOrder, SegOrder, Active
  <1>2. Leading' /\ Calls'
    BY DEF WInv, Leading, Calls
  <1>3. Images' /\ Failures'
    BY DEF WInv, Images, Failures, InFlight
  <1>4. Runs'
    BY DEF WInv, Runs, InFlight, Pending, Kept, Placed, Active
  <1> QED
    BY <1>1, <1>2, <1>3, <1>4 DEF WInv

LEMMA NextStep ==
  ASSUME WInv, [Next]_vars
  PROVE  WInv'
  <1>0. TypeOK'
    BY TypeStep DEF WInv
  <1>1. CASE UNCHANGED vars
    BY <1>0, <1>1, StutterStep
  <1>2. ASSUME NEW c \in Committer, enterWriter(c) \/ Appending(c) \/ Committing(c)
        PROVE  WInv'
    <2>1. \/ \/ enterWriter(c) \/ Start(c) \/ RolloverWait(c) \/ Follow(c) \/ SyncBuffered(c)
             \/ Refuse(c) \/ Coalesce(c) \/ SyncPoisoned(c)
             \/ exitWriter(c) \/ CommitWALOnly(c) \/ PublishInstant(c)
          \/ Emit(c) \/ EmitFails(c) \/ ReserveIDs(c)
          \/ RolloverFails(c) \/ LeadFails(c) \/ FsyncFails(c)
          \/ Lead(c) \/ Fsync(c) \/ Publish(c) \/ Rollover(c)
      BY <1>2 DEF Appending, Committing
    <2> QED
      BY <1>0, <2>1, QuietCommitter, AppendCommitter, PoisonCommitter, LeadStep, FsyncStep,
         PublishStep, RolloverStep
  <1>3. CASE Checkpointing
    BY <1>0, <1>3, CaptureStep, WriteSnapshotStep, MarkCheckpointStep, UnlinkStep,
       EndCheckpointStep DEF Checkpointing
  <1>4. CASE Restarting
    BY <1>0, <1>4, CloseStep, CrashStep, OpenStep, OpenRefusedStep DEF Restarting
  <1> QED
    BY <1>1, <1>2, <1>3, <1>4 DEF Next, Finished

\* The inductive invariant holds in every reachable state, whatever the order of
\* appends, rounds, rollovers, failures, checkpoints and crashes.
THEOREM Invariance == Spec => []WInv
  <1>1. Init => WInv
    BY InitWInv
  <1>2. WInv /\ [Next]_vars => WInv'
    BY NextStep
  <1> QED
    BY <1>1, <1>2, PTL DEF Spec

\* The state of the log, its callers and the checkpointer stays well formed; in
\* particular the retained segments are segments the log has.
THEOREM TypeInvariance == Spec => []TypeOK
  <1>1. WInv => TypeOK
    BY DEF WInv
  <1> QED
    BY <1>1, Invariance, PTL

\* An acknowledged commit survives every crash: the snapshot holds it, or its run
\* is on stable storage, above the redo position and in a segment on disk.
THEOREM Durability == Spec => []AckedDurable
  <1>1. WInv => AckedDurable
    <2> SUFFICES ASSUME WInv, NEW n \in stable .. written, NEW c \in Committer,
                        outcome[c] = "acked"
                 PROVE  c \in Recovered(n)
      BY DEF AckedDurable
    <2>1. c \in snapTxs \/ Kept(c, snapRedo)
      BY DEF WInv, Runs
    <2>2. stable \in Nat /\ written \in Nat /\ mark[c] \in Nat /\ seg[c] \in Nat
          /\ diskFirst \in Nat
      BY Ranges DEF WInv
    <2> QED
      BY <2>1, <2>2 DEF Recovered, Kept, Placed
  <1> QED
    BY <1>1, Invariance, PTL

\* A commit that was reported as failed comes back neither from the log nor from
\* a snapshot, as long as every poison could discard the un-synced suffix.
THEOREM NoPhantom == Spec => []FailedLost
  <1>1. WInv => FailedLost
    BY DEF WInv, FailedLost, Failures, Images
  <1> QED
    BY <1>1, Invariance, PTL

\* Every segment but the active one is on stable storage to its last byte.
THEOREM NonTail == Spec => []NonTailDurable
  <1>1. WInv => NonTailDurable
    BY DEF WInv, NonTailDurable, SegOrder
  <1> QED
    BY <1>1, Invariance, PTL

\* Nobody sleeps on groupCond without a leader that will broadcast.
THEOREM SleepersLed == Spec => []SleepersHaveLeader
  <1>1. WInv => SleepersHaveLeader
    BY DEF WInv, SleepersHaveLeader, Leading
  <1> QED
    BY <1>1, Invariance, PTL

\* No run of the published snapshot is replayed on top of it.
THEOREM OnceReplayed == Spec => []ReplayedOnce
  <1>1. WInv => ReplayedOnce
    BY DEF WInv, ReplayedOnce, Images
  <1> QED
    BY <1>1, Invariance, PTL
=============================================================================
