--------------------------- MODULE WriteAheadLog ---------------------------
(***************************************************************************)
(* The write-ahead log (store/wal): transactions append their runs and     *)
(* share group fsyncs, the log rolls over from segment to segment, a       *)
(* checkpoint publishes a snapshot and unlinks the segments it covers, the *)
(* process is killed or the machine loses power, and recovery reads back   *)
(* what is left (store/txn, store/checkpoint, store/recovery where they    *)
(* meet the log).                                                          *)
(*                                                                         *)
(* A position counts frames.  A run is some operation frames and a commit  *)
(* marker; what matters of it is where its marker ends, so the contents of *)
(* the log are the function mark.  A section under Writer.mu is one step,  *)
(* except that AppendRun rolls over and then emits: between the two, at    *)
(* "emit", the mutex is held.                                              *)
(***************************************************************************)
EXTENDS Integers, Sequences, FiniteSets

CONSTANTS
  Committer,  \* the transactions
  MaxOps,     \* bound on the operation frames of a run
  SegSize,    \* the size, in frames, at which a segment is rolled over
  Crashes     \* which of "kill" and "power" may happen

ASSUME CrashesAssumption == Crashes \subseteq {"kill", "power"}
ASSUME SizesAssumption ==
  MaxOps \in Nat \ {0} /\ SegSize \in Nat \ {0}

VARIABLES
  state,         \* the store: "open", "closed", "down" or "refused"
  appendedPos,   \* Writer.appendedPos
  durablePos,    \* Writer.durablePos
  written,       \* end of what the operating system holds; the rest is in bw
  stable,        \* end of what a power loss leaves for certain
  starts,        \* Writer.segs: start of every segment, the active one last
  first,         \* the oldest segment Writer.segs retains
  diskFirst,     \* the oldest segment on disk
  syncErr,       \* Writer.syncErr is set
  bufErr,        \* the sticky error of Writer.bw
  leaderActive,  \* Writer.leaderActive
  asleep,        \* who waits on Writer.groupCond
  residue,       \* a poison could not discard the un-synced suffix
  mark,          \* where the marker of each run ends, 0 while it is nowhere
  seg,           \* the segment each run was appended to
  pc,            \* where each committer is
  target,        \* the watermark AppendRun returned
  flushed,       \* leadGroupSyncLocked's flushed, while there is a leader
  gate,          \* the minted sequences appliedSeq has not reached, by holder
  outcome,       \* what became of each commit
  cpc,           \* where the checkpointer is
  watermark,     \* its watermark W
  image,         \* the transactions in the image it captured
  snapRedo,      \* redo position of the published snapshot
  snapTxs,       \* the transactions in it
  oldest         \* Control.OldestRetainedPos

logVars == <<appendedPos, durablePos, written, stable, mark, seg>>
segVars == <<starts, first, diskFirst>>
syncVars == <<syncErr, bufErr, leaderActive, asleep, residue>>
txVars == <<pc, target, flushed, gate, outcome>>
cpVars == <<cpc, watermark, image, snapRedo, snapTxs, oldest>>
vars == <<state, logVars, segVars, syncVars, txVars, cpVars>>

Outcomes == {"none", "failed", "empty", "durable", "acked", "lost", "recovered"}

\* Registered by enterWriter and not yet released by exitWriter.
Admitted(c) == pc[c] \in {"append", "roll", "emit", "sync", "fsync", "publish", "exit"}

\* Writer.mu can be taken.
Free == \A c \in Committer : pc[c] # "emit"

Active == Len(starts)

Larger(m, n) == IF m > n THEN m ELSE n

Goto(c, label) == pc' = [pc EXCEPT ![c] = label]

Init ==
  /\ state = "open"
  /\ appendedPos = 0 /\ durablePos = 0 /\ written = 0 /\ stable = 0
  /\ starts = <<0>> /\ first = 1 /\ diskFirst = 1
  /\ syncErr = FALSE /\ bufErr = FALSE /\ leaderActive = FALSE
  /\ asleep = {} /\ residue = FALSE
  /\ mark = [c \in Committer |-> 0]
  /\ seg = [c \in Committer |-> 0]
  /\ pc = [c \in Committer |-> "idle"]
  /\ target = [c \in Committer |-> 0]
  /\ flushed = 0
  /\ gate = <<>>
  /\ outcome = [c \in Committer |-> "none"]
  /\ cpc = "idle" /\ watermark = 0 /\ image = {}
  /\ snapRedo = 0 /\ snapTxs = {} /\ oldest = 0

-----------------------------------------------------------------------------
(* Poison.                                                                 *)

\* The runs that are still in the log once it ends at n.
MarksUpTo(n) == [c \in Committer |-> IF mark[c] <= n THEN mark[c] ELSE 0]

\* The writer fails for good with d durable, w written and s on stable storage.
\* Truncating the active segment and the fsync after it are best effort: when
\* they succeed the un-synced suffix is gone, otherwise what was written stays.
poison(d, w, s) ==
  /\ syncErr' = TRUE /\ bufErr' = FALSE /\ asleep' = {}
  /\ durablePos' = d /\ appendedPos' = d
  /\ \/ /\ written' = d /\ stable' = d
        /\ mark' = MarksUpTo(d)
        /\ UNCHANGED residue
     \/ /\ written' = w /\ stable' = s
        /\ mark' = MarksUpTo(w)
        /\ residue' = (residue \/ w > d)
  /\ UNCHANGED seg

\* The caller of SyncGroup or AppendRun has its answer.
Return(c, result) ==
  /\ Goto(c, "exit")
  /\ target' = [target EXCEPT ![c] = 0]
  /\ outcome' = [outcome EXCEPT ![c] = IF @ = "none" THEN result ELSE @]

-----------------------------------------------------------------------------
(* AppendRun.                                                              *)

enterWriter(c) ==
  /\ pc[c] = "idle"
  /\ state \in {"open", "closed"}
  /\ Goto(c, "append")
  /\ UNCHANGED <<state, logVars, segVars, syncVars, target, flushed, gate,
                 outcome, cpVars>>

\* A closed or poisoned writer takes no frame.
Refuse(c) ==
  /\ pc[c] \in {"append", "roll"} /\ c \notin asleep /\ Free
  /\ state = "closed" \/ syncErr
  /\ Return(c, "failed")
  /\ UNCHANGED <<state, logVars, segVars, syncVars, flushed, gate, cpVars>>

\* An empty commit makes durable what the others have buffered (SyncBuffered).
SyncBuffered(c) ==
  /\ pc[c] = "append" /\ state = "open" /\ Free
  /\ Goto(c, "sync")
  /\ target' = [target EXCEPT ![c] = appendedPos]
  /\ outcome' = [outcome EXCEPT ![c] = "empty"]
  /\ UNCHANGED <<state, logVars, segVars, syncVars, flushed, gate, cpVars>>

Full == appendedPos - starts[Active] >= SegSize

\* AppendRun takes the mutex and needs no new segment.
Start(c) ==
  /\ pc[c] = "append" /\ state = "open" /\ Free /\ ~syncErr
  /\ ~Full
  /\ Goto(c, "emit")
  /\ UNCHANGED <<state, logVars, segVars, syncVars, target, flushed, gate,
                 outcome, cpVars>>

\* In rolloverLocked: the segment was full when the caller looked.
Rolling(c) ==
  /\ \/ pc[c] = "append" /\ Full
     \/ pc[c] = "roll" /\ c \notin asleep
  /\ state = "open" /\ Free /\ ~syncErr

\* A leader fsyncs the active segment with the mutex released: wait it out.
RolloverWait(c) ==
  /\ Rolling(c)
  /\ leaderActive
  /\ Goto(c, "roll")
  /\ asleep' = asleep \cup {c}
  /\ UNCHANGED <<state, logVars, segVars, syncErr, bufErr, leaderActive,
                 residue, target, flushed, gate, outcome, cpVars>>

\* Mutant: the old segment is left to the next group fsync.
RolloverUnsynced(c) ==
  /\ Rolling(c)
  /\ ~leaderActive /\ ~bufErr
  /\ written' = appendedPos
  /\ starts' = Append(starts, appendedPos)
  /\ asleep' = {}
  /\ Goto(c, "emit")
  /\ UNCHANGED <<state, appendedPos, durablePos, stable, mark, seg, first,
                 diskFirst, syncErr, bufErr, leaderActive, residue, target,
                 flushed, gate, outcome, cpVars>>

\* The old segment is made durable, then the next one becomes active.
Rollover(c) ==
  /\ Rolling(c)
  /\ ~leaderActive /\ ~bufErr
  /\ written' = appendedPos /\ stable' = appendedPos /\ durablePos' = appendedPos
  /\ starts' = Append(starts, appendedPos)
  /\ asleep' = {}
  /\ Goto(c, "emit")
  /\ UNCHANGED <<state, appendedPos, mark, seg, first, diskFirst, syncErr,
                 bufErr, leaderActive, residue, target, flushed, gate, outcome,
                 cpVars>>

\* The flush or the fsync of the old segment fails, or, with it durable, there
\* is no next segment.
RolloverFails(c) ==
  /\ Rolling(c)
  /\ ~leaderActive
  /\ \/ \E w \in written .. appendedPos : poison(durablePos, w, stable)
     \/ ~bufErr /\ poison(appendedPos, appendedPos, appendedPos)
  /\ Return(c, "failed")
  /\ UNCHANGED <<state, segVars, leaderActive, flushed, gate, cpVars>>

\* n frames go to the buffer, which may spill any part of itself.
Buffer(n) ==
  /\ appendedPos' = appendedPos + n
  /\ written' \in written .. appendedPos + n
  /\ UNCHANGED <<durablePos, stable>>

\* The whole run: operations and marker.
Emit(c) ==
  /\ pc[c] = "emit" /\ ~bufErr
  /\ \E n \in 1 .. MaxOps : Buffer(n + 1)
  /\ mark' = [mark EXCEPT ![c] = appendedPos']
  /\ seg' = [seg EXCEPT ![c] = Active]
  /\ target' = [target EXCEPT ![c] = appendedPos']
  /\ gate' = Append(gate, c)
  /\ Goto(c, "sync")
  /\ UNCHANGED <<state, segVars, syncVars, flushed, outcome, cpVars>>

\* Some operations, possibly none, and then one that cannot be encoded or
\* written.  The committer goes on to SyncGroup all the same.
EmitFails(c) ==
  /\ pc[c] = "emit"
  /\ \E n \in 0 .. MaxOps : (bufErr => n = 0) /\ Buffer(n)
  /\ bufErr' \in {bufErr, TRUE}
  /\ outcome' = [outcome EXCEPT ![c] = "failed"]
  /\ target' = [target EXCEPT ![c] = appendedPos']
  /\ gate' = Append(gate, c)
  /\ Goto(c, "sync")
  /\ UNCHANGED <<state, mark, seg, segVars, syncErr, leaderActive, asleep,
                 residue, flushed, cpVars>>

\* An identifier reservation of a transaction that is then rolled back: a run
\* of one frame that nobody syncs (ReserveIDs, Rollback).
ReserveIDs(c) ==
  /\ pc[c] = "emit" /\ ~bufErr
  /\ Buffer(1)
  /\ outcome' = [outcome EXCEPT ![c] = "empty"]
  /\ Goto(c, "exit")
  /\ UNCHANGED <<state, mark, seg, segVars, syncVars, target, flushed, gate,
                 cpVars>>

-----------------------------------------------------------------------------
(* SyncGroup.                                                              *)

Syncing(c) == pc[c] = "sync" /\ c \notin asleep /\ Free

\* Durability is tested before the poison.
Coalesce(c) ==
  /\ Syncing(c)
  /\ durablePos >= target[c]
  /\ Return(c, "durable")
  /\ UNCHANGED <<state, logVars, segVars, syncVars, flushed, gate, cpVars>>

\* Mutant: the poison is tested before durability.
SyncPoisonedFirst(c) ==
  /\ Syncing(c)
  /\ syncErr
  /\ Return(c, "failed")
  /\ UNCHANGED <<state, logVars, segVars, syncVars, flushed, gate, cpVars>>

SyncPoisoned(c) ==
  /\ Syncing(c)
  /\ durablePos < target[c] /\ syncErr
  /\ Return(c, "failed")
  /\ UNCHANGED <<state, logVars, segVars, syncVars, flushed, gate, cpVars>>

Follow(c) ==
  /\ Syncing(c)
  /\ durablePos < target[c] /\ ~syncErr /\ leaderActive
  /\ asleep' = asleep \cup {c}
  /\ UNCHANGED <<state, logVars, segVars, syncErr, bufErr, leaderActive, residue,
                 txVars, cpVars>>

MayLead(c) ==
  /\ Syncing(c)
  /\ durablePos < target[c] /\ ~syncErr /\ ~leaderActive

\* The leader flushes and releases the mutex for its fsync.
Lead(c) ==
  /\ MayLead(c) /\ ~bufErr
  /\ leaderActive' = TRUE
  /\ flushed' = appendedPos
  /\ written' = appendedPos
  /\ Goto(c, "fsync")
  /\ UNCHANGED <<state, appendedPos, durablePos, stable, mark, seg, segVars,
                 syncErr, bufErr, asleep, residue, target, outcome, gate,
                 cpVars>>

LeadFails(c) ==
  /\ MayLead(c)
  /\ \E w \in written .. appendedPos : poison(durablePos, w, stable)
  /\ Return(c, "failed")
  /\ UNCHANGED <<state, segVars, leaderActive, flushed, gate, cpVars>>

\* The fsync returns: it covers at least what was flushed before it.
Fsync(c) ==
  /\ pc[c] = "fsync"
  /\ stable' = Larger(stable, flushed)
  /\ Goto(c, "publish")
  /\ UNCHANGED <<state, appendedPos, durablePos, written, mark, seg, segVars,
                 syncVars, target, flushed, gate, outcome, cpVars>>

FsyncFails(c) ==
  /\ pc[c] = "fsync" /\ Free
  /\ leaderActive' = FALSE
  /\ flushed' = 0
  /\ poison(durablePos, written, stable)
  /\ Return(c, "failed")
  /\ UNCHANGED <<state, segVars, gate, cpVars>>

\* Mutant: the followers are not woken.
PublishSilently(c) ==
  /\ pc[c] = "publish" /\ Free
  /\ leaderActive' = FALSE
  /\ durablePos' = Larger(durablePos, flushed) /\ flushed' = 0
  /\ Return(c, "durable")
  /\ UNCHANGED <<state, appendedPos, written, stable, mark, seg, segVars,
                 syncErr, bufErr, asleep, residue, gate, cpVars>>

Publish(c) ==
  /\ pc[c] = "publish" /\ Free
  /\ leaderActive' = FALSE
  /\ durablePos' = Larger(durablePos, flushed) /\ flushed' = 0
  /\ asleep' = {}
  /\ Return(c, "durable")
  /\ UNCHANGED <<state, appendedPos, written, stable, mark, seg, segVars,
                 syncErr, bufErr, residue, gate, cpVars>>

-----------------------------------------------------------------------------
(* The end of a commit.                                                    *)

\* Mutant: a failed commit leaves without passing the turn on.
TakeTurnLost(c) ==
  IF outcome[c] # "failed" /\ \E i \in 1 .. Len(gate) : gate[i] = c
  THEN gate[1] = c /\ gate' = Tail(gate)
  ELSE UNCHANGED gate

\* takeApplyTurn, then advanceApply: whoever minted a sequence waits for every
\* lower one and passes the turn on, in every outcome.
TakeTurn(c) ==
  IF \E i \in 1 .. Len(gate) : gate[i] = c
  THEN gate[1] = c /\ gate' = Tail(gate)
  ELSE UNCHANGED gate

\* Tx.Commit publishes the instant before it leaves the store's writers.
exitWriter(c) ==
  /\ pc[c] = "exit"
  /\ TakeTurn(c)
  /\ Goto(c, "done")
  /\ outcome' = [outcome EXCEPT ![c] = IF @ = "durable" THEN "acked" ELSE @]
  /\ UNCHANGED <<state, logVars, segVars, syncVars, target, flushed, cpVars>>

\* The engine leaves first (CommitWALOnly) ...
CommitWALOnly(c) ==
  /\ pc[c] = "exit" /\ outcome[c] = "durable"
  /\ TakeTurn(c)
  /\ Goto(c, "settle")
  /\ UNCHANGED <<state, logVars, segVars, syncVars, target, flushed, outcome,
                 cpVars>>

\* ... and publishes later.
PublishInstant(c) ==
  /\ pc[c] = "settle"
  /\ Goto(c, "done")
  /\ outcome' = [outcome EXCEPT ![c] = "acked"]
  /\ UNCHANGED <<state, logVars, segVars, syncVars, target, flushed, gate,
                 cpVars>>

-----------------------------------------------------------------------------
(* Checkpoints.                                                            *)

Drained == \A c \in Committer : ~Admitted(c)

\* AwaitCommitQuiescence: no commit is durable and not yet visible.
Settled == \A c \in Committer : pc[c] # "settle"

\* What a reader of the graph sees.
Visible == {c \in Committer : outcome[c] \in {"acked", "recovered"}}

\* Mutant: commits that are durable and not yet visible are not waited for.
CaptureUnsettled ==
  /\ cpc = "idle" /\ state = "open"
  /\ Drained /\ ~syncErr
  /\ watermark' = durablePos /\ image' = Visible
  /\ cpc' = "write"
  /\ UNCHANGED <<state, logVars, segVars, syncVars, txVars, snapRedo, snapTxs,
                 oldest>>

\* Under RunUnderCommitLock, which admits nobody and drains the writers, the
\* durable position and the visible instant are read together.
Capture ==
  /\ cpc = "idle" /\ state = "open"
  /\ Drained /\ Settled /\ ~syncErr
  /\ watermark' = durablePos /\ image' = Visible
  /\ cpc' = "write"
  /\ UNCHANGED <<state, logVars, segVars, syncVars, txVars, snapRedo, snapTxs,
                 oldest>>

\* Mutant: the image is that of the moment it is written.
WriteSnapshotLate ==
  /\ cpc = "write"
  /\ snapRedo' = watermark /\ snapTxs' = Visible
  /\ cpc' = "mark"
  /\ UNCHANGED <<state, logVars, segVars, syncVars, txVars, watermark, image,
                 oldest>>

\* The snapshot is written aside and published by a rename.
WriteSnapshot ==
  /\ cpc = "write"
  /\ snapRedo' = watermark /\ snapTxs' = image
  /\ cpc' = "mark"
  /\ UNCHANGED <<state, logVars, segVars, syncVars, txVars, watermark, image,
                 oldest>>

\* The last retained segment that starts at or below pos.
segmentStartAt(i, pos) ==
  /\ i \in first .. Active
  /\ starts[i] <= pos \/ i = first
  /\ \A j \in i + 1 .. Active : starts[j] > pos

\* The control record is renamed into place; when the fsync of its directory
\* fails the checkpoint ends there.
MarkCheckpoint ==
  /\ cpc = "mark" /\ watermark <= durablePos
  /\ \E i \in first .. Active :
       segmentStartAt(i, watermark) /\ oldest' = Larger(oldest, starts[i])
  /\ cpc' \in {"reclaim", "idle"}
  /\ UNCHANGED <<state, logVars, segVars, syncVars, txVars, watermark, image,
                 snapRedo, snapTxs>>

\* Mutant: a segment that begins below the oldest retained position goes.
VictimAny == diskFirst <= Active /\ starts[diskFirst] <= oldest

\* The segment after the oldest one on disk begins at or below the oldest
\* retained position.
Victim == diskFirst < Active /\ starts[diskFirst + 1] <= oldest

Unlink ==
  /\ cpc = "reclaim"
  /\ Victim
  /\ diskFirst' = diskFirst + 1
  /\ UNCHANGED <<state, logVars, starts, first, syncVars, txVars, cpVars>>

ReclaimSegments ==
  /\ cpc = "reclaim"
  /\ ~Victim
  /\ first' = diskFirst
  /\ cpc' = "idle"
  /\ UNCHANGED <<state, logVars, starts, diskFirst, syncVars, txVars, watermark,
                 image, snapRedo, snapTxs, oldest>>

\* A phase fails, or the snapshot cannot stand alone and the log is kept.
CheckpointStops ==
  /\ cpc \in {"write", "mark", "reclaim"}
  /\ cpc' = "idle"
  /\ UNCHANGED <<state, logVars, segVars, syncVars, txVars, watermark, image,
                 snapRedo, snapTxs, oldest>>

-----------------------------------------------------------------------------
(* Shutdown, crash and recovery.                                           *)

\* DB.Close stops the checkpointer, drains the writers and closes the log.
Close ==
  /\ state = "open" /\ Drained /\ cpc = "idle"
  /\ state' = "closed"
  /\ \/ /\ ~syncErr /\ ~bufErr
        /\ written' = appendedPos /\ stable' = appendedPos
        /\ UNCHANGED mark
     \/ /\ ~syncErr
        /\ written' \in written .. appendedPos
        /\ UNCHANGED <<stable, mark>>
     \/ /\ syncErr
        /\ written' = durablePos /\ stable' = durablePos
        /\ mark' = MarksUpTo(durablePos)
     \/ /\ syncErr
        /\ UNCHANGED <<written, stable, mark>>
  /\ UNCHANGED <<appendedPos, durablePos, seg, segVars, syncVars, txVars, cpVars>>

\* The process is gone with its buffer; the log on disk ends at n.
Down(n) ==
  /\ state' = "down"
  /\ written' = n
  /\ mark' = MarksUpTo(n)
  /\ pc' = [c \in Committer |-> IF pc[c] = "idle" THEN "idle" ELSE "done"]
  /\ outcome' = [c \in Committer |->
       IF pc[c] # "idle" /\ outcome[c] \in {"none", "durable"} THEN "lost" ELSE outcome[c]]
  /\ cpc' = "idle"
  /\ leaderActive' = FALSE /\ asleep' = {} /\ gate' = <<>>
  /\ target' = [c \in Committer |-> 0] /\ flushed' = 0
  /\ UNCHANGED <<appendedPos, durablePos, seg, segVars, syncErr, bufErr,
                 residue, watermark, image, snapRedo, snapTxs, oldest>>

Kill ==
  /\ "kill" \in Crashes /\ state \in {"open", "closed"}
  /\ Down(written)
  /\ UNCHANGED stable

PowerLoss ==
  /\ "power" \in Crashes /\ state \in {"open", "closed", "down"}
  /\ \E n \in stable .. written : Down(n) /\ stable' = n

\* Where segment i ends, and the segments on disk that hold a frame.
End(i) == IF i < Active THEN starts[i + 1] ELSE written
Framed == {i \in diskFirst .. Active : End(i) > starts[i]}

\* listSegments: the last segment with a frame at or below the oldest retained
\* position, or the first when none has a frame.
StartSegment(s) ==
  IF Framed = {} THEN s = diskFirst
  ELSE /\ s \in Framed /\ starts[s] <= oldest
       /\ \A i \in Framed : starts[i] <= oldest => i <= s

\* attachSegments: the last segment with a frame, or the first retained one.
ActiveSegment(a, s) ==
  IF Framed = {} THEN a = s ELSE a \in Framed /\ \A i \in Framed : i <= a

\* What recovery rebuilds from a log that ends at n: the snapshot and every run
\* above its redo position whose segment is on disk.
Recovered(n) ==
  snapTxs \cup {c \in Committer :
    mark[c] > snapRedo /\ mark[c] <= n /\ seg[c] >= diskFirst}

\* streamSegments stops at an empty segment that precedes frames, and recovery
\* wants a snapshot between the oldest retained position and the end of the log.
Readable(s, a) ==
  /\ \A i \in s .. a : i \in Framed \/ Framed = {}
  /\ oldest <= snapRedo /\ snapRedo <= written

\* The process that closed the log or crashed is gone.
Reopening ==
  /\ state \in {"down", "closed"}
  /\ \A c \in Committer : pc[c] \in {"idle", "done"}

\* The end of the log as it is read becomes the durable position; only a torn
\* frame behind it is truncated, and the truncation fsynced.
Open ==
  /\ Reopening
  /\ \E s, a \in diskFirst .. Active :
       /\ StartSegment(s) /\ ActiveSegment(a, s) /\ Readable(s, a)
       /\ starts' = SubSeq(starts, 1, a) /\ first' = s /\ diskFirst' = s
  /\ state' = "open"
  /\ appendedPos' = written /\ durablePos' = written
  /\ stable' \in {stable, written}
  /\ syncErr' = FALSE /\ bufErr' = FALSE
  /\ outcome' = [c \in Committer |->
       IF c \in Recovered(written) /\ outcome[c] # "acked" THEN "recovered" ELSE outcome[c]]
  /\ UNCHANGED <<written, mark, seg, leaderActive, asleep, residue, pc, target,
                 flushed, gate, cpVars>>

OpenRefused ==
  /\ Reopening
  /\ ~\E s, a \in diskFirst .. Active :
        StartSegment(s) /\ ActiveSegment(a, s) /\ Readable(s, a)
  /\ state' = "refused"
  /\ UNCHANGED <<logVars, segVars, syncVars, txVars, cpVars>>

-----------------------------------------------------------------------------

Appending(c) ==
  \/ Refuse(c) \/ Start(c) \/ SyncBuffered(c)
  \/ RolloverWait(c) \/ Rollover(c) \/ RolloverFails(c)
  \/ Emit(c) \/ EmitFails(c) \/ ReserveIDs(c)

Committing(c) ==
  \/ Coalesce(c) \/ SyncPoisoned(c) \/ Follow(c)
  \/ Lead(c) \/ LeadFails(c) \/ Fsync(c) \/ FsyncFails(c) \/ Publish(c)
  \/ exitWriter(c) \/ CommitWALOnly(c) \/ PublishInstant(c)

Checkpointing ==
  Capture \/ WriteSnapshot \/ MarkCheckpoint \/ Unlink \/ ReclaimSegments \/ CheckpointStops

Restarting == Close \/ Kill \/ PowerLoss \/ Open \/ OpenRefused

Finished ==
  /\ state = "refused" \/ \A c \in Committer : pc[c] = "done"
  /\ UNCHANGED vars

Next ==
  \/ \E c \in Committer : enterWriter(c) \/ Appending(c) \/ Committing(c)
  \/ Checkpointing
  \/ Restarting
  \/ Finished

Spec == Init /\ [][Next]_vars

\* A committer inside a call runs; nothing else has to happen.
FairSpec == Spec /\ \A c \in Committer : WF_vars(Appending(c) \/ Committing(c))

-----------------------------------------------------------------------------
(* Properties.                                                             *)

LogType ==
  /\ appendedPos \in Nat /\ durablePos \in Nat /\ written \in Nat /\ stable \in Nat
  /\ mark \in [Committer -> Nat] /\ seg \in [Committer -> Nat]

SegType == starts \in Seq(Nat) /\ first \in 1 .. Active /\ diskFirst \in 1 .. Active

SyncType ==
  /\ syncErr \in BOOLEAN /\ bufErr \in BOOLEAN /\ leaderActive \in BOOLEAN
  /\ asleep \in SUBSET Committer /\ residue \in BOOLEAN

TxType ==
  /\ pc \in [Committer -> {"idle", "append", "roll", "emit", "sync", "fsync",
                           "publish", "exit", "settle", "done"}]
  /\ target \in [Committer -> Nat] /\ flushed \in Nat
  /\ gate \in Seq(Committer)
  /\ outcome \in [Committer -> Outcomes]

CpType ==
  /\ state \in {"open", "closed", "down", "refused"}
  /\ cpc \in {"idle", "write", "mark", "reclaim"}
  /\ watermark \in Nat /\ image \in SUBSET Committer
  /\ snapRedo \in Nat /\ snapTxs \in SUBSET Committer /\ oldest \in Nat

\* The state of the log, of its callers and of the checkpointer is well formed.
TypeOK == LogType /\ SegType /\ SyncType /\ TxType /\ CpType

\* An acknowledged commit survives: whatever a crash at this moment leaves of
\* the log, the snapshot and the segments still on disk hold it, although
\* other rounds fail, the log rolls over and checkpoints unlink segments
\* (SyncGroup: nil "only after a data sync has made durable every byte up to
\* and including" the marker).
AckedDurable ==
  \A n \in stable .. written : \A c \in Committer :
    outcome[c] = "acked" => c \in Recovered(n)

\* A commit that was reported as failed is never recovered, and no later fsync
\* or checkpoint makes it durable ("a phantom commit"), provided the poison
\* could discard the un-synced suffix.
FailedLost ==
  ~residue => \A c \in Committer : outcome[c] = "failed" => mark[c] = 0 /\ c \notin snapTxs

\* Every non-tail segment is fully durable before any byte lands in its
\* successor, so no crash leaves a torn frame in the middle of the log.
NonTailDurable == starts[Active] <= stable

\* Whoever waits on groupCond has a leader that will broadcast: neither a
\* follower nor a rollover sleeps through the end of the round it waits out,
\* whether that round publishes or poisons the writer.
SleepersHaveLeader == asleep # {} => leaderActive

\* What recovery has replayed once is not replayed again: a run is in the
\* snapshot or above its redo position, never both.
ReplayedOnce == \A c \in snapTxs : mark[c] <= snapRedo

\* The redo position of the published snapshot was covered by an fsync, as
\* DurableOffset promises, so whatever a crash leaves of the log reaches it and
\* recovery does not refuse the store with ErrSnapshotAheadOfWAL.
RedoReached == snapRedo <= stable

\* Empty segments exist only at the tail of the log (design-wal-v2.md);
\* streamSegments takes any other for a missing one and the store does not open.
EmptyOnlyAtTail ==
  \A i \in Framed : \A j \in diskFirst .. i : j \in Framed

\* Every call to commit returns, although it may follow a leader, wait out a
\* rollover or find the writer poisoned.
CommitReturns == \A c \in Committer : pc[c] = "append" ~> pc[c] \in {"settle", "done"}
=============================================================================
