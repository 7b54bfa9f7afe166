---------------------------- MODULE VersionStore ----------------------------
(***************************************************************************)
(* The multi-version store of node labels and node existence (graph/lpg):  *)
(* undo chains of labels, life records, the tombstone bitmap, first        *)
(* committer wins, the withdrawal of aborted transactions, the rollback of *)
(* a statement by its undo log, and reclamation.                           *)
(*                                                                         *)
(* A transaction is a bracket (a Cypher statement or transaction: it reads *)
(* and writes at the instant it began), a bounded one (ApplyDurable: sees  *)
(* every commit, pins the horizon, may fail to become durable) or an       *)
(* implicit one (a direct write: sees every commit, one operation, pins    *)
(* nothing).  Each section under a shard lock or the tombstone lock is one *)
(* step.  The commit clock is CommitFrontier, which CommitClock implements.*)
(*                                                                         *)
(* Snapshots are not actors: the horizon (module Horizon) lets nothing     *)
(* newer than the oldest of them be reclaimed, so a snapshot may be at any *)
(* instant from `water`, the highest watermark swept so far, on.           *)
(***************************************************************************)
EXTENDS Integers, Sequences, FiniteSets, SequencesExt, FiniteSetsExt

CONSTANTS
  Bracket, Bounded, Implicit, \* the transactions, by kind
  Node, Label,
  Dead,                       \* the nodes that are tombstoned at the start
  Labelled,                   \* the <<node, label>> pairs at the start
  MaxOps, MaxBoundedOps,      \* bounds on the effects of a bracket, of another
  NoTx,                       \* no transaction
  Life,                       \* a node's existence, as against its labels
  Nothing                     \* no effect

Tx == Bracket \union Bounded \union Implicit

ASSUME KindsDisjoint ==
  /\ Bracket \intersect Bounded = {}
  /\ Bracket \intersect Implicit = {}
  /\ Bounded \intersect Implicit = {}

ASSUME SizesAssumption ==
  /\ MaxOps \in Nat \ {0} /\ MaxBoundedOps \in Nat \ {0}
  /\ Dead \subseteq Node
  /\ Labelled \subseteq Node \X Label
  /\ IsFiniteSet(Tx)

\* What an operation can change: a label of a node, or its existence.
Effects == [n : Node, c : Label \union {Life}, v : BOOLEAN]

ASSUME NamesAssumption == NoTx \notin Tx /\ Life \notin Label /\ Nothing \notin Effects

\* The start timestamp that sees every commit, and the stamp of a
\* transaction that is still open or has aborted: larger than every commit.
implicitStartTS == Cardinality(Tx) + 1

VARIABLES
  at, outcome, allocated, frontier, \* the commit clock
  rec,     \* the commit record: none, open, committed or aborted
  start,   \* the instant a transaction reads at
  pin,     \* the instant it holds the horizon at, -1 for none
  doomed,  \* a conflict is recorded on the transaction
  undoing, \* its undo log is being replayed
  pc, arg, \* where it is, and the effect its operation is after
  log,     \* its effects, oldest first: the undo log and the history
  chain,   \* per node, the label deltas, newest first
  bag,     \* per node, the labels stored
  born, died, \* per node, the life records, newest first (displaced ones follow)
  claim,   \* per node, the existence claim
  tomb,    \* per node, the tombstone bit
  owed,    \* per node, the flip an abort still owes the tombstone bitmap
  sweeper, \* who holds the sweeper lock: an aborting transaction, or NoTx
  water,   \* the highest watermark reclaimed at
  torn     \* ghost: the nodes whose life records and tombstone bit went out of step

clock == <<at, outcome, allocated, frontier>>
session == <<start, pin, undoing>>
labels == <<chain, bag>>
lives == <<born, died, claim>>
sweep == <<owed, sweeper, water>>
vars == <<clock, rec, session, doomed, pc, arg, log, labels, lives, tomb, torn, sweep>>

F == INSTANCE CommitFrontier WITH MaxFloor <- 0

Init ==
  /\ F!Init
  /\ rec = [t \in Tx |-> "none"]
  /\ start = [t \in Tx |-> 0]
  /\ pin = [t \in Tx |-> -1]
  /\ doomed = [t \in Tx |-> FALSE]
  /\ undoing = [t \in Tx |-> FALSE]
  /\ pc = [t \in Tx |-> "idle"]
  /\ arg = [t \in Tx |-> Nothing]
  /\ log = [t \in Tx |-> <<>>]
  /\ chain = [n \in Node |-> <<>>]
  /\ bag = [n \in Node |-> {l \in Label : <<n, l>> \in Labelled}]
  /\ born = [n \in Node |-> <<>>]
  /\ died = [n \in Node |-> <<>>]
  /\ claim = [n \in Node |-> NoTx]
  /\ tomb = [n \in Node |-> n \in Dead]
  /\ owed = [n \in Node |-> "none"]
  /\ sweeper = NoTx
  /\ water = 0
  /\ torn = {}

----------------------------------------------------------------------------
(* Visibility and conflicts.                                               *)

\* Whether a reader at instant s, inside transaction t, sees what u wrote.
Visible(u, s, t) ==
  \/ rec[u] = "committed" /\ at[u] <= s
  \/ rec[u] = "open" /\ u = t

\* The head's writer is NoTx when there is no version.
Conflicts(t, head) ==
  \/ doomed[t] /\ ~undoing[t]
  \/ head # NoTx /\ ~Visible(head, start[t], t)

LabelHead(n) == IF chain[n] = <<>> THEN NoTx ELSE Head(chain[n]).tx

Stamp(u) ==
  IF u = NoTx THEN 0
  ELSE CASE rec[u] = "committed" -> at[u]
         [] rec[u] = "aborted" -> implicitStartTS + 2
         [] OTHER -> implicitStartTS + 1

NewestSeq(n) ==
  Max({0} \union {born[n][i].seq : i \in DOMAIN born[n]}
          \union {died[n][i].seq : i \in DOMAIN died[n]})

LifeHead(n) ==
  LET heads == {r \in {Head(x) : x \in {born[n], died[n]} \ {<<>>}} : r.seq = NewestSeq(n)}
      newest == IF heads = {} THEN NoTx ELSE (CHOOSE r \in heads : TRUE).tx
  IN IF Stamp(claim[n]) > Stamp(newest) THEN claim[n] ELSE newest

----------------------------------------------------------------------------
(* Reads at an instant.                                                    *)

WithLabel(labs, l, on) == IF on THEN labs \union {l} ELSE labs \ {l}

\* The bag before the k newest deltas.  They are undone newest first, so the
\* oldest delta of a label decides.
Undone(n, k) ==
  {l \in Label :
     LET undone == {i \in 1 .. k : chain[n][i].l = l}
     IN IF undone = {} THEN l \in bag[n] ELSE chain[n][Max(undone)].was}

LabelBagAsOf(n, s, t) ==
  LET seen == {i \in DOMAIN chain[n] : Visible(chain[n][i].tx, s, t)}
  IN Undone(n, IF seen = {} THEN Len(chain[n]) ELSE Min(seen) - 1)

\* The record this reader observes; the oldest when it sees none of them.
AsOf(records, s, t) ==
  LET seen == {i \in DOMAIN records : Visible(records[i].tx, s, t)}
  IN records[IF seen = {} THEN Len(records) ELSE Min(seen)]

\* Mutant: the write order alone decides, also within one transaction.
AliveBeforeByOrder(b, d) == d.seq < b.seq \/ b.was

AliveBefore(b, d) == (d.seq < b.seq /\ b.tx # d.tx) \/ b.was

NodeExistsAsOf(n, s, t) ==
  LET hasBorn == born[n] # <<>>
      hasDied == died[n] # <<>>
      b == AsOf(born[n], s, t)
      d == AsOf(died[n], s, t)
      seesBorn == hasBorn /\ Visible(b.tx, s, t)
      seesDied == hasDied /\ Visible(d.tx, s, t)
  IN CASE seesBorn /\ seesDied -> b.seq > d.seq
       [] seesBorn /\ ~seesDied -> TRUE
       [] ~seesBorn /\ seesDied -> FALSE
       [] hasBorn /\ ~seesBorn /\ ~hasDied -> FALSE
       [] hasBorn /\ ~seesBorn /\ hasDied /\ ~seesDied -> AliveBefore(b, d)
       [] ~hasBorn /\ hasDied /\ ~seesDied -> TRUE
       [] OTHER -> ~tomb[n]

----------------------------------------------------------------------------
(* The committed history.                                                  *)

Touches(u, n, c) == \E e \in ToSet(log[u]) : e.n = n /\ e.c = c

\* What u left in a cell that it touched: its last effect there.
Left(u, n, c) == log[u][Max({i \in DOMAIN log[u] : log[u][i].n = n /\ log[u][i].c = c})].v

Initially(n, c) == IF c = Life THEN n \notin Dead ELSE <<n, c>> \in Labelled

\* A cell of a node at instant s: the value left by the last commit by then.
History(n, c, s) ==
  LET writers == {u \in Tx : rec[u] = "committed" /\ at[u] <= s /\ Touches(u, n, c)}
  IN IF writers = {} THEN Initially(n, c)
     ELSE Left(CHOOSE u \in writers : \A v \in writers : at[v] <= at[u], n, c)

\* A cell as t finds it: its own effect, or the last commit.
Present(t, n, c) ==
  IF Touches(t, n, c) THEN Left(t, n, c) ELSE History(n, c, implicitStartTS)

\* A birth of a living node or a death of a dead one, outside a replay.
Tear(t, n, v) ==
  torn' = IF owed[n] # "none" \/ (~undoing[t] /\ Present(t, n, Life) = v)
            THEN torn \union {n} ELSE torn

----------------------------------------------------------------------------
(* Operations: arg is the effect asked for.  A refused operation dooms its *)
(* transaction.                                                            *)

Goto(t, where, e) ==
  /\ pc' = [pc EXCEPT ![t] = where]
  /\ arg' = [arg EXCEPT ![t] = e]

Step(t, where) == Goto(t, where, arg[t])

\* A direct write has no second operation; a replay goes on.
Return(t) ==
  Goto(t, IF t \in Implicit THEN "written" ELSE IF undoing[t] THEN "undo" ELSE "ready",
       Nothing)

Refuse(t) == doomed' = [doomed EXCEPT ![t] = TRUE] /\ Return(t) /\ UNCHANGED log

Proceed(t, where, e) == Goto(t, where, e) /\ UNCHANGED <<doomed, log>>

NoOp(t) == Return(t) /\ UNCHANGED <<doomed, log>>

\* The operation took effect and is journalled; an inverse is not.
Effect(t) ==
  /\ Return(t)
  /\ log' = IF undoing[t] THEN log ELSE [log EXCEPT ![t] = Append(@, arg[t])]
  /\ UNCHANGED doomed

OpenRecord(t) == rec' = [rec EXCEPT ![t] = "open"]

\* internEndpoint: the node's existence is tested first.
SetNodeLabel(t, e) ==
  /\ IF Conflicts(t, LifeHead(e.n)) THEN Refuse(t) ELSE Proceed(t, "setLabel", e)
  /\ UNCHANGED <<rec, labels>>

\* Under the label shard's lock: claim the label chain, version the change.
ClaimLabel(t, e) ==
  LET n == e.n IN
  \/ /\ Conflicts(t, LabelHead(n))
     /\ Refuse(t)
     /\ UNCHANGED <<rec, labels>>
  \/ /\ ~Conflicts(t, LabelHead(n))
     /\ (e.c \in bag[n]) = e.v
     /\ Proceed(t, "crossNoop", e)
     /\ UNCHANGED <<rec, labels>>
  \/ /\ ~Conflicts(t, LabelHead(n))
     /\ (e.c \in bag[n]) # e.v
     /\ chain' = [chain EXCEPT ![n] = <<[tx |-> t, l |-> e.c, was |-> ~e.v]>> \o @]
     /\ bag' = [bag EXCEPT ![n] = WithLabel(@, e.c, e.v)]
     /\ OpenRecord(t)
     /\ Proceed(t, "crossLife", e)

RemoveNodeLabel(t, e) == ClaimLabel(t, e)

AddLabel(t) ==
  /\ pc[t] = "setLabel"
  /\ ClaimLabel(t, arg[t])
  /\ UNCHANGED <<clock, session, lives, tomb, torn, sweep>>

\* Mutant: a label write does not look at the node's existence again.
CrossCheckNodeLifeSkipped(t) ==
  /\ pc[t] \in {"crossLife", "crossNoop"}
  /\ IF pc[t] = "crossLife" THEN Effect(t) ELSE NoOp(t)
  /\ UNCHANGED <<clock, rec, session, labels, lives, tomb, torn, sweep>>

\* The claim on the labels is out: look at the node's existence.
CrossCheckNodeLife(t) ==
  /\ pc[t] \in {"crossLife", "crossNoop"}
  /\ \/ Conflicts(t, LifeHead(arg[t].n)) /\ Refuse(t)
     \/ /\ ~Conflicts(t, LifeHead(arg[t].n))
        /\ IF pc[t] = "crossLife" THEN Effect(t) ELSE NoOp(t)
  /\ UNCHANGED <<clock, rec, session, labels, lives, tomb, torn, sweep>>

\* The tombstone bit is read before any lock is taken.
RemoveNode(t, e) ==
  /\ Proceed(t, IF tomb[e.n] THEN "claim" ELSE "die", e)
  /\ UNCHANGED <<rec, labels>>

\* The removal of a dead node: an existence claim that no reader sees.
NoteNodeClaim(t) ==
  LET n == arg[t].n IN
  /\ pc[t] = "claim"
  /\ \/ Conflicts(t, LifeHead(n)) /\ Refuse(t) /\ UNCHANGED <<rec, claim>>
     \/ /\ ~Conflicts(t, LifeHead(n))
        /\ claim' = [claim EXCEPT ![n] = t]
        /\ OpenRecord(t)
        /\ Proceed(t, "crossDead", arg[t])
  /\ UNCHANGED <<clock, session, labels, born, died, tomb, torn, sweep>>

\* A new life record displaces the head, unless that is its own transaction's.
Displacing(records, r) ==
  <<r>> \o IF records # <<>> /\ Head(records).tx = r.tx THEN Tail(records) ELSE records

\* Whether the node was alive before the transaction that now revives it.
AliveBeforeTx(n, t) ==
  /\ died[n] # <<>>
  /\ Head(died[n]).tx = t
  /\ born[n] = <<>> \/ Head(born[n]).tx # t \/ Head(born[n]).was

\* noteNodeLife, a death.
NoteNodeDied(t) ==
  LET n == arg[t].n IN
  /\ pc[t] = "die"
  /\ \/ Conflicts(t, LifeHead(n)) /\ Refuse(t) /\ UNCHANGED <<rec, died, torn>>
     \/ /\ ~Conflicts(t, LifeHead(n))
        /\ died' = [died EXCEPT ![n] =
             Displacing(@, [tx |-> t, seq |-> NewestSeq(n) + 1, was |-> FALSE])]
        /\ Tear(t, n, FALSE)
        /\ OpenRecord(t)
        /\ Proceed(t, "crossDied", arg[t])
  /\ UNCHANGED <<clock, session, labels, born, claim, tomb, sweep>>

\* The removal's own cross-check: a pending label write refuses it.
CrossCheckLabels(t) ==
  LET n == arg[t].n IN
  /\ pc[t] \in {"crossDead", "crossDied"}
  /\ \/ Conflicts(t, LabelHead(n)) /\ Refuse(t)
     \/ ~Conflicts(t, LabelHead(n)) /\ pc[t] = "crossDead" /\ NoOp(t)
     \/ ~Conflicts(t, LabelHead(n)) /\ pc[t] = "crossDied" /\ Proceed(t, "flipDead", arg[t])
  /\ UNCHANGED <<clock, rec, session, labels, lives, tomb, torn, sweep>>

\* Mutant: the death is recorded but the bitmap keeps its old copy.
FlipDeadUnpublished(t) ==
  /\ pc[t] = "flipDead"
  /\ Effect(t)
  /\ UNCHANGED <<clock, rec, session, labels, lives, tomb, torn, sweep>>

FlipDead(t) ==
  /\ pc[t] = "flipDead"
  /\ tomb' = [tomb EXCEPT ![arg[t].n] = TRUE]
  /\ Effect(t)
  /\ UNCHANGED <<clock, rec, session, labels, lives, torn, sweep>>

\* noteNodeLife, a birth.  A doomed transaction still records one on a node
\* that has no record.
BirthRefused(t, n) == Conflicts(t, LifeHead(n)) /\ LifeHead(n) # NoTx

\* existenceHeadAdmits.  With no life record in the whole graph even a doomed
\* transaction is admitted; nodes outside Node may have one.
ExistenceHeadAdmits(t, n) == ~BirthRefused(t, n)

\* Of a live node: a no-op, once the existence head admits it.
Revive(t, e) ==
  /\ \/ tomb[e.n] /\ Proceed(t, "born", e)
     \/ ~tomb[e.n] /\ Conflicts(t, LifeHead(e.n)) /\ Refuse(t)
     \/ /\ ~tomb[e.n] /\ ExistenceHeadAdmits(t, e.n)
        /\ IF t \in Implicit THEN NoOp(t) ELSE Proceed(t, "flipLive", e)
  /\ UNCHANGED <<rec, labels>>

\* With no tombstone in the whole graph there is nothing to revive.  Nodes
\* outside Node may have one.
AddNode(t, e) ==
  \/ Revive(t, e)
  \/ /\ \A n \in Node : ~tomb[n]
     /\ \/ Conflicts(t, LifeHead(e.n)) /\ Refuse(t)
        \/ ExistenceHeadAdmits(t, e.n) /\ NoOp(t)
     /\ UNCHANGED <<rec, labels>>

RecordBirth(t, n) ==
  /\ born' = [born EXCEPT ![n] =
       Displacing(@, [tx |-> t, seq |-> NewestSeq(n) + 1, was |-> AliveBeforeTx(n, t)])]
  /\ OpenRecord(t)
  /\ Tear(t, n, TRUE)

NoteNodeRevived(t) ==
  LET n == arg[t].n IN
  /\ pc[t] = "born"
  /\ \/ BirthRefused(t, n) /\ Refuse(t) /\ UNCHANGED <<rec, born, torn>>
     \/ ~BirthRefused(t, n) /\ RecordBirth(t, n) /\ Proceed(t, "flipBorn", arg[t])
  /\ UNCHANGED <<clock, session, labels, died, claim, tomb, sweep>>

FlipLive(t) ==
  LET n == arg[t].n IN
  /\ pc[t] \in {"flipBorn", "flipLive"}
  /\ tomb' = [tomb EXCEPT ![n] = FALSE]
  /\ CASE pc[t] = "flipBorn" -> Effect(t)
       [] pc[t] = "flipLive" /\ tomb[n] -> Proceed(t, "lateBorn", arg[t])
       [] OTHER -> NoOp(t)
  /\ torn' = IF pc[t] = "flipLive" /\ tomb[n] THEN torn \union {n} ELSE torn
  /\ UNCHANGED <<clock, rec, session, labels, lives, sweep>>

\* The flip found a tombstone that was not there at the check: the birth is
\* recorded, or refused, after the flip.
LateNodeRevived(t) ==
  LET n == arg[t].n IN
  /\ pc[t] = "lateBorn"
  /\ \/ BirthRefused(t, n) /\ Refuse(t) /\ UNCHANGED <<rec, born, torn>>
     \/ ~BirthRefused(t, n) /\ RecordBirth(t, n) /\ Effect(t)
  /\ UNCHANGED <<clock, session, labels, died, claim, tomb, sweep>>

----------------------------------------------------------------------------
(* Transactions.                                                           *)

\* Mutant: an implicit start one too high, among the open stamps.
BeginAbove(t) ==
  /\ pc[t] = "idle"
  /\ Step(t, "ready")
  /\ start' = [start EXCEPT ![t] = IF t \in Bracket THEN frontier ELSE implicitStartTS + 1]
  /\ pin' = [pin EXCEPT ![t] = IF t \in Implicit THEN -1 ELSE frontier]
  /\ UNCHANGED <<clock, rec, undoing, doomed, log, labels, lives, tomb, torn, sweep>>

Begin(t) ==
  /\ pc[t] = "idle"
  /\ Step(t, "ready")
  /\ start' = [start EXCEPT ![t] = IF t \in Bracket THEN frontier ELSE implicitStartTS]
  /\ pin' = [pin EXCEPT ![t] = IF t \in Implicit THEN -1 ELSE frontier]
  /\ UNCHANGED <<clock, rec, undoing, doomed, log, labels, lives, tomb, torn, sweep>>

Reviving(e) == e.c = Life /\ e.v

Call(t, e) ==
  \/ e.c = Life /\ ~e.v /\ RemoveNode(t, e)
  \/ e.c # Life /\ e.v /\ SetNodeLabel(t, e)
  \/ e.c # Life /\ ~e.v /\ RemoveNodeLabel(t, e)

Operate(t) ==
  /\ pc[t] = "ready"
  /\ Len(log[t]) < IF t \in Bracket THEN MaxOps ELSE MaxBoundedOps
  /\ \E e \in Effects : Call(t, e) \/ (Reviving(e) /\ AddNode(t, e))
  /\ UNCHANGED <<clock, session, lives, tomb, torn, sweep>>

\* Roll back, also when the commit record could not be made durable: the
\* undo log is replayed, newest effect first, and then the bracket aborts.
EnterUndo(t) ==
  /\ t \in Bracket
  /\ pc[t] \in {"ready", "commit"}
  /\ undoing' = [undoing EXCEPT ![t] = TRUE]
  /\ Step(t, "undo")
  /\ UNCHANGED <<clock, rec, start, pin, doomed, log, labels, lives, tomb, torn, sweep>>

\* Mutant: the inverses run in the order of the effects.
NextInverseOldest(t) ==
  /\ pc[t] = "undo"
  /\ log[t] # <<>>
  /\ Goto(t, "inverse", [Head(log[t]) EXCEPT !.v = ~@])
  /\ log' = [log EXCEPT ![t] = Tail(@)]
  /\ UNCHANGED <<clock, rec, session, doomed, labels, lives, tomb, torn, sweep>>

NextInverse(t) ==
  /\ pc[t] = "undo"
  /\ log[t] # <<>>
  /\ Goto(t, "inverse", [Last(log[t]) EXCEPT !.v = ~@])
  /\ log' = [log EXCEPT ![t] = Front(@)]
  /\ UNCHANGED <<clock, rec, session, doomed, labels, lives, tomb, torn, sweep>>

\* The inverse of a removal is Revive itself, not AddNode.
RunInverse(t) ==
  /\ pc[t] = "inverse"
  /\ Call(t, arg[t]) \/ (Reviving(arg[t]) /\ Revive(t, arg[t]))
  /\ UNCHANGED <<clock, session, lives, tomb, torn, sweep>>

ExitUndo(t) ==
  /\ pc[t] = "undo"
  /\ log[t] = <<>>
  /\ undoing' = [undoing EXCEPT ![t] = FALSE]
  /\ Step(t, "unwound")
  /\ UNCHANGED <<clock, rec, start, pin, doomed, log, labels, lives, tomb, torn, sweep>>

\* The operations of t are over.
Finishing(t) == pc[t] \in {"ready", "unwound", "written", "commit"}

\* AllocateCommitTS or allocateReady: no write follows it.
Allocate(t) ==
  /\ pc[t] \in {"ready", "written"}
  /\ doomed[t] => t \in Bracket
  /\ t \in Implicit => rec[t] = "open"
  /\ F!Allocate(t)
  /\ Step(t, "commit")
  /\ UNCHANGED <<rec, session, doomed, log, labels, lives, tomb, torn, sweep>>

Leave(t) ==
  /\ Goto(t, "ended", Nothing)
  /\ pin' = [pin EXCEPT ![t] = -1]
  /\ UNCHANGED <<start, undoing>>

\* info.Commit and the publication, which CommitClock takes apart.
Commit(t) ==
  /\ pc[t] = "commit"
  /\ rec[t] = "open"
  /\ ~doomed[t]
  /\ F!Decide(t, "committed")
  /\ rec' = [rec EXCEPT ![t] = "committed"]
  /\ Leave(t)
  /\ UNCHANGED <<doomed, log, labels, lives, tomb, torn, sweep>>

\* A timestamp that was allocated for nothing is abandoned.
Abandon(t) == IF at[t] = 0 THEN UNCHANGED clock ELSE F!Decide(t, "aborted")

EndEmpty(t) ==
  /\ Finishing(t)
  /\ rec[t] = "none"
  /\ Abandon(t)
  /\ Leave(t)
  /\ UNCHANGED <<rec, doomed, log, labels, lives, tomb, torn, sweep>>

\* A conflict, a bracket rolled back, or an ApplyDurable that did not become
\* durable.
Abort(t) ==
  /\ Finishing(t)
  /\ rec[t] = "open"
  /\ doomed[t] \/ pc[t] = "unwound" \/ t \in Bounded
  /\ rec' = [rec EXCEPT ![t] = "aborted"]
  /\ Abandon(t)
  /\ Step(t, "aborted")
  /\ UNCHANGED <<session, doomed, log, labels, lives, tomb, torn, sweep>>

FrontierPasses ==
  /\ \E t \in Tx : F!Pass(t)
  /\ UNCHANGED <<rec, session, doomed, pc, arg, log, labels, lives, tomb, torn, sweep>>

----------------------------------------------------------------------------
(* The withdrawal of an aborted transaction, before the abort returns.     *)

Aborted(u) == u # NoTx /\ rec[u] = "aborted"

\* How many of the newest records are aborted.
AbortedPrefix(records) ==
  LET live == {i \in DOMAIN records : ~Aborted(records[i].tx)}
  IN IF live = {} THEN Len(records) ELSE Min(live) - 1

WithoutAborted(records) == SubSeq(records, AbortedPrefix(records) + 1, Len(records))

AcquireSweeper(t) ==
  /\ pc[t] = "aborted"
  /\ sweeper = NoTx
  /\ sweeper' = t
  /\ Step(t, "withdraw")
  /\ UNCHANGED <<clock, rec, session, doomed, log, labels, lives, tomb, torn, owed, water>>

OwesLabels(t, n) == Aborted(LabelHead(n)) /\ \E d \in ToSet(chain[n]) : d.tx = t

WithdrawLabels(t, n) ==
  /\ pc[t] = "withdraw"
  /\ OwesLabels(t, n)
  /\ bag' = [bag EXCEPT ![n] = Undone(n, AbortedPrefix(chain[n]))]
  /\ chain' = [chain EXCEPT ![n] = WithoutAborted(@)]
  /\ UNCHANGED <<clock, rec, session, doomed, pc, arg, log, lives, tomb, torn, sweep>>

OwesLife(t, n) ==
  \/ claim[n] = t
  \/ \E r \in ToSet(born[n]) \union ToSet(died[n]) : r.tx = t

\* The flip that the withdrawal of a node's life records owes.
Restored(n) ==
  LET lostBorn == born[n] # <<>> /\ Aborted(Head(born[n]).tx)
      lostDied == died[n] # <<>> /\ Aborted(Head(died[n]).tx)
      alive == CASE lostBorn /\ lostDied -> AliveBefore(Head(born[n]), Head(died[n]))
                 [] lostBorn /\ ~lostDied -> Head(born[n]).was
                 [] OTHER -> TRUE
  IN IF ~lostBorn /\ ~lostDied THEN "none" ELSE IF alive THEN "live" ELSE "dead"

WithdrawLife(t, n) ==
  /\ pc[t] = "withdraw"
  /\ \A m \in Node : ~OwesLabels(t, m)
  /\ OwesLife(t, n)
  /\ claim' = [claim EXCEPT ![n] = IF Aborted(@) THEN NoTx ELSE @]
  /\ born' = [born EXCEPT ![n] = WithoutAborted(@)]
  /\ died' = [died EXCEPT ![n] = WithoutAborted(@)]
  /\ owed' = [owed EXCEPT ![n] = Restored(n)]
  /\ UNCHANGED <<clock, rec, session, doomed, pc, arg, log, labels, tomb, torn,
                 sweeper, water>>

\* finishLifeWithdrawal: outside the shard locks.
SettleFlip(t, n) ==
  /\ pc[t] = "withdraw"
  /\ \A m \in Node : ~OwesLabels(t, m) /\ ~OwesLife(t, m)
  /\ owed[n] # "none"
  /\ tomb' = [tomb EXCEPT ![n] = owed[n] = "dead"]
  /\ owed' = [owed EXCEPT ![n] = "none"]
  /\ UNCHANGED <<clock, rec, session, doomed, pc, arg, log, labels, lives, torn,
                 sweeper, water>>

ReleaseSweeper(t) ==
  /\ pc[t] = "withdraw"
  /\ \A n \in Node : ~OwesLabels(t, n) /\ ~OwesLife(t, n) /\ owed[n] = "none"
  /\ sweeper' = NoTx
  /\ Leave(t)
  /\ UNCHANGED <<clock, rec, doomed, log, labels, lives, tomb, torn, owed, water>>

----------------------------------------------------------------------------
(* Reclamation, by whoever holds the sweeper lock: a vacuum pass or        *)
(* ReclaimNow.  The watermark was scanned at some moment of the past.      *)

Watermark == Min({frontier} \union {pin[t] : t \in {u \in Tx : pin[u] # -1}})

\* Mutant: one instant too many is reclaimed.
CutAbove(records, w) ==
  LET past == {i \in DOMAIN records : rec[records[i].tx] = "committed" /\ at[records[i].tx] <= w + 1}
  IN IF past = {} THEN records ELSE SubSeq(records, 1, Min(past) - 1)

\* The records without those that every snapshot is past.
Cut(records, w) ==
  LET past == {i \in DOMAIN records : rec[records[i].tx] = "committed" /\ at[records[i].tx] <= w}
  IN IF past = {} THEN records ELSE SubSeq(records, 1, Min(past) - 1)

Swept(w) ==
  /\ sweeper = NoTx
  /\ w \in 1 .. Watermark
  /\ water' = Max({water, w})

ReclaimLabels(n, w) ==
  /\ Swept(w)
  /\ chain' = [chain EXCEPT ![n] = Cut(WithoutAborted(@), w)]
  /\ bag' = [bag EXCEPT ![n] = Undone(n, AbortedPrefix(chain[n]))]
  /\ chain' # chain
  /\ UNCHANGED <<clock, rec, session, doomed, pc, arg, log, lives, tomb, torn, owed, sweeper>>

ReclaimNodeLife(n, w) ==
  /\ Swept(w)
  /\ born' = [born EXCEPT ![n] = Cut(@, w)]
  /\ died' = [died EXCEPT ![n] = Cut(@, w)]
  /\ claim' = [claim EXCEPT ![n] = IF Stamp(@) <= w THEN NoTx ELSE @]
  /\ lives' # lives
  /\ UNCHANGED <<clock, rec, session, doomed, pc, arg, log, labels, tomb, torn, owed, sweeper>>

----------------------------------------------------------------------------
Finished == (\A t \in Tx : pc[t] = "ended") /\ UNCHANGED vars

Next ==
  \/ FrontierPasses
  \/ Finished
  \/ \E n \in Node, w \in 1 .. frontier : ReclaimLabels(n, w) \/ ReclaimNodeLife(n, w)
  \/ \E t \in Tx :
       \/ Begin(t) \/ Operate(t)
       \/ AddLabel(t) \/ CrossCheckNodeLife(t)
       \/ NoteNodeClaim(t) \/ NoteNodeDied(t) \/ CrossCheckLabels(t) \/ FlipDead(t)
       \/ NoteNodeRevived(t) \/ FlipLive(t) \/ LateNodeRevived(t)
       \/ EnterUndo(t) \/ NextInverse(t) \/ RunInverse(t) \/ ExitUndo(t)
       \/ Allocate(t) \/ Commit(t) \/ EndEmpty(t) \/ Abort(t)
       \/ AcquireSweeper(t) \/ ReleaseSweeper(t)
       \/ \E n \in Node : WithdrawLabels(t, n) \/ WithdrawLife(t, n) \/ SettleFlip(t, n)

Spec == Init /\ [][Next]_vars

----------------------------------------------------------------------------
(* Properties.                                                             *)

Stamps == 0 .. implicitStartTS

\* The variables hold values of their types.
TypeOK ==
  /\ rec \in [Tx -> {"none", "open", "committed", "aborted"}]
  /\ start \in [Tx -> Stamps]
  /\ pin \in [Tx -> Stamps \union {-1}]
  /\ doomed \in [Tx -> BOOLEAN]
  /\ undoing \in [Tx -> BOOLEAN]
  /\ arg \in [Tx -> Effects \union {Nothing}]
  /\ log \in [Tx -> Seq(Effects)]
  /\ chain \in [Node -> Seq([tx : Tx, l : Label, was : BOOLEAN])]
  /\ born \in [Node -> Seq([tx : Tx, seq : Nat, was : BOOLEAN])]
  /\ died \in [Node -> Seq([tx : Tx, seq : Nat, was : BOOLEAN])]
  /\ bag \in [Node -> SUBSET Label]
  /\ claim \in [Node -> Tx \union {NoTx}]
  /\ tomb \in [Node -> BOOLEAN]
  /\ owed \in [Node -> {"none", "live", "dead"}]
  /\ sweeper \in Tx \union {NoTx}
  /\ water \in Stamps
  /\ torn \subseteq Node

\* Snapshot reads of labels: at every instant a snapshot may be at,
\* labelBagAsOf reconstructs the labels of the committed history at that
\* instant, whatever writers, aborts and the reclaimer are in the middle of; a
\* direct reader, that sees every commit, gets the labels of the last one.
LabelsAreHistory ==
  \A n \in Node, s \in (water .. frontier) \union {implicitStartTS} :
    LabelBagAsOf(n, s, NoTx) = {l \in Label : History(n, l, s)}

\* Snapshot reads of existence, with no excuse: NodeExistsAsOf answers what was
\* committed at the reader's instant.
SnapshotExistence ==
  \A n \in Node, s \in water .. frontier :
    NodeExistsAsOf(n, s, NoTx) = History(n, Life, s)

\* The same, except on a node whose flip an abort still owes, and on a torn one.
ExistenceIsHistory ==
  \A n \in Node \ torn, s \in water .. frontier :
    owed[n] = "none" => NodeExistsAsOf(n, s, NoTx) = History(n, Life, s)

\* What a bracket ought to see of a cell.
OwnView(t, n, c) == IF Touches(t, n, c) THEN Left(t, n, c) ELSE History(n, c, start[t])

\* A bracket reads its own writes over the history at its start, and after
\* its undo log is replayed nothing of them.
BracketsReadOwnWrites ==
  \A t \in Bracket : pc[t] \in {"ready", "unwound"} /\ ~doomed[t] =>
    \A n \in Node :
      /\ LabelBagAsOf(n, start[t], t) = {l \in Label : OwnView(t, n, l)}
      /\ n \notin torn /\ owed[n] = "none" =>
           NodeExistsAsOf(n, start[t], t) = OwnView(t, n, Life)

Quiet == \A t \in Tx : pc[t] \in {"idle", "ended"}

\* With every transaction over, the tombstone bitmap says what was committed.
PresentIsHistory ==
  Quiet => \A n \in Node : tomb[n] = ~History(n, Life, implicitStartTS)

\* With every transaction over, the labels and the tombstones stored are the
\* committed history, except the tombstone of a torn node: no abort leaves a
\* trace and no commit is lost.
StoredIsHistory ==
  Quiet => \A n \in Node :
    /\ bag[n] = {l \in Label : History(n, l, implicitStartTS)}
    /\ n \notin torn => tomb[n] = ~History(n, Life, implicitStartTS)

\* An effect of t on the labels or the existence of n.
Writes(t, n, labelled, v) ==
  \E e \in ToSet(log[t]) : e.n = n /\ (e.c # Life) = labelled /\ e.v \in v

\* The effects of t and u that may not both come from overlapping transactions.
Collide(t, u) ==
  \E n \in Node :
    \/ Writes(t, n, TRUE, BOOLEAN) /\ Writes(u, n, TRUE, BOOLEAN)
    \/ Writes(t, n, FALSE, BOOLEAN) /\ Writes(u, n, FALSE, BOOLEAN)
    \/ Writes(t, n, TRUE, BOOLEAN) /\ Writes(u, n, FALSE, {FALSE})
    \/ Writes(t, n, FALSE, {FALSE}) /\ Writes(u, n, TRUE, BOOLEAN)

\* First committer wins: a bracket that commits has seen every commit before
\* it on the labels of a node it labels, on the existence of a node it removes
\* or revives, and, the node being the unit of a removal, on either when one
\* labels the node that the other removes.
FirstCommitterWins ==
  \A t \in Bracket, u \in Tx :
    rec[t] = "committed" /\ rec[u] = "committed" /\ at[u] < at[t] /\ Collide(t, u)
      => at[u] <= start[t]
=============================================================================
