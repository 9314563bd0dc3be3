-------------------------- MODULE DeliveryContract --------------------------
(***************************************************************************)
(* The acknowledgement contract of delivery_contract.py: one receipt per   *)
(* transcript batch and durable consumer, the run of receipts that may     *)
(* commit, and the durable offset that run stands for.  Pure operators; a  *)
(* receipt list is a sequence of receipt records in registration order.    *)
(***************************************************************************)
EXTENDS Integers, Sequences

\* DeliveryReceipt.checkpoint is None: the receipt cannot be ordered.
NoCheckpoint == -1

\* settled_run_offset returned None: nothing may be persisted yet.
NoOffset == -1

\* Outcomes a queue worker reports for one task (DeliveryOutcome).
Outcomes == {"delivered", "dropped", "failed"}

Receipt ==
    [checkpoint : Nat \cup {NoCheckpoint},
     pending    : Int,
     closed     : BOOLEAN,
     failed     : BOOLEAN]

NewReceipt(checkpoint) ==
    [checkpoint |-> checkpoint, pending |-> 0, closed |-> FALSE, failed |-> FALSE]

\* Mutant: the receipt remembers that it was tracked, not how often.
TrackedAsFlag(r) == [r EXCEPT !.pending = 1]

Tracked(r) == [r EXCEPT !.pending = @ + 1]

Settled(r, outcome) ==
    [r EXCEPT !.pending = @ - 1, !.failed = @ \/ outcome = "failed"]

Failed(r) == [r EXCEPT !.failed = TRUE]

Closed(r) == [r EXCEPT !.closed = TRUE]

\* Mutant: a failed receipt counts once it is settled.
ReadyDespiteFailure(r) == r.closed /\ r.pending = 0

CommitReady(r) == r.closed /\ r.pending = 0 /\ ~r.failed

\* A receipt that can be part of the leading run of settled_prefix.
InRun(r) == r.checkpoint # NoCheckpoint /\ CommitReady(r)

\* Length of the leading run: the receipt after it, if any, is the fence.
SettledPrefix(rs) ==
    CHOOSE n \in 0..Len(rs) :
        /\ \A i \in 1..n : InRun(rs[i])
        /\ n < Len(rs) => ~InRun(rs[n + 1])

\* Mutant: the run's last checkpoint, though the fence may share it.
OffsetOfRunEnd(rs, n) == IF n = 0 THEN NoOffset ELSE rs[n].checkpoint

\* Mutant: with a fence behind the run nothing is committed.
OffsetOfWholeList(rs, n) ==
    IF n = 0 \/ n < Len(rs) THEN NoOffset ELSE rs[n].checkpoint

\* The durable offset of the leading run of length n.  Checkpoints of one
\* parse cycle tie, so only a checkpoint strictly below the fence's counts.
SettledRunOffset(rs, n) ==
    LET fence == rs[n + 1].checkpoint
        below == {i \in 1..n : rs[i].checkpoint < fence}
    IN  CASE n = 0 -> NoOffset
          [] n > 0 /\ n = Len(rs) -> rs[n].checkpoint
          [] n > 0 /\ n < Len(rs) /\ (fence = NoCheckpoint \/ below = {}) -> NoOffset
          [] OTHER -> rs[CHOOSE i \in below : \A j \in below : j <= i].checkpoint
=============================================================================
