---------------------------- MODULE ReceiptLedger ---------------------------
(***************************************************************************)
(* One session's receipt list in the monitor, with any number of durable   *)
(* consumers.  The monitor registers one receipt per consumer when a parse *)
(* cycle ends, consumers and queue workers move each receipt on in any     *)
(* order, and the monitor commits the leading settled run.  Receipts of    *)
(* one cycle share a checkpoint, which is what makes the commit delicate.  *)
(***************************************************************************)
EXTENDS DeliveryContract, FiniteSets

CONSTANTS
    MaxCheckpoint,  \* bound: transcript bytes parsed
    Consumers,      \* number of durable consumers of a batch
    MaxPending      \* bound: outbound tasks tracked at once by one receipt

ASSUME LedgerAssumption ==
    /\ MaxCheckpoint \in Nat
    /\ Consumers \in Nat \ {0}
    /\ MaxPending \in Nat

VARIABLES
    receipts,   \* _delivery_receipts[session], in registration order
    parsed,     \* TrackedSession.parsed_offset
    watermark   \* TrackedSession.last_byte_offset

vars == <<receipts, parsed, watermark>>

Init ==
    /\ receipts = <<>>
    /\ parsed = 0
    /\ watermark = 0

\* A parse cycle reached cp and every durable consumer gets a receipt for it.
Register(cp) ==
    /\ cp > parsed
    /\ receipts' = receipts \o [c \in 1..Consumers |-> NewReceipt(cp)]
    /\ parsed' = cp
    /\ UNCHANGED watermark

\* The consumer of receipt i hands one more task to a queue.
Track(i) ==
    /\ ~receipts[i].closed
    /\ receipts[i].pending < MaxPending
    /\ receipts' = [receipts EXCEPT ![i] = Tracked(@)]
    /\ UNCHANGED <<parsed, watermark>>

\* A worker finished one task of receipt i.
Settle(i, outcome) ==
    /\ receipts[i].pending > 0
    /\ receipts' = [receipts EXCEPT ![i] = Settled(@, outcome)]
    /\ UNCHANGED <<parsed, watermark>>

\* The consumer of receipt i returns; if it raised, the receipt failed.
CloseDispatch(i, raised) ==
    /\ ~receipts[i].closed
    /\ receipts' = [receipts EXCEPT ![i] = Closed(IF raised THEN Failed(@) ELSE @)]
    /\ UNCHANGED <<parsed, watermark>>

\* Mutant: "no offset" is not told from an offset.
CommitUnchecked ==
    LET n == SettledPrefix(receipts)
    IN  /\ receipts # <<>>
        /\ n > 0
        /\ watermark' = SettledRunOffset(receipts, n)
        /\ receipts' = SubSeq(receipts, n + 1, Len(receipts))
        /\ UNCHANGED parsed

\* The commit of one monitor cycle: persist the offset the settled run stands
\* for, when there is one, and forget the run.
Commit ==
    LET n == SettledPrefix(receipts)
        offset == SettledRunOffset(receipts, n)
    IN  /\ receipts # <<>>
        /\ n > 0
        /\ watermark' = IF offset = NoOffset THEN watermark ELSE offset
        /\ receipts' = SubSeq(receipts, n + 1, Len(receipts))
        /\ UNCHANGED parsed

\* A cancelled skip drops the receipts and reads again from the watermark.
ReplayFromWatermark ==
    /\ receipts' = <<>>
    /\ parsed' = watermark
    /\ UNCHANGED watermark

Next ==
    \/ \E cp \in 1..MaxCheckpoint : Register(cp)
    \/ \E i \in 1..Len(receipts) :
          \/ Track(i)
          \/ \E outcome \in Outcomes : Settle(i, outcome)
          \/ \E raised \in BOOLEAN : CloseDispatch(i, raised)
    \/ Commit
    \/ ReplayFromWatermark

Spec == Init /\ [][Next]_vars
-----------------------------------------------------------------------------
\* Every variable has its type.
TypeOK ==
    /\ receipts \in Seq(Receipt)
    /\ parsed \in Nat
    /\ watermark \in Nat

\* Replay from the persisted watermark reaches every receipt the monitor still
\* waits for: no unsettled, failed or tied receipt lies at or below it
\* (settled_run_offset, "only a checkpoint strictly below the fence's").
WatermarkBelowOutstanding ==
    \A i \in 1..Len(receipts) : watermark < receipts[i].checkpoint

\* Checkpoints of the list that every receipt at or below them allows.
SafeOffsets ==
    {receipts[i].checkpoint : i \in
        {k \in 1..Len(receipts) :
            \A j \in 1..Len(receipts) :
                receipts[j].checkpoint <= receipts[k].checkpoint => InRun(receipts[j])}}

\* settled_prefix and settled_run_offset together compute the largest offset
\* that is safe to persist, and none exactly when no offset is safe.
OffsetIsLargestSafe ==
    LET offset == SettledRunOffset(receipts, SettledPrefix(receipts))
    IN  IF SafeOffsets = {}
        THEN offset = NoOffset
        ELSE offset \in SafeOffsets /\ \A c \in SafeOffsets : c <= offset

\* A commit never moves the durable watermark backwards while the transcript
\* file is not replaced, whatever order the receipts were settled in.
WatermarkMonotone == [][watermark' >= watermark]_vars
=============================================================================
