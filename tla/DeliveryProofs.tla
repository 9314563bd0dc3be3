--------------------------- MODULE DeliveryProofs ---------------------------
(***************************************************************************)
(* Proofs about Delivery for every value of its constants, each from an    *)
(* invariant that rests on the ones before it:                             *)
(*   - the types: a task always carries a receipt, checkpoints stay inside *)
(*     the transcript, a clean monitor state is what its file holds;       *)
(*   - Tracks, Singles: a receipt waits for at least the tasks that carry  *)
(*     it, so that settling one never raises;                              *)
(*   - Places: durable position, watermark, checkpoints, parse position    *)
(*     and end of file keep this order, so that nothing is queued again    *)
(*     below the durable position;                                         *)
(*   - Accounts: every entry read is handled, or some receipt or batch     *)
(*     still owes it, so that the durable position covers no lost entry;   *)
(*   - Written: nothing beyond the file is handled; with the others this   *)
(*     makes Delivery an implementation of AtLeastOnce;                    *)
(*   - Pairs: a receipt that ends between a call and its result is behind  *)
(*     the fence, or ready together with those up to the result, so that   *)
(*     the durable position never parts the two.                           *)
(***************************************************************************)
EXTENDS Delivery, DeliveryContractProofs, FiniteSetTheorems

-----------------------------------------------------------------------------
\* Frame conditions: a group of variables no step touches keeps its types.

LEMMA EnvFrame == EnvTypes /\ UNCHANGED envVars => EnvTypes'
    BY DEF EnvTypes, envVars

LEMMA StateFrame == StateTypes /\ UNCHANGED stateVars => StateTypes'
    BY DEF StateTypes, stateVars

LEMMA ReaderFrame == ReaderTypes /\ UNCHANGED readerVars => ReaderTypes'
    BY DEF ReaderTypes, readerVars

LEMMA ReceiptFrame == ReceiptTypes /\ UNCHANGED receiptVars => ReceiptTypes'
    BY DEF ReceiptTypes, receiptVars

LEMMA WorkFrame == WorkTypes /\ UNCHANGED workVars => WorkTypes'
    BY DEF WorkTypes, workVars

LEMMA HistoryFrame ==
    HistoryTypes /\ UNCHANGED historyVars /\ UNCHANGED boundVars => HistoryTypes'
    BY DEF HistoryTypes, historyVars, boundVars

LEMMA PcFrame == PcTypes /\ UNCHANGED <<pc, reading, job>> => PcTypes'
    BY DEF PcTypes

-----------------------------------------------------------------------------
\* Receipts.

LEMMA FreshReceipt ==
    ASSUME NEW c \in Offsets
    PROVE  NewReceipt(c) \in Receipt /\ NewReceipt(c).checkpoint = c
    BY DeliveryAssumption DEF NewReceipt, Receipt, Offsets

\* Purging the queue changes counts only.
LEMMA PurgedReceipts ==
    ASSUME ReceiptTypes, WorkTypes, NEW slots \in SUBSET (1..Len(queue))
    PROVE  /\ PurgeSettled(slots) \in [Receipts -> Receipt]
           /\ \A r \in Receipts : PurgeSettled(slots)[r].checkpoint \in Offsets
<1>1. Len(queue) \in Nat
    BY LenProperties DEF WorkTypes
<1>2. ASSUME NEW r \in Receipts
      PROVE  /\ PurgeSettled(slots)[r] \in Receipt
             /\ PurgeSettled(slots)[r].checkpoint \in Offsets
    <2> DEFINE tasks == {i \in slots : r \in SeqRange(queue[i].receipts)}
               left == rcpt[r].pending - Cardinality(tasks)
    <2>1. IsFiniteSet(1..Len(queue)) /\ tasks \in SUBSET (1..Len(queue))
        <3>1. 1 \in Int /\ Len(queue) \in Int
            BY <1>1
        <3>2. IsFiniteSet(1..Len(queue))
            BY <3>1, FS_Interval
        <3> QED
            BY <3>2
    <2>2. Cardinality(tasks) \in Nat
        <3> HIDE DEF tasks
        <3> QED
            BY <2>1, FS_Subset, FS_CardinalityType
    <2>3. rcpt[r] \in Receipt /\ rcpt[r].checkpoint \in Offsets
        BY DEF ReceiptTypes
    <2>4. left \in Int
        BY <2>2, <2>3 DEF Receipt
    <2>5. PurgeSettled(slots)[r] = [rcpt[r] EXCEPT !.pending = left]
        BY DEF PurgeSettled
    <2> HIDE DEF left
    <2> QED
        BY <2>3, <2>4, <2>5 DEF Receipt
<1> QED
    BY <1>2 DEF PurgeSettled

\* The durable offset of the settled run is the checkpoint of a run receipt.
LEMMA RunOffset ==
    ASSUME NEW rs \in Seq(Receipt), NEW n \in 0..Len(rs), SettledRunOffset(rs, n) # NoOffset
    PROVE  \E k \in 1..Len(rs) : SettledRunOffset(rs, n) = rs[k].checkpoint
<1> DEFINE below == {i \in 1..n : rs[i].checkpoint < rs[n + 1].checkpoint}
           last == CHOOSE i \in below : \A j \in below : j <= i
<1>1. Len(rs) \in Nat /\ n \in Nat
    BY LenProperties
<1>2. n # 0
    BY <1>1 DEF SettledRunOffset
<1>3. CASE n = Len(rs)
    <2>1. SettledRunOffset(rs, n) = rs[n].checkpoint
        BY <1>1, <1>2, <1>3 DEF SettledRunOffset
    <2> QED
        BY <1>1, <1>2, <1>3, <2>1
<1>4. CASE n < Len(rs)
    <2>1. below # {} /\ SettledRunOffset(rs, n) = rs[last].checkpoint
        <3>1. n > 0 /\ n # Len(rs)
            BY <1>1, <1>2, <1>4
        <3>2. rs[n + 1].checkpoint = NoCheckpoint \/ below = {} => SettledRunOffset(rs, n) = NoOffset
            BY <3>1, <1>4 DEF SettledRunOffset
        <3>3. rs[n + 1].checkpoint # NoCheckpoint /\ below # {}
                  => SettledRunOffset(rs, n) = rs[last].checkpoint
            BY <3>1, <1>4 DEF SettledRunOffset
        <3> QED
            BY <3>2, <3>3
    <2>2. below \in SUBSET (1..n)
        OBVIOUS
    <2> HIDE DEF below
    <2>3. \E i \in below : \A j \in below : j <= i
        BY <1>1, <2>1, <2>2, GreatestNatural
    <2>4. last \in below
        BY <2>3
    <2>5. last \in 1..Len(rs)
        <3> HIDE DEF last
        <3>1. last \in 1..n
            BY <2>2, <2>4
        <3> QED
            BY <1>1, <1>4, <3>1
    <2> HIDE DEF last
    <2> QED
        BY <2>1, <2>5
<1> QED
    BY <1>1, <1>3, <1>4

-----------------------------------------------------------------------------
\* Parts shared by several actions.

LEMMA SaveOutcomesType == SaveOutcomes \subseteq BOOLEAN
    BY DEF SaveOutcomes

LEMMA SavedTypes ==
    ASSUME StateTypes, NEW c \in BOOLEAN, NEW w \in Offsets, NEW s \in Intent \cup {None},
           Saved(c, w, s)
    PROVE  /\ disk' \in [watermark : Offsets, skip : Intent \cup {None}]
           /\ dirty' \in BOOLEAN
<1>1. PICK ok \in SaveOutcomes :
         IF c /\ ok
         THEN disk' = [watermark |-> w, skip |-> s] /\ dirty' = FALSE
         ELSE disk' = disk /\ dirty' = c
    BY DEF Saved
<1>2. CASE c /\ ok
    <2>1. disk' = [watermark |-> w, skip |-> s] /\ dirty' = FALSE
        BY <1>1, <1>2, Zenon
    <2> QED
        BY <2>1
<1>3. CASE ~(c /\ ok)
    BY <1>1, <1>3 DEF StateTypes
<1> QED
    BY <1>2, <1>3

LEMMA FloorType ==
    ASSUME clamp \in Offsets, NEW w \in Offsets
    PROVE  ClampedFloor(w) \in Offsets
    BY DEF ClampedFloor

LEMMA ReplayTypes ==
    ASSUME ReaderTypes, NEW w \in Offsets, Replay(w), UNCHANGED <<reading, prefix, clamp, clampDone>>
    PROVE  ReaderTypes'
    BY FloorType DEF ReaderTypes, Replay

LEMMA DiscardTypes ==
    ASSUME ReceiptTypes, Discard, UNCHANGED rcpt
    PROVE  ReceiptTypes'
    BY EmptySeq DEF ReceiptTypes, Discard

LEMMA CancelTypes ==
    ASSUME StateTypes, ReaderTypes, ReceiptTypes, CancelPendingSkip,
           UNCHANGED <<aged, reading, prefix, clamp, clampDone, rcpt>>
    PROVE  StateTypes' /\ ReaderTypes' /\ ReceiptTypes'
<1>1. (dirty \/ skip # None) \in BOOLEAN /\ watermark \in Offsets
      /\ None \in Intent \cup {None} /\ Saved(dirty \/ skip # None, watermark, None)
    BY DEF StateTypes, CancelPendingSkip
<1>2. disk' \in [watermark : Offsets, skip : Intent \cup {None}] /\ dirty' \in BOOLEAN
    BY <1>1, SavedTypes
<1>3. StateTypes'
    BY <1>2 DEF StateTypes, CancelPendingSkip
<1>4. ReaderTypes'
    BY ReplayTypes DEF StateTypes, CancelPendingSkip
<1>5. ReceiptTypes'
    BY DiscardTypes DEF CancelPendingSkip
<1> QED
    BY <1>3, <1>4, <1>5

LEMMA CompleteTypes ==
    ASSUME StateTypes, ReaderTypes, ReceiptTypes, skipped \subseteq Entries,
           skip # None, CompleteSkip, UNCHANGED <<aged, reading, prefix, clamp, clampDone, rcpt>>
    PROVE  StateTypes' /\ ReaderTypes' /\ ReceiptTypes' /\ skipped' \subseteq Entries
<1> DEFINE target == IF skip.snapshot > watermark THEN skip.snapshot ELSE watermark
<1>1. skip.snapshot \in Offsets /\ target \in Offsets
    BY DEF StateTypes, Intent
<1>2. watermark' = target /\ skip' = None /\ Replay(target) /\ Discard
      /\ Saved(TRUE, target, None) /\ skipped' = skipped \cup 1..skip.snapshot
    BY DEF CompleteSkip
<1> HIDE DEF target
<1>3. StateTypes'
    BY <1>1, <1>2, SavedTypes DEF StateTypes
<1>4. ReaderTypes'
    BY <1>1, <1>2, ReplayTypes
<1>5. ReceiptTypes'
    BY <1>2, DiscardTypes
<1>6. skipped' \subseteq Entries
    <2>1. 1..skip.snapshot \subseteq Entries
        BY <1>1, DeliveryAssumption DEF Offsets, Entries
    <2> QED
        BY <1>2, <2>1
<1> QED
    BY <1>3, <1>4, <1>5, <1>6

LEMMA RetainedTasks ==
    ASSUME WorkTypes, NEW keep \in SUBSET (1..Len(queue)), NEW q \in Retained(keep)
    PROVE  q \in Seq(Task)
<1>1. Len(queue) \in Nat /\ queue \in Seq(Task)
    BY LenProperties DEF WorkTypes
<1>2. Cardinality(keep) \in Nat
    <2>1. 1 \in Int /\ Len(queue) \in Int
        BY <1>1
    <2>2. IsFiniteSet(1..Len(queue))
        BY <2>1, FS_Interval
    <2> QED
        BY <2>2, FS_Subset, FS_CardinalityType
<1> DEFINE n == Cardinality(keep)
<1>3. PICK f \in [1..n -> keep] : q = [k \in 1..n |-> queue[f[k]]]
    BY DEF Retained
<1> HIDE DEF n
<1>4. \A k \in 1..n : queue[f[k]] \in Task
    <2>1. \A k \in 1..n : f[k] \in 1..Len(queue)
        BY <1>3
    <2> QED
        BY <1>1, <2>1, ElementOfSeq
<1>5. n \in Nat
    BY <1>2 DEF n
<1> QED
    BY <1>3, <1>4, <1>5

LEMMA NoticeTask ==
    ASSUME NEW cp \in Offsets, NEW r \in Receipts
    PROVE  Notice(cp, r) \in Task
<1>1. <<r>> \in Seq(Receipts) \ {<<>>}
    OBVIOUS
<1>2. {} \in SUBSET Entries
    OBVIOUS
<1> QED
    BY <1>1, <1>2 DEF Notice, Task

\* The effect of EnqueueNotice on the queue and the receipts.
LEMMA EnqueueTypes ==
    ASSUME ReceiptTypes, NEW q \in Seq(Task), NEW objects \in [Receipts -> Receipt],
           \A r \in Receipts : objects[r].checkpoint \in Offsets,
           NEW s \in Intent, EnqueueNotice(q, objects, s), UNCHANGED order
    PROVE  ReceiptTypes' /\ queue' \in Seq(Task)
<1>1. s.snapshot \in Offsets
    BY DEF Intent
<1>2. CASE live
    <2>1. PICK r \in FreeReceipts :
             /\ rcpt' = [objects EXCEPT ![r] = Closed(Tracked(NewReceipt(s.snapshot)))]
             /\ queue' = Append(q, Notice(s.snapshot, r))
             /\ notice' = r
             /\ retrying' = FALSE
        BY <1>2 DEF EnqueueNotice
    <2>2. r \in Receipts
        BY DEF FreeReceipts
    <2> DEFINE c == Closed(Tracked(NewReceipt(s.snapshot)))
    <2>3. c \in Receipt /\ c.checkpoint \in Offsets
        BY <1>1, FreshReceipt, ReceiptOperations
    <2>4. rcpt' = [objects EXCEPT ![r] = c]
        BY <2>1
    <2> HIDE DEF c
    <2>5. rcpt' \in [Receipts -> Receipt]
          /\ \A x \in Receipts : rcpt'[x].checkpoint \in Offsets
        BY <2>2, <2>3, <2>4
    <2>6. queue' \in Seq(Task)
        BY <1>1, <2>1, <2>2, NoticeTask, AppendProperties
    <2> QED
        BY <2>1, <2>2, <2>5, <2>6 DEF ReceiptTypes
<1>3. CASE ~live
    BY <1>3 DEF EnqueueNotice, ReceiptTypes
<1> QED
    BY <1>2, <1>3

LEMMA PurgeTypes ==
    ASSUME StateTypes, ReceiptTypes, WorkTypes, NEW s \in Intent,
           NEW onDisk \in [watermark : Offsets, skip : Intent \cup {None}],
           PurgeThenNotice(s, onDisk), aged' \in BOOLEAN,
           UNCHANGED <<watermark, order, job, flight>>
    PROVE  StateTypes' /\ ReceiptTypes' /\ WorkTypes'
<1> DEFINE slots == PurgedSlots(s.snapshot)
           purged == [s EXCEPT !.purged = TRUE]
<1>1. PICK q \in Retained((1..Len(queue)) \ slots), ok \in SaveOutcomes :
         IF ok
         THEN /\ disk' = [watermark |-> watermark, skip |-> purged]
              /\ dirty' = FALSE
              /\ skip' = purged
              /\ EnqueueNotice(q, PurgeSettled(slots), purged)
         ELSE /\ disk' = onDisk
              /\ dirty' = TRUE
              /\ skip' = s
              /\ queue' = q
              /\ rcpt' = PurgeSettled(slots)
              /\ notice' = notice
              /\ retrying' = TRUE
    BY DEF PurgeThenNotice
<1>2. slots \in SUBSET (1..Len(queue)) /\ purged \in Intent
    BY DEF PurgedSlots, Intent
<1> HIDE DEF slots, purged
<1>3. q \in Seq(Task)
    BY <1>2, RetainedTasks
<1>4. /\ PurgeSettled(slots) \in [Receipts -> Receipt]
      /\ \A r \in Receipts : PurgeSettled(slots)[r].checkpoint \in Offsets
    BY <1>2, PurgedReceipts
<1>5. CASE ok
    <2>0. /\ disk' = [watermark |-> watermark, skip |-> purged]
          /\ dirty' = FALSE /\ skip' = purged /\ watermark' = watermark
        BY <1>1, <1>5
    <2>1. StateTypes'
        BY <1>2, <2>0 DEF StateTypes
    <2>2. ReceiptTypes' /\ queue' \in Seq(Task)
        BY <1>1, <1>2, <1>3, <1>4, <1>5, EnqueueTypes
    <2> QED
        BY <2>1, <2>2 DEF WorkTypes
<1>6. CASE ~ok
    BY <1>1, <1>3, <1>4, <1>6 DEF StateTypes, ReceiptTypes, WorkTypes
<1> QED
    BY <1>5, <1>6

LEMMA SettleTypes ==
    ASSUME ReceiptTypes, WorkTypes, HistoryTypes, flight # None, NEW outcome,
           SettleFlight(outcome), UNCHANGED <<order, notice, retrying, skipped, crashes, jumps>>
    PROVE  ReceiptTypes' /\ HistoryTypes' /\ flight' = None
<1>1. rcpt' = [r \in Receipts |-> IF r \in SettlementReceipts(flight.task)
                                 THEN Settled(rcpt[r], outcome) ELSE rcpt[r]]
    BY DEF SettleFlight
<1>2. \A r \in Receipts : rcpt[r] \in Receipt /\ rcpt[r].checkpoint \in Offsets
    BY DEF ReceiptTypes
<1>3. \A r \in Receipts : /\ Settled(rcpt[r], outcome) \in Receipt
                          /\ Settled(rcpt[r], outcome).checkpoint \in Offsets
    BY <1>2, SettledReceipt
<1>4. rcpt' \in [Receipts -> Receipt] /\ \A r \in Receipts : rcpt'[r].checkpoint \in Offsets
    BY <1>1, <1>2, <1>3
<1>5. ReceiptTypes'
    BY <1>4 DEF ReceiptTypes
<1>6. flight.task.entries \subseteq Entries
    BY DEF WorkTypes, Task
<1>7. delivered' \subseteq Entries
    BY <1>6 DEF SettleFlight, HistoryTypes
<1>8. acked' \in BOOLEAN
    <2>1. acked' = (acked \/ (outcome = "delivered"
                                   /\ notice \in SettlementReceipts(flight.task)))
        BY DEF SettleFlight
    <2> QED
        BY <2>1, Zenon
<1>9. flight' = None
    BY DEF SettleFlight
<1> QED
    BY <1>5, <1>7, <1>8, <1>9 DEF HistoryTypes

-----------------------------------------------------------------------------
\* Each action preserves the types.

LEMMA EnvironmentTypes == ASSUME TypeOK, Environment PROVE TypeOK'
<1>1. CASE AgentWrites
    <2>1. EnvTypes'
        BY <1>1, DeliveryAssumption DEF TypeOK, EnvTypes, AgentWrites, Offsets
    <2> QED
        BY <1>1, <2>1, StateFrame, ReaderFrame, ReceiptFrame, WorkFrame, HistoryFrame, PcFrame
        DEF TypeOK, AgentWrites, readerVars, workVars
<1>2. CASE Rebind
    <2>1. EnvTypes'
        BY <1>2 DEF TypeOK, EnvTypes, Rebind
    <2> QED
        BY <1>2, <2>1, StateFrame, ReaderFrame, ReceiptFrame, WorkFrame, HistoryFrame, PcFrame
        DEF TypeOK, Rebind, readerVars, workVars
<1>3. CASE WindowChanges
    <2>1. EnvTypes'
        BY <1>3 DEF TypeOK, EnvTypes, WindowChanges
    <2> QED
        BY <1>3, <2>1, StateFrame, ReaderFrame, ReceiptFrame, WorkFrame, HistoryFrame, PcFrame
        DEF TypeOK, WindowChanges, readerVars, workVars
<1>4. CASE BarrierAges
    <2>1. StateTypes'
        BY <1>4 DEF TypeOK, StateTypes, BarrierAges
    <2> QED
        BY <1>4, <2>1, EnvFrame, ReaderFrame, ReceiptFrame, WorkFrame, HistoryFrame, PcFrame
        DEF TypeOK, BarrierAges, readerVars, workVars
<1> QED
    BY <1>1, <1>2, <1>3, <1>4 DEF Environment

LEMMA RequestSkipTypes == ASSUME TypeOK, RequestSkip PROVE TypeOK'
<1> DEFINE intent == [snapshot |-> eof, purged |-> FALSE]
<1>1. /\ EnvTypes' /\ ReaderTypes' /\ PcTypes'
      BY EnvFrame, ReaderFrame, PcFrame DEF RequestSkip, TypeOK, readerVars
<1>2. intent \in Intent
    BY DEF TypeOK, EnvTypes, Intent
<1>3. CASE Saved(TRUE, watermark, None)
            /\ UNCHANGED <<skip, aged, acked, queue, receiptVars>>
    <2>1. disk' \in [watermark : Offsets, skip : Intent \cup {None}] /\ dirty' \in BOOLEAN
        BY <1>3, SavedTypes DEF TypeOK, StateTypes
    <2>2. StateTypes'
        BY <1>3, <2>1 DEF TypeOK, StateTypes, RequestSkip
    <2>3. ReceiptTypes' /\ WorkTypes'
        BY <1>3, ReceiptFrame, WorkFrame DEF TypeOK, RequestSkip, workVars
    <2>4. HistoryTypes'
        BY <1>3 DEF TypeOK, HistoryTypes, RequestSkip
    <2> QED
        BY <1>1, <2>2, <2>3, <2>4 DEF TypeOK
<1>4. CASE /\ PurgeThenNotice(intent, [watermark |-> watermark, skip |-> intent])
           /\ aged' = FALSE
           /\ acked' = FALSE
           /\ UNCHANGED order
    <2>1. [watermark |-> watermark, skip |-> intent]
              \in [watermark : Offsets, skip : Intent \cup {None}]
        BY <1>2 DEF TypeOK, StateTypes
    <2>2. StateTypes' /\ ReceiptTypes' /\ WorkTypes'
        <3>1. UNCHANGED <<watermark, order, job, flight>> /\ aged' \in BOOLEAN
            BY <1>4 DEF RequestSkip
        <3> HIDE DEF intent
        <3> QED
            BY <1>2, <1>4, <2>1, <3>1, PurgeTypes DEF TypeOK
    <2>3. HistoryTypes'
        <3>1. jumps' = jumps + 1 /\ acked' = FALSE /\ UNCHANGED <<delivered, skipped, crashes>>
            BY <1>4 DEF RequestSkip
        <3>2. jumps' \in Nat
            BY <3>1 DEF TypeOK, HistoryTypes
        <3>3. acked' \in BOOLEAN
            BY <3>1
        <3> QED
            BY <3>1, <3>2, <3>3 DEF TypeOK, HistoryTypes
    <2> QED
        BY <1>1, <2>2, <2>3 DEF TypeOK
<1> QED
    BY <1>3, <1>4 DEF RequestSkip

LEMMA WakeTypes == ASSUME TypeOK, Wake PROVE TypeOK'
    BY EnvFrame, StateFrame, ReaderFrame, ReceiptFrame, WorkFrame, HistoryFrame
    DEF TypeOK, PcTypes, Wake

LEMMA ResumeSkipTypes == ASSUME TypeOK, ResumeSkip PROVE TypeOK'
<1>1. EnvTypes' /\ PcTypes'
    BY EnvFrame DEF TypeOK, PcTypes, ResumeSkip
<1>2. UNCHANGED <<job, flight, delivered, acked, boundVars>>
    BY DEF ResumeSkip
<1>3. CASE UNCHANGED <<stateVars, readerVars, receiptVars, queue, skipped>>
    BY <1>1, <1>2, <1>3, StateFrame, ReaderFrame, ReceiptFrame, WorkFrame, HistoryFrame
    DEF TypeOK, workVars, historyVars
<1>4. CASE /\ CancelPendingSkip
           /\ UNCHANGED <<aged, reading, prefix, clamp, clampDone, rcpt, queue>>
    <2>1. StateTypes' /\ ReaderTypes' /\ ReceiptTypes'
        BY <1>4, CancelTypes DEF TypeOK
    <2>2. UNCHANGED skipped
        BY <1>4 DEF CancelPendingSkip
    <2> QED
        BY <1>1, <1>2, <1>4, <2>1, <2>2, WorkFrame, HistoryFrame
        DEF TypeOK, workVars, historyVars
<1>5. CASE /\ skip # None
           /\ PurgeThenNotice(skip, disk)
           /\ UNCHANGED <<watermark, aged, readerVars, order, skipped>>
    <2>1. skip \in Intent /\ disk \in [watermark : Offsets, skip : Intent \cup {None}]
          /\ aged' \in BOOLEAN
        BY <1>5 DEF TypeOK, StateTypes
    <2>2. StateTypes' /\ ReceiptTypes' /\ WorkTypes'
        BY <1>2, <1>5, <2>1, PurgeTypes DEF TypeOK
    <2> QED
        BY <1>1, <1>2, <1>5, <2>2, ReaderFrame, HistoryFrame DEF TypeOK, historyVars
<1>6. CASE /\ skip # None
           /\ EnqueueNotice(queue, rcpt, skip)
           /\ UNCHANGED <<stateVars, readerVars, order, skipped>>
    <2>1. skip \in Intent /\ rcpt \in [Receipts -> Receipt] /\ queue \in Seq(Task)
          /\ \A r \in Receipts : rcpt[r].checkpoint \in Offsets
        BY <1>6 DEF TypeOK, StateTypes, ReceiptTypes, WorkTypes
    <2>2. ReceiptTypes' /\ queue' \in Seq(Task)
        BY <1>6, <2>1, EnqueueTypes DEF TypeOK
    <2>3. WorkTypes'
        BY <1>2, <2>2 DEF TypeOK, WorkTypes
    <2> QED
        BY <1>1, <1>2, <1>6, <2>2, <2>3, StateFrame, ReaderFrame, HistoryFrame
        DEF TypeOK, historyVars
<1> QED
    BY <1>3, <1>4, <1>5, <1>6 DEF ResumeSkip

LEMMA ExpireSkipTypes == ASSUME TypeOK, ExpireSkip PROVE TypeOK'
<1>1. EnvTypes' /\ WorkTypes' /\ PcTypes'
    BY EnvFrame, WorkFrame DEF TypeOK, PcTypes, ExpireSkip
<1>2. UNCHANGED <<rcpt, delivered, acked, boundVars>>
    BY DEF ExpireSkip
<1>3. CASE UNCHANGED <<stateVars, readerVars, order, notice, retrying, skipped>>
    BY <1>1, <1>2, <1>3, StateFrame, ReaderFrame, ReceiptFrame, HistoryFrame
    DEF TypeOK, receiptVars, historyVars
<1>4. CASE CancelPendingSkip /\ UNCHANGED <<aged, reading, prefix, clamp, clampDone>>
    <2>1. StateTypes' /\ ReaderTypes' /\ ReceiptTypes'
        BY <1>2, <1>4, CancelTypes DEF TypeOK
    <2>2. UNCHANGED skipped
        BY <1>4 DEF CancelPendingSkip
    <2> QED
        BY <1>1, <1>2, <2>1, <2>2, HistoryFrame DEF TypeOK, historyVars
<1>5. CASE skip # None /\ CompleteSkip /\ UNCHANGED <<aged, reading, prefix, clamp, clampDone>>
    <2>1. StateTypes' /\ ReaderTypes' /\ ReceiptTypes' /\ skipped' \subseteq Entries
        BY <1>2, <1>5, CompleteTypes DEF TypeOK, HistoryTypes
    <2>2. HistoryTypes'
        BY <1>2, <2>1 DEF TypeOK, HistoryTypes, boundVars
    <2> QED
        BY <1>1, <2>1, <2>2 DEF TypeOK
<1> QED
    BY <1>3, <1>4, <1>5 DEF ExpireSkip, Expired

LEMMA CommitSkipsTypes == ASSUME TypeOK, CommitSkips PROVE TypeOK'
<1>1. EnvTypes' /\ WorkTypes'
    BY EnvFrame, WorkFrame DEF TypeOK, CommitSkips
<1>2. UNCHANGED <<rcpt, delivered, acked, boundVars>>
    BY DEF CommitSkips
<1>3. pc' \in {"read", "prefix", "lastPrefix"}
    BY DEF CommitSkips, CommitPoints
<1>4. PcTypes'
    BY <1>3 DEF PcTypes
<1>5. CASE UNCHANGED <<stateVars, readerVars, order, notice, retrying, skipped>>
    BY <1>1, <1>2, <1>4, <1>5, StateFrame, ReaderFrame, ReceiptFrame, HistoryFrame
    DEF TypeOK, receiptVars, historyVars
<1>6. CASE /\ notice' = None
           /\ retrying' = TRUE
           /\ UNCHANGED <<stateVars, readerVars, order, skipped>>
    <2>1. ReceiptTypes'
        BY <1>2, <1>6 DEF TypeOK, ReceiptTypes
    <2> QED
        BY <1>1, <1>2, <1>4, <1>6, <2>1, StateFrame, ReaderFrame, HistoryFrame
        DEF TypeOK, historyVars
<1>7. CASE CancelPendingSkip /\ UNCHANGED <<aged, reading, prefix, clamp, clampDone>>
    <2>1. StateTypes' /\ ReaderTypes' /\ ReceiptTypes'
        BY <1>2, <1>7, CancelTypes DEF TypeOK
    <2>2. UNCHANGED skipped
        BY <1>7 DEF CancelPendingSkip
    <2> QED
        BY <1>1, <1>2, <1>4, <2>1, <2>2, HistoryFrame DEF TypeOK, historyVars
<1>8. CASE skip # None /\ CompleteSkip /\ UNCHANGED <<aged, reading, prefix, clamp, clampDone>>
    <2>1. StateTypes' /\ ReaderTypes' /\ ReceiptTypes' /\ skipped' \subseteq Entries
        BY <1>2, <1>8, CompleteTypes DEF TypeOK, HistoryTypes
    <2>2. HistoryTypes'
        BY <1>2, <2>1 DEF TypeOK, HistoryTypes, boundVars
    <2> QED
        BY <1>1, <1>4, <2>1, <2>2 DEF TypeOK
<1> QED
    BY <1>5, <1>6, <1>7, <1>8 DEF CommitSkips

LEMMA ParsePosType ==
    ASSUME StateTypes, ReaderTypes PROVE ParsePos \in Offsets
    BY DeliveryAssumption DEF ParsePos, StateTypes, ReaderTypes, Offsets

LEMMA ReadBeginTypes == ASSUME TypeOK, ReadBegin PROVE TypeOK'
<1> DEFINE over == ~clampDone /\ ReplayLimit > 0 /\ eof - ParsePos > ReplayLimit
           from == IF over THEN eof ELSE ParsePos
<1>1. EnvTypes' /\ StateTypes' /\ ReceiptTypes' /\ WorkTypes'
    BY EnvFrame, StateFrame, ReceiptFrame, WorkFrame DEF TypeOK, ReadBegin
<1>2. UNCHANGED <<batch, prefix, openCalls, toolFence, delivered, acked, crashes, jumps>>
    BY DEF ReadBegin, boundVars
<1>3. ParsePos \in Offsets /\ eof \in Offsets /\ from \in Offsets
    BY ParsePosType DEF TypeOK, EnvTypes
<1>4. CASE /\ pc' = "register"
           /\ UNCHANGED <<parsed, reading, rebuild, clamp, clampDone, skipped>>
    BY <1>1, <1>2, <1>4 DEF TypeOK, ReaderTypes, HistoryTypes, PcTypes
<1>5. CASE /\ clampDone' = TRUE
           /\ parsed' = IF over THEN eof ELSE parsed
           /\ clamp' = IF over THEN eof ELSE clamp
           /\ rebuild' = (rebuild \/ over)
           /\ skipped' = IF over THEN skipped \cup (ParsePos + 1)..eof ELSE skipped
           /\ \/ pc' = "register" /\ UNCHANGED reading
              \/ pc' = "reading" /\ reading' = [from |-> from, seen |-> eof]
    <2>1. rebuild' \in BOOLEAN
        <3> HIDE DEF over
        <3> QED
            BY <1>5, Zenon
    <2>2. (ParsePos + 1)..eof \subseteq Entries
        BY <1>3, DeliveryAssumption DEF Offsets, Entries
    <2> HIDE DEF over
    <2>3. skipped' \subseteq Entries
        BY <1>5, <2>2 DEF TypeOK, HistoryTypes
    <2>4. [from |-> from, seen |-> eof] \in Read
        BY <1>3 DEF Read
    <2> HIDE DEF from
    <2>5. reading' \in Read \cup {None} /\ (pc' = "reading" => reading' # None)
          /\ pc' \in {"register", "reading"}
        BY <1>5, <2>4, DeliveryAssumption DEF TypeOK, ReaderTypes
    <2>6. ReaderTypes'
        BY <1>2, <1>3, <1>5, <2>1, <2>5 DEF TypeOK, ReaderTypes
    <2>7. HistoryTypes'
        BY <1>2, <2>3 DEF TypeOK, HistoryTypes
    <2>8. PcTypes'
        BY <2>5 DEF PcTypes
    <2> QED
        BY <1>1, <2>6, <2>7, <2>8 DEF TypeOK
<1> QED
    <2> HIDE DEF over
    <2> SUFFICES ASSUME ~(/\ pc' = "register"
                          /\ UNCHANGED <<parsed, reading, rebuild, clamp, clampDone, skipped>>)
                 PROVE  TypeOK'
        BY <1>4
    <2> QED
        BY <1>5 DEF ReadBegin, over

LEMMA OpenCalls ==
    ASSUME NEW calls \in SUBSET Calls, NEW new PROVE OpenAfter(calls, new) \subseteq Calls
    BY DEF OpenAfter

LEMMA FenceType ==
    ASSUME NEW hi \in Offsets, NEW open,
           NEW fence \in [call : Offsets, release : Offsets \cup {NoCheckpoint}] \cup {None}
    PROVE  NextFence(fence, open, hi)
               \in [call : Offsets, release : Offsets \cup {NoCheckpoint}] \cup {None}
    BY DEF NextFence

LEMMA ReadEndTypes == ASSUME TypeOK, ReadEnd PROVE TypeOK'
<1>1. EnvTypes' /\ ReceiptTypes' /\ WorkTypes' /\ HistoryTypes'
    BY EnvFrame, ReceiptFrame, WorkFrame, HistoryFrame DEF TypeOK, ReadEnd
<1>2. pc' = "register" /\ reading' = None /\ dirty' = TRUE
      /\ UNCHANGED <<disk, watermark, skip, aged, clamp, clampDone>>
    BY DEF ReadEnd
<1>3. StateTypes' /\ PcTypes'
    BY <1>2 DEF TypeOK, StateTypes, PcTypes
<1>4. reading \in Read
    BY DEF TypeOK, ReaderTypes, PcTypes, ReadEnd
<1> DEFINE new(hi) == (reading.from + 1)..hi
           fence == IF rebuild THEN None ELSE toolFence
           open(hi) == OpenAfter(IF rebuild THEN {} ELSE openCalls, new(hi))
           Fences == [call : Offsets, release : Offsets \cup {NoCheckpoint}]
<1>5. PICK hi \in reading.seen..eof :
          /\ parsed' = hi
          /\ rebuild' = FALSE
          /\ openCalls' = open(hi)
          /\ toolFence' = IF new(hi) = {} THEN fence ELSE NextFence(fence, open(hi), hi)
          /\ batch' = IF new(hi) = {} THEN batch ELSE [from |-> reading.from, hi |-> hi]
          /\ prefix' = hi \/ prefix' \in hi..eof
    BY DEF ReadEnd
<1>6. hi \in Offsets /\ reading.from \in Offsets
    BY <1>4, DeliveryAssumption DEF TypeOK, EnvTypes, Read, Offsets
<1>7. new(hi) # {} => hi \in Entries
    BY <1>6, DeliveryAssumption DEF Offsets, Entries
<1>8. prefix' \in Offsets
    BY <1>5, <1>6, DeliveryAssumption DEF TypeOK, EnvTypes, Offsets
<1>9. open(hi) \subseteq Calls /\ fence \in Fences \cup {None}
    <2>1. (IF rebuild THEN {} ELSE openCalls) \in SUBSET Calls
        BY DEF TypeOK, ReaderTypes
    <2> QED
        BY <2>1, OpenCalls DEF TypeOK, ReaderTypes
<1>10. NextFence(fence, open(hi), hi) \in Fences \cup {None}
    <2> HIDE DEF open, fence
    <2> QED
        BY <1>6, <1>9, FenceType
<1> HIDE DEF new, fence, open
<1>11. batch' \in [from : Offsets, hi : Entries] \cup {None}
    BY <1>5, <1>6, <1>7 DEF TypeOK, ReaderTypes
<1>12. ReaderTypes'
    BY <1>2, <1>5, <1>6, <1>8, <1>9, <1>10, <1>11 DEF TypeOK, ReaderTypes
<1> QED
    BY <1>1, <1>3, <1>12 DEF TypeOK

LEMMA GrowthTypes == ASSUME TypeOK, GrowthTakenForReplacement PROVE TypeOK'
<1>1. EnvTypes' /\ WorkTypes'
    BY EnvFrame, WorkFrame DEF TypeOK, GrowthTakenForReplacement
<1>2. /\ pc' = "register" /\ reading' = None /\ clamp' = 0
      /\ UNCHANGED <<disk, watermark, skip, aged, clampDone, rcpt, delivered, acked,
                     crashes, jumps>>
    BY DEF GrowthTakenForReplacement, boundVars
<1>3. PcTypes' /\ 0 \in Offsets
    BY <1>2, DeliveryAssumption DEF PcTypes, Offsets
<1>4. reading \in Read
    BY DEF TypeOK, ReaderTypes, PcTypes, GrowthTakenForReplacement
<1> DEFINE open(past, hi) == OpenAfter({}, (past + 1)..hi)
<1>5. PICK past \in (reading.seen + 1)..eof :
          /\ skipped' = skipped \cup (reading.from + 1)..past
          /\ \/ \E hi \in past..eof :
                   /\ parsed' = hi
                   /\ prefix' = hi
                   /\ rebuild' = FALSE
                   /\ openCalls' = open(past, hi)
                   /\ toolFence' = NextFence(None, open(past, hi), hi)
                   /\ batch' = [from |-> past, hi |-> hi]
                   /\ dirty' = TRUE
                   /\ Discard
             \/ /\ parsed' = past
                /\ UNCHANGED <<prefix, rebuild, openCalls, toolFence, batch, dirty, order,
                               notice, retrying>>
    BY DEF GrowthTakenForReplacement
<1>6. past \in Entries /\ past \in Offsets /\ eof \in Offsets /\ reading.from \in Offsets
    BY <1>4, DeliveryAssumption DEF TypeOK, EnvTypes, Read, Offsets, Entries
<1>7. HistoryTypes'
    <2>1. (reading.from + 1)..past \subseteq Entries
        BY <1>6, DeliveryAssumption DEF Offsets, Entries
    <2> QED
        BY <1>2, <1>5, <2>1 DEF TypeOK, HistoryTypes
<1>8. CASE \E hi \in past..eof :
              /\ parsed' = hi
              /\ prefix' = hi
              /\ rebuild' = FALSE
              /\ openCalls' = open(past, hi)
              /\ toolFence' = NextFence(None, open(past, hi), hi)
              /\ batch' = [from |-> past, hi |-> hi]
              /\ dirty' = TRUE
              /\ Discard
    <2>1. PICK hi \in past..eof :
              /\ parsed' = hi
              /\ prefix' = hi
              /\ rebuild' = FALSE
              /\ openCalls' = open(past, hi)
              /\ toolFence' = NextFence(None, open(past, hi), hi)
              /\ batch' = [from |-> past, hi |-> hi]
              /\ dirty' = TRUE
              /\ Discard
        BY <1>8
    <2>2. hi \in Entries /\ hi \in Offsets
        BY <1>6, DeliveryAssumption DEF Offsets, Entries
    <2>3. open(past, hi) \subseteq Calls
        BY OpenCalls
    <2>4. toolFence' \in [call : Offsets, release : Offsets \cup {NoCheckpoint}] \cup {None}
        <3> HIDE DEF open
        <3> QED
            BY <2>1, <2>2, FenceType
    <2> HIDE DEF open
    <2>5. batch' \in [from : Offsets, hi : Entries] \cup {None}
        BY <1>6, <2>1, <2>2
    <2>6. ReaderTypes'
        BY <1>2, <1>3, <2>1, <2>2, <2>3, <2>4, <2>5 DEF TypeOK, ReaderTypes
    <2>7. StateTypes' /\ ReceiptTypes'
        BY <1>2, <2>1, DiscardTypes DEF TypeOK, StateTypes
    <2> QED
        BY <1>1, <1>3, <1>7, <2>6, <2>7 DEF TypeOK
<1>9. CASE /\ parsed' = past
           /\ UNCHANGED <<prefix, rebuild, openCalls, toolFence, batch, dirty, order,
                          notice, retrying>>
    <2>1. ReaderTypes'
        BY <1>2, <1>3, <1>6, <1>9 DEF TypeOK, ReaderTypes
    <2>2. StateTypes' /\ ReceiptTypes'
        BY <1>2, <1>9 DEF TypeOK, StateTypes, ReceiptTypes
    <2> QED
        BY <1>1, <1>3, <1>7, <2>1, <2>2 DEF TypeOK
<1> QED
    BY <1>5, <1>8, <1>9

LEMMA RebuildFailsTypes == ASSUME TypeOK, RebuildFails PROVE TypeOK'
<1>1. EnvTypes' /\ ReceiptTypes' /\ WorkTypes' /\ HistoryTypes'
    BY EnvFrame, ReceiptFrame, WorkFrame, HistoryFrame DEF TypeOK, RebuildFails
<1>2. StateTypes' /\ PcTypes'
    BY DEF TypeOK, StateTypes, PcTypes, RebuildFails
<1>3. prefix' \in Offsets
    <2>1. reading \in Read /\ prefix' \in reading.seen..eof
        BY DEF TypeOK, ReaderTypes, PcTypes, RebuildFails
    <2> QED
        BY <2>1, DeliveryAssumption DEF TypeOK, EnvTypes, Read, Offsets
<1>4. ReaderTypes'
    BY <1>3, FloorType DEF TypeOK, StateTypes, ReaderTypes, RebuildFails
<1> QED
    BY <1>1, <1>2, <1>4 DEF TypeOK

LEMMA ReadFailsTypes == ASSUME TypeOK, ReadFails PROVE TypeOK'
<1>1. EnvTypes' /\ StateTypes' /\ ReceiptTypes' /\ WorkTypes' /\ HistoryTypes'
    BY EnvFrame, StateFrame, ReceiptFrame, WorkFrame, HistoryFrame DEF TypeOK, ReadFails
<1>2. PcTypes' /\ ReaderTypes'
    BY DEF TypeOK, PcTypes, ReaderTypes, ReadFails
<1> QED
    BY <1>1, <1>2 DEF TypeOK

LEMMA ReadFailsLateTypes == ASSUME TypeOK, ReadFailsLate PROVE TypeOK'
<1>1. EnvTypes' /\ StateTypes' /\ ReceiptTypes' /\ WorkTypes' /\ HistoryTypes'
    BY EnvFrame, StateFrame, ReceiptFrame, WorkFrame, HistoryFrame DEF TypeOK, ReadFailsLate
<1>2. parsed' \in Offsets
    <2>1. reading \in Read /\ parsed' \in reading.seen..eof
        BY DEF TypeOK, ReaderTypes, PcTypes, ReadFailsLate
    <2> QED
        BY <2>1, DeliveryAssumption DEF TypeOK, EnvTypes, Read, Offsets
<1>3. PcTypes' /\ ReaderTypes'
    BY <1>2 DEF TypeOK, PcTypes, ReaderTypes, ReadFailsLate
<1> QED
    BY <1>1, <1>3 DEF TypeOK

LEMMA RegisterTypes == ASSUME TypeOK, Register PROVE TypeOK'
<1>1. EnvTypes' /\ HistoryTypes'
    BY EnvFrame, HistoryFrame DEF TypeOK, Register
<1>2. UNCHANGED <<watermark, skip, aged, parsed, reading, rebuild, prefix, clamp, clampDone, openCalls,
                  toolFence, notice, retrying, queue, flight>> /\ batch' = None
    BY DEF Register
<1>3. disk' \in [watermark : Offsets, skip : Intent \cup {None}] /\ dirty' \in BOOLEAN
    BY SavedTypes DEF TypeOK, StateTypes, Register
<1>4. StateTypes' /\ ReaderTypes'
    BY <1>2, <1>3 DEF TypeOK, StateTypes, ReaderTypes
<1>5. CASE batch = None /\ pc' = "commit" /\ UNCHANGED <<rcpt, order, job>>
    BY <1>1, <1>2, <1>4, <1>5 DEF TypeOK, ReceiptTypes, WorkTypes, PcTypes
<1>6. CASE /\ batch # None
           /\ pc' = "dispatch"
           /\ \E r \in FreeReceipts :
                 /\ rcpt' = [rcpt EXCEPT ![r] = NewReceipt(batch.hi)]
                 /\ order' = Append(order, r)
                 /\ job' = [receipt |-> r, next |-> batch.from + 1, last |-> batch.hi]
    <2>1. PICK r \in Receipts :
             /\ rcpt' = [rcpt EXCEPT ![r] = NewReceipt(batch.hi)]
             /\ order' = Append(order, r)
             /\ job' = [receipt |-> r, next |-> batch.from + 1, last |-> batch.hi]
        BY <1>6 DEF FreeReceipts
    <2>2. batch.from \in Offsets /\ batch.hi \in Entries
        BY <1>6 DEF TypeOK, ReaderTypes
    <2>3. batch.from + 1 \in 1..(MaxLen + 1) /\ batch.hi \in Offsets
        BY <2>2, DeliveryAssumption DEF Offsets, Entries
    <2>4. job' \in Dispatch
        BY <2>1, <2>2, <2>3 DEF Dispatch
    <2>5. NewReceipt(batch.hi) \in Receipt /\ NewReceipt(batch.hi).checkpoint \in Offsets
        BY <2>3, FreshReceipt
    <2>6. ReceiptTypes'
        BY <1>2, <2>1, <2>5, AppendProperties DEF TypeOK, ReceiptTypes
    <2>7. WorkTypes'
        BY <1>2, <2>4 DEF TypeOK, WorkTypes
    <2>8. PcTypes'
        BY <1>6, <2>4, DeliveryAssumption DEF PcTypes
    <2> QED
        BY <1>1, <1>4, <2>6, <2>7, <2>8 DEF TypeOK
<1> QED
    BY <1>5, <1>6 DEF Register

\* A content task of an entry that is being dispatched.
LEMMA ContentTask ==
    ASSUME NEW e \in Entries, NEW cp \in Offsets, NEW r \in Receipts
    PROVE  Content(e, cp, r) \in Task
<1>1. <<r>> \in Seq(Receipts) \ {<<>>} /\ {e} \in SUBSET Entries
    OBVIOUS
<1> QED
    BY <1>1 DEF Content, Task

LEMMA RouteEntryTypes == ASSUME TypeOK, RouteEntry PROVE TypeOK'
<1>1. EnvTypes' /\ StateTypes' /\ ReaderTypes'
    BY EnvFrame, StateFrame, ReaderFrame DEF TypeOK, RouteEntry
<1>2. job \in Dispatch
    BY DEF TypeOK, WorkTypes, PcTypes, RouteEntry
<1>3. UNCHANGED <<pc, reading, order, notice, retrying, flight, skipped, acked, crashes, jumps>>
      /\ job' = [job EXCEPT !.next = @ + 1] /\ job.next <= job.last
    BY DEF RouteEntry, readerVars, boundVars
<1>4. job.next \in Entries /\ job.next + 1 \in 1..(MaxLen + 1)
    BY <1>2, <1>3, DeliveryAssumption DEF Dispatch, Entries
<1>5. job' \in Dispatch
    BY <1>2, <1>3, <1>4 DEF Dispatch
<1>6. PcTypes'
    BY <1>3, <1>5, DeliveryAssumption DEF TypeOK, PcTypes
<1>7. CASE delivered' = delivered \cup {job.next} /\ UNCHANGED <<rcpt, queue>>
    <2>1. ReceiptTypes' /\ WorkTypes' /\ HistoryTypes'
        BY <1>3, <1>4, <1>5, <1>7 DEF TypeOK, ReceiptTypes, WorkTypes, HistoryTypes
    <2> QED
        BY <1>1, <1>6, <2>1 DEF TypeOK
<1>8. CASE /\ rcpt' = [rcpt EXCEPT ![job.receipt] = Tracked(@)]
           /\ queue' = Append(queue, Content(job.next, rcpt[job.receipt].checkpoint,
                                             job.receipt))
           /\ UNCHANGED delivered
    <2>1. job.receipt \in Receipts
        BY <1>2 DEF Dispatch
    <2>2. rcpt[job.receipt] \in Receipt /\ rcpt[job.receipt].checkpoint \in Offsets
        BY <2>1 DEF TypeOK, ReceiptTypes
    <2>3. Tracked(rcpt[job.receipt]) \in Receipt
          /\ Tracked(rcpt[job.receipt]).checkpoint \in Offsets
        BY <2>2, ReceiptOperations
    <2>4. ReceiptTypes'
        BY <1>3, <1>8, <2>1, <2>3 DEF TypeOK, ReceiptTypes
    <2>5. queue' \in Seq(Task)
        BY <1>4, <1>8, <2>1, <2>2, ContentTask, AppendProperties DEF TypeOK, WorkTypes
    <2>6. WorkTypes' /\ HistoryTypes'
        BY <1>3, <1>5, <1>8, <2>5 DEF TypeOK, WorkTypes, HistoryTypes
    <2> QED
        BY <1>1, <1>6, <2>4, <2>6 DEF TypeOK
<1> QED
    BY <1>7, <1>8 DEF RouteEntry

LEMMA DispatchEndsTypes == ASSUME TypeOK, DispatchEnds PROVE TypeOK'
<1>1. EnvTypes' /\ StateTypes' /\ ReaderTypes' /\ HistoryTypes'
    BY EnvFrame, StateFrame, ReaderFrame, HistoryFrame DEF TypeOK, DispatchEnds
<1>2. pc' = "commit" /\ job' = None /\ UNCHANGED <<order, notice, retrying, queue, flight>>
    BY DEF DispatchEnds
<1>3. PcTypes' /\ WorkTypes'
    BY <1>2 DEF TypeOK, PcTypes, WorkTypes
<1>4. job.receipt \in Receipts
    BY DEF TypeOK, WorkTypes, PcTypes, DispatchEnds, Dispatch
<1> DEFINE r == rcpt[job.receipt]
<1>5. r \in Receipt /\ r.checkpoint \in Offsets
    BY <1>4 DEF TypeOK, ReceiptTypes
<1>6. /\ Closed(r) \in Receipt /\ Closed(r).checkpoint \in Offsets
      /\ Closed(Failed(r)) \in Receipt /\ Closed(Failed(r)).checkpoint \in Offsets
    <2> HIDE DEF r
    <2> QED
        BY <1>5, ReceiptOperations
<1>7. rcpt' = [rcpt EXCEPT ![job.receipt] = Closed(r)]
      \/ rcpt' = [rcpt EXCEPT ![job.receipt] = Closed(Failed(r))]
    BY DEF DispatchEnds
<1> HIDE DEF r
<1>8. ReceiptTypes'
    BY <1>2, <1>4, <1>6, <1>7 DEF TypeOK, ReceiptTypes
<1> QED
    BY <1>1, <1>3, <1>8 DEF TypeOK

LEMMA CommitPrefixTypes == ASSUME TypeOK, CommitPrefix PROVE TypeOK'
<1> DEFINE list == [i \in 1..Len(order) |-> rcpt[order[i]]]
           n == SettledPrefix(list)
           offset == SettledRunOffset(list, n)
<1>1. EnvTypes' /\ WorkTypes' /\ HistoryTypes'
    BY EnvFrame, WorkFrame, HistoryFrame DEF TypeOK, CommitPrefix
<1>2. pc' \in {"sleep", "exited"}
      /\ UNCHANGED <<skip, aged, parsed, reading, batch, rebuild, prefix, clamp, clampDone, openCalls,
                     rcpt, notice, retrying>>
    BY DEF CommitPrefix
<1>3. PcTypes'
    BY <1>2 DEF PcTypes
<1>4. order \in Seq(Receipts) /\ Len(order) \in Nat
      /\ \A i \in 1..Len(order) : order[i] \in Receipts
    BY LenProperties, ElementOfSeq DEF TypeOK, ReceiptTypes
<1>5. CASE UNCHANGED <<disk, watermark, dirty, toolFence, order>>
    BY <1>1, <1>2, <1>3, <1>5 DEF TypeOK, StateTypes, ReaderTypes, ReceiptTypes
<1>6. CASE /\ toolFence' = None
           /\ order' = SubSeq(order, n + 1, Len(order))
           /\ \/ UNCHANGED <<disk, watermark, dirty>>
              \/ /\ offset \notin {NoOffset, watermark}
                 /\ watermark' = offset
                 /\ Saved(TRUE, offset, skip)
    <2>1. list \in Seq(Receipt) /\ Len(list) = Len(order)
        BY <1>4 DEF TypeOK, ReceiptTypes
    <2>2. \A i \in 1..Len(order) : list[i].checkpoint \in Offsets
        BY <1>4 DEF TypeOK, ReceiptTypes
    <2> HIDE DEF list
    <2>3. n \in 0..Len(order)
        BY <2>1, SettledPrefixRun
    <2> HIDE DEF n
    <2>4. order' \in Seq(Receipts)
        <3>1. \A i \in (n + 1)..Len(order) : order[i] \in Receipts
            BY <1>4, <2>3
        <3> QED
            BY <1>4, <1>6, <2>3, <3>1, SubSeqProperties
    <2>5. offset # NoOffset => offset \in Offsets
        BY <2>1, <2>2, <2>3, RunOffset
    <2> HIDE DEF offset
    <2>6. StateTypes'
        <3>1. CASE UNCHANGED <<disk, watermark, dirty>>
            BY <1>2, <3>1 DEF TypeOK, StateTypes
        <3>2. CASE /\ offset \notin {NoOffset, watermark}
                   /\ watermark' = offset
                   /\ Saved(TRUE, offset, skip)
            <4>1. offset \in Offsets /\ skip \in Intent \cup {None}
                BY <2>5, <3>2 DEF TypeOK, StateTypes
            <4>2. disk' \in [watermark : Offsets, skip : Intent \cup {None}]
                  /\ dirty' \in BOOLEAN
                BY <3>2, <4>1, SavedTypes DEF TypeOK
            <4> QED
                BY <1>2, <3>2, <4>1, <4>2 DEF TypeOK, StateTypes
        <3> QED
            BY <1>6, <3>1, <3>2
    <2>7. ReaderTypes' /\ ReceiptTypes'
        BY <1>2, <1>6, <2>4 DEF TypeOK, ReaderTypes, ReceiptTypes
    <2> QED
        BY <1>1, <1>3, <2>6, <2>7 DEF TypeOK
<1> QED
    <2> HIDE DEF n, offset
    <2> QED
        BY <1>5, <1>6 DEF CommitPrefix, n, offset

-----------------------------------------------------------------------------
\* Worker actions.

LEMMA TakeTaskTypes == ASSUME TypeOK, TakeTask PROVE TypeOK'
<1>1. EnvTypes' /\ StateTypes' /\ ReaderTypes' /\ ReceiptTypes' /\ HistoryTypes' /\ PcTypes'
    BY EnvFrame, StateFrame, ReaderFrame, ReceiptFrame, HistoryFrame, PcFrame
    DEF TypeOK, TakeTask, readerVars
<1>2. queue \in Seq(Task) /\ queue # <<>>
    BY DEF TypeOK, WorkTypes, TakeTask
<1>3. Head(queue) \in Task /\ Tail(queue) \in Seq(Task)
    BY <1>2, HeadTailProperties
<1>4. [task |-> Head(queue), sending |-> FALSE] \in [task : Task, sending : BOOLEAN]
    BY <1>3
<1>5. WorkTypes'
    BY <1>3, <1>4 DEF TypeOK, WorkTypes, TakeTask
<1> QED
    BY <1>1, <1>5 DEF TypeOK

\* An action that only settles the task in flight.
LEMMA SettlementTypes ==
    ASSUME TypeOK, flight # None, NEW outcome, SettleFlight(outcome),
           UNCHANGED <<envVars, stateVars, readerVars, order, notice, retrying, job, queue,
                       skipped, boundVars, pc>>
    PROVE  TypeOK'
<1>1. EnvTypes' /\ StateTypes' /\ ReaderTypes' /\ PcTypes'
    BY EnvFrame, StateFrame, ReaderFrame, PcFrame DEF TypeOK, readerVars
<1>2. ReceiptTypes' /\ HistoryTypes' /\ flight' = None
    BY SettleTypes DEF TypeOK, boundVars
<1>3. WorkTypes'
    BY <1>2 DEF TypeOK, WorkTypes
<1> QED
    BY <1>1, <1>2, <1>3 DEF TypeOK

LEMMA MergedTask ==
    ASSUME WorkTypes, NEW task \in Task, NEW n \in 1..Len(queue)
    PROVE  Merged(task, n) \in Task
<1> DEFINE heads == [i \in 1..n |-> queue[i].receipts[1]]
           entries == task.entries \cup UNION {queue[i].entries : i \in 1..n}
<1>1. Len(queue) \in Nat /\ n \in Nat /\ \A i \in 1..n : queue[i] \in Task
    <2>1. queue \in Seq(Task) /\ Len(queue) \in Nat
        BY LenProperties DEF WorkTypes
    <2> QED
        BY <2>1, ElementOfSeq
<1>2. \A i \in 1..n : queue[i].entries \subseteq Entries /\ queue[i].receipts[1] \in Receipts
    <2>1. ASSUME NEW s \in Seq(Receipts) \ {<<>>} PROVE s[1] \in Receipts
        OBVIOUS
    <2> QED
        BY <1>1, <2>1 DEF Task
<1>3. entries \subseteq Entries
    BY <1>2 DEF Task
<1>4. heads \in Seq(Receipts)
    BY <1>1, <1>2
<1>5. task.receipts \in Seq(Receipts) /\ task.receipts # <<>>
    BY DEF Task
<1>6. Merged(task, n) = [task EXCEPT !.entries = entries,
                                     !.receipts = task.receipts \o heads, !.batched = TRUE]
    BY DEF Merged
<1> HIDE DEF heads, entries
<1>7. task.receipts \o heads \in Seq(Receipts) \ {<<>>}
    <2> DEFINE rs == task.receipts
    <2> HIDE DEF rs
    <2>1. rs \in Seq(Receipts) /\ rs # <<>>
        BY <1>5 DEF rs
    <2>2. rs \o heads \in Seq(Receipts) /\ rs \o heads # <<>>
        BY <1>4, <2>1, ConcatProperties, LenProperties, EmptySeq
    <2> QED
        BY <2>2 DEF rs
<1> DEFINE joined == task.receipts \o heads
<1>8. joined \in Seq(Receipts) \ {<<>>}
    BY <1>7
<1>9. Merged(task, n) = [task EXCEPT !.entries = entries, !.receipts = joined, !.batched = TRUE]
    BY <1>6
<1> HIDE DEF joined
<1> QED
    BY <1>3, <1>8, <1>9 DEF Task

LEMMA StartSendTypes == ASSUME TypeOK, StartSend PROVE TypeOK'
<1>1. EnvTypes' /\ StateTypes' /\ ReaderTypes' /\ ReceiptTypes' /\ HistoryTypes' /\ PcTypes'
    BY EnvFrame, StateFrame, ReaderFrame, ReceiptFrame, HistoryFrame, PcFrame
    DEF TypeOK, StartSend, readerVars
<1>2. flight \in [task : Task, sending : BOOLEAN] /\ UNCHANGED job
    BY DEF TypeOK, WorkTypes, StartSend
<1>3. CASE flight' = [flight EXCEPT !.sending = TRUE] /\ UNCHANGED queue
    BY <1>1, <1>2, <1>3 DEF TypeOK, WorkTypes
<1>4. CASE \E n \in 1..Len(queue) :
              /\ flight' = [task |-> Merged(flight.task, n), sending |-> TRUE]
              /\ queue' = SubSeq(queue, n + 1, Len(queue))
    <2>1. PICK n \in 1..Len(queue) :
             /\ flight' = [task |-> Merged(flight.task, n), sending |-> TRUE]
             /\ queue' = SubSeq(queue, n + 1, Len(queue))
        BY <1>4
    <2>2. Merged(flight.task, n) \in Task
        BY <1>2, MergedTask DEF TypeOK
    <2>3. flight' \in [task : Task, sending : BOOLEAN]
        BY <2>1, <2>2
    <2>4. queue \in Seq(Task) /\ Len(queue) \in Nat
        BY LenProperties DEF TypeOK, WorkTypes
    <2>5. queue' \in Seq(Task)
        <3>1. \A i \in (n + 1)..Len(queue) : queue[i] \in Task
            BY <2>4, ElementOfSeq
        <3> QED
            BY <2>1, <2>4, <3>1, SubSeqProperties
    <2>6. WorkTypes'
        BY <1>2, <2>3, <2>5 DEF TypeOK, WorkTypes
    <2> QED
        BY <1>1, <2>6 DEF TypeOK
<1> QED
    BY <1>3, <1>4 DEF StartSend

LEMMA WorkerTypes == ASSUME TypeOK, WorkerStep PROVE TypeOK'
<1>1. CASE TakeTask
    BY <1>1, TakeTaskTypes
<1>2. CASE DropStale
    BY <1>2, SettlementTypes DEF DropStale
<1>3. CASE RefuseNotice
    BY <1>3, SettlementTypes DEF RefuseNotice
<1>4. CASE StartSend
    BY <1>4, StartSendTypes
<1>5. CASE SendEnds
    BY <1>5, SettlementTypes DEF SendEnds
<1>6. CASE FloodRetry
    <2>1. EnvTypes' /\ StateTypes' /\ ReaderTypes' /\ ReceiptTypes' /\ HistoryTypes' /\ PcTypes'
        BY <1>6, EnvFrame, StateFrame, ReaderFrame, ReceiptFrame, HistoryFrame, PcFrame
        DEF TypeOK, FloodRetry, readerVars
    <2>2. WorkTypes'
        BY <1>6 DEF TypeOK, WorkTypes, FloodRetry
    <2> QED
        BY <2>1, <2>2 DEF TypeOK
<1> QED
    BY <1>1, <1>2, <1>3, <1>4, <1>5, <1>6 DEF WorkerStep

-----------------------------------------------------------------------------
\* Process lifetime.

LEMMA StopMonitorTypes == ASSUME TypeOK, StopMonitor PROVE TypeOK'
<1>1. EnvTypes' /\ HistoryTypes'
    BY EnvFrame, HistoryFrame DEF TypeOK, StopMonitor
<1>2. pc' = "draining" /\ reading' = None /\ job' = None
      /\ UNCHANGED <<watermark, skip, aged, parsed, batch, rebuild, prefix, clamp, clampDone, openCalls,
                     toolFence, order, notice, retrying, queue, flight>>
    BY DEF StopMonitor
<1>3. PcTypes' /\ ReaderTypes' /\ WorkTypes'
    BY <1>2 DEF TypeOK, PcTypes, ReaderTypes, WorkTypes
<1>4. StateTypes'
    <2>1. CASE UNCHANGED <<disk, dirty>>
        BY <1>2, <2>1 DEF TypeOK, StateTypes
    <2>2. CASE disk' = [watermark |-> watermark, skip |-> skip] /\ dirty' = FALSE
        BY <1>2, <2>2 DEF TypeOK, StateTypes
    <2> QED
        BY <2>1, <2>2 DEF StopMonitor
<1>5. ReceiptTypes'
    <2>1. CASE job = None
        BY <1>2, <2>1 DEF TypeOK, ReceiptTypes, StopMonitor
    <2>2. CASE job # None
        <3> DEFINE r == rcpt[job.receipt]
        <3>1. job.receipt \in Receipts
            BY <2>2 DEF TypeOK, WorkTypes, Dispatch
        <3>2. r \in Receipt /\ r.checkpoint \in Offsets
            BY <3>1 DEF TypeOK, ReceiptTypes
        <3>3. rcpt' = [rcpt EXCEPT ![job.receipt] = Closed(Failed(r))]
            BY <2>2 DEF StopMonitor
        <3> HIDE DEF r
        <3>4. Closed(Failed(r)) \in Receipt /\ Closed(Failed(r)).checkpoint \in Offsets
            BY <3>2, ReceiptOperations
        <3> QED
            BY <1>2, <3>1, <3>3, <3>4 DEF TypeOK, ReceiptTypes
    <2> QED
        BY <2>1, <2>2
<1> QED
    BY <1>1, <1>3, <1>4, <1>5 DEF TypeOK

LEMMA StopWorkersTypes == ASSUME TypeOK, StopWorkers PROVE TypeOK'
<1>1. EnvTypes' /\ StateTypes' /\ ReaderTypes'
    BY EnvFrame, StateFrame, ReaderFrame DEF TypeOK, StopWorkers
<1>2. pc' = "lastCommit" /\ queue' = <<>>
      /\ UNCHANGED <<order, notice, retrying, job, skipped, crashes, jumps>>
    BY DEF StopWorkers, boundVars
<1>3. PcTypes' /\ queue' \in Seq(Task)
    BY <1>2, EmptySeq DEF PcTypes
<1>4. CASE UNCHANGED <<rcpt, flight, delivered, acked>>
    BY <1>1, <1>2, <1>3, <1>4 DEF TypeOK, ReceiptTypes, WorkTypes, HistoryTypes
<1>5. CASE flight # None /\ SettleFlight("failed")
    <2>1. ReceiptTypes' /\ HistoryTypes' /\ flight' = None
        BY <1>2, <1>5, SettleTypes DEF TypeOK
    <2>2. WorkTypes'
        BY <1>2, <1>3, <2>1 DEF TypeOK, WorkTypes
    <2> QED
        BY <1>1, <1>3, <2>1, <2>2 DEF TypeOK
<1> QED
    BY <1>4, <1>5 DEF StopWorkers

LEMMA RestartTypes == ASSUME TypeOK, Restart PROVE TypeOK'
<1>1. EnvTypes'
    BY EnvFrame DEF TypeOK, Restart
<1>2. StateTypes'
    BY DEF TypeOK, StateTypes, Restart
<1>3. ReaderTypes'
    <2>1. rebuild' = (disk.watermark > 0)
        BY DEF Restart
    <2>2. rebuild' \in BOOLEAN
        <3>1. (disk.watermark > 0) \in BOOLEAN
            BY DEF TypeOK, StateTypes, Offsets
        <3> QED
            BY <2>1, <3>1, Zenon
    <2>3. 0 \in Offsets
        BY DeliveryAssumption DEF Offsets
    <2>4. prefix' \in Offsets /\ parsed' = -1 /\ reading' = None /\ batch' = None
          /\ clamp' = 0 /\ clampDone' = FALSE /\ openCalls' = {} /\ toolFence' = None
        BY DEF TypeOK, EnvTypes, Restart
    <2> QED
        BY <2>2, <2>3, <2>4 DEF ReaderTypes
<1>4. ReceiptTypes'
    <2>1. 0 \in Offsets
        BY DeliveryAssumption DEF Offsets
    <2>2. NewReceipt(0) \in Receipt /\ NewReceipt(0).checkpoint \in Offsets
        BY <2>1, FreshReceipt
    <2> QED
        BY <2>2, EmptySeq DEF TypeOK, ReceiptTypes, Restart
<1>5. WorkTypes' /\ PcTypes'
    BY EmptySeq DEF WorkTypes, PcTypes, Restart
<1>6. HistoryTypes'
    BY DEF TypeOK, HistoryTypes, historyVars, Restart
<1> QED
    BY <1>1, <1>2, <1>3, <1>4, <1>5, <1>6 DEF TypeOK

LEMMA InitTypes == ASSUME Init PROVE TypeOK
<1>1. 0 \in Offsets
    BY DeliveryAssumption DEF Offsets
<1>2. NewReceipt(0) \in Receipt /\ NewReceipt(0).checkpoint \in Offsets
    BY <1>1, FreshReceipt
<1>3. EnvTypes /\ StateTypes /\ ReaderTypes
    BY <1>1 DEF Init, EnvTypes, StateTypes, ReaderTypes
<1>4. ReceiptTypes /\ WorkTypes
    BY <1>2, EmptySeq DEF Init, ReceiptTypes, WorkTypes
<1>5. HistoryTypes /\ PcTypes
    BY DEF Init, HistoryTypes, PcTypes
<1> QED
    BY <1>3, <1>4, <1>5 DEF TypeOK

LEMMA StutterTypes == ASSUME TypeOK, UNCHANGED vars PROVE TypeOK'
    BY EnvFrame, StateFrame, ReaderFrame, ReceiptFrame, WorkFrame, HistoryFrame, PcFrame
    DEF TypeOK, vars, readerVars, workVars

LEMMA NextTypes == ASSUME TypeOK, [Next]_vars PROVE TypeOK'
<1>1. CASE Environment
    BY <1>1, EnvironmentTypes
<1>2. CASE RequestSkip
    BY <1>2, RequestSkipTypes
<1>3. CASE MonitorStep
    BY <1>3, WakeTypes, ResumeSkipTypes, ExpireSkipTypes, CommitSkipsTypes, ReadBeginTypes,
       ReadEndTypes, GrowthTypes, RebuildFailsTypes, ReadFailsTypes, ReadFailsLateTypes,
       RegisterTypes, RouteEntryTypes, DispatchEndsTypes, CommitPrefixTypes
    DEF MonitorStep
<1>4. CASE WorkerStep
    BY <1>4, WorkerTypes
<1>5. CASE Lifetime
    BY <1>5, StopMonitorTypes, StopWorkersTypes, RestartTypes DEF Lifetime
<1>6. CASE UNCHANGED vars
    BY <1>6, StutterTypes
<1> QED
    BY <1>1, <1>2, <1>3, <1>4, <1>5, <1>6 DEF Next

\* The type invariant of Delivery: whatever the agent writes, the user asks and
\* fails, every task carries a receipt, every checkpoint and durable offset
\* lies inside the transcript, and a dispatch or read in progress has its data.
THEOREM TypeCorrect == Spec => []TypeOK
<1>1. Init => TypeOK
    BY InitTypes
<1>2. TypeOK /\ [Next]_vars => TypeOK'
    BY NextTypes
<1> QED
    BY <1>1, <1>2, PTL DEF Spec

-----------------------------------------------------------------------------
\* What a step may do to the monitor state and its file: leave both alone, write
\* the state it produces, fall behind and stay dirty, leave a new barrier whose
\* purge was not written, or reload the file.  The watermark moves only in a
\* step that ends without a barrier.
LEMMA SavedMoves ==
    ASSUME NEW c \in BOOLEAN, NEW w, NEW s, Saved(c, w, s)
    PROVE  \/ disk' = [watermark |-> w, skip |-> s] /\ dirty' = FALSE
           \/ disk' = disk /\ dirty' = c
<1>1. PICK ok \in SaveOutcomes :
         IF c /\ ok
         THEN disk' = [watermark |-> w, skip |-> s] /\ dirty' = FALSE
         ELSE disk' = disk /\ dirty' = c
    BY DEF Saved
<1> QED
    BY <1>1

LEMMA StateMoves ==
    ASSUME TypeOK, [Next]_vars
    PROVE  \/ /\ UNCHANGED <<disk, watermark, skip>>
              /\ dirty' = dirty \/ dirty' = TRUE
           \/ /\ disk' = [watermark |-> watermark', skip |-> skip']
              /\ skip' = None \/ watermark' = watermark
              /\ skip' = None \/ skip # None \/ jumps' = jumps + 1
           \/ /\ UNCHANGED disk
              /\ dirty' = TRUE
              /\ skip' = None \/ (skip # None /\ UNCHANGED watermark)
           \/ /\ disk'.watermark = watermark
              /\ dirty' = TRUE
              /\ UNCHANGED watermark
              /\ jumps' = jumps + 1
           \/ /\ UNCHANGED disk
              /\ watermark' = disk.watermark
              /\ skip' = disk.skip
<1> USE DEF stateVars
<1>0. dirty \in BOOLEAN
    BY DEF TypeOK, StateTypes
<1>1. CASE Environment
    BY <1>1 DEF Environment, AgentWrites, Rebind, WindowChanges, BarrierAges
<1>2. CASE WorkerStep
    BY <1>2 DEF WorkerStep, TakeTask, DropStale, RefuseNotice, StartSend, SendEnds, FloodRetry
<1>3. CASE Lifetime
    BY <1>3 DEF Lifetime, StopMonitor, StopWorkers, Restart
<1>4. CASE UNCHANGED vars
    BY <1>4 DEF vars
<1>5. ASSUME NEW s, NEW onDisk, PurgeThenNotice(s, onDisk)
      PROVE  \/ disk' = [watermark |-> watermark, skip |-> skip']
             \/ disk' = onDisk /\ dirty' = TRUE
    BY <1>5 DEF PurgeThenNotice
<1>6. CASE RequestSkip
    <2> DEFINE intent == [snapshot |-> eof, purged |-> FALSE]
    <2>1. UNCHANGED watermark /\ jumps' = jumps + 1 /\ skip = None
        BY <1>6 DEF RequestSkip
    <2>2. CASE Saved(TRUE, watermark, None) /\ UNCHANGED skip
        <3>1. \/ disk' = [watermark |-> watermark, skip |-> None] /\ dirty' = FALSE
              \/ disk' = disk /\ dirty' = TRUE
            BY <2>2, SavedMoves
        <3> QED
            BY <2>1, <2>2, <3>1
    <2>3. CASE PurgeThenNotice(intent, [watermark |-> watermark, skip |-> intent])
        <3>1. \/ disk' = [watermark |-> watermark, skip |-> skip']
              \/ disk' = [watermark |-> watermark, skip |-> intent] /\ dirty' = TRUE
            BY <1>5, <2>3
        <3> HIDE DEF intent
        <3> QED
            BY <2>1, <3>1
    <2> QED
        BY <1>6, <2>2, <2>3 DEF RequestSkip
<1>7. ASSUME CancelPendingSkip
      PROVE  /\ skip' = None
             /\ \/ disk' = [watermark |-> watermark', skip |-> skip']
                \/ UNCHANGED disk /\ (dirty' = TRUE \/ (dirty' = dirty /\ UNCHANGED <<watermark, skip>>))
    <2>1. Saved(dirty \/ skip # None, watermark, None) /\ skip' = None /\ UNCHANGED watermark
        BY <1>7 DEF CancelPendingSkip
    <2>2. (dirty \/ skip # None) \in BOOLEAN
        OBVIOUS
    <2>3. \/ disk' = [watermark |-> watermark, skip |-> None]
          \/ disk' = disk /\ dirty' = (dirty \/ skip # None)
        BY <2>1, <2>2, SavedMoves
    <2> QED
        BY <1>0, <2>1, <2>3
<1>8. ASSUME CompleteSkip
      PROVE  /\ skip' = None
             /\ \/ disk' = [watermark |-> watermark', skip |-> skip']
                \/ UNCHANGED disk /\ dirty' = TRUE
    BY <1>8, SavedMoves DEF CompleteSkip
<1>9. CASE ResumeSkip
    <2>1. CASE PurgeThenNotice(skip, disk) /\ skip # None /\ UNCHANGED watermark
        BY <1>5, <1>9, <2>1 DEF PurgeThenNotice
    <2> QED
        BY <1>7, <1>9, <2>1 DEF ResumeSkip
<1>10. CASE ExpireSkip
    BY <1>7, <1>8, <1>10 DEF ExpireSkip
<1>11. CASE CommitSkips
    BY <1>7, <1>8, <1>11 DEF CommitSkips
<1>12. CASE Register
    <2>1. Saved(dirty, watermark, skip) /\ UNCHANGED <<watermark, skip>>
        BY <1>12 DEF Register
    <2>2. \/ disk' = [watermark |-> watermark, skip |-> skip] /\ dirty' = FALSE
          \/ disk' = disk /\ dirty' = dirty
        BY <1>0, <2>1, SavedMoves
    <2> QED
        BY <2>1, <2>2
<1>13. CASE CommitPrefix
    <2> DEFINE list == [i \in 1..Len(order) |-> rcpt[order[i]]]
               offset == SettledRunOffset(list, SettledPrefix(list))
    <2>1. CASE UNCHANGED <<disk, watermark, dirty>> /\ UNCHANGED skip
        BY <2>1
    <2>2. CASE skip = None /\ watermark' = offset /\ Saved(TRUE, offset, skip) /\ UNCHANGED skip
        BY <2>2, SavedMoves
    <2> QED
        BY <1>13, <2>1, <2>2 DEF CommitPrefix, CommitHeld
<1>14. CASE \/ Wake \/ ReadBegin \/ ReadEnd \/ GrowthTakenForReplacement
            \/ RebuildFails \/ ReadFails \/ ReadFailsLate \/ RouteEntry \/ DispatchEnds
    BY <1>14 DEF Wake, ReadBegin, ReadEnd, GrowthTakenForReplacement, RebuildFails, ReadFails,
                 ReadFailsLate, RouteEntry, DispatchEnds
<1> QED
    BY <1>1, <1>2, <1>3, <1>4, <1>6, <1>9, <1>10, <1>11, <1>12, <1>13, <1>14
    DEF Next, MonitorStep

\* A clean monitor state is what the file holds, whatever saves failed: skipping
\* the write of a clean state loses nothing (MonitorState.save_if_dirty).
THEOREM CleanStateSaved == Spec => []CleanMeansSaved
<1>1. Init => CleanMeansSaved
    BY DEF Init, CleanMeansSaved
<1>2. ASSUME TypeOK, CleanMeansSaved, [Next]_vars PROVE CleanMeansSaved'
    <2>1. disk = [watermark |-> disk.watermark, skip |-> disk.skip]
        BY <1>2 DEF TypeOK, StateTypes
    <2> QED
        BY <1>2, <2>1, StateMoves DEF CleanMeansSaved
<1>3. Spec => []TypeOK
    BY TypeCorrect
<1> QED
    BY <1>1, <1>2, <1>3, PTL DEF Spec

\* The barrier in memory and the barrier on disk stand at one watermark.
LEMMA BarrierAgrees ==
    Spec => [](disk.skip # None /\ skip # None => disk.watermark = watermark)
<1> DEFINE Agrees == disk.skip # None /\ skip # None => disk.watermark = watermark
<1>1. Init => Agrees
    BY DEF Init
<1>2. ASSUME TypeOK, Agrees, [Next]_vars PROVE Agrees'
    <2>1. CASE disk' = [watermark |-> watermark', skip |-> skip']
        BY <2>1
    <2>2. CASE /\ disk' = disk
               /\ \/ skip' = skip /\ watermark' = watermark
                  \/ skip' = None
                  \/ skip # None /\ watermark' = watermark
                  \/ watermark' = disk.watermark
        BY <1>2, <2>2
    <2>3. CASE disk'.watermark = watermark /\ watermark' = watermark
        BY <2>3
    <2> QED
        BY <1>2, <2>1, <2>2, <2>3, StateMoves
<1>3. Spec => []TypeOK
    BY TypeCorrect
<1> QED
    BY <1>1, <1>2, <1>3, PTL DEF Spec

\* While a skip barrier stays on disk no step but a later jump moves the
\* watermark beside it, whatever the worker settles meanwhile
\* (_commit_watermark_prefixes passes over a source with a pending skip).
THEOREM BarrierHolds == Spec => BarrierFreezesWatermark
<1> DEFINE Agrees == disk.skip # None /\ skip # None => disk.watermark = watermark
           Freeze == (jumps' = jumps /\ disk.skip # None /\ disk'.skip # None)
                         => disk'.watermark = disk.watermark
<1>1. TypeOK /\ Agrees /\ [Next]_vars => Freeze
    <2> SUFFICES ASSUME TypeOK, Agrees, [Next]_vars, jumps' = jumps,
                        disk.skip # None, disk'.skip # None
                 PROVE  disk'.watermark = disk.watermark
        OBVIOUS
    <2>1. jumps \in Nat
        BY DEF TypeOK, HistoryTypes
    <2>2. jumps' # jumps + 1
        BY <2>1
    <2>3. CASE /\ disk' = [watermark |-> watermark', skip |-> skip']
               /\ skip' = None \/ watermark' = watermark
               /\ skip' = None \/ skip # None \/ jumps' = jumps + 1
        BY <2>2, <2>3
    <2>4. CASE disk' = disk
        BY <2>4
    <2> QED
        BY <2>2, <2>3, <2>4, StateMoves
<1>2. Spec => []TypeOK
    BY TypeCorrect
<1>3. Spec => []Agrees
    BY BarrierAgrees
<1> QED
    BY <1>1, <1>2, <1>3, PTL DEF Spec, BarrierFreezesWatermark

-----------------------------------------------------------------------------
\* The tasks of queue q that carry receipt r, by position, and whether f does.
Slots(q, r) == {i \in 1..Len(q) : r \in SeqRange(q[i].receipts)}
Flies(f, r) == f # None /\ r \in SeqRange(f.task.receipts)

\* Every receipt waits for at least the tasks that carry it (merging two tasks
\* of one receipt leaves it waiting for more).
Waits(q, f, objects) ==
    \A r \in Receipts :
        objects[r].pending >= Cardinality(Slots(q, r)) + (IF Flies(f, r) THEN 1 ELSE 0)

Tracks == Waits(queue, flight, rcpt)

\* A queued task carries one receipt: merging happens in flight.
Singles(q) == \A i \in 1..Len(q) : Len(q[i].receipts) = 1

LEMMA SlotsFinite ==
    ASSUME NEW q \in Seq(Task), NEW r
    PROVE  IsFiniteSet(Slots(q, r)) /\ Cardinality(Slots(q, r)) \in Nat
<1>1. Len(q) \in Nat /\ 1 \in Int /\ Len(q) \in Int
  OBVIOUS
<1>2. IsFiniteSet(1..Len(q)) /\ Slots(q, r) \in SUBSET (1..Len(q))
  BY <1>1, FS_Interval DEF Slots
<1>3. IsFiniteSet(Slots(q, r))
  BY <1>2, FS_Subset
<1> QED  BY <1>3, FS_CardinalityType

\* Positions counted through an injection.
LEMMA FewerSlots ==
    ASSUME NEW S, NEW T, IsFiniteSet(T), NEW f \in [S -> T],
           \A x, y \in S : f[x] = f[y] => x = y
    PROVE  IsFiniteSet(S) /\ Cardinality(S) <= Cardinality(T)
<1>1. f \in Injection(S, T)
  BY DEF Injection, IsInjective
<1> QED  BY <1>1, FS_Injection

LEMMA SlotsAppend ==
    ASSUME NEW q \in Seq(Task), NEW t \in Task, NEW r
    PROVE  Cardinality(Slots(Append(q, t), r))
             <= Cardinality(Slots(q, r)) + (IF r \in SeqRange(t.receipts) THEN 1 ELSE 0)
<1> DEFINE p == Append(q, t)
           n == Len(q) + 1
<1>1. Len(q) \in Nat /\ Len(p) = n /\ p[n] = t /\ \A i \in 1..Len(q) : p[i] = q[i]
  OBVIOUS
<1>2. IsFiniteSet(Slots(q, r)) /\ Cardinality(Slots(q, r)) \in Nat
  BY SlotsFinite
<1>3. n \notin Slots(q, r)
  BY <1>1 DEF Slots
<1> HIDE DEF p
<1>4. Slots(p, r) = IF r \in SeqRange(t.receipts) THEN Slots(q, r) \cup {n} ELSE Slots(q, r)
  BY <1>1 DEF Slots
<1>5. CASE r \in SeqRange(t.receipts)
  <2>1. Cardinality(Slots(q, r) \cup {n}) = Cardinality(Slots(q, r)) + 1
    BY <1>2, <1>3, FS_AddElement
  <2> QED  BY <1>2, <1>4, <1>5, <2>1 DEF p
<1>6. CASE r \notin SeqRange(t.receipts)
  BY <1>2, <1>4, <1>6 DEF p
<1> QED  BY <1>5, <1>6

\* Taking n tasks off the front.
LEMMA SlotsRest ==
    ASSUME NEW q \in Seq(Task), NEW n \in 1..Len(q), NEW r
    PROVE  /\ SubSeq(q, n + 1, Len(q)) \in Seq(Task)
           /\ Cardinality(Slots(SubSeq(q, n + 1, Len(q)), r))
                + (IF \E i \in 1..n : r \in SeqRange(q[i].receipts) THEN 1 ELSE 0)
              <= Cardinality(Slots(q, r))
<1> DEFINE p == SubSeq(q, n + 1, Len(q))
<1>1. /\ Len(q) \in Nat /\ n \in Nat /\ p \in Seq(Task) /\ Len(p) = Len(q) - n
      /\ \A i \in 1..Len(p) : p[i] = q[i + n]
  OBVIOUS
<1> HIDE DEF p
<1>2. /\ IsFiniteSet(Slots(q, r)) /\ Cardinality(Slots(q, r)) \in Nat
      /\ Cardinality(Slots(p, r)) \in Nat
  BY <1>1, SlotsFinite
<1>3. ASSUME NEW T, IsFiniteSet(T), T \subseteq Slots(q, r), \A i \in Slots(q, r) : i > n => i \in T
      PROVE  Cardinality(Slots(p, r)) <= Cardinality(T)
  <2> DEFINE f == [i \in Slots(p, r) |-> i + n]
  <2>1. f \in [Slots(p, r) -> T]
    BY <1>1, <1>3 DEF Slots
  <2>2. \A x, y \in Slots(p, r) : f[x] = f[y] => x = y
    BY <1>1 DEF Slots
  <2> HIDE DEF f
  <2> QED  BY <1>3, <2>1, <2>2, FewerSlots
<1>4. CASE ~\E i \in 1..n : r \in SeqRange(q[i].receipts)
  <2>1. Cardinality(Slots(p, r)) <= Cardinality(Slots(q, r))
    BY <1>2, <1>3
  <2> QED  BY <1>1, <1>2, <1>4, <2>1 DEF p
<1>5. CASE \E i \in 1..n : r \in SeqRange(q[i].receipts)
  <2>1. PICK i \in 1..n : r \in SeqRange(q[i].receipts)
    BY <1>5
  <2>2. i \in Slots(q, r)
    BY <1>1, <2>1 DEF Slots
  <2> DEFINE T == Slots(q, r) \ {i}
  <2>3. IsFiniteSet(T) /\ Cardinality(T) = Cardinality(Slots(q, r)) - 1
    BY <1>2, <2>2, FS_RemoveElement
  <2>4. T \subseteq Slots(q, r) /\ \A j \in Slots(q, r) : j > n => j \in T
    BY <1>1
  <2> HIDE DEF T
  <2>5. Cardinality(Slots(p, r)) <= Cardinality(T)
    BY <1>3, <2>3, <2>4
  <2> QED  BY <1>1, <1>2, <1>5, <2>3, <2>5 DEF p
<1> QED  BY <1>4, <1>5

\* The tasks of receipt r among some positions of the queue.
Among(slots, r) == {i \in slots : r \in SeqRange(queue[i].receipts)}

\* What a purge leaves: as many tasks of a receipt as were kept, each of them
\* a task of the queue.
LEMMA SlotsRetained ==
    ASSUME WorkTypes, NEW slots \in SUBSET (1..Len(queue)),
           NEW q \in Retained((1..Len(queue)) \ slots), NEW r
    PROVE  /\ \A k \in 1..Len(q) : \E i \in (1..Len(queue)) \ slots : q[k] = queue[i]
           /\ Cardinality(Slots(q, r)) <= Cardinality(Slots(queue, r)) - Cardinality(Among(slots, r))
           /\ Cardinality(Among(slots, r)) \in Nat
<1> DEFINE keep == (1..Len(queue)) \ slots
           n == Cardinality(keep)
           gone == Among(slots, r)
           left == {i \in keep : r \in SeqRange(queue[i].receipts)}
<1>1. queue \in Seq(Task) /\ Len(queue) \in Nat
  BY DEF WorkTypes
<1>2. IsFiniteSet(1..Len(queue)) /\ keep \in SUBSET (1..Len(queue))
  BY <1>1, FS_Interval
<1>3. n \in Nat
  <2>1. IsFiniteSet(keep)
    BY <1>2, FS_Subset
  <2> QED  BY <2>1, FS_CardinalityType
<1> HIDE DEF n, keep
<1>4. PICK f \in [1..n -> keep] :
         /\ q = [k \in 1..n |-> queue[f[k]]]
         /\ \A k, l \in 1..n : k < l => f[k] < f[l]
  BY DEF Retained, n, keep
<1>5. Len(q) = n /\ \A k \in 1..n : q[k] = queue[f[k]] /\ f[k] \in keep /\ f[k] \in Int
  <2>1. \A k \in 1..n : f[k] \in keep
    BY <1>4
  <2>2. \A i \in keep : i \in Int
    BY <1>1, <1>2
  <2>3. Len(q) = n /\ \A k \in 1..n : q[k] = queue[f[k]]
    BY <1>3, <1>4
  <2> QED  BY <2>1, <2>2, <2>3
<1>6. \A k \in 1..Len(q) : \E i \in keep : q[k] = queue[i]
  BY <1>5
<1>7. /\ IsFiniteSet(Slots(queue, r)) /\ Cardinality(Slots(queue, r)) \in Nat
      /\ gone \in SUBSET Slots(queue, r) /\ left \in SUBSET Slots(queue, r)
  BY <1>1, <1>2, SlotsFinite DEF Slots, Among
<1>8. IsFiniteSet(gone) /\ IsFiniteSet(left)
  BY <1>7, FS_Subset
<1>9. Cardinality(gone) \in Nat /\ Cardinality(left) \in Nat
  BY <1>8, FS_CardinalityType
<1>10. gone \cup left = Slots(queue, r) /\ gone \cap left = {}
  BY <1>1 DEF Slots, keep, Among
<1>11. Cardinality(Slots(queue, r)) = Cardinality(gone) + Cardinality(left)
  <2> HIDE DEF gone, left
  <2>1. Cardinality(gone \cup left)
           = Cardinality(gone) + Cardinality(left) - Cardinality(gone \cap left)
    BY <1>8, FS_Union
  <2>2. Cardinality({}) = 0
    BY FS_EmptySet
  <2>3. Cardinality(gone \cup left) = Cardinality(Slots(queue, r))
    BY <1>10, Zenon
  <2>4. Cardinality(gone \cap left) = 0
    BY <1>10, <2>2, Zenon
  <2> DEFINE a == Cardinality(gone)  b == Cardinality(left)  c == Cardinality(gone \cup left)
  <2>5. a \in Nat /\ b \in Nat /\ c = a + b - 0
    BY <1>9, <2>1, <2>4
  <2> QED  BY <2>3, <2>5
<1>12. Cardinality(Slots(q, r)) <= Cardinality(left)
  <2> DEFINE g == [k \in Slots(q, r) |-> f[k]]
  <2>1. g \in [Slots(q, r) -> left]
    BY <1>5 DEF Slots
  <2>2. \A x, y \in Slots(q, r) : g[x] = g[y] => x = y
    <3> SUFFICES ASSUME NEW x \in 1..n, NEW y \in 1..n, f[x] = f[y] PROVE x = y
      BY <1>5 DEF Slots
    <3> QED  BY <1>3, <1>4, <1>5
  <2> HIDE DEF g, left
  <2> QED  BY <1>8, <2>1, <2>2, FewerSlots
<1>13. Cardinality(Slots(q, r)) \in Nat
  <2>1. q \in Seq(Task)
    BY <1>2, RetainedTasks DEF keep
  <2> QED  BY <2>1, SlotsFinite
<1> HIDE DEF gone, left
<1>14. Cardinality(Slots(q, r)) <= Cardinality(Slots(queue, r)) - Cardinality(gone)
  BY <1>7, <1>9, <1>11, <1>12, <1>13
<1> QED  BY <1>6, <1>9, <1>14 DEF gone, keep

\* A receipt object that is free: nobody holds it.
LEMMA FreeUnused ==
    ASSUME WorkTypes, NEW r \in FreeReceipts
    PROVE  /\ r \in Receipts /\ r \notin SeqRange(order) /\ r # notice
           /\ job # None => r # job.receipt
           /\ ~Flies(flight, r)
           /\ \A i \in 1..Len(queue) : r \notin SeqRange(queue[i].receipts)
           /\ Slots(queue, r) = {}
<1>1. \A i \in 1..Len(queue) : r \notin SeqRange(queue[i].receipts)
  BY DEF FreeReceipts, TaskReceipts
<1>2. Slots(queue, r) = {}
  BY <1>1 DEF Slots
<1>3. r \in Receipts /\ r \notin SeqRange(order) /\ r # notice
  BY DEF FreeReceipts
<1>4. (job # None => r # job.receipt) /\ ~Flies(flight, r)
  BY DEF FreeReceipts, Flies
<1> QED  BY <1>1, <1>2, <1>3, <1>4

\* One task more, and receipts that wait for it.
LEMMA WaitsAppend ==
    ASSUME NEW q \in Seq(Task), NEW f, NEW t \in Task, NEW objects,
           \A r \in Receipts :
              /\ objects[r].pending \in Int
              /\ objects[r].pending >= Cardinality(Slots(q, r)) + (IF Flies(f, r) THEN 1 ELSE 0)
                                        + (IF r \in SeqRange(t.receipts) THEN 1 ELSE 0)
    PROVE  Waits(Append(q, t), f, objects)
<1> SUFFICES ASSUME NEW r \in Receipts
             PROVE  objects[r].pending >= Cardinality(Slots(Append(q, t), r))
                                            + (IF Flies(f, r) THEN 1 ELSE 0)
  BY DEF Waits
<1> DEFINE a == Cardinality(Slots(Append(q, t), r))
           b == Cardinality(Slots(q, r))
           c == IF r \in SeqRange(t.receipts) THEN 1 ELSE 0
           d == IF Flies(f, r) THEN 1 ELSE 0
<1>1. a <= b + c
  BY SlotsAppend
<1>2. a \in Nat /\ b \in Nat
  <2>1. Append(q, t) \in Seq(Task)
    OBVIOUS
  <2> QED  BY <2>1, SlotsFinite
<1>3. c \in Nat /\ d \in Nat /\ objects[r].pending \in Int /\ objects[r].pending >= b + d + c
  OBVIOUS
<1> HIDE DEF a, b, c, d
<1>4. objects[r].pending >= a + d
  BY <1>1, <1>2, <1>3
<1> QED  BY <1>4 DEF a, d

LEMMA WaitsPending ==
    ASSUME WorkTypes, ReceiptTypes, NEW r \in Receipts
    PROVE  /\ rcpt[r].pending \in Int /\ rcpt[r] \in Receipt
           /\ Cardinality(Slots(queue, r)) \in Nat
<1>1. queue \in Seq(Task) /\ rcpt[r] \in Receipt
  BY DEF WorkTypes, ReceiptTypes
<1> QED  BY <1>1, SlotsFinite DEF Receipt

\* A queue made of tasks of this one, and one notice under a free receipt.
LEMMA EnqueueTracks ==
    ASSUME WorkTypes, NEW q \in Seq(Task),
           NEW objects \in [Receipts -> Receipt], NEW s \in Intent, Singles(q),
           Waits(q, flight, objects),
           \A k \in 1..Len(q) : \E i \in 1..Len(queue) : q[k] = queue[i],
           EnqueueNotice(q, objects, s), UNCHANGED flight
    PROVE  Tracks' /\ Singles(queue')
<1>1. CASE ~live
  BY <1>1 DEF EnqueueNotice, Tracks
<1>2. CASE live
  <2>1. PICK r \in FreeReceipts :
           /\ rcpt' = [objects EXCEPT ![r] = Closed(Tracked(NewReceipt(s.snapshot)))]
           /\ queue' = Append(q, Notice(s.snapshot, r))
    BY <1>2 DEF EnqueueNotice
  <2>2. r \in Receipts /\ s.snapshot \in Offsets /\ ~Flies(flight, r)
        /\ \A i \in 1..Len(queue) : r \notin SeqRange(queue[i].receipts)
    BY FreeUnused DEF Intent
  <2> DEFINE t == Notice(s.snapshot, r)
  <2>3. t \in Task /\ SeqRange(t.receipts) = {r} /\ Len(t.receipts) = 1
    <3>1. t \in Task
      BY <2>2, NoticeTask
    <3> QED  BY <3>1 DEF Notice, SeqRange
  <2>4. rcpt'[r].pending = 1 /\ \A x \in Receipts \ {r} : rcpt'[x] = objects[x]
    BY <2>1, <2>2 DEF Closed, Tracked, NewReceipt
  <2>5. Slots(q, r) = {}
    BY <2>2 DEF Slots
  <2> HIDE DEF t
  <2>6. ASSUME NEW x \in Receipts
        PROVE  /\ rcpt'[x].pending \in Int
               /\ rcpt'[x].pending >= Cardinality(Slots(q, x)) + (IF Flies(flight, x) THEN 1 ELSE 0)
                                       + (IF x \in SeqRange(t.receipts) THEN 1 ELSE 0)
    <3>1. CASE x = r
      <4>1. Cardinality(Slots(q, x)) = 0
        BY <2>5, <3>1, FS_EmptySet
      <4> QED  BY <2>2, <2>3, <2>4, <3>1, <4>1
    <3>2. CASE x # r
      <4>1. Cardinality(Slots(q, x)) \in Nat /\ objects[x].pending \in Int
        BY SlotsFinite DEF Receipt
      <4>2. rcpt'[x].pending >= Cardinality(Slots(q, x)) + (IF Flies(flight, x) THEN 1 ELSE 0)
        BY <2>4, <3>2 DEF Waits
      <4>3. (IF x \in SeqRange(t.receipts) THEN 1 ELSE 0) = 0
        BY <2>3, <3>2
      <4> QED  BY <2>4, <3>2, <4>1, <4>2, <4>3
    <3> QED  BY <3>1, <3>2
  <2>7. Waits(queue', flight, rcpt')
    <3>1. queue' = Append(q, t)
      BY <2>1 DEF t
    <3> DEFINE objs == rcpt'
    <3>2. \A x \in Receipts :
              /\ objs[x].pending \in Int
              /\ objs[x].pending >= Cardinality(Slots(q, x)) + (IF Flies(flight, x) THEN 1 ELSE 0)
                                       + (IF x \in SeqRange(t.receipts) THEN 1 ELSE 0)
      BY <2>6
    <3> HIDE DEF objs
    <3>3. Waits(Append(q, t), flight, objs)
      BY <2>3, <3>2, WaitsAppend
    <3> QED  BY <3>1, <3>3 DEF objs
  <2>8. Singles(queue')
    <3>1. queue' = Append(q, t) /\ Len(q) \in Nat
      BY <2>1 DEF t
    <3>2. Len(queue') = Len(q) + 1 /\ queue'[Len(q) + 1] = t
          /\ \A i \in 1..Len(q) : queue'[i] = q[i]
      BY <2>3, <3>1
    <3> QED  BY <2>3, <3>1, <3>2 DEF Singles
  <2> QED  BY <2>7, <2>8 DEF Tracks
<1> QED  BY <1>1, <1>2

\* A purge settles each task it takes out once.
LEMMA PurgeWaits ==
    ASSUME WorkTypes, ReceiptTypes, Tracks, Singles(queue),
           NEW slots \in SUBSET (1..Len(queue)),
           NEW q \in Retained((1..Len(queue)) \ slots)
    PROVE  /\ q \in Seq(Task) /\ Singles(q)
           /\ Waits(q, flight, PurgeSettled(slots))
           /\ \A k \in 1..Len(q) : \E i \in 1..Len(queue) : q[k] = queue[i]
<1>1. (1..Len(queue)) \ slots \in SUBSET (1..Len(queue))
  OBVIOUS
<1>2. q \in Seq(Task)
  BY <1>1, RetainedTasks
<1>3. \A k \in 1..Len(q) : \E i \in (1..Len(queue)) \ slots : q[k] = queue[i]
  BY SlotsRetained
<1>4. Singles(q)
  BY <1>3 DEF Singles
<1>5. ASSUME NEW r \in Receipts
      PROVE  PurgeSettled(slots)[r].pending
               >= Cardinality(Slots(q, r)) + (IF Flies(flight, r) THEN 1 ELSE 0)
  <2> DEFINE gone == Cardinality(Among(slots, r))
             was == Cardinality(Slots(queue, r))
             now == Cardinality(Slots(q, r))
             fly == IF Flies(flight, r) THEN 1 ELSE 0
  <2>1. now <= was - gone /\ gone \in Nat
    BY SlotsRetained
  <2>2. now \in Nat /\ was \in Nat /\ fly \in Nat /\ rcpt[r].pending \in Int
        /\ rcpt[r] \in Receipt
    BY <1>2, SlotsFinite, WaitsPending
  <2>3. PurgeSettled(slots)[r].pending = rcpt[r].pending - gone
    BY <2>2 DEF PurgeSettled, Receipt, Among
  <2>4. rcpt[r].pending >= was + fly
    BY DEF Tracks, Waits
  <2> HIDE DEF gone, was, now, fly
  <2>5. PurgeSettled(slots)[r].pending >= now + fly
    BY <2>1, <2>2, <2>3, <2>4
  <2> QED  BY <2>5 DEF now, fly
<1> QED  BY <1>2, <1>3, <1>4, <1>5 DEF Waits

LEMMA PurgeTracks ==
    ASSUME WorkTypes, ReceiptTypes, StateTypes, Tracks, Singles(queue), NEW s \in Intent, NEW onDisk,
           PurgeThenNotice(s, onDisk), UNCHANGED flight
    PROVE  Tracks' /\ Singles(queue')
<1> DEFINE slots == PurgedSlots(s.snapshot)
           purged == [s EXCEPT !.purged = TRUE]
<1>1. PICK q \in Retained((1..Len(queue)) \ slots), ok \in SaveOutcomes :
         IF ok
         THEN EnqueueNotice(q, PurgeSettled(slots), purged)
         ELSE /\ queue' = q
              /\ rcpt' = PurgeSettled(slots)
  BY DEF PurgeThenNotice
<1>2. slots \in SUBSET (1..Len(queue)) /\ purged \in Intent
  BY DEF PurgedSlots, Intent
<1> HIDE DEF slots, purged
<1>3. /\ q \in Seq(Task) /\ Singles(q)
      /\ Waits(q, flight, PurgeSettled(slots))
      /\ \A k \in 1..Len(q) : \E i \in 1..Len(queue) : q[k] = queue[i]
  BY <1>2, PurgeWaits
<1>4. PurgeSettled(slots) \in [Receipts -> Receipt]
  BY <1>2, PurgedReceipts
<1>5. CASE ok
  <2>1. EnqueueNotice(q, PurgeSettled(slots), purged)
    BY <1>1, <1>5
  <2> QED  BY <1>2, <1>3, <1>4, <2>1, EnqueueTracks
<1>6. CASE ~ok
  BY <1>1, <1>3, <1>6 DEF Tracks
<1> QED  BY <1>5, <1>6

LEMMA EmptyQueue == ASSUME NEW f, NEW objects,
                           \A r \in Receipts : /\ objects[r].pending \in Int
                                               /\ objects[r].pending >= IF Flies(f, r) THEN 1 ELSE 0
                    PROVE  Waits(<<>>, f, objects) /\ Singles(<<>>)
<1>1. \A r : Slots(<<>>, r) = {}
  BY DEF Slots
<1>2. Cardinality({}) = 0
  BY FS_EmptySet
<1>3. ASSUME NEW r \in Receipts
      PROVE  objects[r].pending >= Cardinality(Slots(<<>>, r)) + (IF Flies(f, r) THEN 1 ELSE 0)
  <2> DEFINE a == Cardinality(Slots(<<>>, r))
  <2>1. a = 0
    BY <1>1, <1>2
  <2> HIDE DEF a
  <2>2. objects[r].pending >= a + (IF Flies(f, r) THEN 1 ELSE 0)
    BY <2>1
  <2> QED  BY <2>2 DEF a
<1>4. Singles(<<>>)
  BY DEF Singles
<1> QED  BY <1>3, <1>4 DEF Waits

\* The worker settles its task: every receipt of the task waits for one less.
LEMMA SettleTracks ==
    ASSUME WorkTypes, ReceiptTypes, Tracks, Singles(queue), flight # None, NEW outcome,
           SettleFlight(outcome), queue' = queue \/ queue' = <<>>
    PROVE  Tracks' /\ Singles(queue')
<1>1. /\ flight' = None
      /\ \A r \in Receipts : rcpt'[r] = IF Flies(flight, r) THEN Settled(rcpt[r], outcome)
                                        ELSE rcpt[r]
  BY DEF SettleFlight, SettlementReceipts, Flies
<1>2. ASSUME NEW r \in Receipts
      PROVE  /\ rcpt'[r].pending \in Int
             /\ rcpt'[r].pending >= Cardinality(Slots(queue, r))
             /\ rcpt'[r].pending >= 0
             /\ ~Flies(flight', r)
  <2>1. /\ rcpt[r].pending \in Int /\ rcpt[r] \in Receipt /\ Cardinality(Slots(queue, r)) \in Nat
        /\ rcpt[r].pending >= Cardinality(Slots(queue, r)) + (IF Flies(flight, r) THEN 1 ELSE 0)
    BY WaitsPending DEF Tracks, Waits
  <2>2. rcpt'[r].pending = rcpt[r].pending - (IF Flies(flight, r) THEN 1 ELSE 0)
    <3>1. CASE Flies(flight, r)
      BY <1>1, <2>1, <3>1 DEF Settled, Receipt
    <3>2. CASE ~Flies(flight, r)
      BY <1>1, <2>1, <3>2
    <3> QED  BY <3>1, <3>2
  <2>3. ~Flies(flight', r)
    BY <1>1 DEF Flies
  <2> QED  BY <2>1, <2>2, <2>3
<1>3. CASE queue' = queue
  <2> SUFFICES ASSUME NEW r \in Receipts
               PROVE  rcpt'[r].pending
                        >= Cardinality(Slots(queue', r)) + (IF Flies(flight', r) THEN 1 ELSE 0)
    BY <1>3 DEF Tracks, Waits
  <2>1. rcpt'[r].pending \in Int /\ rcpt'[r].pending >= Cardinality(Slots(queue', r))
        /\ (IF Flies(flight', r) THEN 1 ELSE 0) = 0 /\ Cardinality(Slots(queue', r)) \in Nat
    BY <1>2, <1>3, WaitsPending
  <2> QED  BY <2>1
<1>4. CASE queue' = <<>>
  <2> DEFINE f == flight'  objects == rcpt'
  <2>1. \A r \in Receipts : /\ objects[r].pending \in Int
                            /\ objects[r].pending >= IF Flies(f, r) THEN 1 ELSE 0
    BY <1>2
  <2> HIDE DEF f, objects
  <2>2. Waits(<<>>, f, objects) /\ Singles(<<>>)
    BY <2>1, EmptyQueue
  <2> QED  BY <1>4, <2>2 DEF Tracks, f, objects
<1> QED  BY <1>3, <1>4

\* Same tasks, and receipts that wait for as many or are fresh and unused.
LEMMA SameTasks ==
    ASSUME Tracks, Singles(queue), UNCHANGED <<queue, flight>>,
           \A r \in Receipts : rcpt'[r].pending = rcpt[r].pending
    PROVE  Tracks' /\ Singles(queue')
BY DEF Tracks, Waits

LEMMA RegisterTracks ==
    ASSUME WorkTypes, ReceiptTypes, Tracks, Singles(queue), Register
    PROVE  Tracks' /\ Singles(queue')
<1>1. UNCHANGED <<queue, flight>>
  BY DEF Register
<1>2. CASE UNCHANGED rcpt
  BY <1>1, <1>2 DEF Tracks
<1>3. CASE \E r \in FreeReceipts : rcpt' = [rcpt EXCEPT ![r] = NewReceipt(batch.hi)]
  <2>1. PICK r \in FreeReceipts : rcpt' = [rcpt EXCEPT ![r] = NewReceipt(batch.hi)]
    BY <1>3
  <2>2. r \in Receipts /\ ~Flies(flight, r) /\ Slots(queue, r) = {}
    BY FreeUnused
  <2>3. rcpt'[r].pending = 0 /\ \A x \in Receipts \ {r} : rcpt'[x] = rcpt[x]
    BY <2>1, <2>2 DEF NewReceipt, ReceiptTypes
  <2>4. Cardinality(Slots(queue, r)) = 0
    BY <2>2, FS_EmptySet
  <2> QED  BY <1>1, <2>2, <2>3, <2>4 DEF Tracks, Waits
<1> QED  BY <1>2, <1>3 DEF Register

LEMMA RouteTracks ==
    ASSUME WorkTypes, ReceiptTypes, PcTypes, Tracks, Singles(queue), RouteEntry
    PROVE  Tracks' /\ Singles(queue')
<1>1. UNCHANGED flight /\ job \in Dispatch /\ job.next <= job.last
  BY DEF RouteEntry, WorkTypes, PcTypes
<1>2. CASE UNCHANGED <<rcpt, queue>>
  BY <1>1, <1>2 DEF Tracks
<1>3. CASE /\ rcpt' = [rcpt EXCEPT ![job.receipt] = Tracked(@)]
           /\ queue' = Append(queue, Content(job.next, rcpt[job.receipt].checkpoint,
                                             job.receipt))
  <2> DEFINE r == job.receipt
             t == Content(job.next, rcpt[job.receipt].checkpoint, job.receipt)
             objs == rcpt'
  <2>1. r \in Receipts /\ job.next \in Entries /\ rcpt[r].checkpoint \in Offsets
    BY <1>1, DeliveryAssumption DEF Dispatch, Entries, ReceiptTypes
  <2>2. t \in Task
    BY <2>1, ContentTask
  <2>3. SeqRange(t.receipts) = {r} /\ Len(t.receipts) = 1
    BY DEF Content, SeqRange
  <2>4. objs[r].pending = rcpt[r].pending + 1 /\ \A x \in Receipts \ {r} : objs[x] = rcpt[x]
    <3>1. rcpt[r] \in Receipt
      BY <2>1 DEF ReceiptTypes
    <3> QED  BY <1>3, <2>1, <3>1 DEF Tracked, ReceiptTypes, Receipt
  <2>5. queue' = Append(queue, t) /\ queue \in Seq(Task)
    BY <1>3 DEF WorkTypes
  <2> HIDE DEF r, t, objs
  <2>6. ASSUME NEW x \in Receipts
        PROVE  /\ objs[x].pending \in Int
               /\ objs[x].pending >= Cardinality(Slots(queue, x)) + (IF Flies(flight, x) THEN 1 ELSE 0)
                                       + (IF x \in SeqRange(t.receipts) THEN 1 ELSE 0)
    <3>1. /\ rcpt[x].pending \in Int /\ Cardinality(Slots(queue, x)) \in Nat
          /\ rcpt[x].pending >= Cardinality(Slots(queue, x)) + (IF Flies(flight, x) THEN 1 ELSE 0)
      BY WaitsPending DEF Tracks, Waits
    <3>2. CASE x = r
      BY <2>3, <2>4, <3>1, <3>2
    <3>3. CASE x # r
      <4>1. (IF x \in SeqRange(t.receipts) THEN 1 ELSE 0) = 0 /\ objs[x] = rcpt[x]
        BY <2>3, <2>4, <3>3
      <4> QED  BY <3>1, <4>1
    <3> QED  BY <3>2, <3>3
  <2>7. Waits(Append(queue, t), flight, objs)
    BY <2>2, <2>5, <2>6, WaitsAppend
  <2>8. Singles(queue')
    <3>1. Len(queue) \in Nat /\ Len(queue') = Len(queue) + 1 /\ queue'[Len(queue) + 1] = t
          /\ \A i \in 1..Len(queue) : queue'[i] = queue[i]
      BY <2>2, <2>5
    <3> QED  BY <2>3, <3>1 DEF Singles
  <2> QED  BY <1>1, <2>5, <2>7, <2>8 DEF Tracks, objs
<1> QED  BY <1>2, <1>3 DEF RouteEntry

\* The front of the queue goes into the task in flight.
LEMMA TakenTracks ==
    ASSUME WorkTypes, ReceiptTypes, Tracks, Singles(queue), NEW n \in 1..Len(queue),
           queue' = SubSeq(queue, n + 1, Len(queue)), UNCHANGED rcpt,
           \A r \in Receipts : Flies(flight', r) =>
               Flies(flight, r) \/ \E i \in 1..n : r \in SeqRange(queue[i].receipts)
    PROVE  Tracks' /\ Singles(queue')
<1>1. queue \in Seq(Task) /\ Len(queue) \in Nat /\ n \in Nat
  BY DEF WorkTypes
<1> DEFINE q == SubSeq(queue, n + 1, Len(queue))
           g == flight'
<1>2. \A i \in 1..Len(q) : q[i] = queue[i + n] /\ i + n \in 1..Len(queue)
  BY <1>1
<1>3. Singles(queue')
  BY <1>2 DEF Singles
<1>4. ASSUME NEW r \in Receipts
      PROVE  rcpt[r].pending >= Cardinality(Slots(q, r)) + (IF Flies(g, r) THEN 1 ELSE 0)
  <2> DEFINE a == Cardinality(Slots(q, r))
             b == Cardinality(Slots(queue, r))
             c == IF \E i \in 1..n : r \in SeqRange(queue[i].receipts) THEN 1 ELSE 0
             d == IF Flies(flight, r) THEN 1 ELSE 0
             e == IF Flies(g, r) THEN 1 ELSE 0
  <2>1. a + c <= b /\ q \in Seq(Task)
    BY <1>1, SlotsRest
  <2> HIDE DEF q
  <2>2. a \in Nat /\ b \in Nat
    BY <1>1, <2>1, SlotsFinite
  <2>3. rcpt[r].pending \in Int /\ rcpt[r].pending >= b + d
    BY WaitsPending DEF Tracks, Waits
  <2>4. c \in Nat /\ d \in Nat /\ e <= c + d /\ e \in Nat
    OBVIOUS
  <2> HIDE DEF a, b, c, d, e
  <2>5. rcpt[r].pending >= a + e
    BY <2>1, <2>2, <2>3, <2>4
  <2> QED  BY <2>5 DEF a, e
<1> HIDE DEF q, g
<1>5. Waits(q, g, rcpt)
  BY <1>4 DEF Waits
<1> QED  BY <1>3, <1>5 DEF Tracks, q, g

LEMMA JoinedSeq ==
    ASSUME NEW S, NEW s \in Seq(S), NEW t \in Seq(S)
    PROVE  /\ Len(s) \in Nat /\ Len(t) \in Nat /\ Len(s \o t) = Len(s) + Len(t)
           /\ \A i \in 1..Len(s) : (s \o t)[i] = s[i]
           /\ \A i \in 1..Len(t) : (s \o t)[Len(s) + i] = t[i]
OBVIOUS

\* A merged task carries the receipts of its parts.
LEMMA MergedReceipts ==
    ASSUME WorkTypes, Singles(queue), NEW task \in Task, NEW n \in 1..Len(queue), NEW r
    PROVE  r \in SeqRange(Merged(task, n).receipts) <=>
              r \in SeqRange(task.receipts) \/ \E i \in 1..n : r \in SeqRange(queue[i].receipts)
<1> DEFINE heads == [i \in 1..n |-> queue[i].receipts[1]]
           rs == task.receipts
           all == rs \o heads
<1>1. queue \in Seq(Task) /\ Len(queue) \in Nat /\ n \in Nat /\ \A i \in 1..n : i \in 1..Len(queue)
  BY DEF WorkTypes
<1>2. \A i \in 1..n : Len(queue[i].receipts) = 1
  BY <1>1 DEF Singles
<1>3. \A i \in 1..n : r \in SeqRange(queue[i].receipts) <=> r = queue[i].receipts[1]
  BY <1>2 DEF SeqRange
<1>4. rs \in Seq(Receipts) /\ Merged(task, n).receipts = all
  BY DEF Task, Merged
<1>5. heads \in Seq(Receipts) /\ Len(heads) = n
  <2>1. \A i \in 1..n : queue[i] \in Task
    BY <1>1
  <2>2. ASSUME NEW i \in 1..n PROVE queue[i].receipts[1] \in Receipts
    <3>1. queue[i].receipts \in Seq(Receipts) /\ Len(queue[i].receipts) = 1
      BY <1>2, <2>1 DEF Task
    <3> QED  BY <3>1
  <2> QED  BY <1>1, <2>2
<1>6. r \in SeqRange(heads) <=> \E i \in 1..n : r \in SeqRange(queue[i].receipts)
  BY <1>3, <1>5 DEF SeqRange
<1> HIDE DEF heads, rs
<1>7. r \in SeqRange(all) <=> r \in SeqRange(rs) \/ r \in SeqRange(heads)
  <2>0. rs \in Seq(Receipts) /\ heads \in Seq(Receipts)
    BY <1>4, <1>5
  <2>1. /\ Len(rs) \in Nat /\ Len(heads) \in Nat /\ Len(all) = Len(rs) + Len(heads)
        /\ \A i \in 1..Len(rs) : all[i] = rs[i]
        /\ \A i \in 1..Len(heads) : all[Len(rs) + i] = heads[i]
    BY <2>0, JoinedSeq
  <2>2. \A i \in 1..Len(all) : i \in 1..Len(rs) \/ (i - Len(rs) \in 1..Len(heads) /\ all[i] = heads[i - Len(rs)])
    <3> SUFFICES ASSUME NEW i \in 1..Len(all), i \notin 1..Len(rs)
                 PROVE  i - Len(rs) \in 1..Len(heads) /\ all[i] = heads[i - Len(rs)]
      OBVIOUS
    <3>1. i - Len(rs) \in 1..Len(heads) /\ i = Len(rs) + (i - Len(rs))
      BY <2>1
    <3> QED  BY <2>1, <3>1
  <2>3. \A i \in 1..Len(rs) : i \in 1..Len(all)
    BY <2>1
  <2>4. \A i \in 1..Len(heads) : Len(rs) + i \in 1..Len(all)
    BY <2>1
  <2> HIDE DEF all
  <2>5. ASSUME NEW i \in 1..Len(all), all[i] = r PROVE r \in SeqRange(rs) \/ r \in SeqRange(heads)
    BY <2>1, <2>2, <2>5 DEF SeqRange
  <2>6. ASSUME NEW i \in 1..Len(rs), rs[i] = r PROVE r \in SeqRange(all)
    BY <2>1, <2>3, <2>6 DEF SeqRange
  <2>7. ASSUME NEW i \in 1..Len(heads), heads[i] = r PROVE r \in SeqRange(all)
    BY <2>1, <2>4, <2>7 DEF SeqRange
  <2>8. r \in SeqRange(all) => r \in SeqRange(rs) \/ r \in SeqRange(heads)
    BY <2>5 DEF SeqRange
  <2>9. r \in SeqRange(rs) => r \in SeqRange(all)
    BY <2>6 DEF SeqRange
  <2>10. r \in SeqRange(heads) => r \in SeqRange(all)
    BY <2>7 DEF SeqRange
  <2> QED  BY <2>8, <2>9, <2>10
<1> QED  BY <1>4, <1>6, <1>7 DEF rs

LEMMA ClosedPending ==
    ASSUME NEW r \in Receipt
    PROVE  Closed(r).pending = r.pending /\ Closed(Failed(r)).pending = r.pending
BY DEF Receipt, Closed, Failed

LEMMA FewerFlying ==
    ASSUME WorkTypes, ReceiptTypes, Tracks, UNCHANGED <<queue, rcpt>>,
           \A r \in Receipts : Flies(flight', r) => Flies(flight, r)
    PROVE  Tracks'
<1> SUFFICES ASSUME NEW r \in Receipts
             PROVE  rcpt[r].pending >= Cardinality(Slots(queue, r)) + (IF Flies(flight', r) THEN 1 ELSE 0)
  BY DEF Tracks, Waits
<1> DEFINE a == Cardinality(Slots(queue, r))
           d == IF Flies(flight, r) THEN 1 ELSE 0
           e == IF Flies(flight', r) THEN 1 ELSE 0
<1>1. a \in Nat /\ rcpt[r].pending \in Int /\ rcpt[r].pending >= a + d
  BY WaitsPending DEF Tracks, Waits
<1>2. d \in Nat /\ e \in Nat /\ e <= d
  OBVIOUS
<1> HIDE DEF a, d, e
<1>3. rcpt[r].pending >= a + e
  BY <1>1, <1>2
<1> QED  BY <1>3 DEF a, e

LEMMA NoneNotFlight == ASSUME NEW f \in [task : Task, sending : BOOLEAN], NEW b
                       PROVE  [f EXCEPT !.sending = b].task = f.task
OBVIOUS

\* The receipts of a task are receipts.
LEMMA SettledAreReceipts ==
    ASSUME WorkTypes
    PROVE  /\ \A i \in 1..Len(queue) : SeqRange(queue[i].receipts) \subseteq Receipts
           /\ flight # None => SeqRange(flight.task.receipts) \subseteq Receipts
<1>1. ASSUME NEW t \in Task PROVE SeqRange(t.receipts) \subseteq Receipts
  <2>1. t.receipts \in Seq(Receipts)
    BY DEF Task
  <2> QED  BY <2>1 DEF SeqRange
<1> QED  BY <1>1 DEF WorkTypes

LEMMA TracksInit == Init => Tracks /\ Singles(queue)
<1> SUFFICES ASSUME Init PROVE Tracks /\ Singles(queue)
  OBVIOUS
<1>1. queue = <<>> /\ flight = None /\ rcpt = [r \in Receipts |-> NewReceipt(0)]
  BY DEF Init
<1>2. \A r \in Receipts : /\ rcpt[r].pending \in Int
                          /\ rcpt[r].pending >= IF Flies(flight, r) THEN 1 ELSE 0
  BY <1>1 DEF NewReceipt, Flies
<1>3. Waits(<<>>, flight, rcpt) /\ Singles(<<>>)
  BY <1>2, EmptyQueue
<1> QED  BY <1>1, <1>3 DEF Tracks

LEMMA TracksStep ==
    ASSUME TypeOK, Tracks, Singles(queue), [Next]_vars
    PROVE  Tracks' /\ Singles(queue')
<1>0. WorkTypes /\ ReceiptTypes /\ StateTypes /\ PcTypes /\ EnvTypes
  BY DEF TypeOK
<1>1. CASE UNCHANGED <<queue, flight, rcpt>>
  BY <1>1 DEF Tracks
<1>2. CASE Environment \/ UNCHANGED vars
  BY <1>1, <1>2 DEF Environment, AgentWrites, Rebind, WindowChanges, BarrierAges, vars,
                    workVars, receiptVars
<1>3. CASE RequestSkip
  <2> DEFINE intent == [snapshot |-> eof, purged |-> FALSE]
             onDisk == [watermark |-> watermark, skip |-> intent]
  <2>1. CASE UNCHANGED <<queue, rcpt>>
    BY <1>1, <1>3, <2>1 DEF RequestSkip
  <2>2. CASE PurgeThenNotice(intent, onDisk)
    <3>1. intent \in Intent /\ UNCHANGED flight
      BY <1>0, <1>3 DEF EnvTypes, Intent, RequestSkip
    <3> HIDE DEF intent, onDisk
    <3> QED  BY <1>0, <2>2, <3>1, PurgeTracks
  <2> QED  BY <1>3, <2>1, <2>2 DEF RequestSkip, receiptVars
<1>4. CASE ResumeSkip
  <2>1. UNCHANGED flight
    BY <1>4 DEF ResumeSkip
  <2>2. CASE UNCHANGED <<queue, rcpt>>
    BY <1>1, <2>1, <2>2
  <2>3. CASE skip # None /\ PurgeThenNotice(skip, disk)
    <3>1. skip \in Intent
      BY <1>0, <2>3 DEF StateTypes
    <3> QED  BY <1>0, <2>1, <2>3, <3>1, PurgeTracks
  <2>4. CASE skip # None /\ EnqueueNotice(queue, rcpt, skip)
    <3>1. skip \in Intent /\ queue \in Seq(Task) /\ rcpt \in [Receipts -> Receipt]
      BY <1>0, <2>4 DEF StateTypes, WorkTypes, ReceiptTypes
    <3>2. \A k \in 1..Len(queue) : \E i \in 1..Len(queue) : queue[k] = queue[i]
      OBVIOUS
    <3> QED  BY <1>0, <2>1, <2>4, <3>1, <3>2, EnqueueTracks DEF Tracks
  <2> QED  BY <1>4, <2>2, <2>3, <2>4 DEF ResumeSkip, receiptVars
<1>5. CASE \/ Wake \/ ExpireSkip \/ CommitSkips \/ ReadBegin \/ ReadEnd \/ GrowthTakenForReplacement
           \/ RebuildFails \/ ReadFails \/ ReadFailsLate \/ CommitPrefix
  BY <1>1, <1>5 DEF Wake, ExpireSkip, CommitSkips, ReadBegin, ReadEnd,
     GrowthTakenForReplacement, RebuildFails, ReadFails, ReadFailsLate, CommitPrefix, workVars,
     receiptVars
<1>6. CASE Register
  BY <1>0, <1>6, RegisterTracks
<1>7. CASE RouteEntry
  BY <1>0, <1>7, RouteTracks
<1>8. CASE DispatchEnds
  <2>1. job \in Dispatch /\ UNCHANGED <<queue, flight>>
    BY <1>0, <1>8 DEF DispatchEnds, WorkTypes, PcTypes
  <2>2. \A r \in Receipts : rcpt'[r].pending = rcpt[r].pending
    <3>1. job.receipt \in Receipts /\ rcpt \in [Receipts -> Receipt]
      BY <1>0, <2>1 DEF Dispatch, ReceiptTypes
    <3>2. /\ Closed(rcpt[job.receipt]).pending = rcpt[job.receipt].pending
          /\ Closed(Failed(rcpt[job.receipt])).pending = rcpt[job.receipt].pending
      BY <3>1, ClosedPending
    <3>3. \/ rcpt' = [rcpt EXCEPT ![job.receipt] = Closed(rcpt[job.receipt])]
          \/ rcpt' = [rcpt EXCEPT ![job.receipt] = Closed(Failed(rcpt[job.receipt]))]
      BY <1>8 DEF DispatchEnds
    <3> QED  BY <3>1, <3>2, <3>3
  <2> QED  BY <2>1, <2>2, SameTasks
<1>9. CASE TakeTask
  <2>1. /\ queue # <<>> /\ queue \in Seq(Task) /\ UNCHANGED rcpt
        /\ flight' = [task |-> Head(queue), sending |-> FALSE] /\ queue' = Tail(queue)
    BY <1>0, <1>9 DEF TakeTask, WorkTypes, receiptVars
  <2>2. 1 \in 1..Len(queue) /\ queue' = SubSeq(queue, 1 + 1, Len(queue)) /\ queue[1] = Head(queue)
    BY <2>1
  <2>3. \A r \in Receipts : Flies(flight', r) =>
               Flies(flight, r) \/ \E i \in 1..1 : r \in SeqRange(queue[i].receipts)
    BY <2>1, <2>2 DEF Flies
  <2> QED  BY <1>0, <2>1, <2>2, <2>3, TakenTracks
<1>10. CASE DropStale \/ RefuseNotice \/ SendEnds
  <2>1. flight # None /\ UNCHANGED queue /\ \E o : SettleFlight(o)
    BY <1>10 DEF DropStale, RefuseNotice, SendEnds
  <2> QED  BY <1>0, <2>1, SettleTracks
<1>11. CASE StartSend
  <2>0. flight \in [task : Task, sending : BOOLEAN] /\ UNCHANGED rcpt
    BY <1>0, <1>11 DEF StartSend, WorkTypes, receiptVars
  <2>1. CASE flight' = [flight EXCEPT !.sending = TRUE] /\ UNCHANGED queue
    <3>1. flight'.task = flight.task /\ flight # None
      BY <2>0, <2>1, <1>11, NoneNotFlight DEF StartSend
    <3>2. \A r \in Receipts : Flies(flight', r) => Flies(flight, r)
      BY <3>1 DEF Flies
    <3> QED  BY <1>0, <2>0, <2>1, <3>2, FewerFlying
  <2>2. CASE \E n \in 1..Len(queue) :
                /\ flight' = [task |-> Merged(flight.task, n), sending |-> TRUE]
                /\ queue' = SubSeq(queue, n + 1, Len(queue))
    <3>1. PICK n \in 1..Len(queue) :
                /\ flight' = [task |-> Merged(flight.task, n), sending |-> TRUE]
                /\ queue' = SubSeq(queue, n + 1, Len(queue))
      BY <2>2
    <3>2. ASSUME NEW r \in Receipts, Flies(flight', r)
          PROVE  Flies(flight, r) \/ \E i \in 1..n : r \in SeqRange(queue[i].receipts)
      BY <1>0, <1>11, <2>0, <3>1, <3>2, MergedReceipts DEF Flies, StartSend
    <3> QED  BY <1>0, <2>0, <3>1, <3>2, TakenTracks
  <2> QED  BY <1>11, <2>1, <2>2 DEF StartSend
<1>12. CASE FloodRetry
  <2>0. flight # None /\ flight \in [task : Task, sending : BOOLEAN] /\ UNCHANGED <<rcpt, queue>>
        /\ flight' = [flight EXCEPT !.sending = FALSE]
    BY <1>0, <1>12 DEF FloodRetry, WorkTypes, receiptVars
  <2>1. \A r : Flies(flight', r) => Flies(flight, r)
    BY <2>0 DEF Flies
  <2> QED  BY <1>0, <2>0, <2>1, FewerFlying
<1>13. CASE StopMonitor
  <2>1. UNCHANGED <<queue, flight>>
    BY <1>13 DEF StopMonitor
  <2>2. \A r \in Receipts : rcpt'[r].pending = rcpt[r].pending
    BY <1>0, <1>13 DEF StopMonitor, Closed, Failed, ReceiptTypes, Receipt, WorkTypes, Dispatch
  <2> QED  BY <2>1, <2>2, SameTasks
<1>14. CASE StopWorkers
  <2>1. CASE flight # None /\ SettleFlight("failed")
    BY <1>0, <1>14, <2>1, SettleTracks DEF StopWorkers
  <2>2. CASE flight = None /\ UNCHANGED <<rcpt, flight>>
    <3>1. queue' = <<>>
      BY <1>14 DEF StopWorkers
    <3>2. \A r \in Receipts : rcpt[r].pending \in Int /\ Cardinality(Slots(queue, r)) \in Nat
            /\ rcpt[r].pending >= Cardinality(Slots(queue, r))
      BY <1>0, <2>2, WaitsPending DEF Tracks, Waits, Flies
    <3>3. \A r \in Receipts : rcpt[r].pending \in Int /\ rcpt[r].pending >= IF Flies(flight, r) THEN 1 ELSE 0
      BY <2>2, <3>2 DEF Flies
    <3>4. Waits(<<>>, flight, rcpt) /\ Singles(<<>>)
      BY <3>3, EmptyQueue
    <3> QED  BY <2>2, <3>1, <3>4 DEF Tracks
  <2> QED  BY <1>14, <2>1, <2>2 DEF StopWorkers
<1>15. CASE Restart
  <2>1. queue' = <<>> /\ flight' = None /\ rcpt' = [r \in Receipts |-> NewReceipt(0)]
    BY <1>15 DEF Restart
  <2> DEFINE f == flight'  objects == rcpt'
  <2>2. \A r \in Receipts : /\ objects[r].pending \in Int
                            /\ objects[r].pending >= IF Flies(f, r) THEN 1 ELSE 0
    BY <2>1 DEF NewReceipt, Flies
  <2> HIDE DEF f, objects
  <2>3. Waits(<<>>, f, objects) /\ Singles(<<>>)
    BY <2>2, EmptyQueue
  <2> QED  BY <2>1, <2>3 DEF Tracks, f, objects
<1> QED
  BY <1>2, <1>3, <1>4, <1>5, <1>6, <1>7, <1>8, <1>9, <1>10, <1>11, <1>12, <1>13, <1>14, <1>15
  DEF Next, MonitorStep, WorkerStep, Lifetime

\* The receipt of a task that waits or is in flight waits for it.
LEMMA TrackedPending ==
    ASSUME TypeOK, Tracks, NEW r \in Receipts,
           Flies(flight, r) \/ \E i \in 1..Len(queue) : r \in SeqRange(queue[i].receipts)
    PROVE  rcpt[r].pending > 0
<1>1. WorkTypes /\ ReceiptTypes /\ queue \in Seq(Task)
  BY DEF TypeOK, WorkTypes
<1>2. /\ rcpt[r].pending \in Int /\ Cardinality(Slots(queue, r)) \in Nat
      /\ rcpt[r].pending >= Cardinality(Slots(queue, r)) + (IF Flies(flight, r) THEN 1 ELSE 0)
  BY <1>1, WaitsPending DEF Tracks, Waits
<1>3. CASE Flies(flight, r)
  BY <1>2, <1>3
<1>4. CASE \E i \in 1..Len(queue) : r \in SeqRange(queue[i].receipts)
  <2>1. Slots(queue, r) # {} /\ IsFiniteSet(Slots(queue, r))
    BY <1>1, <1>4, SlotsFinite DEF Slots
  <2>2. Cardinality(Slots(queue, r)) # 0
    BY <2>1, FS_EmptySet
  <2> DEFINE a == Cardinality(Slots(queue, r))  d == IF Flies(flight, r) THEN 1 ELSE 0
  <2>3. a \in Nat /\ a # 0 /\ d \in Nat /\ rcpt[r].pending >= a + d /\ rcpt[r].pending \in Int
    BY <1>2, <2>2
  <2> HIDE DEF a, d
  <2> QED  BY <2>3
<1> QED  BY <1>3, <1>4

\* A task that still waits to be settled has receipts that wait for it: neither the
\* worker nor the purge settles a receipt too often (delivery_contract.py).
THEOREM SettlesSafely == Spec => []SettleNeverRaises
<1>1. TypeOK /\ Tracks /\ Singles(queue) => SettleNeverRaises
  <2> SUFFICES ASSUME TypeOK, Tracks, NEW r \in Receipts,
                      Flies(flight, r) \/ \E i \in 1..Len(queue) : r \in SeqRange(queue[i].receipts)
               PROVE  rcpt[r].pending > 0
    <3> SUFFICES ASSUME TypeOK, Tracks,
                        NEW t \in {queue[i] : i \in 1..Len(queue)}
                                     \cup (IF flight = None THEN {} ELSE {flight.task}),
                        NEW r \in SeqRange(t.receipts)
                 PROVE  /\ r \in Receipts
                        /\ Flies(flight, r) \/ \E i \in 1..Len(queue) : r \in SeqRange(queue[i].receipts)
      BY DEF SettleNeverRaises
    <3>1. CASE \E i \in 1..Len(queue) : t = queue[i]
      BY <3>1, SettledAreReceipts DEF TypeOK
    <3>2. CASE flight # None /\ t = flight.task
      BY <3>2, SettledAreReceipts DEF TypeOK, Flies
    <3> QED  BY <3>1, <3>2
  <2> QED  BY TrackedPending
<1>2. Init => Tracks /\ Singles(queue)
  BY TracksInit
<1>3. TypeOK /\ Tracks /\ Singles(queue) /\ [Next]_vars => Tracks' /\ Singles(queue)'
  BY TracksStep
<1>4. Spec => []TypeOK
  BY TypeCorrect
<1> QED  BY <1>1, <1>2, <1>3, <1>4, PTL DEF Spec

-----------------------------------------------------------------------------
\* The checkpoint of the k-th receipt registered.
Cp(k) == rcpt[order[k]].checkpoint

\* Durable position, watermark, parse position and file end, in this order.
Bounded ==
    /\ disk.watermark <= watermark
    /\ watermark <= ParsePos
    /\ ParsePos <= eof
    /\ clamp <= eof
    /\ prefix <= eof
    /\ skip # None => skip.snapshot <= eof
    /\ disk.skip # None => disk.skip.snapshot <= eof

\* A read in progress started from the parse position.
ReadingAt ==
    reading # None => /\ pc = "reading"
                      /\ reading.from = ParsePos
                      /\ reading.from <= reading.seen
                      /\ reading.seen <= eof
                      /\ prefix <= reading.seen
                      /\ clampDone
                      /\ batch = None

\* A batch waits for its receipt between the parse position it began at and the
\* one it ended at, above every checkpoint.
BatchAt ==
    batch # None => /\ pc \in {"register", "draining", "lastCommit", "lastPrefix", "exited"}
                    /\ parsed = batch.hi
                    /\ watermark <= batch.from
                    /\ watermark < batch.hi
                    /\ batch.from <= batch.hi
                    /\ \A k \in 1..Len(order) : Cp(k) <= batch.from /\ Cp(k) < batch.hi

\* The dispatch in progress is that of the last receipt, which is open.
JobAt ==
    /\ job # None <=> pc = "dispatch"
    /\ job # None => /\ order # <<>>
                     /\ order[Len(order)] = job.receipt
                     /\ ~rcpt[job.receipt].closed
                     /\ rcpt[job.receipt].checkpoint = job.last
                     /\ watermark < job.next
                     /\ job.next <= job.last + 1
                     /\ \A k \in 1..(Len(order) - 1) : Cp(k) < job.next
                     /\ batch = None

\* Checkpoints rise along the list, between watermark and parse position.
Queued ==
    /\ \A k \in 1..Len(order) : watermark < Cp(k) /\ Cp(k) <= ParsePos
    /\ \A j, k \in 1..Len(order) : j < k => Cp(j) < Cp(k)

\* Before the first read of a process, and while the parser must be rebuilt,
\* nothing read is outstanding.
Restarted == (rebuild \/ ~clampDone) => order = <<>> /\ batch = None

Places == Bounded /\ ReadingAt /\ BatchAt /\ JobAt /\ Queued /\ Restarted

placeVars == <<watermark, parsed, clamp, prefix, reading, batch, job, order, rebuild, clampDone>>

\* The receipts of the list keep checkpoint and closing.
SameList == \A k \in 1..Len(order) :
    /\ rcpt'[order[k]].checkpoint = rcpt[order[k]].checkpoint
    /\ rcpt'[order[k]].closed = rcpt[order[k]].closed

\* A barrier a step leaves stands inside the file.
GoodBarriers ==
    /\ skip' # None => skip'.snapshot <= eof'
    /\ disk'.skip # None => disk'.skip.snapshot <= eof'
    /\ disk'.watermark <= watermark'

\* The monitor stays where it is, or is not about to read or dispatch.
PcMove ==
    \/ UNCHANGED pc
    \/ /\ reading = None /\ job = None /\ pc' # "dispatch"
       /\ batch # None => pc' \in {"register", "draining", "lastCommit", "lastPrefix", "exited"}

\* A step beside the monitor: the environment, the worker, a user's jump.
LEMMA QuietPlaces ==
    ASSUME TypeOK, TypeOK', Places, UNCHANGED placeVars, PcMove, eof <= eof', SameList, GoodBarriers
    PROVE  Places'
<1> USE DEF placeVars, PcMove
<1>1. ParsePos' = ParsePos /\ ParsePos \in Int /\ eof \in Int /\ eof' \in Int /\ clamp \in Int
      /\ prefix \in Int
  BY ParsePosType DEF ParsePos, TypeOK, EnvTypes, ReaderTypes, StateTypes, Offsets
<1>2. order' = order /\ \A k \in 1..Len(order) : Cp(k)' = Cp(k)
  BY DEF SameList, Cp
<1>3. Bounded'
  BY <1>1 DEF Places, Bounded, GoodBarriers
<1>4. ReadingAt'
  <2>1. reading # None => reading.seen \in Int
    BY DEF TypeOK, ReaderTypes, Read, Offsets
  <2> QED  BY <1>1, <2>1 DEF Places, ReadingAt
<1>5. BatchAt'
  BY <1>1, <1>2 DEF Places, BatchAt
<1>6. JobAt'
  <2>1. job # None => Len(order) \in 1..Len(order)
    BY DEF Places, JobAt, TypeOK, ReceiptTypes
  <2>2. \A k \in 1..(Len(order) - 1) : k \in 1..Len(order)
    BY DEF TypeOK, ReceiptTypes
  <2> QED  BY <1>2, <2>1, <2>2 DEF Places, JobAt, SameList
<1>7. Queued'
  BY <1>1, <1>2 DEF Places, Queued
<1>8. Restarted'
  BY DEF Places, Restarted
<1> QED  BY <1>3, <1>4, <1>5, <1>6, <1>7, <1>8 DEF Places

LEMMA OrderedNotFree ==
    ASSUME TypeOK, NEW r \in FreeReceipts, NEW k \in 1..Len(order)
    PROVE  order[k] # r /\ order[k] \in Receipts /\ rcpt[order[k]] \in Receipt
<1>1. r \notin SeqRange(order)
  BY FreeUnused DEF TypeOK
<1> QED  BY <1>1 DEF SeqRange, TypeOK, ReceiptTypes

LEMMA OrderedTypes ==
    ASSUME TypeOK, NEW k \in 1..Len(order)
    PROVE  order[k] \in Receipts /\ rcpt[order[k]] \in Receipt /\ Cp(k) \in Offsets
BY DEF TypeOK, ReceiptTypes, Cp

\* Purging and queueing a notice leave the list as it is.
LEMMA EnqueueList ==
    ASSUME TypeOK, NEW q, NEW objects \in [Receipts -> Receipt], NEW s, EnqueueNotice(q, objects, s),
           \A r \in Receipts : /\ objects[r].checkpoint = rcpt[r].checkpoint
                               /\ objects[r].closed = rcpt[r].closed
                               /\ objects[r].failed = rcpt[r].failed
    PROVE  SameList
<1>1. CASE ~live
  BY <1>1, OrderedTypes DEF EnqueueNotice, SameList
<1>2. CASE live
  <2>1. PICK r \in FreeReceipts :
           rcpt' = [objects EXCEPT ![r] = Closed(Tracked(NewReceipt(s.snapshot)))]
    BY <1>2 DEF EnqueueNotice
  <2> SUFFICES ASSUME NEW k \in 1..Len(order) PROVE rcpt'[order[k]] = objects[order[k]]
    BY OrderedTypes DEF SameList
  <2> QED  BY <2>1, OrderedNotFree
<1> QED  BY <1>1, <1>2

LEMMA PurgedFields ==
    ASSUME TypeOK, NEW slots
    PROVE  \A r \in Receipts : /\ PurgeSettled(slots)[r].checkpoint = rcpt[r].checkpoint
                               /\ PurgeSettled(slots)[r].closed = rcpt[r].closed
                               /\ PurgeSettled(slots)[r].failed = rcpt[r].failed
<1> SUFFICES ASSUME NEW r \in Receipts
             PROVE  /\ PurgeSettled(slots)[r].checkpoint = rcpt[r].checkpoint
                    /\ PurgeSettled(slots)[r].closed = rcpt[r].closed
                    /\ PurgeSettled(slots)[r].failed = rcpt[r].failed
  OBVIOUS
<1>1. rcpt[r] \in Receipt
  BY DEF TypeOK, ReceiptTypes
<1> QED  BY <1>1 DEF PurgeSettled, Receipt

LEMMA PurgeList ==
    ASSUME TypeOK, NEW s \in Intent, NEW onDisk, PurgeThenNotice(s, onDisk)
    PROVE  SameList
<1> DEFINE slots == PurgedSlots(s.snapshot)
           purged == [s EXCEPT !.purged = TRUE]
<1>1. PICK q \in Retained((1..Len(queue)) \ slots), ok \in SaveOutcomes :
         IF ok
         THEN EnqueueNotice(q, PurgeSettled(slots), purged)
         ELSE rcpt' = PurgeSettled(slots)
  BY DEF PurgeThenNotice
<1>2. slots \in SUBSET (1..Len(queue))
  BY DEF PurgedSlots
<1> HIDE DEF slots, purged
<1>3. PurgeSettled(slots) \in [Receipts -> Receipt]
  BY <1>2, PurgedReceipts DEF TypeOK
<1>4. CASE ok
  <2>1. EnqueueNotice(q, PurgeSettled(slots), purged)
    BY <1>1, <1>4
  <2> QED  BY <1>3, <2>1, PurgedFields, EnqueueList
<1>5. CASE ~ok
  BY <1>1, <1>5, PurgedFields, OrderedTypes DEF SameList
<1> QED  BY <1>4, <1>5

\* What a purge writes.
LEMMA PurgeBarrier ==
    ASSUME TypeOK, Bounded, NEW s \in Intent, NEW onDisk, PurgeThenNotice(s, onDisk),
           s.snapshot <= eof', UNCHANGED watermark,
           onDisk.watermark <= watermark, onDisk.skip # None => onDisk.skip.snapshot <= eof'
    PROVE  GoodBarriers
<1> DEFINE purged == [s EXCEPT !.purged = TRUE]
<1>1. \/ disk' = [watermark |-> watermark, skip |-> purged] /\ skip' = purged
      \/ disk' = onDisk /\ skip' = s
  BY DEF PurgeThenNotice
<1>2. purged.snapshot = s.snapshot /\ watermark \in Int
  BY DEF Intent, TypeOK, StateTypes, Offsets
<1> HIDE DEF purged
<1> QED  BY <1>1, <1>2 DEF GoodBarriers

LEMMA SettleList ==
    ASSUME TypeOK, NEW outcome, SettleFlight(outcome)
    PROVE  SameList
<1> SUFFICES ASSUME NEW k \in 1..Len(order)
             PROVE  /\ rcpt'[order[k]].checkpoint = rcpt[order[k]].checkpoint
                    /\ rcpt'[order[k]].closed = rcpt[order[k]].closed
  BY DEF SameList
<1> DEFINE r == order[k]
<1>1. r \in Receipts /\ rcpt[r] \in Receipt
  BY OrderedTypes
<1>2. rcpt'[r] = Settled(rcpt[r], outcome) \/ rcpt'[r] = rcpt[r]
  BY <1>1 DEF SettleFlight
<1> HIDE DEF r
<1>3. Settled(rcpt[r], outcome).checkpoint = rcpt[r].checkpoint
      /\ Settled(rcpt[r], outcome).closed = rcpt[r].closed
  BY <1>1 DEF Settled, Receipt
<1> QED  BY <1>2, <1>3 DEF r

LEMMA QuietStep ==
    ASSUME TypeOK, TypeOK', Places, Environment \/ RequestSkip \/ WorkerStep \/ UNCHANGED vars
    PROVE  Places'
<1> USE DEF placeVars, PcMove, readerVars, stateVars, workVars, receiptVars, envVars
<1>0. eof \in Int /\ (UNCHANGED rcpt => SameList)
  BY DEF TypeOK, EnvTypes, Offsets, SameList
<1>1. CASE Environment
  <2>1. UNCHANGED <<placeVars, pc, rcpt, disk, skip>> /\ (eof' = eof \/ eof' = eof + 1)
    BY <1>1 DEF Environment, AgentWrites, Rebind, WindowChanges, BarrierAges
  <2>2. GoodBarriers
    <3>1. skip # None => skip.snapshot \in Int
      BY DEF TypeOK, StateTypes, Intent, Offsets
    <3>2. disk.skip # None => disk.skip.snapshot \in Int
      BY DEF TypeOK, StateTypes, Intent, Offsets
    <3> QED  BY <1>0, <2>1, <3>1, <3>2 DEF Places, Bounded, GoodBarriers
  <2> QED  BY <1>0, <2>1, <2>2, QuietPlaces
<1>2. CASE UNCHANGED vars
  <2>1. UNCHANGED <<placeVars, pc, rcpt, disk, skip, eof>>
    BY <1>2 DEF vars
  <2>2. GoodBarriers
    BY <2>1 DEF Places, Bounded, GoodBarriers
  <2> QED  BY <1>0, <2>1, <2>2, QuietPlaces
<1>3. CASE WorkerStep
  <2>1. UNCHANGED <<placeVars, pc, disk, skip, eof>>
    BY <1>3 DEF WorkerStep, TakeTask, DropStale, RefuseNotice, StartSend, SendEnds, FloodRetry
  <2>2. SameList
    <3>1. UNCHANGED rcpt \/ \E o : SettleFlight(o)
      BY <1>3 DEF WorkerStep, TakeTask, DropStale, RefuseNotice, StartSend, SendEnds, FloodRetry
    <3> QED  BY <1>0, <3>1, SettleList
  <2>3. GoodBarriers
    BY <2>1 DEF Places, Bounded, GoodBarriers
  <2> QED  BY <1>0, <2>1, <2>2, <2>3, QuietPlaces
<1>4. CASE RequestSkip
  <2> DEFINE intent == [snapshot |-> eof, purged |-> FALSE]
             onDisk == [watermark |-> watermark, skip |-> intent]
  <2>1. UNCHANGED <<placeVars, pc, eof>> /\ skip = None
    BY <1>4 DEF RequestSkip
  <2>2. CASE Saved(TRUE, watermark, None) /\ UNCHANGED <<skip, rcpt>>
    <3>1. disk' = [watermark |-> watermark, skip |-> None] \/ disk' = disk
      BY <2>2, SavedMoves
    <3>2. watermark \in Int
      BY DEF TypeOK, StateTypes, Offsets
    <3>3. GoodBarriers
      BY <2>1, <2>2, <3>1, <3>2 DEF Places, Bounded, GoodBarriers
    <3> QED  BY <1>0, <2>1, <2>2, <3>3, QuietPlaces
  <2>3. CASE PurgeThenNotice(intent, onDisk)
    <3>1. /\ intent \in Intent /\ intent.snapshot <= eof' /\ onDisk.watermark <= watermark
          /\ onDisk.skip # None => onDisk.skip.snapshot <= eof'
      BY <1>0, <2>1 DEF TypeOK, EnvTypes, StateTypes, Intent, Offsets
    <3> HIDE DEF intent, onDisk
    <3>2. SameList /\ GoodBarriers
      BY <2>1, <2>3, <3>1, PurgeList, PurgeBarrier DEF Places
    <3> QED  BY <1>0, <2>1, <3>2, QuietPlaces
  <2> QED  BY <1>4, <2>2, <2>3 DEF RequestSkip
<1> QED  BY <1>1, <1>2, <1>3, <1>4

\* A replay drops what is outstanding and parses again from the floor.
LEMMA ReplayPlaces ==
    ASSUME TypeOK, TypeOK', Places, pc \notin {"reading", "dispatch"},
           pc' \notin {"reading", "dispatch"}, NEW w \in Offsets, Replay(w), Discard,
           watermark' = w, watermark <= w, w <= eof,
           UNCHANGED <<eof, clamp, prefix, clampDone, reading, job>>, GoodBarriers
    PROVE  Places'
<1>1. reading = None /\ job = None /\ batch' = None /\ order' = <<>> /\ rebuild' = TRUE
  BY DEF Places, ReadingAt, JobAt, Replay, Discard
<1>2. clamp \in Int /\ w \in Int /\ eof \in Int /\ prefix \in Int /\ clamp <= eof /\ prefix <= eof
  BY DEF Places, Bounded, TypeOK, EnvTypes, ReaderTypes, Offsets
<1>3. ParsePos' = ClampedFloor(w) /\ w <= ClampedFloor(w) /\ ClampedFloor(w) <= eof
  BY <1>2, FloorType DEF Replay, ParsePos, ClampedFloor, Offsets
<1>4. Bounded'
  BY <1>2, <1>3 DEF Bounded, GoodBarriers
<1>5. ReadingAt' /\ BatchAt' /\ JobAt' /\ Queued' /\ Restarted'
  BY <1>1 DEF ReadingAt, BatchAt, JobAt, Queued, Restarted
<1> QED  BY <1>4, <1>5 DEF Places

LEMMA CancelPlaces ==
    ASSUME TypeOK, TypeOK', Places, pc \notin {"reading", "dispatch"},
           pc' \notin {"reading", "dispatch"}, CancelPendingSkip,
           UNCHANGED <<eof, clamp, prefix, clampDone, reading, job>>
    PROVE  Places'
<1>1. /\ Replay(watermark) /\ Discard /\ watermark' = watermark /\ skip' = None
      /\ Saved(dirty \/ skip # None, watermark, None)
  BY DEF CancelPendingSkip
<1>2. disk' = [watermark |-> watermark, skip |-> None] \/ disk' = disk
  <2>1. (dirty \/ skip # None) \in BOOLEAN
    BY DEF TypeOK, StateTypes
  <2> QED  BY <1>1, <2>1, SavedMoves
<1>3. watermark \in Offsets /\ watermark \in Int /\ watermark <= eof
  <2>1. watermark \in Int /\ ParsePos \in Int /\ eof \in Int
    BY ParsePosType DEF TypeOK, StateTypes, EnvTypes, Offsets
  <2> QED  BY <2>1 DEF Places, Bounded, TypeOK, StateTypes
<1>4. GoodBarriers
  BY <1>1, <1>2, <1>3 DEF Places, Bounded, GoodBarriers
<1> QED  BY <1>1, <1>3, <1>4, ReplayPlaces

LEMMA CompletePlaces ==
    ASSUME TypeOK, TypeOK', Places, pc \notin {"reading", "dispatch"},
           pc' \notin {"reading", "dispatch"}, skip # None, CompleteSkip,
           UNCHANGED <<eof, clamp, prefix, clampDone, reading, job>>
    PROVE  Places'
<1> DEFINE w == IF skip.snapshot > watermark THEN skip.snapshot ELSE watermark
<1>1. /\ Replay(w) /\ Discard /\ watermark' = w /\ skip' = None /\ Saved(TRUE, w, None)
  BY DEF CompleteSkip
<1>2. /\ watermark \in Int /\ ParsePos \in Int /\ eof \in Int /\ disk.watermark \in Int
      /\ watermark \in Offsets /\ skip.snapshot \in Offsets /\ skip.snapshot \in Int
  BY ParsePosType DEF TypeOK, StateTypes, EnvTypes, Offsets, Intent
<1>3. /\ w \in Offsets /\ watermark <= w /\ w <= eof /\ disk.watermark <= w /\ w \in Int
      /\ disk.skip # None => disk.skip.snapshot <= eof
  BY <1>2 DEF Places, Bounded
<1> HIDE DEF w
<1>4. disk' = [watermark |-> w, skip |-> None] \/ disk' = disk
  BY <1>1, SavedMoves
<1>5. GoodBarriers
  BY <1>1, <1>3, <1>4 DEF GoodBarriers
<1> QED  BY <1>1, <1>3, <1>5, ReplayPlaces

LEMMA SkipSteps ==
    ASSUME TypeOK, TypeOK', Places, Wake \/ ResumeSkip \/ ExpireSkip \/ CommitSkips
    PROVE  Places'
<1> USE DEF readerVars, stateVars, workVars, receiptVars, envVars
<1>1. /\ pc \in {"sleep", "resume", "expire", "barrier", "commit", "lastCommit"}
      /\ pc' \in {"resume", "expire", "barrier", "read", "prefix", "lastPrefix"}
      /\ batch # None => pc' = "lastPrefix"
      /\ reading = None /\ job = None
      /\ UNCHANGED <<eof, clamp, prefix, clampDone, reading, job>>
  <2>1. /\ pc \in {"sleep", "resume", "expire", "barrier", "commit", "lastCommit"}
        /\ pc' \in {"resume", "expire", "barrier", "read", "prefix", "lastPrefix"}
        /\ pc = "lastCommit" => pc' = "lastPrefix"
    BY DEF Wake, ResumeSkip, ExpireSkip, CommitSkips, CommitPoints
  <2>2. UNCHANGED <<eof, clamp, prefix, clampDone, reading, job>>
    BY DEF Wake, ResumeSkip, ExpireSkip, CommitSkips
  <2>3. reading = None /\ job = None
    BY <2>1 DEF Places, ReadingAt, JobAt
  <2>4. batch # None => pc = "lastCommit"
    BY <2>1 DEF Places, BatchAt
  <2> QED  BY <2>1, <2>2, <2>3, <2>4
<1>2. PcMove /\ eof <= eof'
  BY <1>1 DEF PcMove, TypeOK, EnvTypes, Offsets
<1>3. UNCHANGED rcpt => SameList
  BY DEF SameList
<1>4. CASE UNCHANGED <<placeVars, disk, skip, rcpt>>
  <2>1. GoodBarriers
    BY <1>1, <1>4 DEF Places, Bounded, GoodBarriers, placeVars
  <2> QED  BY <1>2, <1>3, <1>4, <2>1, QuietPlaces
<1>5. CASE CancelPendingSkip
  BY <1>1, <1>5, CancelPlaces
<1>6. CASE skip # None /\ CompleteSkip
  BY <1>1, <1>6, CompletePlaces
<1>7. CASE skip # None /\ PurgeThenNotice(skip, disk) /\ UNCHANGED placeVars
  <2>1. skip \in Intent /\ skip.snapshot <= eof' /\ disk.watermark <= watermark
        /\ (disk.skip # None => disk.skip.snapshot <= eof')
    BY <1>1, <1>7 DEF TypeOK, StateTypes, Places, Bounded
  <2>2. SameList /\ GoodBarriers
    BY <1>7, <2>1, PurgeList, PurgeBarrier DEF Places, placeVars
  <2> QED  BY <1>2, <1>7, <2>2, QuietPlaces
<1>8. CASE EnqueueNotice(queue, rcpt, skip) /\ UNCHANGED <<placeVars, disk, skip>>
  <2>1. SameList
    <3>1. rcpt \in [Receipts -> Receipt]
      BY DEF TypeOK, ReceiptTypes
    <3> QED  BY <1>8, <3>1, EnqueueList
  <2>2. GoodBarriers
    BY <1>1, <1>8 DEF Places, Bounded, GoodBarriers, placeVars
  <2> QED  BY <1>2, <1>8, <2>1, <2>2, QuietPlaces
<1>9. CASE Wake
  BY <1>4, <1>9 DEF Wake, placeVars
<1>10. CASE ResumeSkip
  BY <1>1, <1>4, <1>5, <1>7, <1>8, <1>10 DEF ResumeSkip, placeVars
<1>11. CASE ExpireSkip
  BY <1>4, <1>5, <1>6, <1>11 DEF ExpireSkip, Expired, placeVars
<1>12. CASE CommitSkips
  BY <1>4, <1>5, <1>6, <1>12 DEF CommitSkips, placeVars
<1> QED  BY <1>9, <1>10, <1>11, <1>12

\* Where a read starts.
LEMMA BeginPlaces ==
    ASSUME TypeOK, TypeOK', Places, ReadBegin
    PROVE  Places'
<1> DEFINE over == ~clampDone /\ ReplayLimit > 0 /\ eof - ParsePos > ReplayLimit
           from == IF over THEN eof ELSE ParsePos
<1>0. /\ ParsePos \in Int /\ eof \in Int /\ clamp \in Int /\ prefix \in Int /\ watermark \in Int
      /\ eof >= 0
  BY ParsePosType DEF TypeOK, EnvTypes, ReaderTypes, StateTypes, Offsets
<1>1. /\ pc = "read" /\ UNCHANGED <<eof, disk, watermark, skip, batch, prefix, rcpt, order, job>>
  BY DEF ReadBegin, envVars, stateVars, receiptVars, workVars
<1>2. reading = None /\ job = None /\ batch = None
  BY <1>1 DEF Places, ReadingAt, JobAt, BatchAt
<1>3. \A k \in 1..Len(order) : Cp(k)' = Cp(k)
  BY <1>1 DEF Cp
<1>4. CASE pc' = "register" /\ UNCHANGED <<parsed, reading, rebuild, clamp, clampDone>>
  <2>1. PcMove /\ SameList /\ GoodBarriers /\ eof <= eof'
    BY <1>0, <1>1, <1>2, <1>4 DEF PcMove, SameList, Places, Bounded, GoodBarriers
  <2>2. UNCHANGED placeVars
    BY <1>1, <1>4 DEF placeVars
  <2> QED  BY <2>1, <2>2, QuietPlaces
<1>5. CASE /\ clampDone' = TRUE
           /\ parsed' = IF over THEN eof ELSE parsed
           /\ clamp' = IF over THEN eof ELSE clamp
           /\ rebuild' = (rebuild \/ over)
           /\ \/ pc' = "register" /\ UNCHANGED reading
              \/ pc' = "reading" /\ reading' = [from |-> from, seen |-> eof]
  <2>2. over => order = <<>>
    BY DEF Places, Restarted
  <2>3. Restarted'
    BY <1>1, <1>2, <1>5 DEF Places, Restarted
  <2> HIDE DEF over
  <2>a. over => ParsePos' = from /\ ParsePos <= from /\ from <= eof /\ clamp' <= eof /\ from \in Int
    <3> SUFFICES ASSUME over
                 PROVE  ParsePos' = from /\ ParsePos <= from /\ from <= eof /\ clamp' <= eof /\ from \in Int
      OBVIOUS
    <3>1. parsed' = eof /\ clamp' = eof /\ from = eof
      BY <1>5
    <3> HIDE DEF from
    <3>2. ParsePos' = eof
      BY <1>0, <3>1 DEF ParsePos
    <3> QED  BY <1>0, <3>1, <3>2 DEF Places, Bounded
  <2>b. ~over => ParsePos' = from /\ ParsePos <= from /\ from <= eof /\ clamp' <= eof /\ from \in Int
    <3> SUFFICES ASSUME ~over
                 PROVE  ParsePos' = from /\ ParsePos <= from /\ from <= eof /\ clamp' <= eof /\ from \in Int
      OBVIOUS
    <3>1. parsed' = parsed /\ clamp' = clamp /\ from = ParsePos
      BY <1>5
    <3> HIDE DEF from
    <3>2. ParsePos' = ParsePos
      BY <1>1, <3>1 DEF ParsePos
    <3> QED  BY <1>0, <3>1, <3>2 DEF Places, Bounded
  <2>1. ParsePos' = from /\ ParsePos <= from /\ from <= eof /\ clamp' <= eof /\ from \in Int
    BY <2>a, <2>b
  <2> HIDE DEF from
  <2>4. from \in Int
    BY <2>1
  <2>5. Bounded'
    BY <1>0, <1>1, <2>1, <2>4 DEF Places, Bounded
  <2>6. ReadingAt'
    BY <1>0, <1>1, <1>2, <1>5, <2>1 DEF ReadingAt, Places, Bounded
  <2>7. BatchAt' /\ JobAt'
    BY <1>1, <1>2, <1>5 DEF BatchAt, JobAt
  <2>8. Queued'
    <3>1. \A k \in 1..Len(order) : Cp(k) \in Int
      BY OrderedTypes DEF Offsets
    <3> QED  BY <1>0, <1>1, <1>3, <2>1, <2>4, <3>1 DEF Places, Queued
  <2> QED  BY <2>3, <2>5, <2>6, <2>7, <2>8 DEF Places
<1> QED
  <2> HIDE DEF over
  <2> SUFFICES ASSUME ~(pc' = "register" /\ UNCHANGED <<parsed, reading, rebuild, clamp, clampDone>>)
               PROVE  Places'
    BY <1>4
  <2> QED  BY <1>5 DEF ReadBegin, over, from

\* What is true whenever a read is under way.
LEMMA Reading ==
    ASSUME TypeOK, Places, pc = "reading"
    PROVE  /\ reading \in Read /\ reading.from = ParsePos /\ reading.from <= reading.seen
           /\ reading.seen <= eof /\ prefix <= reading.seen /\ clampDone
           /\ batch = None /\ job = None
           /\ watermark <= reading.from
           /\ {reading.from, reading.seen, eof, watermark, prefix, clamp, ParsePos} \subseteq Int
           /\ 0 <= reading.from /\ eof <= MaxLen
BY ParsePosType, DeliveryAssumption
DEF TypeOK, PcTypes, ReaderTypes, EnvTypes, StateTypes, Read, Offsets, Places, ReadingAt, JobAt, Bounded

\* A position at or below the end of the file is an offset.
LEMMA InFile ==
    ASSUME TypeOK, NEW low \in Int, 0 <= low
    PROVE  \A p \in low..eof : p \in Offsets /\ p \in Int /\ low <= p /\ p <= eof
<1>1. eof \in Int /\ eof <= MaxLen /\ MaxLen \in Int
  BY DeliveryAssumption DEF TypeOK, EnvTypes, Offsets
<1> QED  BY <1>1 DEF Offsets

\* A read ends and the parse position stands at p.
LEMMA EndPlaces ==
    ASSUME TypeOK, TypeOK', Places, pc = "reading", pc' = "register", reading' = None,
           NEW p \in Offsets, parsed' = p, watermark <= p, p <= eof,
           \A k \in 1..Len(order') : Cp(k)' = Cp(k) /\ Cp(k) <= p, order' = order \/ order' = <<>>,
           prefix' <= eof, clamp' <= eof,
           UNCHANGED <<eof, disk, watermark, skip, clampDone, job, rcpt>>,
           batch' = None \/ /\ batch'.hi = p
                            /\ watermark <= batch'.from
                            /\ batch'.from <= p
                            /\ watermark < p
                            /\ \A k \in 1..Len(order') : Cp(k) <= batch'.from /\ Cp(k) < p,
           rebuild' => batch' = None /\ rebuild
    PROVE  Places'
<1>1. /\ p >= 0 /\ watermark \in Int /\ ParsePos' = p /\ job = None /\ clampDone
  BY Reading DEF ParsePos, Offsets
<1>2. Bounded'
  BY <1>1 DEF Places, Bounded
<1>3. ReadingAt' /\ JobAt'
  BY <1>1 DEF ReadingAt, JobAt
<1>4. BatchAt'
  BY <1>1 DEF BatchAt
<1>5. Queued'
  BY <1>1 DEF Places, Queued
<1>6. Restarted'
  BY <1>1 DEF Places, Restarted
<1> QED  BY <1>2, <1>3, <1>4, <1>5, <1>6 DEF Places

LEMMA ReadEndPlaces ==
    ASSUME TypeOK, TypeOK', Places, ReadEnd
    PROVE  Places'
<1>1. /\ pc = "reading" /\ pc' = "register" /\ reading' = None
      /\ UNCHANGED <<eof, disk, watermark, skip, clamp, clampDone, job, order, rcpt>>
  BY DEF ReadEnd, envVars, receiptVars, workVars
<1>2. PICK hi \in reading.seen..eof :
          /\ parsed' = hi
          /\ rebuild' = FALSE
          /\ batch' = IF (reading.from + 1)..hi = {} THEN batch ELSE [from |-> reading.from, hi |-> hi]
          /\ prefix' = hi \/ prefix' \in hi..eof
  BY DEF ReadEnd
<1>3. hi \in Offsets /\ hi \in Int /\ reading.from <= hi /\ hi <= eof /\ watermark <= hi
  BY <1>1, Reading, InFile
<1>4. \A k \in 1..Len(order) : Cp(k)' = Cp(k) /\ Cp(k) <= reading.from /\ Cp(k) \in Int
  BY <1>1, Reading, OrderedTypes DEF Places, Queued, Cp, Offsets
<1>5. \A k \in 1..Len(order) : Cp(k) <= hi
  BY <1>1, <1>3, <1>4, Reading
<1>6. CASE batch' = None
  BY <1>1, <1>2, <1>3, <1>4, <1>5, <1>6, Reading, EndPlaces DEF Places, Bounded
<1>7. CASE batch' # None
  <2>1. batch' = [from |-> reading.from, hi |-> hi] /\ reading.from < hi
    BY <1>1, <1>2, <1>3, <1>7, Reading
  <2>2. \A k \in 1..Len(order) : Cp(k) <= reading.from /\ Cp(k) < hi
    BY <1>1, <1>3, <1>4, <2>1, Reading
  <2>3. watermark <= reading.from /\ watermark < hi
    BY <1>1, <1>3, <2>1, Reading
  <2>4. prefix' <= eof /\ clamp' <= eof
    BY <1>1, <1>2, <1>3, Reading DEF Places, Bounded
  <2> QED  BY <1>1, <1>2, <1>3, <1>4, <1>5, <2>1, <2>2, <2>3, <2>4, EndPlaces
<1> QED  BY <1>6, <1>7

LEMMA GrowthPlaces ==
    ASSUME TypeOK, TypeOK', Places, GrowthTakenForReplacement
    PROVE  Places'
<1>1. /\ pc = "reading" /\ pc' = "register" /\ reading' = None /\ clamp' = 0
      /\ UNCHANGED <<eof, disk, watermark, skip, clampDone, job, rcpt>>
  BY DEF GrowthTakenForReplacement, envVars, workVars
<1>2. PICK past \in (reading.seen + 1)..eof :
        \/ \E hi \in past..eof :
              /\ parsed' = hi
              /\ prefix' = hi
              /\ rebuild' = FALSE
              /\ batch' = [from |-> past, hi |-> hi]
              /\ Discard
        \/ /\ parsed' = past
           /\ UNCHANGED <<prefix, rebuild, batch, order>>
  BY DEF GrowthTakenForReplacement
<1>3. past \in Offsets /\ past \in Int /\ reading.from < past /\ past <= eof /\ watermark < past
      /\ 0 <= eof /\ eof \in Int /\ watermark \in Int /\ reading.from \in Int
  BY <1>1, Reading, InFile
<1>4. CASE \E hi \in past..eof :
              /\ parsed' = hi
              /\ prefix' = hi
              /\ rebuild' = FALSE
              /\ batch' = [from |-> past, hi |-> hi]
              /\ Discard
  <2>1. PICK hi \in past..eof :
              /\ parsed' = hi
              /\ prefix' = hi
              /\ rebuild' = FALSE
              /\ batch' = [from |-> past, hi |-> hi]
              /\ order' = <<>>
    BY <1>4 DEF Discard
  <2>2. hi \in Offsets /\ hi \in Int /\ past <= hi /\ hi <= eof /\ watermark < hi /\ watermark <= hi
        /\ watermark <= past
    BY <1>1, <1>3, <2>1, Reading, InFile
  <2>3. 1..Len(order') = {}
    BY <2>1
  <2> QED  BY <1>1, <1>3, <2>1, <2>2, <2>3, EndPlaces
<1>5. CASE parsed' = past /\ UNCHANGED <<prefix, rebuild, batch, order>>
  <2>1. \A k \in 1..Len(order) : Cp(k)' = Cp(k) /\ Cp(k) <= past
    <3>1. \A k \in 1..Len(order) : Cp(k)' = Cp(k) /\ Cp(k) <= reading.from /\ Cp(k) \in Int
      BY <1>1, <1>5, Reading, OrderedTypes DEF Places, Queued, Cp, Offsets
    <3> QED  BY <1>3, <3>1
  <2>2. batch' = None /\ prefix' <= eof /\ watermark <= past
    BY <1>1, <1>3, <1>5, Reading DEF Places, Bounded
  <2> QED  BY <1>1, <1>3, <1>5, <2>1, <2>2, EndPlaces
<1> QED  BY <1>2, <1>4, <1>5

LEMMA RebuildFailsPlaces ==
    ASSUME TypeOK, TypeOK', Places, RebuildFails
    PROVE  Places'
<1>1. /\ pc = "reading" /\ pc' = "register" /\ reading' = None /\ rebuild
      /\ parsed' = ClampedFloor(watermark) /\ prefix' \in reading.seen..eof
      /\ UNCHANGED <<eof, disk, watermark, skip, clamp, clampDone, job, rcpt, order, batch, rebuild>>
  BY DEF RebuildFails, envVars, workVars, receiptVars
<1>2. order = <<>> /\ batch = None
  BY <1>1 DEF Places, Restarted
<1>3. watermark \in Offsets /\ clamp \in Offsets
  BY DEF TypeOK, StateTypes, ReaderTypes
<1>4. ClampedFloor(watermark) \in Offsets
  BY <1>3, FloorType
<1>5. watermark <= ClampedFloor(watermark) /\ ClampedFloor(watermark) <= eof /\ prefix' <= eof
      /\ clamp' <= eof
  BY <1>1, <1>3, Reading DEF ClampedFloor, Places, Bounded
<1>6. 1..Len(order') = {} /\ order' = order
  BY <1>1, <1>2
<1> QED  BY <1>1, <1>2, <1>4, <1>5, <1>6, EndPlaces

LEMMA ReadFailsPlaces ==
    ASSUME TypeOK, TypeOK', Places, ReadFails
    PROVE  Places'
<1>1. /\ pc = "reading" /\ pc' = "register" /\ reading' = None
      /\ UNCHANGED <<eof, disk, watermark, skip, clamp, clampDone, job, rcpt, order, batch, rebuild,
                     parsed, prefix>>
  BY DEF ReadFails, envVars, workVars, receiptVars, stateVars
<1>2. ParsePos' = ParsePos /\ batch = None /\ job = None /\ clampDone
  BY <1>1, Reading DEF ParsePos
<1>3. Bounded' /\ ReadingAt' /\ BatchAt' /\ JobAt' /\ Restarted'
  BY <1>1, <1>2 DEF Places, Bounded, ReadingAt, BatchAt, JobAt, Restarted
<1>4. Queued'
  BY <1>1, <1>2 DEF Places, Queued, Cp
<1> QED  BY <1>3, <1>4 DEF Places

LEMMA ReadFailsLatePlaces ==
    ASSUME TypeOK, TypeOK', Places, ReadFailsLate
    PROVE  Places'
<1>1. /\ pc = "reading" /\ pc' = "register" /\ reading' = None /\ parsed' \in reading.seen..eof
      /\ UNCHANGED <<eof, disk, watermark, skip, clamp, clampDone, job, rcpt, order, batch, rebuild,
                     prefix>>
  BY DEF ReadFailsLate, envVars, workVars, receiptVars, stateVars
<1> DEFINE p == parsed'
<1>2. p \in Offsets /\ p \in Int /\ reading.from <= p /\ p <= eof /\ watermark <= p
  BY <1>1, Reading, InFile
<1>3. \A k \in 1..Len(order) : Cp(k)' = Cp(k) /\ Cp(k) <= p
  <2>1. \A k \in 1..Len(order) : Cp(k)' = Cp(k) /\ Cp(k) <= reading.from /\ Cp(k) \in Int
    BY <1>1, Reading, OrderedTypes DEF Places, Queued, Cp, Offsets
  <2> QED  BY <1>1, <1>2, <2>1, Reading
<1>4. batch' = None /\ prefix' <= eof /\ clamp' <= eof
  BY <1>1, Reading DEF Places, Bounded
<1> HIDE DEF p
<1>5. parsed' = p
  BY DEF p
<1> QED  BY <1>1, <1>2, <1>3, <1>4, <1>5, EndPlaces

-----------------------------------------------------------------------------
\* A batch gets its receipt, at the end of the list.
LEMMA RegisteredAt ==
    ASSUME TypeOK, batch # None, Register
    PROVE  /\ Len(order') = Len(order) + 1
           /\ order'[Len(order) + 1] = job'.receipt
           /\ job'.receipt \in Receipts
           /\ rcpt'[job'.receipt] = NewReceipt(batch.hi)
           /\ \A k \in 1..Len(order) : order'[k] = order[k] /\ rcpt'[order[k]] = rcpt[order[k]]
           /\ job' = [receipt |-> job'.receipt, next |-> batch.from + 1, last |-> batch.hi]
           /\ \A x \in Receipts : x # job'.receipt => rcpt'[x] = rcpt[x]
           /\ job'.receipt \in FreeReceipts
           /\ order' = Append(order, job'.receipt)
<1>1. PICK r \in FreeReceipts :
         /\ rcpt' = [rcpt EXCEPT ![r] = NewReceipt(batch.hi)]
         /\ order' = Append(order, r)
         /\ job' = [receipt |-> r, next |-> batch.from + 1, last |-> batch.hi]
  BY DEF Register
<1>2. r \in Receipts /\ rcpt \in [Receipts -> Receipt] /\ order \in Seq(Receipts)
  BY DEF FreeReceipts, TypeOK, ReceiptTypes
<1>3. job'.receipt = r
  BY <1>1
<1>4. \A k \in 1..Len(order) : order[k] # r /\ order[k] \in Receipts
  BY OrderedNotFree
<1>5. rcpt'[r] = NewReceipt(batch.hi) /\ \A x \in Receipts : x # r => rcpt'[x] = rcpt[x]
  BY <1>1, <1>2
<1>6. Len(order') = Len(order) + 1 /\ order'[Len(order) + 1] = r
      /\ \A k \in 1..Len(order) : order'[k] = order[k]
  BY <1>1, <1>2
<1> QED  BY <1>1, <1>2, <1>3, <1>4, <1>5, <1>6

LEMMA RegisterPlaces ==
    ASSUME TypeOK, TypeOK', Places, Register
    PROVE  Places'
<1>1. /\ pc = "register" /\ batch' = None
      /\ UNCHANGED <<eof, watermark, skip, parsed, reading, rebuild, prefix, clamp, clampDone>>
      /\ reading = None /\ job = None /\ clampDone \in BOOLEAN
  BY DEF Register, Places, ReadingAt, JobAt, envVars, TypeOK, ReaderTypes
<1>2. disk' = [watermark |-> watermark, skip |-> skip] \/ disk' = disk
  BY SavedMoves DEF Register, TypeOK, StateTypes
<1>3. GoodBarriers
  <2>1. watermark \in Int
    BY DEF TypeOK, StateTypes, Offsets
  <2> QED  BY <1>1, <1>2, <2>1 DEF GoodBarriers, Places, Bounded
<1>4. ParsePos' = ParsePos
  BY <1>1 DEF ParsePos
<1>5. Bounded'
  BY <1>1, <1>3, <1>4 DEF GoodBarriers, Places, Bounded
<1>6. ReadingAt' /\ BatchAt'
  BY <1>1 DEF ReadingAt, BatchAt
<1>7. CASE batch = None
  <2>1. pc' = "commit" /\ UNCHANGED <<rcpt, order, job>>
    BY <1>7 DEF Register
  <2>2. SameList /\ PcMove /\ eof <= eof' /\ UNCHANGED placeVars
    BY <1>1, <1>7, <2>1 DEF SameList, PcMove, placeVars, TypeOK, EnvTypes, Offsets
  <2> QED  BY <1>3, <2>2, QuietPlaces
<1>8. CASE batch # None
  <2> DEFINE r == job'.receipt
  <2>0. PICK last \in Nat : last = Len(order) + 1
    BY DEF TypeOK, ReceiptTypes
  <2>1. /\ Len(order') = last /\ order'[last] = r
        /\ rcpt'[r] = NewReceipt(batch.hi)
        /\ \A k \in 1..Len(order) : order'[k] = order[k] /\ rcpt'[order[k]] = rcpt[order[k]]
        /\ job' = [receipt |-> r, next |-> batch.from + 1, last |-> batch.hi]
    BY <1>8, <2>0, RegisteredAt
  <2>2. \A k \in 1..Len(order) : Cp(k)' = Cp(k) /\ Cp(k) \in Int
    BY <2>1, OrderedTypes DEF Cp, Offsets
  <2>3. Cp(last)' = batch.hi
    BY <2>1 DEF Cp, NewReceipt
  <2>4. /\ batch.from \in Int /\ batch.hi \in Int /\ watermark \in Int /\ parsed = batch.hi
        /\ watermark <= batch.from /\ watermark < batch.hi /\ batch.from <= batch.hi
        /\ \A k \in 1..Len(order) : Cp(k) <= batch.from /\ Cp(k) < batch.hi
        /\ batch.hi >= 0
    BY <1>8, DeliveryAssumption DEF Places, BatchAt, TypeOK, ReaderTypes, StateTypes, Offsets, Entries
  <2>5. ParsePos = batch.hi
    BY <2>4 DEF ParsePos
  <2>6. Len(order) \in Nat /\ last \in 1..last /\ \A k \in 1..last : k \in 1..Len(order) \/ k = last
    BY <2>0 DEF TypeOK, ReceiptTypes
  <2>7. Queued'
    <3>1. \A k \in 1..last : watermark < Cp(k)' /\ Cp(k)' <= ParsePos
      BY <2>2, <2>3, <2>4, <2>5, <2>6 DEF Places, Queued
    <3>2. \A j, k \in 1..last : j < k => Cp(j)' < Cp(k)'
      <4> SUFFICES ASSUME NEW j \in 1..last, NEW k \in 1..last, j < k PROVE Cp(j)' < Cp(k)'
        OBVIOUS
      <4>1. j \in 1..Len(order)
        BY <2>0, <2>6
      <4>2. CASE k = last
        BY <2>2, <2>3, <2>4, <4>1, <4>2
      <4>3. CASE k \in 1..Len(order)
        BY <2>2, <4>1, <4>3 DEF Places, Queued
      <4> QED  BY <2>6, <4>2, <4>3
    <3> QED  BY <1>1, <1>4, <2>1, <3>1, <3>2 DEF Queued
  <2>8. JobAt'
    <3>1. pc' = "dispatch" /\ job' # None /\ order' # <<>>
      BY <1>8, <2>1, <2>6, DeliveryAssumption DEF Register, TypeOK, WorkTypes, PcTypes
    <3>2. ~rcpt'[r].closed /\ rcpt'[r].checkpoint = batch.hi
      BY <2>1 DEF NewReceipt
    <3> DEFINE from == batch.from  hi == batch.hi
    <3>3. job'.next = from + 1 /\ job'.last = hi
      BY <2>1
    <3> HIDE DEF r
    <3>4. Len(order') - 1 = Len(order)
      BY <2>0, <2>1, <2>6
    <3>5. \A k \in 1..Len(order) : Cp(k)' < from + 1
      BY <2>2, <2>4
    <3>6. watermark < from + 1 /\ from + 1 <= hi + 1
      BY <2>4
    <3>7. order'[Len(order')] = job'.receipt
      BY <2>1 DEF r
    <3>8. rcpt'[job'.receipt].checkpoint = job'.last /\ ~rcpt'[job'.receipt].closed
      BY <3>2, <3>3 DEF r
    <3> HIDE DEF from, hi
    <3> QED  BY <1>1, <3>1, <3>3, <3>4, <3>5, <3>6, <3>7, <3>8 DEF JobAt
  <2>9. Restarted'
    BY <1>1, <1>8 DEF Places, Restarted
  <2> QED  BY <1>5, <1>6, <2>7, <2>8, <2>9 DEF Places
<1> QED  BY <1>7, <1>8

\* What is true whenever a dispatch is under way.
LEMMA Dispatching ==
    ASSUME TypeOK, Places, pc = "dispatch"
    PROVE  /\ job \in Dispatch /\ job # None /\ order # <<>> /\ order[Len(order)] = job.receipt
           /\ ~rcpt[job.receipt].closed /\ rcpt[job.receipt].checkpoint = job.last
           /\ watermark < job.next /\ job.next <= job.last + 1
           /\ \A k \in 1..(Len(order) - 1) : Cp(k) < job.next
           /\ batch = None /\ reading = None
           /\ Len(order) \in 1..Len(order)
           /\ job.receipt \in Receipts /\ rcpt[job.receipt] \in Receipt
           /\ {job.next, job.last, watermark} \subseteq Int
<1>1. job \in Dispatch /\ job # None
  BY DEF TypeOK, WorkTypes, PcTypes
<1>2. {job.next, job.last, watermark} \subseteq Int /\ job.receipt \in Receipts
      /\ rcpt[job.receipt] \in Receipt
  BY <1>1, DeliveryAssumption DEF Dispatch, Entries, TypeOK, StateTypes, ReceiptTypes, Offsets
<1> QED  BY <1>1, <1>2 DEF Places, JobAt, ReadingAt, TypeOK, ReceiptTypes

LEMMA RoutePlaces ==
    ASSUME TypeOK, TypeOK', Places, RouteEntry
    PROVE  Places'
<1>1. /\ pc = "dispatch" /\ pc' = pc /\ job.next <= job.last
      /\ job' = [job EXCEPT !.next = @ + 1]
      /\ UNCHANGED <<eof, disk, watermark, skip, parsed, reading, rebuild, prefix, clamp, clampDone,
                     batch, order>>
  BY DEF RouteEntry, envVars, stateVars, readerVars
<1>2. \A x \in Receipts : /\ rcpt'[x].checkpoint = rcpt[x].checkpoint
                          /\ rcpt'[x].closed = rcpt[x].closed
  <2> SUFFICES ASSUME NEW x \in Receipts
               PROVE  /\ rcpt'[x].checkpoint = rcpt[x].checkpoint
                      /\ rcpt'[x].closed = rcpt[x].closed
    OBVIOUS
  <2>1. rcpt'[x] = rcpt[x] \/ rcpt'[x] = Tracked(rcpt[x])
    BY <1>1, Dispatching DEF RouteEntry, TypeOK, ReceiptTypes
  <2>2. rcpt[x] \in Receipt
    BY DEF TypeOK, ReceiptTypes
  <2> QED  BY <2>1, <2>2 DEF Tracked, Receipt
<1>3. \A k \in 1..Len(order) : Cp(k)' = Cp(k)
  BY <1>1, <1>2, OrderedTypes DEF Cp
<1>4. ParsePos' = ParsePos
  BY <1>1 DEF ParsePos
<1>5. Bounded' /\ ReadingAt' /\ BatchAt' /\ Restarted'
  BY <1>1, <1>3, <1>4, Dispatching DEF Places, Bounded, ReadingAt, BatchAt, Restarted
<1>6. Queued'
  BY <1>1, <1>3, <1>4 DEF Places, Queued
<1>7. JobAt'
  <2>1. job' # None
    BY <1>1 DEF TypeOK, PcTypes
  <2>2. job'.next = job.next + 1 /\ job'.last = job.last /\ job'.receipt = job.receipt
    BY <1>1, Dispatching DEF Dispatch
  <2>3. \A k \in 1..(Len(order) - 1) : k \in 1..Len(order) /\ Cp(k) \in Int
    BY OrderedTypes DEF TypeOK, ReceiptTypes, Offsets
  <2>4. watermark < job.next + 1 /\ job.next + 1 <= job.last + 1
        /\ \A k \in 1..(Len(order) - 1) : Cp(k)' < job.next + 1
    BY <1>1, <1>3, <2>3, Dispatching
  <2> QED  BY <1>1, <1>2, <2>1, <2>2, <2>4, Dispatching DEF JobAt
<1> QED  BY <1>5, <1>6, <1>7 DEF Places

\* The dispatch is over, or cut off by the shutdown.
LEMMA EndsPlaces ==
    ASSUME TypeOK, TypeOK', Places, pc' \notin {"reading", "dispatch"}, job' = None, reading' = None,
           batch # None => pc' \in {"register", "draining", "lastCommit", "lastPrefix", "exited"},
           UNCHANGED <<eof, watermark, skip, parsed, rebuild, prefix, clamp, clampDone, batch, order>>,
           disk'.watermark <= watermark, disk'.skip # None => disk'.skip.snapshot <= eof,
           \A x \in Receipts : rcpt'[x].checkpoint = rcpt[x].checkpoint
    PROVE  Places'
<1>1. \A k \in 1..Len(order) : Cp(k)' = Cp(k)
  BY OrderedTypes DEF Cp
<1>2. ParsePos' = ParsePos
  BY DEF ParsePos
<1>3. Bounded' /\ ReadingAt' /\ BatchAt' /\ Restarted'
  BY <1>1, <1>2 DEF Places, Bounded, ReadingAt, BatchAt, Restarted
<1>4. Queued' /\ JobAt'
  BY <1>1, <1>2 DEF Places, Queued, JobAt
<1> QED  BY <1>3, <1>4 DEF Places

\* Closing and failing a receipt keep its checkpoint.
LEMMA ClosedCheckpoint ==
    ASSUME NEW r \in Receipt
    PROVE  /\ Closed(r).checkpoint = r.checkpoint /\ Closed(Failed(r)).checkpoint = r.checkpoint
           /\ Closed(r).closed /\ Closed(Failed(r)).closed /\ Closed(Failed(r)).failed
           /\ Closed(r).pending = r.pending /\ Closed(Failed(r)).pending = r.pending
           /\ Closed(r).failed = r.failed
BY DEF Closed, Failed, Receipt

LEMMA DispatchEndsPlaces ==
    ASSUME TypeOK, TypeOK', Places, DispatchEnds
    PROVE  Places'
<1>1. /\ pc = "dispatch" /\ pc' = "commit" /\ job' = None
      /\ UNCHANGED <<eof, disk, watermark, skip, parsed, reading, rebuild, prefix, clamp, clampDone,
                     batch, order>>
  BY DEF DispatchEnds, envVars, stateVars, readerVars
<1>2. \A x \in Receipts : rcpt'[x].checkpoint = rcpt[x].checkpoint
  <2> SUFFICES ASSUME NEW x \in Receipts PROVE rcpt'[x].checkpoint = rcpt[x].checkpoint
    OBVIOUS
  <2>1. rcpt'[x] = rcpt[x] \/ rcpt'[x] = Closed(rcpt[x]) \/ rcpt'[x] = Closed(Failed(rcpt[x]))
    BY <1>1, Dispatching DEF DispatchEnds, TypeOK, ReceiptTypes
  <2>2. rcpt[x] \in Receipt
    BY DEF TypeOK, ReceiptTypes
  <2> QED  BY <2>1, <2>2, ClosedCheckpoint
<1>3. disk.watermark <= watermark /\ (disk.skip # None => disk.skip.snapshot <= eof)
      /\ batch = None /\ reading = None
  BY <1>1, Dispatching DEF Places, Bounded
<1> QED  BY <1>1, <1>2, <1>3, EndsPlaces

LEMMA StopMonitorPlaces ==
    ASSUME TypeOK, TypeOK', Places, StopMonitor
    PROVE  Places'
<1>1. /\ pc' = "draining" /\ job' = None /\ reading' = None
      /\ UNCHANGED <<eof, watermark, skip, parsed, rebuild, prefix, clamp, clampDone, batch, order>>
  BY DEF StopMonitor, envVars
<1>2. \A x \in Receipts : rcpt'[x].checkpoint = rcpt[x].checkpoint
  <2> SUFFICES ASSUME NEW x \in Receipts PROVE rcpt'[x].checkpoint = rcpt[x].checkpoint
    OBVIOUS
  <2>1. rcpt'[x] = rcpt[x] \/ rcpt'[x] = Closed(Failed(rcpt[x]))
    <3>1. CASE job = None
      BY <3>1 DEF StopMonitor
    <3>2. CASE job # None
      <4>1. rcpt' = [rcpt EXCEPT ![job.receipt] = Closed(Failed(@))]
        BY <3>2 DEF StopMonitor
      <4> QED  BY <4>1 DEF TypeOK, ReceiptTypes
    <3> QED  BY <3>1, <3>2
  <2>2. rcpt[x] \in Receipt
    BY DEF TypeOK, ReceiptTypes
  <2> QED  BY <2>1, <2>2, ClosedCheckpoint
<1>3. disk' = [watermark |-> watermark, skip |-> skip] \/ disk' = disk
  BY DEF StopMonitor
<1>4. disk'.watermark <= watermark /\ (disk'.skip # None => disk'.skip.snapshot <= eof)
  BY <1>3 DEF Places, Bounded, TypeOK, StateTypes, Offsets
<1> QED  BY <1>1, <1>2, <1>4, EndsPlaces

LEMMA StopWorkersPlaces ==
    ASSUME TypeOK, TypeOK', Places, StopWorkers
    PROVE  Places'
<1>1. /\ pc = "draining" /\ pc' = "lastCommit"
      /\ UNCHANGED <<eof, disk, watermark, skip, parsed, reading, rebuild, prefix, clamp, clampDone,
                     batch, order, job>>
  BY DEF StopWorkers, envVars, stateVars, readerVars
<1>2. SameList
  <2>1. UNCHANGED rcpt \/ SettleFlight("failed")
    BY DEF StopWorkers
  <2>2. UNCHANGED rcpt => SameList
    BY DEF SameList
  <2> QED  BY <2>1, <2>2, SettleList
<1>3. GoodBarriers /\ UNCHANGED placeVars /\ eof <= eof'
  BY <1>1 DEF GoodBarriers, placeVars, Places, Bounded, TypeOK, EnvTypes, Offsets
<1>4. PcMove
  BY <1>1 DEF PcMove, Places, ReadingAt, JobAt
<1> QED  BY <1>2, <1>3, <1>4, QuietPlaces

LEMMA RestartPlaces ==
    ASSUME TypeOK, TypeOK', Places, Restart
    PROVE  Places'
<1>1. /\ pc' = "sleep" /\ watermark' = disk.watermark /\ skip' = disk.skip /\ parsed' = -1
      /\ reading' = None /\ batch' = None /\ prefix' = eof /\ clamp' = 0 /\ order' = <<>>
      /\ job' = None /\ UNCHANGED <<eof, disk>>
  BY DEF Restart, envVars
<1>2. ParsePos' = disk.watermark
  BY <1>1 DEF ParsePos
<1>3. disk.watermark \in Int /\ watermark \in Int /\ ParsePos \in Int /\ eof \in Int /\ eof >= 0
  BY ParsePosType DEF TypeOK, StateTypes, EnvTypes, Offsets
<1>4. Bounded'
  BY <1>1, <1>2, <1>3 DEF Places, Bounded
<1>5. ReadingAt' /\ BatchAt' /\ JobAt' /\ Queued' /\ Restarted'
  BY <1>1 DEF ReadingAt, BatchAt, JobAt, Queued, Restarted
<1> QED  BY <1>4, <1>5 DEF Places

LEMMA PlacesInit == Init => Places
<1> SUFFICES ASSUME Init PROVE Places
  OBVIOUS
<1>1. ParsePos = 0
  BY DEF Init, ParsePos
<1> QED  BY <1>1 DEF Init, Places, Bounded, ReadingAt, BatchAt, JobAt, Queued, Restarted

\* Checkpoints rise along the list, so a commit moves the watermark to the last
\* checkpoint of the settled run, and nowhere without one.
Listed == [i \in 1..Len(order) |-> rcpt[order[i]]]

Commits(n) ==
    /\ skip = None
    /\ openCalls = {}
    /\ ~FenceHolds(Listed)
    /\ \A k \in 1..n : CommitReady(rcpt[order[k]])
    /\ n < Len(order) => ~CommitReady(rcpt[order[n + 1]])
    /\ toolFence' = None
    /\ order' = SubSeq(order, n + 1, Len(order))
    /\ n = 0 => UNCHANGED <<disk, watermark, dirty>>
    /\ n > 0 => watermark' = Cp(n) /\ Saved(TRUE, Cp(n), skip)

LEMMA CommitMoves ==
    ASSUME TypeOK, Queued, CommitPrefix
    PROVE  \/ UNCHANGED <<disk, watermark, dirty, toolFence, order>>
           \/ \E n \in 0..Len(order) : Commits(n)
<1> DEFINE list == Listed
           n == SettledPrefix(list)
           offset == SettledRunOffset(list, n)
<1>1. order \in Seq(Receipts) /\ Len(order) \in Nat
      /\ \A i \in 1..Len(order) : order[i] \in Receipts
  BY LenProperties, ElementOfSeq DEF TypeOK, ReceiptTypes
<1>2. list \in Seq(Receipt) /\ Len(list) = Len(order)
  BY <1>1 DEF TypeOK, ReceiptTypes, Listed
<1>3. \A i \in 1..Len(order) : list[i] = rcpt[order[i]] /\ list[i].checkpoint = Cp(i)
                               /\ Cp(i) \in Int /\ Cp(i) # NoCheckpoint /\ Cp(i) # NoOffset
  BY OrderedTypes DEF Listed, Cp, Offsets, NoCheckpoint, NoOffset
<1>4. n \in 0..Len(order) /\ (\A i \in 1..n : InRun(list[i])) /\ (n < Len(order) => ~InRun(list[n + 1]))
  BY <1>2, SettledPrefixRun
<1> SUFFICES ASSUME ~UNCHANGED <<disk, watermark, dirty, toolFence, order>> PROVE Commits(n)
  BY <1>4
<1>5. /\ ~CommitHeld(list) /\ toolFence' = None
      /\ order' = SubSeq(order, n + 1, Len(order))
      /\ \/ offset \in {NoOffset, watermark} /\ UNCHANGED <<disk, watermark, dirty>>
         \/ watermark' = offset /\ Saved(TRUE, offset, skip)
      /\ offset \notin {NoOffset, watermark} => watermark' = offset /\ Saved(TRUE, offset, skip)
      /\ offset \in {NoOffset, watermark} => UNCHANGED <<disk, watermark, dirty>>
  BY DEF CommitPrefix, Listed
<1>6. n > 0 => offset = Cp(n)
  <2> SUFFICES ASSUME n > 0 PROVE offset = Cp(n)
    OBVIOUS
  <2> HIDE DEF list
  <2> DEFINE m == n
             below == {i \in 1..m : list[i].checkpoint < list[m + 1].checkpoint}
             last == CHOOSE i \in below : \A j \in below : j <= i
  <2>1. m \in 1..Len(order) /\ m \in Nat
    BY <1>1, <1>4
  <2>2. offset = SettledRunOffset(list, m)
    OBVIOUS
  <2> HIDE DEF n, offset
  <2>3. CASE m = Len(order)
    BY <1>2, <1>3, <2>1, <2>2, <2>3 DEF SettledRunOffset
  <2>4. CASE m < Len(order)
    <3>1. below = 1..m
      <4>1. m + 1 \in 1..Len(order) /\ \A i \in 1..m : i \in 1..Len(order) /\ i < m + 1
        BY <1>1, <2>1, <2>4
      <4>2. \A i \in 1..m : Cp(i) < Cp(m + 1)
        BY <4>1 DEF Queued
      <4> QED  BY <1>3, <4>1, <4>2
    <3>2. list[m + 1].checkpoint # NoCheckpoint
      BY <1>1, <1>3, <2>1, <2>4
    <3>3. below # {}
      BY <2>1, <3>1
    <3>4. offset = list[last].checkpoint
      BY <1>2, <2>1, <2>2, <2>4, <3>2, <3>3 DEF SettledRunOffset
    <3>5. last = m
      <4> HIDE DEF below
      <4>1. m \in below /\ \A j \in below : j <= m
        BY <2>1, <3>1
      <4>2. last \in below /\ \A j \in below : j <= last
        BY <4>1
      <4> HIDE DEF last
      <4> QED  BY <2>1, <3>1, <4>1, <4>2
    <3> HIDE DEF last
    <3> QED  BY <1>3, <2>1, <3>4, <3>5 DEF m
  <2> QED  BY <1>1, <2>1, <2>3, <2>4
<1>7. n = 0 => offset = NoOffset
  BY DEF SettledRunOffset
<1> HIDE DEF offset, n, list
<1>8. n > 0 => offset \notin {NoOffset, watermark}
  <2>1. watermark \in Int
    BY DEF TypeOK, StateTypes, Offsets
  <2>2. n > 0 => n \in 1..Len(order)
    BY <1>1, <1>4
  <2>3. n > 0 => watermark < Cp(n) /\ Cp(n) # NoOffset /\ Cp(n) \in Int
    BY <1>3, <2>2 DEF Queued
  <2> QED  BY <1>6, <2>1, <2>3
<1>9. skip = None /\ openCalls = {} /\ ~FenceHolds(Listed)
  BY <1>5 DEF CommitHeld, list
<1>10. \A k \in 1..n : CommitReady(rcpt[order[k]])
  BY <1>1, <1>3, <1>4 DEF InRun
<1>11. n < Len(order) => ~CommitReady(rcpt[order[n + 1]])
  <2>1. n < Len(order) => n + 1 \in 1..Len(order)
    BY <1>1, <1>4
  <2> QED  BY <1>3, <1>4, <2>1 DEF InRun
<1> QED  BY <1>5, <1>6, <1>7, <1>8, <1>9, <1>10, <1>11 DEF Commits

\* The list behind a committed run.
LEMMA RestOfList ==
    ASSUME TypeOK, NEW n \in 0..Len(order), order' = SubSeq(order, n + 1, Len(order)), UNCHANGED rcpt
    PROVE  /\ Len(order') = Len(order) - n
           /\ \A k \in 1..Len(order') : /\ k + n \in 1..Len(order)
                                        /\ order'[k] = order[k + n]
                                        /\ Cp(k)' = Cp(k + n)
           /\ Len(order) \in Nat /\ n \in Nat
<1>1. order \in Seq(Receipts) /\ Len(order) \in Nat /\ n \in Nat
  BY DEF TypeOK, ReceiptTypes
<1>2. Len(order') = Len(order) - n /\ \A k \in 1..(Len(order) - n) : order'[k] = order[k + n]
  <2> DEFINE m == n + 1
  <2>1. m \in 1..(Len(order) + 1)
    BY <1>1
  <2>2. \A k \in 1..(Len(order) - n) : m + k - 1 = k + n
    BY <1>1
  <2> QED  BY <1>1, <2>1, <2>2, SubSeqProperties
<1>3. \A k \in 1..Len(order') : k + n \in 1..Len(order)
  BY <1>1, <1>2
<1> QED  BY <1>1, <1>2, <1>3 DEF Cp

LEMMA CommitPlaces ==
    ASSUME TypeOK, TypeOK', Places, CommitPrefix
    PROVE  Places'
<1>1. /\ pc \in {"prefix", "lastPrefix"} /\ pc' \in {"sleep", "exited"}
      /\ pc = "lastPrefix" => pc' = "exited"
      /\ UNCHANGED <<eof, skip, parsed, reading, batch, rebuild, prefix, clamp, clampDone, rcpt, job>>
  BY DEF CommitPrefix, envVars, workVars
<1>2. reading = None /\ job = None /\ (batch # None => pc' = "exited") /\ eof <= eof'
  BY <1>1 DEF Places, ReadingAt, JobAt, BatchAt, TypeOK, EnvTypes, Offsets
<1>3. CASE UNCHANGED <<disk, watermark, dirty, toolFence, order>>
  <2>1. PcMove /\ SameList /\ GoodBarriers /\ UNCHANGED placeVars
    BY <1>1, <1>2, <1>3 DEF PcMove, SameList, GoodBarriers, placeVars, Places, Bounded
  <2> QED  BY <1>2, <2>1, QuietPlaces
<1>4. CASE \E n \in 0..Len(order) : Commits(n)
  <2>1. PICK n \in 0..Len(order) : Commits(n)
    BY <1>4
  <2>2. order' = SubSeq(order, n + 1, Len(order)) /\ skip = None
    BY <2>1 DEF Commits
  <2>3. /\ Len(order') = Len(order) - n /\ Len(order) \in Nat /\ n \in Nat
        /\ \A k \in 1..Len(order') : k + n \in 1..Len(order) /\ Cp(k)' = Cp(k + n)
    BY <1>1, <2>2, RestOfList
  <2>4. watermark \in Int /\ watermark' \in Int /\ \A k \in 1..Len(order) : Cp(k) \in Int
    BY OrderedTypes DEF TypeOK, StateTypes, Offsets
  <2>5. /\ watermark <= watermark'
        /\ watermark' <= ParsePos /\ disk'.watermark <= watermark'
        /\ n > 0 => watermark' = Cp(n)
        /\ n = 0 => watermark' = watermark
        /\ disk'.skip # None => disk'.skip.snapshot <= eof
    <3>1. CASE n = 0
      BY <2>1, <3>1, <2>4 DEF Commits, Places, Bounded
    <3>2. CASE n > 0
      <4>1. n \in 1..Len(order) /\ watermark' = Cp(n)
        BY <2>1, <2>3, <3>2 DEF Commits
      <4>2. Saved(TRUE, Cp(n), skip)
        BY <2>1, <3>2 DEF Commits
      <4>3. disk' = [watermark |-> Cp(n), skip |-> None] \/ disk' = disk
        BY <2>2, <4>2, SavedMoves
      <4>4. watermark < Cp(n) /\ Cp(n) <= ParsePos
        BY <4>1 DEF Places, Queued
      <4>5. disk.watermark \in Int /\ disk.watermark <= watermark
            /\ (disk.skip # None => disk.skip.snapshot <= eof)
        BY DEF TypeOK, StateTypes, Offsets, Places, Bounded
      <4> QED  BY <2>4, <3>2, <4>1, <4>3, <4>4, <4>5
    <3> QED  BY <2>3, <3>1, <3>2
  <2>6. ParsePos' = ParsePos
    <3>1. CASE parsed >= 0
      BY <1>1, <3>1 DEF ParsePos
    <3>2. CASE ~(parsed >= 0)
      <4>1. ParsePos = watermark /\ ParsePos' = watermark'
        BY <1>1, <3>2 DEF ParsePos
      <4> QED  BY <2>4, <2>5, <4>1
    <3> QED  BY <3>1, <3>2
  <2>7. Bounded'
    BY <1>1, <2>2, <2>5, <2>6 DEF Places, Bounded
  <2>8. ReadingAt' /\ JobAt'
    BY <1>1, <1>2 DEF ReadingAt, JobAt
  <2>9. Queued'
    <3>1. \A k \in 1..Len(order') : watermark' < Cp(k)' /\ Cp(k)' <= ParsePos'
      <4> SUFFICES ASSUME NEW k \in 1..Len(order') PROVE watermark' < Cp(k)' /\ Cp(k)' <= ParsePos'
        OBVIOUS
      <4> DEFINE m == k + n
      <4>1. m \in 1..Len(order) /\ Cp(k)' = Cp(m) /\ k \in Int /\ k > 0
        BY <2>3
      <4>2. n > 0 => n \in 1..Len(order) /\ n < m
        BY <2>3, <4>1
      <4> HIDE DEF m
      <4>3. watermark < Cp(m) /\ Cp(m) <= ParsePos
        BY <4>1 DEF Places, Queued
      <4>4. n > 0 => Cp(n) < Cp(m)
        BY <4>1, <4>2 DEF Places, Queued
      <4> QED  BY <2>3, <2>5, <2>6, <4>1, <4>3, <4>4
    <3>2. \A j, k \in 1..Len(order') : j < k => Cp(j)' < Cp(k)'
      <4> SUFFICES ASSUME NEW j \in 1..Len(order'), NEW k \in 1..Len(order'), j < k
                   PROVE  Cp(j)' < Cp(k)'
        OBVIOUS
      <4>1. j + n \in 1..Len(order) /\ k + n \in 1..Len(order) /\ j + n < k + n
        BY <2>3
      <4>2. Cp(j + n) < Cp(k + n)
        BY <4>1 DEF Places, Queued
      <4> QED  BY <2>3, <4>2
    <3> QED  BY <3>1, <3>2 DEF Queued
  <2>10. BatchAt'
    <3> SUFFICES ASSUME batch # None PROVE BatchAt'
      BY <1>1 DEF BatchAt
    <3>1. /\ parsed = batch.hi /\ watermark <= batch.from /\ batch.from <= batch.hi
          /\ \A k \in 1..Len(order) : Cp(k) <= batch.from /\ Cp(k) < batch.hi
          /\ watermark < batch.hi
      BY DEF Places, BatchAt
    <3>2. watermark' <= batch.from /\ watermark' < batch.hi
      <4>1. n > 0 => n \in 1..Len(order)
        BY <2>3
      <4> QED  BY <2>3, <2>5, <3>1, <4>1
    <3> QED  BY <1>1, <1>2, <2>3, <3>1, <3>2 DEF BatchAt
  <2>11. Restarted'
    <3> SUFFICES ASSUME rebuild \/ ~clampDone PROVE order' = <<>> /\ batch = None
      BY <1>1 DEF Restarted
    <3>1. order = <<>> /\ batch = None
      BY DEF Places, Restarted
    <3> QED  BY <2>2, <2>3, <3>1
  <2> QED  BY <2>7, <2>8, <2>9, <2>10, <2>11 DEF Places
<1> QED  BY <1>3, <1>4, CommitMoves DEF Places

LEMMA PlacesStep ==
    ASSUME TypeOK, TypeOK', Places, [Next]_vars
    PROVE  Places'
<1>1. CASE MonitorStep
  BY <1>1, SkipSteps, BeginPlaces, ReadEndPlaces, GrowthPlaces, RebuildFailsPlaces, ReadFailsPlaces,
     ReadFailsLatePlaces, RegisterPlaces, RoutePlaces, DispatchEndsPlaces, CommitPlaces
  DEF MonitorStep
<1>2. CASE Lifetime
  BY <1>2, StopMonitorPlaces, StopWorkersPlaces, RestartPlaces DEF Lifetime
<1> QED  BY <1>1, <1>2, QuietStep DEF Next

\* Positions keep their order: what is durable is behind the watermark, that
\* behind the checkpoints in the order of the receipts, those behind the parse
\* position, that inside the file; a read, a batch and a dispatch stand where
\* they were begun.
THEOREM PlacesKept == Spec => []Places
<1>1. Init => TypeOK /\ Places
  BY InitTypes, PlacesInit
<1>2. (TypeOK /\ Places) /\ [Next]_vars => (TypeOK /\ Places)'
  BY NextTypes, PlacesStep
<1> QED  BY <1>1, <1>2, PTL DEF Spec

\* An entry handed to the queue lies above the durable watermark (the action
\* property NeverRequeueCommitted).
THEOREM NothingRequeued == Spec => NeverRequeueCommitted
<1>1. TypeOK /\ Places => \A e \in Entries : (job # None /\ job.next = e) => e > disk.watermark
  <2> SUFFICES ASSUME TypeOK, Places, job # None PROVE job.next > disk.watermark
    OBVIOUS
  <2>1. pc = "dispatch"
    BY DEF Places, JobAt
  <2>2. disk.watermark <= watermark /\ disk.watermark \in Int
    BY DEF Places, Bounded, TypeOK, StateTypes, Offsets
  <2> QED  BY <2>1, <2>2, Dispatching
<1>2. TypeOK /\ Places =>
         [\A e \in Entries :
            (job # None /\ job' # None /\ job'.next = e + 1 /\ job.next = e)
              => e > disk.watermark]_vars
  BY <1>1
<1>3. Spec => [](TypeOK /\ Places)
  BY TypeCorrect, PlacesKept, PTL
<1> QED  BY <1>2, <1>3, PTL DEF NeverRequeueCommitted

-----------------------------------------------------------------------------
Handled == delivered \cup skipped
Last == {"lastCommit", "lastPrefix", "exited"}

\* A receipt cannot be committed past entry i yet: it failed, the entry was not
\* routed, its task waits or is in flight, or the shutdown abandoned its task.
InQueue(i, r) == \E q \in 1..Len(queue) : r \in SeqRange(queue[q].receipts) /\ i \in queue[q].entries
InFlight(i, r) == flight # None /\ r \in SeqRange(flight.task.receipts) /\ i \in flight.task.entries
Owed(i, r) ==
    \/ rcpt[r].failed
    \/ job # None /\ job.receipt = r /\ job.next <= i
    \/ InQueue(i, r)
    \/ InFlight(i, r)
    \/ pc \in Last /\ rcpt[r].pending > 0

\* The receipt whose range entry i falls into still owes it.
Held(i) == \E k \in 1..Len(order) :
    /\ i <= Cp(k)
    /\ \A j \in 1..(k - 1) : Cp(j) < i
    /\ Owed(i, order[k])

\* With no barrier, an entry between watermark and parse position was handled,
\* waits for its receipt, or is owed under it.
Accounted ==
    skip = None => \A i \in (watermark + 1)..ParsePos :
        i \in Handled \/ (batch # None /\ batch.from < i) \/ Held(i)

\* While nothing tells growth of the file from its replacement, nothing read is
\* outstanding, so the entries a replacement gives up lie at the front.
Fresh == rebuild \/ ~clampDone \/ ParsePos > prefix \/ ParsePos = 0
FreshOK == Fresh => order = <<>> /\ batch = None /\ (watermark + 1)..ParsePos \subseteq skipped

\* The startup clamp gave up what it passed over.
Clamped == (watermark + 1)..clamp \subseteq skipped

Covered(w) == 1..w \subseteq Handled

Accounts == FreshOK /\ Clamped /\ Covered(watermark) /\ Covered(disk.watermark) /\ Accounted

\* What is owed stays owed, or is handled.
KeepsOwed == \A i \in Int : \A r \in Receipts :
    i <= rcpt[r].checkpoint /\ Owed(i, r) => Owed(i, r)' \/ i \in Handled'

\* A step that leaves the positions alone.
AccountsStay ==
    /\ UNCHANGED <<watermark, parsed, batch, order, clamp, prefix, rebuild, clampDone>>
    /\ delivered \subseteq delivered' /\ skipped \subseteq skipped'
    /\ disk'.watermark \in {disk.watermark, watermark}
    /\ skip' = None => skip = None
    /\ \A k \in 1..Len(order) : rcpt'[order[k]].checkpoint = rcpt[order[k]].checkpoint

LEMMA AccountsFrame ==
    ASSUME TypeOK, TypeOK', Accounts, AccountsStay, skip' = None => KeepsOwed
    PROVE  Accounts'
<1> USE DEF AccountsStay
<1>1. ParsePos' = ParsePos /\ ParsePos \in Int /\ watermark \in Int
  BY ParsePosType DEF ParsePos, TypeOK, StateTypes, Offsets
<1>2. Handled \subseteq Handled'
  BY DEF Handled
<1>3. FreshOK' /\ Clamped'
  BY <1>1 DEF Accounts, FreshOK, Fresh, Clamped
<1>4. Covered(watermark)' /\ Covered(disk.watermark)'
  <2>1. 1..disk'.watermark \subseteq Handled
    BY DEF Accounts, Covered
  <2> QED  BY <1>2, <2>1 DEF Accounts, Covered
<1>5. Accounted'
  <2> SUFFICES ASSUME skip' = None, NEW i \in (watermark + 1)..ParsePos, i \notin Handled',
                      ~(batch # None /\ batch.from < i)
               PROVE  Held(i)'
    BY <1>1 DEF Accounted
  <2>1. Held(i) /\ KeepsOwed /\ i \in Int
    BY <1>1, <1>2 DEF Accounts, Accounted
  <2>2. PICK k \in 1..Len(order) : /\ i <= Cp(k)
                                   /\ \A j \in 1..(k - 1) : Cp(j) < i
                                   /\ Owed(i, order[k])
    BY <2>1 DEF Held
  <2>3. \A j \in 1..Len(order) : Cp(j)' = Cp(j)
    BY DEF Cp
  <2>4. PICK r \in Receipts : r = order[k]
    BY OrderedTypes
  <2>5. Owed(i, r)'
    BY <2>1, <2>2, <2>4 DEF KeepsOwed, Cp
  <2>6. k \in Int /\ Len(order) \in Nat /\ \A j \in 1..(k - 1) : j \in 1..Len(order)
    BY DEF TypeOK, ReceiptTypes
  <2>7. /\ i <= Cp(k)'
        /\ \A j \in 1..(k - 1) : Cp(j)' < i
    BY <2>2, <2>3, <2>6
  <2>8. order'[k] = r
    BY <2>4
  <2> QED  BY <2>5, <2>7, <2>8 DEF Held
<1> QED  BY <1>3, <1>4, <1>5 DEF Accounts

\* Nothing outstanding: whatever is parsed past the watermark was given up.
LEMMA AccountsEmpty ==
    ASSUME order' = <<>>, batch' = None, (watermark' + 1)..ParsePos' \subseteq skipped', Clamped',
           Covered(watermark)', Covered(disk.watermark)'
    PROVE  Accounts'
<1>1. FreshOK'
  BY DEF FreshOK
<1>2. Accounted'
  BY DEF Accounted, Handled
<1> QED  BY <1>1, <1>2 DEF Accounts

\* A replay to w, with everything up to w handled.
LEMMA ReplayAccounts ==
    ASSUME TypeOK, TypeOK', Places, Accounts, NEW w \in Offsets, Replay(w), Discard, watermark' = w,
           watermark <= w, UNCHANGED clamp, skipped \subseteq skipped', delivered \subseteq delivered',
           1..w \subseteq Handled', disk'.watermark \in {disk.watermark, w}
    PROVE  Accounts'
<1>1. /\ w \in Int /\ watermark \in Int /\ clamp \in Int /\ order' = <<>> /\ batch' = None
      /\ parsed' = ClampedFloor(w)
  BY DEF TypeOK, StateTypes, ReaderTypes, Offsets, Discard, Replay
<1>2. ParsePos' = IF clamp > w THEN clamp ELSE w
  <2>1. clamp >= 0 /\ w >= 0
    BY DEF TypeOK, ReaderTypes, Offsets
  <2> QED  BY <1>1, <2>1 DEF ParsePos, ClampedFloor
<1>3. (w + 1)..clamp \subseteq skipped'
  <2>1. \A i \in (w + 1)..clamp : i \in (watermark + 1)..clamp
    BY <1>1
  <2> QED  BY <2>1 DEF Accounts, Clamped
<1>4. (watermark' + 1)..ParsePos' \subseteq skipped'
  <2>1. CASE clamp > w
    BY <1>2, <1>3, <2>1
  <2>2. CASE ~(clamp > w)
    <3>1. (w + 1)..w = {}
      BY <1>1
    <3> QED  BY <1>2, <2>2, <3>1
  <2> QED  BY <2>1, <2>2
<1>5. Clamped' /\ Covered(watermark)'
  BY <1>3 DEF Clamped, Covered
<1>6. Covered(disk.watermark)'
  BY DEF Accounts, Covered, Handled
<1> QED  BY <1>1, <1>4, <1>5, <1>6, AccountsEmpty

LEMMA CancelAccounts ==
    ASSUME TypeOK, TypeOK', Places, Accounts, CancelPendingSkip, UNCHANGED <<clamp, delivered>>
    PROVE  Accounts'
<1>1. /\ Replay(watermark) /\ Discard /\ watermark' = watermark /\ UNCHANGED skipped
      /\ Saved(dirty \/ skip # None, watermark, None)
  BY DEF CancelPendingSkip
<1>2. disk' = [watermark |-> watermark, skip |-> None] \/ disk' = disk
  <2>1. (dirty \/ skip # None) \in BOOLEAN
    BY DEF TypeOK, StateTypes
  <2> QED  BY <1>1, <2>1, SavedMoves
<1>3. watermark \in Offsets /\ watermark <= watermark
  BY DEF TypeOK, StateTypes, Offsets
<1>4. 1..watermark \subseteq Handled'
  BY <1>1 DEF Accounts, Covered, Handled
<1>5. disk'.watermark \in {disk.watermark, watermark}
  BY <1>2
<1> QED  BY <1>1, <1>3, <1>4, <1>5, ReplayAccounts

LEMMA CompleteAccounts ==
    ASSUME TypeOK, TypeOK', Places, Accounts, skip # None, CompleteSkip, UNCHANGED <<clamp, delivered>>
    PROVE  Accounts'
<1> DEFINE w == IF skip.snapshot > watermark THEN skip.snapshot ELSE watermark
<1>1. /\ Replay(w) /\ Discard /\ watermark' = w /\ Saved(TRUE, w, None)
      /\ skipped' = skipped \cup 1..skip.snapshot
  BY DEF CompleteSkip
<1>2. watermark \in Offsets /\ skip.snapshot \in Offsets
  BY DEF TypeOK, StateTypes, Intent
<1>3. w \in Offsets /\ watermark <= w
  BY <1>2 DEF Offsets
<1>4. 1..w \subseteq Handled'
  <2>1. 1..watermark \subseteq Handled'
    BY <1>1 DEF Accounts, Covered, Handled
  <2>2. 1..skip.snapshot \subseteq Handled'
    BY <1>1 DEF Handled
  <2> QED  BY <2>1, <2>2
<1> HIDE DEF w
<1>5. disk' = [watermark |-> w, skip |-> None] \/ disk' = disk
  BY <1>1, SavedMoves
<1>6. disk'.watermark \in {disk.watermark, w} /\ skipped \subseteq skipped'
  BY <1>1, <1>5
<1> QED  BY <1>1, <1>3, <1>4, <1>6, ReplayAccounts

\* Nothing about tasks and receipts changes.
LEMMA SameOwed ==
    ASSUME UNCHANGED <<rcpt, job, queue, flight>>, pc \in Last => pc' \in Last
    PROVE  KeepsOwed /\ SameList
<1>1. SameList
  BY DEF SameList
<1>2. \A i, r : InQueue(i, r) => InQueue(i, r)'
  BY DEF InQueue
<1>3. \A i, r : InFlight(i, r) => InFlight(i, r)'
  BY DEF InFlight
<1>4. KeepsOwed
  <2> SUFFICES ASSUME NEW i \in Int, NEW r \in Receipts, Owed(i, r) PROVE Owed(i, r)'
    BY DEF KeepsOwed
  <2> QED  BY <1>2, <1>3 DEF Owed
<1> QED  BY <1>1, <1>4

\* A purge or a notice leaves a barrier: nothing is said of the entries.
LEMMA BarrierAccounts ==
    ASSUME TypeOK, TypeOK', Accounts, skip' # None, SameList,
           UNCHANGED <<watermark, parsed, batch, order, clamp, prefix, rebuild, clampDone, delivered,
                       skipped>>,
           disk'.watermark \in {disk.watermark, watermark}
    PROVE  Accounts'
BY AccountsFrame DEF AccountsStay, SameList

\* The worker settles the task it holds.
LEMMA SettleOwed ==
    ASSUME TypeOK, NEW outcome \in Outcomes, flight # None, SettleFlight(outcome),
           UNCHANGED job, pc \notin Last,
           \/ UNCHANGED queue /\ pc' = pc
           \/ outcome = "failed" /\ Tracks /\ pc' \in Last
    PROVE  KeepsOwed
<1> SUFFICES ASSUME NEW i \in Int, NEW r \in Receipts, Owed(i, r), i \notin Handled'
             PROVE  Owed(i, r)'
  BY DEF KeepsOwed
<1>1. rcpt[r] \in Receipt
  BY DEF TypeOK, ReceiptTypes
<1>2. rcpt'[r] = IF Flies(flight, r) THEN Settled(rcpt[r], outcome) ELSE rcpt[r]
  BY DEF SettleFlight, SettlementReceipts, Flies
<1>3. Settled(rcpt[r], outcome).failed = (rcpt[r].failed \/ outcome = "failed")
  BY <1>1 DEF Settled, Receipt
<1>4. CASE rcpt[r].failed
  <2>1. rcpt'[r].failed
    BY <1>2, <1>3, <1>4
  <2> QED  BY <2>1 DEF Owed
<1>5. CASE job # None /\ job.receipt = r /\ job.next <= i
  BY <1>5 DEF Owed
<1>6. CASE InFlight(i, r)
  <2>1. Flies(flight, r) /\ i \in flight.task.entries
    BY <1>6 DEF Flies, InFlight
  <2>2. outcome = "failed"
    BY <2>1 DEF SettleFlight, Handled
  <2>3. rcpt'[r].failed
    BY <1>2, <1>3, <2>1, <2>2
  <2> QED  BY <2>3 DEF Owed
<1>7. CASE InQueue(i, r)
  <2>1. CASE UNCHANGED queue
    <3>1. InQueue(i, r)'
      BY <1>7, <2>1 DEF InQueue
    <3> QED  BY <3>1 DEF Owed
  <2>2. CASE outcome = "failed" /\ Tracks /\ pc' \in Last
    <3>1. CASE Flies(flight, r)
      <4>1. rcpt'[r].failed
        BY <1>2, <1>3, <2>2, <3>1
      <4> QED  BY <4>1 DEF Owed
    <3>2. CASE ~Flies(flight, r)
      <4>1. rcpt'[r] = rcpt[r]
        BY <1>2, <3>2
      <4>2. rcpt[r].pending > 0
        BY <1>7, <2>2, TrackedPending DEF InQueue
      <4> QED  BY <2>2, <4>1, <4>2 DEF Owed
    <3> QED  BY <3>1, <3>2
  <2> QED  BY <2>1, <2>2
<1> QED  BY <1>4, <1>5, <1>6, <1>7 DEF Owed

-----------------------------------------------------------------------------
\* A task in flight is not the absence of one.
LEMMA FlightSet ==
    /\ None \notin [task : Task, sending : BOOLEAN]
    /\ \A t \in Task : \A b \in BOOLEAN : [task |-> t, sending |-> b] # None
<1>1. None \notin [task : Task, sending : BOOLEAN]
  BY DeliveryAssumption
<1>2. ASSUME NEW t \in Task, NEW b \in BOOLEAN PROVE [task |-> t, sending |-> b] # None
  <2>1. [task |-> t, sending |-> b] \in [task : Task, sending : BOOLEAN]
    OBVIOUS
  <2> QED  BY <1>1, <2>1
<1> QED  BY <1>1, <1>2

\* The first tasks of the queue go in flight, each under its receipts.
LEMMA TakenOwed ==
    ASSUME TypeOK, NEW n \in 1..Len(queue), queue' = SubSeq(queue, n + 1, Len(queue)),
           UNCHANGED <<rcpt, job, pc>>,
           \A i, r : InFlight(i, r) => InFlight(i, r)',
           \A i, r : \A q \in 1..n :
               r \in SeqRange(queue[q].receipts) /\ i \in queue[q].entries => InFlight(i, r)'
    PROVE  KeepsOwed
<1>1. queue \in Seq(Task) /\ Len(queue) \in Nat /\ n \in Nat
  BY DEF TypeOK, WorkTypes
<1>2. Len(queue') = Len(queue) - n /\ \A q \in 1..Len(queue') : queue'[q] = queue[q + n]
  <2> DEFINE m == n + 1
  <2>1. m \in 1..(Len(queue) + 1) /\ \A q \in 1..(Len(queue) - n) : m + q - 1 = q + n
    BY <1>1
  <2> QED  BY <1>1, <2>1, SubSeqProperties
<1>3. ASSUME NEW i, NEW r, InQueue(i, r) PROVE InQueue(i, r)' \/ InFlight(i, r)'
  <2>1. PICK q \in 1..Len(queue) : r \in SeqRange(queue[q].receipts) /\ i \in queue[q].entries
    BY <1>3 DEF InQueue
  <2>2. CASE q \in 1..n
    BY <2>1, <2>2
  <2>3. CASE q \notin 1..n
    <3>1. PICK p \in 1..Len(queue') : p + n = q
      <4>1. q - n \in 1..Len(queue') /\ (q - n) + n = q
        BY <1>1, <1>2, <2>3
      <4> QED  BY <4>1
    <3>2. queue'[p] = queue[q]
      BY <1>2, <3>1
    <3> QED  BY <2>1, <3>2 DEF InQueue
  <2> QED  BY <2>2, <2>3
<1> SUFFICES ASSUME NEW i \in Int, NEW r \in Receipts, Owed(i, r) PROVE Owed(i, r)'
  BY DEF KeepsOwed
<1> QED  BY <1>3 DEF Owed

LEMMA MergedEntries ==
    ASSUME NEW task \in Task, NEW n
    PROVE  \A i : i \in Merged(task, n).entries <=>
              i \in task.entries \/ \E q \in 1..n : i \in queue[q].entries
BY DEF Merged, Task

LEMMA WorkerOwed ==
    ASSUME TypeOK, Singles(queue), WorkerStep
    PROVE  KeepsOwed
<1> USE DEF receiptVars
<1>0. pc \notin Last /\ UNCHANGED <<job, pc>>
  BY DEF WorkerStep, TakeTask, DropStale, RefuseNotice, StartSend, SendEnds, FloodRetry, WorkerUp,
         MonitorUp, Last
<1>1. CASE TakeTask
  <2>1. /\ queue # <<>> /\ queue \in Seq(Task) /\ UNCHANGED rcpt /\ flight = None
        /\ flight' = [task |-> Head(queue), sending |-> FALSE] /\ queue' = Tail(queue)
    BY <1>1 DEF TakeTask, TypeOK, WorkTypes
  <2>2. 1 \in 1..Len(queue) /\ queue' = SubSeq(queue, 1 + 1, Len(queue)) /\ queue[1] = Head(queue)
    BY <2>1
  <2>3. flight' # None
    <3>1. Head(queue) \in Task
      BY <2>1
    <3> QED  BY <2>1, <3>1, FlightSet
  <2>4. flight'.task = queue[1]
    BY <2>1, <2>2
  <2>5. \A i, r : \A q \in 1..1 :
               r \in SeqRange(queue[q].receipts) /\ i \in queue[q].entries => InFlight(i, r)'
    BY <2>3, <2>4 DEF InFlight
  <2>6. \A i, r : InFlight(i, r) => InFlight(i, r)'
    BY <2>1 DEF InFlight
  <2> QED  BY <1>0, <2>1, <2>2, <2>5, <2>6, TakenOwed
<1>2. CASE DropStale \/ RefuseNotice \/ SendEnds
  <2>1. flight # None /\ UNCHANGED queue /\ \E o \in Outcomes : SettleFlight(o)
    BY <1>2 DEF DropStale, RefuseNotice, SendEnds, Outcomes
  <2> QED  BY <1>0, <2>1, SettleOwed
<1>3. CASE StartSend
  <2>0. flight \in [task : Task, sending : BOOLEAN] /\ flight # None /\ UNCHANGED rcpt
    BY <1>3 DEF StartSend, TypeOK, WorkTypes
  <2>1. CASE flight' = [flight EXCEPT !.sending = TRUE] /\ UNCHANGED queue
    <3>1. flight'.task = flight.task /\ flight' # None
      BY <2>0, <2>1, NoneNotFlight, FlightSet
    <3>2. \A i, r : InFlight(i, r) => InFlight(i, r)'
      BY <3>1 DEF InFlight
    <3>3. \A i, r : InQueue(i, r) => InQueue(i, r)'
      BY <2>1 DEF InQueue
    <3> SUFFICES ASSUME NEW i \in Int, NEW r \in Receipts, Owed(i, r) PROVE Owed(i, r)'
      BY DEF KeepsOwed
    <3> QED  BY <1>0, <2>0, <3>2, <3>3 DEF Owed
  <2>2. CASE \E n \in 1..Len(queue) :
                /\ flight' = [task |-> Merged(flight.task, n), sending |-> TRUE]
                /\ queue' = SubSeq(queue, n + 1, Len(queue))
    <3>1. PICK n \in 1..Len(queue) :
                /\ flight' = [task |-> Merged(flight.task, n), sending |-> TRUE]
                /\ queue' = SubSeq(queue, n + 1, Len(queue))
      BY <2>2
    <3>2. flight' # None /\ flight'.task = Merged(flight.task, n) /\ flight.task \in Task
      <4>1. Merged(flight.task, n) \in Task
        BY <2>0, MergedTask DEF TypeOK
      <4>2. flight' # None
        BY <3>1, <4>1, FlightSet
      <4> QED  BY <2>0, <3>1, <4>2
    <3>3. \A r : r \in SeqRange(flight'.task.receipts) <=>
              r \in SeqRange(flight.task.receipts) \/ \E i \in 1..n : r \in SeqRange(queue[i].receipts)
      BY <3>2, MergedReceipts DEF TypeOK
    <3>4. \A i : i \in flight'.task.entries <=>
              i \in flight.task.entries \/ \E q \in 1..n : i \in queue[q].entries
      BY <3>2, MergedEntries
    <3>5. \A i, r : InFlight(i, r) => InFlight(i, r)'
      BY <3>2, <3>3, <3>4 DEF InFlight
    <3>6. \A i, r : \A q \in 1..n :
               r \in SeqRange(queue[q].receipts) /\ i \in queue[q].entries => InFlight(i, r)'
      BY <3>2, <3>3, <3>4 DEF InFlight
    <3> QED  BY <1>0, <2>0, <3>1, <3>5, <3>6, TakenOwed
  <2> QED  BY <1>3, <2>1, <2>2 DEF StartSend
<1>4. CASE FloodRetry
  <2>0. flight \in [task : Task, sending : BOOLEAN] /\ flight # None /\ UNCHANGED <<rcpt, queue>>
        /\ flight' = [flight EXCEPT !.sending = FALSE]
    BY <1>4 DEF FloodRetry, TypeOK, WorkTypes
  <2>1. flight'.task = flight.task /\ flight' # None
    BY <2>0, NoneNotFlight, FlightSet
  <2>2. \A i, r : InFlight(i, r) => InFlight(i, r)'
    BY <2>1 DEF InFlight
  <2>3. \A i, r : InQueue(i, r) => InQueue(i, r)'
    BY <2>0 DEF InQueue
  <2> SUFFICES ASSUME NEW i \in Int, NEW r \in Receipts, Owed(i, r) PROVE Owed(i, r)'
    BY DEF KeepsOwed
  <2> QED  BY <1>0, <2>0, <2>2, <2>3 DEF Owed
<1> QED  BY <1>1, <1>2, <1>3, <1>4 DEF WorkerStep

\* Nothing that accounts for entries changes.
LEMMA SameAccounts ==
    ASSUME TypeOK, TypeOK', Accounts,
           UNCHANGED <<watermark, parsed, batch, order, clamp, prefix, rebuild, clampDone, rcpt, job,
                       queue, flight>>,
           pc \in Last => pc' \in Last,
           delivered \subseteq delivered', skipped \subseteq skipped',
           disk'.watermark \in {disk.watermark, watermark}, skip' = None => skip = None
    PROVE  Accounts'
<1>1. KeepsOwed /\ SameList
  BY SameOwed
<1> QED  BY <1>1, AccountsFrame DEF AccountsStay, SameList

LEMMA EntriesGrow ==
    ASSUME NEW outcome, SettleFlight(outcome)
    PROVE  delivered \subseteq delivered'
BY DEF SettleFlight

\* A purge writes the watermark beside its barrier.
LEMMA PurgeAccounts ==
    ASSUME TypeOK, TypeOK', Accounts, NEW s \in Intent, NEW onDisk, PurgeThenNotice(s, onDisk),
           onDisk.watermark \in {disk.watermark, watermark},
           UNCHANGED <<watermark, parsed, batch, order, clamp, prefix, rebuild, clampDone, delivered,
                       skipped>>
    PROVE  Accounts'
<1> DEFINE purged == [s EXCEPT !.purged = TRUE]
<1>1. \/ disk' = [watermark |-> watermark, skip |-> purged] /\ skip' = purged
      \/ disk' = onDisk /\ skip' = s
  BY DEF PurgeThenNotice
<1>2. purged \in Intent /\ s \in Intent
  BY DEF Intent
<1>3. None \notin Intent
  BY DeliveryAssumption
<1> HIDE DEF purged
<1>4. skip' # None /\ disk'.watermark \in {disk.watermark, watermark}
  BY <1>1, <1>2, <1>3
<1> QED  BY <1>4, PurgeList, BarrierAccounts

LEMMA QuietAccounts ==
    ASSUME TypeOK, TypeOK', Places, Singles(queue), Accounts,
           Environment \/ RequestSkip \/ WorkerStep \/ UNCHANGED vars
    PROVE  Accounts'
<1> USE DEF readerVars, stateVars, workVars, receiptVars, envVars, historyVars
<1>1. CASE Environment \/ UNCHANGED vars
  <2>1. UNCHANGED <<watermark, parsed, batch, order, clamp, prefix, rebuild, clampDone, rcpt, job,
                    queue, flight, pc, delivered, skipped, disk, skip>>
    BY <1>1 DEF Environment, AgentWrites, Rebind, WindowChanges, BarrierAges, vars
  <2> QED  BY <2>1, SameAccounts
<1>2. CASE WorkerStep
  <2>1. UNCHANGED <<watermark, parsed, batch, order, clamp, prefix, rebuild, clampDone, disk, skip,
                    skipped>>
    BY <1>2 DEF WorkerStep, TakeTask, DropStale, RefuseNotice, StartSend, SendEnds, FloodRetry
  <2>2. UNCHANGED <<delivered, rcpt>> \/ \E o : SettleFlight(o)
    BY <1>2 DEF WorkerStep, TakeTask, DropStale, RefuseNotice, StartSend, SendEnds, FloodRetry
  <2>3. delivered \subseteq delivered' /\ SameList
    <3>1. UNCHANGED rcpt => SameList
      BY <2>1 DEF SameList
    <3> QED  BY <2>2, <3>1, EntriesGrow, SettleList
  <2>4. KeepsOwed
    BY <1>2, WorkerOwed
  <2> QED  BY <2>1, <2>3, <2>4, AccountsFrame DEF AccountsStay, SameList
<1>3. CASE RequestSkip
  <2> DEFINE intent == [snapshot |-> eof, purged |-> FALSE]
             onDisk == [watermark |-> watermark, skip |-> intent]
  <2>1. UNCHANGED <<watermark, parsed, batch, order, clamp, prefix, rebuild, clampDone, job, flight,
                    delivered, skipped, pc>>
    BY <1>3 DEF RequestSkip
  <2>2. CASE Saved(TRUE, watermark, None) /\ UNCHANGED <<skip, rcpt, queue>>
    <3>1. disk' = [watermark |-> watermark, skip |-> None] \/ disk' = disk
      BY <2>2, SavedMoves
    <3>2. disk'.watermark \in {disk.watermark, watermark}
      BY <3>1
    <3> QED  BY <2>1, <2>2, <3>2, SameAccounts
  <2>3. CASE PurgeThenNotice(intent, onDisk)
    <3>1. intent \in Intent /\ onDisk.watermark \in {disk.watermark, watermark}
      BY DEF TypeOK, EnvTypes, Intent
    <3> HIDE DEF intent, onDisk
    <3> QED  BY <2>1, <2>3, <3>1, PurgeAccounts
  <2> QED  BY <1>3, <2>2, <2>3 DEF RequestSkip
<1> QED  BY <1>1, <1>2, <1>3

LEMMA SkipAccounts ==
    ASSUME TypeOK, TypeOK', Places, Accounts, Wake \/ ResumeSkip \/ ExpireSkip \/ CommitSkips
    PROVE  Accounts'
<1> USE DEF readerVars, stateVars, workVars, receiptVars, envVars, historyVars
<1>1. /\ pc \in Last => pc' \in Last
      /\ UNCHANGED <<clamp, delivered>>
  BY DEF Wake, ResumeSkip, ExpireSkip, CommitSkips, CommitPoints, Last
<1>2. CASE UNCHANGED <<watermark, parsed, batch, order, clamp, prefix, rebuild, clampDone, rcpt, job,
                       queue, flight, delivered, skipped, disk, skip>>
  BY <1>1, <1>2, SameAccounts
<1>3. CASE CancelPendingSkip
  BY <1>1, <1>3, CancelAccounts
<1>4. CASE skip # None /\ CompleteSkip
  BY <1>1, <1>4, CompleteAccounts
<1>5. CASE /\ skip # None /\ PurgeThenNotice(skip, disk)
           /\ UNCHANGED <<watermark, parsed, batch, order, clamp, prefix, rebuild, clampDone, delivered,
                       skipped>>
  <2>1. skip \in Intent
    BY <1>5 DEF TypeOK, StateTypes
  <2> QED  BY <1>5, <2>1, PurgeAccounts
<1>6. CASE /\ skip # None /\ EnqueueNotice(queue, rcpt, skip)
           /\ UNCHANGED <<watermark, parsed, batch, order, clamp, prefix, rebuild, clampDone, delivered,
                       skipped, disk, skip>>
  <2>1. SameList
    <3>1. rcpt \in [Receipts -> Receipt]
      BY DEF TypeOK, ReceiptTypes
    <3> QED  BY <1>6, <3>1, EnqueueList
  <2> QED  BY <1>6, <2>1, BarrierAccounts
<1>7. CASE Wake
  BY <1>2, <1>7 DEF Wake
<1>8. CASE ResumeSkip
  BY <1>2, <1>3, <1>5, <1>6, <1>8 DEF ResumeSkip
<1>9. CASE ExpireSkip
  BY <1>2, <1>3, <1>4, <1>9 DEF ExpireSkip, Expired
<1>10. CASE CommitSkips
  BY <1>2, <1>3, <1>4, <1>10 DEF CommitSkips
<1> QED  BY <1>7, <1>8, <1>9, <1>10

-----------------------------------------------------------------------------
\* What a receipt holds it keeps holding while no task and no receipt changes.
LEMMA SameHeld ==
    ASSUME NEW i, Held(i), UNCHANGED <<rcpt, order, job, queue, flight>>, pc \in Last => pc' \in Last
    PROVE  Held(i)'
<1>1. \A r : InQueue(i, r)' = InQueue(i, r) /\ InFlight(i, r)' = InFlight(i, r)
  BY DEF InQueue, InFlight
<1>2. \A r : Owed(i, r) => Owed(i, r)'
  BY <1>1 DEF Owed
<1>3. \A k : Cp(k)' = Cp(k)
  BY DEF Cp
<1>4. PICK k \in 1..Len(order) : /\ i <= Cp(k)
                                 /\ \A j \in 1..(k - 1) : Cp(j) < i
                                 /\ Owed(i, order[k])
  BY DEF Held
<1>5. PICK r : r = order[k]
  OBVIOUS
<1>6. Owed(i, r)' /\ order'[k] = r
  BY <1>2, <1>4, <1>5
<1> QED  BY <1>3, <1>4, <1>6 DEF Held

\* The clamp is set once per process, before anything is read.
LEMMA BeginAccounts ==
    ASSUME TypeOK, TypeOK', Places, Accounts, ReadBegin
    PROVE  Accounts'
<1> DEFINE over == ~clampDone /\ ReplayLimit > 0 /\ eof - ParsePos > ReplayLimit
<1>0. /\ ParsePos \in Int /\ eof \in Int /\ clamp \in Int /\ prefix \in Int /\ watermark \in Int
      /\ eof >= 0 /\ watermark <= ParsePos /\ ParsePos <= eof
  BY ParsePosType DEF TypeOK, EnvTypes, ReaderTypes, StateTypes, Offsets, Places, Bounded
<1>1. /\ pc = "read" /\ pc' \notin Last
      /\ UNCHANGED <<eof, disk, watermark, skip, batch, prefix, rcpt, order, job, queue, flight, delivered>>
  BY DEF ReadBegin, envVars, stateVars, receiptVars, workVars, Last
<1>2. pc \notin Last
  BY <1>1 DEF Last
<1>3. CASE UNCHANGED <<parsed, rebuild, clamp, clampDone, skipped>>
  BY <1>1, <1>2, <1>3, SameAccounts
<1>4. CASE over /\ rebuild' = TRUE /\ parsed' = eof /\ clamp' = eof /\ skipped' = skipped \cup (ParsePos + 1)..eof
  <2>1. order = <<>> /\ batch = None
    BY <1>4 DEF Places, Restarted
  <2>2. ~clampDone
    BY <1>4
  <2> HIDE DEF over
  <2>3. (watermark + 1)..ParsePos \subseteq skipped
    BY <2>2 DEF Accounts, FreshOK, Fresh
  <2>4. ParsePos' = eof
    BY <1>0, <1>4 DEF ParsePos
  <2>5. \A i \in (watermark + 1)..eof : i \in (watermark + 1)..ParsePos \/ i \in (ParsePos + 1)..eof
    BY <1>0
  <2>6. (watermark + 1)..eof \subseteq skipped'
    BY <1>4, <2>3, <2>5
  <2>7. (watermark' + 1)..ParsePos' \subseteq skipped' /\ Clamped'
    BY <1>1, <1>4, <2>4, <2>6 DEF Clamped
  <2>8. Covered(watermark)' /\ Covered(disk.watermark)'
    BY <1>1, <1>4 DEF Accounts, Covered, Handled
  <2> QED  BY <1>1, <2>1, <2>7, <2>8, AccountsEmpty
<1>5. CASE ~over /\ rebuild' = rebuild /\ clampDone' = TRUE /\ UNCHANGED <<parsed, clamp, skipped>>
  <2>1. ParsePos' = ParsePos
    BY <1>1, <1>5 DEF ParsePos
  <2>2. FreshOK' /\ Clamped'
    BY <1>1, <1>5, <2>1 DEF Accounts, FreshOK, Fresh, Clamped
  <2>3. Covered(watermark)' /\ Covered(disk.watermark)'
    BY <1>1, <1>5 DEF Accounts, Covered, Handled
  <2>4. Accounted'
    <3> SUFFICES ASSUME skip = None, NEW i \in (watermark + 1)..ParsePos, i \notin Handled,
                        ~(batch # None /\ batch.from < i)
                 PROVE  Held(i)'
      BY <1>1, <1>5, <2>1 DEF Accounted, Handled
    <3>1. Held(i)
      BY DEF Accounts, Accounted
    <3> QED  BY <1>1, <1>2, <3>1, SameHeld
  <2> QED  BY <2>2, <2>3, <2>4 DEF Accounts
<1> QED
  <2> HIDE DEF over
  <2>1. CASE UNCHANGED <<parsed, rebuild, clamp, clampDone, skipped>>
    BY <2>1, <1>3
  <2>2. CASE /\ clampDone' = TRUE
             /\ parsed' = IF over THEN eof ELSE parsed
             /\ clamp' = IF over THEN eof ELSE clamp
             /\ rebuild' = (rebuild \/ over)
             /\ skipped' = IF over THEN skipped \cup (ParsePos + 1)..eof ELSE skipped
    <3>1. rebuild \in BOOLEAN
      BY DEF TypeOK, ReaderTypes
    <3>2. CASE over
      BY <1>4, <2>2, <3>2
    <3>3. CASE ~over
      <4>1. rebuild' = rebuild
        BY <2>2, <3>1, <3>3
      <4> QED  BY <1>5, <2>2, <3>3, <4>1
    <3> QED  BY <3>2, <3>3
  <2>3. \/ UNCHANGED <<parsed, rebuild, clamp, clampDone, skipped>>
        \/ /\ clampDone' = TRUE
           /\ parsed' = IF over THEN eof ELSE parsed
           /\ clamp' = IF over THEN eof ELSE clamp
           /\ rebuild' = (rebuild \/ over)
           /\ skipped' = IF over THEN skipped \cup (ParsePos + 1)..eof ELSE skipped
    BY DEF ReadBegin, over
  <2> QED  BY <2>1, <2>2, <2>3

\* A batch is a batch.
LEMMA BatchSet ==
    \A f \in Offsets : \A h \in Entries : [from |-> f, hi |-> h] # None
<1>1. None \notin [from : Offsets, hi : Entries]
  BY DeliveryAssumption
<1>2. ASSUME NEW f \in Offsets, NEW h \in Entries PROVE [from |-> f, hi |-> h] # None
  <2>1. [from |-> f, hi |-> h] \in [from : Offsets, hi : Entries]
    OBVIOUS
  <2> QED  BY <1>1, <2>1
<1> QED  BY <1>2

\* The entries read wait in the batch.
LEMMA ReadEndAccounts ==
    ASSUME TypeOK, TypeOK', Places, Accounts, ReadEnd
    PROVE  Accounts'
<1>1. /\ pc = "reading" /\ pc' = "register"
      /\ UNCHANGED <<eof, disk, watermark, skip, clamp, clampDone, job, order, rcpt, queue, flight,
                     delivered, skipped>>
  BY DEF ReadEnd, envVars, receiptVars, workVars, historyVars
<1>2. PICK hi \in reading.seen..eof :
          /\ parsed' = hi
          /\ rebuild' = FALSE
          /\ batch' = IF (reading.from + 1)..hi = {} THEN batch ELSE [from |-> reading.from, hi |-> hi]
          /\ prefix' = hi \/ prefix' \in hi..eof
  BY DEF ReadEnd
<1>3. hi \in Offsets /\ hi \in Int /\ reading.from <= hi /\ hi <= eof /\ watermark <= hi /\ hi >= 0
  BY <1>1, Reading, InFile
<1>4. ParsePos' = hi /\ reading.from = ParsePos /\ ParsePos \in Int /\ batch = None /\ job = None
      /\ clampDone /\ ParsePos >= 0 /\ watermark <= ParsePos /\ watermark \in Int /\ watermark >= 0
  BY <1>1, <1>2, <1>3, Reading DEF ParsePos, TypeOK, StateTypes, Offsets
<1>5. prefix' >= hi /\ prefix' \in Int
  BY <1>2, <1>3
<1>6. CASE hi = ParsePos
  <2>1. batch' = None
    BY <1>2, <1>4, <1>6
  <2>2. ParsePos' = ParsePos
    BY <1>4, <1>6
  <2>3. FreshOK'
    <3> SUFFICES ASSUME ParsePos = 0
                 PROVE  order = <<>> /\ (watermark + 1)..ParsePos \subseteq skipped
      BY <1>1, <1>2, <1>4, <1>5, <1>6, <2>1 DEF FreshOK, Fresh
    <3> QED  BY DEF Accounts, FreshOK, Fresh
  <2>4. Accounted'
    <3> SUFFICES ASSUME skip = None, NEW i \in (watermark + 1)..ParsePos, i \notin Handled
                 PROVE  Held(i)'
      BY <1>1, <2>1, <2>2 DEF Accounted, Handled
    <3>1. Held(i)
      BY <1>4 DEF Accounts, Accounted
    <3> QED  BY <1>1, <3>1, SameHeld DEF Last
  <2>5. Clamped' /\ Covered(watermark)' /\ Covered(disk.watermark)'
    BY <1>1 DEF Accounts, Clamped, Covered, Handled
  <2> QED  BY <2>3, <2>4, <2>5 DEF Accounts
<1>7. CASE hi # ParsePos
  <2>1. hi > ParsePos /\ hi \in Entries /\ ParsePos \in Offsets
    BY <1>1, <1>3, <1>4, <1>7, Reading DEF Offsets, Entries, TypeOK, EnvTypes, ReaderTypes, Read
  <2>2. batch' = [from |-> ParsePos, hi |-> hi]
    BY <1>2, <1>3, <1>4, <2>1
  <2>3. batch' # None /\ batch'.from = ParsePos
    BY <2>1, <2>2, BatchSet
  <2>4. ~Fresh'
    BY <1>1, <1>2, <1>4, <1>5, <2>1 DEF Fresh
  <2>5. Accounted'
    <3> SUFFICES ASSUME skip = None, NEW i \in (watermark + 1)..hi, i \notin Handled, ~(ParsePos < i)
                 PROVE  Held(i)'
      BY <1>1, <1>4, <2>3 DEF Accounted, Handled
    <3>1. Held(i)
      <4>1. i \in (watermark + 1)..ParsePos
        BY <1>3, <1>4
      <4> QED  BY <1>4, <4>1 DEF Accounts, Accounted
    <3> QED  BY <1>1, <3>1, SameHeld DEF Last
  <2>6. Clamped' /\ Covered(watermark)' /\ Covered(disk.watermark)'
    BY <1>1 DEF Accounts, Clamped, Covered, Handled
  <2> QED  BY <2>4, <2>5, <2>6 DEF Accounts, FreshOK
<1> QED  BY <1>6, <1>7

\* Growth is taken for replacement only when nothing read is outstanding, so
\* what is given up lies right behind what already was.
LEMMA GrowthAccounts ==
    ASSUME TypeOK, TypeOK', Places, Accounts, GrowthTakenForReplacement
    PROVE  Accounts'
<1>1. /\ pc = "reading" /\ pc' = "register" /\ clamp' = 0 /\ ~PrefixCovers
      /\ UNCHANGED <<eof, disk, watermark, skip, clampDone, job, rcpt, queue, flight, delivered>>
  BY DEF GrowthTakenForReplacement, envVars, workVars
<1>2. PICK past \in (reading.seen + 1)..eof :
        /\ skipped' = skipped \cup (reading.from + 1)..past
        /\ \/ \E hi \in past..eof :
              /\ parsed' = hi
              /\ prefix' = hi
              /\ rebuild' = FALSE
              /\ batch' = [from |-> past, hi |-> hi]
              /\ Discard
           \/ /\ parsed' = past
              /\ UNCHANGED <<prefix, rebuild, batch, order>>
  BY DEF GrowthTakenForReplacement
<1>3. /\ reading.from = ParsePos /\ ParsePos \in Int /\ ParsePos >= 0 /\ watermark \in Int
      /\ prefix \in Int /\ clampDone /\ ParsePos < past /\ past \in Int /\ past <= eof /\ eof \in Int
      /\ past \in Offsets /\ past \in Entries
  <2>1. /\ reading.from = ParsePos /\ ParsePos \in Int /\ ParsePos >= 0 /\ watermark \in Int
        /\ prefix \in Int /\ clampDone /\ reading.from <= reading.seen /\ reading.seen \in Int
        /\ eof \in Int /\ eof <= MaxLen
    BY <1>1, Reading
  <2> QED  BY <2>1, DeliveryAssumption DEF Offsets, Entries
<1>4. Fresh
  BY <1>1, <1>3 DEF PrefixCovers, Fresh
<1>5. order = <<>> /\ batch = None /\ (watermark + 1)..ParsePos \subseteq skipped
  BY <1>4 DEF Accounts, FreshOK
<1>6. (watermark + 1)..past \subseteq skipped'
  <2>1. \A i \in (watermark + 1)..past : i \in (watermark + 1)..ParsePos \/ i \in (ParsePos + 1)..past
    BY <1>3
  <2> QED  BY <1>2, <1>3, <1>5, <2>1
<1>7. Clamped' /\ Covered(watermark)' /\ Covered(disk.watermark)'
  <2>1. watermark >= 0
    BY DEF TypeOK, StateTypes, Offsets
  <2>2. (watermark + 1)..0 = {}
    BY <1>3, <2>1
  <2> QED  BY <1>1, <1>2, <2>2 DEF Accounts, Clamped, Covered, Handled
<1>8. CASE \E hi \in past..eof :
              /\ parsed' = hi
              /\ prefix' = hi
              /\ rebuild' = FALSE
              /\ batch' = [from |-> past, hi |-> hi]
              /\ Discard
  <2>1. PICK hi \in past..eof :
              /\ parsed' = hi
              /\ prefix' = hi
              /\ rebuild' = FALSE
              /\ batch' = [from |-> past, hi |-> hi]
    BY <1>8
  <2>2. hi \in Int /\ hi > 0 /\ hi \in Entries /\ past <= hi
    <3>1. eof <= MaxLen /\ MaxLen \in Int
      BY <1>1, Reading, DeliveryAssumption
    <3> QED  BY <1>3, <2>1, <3>1 DEF Entries
  <2>3. ParsePos' = hi
    BY <2>1, <2>2 DEF ParsePos
  <2>4. ~Fresh'
    BY <1>1, <1>3, <2>1, <2>2, <2>3 DEF Fresh
  <2>5. batch' # None /\ batch'.from = past
    BY <1>3, <2>1, <2>2, BatchSet
  <2>6. Accounted'
    <3> SUFFICES ASSUME NEW i \in (watermark + 1)..hi, ~(past < i) PROVE i \in skipped'
      BY <1>1, <2>3, <2>5 DEF Accounted, Handled
    <3>1. i \in (watermark + 1)..past
      BY <1>3, <2>2
    <3> QED  BY <1>6, <3>1
  <2> QED  BY <1>7, <2>4, <2>6 DEF Accounts, FreshOK
<1>9. CASE parsed' = past /\ UNCHANGED <<prefix, rebuild, batch, order>>
  <2>1. ParsePos' = past
    BY <1>3, <1>9 DEF ParsePos
  <2> QED  BY <1>1, <1>5, <1>6, <1>7, <1>9, <2>1, AccountsEmpty
<1> QED  BY <1>2, <1>8, <1>9

\* A parser that could not be rebuilt starts from the floor again.
LEMMA RebuildFailsAccounts ==
    ASSUME TypeOK, TypeOK', Places, Accounts, RebuildFails
    PROVE  Accounts'
<1>1. /\ rebuild /\ parsed' = ClampedFloor(watermark)
      /\ UNCHANGED <<disk, watermark, clamp, order, batch, delivered, skipped>>
  BY DEF RebuildFails, receiptVars, historyVars
<1>2. order = <<>> /\ batch = None
  BY <1>1 DEF Places, Restarted
<1>3. watermark \in Int /\ clamp \in Int /\ watermark >= 0 /\ clamp >= 0
  BY DEF TypeOK, StateTypes, ReaderTypes, Offsets
<1>4. ParsePos' = IF clamp > watermark THEN clamp ELSE watermark
  BY <1>1, <1>3 DEF ParsePos, ClampedFloor
<1>5. (watermark' + 1)..ParsePos' \subseteq skipped'
  <2>1. CASE clamp > watermark
    BY <1>1, <1>4, <2>1 DEF Accounts, Clamped
  <2>2. CASE ~(clamp > watermark)
    <3>1. (watermark + 1)..watermark = {}
      BY <1>3
    <3> QED  BY <1>1, <1>4, <2>2, <3>1
  <2> QED  BY <2>1, <2>2
<1>6. Clamped' /\ Covered(watermark)' /\ Covered(disk.watermark)'
  BY <1>1 DEF Accounts, Clamped, Covered, Handled
<1> QED  BY <1>1, <1>2, <1>5, <1>6, AccountsEmpty

LEMMA ReadFailsAccounts ==
    ASSUME TypeOK, TypeOK', Places, Accounts, ReadFails
    PROVE  Accounts'
<1>1. /\ pc = "reading" /\ pc' = "register"
      /\ UNCHANGED <<disk, watermark, skip, clamp, clampDone, job, rcpt, order, batch, rebuild,
                     parsed, prefix, queue, flight, delivered, skipped>>
  BY DEF ReadFails, envVars, workVars, receiptVars, stateVars, historyVars
<1>2. pc \notin Last
  BY <1>1 DEF Last
<1> QED  BY <1>1, <1>2, SameAccounts

\* The receipt of a batch owes its entries until they are routed.
LEMMA RegisterAccounts ==
    ASSUME TypeOK, TypeOK', Places, Accounts, Register
    PROVE  Accounts'
<1>1. /\ pc = "register" /\ batch' = None /\ pc \notin Last
      /\ UNCHANGED <<eof, watermark, skip, parsed, reading, rebuild, prefix, clamp, clampDone, queue,
                     flight, delivered, skipped>>
      /\ reading = None /\ job = None
  BY DEF Register, Places, ReadingAt, JobAt, envVars, historyVars, Last
<1>2. disk' = [watermark |-> watermark, skip |-> skip] \/ disk' = disk
  BY SavedMoves DEF Register, TypeOK, StateTypes
<1>3. disk'.watermark \in {disk.watermark, watermark}
  BY <1>2
<1>4. CASE batch = None
  <2>1. UNCHANGED <<rcpt, order, job>>
    BY <1>4 DEF Register
  <2> QED  BY <1>1, <1>3, <1>4, <2>1, SameAccounts
<1>5. CASE batch # None
  <2>0. PICK last \in Nat : last = Len(order) + 1
    BY DEF TypeOK, ReceiptTypes
  <2>1. PICK r : r = job'.receipt
    OBVIOUS
  <2>2. /\ Len(order') = last /\ order'[last] = r
        /\ rcpt'[r] = NewReceipt(batch.hi)
        /\ \A k \in 1..Len(order) : order'[k] = order[k] /\ rcpt'[order[k]] = rcpt[order[k]]
        /\ job' = [receipt |-> r, next |-> batch.from + 1, last |-> batch.hi]
    BY <1>5, <2>0, <2>1, RegisteredAt
  <2>3. \A k \in 1..Len(order) : Cp(k)' = Cp(k) /\ Cp(k) \in Int
    BY <2>2, OrderedTypes DEF Cp, Offsets
  <2>4. Cp(last)' = batch.hi
    BY <2>2 DEF Cp, NewReceipt
  <2>5. /\ batch.from \in Int /\ batch.hi \in Int /\ watermark \in Int /\ parsed = batch.hi
        /\ \A k \in 1..Len(order) : Cp(k) <= batch.from /\ Cp(k) < batch.hi
        /\ batch.hi >= 0
    BY <1>5, DeliveryAssumption DEF Places, BatchAt, TypeOK, ReaderTypes, StateTypes, Offsets, Entries
  <2>6. ParsePos = batch.hi /\ ParsePos' = ParsePos
    BY <1>1, <2>5 DEF ParsePos
  <2>7. /\ Len(order) \in Nat /\ last \in 1..last /\ \A k \in 1..(last - 1) : k \in 1..Len(order)
        /\ \A k \in 1..Len(order) : k \in 1..last /\ \A j \in 1..(k - 1) : j \in 1..Len(order)
    BY <2>0 DEF TypeOK, ReceiptTypes
  <2>8. ~Fresh'
    <3>1. ~Fresh
      BY <1>5 DEF Accounts, FreshOK
    <3> QED  BY <1>1, <2>6, <3>1 DEF Fresh
  <2>9. Accounted'
    <3> SUFFICES ASSUME skip = None, NEW i \in (watermark + 1)..ParsePos, i \notin Handled
                 PROVE  Held(i)'
      BY <1>1, <2>6 DEF Accounted, Handled
    <3>0. i \in Int /\ i <= batch.hi
      BY <2>5, <2>6
    <3>1. batch.from < i \/ Held(i)
      BY DEF Accounts, Accounted
    <3>2. CASE batch.from < i
      <4>1. job' # None /\ job'.receipt = r /\ job'.next <= i
        <5>1. job' # None
          BY <1>5 DEF Register, TypeOK, PcTypes
        <5> QED  BY <2>2, <2>5, <3>0, <3>2, <5>1
      <4>2. Owed(i, r)'
        BY <4>1 DEF Owed
      <4>3. i <= Cp(last)' /\ \A j \in 1..(last - 1) : Cp(j)' < i
        BY <2>3, <2>4, <2>5, <2>7, <3>0, <3>2
      <4> QED  BY <2>2, <2>7, <4>2, <4>3 DEF Held
    <3>3. CASE Held(i)
      <4>1. PICK k \in 1..Len(order) : /\ i <= Cp(k)
                                       /\ \A j \in 1..(k - 1) : Cp(j) < i
                                       /\ Owed(i, order[k])
        BY <3>3 DEF Held
      <4>2. PICK x : x = order[k]
        OBVIOUS
      <4>3. rcpt'[x] = rcpt[x] /\ order'[k] = x
        BY <2>2, <4>2
      <4>4. InQueue(i, x)' = InQueue(i, x) /\ InFlight(i, x)' = InFlight(i, x)
        BY <1>1 DEF InQueue, InFlight
      <4>5. Owed(i, x)'
        BY <1>1, <4>1, <4>2, <4>3, <4>4 DEF Owed
      <4>6. i <= Cp(k)' /\ \A j \in 1..(k - 1) : Cp(j)' < i
        BY <2>3, <2>7, <4>1
      <4> QED  BY <2>2, <2>7, <4>3, <4>5, <4>6 DEF Held
    <3> QED  BY <3>1, <3>2, <3>3
  <2>10. Clamped' /\ Covered(watermark)' /\ Covered(disk.watermark)'
    BY <1>1, <1>3 DEF Accounts, Clamped, Covered, Handled
  <2> QED  BY <2>8, <2>9, <2>10 DEF Accounts, FreshOK
<1> QED  BY <1>4, <1>5

\* Routing turns what the dispatch owes into a task, or drops it on purpose.
LEMMA RouteAccounts ==
    ASSUME TypeOK, TypeOK', Places, Accounts, RouteEntry
    PROVE  Accounts'
<1>1. /\ pc = "dispatch" /\ pc' = pc /\ job.next <= job.last
      /\ job' = [job EXCEPT !.next = @ + 1]
      /\ UNCHANGED <<disk, watermark, skip, parsed, rebuild, prefix, clamp, clampDone, batch, order,
                     flight, skipped>>
  BY DEF RouteEntry, envVars, stateVars, readerVars
<1>0. PICK r, e : r = job.receipt /\ e = job.next
  OBVIOUS
<1> DEFINE task == Content(e, rcpt[r].checkpoint, r)
<1>2. \/ delivered' = delivered \cup {e} /\ UNCHANGED <<rcpt, queue>>
      \/ rcpt' = [rcpt EXCEPT ![r] = Tracked(@)] /\ queue' = Append(queue, task) /\ UNCHANGED delivered
  BY <1>0 DEF RouteEntry
<1>3. r \in Receipts /\ e \in Int /\ rcpt[r] \in Receipt
  BY <1>0, <1>1, Dispatching
<1>4. job' # None /\ job'.next = e + 1 /\ job'.receipt = r
  BY <1>0, <1>1, Dispatching DEF Dispatch, TypeOK, PcTypes
<1>5. SeqRange(task.receipts) = {r} /\ task.entries = {e}
  BY DEF Content, SeqRange
<1>6. /\ Tracked(rcpt[r]).failed = rcpt[r].failed /\ Tracked(rcpt[r]).checkpoint = rcpt[r].checkpoint
      /\ Tracked(rcpt[r]).closed = rcpt[r].closed
  BY <1>3 DEF Tracked, Receipt
<1> HIDE DEF task
<1>7. \A x \in Receipts : /\ rcpt'[x].failed = rcpt[x].failed /\ rcpt'[x].checkpoint = rcpt[x].checkpoint
                          /\ rcpt'[x].closed = rcpt[x].closed
  BY <1>2, <1>3, <1>6 DEF TypeOK, ReceiptTypes
<1>8. SameList
  BY <1>7, OrderedTypes DEF SameList
<1>9. ASSUME NEW i, NEW x, InQueue(i, x) PROVE InQueue(i, x)'
  <2>1. CASE UNCHANGED queue
    BY <1>9, <2>1 DEF InQueue
  <2>2. CASE queue' = Append(queue, task)
    <3>1. Len(queue') = Len(queue) + 1 /\ (\A q \in 1..Len(queue) : queue'[q] = queue[q])
          /\ Len(queue) \in Nat
      BY <2>2 DEF TypeOK, WorkTypes
    <3>2. \A q \in 1..Len(queue) : q \in 1..Len(queue')
      BY <3>1
    <3> QED  BY <1>9, <3>1, <3>2 DEF InQueue
  <2> QED  BY <1>2, <2>1, <2>2
<1>10. \A i, x : InFlight(i, x)' = InFlight(i, x)
  BY <1>1 DEF InFlight
<1>11. e \in Handled' \/ InQueue(e, r)'
  <2>1. CASE queue' = Append(queue, task)
    <3>1. Len(queue') \in 1..Len(queue') /\ queue'[Len(queue')] = task
      BY <2>1 DEF TypeOK, WorkTypes
    <3> QED  BY <1>5, <3>1 DEF InQueue
  <2>2. CASE delivered' = delivered \cup {e}
    BY <2>2 DEF Handled
  <2> QED  BY <1>2, <2>1, <2>2
<1>12. KeepsOwed
  <2> SUFFICES ASSUME NEW i \in Int, NEW x \in Receipts, Owed(i, x), i \notin Handled' PROVE Owed(i, x)'
    BY DEF KeepsOwed
  <2>1. CASE job # None /\ job.receipt = x /\ job.next <= i
    <3>1. x = r /\ e <= i
      BY <1>0, <2>1
    <3>2. CASE i = e
      BY <1>11, <3>1, <3>2 DEF Owed
    <3>3. CASE i # e
      <4>1. e + 1 <= i
        BY <1>3, <3>1, <3>3
      <4> QED  BY <1>4, <3>1, <4>1 DEF Owed
    <3> QED  BY <3>2, <3>3
  <2>2. CASE rcpt[x].failed
    BY <1>7, <2>2 DEF Owed
  <2>3. CASE InQueue(i, x) \/ InFlight(i, x)
    BY <1>9, <1>10, <2>3 DEF Owed
  <2>4. pc \notin Last
    BY <1>1 DEF Last
  <2> QED  BY <2>1, <2>2, <2>3, <2>4 DEF Owed
<1>13. delivered \subseteq delivered'
  BY <1>2
<1> QED  BY <1>1, <1>8, <1>12, <1>13, AccountsFrame DEF AccountsStay, SameList

-----------------------------------------------------------------------------
\* A dispatch ends with every entry routed, or its receipt fails.
LEMMA DispatchEndsAccounts ==
    ASSUME TypeOK, TypeOK', Places, Accounts, DispatchEnds
    PROVE  Accounts'
<1>1. /\ pc = "dispatch" /\ pc' = "commit" /\ job' = None
      /\ UNCHANGED <<disk, watermark, skip, parsed, reading, rebuild, prefix, clamp, clampDone,
                     batch, order, queue, flight, delivered, skipped>>
  BY DEF DispatchEnds, envVars, stateVars, readerVars, historyVars
<1>2. PICK r : r = job.receipt
  OBVIOUS
<1>3. r \in Receipts /\ rcpt[r] \in Receipt /\ rcpt \in [Receipts -> Receipt]
      /\ rcpt[r].checkpoint = job.last /\ job.next \in Int /\ job.last \in Int
  BY <1>1, <1>2, Dispatching DEF TypeOK, ReceiptTypes
<1>4. \/ job.next > job.last /\ rcpt' = [rcpt EXCEPT ![r] = Closed(@)]
      \/ rcpt' = [rcpt EXCEPT ![r] = Closed(Failed(@))]
  BY <1>2 DEF DispatchEnds
<1>5. \A x \in Receipts \ {r} : rcpt'[x] = rcpt[x]
  BY <1>3, <1>4
<1>6. rcpt'[r] = Closed(rcpt[r]) \/ rcpt'[r] = Closed(Failed(rcpt[r]))
  BY <1>3, <1>4
<1>7. rcpt[r].failed => rcpt'[r].failed
  BY <1>3, <1>6, ClosedCheckpoint
<1>8. job.next > job.last \/ rcpt'[r].failed
  BY <1>3, <1>4, ClosedCheckpoint
<1>9. \A i, x : InQueue(i, x)' = InQueue(i, x) /\ InFlight(i, x)' = InFlight(i, x)
  BY <1>1 DEF InQueue, InFlight
<1>10. KeepsOwed
  <2> SUFFICES ASSUME NEW i \in Int, NEW x \in Receipts, i <= rcpt[x].checkpoint, Owed(i, x)
               PROVE  Owed(i, x)'
    BY DEF KeepsOwed
  <2>1. CASE job # None /\ job.receipt = x /\ job.next <= i
    <3>1. x = r /\ i <= job.last
      BY <1>2, <1>3, <2>1
    <3>2. rcpt'[r].failed
      BY <1>3, <1>8, <2>1, <3>1
    <3> QED  BY <3>1, <3>2 DEF Owed
  <2>2. CASE rcpt[x].failed
    <3>1. rcpt'[x].failed
      BY <1>5, <1>7, <2>2
    <3> QED  BY <3>1 DEF Owed
  <2>3. CASE InQueue(i, x) \/ InFlight(i, x)
    BY <1>9, <2>3 DEF Owed
  <2>4. pc \notin Last
    BY <1>1 DEF Last
  <2> QED  BY <2>1, <2>2, <2>3, <2>4 DEF Owed
<1>11. AccountsStay
  <2>1. \A k \in 1..Len(order) : rcpt'[order[k]].checkpoint = rcpt[order[k]].checkpoint
    <3> SUFFICES ASSUME NEW k \in 1..Len(order) PROVE rcpt'[order[k]].checkpoint = rcpt[order[k]].checkpoint
      OBVIOUS
    <3>1. order[k] = r \/ order[k] \in Receipts \ {r}
      BY OrderedTypes
    <3>2. rcpt'[r].checkpoint = rcpt[r].checkpoint
      BY <1>3, <1>6, ClosedCheckpoint
    <3> QED  BY <1>5, <3>1, <3>2
  <2> QED  BY <1>1, <2>1 DEF AccountsStay
<1> QED  BY <1>10, <1>11, AccountsFrame

\* The receipt of a dispatch that is cut off fails.
LEMMA StopMonitorAccounts ==
    ASSUME TypeOK, TypeOK', Places, Accounts, StopMonitor
    PROVE  Accounts'
<1>1. /\ pc \notin Last /\ pc' = "draining" /\ job' = None
      /\ UNCHANGED <<watermark, skip, parsed, rebuild, prefix, clamp, clampDone, batch, order, queue,
                     flight, delivered, skipped>>
  BY DEF StopMonitor, MonitorUp, historyVars, Last
<1>2. disk' = [watermark |-> watermark, skip |-> skip] \/ disk' = disk
  BY DEF StopMonitor
<1>3. disk'.watermark \in {disk.watermark, watermark}
  BY <1>2
<1>4. \A i, x : InQueue(i, x)' = InQueue(i, x) /\ InFlight(i, x)' = InFlight(i, x)
  BY <1>1 DEF InQueue, InFlight
<1>5. \A x \in Receipts : /\ rcpt'[x].checkpoint = rcpt[x].checkpoint
                          /\ rcpt[x].failed => rcpt'[x].failed
                          /\ job # None /\ job.receipt = x => rcpt'[x].failed
  <2> SUFFICES ASSUME NEW x \in Receipts
               PROVE  /\ rcpt'[x].checkpoint = rcpt[x].checkpoint
                      /\ rcpt[x].failed => rcpt'[x].failed
                      /\ job # None /\ job.receipt = x => rcpt'[x].failed
    OBVIOUS
  <2>1. rcpt[x] \in Receipt /\ rcpt \in [Receipts -> Receipt]
    BY DEF TypeOK, ReceiptTypes
  <2>2. CASE job # None /\ job.receipt = x
    <3>1. rcpt'[x] = Closed(Failed(rcpt[x]))
      BY <2>1, <2>2 DEF StopMonitor
    <3> QED  BY <2>1, <3>1, ClosedCheckpoint
  <2>3. CASE ~(job # None /\ job.receipt = x)
    <3>1. rcpt'[x] = rcpt[x]
      BY <2>1, <2>3 DEF StopMonitor
    <3> QED  BY <2>3, <3>1
  <2> QED  BY <2>2, <2>3
<1>6. KeepsOwed
  <2> SUFFICES ASSUME NEW i \in Int, NEW x \in Receipts, Owed(i, x) PROVE Owed(i, x)'
    BY DEF KeepsOwed
  <2> QED  BY <1>1, <1>4, <1>5 DEF Owed
<1> QED  BY <1>1, <1>3, <1>5, <1>6, OrderedTypes, AccountsFrame DEF AccountsStay

\* What the drain left is never settled: its receipts fail or go on waiting.
LEMMA StopWorkersAccounts ==
    ASSUME TypeOK, TypeOK', Tracks, Places, Accounts, StopWorkers
    PROVE  Accounts'
<1>1. /\ pc = "draining" /\ pc' = "lastCommit" /\ queue' = <<>>
      /\ UNCHANGED <<disk, watermark, skip, parsed, reading, rebuild, prefix, clamp, clampDone,
                     batch, order, job, skipped>>
  BY DEF StopWorkers, envVars, stateVars, readerVars
<1>2. job = None /\ pc \notin Last /\ pc' \in Last
  BY <1>1 DEF Places, JobAt, Last
<1>3. CASE flight # None /\ SettleFlight("failed")
  <2>1. KeepsOwed
    BY <1>1, <1>2, <1>3, SettleOwed DEF Outcomes
  <2>2. SameList /\ delivered \subseteq delivered'
    BY <1>3, SettleList, EntriesGrow
  <2> QED  BY <1>1, <2>1, <2>2, AccountsFrame DEF AccountsStay, SameList
<1>4. CASE flight = None /\ UNCHANGED <<rcpt, flight, delivered>>
  <2>1. KeepsOwed
    <3> SUFFICES ASSUME NEW i \in Int, NEW x \in Receipts, Owed(i, x) PROVE Owed(i, x)'
      BY DEF KeepsOwed
    <3>1. CASE InQueue(i, x)
      <4>1. rcpt[x].pending > 0
        BY <3>1, TrackedPending DEF InQueue
      <4> QED  BY <1>2, <1>4, <4>1 DEF Owed
    <3> QED  BY <1>2, <1>4, <3>1 DEF Owed, InFlight
  <2> QED  BY <1>1, <1>4, <2>1, AccountsFrame DEF AccountsStay
<1> QED  BY <1>3, <1>4 DEF StopWorkers

\* A receipt that owes an entry is not ready.
LEMMA OwedNotReady ==
    ASSUME TypeOK, Tracks, Places, pc \in {"prefix", "lastPrefix"}, NEW i, NEW r \in Receipts, Owed(i, r)
    PROVE  ~CommitReady(rcpt[r])
<1>1. job = None
  BY DEF Places, JobAt
<1>2. CASE InQueue(i, r) \/ InFlight(i, r)
  BY <1>2, TrackedPending DEF InQueue, InFlight, Flies, CommitReady
<1> QED  BY <1>1, <1>2 DEF Owed, CommitReady

\* A commit covers entries of ready receipts only.
LEMMA CommitAccounts ==
    ASSUME TypeOK, TypeOK', Tracks, Places, Places', Accounts, CommitPrefix
    PROVE  Accounts'
<1>1. /\ pc \in {"prefix", "lastPrefix"} /\ (pc \in Last => pc' \in Last)
      /\ UNCHANGED <<eof, skip, parsed, reading, batch, rebuild, prefix, clamp, clampDone, rcpt, job, queue,
                     flight, delivered, skipped>>
  BY DEF CommitPrefix, envVars, workVars, historyVars, Last
<1>2. CASE UNCHANGED <<disk, watermark, dirty, toolFence, order>>
  BY <1>1, <1>2, SameAccounts
<1>3. CASE \E n \in 0..Len(order) : Commits(n)
  <2>1. PICK n \in 0..Len(order) : Commits(n)
    BY <1>3
  <2>2. order' = SubSeq(order, n + 1, Len(order)) /\ skip = None
        /\ \A k \in 1..n : CommitReady(rcpt[order[k]])
    BY <2>1 DEF Commits
  <2>3. /\ Len(order') = Len(order) - n /\ Len(order) \in Nat /\ n \in Nat
        /\ \A k \in 1..Len(order') : /\ k + n \in 1..Len(order) /\ Cp(k)' = Cp(k + n)
                                     /\ order'[k] = order[k + n]
    BY <1>1, <2>2, RestOfList
  <2>4. watermark \in Int /\ watermark' \in Int /\ \A k \in 1..Len(order) : Cp(k) \in Int
    BY OrderedTypes DEF TypeOK, StateTypes, Offsets
  <2>5. /\ n > 0 => watermark' = Cp(n) /\ watermark < Cp(n) /\ n \in 1..Len(order) /\ Cp(n) <= ParsePos
        /\ n = 0 => watermark' = watermark /\ disk' = disk
        /\ disk'.watermark \in {disk.watermark, watermark'}
        /\ watermark <= watermark'
    <3>1. CASE n = 0
      BY <2>1, <2>4, <3>1 DEF Commits
    <3>2. CASE n > 0
      <4>1. n \in 1..Len(order) /\ watermark' = Cp(n)
        BY <2>1, <2>3, <3>2 DEF Commits
      <4>2. Saved(TRUE, Cp(n), skip)
        BY <2>1, <3>2 DEF Commits
      <4>3. disk' = [watermark |-> Cp(n), skip |-> skip] \/ disk' = disk
        BY <4>2, SavedMoves
      <4>4. watermark < Cp(n) /\ Cp(n) <= ParsePos
        BY <4>1 DEF Places, Queued
      <4>5. disk'.watermark \in {disk.watermark, watermark'}
        BY <4>1, <4>3
      <4> QED  BY <2>4, <3>2, <4>1, <4>4, <4>5
    <3> QED  BY <2>3, <3>1, <3>2
  <2>14. watermark <= watermark' /\ ParsePos \in Int /\ watermark \in Int /\ watermark' \in Int
    BY <2>4, <2>5, ParsePosType DEF TypeOK, Offsets
  <2>15. \A i, m : m \in Int /\ i \in (watermark' + 1)..m => i \in (watermark + 1)..m
    <3> DEFINE w == watermark'
    <3>1. watermark <= w /\ watermark \in Int /\ w \in Int
      BY <2>14
    <3> HIDE DEF w
    <3>2. \A i, m : m \in Int /\ i \in (w + 1)..m => i \in (watermark + 1)..m
      BY <3>1
    <3> QED  BY <3>2 DEF w
  <2>6. ParsePos \in Int /\ ParsePos' = ParsePos
    <3> SUFFICES ParsePos' = ParsePos
      BY <2>14
    <3>1. CASE parsed >= 0
      BY <1>1, <3>1 DEF ParsePos
    <3>2. CASE ~(parsed >= 0)
      <4>1. ParsePos = watermark /\ ParsePos' = watermark'
        BY <1>1, <3>2 DEF ParsePos
      <4> QED  BY <2>3, <2>4, <2>5, <4>1
    <3> QED  BY <3>1, <3>2
  <2>7. ASSUME NEW i \in (watermark + 1)..ParsePos, NEW k \in 1..Len(order),
               i <= Cp(k), \A j \in 1..(k - 1) : Cp(j) < i, Owed(i, order[k])
        PROVE  n < k /\ watermark' < i
    <3>1. k \notin 1..n
      <4>1. ~CommitReady(rcpt[order[k]])
        BY <1>1, <2>7, OwedNotReady, OrderedTypes
      <4> QED  BY <2>2, <4>1
    <3>2. n < k
      BY <2>3, <3>1
    <3>3. n > 0 => n \in 1..(k - 1)
      BY <2>3, <3>2
    <3>4. n > 0 => Cp(n) < i
      BY <2>7, <3>3
    <3>5. watermark < i
      BY <2>4, <2>6
    <3> QED  BY <2>3, <2>5, <3>2, <3>4, <3>5
  <2>8. ASSUME NEW i \in (watermark + 1)..ParsePos
        PROVE  i \in Handled \/ (batch # None /\ batch.from < i /\ watermark' < i)
               \/ (Held(i)' /\ watermark' < i)
    <3>1. i \in Handled \/ (batch # None /\ batch.from < i) \/ Held(i)
      BY <2>2 DEF Accounts, Accounted
    <3>2. CASE batch # None /\ batch.from < i
      <4>1. watermark <= batch.from /\ \A k \in 1..Len(order) : Cp(k) <= batch.from
        BY <3>2 DEF Places, BatchAt
      <4>2. batch.from \in Int
        BY <3>2 DEF TypeOK, ReaderTypes, Offsets
      <4>3. watermark' <= batch.from
        BY <2>3, <2>5, <4>1
      <4> QED  BY <2>4, <2>6, <3>2, <4>2, <4>3
    <3>3. CASE Held(i)
      <4>1. PICK k \in 1..Len(order) : /\ i <= Cp(k)
                                       /\ \A j \in 1..(k - 1) : Cp(j) < i
                                       /\ Owed(i, order[k])
        BY <3>3 DEF Held
      <4>2. n < k /\ watermark' < i
        BY <2>7, <4>1
      <4>3. PICK p \in 1..Len(order') : p + n = k
        <5>1. k - n \in 1..Len(order') /\ (k - n) + n = k
          BY <2>3, <4>2
        <5> QED  BY <5>1
      <4>4. PICK x : x = order[k]
        OBVIOUS
      <4>5. Cp(p)' = Cp(k) /\ order'[p] = x
        BY <2>3, <4>3, <4>4
      <4>6. \A j \in 1..(p - 1) : Cp(j)' < i
        <5> SUFFICES ASSUME NEW j \in 1..(p - 1) PROVE Cp(j)' < i
          OBVIOUS
        <5>1. j \in 1..Len(order') /\ j + n \in 1..(k - 1)
          BY <2>3, <4>3
        <5>2. Cp(j)' = Cp(j + n)
          BY <2>3, <5>1
        <5> QED  BY <4>1, <5>1, <5>2
      <4>7. InQueue(i, x)' = InQueue(i, x) /\ InFlight(i, x)' = InFlight(i, x)
        BY <1>1 DEF InQueue, InFlight
      <4>8. Owed(i, x)'
        BY <1>1, <4>1, <4>4, <4>7 DEF Owed
      <4>9. Held(i)'
        BY <4>1, <4>5, <4>6, <4>8 DEF Held
      <4> QED  BY <4>2, <4>9
    <3> QED  BY <3>1, <3>2, <3>3
  <2>9. Accounted'
    <3> SUFFICES ASSUME NEW i \in (watermark' + 1)..ParsePos
                 PROVE  i \in Handled \/ (batch # None /\ batch.from < i) \/ Held(i)'
      BY <1>1, <2>6 DEF Accounted, Handled
    <3>1. i \in (watermark + 1)..ParsePos
      BY <2>14, <2>15
    <3> QED  BY <2>8, <3>1
  <2>10. Covered(watermark)'
    <3> SUFFICES ASSUME NEW i \in 1..watermark' PROVE i \in Handled
      BY <1>1 DEF Covered, Handled
    <3>1. CASE i <= watermark
      BY <2>4, <3>1 DEF Accounts, Covered
    <3>2. CASE watermark < i
      <4>1. i \in (watermark + 1)..ParsePos /\ ~(watermark' < i)
        BY <2>3, <2>4, <2>5, <2>6, <3>2
      <4> QED  BY <2>8, <4>1
    <3> QED  BY <2>4, <3>1, <3>2
  <2>11. Covered(disk.watermark)'
    <3>1. CASE disk'.watermark = disk.watermark
      BY <1>1, <3>1 DEF Accounts, Covered, Handled
    <3>2. CASE disk'.watermark = watermark'
      BY <2>10, <3>2 DEF Covered
    <3> QED  BY <2>5, <3>1, <3>2
  <2>12. Clamped'
    <3>1. clamp \in Int
      BY DEF TypeOK, ReaderTypes, Offsets
    <3>2. \A i \in (watermark' + 1)..clamp : i \in (watermark + 1)..clamp
      BY <2>15, <3>1
    <3> QED  BY <1>1, <3>2 DEF Accounts, Clamped
  <2>13. FreshOK'
    <3> SUFFICES ASSUME Fresh PROVE order' = <<>> /\ batch = None /\ (watermark' + 1)..ParsePos \subseteq skipped
      BY <1>1, <2>6 DEF FreshOK, Fresh
    <3>1. order = <<>> /\ batch = None /\ (watermark + 1)..ParsePos \subseteq skipped
      BY DEF Accounts, FreshOK
    <3>2. n = 0 /\ Len(order') = 0
      BY <2>3, <3>1
    <3>3. order' = <<>>
      BY <3>2 DEF TypeOK, ReceiptTypes
    <3> QED  BY <2>5, <3>1, <3>2, <3>3
  <2> QED  BY <2>9, <2>10, <2>11, <2>12, <2>13 DEF Accounts
<1> QED  BY <1>2, <1>3, CommitMoves DEF Places

LEMMA RestartAccounts ==
    ASSUME TypeOK, TypeOK', Places, Accounts, Restart
    PROVE  Accounts'
<1>1. /\ watermark' = disk.watermark /\ parsed' = -1 /\ batch' = None /\ clamp' = 0 /\ order' = <<>>
      /\ UNCHANGED <<disk, delivered, skipped>>
  BY DEF Restart, historyVars
<1>2. ParsePos' = disk.watermark /\ disk.watermark \in Int /\ disk.watermark >= 0
  BY <1>1 DEF ParsePos, TypeOK, StateTypes, Offsets
<1>3. (watermark' + 1)..ParsePos' \subseteq skipped' /\ Clamped'
  <2>1. (disk.watermark + 1)..disk.watermark = {} /\ (disk.watermark + 1)..0 = {}
    BY <1>2
  <2> QED  BY <1>1, <1>2, <2>1 DEF Clamped
<1>4. Covered(watermark)' /\ Covered(disk.watermark)'
  BY <1>1 DEF Accounts, Covered, Handled
<1> QED  BY <1>1, <1>3, <1>4, AccountsEmpty

LEMMA AccountsInit == Init => Accounts
<1> SUFFICES ASSUME Init PROVE Accounts
  OBVIOUS
<1>1. ParsePos = 0 /\ watermark = 0 /\ clamp = 0 /\ disk.watermark = 0 /\ order = <<>> /\ batch = None
  BY DEF Init, ParsePos
<1>2. (0 + 1)..0 = {} /\ 1..0 = {}
  OBVIOUS
<1> QED  BY <1>1, <1>2 DEF Accounts, FreshOK, Clamped, Covered, Accounted

\* Every step but a read that fails after it moved the parse position keeps
\* account of every entry.
LEMMA AccountsStep ==
    ASSUME "lateRead" \notin Faults, TypeOK, TypeOK', Tracks, Singles(queue), Places, Places', Accounts,
           [Next]_vars
    PROVE  Accounts'
<1>1. CASE MonitorStep
  <2>1. ~ReadFailsLate
    BY DEF ReadFailsLate
  <2> QED  BY <1>1, <2>1, SkipAccounts, BeginAccounts, ReadEndAccounts, GrowthAccounts,
              RebuildFailsAccounts, ReadFailsAccounts, RegisterAccounts, RouteAccounts,
              DispatchEndsAccounts, CommitAccounts DEF MonitorStep
<1>2. CASE Lifetime
  BY <1>2, StopMonitorAccounts, StopWorkersAccounts, RestartAccounts DEF Lifetime
<1> QED  BY <1>1, <1>2, QuietAccounts DEF Next

\* While no read fails after it moved the parse position, every entry up to the
\* persisted watermark was sent, dropped on purpose or given up.
THEOREM NothingLost ==
    ASSUME "lateRead" \notin Faults
    PROVE  Spec => []DurableCovered
<1>1. Accounts /\ TypeOK => DurableCovered
  <2> SUFFICES ASSUME Accounts, TypeOK, NEW i \in Entries, i <= disk.watermark
               PROVE  i \in delivered \cup skipped
    BY DEF DurableCovered
  <2>1. i \in 1..disk.watermark
    BY DEF Entries, TypeOK, StateTypes, Offsets
  <2> QED  BY <2>1 DEF Accounts, Covered, Handled
<1> DEFINE IInv == TypeOK /\ Tracks /\ Singles(queue) /\ Places /\ Accounts
<1>2. Init => IInv
  BY InitTypes, TracksInit, PlacesInit, AccountsInit
<1>3. IInv /\ [Next]_vars => IInv'
  BY NextTypes, TracksStep, PlacesStep, AccountsStep
<1>4. IInv => DurableCovered
  BY <1>1
<1> QED  BY <1>2, <1>3, <1>4, PTL DEF Spec

-----------------------------------------------------------------------------
\* What is handled, queued or in flight is in the file.
Written ==
    /\ delivered \subseteq 1..eof
    /\ skipped \subseteq 1..eof
    /\ \A q \in 1..Len(queue) : queue[q].entries \subseteq 1..eof
    /\ flight # None => flight.task.entries \subseteq 1..eof

LEMMA FileGrows ==
    ASSUME TypeOK, [Next]_vars
    PROVE  /\ 1..eof \subseteq 1..eof' /\ eof \in Int /\ eof <= eof'
           /\ eof' # eof => AgentWrites /\ eof' = eof + 1
<1>1. eof \in Int
  BY DEF TypeOK, EnvTypes, Offsets
<1>2. UNCHANGED eof \/ (AgentWrites /\ eof' = eof + 1)
  BY DEF Next, vars, envVars, Environment, AgentWrites, Rebind, WindowChanges, BarrierAges, RequestSkip,
     MonitorStep, Wake, ResumeSkip, ExpireSkip, CommitSkips, ReadBegin, ReadEnd,
     GrowthTakenForReplacement, RebuildFails, ReadFails, ReadFailsLate, Register, RouteEntry,
     DispatchEnds, CommitPrefix, WorkerStep, TakeTask, DropStale, RefuseNotice, StartSend, SendEnds,
     FloodRetry, Lifetime, StopMonitor, StopWorkers, Restart
<1> QED  BY <1>1, <1>2

\* The entry routed next is in the file.
LEMMA NextWritten ==
    ASSUME TypeOK, Places, RouteEntry
    PROVE  job.next \in 1..eof
<1>1. pc = "dispatch" /\ job.next <= job.last
  BY DEF RouteEntry
<1>2. job.last = Cp(Len(order)) /\ Len(order) \in 1..Len(order) /\ watermark < job.next
      /\ job.next \in Int /\ job.last \in Int /\ watermark \in Int
  BY <1>1, Dispatching DEF Cp
<1>3. Cp(Len(order)) <= ParsePos /\ ParsePos <= eof
  BY <1>2 DEF Places, Queued, Bounded
<1>4. ParsePos \in Int /\ eof \in Int /\ watermark >= 0
  BY ParsePosType DEF TypeOK, EnvTypes, StateTypes, Offsets
<1> QED  BY <1>1, <1>2, <1>3, <1>4

\* The tasks queued after a step are tasks queued before it, and tasks that send
\* what is in the file.
QueueFrom(q, top) == \A k \in 1..Len(q) :
    q[k].entries \subseteq 1..top \/ \E i \in 1..Len(queue) : q[k] = queue[i]

LEMMA NoticeFrom ==
    ASSUME TypeOK, NEW q \in Seq(Task), NEW objects, NEW s, EnqueueNotice(q, objects, s),
           QueueFrom(q, eof)
    PROVE  QueueFrom(queue', eof)
<1>1. queue' = q \/ \E r : queue' = Append(q, Notice(s.snapshot, r))
  BY DEF EnqueueNotice
<1>2. CASE queue' = q
  BY <1>2 DEF QueueFrom
<1>3. CASE \E r : queue' = Append(q, Notice(s.snapshot, r))
  <2>1. PICK r : queue' = Append(q, Notice(s.snapshot, r))
    BY <1>3
  <2> DEFINE t == Notice(s.snapshot, r)
  <2>2. t.entries = {}
    BY DEF Notice
  <2>3. queue' = Append(q, t)
    BY <2>1
  <2> HIDE DEF t
  <2>4. Len(queue') = Len(q) + 1 /\ queue'[Len(q) + 1] = t /\ (\A k \in 1..Len(q) : queue'[k] = q[k])
        /\ Len(q) \in Nat
    BY <2>3
  <2> QED  BY <2>2, <2>4 DEF QueueFrom
<1> QED  BY <1>1, <1>2, <1>3

LEMMA PurgeFrom ==
    ASSUME TypeOK, Tracks, Singles(queue), NEW s \in Intent, NEW onDisk, PurgeThenNotice(s, onDisk)
    PROVE  QueueFrom(queue', eof)
<1> DEFINE slots == PurgedSlots(s.snapshot)
           purged == [s EXCEPT !.purged = TRUE]
<1>1. PICK q \in Retained((1..Len(queue)) \ slots) :
         EnqueueNotice(q, PurgeSettled(slots), purged) \/ queue' = q
  BY DEF PurgeThenNotice
<1>2. slots \in SUBSET (1..Len(queue))
  BY DEF PurgedSlots
<1> HIDE DEF slots, purged
<1>3. q \in Seq(Task) /\ \A k \in 1..Len(q) : \E i \in 1..Len(queue) : q[k] = queue[i]
  BY <1>2, PurgeWaits DEF TypeOK
<1>4. QueueFrom(q, eof)
  BY <1>3 DEF QueueFrom
<1> QED  BY <1>1, <1>3, <1>4, NoticeFrom DEF QueueFrom

LEMMA QueueWritten ==
    ASSUME TypeOK, Tracks, Singles(queue), Places, Written, [Next]_vars
    PROVE  (\A q \in 1..Len(queue) : queue[q].entries \subseteq 1..eof)'
<1> USE DEF stateVars, workVars, receiptVars, envVars
<1>0. /\ 1..eof \subseteq 1..eof' /\ queue \in Seq(Task) /\ Len(queue) \in Nat
  BY FileGrows DEF TypeOK, WorkTypes
<1>1. CASE QueueFrom(queue', eof)
  BY <1>0, <1>1 DEF QueueFrom, Written
<1>2. CASE UNCHANGED queue
  BY <1>0, <1>2 DEF Written
<1>3. CASE \E n \in 1..Len(queue) : queue' = SubSeq(queue, n + 1, Len(queue))
  <2>1. PICK n \in 1..Len(queue) : queue' = SubSeq(queue, n + 1, Len(queue))
    BY <1>3
  <2>2. \A k \in 1..Len(queue') : k + n \in 1..Len(queue) /\ queue'[k] = queue[k + n]
    BY <1>0, <2>1
  <2>3. QueueFrom(queue', eof)
    BY <2>2 DEF QueueFrom
  <2> QED  BY <1>1, <2>3
<1>4. CASE queue' = <<>>
  BY <1>4
<1>5. CASE RouteEntry
  <2>1. CASE queue' = Append(queue, Content(job.next, rcpt[job.receipt].checkpoint, job.receipt))
    <3>1. PICK t : t = Content(job.next, rcpt[job.receipt].checkpoint, job.receipt)
      OBVIOUS
    <3>2. t.entries = {job.next} /\ job.next \in 1..eof
      BY <1>5, <3>1, NextWritten DEF Content
    <3>3. Len(queue') = Len(queue) + 1 /\ queue'[Len(queue) + 1] = t
          /\ \A k \in 1..Len(queue) : queue'[k] = queue[k]
      BY <1>0, <2>1, <3>1
    <3>4. QueueFrom(queue', eof)
      BY <1>0, <3>2, <3>3 DEF QueueFrom
    <3> QED  BY <1>1, <3>4
  <2> QED  BY <1>2, <1>5, <2>1 DEF RouteEntry
<1>6. CASE RequestSkip
  <2> DEFINE intent == [snapshot |-> eof, purged |-> FALSE]
             onDisk == [watermark |-> watermark, skip |-> intent]
  <2>1. intent \in Intent
    BY DEF TypeOK, EnvTypes, Intent
  <2>2. PurgeThenNotice(intent, onDisk) \/ UNCHANGED queue
    BY <1>6 DEF RequestSkip
  <2> HIDE DEF intent, onDisk
  <2> QED  BY <1>1, <1>2, <2>1, <2>2, PurgeFrom
<1>7. CASE ResumeSkip
  <2>1. CASE skip # None /\ PurgeThenNotice(skip, disk)
    <3>1. skip \in Intent
      BY <2>1 DEF TypeOK, StateTypes
    <3> QED  BY <1>1, <2>1, <3>1, PurgeFrom
  <2>2. CASE EnqueueNotice(queue, rcpt, skip)
    <3>1. QueueFrom(queue, eof)
      BY DEF QueueFrom
    <3> QED  BY <1>0, <1>1, <2>2, <3>1, NoticeFrom
  <2> QED  BY <1>2, <1>7, <2>1, <2>2 DEF ResumeSkip
<1>8. CASE TakeTask
  <2>1. 1 \in 1..Len(queue) /\ queue' = SubSeq(queue, 1 + 1, Len(queue))
    BY <1>0, <1>8 DEF TakeTask
  <2> QED  BY <1>3, <2>1
<1>9. CASE StartSend
  BY <1>2, <1>3, <1>9 DEF StartSend
<1>10. CASE StopWorkers \/ Restart
  BY <1>4, <1>10 DEF StopWorkers, Restart
<1>11. CASE \/ Environment \/ Wake \/ ExpireSkip \/ CommitSkips \/ ReadBegin \/ ReadEnd
            \/ GrowthTakenForReplacement \/ RebuildFails \/ ReadFails \/ ReadFailsLate \/ Register
            \/ DispatchEnds \/ CommitPrefix \/ DropStale \/ RefuseNotice \/ SendEnds \/ FloodRetry
            \/ StopMonitor \/ UNCHANGED vars
  <2>1. UNCHANGED queue
    BY <1>11 DEF Environment, AgentWrites, Rebind, WindowChanges, BarrierAges, Wake, ExpireSkip,
       CommitSkips, ReadBegin, ReadEnd, GrowthTakenForReplacement, RebuildFails, ReadFails,
       ReadFailsLate, Register, DispatchEnds, CommitPrefix, DropStale, RefuseNotice, SendEnds,
       FloodRetry, StopMonitor, vars
  <2> QED  BY <1>2, <2>1
<1> QED
  BY <1>5, <1>6, <1>7, <1>8, <1>9, <1>10, <1>11 DEF Next, MonitorStep, WorkerStep, Lifetime

LEMMA FlightWritten ==
    ASSUME TypeOK, Written, [Next]_vars
    PROVE  (flight # None => flight.task.entries \subseteq 1..eof)'
<1> USE DEF stateVars, workVars, receiptVars, envVars
<1>0. /\ 1..eof \subseteq 1..eof' /\ queue \in Seq(Task) /\ Len(queue) \in Nat
      /\ flight # None => flight \in [task : Task, sending : BOOLEAN]
  BY FileGrows DEF TypeOK, WorkTypes
<1>1. CASE UNCHANGED flight \/ flight' = None
  BY <1>0, <1>1 DEF Written
<1>2. CASE TakeTask
  <2>1. flight' = [task |-> queue[1], sending |-> FALSE] /\ 1 \in 1..Len(queue)
    BY <1>0, <1>2 DEF TakeTask
  <2>2. flight'.task.entries \subseteq 1..eof
    BY <2>1 DEF Written
  <2> QED  BY <1>0, <2>2
<1>3. CASE StartSend \/ FloodRetry
  <2>0. flight # None /\ flight \in [task : Task, sending : BOOLEAN]
    BY <1>0, <1>3 DEF StartSend, FloodRetry
  <2>1. CASE \E b \in BOOLEAN : flight' = [flight EXCEPT !.sending = b]
    <3>1. flight'.task = flight.task
      BY <2>0, <2>1, NoneNotFlight
    <3> QED  BY <1>0, <2>0, <3>1 DEF Written
  <2>2. CASE \E n \in 1..Len(queue) : flight' = [task |-> Merged(flight.task, n), sending |-> TRUE]
    <3>1. PICK n \in 1..Len(queue) : flight' = [task |-> Merged(flight.task, n), sending |-> TRUE]
      BY <2>2
    <3>2. flight'.task = Merged(flight.task, n) /\ flight.task \in Task /\ \A q \in 1..n : q \in 1..Len(queue)
      BY <1>0, <2>0, <3>1
    <3>3. flight'.task.entries \subseteq 1..eof
      BY <2>0, <3>2, MergedEntries DEF Written
    <3> QED  BY <1>0, <3>3
  <2> QED  BY <1>3, <2>1, <2>2 DEF StartSend, FloodRetry
<1>4. UNCHANGED flight \/ flight' = None \/ TakeTask \/ StartSend \/ FloodRetry
  BY DEF Next, vars, Environment, AgentWrites, Rebind, WindowChanges, BarrierAges, RequestSkip,
     MonitorStep, Wake, ResumeSkip, ExpireSkip, CommitSkips, ReadBegin, ReadEnd,
     GrowthTakenForReplacement, RebuildFails, ReadFails, ReadFailsLate, Register, RouteEntry,
     DispatchEnds, CommitPrefix, WorkerStep, DropStale, RefuseNotice, SendEnds,
     Lifetime, StopMonitor, StopWorkers, Restart, SettleFlight
<1> QED  BY <1>1, <1>2, <1>3, <1>4

\* What a step adds to the history is in the file; the durable position moves
\* only beside an unchanged history, or with what a completed skip gives up.
HistoryStep ==
    /\ delivered \subseteq delivered' /\ delivered' \subseteq delivered \cup 1..eof
    /\ skipped \subseteq skipped' /\ skipped' \subseteq skipped \cup 1..eof
    /\ \/ disk'.watermark = disk.watermark
       \/ UNCHANGED <<delivered, skipped>>
       \/ \E w \in 0..eof : UNCHANGED delivered /\ skipped' = skipped \cup 1..w

LEMMA CompleteHistory ==
    ASSUME TypeOK, Places, skip # None, CompleteSkip, UNCHANGED delivered
    PROVE  HistoryStep
<1>1. skip.snapshot \in 0..eof
  <2>1. skip.snapshot \in Int /\ skip.snapshot >= 0 /\ eof \in Int
    BY DEF TypeOK, StateTypes, EnvTypes, Intent, Offsets
  <2> QED  BY <2>1 DEF Places, Bounded
<1>2. 1..skip.snapshot \subseteq 1..eof
  BY <1>1 DEF TypeOK, EnvTypes, Offsets
<1>3. skipped' = skipped \cup 1..skip.snapshot
  BY DEF CompleteSkip
<1> QED  BY <1>1, <1>2, <1>3 DEF HistoryStep

LEMMA HistoryMoves ==
    ASSUME TypeOK, Places, Written, [Next]_vars
    PROVE  HistoryStep
<1> USE DEF historyVars, stateVars
<1>0. UNCHANGED <<delivered, skipped>> => HistoryStep
  BY DEF HistoryStep
<1>1. UNCHANGED <<disk, skipped>> /\ delivered \subseteq delivered' /\ delivered' \subseteq delivered \cup 1..eof
      => HistoryStep
  BY DEF HistoryStep
<1>2. CASE \/ Environment \/ RequestSkip \/ Wake \/ ReadEnd \/ RebuildFails
           \/ ReadFails \/ ReadFailsLate \/ Register \/ DispatchEnds \/ CommitPrefix \/ TakeTask
           \/ StartSend \/ FloodRetry \/ StopMonitor \/ Restart \/ UNCHANGED vars
  <2>1. UNCHANGED <<delivered, skipped>>
    BY <1>2 DEF Environment, AgentWrites, Rebind, WindowChanges, BarrierAges, RequestSkip, Wake, ReadEnd,
       RebuildFails, ReadFails, ReadFailsLate, Register, DispatchEnds, CommitPrefix, TakeTask,
       StartSend, FloodRetry, StopMonitor, Restart, vars
  <2> QED  BY <1>0, <2>1
<1>3. CASE ReadBegin
  <2>1. UNCHANGED <<disk, delivered>> /\ (UNCHANGED skipped \/ skipped' = skipped \cup (ParsePos + 1)..eof)
    BY <1>3 DEF ReadBegin
  <2>2. (ParsePos + 1)..eof \subseteq 1..eof
    <3>1. ParsePos \in Int /\ ParsePos >= 0 /\ eof \in Int
      BY ParsePosType DEF TypeOK, EnvTypes, Offsets
    <3> QED  BY <3>1
  <2> QED  BY <2>1, <2>2 DEF HistoryStep
<1>4. CASE GrowthTakenForReplacement
  <2>1. PICK past \in (reading.seen + 1)..eof : skipped' = skipped \cup (reading.from + 1)..past
    BY <1>4 DEF GrowthTakenForReplacement
  <2>2. UNCHANGED <<disk, delivered>> /\ pc = "reading"
    BY <1>4 DEF GrowthTakenForReplacement
  <2>3. (reading.from + 1)..past \subseteq 1..eof
    <3>1. reading.from \in Int /\ reading.from >= 0 /\ reading.seen \in Int /\ eof \in Int
      BY <2>2, Reading
    <3> QED  BY <3>1
  <2> QED  BY <2>1, <2>2, <2>3 DEF HistoryStep
<1>5. CASE RouteEntry
  <2>1. UNCHANGED <<disk, skipped>> /\ (UNCHANGED delivered \/ delivered' = delivered \cup {job.next})
    BY <1>5 DEF RouteEntry
  <2> QED  BY <1>1, <1>5, <2>1, NextWritten
<1>6. CASE DropStale \/ RefuseNotice \/ SendEnds
  <2>1. UNCHANGED <<disk, skipped>> /\ flight # None /\ \E o : SettleFlight(o)
    BY <1>6 DEF DropStale, RefuseNotice, SendEnds
  <2>2. UNCHANGED delivered \/ delivered' = delivered \cup flight.task.entries
    BY <2>1 DEF SettleFlight
  <2> QED  BY <1>1, <2>1, <2>2 DEF Written
<1>7. CASE StopWorkers
  <2>1. UNCHANGED <<delivered, skipped>>
    BY <1>7 DEF StopWorkers, SettleFlight
  <2> QED  BY <1>0, <2>1
<1>8. CASE CancelPendingSkip /\ UNCHANGED delivered
  BY <1>0, <1>8 DEF CancelPendingSkip
<1>9. CASE skip # None /\ CompleteSkip /\ UNCHANGED delivered
  BY <1>9, CompleteHistory
<1>10. CASE ResumeSkip
  BY <1>0, <1>8, <1>10 DEF ResumeSkip
<1>11. CASE ExpireSkip
  BY <1>0, <1>8, <1>9, <1>11 DEF ExpireSkip, Expired
<1>12. CASE CommitSkips
  BY <1>0, <1>8, <1>9, <1>12 DEF CommitSkips
<1> QED
  BY <1>2, <1>3, <1>4, <1>5, <1>6, <1>7, <1>10, <1>11, <1>12
  DEF Next, MonitorStep, WorkerStep, Lifetime

LEMMA WrittenStep ==
    ASSUME TypeOK, Tracks, Singles(queue), Places, Written, [Next]_vars
    PROVE  Written'
<1>1. delivered' \subseteq 1..eof' /\ skipped' \subseteq 1..eof'
  BY HistoryMoves, FileGrows DEF HistoryStep, Written
<1> QED  BY <1>1, QueueWritten, FlightWritten DEF Written

LEMMA WrittenInit == Init => Written
BY DEF Init, Written

\* A running process never takes its watermark back.
LEMMA WatermarkRises ==
    ASSUME TypeOK, Places, [Next]_vars, ~Restart
    PROVE  watermark <= watermark'
<1> USE DEF stateVars
<1>0. watermark \in Int
  BY DEF TypeOK, StateTypes, Offsets
<1>1. CASE UNCHANGED watermark
  BY <1>0, <1>1
<1>2. CASE skip # None /\ CompleteSkip
  <2>1. skip.snapshot \in Int
    BY <1>2 DEF TypeOK, StateTypes, Intent, Offsets
  <2> QED  BY <1>0, <1>2, <2>1 DEF CompleteSkip
<1>3. CASE CommitPrefix
  <2>1. CASE \E n \in 0..Len(order) : Commits(n)
    <3>1. PICK n \in 0..Len(order) : Commits(n)
      BY <2>1
    <3>2. n = 0 \/ (n \in 1..Len(order) /\ n > 0)
      BY DEF TypeOK, ReceiptTypes
    <3>3. n > 0 => watermark' = Cp(n)
      BY <3>1 DEF Commits
    <3>4. n \in 1..Len(order) => watermark < Cp(n) /\ Cp(n) \in Int
      BY OrderedTypes DEF Places, Queued, Offsets
    <3>5. n = 0 => watermark' = watermark
      BY <3>1 DEF Commits
    <3> QED  BY <1>0, <3>2, <3>3, <3>4, <3>5
  <2> QED  BY <1>1, <1>3, <2>1, CommitMoves DEF Places
<1>4. CASE ExpireSkip
  BY <1>1, <1>2, <1>4 DEF ExpireSkip, Expired, CancelPendingSkip
<1>5. CASE CommitSkips
  BY <1>1, <1>2, <1>5 DEF CommitSkips, CancelPendingSkip
<1>6. CASE ResumeSkip
  BY <1>1, <1>6 DEF ResumeSkip, CancelPendingSkip
<1>7. CASE \/ Environment \/ RequestSkip \/ Wake \/ ReadBegin \/ ReadEnd
           \/ GrowthTakenForReplacement \/ RebuildFails \/ ReadFails \/ ReadFailsLate \/ Register
           \/ RouteEntry \/ DispatchEnds \/ WorkerStep \/ StopMonitor \/ StopWorkers \/ UNCHANGED vars
  BY <1>1, <1>7 DEF Environment, AgentWrites, Rebind, WindowChanges, BarrierAges, RequestSkip, Wake,
     ReadBegin, ReadEnd, GrowthTakenForReplacement, RebuildFails, ReadFails, ReadFailsLate, Register,
     RouteEntry, DispatchEnds, WorkerStep, TakeTask, DropStale, RefuseNotice, StartSend, SendEnds,
     FloodRetry, StopMonitor, StopWorkers, vars
<1> QED  BY <1>3, <1>4, <1>5, <1>6, <1>7 DEF Next, MonitorStep, Lifetime

\* The watermark falls only in a restart, which leaves the file alone.
LEMMA DurableMoves ==
    ASSUME TypeOK, TypeOK', Places, Places', [Next]_vars
    PROVE  disk'.watermark \in disk.watermark..eof'
<1>0. /\ disk.watermark \in Int /\ watermark \in Int /\ disk'.watermark \in Int /\ watermark' \in Int
      /\ eof' \in Int /\ ParsePos' \in Int
  <2>1. disk.watermark \in Int /\ watermark \in Int
    BY DEF TypeOK, StateTypes, Offsets
  <2>2. disk'.watermark \in Int /\ watermark' \in Int /\ eof' \in Int
    BY DEF TypeOK, StateTypes, EnvTypes, Offsets
  <2>3. parsed' \in Int
    BY DEF TypeOK, ReaderTypes, Offsets
  <2>4. ParsePos' \in Int
    BY <2>2, <2>3 DEF ParsePos
  <2> QED  BY <2>1, <2>2, <2>4
<1>1. /\ disk.watermark <= watermark /\ disk'.watermark <= watermark' /\ watermark' <= ParsePos'
      /\ ParsePos' <= eof'
  BY DEF Places, Bounded
<1>2. disk'.watermark <= eof'
  BY <1>0, <1>1
<1>3. disk'.watermark >= disk.watermark
  <2>1. CASE disk'.watermark \in {disk.watermark, watermark}
    BY <1>0, <1>1, <2>1
  <2>2. CASE disk'.watermark = watermark' /\ watermark <= watermark'
    BY <1>0, <1>1, <2>2
  <2>3. \/ disk'.watermark \in {disk.watermark, watermark}
        \/ disk'.watermark = watermark' /\ watermark' # watermark /\ ~Restart
    <3>1. CASE Restart
      <4>1. disk' = disk
        BY <3>1 DEF Restart
      <4> QED  BY <4>1
    <3>2. CASE ~Restart
      <4>1. \/ disk' = disk
            \/ disk' = [watermark |-> watermark', skip |-> skip']
            \/ disk'.watermark = watermark
        <5>1. UNCHANGED <<disk, watermark, skip>> => disk' = disk
          OBVIOUS
        <5> QED  BY <5>1, StateMoves
      <4>2. CASE disk' = [watermark |-> watermark', skip |-> skip']
        <5>1. disk'.watermark = watermark'
          BY <4>2
        <5>2. watermark' = watermark \/ watermark' # watermark
          OBVIOUS
        <5> QED  BY <3>2, <5>1, <5>2
      <4> QED  BY <4>1, <4>2
    <3> QED  BY <3>1, <3>2
  <2>4. watermark' # watermark /\ ~Restart => watermark <= watermark'
    BY <1>0, WatermarkRises
  <2> QED  BY <2>1, <2>2, <2>3, <2>4
<1> QED  BY <1>0, <1>2, <1>3

\* Each step of Delivery is a step of the promise, or leaves it alone.
LEMMA PromiseStep ==
    ASSUME TypeOK, TypeOK', Places, Places', Written, Accounts', [Next]_vars
    PROVE  [Promise!Next]_(Promise!vars)
<1> USE DEF Promise!vars
<1>1. CASE eof' # eof
  <2>1. AgentWrites
    BY <1>1, FileGrows
  <2> QED  BY <2>1 DEF AgentWrites, stateVars, historyVars, Promise!Next, Promise!Write
<1>2. CASE eof' = eof
  <2>1. HistoryStep /\ disk'.watermark \in disk.watermark..eof
    BY <1>2, HistoryMoves, DurableMoves
  <2>2. 1..disk'.watermark \subseteq delivered' \cup skipped'
    BY DEF Accounts, Covered, Handled
  <2>3. CASE disk'.watermark = disk.watermark
    <3> DEFINE S == (delivered' \ delivered) \cup (skipped' \ skipped)
    <3>1. S \in SUBSET (1..eof) /\ (delivered \cup skipped)' = (delivered \cup skipped) \cup S
      BY <2>1 DEF HistoryStep
    <3>2. Promise!Handle
      BY <1>2, <2>3, <3>1 DEF Promise!Handle
    <3> QED  BY <3>2 DEF Promise!Next
  <2>4. CASE UNCHANGED <<delivered, skipped>>
    <3>1. Promise!Advance
      BY <1>2, <2>1, <2>2, <2>4 DEF Promise!Advance
    <3> QED  BY <3>1 DEF Promise!Next
  <2>5. CASE \E w \in 0..eof : UNCHANGED delivered /\ skipped' = skipped \cup 1..w
    <3>1. PICK w \in 0..eof : UNCHANGED delivered /\ skipped' = skipped \cup 1..w
      BY <2>5
    <3>2. (delivered \cup skipped)' = (delivered \cup skipped) \cup 1..w
      BY <3>1
    <3>3. Promise!Forfeit
      BY <1>2, <2>1, <2>2, <3>2 DEF Promise!Forfeit
    <3> QED  BY <3>3 DEF Promise!Next
  <2> QED  BY <2>1, <2>3, <2>4, <2>5 DEF HistoryStep
<1> QED  BY <1>1, <1>2

\* While no read fails after it moved the parse position, delivery implements its
\* promise: the persisted watermark moves forward only, over entries handled.
THEOREM KeepsPromise ==
    ASSUME "lateRead" \notin Faults
    PROVE  Spec => DeliversAtLeastOnce
<1> DEFINE IInv == TypeOK /\ Tracks /\ Singles(queue) /\ Places /\ Accounts /\ Written
<1>1. Init => IInv
  BY InitTypes, TracksInit, PlacesInit, AccountsInit, WrittenInit
<1>2. IInv /\ [Next]_vars => IInv'
  BY NextTypes, TracksStep, PlacesStep, AccountsStep, WrittenStep
<1>3. Init => Promise!Init
  BY DEF Init, Promise!Init
<1>4. IInv /\ IInv' /\ [Next]_vars => [Promise!Next]_(Promise!vars)
  BY PromiseStep
<1> QED  BY <1>1, <1>2, <1>3, <1>4, PTL DEF Spec, DeliversAtLeastOnce, Promise!Spec

-----------------------------------------------------------------------------
\* No call has two results: _pending_tools is keyed by the id of the tool use, which
\* one tool result answers.
OneResult == \A i, j \in Entries : Closes[i] # 0 /\ Closes[i] = Closes[j] => i = j

\* Position w falls between entry i and the call it is the result of.
Parts(w, i) == Closes[i] # 0 /\ Closes[i] <= w /\ w < i

\* Nowhere does w part a pair, but for calls given up.
PairsAt(w, gone) == \A i \in Entries : Parts(w, i) => Closes[i] \in gone

\* The call of entry i is not behind the watermark yet and was not given up.
Asks(i) == watermark < Closes[i] /\ Closes[i] \notin skipped

\* A call whose result was not parsed is open.
Opened == \A i \in Entries : Asks(i) /\ Parts(ParsePos, i) => Closes[i] \in openCalls

\* A fence starts at what was parsed, and is not released while a call is open.
FenceAt ==
    /\ toolFence # None => toolFence.call <= ParsePos
    /\ rebuild \/ ~clampDone => toolFence = None /\ openCalls = {}
    /\ openCalls # {} => toolFence # None /\ toolFence.release = NoCheckpoint

\* The fence starts at the receipt of the first open call, or before it.
OpenFence == \A c \in openCalls : \A k \in 1..Len(order) : c <= Cp(k) => toolFence.call <= Cp(k)

\* What keeps the watermark from stopping at receipt k, before entry i: the fence, or
\* that the receipts behind k up to that of i are ready and commit with it.
ReadyThrough(k, i) == \E l \in (k + 1)..Len(order) :
    /\ i <= Cp(l)
    /\ \A m \in (k + 1)..l : CommitReady(rcpt[order[m]])
ByFence(k, i) ==
    /\ toolFence # None
    /\ toolFence.call <= Cp(k)
    /\ toolFence.release = NoCheckpoint \/ i <= toolFence.release
Guarded(k, i) == ByFence(k, i) \/ ReadyThrough(k, i)

Fenced == skip = None => \A i \in Entries : \A k \in 1..Len(order) :
    Asks(i) /\ Parts(Cp(k), i) /\ i <= ParsePos => Guarded(k, i)

Pairs ==
    /\ PairsAt(watermark, skipped) /\ PairsAt(disk.watermark, skipped)
    /\ Opened /\ FenceAt /\ OpenFence /\ Fenced

\* What is ready stays ready.
KeepsReady == \A k \in 1..Len(order) :
    CommitReady(rcpt[order[k]]) => CommitReady(rcpt'[order[k]])

\* The receipts of the list keep their checkpoints.
SameCheckpoints == \A k \in 1..Len(order) :
    rcpt'[order[k]].checkpoint = rcpt[order[k]].checkpoint

LEMMA PairNumbers ==
    ASSUME TypeOK
    PROVE  /\ watermark \in Int /\ ParsePos \in Int /\ disk.watermark \in Int /\ eof \in Int
           /\ \A i \in Entries : /\ i \in Int /\ Closes[i] \in Int /\ Closes[i] < i
                                 /\ Closes[i] # 0 => Closes[i] \in Calls
           /\ toolFence # None => toolFence.call \in Int /\ toolFence.release \in Int
           /\ \A k \in 1..Len(order) : k \in Int /\ Cp(k) \in Int
<1>1. watermark \in Int /\ disk.watermark \in Int /\ eof \in Int /\ ParsePos \in Int
  BY ParsePosType DEF TypeOK, StateTypes, EnvTypes, Offsets
<1>2. \A i \in Entries : /\ i \in Int /\ Closes[i] \in Int /\ Closes[i] < i
                         /\ Closes[i] # 0 => Closes[i] \in Calls
  BY DeliveryAssumption DEF Entries, Offsets, Calls
<1>3. toolFence # None => toolFence.call \in Int /\ toolFence.release \in Int
  BY DEF TypeOK, ReaderTypes, Offsets, NoCheckpoint
<1>4. \A k \in 1..Len(order) : k \in Int /\ Cp(k) \in Int
  BY OrderedTypes DEF Offsets
<1> QED  BY <1>1, <1>2, <1>3, <1>4

\* More given up parts no more pairs.
LEMMA PairsMore ==
    ASSUME NEW w, NEW S, NEW T, PairsAt(w, S), S \subseteq T
    PROVE  PairsAt(w, T)
BY DEF PairsAt

\* A step that leaves the list, the positions and the fence alone.
LEMMA PairsFrame ==
    ASSUME TypeOK, Pairs, SameCheckpoints,
           UNCHANGED <<watermark, parsed, openCalls, toolFence, order>>,
           rebuild' \/ ~clampDone' => rebuild \/ ~clampDone,
           skipped \subseteq skipped', disk'.watermark \in {disk.watermark, watermark},
           skip' = None => skip = None /\ KeepsReady
    PROVE  Pairs'
<1>1. ParsePos' = ParsePos
  BY DEF ParsePos
<1>2. \A k \in 1..Len(order) : Cp(k)' = Cp(k)
  BY DEF Cp, SameCheckpoints
<1>3. \A i : Asks(i)' => Asks(i)
  BY DEF Asks
<1>4. PairsAt(watermark', skipped')
  BY PairsMore DEF Pairs
<1>5. PairsAt(disk'.watermark, skipped')
  BY PairsMore DEF Pairs
<1>6. Opened'
  BY <1>1, <1>3 DEF Pairs, Opened, Parts
<1>7. FenceAt'
  BY <1>1 DEF Pairs, FenceAt
<1>8. OpenFence'
  BY <1>2 DEF Pairs, OpenFence
<1>9. Fenced'
  <2> SUFFICES ASSUME skip' = None, NEW i \in Entries, NEW k \in 1..Len(order),
                      Asks(i), Closes[i] # 0, Closes[i] <= Cp(k), Cp(k) < i, i <= ParsePos
               PROVE  Guarded(k, i)'
    BY <1>1, <1>2, <1>3 DEF Fenced, Parts
  <2>1. Guarded(k, i)
    BY DEF Pairs, Fenced, Parts
  <2>2. CASE ByFence(k, i)
    <3>1. ByFence(k, i)'
      BY <1>2, <2>2 DEF ByFence
    <3> QED  BY <3>1 DEF Guarded
  <2>3. CASE ReadyThrough(k, i)
    <3>1. PICK l \in (k + 1)..Len(order) : i <= Cp(l) /\ \A m \in (k + 1)..l : CommitReady(rcpt[order[m]])
      BY <2>3 DEF ReadyThrough
    <3>2. k \in Nat /\ l \in 1..Len(order) /\ \A m \in (k + 1)..l : m \in 1..Len(order)
      BY DEF TypeOK, ReceiptTypes
    <3>3. \A m \in (k + 1)..l : CommitReady(rcpt'[order[m]])
      BY <3>1, <3>2 DEF KeepsReady
    <3>4. i <= Cp(l)'
      BY <1>2, <3>1, <3>2
    <3>5. ReadyThrough(k, i)'
      BY <3>3, <3>4 DEF ReadyThrough
    <3> QED  BY <3>5 DEF Guarded
  <2> QED  BY <2>1, <2>2, <2>3 DEF Guarded
<1> QED  BY <1>4, <1>5, <1>6, <1>7, <1>8, <1>9 DEF Pairs

\* Nothing outstanding, and what was parsed past the watermark given up.
LEMMA PairsFresh ==
    ASSUME TypeOK', Accounts', Fresh', PairsAt(watermark', skipped'), PairsAt(disk'.watermark, skipped'),
           FenceAt'
    PROVE  Pairs'
<1>1. order' = <<>> /\ (watermark' + 1)..ParsePos' \subseteq skipped'
  BY DEF Accounts, FreshOK
<1>2. 1..Len(order') = {}
  BY <1>1
<1>3. OpenFence' /\ Fenced'
  BY <1>2 DEF OpenFence, Fenced
<1>4. Opened'
  <2> SUFFICES ASSUME NEW i \in Entries, Asks(i)', Parts(ParsePos', i) PROVE FALSE
    BY DEF Opened
  <2>1. watermark' \in Int /\ Closes[i] \in Int /\ ParsePos' \in Int
    <3>1. watermark' \in Int
      BY DEF TypeOK, StateTypes, Offsets
    <3>2. parsed' \in Int
      BY DEF TypeOK, ReaderTypes, Offsets
    <3> QED  BY <3>1, <3>2, DeliveryAssumption DEF ParsePos, Offsets
  <2>2. watermark' < Closes[i] /\ Closes[i] <= ParsePos' /\ Closes[i] \notin skipped'
    BY DEF Asks, Parts
  <2>3. Closes[i] \in (watermark' + 1)..ParsePos'
    BY <2>1, <2>2
  <2> QED  BY <1>1, <2>2, <2>3
<1> QED  BY <1>3, <1>4 DEF Pairs

LEMMA SameReady == UNCHANGED rcpt => KeepsReady /\ SameList /\ SameCheckpoints
BY DEF KeepsReady, SameList, SameCheckpoints

\* A receipt that is ready waits for no task, so settling a task leaves it alone.
LEMMA SettleReady ==
    ASSUME TypeOK, Tracks, flight # None, NEW outcome, SettleFlight(outcome)
    PROVE  KeepsReady
<1> SUFFICES ASSUME NEW k \in 1..Len(order), CommitReady(rcpt[order[k]])
             PROVE  CommitReady(rcpt'[order[k]])
  BY DEF KeepsReady
<1>1. PICK r \in Receipts : r = order[k]
  BY OrderedTypes
<1>2. rcpt[r].pending = 0
  BY <1>1 DEF CommitReady
<1>3. ~Flies(flight, r)
  BY <1>2, TrackedPending
<1>4. rcpt'[r] = rcpt[r]
  BY <1>3 DEF SettleFlight, SettlementReceipts, Flies
<1> QED  BY <1>1, <1>4

\* Nothing but a barrier that appears, or receipts that were not ready.
LEMMA PairsStay ==
    ASSUME TypeOK, Pairs, SameList, UNCHANGED <<watermark, readerVars, order>>,
           skipped \subseteq skipped', disk'.watermark \in {disk.watermark, watermark},
           skip' = None => skip = None /\ KeepsReady
    PROVE  Pairs'
<1>1. /\ UNCHANGED <<watermark, parsed, openCalls, toolFence, order>>
      /\ rebuild' \/ ~clampDone' => rebuild \/ ~clampDone
  BY DEF readerVars
<1>2. SameCheckpoints
  BY DEF SameList, SameCheckpoints
<1> QED  BY <1>1, <1>2, PairsFrame

LEMMA PurgePairs ==
    ASSUME TypeOK, Pairs, NEW s \in Intent, NEW onDisk, PurgeThenNotice(s, onDisk),
           onDisk.watermark \in {disk.watermark, watermark},
           UNCHANGED <<watermark, readerVars, order, skipped>>
    PROVE  Pairs'
<1> DEFINE purged == [s EXCEPT !.purged = TRUE]
<1>1. \/ disk' = [watermark |-> watermark, skip |-> purged] /\ skip' = purged
      \/ disk' = onDisk /\ skip' = s
  BY DEF PurgeThenNotice
<1>2. purged \in Intent /\ s \in Intent
  BY DEF Intent
<1>3. None \notin Intent
  BY DeliveryAssumption
<1> HIDE DEF purged
<1>4. skip' # None /\ disk'.watermark \in {disk.watermark, watermark}
  BY <1>1, <1>2, <1>3
<1> QED  BY <1>4, PurgeList, PairsStay

LEMMA QuietPairs ==
    ASSUME TypeOK, Tracks, Pairs, Environment \/ RequestSkip \/ WorkerStep \/ UNCHANGED vars
    PROVE  Pairs'
<1> USE DEF stateVars, workVars, receiptVars, envVars, historyVars
<1>1. CASE Environment \/ UNCHANGED vars
  <2>1. UNCHANGED <<watermark, readerVars, order, rcpt, skipped, disk, skip>>
    BY <1>1 DEF Environment, AgentWrites, Rebind, WindowChanges, BarrierAges, vars
  <2> QED  BY <2>1, SameReady, PairsStay
<1>2. CASE WorkerStep
  <2>1. UNCHANGED <<watermark, readerVars, order, disk, skip, skipped>>
    BY <1>2 DEF WorkerStep, TakeTask, DropStale, RefuseNotice, StartSend, SendEnds, FloodRetry
  <2>2. UNCHANGED rcpt \/ (flight # None /\ \E o : SettleFlight(o))
    BY <1>2 DEF WorkerStep, TakeTask, DropStale, RefuseNotice, StartSend, SendEnds, FloodRetry
  <2>3. KeepsReady /\ SameList
    BY <2>1, <2>2, SameReady, SettleReady, SettleList
  <2> QED  BY <2>1, <2>3, PairsStay
<1>3. CASE RequestSkip
  <2> DEFINE intent == [snapshot |-> eof, purged |-> FALSE]
             onDisk == [watermark |-> watermark, skip |-> intent]
  <2>1. UNCHANGED <<watermark, readerVars, order, skipped>>
    BY <1>3 DEF RequestSkip
  <2>2. CASE Saved(TRUE, watermark, None) /\ UNCHANGED <<skip, rcpt>>
    <3>1. disk' = [watermark |-> watermark, skip |-> None] \/ disk' = disk
      BY <2>2, SavedMoves
    <3>2. disk'.watermark \in {disk.watermark, watermark}
      BY <3>1
    <3> QED  BY <2>1, <2>2, <3>2, SameReady, PairsStay
  <2>3. CASE PurgeThenNotice(intent, onDisk)
    <3>1. intent \in Intent /\ onDisk.watermark \in {disk.watermark, watermark}
      BY DEF TypeOK, EnvTypes, Intent
    <3> HIDE DEF intent, onDisk
    <3> QED  BY <2>1, <2>3, <3>1, PurgePairs
  <2> QED  BY <1>3, <2>2, <2>3 DEF RequestSkip
<1> QED  BY <1>1, <1>2, <1>3

\* A replay from w: nothing is outstanding, no call is open.
LEMMA ReplayPairs ==
    ASSUME TypeOK', Accounts', NEW w, Replay(w), PairsAt(watermark', skipped'),
           PairsAt(disk'.watermark, skipped')
    PROVE  Pairs'
<1>1. rebuild' = TRUE /\ openCalls' = {} /\ toolFence' = None
  BY DEF Replay
<1>2. Fresh' /\ FenceAt'
  BY <1>1 DEF Fresh, FenceAt
<1> QED  BY <1>2, PairsFresh

LEMMA CancelPairs ==
    ASSUME TypeOK, TypeOK', Accounts', Pairs, CancelPendingSkip
    PROVE  Pairs'
<1>1. /\ Replay(watermark) /\ watermark' = watermark /\ UNCHANGED skipped
      /\ Saved(dirty \/ skip # None, watermark, None)
  BY DEF CancelPendingSkip
<1>2. disk' = [watermark |-> watermark, skip |-> None] \/ disk' = disk
  <2>1. (dirty \/ skip # None) \in BOOLEAN
    BY DEF TypeOK, StateTypes
  <2> QED  BY <1>1, <2>1, SavedMoves
<1>3. disk'.watermark \in {disk.watermark, watermark}
  BY <1>2
<1> QED  BY <1>1, <1>3, ReplayPairs DEF Pairs

LEMMA CompletePairs ==
    ASSUME TypeOK, TypeOK', Accounts', Pairs, skip # None, CompleteSkip
    PROVE  Pairs'
<1> DEFINE w == IF skip.snapshot > watermark THEN skip.snapshot ELSE watermark
<1>1. /\ Replay(w) /\ watermark' = w /\ Saved(TRUE, w, None)
      /\ skipped' = skipped \cup 1..skip.snapshot
  BY DEF CompleteSkip
<1>2. watermark \in Int /\ skip.snapshot \in Int
  BY DEF TypeOK, StateTypes, Intent, Offsets
<1>3. PairsAt(w, skipped')
  <2>1. CASE w = watermark
    <3>1. PairsAt(w, skipped)
      BY <2>1 DEF Pairs
    <3> QED  BY <1>1, <3>1, PairsMore
  <2>2. CASE w = skip.snapshot
    <3> SUFFICES ASSUME NEW i \in Entries, Closes[i] # 0, Closes[i] <= skip.snapshot
                 PROVE  Closes[i] \in skipped'
      BY <2>2 DEF PairsAt, Parts
    <3>1. Closes[i] \in Int /\ Closes[i] >= 1
      BY DeliveryAssumption DEF Offsets
    <3>2. Closes[i] \in 1..skip.snapshot
      BY <1>2, <3>1
    <3> QED  BY <1>1, <3>2
  <2> QED  BY <2>1, <2>2
<1> HIDE DEF w
<1>4. disk' = [watermark |-> w, skip |-> None] \/ disk' = disk
  BY <1>1, SavedMoves
<1>5. PairsAt(disk'.watermark, skipped')
  <2>1. CASE disk' = disk
    <3>1. PairsAt(disk.watermark, skipped)
      BY DEF Pairs
    <3> QED  BY <1>1, <2>1, <3>1, PairsMore
  <2>2. CASE disk' = [watermark |-> w, skip |-> None]
    BY <1>3, <2>2
  <2> QED  BY <1>4, <2>1, <2>2
<1> QED  BY <1>1, <1>3, <1>5, ReplayPairs

LEMMA SkipPairs ==
    ASSUME TypeOK, TypeOK', Accounts', Pairs, Wake \/ ResumeSkip \/ ExpireSkip \/ CommitSkips
    PROVE  Pairs'
<1> USE DEF stateVars, workVars, receiptVars, envVars, historyVars
<1>1. CASE UNCHANGED <<watermark, readerVars, order, rcpt, skipped, disk, skip>>
  BY <1>1, SameReady, PairsStay
<1>2. CASE CancelPendingSkip
  BY <1>2, CancelPairs
<1>3. CASE skip # None /\ CompleteSkip
  BY <1>3, CompletePairs
<1>4. CASE skip # None /\ PurgeThenNotice(skip, disk) /\ UNCHANGED <<watermark, readerVars, order, skipped>>
  <2>1. skip \in Intent
    BY <1>4 DEF TypeOK, StateTypes
  <2> QED  BY <1>4, <2>1, PurgePairs
<1>5. CASE /\ skip # None /\ EnqueueNotice(queue, rcpt, skip)
           /\ UNCHANGED <<watermark, readerVars, order, skipped, disk, skip>>
  <2>1. SameList
    <3>1. rcpt \in [Receipts -> Receipt]
      BY DEF TypeOK, ReceiptTypes
    <3> QED  BY <1>5, <3>1, EnqueueList
  <2> QED  BY <1>5, <2>1, PairsStay
<1>6. CASE Wake
  BY <1>1, <1>6 DEF Wake
<1>7. CASE ResumeSkip
  BY <1>1, <1>2, <1>4, <1>5, <1>7 DEF ResumeSkip
<1>8. CASE ExpireSkip
  BY <1>1, <1>2, <1>3, <1>8 DEF ExpireSkip, Expired
<1>9. CASE CommitSkips
  BY <1>1, <1>2, <1>3, <1>9 DEF CommitSkips
<1> QED  BY <1>6, <1>7, <1>8, <1>9

LEMMA BeginPairs ==
    ASSUME TypeOK, TypeOK', Accounts', Pairs, ReadBegin
    PROVE  Pairs'
<1> DEFINE over == ~clampDone /\ ReplayLimit > 0 /\ eof - ParsePos > ReplayLimit
<1>1. UNCHANGED <<disk, watermark, skip, rcpt, order, openCalls, toolFence>>
  BY DEF ReadBegin, stateVars, receiptVars
<1>2. SameCheckpoints /\ KeepsReady
  BY <1>1, SameReady
<1>3. \/ UNCHANGED <<parsed, rebuild, clampDone, skipped>>
      \/ /\ clampDone' = TRUE
         /\ parsed' = IF over THEN eof ELSE parsed
         /\ rebuild' = (rebuild \/ over)
         /\ skipped' = IF over THEN skipped \cup (ParsePos + 1)..eof ELSE skipped
  BY DEF ReadBegin
<1>4. over => ~clampDone
  OBVIOUS
<1> HIDE DEF over
<1>5. CASE UNCHANGED <<parsed, rebuild, clampDone, skipped>>
  BY <1>1, <1>2, <1>5, PairsFrame
<1>6. CASE /\ ~over /\ clampDone' = TRUE /\ parsed' = parsed /\ skipped' = skipped
           /\ rebuild' = (rebuild \/ over)
  <2>1. rebuild' \/ ~clampDone' => rebuild \/ ~clampDone
    BY <1>6
  <2> QED  BY <1>1, <1>2, <1>6, <2>1, PairsFrame
<1>7. CASE over /\ rebuild' = (rebuild \/ over) /\ skipped \subseteq skipped'
  <2>1. rebuild' = TRUE
    BY <1>7
  <2>2. Fresh'
    BY <2>1 DEF Fresh
  <2>3. FenceAt'
    BY <1>1, <1>4, <1>7 DEF Pairs, FenceAt
  <2>4. PairsAt(watermark', skipped') /\ PairsAt(disk'.watermark, skipped')
    BY <1>1, <1>7, PairsMore DEF Pairs
  <2> QED  BY <2>2, <2>3, <2>4, PairsFresh
<1> QED
  <2>1. skipped' = skipped \cup (ParsePos + 1)..eof => skipped \subseteq skipped'
    OBVIOUS
  <2> QED  BY <1>3, <1>5, <1>6, <1>7, <2>1

\* What the rule for the fence makes of it.
LEMMA NextFenceIs ==
    ASSUME NEW fence \in [call : Offsets, release : Offsets \cup {NoCheckpoint}] \cup {None},
           NEW open, NEW hi \in Offsets
    PROVE  LET f == NextFence(fence, open, hi)
           IN  /\ open # {} => f # None /\ f.release = NoCheckpoint
               /\ fence = None => f = None \/ f.call = hi
               /\ fence # None => /\ f # None /\ f.call = fence.call
                                  /\ f.release \in {NoCheckpoint, hi, fence.release}
                                  /\ f.release = hi => fence.release \in {NoCheckpoint, hi}
<1> DEFINE f == NextFence(fence, open, hi)
<1>1. None \notin [call : Offsets, release : Offsets \cup {NoCheckpoint}]
  BY DeliveryAssumption
<1>2. CASE fence = None
  <2>1. [call |-> hi, release |-> NoCheckpoint] # None
    BY <1>1
  <2>2. open # {} => f = [call |-> hi, release |-> NoCheckpoint]
    BY <1>2 DEF NextFence
  <2>3. open = {} => f = None
    BY <1>2 DEF NextFence
  <2> QED  BY <1>2, <2>1, <2>2, <2>3
<1>3. CASE fence # None
  <2>1. fence \in [call : Offsets, release : Offsets \cup {NoCheckpoint}]
    BY <1>3
  <2>2. open # {} => f = [fence EXCEPT !.release = NoCheckpoint]
    BY <1>3 DEF NextFence
  <2>3. open = {} => (f = [fence EXCEPT !.release = hi] /\ fence.release = NoCheckpoint) \/ f = fence
    BY <1>3 DEF NextFence
  <2>4. /\ [fence EXCEPT !.release = NoCheckpoint] \in [call : Offsets, release : Offsets \cup {NoCheckpoint}]
        /\ [fence EXCEPT !.release = hi] \in [call : Offsets, release : Offsets \cup {NoCheckpoint}]
    BY <2>1
  <2>5. f # None
    BY <1>1, <1>3, <2>2, <2>3, <2>4
  <2>6. /\ [fence EXCEPT !.release = NoCheckpoint].call = fence.call
        /\ [fence EXCEPT !.release = NoCheckpoint].release = NoCheckpoint
        /\ [fence EXCEPT !.release = hi].call = fence.call
        /\ [fence EXCEPT !.release = hi].release = hi
    BY <2>1
  <2> HIDE DEF f
  <2>7. f.call = fence.call /\ (open # {} => f.release = NoCheckpoint)
    BY <2>2, <2>3, <2>6
  <2>8. /\ f.release \in {NoCheckpoint, hi, fence.release}
        /\ f.release = hi => fence.release \in {NoCheckpoint, hi}
    <3>1. hi # NoCheckpoint
      BY DEF Offsets, NoCheckpoint
    <3> QED  BY <2>2, <2>3, <2>6, <3>1
  <2> QED  BY <1>3, <2>5, <2>7, <2>8 DEF f
<1> QED  BY <1>2, <1>3

\* The pairs when the entries after from and up to hi were parsed.
LEMMA ReadEndPairs ==
    ASSUME OneResult, TypeOK, TypeOK', Places, Pairs, ReadEnd
    PROVE  Pairs'
<1>1. /\ pc = "reading" /\ UNCHANGED <<disk, watermark, skip, clampDone, rcpt, order, skipped>>
  BY DEF ReadEnd, receiptVars, historyVars
<1>2. PICK from : from = reading.from
  OBVIOUS
<1>3. rebuild => toolFence = None /\ openCalls = {}
  BY DEF Pairs, FenceAt
<1>4. PICK hi \in reading.seen..eof :
          /\ parsed' = hi /\ rebuild' = FALSE
          /\ openCalls' = OpenAfter(openCalls, (from + 1)..hi)
          /\ toolFence' = IF (from + 1)..hi = {} THEN toolFence
                          ELSE NextFence(toolFence, openCalls', hi)
  <2>1. PICK hi \in reading.seen..eof :
          /\ parsed' = hi /\ rebuild' = FALSE
          /\ openCalls' = OpenAfter(IF rebuild THEN {} ELSE openCalls, (from + 1)..hi)
          /\ toolFence' = IF (from + 1)..hi = {} THEN IF rebuild THEN None ELSE toolFence
                          ELSE NextFence(IF rebuild THEN None ELSE toolFence, openCalls', hi)
    BY <1>2 DEF ReadEnd
  <2>2. (IF rebuild THEN {} ELSE openCalls) = openCalls /\ (IF rebuild THEN None ELSE toolFence) = toolFence
    BY <1>3
  <2> QED  BY <2>1, <2>2
<1>5. /\ from = ParsePos /\ from \in Int /\ 0 <= from /\ hi \in Int /\ hi \in Offsets /\ from <= hi
      /\ clampDone /\ (from + 1)..hi \subseteq Entries
  <2>1. /\ from = ParsePos /\ from \in Int /\ 0 <= from /\ from <= reading.seen /\ reading.seen \in Int
        /\ eof \in Int /\ eof <= MaxLen /\ clampDone /\ MaxLen \in Int
    BY <1>1, <1>2, Reading, DeliveryAssumption
  <2>2. hi \in Int /\ from <= hi /\ hi <= MaxLen
    BY <2>1
  <2> QED  BY <2>1, <2>2 DEF Offsets, Entries
<1>6. ParsePos' = hi
  BY <1>4, <1>5 DEF ParsePos
<1> DEFINE new == (from + 1)..hi
<1>7. \A c : c \in openCalls' <=> (c \in openCalls \/ (c \in Calls /\ c \in new)) /\ \A j \in new : Closes[j] # c
  BY <1>4 DEF OpenAfter
<1>8. \A k \in 1..Len(order) : Cp(k)' = Cp(k) /\ Cp(k) <= from /\ Cp(k) \in Int
  BY <1>1, <1>5, PairNumbers DEF Places, Queued, Cp
<1>9. new = {} => toolFence' = toolFence /\ openCalls' = openCalls
  BY <1>4, <1>7
<1>10. new # {} => toolFence' = NextFence(toolFence, openCalls', hi)
  BY <1>4
<1>11. new # {} =>
          /\ openCalls' # {} => toolFence' # None /\ toolFence'.release = NoCheckpoint
          /\ toolFence = None => toolFence' = None \/ toolFence'.call = hi
          /\ toolFence # None => /\ toolFence' # None /\ toolFence'.call = toolFence.call
                                 /\ toolFence'.release \in {NoCheckpoint, hi, toolFence.release}
                                 /\ toolFence'.release = hi => toolFence.release \in {NoCheckpoint, hi}
  <2>1. toolFence \in [call : Offsets, release : Offsets \cup {NoCheckpoint}] \cup {None}
    BY DEF TypeOK, ReaderTypes
  <2> HIDE DEF new
  <2> QED  BY <1>5, <1>10, <2>1, NextFenceIs
<1>12. new \subseteq Entries /\ \A x \in Int : from < x /\ x <= hi => x \in new
  BY <1>5
<1>13. \A x \in new : from < x /\ x <= hi /\ x \in Int
  BY <1>5
<1> HIDE DEF new
<1>14. Opened'
  <2> SUFFICES ASSUME NEW i \in Entries, Asks(i), Closes[i] # 0, Closes[i] <= hi, hi < i
               PROVE  Closes[i] \in openCalls'
    BY <1>1, <1>6 DEF Opened, Asks, Parts
  <2>1. Closes[i] \in Int /\ i \in Int /\ Closes[i] \in Calls
    BY PairNumbers
  <2>2. Closes[i] \in openCalls \/ Closes[i] \in new
    <3>1. CASE Closes[i] <= from
      <4>1. from < i
        BY <1>5, <2>1
      <4>2. Parts(ParsePos, i)
        BY <1>5, <3>1, <4>1 DEF Parts
      <4> QED  BY <4>2 DEF Pairs, Opened
    <3>2. CASE from < Closes[i]
      BY <1>12, <2>1, <3>2
    <3> QED  BY <1>5, <2>1, <3>1, <3>2
  <2>3. \A j \in new : Closes[j] # Closes[i]
    <3> SUFFICES ASSUME NEW j \in new, Closes[j] = Closes[i] PROVE FALSE
      OBVIOUS
    <3>1. j \in Entries /\ j <= hi /\ j \in Int
      BY <1>12, <1>13
    <3>2. i = j
      BY <3>1 DEF OneResult
    <3> QED  BY <1>5, <2>1, <3>1, <3>2
  <2> QED  BY <1>7, <2>1, <2>2, <2>3
<1>15. FenceAt'
  <2>1. toolFence' # None => toolFence'.call <= hi
    <3>1. toolFence # None => toolFence.call <= hi /\ toolFence.call \in Int
      BY <1>5, PairNumbers DEF Pairs, FenceAt
    <3> QED  BY <1>5, <1>9, <1>11, <3>1
  <2>2. openCalls' # {} => toolFence' # None /\ toolFence'.release = NoCheckpoint
    BY <1>9, <1>11 DEF Pairs, FenceAt
  <2>3. rebuild' = FALSE /\ clampDone'
    BY <1>1, <1>4, <1>5
  <2> QED  BY <1>6, <2>1, <2>2, <2>3 DEF FenceAt
<1>16. toolFence # None => toolFence' # None /\ toolFence'.call = toolFence.call
  BY <1>9, <1>11
<1>17. OpenFence'
  <2> SUFFICES ASSUME NEW c \in openCalls', NEW k \in 1..Len(order), c <= Cp(k)
               PROVE  toolFence'.call <= Cp(k)
    BY <1>1, <1>8 DEF OpenFence
  <2>1. c \notin new
    <3>1. c \in new => c \in Int /\ from < c
      BY <1>13
    <3> QED  BY <1>5, <1>8, <3>1
  <2>2. c \in openCalls
    BY <1>7, <2>1
  <2>3. toolFence # None /\ toolFence.call <= Cp(k)
    BY <2>2 DEF Pairs, FenceAt, OpenFence
  <2> QED  BY <1>16, <2>3
<1>18. Fenced'
  <2> SUFFICES ASSUME skip = None, NEW i \in Entries, NEW k \in 1..Len(order),
                      Asks(i), Closes[i] # 0, Closes[i] <= Cp(k), Cp(k) < i, i <= hi
               PROVE  Guarded(k, i)'
    BY <1>1, <1>6, <1>8 DEF Fenced, Asks, Parts
  <2>1. i \in Int /\ Closes[i] \in Int
    BY PairNumbers
  <2>2. Guarded(k, i)
    <3>1. CASE i <= from
      BY <1>5, <3>1 DEF Pairs, Fenced, Parts
    <3>2. CASE from < i
      <4>1. Closes[i] <= from
        BY <1>5, <1>8, <2>1
      <4>2. Closes[i] \in openCalls
        BY <1>5, <3>2, <4>1 DEF Pairs, Opened, Parts
      <4>3. toolFence # None /\ toolFence.release = NoCheckpoint /\ toolFence.call <= Cp(k)
        BY <4>2 DEF Pairs, FenceAt, OpenFence
      <4> QED  BY <4>3 DEF Guarded, ByFence
    <3> QED  BY <1>5, <2>1, <3>1, <3>2
  <2>3. CASE ByFence(k, i)
    <3>1. /\ toolFence' # None /\ toolFence'.call = toolFence.call
          /\ toolFence # None /\ toolFence.call <= Cp(k)
          /\ toolFence.release = NoCheckpoint \/ i <= toolFence.release
      BY <1>16, <2>3 DEF ByFence
    <3>2. toolFence'.release = NoCheckpoint \/ i <= toolFence'.release
      BY <1>9, <1>11, <3>1
    <3> QED  BY <1>8, <3>1, <3>2 DEF Guarded, ByFence
  <2>4. CASE ReadyThrough(k, i)
    <3>1. PICK l \in (k + 1)..Len(order) : i <= Cp(l) /\ \A m \in (k + 1)..l : CommitReady(rcpt[order[m]])
      BY <2>4 DEF ReadyThrough
    <3>2. l \in 1..Len(order)
      BY DEF TypeOK, ReceiptTypes
    <3>3. Cp(l)' = Cp(l)
      BY <1>8, <3>2
    <3>4. ReadyThrough(k, i)'
      BY <1>1, <3>1, <3>3 DEF ReadyThrough
    <3> QED  BY <3>4 DEF Guarded
  <2> QED  BY <2>2, <2>3, <2>4 DEF Guarded
<1>19. PairsAt(watermark', skipped') /\ PairsAt(disk'.watermark, skipped')
  BY <1>1 DEF Pairs
<1> QED  BY <1>14, <1>15, <1>17, <1>18, <1>19 DEF Pairs

\* Growth taken for replacement: what was parsed before is given up.
LEMMA GrowthPairs ==
    ASSUME OneResult, TypeOK, TypeOK', Places, Accounts, Accounts', Pairs, GrowthTakenForReplacement
    PROVE  Pairs'
<1>1. /\ pc = "reading" /\ clamp' = 0 /\ ~PrefixCovers
      /\ UNCHANGED <<disk, watermark, clampDone>>
  BY DEF GrowthTakenForReplacement
<1>2. /\ reading.from = ParsePos /\ ParsePos \in Int /\ 0 <= ParsePos /\ watermark \in Int
      /\ prefix \in Int /\ clampDone /\ reading.from <= reading.seen /\ reading.seen \in Int
      /\ prefix <= reading.seen /\ eof \in Int /\ eof <= MaxLen /\ MaxLen \in Int
  BY <1>1, Reading, DeliveryAssumption
<1>3. PICK past \in (reading.seen + 1)..eof :
        /\ skipped' = skipped \cup (reading.from + 1)..past
        /\ \/ \E hi \in past..eof :
              /\ parsed' = hi /\ rebuild' = FALSE
              /\ openCalls' = OpenAfter({}, (past + 1)..hi)
              /\ toolFence' = NextFence(None, openCalls', hi)
              /\ order' = <<>>
           \/ /\ parsed' = past
              /\ UNCHANGED <<prefix, rebuild, openCalls, toolFence>>
  BY DEF GrowthTakenForReplacement, Discard
<1>4. past \in Int /\ ParsePos < past /\ past <= eof /\ prefix < past
  BY <1>2
<1>5. skipped \subseteq skipped'
  BY <1>3
<1>6. PairsAt(watermark', skipped') /\ PairsAt(disk'.watermark, skipped')
  BY <1>1, <1>5, PairsMore DEF Pairs
<1>7. \A x \in Int : watermark < x /\ x <= past => x \in skipped'
  <2> SUFFICES ASSUME NEW x \in Int, watermark < x, x <= past PROVE x \in skipped'
    OBVIOUS
  <2>1. Fresh
    BY <1>1, <1>2 DEF PrefixCovers, Fresh
  <2>2. (watermark + 1)..ParsePos \subseteq skipped
    BY <2>1 DEF Accounts, FreshOK
  <2>3. x \in (watermark + 1)..ParsePos \/ x \in (reading.from + 1)..past
    BY <1>2, <1>4
  <2> QED  BY <1>3, <2>2, <2>3
<1>8. CASE parsed' = past /\ UNCHANGED <<prefix, rebuild, openCalls, toolFence>>
  <2>1. ParsePos' = past
    BY <1>2, <1>4, <1>8 DEF ParsePos
  <2>2. Fresh'
    BY <1>4, <1>8, <2>1 DEF Fresh
  <2>3. toolFence # None => toolFence.call <= past
    BY <1>2, <1>4, PairNumbers DEF Pairs, FenceAt
  <2>4. FenceAt'
    BY <1>1, <1>8, <2>1, <2>3 DEF Pairs, FenceAt
  <2> QED  BY <1>6, <2>2, <2>4, PairsFresh
<1>9. CASE \E hi \in past..eof :
              /\ parsed' = hi /\ rebuild' = FALSE
              /\ openCalls' = OpenAfter({}, (past + 1)..hi)
              /\ toolFence' = NextFence(None, openCalls', hi)
              /\ order' = <<>>
  <2>1. PICK hi \in past..eof :
              /\ parsed' = hi /\ rebuild' = FALSE
              /\ openCalls' = OpenAfter({}, (past + 1)..hi)
              /\ toolFence' = NextFence(None, openCalls', hi)
              /\ order' = <<>>
    BY <1>9
  <2>2. hi \in Int /\ hi \in Offsets /\ past <= hi
    BY <1>2, <1>4, <2>1 DEF Offsets
  <2>3. ParsePos' = hi
    BY <1>2, <1>4, <2>1, <2>2 DEF ParsePos
  <2> DEFINE new == (past + 1)..hi
  <2>4. \A c : c \in openCalls' <=> c \in Calls /\ c \in new /\ \A j \in new : Closes[j] # c
    BY <2>1 DEF OpenAfter
  <2>5. /\ \A x \in Int : past < x /\ x <= hi => x \in new
        /\ \A x \in new : x <= hi /\ x \in Int /\ x \in Entries
    BY <1>2, <1>4, <2>1, <2>2 DEF Entries
  <2> HIDE DEF new
  <2>6. /\ openCalls' # {} => toolFence' # None /\ toolFence'.release = NoCheckpoint
        /\ toolFence' = None \/ toolFence'.call = hi
    <3>1. \A open : LET f == NextFence(None, open, hi)
                    IN  /\ open # {} => f # None /\ f.release = NoCheckpoint
                        /\ f = None \/ f.call = hi
      BY <2>2, NextFenceIs
    <3> QED  BY <2>1, <3>1
  <2>7. FenceAt'
    BY <1>1, <1>2, <2>1, <2>2, <2>3, <2>6 DEF FenceAt
  <2>8. Opened'
    <3> SUFFICES ASSUME NEW i \in Entries, watermark < Closes[i], Closes[i] \notin skipped',
                        Closes[i] # 0, Closes[i] <= hi, hi < i
                 PROVE  Closes[i] \in openCalls'
      BY <1>1, <2>3 DEF Opened, Asks, Parts
    <3>1. Closes[i] \in Int /\ i \in Int /\ Closes[i] \in Calls
      BY PairNumbers
    <3>2. past < Closes[i]
      BY <1>4, <1>7, <3>1
    <3>3. Closes[i] \in new
      BY <2>5, <3>1, <3>2
    <3>4. \A j \in new : Closes[j] # Closes[i]
      <4> SUFFICES ASSUME NEW j \in new, Closes[j] = Closes[i] PROVE FALSE
        OBVIOUS
      <4>1. j \in Entries /\ j \in Int /\ j <= hi
        BY <2>5
      <4>2. i = j
        BY <4>1 DEF OneResult
      <4> QED  BY <2>2, <3>1, <4>1, <4>2
    <3> QED  BY <2>4, <3>1, <3>3, <3>4
  <2>9. 1..Len(order') = {}
    BY <2>1
  <2>10. OpenFence' /\ Fenced'
    BY <2>9 DEF OpenFence, Fenced
  <2> QED  BY <1>6, <2>7, <2>8, <2>10 DEF Pairs
<1> QED  BY <1>3, <1>8, <1>9

LEMMA ReadStopPairs ==
    ASSUME TypeOK, TypeOK', Accounts', Pairs, RebuildFails \/ ReadFails
    PROVE  Pairs'
<1>1. CASE RebuildFails
  <2>1. rebuild' = TRUE /\ rebuild /\ UNCHANGED <<disk, watermark, skipped, openCalls, toolFence>>
    BY <1>1 DEF RebuildFails, historyVars, TypeOK, ReaderTypes
  <2>2. toolFence = None /\ openCalls = {}
    BY <2>1 DEF Pairs, FenceAt
  <2>3. Fresh' /\ FenceAt'
    BY <2>1, <2>2 DEF Fresh, FenceAt
  <2> QED  BY <2>1, <2>3, PairsFresh DEF Pairs
<1>2. CASE ReadFails
  <2>1. UNCHANGED <<disk, watermark, skip, skipped, rcpt, order, parsed, openCalls, toolFence, rebuild,
                    clampDone>>
    BY <1>2 DEF ReadFails, stateVars, receiptVars, historyVars
  <2> QED  BY <2>1, SameReady, PairsFrame
<1> QED  BY <1>1, <1>2

\* The receipt of a batch stands at the parse position, where no fence starts later.
LEMMA RegisterPairs ==
    ASSUME TypeOK, Places, Pairs, Register
    PROVE  Pairs'
<1>1. UNCHANGED <<watermark, skip, skipped, parsed, openCalls, toolFence, rebuild, clampDone>>
  BY DEF Register, historyVars
<1>2. disk' = [watermark |-> watermark, skip |-> skip] \/ disk' = disk
  BY SavedMoves DEF Register, TypeOK, StateTypes
<1>3. disk'.watermark \in {disk.watermark, watermark}
  BY <1>2
<1>4. CASE batch = None
  <2>1. UNCHANGED <<rcpt, order>>
    BY <1>4 DEF Register
  <2> QED  BY <1>1, <1>3, <2>1, SameReady, PairsFrame
<1>5. CASE batch # None
  <2>1. PICK last \in Nat : last = Len(order) + 1
    BY DEF TypeOK, ReceiptTypes
  <2>2. PICK r : r = job'.receipt
    OBVIOUS
  <2>3. /\ Len(order') = last /\ order'[last] = r
        /\ rcpt'[r] = NewReceipt(batch.hi)
        /\ \A k \in 1..Len(order) : order'[k] = order[k] /\ rcpt'[order[k]] = rcpt[order[k]]
    BY <1>5, <2>1, <2>2, RegisteredAt
  <2>4. \A k \in 1..Len(order) : Cp(k)' = Cp(k)
    BY <2>3 DEF Cp
  <2>5. Cp(last)' = batch.hi
    BY <2>3 DEF Cp, NewReceipt
  <2>6. /\ Len(order) \in Nat
        /\ \A k \in 1..last : k = last \/ k \in 1..Len(order)
        /\ \A k \in 1..Len(order) : \A l \in (k + 1)..Len(order) :
              l \in (k + 1)..last /\ l \in 1..Len(order) /\ \A m \in (k + 1)..l : m \in 1..Len(order)
    BY <2>1 DEF TypeOK, ReceiptTypes
  <2>7. ParsePos = batch.hi /\ ParsePos' = ParsePos /\ batch.hi \in Int
    BY <1>1, <1>5, DeliveryAssumption
    DEF ParsePos, Places, BatchAt, TypeOK, ReaderTypes, Offsets, Entries
  <2>8. Opened' /\ FenceAt'
    BY <1>1, <2>7 DEF Pairs, Opened, FenceAt, Asks, Parts
  <2>9. OpenFence'
    <3> SUFFICES ASSUME NEW c \in openCalls, NEW k \in 1..last, c <= Cp(k)'
                 PROVE  toolFence.call <= Cp(k)'
      BY <1>1, <2>3 DEF OpenFence
    <3>1. CASE k = last
      BY <2>5, <2>7, <3>1 DEF Pairs, FenceAt
    <3>2. CASE k \in 1..Len(order)
      BY <2>4, <3>2 DEF Pairs, OpenFence
    <3> QED  BY <2>6, <3>1, <3>2
  <2>10. Fenced'
    <3> SUFFICES ASSUME skip = None, NEW i \in Entries, NEW k \in 1..last, Asks(i),
                        Closes[i] # 0, Closes[i] <= Cp(k)', Cp(k)' < i, i <= ParsePos
                 PROVE  Guarded(k, i)'
      BY <1>1, <2>3, <2>7 DEF Fenced, Asks, Parts
    <3>1. k \in 1..Len(order)
      <4>1. i \in Int
        BY PairNumbers
      <4> QED  BY <2>5, <2>6, <2>7, <4>1
    <3>2. Cp(k)' = Cp(k)
      BY <2>4, <3>1
    <3>3. Guarded(k, i)
      BY <3>1, <3>2 DEF Pairs, Fenced, Parts
    <3>4. CASE ByFence(k, i)
      BY <1>1, <3>2, <3>4 DEF Guarded, ByFence
    <3>5. CASE ReadyThrough(k, i)
      <4>1. PICK l \in (k + 1)..Len(order) : i <= Cp(l) /\ \A m \in (k + 1)..l : CommitReady(rcpt[order[m]])
        BY <3>5 DEF ReadyThrough
      <4>2. l \in (k + 1)..last /\ i <= Cp(l)'
        BY <2>4, <2>6, <3>1, <4>1
      <4>3. \A m \in (k + 1)..l : CommitReady(rcpt'[order'[m]])
        BY <2>3, <2>6, <3>1, <4>1
      <4>4. ReadyThrough(k, i)'
        BY <2>3, <4>2, <4>3 DEF ReadyThrough
      <4> QED  BY <4>4 DEF Guarded
    <3> QED  BY <3>3, <3>4, <3>5 DEF Guarded
  <2>11. PairsAt(watermark', skipped') /\ PairsAt(disk'.watermark, skipped')
    BY <1>1, <1>3 DEF Pairs
  <2> QED  BY <2>8, <2>9, <2>10, <2>11 DEF Pairs
<1> QED  BY <1>4, <1>5

\* The receipt of a dispatch is open, so what happens to it makes no ready one
\* unready.
LEMMA DispatchReady ==
    ASSUME TypeOK, Places, job # None, NEW new \in Receipt, new.checkpoint = rcpt[job.receipt].checkpoint,
           rcpt' = [rcpt EXCEPT ![job.receipt] = new]
    PROVE  KeepsReady /\ SameCheckpoints
<1>1. ~rcpt[job.receipt].closed
  BY DEF Places, JobAt
<1>2. \A k \in 1..Len(order) : order[k] \in Receipts
  BY OrderedTypes
<1>3. rcpt \in [Receipts -> Receipt]
  BY DEF TypeOK, ReceiptTypes
<1>4. \A x \in Receipts : rcpt'[x] = IF x = job.receipt THEN new ELSE rcpt[x]
  BY <1>3
<1> QED  BY <1>1, <1>2, <1>4 DEF KeepsReady, SameCheckpoints, CommitReady

LEMMA JobPairs ==
    ASSUME TypeOK, Places, Pairs, RouteEntry \/ DispatchEnds \/ StopMonitor
    PROVE  Pairs'
<1>1. /\ UNCHANGED <<watermark, skip, skipped, parsed, openCalls, toolFence, rebuild, clampDone, order>>
      /\ disk' = [watermark |-> watermark, skip |-> skip] \/ disk' = disk
  BY DEF RouteEntry, DispatchEnds, StopMonitor, stateVars, readerVars, historyVars
<1>2. disk'.watermark \in {disk.watermark, watermark}
  BY <1>1
<1>3. CASE UNCHANGED rcpt
  BY <1>1, <1>2, <1>3, SameReady, PairsFrame
<1>4. CASE /\ job # None
           /\ \/ rcpt' = [rcpt EXCEPT ![job.receipt] = Tracked(@)]
              \/ rcpt' = [rcpt EXCEPT ![job.receipt] = Closed(@)]
              \/ rcpt' = [rcpt EXCEPT ![job.receipt] = Closed(Failed(@))]
  <2> DEFINE old == rcpt[job.receipt]
  <2>1. old \in Receipt
    BY <1>4 DEF TypeOK, ReceiptTypes, WorkTypes, Dispatch
  <2>2. /\ Tracked(old) \in Receipt /\ Closed(old) \in Receipt /\ Closed(Failed(old)) \in Receipt
        /\ Tracked(old).checkpoint = old.checkpoint /\ Closed(old).checkpoint = old.checkpoint
        /\ Closed(Failed(old)).checkpoint = old.checkpoint
    <3> HIDE DEF old
    <3>1. Tracked(old) \in Receipt /\ Tracked(old).checkpoint = old.checkpoint
      BY <2>1 DEF Receipt, Tracked
    <3>2. Closed(old) \in Receipt /\ Failed(old) \in Receipt
      BY <2>1 DEF Receipt, Closed, Failed
    <3>3. Closed(Failed(old)) \in Receipt
      BY <3>2 DEF Receipt, Closed
    <3> QED  BY <2>1, <3>1, <3>2, <3>3, ClosedCheckpoint
  <2>3. PICK new \in {Tracked(old), Closed(old), Closed(Failed(old))} :
           rcpt' = [rcpt EXCEPT ![job.receipt] = new]
    BY <1>4
  <2>4. new \in Receipt /\ new.checkpoint = rcpt[job.receipt].checkpoint
    BY <2>2, <2>3
  <2>5. KeepsReady /\ SameCheckpoints
    BY <1>4, <2>3, <2>4, DispatchReady
  <2> QED  BY <1>1, <1>2, <2>5, PairsFrame
<1>5. CASE RouteEntry \/ DispatchEnds
  <2>1. job # None
    BY <1>5 DEF RouteEntry, DispatchEnds, TypeOK, PcTypes
  <2> QED  BY <1>3, <1>4, <1>5, <2>1 DEF RouteEntry, DispatchEnds
<1> QED  BY <1>3, <1>4, <1>5 DEF StopMonitor

LEMMA StopWorkersPairs ==
    ASSUME TypeOK, Tracks, Pairs, StopWorkers
    PROVE  Pairs'
<1>1. UNCHANGED <<watermark, readerVars, order, disk, skip, skipped>>
  BY DEF StopWorkers, stateVars
<1>2. UNCHANGED rcpt \/ (flight # None /\ SettleFlight("failed"))
  BY DEF StopWorkers
<1>3. KeepsReady /\ SameList
  BY <1>2, SameReady, SettleReady, SettleList
<1> QED  BY <1>1, <1>3, PairsStay

\* A fence that lets a commit pass has nothing but ready receipts in its range.
LEMMA FenceReleases ==
    ASSUME TypeOK, Queued, ~FenceHolds(Listed), NEW k \in 1..Len(order), NEW i \in Entries,
           Cp(k) < i, Guarded(k, i)
    PROVE  ReadyThrough(k, i)
<1> SUFFICES ASSUME ByFence(k, i) PROVE ReadyThrough(k, i)
  BY DEF Guarded
<1>1. Len(Listed) = Len(order) /\ \A m \in 1..Len(order) : Listed[m] = rcpt[order[m]]
      /\ Listed[m].checkpoint = Cp(m)
  BY DEF Listed, Cp, TypeOK, ReceiptTypes
<1>2. /\ toolFence # None /\ toolFence.release # NoCheckpoint
      /\ ~ \A m \in 1..Len(order) : Cp(m) # toolFence.release
      /\ \A m \in 1..Len(order) : Cp(m) >= toolFence.call /\ Cp(m) <= toolFence.release
                                   => CommitReady(rcpt[order[m]])
  BY <1>1 DEF FenceHolds, ByFence
<1>3. PICK l \in 1..Len(order) : Cp(l) = toolFence.release
  BY <1>2
<1>4. toolFence.call <= Cp(k) /\ i <= Cp(l)
  BY <1>2, <1>3 DEF ByFence
<1>5. /\ i \in Int /\ toolFence.call \in Int /\ k \in Int /\ l \in Int /\ Len(order) \in Nat
      /\ \A m \in 1..Len(order) : m \in Int /\ Cp(m) \in Int
  BY <1>2, PairNumbers DEF TypeOK, ReceiptTypes
<1>6. \A m, n \in 1..Len(order) : m < n => Cp(m) < Cp(n)
  BY DEF Queued
<1>7. k < l
  <2> SUFFICES ASSUME ~(k < l) PROVE FALSE
    OBVIOUS
  <2>1. Cp(l) <= Cp(k)
    <3>1. CASE l = k
      BY <1>5, <3>1
    <3>2. CASE l < k
      BY <1>5, <1>6, <3>2
    <3> QED  BY <1>5, <3>1, <3>2
  <2> QED  BY <1>4, <1>5, <2>1
<1>8. l \in (k + 1)..Len(order)
  BY <1>5, <1>7
<1>9. ASSUME NEW m \in (k + 1)..l
      PROVE  CommitReady(rcpt[order[m]])
  <2>1. m \in 1..Len(order) /\ k < m /\ (m < l \/ m = l)
    BY <1>5
  <2>2. Cp(k) < Cp(m) /\ Cp(m) <= Cp(l)
    BY <1>5, <1>6, <2>1
  <2>3. Cp(m) >= toolFence.call
    BY <1>4, <1>5, <2>1, <2>2
  <2> QED  BY <1>2, <1>3, <2>1, <2>2, <2>3
<1> QED  BY <1>4, <1>8, <1>9 DEF ReadyThrough

LEMMA CommitPairs ==
    ASSUME TypeOK, TypeOK', Places, Pairs, CommitPrefix
    PROVE  Pairs'
<1>1. UNCHANGED <<skip, parsed, rebuild, clampDone, openCalls, rcpt, skipped>>
  BY DEF CommitPrefix, historyVars
<1>2. CASE UNCHANGED <<disk, watermark, dirty, toolFence, order>>
  BY <1>1, <1>2, SameReady, PairsFrame
<1>3. ASSUME NEW n \in 0..Len(order), Commits(n)
      PROVE  Pairs'
  <2>1. /\ skip = None /\ openCalls = {} /\ ~FenceHolds(Listed) /\ toolFence' = None
        /\ order' = SubSeq(order, n + 1, Len(order))
        /\ n < Len(order) => ~CommitReady(rcpt[order[n + 1]])
    BY <1>3 DEF Commits
  <2>2. /\ Len(order') = Len(order) - n /\ Len(order) \in Nat /\ n \in Nat
        /\ \A k \in 1..Len(order') : /\ k + n \in 1..Len(order) /\ Cp(k)' = Cp(k + n)
                                     /\ order'[k] = order[k + n]
    BY <1>1, <2>1, RestOfList
  <2>3. /\ watermark \in Int /\ watermark' \in Int /\ ParsePos \in Int
        /\ \A k \in 1..Len(order) : Cp(k) \in Int
    BY PairNumbers DEF TypeOK, StateTypes, Offsets
  <2>4. /\ n > 0 => watermark' = Cp(n) /\ watermark < Cp(n) /\ n \in 1..Len(order) /\ Cp(n) <= ParsePos
        /\ n = 0 => watermark' = watermark /\ disk' = disk
        /\ disk'.watermark \in {disk.watermark, watermark'}
    <3>1. CASE n = 0
      BY <1>3, <2>3, <3>1 DEF Commits
    <3>2. CASE n > 0
      <4>1. n \in 1..Len(order) /\ watermark' = Cp(n)
        BY <1>3, <2>2, <3>2 DEF Commits
      <4>2. Saved(TRUE, Cp(n), skip)
        BY <1>3, <3>2 DEF Commits
      <4>3. disk' = [watermark |-> Cp(n), skip |-> skip] \/ disk' = disk
        BY <4>2, SavedMoves
      <4>4. disk'.watermark \in {disk.watermark, watermark'}
        BY <4>1, <4>3
      <4> QED  BY <3>2, <4>1, <4>4 DEF Places, Queued
    <3> QED  BY <2>2, <3>1, <3>2
  <2>5. watermark <= watermark'
    BY <2>2, <2>3, <2>4
  <2>6. ParsePos' = ParsePos
    <3>1. CASE parsed >= 0
      BY <1>1, <3>1 DEF ParsePos
    <3>2. CASE ~(parsed >= 0)
      <4>1. ParsePos = watermark /\ ParsePos' = watermark'
        BY <1>1, <3>2 DEF ParsePos
      <4> QED  BY <2>2, <2>3, <2>4, <4>1
    <3> QED  BY <3>1, <3>2
  <2>7. ASSUME NEW i \in Entries, Asks(i), NEW k \in 1..Len(order), Parts(Cp(k), i)
        PROVE  ReadyThrough(k, i)
    <3>1. i \in Int /\ Closes[i] \in Int /\ Closes[i] <= Cp(k) /\ Cp(k) < i /\ Closes[i] # 0
          /\ Cp(k) <= ParsePos /\ Cp(k) \in Int
      BY <2>3, <2>7, PairNumbers DEF Parts, Places, Queued
    <3>2. i <= ParsePos
      <4> SUFFICES ASSUME ParsePos < i PROVE FALSE
        BY <2>3, <3>1
      <4>1. Closes[i] <= ParsePos
        BY <2>3, <3>1
      <4> QED  BY <2>1, <2>7, <3>1, <4>1 DEF Pairs, Opened, Parts
    <3>3. Guarded(k, i)
      BY <2>1, <2>7, <3>2 DEF Pairs, Fenced
    <3> QED  BY <2>1, <3>1, <3>3, FenceReleases DEF Places
  <2>8. PairsAt(watermark', skipped)
    <3>1. CASE n = 0
      BY <2>4, <3>1 DEF Pairs
    <3>2. CASE n > 0
      <4> SUFFICES ASSUME NEW i \in Entries, Parts(Cp(n), i), Closes[i] \notin skipped PROVE FALSE
        BY <2>4, <3>2 DEF PairsAt
      <4>1. i \in Int /\ Closes[i] \in Int /\ Closes[i] # 0 /\ Closes[i] <= Cp(n) /\ Cp(n) < i
            /\ n \in 1..Len(order) /\ watermark < Cp(n) /\ Cp(n) \in Int
        BY <2>3, <2>4, <3>2, PairNumbers DEF Parts
      <4>2. Asks(i)
        <5> SUFFICES ASSUME Closes[i] <= watermark PROVE FALSE
          BY <2>3, <4>1 DEF Asks
        <5>1. Parts(watermark, i)
          BY <2>3, <4>1 DEF Parts
        <5> QED  BY <5>1 DEF Pairs, PairsAt
      <4>3. PICK l \in (n + 1)..Len(order) :
               i <= Cp(l) /\ \A m \in (n + 1)..l : CommitReady(rcpt[order[m]])
        BY <2>7, <4>1, <4>2 DEF ReadyThrough
      <4>4. n + 1 \in (n + 1)..l /\ n < Len(order)
        BY <2>2
      <4> QED  BY <2>1, <4>3, <4>4
    <3> QED  BY <2>2, <3>1, <3>2
  <2>9. PairsAt(disk'.watermark, skipped)
    BY <2>4, <2>8 DEF Pairs
  <2>10. \A i \in Entries : Asks(i)' => Asks(i)
    BY <1>1, <2>3, <2>5, PairNumbers DEF Asks
  <2>11. Opened'
    BY <1>1, <2>6, <2>10 DEF Pairs, Opened, Parts
  <2>12. FenceAt' /\ OpenFence'
    BY <1>1, <2>1 DEF FenceAt, OpenFence
  <2>13. Fenced'
    <3> SUFFICES ASSUME NEW i \in Entries, NEW k \in 1..Len(order'), Asks(i), Parts(Cp(k + n), i)
                 PROVE  Guarded(k, i)'
      BY <2>2, <2>10 DEF Fenced, Parts
    <3>1. k + n \in 1..Len(order) /\ k \in Int
      BY <2>2
    <3>2. PICK l \in (k + n + 1)..Len(order) :
             i <= Cp(l) /\ \A m \in (k + n + 1)..l : CommitReady(rcpt[order[m]])
      BY <2>7, <3>1 DEF ReadyThrough
    <3>3. PICK p \in Int : p + n = l
      <4>1. l - n \in Int /\ (l - n) + n = l
        BY <2>2
      <4> QED  BY <4>1
    <3>4. p \in (k + 1)..Len(order') /\ p \in 1..Len(order')
      BY <2>2, <3>1, <3>3
    <3>5. i <= Cp(p)'
      BY <2>2, <3>2, <3>3, <3>4
    <3>6. ASSUME NEW m \in (k + 1)..p
          PROVE  CommitReady(rcpt'[order'[m]])
      <4>1. m \in 1..Len(order') /\ m + n \in (k + n + 1)..l
        BY <2>2, <3>1, <3>3, <3>4
      <4>2. order'[m] = order[m + n]
        BY <2>2, <4>1
      <4> QED  BY <1>1, <3>2, <4>1, <4>2
    <3>7. ReadyThrough(k, i)'
      BY <3>4, <3>5, <3>6 DEF ReadyThrough
    <3> QED  BY <3>7 DEF Guarded
  <2> QED  BY <1>1, <2>8, <2>9, <2>11, <2>12, <2>13 DEF Pairs
<1> QED  BY <1>2, <1>3, CommitMoves DEF Places

LEMMA RestartPairs ==
    ASSUME TypeOK', Accounts', Pairs, Restart
    PROVE  Pairs'
<1>1. /\ watermark' = disk.watermark /\ clampDone' = FALSE /\ openCalls' = {} /\ toolFence' = None
      /\ UNCHANGED <<disk, skipped>>
  BY DEF Restart, historyVars
<1>2. Fresh' /\ FenceAt'
  BY <1>1 DEF Fresh, FenceAt
<1> QED  BY <1>1, <1>2, PairsFresh DEF Pairs

LEMMA PairsInit == ASSUME TypeOK, Init PROVE Pairs
<1>1. /\ watermark = 0 /\ disk.watermark = 0 /\ ParsePos = 0 /\ openCalls = {} /\ toolFence = None
      /\ order = <<>>
  BY DEF Init, ParsePos
<1>2. \A i \in Entries : ~Parts(0, i)
  BY DeliveryAssumption DEF Parts, Offsets
<1>3. 1..Len(order) = {}
  BY <1>1
<1> QED  BY <1>1, <1>2, <1>3 DEF Pairs, PairsAt, Opened, FenceAt, OpenFence, Fenced

LEMMA PairsStep ==
    ASSUME OneResult, "lateRead" \notin Faults, TypeOK, TypeOK', Tracks, Places, Accounts, Accounts',
           Pairs, [Next]_vars
    PROVE  Pairs'
<1>1. CASE MonitorStep
  <2>1. ~ReadFailsLate
    BY DEF ReadFailsLate
  <2> QED  BY <1>1, <2>1, SkipPairs, BeginPairs, ReadEndPairs, GrowthPairs, ReadStopPairs,
              RegisterPairs, JobPairs, CommitPairs DEF MonitorStep
<1>2. CASE Lifetime
  BY <1>2, JobPairs, StopWorkersPairs, RestartPairs DEF Lifetime
<1> QED  BY <1>1, <1>2, QuietPairs DEF Next

\* While no read fails after it moved the parse position, and no call has two
\* results, the persisted watermark never falls between a tool call and its
\* result: a replay parses the pair together (_tool_delivery_fences).
THEOREM PairsStayWhole ==
    ASSUME OneResult, "lateRead" \notin Faults
    PROVE  Spec => []ToolPairsWhole
<1>1. TypeOK /\ Pairs => ToolPairsWhole
  <2> SUFFICES ASSUME TypeOK, Pairs, NEW i \in Entries, Closes[i] # 0, Closes[i] <= disk.watermark,
                      ~(i <= disk.watermark)
               PROVE  Closes[i] \in skipped
    BY DEF ToolPairsWhole
  <2>1. Parts(disk.watermark, i)
    BY PairNumbers DEF Parts
  <2> QED  BY <2>1 DEF Pairs, PairsAt
<1> DEFINE IInv == TypeOK /\ Tracks /\ Singles(queue) /\ Places /\ Accounts /\ Pairs
<1>2. Init => IInv
  BY InitTypes, TracksInit, PlacesInit, AccountsInit, PairsInit
<1>3. IInv /\ [Next]_vars => IInv'
  BY NextTypes, TracksStep, PlacesStep, AccountsStep, PairsStep
<1>4. IInv => ToolPairsWhole
  BY <1>1
<1> QED  BY <1>2, <1>3, <1>4, PTL DEF Spec
=============================================================================
