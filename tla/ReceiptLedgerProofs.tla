------------------------ MODULE ReceiptLedgerProofs ------------------------
(***************************************************************************)
(* Proofs about ReceiptLedger, for every bound and number of consumers.    *)
(* IInv adds to the safety property what the commit relies on: receipts    *)
(* are in checkpoint order and never beyond the parse position.            *)
(***************************************************************************)
EXTENDS ReceiptLedger, DeliveryContractProofs

\* The parse position is never behind the watermark; the list is in checkpoint
\* order, and every checkpoint lies between watermark and parse position.
IInv ==
    /\ TypeOK
    /\ watermark <= parsed
    /\ \A i \in 1..Len(receipts) :
          /\ watermark < receipts[i].checkpoint
          /\ receipts[i].checkpoint <= parsed
    /\ Ordered(receipts)

LEMMA InitIInv == Init => IInv
<1> SUFFICES ASSUME Init PROVE IInv
    OBVIOUS
<1>1. receipts = <<>> /\ receipts \in Seq(Receipt) /\ Len(receipts) = 0
    BY EmptySeq DEF Init
<1> QED
    BY <1>1 DEF Init, IInv, TypeOK, Ordered

\* A step that replaces one receipt by another of the same checkpoint.
LEMMA ReplaceReceipt ==
    ASSUME IInv, NEW i \in 1..Len(receipts), NEW r \in Receipt,
           r.checkpoint = receipts[i].checkpoint,
           receipts' = [receipts EXCEPT ![i] = r],
           parsed' = parsed, watermark' = watermark
    PROVE  IInv'
<1>1. /\ receipts' \in Seq(Receipt)
      /\ Len(receipts') = Len(receipts)
      /\ \A j \in 1..Len(receipts) :
            receipts'[j].checkpoint = receipts[j].checkpoint
    BY ExceptSeq DEF IInv, TypeOK
<1> QED
    BY <1>1 DEF IInv, TypeOK, Ordered

\* A parse cycle appends receipts at a checkpoint beyond all others.
LEMMA RegisterIInv ==
    ASSUME IInv, NEW cp \in 1..MaxCheckpoint, Register(cp)
    PROVE  IInv'
<1> DEFINE new == [c \in 1..Consumers |-> NewReceipt(cp)]
<1>1. NewReceipt(cp) \in Receipt /\ NewReceipt(cp).checkpoint = cp
    BY LedgerAssumption DEF NewReceipt, Receipt
<1>2. new \in Seq(Receipt) /\ Len(new) = Consumers /\ Consumers \in Nat
    BY <1>1, LedgerAssumption
<1>3. \A c \in 1..Consumers : new[c].checkpoint = cp
    BY <1>1
<1> HIDE DEF new
<1>4. receipts \in Seq(Receipt) /\ Len(receipts) \in Nat
    BY LenProperties DEF IInv, TypeOK
<1>5. /\ receipts' \in Seq(Receipt)
      /\ Len(receipts') = Len(receipts) + Consumers
      /\ \A i \in 1..Len(receipts) + Consumers :
            receipts'[i] = IF i <= Len(receipts) THEN receipts[i]
                           ELSE new[i - Len(receipts)]
    BY <1>2, <1>4, ConcatProperties DEF Register, new
<1>6. \A i \in 1..Len(receipts) + Consumers :
          receipts'[i].checkpoint = IF i <= Len(receipts) THEN receipts[i].checkpoint ELSE cp
    BY <1>2, <1>3, <1>4, <1>5
<1>7. cp > parsed /\ parsed' = cp /\ watermark' = watermark /\ cp \in Nat
    BY LedgerAssumption DEF Register
<1>8. /\ watermark \in Nat /\ parsed \in Nat /\ watermark <= parsed
      /\ \A i \in 1..Len(receipts) : /\ receipts[i].checkpoint \in Int
                                      /\ watermark < receipts[i].checkpoint
                                      /\ receipts[i].checkpoint <= parsed
    <2>1. \A i \in 1..Len(receipts) : receipts[i] \in Receipt
        BY <1>4, ElementOfSeq
    <2>2. \A i \in 1..Len(receipts) : receipts[i].checkpoint \in Int
        BY <2>1 DEF Receipt, NoCheckpoint
    <2> QED
        BY <2>2 DEF IInv, TypeOK
<1>9. \A i \in 1..Len(receipts') :
          watermark' < receipts'[i].checkpoint /\ receipts'[i].checkpoint <= parsed'
    BY <1>2, <1>4, <1>5, <1>6, <1>7, <1>8
<1>10. Ordered(receipts')
    <2> SUFFICES ASSUME NEW i \in 1..Len(receipts'), NEW j \in 1..Len(receipts'), i < j
                 PROVE  receipts'[i].checkpoint <= receipts'[j].checkpoint
        BY DEF Ordered
    <2>1. CASE j <= Len(receipts)
        <3>1. i \in 1..Len(receipts) /\ j \in 1..Len(receipts)
            BY <1>4, <1>5, <2>1
        <3>2. receipts[i].checkpoint <= receipts[j].checkpoint
            BY <3>1 DEF IInv, Ordered
        <3> QED
            BY <1>2, <1>4, <1>5, <1>6, <3>1, <3>2
    <2>2. CASE j > Len(receipts)
        BY <1>2, <1>4, <1>5, <1>6, <1>7, <1>8, <2>2
    <2> QED
        BY <1>2, <1>4, <1>5, <2>1, <2>2
<1>11. watermark' <= parsed'
    BY <1>7, <1>8
<1> QED
    BY <1>5, <1>7, <1>8, <1>9, <1>10, <1>11 DEF IInv, TypeOK

\* What is left of the list after its first n receipts are consumed.
LEMMA TailIInv ==
    ASSUME IInv, NEW n \in 0..Len(receipts),
           receipts' = SubSeq(receipts, n + 1, Len(receipts)), parsed' = parsed,
           watermark' \in Nat, watermark' <= parsed,
           \A j \in (n + 1)..Len(receipts) : watermark' < receipts[j].checkpoint
    PROVE  IInv'
<1>1. /\ receipts \in Seq(Receipt) /\ Len(receipts) \in Nat
      /\ \A i \in 1..Len(receipts) : receipts[i] \in Receipt
    BY LenProperties, ElementOfSeq DEF IInv, TypeOK
<1>2. /\ receipts' \in Seq(Receipt)
      /\ Len(receipts') = Len(receipts) - n
      /\ \A i \in 1..Len(receipts) - n : receipts'[i] = receipts[n + i]
    <2>1. \A i \in (n + 1)..Len(receipts) : receipts[i] \in Receipt
        BY <1>1
    <2>2. /\ receipts' \in Seq(Receipt)
          /\ Len(receipts') = IF n + 1 <= Len(receipts) THEN Len(receipts) - (n + 1) + 1 ELSE 0
          /\ \A i \in 1..(Len(receipts) - (n + 1) + 1) : receipts'[i] = receipts[(n + 1) + i - 1]
        BY <1>1, <2>1, SubSeqProperties
    <2> QED
        BY <1>1, <2>2
<1>3. \A i \in 1..Len(receipts') : n + i \in (n + 1)..Len(receipts)
    BY <1>1, <1>2
<1>4. \A i \in 1..Len(receipts') :
          watermark' < receipts'[i].checkpoint /\ receipts'[i].checkpoint <= parsed
    BY <1>1, <1>2, <1>3 DEF IInv
<1>5. Ordered(receipts')
    BY <1>1, <1>2, <1>3 DEF IInv, Ordered
<1> QED
    BY <1>2, <1>4, <1>5 DEF IInv, TypeOK, Ordered

\* The commit moves the watermark to a checkpoint of the consumed run that is
\* below everything left, so the rest of the list stays above it.
LEMMA CommitIInv ==
    ASSUME IInv, Commit
    PROVE  IInv' /\ watermark' >= watermark
<1> DEFINE n == SettledPrefix(receipts)
           offset == SettledRunOffset(receipts, n)
<1>1. /\ receipts \in Seq(Receipt) /\ Len(receipts) \in Nat /\ Ordered(receipts)
      /\ watermark \in Nat /\ parsed \in Nat
      /\ n \in 0..Len(receipts)
      /\ \A i \in 1..Len(receipts) : receipts[i] \in Receipt
    BY LenProperties, ElementOfSeq, SettledPrefixRun DEF IInv, TypeOK
<1>2. \A i \in 1..Len(receipts) : receipts[i].checkpoint \in Int
    BY <1>1 DEF Receipt, NoCheckpoint
<1>3. /\ receipts' = SubSeq(receipts, n + 1, Len(receipts))
      /\ watermark' = IF offset = NoOffset THEN watermark ELSE offset
      /\ parsed' = parsed
    BY DEF Commit
<1>4. CASE offset = NoOffset
    <2>1. watermark' = watermark
        BY <1>3, <1>4
    <2>2. \A j \in (n + 1)..Len(receipts) : watermark' < receipts[j].checkpoint
        BY <1>1, <2>1 DEF IInv
    <2>3. watermark' \in Nat /\ watermark' <= parsed /\ watermark' >= watermark
        BY <1>1, <2>1 DEF IInv
    <2> HIDE DEF n
    <2>4. IInv'
        BY <1>1, <1>3, <2>2, <2>3, TailIInv
    <2> QED
        BY <2>3, <2>4
<1>5. CASE offset # NoOffset
    <2>1. PICK k \in 1..n :
            /\ offset = receipts[k].checkpoint
            /\ \A j \in (n + 1)..Len(receipts) :
                  receipts[k].checkpoint < receipts[j].checkpoint
        BY <1>1, <1>5, SettledRunOffsetBounds
    <2>2. /\ watermark' = receipts[k].checkpoint
          /\ k \in 1..Len(receipts)
        BY <1>1, <1>3, <1>5, <2>1
    <2>3. watermark' \in Nat /\ watermark' > watermark /\ watermark' <= parsed
        BY <1>1, <1>2, <2>2 DEF IInv
    <2>4. \A j \in (n + 1)..Len(receipts) : watermark' < receipts[j].checkpoint
        BY <2>1, <2>2
    <2> HIDE DEF n
    <2>5. IInv'
        BY <1>1, <1>3, <2>3, <2>4, TailIInv
    <2>6. watermark' >= watermark
        BY <1>1, <2>3
    <2> QED
        BY <2>5, <2>6
<1> QED
    BY <1>4, <1>5

\* Nothing is below the watermark after the list is dropped.
LEMMA ReplayIInv ==
    ASSUME IInv, ReplayFromWatermark
    PROVE  IInv' /\ watermark' = watermark
<1>1. receipts' = <<>> /\ receipts' \in Seq(Receipt) /\ Len(receipts') = 0
    BY EmptySeq DEF ReplayFromWatermark
<1> QED
    BY <1>1 DEF ReplayFromWatermark, IInv, TypeOK, Ordered

\* Every step preserves the invariant and never lowers the watermark.
LEMMA NextIInv ==
    ASSUME IInv, [Next]_vars
    PROVE  IInv' /\ watermark' >= watermark
<1>0. receipts \in Seq(Receipt) /\ watermark \in Nat
      /\ \A i \in 1..Len(receipts) : receipts[i] \in Receipt
    BY ElementOfSeq DEF IInv, TypeOK
<1>1. ASSUME NEW cp \in 1..MaxCheckpoint, Register(cp)
      PROVE  IInv' /\ watermark' >= watermark
    <2>1. IInv'
        BY <1>1, RegisterIInv
    <2>2. watermark' >= watermark
        BY <1>0, <1>1 DEF Register
    <2> QED
        BY <2>1, <2>2
<1>2. ASSUME NEW i \in 1..Len(receipts), Track(i)
      PROVE  IInv' /\ watermark' >= watermark
    <2>1. Tracked(receipts[i]) \in Receipt
          /\ Tracked(receipts[i]).checkpoint = receipts[i].checkpoint
        BY <1>0, ReceiptOperations
    <2>2. receipts' = [receipts EXCEPT ![i] = Tracked(receipts[i])]
          /\ parsed' = parsed /\ watermark' = watermark
        BY <1>2 DEF Track
    <2>3. IInv'
        BY <2>1, <2>2, ReplaceReceipt
    <2> QED
        BY <1>0, <2>2, <2>3
<1>3. ASSUME NEW i \in 1..Len(receipts), NEW outcome \in Outcomes, Settle(i, outcome)
      PROVE  IInv' /\ watermark' >= watermark
    <2>1. Settled(receipts[i], outcome) \in Receipt
          /\ Settled(receipts[i], outcome).checkpoint = receipts[i].checkpoint
        BY <1>0, SettledReceipt
    <2>2. receipts' = [receipts EXCEPT ![i] = Settled(receipts[i], outcome)]
          /\ parsed' = parsed /\ watermark' = watermark
        BY <1>3 DEF Settle
    <2>3. IInv'
        BY <2>1, <2>2, ReplaceReceipt
    <2> QED
        BY <1>0, <2>2, <2>3
<1>4. ASSUME NEW i \in 1..Len(receipts), NEW raised \in BOOLEAN, CloseDispatch(i, raised)
      PROVE  IInv' /\ watermark' >= watermark
    <2> DEFINE r == IF raised THEN Failed(receipts[i]) ELSE receipts[i]
    <2>1. r \in Receipt /\ r.checkpoint = receipts[i].checkpoint
        BY <1>0, ReceiptOperations
    <2>2. receipts' = [receipts EXCEPT ![i] = Closed(r)]
          /\ parsed' = parsed /\ watermark' = watermark
        BY <1>4 DEF CloseDispatch
    <2> HIDE DEF r
    <2>3. Closed(r) \in Receipt /\ Closed(r).checkpoint = receipts[i].checkpoint
        BY <2>1, ReceiptOperations
    <2>4. IInv'
        BY <2>2, <2>3, ReplaceReceipt
    <2> QED
        BY <1>0, <2>2, <2>4
<1>5. CASE Commit
    BY <1>5, CommitIInv
<1>6. CASE ReplayFromWatermark
    BY <1>0, <1>6, ReplayIInv
<1>7. CASE UNCHANGED vars
    BY <1>0, <1>7 DEF vars, IInv, TypeOK, Ordered
<1> QED
    BY <1>1, <1>2, <1>3, <1>4, <1>5, <1>6, <1>7 DEF Next

\* The invariant holds in every reachable state.
THEOREM Inductive == Spec => []IInv
    BY InitIInv, NextIInv, PTL DEF Spec

\* Every variable has its type.
THEOREM TypeCorrect == Spec => []TypeOK
<1>1. IInv => TypeOK
    BY DEF IInv
<1> QED
    BY <1>1, Inductive, PTL

\* Replay from the persisted watermark reaches every receipt still waited for.
THEOREM WatermarkSafe == Spec => []WatermarkBelowOutstanding
<1>1. IInv => WatermarkBelowOutstanding
    BY DEF IInv, WatermarkBelowOutstanding
<1> QED
    BY <1>1, Inductive, PTL

\* A commit never moves the durable watermark backwards.
THEOREM WatermarkNeverFalls == Spec => WatermarkMonotone
<1>1. IInv /\ [Next]_vars => [watermark' >= watermark]_vars
    BY NextIInv
<1> QED
    BY <1>1, Inductive, PTL DEF Spec, WatermarkMonotone

\* On a list in checkpoint order no offset outside the settled run is safe, and
\* inside the run exactly those below the fence are.
LEMMA LargestSafeFromIInv == IInv => OffsetIsLargestSafe
<1> SUFFICES ASSUME IInv PROVE OffsetIsLargestSafe
    OBVIOUS
<1> DEFINE n == SettledPrefix(receipts)
           offset == SettledRunOffset(receipts, n)
           cp(i) == receipts[i].checkpoint
           Allowed(k) == \A j \in 1..Len(receipts) : cp(j) <= cp(k) => InRun(receipts[j])
<1>1. /\ receipts \in Seq(Receipt) /\ Len(receipts) \in Nat /\ n \in 0..Len(receipts)
      /\ \A i \in 1..n : InRun(receipts[i])
      /\ n < Len(receipts) => ~InRun(receipts[n + 1])
    BY LenProperties, SettledPrefixRun DEF IInv, TypeOK
<1>2. \A i \in 1..Len(receipts) : cp(i) \in Nat
    <2>1. \A i \in 1..Len(receipts) : receipts[i] \in Receipt /\ watermark < cp(i)
        BY <1>1, ElementOfSeq DEF IInv
    <2> QED
        BY <2>1 DEF IInv, TypeOK, Receipt, NoCheckpoint
<1>3. \A i, j \in 1..Len(receipts) : i <= j => cp(i) <= cp(j)
    BY <1>1, <1>2 DEF IInv, Ordered
<1>4. ASSUME NEW k \in 1..Len(receipts), Allowed(k)
      PROVE  k <= n /\ (n < Len(receipts) => cp(k) < cp(n + 1))
    <2>1. n < Len(receipts) => ~(cp(n + 1) <= cp(k))
        BY <1>1, <1>4
    <2>2. n < Len(receipts) => cp(k) < cp(n + 1)
        BY <1>1, <1>2, <2>1
    <2>3. CASE n < Len(receipts)
        BY <1>1, <1>2, <1>3, <2>2, <2>3
    <2>4. CASE n = Len(receipts)
        BY <1>1, <2>4
    <2> QED
        BY <1>1, <2>2, <2>3, <2>4
<1>5. SafeOffsets = {cp(k) : k \in {l \in 1..Len(receipts) : Allowed(l)}}
    BY DEF SafeOffsets
<1> HIDE DEF n, Allowed
<1>6. CASE offset = NoOffset
    <2> SUFFICES ASSUME NEW k \in 1..Len(receipts), Allowed(k) PROVE FALSE
        BY <1>5, <1>6 DEF OffsetIsLargestSafe, n
    <2>1. k \in 1..n /\ (n < Len(receipts) => cp(k) < cp(n + 1)) /\ n # 0
        BY <1>1, <1>4
    <2>2. CASE n = Len(receipts)
        <3>1. offset = cp(n)
            BY <1>1, <2>1, <2>2 DEF SettledRunOffset
        <3> QED
            BY <1>1, <1>2, <1>6, <2>1, <3>1 DEF NoOffset
    <2>3. CASE n < Len(receipts)
        <3> DEFINE below == {i \in 1..n : cp(i) < cp(n + 1)}
                   last == CHOOSE i \in below : \A j \in below : j <= i
        <3>1. k \in below /\ cp(n + 1) # NoCheckpoint
            BY <1>1, <1>2, <2>1, <2>3 DEF NoCheckpoint
        <3>2. offset = cp(last)
            <4>1. n \in Nat /\ n > 0 /\ Len(receipts) \in Nat /\ n # Len(receipts)
                BY <1>1, <2>1, <2>3
            <4>2. below # {} /\ receipts[n + 1].checkpoint # NoCheckpoint
                BY <3>1
            <4>3. below = {i \in 1..n : receipts[i].checkpoint < receipts[n + 1].checkpoint}
                OBVIOUS
            <4> HIDE DEF below
            <4> QED
                BY <4>1, <4>2, <4>3 DEF SettledRunOffset
        <3>3. last \in below
            <4>1. below \in SUBSET (1..n) /\ below # {} /\ n \in Nat
                BY <1>1, <3>1
            <4> HIDE DEF below
            <4>2. \E i \in below : \A j \in below : j <= i
                BY <4>1, GreatestNatural
            <4> QED
                BY <4>2
        <3> HIDE DEF last
        <3> QED
            BY <1>1, <1>2, <1>6, <3>2, <3>3 DEF NoOffset
    <2> QED
        BY <1>1, <2>2, <2>3
<1>7. CASE offset # NoOffset
    <2>1. PICK k \in 1..n :
            /\ offset = cp(k)
            /\ \A j \in (n + 1)..Len(receipts) : cp(k) < cp(j)
            /\ \A j \in 1..n : \/ cp(j) <= cp(k)
                               \/ n < Len(receipts) /\ cp(n + 1) <= cp(j)
        BY <1>1, <1>7, SettledRunOffsetBounds DEF IInv, n
    <2>2. k \in 1..Len(receipts) /\ Allowed(k)
        <3>1. ASSUME NEW j \in 1..Len(receipts), cp(j) <= cp(k) PROVE j \in 1..n
            BY <1>1, <1>2, <2>1, <3>1
        <3> QED
            BY <1>1, <3>1 DEF Allowed
    <2>3. ASSUME NEW j \in 1..Len(receipts), Allowed(j) PROVE cp(j) <= offset
        <3>1. j \in 1..n /\ (n < Len(receipts) => cp(j) < cp(n + 1))
            BY <1>1, <1>4, <2>3
        <3>2. ~(n < Len(receipts) /\ cp(n + 1) <= cp(j))
            BY <1>1, <1>2, <3>1
        <3> QED
            BY <2>1, <3>1, <3>2
    <2>4. offset \in SafeOffsets /\ \A c \in SafeOffsets : c <= offset
        BY <1>5, <2>1, <2>2, <2>3
    <2> QED
        BY <1>7, <2>4 DEF OffsetIsLargestSafe, n
<1> QED
    BY <1>6, <1>7

\* settled_prefix and settled_run_offset compute the largest safe offset.
THEOREM LargestSafeOffset == Spec => []OffsetIsLargestSafe
    BY LargestSafeFromIInv, Inductive, PTL
=============================================================================
