----------------------- MODULE DeliveryContractProofs -----------------------
(***************************************************************************)
(* What settled_prefix and settled_run_offset return, for every receipt    *)
(* list: the two CHOOSE expressions of DeliveryContract are well defined,  *)
(* and on a list in checkpoint order the offset lies strictly below every  *)
(* receipt left behind.                                                    *)
(***************************************************************************)
EXTENDS DeliveryContract, TLAPS, WellFoundedInduction, SequenceTheorems

\* A nonempty set of naturals has a least element.
LEMMA LeastNatural ==
    ASSUME NEW S \in SUBSET Nat, S # {}
    PROVE  \E m \in S : \A k \in S : m <= k
<1>1. PICK m \in S : \A k \in S : <<k, m>> \notin OpToRel(<, Nat)
    BY NatLessThanWellFounded, WFMin, Zenon
<1>2. \A k \in S : ~(k < m)
    BY <1>1 DEF OpToRel
<1> QED
    BY <1>2

\* A nonempty set of naturals below n has a greatest element.
LEMMA GreatestNatural ==
    ASSUME NEW n \in Nat, NEW S \in SUBSET (1..n), S # {}
    PROVE  \E m \in S : \A k \in S : k <= m
<1> DEFINE T == {n - k : k \in S}
<1>1. T \in SUBSET Nat /\ T # {}
    <2>1. \A k \in S : k \in 1..n
        OBVIOUS
    <2>2. \A k \in 1..n : n - k \in Nat
        OBVIOUS
    <2>3. PICK k \in S : TRUE
        OBVIOUS
    <2>4. n - k \in T
        BY <2>3
    <2> QED
        BY <2>1, <2>2, <2>4
<1>2. PICK t \in T : \A u \in T : t <= u
    BY <1>1, LeastNatural
<1>3. PICK m \in S : t = n - m
    BY <1>2
<1>4. \A k \in S : n - m <= n - k
    BY <1>2, <1>3
<1> QED
    BY <1>4

\* The operations on a receipt keep its type and its checkpoint.
LEMMA ReceiptOperations ==
    ASSUME NEW r \in Receipt
    PROVE  /\ Tracked(r) \in Receipt /\ Tracked(r).checkpoint = r.checkpoint
           /\ Failed(r) \in Receipt /\ Failed(r).checkpoint = r.checkpoint
           /\ Closed(r) \in Receipt /\ Closed(r).checkpoint = r.checkpoint
<1>1. Tracked(r) \in Receipt /\ Tracked(r).checkpoint = r.checkpoint
    BY DEF Receipt, Tracked
<1>2. Failed(r) \in Receipt /\ Failed(r).checkpoint = r.checkpoint
    BY DEF Receipt, Failed
<1>3. Closed(r) \in Receipt /\ Closed(r).checkpoint = r.checkpoint
    BY DEF Receipt, Closed
<1> QED
    BY <1>1, <1>2, <1>3

\* Settling keeps both as well.
LEMMA SettledReceipt ==
    ASSUME NEW r \in Receipt, NEW outcome
    PROVE  Settled(r, outcome) \in Receipt /\ Settled(r, outcome).checkpoint = r.checkpoint
<1> DEFINE failed == r.failed \/ outcome = "failed"
           pending == r.pending - 1
<1>1. failed \in BOOLEAN
    BY Zenon
<1>2. pending \in Int
    BY DEF Receipt
<1>3. Settled(r, outcome) = [r EXCEPT !.pending = pending, !.failed = failed]
    BY DEF Settled
<1> HIDE DEF failed, pending
<1>4. [r EXCEPT !.pending = pending, !.failed = failed] \in Receipt
    BY <1>1, <1>2 DEF Receipt
<1>5. [r EXCEPT !.pending = pending, !.failed = failed].checkpoint = r.checkpoint
    BY DEF Receipt
<1> QED
    BY <1>3, <1>4, <1>5

\* settled_prefix: the run it returns is settled, and the receipt behind it,
\* if there is one, is not.
LEMMA SettledPrefixRun ==
    ASSUME NEW rs \in Seq(Receipt)
    PROVE  /\ SettledPrefix(rs) \in 0..Len(rs)
           /\ \A i \in 1..SettledPrefix(rs) : InRun(rs[i])
           /\ SettledPrefix(rs) < Len(rs) => ~InRun(rs[SettledPrefix(rs) + 1])
<1> DEFINE Stops == {m \in 0..Len(rs) : m < Len(rs) => ~InRun(rs[m + 1])}
           Run(m) == /\ \A i \in 1..m : InRun(rs[i])
                     /\ m < Len(rs) => ~InRun(rs[m + 1])
<1>1. Len(rs) \in Nat
    BY LenProperties
<1>2. Stops \in SUBSET Nat /\ Stops # {}
    <2>1. Len(rs) \in Stops
        BY <1>1
    <2> QED
        BY <1>1, <2>1
<1>3. PICK m \in Stops : \A k \in Stops : m <= k
    BY <1>2, LeastNatural
<1>4. ASSUME NEW i \in 1..m PROVE InRun(rs[i])
    <2>1. i - 1 \in 0..Len(rs) /\ i - 1 < Len(rs) /\ i - 1 < m
        BY <1>1, <1>3
    <2>2. i - 1 \notin Stops
        BY <1>3, <2>1
    <2> QED
        BY <2>1, <2>2
<1>5. m \in 0..Len(rs) /\ Run(m)
    BY <1>3, <1>4
<1> HIDE DEF Run, Stops
<1>6. SettledPrefix(rs) = CHOOSE n \in 0..Len(rs) : Run(n)
    BY DEF SettledPrefix, Run
<1>7. SettledPrefix(rs) \in 0..Len(rs) /\ Run(SettledPrefix(rs))
    BY <1>5, <1>6
<1> QED
    BY <1>7 DEF Run

\* Checkpoints never decrease along the list.
Ordered(rs) ==
    \A i, j \in 1..Len(rs) : i < j => rs[i].checkpoint <= rs[j].checkpoint

\* settled_run_offset: what it returns is the checkpoint of a receipt of the
\* run, at or above every run receipt's checkpoint that is below the fence, and
\* strictly below every receipt behind the run.
LEMMA SettledRunOffsetBounds ==
    ASSUME NEW rs \in Seq(Receipt), Ordered(rs),
           SettledRunOffset(rs, SettledPrefix(rs)) # NoOffset
    PROVE  \E k \in 1..SettledPrefix(rs) :
              /\ SettledRunOffset(rs, SettledPrefix(rs)) = rs[k].checkpoint
              /\ \A j \in (SettledPrefix(rs) + 1)..Len(rs) :
                    rs[k].checkpoint < rs[j].checkpoint
              /\ \A j \in 1..SettledPrefix(rs) :
                    \/ rs[j].checkpoint <= rs[k].checkpoint
                    \/ /\ SettledPrefix(rs) < Len(rs)
                       /\ rs[SettledPrefix(rs) + 1].checkpoint <= rs[j].checkpoint
<1> DEFINE n == SettledPrefix(rs)
           fence == rs[n + 1].checkpoint
           below == {i \in 1..n : rs[i].checkpoint < fence}
           last == CHOOSE i \in below : \A j \in below : j <= i
<1>1. n \in 0..Len(rs) /\ Len(rs) \in Nat
    BY SettledPrefixRun, LenProperties
<1>2. \A i \in 1..Len(rs) : rs[i].checkpoint \in Int
    <2>1. \A i \in 1..Len(rs) : rs[i] \in Receipt
        BY ElementOfSeq
    <2> QED
        BY <2>1 DEF Receipt, NoCheckpoint
<1> HIDE DEF n
<1>3. n # 0
    BY <1>1 DEF SettledRunOffset, n
<1>4. CASE n = Len(rs)
    <2>1. SettledRunOffset(rs, n) = rs[n].checkpoint
        BY <1>1, <1>3, <1>4 DEF SettledRunOffset
    <2>2. \A j \in 1..n : rs[j].checkpoint <= rs[n].checkpoint
        BY <1>1, <1>2, <1>3, <1>4 DEF Ordered
    <2> QED
        BY <1>1, <1>3, <1>4, <2>1, <2>2 DEF n
<1>5. CASE n < Len(rs)
    <2>1. below # {} /\ SettledRunOffset(rs, n) = rs[last].checkpoint
        <3>1. n > 0 /\ n # Len(rs)
            BY <1>1, <1>3, <1>5
        <3>2. fence = NoCheckpoint \/ below = {} => SettledRunOffset(rs, n) = NoOffset
            BY <1>5, <3>1 DEF SettledRunOffset
        <3>3. fence # NoCheckpoint /\ below # {} => SettledRunOffset(rs, n) = rs[last].checkpoint
            BY <1>5, <3>1 DEF SettledRunOffset
        <3> QED
            BY <3>2, <3>3 DEF n
    <2>2. last \in below /\ \A j \in below : j <= last
        <3>1. \E i \in below : \A j \in below : j <= i
            <4>1. n \in Nat /\ below \in SUBSET (1..n)
                BY <1>1
            <4> HIDE DEF below
            <4> QED
                BY <2>1, <4>1, GreatestNatural
        <3> HIDE DEF below
        <3> QED
            BY <3>1
    <2> HIDE DEF last
    <2>3. \A j \in (n + 1)..Len(rs) : fence <= rs[j].checkpoint
        BY <1>1, <1>2, <1>5 DEF Ordered
    <2>4. \A j \in 1..n : rs[j].checkpoint <= rs[last].checkpoint \/ fence <= rs[j].checkpoint
        <3> SUFFICES ASSUME NEW j \in 1..n, rs[j].checkpoint < fence
                     PROVE  rs[j].checkpoint <= rs[last].checkpoint
            BY <1>1, <1>2, <1>5
        <3>1. j <= last /\ last \in 1..Len(rs) /\ j \in 1..Len(rs)
            BY <1>1, <2>2
        <3> QED
            BY <1>2, <3>1 DEF Ordered
    <2>5. \A j \in (n + 1)..Len(rs) : rs[last].checkpoint < rs[j].checkpoint
        BY <1>1, <1>2, <1>5, <2>2, <2>3
    <2> QED
        BY <1>5, <2>1, <2>2, <2>4, <2>5 DEF n
<1> QED
    BY <1>1, <1>4, <1>5
=============================================================================
