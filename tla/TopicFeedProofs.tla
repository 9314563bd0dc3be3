-------------------------- MODULE TopicFeedProofs --------------------------
(***************************************************************************)
(* What holds of every topic, whatever the transcript, the batch mode and  *)
(* the faults.                                                             *)
(*                                                                         *)
(* Every action is shown to be one of few cases: Flow says what it does to *)
(* the queue and to the task, Display what it does to the batch and to the *)
(* messages.  The parts of the invariant are then kept case by case, each  *)
(* resting on the ones before it: the messages that are pointed at, the    *)
(* order of the queue, what has been reached, the order of the display,    *)
(* that nothing is shown twice, and that what was delivered can be read.   *)
(***************************************************************************)
EXTENDS TopicFeed, FiniteSetTheorems, SequenceTheorems, WellFoundedInduction, TLAPS

\* A nonempty set of naturals with an upper bound has a greatest element.
LEMMA MaxIn == ASSUME NEW S \in SUBSET Nat, NEW n \in Nat, S # {}, \A s \in S : s <= n
               PROVE  Max(S) \in S /\ \A s \in S : s <= Max(S)
<1> DEFINE Slack == {k \in Nat : n - k \in S}
<1>1. PICK s \in S : TRUE
    OBVIOUS
<1>2. n - s \in Slack
    <2>1. s \in Nat /\ s <= n /\ n - (n - s) = s
        BY <1>1
    <2> QED  BY <2>1, <1>1
<1>3. PICK k \in Slack : \A j \in Slack : ~(<<j, k>> \in OpToRel(<, Nat))
    <2>1. Slack \subseteq Nat /\ Slack # {}
        BY <1>2
    <2> HIDE DEF Slack
    <2> QED  BY <2>1, NatLessThanWellFounded, WFMin
<1>4. \A j \in Slack : ~(j < k)
    BY <1>3 DEF OpToRel
<1>5. n - k \in S /\ \A t \in S : t <= n - k
    <2>1. k \in Nat /\ n - k \in S
        BY <1>3
    <2>2. ASSUME NEW t \in S PROVE t <= n - k
        <3>1. t \in Nat /\ t <= n /\ n - t \in Nat /\ n - (n - t) = t
            OBVIOUS
        <3>2. n - t \in Slack
            BY <3>1
        <3>3. ~(n - t < k)
            BY <3>2, <1>4
        <3> QED  BY <3>1, <3>3, <2>1
    <2> QED  BY <2>1, <2>2
<1>6. \E x \in S : \A y \in S : x >= y
    <2>1. \A t \in S : n - k >= t
        BY <1>5
    <2> QED  BY <2>1, <1>5
<1> HIDE DEF Slack
<1> DEFINE G(x) == x \in S /\ \A y \in S : x >= y
<1>7. Max(S) = CHOOSE x : G(x)
    BY DEF Max
<1>8. \E x : G(x)
    BY <1>6
<1>9. G(CHOOSE x : G(x))
    <2> HIDE DEF G
    <2> QED  BY <1>8
<1>10. G(Max(S))
    BY <1>7, <1>9
<1>11. Max(S) \in S /\ \A y \in S : Max(S) >= y
    BY <1>10
<1> QED  BY <1>11

\* The least of two naturals.
LEMMA MinOfTwo == ASSUME NEW a \in Nat, NEW b \in Nat
                  PROVE  Min({a, b}) \in Nat /\ Min({a, b}) <= a /\ Min({a, b}) <= b
<1>1. CASE a <= b
    <2>1. \A y \in {a, b} : a =< y
        BY <1>1
    <2>2. \A x \in {a, b} : (\A y \in {a, b} : x =< y) => x = a
        BY <1>1
    <2>3. Min({a, b}) = a
        BY <2>1, <2>2 DEF Min
    <2> QED  BY <2>3, <1>1
<1>2. CASE b <= a
    <2>1. \A y \in {a, b} : b =< y
        BY <1>2
    <2>2. \A x \in {a, b} : (\A y \in {a, b} : x =< y) => x = b
        BY <1>2
    <2>3. Min({a, b}) = b
        BY <2>1, <2>2 DEF Min
    <2> QED  BY <2>3, <1>2
<1> QED  BY <1>1, <1>2

-----------------------------------------------------------------------------
(* Taking positions out of a sequence.                                      *)

Rank(P, j) == Cardinality({i \in P : i <= j})

\* Ranks of the positions of a finite set.
LEMMA RankGrows ==
    ASSUME NEW n \in Nat, NEW P \in SUBSET (1..n)
    PROVE  /\ IsFiniteSet(P)
           /\ Cardinality(P) \in Nat
           /\ \A j \in P : Rank(P, j) \in 1..Cardinality(P)
           /\ \A j, k \in P : j < k => Rank(P, j) < Rank(P, k)
<1>1. IsFiniteSet(P) /\ Cardinality(P) \in Nat
    <2>1. IsFiniteSet(1..n)
        BY FS_Interval
    <2>2. IsFiniteSet(P)
        BY <2>1, FS_Subset
    <2> QED  BY <2>2, FS_CardinalityType
<1>2. \A j \in P : /\ IsFiniteSet({i \in P : i <= j}) /\ Rank(P, j) \in Nat
                   /\ Rank(P, j) <= Cardinality(P)
    <2> TAKE j \in P
    <2>1. {i \in P : i <= j} \in SUBSET P
        OBVIOUS
    <2> QED  BY <1>1, <2>1, FS_Subset, FS_CardinalityType DEF Rank
<1>3. \A j \in P : Rank(P, j) # 0
    <2> TAKE j \in P
    <2>1. j \in {i \in P : i <= j}
        OBVIOUS
    <2>2. {i \in P : i <= j} # {}
        BY <2>1
    <2> QED  BY <1>2, <2>2, FS_EmptySet DEF Rank
<1>4. ASSUME NEW j \in P, NEW k \in P, j < k PROVE Rank(P, j) < Rank(P, k)
    <2>1. {i \in P : i <= j} \in SUBSET {i \in P : i <= k}
        <3>1. j \in Nat /\ k \in Nat /\ \A i \in P : i \in Nat
            OBVIOUS
        <3>2. \A i \in P : i <= j => i <= k
            BY <3>1, <1>4
        <3> QED  BY <3>2
    <2>2. k \in {i \in P : i <= k} /\ k \notin {i \in P : i <= j}
        <3>1. j \in Nat /\ k \in Nat
            OBVIOUS
        <3> QED  BY <3>1, <1>4
    <2>3. IsFiniteSet({i \in P : i <= k}) /\ Rank(P, j) \in Nat /\ Rank(P, k) \in Nat
        BY <1>2
    <2>4. {i \in P : i <= k} # {i \in P : i <= j}
        BY <2>2
    <2>5. Rank(P, j) <= Rank(P, k) /\ Rank(P, j) # Rank(P, k)
        <3> DEFINE A == {i \in P : i <= j}
                   B == {i \in P : i <= k}
        <3>1. A \in SUBSET B /\ IsFiniteSet(B) /\ A # B
            BY <2>1, <2>3, <2>4
        <3>2. Rank(P, j) = Cardinality(A) /\ Rank(P, k) = Cardinality(B)
            BY DEF Rank
        <3> HIDE DEF A, B
        <3>3. Cardinality(A) <= Cardinality(B) /\ (Cardinality(B) = Cardinality(A) => B = A)
            BY <3>1, FS_Subset
        <3> QED  BY <3>1, <3>2, <3>3
    <2> QED  BY <2>3, <2>5
<1>5. \A j \in P : Rank(P, j) \in 1..Cardinality(P)
    <2> TAKE j \in P
    <2>1. Rank(P, j) \in Nat /\ Rank(P, j) <= Cardinality(P) /\ Rank(P, j) # 0
        BY <1>2, <1>3
    <2> QED  BY <2>1, <1>1
<1>6. \A j, k \in P : j < k => Rank(P, j) < Rank(P, k)
    BY <1>4
<1> QED  BY <1>1, <1>5, <1>6

\* Nth and Rank are inverse.
LEMMA NthOk ==
    ASSUME NEW n \in Nat, NEW P \in SUBSET (1..n)
    PROVE  /\ \A k \in 1..Cardinality(P) : Nth(P, k) \in P /\ Rank(P, Nth(P, k)) = k
           /\ \A j \in P : Nth(P, Rank(P, j)) = j
<1> DEFINE c == Cardinality(P)
<1> DEFINE f == [j \in P |-> Rank(P, j)]
<1>1. /\ IsFiniteSet(P) /\ c \in Nat
      /\ \A j \in P : Rank(P, j) \in 1..c
      /\ \A j, k \in P : j < k => Rank(P, j) < Rank(P, k)
    BY RankGrows
<1>2. \A j, k \in P : Rank(P, j) = Rank(P, k) => j = k
    <2> TAKE j \in P, k \in P
    <2>1. j \in Int /\ k \in Int /\ Rank(P, j) \in Int /\ Rank(P, k) \in Int
        BY <1>1
    <2>2. /\ j < k => Rank(P, j) < Rank(P, k)
          /\ k < j => Rank(P, k) < Rank(P, j)
        BY <1>1
    <2> QED  BY <2>1, <2>2
<1>3. f \in Injection(P, 1..c)
    BY <1>1, <1>2 DEF Injection, IsInjective
<1>4. IsFiniteSet(1..c) /\ Cardinality(1..c) = c
    <2>1. 1 \in Int /\ c \in Int
        BY <1>1
    <2>2. IsFiniteSet(1..c) /\ Cardinality(1..c) = IF 1 > c THEN 0 ELSE c - 1 + 1
        BY <2>1, FS_Interval
    <2> HIDE DEF c
    <2> QED  BY <2>2, <1>1
<1>5. f \in Surjection(P, 1..c)
    BY <1>3, <1>4, FS_Injection
<1>6. \A k \in 1..c : \E j \in P : Rank(P, j) = k
    BY <1>5 DEF Surjection
<1>7. \A k \in 1..c : Nth(P, k) \in P /\ Rank(P, Nth(P, k)) = k
    BY <1>6 DEF Nth, Rank
<1>8. \A j \in P : Nth(P, Rank(P, j)) = j
    BY <1>1, <1>2, <1>7
<1> QED  BY <1>7, <1>8

\* q is seq without the positions in P.
Thins(q, seq, P) ==
    \E at \in [DOMAIN q -> DOMAIN seq \ P] :
        /\ \A k \in DOMAIN q : q[k] = seq[at[k]]
        /\ \A j, k \in DOMAIN q : j < k => at[j] < at[k]
        /\ \A i \in DOMAIN seq \ P : \E k \in DOMAIN q : at[k] = i

\* What remains keeps its order, and nothing else is lost.
LEMMA WithoutOk ==
    ASSUME NEW S, NEW seq \in Seq(S), NEW P \in SUBSET (DOMAIN seq)
    PROVE  /\ Without(seq, P) \in Seq(S)
           /\ IsFiniteSet(P) /\ Cardinality(P) \in Nat
           /\ Len(Without(seq, P)) = Len(seq) - Cardinality(P)
           /\ Thins(Without(seq, P), seq, P)
<1> DEFINE kept == DOMAIN seq \ P
           c == Cardinality(kept)
           at == [k \in 1..c |-> Nth(kept, k)]
<1>1. Len(seq) \in Nat /\ DOMAIN seq = 1..Len(seq) /\ kept \in SUBSET (1..Len(seq))
    OBVIOUS
<1>2. /\ c \in Nat
      /\ \A k \in 1..c : Nth(kept, k) \in kept /\ Rank(kept, Nth(kept, k)) = k
      /\ \A j \in kept : Rank(kept, j) \in 1..c /\ Nth(kept, Rank(kept, j)) = j
      /\ \A j, k \in kept : j < k => Rank(kept, j) < Rank(kept, k)
    <2> HIDE DEF kept
    <2> QED  BY <1>1, RankGrows, NthOk
<1>3. Without(seq, P) = [k \in 1..c |-> seq[Nth(kept, k)]]
    BY DEF Without
<1>4. \A k \in 1..c : seq[Nth(kept, k)] \in S
    <2>1. \A i \in 1..Len(seq) : seq[i] \in S
        BY ElementOfSeq
    <2>2. \A k \in 1..c : Nth(kept, k) \in 1..Len(seq)
        BY <1>1, <1>2
    <2> QED  BY <2>1, <2>2
<1>5. Without(seq, P) \in Seq(S) /\ DOMAIN Without(seq, P) = 1..c /\ Len(Without(seq, P)) = c
    <2> HIDE DEF c, kept
    <2> QED  BY <1>2, <1>3, <1>4
<1>6. IsFiniteSet(P) /\ Cardinality(P) \in Nat /\ c = Len(seq) - Cardinality(P)
    <2>1. IsFiniteSet(1..Len(seq)) /\ Cardinality(1..Len(seq)) = Len(seq)
        <3> DEFINE n == Len(seq)
        <3>1. 1 \in Int /\ n \in Int /\ n \in Nat
            BY <1>1
        <3> HIDE DEF n
        <3>2. IsFiniteSet(1..n) /\ Cardinality(1..n) = IF 1 > n THEN 0 ELSE n - 1 + 1
            BY <3>1, FS_Interval
        <3>3. IsFiniteSet(1..n) /\ Cardinality(1..n) = n
            BY <3>1, <3>2
        <3> QED  BY <3>3 DEF n
    <2>2. IsFiniteSet(P) /\ IsFiniteSet(kept) /\ Cardinality(P) \in Nat
        BY <2>1, <1>1, FS_Subset, FS_CardinalityType
    <2>3. kept \cup P = 1..Len(seq) /\ kept \cap P = {}
        BY <1>1
    <2>4. Cardinality(kept \cup P) = c + Cardinality(P) - Cardinality(kept \cap P)
        BY <2>2, FS_Union
    <2>5. Cardinality(kept \cap P) = 0
        BY <2>3, FS_EmptySet
    <2>6. Cardinality(kept \cup P) = Len(seq)
        BY <2>1, <2>3
    <2> HIDE DEF kept
    <2>7. Len(seq) = c + Cardinality(P) - 0
        BY <2>4, <2>5, <2>6
    <2> HIDE DEF c
    <2> QED  BY <2>2, <2>7, <1>1, <1>2
<1>7. at \in [DOMAIN Without(seq, P) -> kept]
    BY <1>2, <1>5
<1>8. \A k \in DOMAIN Without(seq, P) : Without(seq, P)[k] = seq[at[k]]
    BY <1>3, <1>5
<1>9. ASSUME NEW j \in DOMAIN Without(seq, P), NEW k \in DOMAIN Without(seq, P), j < k
      PROVE  at[j] < at[k]
    <2>0. j \in 1..c /\ k \in 1..c
        BY <1>5
    <2>1. /\ at[j] = Nth(kept, j) /\ at[k] = Nth(kept, k)
          /\ Nth(kept, j) \in kept /\ Nth(kept, k) \in kept
          /\ Rank(kept, Nth(kept, j)) = j /\ Rank(kept, Nth(kept, k)) = k
          /\ j \in Nat /\ k \in Nat
        <3>1. at[j] = Nth(kept, j) /\ at[k] = Nth(kept, k)
            BY <2>0
        <3> HIDE DEF at, c, kept
        <3> QED  BY <3>1, <2>0, <1>2
    <2>2. Nth(kept, j) \in Nat /\ Nth(kept, k) \in Nat
        BY <2>1, <1>1
    <2>3. Nth(kept, k) < Nth(kept, j) => k < j
        BY <2>1, <1>2
    <2> HIDE DEF at, kept
    <2> QED  BY <2>1, <2>2, <2>3, <1>9
<1>10. ASSUME NEW i \in kept PROVE \E k \in DOMAIN Without(seq, P) : at[k] = i
    <2>1. Rank(kept, i) \in 1..c /\ Nth(kept, Rank(kept, i)) = i
        BY <1>2
    <2> QED  BY <2>1, <1>5
<1> HIDE DEF at
<1>11. /\ at \in [DOMAIN Without(seq, P) -> DOMAIN seq \ P]
       /\ \A k \in DOMAIN Without(seq, P) : Without(seq, P)[k] = seq[at[k]]
       /\ \A j, k \in DOMAIN Without(seq, P) : j < k => at[j] < at[k]
       /\ \A i \in DOMAIN seq \ P : \E k \in DOMAIN Without(seq, P) : at[k] = i
    BY <1>7, <1>8, <1>9, <1>10
<1>12. Thins(Without(seq, P), seq, P)
    BY <1>11 DEF Thins
<1> QED  BY <1>5, <1>6, <1>12

-----------------------------------------------------------------------------
(* The inductive invariant.                                                 *)

Ids    == 1..Len(feed)
Said   == Texts \cup {None}
Tasks  == [kind : StatusKinds \cup {"content"}, body : Seq(Ids), text : Said]
IdWorks == [kind : StatusKinds \cup {"content"}, body : Seq(Ids), text : Said,
           chosen : Said, merged : Nat, then : Aims \cup {"none"}, pc : Pcs]
IdBatches == [entries : Seq(Ids), msg : Nat,
            draft : {"none", "unset", "streaming", "legacy"}, last : Seq(Ids)]
Messages == [kind : {"batch", "content", "status"}, body : Seq(Ids),
             state : {"up", "gone", "undeleted"}]
Outcomes == {"open", "delivered", "failed", "dropped"}

\* The types: entries are positions of the transcript.
FeedTypeOK ==
    /\ feed \in Seq(Entries)
    /\ mode \in {"batched", "ephemeral", "verbose"}
    /\ published \in 0..Len(feed)
    /\ queue \in Seq(Tasks)
    /\ pending \subseteq StatusKinds
    /\ unfinished \in Int
    /\ work \in IdWorks \cup {None}
    /\ batch \in IdBatches \cup {None}
    /\ status \in Statuses \cup {None}
    /\ toolMsgs \subseteq [call : Ids, msg : Nat]
    /\ settled \in [Ids -> Outcomes]
    /\ chat \in Seq(Messages)
    /\ asked \in Nat /\ faults \in Nat
    /\ flushFailed \in BOOLEAN /\ toolRetried \in BOOLEAN /\ suppressed \in BOOLEAN

\* Every task is counted once; one update of a kind is queued, and then pending.
Queued ==
    /\ unfinished = Len(queue) + (IF work = None THEN 0 ELSE 1 + work.merged)
    /\ \A j, k \in DOMAIN queue :
           queue[j].kind # "content" /\ queue[j].kind = queue[k].kind => j = k
    /\ \A kind \in StatusKinds :
           kind \in pending <=> \E j \in DOMAIN queue : queue[j].kind = kind

\* A queued text or tool is one entry; an update is none.
QueueBodies == \A j \in DOMAIN queue :
    Len(queue[j].body) = IF queue[j].kind = "content" THEN 1 ELSE 0

\* Only texts are merged.
WorkBody ==
    IF work.kind = "content"
    THEN work.body # <<>> /\ (IsTool(work.body[1]) => Len(work.body) = 1)
    ELSE work.body = <<>>

\* Where the worker is, or where it goes after the flush.
Aim == IF work.pc \in Flushing THEN work.then ELSE work.pc

\* What the worker knows at the place where it is.
PcOK ==
    /\ WorkBody
    /\ work.pc \notin {"content", "toolEdit", "send"} => work.merged = 0
    /\ Aim \in {"overflow", "merge", "content", "toolEdit", "send", "deliver", "open",
                "edit"} => work.kind = "content"
    /\ Aim \in {"update", "statusEdit", "statusSend"} => work.kind \in {"busy", "note"}
    /\ Aim = "clear" => work.kind = "clear"
    /\ work.pc \in Flushing => work.then \in Aims
    /\ Aim = "overflow" => IsCall(work.body[1]) /\ mode = "batched"
    /\ Aim = "merge" => (IsTool(work.body[1]) => mode = "verbose")
    /\ Aim \in {"content", "toolEdit", "send"} =>
           (feed[work.body[1]].kind = "use" => mode = "verbose")
    /\ Aim = "toolEdit" => /\ feed[work.body[1]].kind = "result"
                           /\ \E m \in toolMsgs : m.call = feed[work.body[1]].of
    /\ Aim \in {"deliver", "open", "edit"} =>
           /\ IsTool(work.body[1]) /\ batch # None
           /\ IF IsCall(work.body[1]) THEN work.body[1] \in Range(batch.entries)
              ELSE feed[work.body[1]].of \in Range(batch.entries)
    /\ Aim = "open" => batch.msg = 0 /\ batch.draft = "none"
    /\ Aim = "edit" => batch.msg # 0 \/ batch.draft = "streaming"
    /\ Aim = "statusEdit" => status # None
    /\ Aim = "statusSend" => status = None
    /\ work.pc = "flushDelete" => mode = "ephemeral" /\ batch # None /\ batch.msg # 0
    /\ work.pc = "flushOpen" => mode = "batched" /\ batch # None /\ batch.draft = "unset"
    /\ work.pc = "flushFinal" => mode = "batched" /\ batch # None
                                  /\ batch.draft \in {"streaming", "legacy"}
    /\ work.pc \in {"merge", "content", "toolEdit", "send"} => batch = None \/ flushFailed

\* The batch has a message that is up exactly when it has its number; its message
\* shows what was sent last, and when it is gathered for good nothing but its calls.
BatchOK ==
    /\ mode # "verbose"
    /\ batch.entries # <<>>
    /\ \A p \in DOMAIN batch.entries :
          IF mode = "batched" THEN feed[batch.entries[p]].kind = "use"
                              ELSE IsCall(batch.entries[p])
    /\ mode = "ephemeral" => batch.draft = "none"
    /\ mode = "batched" => (batch.msg # 0 <=> batch.draft = "legacy")
    /\ batch.msg # 0 =>
          /\ batch.msg \in DOMAIN chat
          /\ Up(batch.msg) /\ chat[batch.msg].kind = "batch"
          /\ Range(batch.last) \subseteq Range(chat[batch.msg].body)
          /\ mode = "batched" => Range(chat[batch.msg].body) \subseteq Range(batch.entries)
    /\ batch.draft = "unset" \/ (batch.draft = "none" /\ batch.msg = 0) => batch.last = <<>>
    /\ batch.draft = "streaming" => Range(batch.last) \subseteq previewed

\* The messages that the status, the calls and the batch point at.
StatusOK == status # None => status.msg \in DOMAIN chat /\ chat[status.msg].kind = "status"

ToolMsgsOK == \A t \in toolMsgs :
    /\ t.msg \in DOMAIN chat /\ Up(t.msg) /\ chat[t.msg].kind = "content"
    /\ chat[t.msg].body = <<t.call>>
    /\ IsCall(t.call)
    /\ feed[t.call].kind = "use" => mode = "verbose"

\* What each kind of message may be.
ChatOK == \A m \in DOMAIN chat :
    /\ chat[m].kind = "status" => chat[m].body = <<>>
    /\ chat[m].kind = "content" => Up(m)
    /\ chat[m].kind = "batch" => \A e \in Range(chat[m].body) : IsCall(e)
    /\ chat[m].kind = "batch" /\ mode = "batched" => Up(m)

\* Entries up to which the transcript has been handled.
Reached(e) ==
    /\ e <= published
    /\ \A j \in DOMAIN queue : queue[j].kind = "content" => e < queue[j].body[1]
    /\ (work # None /\ work.kind = "content") => e <= work.body[1]

Increasing(s) == \A p, q \in DOMAIN s : p < q => s[p] < s[q]

\* The queue and the task hold the transcript in its order.
FeedInOrder ==
    /\ \A j \in DOMAIN queue : queue[j].kind = "content" => queue[j].body[1] <= published
    /\ \A j, k \in DOMAIN queue :
          (queue[j].kind = "content" /\ queue[k].kind = "content" /\ j < k)
              => queue[j].body[1] < queue[k].body[1]
    /\ (work # None /\ work.kind = "content") =>
          /\ Increasing(work.body)
          /\ \A p \in DOMAIN work.body :
                /\ work.body[p] <= published
                /\ \A j \in DOMAIN queue :
                      queue[j].kind = "content" => work.body[p] < queue[j].body[1]

\* What is on display, or in the batch, has been taken from the queue.
Behind ==
    /\ \A m \in DOMAIN chat : \A e \in Range(chat[m].body) : Reached(e)
    /\ batch # None => \A e \in Range(batch.entries) : Reached(e)

Shows(m, e) == m \in DOMAIN chat /\ Up(m) /\ e \in Range(chat[m].body)
Plain(e) == feed[e].kind # "result"

\* OrderKept, and what the batch may still show comes after what is shown.
Ordered ==
    ~flushFailed =>
       /\ \A m, n \in DOMAIN chat : m < n =>
            \A e, f \in Ids : (Shows(m, e) /\ Shows(n, f) /\ Plain(e) /\ Plain(f)) => e <= f
       /\ batch # None => \A m \in DOMAIN chat, e \in Ids :
            (Shows(m, e) /\ Plain(e) /\ m # batch.msg) =>
                /\ \A f \in Range(batch.entries) : e <= f
                /\ batch.msg # 0 => m < batch.msg

Distinct(s) == \A p, q \in DOMAIN s : s[p] = s[q] => p = q

\* Nothing is shown by two messages, or twice by one.
OnceShown ==
    /\ \A m, n \in DOMAIN chat : \A e \in Ids : Shows(m, e) /\ Shows(n, e) => m = n
    /\ \A m \in DOMAIN chat : Up(m) => Distinct(chat[m].body)

\* What the batch holds is shown by its message only.
OnceHeld == batch # None =>
    /\ Distinct(batch.entries)
    /\ \A e \in Range(batch.entries), m \in DOMAIN chat : Shows(m, e) => m = batch.msg

\* What the worker is about is not shown yet, and in the batch only once it entered it.
OnceAt == (work # None /\ work.kind = "content") =>
    /\ \A m \in DOMAIN chat : ~Shows(m, work.body[1])
    /\ (batch # None /\ work.body[1] \in Range(batch.entries)) =>
          work.pc \in {"deliver", "open", "edit"} /\ IsCall(work.body[1])

Once == ~toolRetried => OnceShown /\ OnceHeld /\ OnceAt

Seen(e) == \E m \in DOMAIN chat : Shows(m, e)

\* The receipt of i may say delivered.
Accounted(i) ==
    \/ Seen(i)
    \/ IsCall(i) /\ (i \in previewed \/ \E r \in ResultsOf(i) : Seen(r))
    \/ /\ feed[i].kind = "result" /\ mode = "batched" /\ feed[feed[i].of].kind = "use"
       /\ Seen(feed[i].of) \/ feed[i].of \in previewed

\* DeliveredIsShown, with the ways in which a tool is accounted for.
Delivered == \A i \in DOMAIN settled :
    (settled[i] = "delivered" /\ ~(mode = "ephemeral" /\ IsTool(i))) => Accounted(i)

PcInv == work # None => PcOK
BatchInv == batch # None => BatchOK

LEMMA IdSeqs == Ids \subseteq Nat /\ Seq(Ids) \subseteq Seq(Nat)
<1>1. Ids \subseteq Nat
    BY DEF Ids
<1>2. \A s \in Seq(Ids) : s \in Seq(Nat)
    BY <1>1, SeqMonotonic
<1> QED  BY <1>1, <1>2

LEMMA NoneIsNothing == None \notin IdWorks /\ None \notin IdBatches /\ None \notin Statuses
<1>1. ASSUME None \in IdWorks PROVE FALSE
    <2>1. None \in Works
        BY <1>1, IdSeqs DEF Works, IdWorks, Said
    <2> QED  BY <2>1, FeedAssumption
<1>2. ASSUME None \in IdBatches PROVE FALSE
    <2>1. None \in Batches
        BY <1>2, IdSeqs DEF Batches, IdBatches
    <2> QED  BY <2>1, FeedAssumption
<1> QED  BY <1>1, <1>2, FeedAssumption

\* The same task at another place.
SameTask ==
    /\ work' \in IdWorks /\ work' # None
    /\ work'.kind = work.kind /\ work'.body = work.body /\ work'.text = work.text

Moved(pc) ==
    /\ SameTask
    /\ work'.merged = work.merged /\ work'.then = work.then /\ work'.chosen = work.chosen
    /\ work'.pc = pc

ToFlush(then) ==
    /\ SameTask
    /\ work'.merged = work.merged /\ work'.then = then /\ work'.chosen = work.chosen
    /\ work'.pc = "flush"

Again ==
    /\ SameTask
    /\ work'.merged = 0 /\ work'.then = "none" /\ work'.chosen = None
    /\ work'.pc = "dispatch"

LEMMA GoToMoves ==
    ASSUME work \in IdWorks, NEW pc \in Pcs, GoTo(pc)
    PROVE  Moved(pc)
BY NoneIsNothing DEF GoTo, Moved, SameTask, IdWorks

LEMMA FlushMoves ==
    ASSUME work \in IdWorks, NEW then \in Aims,
           work' = [work EXCEPT !.pc = "flush", !.then = then]
    PROVE  ToFlush(then)
BY NoneIsNothing DEF ToFlush, SameTask, IdWorks, Pcs, Flushing, Aims

LEMMA FloodMoves ==
    ASSUME work \in IdWorks,
           work' = [work EXCEPT !.pc = "dispatch", !.merged = 0, !.chosen = None, !.then = "none"]
    PROVE  Again
<1>1. "dispatch" \in Pcs /\ None \in Said /\ 0 \in Nat /\ "none" \in Aims \cup {"none"}
    BY DEF Pcs, Said
<1>2. work' \in IdWorks
    BY <1>1 DEF IdWorks
<1>3. /\ work'.kind = work.kind /\ work'.body = work.body /\ work'.text = work.text
      /\ work'.merged = 0 /\ work'.then = "none" /\ work'.chosen = None
      /\ work'.pc = "dispatch"
    BY DEF IdWorks
<1> QED  BY <1>2, <1>3, NoneIsNothing DEF Again, SameTask

LEMMA WorkFields ==
    ASSUME FeedTypeOK, work # None
    PROVE  /\ work \in IdWorks /\ work.kind \in StatusKinds \cup {"content"}
           /\ work.body \in Seq(Ids) /\ work.text \in Said /\ work.chosen \in Said
           /\ work.merged \in Nat /\ work.then \in Aims \cup {"none"} /\ work.pc \in Pcs
BY DEF FeedTypeOK, IdWorks

\* The entry a content task is about.
LEMMA FirstEntry ==
    ASSUME FeedTypeOK, PcInv, work # None, work.kind = "content"
    PROVE  /\ work.body[1] \in Ids /\ Len(work.body) \in Nat /\ Len(work.body) >= 1
           /\ work.body[1] \in Range(work.body)
           /\ IsTool(work.body[1]) => Len(work.body) = 1 /\ Range(work.body) = {work.body[1]}
<1>1. work.body \in Seq(Ids) /\ work.body # <<>> /\ (IsTool(work.body[1]) => Len(work.body) = 1)
    BY WorkFields DEF PcInv, PcOK, WorkBody
<1>2. Len(work.body) \in Nat /\ Len(work.body) >= 1 /\ 1 \in 1..Len(work.body)
      /\ DOMAIN work.body = 1..Len(work.body)
    BY <1>1, EmptySeq
<1>3. work.body[1] \in Ids
    BY <1>1, <1>2, ElementOfSeq
<1>4. Len(work.body) = 1 => Range(work.body) = {work.body[1]}
    BY <1>2 DEF Range
<1>5. work.body[1] \in Range(work.body)
    BY <1>2 DEF Range
<1> QED  BY <1>1, <1>2, <1>3, <1>4, <1>5

-----------------------------------------------------------------------------
(* What the calls do to the messages.                                       *)

Sent(kind, body) ==
    /\ chat' \in Seq(Messages)
    /\ Len(chat) \in Nat /\ Len(chat') = Len(chat) + 1
    /\ \A m \in DOMAIN chat : m \in DOMAIN chat' /\ chat'[m] = chat[m]
    /\ \A m \in DOMAIN chat' : m \in DOMAIN chat \/ m = Len(chat) + 1
    /\ Len(chat) + 1 \in DOMAIN chat' /\ Len(chat) + 1 \notin DOMAIN chat
    /\ chat'[Len(chat) + 1].kind = kind /\ chat'[Len(chat) + 1].body = body
    /\ chat'[Len(chat) + 1].state = "up"

Edited(msg, body) ==
    /\ chat' \in Seq(Messages) /\ DOMAIN chat' = DOMAIN chat /\ Len(chat') = Len(chat)
    /\ \A m \in DOMAIN chat \ {msg} : chat'[m] = chat[m]
    /\ chat'[msg].kind = chat[msg].kind /\ chat'[msg].state = chat[msg].state
    /\ chat'[msg].body = body

Erased(msg) ==
    /\ chat' \in Seq(Messages) /\ DOMAIN chat' = DOMAIN chat /\ Len(chat') = Len(chat)
    /\ \A m \in DOMAIN chat \ {msg} : chat'[m] = chat[m]
    /\ chat'[msg].kind = chat[msg].kind /\ chat'[msg].body = chat[msg].body
    /\ chat'[msg].state # "up"

LEMMA MessageFields ==
    ASSUME chat \in Seq(Messages), NEW m \in DOMAIN chat
    PROVE  /\ chat[m] \in Messages /\ chat[m].kind \in {"batch", "content", "status"}
           /\ chat[m].body \in Seq(Ids) /\ chat[m].state \in {"up", "gone", "undeleted"}
           /\ m \in Nat /\ m >= 1 /\ m <= Len(chat) /\ Len(chat) \in Nat
           /\ DOMAIN chat = 1..Len(chat)
<1>1. m \in 1..Len(chat) /\ Len(chat) \in Nat /\ DOMAIN chat = 1..Len(chat)
    BY LenProperties
<1>2. chat[m] \in Messages
    BY <1>1, ElementOfSeq
<1> QED  BY <1>1, <1>2 DEF Messages

LEMMA SendSends ==
    ASSUME chat \in Seq(Messages), NEW kind \in {"batch", "content", "status"},
           NEW body \in Seq(Ids), Send(kind, body)
    PROVE  Sent(kind, body)
<1> DEFINE new == [kind |-> kind, body |-> body, state |-> "up"]
<1>1. new \in Messages /\ new.kind = kind /\ new.body = body /\ new.state = "up"
    BY DEF Messages
<1>2. chat' = Append(chat, new)
    BY DEF Send
<1> HIDE DEF new
<1>3. /\ chat' \in Seq(Messages) /\ Len(chat') = Len(chat) + 1
      /\ \A m \in 1..Len(chat) : chat'[m] = chat[m]
      /\ chat'[Len(chat) + 1] = new
    BY <1>1, <1>2, AppendProperties
<1>4. Len(chat) \in Nat /\ DOMAIN chat = 1..Len(chat) /\ DOMAIN chat' = 1..Len(chat')
    BY <1>3, LenProperties
<1>5. /\ \A m \in DOMAIN chat : m \in DOMAIN chat'
      /\ \A m \in DOMAIN chat' : m \in DOMAIN chat \/ m = Len(chat) + 1
      /\ Len(chat) + 1 \in DOMAIN chat' /\ Len(chat) + 1 \notin DOMAIN chat
    BY <1>3, <1>4
<1> QED  BY <1>1, <1>3, <1>4, <1>5 DEF Sent

LEMMA EditEdits ==
    ASSUME chat \in Seq(Messages), NEW msg \in DOMAIN chat, NEW body \in Seq(Ids), Edit(msg, body)
    PROVE  Edited(msg, body)
<1> DEFINE new == [chat[msg] EXCEPT !.body = body]
<1>1. chat[msg] \in Messages /\ msg \in 1..Len(chat)
    BY MessageFields
<1>2. /\ new \in Messages /\ new.body = body
      /\ new.kind = chat[msg].kind /\ new.state = chat[msg].state
    BY <1>1 DEF Messages
<1>3. chat' = [chat EXCEPT ![msg] = new]
    BY DEF Edit
<1> HIDE DEF new
<1>4. /\ chat' \in Seq(Messages) /\ Len(chat') = Len(chat)
      /\ \A m \in 1..Len(chat) : chat'[m] = IF m = msg THEN new ELSE chat[m]
    BY <1>1, <1>2, <1>3, ExceptSeq
<1>5. DOMAIN chat = 1..Len(chat) /\ DOMAIN chat' = DOMAIN chat
    BY <1>3, LenProperties
<1> QED  BY <1>1, <1>2, <1>4, <1>5 DEF Edited

LEMMA DeletedErases ==
    ASSUME chat \in Seq(Messages), NEW msg \in DOMAIN chat, NEW ok \in BOOLEAN,
           chat' = Deleted(chat, msg, ok)
    PROVE  Erased(msg)
<1> DEFINE left == IF ok THEN "gone" ELSE "undeleted"
           new == [chat[msg] EXCEPT !.state = left]
<1>1. chat[msg] \in Messages /\ msg \in 1..Len(chat)
    BY MessageFields
<1>2. left \in {"gone", "undeleted"}
    OBVIOUS
<1>3. chat' = [chat EXCEPT ![msg] = new]
    BY DEF Deleted
<1> HIDE DEF left
<1>4. /\ new \in Messages /\ new.state # "up"
      /\ new.kind = chat[msg].kind /\ new.body = chat[msg].body
    BY <1>1, <1>2 DEF Messages
<1> HIDE DEF new
<1>5. /\ chat' \in Seq(Messages) /\ Len(chat') = Len(chat)
      /\ \A m \in 1..Len(chat) : chat'[m] = IF m = msg THEN new ELSE chat[m]
    BY <1>1, <1>3, <1>4, ExceptSeq
<1>6. DOMAIN chat = 1..Len(chat) /\ DOMAIN chat' = DOMAIN chat
    BY <1>3, LenProperties
<1> QED  BY <1>1, <1>4, <1>5, <1>6 DEF Erased

\* The status message is forgotten, and gone or marked.
Cleared ==
    /\ status' = None /\ faults' \in Nat
    /\ \/ status = None /\ chat' = chat
       \/ status # None /\ Erased(status.msg)

LEMMA ClearClears ==
    ASSUME FeedTypeOK, StatusOK, ClearStatus
    PROVE  Cleared /\ chat' \in Seq(Messages)
<1>1. CASE status = None
    BY <1>1 DEF ClearStatus, Cleared, FeedTypeOK
<1>2. CASE status # None
    <2>1. status.msg \in DOMAIN chat /\ chat \in Seq(Messages) /\ faults \in Nat
        BY <1>2 DEF StatusOK, FeedTypeOK
    <2>2. PICK o \in {"ok", "fail"} : Answer(o) /\ chat' = Deleted(chat, status.msg, o = "ok")
        BY <1>2 DEF ClearStatus
    <2>3. (o = "ok") \in BOOLEAN
        OBVIOUS
    <2>4. Erased(status.msg)
        BY <2>1, <2>2, <2>3, DeletedErases
    <2>5. faults' \in Nat
        BY <2>1, <2>2 DEF Answer
    <2> QED  BY <1>2, <2>4, <2>5 DEF ClearStatus, Cleared, Erased
<1> QED  BY <1>1, <1>2

\* The task is over.
Finished(outcome) ==
    /\ work' = None
    /\ settled' \in [Ids -> Outcomes]
    /\ \A i \in Ids : settled'[i] = IF i \in Range(work.body) THEN outcome ELSE settled[i]
    /\ unfinished' = unfinished - 1 - work.merged

LEMMA FinishFinishes ==
    ASSUME FeedTypeOK, NEW outcome \in Outcomes, Finish(outcome)
    PROVE  Finished(outcome)
<1>1. settled \in [Ids -> Outcomes] /\ DOMAIN settled = Ids
    BY DEF FeedTypeOK
<1>2. settled' = [i \in Ids |-> IF i \in Range(work.body) THEN outcome ELSE settled[i]]
    BY <1>1 DEF Finish
<1> QED  BY <1>1, <1>2 DEF Finish, Finished

\* A refused call: the task is taken again, or given up.
Retried ==
    /\ Again /\ work.kind # "busy"
    /\ unfinished' = unfinished - work.merged
    /\ settled' = settled /\ suppressed' = suppressed

GivenUp ==
    /\ \E outcome \in {"dropped", "failed"} : Finished(outcome)
    /\ toolRetried' = toolRetried /\ suppressed' \in BOOLEAN

LEMMA FloodedCases ==
    ASSUME FeedTypeOK, work # None, Flooded
    PROVE  \/ /\ Retried
              /\ toolRetried' = \/ toolRetried
                                \/ work.pc \in {"open", "edit"} /\ IsCall(work.body[1])
           \/ GivenUp
<1>1. work \in IdWorks /\ suppressed \in BOOLEAN
    BY DEF FeedTypeOK
<1>2. CASE /\ work.kind # "busy"
           /\ work' = [work EXCEPT !.pc = "dispatch", !.merged = 0, !.chosen = None,
                                   !.then = "none"]
           /\ unfinished' = unfinished - work.merged
           /\ toolRetried' = \/ toolRetried
                             \/ work.pc \in {"open", "edit"} /\ IsCall(work.body[1])
           /\ UNCHANGED <<settled, suppressed>>
    <2>1. Again
        BY <1>1, <1>2, FloodMoves
    <2> QED  BY <1>2, <2>1 DEF Retried
<1>3. CASE /\ Finish(IF work.kind = "busy" THEN "dropped" ELSE "failed")
           /\ suppressed' = (suppressed \/ work.kind = "busy")
           /\ UNCHANGED toolRetried
    <2> DEFINE outcome == IF work.kind = "busy" THEN "dropped" ELSE "failed"
    <2>1. outcome \in {"dropped", "failed"} /\ outcome \in Outcomes /\ Finish(outcome)
        BY <1>3 DEF Outcomes
    <2> HIDE DEF outcome
    <2>2. Finished(outcome)
        BY <2>1, FinishFinishes
    <2> QED  BY <1>3, <2>1, <2>2 DEF GivenUp
<1> QED  BY <1>2, <1>3 DEF Flooded

LEMMA AnswerType == ASSUME FeedTypeOK, NEW o, Answer(o) PROVE faults' \in Nat
BY DEF Answer, FeedTypeOK

-----------------------------------------------------------------------------
(* Batches.                                                                 *)

\* c differs from b in its entries only.
SameBut(b, c) == c \in IdBatches /\ c.msg = b.msg /\ c.draft = b.draft /\ c.last = b.last

LEMMA BatchFields ==
    ASSUME NEW b \in IdBatches
    PROVE  /\ b.entries \in Seq(Ids) /\ b.msg \in Nat /\ b.last \in Seq(Ids)
           /\ b.draft \in {"none", "unset", "streaming", "legacy"}
           /\ Len(b.entries) \in Nat /\ DOMAIN b.entries = 1..Len(b.entries)
           /\ \A p \in DOMAIN b.entries : b.entries[p] \in Ids
           /\ \A e : e \in Range(b.entries) <=> \E p \in DOMAIN b.entries : b.entries[p] = e
<1>1. b.entries \in Seq(Ids) /\ b.msg \in Nat /\ b.last \in Seq(Ids)
      /\ b.draft \in {"none", "unset", "streaming", "legacy"}
    BY DEF IdBatches
<1>2. Len(b.entries) \in Nat /\ DOMAIN b.entries = 1..Len(b.entries)
    BY <1>1, LenProperties
<1>3. \A p \in DOMAIN b.entries : b.entries[p] \in Ids
    BY <1>1, <1>2, ElementOfSeq
<1>4. \A e : e \in Range(b.entries) <=> \E p \in DOMAIN b.entries : b.entries[p] = e
    BY DEF Range
<1> QED  BY <1>1, <1>2, <1>3, <1>4

LEMMA RangeIs ==
    ASSUME NEW S, NEW s \in Seq(S)
    PROVE  /\ \A e : e \in Range(s) <=> \E p \in DOMAIN s : s[p] = e
           /\ \A e \in Range(s) : e \in S
<1>1. \A e : e \in Range(s) <=> \E p \in DOMAIN s : s[p] = e
    BY DEF Range
<1>2. \A e \in Range(s) : e \in S
    BY RangeOfSeq
<1> QED  BY <1>1, <1>2

LEMMA NewBatchOk ==
    /\ NewBatch \in IdBatches /\ NewBatch.entries = <<>> /\ NewBatch.msg = 0
    /\ NewBatch.draft = "none" /\ NewBatch.last = <<>> /\ Range(NewBatch.entries) = {}
<1>1. <<>> \in Seq(Ids) /\ Len(<<>>) = 0
    BY EmptySeq
<1>2. NewBatch \in IdBatches
    BY <1>1 DEF NewBatch, IdBatches
<1>3. Range(<<>>) = {}
    BY DEF Range
<1> QED  BY <1>2, <1>3 DEF NewBatch

LEMMA EnteredOk ==
    ASSUME NEW b \in IdBatches, NEW i \in Ids
    PROVE  /\ SameBut(b, Entered(b, i)) /\ Entered(b, i) # None
           /\ Entered(b, i).entries # <<>>
           /\ Len(Entered(b, i).entries) = Len(b.entries) + 1
           /\ \A p \in DOMAIN b.entries : Entered(b, i).entries[p] = b.entries[p]
           /\ Entered(b, i).entries[Len(b.entries) + 1] = i
           /\ DOMAIN Entered(b, i).entries = DOMAIN b.entries \cup {Len(b.entries) + 1}
           /\ Range(Entered(b, i).entries) = Range(b.entries) \cup {i}
<1> DEFINE new == Append(b.entries, i)
<1>1. b.entries \in Seq(Ids) /\ Len(b.entries) \in Nat /\ DOMAIN b.entries = 1..Len(b.entries)
    BY BatchFields
<1>2. /\ new \in Seq(Ids) /\ new # <<>> /\ Len(new) = Len(b.entries) + 1
      /\ \A p \in 1..Len(b.entries) : new[p] = b.entries[p]
      /\ new[Len(b.entries) + 1] = i
    BY <1>1, AppendProperties
<1>3. DOMAIN new = DOMAIN b.entries \cup {Len(b.entries) + 1}
    <2>1. DOMAIN new = 1..Len(new)
        BY <1>2, LenProperties
    <2> HIDE DEF new
    <2> QED  BY <2>1, <1>1, <1>2
<1> HIDE DEF new
<1>4. Range(new) = Range(b.entries) \cup {i}
    <2>1. \A e : e \in Range(new) <=> \E p \in DOMAIN new : new[p] = e
        BY <1>2, RangeIs
    <2>2. \A e : e \in Range(b.entries) <=> \E p \in DOMAIN b.entries : b.entries[p] = e
        BY BatchFields
    <2>3. \A p \in DOMAIN b.entries : p \in DOMAIN new /\ new[p] = b.entries[p]
        BY <1>1, <1>2, <1>3
    <2>4. \A p \in DOMAIN new : p \in DOMAIN b.entries \/ new[p] = i
        BY <1>2, <1>3
    <2>5. \E p \in DOMAIN new : new[p] = i
        BY <1>2, <1>3
    <2>6. ASSUME NEW e PROVE e \in Range(new) <=> e \in Range(b.entries) \cup {i}
        BY <2>1, <2>2, <2>3, <2>4, <2>5
    <2> QED  BY <2>6
<1>5. Entered(b, i) = [b EXCEPT !.entries = new]
    BY DEF Entered, new
<1>6. Entered(b, i) \in IdBatches /\ Entered(b, i).entries = new
      /\ SameBut(b, Entered(b, i))
    BY <1>2, <1>5 DEF IdBatches, SameBut
<1>7. Entered(b, i) # None
    BY <1>6, NoneIsNothing
<1> QED  BY <1>1, <1>2, <1>3, <1>4, <1>6, <1>7

\* Eviction keeps the newest entries.
LEMMA EvictedOk ==
    ASSUME NEW b \in IdBatches, NEW i
    PROVE  /\ SameBut(b, Evicted(b, i))
           /\ \E k \in 0..Len(b.entries) :
                 /\ Len(Evicted(b, i).entries) = Len(b.entries) - k
                 /\ \A p \in DOMAIN Evicted(b, i).entries :
                       p + k \in DOMAIN b.entries
                       /\ Evicted(b, i).entries[p] = b.entries[p + k]
           /\ Range(Evicted(b, i).entries) \subseteq Range(b.entries)
<1> DEFINE len == Len(b.entries)
           Room(n) == Weigh(Append(SubSeq(b.entries, len - n + 1, len), i)) <= MaxEntries
           Fit == {n \in 0..len : n = 0 \/ Room(n)}
           n == Max(Fit)
           new == SubSeq(b.entries, len - n + 1, len)
<1>1. b.entries \in Seq(Ids) /\ len \in Nat /\ DOMAIN b.entries = 1..len
    BY BatchFields
<1>2. Evicted(b, i) = [b EXCEPT !.entries = new]
    BY DEF Evicted
<1>3. n \in 0..len
    <2>1. Fit \in SUBSET Nat /\ Fit # {} /\ (\A s \in Fit : s <= len) /\ Fit \subseteq 0..len
        <3>1. 0 \in 0..len
            BY <1>1
        <3> HIDE DEF Room, len
        <3>2. 0 \in Fit
            BY <3>1
        <3>3. Fit \subseteq 0..len
            OBVIOUS
        <3> HIDE DEF Fit
        <3> QED  BY <3>2, <3>3, <1>1
    <2> HIDE DEF Fit, len
    <2>2. Max(Fit) \in Fit
        BY <2>1, <1>1, MaxIn
    <2> QED  BY <2>1, <2>2
<1> HIDE DEF n, Fit, Room
<1>4. /\ new \in Seq(Ids) /\ Len(new) = n
      /\ \A p \in 1..n : new[p] = b.entries[len - n + p]
    <2>1. len - n + 1 \in Int /\ len \in Int /\ n \in Nat /\ n <= len
        BY <1>1, <1>3
    <2>2. \A j \in (len - n + 1)..len : b.entries[j] \in Ids
        <3>1. \A j \in (len - n + 1)..len : j \in 1..len
            BY <2>1
        <3>2. \A j \in 1..len : b.entries[j] \in Ids
            BY <1>1, ElementOfSeq
        <3> QED  BY <3>1, <3>2
    <2> DEFINE lo == len - n + 1
    <2>3. /\ SubSeq(b.entries, lo, len) \in Seq(Ids)
          /\ Len(SubSeq(b.entries, lo, len)) = IF lo <= len THEN len - lo + 1 ELSE 0
          /\ \A p \in 1..(len - lo + 1) : SubSeq(b.entries, lo, len)[p] = b.entries[lo + p - 1]
        <3>1. lo \in Int /\ len \in Int /\ \A j \in lo..len : b.entries[j] \in Ids
            BY <2>1, <2>2
        <3> HIDE DEF lo, len
        <3> QED  BY <3>1, SubSeqProperties
    <2>4. len - lo + 1 = n /\ (IF lo <= len THEN len - lo + 1 ELSE 0) = n
        BY <2>1
    <2>5. \A p \in 1..n : lo + p - 1 = len - n + p
        BY <2>1
    <2> HIDE DEF len
    <2> QED  BY <2>3, <2>4, <2>5
<1> HIDE DEF new
<1>5. Evicted(b, i).entries = new /\ SameBut(b, Evicted(b, i))
    BY <1>2, <1>4 DEF IdBatches, SameBut
<1>6. DOMAIN new = 1..n
    BY <1>4, LenProperties
<1> DEFINE k == len - n
<1>7. k \in 0..len /\ Len(new) = len - k
    BY <1>1, <1>3, <1>4
<1>8. \A p \in DOMAIN new : p + k \in DOMAIN b.entries /\ new[p] = b.entries[p + k]
    <2> TAKE p \in DOMAIN new
    <2>1. p \in 1..n /\ p \in Nat /\ n \in Nat /\ n <= len
        BY <1>3, <1>6
    <2>2. new[p] = b.entries[len - n + p]
        BY <2>1, <1>4
    <2>3. len - n + p = p + k /\ p + k \in 1..len
        BY <2>1, <1>1
    <2> QED  BY <2>2, <2>3, <1>1
<1> HIDE DEF k
<1>9. Range(new) \subseteq Range(b.entries)
    <2>1. \A e : e \in Range(new) <=> \E p \in DOMAIN new : new[p] = e
        BY <1>4, RangeIs
    <2>2. \A e : e \in Range(b.entries) <=> \E p \in DOMAIN b.entries : b.entries[p] = e
        BY BatchFields
    <2> QED  BY <2>1, <2>2, <1>8
<1> QED  BY <1>5, <1>7, <1>8, <1>9

-----------------------------------------------------------------------------
(* What a step may do to what is shown.  Everything the properties say of   *)
(* the display follows from these cases.                                    *)

\* No entry but those in S becomes delivered.
Settles(S) ==
    \A i \in Ids : settled'[i] = "delivered" => settled[i] = "delivered" \/ i \in S

Frame ==
    /\ feed' = feed /\ mode' = mode
    /\ flushFailed => flushFailed'
    /\ toolRetried => toolRetried'

SameMsg == \/ status' = status
           \/ status # None /\ status' # None /\ status'.msg = status.msg

\* Nothing is shown or taken away; a tool message or a text may be forgotten.
Quiet ==
    /\ Frame /\ Settles({})
    /\ chat' = chat /\ batch' = batch /\ previewed' = previewed
    /\ toolMsgs' \subseteq toolMsgs /\ SameMsg

\* A row of the batch says it already.
ShownAlready ==
    /\ Frame /\ Settles(Range(work.body))
    /\ chat' = chat /\ batch' = batch /\ previewed' = previewed /\ toolMsgs' = toolMsgs
    /\ status' = status
    /\ work # None /\ work.pc = "deliver" /\ batch.last = batch.entries
    /\ batch.msg # 0 \/ batch.draft # "none"

\* b is what is left of the batch, or a new one.
Left(b) ==
    \/ b = NewBatch
    \/ /\ batch # None /\ SameBut(batch, b)
       /\ mode = "batched" => b = batch
       /\ \E k \in 0..Len(batch.entries) :
             /\ Len(b.entries) = Len(batch.entries) - k
             /\ \A p \in DOMAIN b.entries :
                   p + k \in DOMAIN batch.entries /\ b.entries[p] = batch.entries[p + k]
       /\ Range(b.entries) \subseteq Range(batch.entries)

Enters ==
    /\ Frame /\ Settles({})
    /\ chat' = chat /\ previewed' = previewed /\ toolMsgs' = toolMsgs /\ status' = status
    /\ work # None /\ work.kind = "content" /\ IsCall(work.body[1])
    /\ mode \in {"batched", "ephemeral"}
    /\ mode = "batched" => feed[work.body[1]].kind = "use"
    /\ mode = "ephemeral" /\ batch # None => batch'.msg = batch.msg
    /\ \E b \in IdBatches : Left(b) /\ batch' = Entered(b, work.body[1])
    /\ Moved("deliver")

Drops ==
    /\ Frame /\ Settles({})
    /\ chat' = chat /\ previewed' = previewed /\ toolMsgs' = toolMsgs /\ status' = status
    /\ batch' = None
    /\ mode = "ephemeral" => batch # None /\ batch.msg = 0

Clears ==
    /\ Frame /\ Settles({})
    /\ Cleared
    /\ batch' = batch /\ previewed' = previewed /\ toolMsgs' = toolMsgs

SendsBatch ==
    /\ Frame /\ Settles(IF work.pc = "open" THEN Range(work.body) ELSE {})
    /\ batch # None /\ batch.msg = 0
    /\ Sent("batch", batch.entries)
    /\ previewed' = previewed /\ toolMsgs' = toolMsgs /\ status' = status
    /\ \/ batch' = None /\ mode = "batched"
       \/ /\ batch' \in IdBatches /\ batch' # None
          /\ batch'.entries = batch.entries /\ batch'.msg = Len(chat) + 1
          /\ batch'.last = batch.entries \/ batch'.last = <<>>
          /\ batch'.draft = IF mode = "batched" THEN "legacy" ELSE "none"

EditsBatch ==
    /\ Frame /\ Settles(IF work.pc = "edit" THEN Range(work.body) ELSE {})
    /\ batch # None /\ batch.msg # 0
    /\ Edited(batch.msg, batch.entries)
    /\ previewed' = previewed /\ toolMsgs' = toolMsgs /\ status' = status
    /\ \/ batch' = None /\ mode = "batched"
       \/ /\ batch' \in IdBatches /\ batch' # None
          /\ batch'.entries = batch.entries /\ batch'.msg = batch.msg
          /\ batch'.last = batch.entries /\ batch'.draft = batch.draft

Previews ==
    /\ Frame /\ Settles(Range(work.body))
    /\ work # None /\ work.pc = "edit" /\ batch # None /\ batch.draft = "streaming"
    /\ previewed' = previewed \cup Range(batch.entries)
    /\ chat' = chat /\ toolMsgs' = toolMsgs /\ status' = status
    /\ batch' \in IdBatches /\ batch' # None
    /\ batch'.entries = batch.entries /\ batch'.msg = batch.msg
    /\ batch'.last = batch.entries /\ batch'.draft = batch.draft

Drafts ==
    /\ Frame /\ Settles({})
    /\ chat' = chat /\ previewed' = previewed /\ toolMsgs' = toolMsgs /\ status' = status
    /\ mode = "batched" /\ batch # None /\ batch.draft \in {"none", "unset"}
    /\ batch' \in IdBatches /\ batch' # None
    /\ batch'.entries = batch.entries /\ batch'.msg = batch.msg
    /\ batch'.last = batch.last /\ batch'.draft \in {"unset", "streaming"}

DeletesBatch ==
    /\ Frame /\ Settles({})
    /\ mode = "ephemeral" /\ batch # None /\ batch.msg # 0
    /\ Erased(batch.msg)
    /\ batch' = None
    /\ previewed' = previewed /\ toolMsgs' = toolMsgs /\ status' = status

EditsTool ==
    /\ Frame /\ Settles(Range(work.body))
    /\ work # None /\ work.kind = "content" /\ work.pc = "toolEdit"
    /\ \E t \in toolMsgs :
          /\ t.call = feed[work.body[1]].of
          /\ Edited(t.msg, <<work.body[1]>>)
          /\ toolMsgs' = toolMsgs \ {t}
    /\ batch' = batch /\ previewed' = previewed /\ status' = status

SendsContent ==
    /\ Frame /\ Settles(Range(work.body))
    /\ work # None /\ work.kind = "content" /\ work.pc = "send"
    /\ Sent("content", work.body)
    /\ toolMsgs' = IF IsCall(work.body[1])
                   THEN toolMsgs \cup {[call |-> work.body[1], msg |-> Len(chat) + 1]}
                   ELSE toolMsgs
    /\ batch' = batch /\ previewed' = previewed /\ status' = status

SendsStatus ==
    /\ Frame /\ Settles({})
    /\ status = None /\ status' # None /\ status'.msg = Len(chat) + 1
    /\ Sent("status", <<>>)
    /\ batch' = batch /\ previewed' = previewed /\ toolMsgs' = toolMsgs

\* What a step of the worker does to its task and to the queue, other than
\* taking, merging and coalescing.
Stays ==
    /\ feed' = feed /\ published' = published
    /\ queue' = queue /\ pending' = pending
    /\ \/ SameTask /\ unfinished' = unfinished - work.merged + work'.merged
       \/ work' = None /\ unfinished' = unfinished - 1 - work.merged

LEMMA FinishedStays ==
    ASSUME FeedTypeOK, feed' = feed, published' = published, queue' = queue,
           pending' = pending, NEW outcome, Finished(outcome)
    PROVE  Stays
BY DEF Stays, Finished

LEMMA MovedStays ==
    ASSUME FeedTypeOK, work # None, feed' = feed, published' = published, queue' = queue,
           pending' = pending, unfinished' = unfinished, NEW pc, Moved(pc)
    PROVE  Stays
<1>1. work.merged \in Nat /\ unfinished \in Int
    BY WorkFields DEF FeedTypeOK
<1> QED  BY <1>1 DEF Stays, Moved

LEMMA RetriedStays ==
    ASSUME FeedTypeOK, work # None, feed' = feed, published' = published, queue' = queue,
           pending' = pending, Retried
    PROVE  Stays
<1>1. work.merged \in Nat /\ unfinished \in Int /\ unfinished' = unfinished - work.merged
      /\ work'.merged = 0 /\ SameTask
    BY WorkFields DEF FeedTypeOK, Retried, Again
<1>2. unfinished' = unfinished - work.merged + work'.merged
    BY <1>1
<1> QED  BY <1>1, <1>2 DEF Stays

LEMMA FinishedSettles ==
    ASSUME FeedTypeOK, NEW outcome \in Outcomes, Finished(outcome)
    PROVE  /\ Settles(Range(work.body))
           /\ outcome # "delivered" => Settles({})
           /\ work.body = <<>> => Settles({})
<1>1. Range(<<>>) = {}
    BY DEF Range
<1> QED  BY <1>1 DEF Finished, Settles

LEMMA SettledSettles == ASSUME settled' = settled PROVE Settles({})
BY DEF Settles

\* The types, one variable at a time.
LEMMA TypeFromParts ==
    ASSUME FeedTypeOK, feed' = feed, mode' = mode, asked' \in Nat, faults' \in Nat,
           published' \in 0..Len(feed), queue' \in Seq(Tasks), pending' \subseteq StatusKinds,
           unfinished' \in Int, work' \in IdWorks \cup {None},
           batch' \in IdBatches \cup {None}, status' \in Statuses \cup {None},
           toolMsgs' \subseteq [call : Ids, msg : Nat],
           settled' \in [Ids -> Outcomes], chat' \in Seq(Messages),
           flushFailed' \in BOOLEAN, toolRetried' \in BOOLEAN, suppressed' \in BOOLEAN
    PROVE  FeedTypeOK'
<1>1. /\ Ids' = Ids /\ IdWorks' = IdWorks /\ Tasks' = Tasks /\ IdBatches' = IdBatches
      /\ Messages' = Messages
    BY DEF Ids, IdWorks, Tasks, IdBatches, Messages
<1> HIDE DEF Ids, IdWorks, Tasks, IdBatches, Messages
<1>2. feed' \in Seq(Entries) /\ mode' \in {"batched", "ephemeral", "verbose"}
      /\ published' \in 0..Len(feed')
    BY DEF FeedTypeOK
<1> QED  BY <1>1, <1>2 DEF FeedTypeOK

LEMMA StaysTyped ==
    ASSUME FeedTypeOK, work # None, Stays
    PROVE  /\ published' \in 0..Len(feed) /\ queue' \in Seq(Tasks)
           /\ pending' \subseteq StatusKinds
           /\ unfinished' \in Int /\ work' \in IdWorks \cup {None}
<1>1. work.merged \in Nat /\ unfinished \in Int
    BY WorkFields DEF FeedTypeOK
<1>2. CASE SameTask /\ unfinished' = unfinished - work.merged + work'.merged
    <2>1. work'.merged \in Nat /\ work' \in IdWorks
        BY <1>2 DEF SameTask, IdWorks
    <2> QED  BY <1>1, <1>2, <2>1 DEF Stays, FeedTypeOK
<1>3. CASE work' = None /\ unfinished' = unfinished - 1 - work.merged
    BY <1>1, <1>3 DEF Stays, FeedTypeOK
<1> QED  BY <1>2, <1>3 DEF Stays

-----------------------------------------------------------------------------
(* What each action does to the task and the queue, and its case of the     *)
(* display.                                                                 *)

Base == FeedTypeOK /\ PcInv /\ BatchInv /\ StatusOK /\ ToolMsgsOK

LEMMA BaseFacts ==
    ASSUME Base
    PROVE  /\ FeedTypeOK /\ PcInv /\ BatchInv /\ StatusOK /\ ToolMsgsOK
           /\ feed \in Seq(Entries) /\ asked \in Nat /\ faults \in Nat
           /\ batch \in IdBatches \cup {None} /\ status \in Statuses \cup {None}
           /\ toolMsgs \subseteq [call : Ids, msg : Nat] /\ settled \in [Ids -> Outcomes]
           /\ chat \in Seq(Messages) /\ flushFailed \in BOOLEAN /\ toolRetried \in BOOLEAN
           /\ suppressed \in BOOLEAN
BY DEF Base, FeedTypeOK

\* Where the task stays and nothing else changes.
LEMMA MovedQuiet ==
    ASSUME Base, work # None, NEW pc, Moved(pc) \/ ToFlush(pc),
           UNCHANGED <<feed, mode, published, queueVars, suppressed, shownVars, settled,
                       asked, faults, history>>
    PROVE  FeedTypeOK' /\ Stays /\ Quiet
<1>1. UNCHANGED <<feed, mode, published, queue, pending, unfinished, suppressed, batch, status,
                  toolMsgs, chat, settled, asked, faults, previewed, flushFailed, toolRetried>>
    BY DEF queueVars, shownVars, history
<1>2. Stays
    <2>1. work.merged \in Nat /\ unfinished \in Int
        BY BaseFacts, WorkFields DEF FeedTypeOK
    <2> QED  BY <2>1, <1>1 DEF Stays, Moved, ToFlush
<1>3. FeedTypeOK'
    BY <1>1, <1>2, BaseFacts, StaysTyped, TypeFromParts
<1>4. Quiet
    BY <1>1, SettledSettles DEF Quiet, Frame, SameMsg
<1> QED  BY <1>2, <1>3, <1>4

LEMMA DispatchUseEffect ==
    ASSUME Base, DispatchUse
    PROVE  FeedTypeOK' /\ Stays /\ (Enters \/ (Quiet /\ ToFlush("overflow")))
<1> DEFINE i == work.body[1]
           b == IF batch = None THEN NewBatch ELSE batch
<1>0. /\ work # None /\ work.pc = "dispatch" /\ work \in IdWorks /\ work.body # <<>>
      /\ IsTool(i) /\ mode # "verbose" /\ IsCall(i)
    BY BaseFacts, WorkFields DEF DispatchUse, At, Batchable
<1>1. work.kind = "content"
    BY <1>0, BaseFacts DEF PcInv, PcOK, WorkBody
<1>2. i \in Ids
    BY <1>0, <1>1, BaseFacts, FirstEntry
<1>3. UNCHANGED <<feed, mode, published, queue, pending, unfinished, suppressed, status,
                  toolMsgs, chat, settled, asked, faults, previewed, flushFailed, toolRetried>>
    BY DEF DispatchUse, queueVars, history
<1>4. b \in IdBatches
    BY BaseFacts, NewBatchOk
<1>5. "deliver" \in Pcs /\ "overflow" \in Aims
    BY DEF Pcs, Aims
<1>6. ASSUME NEW c \in IdBatches, Left(c), batch' = Entered(c, i), GoTo("deliver"),
             mode = "batched" => feed[i].kind = "use",
             (mode = "ephemeral" /\ batch # None) => c.msg = batch.msg
      PROVE  FeedTypeOK' /\ Stays /\ Enters
    <2>1. Moved("deliver")
        BY <1>0, <1>5, <1>6, GoToMoves
    <2>2. Stays
        BY <1>0, <1>3, <2>1, BaseFacts, MovedStays
    <2>3. batch' \in IdBatches /\ batch'.msg = c.msg
        BY <1>2, <1>6, EnteredOk DEF SameBut
    <2>4. FeedTypeOK'
        BY <1>0, <1>3, <2>2, <2>3, BaseFacts, StaysTyped, TypeFromParts
    <2>5. mode \in {"batched", "ephemeral"}
        BY <1>0, BaseFacts DEF FeedTypeOK
    <2> HIDE DEF i
    <2>6. Frame /\ Settles({})
        BY <1>3, SettledSettles DEF Frame
    <2>7. Enters
        BY <1>0, <1>1, <1>3, <1>6, <2>1, <2>3, <2>5, <2>6 DEF Enters, i
    <2> QED  BY <2>2, <2>4, <2>7
<1>7. CASE mode = "ephemeral" /\ batch' = Entered(Evicted(b, i), i) /\ GoTo("deliver")
    <2> DEFINE c == Evicted(b, i)
    <2>1. /\ SameBut(b, c)
          /\ \E k \in 0..Len(b.entries) :
                 /\ Len(c.entries) = Len(b.entries) - k
                 /\ \A p \in DOMAIN c.entries :
                       p + k \in DOMAIN b.entries /\ c.entries[p] = b.entries[p + k]
          /\ Range(c.entries) \subseteq Range(b.entries)
        <3> HIDE DEF b, i
        <3> QED  BY <1>4, EvictedOk
    <2>2. CASE batch = None
        <3>1. b = NewBatch /\ Len(b.entries) = 0
            BY <2>2, NewBatchOk, EmptySeq
        <3>2. Len(c.entries) = 0 /\ c \in IdBatches /\ c.msg = 0 /\ c.draft = "none"
              /\ c.last = <<>>
            <4> HIDE DEF c
            <4>1. PICK k \in 0..0 : Len(c.entries) = 0 - k
                BY <2>1, <3>1
            <4> QED  BY <2>1, <3>1, <4>1, NewBatchOk DEF SameBut
        <3>3. c.entries = <<>>
            <4> HIDE DEF c
            <4> QED  BY <3>2, BatchFields, EmptySeq
        <3>4. c = NewBatch
            <4> HIDE DEF c
            <4> QED  BY <3>2, <3>3 DEF NewBatch, IdBatches
        <3>5. Left(c)
            BY <3>4 DEF Left
        <3> HIDE DEF c
        <3> QED  BY <1>6, <1>7, <2>2, <3>2, <3>5 DEF c
    <2>3. CASE batch # None
        <3>1. b = batch
            BY <2>3
        <3> HIDE DEF c
        <3>2. Left(c) /\ c \in IdBatches /\ c.msg = batch.msg
            BY <1>7, <2>1, <2>3, <3>1 DEF Left, SameBut
        <3> QED  BY <1>6, <1>7, <3>2 DEF c
    <2> QED  BY <2>2, <2>3
<1>8. CASE mode = "batched" /\ Fits(b, i) /\ batch' = Entered(b, i) /\ GoTo("deliver")
    <2>1. feed[i].kind = "use"
        BY <1>0, <1>8 DEF Fits, IsCall
    <2>2. Left(b)
        <3>1. CASE batch = None
            BY <3>1 DEF Left
        <3>2. CASE batch # None
            <4>1. b = batch /\ SameBut(batch, b)
                BY <1>4, <3>2 DEF SameBut
            <4>2. /\ 0 \in 0..Len(batch.entries) /\ Len(batch.entries) = Len(batch.entries) - 0
                  /\ \A p \in DOMAIN batch.entries : p + 0 = p
                BY <1>4, <4>1, BatchFields
            <4>3. \A p \in DOMAIN b.entries :
                     p + 0 \in DOMAIN batch.entries /\ b.entries[p] = batch.entries[p + 0]
                BY <4>1, <4>2
            <4> QED  BY <3>2, <4>1, <4>2, <4>3 DEF Left
        <3> QED  BY <3>1, <3>2
    <2> QED  BY <1>4, <1>6, <1>8, <2>1, <2>2
<1>9. CASE /\ mode = "batched" /\ ~Fits(b, i)
           /\ work' = [work EXCEPT !.pc = "flush", !.then = "overflow"]
           /\ UNCHANGED batch
    <2>1. ToFlush("overflow")
        BY <1>0, <1>5, <1>9, FlushMoves
    <2>2. UNCHANGED <<feed, mode, published, queueVars, suppressed, shownVars, settled,
                      asked, faults, history>>
        BY <1>3, <1>9 DEF queueVars, shownVars, history
    <2> QED  BY <1>0, <2>1, <2>2, MovedQuiet
<1> QED  BY <1>7, <1>8, <1>9 DEF DispatchUse

LEMMA OverflowEffect ==
    ASSUME Base, Overflow
    PROVE  FeedTypeOK' /\ Stays /\ (Enters \/ (Drops /\ Moved("content")))
<1> DEFINE i == work.body[1]
<1>0. work # None /\ work.pc = "overflow" /\ work \in IdWorks
    BY BaseFacts, WorkFields DEF Overflow, At
<1>1. work.kind = "content" /\ IsCall(i) /\ mode = "batched"
    BY <1>0, BaseFacts DEF PcInv, PcOK, Aim, Flushing
<1>2. i \in Ids
    BY <1>0, <1>1, BaseFacts, FirstEntry
<1>3. UNCHANGED <<feed, mode, published, queue, pending, unfinished, suppressed, status,
                  toolMsgs, chat, settled, asked, faults, previewed, flushFailed, toolRetried>>
    BY DEF Overflow, queueVars, history
<1>4. Frame /\ Settles({})
    BY <1>3, SettledSettles DEF Frame
<1>5. CASE Fits(NewBatch, i) /\ batch' = Entered(NewBatch, i) /\ GoTo("deliver")
    <2>1. Moved("deliver")
        <3>1. "deliver" \in Pcs
            BY DEF Pcs
        <3> QED  BY <1>0, <1>5, <3>1, GoToMoves
    <2>2. Stays
        BY <1>0, <1>3, <2>1, BaseFacts, MovedStays
    <2>3. batch' \in IdBatches /\ NewBatch \in IdBatches
        BY <1>2, <1>5, EnteredOk, NewBatchOk DEF SameBut
    <2>4. FeedTypeOK'
        BY <1>0, <1>3, <2>2, <2>3, BaseFacts, StaysTyped, TypeFromParts
    <2>5. feed[i].kind = "use"
        BY <1>1, <1>5 DEF Fits, IsCall
    <2> HIDE DEF i
    <2>6. Enters
        BY <1>0, <1>1, <1>3, <1>4, <1>5, <2>1, <2>3, <2>5 DEF Enters, Left, i
    <2> QED  BY <2>2, <2>4, <2>6
<1>6. CASE batch' = None /\ GoTo("content")
    <2>1. Moved("content")
        <3>1. "content" \in Pcs
            BY DEF Pcs, Aims
        <3> QED  BY <1>0, <1>6, <3>1, GoToMoves
    <2>2. Stays
        BY <1>0, <1>3, <2>1, BaseFacts, MovedStays
    <2>3. FeedTypeOK'
        BY <1>0, <1>3, <1>6, <2>2, BaseFacts, StaysTyped, TypeFromParts
    <2>4. Drops
        BY <1>1, <1>3, <1>4, <1>6 DEF Drops
    <2> QED  BY <2>1, <2>2, <2>3, <2>4
<1> QED  BY <1>5, <1>6 DEF Overflow

LEMMA DispatchResultEffect ==
    ASSUME Base, DispatchResult
    PROVE  FeedTypeOK' /\ Stays /\ Quiet
<1>0. work # None /\ work.pc = "dispatch" /\ work \in IdWorks
    BY BaseFacts, WorkFields DEF DispatchResult, At
<1>1. UNCHANGED <<feed, mode, published, queue, pending, suppressed, batch, status,
                  toolMsgs, chat, asked, faults, previewed, flushFailed, toolRetried>>
    BY DEF DispatchResult, shownVars, history
<1>2. ASSUME NEW pc \in Pcs, GoTo(pc), UNCHANGED <<settled, unfinished>>
      PROVE  FeedTypeOK' /\ Stays /\ Quiet
    <2>1. Moved(pc)
        BY <1>0, <1>2, GoToMoves
    <2> QED  BY <1>0, <1>1, <1>2, <2>1, MovedQuiet DEF queueVars, shownVars, history
<1>3. CASE GoTo("content") /\ UNCHANGED <<settled, unfinished>>
    BY <1>2, <1>3 DEF Pcs, Aims
<1>4. CASE GoTo("deliver") /\ UNCHANGED <<settled, unfinished>>
    BY <1>2, <1>4 DEF Pcs
<1>5. CASE Finish("dropped")
    <2>1. "dropped" \in Outcomes
        BY DEF Outcomes
    <2>2. Finished("dropped")
        BY <1>5, <2>1, BaseFacts, FinishFinishes
    <2>3. Stays /\ Settles({})
        BY <1>1, <2>1, <2>2, BaseFacts, FinishedStays, FinishedSettles
    <2>4. FeedTypeOK'
        BY <1>0, <1>1, <2>2, <2>3, BaseFacts, StaysTyped, TypeFromParts DEF Finished
    <2> QED  BY <1>1, <2>3, <2>4 DEF Quiet, Frame, SameMsg
<1>6. CASE /\ work' = [work EXCEPT !.pc = "flush", !.then = "content"]
           /\ UNCHANGED <<settled, unfinished>>
    <2>1. ToFlush("content")
        <3>1. "content" \in Aims
            BY DEF Aims
        <3> QED  BY <1>0, <1>6, <3>1, FlushMoves
    <2> QED  BY <1>0, <1>1, <1>6, <2>1, MovedQuiet DEF queueVars, shownVars, history
<1> QED  BY <1>3, <1>4, <1>5, <1>6 DEF DispatchResult

\* A refused call leaves everything on display.
LEMMA FloodQuiet ==
    ASSUME Base, work # None, Flooded, NEW o, Answer(o),
           UNCHANGED <<feed, mode, published, queue, pending, shownVars, asked, previewed,
                       flushFailed>>
    PROVE  /\ FeedTypeOK' /\ Stays /\ Quiet
           /\ work' = None \/ Retried
           /\ toolRetried' \/ ~(work.pc \in {"open", "edit"} /\ IsCall(work.body[1]))
              \/ work' = None
<1>0. UNCHANGED <<batch, status, toolMsgs, chat>>
    BY DEF shownVars
<1>1. faults' \in Nat
    BY AnswerType, BaseFacts
<1>2. CASE /\ Retried
           /\ toolRetried' = \/ toolRetried
                             \/ work.pc \in {"open", "edit"} /\ IsCall(work.body[1])
    <2>1. Stays
        BY <1>2, BaseFacts, RetriedStays
    <2>2. toolRetried' \in BOOLEAN /\ (toolRetried => toolRetried')
        BY <1>2, BaseFacts
    <2>3. settled' = settled /\ suppressed' = suppressed
        BY <1>2 DEF Retried
    <2>4. FeedTypeOK'
        BY <1>0, <1>1, <2>1, <2>2, <2>3, BaseFacts, StaysTyped, TypeFromParts
    <2>5. Quiet
        BY <1>0, <2>2, <2>3, SettledSettles DEF Quiet, Frame, SameMsg
    <2> QED  BY <1>2, <2>1, <2>4, <2>5
<1>3. CASE GivenUp
    <2>1. PICK outcome \in {"dropped", "failed"} : Finished(outcome)
        BY <1>3 DEF GivenUp
    <2>2. outcome \in Outcomes /\ outcome # "delivered"
        BY DEF Outcomes
    <2>3. Stays /\ Settles({}) /\ work' = None
        BY <2>1, <2>2, BaseFacts, FinishedStays, FinishedSettles DEF Finished
    <2>4. settled' \in [Ids -> Outcomes] /\ toolRetried' = toolRetried
          /\ suppressed' \in BOOLEAN
        BY <1>3, <2>1 DEF Finished, GivenUp
    <2>5. FeedTypeOK'
        BY <1>0, <1>1, <2>3, <2>4, BaseFacts, StaysTyped, TypeFromParts
    <2>6. Quiet
        BY <1>0, <2>3, <2>4 DEF Quiet, Frame, SameMsg
    <2> QED  BY <2>3, <2>5, <2>6
<1> QED  BY <1>2, <1>3, BaseFacts, FloodedCases

\* So does a task that ends without its entry being delivered.
LEMMA FailQuiet ==
    ASSUME Base, work # None, NEW outcome \in Outcomes, Finish(outcome),
           outcome # "delivered" \/ work.body = <<>>,
           UNCHANGED <<feed, mode, published, queue, pending, suppressed, batch, chat, asked,
                       history>>,
           toolMsgs' \subseteq toolMsgs, status' \in Statuses \cup {None}, SameMsg,
           faults' \in Nat
    PROVE  FeedTypeOK' /\ Stays /\ Quiet
<1>0. UNCHANGED <<previewed, flushFailed, toolRetried>>
    BY DEF history
<1>1. Finished(outcome)
    BY BaseFacts, FinishFinishes
<1>2. Stays /\ Settles({}) /\ settled' \in [Ids -> Outcomes]
    BY <1>1, BaseFacts, FinishedStays, FinishedSettles DEF Finished
<1>3. FeedTypeOK'
    <2>1. toolMsgs' \subseteq [call : Ids, msg : Nat]
        BY BaseFacts
    <2> QED  BY <1>0, <1>2, <2>1, BaseFacts, StaysTyped, TypeFromParts
<1>4. Quiet
    BY <1>0, <1>2 DEF Quiet, Frame
<1> QED  BY <1>2, <1>3, <1>4

\* And a task that goes on after a failure.
LEMMA GoesQuiet ==
    ASSUME Base, work # None, NEW pc \in Pcs, GoTo(pc),
           UNCHANGED <<feed, mode, published, queue, pending, unfinished, suppressed, batch,
                       chat, asked, settled, previewed, toolRetried, status>>,
           toolMsgs' \subseteq toolMsgs, flushFailed' \in BOOLEAN, flushFailed => flushFailed',
           faults' \in Nat
    PROVE  FeedTypeOK' /\ Stays /\ Quiet /\ Moved(pc)
<1>1. Moved(pc)
    BY BaseFacts, WorkFields, GoToMoves
<1>2. Stays
    BY <1>1, BaseFacts, MovedStays
<1>3. FeedTypeOK'
    <2>1. toolMsgs' \subseteq [call : Ids, msg : Nat]
        BY BaseFacts
    <2> QED  BY <1>2, <2>1, BaseFacts, StaysTyped, TypeFromParts
<1>4. Quiet
    BY SettledSettles DEF Quiet, Frame, SameMsg
<1> QED  BY <1>1, <1>2, <1>3, <1>4

LEMMA DeliverEffect ==
    ASSUME Base, Deliver
    PROVE  /\ FeedTypeOK' /\ Stays
           /\ \/ work' = None /\ (ShownAlready \/ Quiet)
              \/ /\ Moved("edit") /\ Quiet /\ batch' = batch
                 /\ batch.msg # 0 \/ batch.draft = "streaming"
              \/ /\ Moved("open") /\ Clears
                 /\ batch.msg = 0 /\ batch.draft = "none"
<1>0. work # None /\ work.pc = "deliver" /\ work \in IdWorks
    BY BaseFacts, WorkFields DEF Deliver, At
<1>1. UNCHANGED <<feed, mode, published, queue, pending, suppressed, batch, toolMsgs,
                  asked, previewed, flushFailed, toolRetried>>
    BY DEF Deliver, history
<1>2. "edit" \in Pcs /\ "open" \in Pcs /\ "delivered" \in Outcomes /\ "failed" \in Outcomes
    BY DEF Pcs, Outcomes
<1>3. CASE /\ batch.last = batch.entries
           /\ batch.msg # 0 \/ batch.draft # "none"
           /\ Finish("delivered")
           /\ UNCHANGED <<status, chat, faults>>
    <2>1. Finished("delivered")
        BY <1>2, <1>3, BaseFacts, FinishFinishes
    <2>2. Stays /\ Settles(Range(work.body)) /\ work' = None /\ settled' \in [Ids -> Outcomes]
        BY <1>1, <1>2, <2>1, BaseFacts, FinishedStays, FinishedSettles DEF Finished
    <2>3. FeedTypeOK'
        BY <1>0, <1>1, <1>3, <2>2, BaseFacts, StaysTyped, TypeFromParts
    <2>4. ShownAlready
        BY <1>0, <1>1, <1>3, <2>2 DEF ShownAlready, Frame
    <2> QED  BY <2>2, <2>3, <2>4
<1>4. CASE /\ Finish("failed")
           /\ UNCHANGED <<status, chat, faults>>
    <2>1. FeedTypeOK' /\ Stays /\ Quiet
        BY <1>0, <1>1, <1>2, <1>4, BaseFacts, FailQuiet DEF history, SameMsg
    <2> QED  BY <1>4, <2>1 DEF Finish
<1>5. CASE /\ batch.msg # 0 \/ batch.draft = "streaming"
           /\ GoTo("edit")
           /\ UNCHANGED <<status, chat, faults, settled, unfinished>>
    <2>1. FeedTypeOK' /\ Stays /\ Quiet /\ Moved("edit")
        BY <1>0, <1>1, <1>2, <1>5, BaseFacts, GoesQuiet
    <2> QED  BY <1>1, <1>5, <2>1
<1>6. CASE /\ batch.msg = 0 /\ batch.draft = "none"
           /\ ClearStatus
           /\ GoTo("open")
           /\ UNCHANGED <<settled, unfinished>>
    <2>1. Moved("open")
        BY <1>0, <1>2, <1>6, GoToMoves
    <2>2. Stays
        BY <1>0, <1>1, <1>6, <2>1, BaseFacts, MovedStays
    <2>3. Cleared /\ chat' \in Seq(Messages) /\ status' = None /\ faults' \in Nat
        BY <1>6, BaseFacts, ClearClears DEF Cleared
    <2>4. FeedTypeOK'
        BY <1>0, <1>1, <1>6, <2>2, <2>3, BaseFacts, StaysTyped, TypeFromParts
    <2>5. Clears
        BY <1>1, <1>6, <2>3, SettledSettles DEF Clears, Frame
    <2> QED  BY <1>6, <2>1, <2>2, <2>4, <2>5
<1> QED  BY <1>3, <1>4, <1>5, <1>6 DEF Deliver

LEMMA OpenEffect ==
    ASSUME Base, NEW o \in Answers, Open(o)
    PROVE  /\ FeedTypeOK' /\ Stays
           /\ \/ work' = None /\ (SendsBatch \/ Quiet)
              \/ /\ Retried /\ Quiet
                 /\ toolRetried' \/ ~IsCall(work.body[1])
<1>0. work # None /\ work.pc = "open" /\ work \in IdWorks /\ work.kind = "content"
    BY BaseFacts, WorkFields DEF Open, At, PcInv, PcOK, Aim, Flushing
<1>1. UNCHANGED <<feed, mode, published, queue, pending, status, toolMsgs, asked,
                  previewed, flushFailed>> /\ Answer(o) /\ faults' \in Nat
    BY AnswerType, BaseFacts DEF Open
<1>2. batch # None /\ batch.msg = 0 /\ batch.draft = "none" /\ batch \in IdBatches
    BY <1>0, BaseFacts DEF PcInv, PcOK, Aim, Flushing
<1>3. CASE /\ Send("batch", batch.entries)
           /\ batch' = [batch EXCEPT !.msg = Len(chat) + 1, !.last = batch.entries,
                          !.draft = IF mode = "batched" THEN "legacy" ELSE "none"]
           /\ Finish("delivered")
           /\ UNCHANGED <<suppressed, toolRetried>>
    <2>1. batch.entries \in Seq(Ids)
        BY <1>2, BatchFields
    <2>2. Sent("batch", batch.entries) /\ chat' \in Seq(Messages) /\ Len(chat) \in Nat
        BY <1>3, <2>1, BaseFacts, SendSends DEF Sent
    <2>3. "delivered" \in Outcomes
        BY DEF Outcomes
    <2>4. Finished("delivered")
        BY <1>3, <2>3, BaseFacts, FinishFinishes
    <2>5. Stays /\ Settles(Range(work.body)) /\ work' = None /\ settled' \in [Ids -> Outcomes]
        BY <1>1, <2>3, <2>4, BaseFacts, FinishedStays, FinishedSettles DEF Finished
    <2> DEFINE at == Len(chat) + 1
               draft == IF mode = "batched" THEN "legacy" ELSE "none"
    <2>6. at \in Nat /\ draft \in {"none", "unset", "streaming", "legacy"}
        BY <2>2
    <2>7. batch' = [batch EXCEPT !.msg = at, !.last = batch.entries, !.draft = draft]
        BY <1>3
    <2> HIDE DEF at, draft
    <2>8. /\ batch' \in IdBatches /\ batch'.entries = batch.entries /\ batch'.msg = at
          /\ batch'.last = batch.entries /\ batch'.draft = draft
        BY <1>2, <2>1, <2>6, <2>7 DEF IdBatches
    <2>9. batch' # None
        BY <2>8, NoneIsNothing
    <2>10. FeedTypeOK'
        BY <1>0, <1>1, <1>3, <2>2, <2>5, <2>8, BaseFacts, StaysTyped, TypeFromParts
    <2>11. SendsBatch
        BY <1>0, <1>1, <1>2, <1>3, <2>2, <2>5, <2>8, <2>9 DEF SendsBatch, Frame, at, draft
    <2> QED  BY <2>5, <2>10, <2>11
<1>4. CASE /\ Finish("failed")
           /\ UNCHANGED <<chat, batch, suppressed, toolRetried>>
    <2>1. FeedTypeOK' /\ Stays /\ Quiet
        BY <1>0, <1>1, <1>4, BaseFacts, FailQuiet DEF history, SameMsg, Outcomes
    <2> QED  BY <1>4, <2>1 DEF Finish
<1>5. CASE Flooded /\ UNCHANGED <<chat, batch>>
    <2>1. /\ FeedTypeOK' /\ Stays /\ Quiet
          /\ work' = None \/ Retried
          /\ toolRetried' \/ ~(work.pc \in {"open", "edit"} /\ IsCall(work.body[1]))
             \/ work' = None
        BY <1>0, <1>1, <1>5, FloodQuiet DEF shownVars
    <2> QED  BY <1>0, <2>1
<1> QED  BY <1>3, <1>4, <1>5 DEF Open

LEMMA EditBatchEffect ==
    ASSUME Base, NEW o \in Answers, EditBatch(o)
    PROVE  /\ FeedTypeOK' /\ Stays
           /\ \/ work' = None /\ (EditsBatch \/ Previews \/ Quiet)
              \/ /\ Retried /\ Quiet
                 /\ toolRetried' \/ ~IsCall(work.body[1])
<1>0. work # None /\ work.pc = "edit" /\ work \in IdWorks /\ work.kind = "content"
    BY BaseFacts, WorkFields DEF EditBatch, At, PcInv, PcOK, Aim, Flushing
<1>1. UNCHANGED <<feed, mode, published, queue, pending, status, toolMsgs, asked,
                  flushFailed>> /\ Answer(o) /\ faults' \in Nat
    BY AnswerType, BaseFacts DEF EditBatch
<1>2. batch # None /\ batch \in IdBatches /\ (batch.msg # 0 \/ batch.draft = "streaming")
    BY <1>0, BaseFacts DEF PcInv, PcOK, Aim, Flushing
<1>3. CASE /\ batch' = [batch EXCEPT !.last = batch.entries]
           /\ IF batch.draft = "streaming"
              THEN /\ previewed' = previewed \cup Range(batch.entries)
                   /\ UNCHANGED chat
              ELSE Edit(batch.msg, batch.entries) /\ UNCHANGED previewed
           /\ Finish("delivered")
           /\ UNCHANGED <<suppressed, toolRetried>>
    <2>1. batch.entries \in Seq(Ids)
        BY <1>2, BatchFields
    <2>2. /\ batch' \in IdBatches /\ batch'.entries = batch.entries /\ batch'.msg = batch.msg
          /\ batch'.last = batch.entries /\ batch'.draft = batch.draft
        BY <1>2, <1>3, <2>1 DEF IdBatches
    <2>3. batch' # None
        BY <2>2, NoneIsNothing
    <2>4. "delivered" \in Outcomes
        BY DEF Outcomes
    <2>5. Finished("delivered")
        BY <1>3, <2>4, BaseFacts, FinishFinishes
    <2>6. Stays /\ Settles(Range(work.body)) /\ work' = None /\ settled' \in [Ids -> Outcomes]
        BY <1>1, <2>4, <2>5, BaseFacts, FinishedStays, FinishedSettles DEF Finished
    <2>7. Frame
        BY <1>1, <1>3 DEF Frame
    <2>8. CASE batch.draft = "streaming"
        <3>1. previewed' = previewed \cup Range(batch.entries) /\ chat' = chat
            BY <1>3, <2>8
        <3>2. Previews
            BY <1>0, <1>1, <1>2, <2>2, <2>3, <2>6, <2>7, <2>8, <3>1 DEF Previews
        <3>3. FeedTypeOK'
            BY <1>0, <1>1, <1>3, <2>2, <2>6, <3>1, BaseFacts, StaysTyped, TypeFromParts
        <3> QED  BY <2>6, <3>2, <3>3
    <2>9. CASE batch.draft # "streaming"
        <3>1. Edit(batch.msg, batch.entries) /\ previewed' = previewed /\ batch.msg # 0
            BY <1>2, <1>3, <2>9
        <3>2. batch.msg \in DOMAIN chat
            BY <1>2, <3>1, BaseFacts DEF BatchInv, BatchOK
        <3>3. Edited(batch.msg, batch.entries) /\ chat' \in Seq(Messages)
            BY <2>1, <3>1, <3>2, BaseFacts, EditEdits DEF Edited
        <3>4. EditsBatch
            BY <1>0, <1>1, <1>2, <2>2, <2>3, <2>6, <2>7, <3>1, <3>3 DEF EditsBatch
        <3>5. FeedTypeOK'
            BY <1>0, <1>1, <1>3, <2>2, <2>6, <3>3, BaseFacts, StaysTyped, TypeFromParts
        <3> QED  BY <2>6, <3>4, <3>5
    <2> QED  BY <2>8, <2>9
<1>4. CASE /\ Finish("failed")
           /\ UNCHANGED <<chat, batch, suppressed, toolRetried, previewed>>
    <2>1. FeedTypeOK' /\ Stays /\ Quiet
        BY <1>0, <1>1, <1>4, BaseFacts, FailQuiet DEF history, SameMsg, Outcomes
    <2> QED  BY <1>4, <2>1 DEF Finish
<1>5. CASE Flooded /\ UNCHANGED <<chat, batch, previewed>>
    <2>1. /\ FeedTypeOK' /\ Stays /\ Quiet
          /\ work' = None \/ Retried
          /\ toolRetried' \/ ~(work.pc \in {"open", "edit"} /\ IsCall(work.body[1]))
             \/ work' = None
        BY <1>0, <1>1, <1>5, FloodQuiet DEF shownVars
    <2> QED  BY <1>0, <2>1
<1> QED  BY <1>3, <1>4, <1>5 DEF EditBatch

LEMMA FlushFacts ==
    ASSUME Base, work # None, work.pc \in Flushing
    PROVE  /\ work \in IdWorks /\ work.then \in Aims /\ work.then \in Pcs
           /\ work.pc = "flushDelete" => mode = "ephemeral" /\ batch # None /\ batch.msg # 0
           /\ work.pc = "flushOpen" => mode = "batched" /\ batch # None
                                         /\ batch.draft = "unset"
           /\ work.pc = "flushFinal" => mode = "batched" /\ batch # None
                                          /\ batch.draft \in {"streaming", "legacy"}
           /\ batch # None => batch \in IdBatches
BY BaseFacts, WorkFields DEF PcInv, PcOK, Pcs

LEMMA FlushEffect ==
    ASSUME Base, Flush
    PROVE  /\ FeedTypeOK' /\ Stays
           /\ \/ batch = None /\ batch' = None /\ Moved(work.then) /\ Quiet
              \/ batch' = None /\ Moved(work.then) /\ Drops
              \/ /\ Moved("flushDelete") /\ Quiet /\ batch' = batch
                 /\ mode = "ephemeral" /\ batch # None /\ batch.msg # 0
              \/ /\ Moved("flushFinal") /\ Quiet /\ batch' = batch
                 /\ mode = "batched" /\ batch # None /\ batch.draft \in {"streaming", "legacy"}
              \/ /\ Moved("flushOpen") /\ Drafts /\ batch'.draft = "unset"
                 /\ mode = "batched"
<1>0. work # None /\ work.pc = "flush" /\ work.pc \in Flushing
    BY DEF Flush, At, Flushing
<1>1. work \in IdWorks /\ work.then \in Pcs
    BY <1>0, FlushFacts
<1>2. UNCHANGED <<feed, mode, published, queue, pending, unfinished, suppressed, status,
                  toolMsgs, chat, settled, asked, faults, previewed, flushFailed, toolRetried>>
    BY DEF Flush, queueVars, history
<1>3. {"flushDelete", "flushOpen", "flushFinal"} \subseteq Pcs
    BY DEF Pcs, Flushing
<1>4. ASSUME NEW pc \in Pcs, GoTo(pc), batch' = batch
      PROVE  FeedTypeOK' /\ Stays /\ Quiet /\ Moved(pc)
    <2>1. Moved(pc)
        BY <1>1, <1>4, GoToMoves
    <2> QED  BY <1>0, <1>2, <1>4, <2>1, MovedQuiet DEF queueVars, shownVars, history
<1>5. CASE batch = None /\ GoTo(work.then) /\ UNCHANGED batch
    BY <1>1, <1>4, <1>5
<1>6. CASE batch # None /\ mode = "ephemeral" /\ batch.msg # 0
           /\ GoTo("flushDelete") /\ UNCHANGED batch
    BY <1>3, <1>4, <1>6
<1>7. CASE batch # None /\ mode = "ephemeral" /\ batch.msg = 0
           /\ GoTo(work.then) /\ batch' = None
    <2>1. Moved(work.then)
        BY <1>1, <1>7, GoToMoves
    <2>2. Stays
        BY <1>0, <1>2, <2>1, BaseFacts, MovedStays
    <2>3. FeedTypeOK'
        BY <1>0, <1>2, <1>7, <2>2, BaseFacts, StaysTyped, TypeFromParts
    <2>4. Drops
        BY <1>2, <1>7, SettledSettles DEF Drops, Frame
    <2> QED  BY <1>7, <2>1, <2>2, <2>3, <2>4
<1>8. CASE batch # None /\ mode # "ephemeral" /\ batch.draft \in {"streaming", "legacy"}
           /\ GoTo("flushFinal") /\ UNCHANGED batch
    <2>1. mode = "batched"
        BY <1>8, BaseFacts DEF BatchInv, BatchOK, FeedTypeOK
    <2> QED  BY <1>3, <1>4, <1>8, <2>1
<1>9. CASE batch # None /\ mode # "ephemeral" /\ batch.draft \notin {"streaming", "legacy"}
           /\ GoTo("flushOpen") /\ batch' = [batch EXCEPT !.draft = "unset"]
    <2>1. mode = "batched" /\ batch \in IdBatches
        BY <1>9, BaseFacts DEF BatchInv, BatchOK, FeedTypeOK
    <2>2. Moved("flushOpen")
        BY <1>1, <1>3, <1>9, GoToMoves
    <2>3. Stays
        BY <1>0, <1>2, <2>2, BaseFacts, MovedStays
    <2>4. /\ batch' \in IdBatches /\ batch'.entries = batch.entries /\ batch'.msg = batch.msg
          /\ batch'.last = batch.last /\ batch'.draft = "unset"
          /\ batch.draft \in {"none", "unset"}
        BY <1>9, <2>1 DEF IdBatches
    <2>5. batch' # None
        BY <2>4, NoneIsNothing
    <2>6. FeedTypeOK'
        BY <1>0, <1>2, <2>3, <2>4, BaseFacts, StaysTyped, TypeFromParts
    <2>7. Drafts
        BY <1>2, <1>9, <2>1, <2>4, <2>5, SettledSettles DEF Drafts, Frame
    <2> QED  BY <2>1, <2>2, <2>3, <2>4, <2>6, <2>7
<1> QED  BY <1>5, <1>6, <1>7, <1>8, <1>9 DEF Flush

LEMMA FlushDeleteEffect ==
    ASSUME Base, NEW o \in Answers, FlushDelete(o)
    PROVE  FeedTypeOK' /\ Stays /\ DeletesBatch /\ Moved(work.then)
<1>0. work # None /\ work.pc = "flushDelete" /\ work.pc \in Flushing
    BY DEF FlushDelete, At, Flushing
<1>1. /\ work \in IdWorks /\ work.then \in Pcs
      /\ mode = "ephemeral" /\ batch # None /\ batch.msg # 0
    BY <1>0, FlushFacts
<1>2. UNCHANGED <<feed, mode, published, queue, pending, unfinished, suppressed, status,
                  toolMsgs, settled, asked, previewed, flushFailed, toolRetried>>
      /\ batch' = None /\ GoTo(work.then) /\ faults' \in Nat
      /\ chat' = Deleted(chat, batch.msg, o = "ok")
    BY AnswerType, BaseFacts DEF FlushDelete, queueVars, history
<1>3. Moved(work.then)
    BY <1>1, <1>2, GoToMoves
<1>4. Stays
    BY <1>0, <1>2, <1>3, BaseFacts, MovedStays
<1>5. Erased(batch.msg) /\ chat' \in Seq(Messages)
    <2>1. batch.msg \in DOMAIN chat /\ (o = "ok") \in BOOLEAN
        BY <1>1, BaseFacts DEF BatchInv, BatchOK
    <2> QED  BY <1>2, <2>1, BaseFacts, DeletedErases DEF Erased
<1>6. FeedTypeOK'
    BY <1>0, <1>2, <1>4, <1>5, BaseFacts, StaysTyped, TypeFromParts
<1>7. DeletesBatch
    BY <1>1, <1>2, <1>5, SettledSettles DEF DeletesBatch, Frame
<1> QED  BY <1>3, <1>4, <1>6, <1>7

LEMMA FlushOpenEffect ==
    ASSUME Base, NEW o \in Answers, FlushOpen(o)
    PROVE  /\ FeedTypeOK' /\ Stays
           /\ \/ Moved("flushFinal") /\ Drafts /\ batch'.draft = "streaming"
              \/ /\ Moved("flushFinal") /\ SendsBatch
                 /\ batch' # None /\ batch'.draft = "legacy"
              \/ Moved(work.then) /\ Quiet /\ flushFailed' = TRUE /\ batch' = batch
<1>0. work # None /\ work.pc = "flushOpen" /\ work.pc \in Flushing
    BY DEF FlushOpen, At, Flushing
<1>1. /\ work \in IdWorks /\ work.then \in Pcs /\ "flushFinal" \in Pcs
      /\ mode = "batched" /\ batch # None /\ batch.draft = "unset" /\ batch \in IdBatches
    BY <1>0, FlushFacts DEF Pcs, Flushing
<1>2. UNCHANGED <<feed, mode, published, queue, pending, unfinished, suppressed, status,
                  toolMsgs, settled, asked, previewed, toolRetried>>
      /\ faults' \in Nat
    BY AnswerType, BaseFacts DEF FlushOpen, queueVars
<1>3. batch.msg = 0 /\ batch.last = <<>>
    BY <1>1, BaseFacts DEF BatchInv, BatchOK
<1>4. ASSUME NEW pc \in Pcs, GoTo(pc), chat' \in Seq(Messages), batch' \in IdBatches,
             flushFailed' \in BOOLEAN
      PROVE  FeedTypeOK' /\ Stays /\ Moved(pc)
    <2>1. Moved(pc)
        BY <1>1, <1>4, GoToMoves
    <2>2. Stays
        BY <1>0, <1>2, <2>1, BaseFacts, MovedStays
    <2> QED  BY <1>0, <1>2, <1>4, <2>1, <2>2, BaseFacts, StaysTyped, TypeFromParts
<1>5. CASE /\ batch' = [batch EXCEPT !.draft = "streaming"]
           /\ GoTo("flushFinal")
           /\ UNCHANGED <<chat, flushFailed>>
    <2>1. /\ batch' \in IdBatches /\ batch'.entries = batch.entries /\ batch'.msg = batch.msg
          /\ batch'.last = batch.last /\ batch'.draft = "streaming"
        BY <1>1, <1>5 DEF IdBatches
    <2>2. batch' # None
        BY <2>1, NoneIsNothing
    <2>3. Drafts
        BY <1>1, <1>2, <1>5, <2>1, <2>2, SettledSettles DEF Drafts, Frame
    <2> QED  BY <1>1, <1>4, <1>5, <2>1, <2>3, BaseFacts
<1>6. CASE /\ Send("batch", batch.entries)
           /\ batch' = [batch EXCEPT !.draft = "legacy", !.msg = Len(chat) + 1]
           /\ GoTo("flushFinal")
           /\ UNCHANGED flushFailed
    <2>1. batch.entries \in Seq(Ids)
        BY <1>1, BatchFields
    <2>2. Sent("batch", batch.entries) /\ chat' \in Seq(Messages) /\ Len(chat) \in Nat
        BY <1>6, <2>1, BaseFacts, SendSends DEF Sent
    <2> DEFINE at == Len(chat) + 1
    <2>3. at \in Nat
        BY <2>2
    <2>4. batch' = [batch EXCEPT !.draft = "legacy", !.msg = at]
        BY <1>6
    <2> HIDE DEF at
    <2>5. /\ batch' \in IdBatches /\ batch'.entries = batch.entries /\ batch'.msg = at
          /\ batch'.last = batch.last /\ batch'.draft = "legacy"
        BY <1>1, <2>3, <2>4 DEF IdBatches
    <2>6. batch' # None
        BY <2>5, NoneIsNothing
    <2>7. Settles(IF work.pc = "open" THEN Range(work.body) ELSE {})
        BY <1>0, <1>2, SettledSettles
    <2>8. SendsBatch
        BY <1>1, <1>2, <1>3, <1>6, <2>2, <2>5, <2>6, <2>7 DEF SendsBatch, Frame, at
    <2> QED  BY <1>1, <1>4, <1>6, <2>2, <2>5, <2>6, <2>8, BaseFacts
<1>7. CASE /\ flushFailed' = TRUE
           /\ GoTo(work.then)
           /\ UNCHANGED <<chat, batch>>
    <2>1. Quiet
        BY <1>2, <1>7, SettledSettles DEF Quiet, Frame, SameMsg
    <2> QED  BY <1>1, <1>4, <1>7, <2>1, BaseFacts
<1> QED  BY <1>5, <1>6, <1>7 DEF FlushOpen

LEMMA FlushFinalEffect ==
    ASSUME Base, NEW o \in Answers, FlushFinal(o)
    PROVE  /\ FeedTypeOK' /\ Stays /\ Moved(work.then)
           /\ \/ batch' = None /\ (SendsBatch \/ EditsBatch)
              \/ Quiet /\ flushFailed' = TRUE /\ batch' = batch
<1>0. work # None /\ work.pc = "flushFinal" /\ work.pc \in Flushing
    BY DEF FlushFinal, At, Flushing
<1>1. /\ work \in IdWorks /\ work.then \in Pcs
      /\ mode = "batched" /\ batch # None /\ batch \in IdBatches
      /\ batch.draft \in {"streaming", "legacy"}
    BY <1>0, FlushFacts
<1>2. UNCHANGED <<feed, mode, published, queue, pending, unfinished, suppressed, status,
                  toolMsgs, settled, asked, previewed, toolRetried>>
      /\ faults' \in Nat /\ GoTo(work.then)
    BY AnswerType, BaseFacts DEF FlushFinal, queueVars
<1>3. Moved(work.then)
    BY <1>1, <1>2, GoToMoves
<1>4. Stays
    BY <1>0, <1>2, <1>3, BaseFacts, MovedStays
<1>5. batch.entries \in Seq(Ids)
    BY <1>1, BatchFields
<1>6. CASE /\ IF batch.draft = "streaming" THEN Send("batch", batch.entries)
                                           ELSE Edit(batch.msg, batch.entries)
           /\ batch' = None
           /\ UNCHANGED flushFailed
    <2>0. /\ Settles(IF work.pc = "open" THEN Range(work.body) ELSE {})
          /\ Settles(IF work.pc = "edit" THEN Range(work.body) ELSE {})
          /\ Frame
        BY <1>0, <1>2, <1>6, SettledSettles DEF Frame
    <2>1. CASE batch.draft = "streaming"
        <3>1. Sent("batch", batch.entries) /\ chat' \in Seq(Messages)
            BY <1>5, <1>6, <2>1, BaseFacts, SendSends DEF Sent
        <3>2. batch.msg = 0
            BY <1>1, <2>1, BaseFacts DEF BatchInv, BatchOK
        <3>3. SendsBatch
            BY <1>1, <1>2, <1>6, <2>0, <3>1, <3>2 DEF SendsBatch
        <3>4. FeedTypeOK'
            BY <1>0, <1>2, <1>4, <1>6, <3>1, BaseFacts, StaysTyped, TypeFromParts
        <3> QED  BY <1>3, <1>4, <1>6, <3>3, <3>4
    <2>2. CASE batch.draft # "streaming"
        <3>1. batch.msg # 0 /\ batch.msg \in DOMAIN chat
            BY <1>1, <2>2, BaseFacts DEF BatchInv, BatchOK
        <3>2. Edited(batch.msg, batch.entries) /\ chat' \in Seq(Messages)
            BY <1>5, <1>6, <2>2, <3>1, BaseFacts, EditEdits DEF Edited
        <3>3. EditsBatch
            BY <1>1, <1>2, <1>6, <2>0, <3>1, <3>2 DEF EditsBatch
        <3>4. FeedTypeOK'
            BY <1>0, <1>2, <1>4, <1>6, <3>2, BaseFacts, StaysTyped, TypeFromParts
        <3> QED  BY <1>3, <1>4, <1>6, <3>3, <3>4
    <2> QED  BY <2>1, <2>2
<1>7. CASE flushFailed' = TRUE /\ UNCHANGED <<chat, batch>>
    <2>1. Quiet
        BY <1>2, <1>7, SettledSettles DEF Quiet, Frame, SameMsg
    <2>2. FeedTypeOK'
        BY <1>0, <1>2, <1>4, <1>7, BaseFacts, StaysTyped, TypeFromParts
    <2> QED  BY <1>3, <1>4, <1>7, <2>1, <2>2
<1> QED  BY <1>6, <1>7 DEF FlushFinal

LEMMA DispatchContentEffect ==
    ASSUME Base, DispatchContent
    PROVE  FeedTypeOK' /\ Stays /\ Quiet /\ ToFlush("merge")
<1>0. work # None /\ work.pc = "dispatch" /\ work \in IdWorks /\ "merge" \in Aims
    BY BaseFacts, WorkFields DEF DispatchContent, At, Aims
<1>1. ToFlush("merge")
    BY <1>0, FlushMoves DEF DispatchContent
<1> QED  BY <1>0, <1>1, MovedQuiet DEF DispatchContent

LEMMA DispatchStatusEffect ==
    ASSUME Base, DispatchStatus
    PROVE  /\ FeedTypeOK' /\ Stays /\ Quiet
           /\ ToFlush(IF work.kind = "clear" THEN "clear" ELSE "update")
<1> DEFINE then == IF work.kind = "clear" THEN "clear" ELSE "update"
<1>0. work # None /\ work.pc = "dispatch" /\ work \in IdWorks /\ then \in Aims
    BY BaseFacts, WorkFields DEF DispatchStatus, At, Aims
<1>1. work' = [work EXCEPT !.pc = "flush", !.then = then]
    BY DEF DispatchStatus
<1>2. UNCHANGED <<feed, mode, published, queueVars, suppressed, shownVars, settled, asked,
                  faults, history>>
    BY DEF DispatchStatus
<1> HIDE DEF then
<1>3. ToFlush(then)
    BY <1>0, <1>1, FlushMoves
<1>4. FeedTypeOK' /\ Stays /\ Quiet
    BY <1>0, <1>2, <1>3, MovedQuiet
<1> QED  BY <1>3, <1>4 DEF then

LEMMA ContentEffect ==
    ASSUME Base, Content
    PROVE  /\ FeedTypeOK' /\ Stays
           /\ toolMsgs' = toolMsgs /\ batch' = batch /\ flushFailed' = flushFailed
           /\ \/ /\ Moved("toolEdit") /\ Clears
                 /\ feed[work.body[1]].kind = "result"
                 /\ \E m \in toolMsgs : m.call = feed[work.body[1]].of
              \/ Moved("send") /\ Quiet
<1>0. work # None /\ work.pc = "content" /\ work \in IdWorks
      /\ "toolEdit" \in Pcs /\ "send" \in Pcs
    BY BaseFacts, WorkFields DEF Content, At, Pcs
<1>1. UNCHANGED <<feed, mode, published, queue, pending, unfinished, suppressed, batch,
                  toolMsgs, settled, asked, previewed, flushFailed, toolRetried>>
    BY DEF Content, queueVars, history
<1>2. CASE /\ feed[work.body[1]].kind = "result"
           /\ \E m \in toolMsgs : m.call = feed[work.body[1]].of
    <2>1. ClearStatus /\ GoTo("toolEdit")
        BY <1>2 DEF Content
    <2>2. Moved("toolEdit")
        BY <1>0, <2>1, GoToMoves
    <2>3. Stays
        BY <1>0, <1>1, <2>2, BaseFacts, MovedStays
    <2>4. Cleared /\ chat' \in Seq(Messages) /\ status' = None /\ faults' \in Nat
        BY <2>1, BaseFacts, ClearClears DEF Cleared
    <2>5. FeedTypeOK'
        BY <1>0, <1>1, <2>3, <2>4, BaseFacts, StaysTyped, TypeFromParts
    <2>6. Clears
        BY <1>1, <2>4, SettledSettles DEF Clears, Frame
    <2> QED  BY <1>1, <1>2, <2>2, <2>3, <2>5, <2>6
<1>3. CASE ~ /\ feed[work.body[1]].kind = "result"
             /\ \E m \in toolMsgs : m.call = feed[work.body[1]].of
    <2>1. GoTo("send") /\ UNCHANGED <<status, chat, faults>>
        BY <1>3 DEF Content
    <2>2. FeedTypeOK' /\ Stays /\ Quiet /\ Moved("send")
        BY <1>0, <1>1, <2>1, BaseFacts, GoesQuiet
    <2> QED  BY <1>1, <2>2
<1> QED  BY <1>2, <1>3

LEMMA ToolEditEffect ==
    ASSUME Base, NEW o \in Answers, ToolEdit(o)
    PROVE  /\ FeedTypeOK' /\ Stays
           /\ batch' = batch /\ flushFailed' = flushFailed
           /\ \/ work' = None /\ (EditsTool \/ Quiet)
              \/ Moved("send") /\ Quiet
              \/ Retried /\ Quiet
<1>0. work # None /\ work.pc = "toolEdit" /\ work \in IdWorks /\ "send" \in Pcs
      /\ "delivered" \in Outcomes
    BY BaseFacts, WorkFields DEF ToolEdit, At, Pcs, Outcomes
<1>1. UNCHANGED <<feed, mode, published, queue, pending, batch, status, asked,
                  previewed, flushFailed>> /\ Answer(o) /\ faults' \in Nat
    BY AnswerType, BaseFacts DEF ToolEdit
<1>2. /\ work.kind = "content"
      /\ \E m \in toolMsgs : m.call = feed[work.body[1]].of
    BY <1>0, BaseFacts DEF PcInv, PcOK, Aim, Flushing
<1> DEFINE i == work.body[1]
           m == CHOOSE x \in toolMsgs : x.call = feed[i].of
<1>3. i \in Ids
    BY <1>0, <1>2, BaseFacts, FirstEntry
<1>4. m \in toolMsgs /\ m.call = feed[i].of
    BY <1>2
<1>5. CASE /\ Edit(m.msg, <<i>>)
           /\ toolMsgs' = toolMsgs \ {m}
           /\ Finish("delivered")
           /\ UNCHANGED <<suppressed, toolRetried>>
    <2> HIDE DEF m, i
    <2>1. m.msg \in DOMAIN chat /\ <<i>> \in Seq(Ids)
        BY <1>3, <1>4, BaseFacts DEF ToolMsgsOK
    <2>2. Edited(m.msg, <<i>>) /\ chat' \in Seq(Messages)
        BY <1>5, <2>1, BaseFacts, EditEdits DEF Edited
    <2>3. Finished("delivered")
        BY <1>0, <1>5, BaseFacts, FinishFinishes
    <2>4. Stays /\ Settles(Range(work.body)) /\ work' = None /\ settled' \in [Ids -> Outcomes]
        BY <1>0, <1>1, <2>3, BaseFacts, FinishedStays, FinishedSettles DEF Finished
    <2>5. toolMsgs' \subseteq [call : Ids, msg : Nat]
        BY <1>5, BaseFacts
    <2>6. FeedTypeOK'
        BY <1>0, <1>1, <1>5, <2>2, <2>4, <2>5, BaseFacts, StaysTyped, TypeFromParts
    <2>7. Frame
        BY <1>1, <1>5 DEF Frame
    <2>8. EditsTool
        BY <1>0, <1>1, <1>2, <1>4, <1>5, <2>2, <2>4, <2>7 DEF EditsTool, i
    <2> QED  BY <1>1, <2>4, <2>6, <2>8
<1>6. CASE /\ toolMsgs' = toolMsgs \ {m}
           /\ GoTo("send")
           /\ UNCHANGED <<chat, settled, unfinished, suppressed, toolRetried>>
    <2> HIDE DEF m, i
    <2>1. FeedTypeOK' /\ Stays /\ Quiet /\ Moved("send")
        BY <1>0, <1>1, <1>6, BaseFacts, GoesQuiet
    <2> QED  BY <1>1, <2>1
<1>7. CASE Flooded /\ UNCHANGED <<chat, toolMsgs>>
    <2>1. /\ FeedTypeOK' /\ Stays /\ Quiet
          /\ work' = None \/ Retried
        BY <1>0, <1>1, <1>7, FloodQuiet DEF shownVars
    <2> QED  BY <1>1, <2>1
<1> QED  BY <1>5, <1>6, <1>7 DEF ToolEdit

LEMMA SendContentEffect ==
    ASSUME Base, NEW o \in Answers, SendContent(o)
    PROVE  /\ FeedTypeOK' /\ Stays
           /\ \/ work' = None /\ (SendsContent \/ Quiet)
              \/ Retried /\ Quiet
<1>0. work # None /\ work.pc = "send" /\ work \in IdWorks
      /\ "delivered" \in Outcomes /\ "failed" \in Outcomes
    BY BaseFacts, WorkFields DEF SendContent, At, Outcomes
<1>1. UNCHANGED <<feed, mode, published, queue, pending, batch, status, asked,
                  previewed, flushFailed>> /\ Answer(o) /\ faults' \in Nat
    BY AnswerType, BaseFacts DEF SendContent
<1>2. work.kind = "content" /\ work.body \in Seq(Ids)
    BY <1>0, BaseFacts, WorkFields DEF PcInv, PcOK, Aim, Flushing
<1>3. work.body[1] \in Ids
    BY <1>0, <1>2, BaseFacts, FirstEntry
<1>4. CASE /\ Send("content", work.body)
           /\ toolMsgs' = IF IsCall(work.body[1])
                          THEN toolMsgs \cup {[call |-> work.body[1], msg |-> Len(chat) + 1]}
                          ELSE toolMsgs
           /\ Finish("delivered")
           /\ UNCHANGED <<suppressed, toolRetried>>
    <2>1. Sent("content", work.body) /\ chat' \in Seq(Messages) /\ Len(chat) \in Nat
        BY <1>2, <1>4, BaseFacts, SendSends DEF Sent
    <2>2. Finished("delivered")
        BY <1>0, <1>4, BaseFacts, FinishFinishes
    <2>3. Stays /\ Settles(Range(work.body)) /\ work' = None /\ settled' \in [Ids -> Outcomes]
        BY <1>0, <1>1, <2>2, BaseFacts, FinishedStays, FinishedSettles DEF Finished
    <2>4. toolMsgs' \subseteq [call : Ids, msg : Nat]
        <3> DEFINE i == work.body[1]
                   at == Len(chat) + 1
        <3>1. i \in Ids /\ at \in Nat
            BY <1>3, <2>1
        <3>2. \/ toolMsgs' = toolMsgs \cup {[call |-> i, msg |-> at]}
              \/ toolMsgs' = toolMsgs
            BY <1>4
        <3> HIDE DEF i, at
        <3> QED  BY <3>1, <3>2, BaseFacts
    <2>5. FeedTypeOK'
        BY <1>0, <1>1, <1>4, <2>1, <2>3, <2>4, BaseFacts, StaysTyped, TypeFromParts
    <2>6. Frame
        BY <1>1, <1>4 DEF Frame
    <2>7. SendsContent
        BY <1>0, <1>1, <1>2, <1>4, <2>1, <2>3, <2>6 DEF SendsContent
    <2> QED  BY <2>3, <2>5, <2>7
<1>5. CASE Finish("failed") /\ UNCHANGED <<chat, toolMsgs, suppressed, toolRetried>>
    <2>1. FeedTypeOK' /\ Stays /\ Quiet
        BY <1>0, <1>1, <1>5, BaseFacts, FailQuiet DEF history, SameMsg
    <2> QED  BY <1>5, <2>1 DEF Finish
<1>6. CASE Flooded /\ UNCHANGED <<chat, toolMsgs>>
    <2>1. /\ FeedTypeOK' /\ Stays /\ Quiet
          /\ work' = None \/ Retried
        BY <1>0, <1>1, <1>6, FloodQuiet DEF shownVars
    <2> QED  BY <2>1
<1> QED  BY <1>4, <1>5, <1>6 DEF SendContent

LEMMA StatusEditEffect ==
    ASSUME Base, NEW o \in Answers, StatusEdit(o)
    PROVE  /\ FeedTypeOK' /\ Stays
           /\ \/ work' = None /\ Quiet
              \/ Moved("statusSend") /\ Clears
              \/ Retried /\ Quiet
<1>0. work # None /\ work.pc = "statusEdit" /\ work \in IdWorks /\ "statusSend" \in Pcs
      /\ "delivered" \in Outcomes
    BY BaseFacts, WorkFields DEF StatusEdit, At, Pcs, Outcomes
<1>1. UNCHANGED <<feed, mode, published, queue, pending, batch, toolMsgs, asked,
                  previewed, flushFailed>> /\ Answer(o) /\ faults' \in Nat
    BY AnswerType, BaseFacts DEF StatusEdit
<1>2. work.kind \in {"busy", "note"} /\ work.body = <<>> /\ status # None
    BY <1>0, BaseFacts DEF PcInv, PcOK, Aim, Flushing, WorkBody
<1>3. status \in Statuses /\ work.chosen \in Said
    BY <1>0, <1>2, BaseFacts, WorkFields
<1>4. CASE /\ status' = [status EXCEPT !.text = work.chosen]
           /\ Finish("delivered")
           /\ UNCHANGED <<chat, suppressed, toolRetried>>
    <2>1. status' \in Statuses /\ status'.msg = status.msg
        BY <1>3, <1>4 DEF Statuses, Said
    <2>2. SameMsg
        BY <1>2, <2>1, NoneIsNothing DEF SameMsg
    <2>3. FeedTypeOK' /\ Stays /\ Quiet
        BY <1>0, <1>1, <1>2, <1>4, <2>1, <2>2, BaseFacts, FailQuiet DEF history
    <2> QED  BY <1>4, <2>3 DEF Finish
<1>5. CASE /\ \E deleted \in BOOLEAN : chat' = Deleted(chat, status.msg, deleted)
           /\ status' = None
           /\ GoTo("statusSend")
           /\ UNCHANGED <<settled, unfinished, suppressed, toolRetried>>
    <2>1. Moved("statusSend")
        BY <1>0, <1>5, GoToMoves
    <2>2. Stays
        BY <1>0, <1>1, <1>5, <2>1, BaseFacts, MovedStays
    <2>3. status.msg \in DOMAIN chat
        BY <1>2, BaseFacts DEF StatusOK
    <2>4. PICK deleted \in BOOLEAN : chat' = Deleted(chat, status.msg, deleted)
        BY <1>5
    <2>5. Erased(status.msg) /\ chat' \in Seq(Messages)
        BY <2>3, <2>4, BaseFacts, DeletedErases DEF Erased
    <2>6. FeedTypeOK'
        BY <1>0, <1>1, <1>5, <2>2, <2>5, BaseFacts, StaysTyped, TypeFromParts
    <2>7. Clears
        BY <1>1, <1>2, <1>5, <2>5, SettledSettles DEF Clears, Cleared, Frame
    <2> QED  BY <2>1, <2>2, <2>6, <2>7
<1>6. CASE Flooded /\ UNCHANGED <<chat, status>>
    <2>1. /\ FeedTypeOK' /\ Stays /\ Quiet
          /\ work' = None \/ Retried
        BY <1>0, <1>1, <1>6, FloodQuiet DEF shownVars
    <2> QED  BY <2>1
<1> QED  BY <1>4, <1>5, <1>6 DEF StatusEdit

LEMMA StatusSendEffect ==
    ASSUME Base, NEW o \in Answers, StatusSend(o)
    PROVE  /\ FeedTypeOK' /\ Stays
           /\ \/ work' = None /\ (SendsStatus \/ Quiet)
              \/ Retried /\ Quiet
<1>0. work # None /\ work.pc = "statusSend" /\ work \in IdWorks
      /\ "delivered" \in Outcomes
    BY BaseFacts, WorkFields DEF StatusSend, At, Outcomes
<1>1. UNCHANGED <<feed, mode, published, queue, pending, batch, toolMsgs, asked,
                  previewed, flushFailed>> /\ Answer(o) /\ faults' \in Nat
    BY AnswerType, BaseFacts DEF StatusSend
<1>2. work.kind \in {"busy", "note"} /\ work.body = <<>> /\ status = None
    BY <1>0, BaseFacts DEF PcInv, PcOK, Aim, Flushing, WorkBody
<1>3. work.chosen \in Said
    BY <1>0, BaseFacts, WorkFields
<1>4. CASE /\ Send("status", <<>>)
           /\ status' = [msg |-> Len(chat) + 1, text |-> work.chosen]
           /\ Finish("delivered")
           /\ UNCHANGED <<suppressed, toolRetried>>
    <2>1. <<>> \in Seq(Ids)
        BY EmptySeq
    <2>2. Sent("status", <<>>) /\ chat' \in Seq(Messages) /\ Len(chat) \in Nat
        BY <1>4, <2>1, BaseFacts, SendSends DEF Sent
    <2>3. status' \in Statuses /\ status'.msg = Len(chat) + 1
        <3> DEFINE at == Len(chat) + 1
        <3>1. at \in Nat /\ status' = [msg |-> at, text |-> work.chosen]
            BY <1>4, <2>2
        <3> HIDE DEF at
        <3>2. status' \in Statuses /\ status'.msg = at
            BY <1>3, <3>1 DEF Statuses, Said
        <3> QED  BY <3>2 DEF at
    <2>4. status' # None
        BY <2>3, NoneIsNothing
    <2>5. Finished("delivered")
        BY <1>0, <1>4, BaseFacts, FinishFinishes
    <2>6. Stays /\ Settles({}) /\ work' = None /\ settled' \in [Ids -> Outcomes]
        BY <1>0, <1>1, <1>2, <2>5, BaseFacts, FinishedStays, FinishedSettles DEF Finished
    <2>7. toolMsgs' = toolMsgs
        BY <1>1
    <2>8. FeedTypeOK'
        BY <1>0, <1>1, <1>4, <2>2, <2>3, <2>6, BaseFacts, StaysTyped, TypeFromParts
    <2>9. Frame
        BY <1>1, <1>4 DEF Frame
    <2>10. SendsStatus
        BY <1>1, <1>2, <2>2, <2>3, <2>4, <2>6, <2>9 DEF SendsStatus
    <2> QED  BY <2>6, <2>8, <2>10
<1>5. CASE Finish("delivered") /\ UNCHANGED <<chat, status, suppressed, toolRetried>>
    <2>1. FeedTypeOK' /\ Stays /\ Quiet
        BY <1>0, <1>1, <1>2, <1>5, BaseFacts, FailQuiet DEF history, SameMsg
    <2> QED  BY <1>5, <2>1 DEF Finish
<1>6. CASE Flooded /\ UNCHANGED <<chat, status>>
    <2>1. /\ FeedTypeOK' /\ Stays /\ Quiet
          /\ work' = None \/ Retried
        BY <1>0, <1>1, <1>6, FloodQuiet DEF shownVars
    <2> QED  BY <2>1
<1> QED  BY <1>4, <1>5, <1>6 DEF StatusSend

LEMMA ClearEffect ==
    ASSUME Base, Clear
    PROVE  FeedTypeOK' /\ Stays /\ work' = None /\ Clears
<1>0. work # None /\ work.pc = "clear" /\ work \in IdWorks /\ "delivered" \in Outcomes
    BY BaseFacts, WorkFields DEF Clear, At, Outcomes
<1>1. UNCHANGED <<feed, mode, published, queue, pending, suppressed, batch, toolMsgs,
                  asked, previewed, flushFailed, toolRetried>>
      /\ ClearStatus /\ Finish("delivered")
    BY DEF Clear, history
<1>2. work.kind = "clear" /\ work.body = <<>>
    BY <1>0, BaseFacts DEF PcInv, PcOK, Aim, Flushing, WorkBody
<1>3. Finished("delivered")
    BY <1>0, <1>1, BaseFacts, FinishFinishes
<1>4. Stays /\ Settles({}) /\ work' = None /\ settled' \in [Ids -> Outcomes]
    BY <1>0, <1>1, <1>2, <1>3, BaseFacts, FinishedStays, FinishedSettles DEF Finished
<1>5. Cleared /\ chat' \in Seq(Messages) /\ status' = None /\ faults' \in Nat
    BY <1>1, BaseFacts, ClearClears DEF Cleared
<1>6. FeedTypeOK'
    BY <1>0, <1>1, <1>4, <1>5, BaseFacts, StaysTyped, TypeFromParts
<1>7. Clears
    BY <1>1, <1>4, <1>5 DEF Clears, Frame
<1> QED  BY <1>4, <1>6, <1>7

-----------------------------------------------------------------------------
(* Steps that change the queue.                                             *)

Appended(task) ==
    /\ queue' \in Seq(Tasks) /\ Len(queue) \in Nat /\ Len(queue') = Len(queue) + 1
    /\ DOMAIN queue = 1..Len(queue) /\ DOMAIN queue' = 1..(Len(queue) + 1)
    /\ \A j \in DOMAIN queue : queue'[j] = queue[j]
    /\ queue'[Len(queue) + 1] = task

\* The first k tasks leave the queue.
Advanced(k) ==
    /\ queue' \in Seq(Tasks) /\ Len(queue) \in Nat /\ k \in Nat /\ k <= Len(queue)
    /\ Len(queue') = Len(queue) - k
    /\ DOMAIN queue = 1..Len(queue) /\ DOMAIN queue' = 1..(Len(queue) - k)
    /\ \A j \in DOMAIN queue' : j + k \in DOMAIN queue /\ queue'[j] = queue[j + k]

\* The tasks of one kind leave it.
Thinned ==
    /\ queue' \in Seq(Tasks)
    /\ IsFiniteSet(Later) /\ Cardinality(Later) \in Nat
    /\ Len(queue') = Len(queue) - Cardinality(Later)
    /\ Thins(queue', queue, Later)

LEMMA QueueFields ==
    ASSUME FeedTypeOK
    PROVE  /\ queue \in Seq(Tasks) /\ Len(queue) \in Nat /\ DOMAIN queue = 1..Len(queue)
           /\ \A j \in DOMAIN queue :
                 /\ queue[j] \in Tasks /\ queue[j].kind \in StatusKinds \cup {"content"}
                 /\ queue[j].body \in Seq(Ids) /\ queue[j].text \in Said
                 /\ j \in Nat
<1>1. queue \in Seq(Tasks) /\ Len(queue) \in Nat /\ DOMAIN queue = 1..Len(queue)
    BY LenProperties DEF FeedTypeOK
<1>2. \A j \in DOMAIN queue : queue[j] \in Tasks /\ j \in Nat
    BY <1>1, ElementOfSeq
<1> QED  BY <1>1, <1>2 DEF Tasks

LEMMA PutAppends ==
    ASSUME FeedTypeOK, NEW task \in Tasks, queue' = Append(queue, task)
    PROVE  Appended(task)
<1>1. queue \in Seq(Tasks) /\ Len(queue) \in Nat /\ DOMAIN queue = 1..Len(queue)
    BY QueueFields
<1>2. /\ queue' \in Seq(Tasks) /\ Len(queue') = Len(queue) + 1
      /\ \A i \in 1..Len(queue) : queue'[i] = queue[i]
      /\ queue'[Len(queue) + 1] = task
    BY <1>1, AppendProperties
<1>3. DOMAIN queue' = 1..Len(queue')
    BY <1>2, LenProperties
<1> QED  BY <1>1, <1>2, <1>3 DEF Appended

\* Everything but the queue, the task and what counts them.
QueueOnly ==
    UNCHANGED <<feed, mode, suppressed, batch, status, toolMsgs, chat, settled, faults,
                previewed, flushFailed, toolRetried>>

LEMMA QueueOnlyQuiet ==
    ASSUME Base, QueueOnly, asked' \in Nat, published' \in 0..Len(feed),
           queue' \in Seq(Tasks), pending' \subseteq StatusKinds, unfinished' \in Int,
           work' \in IdWorks \cup {None}
    PROVE  FeedTypeOK' /\ Quiet
<1>1. FeedTypeOK'
    BY BaseFacts, TypeFromParts DEF QueueOnly
<1>2. Quiet
    BY SettledSettles DEF Quiet, Frame, SameMsg, QueueOnly
<1> QED  BY <1>1, <1>2

LEMMA EnqueueContentEffect ==
    ASSUME Base, EnqueueContent
    PROVE  /\ FeedTypeOK' /\ Quiet /\ QueueOnly
           /\ published \in Nat /\ published' = published + 1
           /\ pending' = pending /\ work' = work /\ unfinished' = unfinished + 1
           /\ \E task \in Tasks :
                 /\ task.kind = "content" /\ task.body = <<published + 1>>
                 /\ Appended(task)
<1> DEFINE i == published + 1
           task == [kind |-> "content", body |-> <<i>>, text |-> None]
<1>1. /\ published < Len(feed) /\ published' = i
      /\ queue' = Append(queue, task) /\ unfinished' = unfinished + 1
      /\ UNCHANGED <<feed, mode, pending, suppressed, work, batch, status, toolMsgs, chat,
                     settled, asked, faults, previewed, flushFailed, toolRetried>>
    BY DEF EnqueueContent, Put, shownVars, history
<1>2. /\ published \in Nat /\ Len(feed) \in Nat /\ i \in Ids /\ i \in 0..Len(feed)
    BY <1>1, BaseFacts, LenProperties DEF FeedTypeOK, Ids
<1>3. task \in Tasks /\ task.kind = "content" /\ task.body = <<i>>
    <2> HIDE DEF i
    <2>1. <<i>> \in Seq(Ids)
        BY <1>2
    <2> QED  BY <2>1 DEF Tasks, Said
<1> HIDE DEF task
<1>4. Appended(task)
    BY <1>1, <1>3, BaseFacts, PutAppends
<1>5. queue' \in Seq(Tasks) /\ unfinished' \in Int /\ QueueOnly
    BY <1>1, <1>4, BaseFacts DEF Appended, FeedTypeOK, QueueOnly
<1>6. FeedTypeOK' /\ Quiet
    BY <1>1, <1>2, <1>5, BaseFacts, QueueOnlyQuiet DEF FeedTypeOK
<1> QED  BY <1>1, <1>2, <1>3, <1>4, <1>5, <1>6

LEMMA EnqueueStatusEffect ==
    ASSUME Base, NEW kind \in StatusKinds, NEW text \in Texts, EnqueueStatus(kind, text)
    PROVE  /\ FeedTypeOK' /\ Quiet /\ QueueOnly
           /\ published' = published /\ work' = work /\ unfinished' = unfinished + 1
           /\ kind \notin pending /\ pending' = pending \cup {kind}
           /\ \E task \in Tasks : task.kind = kind /\ task.body = <<>> /\ Appended(task)
<1> DEFINE says == IF kind = "clear" THEN None ELSE text
           task == [kind |-> kind, body |-> <<>>, text |-> says]
<1>1. /\ asked' = asked + 1 /\ kind \notin pending /\ pending' = pending \cup {kind}
      /\ queue' = Append(queue, task) /\ unfinished' = unfinished + 1
      /\ UNCHANGED <<feed, mode, published, suppressed, work, batch, status, toolMsgs, chat,
                     settled, faults, previewed, flushFailed, toolRetried>>
    BY DEF EnqueueStatus, Put, shownVars, history
<1>2. task \in Tasks /\ task.kind = kind /\ task.body = <<>>
    <2>1. says \in Said /\ <<>> \in Seq(Ids)
        BY EmptySeq DEF Said
    <2> HIDE DEF says
    <2> QED  BY <2>1 DEF Tasks
<1> HIDE DEF task
<1>3. Appended(task)
    BY <1>1, <1>2, BaseFacts, PutAppends
<1>4. queue' \in Seq(Tasks) /\ unfinished' \in Int /\ QueueOnly /\ asked' \in Nat
      /\ pending' \subseteq StatusKinds
    BY <1>1, <1>3, BaseFacts DEF Appended, FeedTypeOK, QueueOnly
<1>5. FeedTypeOK' /\ Quiet
    BY <1>1, <1>4, BaseFacts, QueueOnlyQuiet DEF FeedTypeOK
<1> QED  BY <1>1, <1>2, <1>3, <1>4, <1>5

LEMMA SuppressionEndsEffect ==
    ASSUME Base, SuppressionEnds
    PROVE  /\ FeedTypeOK' /\ Quiet
           /\ UNCHANGED <<feed, mode, published, queue, pending, unfinished, work, batch, status,
                          toolMsgs, chat, settled, previewed, flushFailed, toolRetried>>
<1>1. /\ suppressed' = FALSE
      /\ UNCHANGED <<feed, mode, published, queue, pending, unfinished, work, batch, status,
                     toolMsgs, chat, settled, asked, faults, previewed, flushFailed,
                     toolRetried>>
    BY DEF SuppressionEnds, queueVars, shownVars, history
<1>2. FeedTypeOK'
    BY <1>1, BaseFacts, TypeFromParts DEF FeedTypeOK
<1>3. Quiet
    BY <1>1, SettledSettles DEF Quiet, Frame, SameMsg
<1> QED  BY <1>1, <1>2, <1>3

LEMMA TakeEffect ==
    ASSUME Base, Take
    PROVE  /\ FeedTypeOK' /\ Quiet /\ QueueOnly
           /\ work = None /\ 1 \in DOMAIN queue /\ Advanced(1)
           /\ published' = published /\ unfinished' = unfinished
           /\ pending' = pending \ {queue[1].kind}
           /\ work' \in IdWorks /\ work' # None
           /\ work'.kind = queue[1].kind /\ work'.body = queue[1].body
           /\ work'.merged = 0 /\ work'.pc = "dispatch"
<1>1. /\ work = None /\ queue # <<>> /\ queue' = Tail(queue)
      /\ work' = [kind |-> Head(queue).kind, body |-> Head(queue).body,
                  text |-> Head(queue).text, chosen |-> None, merged |-> 0,
                  then |-> "none", pc |-> "dispatch"]
      /\ pending' = pending \ {Head(queue).kind}
      /\ UNCHANGED <<feed, mode, published, unfinished, suppressed, batch, status, toolMsgs,
                     chat, settled, asked, faults, previewed, flushFailed, toolRetried>>
    BY DEF Take, shownVars, history
<1>2. /\ queue \in Seq(Tasks) /\ Len(queue) \in Nat /\ DOMAIN queue = 1..Len(queue)
      /\ \A j \in DOMAIN queue :
            /\ queue[j].kind \in StatusKinds \cup {"content"}
            /\ queue[j].body \in Seq(Ids) /\ queue[j].text \in Said
    BY BaseFacts, QueueFields
<1>3. Head(queue) = queue[1] /\ Len(queue) >= 1 /\ 1 \in DOMAIN queue
    BY <1>1, <1>2, EmptySeq
<1>4. /\ queue' \in Seq(Tasks) /\ Len(queue') = Len(queue) - 1
      /\ \A j \in 1..Len(queue') : queue'[j] = queue[j + 1]
    BY <1>1, <1>2, HeadTailProperties
<1>5. Advanced(1)
    <2>1. DOMAIN queue' = 1..(Len(queue) - 1)
        BY <1>4, LenProperties
    <2>2. \A j \in DOMAIN queue' : j + 1 \in DOMAIN queue /\ queue'[j] = queue[j + 1]
        BY <2>1, <1>2, <1>4
    <2> QED  BY <2>1, <2>2, <1>2, <1>3, <1>4 DEF Advanced
<1>6. work' \in IdWorks
    <2> DEFINE h == queue[1]
    <2>1. h.kind \in StatusKinds \cup {"content"} /\ h.body \in Seq(Ids) /\ h.text \in Said
        BY <1>2, <1>3
    <2>2. "dispatch" \in Pcs /\ None \in Said
        BY DEF Pcs, Said
    <2>3. work' = [kind |-> h.kind, body |-> h.body, text |-> h.text, chosen |-> None,
                   merged |-> 0, then |-> "none", pc |-> "dispatch"]
        BY <1>1, <1>3
    <2> HIDE DEF h
    <2> QED  BY <2>1, <2>2, <2>3 DEF IdWorks
<1>7. /\ work' # None /\ work'.kind = queue[1].kind /\ work'.body = queue[1].body
      /\ work'.merged = 0 /\ work'.pc = "dispatch"
    BY <1>1, <1>3, <1>6, NoneIsNothing
<1>8. QueueOnly
    BY <1>1 DEF QueueOnly
<1>9. FeedTypeOK' /\ Quiet
    BY <1>1, <1>4, <1>6, <1>8, BaseFacts, QueueOnlyQuiet DEF FeedTypeOK
<1> QED  BY <1>1, <1>3, <1>5, <1>6, <1>7, <1>8, <1>9

LEMMA CoalesceEffect ==
    ASSUME Base, NEW done \in {0, 1}, Coalesce(done)
    PROVE  /\ Thinned
           /\ unfinished' = unfinished - Cardinality(Later) - done /\ unfinished' \in Int
           /\ pending' = IF Later = {} THEN pending ELSE pending \ {work.kind}
           /\ pending' \subseteq StatusKinds
<1>1. queue \in Seq(Tasks) /\ Later \in SUBSET (DOMAIN queue) /\ queue' = Without(queue, Later)
    BY BaseFacts, QueueFields DEF Later, Coalesce
<1>2. Thinned
    <2> DEFINE q == Without(queue, Later)
    <2>1. /\ q \in Seq(Tasks) /\ IsFiniteSet(Later) /\ Cardinality(Later) \in Nat
          /\ Len(q) = Len(queue) - Cardinality(Later)
          /\ Thins(q, queue, Later)
        BY <1>1, WithoutOk
    <2>2. q = queue'
        BY <1>1
    <2> HIDE DEF q
    <2> QED  BY <2>1, <2>2 DEF Thinned
<1>3. Cardinality(Later) \in Nat /\ unfinished \in Int /\ pending \subseteq StatusKinds
    BY <1>2, BaseFacts DEF Thinned, FeedTypeOK
<1> QED  BY <1>2, <1>3 DEF Coalesce

LEMMA LatestSaid ==
    ASSUME Base, work # None
    PROVE  Latest \in Said
<1>1. CASE Later = {}
    BY <1>1, BaseFacts, WorkFields DEF Latest
<1>2. CASE Later # {}
    <2>1. /\ Len(queue) \in Nat /\ DOMAIN queue = 1..Len(queue)
          /\ \A j \in DOMAIN queue : queue[j].text \in Said
        BY BaseFacts, QueueFields
    <2>2. Later \in SUBSET Nat /\ (\A j \in Later : j <= Len(queue)) /\ Later \subseteq DOMAIN queue
        BY <2>1 DEF Later
    <2>3. Max(Later) \in Later
        BY <1>2, <2>1, <2>2, MaxIn
    <2> QED  BY <1>2, <2>1, <2>2, <2>3 DEF Latest
<1> QED  BY <1>1, <1>2

LEMMA DropStatusEffect ==
    ASSUME Base, DropStatus
    PROVE  /\ FeedTypeOK' /\ Quiet /\ QueueOnly
           /\ work # None /\ work.kind \in {"busy", "note"} /\ work.merged = 0
           /\ published' = published /\ work' = None
           /\ Thinned /\ unfinished' = unfinished - Cardinality(Later) - 1
           /\ pending' = IF Later = {} THEN pending ELSE pending \ {work.kind}
<1>1. /\ work # None /\ work.pc = "dispatch" /\ work.kind \in {"busy", "note"}
      /\ Coalesce(1) /\ work' = None /\ QueueOnly
      /\ UNCHANGED <<published, asked>>
    BY DEF DropStatus, At, QueueOnly, shownVars, history
<1>2. work.merged = 0
    BY <1>1, BaseFacts DEF PcInv, PcOK
<1>3. /\ Thinned /\ queue' \in Seq(Tasks)
      /\ unfinished' = unfinished - Cardinality(Later) - 1 /\ unfinished' \in Int
      /\ pending' = IF Later = {} THEN pending ELSE pending \ {work.kind}
      /\ pending' \subseteq StatusKinds
    BY <1>1, CoalesceEffect DEF Thinned
<1>4. FeedTypeOK' /\ Quiet
    BY <1>1, <1>3, BaseFacts, QueueOnlyQuiet DEF FeedTypeOK
<1> QED  BY <1>1, <1>2, <1>3, <1>4

LEMMA UpdateEffect ==
    ASSUME Base, Update
    PROVE  /\ FeedTypeOK' /\ Quiet /\ QueueOnly
           /\ work # None /\ work.kind \in {"busy", "note"} /\ work.merged = 0
           /\ published' = published /\ Thinned
           /\ pending' = IF Later = {} THEN pending ELSE pending \ {work.kind}
           /\ \/ work' = None /\ unfinished' = unfinished - Cardinality(Later) - 1
              \/ /\ unfinished' = unfinished - Cardinality(Later)
                 /\ SameTask /\ work'.merged = 0
                 /\ work'.pc = IF status = None THEN "statusSend" ELSE "statusEdit"
<1>1. /\ work # None /\ work.pc = "update" /\ work \in IdWorks /\ QueueOnly
      /\ UNCHANGED <<published, asked>>
    BY BaseFacts, WorkFields DEF Update, At, QueueOnly, shownVars, history
<1>2. work.merged = 0 /\ work.kind \in {"busy", "note"}
    BY <1>1, BaseFacts DEF PcInv, PcOK, Aim, Flushing
<1>3. CASE Coalesce(1) /\ work' = None
    <2>1. /\ Thinned /\ queue' \in Seq(Tasks)
          /\ unfinished' = unfinished - Cardinality(Later) - 1 /\ unfinished' \in Int
          /\ pending' = IF Later = {} THEN pending ELSE pending \ {work.kind}
          /\ pending' \subseteq StatusKinds
        BY <1>3, CoalesceEffect DEF Thinned
    <2>2. FeedTypeOK' /\ Quiet
        BY <1>1, <1>3, <2>1, BaseFacts, QueueOnlyQuiet DEF FeedTypeOK
    <2> QED  BY <1>1, <1>2, <1>3, <2>1, <2>2
<1>4. CASE /\ Coalesce(0)
           /\ work' = [work EXCEPT !.chosen = Latest,
                         !.pc = IF status = None THEN "statusSend" ELSE "statusEdit"]
    <2>1. /\ Thinned /\ queue' \in Seq(Tasks)
          /\ unfinished' = unfinished - Cardinality(Later) - 0 /\ unfinished' \in Int
          /\ pending' = IF Later = {} THEN pending ELSE pending \ {work.kind}
          /\ pending' \subseteq StatusKinds
        BY <1>4, CoalesceEffect DEF Thinned
    <2>2. unfinished' = unfinished - Cardinality(Later)
        BY <2>1, BaseFacts DEF Thinned, FeedTypeOK
    <2> DEFINE pc == IF status = None THEN "statusSend" ELSE "statusEdit"
    <2>3. pc \in Pcs /\ Latest \in Said
        BY <1>1, LatestSaid DEF Pcs
    <2>4. work' = [work EXCEPT !.chosen = Latest, !.pc = pc]
        BY <1>4
    <2> HIDE DEF pc
    <2>5. /\ work' \in IdWorks /\ work'.pc = pc /\ work'.merged = work.merged
          /\ work'.kind = work.kind /\ work'.body = work.body /\ work'.text = work.text
        BY <1>1, <2>3, <2>4 DEF IdWorks
    <2>6. SameTask
        BY <2>5, NoneIsNothing DEF SameTask
    <2>7. FeedTypeOK' /\ Quiet
        BY <1>1, <2>1, <2>5, BaseFacts, QueueOnlyQuiet DEF FeedTypeOK
    <2> QED  BY <1>1, <1>2, <2>1, <2>2, <2>5, <2>6, <2>7 DEF pc
<1> QED  BY <1>3, <1>4 DEF Update

IsText(task) == task.kind = "content" /\ ~IsTool(task.body[1])

LEMMA MergeableOk ==
    ASSUME FeedTypeOK, work # None
    PROVE  /\ Mergeable \in Nat /\ Mergeable <= Len(queue)
           /\ \A j \in 1..Mergeable : IsText(queue[j])
           /\ Mergeable # 0 => ~IsTool(work.body[1]) /\ Len(work.body) <= 1
<1>1. Len(queue) \in Nat /\ work.body \in Seq(Ids) /\ Len(work.body) \in Nat
    BY QueueFields, WorkFields, LenProperties
<1>2. CASE IsTool(work.body[1]) \/ Len(work.body) > 1
    <2>1. Mergeable = 0
        BY <1>2 DEF Mergeable
    <2> QED  BY <1>1, <2>1
<1>3. CASE ~(IsTool(work.body[1]) \/ Len(work.body) > 1)
    <2> DEFINE most == Min({Len(queue), MaxMerge - 1})
               Fit == {k \in 0..most : \A j \in 1..k : IsText(queue[j])}
    <2>1. Mergeable = Max(Fit)
        BY <1>3 DEF Mergeable, IsText
    <2>2. most \in Nat /\ most <= Len(queue)
        <3> DEFINE a == Len(queue)
                   b == MaxMerge - 1
        <3>1. a \in Nat /\ b \in Nat
            BY <1>1, FeedAssumption
        <3> HIDE DEF a, b
        <3>2. Min({a, b}) \in Nat /\ Min({a, b}) <= a
            BY <3>1, MinOfTwo
        <3> QED  BY <3>2 DEF a, b
    <2> HIDE DEF most
    <2>3. 0 \in Fit
        <3>1. 0 \in 0..most /\ 1..0 = {}
            BY <2>2
        <3> QED  BY <3>1
    <2>4. Fit \in SUBSET Nat /\ \A s \in Fit : s <= most
        BY <2>2
    <2>5. Max(Fit) \in Fit
        <3> HIDE DEF Fit
        <3> QED  BY <2>2, <2>3, <2>4, MaxIn
    <2>6. Max(Fit) \in 0..most /\ \A j \in 1..Max(Fit) : IsText(queue[j])
        BY <2>5
    <2> HIDE DEF Fit
    <2>7. Mergeable \in Nat /\ Mergeable <= Len(queue)
        BY <1>1, <2>1, <2>2, <2>6
    <2> QED  BY <1>1, <1>3, <2>1, <2>6, <2>7
<1> QED  BY <1>2, <1>3

\* The task takes the texts of the first n tasks of the queue.
Gathered(n) ==
    /\ work' \in IdWorks /\ work' # None /\ work'.kind = work.kind
    /\ work'.pc = "content" /\ work'.merged = n
    /\ \A j \in 1..n : IsText(queue[j])
    /\ n # 0 => ~IsTool(work.body[1]) /\ Len(work.body) = 1
    /\ Len(work'.body) = Len(work.body) + n
    /\ DOMAIN work'.body = 1..(Len(work.body) + n)
    /\ \A p \in DOMAIN work.body : work'.body[p] = work.body[p]
    /\ \A j \in 1..n : work'.body[Len(work.body) + j] = queue[j].body[1]

LEMMA MergeEffect ==
    ASSUME Base, QueueBodies, Merge
    PROVE  /\ FeedTypeOK' /\ Quiet /\ QueueOnly
           /\ work # None /\ work.pc = "merge" /\ work.kind = "content" /\ work.merged = 0
           /\ published' = published /\ pending' = pending /\ unfinished' = unfinished
           /\ \E n \in Nat : Advanced(n) /\ Gathered(n)
<1> DEFINE n == Mergeable
           more == [j \in 1..n |-> queue[j].body[1]]
<1>1. /\ work # None /\ work.pc = "merge" /\ work \in IdWorks /\ QueueOnly
      /\ work' = [work EXCEPT !.pc = "content", !.merged = n, !.body = work.body \o more]
      /\ queue' = SubSeq(queue, n + 1, Len(queue))
      /\ UNCHANGED <<published, pending, unfinished, asked>>
    BY BaseFacts, WorkFields DEF Merge, Remaining, At, QueueOnly, shownVars, history
<1>2. work.kind = "content" /\ work.merged = 0
    BY <1>1, BaseFacts DEF PcInv, PcOK, Aim, Flushing
<1>3. /\ n \in Nat /\ n <= Len(queue)
      /\ \A j \in 1..n : IsText(queue[j])
      /\ n # 0 => ~IsTool(work.body[1]) /\ Len(work.body) <= 1
    BY <1>1, BaseFacts, MergeableOk
<1> HIDE DEF n
<1>4. /\ queue \in Seq(Tasks) /\ Len(queue) \in Nat /\ DOMAIN queue = 1..Len(queue)
      /\ \A j \in DOMAIN queue : queue[j] \in Tasks /\ queue[j].body \in Seq(Ids)
    BY BaseFacts, QueueFields
<1>5. Len(work.body) \in Nat /\ Len(work.body) >= 1 /\ work.body \in Seq(Ids)
      /\ DOMAIN work.body = 1..Len(work.body)
    BY <1>1, <1>2, BaseFacts, FirstEntry, WorkFields, LenProperties
<1>6. \A j \in 1..n : queue[j].body[1] \in Ids
    <2> TAKE j \in 1..n
    <2>1. j \in DOMAIN queue
        BY <1>3, <1>4
    <2>2. queue[j].kind = "content"
        BY <1>3 DEF IsText
    <2>3. Len(queue[j].body) = 1
        BY <2>1, <2>2 DEF QueueBodies
    <2> QED  BY <1>4, <2>1, <2>3, ElementOfSeq
<1>7. more \in Seq(Ids) /\ Len(more) = n /\ \A j \in 1..n : more[j] = queue[j].body[1]
    BY <1>3, <1>6
<1> HIDE DEF more
<1> DEFINE all == work.body \o more
<1>8. /\ all \in Seq(Ids) /\ Len(all) = Len(work.body) + n
      /\ \A i \in 1..(Len(work.body) + n) :
            all[i] = IF i <= Len(work.body) THEN work.body[i] ELSE more[i - Len(work.body)]
    BY <1>5, <1>7, ConcatProperties
<1>9. DOMAIN all = 1..(Len(work.body) + n)
    BY <1>8, LenProperties
<1>10. work' = [work EXCEPT !.pc = "content", !.merged = n, !.body = all]
    BY <1>1
<1> HIDE DEF all
<1>11. /\ work' \in IdWorks /\ work'.body = all /\ work'.merged = n /\ work'.pc = "content"
       /\ work'.kind = work.kind
    <2>1. "content" \in Pcs
        BY DEF Pcs, Aims
    <2> QED  BY <1>1, <1>3, <1>8, <1>10, <2>1 DEF IdWorks
<1>12. \A p \in DOMAIN work.body : all[p] = work.body[p]
    BY <1>3, <1>5, <1>8
<1>13. \A j \in 1..n : all[Len(work.body) + j] = queue[j].body[1]
    <2> TAKE j \in 1..n
    <2>1. Len(work.body) + j \in 1..(Len(work.body) + n) /\ ~(Len(work.body) + j <= Len(work.body))
          /\ Len(work.body) + j - Len(work.body) = j
        BY <1>3, <1>5
    <2> QED  BY <1>7, <1>8, <2>1
<1>14. work' # None
    BY <1>11, NoneIsNothing
<1>15. Gathered(n)
    <2> DEFINE w == Len(work.body)
    <2>1. n # 0 => w = 1
        <3>1. w \in Nat /\ w >= 1
            BY <1>5
        <3>2. n # 0 => w <= 1
            BY <1>3
        <3> HIDE DEF w
        <3> QED  BY <3>1, <3>2
    <2> QED  BY <1>3, <1>8, <1>9, <1>11, <1>12, <1>13, <1>14, <2>1 DEF Gathered
<1>16. Advanced(n)
    <2> DEFINE len == Len(queue)
               lo == n + 1
    <2>1. lo \in Int /\ len \in Int /\ \A i \in lo..len : queue[i] \in Tasks
        BY <1>3, <1>4
    <2> HIDE DEF lo, len
    <2>2. /\ SubSeq(queue, lo, len) \in Seq(Tasks)
          /\ Len(SubSeq(queue, lo, len)) = IF lo <= len THEN len - lo + 1 ELSE 0
          /\ \A i \in 1..(len - lo + 1) : SubSeq(queue, lo, len)[i] = queue[lo + i - 1]
        BY <2>1, SubSeqProperties
    <2>3. queue' = SubSeq(queue, lo, len)
        BY <1>1 DEF lo, len
    <2>4. /\ queue' \in Seq(Tasks)
          /\ Len(queue') = IF lo <= len THEN len - lo + 1 ELSE 0
          /\ \A i \in 1..(len - lo + 1) : queue'[i] = queue[lo + i - 1]
        BY <2>2, <2>3
    <2>5. Len(queue') = len - n /\ len - lo + 1 = len - n
        <3>1. n \in Nat /\ len \in Nat /\ n <= len /\ lo = n + 1
            BY <1>3, <1>4 DEF lo, len
        <3>2. Len(queue') = IF lo <= len THEN len - lo + 1 ELSE 0
            BY <2>4
        <3>3. CASE lo <= len
            BY <3>1, <3>2, <3>3
        <3>4. CASE ~(lo <= len)
            <4>1. n = len
                BY <3>1, <3>4
            <4> QED  BY <3>1, <3>2, <3>4, <4>1
        <3> QED  BY <3>3, <3>4
    <2>6. DOMAIN queue' = 1..(len - n)
        BY <2>4, <2>5, LenProperties
    <2>7. \A j \in DOMAIN queue' : j + n \in DOMAIN queue /\ queue'[j] = queue[j + n]
        <3> TAKE j \in DOMAIN queue'
        <3>1. queue'[j] = queue[lo + j - 1]
            BY <2>4, <2>5, <2>6
        <3>2. lo + j - 1 = j + n /\ j + n \in 1..Len(queue)
            BY <1>3, <1>4, <2>6 DEF lo, len
        <3> QED  BY <1>4, <3>1, <3>2
    <2> QED  BY <1>3, <1>4, <2>4, <2>5, <2>6, <2>7 DEF Advanced, len
<1>17. FeedTypeOK' /\ Quiet
    <2>1. asked' \in Nat /\ published' \in 0..Len(feed) /\ pending' \subseteq StatusKinds
          /\ unfinished' \in Int
        BY <1>1, BaseFacts DEF FeedTypeOK
    <2>2. queue' \in Seq(Tasks)
        BY <1>16 DEF Advanced
    <2> QED  BY <1>1, <1>11, <2>1, <2>2, QueueOnlyQuiet
<1> QED  BY <1>1, <1>2, <1>3, <1>15, <1>16, <1>17

-----------------------------------------------------------------------------
(* The steps that touch the queue, by name.                                 *)

PutsContent ==
    /\ QueueOnly
    /\ published \in Nat /\ published' = published + 1
    /\ pending' = pending /\ work' = work /\ unfinished' = unfinished + 1
    /\ \E task \in Tasks :
          /\ task.kind = "content" /\ task.body = <<published + 1>>
          /\ Appended(task)

PutsStatus ==
    /\ QueueOnly
    /\ published' = published /\ work' = work /\ unfinished' = unfinished + 1
    /\ \E kind \in StatusKinds :
          /\ kind \notin pending /\ pending' = pending \cup {kind}
          /\ \E task \in Tasks : task.kind = kind /\ task.body = <<>> /\ Appended(task)

Rests ==
    UNCHANGED <<feed, mode, published, queue, pending, unfinished, work, batch, status,
                toolMsgs, chat, settled, previewed, flushFailed, toolRetried>>

Takes ==
    /\ QueueOnly
    /\ work = None /\ 1 \in DOMAIN queue /\ Advanced(1)
    /\ published' = published /\ unfinished' = unfinished
    /\ pending' = pending \ {queue[1].kind}
    /\ work' \in IdWorks /\ work' # None
    /\ work'.kind = queue[1].kind /\ work'.body = queue[1].body
    /\ work'.merged = 0 /\ work'.pc = "dispatch"

Coalesces ==
    /\ QueueOnly
    /\ work # None /\ work.kind \in {"busy", "note"} /\ work.merged = 0
    /\ published' = published /\ Thinned
    /\ pending' = IF Later = {} THEN pending ELSE pending \ {work.kind}
    /\ \/ work' = None /\ unfinished' = unfinished - Cardinality(Later) - 1
       \/ /\ unfinished' = unfinished - Cardinality(Later)
          /\ SameTask /\ work'.merged = 0
          /\ work'.pc = IF status = None THEN "statusSend" ELSE "statusEdit"

Merges ==
    /\ QueueOnly
    /\ work # None /\ work.pc = "merge" /\ work.kind = "content" /\ work.merged = 0
    /\ published' = published /\ pending' = pending /\ unfinished' = unfinished
    /\ \E n \in Nat : Advanced(n) /\ Gathered(n)

Flow ==
    \/ work # None /\ Stays
    \/ PutsContent \/ PutsStatus \/ Rests \/ Takes \/ Coalesces \/ Merges

-----------------------------------------------------------------------------
(* The queue is what is counted and what is pending.                        *)

LEMMA StaysQueued == ASSUME FeedTypeOK, Queued, work # None, Stays PROVE Queued'
<1>1. work.merged \in Nat /\ unfinished \in Int /\ Len(queue) \in Nat
    BY WorkFields, QueueFields DEF FeedTypeOK
<1>2. unfinished = Len(queue) + (1 + work.merged)
    BY DEF Queued
<1>3. unfinished' = Len(queue') + (IF work' = None THEN 0 ELSE 1 + work'.merged)
    <2>1. CASE SameTask /\ unfinished' = unfinished - work.merged + work'.merged
        <3>1. work' # None /\ work'.merged \in Nat /\ queue' = queue
            BY <2>1 DEF SameTask, IdWorks, Stays
        <3> QED  BY <1>1, <1>2, <2>1, <3>1
    <2>2. CASE work' = None /\ unfinished' = unfinished - 1 - work.merged
        <3> DEFINE len == Len(queue)
        <3>1. queue' = queue
            BY DEF Stays
        <3>2. len \in Nat /\ unfinished = len + (1 + work.merged)
            BY <1>1, <1>2
        <3> HIDE DEF len
        <3>3. unfinished' = len
            BY <1>1, <2>2, <3>2
        <3> QED  BY <2>2, <3>1, <3>3 DEF len
    <2> QED  BY <2>1, <2>2 DEF Stays
<1>4. queue' = queue /\ pending' = pending
    BY DEF Stays
<1> QED  BY <1>3, <1>4 DEF Queued

LEMMA PutsContentQueued == ASSUME FeedTypeOK, Queued, PutsContent PROVE Queued'
<1>1. PICK task \in Tasks : /\ task.kind = "content" /\ Appended(task)
    BY DEF PutsContent
<1>2. pending' = pending /\ work' = work /\ unfinished' = unfinished + 1
    BY DEF PutsContent
<1> DEFINE len == Len(queue)
<1>3. /\ len \in Nat /\ Len(queue') = len + 1
      /\ DOMAIN queue = 1..len /\ DOMAIN queue' = 1..(len + 1)
      /\ \A j \in DOMAIN queue : queue'[j] = queue[j]
      /\ queue'[len + 1].kind = "content"
    BY <1>1 DEF Appended
<1>4. unfinished' = Len(queue') + (IF work' = None THEN 0 ELSE 1 + work'.merged)
    <2>1. /\ unfinished \in Int
          /\ work # None => work.merged \in Nat
          /\ unfinished = len + (IF work = None THEN 0 ELSE 1 + work.merged)
        BY WorkFields DEF FeedTypeOK, Queued
    <2>2. len \in Nat /\ Len(queue') = len + 1
        BY <1>3
    <2> HIDE DEF len
    <2>3. CASE work = None
        BY <1>2, <2>1, <2>2, <2>3
    <2>4. CASE work # None
        BY <1>2, <2>1, <2>2, <2>4
    <2> QED  BY <2>3, <2>4
<1> HIDE DEF len
<1>5. \A j \in DOMAIN queue' : j \in DOMAIN queue \/ queue'[j].kind = "content"
    BY <1>3
<1>6. \A j \in DOMAIN queue : j \in DOMAIN queue'
    BY <1>3
<1>7. \A kind \in StatusKinds : kind # "content"
    BY DEF StatusKinds
<1>8. \A j, k \in DOMAIN queue' :
          queue'[j].kind # "content" /\ queue'[j].kind = queue'[k].kind => j = k
    BY <1>3, <1>5 DEF Queued
<1>9. \A kind \in StatusKinds :
          kind \in pending' <=> \E j \in DOMAIN queue' : queue'[j].kind = kind
    BY <1>2, <1>3, <1>5, <1>6, <1>7 DEF Queued
<1> QED  BY <1>4, <1>8, <1>9 DEF Queued

LEMMA PutsStatusQueued == ASSUME FeedTypeOK, Queued, PutsStatus PROVE Queued'
<1>1. PICK kind \in StatusKinds :
          /\ kind \notin pending /\ pending' = pending \cup {kind}
          /\ \E task \in Tasks : task.kind = kind /\ task.body = <<>> /\ Appended(task)
    BY DEF PutsStatus
<1>2. work' = work /\ unfinished' = unfinished + 1
    BY DEF PutsStatus
<1> DEFINE len == Len(queue)
<1>3. /\ len \in Nat /\ Len(queue') = len + 1
      /\ DOMAIN queue = 1..len /\ DOMAIN queue' = 1..(len + 1)
      /\ \A j \in DOMAIN queue : queue'[j] = queue[j]
      /\ queue'[len + 1].kind = kind
    BY <1>1 DEF Appended
<1>4. unfinished' = Len(queue') + (IF work' = None THEN 0 ELSE 1 + work'.merged)
    <2>1. /\ unfinished \in Int
          /\ work # None => work.merged \in Nat
          /\ unfinished = len + (IF work = None THEN 0 ELSE 1 + work.merged)
        BY WorkFields DEF FeedTypeOK, Queued
    <2>2. len \in Nat /\ Len(queue') = len + 1
        BY <1>3
    <2> HIDE DEF len
    <2>3. CASE work = None
        BY <1>2, <2>1, <2>2, <2>3
    <2>4. CASE work # None
        BY <1>2, <2>1, <2>2, <2>4
    <2> QED  BY <2>3, <2>4
<1>5. /\ \A j \in DOMAIN queue' : j \in DOMAIN queue \/ j = len + 1
      /\ \A j \in DOMAIN queue : j \in DOMAIN queue'
      /\ len + 1 \in DOMAIN queue'
    BY <1>3
<1>6. \A j \in DOMAIN queue : queue[j].kind # kind
    BY <1>1 DEF Queued
<1> HIDE DEF len
<1>7. \A j, k \in DOMAIN queue' :
          queue'[j].kind # "content" /\ queue'[j].kind = queue'[k].kind => j = k
    BY <1>3, <1>5, <1>6 DEF Queued
<1>8. ASSUME NEW other \in StatusKinds
      PROVE  other \in pending' <=> \E j \in DOMAIN queue' : queue'[j].kind = other
    <2>1. other \in pending <=> \E j \in DOMAIN queue : queue[j].kind = other
        BY DEF Queued
    <2>2. other \in pending' <=> other \in pending \/ other = kind
        BY <1>1
    <2> QED  BY <1>3, <1>5, <2>1, <2>2
<1> QED  BY <1>4, <1>7, <1>8 DEF Queued

LEMMA TakesQueued == ASSUME FeedTypeOK, Queued, Takes PROVE Queued'
<1> DEFINE len == Len(queue)
<1>1. /\ work = None /\ 1 \in DOMAIN queue
      /\ unfinished' = unfinished /\ pending' = pending \ {queue[1].kind}
      /\ work' # None /\ work'.merged = 0
    BY DEF Takes
<1>2. /\ len \in Nat /\ Len(queue') = len - 1
      /\ DOMAIN queue = 1..len /\ DOMAIN queue' = 1..(len - 1)
      /\ \A j \in DOMAIN queue' : j + 1 \in DOMAIN queue /\ queue'[j] = queue[j + 1]
    BY DEF Takes, Advanced
<1>3. unfinished' = Len(queue') + (IF work' = None THEN 0 ELSE 1 + work'.merged)
    <2>1. unfinished = len
        BY <1>1, <1>2 DEF Queued
    <2>2. len \in Nat /\ Len(queue') = len - 1
        BY <1>2
    <2> HIDE DEF len
    <2> QED  BY <1>1, <2>1, <2>2
<1>4. \A j \in DOMAIN queue' : j \in Nat /\ j + 1 # 1
    BY <1>2
<1>5. \A j \in DOMAIN queue : j = 1 \/ \E k \in DOMAIN queue' : j = k + 1
    <2> TAKE j \in DOMAIN queue
    <2>1. j \in 1..len /\ len \in Nat
        BY <1>2
    <2> HIDE DEF len
    <2>2. j # 1 => j - 1 \in 1..(len - 1) /\ j = j - 1 + 1
        BY <2>1
    <2> QED  BY <2>2, <1>2
<1> HIDE DEF len
<1>6. ASSUME NEW j \in DOMAIN queue', NEW k \in DOMAIN queue',
             queue'[j].kind # "content", queue'[j].kind = queue'[k].kind
      PROVE  j = k
    <2>1. j + 1 = k + 1
        BY <1>2, <1>6 DEF Queued
    <2> QED  BY <1>4, <2>1
<1>7. ASSUME NEW kind \in StatusKinds
      PROVE  kind \in pending' <=> \E j \in DOMAIN queue' : queue'[j].kind = kind
    <2>1. kind # "content"
        BY DEF StatusKinds
    <2>2. kind \in pending <=> \E j \in DOMAIN queue : queue[j].kind = kind
        BY DEF Queued
    <2>3. ASSUME kind \in pending'
          PROVE  \E j \in DOMAIN queue' : queue'[j].kind = kind
        <3>1. PICK j \in DOMAIN queue : queue[j].kind = kind
            BY <1>1, <2>2, <2>3
        <3>2. j # 1
            BY <1>1, <2>3, <3>1
        <3>3. PICK k \in DOMAIN queue' : j = k + 1
            BY <1>5, <3>2
        <3> QED  BY <1>2, <3>1, <3>3
    <2>4. ASSUME NEW j \in DOMAIN queue', queue'[j].kind = kind
          PROVE  kind \in pending'
        <3>1. j + 1 \in DOMAIN queue /\ queue[j + 1].kind = kind /\ j + 1 # 1
            BY <1>2, <1>4, <2>4
        <3>2. kind \in pending
            BY <2>2, <3>1
        <3>3. queue[1].kind # kind
            BY <1>1, <2>1, <3>1 DEF Queued
        <3> QED  BY <1>1, <3>2, <3>3
    <2> QED  BY <2>3, <2>4
<1> QED  BY <1>3, <1>6, <1>7 DEF Queued

LEMMA MergesQueued == ASSUME FeedTypeOK, Queued, Merges PROVE Queued'
<1> DEFINE len == Len(queue)
<1>1. PICK n \in Nat : Advanced(n) /\ Gathered(n)
    BY DEF Merges
<1>2. /\ work # None /\ work.merged = 0
      /\ unfinished' = unfinished /\ pending' = pending
    BY DEF Merges
<1>3. /\ len \in Nat /\ n <= len /\ Len(queue') = len - n
      /\ DOMAIN queue = 1..len /\ DOMAIN queue' = 1..(len - n)
      /\ \A j \in DOMAIN queue' : j + n \in DOMAIN queue /\ queue'[j] = queue[j + n]
    BY <1>1 DEF Advanced
<1>4. work' # None /\ work'.merged = n /\ \A j \in 1..n : queue[j].kind = "content"
    BY <1>1 DEF Gathered, IsText
<1>5. unfinished' = Len(queue') + (IF work' = None THEN 0 ELSE 1 + work'.merged)
    <2>1. unfinished = len + 1
        BY <1>2, <1>3 DEF Queued
    <2>2. len \in Nat /\ n <= len /\ Len(queue') = len - n
        BY <1>3
    <2> HIDE DEF len
    <2> QED  BY <1>2, <1>4, <2>1, <2>2
<1>6. \A j \in DOMAIN queue : j \in 1..n \/ \E k \in DOMAIN queue' : j = k + n
    <2> TAKE j \in DOMAIN queue
    <2>1. j \in 1..len /\ len \in Nat /\ n <= len
        BY <1>3
    <2> HIDE DEF len
    <2>2. j \notin 1..n => j - n \in 1..(len - n) /\ j = j - n + n
        BY <2>1
    <2> QED  BY <2>2, <1>3
<1>7. \A j \in DOMAIN queue' : j \in Nat
    BY <1>3
<1> HIDE DEF len
<1>8. ASSUME NEW j \in DOMAIN queue', NEW k \in DOMAIN queue',
             queue'[j].kind # "content", queue'[j].kind = queue'[k].kind
      PROVE  j = k
    <2>1. j + n = k + n
        BY <1>3, <1>8 DEF Queued
    <2> QED  BY <1>7, <2>1
<1>9. ASSUME NEW kind \in StatusKinds
      PROVE  kind \in pending' <=> \E j \in DOMAIN queue' : queue'[j].kind = kind
    <2>1. kind # "content"
        BY DEF StatusKinds
    <2>2. kind \in pending <=> \E j \in DOMAIN queue : queue[j].kind = kind
        BY DEF Queued
    <2>3. ASSUME NEW j \in DOMAIN queue, queue[j].kind = kind
          PROVE  \E k \in DOMAIN queue' : queue'[k].kind = kind
        <3>1. j \notin 1..n
            BY <1>4, <2>1, <2>3
        <3>2. PICK k \in DOMAIN queue' : j = k + n
            BY <1>6, <3>1
        <3> QED  BY <1>3, <2>3, <3>2
    <2>4. ASSUME NEW j \in DOMAIN queue', queue'[j].kind = kind
          PROVE  \E k \in DOMAIN queue : queue[k].kind = kind
        BY <1>3, <2>4
    <2> QED  BY <1>2, <2>2, <2>3, <2>4
<1> QED  BY <1>5, <1>8, <1>9 DEF Queued

LEMMA CoalescesQueued == ASSUME FeedTypeOK, Queued, Coalesces PROVE Queued'
<1> DEFINE len == Len(queue)
           c == Cardinality(Later)
<1>1. /\ work # None /\ work.kind \in {"busy", "note"} /\ work.merged = 0
      /\ pending' = IF Later = {} THEN pending ELSE pending \ {work.kind}
      /\ \/ work' = None /\ unfinished' = unfinished - c - 1
         \/ unfinished' = unfinished - c /\ work' # None /\ work'.merged = 0
    BY DEF Coalesces, SameTask
<1>2. c \in Nat /\ len \in Nat /\ Len(queue') = len - c /\ Thins(queue', queue, Later)
    BY QueueFields DEF Coalesces, Thinned
<1>3. unfinished' = Len(queue') + (IF work' = None THEN 0 ELSE 1 + work'.merged)
    <2>1. unfinished = len + 1
        BY <1>1, <1>2 DEF Queued
    <2> HIDE DEF len, c
    <2>2. CASE work' = None /\ unfinished' = unfinished - c - 1
        BY <1>2, <2>1, <2>2
    <2>3. CASE unfinished' = unfinished - c /\ work' # None /\ work'.merged = 0
        BY <1>2, <2>1, <2>3
    <2> QED  BY <1>1, <2>2, <2>3
<1> HIDE DEF len, c
<1>4. PICK at \in [DOMAIN queue' -> DOMAIN queue \ Later] :
          /\ \A k \in DOMAIN queue' : queue'[k] = queue[at[k]]
          /\ \A j, k \in DOMAIN queue' : j < k => at[j] < at[k]
          /\ \A i \in DOMAIN queue \ Later : \E k \in DOMAIN queue' : at[k] = i
    BY <1>2 DEF Thins
<1>5. \A j \in DOMAIN queue : j \in Later <=> queue[j].kind = work.kind
    BY DEF Later
<1>6. \A j \in DOMAIN queue' : at[j] \in DOMAIN queue /\ queue[at[j]].kind # work.kind /\ j \in Nat
    <2> TAKE j \in DOMAIN queue'
    <2>1. at[j] \in DOMAIN queue \ Later
        BY <1>4
    <2>2. j \in Nat
        BY LenProperties DEF Coalesces, Thinned
    <2> QED  BY <1>5, <2>1, <2>2
<1>7. \A j \in DOMAIN queue : j \in Nat
    BY QueueFields
<1>8. ASSUME NEW j \in DOMAIN queue', NEW k \in DOMAIN queue',
             queue'[j].kind # "content", queue'[j].kind = queue'[k].kind
      PROVE  j = k
    <2>1. at[j] = at[k]
        BY <1>4, <1>6, <1>8 DEF Queued
    <2>2. at[j] \in Nat /\ at[k] \in Nat
        BY <1>6, <1>7
    <2>3. ~(j < k) /\ ~(k < j)
        BY <1>4, <2>1, <2>2
    <2> QED  BY <1>6, <2>3
<1>9. ASSUME NEW kind \in StatusKinds
      PROVE  kind \in pending' <=> \E j \in DOMAIN queue' : queue'[j].kind = kind
    <2>1. kind \in pending <=> \E j \in DOMAIN queue : queue[j].kind = kind
        BY DEF Queued
    <2>2. kind \in pending' <=> kind \in pending /\ kind # work.kind
        <3>1. CASE Later = {}
            <4>1. \A j \in DOMAIN queue : queue[j].kind # work.kind
                BY <1>5, <3>1
            <4>2. kind \in pending => kind # work.kind
                BY <2>1, <4>1
            <4> QED  BY <1>1, <3>1, <4>2
        <3>2. CASE Later # {}
            BY <1>1, <3>2
        <3> QED  BY <3>1, <3>2
    <2>3. ASSUME NEW j \in DOMAIN queue, queue[j].kind = kind, kind # work.kind
          PROVE  \E k \in DOMAIN queue' : queue'[k].kind = kind
        <3>1. j \in DOMAIN queue \ Later
            BY <1>5, <2>3
        <3>2. PICK k \in DOMAIN queue' : at[k] = j
            BY <1>4, <3>1
        <3> QED  BY <1>4, <2>3, <3>2
    <2>4. ASSUME NEW j \in DOMAIN queue', queue'[j].kind = kind
          PROVE  kind # work.kind /\ \E k \in DOMAIN queue : queue[k].kind = kind
        BY <1>4, <1>6, <2>4
    <2> QED  BY <2>1, <2>2, <2>3, <2>4
<1> QED  BY <1>3, <1>8, <1>9 DEF Queued

LEMMA FlowQueued == ASSUME FeedTypeOK, Queued, Flow PROVE Queued'
<1>1. CASE Rests
    <2>1. queue' = queue /\ pending' = pending /\ work' = work /\ unfinished' = unfinished
        BY <1>1 DEF Rests
    <2> QED  BY <2>1 DEF Queued
<1> QED  BY <1>1, StaysQueued, PutsContentQueued, PutsStatusQueued, TakesQueued,
            CoalescesQueued, MergesQueued DEF Flow

LEMMA FlowBodies == ASSUME FeedTypeOK, QueueBodies, Flow PROVE QueueBodies'
<1>1. CASE queue' = queue
    BY <1>1 DEF QueueBodies
<1>2. ASSUME NEW task, Appended(task),
             Len(task.body) = IF task.kind = "content" THEN 1 ELSE 0
      PROVE  QueueBodies'
    <2>1. \A j \in DOMAIN queue' :
             (j \in DOMAIN queue /\ queue'[j] = queue[j]) \/ queue'[j] = task
        BY <1>2 DEF Appended
    <2> QED  BY <1>2, <2>1 DEF QueueBodies
<1>3. ASSUME NEW k, Advanced(k) PROVE QueueBodies'
    <2>1. \A j \in DOMAIN queue' : j + k \in DOMAIN queue /\ queue'[j] = queue[j + k]
        BY <1>3 DEF Advanced
    <2> QED  BY <2>1 DEF QueueBodies
<1>4. CASE PutsContent
    <2>1. PICK task \in Tasks : /\ task.kind = "content" /\ task.body = <<published + 1>>
                                /\ Appended(task)
        BY <1>4 DEF PutsContent
    <2>2. Len(task.body) = 1
        BY <2>1
    <2> QED  BY <1>2, <2>1, <2>2
<1>5. CASE PutsStatus
    <2>1. PICK task \in Tasks : task.kind \in StatusKinds /\ task.body = <<>> /\ Appended(task)
        BY <1>5 DEF PutsStatus
    <2>2. Len(task.body) = 0 /\ task.kind # "content"
        BY <2>1 DEF StatusKinds
    <2> QED  BY <1>2, <2>1, <2>2
<1>6. CASE Takes
    BY <1>3, <1>6 DEF Takes
<1>7. CASE Merges
    BY <1>3, <1>7 DEF Merges
<1>8. CASE Coalesces
    <2>1. Thins(queue', queue, Later)
        BY <1>8 DEF Coalesces, Thinned
    <2>2. \A k \in DOMAIN queue' : \E j \in DOMAIN queue : queue'[k] = queue[j]
        BY <2>1 DEF Thins
    <2> QED  BY <2>2 DEF QueueBodies
<1> QED  BY <1>1, <1>4, <1>5, <1>6, <1>7, <1>8 DEF Flow, Stays, Rests

-----------------------------------------------------------------------------
(* Where the worker goes.                                                   *)

\* A call that has entered the batch stays with it until its task is over.
Stayed ==
    (work # None /\ work' # None /\ work.pc \in {"deliver", "open", "edit"}
        /\ IsCall(work.body[1]))
      => work'.pc \in {"deliver", "open", "edit"} \/ toolRetried'

\* The case of a step.
Over == work' = None
Display ==
    \/ Quiet \/ (ShownAlready /\ Over) \/ Drops \/ Clears
    \/ Enters /\ work.pc \in {"dispatch", "overflow"}
    \/ SendsBatch /\ (Over \/ (work # None /\ work.pc \in Flushing))
    \/ EditsBatch /\ (Over \/ (work # None /\ work.pc \in Flushing))
    \/ (Previews /\ Over) \/ Drafts \/ DeletesBatch
    \/ (EditsTool /\ Over) \/ (SendsContent /\ Over) \/ SendsStatus

Outcome == FeedTypeOK' /\ Display /\ Flow /\ PcInv' /\ Stayed

LEMMA OverIsFine == ASSUME work' = None PROVE PcInv' /\ Stayed
BY DEF PcInv, Stayed

LEMMA SameTaskBody ==
    ASSUME PcInv, work # None, SameTask, feed' = feed
    PROVE  WorkBody' /\ work'.kind = work.kind /\ work'.body = work.body /\ work' # None
BY DEF PcInv, PcOK, SameTask, WorkBody, IsTool

LEMMA RetriedPc ==
    ASSUME PcInv, work # None, Retried, feed' = feed
    PROVE  PcInv'
<1>1. WorkBody' /\ work'.pc = "dispatch" /\ work'.merged = 0
    BY SameTaskBody DEF Retried, Again
<1> QED  BY <1>1 DEF PcInv, PcOK, Aim, Flushing

\* After a flush the worker does what the flush was for.
LEMMA FlushedPc ==
    ASSUME Base, work # None, work.pc \in Flushing, Moved(work.then), feed' = feed, mode' = mode,
           batch' = None \/ flushFailed' = TRUE
    PROVE  PcInv'
<1>1. WorkBody' /\ work'.pc = work.then /\ work'.kind = work.kind /\ work'.body = work.body
      /\ work'.merged = work.merged
    BY SameTaskBody, BaseFacts DEF Moved
<1>2. work.then \in Aims /\ work.then \notin Flushing /\ work.merged = 0
      /\ Aim = work.then
    BY BaseFacts DEF PcInv, PcOK, Aim, Aims, Flushing
<1>3. /\ Aim \in {"overflow", "merge", "content"} => work.kind = "content"
      /\ Aim = "update" => work.kind \in {"busy", "note"}
      /\ Aim = "clear" => work.kind = "clear"
      /\ Aim = "overflow" => IsCall(work.body[1]) /\ mode = "batched"
      /\ Aim = "merge" => (IsTool(work.body[1]) => mode = "verbose")
      /\ Aim = "content" => (feed[work.body[1]].kind = "use" => mode = "verbose")
    BY BaseFacts DEF PcInv, PcOK
<1>4. Aim' = work.then /\ work'.pc \in Aims
    BY <1>1, <1>2 DEF Aim
<1> QED  BY <1>1, <1>2, <1>3, <1>4 DEF PcInv, PcOK, Aims, Flushing, IsTool, IsCall

\* On the way through a flush.
LEMMA FlushingPc ==
    ASSUME Base, work # None, work.pc \in Flushing, NEW pc \in Flushing, Moved(pc),
           feed' = feed, mode' = mode,
           pc = "flushDelete" => mode = "ephemeral" /\ batch' # None /\ batch'.msg # 0,
           pc = "flushOpen" => mode = "batched" /\ batch' # None /\ batch'.draft = "unset",
           pc = "flushFinal" => /\ mode = "batched" /\ batch' # None
                                /\ batch'.draft \in {"streaming", "legacy"}
    PROVE  PcInv'
<1>1. WorkBody' /\ work'.pc = pc /\ work'.kind = work.kind /\ work'.body = work.body
      /\ work'.merged = work.merged /\ work'.then = work.then
    BY SameTaskBody, BaseFacts DEF Moved
<1>2. work.then \in Aims /\ work.merged = 0 /\ Aim = work.then
    BY BaseFacts DEF PcInv, PcOK, Aim, Aims, Flushing
<1>3. /\ Aim \in {"overflow", "merge", "content"} => work.kind = "content"
      /\ Aim = "update" => work.kind \in {"busy", "note"}
      /\ Aim = "clear" => work.kind = "clear"
      /\ Aim = "overflow" => IsCall(work.body[1]) /\ mode = "batched"
      /\ Aim = "merge" => (IsTool(work.body[1]) => mode = "verbose")
      /\ Aim = "content" => (feed[work.body[1]].kind = "use" => mode = "verbose")
    BY BaseFacts DEF PcInv, PcOK
<1>4. Aim' = work.then /\ work'.pc \in Flushing
    BY <1>1, <1>2 DEF Aim
<1> QED  BY <1>1, <1>2, <1>3, <1>4 DEF PcInv, PcOK, Aims, Flushing, IsTool, IsCall

\* A dispatched task whose batch is flushed first.
LEMMA ToFlushPc ==
    ASSUME Base, work # None, work.pc = "dispatch", NEW then \in Aims, ToFlush(then),
           feed' = feed, mode' = mode,
           then \in {"overflow", "merge", "content"} => work.kind = "content",
           then = "update" => work.kind \in {"busy", "note"},
           then = "clear" => work.kind = "clear",
           then = "overflow" => IsCall(work.body[1]) /\ mode = "batched",
           then = "merge" => (IsTool(work.body[1]) => mode = "verbose"),
           then = "content" => (feed[work.body[1]].kind = "use" => mode = "verbose")
    PROVE  PcInv'
<1>1. WorkBody' /\ work'.pc = "flush" /\ work'.kind = work.kind /\ work'.body = work.body
      /\ work'.merged = work.merged /\ work'.then = then
    BY SameTaskBody, BaseFacts DEF ToFlush
<1>2. work.merged = 0
    BY BaseFacts DEF PcInv, PcOK
<1>3. Aim' = then /\ work'.pc \in Flushing
    BY <1>1 DEF Aim, Flushing
<1> QED  BY <1>1, <1>2, <1>3 DEF PcInv, PcOK, Aims, Flushing, IsTool, IsCall

LEMMA EntersPc == ASSUME Base, work.pc \in {"dispatch", "overflow"}, Enters PROVE PcInv'
<1> DEFINE i == work.body[1]
<1>1. work # None /\ work.kind = "content" /\ IsCall(i) /\ Moved("deliver") /\ feed' = feed
      /\ mode' = mode
    BY DEF Enters, Frame
<1>2. i \in Ids
    BY <1>1, BaseFacts, FirstEntry
<1>3. PICK b \in IdBatches : batch' = Entered(b, i)
    BY DEF Enters
<1>4. batch' # None /\ i \in Range(batch'.entries)
    BY <1>2, <1>3, EnteredOk
<1>5. WorkBody' /\ work'.pc = "deliver" /\ work'.kind = work.kind /\ work'.body = work.body
      /\ work'.merged = work.merged
    BY <1>1, SameTaskBody, BaseFacts DEF Moved
<1>6. work.merged = 0
    BY <1>1, BaseFacts DEF PcInv, PcOK
<1>7. Aim' = "deliver"
    BY <1>5 DEF Aim, Flushing
<1>8. IsTool(i)
    BY <1>1 DEF IsCall, IsTool
<1> QED  BY <1>1, <1>4, <1>5, <1>6, <1>7, <1>8 DEF PcInv, PcOK, Flushing, IsTool, IsCall

-----------------------------------------------------------------------------
(* Every step, case by case.                                                *)

LEMMA FrameOf ==
    /\ Quiet => Frame /\ chat' = chat /\ batch' = batch
    /\ Enters => Frame
    /\ Drops => Frame /\ batch' = None
    /\ Clears => Frame /\ batch' = batch
    /\ SendsBatch => Frame
    /\ EditsBatch => Frame
    /\ Drafts => Frame
    /\ DeletesBatch => Frame /\ batch' = None
    /\ Frame => feed' = feed /\ mode' = mode /\ (flushFailed => flushFailed')
BY DEF Quiet, Enters, Drops, Clears, SendsBatch, EditsBatch, Drafts, DeletesBatch, Frame

LEMMA DispatchUseOutcome == ASSUME Base, DispatchUse PROVE Outcome
<1>1. FeedTypeOK' /\ Stays /\ (Enters \/ (Quiet /\ ToFlush("overflow")))
    BY DispatchUseEffect
<1>2. work # None /\ work.pc = "dispatch" /\ IsCall(work.body[1]) /\ mode # "verbose"
      /\ work.body # <<>>
    BY DEF DispatchUse, At, Batchable
<1>3. work.kind = "content"
    BY <1>2, BaseFacts DEF PcInv, PcOK, WorkBody
<1>4. CASE Enters
    <2>1. PcInv'
        BY <1>2, <1>4, EntersPc
    <2> QED  BY <1>1, <1>2, <1>4, <2>1 DEF Outcome, Display, Flow, Stayed
<1>5. CASE Quiet /\ ToFlush("overflow")
    <2>1. mode = "batched" \/ GoTo("deliver")
        BY DEF DispatchUse
    <2>2. GoTo("deliver") => work'.pc = "deliver"
        BY <1>2, BaseFacts, WorkFields, GoToMoves DEF Moved, Pcs
    <2>3. mode = "batched"
        BY <1>5, <2>1, <2>2 DEF ToFlush
    <2>4. "overflow" \in Aims
        BY DEF Aims
    <2>5. PcInv'
        BY <1>2, <1>3, <1>5, <2>3, <2>4, FrameOf, ToFlushPc
    <2> QED  BY <1>1, <1>2, <1>5, <2>5 DEF Outcome, Display, Flow, Stayed
<1> QED  BY <1>1, <1>4, <1>5

LEMMA OverflowOutcome == ASSUME Base, Overflow PROVE Outcome
<1> DEFINE i == work.body[1]
<1>1. FeedTypeOK' /\ Stays /\ (Enters \/ (Drops /\ Moved("content")))
    BY OverflowEffect
<1>2. work # None /\ work.pc = "overflow"
    BY DEF Overflow, At
<1>3. work.kind = "content" /\ work.merged = 0 /\ IsCall(i)
    BY <1>2, BaseFacts DEF PcInv, PcOK, Aim, Flushing
<1>4. CASE Enters
    <2>1. PcInv'
        BY <1>2, <1>4, EntersPc
    <2> QED  BY <1>1, <1>2, <1>4, <2>1 DEF Outcome, Display, Flow, Stayed
<1>5. CASE Drops /\ Moved("content")
    <2>1. feed[i].kind = "long"
        <3>1. Fits(NewBatch, i) => GoTo("deliver")
            BY DEF Overflow
        <3>2. GoTo("deliver") => work'.pc = "deliver"
            BY <1>2, BaseFacts, WorkFields, GoToMoves DEF Moved, Pcs
        <3>3. ~Fits(NewBatch, i)
            BY <1>5, <3>1, <3>2 DEF Moved
        <3>4. Len(NewBatch.entries) < MaxEntries
            <4>1. Len(NewBatch.entries) = 0
                BY NewBatchOk
            <4> QED  BY <4>1, FeedAssumption
        <3> QED  BY <3>3, <3>4 DEF Fits
    <2>2. WorkBody' /\ work'.pc = "content" /\ work'.kind = work.kind /\ work'.body = work.body
        BY <1>2, <1>5, FrameOf, SameTaskBody, BaseFacts DEF Moved
    <2>3. Aim' = "content" /\ batch' = None /\ feed' = feed
        BY <1>5, <2>2, FrameOf DEF Aim, Flushing
    <2>4. PcInv'
        BY <1>3, <2>1, <2>2, <2>3 DEF PcInv, PcOK, Flushing
    <2> QED  BY <1>1, <1>2, <1>5, <2>4 DEF Outcome, Display, Flow, Stayed
<1> QED  BY <1>1, <1>4, <1>5

LEMMA DispatchResultOutcome == ASSUME Base, DispatchResult PROVE Outcome
<1> DEFINE i == work.body[1]
<1>1. FeedTypeOK' /\ Stays /\ Quiet
    BY DispatchResultEffect
<1>2. /\ work # None /\ work.pc = "dispatch" /\ ~IsCall(i) /\ IsTool(i) /\ mode # "verbose"
      /\ work.body # <<>> /\ work \in IdWorks
    BY BaseFacts, WorkFields DEF DispatchResult, At, Batchable
<1>3. work.kind = "content" /\ work.merged = 0
    BY <1>2, BaseFacts DEF PcInv, PcOK, WorkBody
<1>4. feed[i].kind = "result"
    <2>1. i \in 1..Len(feed) /\ feed \in Seq(Entries)
        BY <1>2, <1>3, BaseFacts, FirstEntry DEF Ids
    <2> HIDE DEF i
    <2>2. feed[i] \in Entries
        BY <2>1, ElementOfSeq
    <2>3. feed[i].kind \in Kinds
        BY <2>2 DEF Entries
    <2> QED  BY <1>2, <2>3 DEF IsCall, IsTool, Kinds, i
<1>5. /\ feed' = feed /\ mode' = mode /\ batch' = batch
    BY <1>1, FrameOf
<1>6. PcInv'
    <2>1. CASE work' = None
        BY <2>1, OverIsFine
    <2>2. CASE batch = None /\ GoTo("content")
        <3>1. Moved("content")
            BY <1>2, <2>2, GoToMoves DEF Pcs, Aims
        <3>2. WorkBody' /\ work'.pc = "content" /\ work'.kind = work.kind
              /\ work'.body = work.body
            BY <1>2, <1>5, <3>1, SameTaskBody, BaseFacts DEF Moved
        <3>3. Aim' = "content" /\ batch' = None
            BY <1>5, <2>2, <3>2 DEF Aim, Flushing
        <3> QED  BY <1>3, <1>4, <1>5, <3>2, <3>3 DEF PcInv, PcOK, Flushing
    <2>3. CASE batch # None /\ feed[i].of \in Range(batch.entries) /\ GoTo("deliver")
        <3>1. Moved("deliver")
            BY <1>2, <2>3, GoToMoves DEF Pcs
        <3>2. WorkBody' /\ work'.pc = "deliver" /\ work'.kind = work.kind
              /\ work'.body = work.body /\ work'.merged = work.merged
            BY <1>2, <1>5, <3>1, SameTaskBody, BaseFacts DEF Moved
        <3>3. Aim' = "deliver"
            BY <3>2 DEF Aim, Flushing
        <3> QED  BY <1>2, <1>3, <1>5, <2>3, <3>2, <3>3
                 DEF PcInv, PcOK, Flushing, IsTool, IsCall
    <2>4. CASE work' = [work EXCEPT !.pc = "flush", !.then = "content"]
        <3>1. "content" \in Aims
            BY DEF Aims
        <3>2. ToFlush("content")
            BY <1>2, <2>4, <3>1, FlushMoves
        <3> QED  BY <1>2, <1>3, <1>4, <1>5, <3>1, <3>2, ToFlushPc
    <2> QED  BY <2>1, <2>2, <2>3, <2>4 DEF DispatchResult, Finish
<1> QED  BY <1>1, <1>2, <1>6 DEF Outcome, Display, Flow, Stayed

LEMMA DeliverOutcome == ASSUME Base, Deliver PROVE Outcome
<1>1. /\ FeedTypeOK' /\ Stays
      /\ \/ work' = None /\ (ShownAlready \/ Quiet)
         \/ /\ Moved("edit") /\ Quiet /\ batch' = batch
            /\ batch.msg # 0 \/ batch.draft = "streaming"
         \/ /\ Moved("open") /\ Clears
            /\ batch.msg = 0 /\ batch.draft = "none"
    BY DeliverEffect
<1>2. work # None /\ work.pc = "deliver"
    BY DEF Deliver, At
<1>3. CASE work' = None /\ (ShownAlready \/ Quiet)
    BY <1>1, <1>2, <1>3, OverIsFine DEF Outcome, Display, Flow, Over
<1>4. /\ work.kind = "content" /\ work.merged = 0
      /\ IsTool(work.body[1]) /\ batch # None
      /\ IF IsCall(work.body[1]) THEN work.body[1] \in Range(batch.entries)
         ELSE feed[work.body[1]].of \in Range(batch.entries)
    BY <1>2, BaseFacts DEF PcInv, PcOK, Aim, Flushing
<1>5. ASSUME NEW pc \in {"edit", "open"}, Moved(pc), batch' = batch, feed' = feed,
             pc = "open" => batch.msg = 0 /\ batch.draft = "none",
             pc = "edit" => batch.msg # 0 \/ batch.draft = "streaming"
      PROVE  PcInv' /\ Stayed
    <2>1. WorkBody' /\ work'.pc = pc /\ work'.kind = work.kind /\ work'.body = work.body
          /\ work'.merged = work.merged
        BY <1>2, <1>5, SameTaskBody, BaseFacts DEF Moved
    <2>2. Aim' = pc
        BY <2>1 DEF Aim, Flushing
    <2>3. PcInv'
        BY <1>4, <1>5, <2>1, <2>2 DEF PcInv, PcOK, Flushing, IsTool, IsCall
    <2> QED  BY <2>1, <2>3 DEF Stayed
<1>6. CASE /\ Moved("edit") /\ Quiet /\ batch' = batch
           /\ batch.msg # 0 \/ batch.draft = "streaming"
    BY <1>1, <1>2, <1>5, <1>6, FrameOf DEF Outcome, Display, Flow
<1>7. CASE /\ Moved("open") /\ Clears /\ batch.msg = 0 /\ batch.draft = "none"
    BY <1>1, <1>2, <1>5, <1>7, FrameOf DEF Outcome, Display, Flow
<1> QED  BY <1>1, <1>3, <1>6, <1>7

LEMMA OpenOutcome == ASSUME Base, NEW o \in Answers, Open(o) PROVE Outcome
<1>1. /\ FeedTypeOK' /\ Stays
      /\ \/ work' = None /\ (SendsBatch \/ Quiet)
         \/ /\ Retried /\ Quiet
            /\ toolRetried' \/ ~IsCall(work.body[1])
    BY OpenEffect
<1>2. work # None
    BY DEF Open, At
<1>3. CASE work' = None /\ (SendsBatch \/ Quiet)
    BY <1>1, <1>2, <1>3, OverIsFine DEF Outcome, Display, Flow, Over
<1>4. CASE Retried /\ Quiet /\ (toolRetried' \/ ~IsCall(work.body[1]))
    <2>1. PcInv'
        BY <1>2, <1>4, RetriedPc, FrameOf, BaseFacts
    <2> QED  BY <1>1, <1>2, <1>4, <2>1 DEF Outcome, Display, Flow, Stayed
<1> QED  BY <1>1, <1>3, <1>4

LEMMA EditBatchOutcome == ASSUME Base, NEW o \in Answers, EditBatch(o) PROVE Outcome
<1>1. /\ FeedTypeOK' /\ Stays
      /\ \/ work' = None /\ (EditsBatch \/ Previews \/ Quiet)
         \/ /\ Retried /\ Quiet
            /\ toolRetried' \/ ~IsCall(work.body[1])
    BY EditBatchEffect
<1>2. work # None
    BY DEF EditBatch, At
<1>3. CASE work' = None /\ (EditsBatch \/ Previews \/ Quiet)
    BY <1>1, <1>2, <1>3, OverIsFine DEF Outcome, Display, Flow, Over
<1>4. CASE Retried /\ Quiet /\ (toolRetried' \/ ~IsCall(work.body[1]))
    <2>1. PcInv'
        BY <1>2, <1>4, RetriedPc, FrameOf, BaseFacts
    <2> QED  BY <1>1, <1>2, <1>4, <2>1 DEF Outcome, Display, Flow, Stayed
<1> QED  BY <1>1, <1>3, <1>4

LEMMA FlushOutcome == ASSUME Base, Flush PROVE Outcome
<1>1. /\ FeedTypeOK' /\ Stays
      /\ \/ batch = None /\ batch' = None /\ Moved(work.then) /\ Quiet
         \/ batch' = None /\ Moved(work.then) /\ Drops
         \/ /\ Moved("flushDelete") /\ Quiet /\ batch' = batch
            /\ mode = "ephemeral" /\ batch # None /\ batch.msg # 0
         \/ /\ Moved("flushFinal") /\ Quiet /\ batch' = batch
            /\ mode = "batched" /\ batch # None /\ batch.draft \in {"streaming", "legacy"}
         \/ /\ Moved("flushOpen") /\ Drafts /\ batch'.draft = "unset"
            /\ mode = "batched"
    BY FlushEffect
<1>2. work # None /\ work.pc = "flush" /\ work.pc \in Flushing
    BY DEF Flush, At, Flushing
<1>3. CASE batch' = None /\ Moved(work.then) /\ (Quiet \/ Drops)
    <2>1. PcInv'
        BY <1>2, <1>3, FrameOf, FlushedPc
    <2> QED  BY <1>1, <1>2, <1>3, <2>1 DEF Outcome, Display, Flow, Stayed
<1>4. "flushDelete" \in Flushing /\ "flushFinal" \in Flushing /\ "flushOpen" \in Flushing
    BY DEF Flushing
<1>5. CASE /\ Moved("flushDelete") /\ Quiet /\ batch' = batch
           /\ mode = "ephemeral" /\ batch # None /\ batch.msg # 0
    <2>1. PcInv'
        BY <1>2, <1>4, <1>5, FrameOf, FlushingPc
    <2> QED  BY <1>1, <1>2, <1>5, <2>1 DEF Outcome, Display, Flow, Stayed
<1>6. CASE /\ Moved("flushFinal") /\ Quiet /\ batch' = batch
           /\ mode = "batched" /\ batch # None /\ batch.draft \in {"streaming", "legacy"}
    <2>1. PcInv'
        BY <1>2, <1>4, <1>6, FrameOf, FlushingPc
    <2> QED  BY <1>1, <1>2, <1>6, <2>1 DEF Outcome, Display, Flow, Stayed
<1>7. CASE /\ Moved("flushOpen") /\ Drafts /\ batch'.draft = "unset" /\ mode = "batched"
    <2>1. batch' # None
        BY <1>7 DEF Drafts
    <2>2. PcInv'
        BY <1>2, <1>4, <1>7, <2>1, FrameOf, FlushingPc
    <2> QED  BY <1>1, <1>2, <1>7, <2>2 DEF Outcome, Display, Flow, Stayed
<1> QED  BY <1>1, <1>3, <1>5, <1>6, <1>7

LEMMA FlushDeleteOutcome == ASSUME Base, NEW o \in Answers, FlushDelete(o) PROVE Outcome
<1>1. FeedTypeOK' /\ Stays /\ DeletesBatch /\ Moved(work.then)
    BY FlushDeleteEffect
<1>2. work # None /\ work.pc = "flushDelete" /\ work.pc \in Flushing
    BY DEF FlushDelete, At, Flushing
<1>3. PcInv'
    BY <1>1, <1>2, FrameOf, FlushedPc
<1> QED  BY <1>1, <1>2, <1>3 DEF Outcome, Display, Flow, Stayed

LEMMA FlushOpenOutcome == ASSUME Base, NEW o \in Answers, FlushOpen(o) PROVE Outcome
<1>1. /\ FeedTypeOK' /\ Stays
      /\ \/ Moved("flushFinal") /\ Drafts /\ batch'.draft = "streaming"
         \/ /\ Moved("flushFinal") /\ SendsBatch
            /\ batch' # None /\ batch'.draft = "legacy"
         \/ Moved(work.then) /\ Quiet /\ flushFailed' = TRUE /\ batch' = batch
    BY FlushOpenEffect
<1>2. work # None /\ work.pc = "flushOpen" /\ work.pc \in Flushing
    BY DEF FlushOpen, At, Flushing
<1>3. mode = "batched" /\ "flushFinal" \in Flushing
    BY <1>2, FlushFacts DEF Flushing
<1>4. CASE Moved("flushFinal") /\ Drafts /\ batch'.draft = "streaming"
    <2>1. batch' # None
        BY <1>4 DEF Drafts
    <2>2. PcInv'
        BY <1>2, <1>3, <1>4, <2>1, FrameOf, FlushingPc
    <2> QED  BY <1>1, <1>2, <1>4, <2>2 DEF Outcome, Display, Flow, Stayed
<1>5. CASE Moved("flushFinal") /\ SendsBatch /\ batch' # None /\ batch'.draft = "legacy"
    <2>1. PcInv'
        BY <1>2, <1>3, <1>5, FrameOf, FlushingPc
    <2> QED  BY <1>1, <1>2, <1>5, <2>1 DEF Outcome, Display, Flow, Stayed
<1>6. CASE Moved(work.then) /\ Quiet /\ flushFailed' = TRUE /\ batch' = batch
    <2>1. PcInv'
        BY <1>2, <1>6, FrameOf, FlushedPc
    <2> QED  BY <1>1, <1>2, <1>6, <2>1 DEF Outcome, Display, Flow, Stayed
<1> QED  BY <1>1, <1>4, <1>5, <1>6

LEMMA FlushFinalOutcome == ASSUME Base, NEW o \in Answers, FlushFinal(o) PROVE Outcome
<1>1. /\ FeedTypeOK' /\ Stays /\ Moved(work.then)
      /\ \/ batch' = None /\ (SendsBatch \/ EditsBatch)
         \/ Quiet /\ flushFailed' = TRUE /\ batch' = batch
    BY FlushFinalEffect
<1>2. work # None /\ work.pc = "flushFinal" /\ work.pc \in Flushing
    BY DEF FlushFinal, At, Flushing
<1>3. PcInv'
    BY <1>1, <1>2, FrameOf, FlushedPc
<1> QED  BY <1>1, <1>2, <1>3 DEF Outcome, Display, Flow, Stayed

LEMMA DispatchContentOutcome == ASSUME Base, DispatchContent PROVE Outcome
<1>1. FeedTypeOK' /\ Stays /\ Quiet /\ ToFlush("merge")
    BY DispatchContentEffect
<1>2. work # None /\ work.pc = "dispatch" /\ work.kind = "content" /\ ~Batchable(work)
    BY DEF DispatchContent, At
<1>3. IsTool(work.body[1]) => mode = "verbose"
    BY <1>2, BaseFacts DEF Batchable, PcInv, PcOK, WorkBody
<1>4. "merge" \in Aims
    BY DEF Aims
<1>5. PcInv'
    BY <1>1, <1>2, <1>3, <1>4, FrameOf, ToFlushPc
<1> QED  BY <1>1, <1>2, <1>5 DEF Outcome, Display, Flow, Stayed

LEMMA DispatchStatusOutcome == ASSUME Base, DispatchStatus PROVE Outcome
<1> DEFINE then == IF work.kind = "clear" THEN "clear" ELSE "update"
<1>1. FeedTypeOK' /\ Stays /\ Quiet /\ ToFlush(then)
    BY DispatchStatusEffect
<1>2. work # None /\ work.pc = "dispatch" /\ work.kind \in {"clear", "busy", "note"}
    BY DEF DispatchStatus, At
<1>3. /\ then \in Aims
      /\ then \notin {"overflow", "merge", "content"}
      /\ then = "update" => work.kind \in {"busy", "note"}
      /\ then = "clear" => work.kind = "clear"
    BY <1>2 DEF Aims
<1> HIDE DEF then
<1>4. PcInv'
    BY <1>1, <1>2, <1>3, FrameOf, ToFlushPc
<1> QED  BY <1>1, <1>2, <1>4 DEF Outcome, Display, Flow, Stayed

LEMMA ContentOutcome == ASSUME Base, Content PROVE Outcome
<1>1. /\ FeedTypeOK' /\ Stays
      /\ toolMsgs' = toolMsgs /\ batch' = batch /\ flushFailed' = flushFailed
      /\ \/ /\ Moved("toolEdit") /\ Clears
            /\ feed[work.body[1]].kind = "result"
            /\ \E m \in toolMsgs : m.call = feed[work.body[1]].of
         \/ Moved("send") /\ Quiet
    BY ContentEffect
<1>2. work # None /\ work.pc = "content"
    BY DEF Content, At
<1>3. /\ work.kind = "content" /\ (feed[work.body[1]].kind = "use" => mode = "verbose")
      /\ batch = None \/ flushFailed
    BY <1>2, BaseFacts DEF PcInv, PcOK, Aim, Flushing
<1>4. feed' = feed /\ mode' = mode
    BY <1>1, FrameOf
<1>5. ASSUME NEW pc \in {"toolEdit", "send"}, Moved(pc),
             pc = "toolEdit" => /\ feed[work.body[1]].kind = "result"
                                /\ \E m \in toolMsgs : m.call = feed[work.body[1]].of
      PROVE  PcInv'
    <2>1. WorkBody' /\ work'.pc = pc /\ work'.kind = work.kind /\ work'.body = work.body
        BY <1>2, <1>4, <1>5, SameTaskBody, BaseFacts DEF Moved
    <2>2. Aim' = pc
        BY <2>1 DEF Aim, Flushing
    <2> QED  BY <1>1, <1>3, <1>4, <1>5, <2>1, <2>2 DEF PcInv, PcOK, Flushing
<1>6. PcInv'
    BY <1>1, <1>5
<1> QED  BY <1>1, <1>2, <1>6 DEF Outcome, Display, Flow, Stayed

LEMMA ToolEditOutcome == ASSUME Base, NEW o \in Answers, ToolEdit(o) PROVE Outcome
<1>1. /\ FeedTypeOK' /\ Stays
      /\ batch' = batch /\ flushFailed' = flushFailed
      /\ \/ work' = None /\ (EditsTool \/ Quiet)
         \/ Moved("send") /\ Quiet
         \/ Retried /\ Quiet
    BY ToolEditEffect
<1>2. work # None /\ work.pc = "toolEdit"
    BY DEF ToolEdit, At
<1>3. /\ work.kind = "content" /\ (feed[work.body[1]].kind = "use" => mode = "verbose")
      /\ batch = None \/ flushFailed
    BY <1>2, BaseFacts DEF PcInv, PcOK, Aim, Flushing
<1>4. CASE work' = None /\ (EditsTool \/ Quiet)
    BY <1>1, <1>2, <1>4, OverIsFine DEF Outcome, Display, Flow, Over
<1>5. CASE Moved("send") /\ Quiet
    <2>1. feed' = feed /\ mode' = mode
        BY <1>5, FrameOf
    <2>2. WorkBody' /\ work'.pc = "send" /\ work'.kind = work.kind /\ work'.body = work.body
        BY <1>2, <1>5, <2>1, SameTaskBody, BaseFacts DEF Moved
    <2>3. Aim' = "send"
        BY <2>2 DEF Aim, Flushing
    <2>4. PcInv'
        BY <1>1, <1>3, <2>1, <2>2, <2>3 DEF PcInv, PcOK, Flushing
    <2> QED  BY <1>1, <1>2, <1>5, <2>4 DEF Outcome, Display, Flow, Stayed
<1>6. CASE Retried /\ Quiet
    <2>1. PcInv'
        BY <1>2, <1>6, RetriedPc, FrameOf, BaseFacts
    <2> QED  BY <1>1, <1>2, <1>6, <2>1 DEF Outcome, Display, Flow, Stayed
<1> QED  BY <1>1, <1>4, <1>5, <1>6

LEMMA SendContentOutcome == ASSUME Base, NEW o \in Answers, SendContent(o) PROVE Outcome
<1>1. /\ FeedTypeOK' /\ Stays
      /\ \/ work' = None /\ (SendsContent \/ Quiet)
         \/ Retried /\ Quiet
    BY SendContentEffect
<1>2. work # None /\ work.pc = "send"
    BY DEF SendContent, At
<1>3. CASE work' = None /\ (SendsContent \/ Quiet)
    BY <1>1, <1>2, <1>3, OverIsFine DEF Outcome, Display, Flow, Over
<1>4. CASE Retried /\ Quiet
    <2>1. PcInv'
        BY <1>2, <1>4, RetriedPc, FrameOf, BaseFacts
    <2> QED  BY <1>1, <1>2, <1>4, <2>1 DEF Outcome, Display, Flow, Stayed
<1> QED  BY <1>1, <1>3, <1>4

LEMMA StatusEditOutcome == ASSUME Base, NEW o \in Answers, StatusEdit(o) PROVE Outcome
<1>1. /\ FeedTypeOK' /\ Stays
      /\ \/ work' = None /\ Quiet
         \/ Moved("statusSend") /\ Clears
         \/ Retried /\ Quiet
    BY StatusEditEffect
<1>2. work # None /\ work.pc = "statusEdit"
    BY DEF StatusEdit, At
<1>3. CASE work' = None /\ Quiet
    BY <1>1, <1>2, <1>3, OverIsFine DEF Outcome, Display, Flow, Over
<1>4. CASE Moved("statusSend") /\ Clears
    <2>1. work.kind \in {"busy", "note"} /\ work.merged = 0
        BY <1>2, BaseFacts DEF PcInv, PcOK, Aim, Flushing
    <2>2. feed' = feed /\ mode' = mode /\ status' = None
        BY <1>4, FrameOf DEF Clears, Cleared
    <2>3. WorkBody' /\ work'.pc = "statusSend" /\ work'.kind = work.kind
          /\ work'.merged = work.merged
        BY <1>2, <1>4, <2>2, SameTaskBody, BaseFacts DEF Moved
    <2>4. Aim' = "statusSend"
        BY <2>3 DEF Aim, Flushing
    <2>5. PcInv'
        BY <2>1, <2>2, <2>3, <2>4 DEF PcInv, PcOK, Flushing
    <2> QED  BY <1>1, <1>2, <1>4, <2>5 DEF Outcome, Display, Flow, Stayed
<1>5. CASE Retried /\ Quiet
    <2>1. PcInv'
        BY <1>2, <1>5, RetriedPc, FrameOf, BaseFacts
    <2> QED  BY <1>1, <1>2, <1>5, <2>1 DEF Outcome, Display, Flow, Stayed
<1> QED  BY <1>1, <1>3, <1>4, <1>5

LEMMA StatusSendOutcome == ASSUME Base, NEW o \in Answers, StatusSend(o) PROVE Outcome
<1>1. /\ FeedTypeOK' /\ Stays
      /\ \/ work' = None /\ (SendsStatus \/ Quiet)
         \/ Retried /\ Quiet
    BY StatusSendEffect
<1>2. work # None /\ work.pc = "statusSend"
    BY DEF StatusSend, At
<1>3. CASE work' = None /\ (SendsStatus \/ Quiet)
    BY <1>1, <1>2, <1>3, OverIsFine DEF Outcome, Display, Flow, Over
<1>4. CASE Retried /\ Quiet
    <2>1. PcInv'
        BY <1>2, <1>4, RetriedPc, FrameOf, BaseFacts
    <2> QED  BY <1>1, <1>2, <1>4, <2>1 DEF Outcome, Display, Flow, Stayed
<1> QED  BY <1>1, <1>3, <1>4

LEMMA ClearOutcome == ASSUME Base, Clear PROVE Outcome
<1>1. FeedTypeOK' /\ Stays /\ work' = None /\ Clears
    BY ClearEffect
<1>2. work # None
    BY DEF Clear, At
<1> QED  BY <1>1, <1>2, OverIsFine DEF Outcome, Display, Flow, Over

\* Steps of the producers leave the task alone.
LEMMA SameWorkPc ==
    ASSUME Base, work' = work,
           UNCHANGED <<feed, mode, batch, status, toolMsgs, flushFailed>>
    PROVE  PcInv' /\ Stayed
<1>1. PcInv'
    BY BaseFacts DEF PcInv, PcOK, Aim, WorkBody, IsTool, IsCall
<1>2. Stayed
    BY DEF Stayed
<1> QED  BY <1>1, <1>2

LEMMA EnqueueContentOutcome == ASSUME Base, EnqueueContent PROVE Outcome
<1>1. FeedTypeOK' /\ Quiet /\ PutsContent
    BY EnqueueContentEffect DEF PutsContent
<1>2. PcInv' /\ Stayed
    BY <1>1, SameWorkPc DEF PutsContent, QueueOnly
<1> QED  BY <1>1, <1>2 DEF Outcome, Display, Flow

LEMMA EnqueueStatusOutcome ==
    ASSUME Base, NEW kind \in StatusKinds, NEW text \in Texts, EnqueueStatus(kind, text)
    PROVE  Outcome
<1>1. FeedTypeOK' /\ Quiet /\ PutsStatus
    BY EnqueueStatusEffect DEF PutsStatus
<1>2. PcInv' /\ Stayed
    BY <1>1, SameWorkPc DEF PutsStatus, QueueOnly
<1> QED  BY <1>1, <1>2 DEF Outcome, Display, Flow

LEMMA SuppressionEndsOutcome == ASSUME Base, SuppressionEnds PROVE Outcome
<1>1. FeedTypeOK' /\ Quiet /\ Rests
    BY SuppressionEndsEffect DEF Rests
<1>2. PcInv' /\ Stayed
    BY <1>1, SameWorkPc DEF Rests
<1> QED  BY <1>1, <1>2 DEF Outcome, Display, Flow

LEMMA StutterOutcome == ASSUME Base, UNCHANGED vars PROVE Outcome
<1>1. UNCHANGED <<feed, mode, published, queue, pending, unfinished, suppressed, work, batch,
                  status, toolMsgs, chat, settled, asked, faults, previewed, flushFailed,
                  toolRetried>>
    BY DEF vars, queueVars, shownVars, history
<1>2. FeedTypeOK'
    <2>1. asked' \in Nat /\ published' \in 0..Len(feed) /\ queue' \in Seq(Tasks)
          /\ pending' \subseteq StatusKinds /\ unfinished' \in Int
          /\ work' \in IdWorks \cup {None}
        BY <1>1, BaseFacts DEF FeedTypeOK
    <2> QED  BY <1>1, <2>1, BaseFacts, TypeFromParts
<1>3. Quiet /\ Rests
    BY <1>1, SettledSettles DEF Quiet, Frame, SameMsg, Rests
<1>4. PcInv' /\ Stayed
    BY <1>1, SameWorkPc
<1> QED  BY <1>2, <1>3, <1>4 DEF Outcome, Display, Flow

LEMMA TakeOutcome == ASSUME Base, QueueBodies, Take PROVE Outcome
<1>1. FeedTypeOK' /\ Quiet /\ Takes
    BY TakeEffect DEF Takes
<1>2. /\ work = None /\ 1 \in DOMAIN queue /\ work' # None /\ work'.body = queue[1].body
      /\ work'.kind = queue[1].kind /\ work'.merged = 0 /\ work'.pc = "dispatch"
    BY <1>1 DEF Takes
<1>3. Len(work'.body) = IF work'.kind = "content" THEN 1 ELSE 0
    BY <1>2 DEF QueueBodies
<1>4. work'.body \in Seq(Ids)
    BY <1>2, BaseFacts, QueueFields
<1>5. WorkBody'
    <2>1. work'.kind = "content" => work'.body # <<>> /\ Len(work'.body) = 1
        BY <1>3
    <2>2. work'.kind # "content" => work'.body = <<>>
        BY <1>3, <1>4, EmptySeq
    <2> QED  BY <2>1, <2>2 DEF WorkBody
<1>6. PcInv'
    BY <1>2, <1>5 DEF PcInv, PcOK, Aim, Flushing
<1> QED  BY <1>1, <1>2, <1>6 DEF Outcome, Display, Flow, Stayed

LEMMA MergeOutcome == ASSUME Base, QueueBodies, Merge PROVE Outcome
<1>1. FeedTypeOK' /\ Quiet /\ Merges
    BY MergeEffect DEF Merges
<1>2. /\ work # None /\ work.pc = "merge" /\ work.kind = "content" /\ QueueOnly
    BY <1>1 DEF Merges
<1>3. PICK n \in Nat : Gathered(n)
    BY <1>1 DEF Merges
<1>4. /\ IsTool(work.body[1]) => mode = "verbose" /\ Len(work.body) = 1
      /\ batch = None \/ flushFailed
      /\ Len(work.body) \in Nat /\ Len(work.body) >= 1
      /\ DOMAIN work.body = 1..Len(work.body)
    BY <1>2, BaseFacts, FirstEntry, WorkFields, LenProperties DEF PcInv, PcOK, Aim, Flushing
<1>5. /\ work' # None /\ work'.kind = "content" /\ work'.pc = "content"
      /\ n # 0 => ~IsTool(work.body[1])
      /\ Len(work'.body) = Len(work.body) + n
      /\ \A p \in DOMAIN work.body : work'.body[p] = work.body[p]
    BY <1>2, <1>3 DEF Gathered
<1> DEFINE len == Len(work.body)
<1>6. 1 \in DOMAIN work.body
    <2>1. len \in Nat /\ len >= 1 /\ DOMAIN work.body = 1..len
        BY <1>4
    <2> HIDE DEF len
    <2> QED  BY <2>1
<1>7. work'.body[1] = work.body[1]
    BY <1>5, <1>6
<1>8. work'.body # <<>> /\ (IsTool(work.body[1]) => Len(work'.body) = 1)
    <2>1. len \in Nat /\ len >= 1 /\ Len(work'.body) = len + n
        BY <1>4, <1>5
    <2>2. IsTool(work.body[1]) => len = 1 /\ n = 0
        BY <1>4, <1>5
    <2> HIDE DEF len
    <2>3. Len(work'.body) # 0
        BY <2>1
    <2>4. Len(<<>>) = 0
        BY EmptySeq
    <2>5. IsTool(work.body[1]) => Len(work'.body) = 1
        BY <2>1, <2>2
    <2> QED  BY <2>3, <2>4, <2>5
<1>9. UNCHANGED <<feed, mode, batch, flushFailed>>
    BY <1>2 DEF QueueOnly
<1>10. WorkBody'
    BY <1>5, <1>7, <1>8, <1>9 DEF WorkBody, IsTool
<1>11. feed'[work'.body[1]].kind = "use" => mode' = "verbose"
    BY <1>4, <1>7, <1>9 DEF IsTool
<1>12. Aim' = "content"
    BY <1>5 DEF Aim, Flushing
<1>13. PcInv'
    BY <1>4, <1>5, <1>9, <1>10, <1>11, <1>12 DEF PcInv, PcOK, Flushing
<1> QED  BY <1>1, <1>2, <1>13 DEF Outcome, Display, Flow, Stayed

LEMMA DropStatusOutcome == ASSUME Base, DropStatus PROVE Outcome
<1>1. FeedTypeOK' /\ Quiet /\ Coalesces /\ work' = None
    BY DropStatusEffect DEF Coalesces
<1> QED  BY <1>1, OverIsFine DEF Outcome, Display, Flow

LEMMA UpdateOutcome == ASSUME Base, Update PROVE Outcome
<1>1. FeedTypeOK' /\ Quiet /\ Coalesces
    BY UpdateEffect DEF Coalesces
<1>2. work # None /\ work.kind \in {"busy", "note"} /\ work.pc = "update"
    BY <1>1 DEF Coalesces, Update, At
<1>3. CASE work' = None
    BY <1>1, <1>3, OverIsFine DEF Outcome, Display, Flow
<1>4. CASE /\ SameTask /\ work'.merged = 0
           /\ work'.pc = IF status = None THEN "statusSend" ELSE "statusEdit"
    <2>1. UNCHANGED <<feed, mode, status>>
        BY <1>1 DEF Coalesces, QueueOnly
    <2>2. WorkBody' /\ work'.kind = work.kind
        BY <1>2, <1>4, <2>1, SameTaskBody, BaseFacts
    <2>3. Aim' = work'.pc
        BY <1>4 DEF Aim, Flushing
    <2>4. PcInv'
        BY <1>2, <1>4, <2>1, <2>2, <2>3 DEF PcInv, PcOK, Flushing
    <2> QED  BY <1>1, <1>2, <2>4 DEF Outcome, Display, Flow, Stayed
<1> QED  BY <1>1, <1>3, <1>4 DEF Coalesces

\* Whatever step is taken.
LEMMA StepOutcome == ASSUME Base, QueueBodies, [Next]_vars PROVE Outcome
<1>1. CASE UNCHANGED vars
    BY <1>1, StutterOutcome
<1>2. CASE Next
    <2>1. CASE EnqueueContent
        BY <2>1, EnqueueContentOutcome
    <2>2. CASE \E kind \in StatusKinds, text \in Texts : EnqueueStatus(kind, text)
        BY <2>2, EnqueueStatusOutcome
    <2>3. CASE SuppressionEnds \/ Take \/ DropStatus \/ DispatchStatus \/ Update \/ Clear
        BY <2>3, SuppressionEndsOutcome, TakeOutcome, DropStatusOutcome,
           DispatchStatusOutcome, UpdateOutcome, ClearOutcome
    <2>4. CASE DispatchUse \/ Overflow \/ DispatchResult \/ Deliver \/ Flush
        BY <2>4, DispatchUseOutcome, OverflowOutcome, DispatchResultOutcome, DeliverOutcome,
           FlushOutcome
    <2>5. CASE DispatchContent \/ Merge \/ Content
        BY <2>5, DispatchContentOutcome, MergeOutcome, ContentOutcome
    <2>6. ASSUME NEW o \in Answers,
                 Open(o) \/ EditBatch(o) \/ FlushDelete(o) \/ FlushOpen(o) \/ FlushFinal(o)
          PROVE  Outcome
        BY <2>6, OpenOutcome, EditBatchOutcome, FlushDeleteOutcome, FlushOpenOutcome,
           FlushFinalOutcome
    <2>7. ASSUME NEW o \in Answers,
                 ToolEdit(o) \/ SendContent(o) \/ StatusEdit(o) \/ StatusSend(o)
          PROVE  Outcome
        BY <2>7, ToolEditOutcome, SendContentOutcome, StatusEditOutcome, StatusSendOutcome
    <2> QED  BY <1>2, <2>1, <2>2, <2>3, <2>4, <2>5, <2>6, <2>7 DEF Next
<1> QED  BY <1>1, <1>2

-----------------------------------------------------------------------------
(* The batch, the status message and the tool messages point at messages of *)
(* their kind.                                                              *)

Shape == BatchInv /\ StatusOK /\ ToolMsgsOK /\ ChatOK /\ NoGhosts

\* Where no message is sent, edited or deleted.
LEMMA UnsentShape ==
    ASSUME Shape, Frame, chat' = chat, toolMsgs' \subseteq toolMsgs, SameMsg
    PROVE  /\ StatusOK' /\ ToolMsgsOK' /\ ChatOK'
           /\ \A m \in DOMAIN chat' : (Up(m)' /\ chat'[m].kind = "status") =>
                 status' # None /\ status'.msg = m
<1>1. StatusOK' /\ \A m \in DOMAIN chat' : (Up(m)' /\ chat'[m].kind = "status") =>
                 status' # None /\ status'.msg = m
    BY DEF Shape, StatusOK, NoGhosts, SameMsg, Up
<1>2. ToolMsgsOK'
    BY DEF Shape, ToolMsgsOK, Frame, Up, IsCall
<1>3. ChatOK'
    BY DEF Shape, ChatOK, Frame, Up, IsCall
<1> QED  BY <1>1, <1>2, <1>3

LEMMA QuietShape == ASSUME Base, Shape, Quiet PROVE Shape'
<1>1. /\ Frame /\ chat' = chat /\ batch' = batch /\ previewed' = previewed
      /\ toolMsgs' \subseteq toolMsgs /\ SameMsg /\ feed' = feed /\ mode' = mode
    BY DEF Quiet, Frame
<1>2. BatchInv'
    BY <1>1 DEF Shape, BatchInv, BatchOK, Up, IsCall
<1>3. NoGhosts'
    BY <1>1, UnsentShape DEF Shape, NoGhosts, Up
<1> QED  BY <1>1, <1>2, <1>3, UnsentShape DEF Shape

LEMMA DropsShape == ASSUME Base, Shape, Drops PROVE Shape'
<1>1. /\ Frame /\ chat' = chat /\ batch' = None
      /\ toolMsgs' = toolMsgs /\ SameMsg /\ feed' = feed /\ mode' = mode
    BY DEF Drops, Frame, SameMsg
<1>2. BatchInv'
    BY <1>1 DEF BatchInv
<1>3. \A m \in DOMAIN chat : (Up(m) /\ chat[m].kind = "batch") => mode # "ephemeral"
    <2> SUFFICES ASSUME NEW m \in DOMAIN chat, Up(m), chat[m].kind = "batch",
                        mode = "ephemeral"
                 PROVE  FALSE
        OBVIOUS
    <2>1. batch.msg = 0 /\ batch.msg = m
        BY DEF Drops, Shape, NoGhosts
    <2>2. m >= 1
        BY BaseFacts, MessageFields
    <2> QED  BY <2>1, <2>2
<1>4. NoGhosts'
    BY <1>1, <1>3, UnsentShape DEF NoGhosts, Up
<1> QED  BY <1>1, <1>2, <1>4, UnsentShape DEF Shape

LEMMA EntersShape == ASSUME Base, Shape, Enters PROVE Shape'
<1> DEFINE i == work.body[1]
<1>1. /\ Frame /\ chat' = chat /\ previewed' = previewed
      /\ toolMsgs' \subseteq toolMsgs /\ SameMsg /\ feed' = feed /\ mode' = mode
      /\ work # None /\ work.kind = "content" /\ IsCall(i) /\ mode \in {"batched", "ephemeral"}
      /\ mode = "batched" => feed[i].kind = "use"
      /\ mode = "ephemeral" /\ batch # None => batch'.msg = batch.msg
    BY DEF Enters, Frame, SameMsg
<1>2. PICK b \in IdBatches : Left(b) /\ batch' = Entered(b, i)
    BY DEF Enters
<1>3. i \in Ids
    BY <1>1, BaseFacts, FirstEntry
<1> HIDE DEF i
<1>4. /\ SameBut(b, batch') /\ batch' # None /\ batch'.entries # <<>>
      /\ \A p \in DOMAIN b.entries : batch'.entries[p] = b.entries[p]
      /\ batch'.entries[Len(b.entries) + 1] = i
      /\ DOMAIN batch'.entries = DOMAIN b.entries \cup {Len(b.entries) + 1}
      /\ Range(batch'.entries) = Range(b.entries) \cup {i}
    BY <1>2, <1>3, EnteredOk
<1>5. batch'.msg = b.msg /\ batch'.draft = b.draft /\ batch'.last = b.last
    BY <1>4 DEF SameBut
<1>6. \A p \in DOMAIN b.entries :
         IF mode = "batched" THEN feed[b.entries[p]].kind = "use" ELSE IsCall(b.entries[p])
    <2>1. CASE b = NewBatch
        BY <2>1, NewBatchOk
    <2>2. CASE b # NewBatch
        <3>1. batch # None /\ BatchOK
            BY <1>2, <2>2 DEF Left, Shape, BatchInv
        <3>2. \A p \in DOMAIN b.entries : \E q \in DOMAIN batch.entries :
                 b.entries[p] = batch.entries[q]
            BY <1>2, <2>2 DEF Left
        <3> QED  BY <3>1, <3>2 DEF BatchOK
    <2> QED  BY <2>1, <2>2
<1>7. \A p \in DOMAIN batch'.entries :
         IF mode = "batched" THEN feed[batch'.entries[p]].kind = "use"
                             ELSE IsCall(batch'.entries[p])
    <2> TAKE p \in DOMAIN batch'.entries
    <2>1. CASE p \in DOMAIN b.entries
        BY <1>4, <1>6, <2>1
    <2>2. CASE p = Len(b.entries) + 1
        BY <1>1, <1>4, <2>2
    <2> QED  BY <1>4, <2>1, <2>2
<1>8. /\ mode = "ephemeral" => b.draft = "none"
      /\ mode = "batched" => (b.msg # 0 <=> b.draft = "legacy")
      /\ b.draft = "unset" \/ (b.draft = "none" /\ b.msg = 0) => b.last = <<>>
      /\ b.draft = "streaming" => Range(b.last) \subseteq previewed
      /\ b.msg # 0 => /\ b.msg \in DOMAIN chat /\ Up(b.msg) /\ chat[b.msg].kind = "batch"
                      /\ Range(b.last) \subseteq Range(chat[b.msg].body)
                      /\ mode = "batched" => Range(chat[b.msg].body) \subseteq Range(b.entries)
    <2>1. CASE b = NewBatch
        BY <2>1, NewBatchOk
    <2>2. CASE b # NewBatch
        <3>1. batch # None /\ BatchOK /\ SameBut(batch, b) /\ (mode = "batched" => b = batch)
            BY <1>2, <2>2 DEF Left, Shape, BatchInv
        <3> QED  BY <3>1 DEF BatchOK, SameBut
    <2> QED  BY <2>1, <2>2
<1>9. BatchInv'
    <2>1. /\ mode' # "verbose"
          /\ mode' = "ephemeral" => batch'.draft = "none"
          /\ mode' = "batched" => (batch'.msg # 0 <=> batch'.draft = "legacy")
          /\ batch'.draft = "unset" \/ (batch'.draft = "none" /\ batch'.msg = 0)
                 => batch'.last = <<>>
          /\ batch'.draft = "streaming" => Range(batch'.last) \subseteq previewed'
        BY <1>1, <1>5, <1>8
    <2>2. batch'.msg # 0 =>
             /\ batch'.msg \in DOMAIN chat'
             /\ chat'[batch'.msg].state = "up" /\ chat'[batch'.msg].kind = "batch"
             /\ Range(batch'.last) \subseteq Range(chat'[batch'.msg].body)
             /\ mode' = "batched" => Range(chat'[batch'.msg].body) \subseteq Range(batch'.entries)
        BY <1>1, <1>4, <1>5, <1>8 DEF Up
    <2>3. \A p \in DOMAIN batch'.entries :
             IF mode' = "batched" THEN feed'[batch'.entries[p]].kind = "use"
                                  ELSE feed'[batch'.entries[p]].kind \in {"use", "long"}
        BY <1>1, <1>7 DEF IsCall
    <2> QED  BY <1>4, <2>1, <2>2, <2>3 DEF BatchInv, BatchOK, Up, IsCall
<1>10. NoGhosts'
    <2>1. ASSUME NEW m \in DOMAIN chat, Up(m), chat[m].kind = "batch", mode = "ephemeral"
          PROVE  batch'.msg = m
        BY <1>1, <2>1 DEF Shape, NoGhosts
    <2> QED  BY <1>1, <1>4, <2>1, UnsentShape DEF NoGhosts, Up
<1> QED  BY <1>1, <1>9, <1>10, UnsentShape DEF Shape

LEMMA PreviewsShape == ASSUME Base, Shape, Previews PROVE Shape'
<1>1. /\ Frame /\ chat' = chat /\ batch # None /\ batch.draft = "streaming"
      /\ previewed' = previewed \cup Range(batch.entries)
      /\ toolMsgs' = toolMsgs /\ SameMsg /\ feed' = feed /\ mode' = mode
      /\ batch' # None /\ batch'.entries = batch.entries /\ batch'.msg = batch.msg
      /\ batch'.last = batch.entries /\ batch'.draft = batch.draft
    BY DEF Previews, Frame, SameMsg
<1>2. BatchOK
    BY <1>1 DEF Shape, BatchInv
<1>3. mode = "batched" /\ batch.msg = 0
    <2>1. mode # "verbose" /\ mode # "ephemeral" /\ mode \in {"batched", "ephemeral", "verbose"}
        BY <1>1, <1>2, BaseFacts DEF BatchOK, FeedTypeOK
    <2> QED  BY <1>1, <1>2, <2>1 DEF BatchOK
<1>4. BatchInv'
    BY <1>1, <1>2, <1>3 DEF BatchInv, BatchOK, IsCall
<1>5. NoGhosts'
    BY <1>1, UnsentShape DEF Shape, NoGhosts, Up
<1> QED  BY <1>1, <1>4, <1>5, UnsentShape DEF Shape

LEMMA DraftsShape == ASSUME Base, Shape, Drafts PROVE Shape'
<1>1. /\ Frame /\ chat' = chat /\ batch # None /\ batch.draft \in {"none", "unset"}
      /\ mode = "batched" /\ previewed' = previewed
      /\ toolMsgs' = toolMsgs /\ SameMsg /\ feed' = feed /\ mode' = mode
      /\ batch' # None /\ batch'.entries = batch.entries /\ batch'.msg = batch.msg
      /\ batch'.last = batch.last /\ batch'.draft \in {"unset", "streaming"}
    BY DEF Drafts, Frame, SameMsg
<1>2. BatchOK
    BY <1>1 DEF Shape, BatchInv
<1>3. batch.msg = 0 /\ batch.last = <<>> /\ Range(batch.last) = {}
    <2>1. batch.msg = 0 /\ batch.last = <<>>
        BY <1>1, <1>2 DEF BatchOK
    <2> QED  BY <2>1, NewBatchOk
<1>4. BatchInv'
    BY <1>1, <1>2, <1>3 DEF BatchInv, BatchOK, IsCall
<1>5. NoGhosts'
    BY <1>1, UnsentShape DEF Shape, NoGhosts, Up
<1> QED  BY <1>1, <1>4, <1>5, UnsentShape DEF Shape

\* A message is taken away.
LEMMA ErasedKeeps ==
    ASSUME Shape, Frame, NEW msg \in DOMAIN chat, Erased(msg),
           chat[msg].kind = "status" \/ (chat[msg].kind = "batch" /\ mode = "ephemeral"),
           toolMsgs' = toolMsgs
    PROVE  /\ ToolMsgsOK' /\ ChatOK'
           /\ \A m \in DOMAIN chat' : Up(m)' => m # msg /\ Up(m) /\ chat'[m] = chat[m]
<1>1. /\ DOMAIN chat' = DOMAIN chat /\ ~Up(msg)'
      /\ \A m \in DOMAIN chat \ {msg} : chat'[m] = chat[m]
      /\ chat'[msg].kind = chat[msg].kind /\ chat'[msg].body = chat[msg].body
      /\ feed' = feed /\ mode' = mode
    BY DEF Erased, Up, Frame
<1>2. ToolMsgsOK'
    <2>1. \A t \in toolMsgs : t.msg \in DOMAIN chat \ {msg}
        BY DEF Shape, ToolMsgsOK
    <2> QED  BY <1>1, <2>1 DEF Shape, ToolMsgsOK, Up, IsCall
<1>3. ChatOK'
    <2>1. ASSUME NEW m \in DOMAIN chat \ {msg}
          PROVE  /\ chat'[m].kind = "status" => chat'[m].body = <<>>
                 /\ chat'[m].kind = "content" => Up(m)'
                 /\ chat'[m].kind = "batch" => \A e \in Range(chat'[m].body) : IsCall(e)'
                 /\ chat'[m].kind = "batch" /\ mode' = "batched" => Up(m)'
        BY <1>1 DEF Shape, ChatOK, Up, IsCall
    <2>2. /\ chat'[msg].kind = "status" => chat'[msg].body = <<>>
          /\ chat'[msg].kind = "content" => Up(msg)'
          /\ chat'[msg].kind = "batch" => \A e \in Range(chat'[msg].body) : IsCall(e)'
          /\ chat'[msg].kind = "batch" /\ mode' = "batched" => Up(msg)'
        BY <1>1 DEF Shape, ChatOK, Up, IsCall
    <2> QED  BY <1>1, <2>1, <2>2 DEF ChatOK
<1> QED  BY <1>1, <1>2, <1>3 DEF Up

LEMMA ClearsShape == ASSUME Base, Shape, Clears PROVE Shape'
<1>1. /\ Frame /\ Cleared /\ batch' = batch /\ previewed' = previewed /\ toolMsgs' = toolMsgs
      /\ feed' = feed /\ mode' = mode /\ status' = None
    BY DEF Clears, Frame, Cleared
<1>2. CASE status = None /\ chat' = chat
    <2>1. SameMsg
        BY <1>1, <1>2 DEF SameMsg
    <2>2. BatchInv'
        BY <1>1, <1>2 DEF Shape, BatchInv, BatchOK, Up, IsCall
    <2>3. NoGhosts'
        BY <1>1, <1>2, <2>1, UnsentShape DEF Shape, NoGhosts, Up
    <2> QED  BY <1>1, <1>2, <2>1, <2>2, <2>3, UnsentShape DEF Shape
<1>3. CASE status # None /\ Erased(status.msg)
    <2> DEFINE msg == status.msg
    <2>1. msg \in DOMAIN chat /\ chat[msg].kind = "status"
        BY <1>3 DEF Shape, StatusOK
    <2>2. /\ ToolMsgsOK' /\ ChatOK'
          /\ \A m \in DOMAIN chat' : Up(m)' => m # msg /\ Up(m) /\ chat'[m] = chat[m]
        BY <1>1, <1>3, <2>1, ErasedKeeps
    <2>3. DOMAIN chat' = DOMAIN chat /\ \A m \in DOMAIN chat \ {msg} : chat'[m] = chat[m]
        BY <1>3 DEF Erased
    <2> HIDE DEF msg
    <2>4. BatchInv'
        <3>1. CASE batch = None
            BY <1>1, <3>1 DEF BatchInv
        <3>2. CASE batch # None
            <4>1. BatchOK
                BY <3>2 DEF Shape, BatchInv
            <4>2. batch.msg # 0 => /\ batch.msg \in DOMAIN chat'
                                   /\ chat'[batch.msg] = chat[batch.msg]
                <5>1. batch.msg # 0 => batch.msg \in DOMAIN chat \ {msg}
                    BY <2>1, <4>1 DEF BatchOK
                <5> QED  BY <2>3, <5>1
            <4>3. BatchOK'
                BY <1>1, <4>1, <4>2 DEF BatchOK, IsCall, Up
            <4> QED  BY <4>3 DEF BatchInv
        <3> QED  BY <3>1, <3>2
    <2>5. NoGhosts'
        <3> SUFFICES ASSUME NEW m \in DOMAIN chat', Up(m)'
                     PROVE  /\ chat'[m].kind # "status"
                            /\ chat'[m].kind = "batch" /\ mode' = "ephemeral"
                                   => batch' # None /\ batch'.msg = m
            BY DEF NoGhosts
        <3>1. m \in DOMAIN chat /\ m # msg /\ Up(m) /\ chat'[m] = chat[m]
            BY <2>2, <2>3
        <3> QED  BY <1>1, <3>1 DEF Shape, NoGhosts, msg
    <2>6. StatusOK'
        BY <1>1 DEF StatusOK
    <2> QED  BY <2>2, <2>4, <2>5, <2>6 DEF Shape
<1> QED  BY <1>1, <1>2, <1>3 DEF Cleared

LEMMA DeletesBatchShape == ASSUME Base, Shape, DeletesBatch PROVE Shape'
<1> DEFINE msg == batch.msg
<1>1. /\ Frame /\ mode = "ephemeral" /\ batch # None /\ msg # 0 /\ Erased(msg)
      /\ batch' = None /\ toolMsgs' = toolMsgs /\ status' = status /\ mode' = mode
    BY DEF DeletesBatch, Frame
<1>2. msg \in DOMAIN chat /\ chat[msg].kind = "batch"
    BY <1>1 DEF Shape, BatchInv, BatchOK
<1>3. /\ ToolMsgsOK' /\ ChatOK'
      /\ \A m \in DOMAIN chat' : Up(m)' => m # msg /\ Up(m) /\ chat'[m] = chat[m]
    BY <1>1, <1>2, ErasedKeeps
<1>4. /\ DOMAIN chat' = DOMAIN chat /\ \A m \in DOMAIN chat \ {msg} : chat'[m] = chat[m]
      /\ chat'[msg].kind = chat[msg].kind
    BY <1>1 DEF Erased
<1>5. StatusOK'
    BY <1>1, <1>4 DEF Shape, StatusOK
<1>6. NoGhosts'
    <2> SUFFICES ASSUME NEW m \in DOMAIN chat', Up(m)'
                 PROVE  /\ chat'[m].kind = "status" => status' # None /\ status'.msg = m
                        /\ chat'[m].kind # "batch"
        BY DEF NoGhosts
    <2>1. m \in DOMAIN chat /\ m # msg /\ Up(m) /\ chat'[m] = chat[m]
        BY <1>3, <1>4
    <2> QED  BY <1>1, <2>1 DEF Shape, NoGhosts
<1> QED  BY <1>1, <1>3, <1>5, <1>6 DEF Shape, BatchInv

\* A message is added.
LEMMA SentKeeps ==
    ASSUME Shape, Frame, NEW kind, NEW body, Sent(kind, body)
    PROVE  LET new == Len(chat) + 1 IN
           /\ new # 0 /\ new \in DOMAIN chat' /\ new \notin DOMAIN chat
           /\ chat'[new].kind = kind /\ chat'[new].body = body /\ chat'[new].state = "up"
           /\ \A m \in DOMAIN chat : m \in DOMAIN chat' /\ chat'[m] = chat[m]
           /\ \A m \in DOMAIN chat' : m \in DOMAIN chat \/ m = new
           /\ \A t \in toolMsgs :
                 /\ t.msg \in DOMAIN chat' /\ Up(t.msg)' /\ chat'[t.msg].kind = "content"
                 /\ chat'[t.msg].body = <<t.call>>
                 /\ IsCall(t.call)'
                 /\ feed'[t.call].kind = "use" => mode' = "verbose"
           /\ (/\ kind = "status" => body = <<>>
               /\ kind = "batch" => \A e \in Range(body) : IsCall(e)) => ChatOK'
<1> DEFINE new == Len(chat) + 1
<1>1. /\ new # 0 /\ new \in DOMAIN chat' /\ new \notin DOMAIN chat
      /\ chat'[new].kind = kind /\ chat'[new].body = body /\ chat'[new].state = "up"
      /\ \A m \in DOMAIN chat : m \in DOMAIN chat' /\ chat'[m] = chat[m]
      /\ \A m \in DOMAIN chat' : m \in DOMAIN chat \/ m = new
      /\ feed' = feed /\ mode' = mode
    BY DEF Sent, Frame
<1> HIDE DEF new
<1>2. \A t \in toolMsgs :
         /\ t.msg \in DOMAIN chat' /\ chat'[t.msg].state = "up"
         /\ chat'[t.msg].kind = "content"
         /\ chat'[t.msg].body = <<t.call>>
         /\ feed'[t.call].kind \in {"use", "long"}
         /\ feed'[t.call].kind = "use" => mode' = "verbose"
    BY <1>1 DEF Shape, ToolMsgsOK, Up, IsCall
<1>3. ASSUME kind = "status" => body = <<>>,
             kind = "batch" => \A e \in Range(body) : IsCall(e)
      PROVE  ChatOK'
    <2>1. ASSUME NEW m \in DOMAIN chat
          PROVE  /\ chat'[m].kind = "status" => chat'[m].body = <<>>
                 /\ chat'[m].kind = "content" => Up(m)'
                 /\ chat'[m].kind = "batch" => \A e \in Range(chat'[m].body) : IsCall(e)'
                 /\ chat'[m].kind = "batch" /\ mode' = "batched" => Up(m)'
        BY <1>1 DEF Shape, ChatOK, Up, IsCall
    <2>2. /\ chat'[new].kind = "status" => chat'[new].body = <<>>
          /\ chat'[new].kind = "batch" => \A e \in Range(chat'[new].body) : IsCall(e)'
          /\ chat'[new].state = "up"
        BY <1>1, <1>3 DEF IsCall
    <2> QED  BY <1>1, <2>1, <2>2 DEF ChatOK, Up
<1>4. \A t \in toolMsgs :
                 /\ t.msg \in DOMAIN chat' /\ Up(t.msg)' /\ chat'[t.msg].kind = "content"
                 /\ chat'[t.msg].body = <<t.call>>
                 /\ IsCall(t.call)'
                 /\ feed'[t.call].kind = "use" => mode' = "verbose"
    BY <1>2 DEF Up, IsCall
<1> QED  BY <1>1, <1>3, <1>4 DEF new

LEMMA SendsBatchShape == ASSUME Base, Shape, SendsBatch PROVE Shape'
<1> DEFINE new == Len(chat) + 1
<1>1. /\ Frame /\ batch # None /\ batch.msg = 0
      /\ Sent("batch", batch.entries)
      /\ previewed' = previewed /\ toolMsgs' = toolMsgs /\ status' = status
      /\ feed' = feed /\ mode' = mode
    BY DEF SendsBatch, Frame
<1>2. BatchOK
    BY <1>1 DEF Shape, BatchInv
<1>3. \A e \in Range(batch.entries) : IsCall(e)
    <2>1. \A p \in DOMAIN batch.entries : IsCall(batch.entries[p])
        BY <1>2 DEF BatchOK, IsCall
    <2> QED  BY <2>1 DEF Range
<1>4. /\ new # 0 /\ new \in DOMAIN chat' /\ new \notin DOMAIN chat
      /\ chat'[new].kind = "batch" /\ chat'[new].body = batch.entries /\ chat'[new].state = "up"
      /\ \A m \in DOMAIN chat : m \in DOMAIN chat' /\ chat'[m] = chat[m]
      /\ \A m \in DOMAIN chat' : m \in DOMAIN chat \/ m = new
      /\ ChatOK'
    BY <1>1, <1>3, SentKeeps
<1>5. ToolMsgsOK'
    BY <1>1, SentKeeps DEF ToolMsgsOK
<1>6. \/ batch' = None /\ mode = "batched"
      \/ /\ batch' \in IdBatches /\ batch' # None
         /\ batch'.entries = batch.entries /\ batch'.msg = new
         /\ batch'.last = batch.entries \/ batch'.last = <<>>
         /\ batch'.draft = IF mode = "batched" THEN "legacy" ELSE "none"
    BY DEF SendsBatch
<1> HIDE DEF new
<1>7. BatchInv'
    <2>1. CASE batch' = None
        BY <2>1 DEF BatchInv
    <2>2. CASE batch' # None
        <3>1. Range(batch'.last) \subseteq Range(batch.entries)
            BY <1>6, <2>2, NewBatchOk
        <3>2. BatchOK'
            BY <1>1, <1>2, <1>4, <1>6, <2>2, <3>1 DEF BatchOK, Up, IsCall
        <3> QED  BY <3>2 DEF BatchInv
    <2> QED  BY <2>1, <2>2
<1>8. StatusOK'
    BY <1>1, <1>4 DEF Shape, StatusOK
<1>9. NoGhosts'
    <2> SUFFICES ASSUME NEW m \in DOMAIN chat', Up(m)'
                 PROVE  /\ chat'[m].kind = "status" => status' # None /\ status'.msg = m
                        /\ chat'[m].kind = "batch" /\ mode' = "ephemeral"
                              => batch' # None /\ batch'.msg = m
        BY DEF NoGhosts
    <2>1. CASE m = new
        BY <1>1, <1>4, <1>6, <2>1
    <2>2. CASE m \in DOMAIN chat
        <3>1. chat'[m] = chat[m] /\ Up(m)
            BY <1>4, <2>2 DEF Up
        <3>2. m # 0
            BY <2>2, BaseFacts, MessageFields
        <3> QED  BY <1>1, <2>2, <3>1, <3>2 DEF Shape, NoGhosts
    <2> QED  BY <1>4, <2>1, <2>2
<1> QED  BY <1>4, <1>5, <1>7, <1>8, <1>9 DEF Shape

LEMMA SendsContentShape == ASSUME Base, Shape, SendsContent PROVE Shape'
<1> DEFINE new == Len(chat) + 1
           i == work.body[1]
<1>1. /\ Frame /\ work # None /\ work.kind = "content" /\ work.pc = "send"
      /\ Sent("content", work.body)
      /\ batch' = batch /\ previewed' = previewed /\ status' = status
      /\ feed' = feed /\ mode' = mode
    BY DEF SendsContent, Frame
<1>2. /\ new # 0 /\ new \in DOMAIN chat' /\ new \notin DOMAIN chat
      /\ chat'[new].kind = "content" /\ chat'[new].body = work.body /\ chat'[new].state = "up"
      /\ \A m \in DOMAIN chat : m \in DOMAIN chat' /\ chat'[m] = chat[m]
      /\ \A m \in DOMAIN chat' : m \in DOMAIN chat \/ m = new
      /\ ChatOK'
    BY <1>1, SentKeeps
<1>3. \A t \in toolMsgs :
                 /\ t.msg \in DOMAIN chat' /\ Up(t.msg)' /\ chat'[t.msg].kind = "content"
                 /\ chat'[t.msg].body = <<t.call>>
                 /\ IsCall(t.call)'
                 /\ feed'[t.call].kind = "use" => mode' = "verbose"
    BY <1>1, SentKeeps
<1>4. toolMsgs' = IF IsCall(i) THEN toolMsgs \cup {[call |-> i, msg |-> new]} ELSE toolMsgs
    BY DEF SendsContent
<1>5. feed[i].kind = "use" => mode = "verbose"
    BY <1>1, BaseFacts DEF PcInv, PcOK, Aim, Flushing
<1>6. IsCall(i) => work.body = <<i>>
    <2>1. IsCall(i) => IsTool(i)
        BY DEF IsCall, IsTool
    <2>2. IsTool(i) => Len(work.body) = 1 /\ work.body \in Seq(Ids)
        BY <1>1, BaseFacts, FirstEntry, WorkFields
    <2> QED  BY <2>1, <2>2
<1> HIDE DEF new, i
<1>7. ToolMsgsOK'
    <2>1. CASE ~IsCall(i)
        BY <1>3, <1>4, <2>1 DEF ToolMsgsOK
    <2>2. CASE IsCall(i)
        <3> SUFFICES ASSUME NEW t \in toolMsgs'
                     PROVE  /\ t.msg \in DOMAIN chat' /\ chat'[t.msg].state = "up"
                            /\ chat'[t.msg].kind = "content"
                            /\ chat'[t.msg].body = <<t.call>>
                            /\ feed'[t.call].kind \in {"use", "long"}
                            /\ feed'[t.call].kind = "use" => mode' = "verbose"
            BY DEF ToolMsgsOK, Up, IsCall
        <3>1. CASE t \in toolMsgs
            BY <1>3, <3>1 DEF Up, IsCall
        <3>2. CASE t.call = i /\ t.msg = new
            BY <1>1, <1>2, <1>5, <1>6, <2>2, <3>2 DEF IsCall
        <3> QED  BY <1>4, <2>2, <3>1, <3>2
    <2> QED  BY <2>1, <2>2
<1>8. BatchInv'
    <2>1. CASE batch = None
        BY <1>1, <2>1 DEF BatchInv
    <2>2. CASE batch # None
        BY <1>1, <1>2, <2>2 DEF Shape, BatchInv, BatchOK, Up, IsCall
    <2> QED  BY <2>1, <2>2
<1>9. StatusOK'
    BY <1>1, <1>2 DEF Shape, StatusOK
<1>10. NoGhosts'
    <2> SUFFICES ASSUME NEW m \in DOMAIN chat', Up(m)'
                 PROVE  /\ chat'[m].kind = "status" => status' # None /\ status'.msg = m
                        /\ chat'[m].kind = "batch" /\ mode' = "ephemeral"
                              => batch' # None /\ batch'.msg = m
        BY DEF NoGhosts
    <2>1. CASE m = new
        BY <1>2, <2>1
    <2>2. CASE m \in DOMAIN chat
        <3>1. chat'[m] = chat[m] /\ Up(m)
            BY <1>2, <2>2 DEF Up
        <3> QED  BY <1>1, <2>2, <3>1 DEF Shape, NoGhosts
    <2> QED  BY <1>2, <2>1, <2>2
<1> QED  BY <1>2, <1>7, <1>8, <1>9, <1>10 DEF Shape

LEMMA SendsStatusShape == ASSUME Base, Shape, SendsStatus PROVE Shape'
<1> DEFINE new == Len(chat) + 1
<1>1. /\ Frame /\ status = None /\ status' # None /\ status'.msg = new
      /\ Sent("status", <<>>)
      /\ batch' = batch /\ previewed' = previewed /\ toolMsgs' = toolMsgs
      /\ feed' = feed /\ mode' = mode
    BY DEF SendsStatus, Frame
<1>2. /\ new # 0 /\ new \in DOMAIN chat' /\ new \notin DOMAIN chat
      /\ chat'[new].kind = "status" /\ chat'[new].state = "up"
      /\ \A m \in DOMAIN chat : m \in DOMAIN chat' /\ chat'[m] = chat[m]
      /\ \A m \in DOMAIN chat' : m \in DOMAIN chat \/ m = new
      /\ ChatOK'
    BY <1>1, SentKeeps
<1>3. ToolMsgsOK'
    BY <1>1, SentKeeps DEF ToolMsgsOK
<1> HIDE DEF new
<1>4. BatchInv'
    <2>1. CASE batch = None
        BY <1>1, <2>1 DEF BatchInv
    <2>2. CASE batch # None
        BY <1>1, <1>2, <2>2 DEF Shape, BatchInv, BatchOK, Up, IsCall
    <2> QED  BY <2>1, <2>2
<1>5. StatusOK'
    BY <1>1, <1>2 DEF StatusOK
<1>6. NoGhosts'
    <2> SUFFICES ASSUME NEW m \in DOMAIN chat', Up(m)'
                 PROVE  /\ chat'[m].kind = "status" => status' # None /\ status'.msg = m
                        /\ chat'[m].kind = "batch" /\ mode' = "ephemeral"
                              => batch' # None /\ batch'.msg = m
        BY DEF NoGhosts
    <2>1. CASE m = new
        BY <1>1, <1>2, <2>1
    <2>2. CASE m \in DOMAIN chat
        <3>1. chat'[m] = chat[m] /\ Up(m)
            BY <1>2, <2>2 DEF Up
        <3> QED  BY <1>1, <2>2, <3>1 DEF Shape, NoGhosts
    <2> QED  BY <1>2, <2>1, <2>2
<1> QED  BY <1>2, <1>3, <1>4, <1>5, <1>6 DEF Shape

\* A message gets another text.
LEMMA EditedKeeps ==
    ASSUME Shape, Frame, NEW msg \in DOMAIN chat, NEW body, Edited(msg, body),
           chat[msg].kind # "status",
           chat[msg].kind = "batch" => \A e \in Range(body) : IsCall(e)
    PROVE  /\ ChatOK' /\ DOMAIN chat' = DOMAIN chat
           /\ \A m \in DOMAIN chat : chat'[m].kind = chat[m].kind /\ chat'[m].state = chat[m].state
           /\ \A m \in DOMAIN chat \ {msg} : chat'[m] = chat[m]
           /\ chat'[msg].body = body
<1>1. /\ DOMAIN chat' = DOMAIN chat
      /\ \A m \in DOMAIN chat \ {msg} : chat'[m] = chat[m]
      /\ chat'[msg].kind = chat[msg].kind /\ chat'[msg].state = chat[msg].state
      /\ chat'[msg].body = body
      /\ feed' = feed /\ mode' = mode
    BY DEF Edited, Frame
<1>2. ASSUME NEW m \in DOMAIN chat
      PROVE  /\ chat'[m].kind = "status" => chat'[m].body = <<>>
             /\ chat'[m].kind = "content" => Up(m)'
             /\ chat'[m].kind = "batch" => \A e \in Range(chat'[m].body) : IsCall(e)'
             /\ chat'[m].kind = "batch" /\ mode' = "batched" => Up(m)'
    <2>1. CASE m = msg
        BY <1>1, <2>1 DEF Shape, ChatOK, Up, IsCall
    <2>2. CASE m # msg
        BY <1>1, <2>2 DEF Shape, ChatOK, Up, IsCall
    <2> QED  BY <2>1, <2>2
<1>3. ChatOK'
    BY <1>1, <1>2 DEF ChatOK
<1> QED  BY <1>1, <1>3

LEMMA EditsBatchShape == ASSUME Base, Shape, EditsBatch PROVE Shape'
<1> DEFINE msg == batch.msg
<1>1. /\ Frame /\ batch # None /\ msg # 0
      /\ Edited(msg, batch.entries)
      /\ previewed' = previewed /\ toolMsgs' = toolMsgs /\ status' = status
      /\ feed' = feed /\ mode' = mode
    BY DEF EditsBatch, Frame
<1>2. BatchOK
    BY <1>1 DEF Shape, BatchInv
<1>3. \A e \in Range(batch.entries) : IsCall(e)
    <2>1. \A p \in DOMAIN batch.entries : IsCall(batch.entries[p])
        BY <1>2 DEF BatchOK, IsCall
    <2> QED  BY <2>1 DEF Range
<1>4. msg \in DOMAIN chat /\ chat[msg].kind = "batch" /\ chat[msg].state = "up"
    BY <1>1, <1>2 DEF BatchOK, Up
<1>5. /\ ChatOK' /\ DOMAIN chat' = DOMAIN chat
      /\ \A m \in DOMAIN chat : chat'[m].kind = chat[m].kind /\ chat'[m].state = chat[m].state
      /\ \A m \in DOMAIN chat \ {msg} : chat'[m] = chat[m]
      /\ chat'[msg].body = batch.entries
    BY <1>1, <1>3, <1>4, EditedKeeps
<1>6. \/ batch' = None /\ mode = "batched"
      \/ /\ batch' # None
         /\ batch'.entries = batch.entries /\ batch'.msg = batch.msg
         /\ batch'.last = batch.entries /\ batch'.draft = batch.draft
    BY DEF EditsBatch
<1>7. BatchInv'
    <2>1. CASE batch' = None
        BY <2>1 DEF BatchInv
    <2>2. CASE batch' # None
        <3>1. /\ batch'.msg = msg /\ msg # 0 /\ msg \in DOMAIN chat'
              /\ chat'[msg].state = "up" /\ chat'[msg].kind = "batch"
              /\ Range(batch'.last) \subseteq Range(chat'[msg].body)
              /\ Range(chat'[msg].body) \subseteq Range(batch'.entries)
            BY <1>1, <1>4, <1>5, <1>6, <2>2
        <3>2. ~(batch'.draft = "unset" \/ (batch'.draft = "none" /\ batch'.msg = 0))
              /\ batch'.draft # "streaming"
            <4>1. mode \in {"batched", "ephemeral"}
                BY <1>2, BaseFacts DEF BatchOK, FeedTypeOK
            <4> QED  BY <1>1, <1>2, <1>6, <2>2, <4>1 DEF BatchOK
        <3> HIDE DEF msg
        <3>3. BatchOK'
            BY <1>1, <1>2, <1>6, <2>2, <3>1, <3>2 DEF BatchOK, Up, IsCall
        <3> QED  BY <3>3 DEF BatchInv
    <2> QED  BY <2>1, <2>2
<1>8. StatusOK'
    BY <1>1, <1>5 DEF Shape, StatusOK
<1>9. ToolMsgsOK'
    <2>1. \A t \in toolMsgs : t.msg \in DOMAIN chat \ {msg}
        BY <1>4 DEF Shape, ToolMsgsOK
    <2> HIDE DEF msg
    <2> QED  BY <1>1, <1>5, <2>1 DEF Shape, ToolMsgsOK, Up, IsCall
<1>10. NoGhosts'
    <2> SUFFICES ASSUME NEW m \in DOMAIN chat', Up(m)'
                 PROVE  /\ chat'[m].kind = "status" => status' # None /\ status'.msg = m
                        /\ chat'[m].kind = "batch" /\ mode' = "ephemeral"
                              => batch' # None /\ batch'.msg = m
        BY DEF NoGhosts
    <2>1. m \in DOMAIN chat /\ Up(m) /\ chat'[m].kind = chat[m].kind
        BY <1>5 DEF Up
    <2> QED  BY <1>1, <1>6, <2>1 DEF Shape, NoGhosts
<1> QED  BY <1>5, <1>7, <1>8, <1>9, <1>10 DEF Shape

LEMMA EditsToolShape == ASSUME Base, Shape, EditsTool PROVE Shape'
<1> DEFINE i == work.body[1]
<1>1. /\ Frame /\ batch' = batch /\ previewed' = previewed /\ status' = status
      /\ feed' = feed /\ mode' = mode
    BY DEF EditsTool, Frame
<1>2. PICK t \in toolMsgs : Edited(t.msg, <<i>>) /\ toolMsgs' = toolMsgs \ {t}
    BY DEF EditsTool
<1> DEFINE msg == t.msg
<1>3. /\ msg \in DOMAIN chat /\ chat[msg].kind = "content" /\ chat[msg].body = <<t.call>>
    BY DEF Shape, ToolMsgsOK
<1>4. /\ ChatOK' /\ DOMAIN chat' = DOMAIN chat
      /\ \A m \in DOMAIN chat : chat'[m].kind = chat[m].kind /\ chat'[m].state = chat[m].state
      /\ \A m \in DOMAIN chat \ {msg} : chat'[m] = chat[m]
    BY <1>1, <1>2, <1>3, EditedKeeps
<1>5. \A s \in toolMsgs' : s \in toolMsgs /\ s.msg \in DOMAIN chat \ {msg}
    <2> TAKE s \in toolMsgs'
    <2>1. s \in toolMsgs /\ s # t
        BY <1>2
    <2>2. s \in [call : Ids, msg : Nat] /\ t \in [call : Ids, msg : Nat]
        BY <2>1, BaseFacts
    <2>3. s.msg \in DOMAIN chat /\ chat[s.msg].body = <<s.call>>
        BY <2>1 DEF Shape, ToolMsgsOK
    <2>4. s.msg = msg => s.call = t.call
        BY <1>3, <2>3
    <2>5. s.msg # msg
        BY <2>1, <2>2, <2>4
    <2> QED  BY <2>1, <2>3, <2>5
<1> HIDE DEF msg
<1>6. ToolMsgsOK'
    BY <1>1, <1>4, <1>5 DEF Shape, ToolMsgsOK, Up, IsCall
<1>7. BatchInv'
    <2>1. CASE batch = None
        BY <1>1, <2>1 DEF BatchInv
    <2>2. CASE batch # None
        <3>1. BatchOK
            BY <2>2 DEF Shape, BatchInv
        <3>2. batch.msg # 0 => batch.msg \in DOMAIN chat \ {msg}
            BY <1>3, <3>1 DEF BatchOK
        <3>3. batch.msg # 0 => batch.msg \in DOMAIN chat' /\ chat'[batch.msg] = chat[batch.msg]
            BY <1>4, <3>2
        <3>4. BatchOK'
            BY <1>1, <3>1, <3>3 DEF BatchOK, Up, IsCall
        <3> QED  BY <3>4 DEF BatchInv
    <2> QED  BY <2>1, <2>2
<1>8. StatusOK'
    BY <1>1, <1>4 DEF Shape, StatusOK
<1>9. NoGhosts'
    <2> SUFFICES ASSUME NEW m \in DOMAIN chat', Up(m)'
                 PROVE  /\ chat'[m].kind = "status" => status' # None /\ status'.msg = m
                        /\ chat'[m].kind = "batch" /\ mode' = "ephemeral"
                              => batch' # None /\ batch'.msg = m
        BY DEF NoGhosts
    <2>1. m \in DOMAIN chat /\ Up(m) /\ chat'[m].kind = chat[m].kind
        BY <1>4 DEF Up
    <2> QED  BY <1>1, <2>1 DEF Shape, NoGhosts
<1> QED  BY <1>4, <1>6, <1>7, <1>8, <1>9 DEF Shape

LEMMA DisplayShape == ASSUME Base, Shape, Display PROVE Shape'
<1>1. ShownAlready => Shape'
    <2> SUFFICES ASSUME ShownAlready PROVE Shape'
        OBVIOUS
    <2>1. /\ Frame /\ chat' = chat /\ batch' = batch /\ previewed' = previewed
          /\ toolMsgs' = toolMsgs /\ SameMsg /\ feed' = feed /\ mode' = mode
        BY DEF ShownAlready, Frame, SameMsg
    <2>2. BatchInv'
        BY <2>1 DEF Shape, BatchInv, BatchOK, Up, IsCall
    <2>3. NoGhosts'
        BY <2>1, UnsentShape DEF Shape, NoGhosts, Up
    <2> QED  BY <2>1, <2>2, <2>3, UnsentShape DEF Shape
<1> QED  BY <1>1, QuietShape, EntersShape, DropsShape, ClearsShape, SendsBatchShape,
            EditsBatchShape, PreviewsShape, DraftsShape, DeletesBatchShape, EditsToolShape,
            SendsContentShape, SendsStatusShape DEF Display

-----------------------------------------------------------------------------
(* The transcript is handled in its order.                                  *)

LEMMA QueueHeads ==
    ASSUME FeedTypeOK, QueueBodies
    PROVE  \A j \in DOMAIN queue : queue[j].kind = "content" =>
              /\ queue[j].body[1] \in Nat /\ queue[j].body[1] \in Ids
              /\ Len(queue[j].body) = 1
<1> TAKE j \in DOMAIN queue
<1>1. queue[j].body \in Seq(Ids)
    BY QueueFields
<1>2. queue[j].kind = "content" => Len(queue[j].body) = 1
    BY DEF QueueBodies
<1>3. queue[j].kind = "content" => queue[j].body[1] \in Ids
    BY <1>1, <1>2, ElementOfSeq
<1> QED  BY <1>2, <1>3, IdSeqs

LEMMA WorkHeads ==
    ASSUME FeedTypeOK, work # None
    PROVE  \A p \in DOMAIN work.body : work.body[p] \in Nat /\ work.body[p] \in Ids
<1>1. work.body \in Seq(Ids) /\ DOMAIN work.body = 1..Len(work.body)
    BY WorkFields, LenProperties
<1>2. \A p \in DOMAIN work.body : work.body[p] \in Ids
    BY <1>1, ElementOfSeq
<1> QED  BY <1>2, IdSeqs

\* The three parts of the order.
QueueBelow == \A j \in DOMAIN queue : queue[j].kind = "content" => queue[j].body[1] <= published
QueueRises == \A j, k \in DOMAIN queue :
    (queue[j].kind = "content" /\ queue[k].kind = "content" /\ j < k)
        => queue[j].body[1] < queue[k].body[1]
WorkBefore == (work # None /\ work.kind = "content") =>
    /\ Increasing(work.body)
    /\ \A p \in DOMAIN work.body :
          /\ work.body[p] <= published
          /\ \A j \in DOMAIN queue :
                queue[j].kind = "content" => work.body[p] < queue[j].body[1]

LEMMA OrderParts == FeedInOrder <=> QueueBelow /\ QueueRises /\ WorkBefore
BY DEF FeedInOrder, QueueBelow, QueueRises, WorkBefore

LEMMA StaysInOrder == ASSUME FeedInOrder, work # None, Stays PROVE FeedInOrder'
<1>1. queue' = queue /\ published' = published
      /\ (work' = None \/ (work'.kind = work.kind /\ work'.body = work.body))
    BY DEF Stays, SameTask
<1>2. QueueBelow' /\ QueueRises'
    BY <1>1 DEF FeedInOrder, QueueBelow, QueueRises
<1>3. WorkBefore'
    <2>1. CASE work' = None
        BY <2>1 DEF WorkBefore
    <2>2. CASE work'.kind = work.kind /\ work'.body = work.body
        BY <1>1, <2>2 DEF FeedInOrder, WorkBefore, Increasing
    <2> QED  BY <1>1, <2>1, <2>2
<1> QED  BY <1>2, <1>3 DEF FeedInOrder, QueueBelow, QueueRises, WorkBefore

LEMMA PutsContentInOrder ==
    ASSUME FeedTypeOK, QueueBodies, FeedInOrder, PutsContent PROVE FeedInOrder'
<1>1. PICK task \in Tasks : /\ task.kind = "content" /\ task.body = <<published + 1>>
                            /\ Appended(task)
    BY DEF PutsContent
<1>2. published \in Nat /\ published' = published + 1 /\ work' = work
    BY DEF PutsContent
<1> DEFINE new == Len(queue) + 1
<1>3. /\ DOMAIN queue' = DOMAIN queue \cup {new}
      /\ \A j \in DOMAIN queue : queue'[j] = queue[j] /\ j < new /\ j \in Nat
      /\ queue'[new].kind = "content" /\ queue'[new].body[1] = published + 1
      /\ new \in Nat
    <2>1. /\ Len(queue) \in Nat /\ DOMAIN queue = 1..Len(queue)
          /\ DOMAIN queue' = 1..(Len(queue) + 1)
          /\ \A j \in DOMAIN queue : queue'[j] = queue[j]
          /\ queue'[new] = task
        BY <1>1 DEF Appended
    <2>2. DOMAIN queue' = DOMAIN queue \cup {new} /\ new \in Nat
          /\ \A j \in DOMAIN queue : j < new /\ j \in Nat
        BY <2>1
    <2> QED  BY <1>1, <2>1, <2>2
<1> HIDE DEF new
<1>4. \A j \in DOMAIN queue : queue[j].kind = "content" =>
         queue[j].body[1] \in Nat /\ queue[j].body[1] <= published
    BY QueueHeads DEF FeedInOrder
<1>5. QueueBelow'
    <2> SUFFICES ASSUME NEW j \in DOMAIN queue', queue'[j].kind = "content"
                 PROVE  queue'[j].body[1] <= published'
        BY DEF QueueBelow
    <2>1. CASE j \in DOMAIN queue
        BY <1>2, <1>3, <1>4, <2>1
    <2>2. CASE j = new
        BY <1>2, <1>3, <2>2
    <2> QED  BY <1>3, <2>1, <2>2
<1>6. QueueRises'
    <2> SUFFICES ASSUME NEW j \in DOMAIN queue', NEW k \in DOMAIN queue',
                        queue'[j].kind = "content", queue'[k].kind = "content", j < k
                 PROVE  queue'[j].body[1] < queue'[k].body[1]
        BY DEF QueueRises
    <2>1. CASE j \in DOMAIN queue /\ k \in DOMAIN queue
        BY <1>3, <2>1 DEF FeedInOrder
    <2>2. CASE j \in DOMAIN queue /\ k = new
        <3>1. queue'[j].body[1] \in Nat /\ queue'[j].body[1] <= published
            BY <1>3, <1>4, <2>2
        <3> QED  BY <1>2, <1>3, <2>2, <3>1
    <2>3. CASE j = new
        BY <1>3, <2>3
    <2> QED  BY <1>3, <2>1, <2>2, <2>3
<1>7. WorkBefore'
    <2> SUFFICES ASSUME work # None, work.kind = "content"
                 PROVE  /\ Increasing(work.body)
                        /\ \A p \in DOMAIN work.body :
                              /\ work.body[p] <= published'
                              /\ \A j \in DOMAIN queue' :
                                    queue'[j].kind = "content" =>
                                        work.body[p] < queue'[j].body[1]
        BY <1>2 DEF WorkBefore, Increasing
    <2>1. Increasing(work.body)
        BY DEF FeedInOrder
    <2>2. \A p \in DOMAIN work.body : /\ work.body[p] \in Nat /\ work.body[p] <= published
                                      /\ work.body[p] < published + 1
        <3> TAKE p \in DOMAIN work.body
        <3>1. work.body[p] \in Nat /\ work.body[p] <= published
            BY WorkHeads DEF FeedInOrder
        <3> QED  BY <3>1, <1>2
    <2>3. \A p \in DOMAIN work.body : \A j \in DOMAIN queue :
             queue[j].kind = "content" => work.body[p] < queue[j].body[1]
        BY DEF FeedInOrder
    <2>4. \A p \in DOMAIN work.body : work.body[p] <= published'
        BY <1>2, <2>2
    <2> QED  BY <1>3, <2>1, <2>2, <2>3, <2>4
<1> QED  BY <1>5, <1>6, <1>7, OrderParts DEF FeedInOrder, QueueBelow, QueueRises, WorkBefore

\* The queue is thinned: what is left keeps its place, and the content stays below.
Keeps(at) ==
    /\ \A k \in DOMAIN queue' : at[k] \in DOMAIN queue /\ queue'[k] = queue[at[k]]
    /\ \A j, k \in DOMAIN queue' : j < k => at[j] < at[k]

LEMMA KeepsInOrder ==
    ASSUME FeedInOrder, published' = published, NEW at, Keeps(at),
           work' = None \/ work'.kind # "content" \/ (work # None /\ work' = work)
    PROVE  FeedInOrder'
<1>1. QueueBelow' /\ QueueRises'
    BY DEF FeedInOrder, QueueBelow, QueueRises, Keeps
<1>2. WorkBefore'
    <2>1. CASE work' = None \/ work'.kind # "content"
        BY <2>1 DEF WorkBefore
    <2>2. CASE work # None /\ work' = work
        BY <2>2 DEF FeedInOrder, WorkBefore, Keeps, Increasing
    <2> QED  BY <2>1, <2>2
<1> QED  BY <1>1, <1>2 DEF FeedInOrder, QueueBelow, QueueRises, WorkBefore

LEMMA CoalescesInOrder == ASSUME FeedTypeOK, FeedInOrder, Coalesces PROVE FeedInOrder'
<1>1. PICK at \in [DOMAIN queue' -> DOMAIN queue \ Later] :
          /\ \A k \in DOMAIN queue' : queue'[k] = queue[at[k]]
          /\ \A j, k \in DOMAIN queue' : j < k => at[j] < at[k]
    BY DEF Coalesces, Thinned, Thins
<1>2. Keeps(at)
    BY <1>1 DEF Keeps
<1>3. work' = None \/ work'.kind # "content"
    BY DEF Coalesces, SameTask
<1>4. published' = published
    BY DEF Coalesces
<1> QED  BY <1>2, <1>3, <1>4, KeepsInOrder

LEMMA PutsStatusInOrder == ASSUME FeedTypeOK, FeedInOrder, PutsStatus PROVE FeedInOrder'
<1>1. PICK kind \in StatusKinds :
          \E task \in Tasks : task.kind = kind /\ task.body = <<>> /\ Appended(task)
    BY DEF PutsStatus
<1>2. PICK task \in Tasks : task.kind = kind /\ Appended(task)
    BY <1>1
<1>3. /\ \A j \in DOMAIN queue : queue'[j] = queue[j]
      /\ \A j \in DOMAIN queue' : j \in DOMAIN queue \/ queue'[j].kind # "content"
    <2>1. kind # "content"
        BY DEF StatusKinds
    <2>2. /\ Len(queue) \in Nat /\ DOMAIN queue = 1..Len(queue)
          /\ DOMAIN queue' = 1..(Len(queue) + 1)
          /\ queue'[Len(queue) + 1] = task
        BY <1>2 DEF Appended
    <2>3. \A j \in DOMAIN queue' : j \in DOMAIN queue \/ j = Len(queue) + 1
        BY <2>2
    <2> QED  BY <1>2, <2>1, <2>2, <2>3 DEF Appended
<1>4. published' = published /\ work' = work
    BY DEF PutsStatus
<1> QED  BY <1>3, <1>4 DEF FeedInOrder, Increasing

LEMMA TakesInOrder ==
    ASSUME FeedTypeOK, QueueBodies, FeedInOrder, Takes PROVE FeedInOrder'
<1>1. /\ Len(queue) \in Nat /\ DOMAIN queue = 1..Len(queue) /\ 1 \in DOMAIN queue
      /\ DOMAIN queue' = 1..(Len(queue) - 1)
      /\ \A j \in DOMAIN queue' : j + 1 \in DOMAIN queue /\ queue'[j] = queue[j + 1]
      /\ published' = published
      /\ work'.kind = queue[1].kind /\ work'.body = queue[1].body
    BY DEF Takes, Advanced
<1>2. \A j \in DOMAIN queue' : j \in Nat /\ 1 < j + 1
    BY <1>1
<1>3. QueueBelow'
    BY <1>1 DEF FeedInOrder, QueueBelow
<1>4. QueueRises'
    <2> SUFFICES ASSUME NEW j \in DOMAIN queue', NEW k \in DOMAIN queue',
                        queue'[j].kind = "content", queue'[k].kind = "content", j < k
                 PROVE  queue'[j].body[1] < queue'[k].body[1]
        BY DEF QueueRises
    <2>1. j + 1 < k + 1
        BY <1>2
    <2> QED  BY <1>1, <2>1 DEF FeedInOrder
<1>5. WorkBefore'
    <2> SUFFICES ASSUME work'.kind = "content"
                 PROVE  /\ Increasing(work'.body)
                        /\ \A p \in DOMAIN work'.body :
                              /\ work'.body[p] <= published'
                              /\ \A j \in DOMAIN queue' :
                                    queue'[j].kind = "content" =>
                                        work'.body[p] < queue'[j].body[1]
        BY DEF WorkBefore, Increasing
    <2>1. queue[1].kind = "content"
        BY <1>1
    <2>2. Len(queue[1].body) = 1 /\ queue[1].body \in Seq(Ids)
        BY <1>1, <2>1, QueueHeads, QueueFields
    <2>3. DOMAIN work'.body = {1}
        BY <1>1, <2>2
    <2>4. Increasing(work'.body)
        BY <2>3 DEF Increasing
    <2>5. work'.body[1] <= published'
        BY <1>1, <2>1 DEF FeedInOrder
    <2>6. \A j \in DOMAIN queue' : queue'[j].kind = "content" =>
             work'.body[1] < queue'[j].body[1]
        BY <1>1, <1>2, <2>1 DEF FeedInOrder
    <2> QED  BY <2>3, <2>4, <2>5, <2>6
<1> QED  BY <1>3, <1>4, <1>5 DEF FeedInOrder, QueueBelow, QueueRises, WorkBefore

LEMMA MergesInOrder ==
    ASSUME FeedTypeOK, QueueBodies, FeedInOrder, Merges PROVE FeedInOrder'
<1>1. PICK n \in Nat : Advanced(n) /\ Gathered(n)
    BY DEF Merges
<1>2. /\ work # None /\ work.kind = "content" /\ published' = published
    BY DEF Merges
<1> DEFINE w == Len(work.body)
           len == Len(queue)
<1>3. /\ len \in Nat /\ n <= len /\ DOMAIN queue = 1..len
      /\ DOMAIN queue' = 1..(len - n)
      /\ \A j \in DOMAIN queue' : j + n \in DOMAIN queue /\ queue'[j] = queue[j + n]
    BY <1>1 DEF Advanced
<1>4. /\ work'.kind = "content" /\ \A j \in 1..n : queue[j].kind = "content"
      /\ DOMAIN work'.body = 1..(w + n)
      /\ \A p \in DOMAIN work.body : work'.body[p] = work.body[p]
      /\ \A j \in 1..n : work'.body[w + j] = queue[j].body[1]
    BY <1>1, <1>2 DEF Gathered, IsText
<1>5. w \in Nat /\ DOMAIN work.body = 1..w
    BY <1>2, WorkFields, LenProperties
<1> HIDE DEF w, len
<1>6. \A j \in DOMAIN queue' : j \in Nat
    BY <1>3
<1>7. QueueBelow'
    BY <1>2, <1>3 DEF FeedInOrder, QueueBelow
<1>8. QueueRises'
    <2> SUFFICES ASSUME NEW j \in DOMAIN queue', NEW k \in DOMAIN queue',
                        queue'[j].kind = "content", queue'[k].kind = "content", j < k
                 PROVE  queue'[j].body[1] < queue'[k].body[1]
        BY DEF QueueRises
    <2>1. j + n < k + n
        BY <1>6
    <2> QED  BY <1>3, <2>1 DEF FeedInOrder
\* Where the entries of the new body come from.
<1>9. \A p \in DOMAIN work'.body : \/ p \in DOMAIN work.body
                                   \/ \E j \in 1..n : p = w + j
    <2> TAKE p \in DOMAIN work'.body
    <2>1. p \in 1..(w + n)
        BY <1>4
    <2>2. ~(p \in 1..w) => p - w \in 1..n /\ p = w + (p - w)
        BY <1>5, <2>1
    <2> QED  BY <1>5, <2>2
<1>10. \A j \in 1..n : j \in DOMAIN queue /\ j \in Nat
    BY <1>3
<1>11. Increasing(work'.body)
    <2> SUFFICES ASSUME NEW p \in DOMAIN work'.body, NEW q \in DOMAIN work'.body, p < q
                 PROVE  work'.body[p] < work'.body[q]
        BY DEF Increasing
    <2>1. CASE p \in DOMAIN work.body /\ q \in DOMAIN work.body
        BY <1>2, <1>4, <2>1 DEF FeedInOrder, Increasing
    <2>2. CASE p \in DOMAIN work.body /\ \E j \in 1..n : q = w + j
        <3>1. PICK j \in 1..n : q = w + j
            BY <2>2
        <3>2. work.body[p] < queue[j].body[1]
            BY <1>2, <1>4, <1>10, <2>2 DEF FeedInOrder
        <3> QED  BY <1>4, <2>2, <3>1, <3>2
    <2>3. CASE (\E j \in 1..n : p = w + j) /\ q \in DOMAIN work.body
        <3>1. PICK j \in 1..n : p = w + j
            BY <2>3
        <3>2. q \in Nat /\ q <= w /\ j \in Nat
            BY <1>5, <2>3
        <3>3. p >= w
            BY <1>5, <3>1, <3>2
        <3> QED  BY <1>5, <3>1, <3>2, <3>3
    <2>4. CASE (\E j \in 1..n : p = w + j) /\ (\E j \in 1..n : q = w + j)
        <3>1. PICK j \in 1..n : p = w + j
            BY <2>4
        <3>2. PICK k \in 1..n : q = w + k
            BY <2>4
        <3>3. j \in Nat /\ k \in Nat
            OBVIOUS
        <3>4. j < k
            BY <1>5, <3>1, <3>2, <3>3
        <3>5. queue[j].body[1] < queue[k].body[1]
            BY <1>4, <1>10, <3>4 DEF FeedInOrder
        <3> QED  BY <1>4, <3>1, <3>2, <3>5
    <2> QED  BY <1>9, <2>1, <2>2, <2>3, <2>4
<1>12. ASSUME NEW p \in DOMAIN work'.body
       PROVE  /\ work'.body[p] <= published'
              /\ \A j \in DOMAIN queue' :
                    queue'[j].kind = "content" => work'.body[p] < queue'[j].body[1]
    <2>1. CASE p \in DOMAIN work.body
        BY <1>2, <1>3, <1>4, <2>1 DEF FeedInOrder
    <2>2. ASSUME NEW k \in 1..n, p = w + k
          PROVE  /\ work'.body[p] <= published'
                 /\ \A j \in DOMAIN queue' :
                       queue'[j].kind = "content" => work'.body[p] < queue'[j].body[1]
        <3>1. work'.body[p] = queue[k].body[1]
            BY <1>4, <2>2
        <3>2. queue[k].body[1] <= published
            BY <1>4, <1>10 DEF FeedInOrder
        <3>3. ASSUME NEW j \in DOMAIN queue', queue'[j].kind = "content"
              PROVE  queue[k].body[1] < queue'[j].body[1]
            <4>1. k < j + n
                <5>1. j \in 1..(len - n) /\ k \in 1..n
                    BY <1>3
                <5> QED  BY <5>1, <1>3
            <4> QED  BY <1>3, <1>4, <1>10, <3>3, <4>1 DEF FeedInOrder
        <3> QED  BY <1>2, <3>1, <3>2, <3>3
    <2> QED  BY <1>9, <2>1, <2>2
<1>13. WorkBefore'
    BY <1>11, <1>12 DEF WorkBefore
<1> QED  BY <1>7, <1>8, <1>13 DEF FeedInOrder, QueueBelow, QueueRises, WorkBefore

LEMMA FlowInOrder == ASSUME FeedTypeOK, QueueBodies, FeedInOrder, Flow PROVE FeedInOrder'
<1>1. CASE Rests
    <2>1. queue' = queue /\ published' = published /\ work' = work
        BY <1>1 DEF Rests
    <2> QED  BY <2>1 DEF FeedInOrder, Increasing
<1> QED  BY <1>1, StaysInOrder, PutsContentInOrder, PutsStatusInOrder, TakesInOrder,
            CoalescesInOrder, MergesInOrder DEF Flow

-----------------------------------------------------------------------------
(* What is on display, or in the batch, has been reached.                   *)

\* Steps that are not the worker's change the queue and its task alone.
LEMMA FlowCases ==
    ASSUME Flow
    PROVE  \/ work # None /\ Stays
           \/ chat' = chat /\ batch' = batch /\ feed' = feed /\ mode' = mode
BY DEF Flow, PutsContent, PutsStatus, Rests, Takes, Coalesces, Merges, QueueOnly

LEMMA ReachedStays ==
    ASSUME FeedTypeOK, QueueBodies, PcInv, Flow, NEW e \in Nat, Reached(e)
    PROVE  Reached(e)'
<1>1. CASE work # None /\ Stays
    <2>1. queue' = queue /\ published' = published
          /\ (work' = None \/ (work'.kind = work.kind /\ work'.body = work.body))
        BY <1>1 DEF Stays, SameTask
    <2> QED  BY <1>1, <2>1 DEF Reached
<1>2. CASE PutsContent
    <2>1. PICK task \in Tasks : /\ task.kind = "content" /\ task.body = <<published + 1>>
                                /\ Appended(task)
        BY <1>2 DEF PutsContent
    <2>2. published \in Nat /\ published' = published + 1 /\ work' = work
        BY <1>2 DEF PutsContent
    <2>3. \A j \in DOMAIN queue' : \/ j \in DOMAIN queue /\ queue'[j] = queue[j]
                                   \/ queue'[j].body[1] = published + 1
        BY <2>1 DEF Appended
    <2>4. e <= published /\ e < published + 1 /\ e <= published + 1
        BY <2>2 DEF Reached
    <2> QED  BY <2>2, <2>3, <2>4 DEF Reached
<1>3. CASE PutsStatus
    <2>1. PICK kind \in StatusKinds :
              \E task \in Tasks : task.kind = kind /\ Appended(task)
        BY <1>3 DEF PutsStatus
    <2>2. PICK task \in Tasks : task.kind = kind /\ Appended(task)
        BY <2>1
    <2>3. \A j \in DOMAIN queue' : \/ j \in DOMAIN queue /\ queue'[j] = queue[j]
                                   \/ queue'[j].kind = kind
        BY <2>2 DEF Appended
    <2>4. kind # "content" /\ published' = published /\ work' = work
        BY <1>3 DEF PutsStatus, StatusKinds
    <2> QED  BY <2>3, <2>4 DEF Reached
<1>4. CASE Rests
    BY <1>4 DEF Rests, Reached
<1>5. CASE Takes
    <2>1. /\ 1 \in DOMAIN queue
          /\ \A j \in DOMAIN queue' : j + 1 \in DOMAIN queue /\ queue'[j] = queue[j + 1]
          /\ published' = published
          /\ work'.kind = queue[1].kind /\ work'.body = queue[1].body
        BY <1>5 DEF Takes, Advanced
    <2>2. queue[1].kind = "content" => e <= queue[1].body[1]
        <3>1. queue[1].kind = "content" =>
                 e < queue[1].body[1] /\ queue[1].body[1] \in Nat
            BY <2>1, QueueHeads DEF Reached
        <3> QED  BY <3>1
    <2> QED  BY <2>1, <2>2 DEF Reached
<1>6. CASE Coalesces
    <2>1. \A k \in DOMAIN queue' : \E j \in DOMAIN queue : queue'[k] = queue[j]
        BY <1>6 DEF Coalesces, Thinned, Thins
    <2>2. published' = published /\ (work' = None \/ work'.kind # "content")
        BY <1>6 DEF Coalesces, SameTask
    <2> QED  BY <2>1, <2>2 DEF Reached
<1>7. CASE Merges
    <2>1. PICK n \in Nat : Advanced(n) /\ Gathered(n)
        BY <1>7 DEF Merges
    <2>2. work # None /\ work.kind = "content" /\ published' = published
        BY <1>7 DEF Merges
    <2>3. \A j \in DOMAIN queue' : j + n \in DOMAIN queue /\ queue'[j] = queue[j + n]
        BY <2>1 DEF Advanced
    <2>4. 1 \in DOMAIN work.body
        <3>1. Len(work.body) \in Nat /\ Len(work.body) >= 1 /\ DOMAIN work.body = 1..Len(work.body)
            BY <2>2, FirstEntry, WorkFields, LenProperties
        <3> QED  BY <3>1
    <2>5. work'.body[1] = work.body[1]
        BY <2>1, <2>4 DEF Gathered
    <2> QED  BY <2>2, <2>3, <2>5 DEF Reached
<1> QED  BY <1>1, <1>2, <1>3, <1>4, <1>5, <1>6, <1>7 DEF Flow

\* What a task shows has been reached.
LEMMA ReachedNow ==
    ASSUME Base, FeedInOrder, work # None, work.kind = "content", Stays
    PROVE  /\ \A e : e = work.body[1] => Reached(e)'
           /\ work' = None => \A e \in Range(work.body) : Reached(e)'
<1>1. queue' = queue /\ published' = published
      /\ (work' = None \/ (work'.kind = work.kind /\ work'.body = work.body))
    BY DEF Stays, SameTask
<1>2. ASSUME NEW p \in DOMAIN work.body
      PROVE  /\ work.body[p] <= published
             /\ \A j \in DOMAIN queue : queue[j].kind = "content" => work.body[p] < queue[j].body[1]
    BY DEF FeedInOrder
<1>3. 1 \in DOMAIN work.body
    <2>1. Len(work.body) \in Nat /\ Len(work.body) >= 1 /\ DOMAIN work.body = 1..Len(work.body)
        BY BaseFacts, FirstEntry, WorkFields, LenProperties
    <2> QED  BY <2>1
<1>4. work.body[1] <= work.body[1]
    <2>1. work.body[1] \in Nat
        BY <1>3, BaseFacts, WorkHeads
    <2> QED  BY <2>1
<1>5. /\ work.body[1] <= published'
      /\ \A j \in DOMAIN queue' : queue'[j].kind = "content" => work.body[1] < queue'[j].body[1]
      /\ (work' # None /\ work'.kind = "content") => work.body[1] <= work'.body[1]
    BY <1>1, <1>2, <1>3, <1>4
<1>6. ASSUME work' = None, NEW e \in Range(work.body) PROVE Reached(e)'
    <2>1. PICK p \in DOMAIN work.body : e = work.body[p]
        BY DEF Range
    <2> QED  BY <1>1, <1>2, <1>6, <2>1 DEF Reached
<1>7. ASSUME NEW e, e = work.body[1] PROVE Reached(e)'
    BY <1>5, <1>7 DEF Reached
<1> QED  BY <1>6, <1>7

\* What is shown of entry e afterwards was shown before, or comes from the task.
ShowsOnly(e) ==
    \/ \E m \in DOMAIN chat : e \in Range(chat[m].body)
    \/ batch # None /\ e \in Range(batch.entries)
    \/ work # None /\ work.kind = "content" /\ e = work.body[1]
    \/ work # None /\ work.kind = "content" /\ work' = None /\ e \in Range(work.body)

LEMMA DisplayShows ==
    ASSUME Base, Shape, Display
    PROVE  /\ \A m \in DOMAIN chat' : \A e \in Range(chat'[m].body) : ShowsOnly(e)
           /\ batch' # None => \A e \in Range(batch'.entries) : ShowsOnly(e)
<1> DEFINE Chat == \A m \in DOMAIN chat' : \A e \in Range(chat'[m].body) : ShowsOnly(e)
           Batch == batch' # None => \A e \in Range(batch'.entries) : ShowsOnly(e)
<1>1. chat' = chat => Chat
    BY DEF ShowsOnly
<1>2. batch' = batch => Batch
    BY DEF ShowsOnly
<1>3. batch' = None => Batch
    OBVIOUS
<1>4. ASSUME NEW kind, NEW body, Sent(kind, body), \A e \in Range(body) : ShowsOnly(e)
      PROVE  Chat
    <2> SUFFICES ASSUME NEW m \in DOMAIN chat', NEW e \in Range(chat'[m].body)
                 PROVE  ShowsOnly(e)
        OBVIOUS
    <2>1. \/ m \in DOMAIN chat /\ chat'[m] = chat[m]
          \/ chat'[m].body = body
        BY <1>4 DEF Sent
    <2> QED  BY <1>4, <2>1 DEF ShowsOnly
<1>5. ASSUME NEW msg, NEW body, Edited(msg, body), \A e \in Range(body) : ShowsOnly(e)
      PROVE  Chat
    <2> SUFFICES ASSUME NEW m \in DOMAIN chat', NEW e \in Range(chat'[m].body)
                 PROVE  ShowsOnly(e)
        OBVIOUS
    <2>1. \/ m \in DOMAIN chat /\ chat'[m] = chat[m]
          \/ chat'[m].body = body
        BY <1>5 DEF Edited
    <2> QED  BY <1>5, <2>1 DEF ShowsOnly
<1>6. ASSUME NEW msg, Erased(msg) PROVE Chat
    <2> SUFFICES ASSUME NEW m \in DOMAIN chat', NEW e \in Range(chat'[m].body)
                 PROVE  ShowsOnly(e)
        OBVIOUS
    <2>1. m \in DOMAIN chat /\ chat'[m].body = chat[m].body
        BY <1>6 DEF Erased
    <2> QED  BY <2>1 DEF ShowsOnly
<1>7. ASSUME batch # None, batch' # None, batch'.entries = batch.entries PROVE Batch
    BY <1>7 DEF ShowsOnly
<1>8. batch # None => \A e \in Range(batch.entries) : ShowsOnly(e)
    BY DEF ShowsOnly
<1> SUFFICES Chat /\ Batch
    OBVIOUS
<1> HIDE DEF Chat, Batch
<1>9. CASE Quiet \/ ShownAlready
    BY <1>1, <1>2, <1>9 DEF Quiet, ShownAlready
<1>10. CASE Drops
    BY <1>1, <1>3, <1>10 DEF Drops
<1>11. CASE Previews \/ Drafts
    BY <1>1, <1>7, <1>11 DEF Previews, Drafts
<1>12. CASE DeletesBatch
    BY <1>3, <1>6, <1>12 DEF DeletesBatch
<1>13. CASE Clears
    BY <1>1, <1>2, <1>6, <1>13 DEF Clears, Cleared
<1>14. CASE SendsBatch
    BY <1>3, <1>4, <1>7, <1>8, <1>14 DEF SendsBatch
<1>15. CASE EditsBatch
    BY <1>3, <1>5, <1>7, <1>8, <1>15 DEF EditsBatch
<1>16. CASE EditsTool
    <2> DEFINE i == work.body[1]
    <2>1. Range(<<i>>) = {i}
        BY DEF Range
    <2>2. work # None /\ work.kind = "content" /\ batch' = batch
          /\ \E t : Edited(t, <<i>>)
        BY <1>16 DEF EditsTool
    <2>3. \A e \in Range(<<i>>) : ShowsOnly(e)
        BY <2>1, <2>2 DEF ShowsOnly
    <2> HIDE DEF i
    <2> QED  BY <1>2, <1>5, <2>2, <2>3
<1>17. CASE SendsContent /\ Over
    <2>1. \A e \in Range(work.body) : ShowsOnly(e)
        BY <1>17 DEF SendsContent, ShowsOnly, Over
    <2> QED  BY <1>2, <1>4, <1>17, <2>1 DEF SendsContent
<1>18. CASE SendsStatus
    <2>1. \A e \in Range(<<>>) : ShowsOnly(e)
        BY NewBatchOk DEF NewBatch
    <2> QED  BY <1>2, <1>4, <1>18, <2>1 DEF SendsStatus
<1>19. CASE Enters
    <2> DEFINE i == work.body[1]
    <2>1. work # None /\ work.kind = "content" /\ chat' = chat
        BY <1>19 DEF Enters
    <2>2. i \in Ids
        BY <2>1, BaseFacts, FirstEntry
    <2>3. PICK b \in IdBatches : Left(b) /\ batch' = Entered(b, i)
        BY <1>19 DEF Enters
    <2>4. Range(batch'.entries) = Range(b.entries) \cup {i}
        BY <2>2, <2>3, EnteredOk
    <2>5. \A e \in Range(b.entries) : batch # None /\ e \in Range(batch.entries)
        <3>1. CASE b = NewBatch
            BY <3>1, NewBatchOk
        <3>2. CASE b # NewBatch
            BY <2>3, <3>2 DEF Left
        <3> QED  BY <3>1, <3>2
    <2>6. Batch
        BY <2>1, <2>4, <2>5 DEF Batch, ShowsOnly
    <2> QED  BY <1>1, <2>1, <2>6
<1> QED  BY <1>9, <1>10, <1>11, <1>12, <1>13, <1>14, <1>15, <1>16, <1>17, <1>18, <1>19
         DEF Display

LEMMA ShowsIds == ASSUME Base, NEW e, ShowsOnly(e) PROVE e \in Ids /\ e \in Nat
<1>1. ASSUME NEW m \in DOMAIN chat, e \in Range(chat[m].body) PROVE e \in Ids
    <2>1. chat[m].body \in Seq(Ids)
        BY BaseFacts, MessageFields
    <2> QED  BY <1>1, <2>1, RangeIs
<1>2. ASSUME batch # None, e \in Range(batch.entries) PROVE e \in Ids
    <2>1. batch.entries \in Seq(Ids)
        BY <1>2, BaseFacts, BatchFields
    <2> QED  BY <1>2, <2>1, RangeIs
<1>3. ASSUME work # None, work.kind = "content", e = work.body[1] \/ e \in Range(work.body)
      PROVE  e \in Ids
    <2>1. work.body \in Seq(Ids) /\ work.body[1] \in Range(work.body)
        BY <1>3, BaseFacts, WorkFields, FirstEntry
    <2> QED  BY <1>3, <2>1, RangeIs
<1> QED  BY <1>1, <1>2, <1>3, IdSeqs DEF ShowsOnly

LEMMA StepBehind ==
    ASSUME Base, QueueBodies, Shape, FeedInOrder, Behind, Outcome
    PROVE  Behind'
<1>1. Display /\ Flow
    BY DEF Outcome
<1>2. ASSUME NEW e \in Nat, Reached(e) PROVE Reached(e)'
    BY <1>1, <1>2, BaseFacts, ReachedStays
<1>3. CASE work # None /\ Stays
    <2>1. ASSUME NEW e, ShowsOnly(e) PROVE Reached(e)'
        <3>1. e \in Nat
            BY <2>1, ShowsIds
        <3>2. \/ Reached(e)
              \/ /\ work.kind = "content"
                 /\ e = work.body[1] \/ (work' = None /\ e \in Range(work.body))
            BY <2>1 DEF ShowsOnly, Behind
        <3> QED  BY <1>2, <1>3, <3>1, <3>2, ReachedNow
    <2> QED  BY <1>1, <2>1, DisplayShows DEF Behind
<1>4. CASE chat' = chat /\ batch' = batch
    <2>1. ASSUME NEW m \in DOMAIN chat, NEW e \in Range(chat[m].body) PROVE Reached(e)'
        <3>1. e \in Nat
            BY ShowsIds DEF ShowsOnly
        <3> QED  BY <1>2, <3>1 DEF Behind
    <2>2. ASSUME batch # None, NEW e \in Range(batch.entries) PROVE Reached(e)'
        <3>1. e \in Nat
            BY <2>2, ShowsIds DEF ShowsOnly
        <3> QED  BY <1>2, <2>2, <3>1 DEF Behind
    <2> QED  BY <1>4, <2>1, <2>2 DEF Behind
<1> QED  BY <1>1, <1>3, <1>4, FlowCases

-----------------------------------------------------------------------------
(* The order of what is on display.                                         *)

LEMMA Unshown ==
    ASSUME Frame, ~flushFailed', Ordered
    PROVE  /\ ~flushFailed /\ Ids' = Ids /\ feed' = feed /\ mode' = mode
           /\ \A e : Plain(e)' <=> Plain(e)
           /\ \A m, n \in DOMAIN chat : m < n =>
                \A e, f \in Ids : (Shows(m, e) /\ Shows(n, f) /\ Plain(e) /\ Plain(f)) => e <= f
           /\ batch # None => \A m \in DOMAIN chat, e \in Ids :
                (Shows(m, e) /\ Plain(e) /\ m # batch.msg) =>
                    /\ \A f \in Range(batch.entries) : e <= f
                    /\ batch.msg # 0 => m < batch.msg
BY DEF Frame, Ordered, Plain, Ids

\* Where no text and no call appears.
LEMMA LessInOrder ==
    ASSUME Frame, Ordered,
           \A m \in DOMAIN chat', e \in Ids : (Shows(m, e)' /\ Plain(e)) => Shows(m, e),
           \/ batch' = None
           \/ /\ batch # None
              /\ batch'.entries = batch.entries /\ batch'.msg = batch.msg
    PROVE  Ordered'
<1> SUFFICES ASSUME ~flushFailed'
             PROVE  /\ \A m, n \in DOMAIN chat' : m < n =>
                         \A e, f \in Ids : (Shows(m, e)' /\ Shows(n, f)' /\ Plain(e) /\ Plain(f))
                             => e <= f
                    /\ batch' # None => \A m \in DOMAIN chat', e \in Ids :
                         (Shows(m, e)' /\ Plain(e) /\ m # batch'.msg) =>
                             /\ \A f \in Range(batch'.entries) : e <= f
                             /\ batch'.msg # 0 => m < batch'.msg
    BY DEF Ordered, Frame, Plain, Ids
<1>1. \A m, e : Shows(m, e) => m \in DOMAIN chat
    BY DEF Shows
<1> QED  BY <1>1, Unshown

\* Nothing is on display that was not.
LEMMA FewerShown ==
    /\ chat' = chat => \A m, e : Shows(m, e)' => Shows(m, e)
    /\ \A msg : Erased(msg) => \A m, e : Shows(m, e)' => Shows(m, e)
    /\ Sent("status", <<>>) => \A m, e : Shows(m, e)' => Shows(m, e)
<1>1. chat' = chat => \A m, e : Shows(m, e)' => Shows(m, e)
    BY DEF Shows, Up
<1>2. ASSUME NEW msg, Erased(msg), NEW m, NEW e, Shows(m, e)' PROVE Shows(m, e)
    BY <1>2 DEF Erased, Shows, Up
<1>3. ASSUME Sent("status", <<>>), NEW m, NEW e, Shows(m, e)' PROVE Shows(m, e)
    <2>1. Range(<<>>) = {}
        BY DEF Range
    <2> QED  BY <1>3, <2>1 DEF Sent, Shows, Up
<1> QED  BY <1>1, <1>2, <1>3

\* What a message that is sent or edited shows.
LEMMA SentShows ==
    ASSUME NEW kind, NEW body, Sent(kind, body), NEW m, NEW e, Shows(m, e)'
    PROVE  \/ m \in DOMAIN chat /\ Shows(m, e)
           \/ m = Len(chat) + 1 /\ e \in Range(body)
BY DEF Sent, Shows, Up

LEMMA EditedShows ==
    ASSUME NEW msg, NEW body, Edited(msg, body), NEW m, NEW e, Shows(m, e)'
    PROVE  \/ m # msg /\ Shows(m, e)
           \/ m = msg /\ e \in Range(body) /\ msg \in DOMAIN chat
BY DEF Edited, Shows, Up

LEMMA EntersInOrder ==
    ASSUME Base, Behind, Ordered, Enters
    PROVE  Ordered'
<1> DEFINE i == work.body[1]
<1>1. Frame /\ work # None /\ work.kind = "content" /\ chat' = chat
    BY DEF Enters
<1>2. i \in Ids
    BY <1>1, BaseFacts, FirstEntry
<1>3. PICK b \in IdBatches : Left(b) /\ batch' = Entered(b, i)
    BY DEF Enters
<1>4. Range(batch'.entries) = Range(b.entries) \cup {i} /\ batch'.msg = b.msg
    BY <1>2, <1>3, EnteredOk DEF SameBut
<1>5. \A e, m : Shows(m, e) => e <= i
    BY <1>1 DEF Behind, Shows, Reached
<1> HIDE DEF i
<1> SUFFICES ASSUME ~flushFailed'
             PROVE  /\ \A m, n \in DOMAIN chat' : m < n =>
                         \A e, f \in Ids : (Shows(m, e)' /\ Shows(n, f)' /\ Plain(e) /\ Plain(f))
                             => e <= f
                    /\ batch' # None => \A m \in DOMAIN chat', e \in Ids :
                         (Shows(m, e)' /\ Plain(e) /\ m # batch'.msg) =>
                             /\ \A f \in Range(batch'.entries) : e <= f
                             /\ batch'.msg # 0 => m < batch'.msg
    BY <1>1 DEF Ordered, Frame, Plain, Ids
<1>6. \A m, e : Shows(m, e)' <=> Shows(m, e)
    BY <1>1 DEF Shows, Up
<1>7. ASSUME NEW m \in DOMAIN chat, NEW e \in Ids, Shows(m, e), Plain(e), m # b.msg
      PROVE  /\ \A f \in Range(b.entries) : e <= f
             /\ b.msg # 0 => m < b.msg
    <2>1. CASE b = NewBatch
        BY <2>1, NewBatchOk
    <2>2. CASE b # NewBatch
        <3>1. batch # None /\ b.msg = batch.msg /\ Range(b.entries) \subseteq Range(batch.entries)
            BY <1>3, <2>2 DEF Left, SameBut
        <3> QED  BY <1>1, <1>7, <3>1, Unshown
    <2> QED  BY <2>1, <2>2
<1>8. ASSUME NEW m \in DOMAIN chat', NEW e \in Ids, Shows(m, e)', Plain(e), m # batch'.msg
      PROVE  /\ \A f \in Range(batch'.entries) : e <= f
             /\ batch'.msg # 0 => m < batch'.msg
    <2>1. Shows(m, e) /\ m \in DOMAIN chat /\ m # b.msg
        BY <1>1, <1>4, <1>6, <1>8
    <2>2. /\ \A f \in Range(b.entries) : e <= f
          /\ b.msg # 0 => m < b.msg
        BY <1>7, <1>8, <2>1
    <2>3. e <= i
        BY <1>5, <2>1
    <2> QED  BY <1>4, <2>2, <2>3
<1>9. \A m, n \in DOMAIN chat' : m < n =>
         \A e, f \in Ids : (Shows(m, e)' /\ Shows(n, f)' /\ Plain(e) /\ Plain(f)) => e <= f
    BY <1>1, <1>6, Unshown
<1> QED  BY <1>8, <1>9

LEMMA SendsBatchInOrder ==
    ASSUME Base, Ordered, SendsBatch
    PROVE  Ordered'
<1> DEFINE new == Len(chat) + 1
<1>1. /\ Frame /\ batch # None /\ batch.msg = 0 /\ Sent("batch", batch.entries)
      /\ batch' # None => batch'.entries = batch.entries /\ batch'.msg = new
    BY DEF SendsBatch
<1>2. \A m \in DOMAIN chat : m # 0 /\ m < new /\ ~(new < m) /\ m # new /\ m \in Nat
    <2> TAKE m \in DOMAIN chat
    <2>1. m \in Nat /\ m >= 1 /\ m <= Len(chat) /\ Len(chat) \in Nat
        BY BaseFacts, MessageFields
    <2> QED  BY <2>1
<1>3. ~(new < new)
    <2>1. Len(chat) \in Nat
        BY <1>1 DEF Sent
    <2> QED  BY <2>1
<1>4. \A m, e : Shows(m, e)' => (m \in DOMAIN chat /\ Shows(m, e))
                                \/ (m = new /\ e \in Range(batch.entries))
    BY <1>1, SentShows
<1> HIDE DEF new
<1> SUFFICES ASSUME ~flushFailed'
             PROVE  /\ \A m, n \in DOMAIN chat' : m < n =>
                         \A e, f \in Ids : (Shows(m, e)' /\ Shows(n, f)' /\ Plain(e) /\ Plain(f))
                             => e <= f
                    /\ batch' # None => \A m \in DOMAIN chat', e \in Ids :
                         (Shows(m, e)' /\ Plain(e) /\ m # batch'.msg) =>
                             /\ \A f \in Range(batch'.entries) : e <= f
                             /\ batch'.msg # 0 => m < batch'.msg
    BY <1>1 DEF Ordered, Frame, Plain, Ids
<1>5. \A m \in DOMAIN chat, e \in Ids : (Shows(m, e) /\ Plain(e)) =>
         \A f \in Range(batch.entries) : e <= f
    BY <1>1, <1>2, Unshown
<1>6. ASSUME NEW m \in DOMAIN chat', NEW n \in DOMAIN chat', m < n, NEW e \in Ids, NEW f \in Ids,
             Shows(m, e)', Shows(n, f)', Plain(e), Plain(f)
      PROVE  e <= f
    <2>1. CASE m \in DOMAIN chat /\ Shows(m, e) /\ n \in DOMAIN chat /\ Shows(n, f)
        BY <1>1, <1>6, <2>1, Unshown
    <2>2. CASE m \in DOMAIN chat /\ Shows(m, e) /\ n = new /\ f \in Range(batch.entries)
        BY <1>5, <1>6, <2>2
    <2>3. CASE m = new
        BY <1>2, <1>3, <1>4, <1>6, <2>3
    <2> QED  BY <1>4, <1>6, <2>1, <2>2, <2>3
<1>7. ASSUME batch' # None, NEW m \in DOMAIN chat', NEW e \in Ids, Shows(m, e)', Plain(e),
             m # batch'.msg
      PROVE  /\ \A f \in Range(batch'.entries) : e <= f
             /\ batch'.msg # 0 => m < batch'.msg
    BY <1>1, <1>2, <1>4, <1>5, <1>7
<1> QED  BY <1>6, <1>7

LEMMA EditsBatchInOrder ==
    ASSUME Base, Ordered, EditsBatch
    PROVE  Ordered'
<1> DEFINE msg == batch.msg
<1>1. /\ Frame /\ batch # None /\ msg # 0 /\ Edited(msg, batch.entries)
      /\ batch' # None => batch'.entries = batch.entries /\ batch'.msg = msg
      /\ DOMAIN chat' = DOMAIN chat
    BY DEF EditsBatch, Edited
<1>2. \A m, e : Shows(m, e)' => (m # msg /\ Shows(m, e))
                                \/ (m = msg /\ e \in Range(batch.entries))
    BY <1>1, EditedShows
<1>3. \A m \in DOMAIN chat : m \in Nat
    BY BaseFacts, MessageFields
<1> SUFFICES ASSUME ~flushFailed'
             PROVE  /\ \A m, n \in DOMAIN chat' : m < n =>
                         \A e, f \in Ids : (Shows(m, e)' /\ Shows(n, f)' /\ Plain(e) /\ Plain(f))
                             => e <= f
                    /\ batch' # None => \A m \in DOMAIN chat', e \in Ids :
                         (Shows(m, e)' /\ Plain(e) /\ m # batch'.msg) =>
                             /\ \A f \in Range(batch'.entries) : e <= f
                             /\ batch'.msg # 0 => m < batch'.msg
    BY <1>1 DEF Ordered, Frame, Plain, Ids
<1>4. \A m \in DOMAIN chat, e \in Ids : (Shows(m, e) /\ Plain(e) /\ m # msg) =>
                    /\ \A f \in Range(batch.entries) : e <= f
                    /\ m < msg
    BY <1>1, Unshown
<1> HIDE DEF msg
<1>5. ASSUME NEW m \in DOMAIN chat', NEW n \in DOMAIN chat', m < n, NEW e \in Ids, NEW f \in Ids,
             Shows(m, e)', Shows(n, f)', Plain(e), Plain(f)
      PROVE  e <= f
    <2>1. CASE m # msg /\ Shows(m, e) /\ n # msg /\ Shows(n, f)
        BY <1>1, <1>5, <2>1, Unshown
    <2>2. CASE m # msg /\ Shows(m, e) /\ n = msg /\ f \in Range(batch.entries)
        BY <1>1, <1>4, <1>5, <2>2
    <2>3. CASE m = msg /\ n # msg /\ Shows(n, f)
        <3>1. n < msg /\ msg \in Nat /\ n \in Nat
            BY <1>1, <1>3, <1>4, <1>5, <2>3
        <3> QED  BY <1>5, <2>3, <3>1
    <2>4. CASE m = msg /\ n = msg
        BY <1>1, <1>3, <1>5, <2>4
    <2> QED  BY <1>2, <1>5, <2>1, <2>2, <2>3, <2>4
<1>6. ASSUME batch' # None, NEW m \in DOMAIN chat', NEW e \in Ids, Shows(m, e)', Plain(e),
             m # batch'.msg
      PROVE  /\ \A f \in Range(batch'.entries) : e <= f
             /\ batch'.msg # 0 => m < batch'.msg
    BY <1>1, <1>2, <1>4, <1>6
<1> QED  BY <1>5, <1>6

LEMMA SendsContentInOrder ==
    ASSUME Base, Behind, FeedInOrder, Ordered, SendsContent
    PROVE  Ordered'
<1> DEFINE new == Len(chat) + 1
<1>1. /\ Frame /\ work # None /\ work.kind = "content" /\ work.pc = "send"
      /\ Sent("content", work.body) /\ batch' = batch
    BY DEF SendsContent
<1>2. \A m \in DOMAIN chat : ~(new < m) /\ m \in Nat
    <2> TAKE m \in DOMAIN chat
    <2>1. m \in Nat /\ m >= 1 /\ m <= Len(chat) /\ Len(chat) \in Nat
        BY BaseFacts, MessageFields
    <2> QED  BY <2>1
<1>3. ~(new < new)
    <2>1. Len(chat) \in Nat
        BY <1>1 DEF Sent
    <2> QED  BY <2>1
<1>4. \A m, e : Shows(m, e)' => (m \in DOMAIN chat /\ Shows(m, e))
                                \/ (m = new /\ e \in Range(work.body))
    BY <1>1, SentShows
<1> HIDE DEF new
<1>5. \A m, e : Shows(m, e) => e <= work.body[1]
    BY <1>1 DEF Behind, Shows, Reached
<1>6. ASSUME NEW e \in Ids, e <= work.body[1], NEW f \in Range(work.body) PROVE e <= f
    <2>1. PICK p \in DOMAIN work.body : f = work.body[p]
        BY DEF Range
    <2>2. /\ work.body[1] \in Nat /\ work.body[p] \in Nat /\ e \in Nat
          /\ 1 \in DOMAIN work.body /\ p \in Nat /\ p >= 1
        <3>1. Len(work.body) \in Nat /\ Len(work.body) >= 1
              /\ DOMAIN work.body = 1..Len(work.body)
            BY <1>1, BaseFacts, FirstEntry, WorkFields, LenProperties
        <3>2. 1 \in DOMAIN work.body /\ p \in Nat /\ p >= 1
            BY <3>1
        <3> QED  BY <1>1, <3>2, BaseFacts, WorkHeads, IdSeqs
    <2>3. 1 < p => work.body[1] < work.body[p]
        BY <1>1, <2>2 DEF FeedInOrder, Increasing
    <2>4. p = 1 \/ 1 < p
        BY <2>2
    <2> QED  BY <1>6, <2>1, <2>2, <2>3, <2>4
<1> SUFFICES ASSUME ~flushFailed'
             PROVE  /\ \A m, n \in DOMAIN chat' : m < n =>
                         \A e, f \in Ids : (Shows(m, e)' /\ Shows(n, f)' /\ Plain(e) /\ Plain(f))
                             => e <= f
                    /\ batch' # None => \A m \in DOMAIN chat', e \in Ids :
                         (Shows(m, e)' /\ Plain(e) /\ m # batch'.msg) =>
                             /\ \A f \in Range(batch'.entries) : e <= f
                             /\ batch'.msg # 0 => m < batch'.msg
    BY <1>1 DEF Ordered, Frame, Plain, Ids
<1>7. batch' = None
    <2>1. ~flushFailed
        BY <1>1, Unshown
    <2> QED  BY <1>1, <2>1, BaseFacts DEF PcInv, PcOK
<1>8. ASSUME NEW m \in DOMAIN chat', NEW n \in DOMAIN chat', m < n, NEW e \in Ids, NEW f \in Ids,
             Shows(m, e)', Shows(n, f)', Plain(e), Plain(f)
      PROVE  e <= f
    <2>1. CASE m \in DOMAIN chat /\ Shows(m, e) /\ n \in DOMAIN chat /\ Shows(n, f)
        BY <1>1, <1>8, <2>1, Unshown
    <2>2. CASE m \in DOMAIN chat /\ Shows(m, e) /\ n = new /\ f \in Range(work.body)
        BY <1>5, <1>6, <2>2
    <2>3. CASE m = new
        BY <1>2, <1>3, <1>4, <1>8, <2>3
    <2> QED  BY <1>4, <1>8, <2>1, <2>2, <2>3
<1> QED  BY <1>7, <1>8

LEMMA DisplayInOrder ==
    ASSUME Base, Behind, FeedInOrder, Ordered, Display
    PROVE  Ordered'
<1>1. CASE Quiet \/ ShownAlready \/ Drops \/ Previews \/ Drafts
    <2>1. /\ Frame /\ chat' = chat
          /\ \/ batch' = None
             \/ batch # None /\ batch'.entries = batch.entries /\ batch'.msg = batch.msg
        BY <1>1 DEF Quiet, ShownAlready, Drops, Previews, Drafts
    <2> QED  BY <2>1, FewerShown, LessInOrder
<1>2. CASE Clears
    <2>1. /\ Frame /\ batch' = batch /\ (chat' = chat \/ \E msg : Erased(msg))
        BY <1>2 DEF Clears, Cleared
    <2> QED  BY <2>1, FewerShown, LessInOrder
<1>3. CASE DeletesBatch
    <2>1. Frame /\ batch' = None /\ \E msg : Erased(msg)
        BY <1>3 DEF DeletesBatch
    <2> QED  BY <2>1, FewerShown, LessInOrder
<1>4. CASE SendsStatus
    <2>1. Frame /\ batch' = batch /\ Sent("status", <<>>)
        BY <1>4 DEF SendsStatus
    <2> QED  BY <2>1, FewerShown, LessInOrder
<1>5. CASE EditsTool
    <2>1. /\ Frame /\ batch' = batch /\ work # None /\ work.pc = "toolEdit"
          /\ \E t \in toolMsgs : Edited(t.msg, <<work.body[1]>>)
        BY <1>5 DEF EditsTool
    <2>2. ~Plain(work.body[1])
        BY <2>1, BaseFacts DEF PcInv, PcOK, Aim, Flushing, Plain
    <2>3. Range(<<work.body[1]>>) = {work.body[1]}
        BY DEF Range
    <2>4. \A m, e : (Shows(m, e)' /\ Plain(e)) => Shows(m, e)
        BY <2>1, <2>2, <2>3, EditedShows
    <2> QED  BY <2>1, <2>4, LessInOrder
<1> QED  BY <1>1, <1>2, <1>3, <1>4, <1>5, EntersInOrder, SendsBatchInOrder, EditsBatchInOrder,
            SendsContentInOrder DEF Display

-----------------------------------------------------------------------------
(* Nothing is on display twice.                                             *)

\* Messages that are up afterwards were up before, or are empty.
Shrinks == \A m \in DOMAIN chat' : chat'[m].state = "up" =>
    chat'[m].body = <<>> \/ (m \in DOMAIN chat /\ chat'[m] = chat[m])

\* OnceShown and OnceHeld of the state after a step.
OnceShownNow ==
    /\ \A m, n \in DOMAIN chat' : \A e \in Ids : Shows(m, e)' /\ Shows(n, e)' => m = n
    /\ \A m \in DOMAIN chat' : Up(m)' => Distinct(chat'[m].body)

OnceHeldNow == batch' # None =>
    /\ Distinct(batch'.entries)
    /\ \A e \in Range(batch'.entries), m \in DOMAIN chat' : Shows(m, e)' => m = batch'.msg

LEMMA OnceLater ==
    ASSUME feed' = feed, OnceShownNow, OnceHeldNow
    PROVE  OnceShown' /\ OnceHeld'
<1>1. Ids' = Ids
    BY DEF Ids
<1>2. OnceShown'
    BY <1>1 DEF OnceShownNow, OnceShown
<1>3. OnceHeld'
    BY DEF OnceHeldNow, OnceHeld
<1> QED  BY <1>2, <1>3

\* What a message that is up shows is an entry of the transcript.
LEMMA ShownIds == ASSUME Base, NEW m, NEW e, Shows(m, e) PROVE m \in DOMAIN chat /\ e \in Ids
<1>1. m \in DOMAIN chat /\ e \in Range(chat[m].body)
    BY DEF Shows
<1>2. chat[m].body \in Seq(Ids)
    BY <1>1, BaseFacts, MessageFields
<1> QED  BY <1>1, <1>2, RangeIs

LEMMA ShrinksOnce ==
    ASSUME Base, OnceShown, OnceHeld, feed' = feed, Shrinks,
           batch' = None \/ (batch # None /\ batch' # None
               /\ batch'.entries = batch.entries /\ batch'.msg = batch.msg)
    PROVE  OnceShown' /\ OnceHeld'
<1>1. Range(<<>>) = {} /\ DOMAIN <<>> = {}
    BY DEF Range
<1>2. \A m, e : Shows(m, e)' => m \in DOMAIN chat /\ Shows(m, e)
    BY <1>1 DEF Shows, Shrinks, Up
<1>3. OnceShownNow
    <2>1. \A m \in DOMAIN chat' : Up(m)' => Distinct(chat'[m].body)
        BY <1>1 DEF Shrinks, OnceShown, Up, Distinct
    <2> QED  BY <1>2, <2>1 DEF OnceShownNow, OnceShown
<1>4. OnceHeldNow
    BY <1>2 DEF OnceHeldNow, OnceHeld
<1> QED  BY <1>3, <1>4, OnceLater

LEMMA EntersOnce ==
    ASSUME Base, OnceShown, OnceHeld, OnceAt, Enters, work.pc \in {"dispatch", "overflow"}
    PROVE  OnceShown' /\ OnceHeld'
<1> DEFINE i == work.body[1]
<1>1. feed' = feed /\ work # None /\ work.kind = "content" /\ chat' = chat
    BY DEF Enters, Frame
<1>2. i \in Ids
    BY <1>1, BaseFacts, FirstEntry
<1>3. PICK b \in IdBatches : Left(b) /\ batch' = Entered(b, i)
    BY DEF Enters
<1> DEFINE new == Len(b.entries) + 1
<1>4. /\ Range(batch'.entries) = Range(b.entries) \cup {i} /\ batch'.msg = b.msg
      /\ \A p \in DOMAIN b.entries : batch'.entries[p] = b.entries[p]
      /\ batch'.entries[new] = i
      /\ DOMAIN batch'.entries = DOMAIN b.entries \cup {new}
    BY <1>2, <1>3, EnteredOk DEF SameBut
<1>5. \A m \in DOMAIN chat : ~Shows(m, i)
    BY <1>1 DEF OnceAt
<1>6. batch # None => i \notin Range(batch.entries)
    BY <1>1 DEF OnceAt
<1> HIDE DEF i, new
<1>7. /\ Distinct(b.entries) /\ i \notin Range(b.entries)
      /\ \A e \in Range(b.entries), m \in DOMAIN chat : Shows(m, e) => m = b.msg
    <2>1. CASE b = NewBatch
        <3>1. Range(b.entries) = {} /\ DOMAIN b.entries = {}
            BY <2>1, NewBatchOk
        <3> QED  BY <3>1 DEF Distinct
    <2>2. CASE b # NewBatch
        <3>1. /\ batch # None /\ b.msg = batch.msg
              /\ Range(b.entries) \subseteq Range(batch.entries)
            BY <1>3, <2>2 DEF Left, SameBut
        <3>2. PICK k \in 0..Len(batch.entries) :
                 \A p \in DOMAIN b.entries :
                    p + k \in DOMAIN batch.entries /\ b.entries[p] = batch.entries[p + k]
            BY <1>3, <2>2 DEF Left
        <3>3. \A p \in DOMAIN b.entries : p \in Nat
            BY <1>3, BatchFields
        <3>4. Distinct(b.entries)
            <4> SUFFICES ASSUME NEW p \in DOMAIN b.entries, NEW q \in DOMAIN b.entries,
                                b.entries[p] = b.entries[q]
                         PROVE  p = q
                BY DEF Distinct
            <4>1. p + k = q + k
                BY <3>1, <3>2 DEF OnceHeld, Distinct
            <4>2. p \in Nat /\ q \in Nat /\ k \in Int
                BY <3>3
            <4> QED  BY <4>1, <4>2
        <3> QED  BY <1>6, <3>1, <3>4 DEF OnceHeld
    <2> QED  BY <2>1, <2>2
<1>8. Distinct(batch'.entries)
    <2>1. \A p \in DOMAIN b.entries : b.entries[p] \in Range(b.entries)
        BY DEF Range
    <2> QED  BY <1>4, <1>7, <2>1 DEF Distinct
<1>9. \A m, e : Shows(m, e)' <=> Shows(m, e)
    BY <1>1 DEF Shows, Up
<1>10. OnceShownNow
    BY <1>1, <1>9 DEF OnceShownNow, OnceShown, Up
<1>11. OnceHeldNow
    BY <1>1, <1>4, <1>5, <1>7, <1>8, <1>9 DEF OnceHeldNow
<1> QED  BY <1>1, <1>10, <1>11, OnceLater

\* A new message with entries that no message showed.
LEMMA SentOnce ==
    ASSUME Base, OnceShown, NEW kind, NEW body, Sent(kind, body), Distinct(body),
           \A m, e : Shows(m, e) => e \notin Range(body)
    PROVE  OnceShownNow
<1> DEFINE new == Len(chat) + 1
<1>1. \A m, e : Shows(m, e)' => (m \in DOMAIN chat /\ Shows(m, e))
                                \/ (m = new /\ e \in Range(body))
    BY SentShows
<1>2. \A m \in DOMAIN chat' : (m \in DOMAIN chat /\ chat'[m] = chat[m]) \/ chat'[m].body = body
    BY DEF Sent
<1> HIDE DEF new
<1>3. ASSUME NEW m \in DOMAIN chat', NEW n \in DOMAIN chat', NEW e \in Ids,
             Shows(m, e)', Shows(n, e)'
      PROVE  m = n
    BY <1>1, <1>3 DEF OnceShown
<1>4. ASSUME NEW m \in DOMAIN chat', Up(m)' PROVE Distinct(chat'[m].body)
    BY <1>2, <1>4 DEF OnceShown, Up
<1> QED  BY <1>3, <1>4 DEF OnceShownNow

\* A message changed to entries that no other message showed.
LEMMA EditedOnce ==
    ASSUME Base, OnceShown, NEW msg, NEW body, Edited(msg, body), Distinct(body),
           \A m, e : Shows(m, e) /\ m # msg => e \notin Range(body)
    PROVE  OnceShownNow
<1>1. \A m, e : Shows(m, e)' => (m # msg /\ Shows(m, e))
                                \/ (m = msg /\ e \in Range(body))
    BY EditedShows
<1>2. \A m \in DOMAIN chat' : m \in DOMAIN chat /\ (chat'[m] = chat[m] \/ chat'[m].body = body)
    BY DEF Edited
<1>3. ASSUME NEW m \in DOMAIN chat', NEW n \in DOMAIN chat', NEW e \in Ids,
             Shows(m, e)', Shows(n, e)'
      PROVE  m = n
    BY <1>1, <1>2, <1>3 DEF OnceShown
<1>4. ASSUME NEW m \in DOMAIN chat', Up(m)' PROVE Distinct(chat'[m].body)
    BY <1>2, <1>4 DEF OnceShown, Up
<1> QED  BY <1>3, <1>4 DEF OnceShownNow

LEMMA SendsBatchOnce ==
    ASSUME Base, OnceShown, OnceHeld, SendsBatch
    PROVE  OnceShown' /\ OnceHeld'
<1> DEFINE new == Len(chat) + 1
<1>1. /\ feed' = feed /\ batch # None /\ batch.msg = 0 /\ Sent("batch", batch.entries)
      /\ batch' # None => batch'.entries = batch.entries /\ batch'.msg = new
    BY DEF SendsBatch, Frame
<1>2. \A m \in DOMAIN chat : m # 0
    BY BaseFacts, MessageFields
<1>3. \A m, e : Shows(m, e) => e \notin Range(batch.entries)
    BY <1>1, <1>2, ShownIds DEF OnceHeld
<1>4. Distinct(batch.entries)
    BY <1>1 DEF OnceHeld
<1>5. OnceShownNow
    BY <1>1, <1>3, <1>4, SentOnce
<1>6. \A m, e : Shows(m, e)' => Shows(m, e) \/ m = new
    BY <1>1, SentShows
<1> HIDE DEF new
<1>7. OnceHeldNow
    BY <1>1, <1>3, <1>4, <1>6 DEF OnceHeldNow
<1> QED  BY <1>1, <1>5, <1>7, OnceLater

LEMMA EditsBatchOnce ==
    ASSUME Base, OnceShown, OnceHeld, EditsBatch
    PROVE  OnceShown' /\ OnceHeld'
<1> DEFINE msg == batch.msg
<1>1. /\ feed' = feed /\ batch # None /\ Edited(msg, batch.entries)
      /\ batch' # None => batch'.entries = batch.entries /\ batch'.msg = msg
    BY DEF EditsBatch, Frame
<1>2. \A m, e : Shows(m, e) /\ m # msg => e \notin Range(batch.entries)
    BY <1>1, ShownIds DEF OnceHeld
<1>3. Distinct(batch.entries)
    BY <1>1 DEF OnceHeld
<1> HIDE DEF msg
<1>4. OnceShownNow
    BY <1>1, <1>2, <1>3, EditedOnce
<1>5. \A m, e : Shows(m, e)' => (m # msg /\ Shows(m, e)) \/ m = msg
    BY <1>1, EditedShows
<1>6. OnceHeldNow
    BY <1>1, <1>2, <1>3, <1>5 DEF OnceHeldNow
<1> QED  BY <1>1, <1>4, <1>6, OnceLater

LEMMA EditsToolOnce ==
    ASSUME Base, OnceShown, OnceHeld, OnceAt, EditsTool
    PROVE  OnceShown' /\ OnceHeld'
<1> DEFINE i == work.body[1]
<1>1. /\ feed' = feed /\ work # None /\ work.kind = "content" /\ work.pc = "toolEdit"
      /\ batch' = batch
    BY DEF EditsTool, Frame
<1>2. PICK msg : Edited(msg, <<i>>)
    BY DEF EditsTool
<1>3. Range(<<i>>) = {i} /\ Distinct(<<i>>)
    BY DEF Range, Distinct
<1>4. /\ \A m \in DOMAIN chat : ~Shows(m, i)
      /\ batch # None => i \notin Range(batch.entries)
    BY <1>1 DEF OnceAt
<1> HIDE DEF i
<1>5. \A m, e : Shows(m, e) => m \in DOMAIN chat
    BY DEF Shows
<1>6. OnceShownNow
    BY <1>2, <1>3, <1>4, <1>5, EditedOnce
<1>7. \A m, e : Shows(m, e)' => (m \in DOMAIN chat /\ Shows(m, e)) \/ e = i
    BY <1>2, <1>3, <1>5, EditedShows
<1>8. OnceHeldNow
    BY <1>1, <1>4, <1>7 DEF OnceHeldNow, OnceHeld
<1> QED  BY <1>1, <1>6, <1>8, OnceLater

\* The rest of a task is later than all that has been reached.
LEMMA RestIsLater ==
    ASSUME Base, FeedInOrder, work # None, work.kind = "content",
           NEW e \in Ids, Reached(e), e \in Range(work.body)
    PROVE  e = work.body[1]
<1>1. PICK p \in DOMAIN work.body : e = work.body[p]
    BY DEF Range
<1>2. /\ work.body[1] \in Nat /\ work.body[p] \in Nat
      /\ 1 \in DOMAIN work.body /\ p \in Nat /\ p >= 1
    <2>1. Len(work.body) \in Nat /\ Len(work.body) >= 1 /\ DOMAIN work.body = 1..Len(work.body)
        BY BaseFacts, FirstEntry, WorkFields, LenProperties
    <2>2. 1 \in DOMAIN work.body /\ p \in Nat /\ p >= 1
        BY <2>1
    <2> QED  BY <2>2, BaseFacts, WorkHeads, IdSeqs
<1>3. 1 < p => work.body[1] < work.body[p]
    BY <1>2 DEF FeedInOrder, Increasing
<1>4. p = 1 \/ 1 < p
    BY <1>2
<1>5. work.body[p] <= work.body[1]
    BY <1>1 DEF Reached
<1> QED  BY <1>1, <1>2, <1>3, <1>4, <1>5

LEMMA SendsContentOnce ==
    ASSUME Base, Behind, FeedInOrder, OnceShown, OnceHeld, OnceAt, SendsContent
    PROVE  OnceShown' /\ OnceHeld'
<1>1. /\ feed' = feed /\ work # None /\ work.kind = "content" /\ work.pc = "send"
      /\ Sent("content", work.body) /\ batch' = batch
    BY DEF SendsContent, Frame
<1>2. /\ \A m \in DOMAIN chat : ~Shows(m, work.body[1])
      /\ batch # None => work.body[1] \notin Range(batch.entries)
    BY <1>1 DEF OnceAt
<1>3. ASSUME NEW m, NEW e, Shows(m, e) PROVE e \notin Range(work.body)
    <2>1. e \in Ids /\ m \in DOMAIN chat
        BY <1>3, ShownIds
    <2>2. Reached(e)
        BY <1>3, <2>1 DEF Behind, Shows
    <2> QED  BY <1>1, <1>2, <1>3, <2>1, <2>2, RestIsLater
<1>4. ASSUME batch # None, NEW e \in Range(batch.entries) PROVE e \notin Range(work.body)
    <2>1. batch.entries \in Seq(Ids)
        BY <1>4, BaseFacts, BatchFields
    <2>2. e \in Ids
        BY <1>4, <2>1, RangeIs
    <2>3. Reached(e)
        BY <1>4 DEF Behind
    <2> QED  BY <1>1, <1>2, <1>4, <2>2, <2>3, RestIsLater
<1>5. Distinct(work.body)
    <2> SUFFICES ASSUME NEW p \in DOMAIN work.body, NEW q \in DOMAIN work.body,
                        work.body[p] = work.body[q]
                 PROVE  p = q
        BY DEF Distinct
    <2>1. p \in Nat /\ q \in Nat
        BY <1>1, BaseFacts, WorkFields, LenProperties
    <2>2. work.body[p] \in Nat /\ work.body[q] \in Nat
        BY <1>1, BaseFacts, WorkHeads
    <2>3. (p < q => work.body[p] < work.body[q]) /\ (q < p => work.body[q] < work.body[p])
        BY <1>1 DEF FeedInOrder, Increasing
    <2> QED  BY <2>1, <2>2, <2>3
<1>6. OnceShownNow
    BY <1>1, <1>3, <1>5, SentOnce
<1>7. \A m, e : Shows(m, e)' => (m \in DOMAIN chat /\ Shows(m, e)) \/ e \in Range(work.body)
    BY <1>1, SentShows
<1>8. OnceHeldNow
    BY <1>1, <1>4, <1>7 DEF OnceHeldNow, OnceHeld
<1> QED  BY <1>1, <1>6, <1>8, OnceLater

LEMMA DisplayOnce ==
    ASSUME Base, Behind, FeedInOrder, OnceShown, OnceHeld, OnceAt, Display
    PROVE  OnceShown' /\ OnceHeld'
<1>1. CASE Quiet \/ ShownAlready \/ Drops \/ Previews \/ Drafts
    <2>1. /\ feed' = feed /\ chat' = chat
          /\ \/ batch' = None
             \/ batch # None /\ batch' # None
                   /\ batch'.entries = batch.entries /\ batch'.msg = batch.msg
        BY <1>1 DEF Quiet, ShownAlready, Drops, Previews, Drafts, Frame
    <2>2. Shrinks
        BY <2>1 DEF Shrinks
    <2> QED  BY <2>1, <2>2, ShrinksOnce
<1>2. ASSUME NEW msg, Erased(msg) PROVE Shrinks
    BY <1>2 DEF Erased, Shrinks
<1>3. CASE Clears
    <2>1. feed' = feed /\ batch' = batch /\ (chat' = chat \/ \E msg : Erased(msg))
        BY <1>3 DEF Clears, Cleared, Frame
    <2>2. Shrinks
        BY <1>2, <2>1 DEF Shrinks
    <2> QED  BY <2>1, <2>2, ShrinksOnce
<1>4. CASE DeletesBatch
    <2>1. feed' = feed /\ batch' = None /\ \E msg : Erased(msg)
        BY <1>4 DEF DeletesBatch, Frame
    <2> QED  BY <1>2, <2>1, ShrinksOnce
<1>5. CASE SendsStatus
    <2>1. feed' = feed /\ batch' = batch /\ Sent("status", <<>>)
        BY <1>5 DEF SendsStatus, Frame
    <2>2. Shrinks
        BY <2>1 DEF Sent, Shrinks
    <2> QED  BY <2>1, <2>2, ShrinksOnce
<1> QED  BY <1>1, <1>3, <1>4, <1>5, EntersOnce, SendsBatchOnce, EditsBatchOnce,
            EditsToolOnce, SendsContentOnce DEF Display

-----------------------------------------------------------------------------
(* What the worker is about.                                                *)

\* While the task goes on, only a flush shows more, and only the task's own call
\* enters the batch.
LEMMA DisplayAdds ==
    ASSUME Base, Display, work' # None
    PROVE  /\ \A m, e : Shows(m, e)' =>
                 \/ Shows(m, e)
                 \/ batch # None /\ e \in Range(batch.entries) /\ work.pc \in Flushing
           /\ batch' # None => \A e \in Range(batch'.entries) :
                 \/ batch # None /\ e \in Range(batch.entries)
                 \/ e = work.body[1] /\ work'.pc = "deliver" /\ IsCall(work.body[1])
<1> DEFINE Chat == \A m, e : Shows(m, e)' =>
                      \/ Shows(m, e)
                      \/ batch # None /\ e \in Range(batch.entries) /\ work.pc \in Flushing
           Batch == batch' # None => \A e \in Range(batch'.entries) :
                      \/ batch # None /\ e \in Range(batch.entries)
                      \/ e = work.body[1] /\ work'.pc = "deliver" /\ IsCall(work.body[1])
<1>1. chat' = chat => Chat
    BY FewerShown
<1>2. ASSUME NEW msg, Erased(msg) PROVE Chat
    BY <1>2, FewerShown
<1>3. Sent("status", <<>>) => Chat
    BY FewerShown
<1>4. batch' = None \/ batch' = batch => Batch
    OBVIOUS
<1>5. batch # None /\ batch'.entries = batch.entries => Batch
    OBVIOUS
<1> SUFFICES Chat /\ Batch
    OBVIOUS
<1>6. ASSUME SendsBatch, work.pc \in Flushing PROVE Chat
    <2>1. batch # None /\ Sent("batch", batch.entries)
        BY <1>6 DEF SendsBatch
    <2> QED  BY <1>6, <2>1, SentShows
<1>7. ASSUME EditsBatch, work.pc \in Flushing PROVE Chat
    <2>1. batch # None /\ Edited(batch.msg, batch.entries)
        BY <1>7 DEF EditsBatch
    <2> QED  BY <1>7, <2>1, EditedShows
<1>8. Enters => Batch
    <2> SUFFICES ASSUME Enters PROVE Batch
        OBVIOUS
    <2> DEFINE i == work.body[1]
    <2>1. work # None /\ work.kind = "content" /\ IsCall(i) /\ Moved("deliver")
        BY DEF Enters
    <2>2. i \in Ids /\ work'.pc = "deliver"
        BY <2>1, BaseFacts, FirstEntry DEF Moved
    <2>3. PICK b \in IdBatches : Left(b) /\ batch' = Entered(b, i)
        BY DEF Enters
    <2>4. Range(batch'.entries) = Range(b.entries) \cup {i}
        BY <2>2, <2>3, EnteredOk
    <2>5. \A e \in Range(b.entries) : batch # None /\ e \in Range(batch.entries)
        <3>1. CASE b = NewBatch
            BY <3>1, NewBatchOk
        <3>2. CASE b # NewBatch
            BY <2>3, <3>2 DEF Left
        <3> QED  BY <3>1, <3>2
    <2> QED  BY <2>1, <2>2, <2>4, <2>5
<1> HIDE DEF Chat, Batch
<1>9. CASE Quiet \/ Drops \/ Drafts
    BY <1>1, <1>4, <1>5, <1>9 DEF Quiet, Drops, Drafts
<1>10. CASE Clears \/ DeletesBatch \/ SendsStatus
    BY <1>1, <1>2, <1>3, <1>4, <1>10 DEF Clears, Cleared, DeletesBatch, SendsStatus
<1>11. CASE Enters
    BY <1>1, <1>8, <1>11 DEF Enters
<1>12. CASE SendsBatch /\ work.pc \in Flushing
    BY <1>4, <1>5, <1>6, <1>12 DEF SendsBatch
<1>13. CASE EditsBatch /\ work.pc \in Flushing
    BY <1>4, <1>5, <1>7, <1>13 DEF EditsBatch
<1> QED  BY <1>9, <1>10, <1>11, <1>12, <1>13 DEF Display, Over

LEMMA FlowAt ==
    ASSUME Base, QueueBodies, FeedInOrder, Behind, OnceAt, Outcome, ~toolRetried'
    PROVE  OnceAt'
<1>1. Display /\ Flow /\ Stayed
    BY DEF Outcome
<1>2. ASSUME chat' = chat, batch' = batch, feed' = feed, work' = work PROVE OnceAt'
    BY <1>2 DEF OnceAt, Shows, Up, IsCall
<1>3. CASE PutsContent \/ PutsStatus \/ Rests
    BY <1>2, <1>3 DEF PutsContent, PutsStatus, Rests, QueueOnly
<1>4. CASE Coalesces
    BY <1>4 DEF Coalesces, SameTask, OnceAt
<1>5. ASSUME chat' = chat, batch' = batch, work' # None,
             \A m, e : Shows(m, e) => e # work'.body[1],
             batch # None => work'.body[1] \notin Range(batch.entries)
      PROVE  OnceAt'
    <2>1. \A m, e : Shows(m, e)' <=> Shows(m, e)
        BY <1>5 DEF Shows, Up
    <2>2. \A m, e : e = work'.body[1] => ~Shows(m, e)'
        BY <1>5, <2>1
    <2> QED  BY <1>5, <2>2 DEF OnceAt, Shows, Up
<1>6. CASE Takes
    <2> DEFINE i == work'.body[1]
    <2>1. /\ 1 \in DOMAIN queue /\ work' # None /\ chat' = chat /\ batch' = batch
          /\ work'.kind = queue[1].kind /\ work'.body = queue[1].body
        BY <1>6 DEF Takes, QueueOnly
    <2>2. CASE queue[1].kind = "content"
        <3>1. i = queue[1].body[1] /\ i \in Nat
            BY <2>1, <2>2, BaseFacts, QueueHeads
        <3>2. \A e \in Nat : Reached(e) => e < i
            BY <2>1, <2>2, <3>1 DEF Reached
        <3> HIDE DEF i
        <3>3. ASSUME NEW m, NEW e, Shows(m, e) PROVE e # i
            <4>1. e \in Nat /\ Reached(e)
                BY <3>3, ShownIds, IdSeqs DEF Behind, Shows
            <4> QED  BY <3>1, <3>2, <4>1
        <3>4. ASSUME batch # None, NEW e \in Range(batch.entries) PROVE e # i
            <4>1. batch.entries \in Seq(Ids)
                BY <3>4, BaseFacts, BatchFields
            <4>2. e \in Nat /\ Reached(e)
                BY <3>4, <4>1, RangeIs, IdSeqs DEF Behind
            <4> QED  BY <3>1, <3>2, <4>2
        <3> QED  BY <1>5, <2>1, <3>3, <3>4 DEF i
    <2>3. CASE queue[1].kind # "content"
        BY <2>1, <2>3 DEF OnceAt
    <2> QED  BY <2>2, <2>3
<1>7. CASE Merges
    <2>1. PICK n \in Nat : Gathered(n)
        BY <1>7 DEF Merges
    <2>2. /\ work # None /\ work.kind = "content" /\ work.pc = "merge"
          /\ chat' = chat /\ batch' = batch
        BY <1>7 DEF Merges, QueueOnly
    <2>3. 1 \in DOMAIN work.body
        <3>1. Len(work.body) \in Nat /\ Len(work.body) >= 1 /\ DOMAIN work.body = 1..Len(work.body)
            BY <2>2, BaseFacts, FirstEntry, WorkFields, LenProperties
        <3> QED  BY <3>1
    <2>4. work'.body[1] = work.body[1] /\ work' # None
        BY <2>1, <2>3 DEF Gathered
    <2>5. /\ \A m, e : Shows(m, e) => e # work.body[1]
          /\ batch # None => work.body[1] \notin Range(batch.entries)
        BY <2>2, ShownIds DEF OnceAt
    <2> QED  BY <1>5, <2>2, <2>4, <2>5
<1>8. CASE work # None /\ Stays
    <2>1. CASE work' = None
        BY <2>1 DEF OnceAt
    <2>2. CASE work' # None /\ work.kind # "content"
        BY <1>8, <2>2 DEF Stays, SameTask, OnceAt
    <2>3. CASE work' # None /\ work.kind = "content"
        <3> DEFINE i == work.body[1]
        <3>1. work'.kind = work.kind /\ work'.body = work.body /\ feed' = feed
            BY <1>8, <2>3 DEF Stays, SameTask
        <3>2. /\ \A m, e : Shows(m, e) => e # i
              /\ (batch # None /\ i \in Range(batch.entries)) =>
                    work.pc \in {"deliver", "open", "edit"} /\ IsCall(i)
            BY <1>8, <2>3, ShownIds DEF OnceAt
        <3>3. \A m, e : Shows(m, e)' => e # i
            BY <1>1, <2>3, <3>2, DisplayAdds DEF Flushing
        <3>4. (batch' # None /\ i \in Range(batch'.entries)) =>
                 work'.pc \in {"deliver", "open", "edit"} /\ IsCall(i)
            <4> SUFFICES ASSUME batch' # None, i \in Range(batch'.entries)
                         PROVE  work'.pc \in {"deliver", "open", "edit"} /\ IsCall(i)
                OBVIOUS
            <4>1. \/ batch # None /\ i \in Range(batch.entries)
                  \/ work'.pc = "deliver" /\ IsCall(i)
                BY <1>1, <2>3, DisplayAdds
            <4> QED  BY <1>1, <1>8, <2>3, <3>2, <4>1 DEF Stayed
        <3>5. \A m \in DOMAIN chat' : \A e : e = i => ~Shows(m, e)'
            BY <3>3
        <3> QED  BY <3>1, <3>4, <3>5 DEF OnceAt, Shows, Up, IsCall
    <2> QED  BY <2>1, <2>2, <2>3
<1> QED  BY <1>1, <1>3, <1>4, <1>6, <1>7, <1>8 DEF Flow

LEMMA StepOnce ==
    ASSUME Base, QueueBodies, FeedInOrder, Behind, Once, Outcome
    PROVE  Once'
<1> SUFFICES ASSUME ~toolRetried' PROVE OnceShown' /\ OnceHeld' /\ OnceAt'
    BY DEF Once
<1>1. Display
    BY DEF Outcome
<1>2. toolRetried => toolRetried'
    BY <1>1 DEF Display, Quiet, ShownAlready, Drops, Clears, Enters, SendsBatch, EditsBatch,
       Previews, Drafts, DeletesBatch, EditsTool, SendsContent, SendsStatus, Frame
<1>3. OnceShown /\ OnceHeld /\ OnceAt
    BY <1>2 DEF Once
<1> QED  BY <1>1, <1>3, DisplayOnce, FlowAt

-----------------------------------------------------------------------------
(* What was delivered can be read.                                          *)

LEMMA DisplayFrame ==
    ASSUME Display
    PROVE  /\ Frame /\ feed' = feed /\ mode' = mode
           /\ previewed \subseteq previewed'
BY DEF Display, Quiet, ShownAlready, Drops, Clears, Enters, SendsBatch, EditsBatch, Previews,
   Drafts, DeletesBatch, EditsTool, SendsContent, SendsStatus, Frame

\* What goes on with a message that showed e.
KeepsShow(e) ==
    \/ Seen(e)'
    \/ mode = "ephemeral" /\ IsCall(e)
    \/ /\ IsCall(e) /\ (feed[e].kind = "use" => mode = "verbose")
       /\ \E r \in ResultsOf(e) : Seen(r)'

LEMMA SeenLater ==
    ASSUME NEW m \in DOMAIN chat', NEW e, chat'[m].state = "up", e \in Range(chat'[m].body)
    PROVE  Seen(e)'
BY DEF Seen, Shows, Up

LEMMA KeepsSeen ==
    ASSUME Base, Shape, Display, NEW m, NEW e, Shows(m, e)
    PROVE  KeepsShow(e)
<1>0. m \in DOMAIN chat /\ chat[m].state = "up" /\ e \in Range(chat[m].body)
    BY DEF Shows, Up
<1>1. ASSUME m \in DOMAIN chat', chat'[m] = chat[m] PROVE KeepsShow(e)
    BY <1>0, <1>1, SeenLater DEF KeepsShow
<1>2. chat' = chat => KeepsShow(e)
    BY <1>0, <1>1
<1>3. ASSUME NEW kind, NEW body, Sent(kind, body) PROVE KeepsShow(e)
    BY <1>0, <1>1, <1>3 DEF Sent
<1>4. ASSUME NEW msg, Erased(msg) \/ \E body : Edited(msg, body), m # msg PROVE KeepsShow(e)
    BY <1>0, <1>1, <1>4 DEF Erased, Edited
<1>5. e \in Ids
    BY ShownIds
<1>6. CASE Quiet \/ ShownAlready \/ Drops \/ Previews \/ Drafts \/ Enters
    BY <1>2, <1>6 DEF Quiet, ShownAlready, Drops, Previews, Drafts, Enters
<1>7. CASE SendsBatch \/ SendsContent \/ SendsStatus
    BY <1>3, <1>7 DEF SendsBatch, SendsContent, SendsStatus
<1>8. CASE Clears
    <2>1. CASE chat' = chat
        BY <1>2, <2>1
    <2>2. CASE status # None /\ Erased(status.msg)
        <3>1. chat[status.msg].kind = "status" /\ status.msg \in DOMAIN chat
            BY <2>2 DEF Shape, StatusOK
        <3>2. chat[status.msg].body = <<>>
            BY <3>1 DEF Shape, ChatOK
        <3>3. Range(<<>>) = {}
            BY DEF Range
        <3>4. m # status.msg
            BY <1>0, <3>2, <3>3
        <3> QED  BY <1>4, <2>2, <3>4
    <2> QED  BY <1>8, <2>1, <2>2 DEF Clears, Cleared
<1>9. CASE DeletesBatch
    <2>1. mode = "ephemeral" /\ batch # None /\ batch.msg # 0 /\ Erased(batch.msg)
        BY <1>9 DEF DeletesBatch
    <2>2. CASE m = batch.msg
        <3>1. chat[m].kind = "batch"
            BY <2>1, <2>2, BaseFacts DEF BatchInv, BatchOK
        <3>2. IsCall(e)
            BY <1>0, <3>1 DEF Shape, ChatOK
        <3> QED  BY <2>1, <3>2 DEF KeepsShow
    <2> QED  BY <1>4, <2>1, <2>2
<1>10. CASE EditsBatch
    <2>1. batch # None /\ batch.msg # 0 /\ Edited(batch.msg, batch.entries)
        BY <1>10 DEF EditsBatch
    <2>2. CASE m # batch.msg
        BY <1>4, <2>1, <2>2
    <2>3. CASE m = batch.msg
        <3>1. /\ mode # "verbose" /\ chat[m].kind = "batch"
              /\ mode = "batched" => Range(chat[m].body) \subseteq Range(batch.entries)
            BY <2>1, <2>3, BaseFacts DEF BatchInv, BatchOK
        <3>2. CASE mode = "batched"
            <4>1. /\ m \in DOMAIN chat' /\ chat'[m].state = "up"
                  /\ chat'[m].body = batch.entries
                BY <1>0, <2>1, <2>3 DEF Edited
            <4>2. e \in Range(batch.entries)
                BY <1>0, <3>1, <3>2
            <4> QED  BY <4>1, <4>2, SeenLater DEF KeepsShow
        <3>3. CASE mode = "ephemeral"
            <4>1. IsCall(e)
                BY <1>0, <3>1 DEF Shape, ChatOK
            <4> QED  BY <3>3, <4>1 DEF KeepsShow
        <3> QED  BY <3>1, <3>2, <3>3, BaseFacts DEF FeedTypeOK
    <2> QED  BY <2>2, <2>3
<1>11. CASE EditsTool
    <2>0. PICK r : r = work.body[1]
        OBVIOUS
    <2>1. PICK t \in toolMsgs : t.call = feed[r].of /\ Edited(t.msg, <<r>>)
        BY <1>11, <2>0 DEF EditsTool
    <2>2. CASE m # t.msg
        BY <1>4, <2>1, <2>2
    <2>3. CASE m = t.msg
        <3>1. /\ chat[m].body = <<t.call>> /\ IsCall(t.call)
              /\ feed[t.call].kind = "use" => mode = "verbose"
            BY <2>3, BaseFacts DEF ToolMsgsOK
        <3>2. Range(<<t.call>>) = {t.call} /\ Range(<<r>>) = {r}
            BY DEF Range
        <3>3. e = t.call
            BY <1>0, <3>1, <3>2
        <3>4. work # None /\ work.kind = "content" /\ work.pc = "toolEdit"
            BY <1>11 DEF EditsTool
        <3>5. feed[r].kind = "result" /\ r \in Ids
            BY <2>0, <3>4, BaseFacts, FirstEntry DEF PcInv, PcOK, Aim, Flushing
        <3>6. r \in ResultsOf(e)
            <4>1. DOMAIN feed = Ids
                BY BaseFacts, LenProperties DEF Ids
            <4> QED  BY <2>1, <3>3, <3>5, <4>1 DEF ResultsOf
        <3>7. /\ m \in DOMAIN chat' /\ chat'[m].state = "up" /\ chat'[m].body = <<r>>
            BY <1>0, <2>1, <2>3 DEF Edited
        <3>8. Seen(r)'
            BY <3>2, <3>7, SeenLater
        <3> QED  BY <3>1, <3>3, <3>6, <3>8 DEF KeepsShow
    <2> QED  BY <2>2, <2>3
<1> QED  BY <1>6, <1>7, <1>8, <1>9, <1>10, <1>11 DEF Display

\* What the worker tells of a tool is in the batch.
LEMMA TakenUp ==
    ASSUME Base, work # None, work.pc \in {"deliver", "open", "edit"},
           NEW i \in Range(work.body), ~(mode = "ephemeral" /\ IsTool(i))
    PROVE  /\ batch # None /\ mode = "batched"
           /\ \E c \in Range(batch.entries) :
                 \/ IsCall(i) /\ c = i
                 \/ feed[i].kind = "result" /\ c = feed[i].of /\ feed[c].kind = "use"
<1>1. work.kind = "content" /\ IsTool(work.body[1]) /\ batch # None
      /\ IF IsCall(work.body[1]) THEN work.body[1] \in Range(batch.entries)
         ELSE feed[work.body[1]].of \in Range(batch.entries)
    BY BaseFacts DEF PcInv, PcOK, Aim, Flushing
<1>2. i = work.body[1] /\ i \in Ids
    BY <1>1, BaseFacts, FirstEntry
<1>3. mode = "batched"
    BY <1>1, <1>2, BaseFacts DEF BatchInv, BatchOK, FeedTypeOK
<1>4. \A c \in Range(batch.entries) : feed[c].kind = "use"
    BY <1>1, <1>3, BaseFacts DEF BatchInv, BatchOK, Range
<1>5. feed[i].kind \in Kinds
    <2>1. i \in 1..Len(feed) /\ feed \in Seq(Entries)
        BY <1>2, BaseFacts DEF Ids
    <2>2. feed[i] \in Entries
        BY <2>1, ElementOfSeq
    <2> QED  BY <2>2 DEF Entries
<1>6. ~IsCall(i) => feed[i].kind = "result"
    BY <1>1, <1>2, <1>5 DEF IsTool, IsCall, Kinds
<1> QED  BY <1>1, <1>2, <1>3, <1>4, <1>6

\* A receipt that says delivered from now on.
AccountedNow(i) ==
    \/ Seen(i)'
    \/ /\ IsCall(i)
       /\ i \in previewed' \/ \E r \in ResultsOf(i) : Seen(r)'
    \/ /\ feed[i].kind = "result" /\ mode = "batched"
       /\ \E c : c = feed[i].of /\ feed[c].kind = "use" /\ (Seen(c)' \/ c \in previewed')

LEMMA AccountedLater ==
    ASSUME Display, NEW i, AccountedNow(i)
    PROVE  Accounted(i)'
<1>1. feed' = feed /\ mode' = mode
    BY DisplayFrame
<1>2. ResultsOf(i)' = ResultsOf(i) /\ (IsCall(i)' <=> IsCall(i))
    BY <1>1 DEF ResultsOf, IsCall
<1>3. CASE \E r \in ResultsOf(i) : IsCall(i) /\ Seen(r)'
    BY <1>2, <1>3 DEF Accounted
<1>4. CASE Seen(i)' \/ (IsCall(i) /\ i \in previewed')
    BY <1>2, <1>4 DEF Accounted
<1>5. CASE /\ feed[i].kind = "result" /\ mode = "batched"
           /\ \E c : c = feed[i].of /\ feed[c].kind = "use" /\ (Seen(c)' \/ c \in previewed')
    <2>1. PICK c : c = feed[i].of /\ feed[c].kind = "use" /\ (Seen(c)' \/ c \in previewed')
        BY <1>5
    <2>2. feed'[i].of = c
        BY <1>1, <2>1
    <2>3. Seen(c)' \/ c \in previewed'
        BY <2>1
    <2>4. /\ feed'[i].kind = "result" /\ mode' = "batched" /\ feed'[feed'[i].of].kind = "use"
        BY <1>1, <1>5, <2>1
    <2>5. (Seen(feed[i].of) \/ feed[i].of \in previewed)'
        BY <2>2, <2>3 DEF Seen, Shows, Up
    <2> QED  BY <2>4, <2>5 DEF Accounted
<1> QED  BY <1>3, <1>4, <1>5 DEF AccountedNow

\* A call of the batch that can be read, or was previewed, accounts for it and
\* for its result.
LEMMA TakenUpShown ==
    ASSUME Base, work # None, work.pc \in {"deliver", "open", "edit"},
           NEW i \in Range(work.body), ~(mode = "ephemeral" /\ IsTool(i)),
           \A c \in Range(batch.entries) : Seen(c)' \/ c \in previewed'
    PROVE  AccountedNow(i)
BY TakenUp DEF AccountedNow

\* Receipts given earlier.
LEMMA StillAccounted ==
    ASSUME Base, Shape, Display, NEW i, Accounted(i), ~(mode = "ephemeral" /\ IsTool(i))
    PROVE  AccountedNow(i)
<1>1. previewed \subseteq previewed'
    BY DisplayFrame
<1>2. \A e : Seen(e) => KeepsShow(e)
    BY KeepsSeen DEF Seen
<1>3. IsCall(i) => IsTool(i)
    BY DEF IsCall, IsTool
<1>4. CASE Seen(i)
    BY <1>2, <1>3, <1>4 DEF KeepsShow, AccountedNow
<1>5. CASE IsCall(i) /\ i \in previewed
    BY <1>1, <1>5 DEF AccountedNow
<1>6. CASE \E r \in ResultsOf(i) : IsCall(i) /\ Seen(r)
    <2>1. PICK r \in ResultsOf(i) : IsCall(i) /\ Seen(r)
        BY <1>6
    <2>2. ~IsCall(r)
        BY DEF ResultsOf, IsCall
    <2>3. Seen(r)'
        BY <1>2, <2>1, <2>2 DEF KeepsShow
    <2> QED  BY <2>1, <2>3 DEF AccountedNow
<1>7. CASE /\ feed[i].kind = "result" /\ mode = "batched" /\ feed[feed[i].of].kind = "use"
           /\ Seen(feed[i].of) \/ feed[i].of \in previewed
    <2>1. PICK c : c = feed[i].of
        OBVIOUS
    <2>2. Seen(c) => Seen(c)'
        BY <1>2, <1>7, <2>1 DEF KeepsShow
    <2> QED  BY <1>1, <1>7, <2>1, <2>2 DEF AccountedNow
<1> QED  BY <1>4, <1>5, <1>6, <1>7 DEF Accounted

\* The receipts of this step.
LEMMA NewlyAccounted ==
    ASSUME Base, Shape, Display, NEW i \in Ids, settled'[i] = "delivered",
           settled[i] # "delivered", ~(mode = "ephemeral" /\ IsTool(i)), work # None
    PROVE  AccountedNow(i)
<1>1. CASE Quiet \/ Drops \/ Clears \/ Enters \/ Drafts \/ DeletesBatch \/ SendsStatus
    <2>1. Settles({})
        BY <1>1 DEF Quiet, Drops, Clears, Enters, Drafts, DeletesBatch, SendsStatus
    <2> QED  BY <2>1 DEF Settles
<1>2. CASE ShownAlready
    <2>1. /\ work # None /\ work.pc = "deliver" /\ batch.last = batch.entries
          /\ batch.msg # 0 \/ batch.draft # "none"
          /\ chat' = chat /\ previewed' = previewed /\ i \in Range(work.body)
        BY <1>2 DEF ShownAlready, Settles
    <2>2. batch # None /\ mode = "batched"
        BY <2>1, TakenUp
    <2>3. BatchOK
        BY <2>2, BaseFacts DEF BatchInv
    <2>4. CASE batch.msg # 0
        <3>1. /\ batch.msg \in DOMAIN chat' /\ chat'[batch.msg].state = "up"
              /\ Range(batch.entries) \subseteq Range(chat'[batch.msg].body)
            BY <2>1, <2>3, <2>4 DEF BatchOK, Up
        <3> QED  BY <2>1, <3>1, TakenUpShown, SeenLater
    <2>5. CASE batch.msg = 0
        <3>1. batch.draft # "unset" /\ batch.draft # "legacy" /\ batch.draft # "none"
            BY <2>1, <2>2, <2>3, <2>5 DEF BatchOK
        <3>2. batch.draft = "streaming"
            BY <2>2, <3>1, BaseFacts, BatchFields
        <3>3. Range(batch.entries) \subseteq previewed'
            BY <2>1, <2>3, <3>2 DEF BatchOK
        <3> QED  BY <2>1, <3>3, TakenUpShown
    <2> QED  BY <2>4, <2>5
<1>3. CASE Previews
    <2>1. /\ work # None /\ work.pc = "edit" /\ i \in Range(work.body)
          /\ previewed' = previewed \cup Range(batch.entries)
        BY <1>3 DEF Previews, Settles
    <2> QED  BY <2>1, TakenUpShown
<1>4. CASE SendsBatch /\ (Over \/ (work # None /\ work.pc \in Flushing))
    <2>1. /\ i \in (IF work.pc = "open" THEN Range(work.body) ELSE {})
          /\ Sent("batch", batch.entries)
        BY <1>4 DEF SendsBatch, Settles
    <2>2. work.pc = "open" /\ i \in Range(work.body)
        BY <2>1
    <2>3. \A c \in Range(batch.entries) : Seen(c)'
        BY <2>1, SeenLater DEF Sent
    <2> QED  BY <2>2, <2>3, TakenUpShown
<1>5. CASE EditsBatch
    <2>1. /\ i \in (IF work.pc = "edit" THEN Range(work.body) ELSE {})
          /\ Edited(batch.msg, batch.entries) /\ batch # None /\ batch.msg # 0
        BY <1>5 DEF EditsBatch, Settles
    <2>2. work.pc = "edit" /\ i \in Range(work.body)
        BY <2>1
    <2>3. batch.msg \in DOMAIN chat /\ chat[batch.msg].state = "up"
        BY <2>1, BaseFacts DEF BatchInv, BatchOK, Up
    <2>4. \A c \in Range(batch.entries) : Seen(c)'
        BY <2>1, <2>3, SeenLater DEF Edited
    <2> QED  BY <2>2, <2>4, TakenUpShown
<1>6. CASE EditsTool
    <2>1. /\ work # None /\ work.kind = "content" /\ work.pc = "toolEdit"
          /\ i \in Range(work.body)
        BY <1>6 DEF EditsTool, Settles
    <2>2. feed[work.body[1]].kind = "result"
        BY <2>1, BaseFacts DEF PcInv, PcOK, Aim, Flushing
    <2>3. i = work.body[1]
        BY <2>1, <2>2, BaseFacts, FirstEntry DEF IsTool
    <2>4. PICK t \in toolMsgs : Edited(t.msg, <<i>>)
        BY <1>6, <2>3 DEF EditsTool
    <2>5. t.msg \in DOMAIN chat /\ chat[t.msg].state = "up"
        BY BaseFacts DEF ToolMsgsOK, Up
    <2>6. i \in Range(<<i>>)
        BY DEF Range
    <2>7. Seen(i)'
        BY <2>4, <2>5, <2>6, SeenLater DEF Edited
    <2> QED  BY <2>7 DEF AccountedNow
<1>7. CASE SendsContent
    <2>1. i \in Range(work.body) /\ Sent("content", work.body)
        BY <1>7 DEF SendsContent, Settles
    <2>2. Seen(i)'
        BY <2>1, SeenLater DEF Sent
    <2> QED  BY <2>2 DEF AccountedNow
<1> QED  BY <1>1, <1>2, <1>3, <1>4, <1>5, <1>6, <1>7 DEF Display

LEMMA StepDelivered ==
    ASSUME Base, Shape, Delivered, Outcome
    PROVE  Delivered'
<1>1. Display /\ FeedTypeOK'
    BY DEF Outcome
<1>2. feed' = feed /\ mode' = mode
    BY <1>1, DisplayFrame
<1>3. DOMAIN settled = Ids /\ DOMAIN settled' = Ids
    BY <1>1, <1>2, BaseFacts DEF FeedTypeOK, Ids
<1> SUFFICES ASSUME NEW i \in Ids, settled'[i] = "delivered", ~(mode = "ephemeral" /\ IsTool(i))
             PROVE  Accounted(i)'
    BY <1>2, <1>3 DEF Delivered, IsTool
<1>4. CASE settled[i] = "delivered"
    BY <1>1, <1>3, <1>4, StillAccounted, AccountedLater DEF Delivered
<1>5. CASE settled[i] # "delivered"
    <2>1. work # None
        BY <1>5 DEF Outcome, Flow, PutsContent, PutsStatus, Rests, Takes, Coalesces, Merges,
           QueueOnly
    <2> QED  BY <1>1, <1>5, <2>1, NewlyAccounted, AccountedLater
<1> QED  BY <1>4, <1>5

-----------------------------------------------------------------------------
(* The theorems.                                                            *)

\* The inductive invariant.
FeedIInv ==
    /\ FeedTypeOK /\ PcInv /\ Shape
    /\ Queued /\ QueueBodies
    /\ FeedInOrder /\ Behind /\ Ordered
    /\ Once
    /\ Delivered

LEMMA FeedStart == ASSUME Init PROVE FeedIInv
<1>1. /\ feed \in Seq(Entries) /\ mode \in {"batched", "ephemeral", "verbose"}
      /\ published = 0 /\ queue = <<>> /\ pending = {} /\ unfinished = 0
      /\ suppressed = FALSE /\ work = None /\ batch = None /\ status = None
      /\ toolMsgs = {} /\ settled = [i \in 1..Len(feed) |-> "open"] /\ chat = <<>>
      /\ asked = 0 /\ faults = 0 /\ flushFailed = FALSE /\ toolRetried = FALSE
    BY FeedAssumption DEF Init
<1>2. Len(feed) \in Nat /\ Len(<<>>) = 0 /\ DOMAIN <<>> = {}
    BY <1>1, LenProperties
<1>3. published \in 0..Len(feed)
    BY <1>1, <1>2
<1>4. settled \in [Ids -> Outcomes]
    BY <1>1 DEF Ids, Outcomes
<1>5. queue \in Seq(Tasks) /\ chat \in Seq(Messages)
    BY <1>1, EmptySeq
<1>6. FeedTypeOK
    <2>1. /\ pending \subseteq StatusKinds /\ toolMsgs \subseteq [call : Ids, msg : Nat]
          /\ unfinished \in Int /\ asked \in Nat /\ faults \in Nat
          /\ work \in IdWorks \cup {None} /\ batch \in IdBatches \cup {None}
          /\ status \in Statuses \cup {None}
        BY <1>1
    <2>3. flushFailed \in BOOLEAN /\ toolRetried \in BOOLEAN /\ suppressed \in BOOLEAN
        BY <1>1
    <2>2. feed \in Seq(Entries) /\ mode \in {"batched", "ephemeral", "verbose"}
        BY <1>1
    <2> QED  BY <1>3, <1>4, <1>5, <2>1, <2>2, <2>3 DEF FeedTypeOK
<1>7. PcInv /\ Shape
    BY <1>1, <1>2 DEF PcInv, Shape, BatchInv, StatusOK, ToolMsgsOK, ChatOK, NoGhosts
<1>8. Queued /\ QueueBodies
    BY <1>1, <1>2 DEF Queued, QueueBodies
<1>9. FeedInOrder /\ Behind /\ Ordered
    BY <1>1, <1>2 DEF FeedInOrder, Behind, Ordered
<1>10. Once
    BY <1>1, <1>2 DEF Once, OnceShown, OnceHeld, OnceAt
<1>11. Delivered
    BY <1>1 DEF Delivered
<1> QED  BY <1>6, <1>7, <1>8, <1>9, <1>10, <1>11 DEF FeedIInv

LEMMA FeedStep == ASSUME FeedIInv, [Next]_vars PROVE FeedIInv'
<1>1. Base /\ Shape
    BY DEF FeedIInv, Base, Shape
<1>2. Outcome
    BY <1>1, StepOutcome DEF FeedIInv
<1>3. FeedTypeOK' /\ PcInv' /\ Display /\ Flow
    BY <1>2 DEF Outcome
<1>4. Shape'
    BY <1>1, <1>3, DisplayShape
<1>5. Queued' /\ QueueBodies'
    BY <1>3, FlowQueued, FlowBodies DEF FeedIInv
<1>6. FeedInOrder'
    BY <1>3, FlowInOrder DEF FeedIInv
<1>7. Behind'
    BY <1>1, <1>2, StepBehind DEF FeedIInv
<1>8. Ordered'
    BY <1>1, <1>3, DisplayInOrder DEF FeedIInv
<1>9. Once'
    BY <1>1, <1>2, StepOnce DEF FeedIInv
<1>10. Delivered'
    BY <1>1, <1>2, StepDelivered DEF FeedIInv
<1> QED  BY <1>3, <1>4, <1>5, <1>6, <1>7, <1>8, <1>9, <1>10 DEF FeedIInv

\* The variables keep their types, the worker finds what it expects wherever it
\* is, and the queue, the task, the batch and the messages agree.
THEOREM FeedInvariant == Spec => []FeedIInv
<1>1. Init => FeedIInv
    BY FeedStart
<1>2. FeedIInv /\ [Next]_vars => FeedIInv'
    BY FeedStep
<1> QED  BY <1>1, <1>2, PTL DEF Spec

\* What is queued is counted once for each task, and pending once for each kind.
LEMMA QueuedAccounts == ASSUME FeedTypeOK, Queued PROVE QueueAccounts
<1>1. ASSUME NEW kind \in StatusKinds
      PROVE  Cardinality({j \in DOMAIN queue : queue[j].kind = kind})
                 = IF kind \in pending THEN 1 ELSE 0
    <2> DEFINE S == {j \in DOMAIN queue : queue[j].kind = kind}
    <2>1. CASE kind \in pending
        <3>1. PICK k \in DOMAIN queue : queue[k].kind = kind
            BY <2>1 DEF Queued
        <3>2. kind # "content"
            BY DEF StatusKinds
        <3>3. S = {k}
            BY <3>1, <3>2 DEF Queued
        <3> QED  BY <2>1, <3>3, FS_Singleton
    <2>2. CASE kind \notin pending
        <3>1. S = {}
            BY <2>2 DEF Queued
        <3> QED  BY <2>2, <3>1, FS_EmptySet
    <2> QED  BY <2>1, <2>2
<1> QED  BY <1>1 DEF QueueAccounts, Queued

\* What queue.join waits for is what is queued, in flight and merged, and an update
\* is pending exactly while one of its kind is queued (_merge_content_tasks,
\* _coalesce_status_updates).
THEOREM QueueIsCounted == Spec => []QueueAccounts
<1>1. FeedIInv => QueueAccounts
    BY QueuedAccounts DEF FeedIInv
<1> QED  BY <1>1, FeedInvariant, PTL

\* A status message or an ephemeral tool message on display is the one that the
\* worker will edit or delete (_status_msg_info, _active_batches).
THEOREM NoGhostIsLeft == Spec => []NoGhosts
<1>1. FeedIInv => NoGhosts
    BY DEF FeedIInv, Shape
<1> QED  BY <1>1, FeedInvariant, PTL

\* What the display shows, in the words of the properties.
LEMMA ShowingIs ==
    ASSUME FeedTypeOK
    PROVE  /\ \A m, i : m \in Showing(i) <=> Shows(m, i)
           /\ \A m, i : Shows(m, i) => m \in DOMAIN chat /\ m \in Nat
           /\ DOMAIN feed = Ids /\ Ids \subseteq Nat
<1>1. \A m, i : m \in Showing(i) <=> Shows(m, i)
    BY DEF Showing, Shows
<1>2. \A m \in DOMAIN chat : m \in Nat
    BY MessageFields DEF FeedTypeOK
<1>3. DOMAIN feed = Ids
    BY LenProperties DEF FeedTypeOK, Ids
<1> QED  BY <1>1, <1>2, <1>3, IdSeqs DEF Shows

LEMMA OrderedKept == ASSUME FeedTypeOK, Ordered PROVE OrderKept
<1> SUFFICES ASSUME ~flushFailed, NEW i \in DOMAIN feed, NEW j \in DOMAIN feed, i < j,
                    feed[i].kind # "result", feed[j].kind # "result",
                    NEW m \in Showing(i), NEW n \in Showing(j)
             PROVE  m <= n
    BY DEF OrderKept
<1>1. /\ i \in Ids /\ j \in Ids /\ i \in Nat /\ j \in Nat
      /\ Shows(m, i) /\ Shows(n, j) /\ m \in DOMAIN chat /\ n \in DOMAIN chat
      /\ m \in Nat /\ n \in Nat
    BY ShowingIs
<1>2. Plain(i) /\ Plain(j)
    BY DEF Plain
<1>3. n < m => j <= i
    BY <1>1, <1>2 DEF Ordered
<1> QED  BY <1>1, <1>3

\* While no flush failed, texts and calls are on display in the order of the
\* transcript (flush_if_active comes before whatever else is shown).
THEOREM OrderIsKept == Spec => []OrderKept
<1>1. FeedIInv => OrderKept
    BY OrderedKept DEF FeedIInv
<1> QED  BY <1>1, FeedInvariant, PTL

LEMMA OnceOnly == ASSUME FeedTypeOK, Once PROVE ShownOnce
<1> SUFFICES ASSUME ~toolRetried, NEW i \in DOMAIN feed
             PROVE  /\ Cardinality(Showing(i)) <= 1
                    /\ \A m \in Showing(i) :
                         Cardinality({p \in DOMAIN chat[m].body : chat[m].body[p] = i}) = 1
    BY DEF ShownOnce
<1>1. i \in Ids /\ OnceShown
    BY ShowingIs DEF Once
<1>2. Cardinality(Showing(i)) <= 1
    <2>1. CASE Showing(i) = {}
        <3>1. Cardinality(Showing(i)) = 0
            BY <2>1, FS_EmptySet
        <3> QED  BY <3>1
    <2>2. CASE Showing(i) # {}
        <3>1. PICK m : m \in Showing(i)
            BY <2>2
        <3>2. Showing(i) = {m}
            BY <1>1, <3>1, ShowingIs DEF OnceShown
        <3>3. Cardinality(Showing(i)) = 1
            BY <3>2, FS_Singleton
        <3> QED  BY <3>3
    <2> QED  BY <2>1, <2>2
<1>3. ASSUME NEW m \in Showing(i)
      PROVE  Cardinality({p \in DOMAIN chat[m].body : chat[m].body[p] = i}) = 1
    <2> DEFINE S == {p \in DOMAIN chat[m].body : chat[m].body[p] = i}
    <2>1. Up(m) /\ i \in Range(chat[m].body) /\ m \in DOMAIN chat
        BY ShowingIs DEF Shows
    <2>2. Distinct(chat[m].body)
        BY <1>1, <2>1 DEF OnceShown
    <2>3. PICK q \in DOMAIN chat[m].body : chat[m].body[q] = i
        BY <2>1 DEF Range
    <2>4. S = {q}
        BY <2>2, <2>3 DEF Distinct
    <2> QED  BY <2>4, FS_Singleton
<1> QED  BY <1>2, <1>3

\* Nothing is on display twice, unless a call was taken again after RetryAfter
\* (_dispatch_with_retry).
THEOREM NothingShownTwice == Spec => []ShownOnce
<1>1. FeedIInv => ShownOnce
    BY OnceOnly DEF FeedIInv
<1> QED  BY <1>1, FeedInvariant, PTL

LEMMA DeliveredShown == ASSUME FeedTypeOK, Delivered PROVE DeliveredIsShown
<1> SUFFICES ASSUME NEW i \in DOMAIN settled, settled[i] = "delivered",
                    ~(mode = "ephemeral" /\ IsTool(i)),
                    NEW calls, calls = IF feed[i].kind = "result" THEN {feed[i].of} ELSE {}
             PROVE  \/ \E j \in {i} \cup calls \cup ResultsOf(i) : Showing(j) # {}
                    \/ ({i} \cup calls) \cap previewed # {}
    BY DEF DeliveredIsShown
<1>1. Accounted(i)
    BY DEF Delivered
<1>2. \A e : Seen(e) => Showing(e) # {}
    BY ShowingIs DEF Seen
<1>3. CASE Seen(i)
    BY <1>2, <1>3
<1>4. CASE IsCall(i) /\ (i \in previewed \/ \E r \in ResultsOf(i) : Seen(r))
    BY <1>2, <1>4
<1>5. CASE /\ feed[i].kind = "result"
           /\ Seen(feed[i].of) \/ feed[i].of \in previewed
    <2>1. feed[i].of \in calls
        BY <1>5
    <2> QED  BY <1>2, <1>5, <2>1
<1> QED  BY <1>1, <1>3, <1>4, <1>5 DEF Accounted

\* An entry whose receipt was settled as delivered can be read in the topic, or
\* was previewed (_send_or_edit_batch, _process_content_task).
THEOREM DeliveredCanBeRead == Spec => []DeliveredIsShown
<1>1. FeedIInv => DeliveredIsShown
    BY DeliveredShown DEF FeedIInv
<1> QED  BY <1>1, FeedInvariant, PTL
=============================================================================
