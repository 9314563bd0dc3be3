--------------------------- MODULE EventHubProofs ---------------------------
(***************************************************************************)
(* The stream of events has no silent gap and no repetition, for every     *)
(* number of sessions and every size of the ring, the queue and the wire.  *)
(*                                                                         *)
(* What is on its way to the client is one sequence, Frames: what was sent *)
(* and what the handshake has still to send.  The numbers in it and in the *)
(* queue behind it grow, and they leave out nothing of what the client     *)
(* asked for from the cursor it will have on.                              *)
(***************************************************************************)
EXTENDS EventHub, SequenceTheorems, TLAPS

Frames == wire \o outbox

\* The server side has told the client where it stands.
Streaming == socket \in {"replaying", "live"}

\* The cursor of the client once it has read its welcome.
Base ==
    IF Frames # <<>> /\ Frames[1].type = "welcome" /\ ~Frames[1].resumed
    THEN Frames[1].seq ELSE cursor

Epochs ==
    /\ epoch = restarts + 1
    /\ cursorEpoch <= epoch
    /\ boundary <= seq
    /\ cursorEpoch = epoch => cursor <= seq
    /\ client = "joined" => cursorEpoch = epoch

\* How far the connection is, on both sides.
Phases ==
    /\ socket = "prepared" => client = "hello" /\ Frames = <<>>
    /\ socket = "replaying" <=> outbox # <<>>
    /\ socket = "none" => queue = <<>>
    /\ client = "away" => socket = "none" /\ Frames = <<>>
    /\ client = "hello" /\ socket # "prepared" =>
          /\ Frames # <<>> /\ Frames[1].type = "welcome"
          /\ Frames[1].resumed => cursorEpoch = epoch /\ cursor # NoCursor
    /\ \A i \in 1..Len(Frames) :
          /\ Frames[i].type = "welcome" => i = 1 /\ client = "hello"
          /\ Frames[i].type = "resync_required" => i = Len(Frames) /\ socket = "none"

Follows ==
    /\ client # "joined" => asked = Sessions
    /\ filter \in {Sessions, asked}
    /\ socket = "none" => filter = Sessions
    /\ kept \subseteq asked

Ordered ==
    /\ \A i \in 1..Len(Frames) : Frames[i].seq <= seq
    /\ \A i \in 1..Len(Frames) : Frames[i].type = "event" =>
          /\ Frames[i].seq >= 1 /\ Frames[i].seq > Base
          /\ \A j \in 1..(i - 1) : Frames[j].type = "event" =>
                Frames[j].seq < Frames[i].seq

QueueOrdered ==
    /\ lagged => queue = <<Resync>>
    /\ ~lagged => \A i \in 1..Len(queue) :
          /\ queue[i] \in 1..seq
          /\ \A j \in 1..(i - 1) : queue[j] < queue[i]
    /\ Streaming => \A i \in 1..Len(queue) : queue[i] > boundary =>
          /\ queue[i] > Base
          /\ \A j \in 1..Len(Frames) : Frames[j].type = "event" =>
                Frames[j].seq < queue[i]

Carried(n) == \E i \in 1..Len(Frames) : Frames[i].type = "event" /\ Frames[i].seq = n
Queued(n) == \E i \in 1..Len(queue) : queue[i] = n /\ n > boundary

\* Nothing that the client asked for is left out before what it will get.
Complete ==
    /\ \A i \in 1..Len(Frames) : Frames[i].type = "event" =>
          \A n \in 1..seq :
              Base < n /\ n < Frames[i].seq /\ published[n] \in asked => Carried(n)
    /\ Streaming /\ ~lagged =>
          \A n \in 1..seq : Base < n /\ published[n] \in asked =>
              Carried(n) \/ Queued(n)

IInv ==
    /\ TypeOK /\ Epochs /\ Phases /\ Follows /\ Ordered /\ QueueOrdered
    /\ Complete /\ NoGap

-----------------------------------------------------------------------------
(* The frames on their way.                                                *)

LEMMA FramesAre ==
    ASSUME TypeOK
    PROVE  /\ Frames \in Seq(Frame) /\ Len(Frames) = Len(wire) + Len(outbox)
           /\ \A i \in 1..Len(wire) : Frames[i] = wire[i]
           /\ \A i \in 1..Len(outbox) : Frames[Len(wire) + i] = outbox[i]
<1>1. wire \in Seq(Frame) /\ outbox \in Seq(Frame)
  BY DEF TypeOK
<1> QED  BY <1>1, ConcatProperties DEF Frames

LEMMA FramesSent ==
    ASSUME NEW u \in Seq(Frame), NEW v \in Seq(Frame), v # <<>>
    PROVE  Append(u, Head(v)) \o Tail(v) = u \o v
OBVIOUS

LEMMA FramesRead ==
    ASSUME NEW u \in Seq(Frame), NEW v \in Seq(Frame), u # <<>>
    PROVE  /\ Tail(u) \o v = Tail(u \o v) /\ (u \o v)[1] = Head(u)
           /\ u \o v # <<>>
OBVIOUS

LEMMA TailIs ==
    ASSUME NEW u \in Seq(Frame), u # <<>>
    PROVE  /\ Tail(u) \in Seq(Frame) /\ Len(Tail(u)) = Len(u) - 1
           /\ \A i \in 1..Len(Tail(u)) : Tail(u)[i] = u[i + 1]
OBVIOUS

LEMMA AppendIs ==
    ASSUME NEW S, NEW u \in Seq(S), NEW x \in S
    PROVE  /\ Append(u, x) \in Seq(S) /\ Len(Append(u, x)) = Len(u) + 1
           /\ \A i \in 1..Len(u) : Append(u, x)[i] = u[i]
           /\ Append(u, x)[Len(u) + 1] = x
OBVIOUS

\* The facts about frames, queue and base that every step uses.
LEMMA Standing ==
    ASSUME IInv
    PROVE  /\ seq \in Nat /\ Base \in Int /\ Len(Frames) \in Nat
           /\ \A i \in 1..Len(Frames) :
                 /\ Frames[i] \in Frame
                 /\ Frames[i].seq \in 0..MaxSeq
                 /\ Frames[i].type \in {"event", "welcome", "resync_required"}
           /\ Frames # <<>> <=> 1 \in 1..Len(Frames)
           /\ Streaming => Base <= seq
           /\ client = "joined" => Base = cursor
<1>1. /\ TypeOK /\ Epochs /\ Phases /\ Ordered
  BY DEF IInv
<1>2. /\ Frames \in Seq(Frame) /\ seq \in Nat
  BY <1>1, FramesAre DEF TypeOK, seq
<1>3. /\ Len(Frames) \in Nat /\ \A i \in 1..Len(Frames) : Frames[i] \in Frame
      /\ Frames # <<>> <=> 1 \in 1..Len(Frames)
  BY <1>2
<1>4. ASSUME NEW i \in 1..Len(Frames)
      PROVE  /\ Frames[i].seq \in 0..MaxSeq
             /\ Frames[i].type \in {"event", "welcome", "resync_required"}
  BY <1>3 DEF Frame
<1>5. cursor \in Int /\ Base \in Int
  BY <1>1, <1>3, <1>4, EventHubAssumption DEF TypeOK, Base, NoCursor, EventHubAssumption
<1>6. client = "joined" => Base = cursor
  BY <1>1, <1>3 DEF Phases, Base
<1>7. ASSUME Streaming
      PROVE  Base <= seq
  <2>1. client \in {"hello", "joined"} /\ socket # "prepared"
    BY <1>1, <1>7 DEF TypeOK, Phases, Streaming
  <2>2. CASE client = "joined"
    BY <1>1, <1>6, <2>2 DEF Epochs
  <2>3. CASE client = "hello"
    <3>1. /\ 1 \in 1..Len(Frames) /\ Frames[1].type = "welcome"
          /\ Frames[1].resumed => cursor <= seq
      BY <1>1, <1>3, <2>1, <2>3 DEF Phases, Epochs
    <3>2. Frames[1].seq <= seq
      BY <1>1, <3>1 DEF Ordered
    <3> QED  BY <3>1, <3>2 DEF Base
  <2> QED  BY <2>1, <2>2, <2>3
<1> QED  BY <1>2, <1>3, <1>4, <1>5, <1>6, <1>7

\* A step that leaves the frames, the cursor, the numbers and what the client
\* asked alone keeps what is true of them.
LEMMA SameFrames ==
    ASSUME IInv, Frames' = Frames, UNCHANGED <<cursor, published, asked, queue, boundary>>
    PROVE  /\ Base' = Base /\ seq' = seq /\ Ordered'
           /\ \A n \in Int : (Carried(n)' <=> Carried(n)) /\ (Queued(n)' <=> Queued(n))
<1>1. Base' = Base /\ seq' = seq
  BY DEF Base, seq
<1>2. Ordered
  BY DEF IInv
<1>3. Ordered'
  BY <1>1, <1>2 DEF Ordered
<1> QED  BY <1>1, <1>3 DEF Carried, Queued

-----------------------------------------------------------------------------
(* Types.                                                                  *)

LEMMA ElementIs ==
    ASSUME NEW S, NEW u \in Seq(S), u # <<>>
    PROVE  /\ Head(u) \in S /\ Tail(u) \in Seq(S) /\ Len(Tail(u)) = Len(u) - 1
           /\ Len(u) \in Nat \ {0} /\ Head(u) = u[1]
           /\ \A i \in 1..Len(Tail(u)) : Tail(u)[i] = u[i + 1]
OBVIOUS

LEMMA FramesOf ==
    ASSUME NEW n \in 0..MaxSeq, NEW b \in BOOLEAN
    PROVE  Event(n) \in Frame /\ Welcome(n, b) \in Frame /\ ResyncRequired \in Frame
<1>1. 0 \in 0..MaxSeq
  BY EventHubAssumption DEF EventHubAssumption
<1> QED  BY <1>1 DEF Event, Welcome, ResyncRequired, Frame

LEMMA OneFrame ==
    ASSUME NEW x \in Frame
    PROVE  /\ <<x>> \in Seq(Frame) /\ Len(<<x>>) = 1 /\ <<x>>[1] = x
           /\ <<x>> # <<>>
OBVIOUS

LEMMA FreshTypes ==
    ASSUME NEW state \in {"none", "prepared"}, FreshServerSide(state)
    PROVE  /\ socket' \in {"none", "prepared", "replaying", "live"}
           /\ filter' \subseteq Sessions
           /\ queue' \in Seq(0..MaxSeq) /\ Len(queue') <= QueueCapacity
           /\ lagged' \in BOOLEAN /\ boundary' \in 0..MaxSeq
           /\ outbox' \in Seq(Frame)
<1>1. 0 \in 0..MaxSeq /\ Len(<<>>) <= QueueCapacity
  BY EventHubAssumption DEF EventHubAssumption
<1>2. <<>> \in Seq(0..MaxSeq) /\ <<>> \in Seq(Frame)
  OBVIOUS
<1>3. socket' = state /\ filter' = Sessions /\ lagged' = FALSE
  BY DEF FreshServerSide
<1>4. queue' = <<>> /\ boundary' = 0 /\ outbox' = <<>>
  BY DEF FreshServerSide
<1>5. queue' \in Seq(0..MaxSeq) /\ Len(queue') <= QueueCapacity
  BY <1>1, <1>2, <1>4
<1>6. boundary' \in 0..MaxSeq /\ outbox' \in Seq(Frame)
  BY <1>1, <1>2, <1>4
<1> QED  BY <1>3, <1>5, <1>6

\* What the ring holds after the cursor, one event after the other.
LEMMA ReplayIs ==
    ASSUME TypeOK, NEW first \in oldest..(seq + 1)
    PROVE  LET from == IF first > cursor THEN first ELSE cursor + 1 IN
           cursor <= seq =>
              /\ Replay(first) \in Seq(Frame) /\ from \in 1..(seq + 1)
              /\ Len(Replay(first)) = seq + 1 - from
              /\ \A i \in 1..(seq + 1 - from) : Replay(first)[i] = Event(from + i - 1)
<1> DEFINE from == IF first > cursor THEN first ELSE cursor + 1
<1> SUFFICES ASSUME cursor <= seq
             PROVE  /\ Replay(first) \in Seq(Frame) /\ from \in 1..(seq + 1)
                    /\ Len(Replay(first)) = seq + 1 - from
                    /\ \A i \in 1..(seq + 1 - from) : Replay(first)[i] = Event(from + i - 1)
  OBVIOUS
<1>1. /\ seq \in Nat /\ seq <= MaxSeq /\ MaxSeq \in Nat
      /\ first \in 1..(seq + 1) /\ cursor \in Int /\ cursor >= -1
  BY EventHubAssumption DEF TypeOK, seq, NoCursor, EventHubAssumption
<1>2. from \in 1..(seq + 1)
  BY <1>1
<1> DEFINE m == seq + 1 - from
<1>3. m \in Nat /\ \A i \in 1..m : from + i - 1 \in 0..MaxSeq
  BY <1>1, <1>2
<1>4. Replay(first) = [i \in 1..m |-> Event(from + i - 1)]
  BY DEF Replay
<1> HIDE DEF from, m
<1>5. \A i \in 1..m : Event(from + i - 1) \in Frame
  BY <1>3, FramesOf
<1> DEFINE g == [i \in 1..m |-> Event(from + i - 1)]
<1>6. g \in Seq(Frame) /\ Len(g) = m /\ \A i \in 1..m : g[i] = Event(from + i - 1)
  BY <1>3, <1>5
<1> QED  BY <1>2, <1>4, <1>6 DEF m

\* Publishing keeps the types: the queue takes an event only where it has room.
LEMMA PublishTypes == ASSUME IInv, Publish PROVE TypeOK'
<1>1. TypeOK /\ EventHubAssumption
  BY EventHubAssumption DEF IInv
<1>2. seq \in Nat /\ seq + 1 <= MaxSeq /\ MaxSeq \in Nat
  BY <1>1 DEF TypeOK, Publish, seq, EventHubAssumption
<1>3. PICK s \in Sessions :
         /\ published' = Append(published, s)
         /\ oldest' = IF seq + 2 - oldest > RingCapacity THEN oldest + 1 ELSE oldest
         /\ IF socket # "none" /\ ~lagged /\ s \in filter
            THEN Offer(seq + 1)
            ELSE UNCHANGED <<queue, lagged>>
  BY DEF Publish
<1>4. published' \in Seq(Sessions) /\ seq' = seq + 1
  BY <1>1, <1>3 DEF TypeOK, seq
<1>5. oldest' \in 1..(seq' + 1)
  BY <1>1, <1>2, <1>3, <1>4 DEF TypeOK, EventHubAssumption
<1>6. queue' \in Seq(0..MaxSeq) /\ Len(queue') <= QueueCapacity /\ lagged' \in BOOLEAN
  <2>1. CASE UNCHANGED <<queue, lagged>>
    BY <1>1, <2>1 DEF TypeOK
  <2>2. CASE Offer(seq + 1)
    <3>1. 0 \in 0..MaxSeq /\ seq + 1 \in 0..MaxSeq /\ queue \in Seq(0..MaxSeq)
      BY <1>1, <1>2 DEF TypeOK
    <3>2. CASE Len(queue) < QueueCapacity
      <4>1. queue' = Append(queue, seq + 1) /\ lagged' = lagged
        BY <2>2, <3>2 DEF Offer
      <4>2. queue' \in Seq(0..MaxSeq) /\ Len(queue') = Len(queue) + 1
        BY <3>1, <4>1, AppendIs
      <4> QED  BY <1>1, <3>1, <3>2, <4>1, <4>2 DEF TypeOK, EventHubAssumption
    <3>3. CASE ~(Len(queue) < QueueCapacity)
      <4>1. queue' = <<Resync>> /\ lagged' = TRUE
        BY <2>2, <3>3 DEF Offer
      <4>2. <<Resync>> \in Seq(0..MaxSeq) /\ Len(<<Resync>>) = 1
        BY <3>1 DEF Resync
      <4> QED  BY <1>1, <4>1, <4>2 DEF EventHubAssumption
    <3> QED  BY <3>2, <3>3
  <2> QED  BY <1>3, <2>1, <2>2
<1> QED
  BY <1>1, <1>2, <1>4, <1>5, <1>6
  DEF TypeOK, Publish, clientVars, seq

LEMMA HelloTypes == ASSUME IInv, Hello PROVE TypeOK'
<1>1. TypeOK /\ Epochs /\ EventHubAssumption
  BY EventHubAssumption DEF IInv
<1>2. PICK first \in oldest..(seq + 1) :
         /\ oldest' = first
         /\ outbox' = IF Resumes(first)
                      THEN <<Welcome(seq, TRUE)>> \o Replay(first)
                      ELSE <<Welcome(seq, FALSE)>>
  BY DEF Hello
<1>3. seq \in 0..MaxSeq /\ TRUE \in BOOLEAN /\ FALSE \in BOOLEAN
  BY <1>1 DEF TypeOK, seq, EventHubAssumption
<1>4. Welcome(seq, TRUE) \in Frame /\ Welcome(seq, FALSE) \in Frame
  BY <1>3, FramesOf
<1>5. outbox' \in Seq(Frame)
  <2>1. CASE Resumes(first)
    <3>1. cursor <= seq
      BY <2>1 DEF Resumes
    <3>2. Replay(first) \in Seq(Frame)
      BY <1>1, <3>1, ReplayIs
    <3>3. <<Welcome(seq, TRUE)>> \in Seq(Frame)
      BY <1>4, OneFrame
    <3> QED  BY <1>2, <2>1, <3>2, <3>3, ConcatProperties
  <2>2. CASE ~Resumes(first)
    BY <1>2, <1>4, <2>2, OneFrame
  <2> QED  BY <2>1, <2>2
<1>6. oldest' \in 1..(seq + 1)
  BY <1>1, <1>2, <1>3 DEF TypeOK
<1> QED
  BY <1>1, <1>3, <1>5, <1>6 DEF TypeOK, Hello, clientVars, seq

LEMMA SendTypes == ASSUME IInv, Send PROVE TypeOK'
<1>1. TypeOK /\ EventHubAssumption /\ Phases
  BY EventHubAssumption DEF IInv
<1>2. /\ wire \in Seq(Frame) /\ outbox \in Seq(Frame) /\ queue \in Seq(0..MaxSeq)
      /\ Len(wire) \in Nat /\ Len(queue) \in Nat
      /\ WireCapacity \in Nat /\ QueueCapacity \in Nat
  BY <1>1 DEF TypeOK, EventHubAssumption
<1>3. CASE SendReplay
  <2>1. outbox # <<>> /\ wire' = Append(wire, Head(outbox)) /\ outbox' = Tail(outbox)
    BY <1>1, <1>3 DEF SendReplay, Phases
  <2>2. Head(outbox) \in Frame /\ Tail(outbox) \in Seq(Frame)
    BY <1>2, <2>1, ElementIs
  <2>3. wire' \in Seq(Frame) /\ Len(wire') = Len(wire) + 1
    BY <1>2, <2>1, <2>2, AppendIs
  <2> QED  BY <1>1, <1>2, <1>3, <2>1, <2>2, <2>3
           DEF TypeOK, SendReplay, hubVars, clientVars, seq
<1>4. CASE SendEvent
  <2>1. Head(queue) \in 0..MaxSeq /\ queue' \in Seq(0..MaxSeq)
    BY <1>2, <1>4, ElementIs DEF SendEvent
  <2>2. Len(queue') <= QueueCapacity
    BY <1>1, <1>2, <1>4, ElementIs DEF SendEvent, TypeOK
  <2>3. Event(Head(queue)) \in Frame
    BY <2>1, FramesOf
  <2>4. wire' \in Seq(Frame) /\ Len(wire') <= WireCapacity
    <3>1. /\ Append(wire, Event(Head(queue))) \in Seq(Frame)
          /\ Len(Append(wire, Event(Head(queue)))) = Len(wire) + 1
      BY <1>2, <2>3, AppendIs
    <3>2. /\ Len(wire) < WireCapacity
          /\ wire' \in {wire, Append(wire, Event(Head(queue)))}
      BY <1>4 DEF SendEvent
    <3> QED  BY <1>2, <3>1, <3>2
  <2> QED  BY <1>1, <1>4, <2>1, <2>2, <2>4
           DEF TypeOK, SendEvent, hubVars, clientVars, seq
<1>5. CASE SendResync
  <2>1. ResyncRequired \in Frame
    BY <1>1 DEF EventHubAssumption, ResyncRequired, Frame
  <2>2. wire' \in Seq(Frame) /\ Len(wire') = Len(wire) + 1 /\ Len(wire) < WireCapacity
    BY <1>2, <1>5, <2>1, AppendIs DEF SendResync
  <2>3. FreshServerSide("none") /\ UNCHANGED <<hubVars, clientVars, connects, restarts>>
    BY <1>5 DEF SendResync
  <2>4. /\ socket' \in {"none", "prepared", "replaying", "live"}
        /\ filter' \subseteq Sessions
        /\ queue' \in Seq(0..MaxSeq) /\ Len(queue') <= QueueCapacity
        /\ lagged' \in BOOLEAN /\ boundary' \in 0..MaxSeq
        /\ outbox' \in Seq(Frame)
    BY <2>3, FreshTypes
  <2> QED  BY <1>1, <1>2, <2>2, <2>3, <2>4 DEF TypeOK, hubVars, clientVars, seq
<1> QED  BY <1>3, <1>4, <1>5 DEF Send

LEMMA ConnectTypes ==
    ASSUME IInv, Connect \/ Restart \/ Load \/ TakeSubscribe
    PROVE  TypeOK'
<1>1. TypeOK /\ EventHubAssumption /\ Epochs
  BY EventHubAssumption DEF IInv
<1>2. 0 \in 0..MaxSeq /\ seq \in 0..MaxSeq /\ <<>> \in Seq(Frame) /\ Len(<<>>) <= WireCapacity
  BY <1>1 DEF EventHubAssumption, TypeOK, seq
<1>3. CASE Connect
  <2>1. FreshServerSide("prepared")
    BY <1>3 DEF Connect
  <2>2. /\ socket' \in {"none", "prepared", "replaying", "live"}
        /\ filter' \subseteq Sessions
        /\ queue' \in Seq(0..MaxSeq) /\ Len(queue') <= QueueCapacity
        /\ lagged' \in BOOLEAN /\ boundary' \in 0..MaxSeq
        /\ outbox' \in Seq(Frame)
    BY <2>1, FreshTypes
  <2>3. connects' \in 0..MaxConnects
    BY <1>1, <1>3 DEF Connect, TypeOK, EventHubAssumption
  <2>4. /\ client' = "hello" /\ asked' = Sessions /\ wire' = <<>>
        /\ UNCHANGED <<hubVars, cursor, cursorEpoch, stale, loaded, received, kept,
                       restarts>>
    BY <1>3 DEF Connect
  <2> QED  BY <1>1, <1>2, <2>2, <2>3, <2>4 DEF TypeOK, hubVars, seq
<1>4. CASE Restart
  <2>1. FreshServerSide("none")
    BY <1>4 DEF Restart
  <2>2. /\ socket' \in {"none", "prepared", "replaying", "live"}
        /\ filter' \subseteq Sessions
        /\ queue' \in Seq(0..MaxSeq) /\ Len(queue') <= QueueCapacity
        /\ lagged' \in BOOLEAN /\ boundary' \in 0..MaxSeq
        /\ outbox' \in Seq(Frame)
    BY <2>1, FreshTypes
  <2>3. restarts' \in 0..MaxRestarts /\ epoch' \in 1..(MaxRestarts + 1)
    BY <1>1, <1>4 DEF Restart, TypeOK, EventHubAssumption, Epochs
  <2>4. /\ client' = "away" /\ asked' = Sessions /\ wire' = <<>>
        /\ published' = <<>> /\ oldest' = 1
        /\ UNCHANGED <<cursor, cursorEpoch, stale, loaded, received, kept, connects>>
    BY <1>4 DEF Restart
  <2>5. published' \in Seq(Sessions) /\ seq' = 0
    BY <2>4 DEF seq
  <2>6. seq' <= MaxSeq /\ oldest' \in 1..(seq' + 1)
    BY <1>1, <2>4, <2>5 DEF EventHubAssumption
  <2> QED  BY <1>1, <1>2, <2>2, <2>3, <2>4, <2>5, <2>6 DEF TypeOK
<1>5. CASE Load
  BY <1>1, <1>2, <1>5 DEF Load, TypeOK, hubVars, serverVars, seq
<1>6. CASE TakeSubscribe
  BY <1>1, <1>6 DEF TakeSubscribe, TypeOK, hubVars, clientVars, seq
<1> QED  BY <1>3, <1>4, <1>5, <1>6

LEMMA ReadTypes == ASSUME IInv, Read PROVE TypeOK'
<1>1. TypeOK /\ Ordered /\ EventHubAssumption
  BY EventHubAssumption DEF IInv
<1>2. wire # <<>> /\ wire' = Tail(wire)
  BY DEF Read, Join, Receive, ReceiveResync
<1>3. /\ Head(wire) \in Frame /\ wire' \in Seq(Frame) /\ Len(wire') = Len(wire) - 1
      /\ Len(wire) \in Nat \ {0} /\ Head(wire) = wire[1]
  BY <1>1, <1>2, ElementIs DEF TypeOK
<1>4. Len(wire') <= WireCapacity /\ Head(wire).seq \in 0..MaxSeq
  BY <1>1, <1>3 DEF TypeOK, EventHubAssumption, Frame
<1>5. Frames[1] = Head(wire) /\ 1 \in 1..Len(Frames)
  BY <1>1, <1>3, FramesAre DEF TypeOK
<1>6. 0 \in 0..MaxSeq /\ epoch \in 0..(MaxRestarts + 1)
  BY <1>1 DEF TypeOK, EventHubAssumption
<1>7. CASE Join
  BY <1>1, <1>3, <1>4, <1>6, <1>7 DEF TypeOK, Join, hubVars, serverVars, seq
<1>8. CASE Receive
  <2>1. Head(wire).seq \in 1..MaxSeq
    BY <1>1, <1>4, <1>5, <1>8 DEF Receive, Ordered
  <2>2. /\ received' \subseteq 1..MaxSeq /\ cursor' \in {NoCursor} \union 0..MaxSeq
    BY <1>1, <1>4, <1>8, <2>1 DEF Receive, TypeOK
  <2> QED  BY <1>1, <1>3, <1>4, <1>8, <2>2 DEF TypeOK, Receive, hubVars, serverVars, seq
<1>9. CASE ReceiveResync
  BY <1>1, <1>3, <1>4, <1>6, <1>9 DEF TypeOK, ReceiveResync, hubVars, serverVars, seq
<1> QED  BY <1>7, <1>8, <1>9 DEF Read

-----------------------------------------------------------------------------
(* Steps that leave the frames as they are, or end the connection.         *)

LEMMA SendReplayStep == ASSUME IInv, SendReplay PROVE IInv'
<1>1. /\ TypeOK /\ Epochs /\ Phases /\ Follows /\ Ordered /\ QueueOrdered
      /\ Complete /\ NoGap /\ TypeOK'
  BY SendTypes DEF IInv, Send
<1>2. outbox # <<>> /\ wire \in Seq(Frame) /\ outbox \in Seq(Frame)
  BY <1>1 DEF SendReplay, Phases, TypeOK
<1>3. Frames' = Frames
  <2>1. wire' = Append(wire, Head(outbox)) /\ outbox' = Tail(outbox)
    BY DEF SendReplay
  <2> QED  BY <1>2, <2>1, FramesSent DEF Frames
<1>4. /\ UNCHANGED <<epoch, published, oldest, filter, queue, lagged, boundary, client,
                     cursor, cursorEpoch, asked, stale, loaded, received, kept,
                     connects, restarts>>
      /\ socket = "replaying" /\ socket' \in {"live", "replaying"}
      /\ socket' = "replaying" <=> outbox' # <<>>
      /\ Streaming' /\ Streaming
  BY DEF SendReplay, hubVars, clientVars, Streaming
<1>5. /\ Base' = Base /\ seq' = seq /\ Ordered'
      /\ \A n \in Int : (Carried(n)' <=> Carried(n)) /\ (Queued(n)' <=> Queued(n))
  BY <1>3, <1>4, SameFrames
<1>6. Epochs'
  BY <1>1, <1>4, <1>5 DEF Epochs
<1>7. Phases'
  BY <1>1, <1>3, <1>4 DEF Phases
<1>8. Follows' /\ NoGap'
  BY <1>1, <1>4 DEF Follows, NoGap
<1>9. QueueOrdered'
  BY <1>1, <1>3, <1>4, <1>5 DEF QueueOrdered
<1>10. Complete'
  <2>1. \A n \in 1..seq : n \in Int
    OBVIOUS
  <2> QED  BY <1>1, <1>3, <1>4, <1>5, <2>1 DEF Complete
<1> QED  BY <1>1, <1>5, <1>6, <1>7, <1>8, <1>9, <1>10 DEF IInv

LEMMA TakeSubscribeStep == ASSUME IInv, TakeSubscribe PROVE IInv'
<1>1. /\ TypeOK /\ Epochs /\ Phases /\ Follows /\ Ordered /\ QueueOrdered
      /\ Complete /\ NoGap /\ TypeOK'
  BY ConnectTypes DEF IInv
<1>2. /\ UNCHANGED <<epoch, published, oldest, socket, queue, lagged, boundary, outbox,
                     wire, client, cursor, cursorEpoch, asked, stale, loaded, received,
                     kept, connects, restarts>>
      /\ filter' = asked /\ socket = "live"
  BY DEF TakeSubscribe, hubVars, clientVars
<1>3. Frames' = Frames /\ Streaming' = Streaming
  BY <1>2 DEF Frames, Streaming
<1>4. /\ Base' = Base /\ seq' = seq /\ Ordered'
      /\ \A n \in Int : (Carried(n)' <=> Carried(n)) /\ (Queued(n)' <=> Queued(n))
  BY <1>2, <1>3, SameFrames
<1>5. Epochs' /\ Phases' /\ Follows' /\ NoGap'
  BY <1>1, <1>2, <1>3, <1>4 DEF Epochs, Phases, Follows, NoGap
<1>6. QueueOrdered'
  BY <1>1, <1>2, <1>3, <1>4 DEF QueueOrdered
<1>7. Complete'
  <2>1. \A n \in 1..seq : n \in Int
    OBVIOUS
  <2> QED  BY <1>1, <1>2, <1>3, <1>4, <2>1 DEF Complete
<1> QED  BY <1>1, <1>4, <1>5, <1>6, <1>7 DEF IInv

LEMMA LoadStep == ASSUME IInv, Load PROVE IInv'
<1>1. /\ TypeOK /\ Epochs /\ Phases /\ Follows /\ Ordered /\ QueueOrdered
      /\ Complete /\ NoGap /\ TypeOK'
  BY ConnectTypes DEF IInv
<1>2. /\ UNCHANGED <<epoch, published, oldest, socket, filter, queue, lagged, boundary,
                     outbox, wire, client, cursor, cursorEpoch, asked, received,
                     connects, restarts>>
      /\ loaded' = seq /\ kept' = asked /\ client = "joined"
  BY DEF Load, hubVars, serverVars
<1>3. Frames' = Frames /\ Streaming' = Streaming
  BY <1>2 DEF Frames, Streaming
<1>4. /\ Base' = Base /\ seq' = seq /\ Ordered'
      /\ \A n \in Int : (Carried(n)' <=> Carried(n)) /\ (Queued(n)' <=> Queued(n))
  BY <1>2, <1>3, SameFrames
<1>5. Epochs' /\ Phases' /\ Follows'
  BY <1>1, <1>2, <1>3, <1>4 DEF Epochs, Phases, Follows
<1>6. QueueOrdered'
  BY <1>1, <1>2, <1>3, <1>4 DEF QueueOrdered
<1>7. Complete'
  <2>1. \A n \in 1..seq : n \in Int
    OBVIOUS
  <2> QED  BY <1>1, <1>2, <1>3, <1>4, <2>1 DEF Complete
<1>8. NoGap'
  <2>1. cursor <= seq /\ cursor \in Int /\ seq \in Nat
    BY <1>1, <1>2 DEF Epochs, TypeOK, NoCursor, seq
  <2>2. \A n \in 1..cursor : n <= seq
    BY <2>1
  <2> QED  BY <1>2, <2>2 DEF NoGap
<1> QED  BY <1>1, <1>4, <1>5, <1>6, <1>7, <1>8 DEF IInv

\* With no frame on its way and no event in the queue nothing is out of order.
LEMMA EmptyStream ==
    ASSUME wire' = <<>>, outbox' = <<>>, queue' = <<>>, lagged' = FALSE,
           socket' \in {"none", "prepared"}
    PROVE  Ordered' /\ QueueOrdered' /\ Complete' /\ Frames' = <<>> /\ ~Streaming'
<1>1. Frames' = <<>> /\ ~Streaming' /\ 1..Len(Frames') = {}
  BY DEF Frames, Streaming
<1>2. 1..Len(queue') = {}
  OBVIOUS
<1> QED  BY <1>1, <1>2 DEF Ordered, QueueOrdered, Complete

LEMMA ConnectStep == ASSUME IInv, Connect PROVE IInv'
<1>1. TypeOK /\ Epochs /\ Follows /\ NoGap /\ TypeOK'
  BY ConnectTypes DEF IInv
<1>2. /\ UNCHANGED <<epoch, published, oldest, cursor, cursorEpoch, stale, loaded,
                     received, kept, restarts>>
      /\ client' = "hello" /\ asked' = Sessions /\ wire' = <<>>
      /\ socket' = "prepared" /\ filter' = Sessions /\ queue' = <<>>
      /\ lagged' = FALSE /\ boundary' = 0 /\ outbox' = <<>>
  BY DEF Connect, FreshServerSide, hubVars
<1>3. Ordered' /\ QueueOrdered' /\ Complete' /\ Frames' = <<>>
  BY <1>2, EmptyStream
<1>4. Epochs'
  <2>1. 0 <= seq /\ seq' = seq
    BY <1>1, <1>2 DEF TypeOK, seq
  <2> QED  BY <1>1, <1>2, <2>1 DEF Epochs
<1>5. Phases'
  BY <1>2, <1>3 DEF Phases
<1>6. Follows'
  BY <1>1, <1>2 DEF Follows, TypeOK
<1>7. NoGap'
  BY <1>1, <1>2 DEF NoGap
<1> QED  BY <1>1, <1>3, <1>4, <1>5, <1>6, <1>7 DEF IInv

LEMMA RestartStep == ASSUME IInv, Restart PROVE IInv'
<1>1. TypeOK /\ Epochs /\ Follows /\ TypeOK'
  BY ConnectTypes DEF IInv
<1>2. /\ UNCHANGED <<cursor, cursorEpoch, stale, loaded, received, kept, connects>>
      /\ epoch' = epoch + 1 /\ restarts' = restarts + 1 /\ published' = <<>>
      /\ client' = "away" /\ asked' = Sessions /\ wire' = <<>>
      /\ socket' = "none" /\ filter' = Sessions /\ queue' = <<>>
      /\ lagged' = FALSE /\ boundary' = 0 /\ outbox' = <<>>
  BY DEF Restart, FreshServerSide
<1>3. Ordered' /\ QueueOrdered' /\ Complete' /\ Frames' = <<>>
  BY <1>2, EmptyStream
<1>4. seq' = 0 /\ epoch \in Int /\ cursorEpoch \in Int /\ restarts \in Int
  BY <1>1, <1>2 DEF TypeOK, seq
<1>5. cursorEpoch' < epoch'
  BY <1>1, <1>2, <1>4 DEF Epochs
<1>6. Epochs'
  BY <1>1, <1>2, <1>4, <1>5 DEF Epochs
<1>7. Phases'
  BY <1>2, <1>3 DEF Phases
<1>8. Follows'
  BY <1>1, <1>2 DEF Follows, TypeOK
<1>9. NoGap'
  BY <1>2, <1>4, <1>5 DEF NoGap
<1> QED  BY <1>1, <1>3, <1>6, <1>7, <1>8, <1>9 DEF IInv

-----------------------------------------------------------------------------
(* Publishing: an event the client asked for enters the queue, or the      *)
(* queue says that the client has to reload.                               *)

LEMMA PublishStep == ASSUME IInv, Publish PROVE IInv'
<1>1. /\ TypeOK /\ Epochs /\ Phases /\ Follows /\ Ordered /\ QueueOrdered
      /\ Complete /\ NoGap /\ TypeOK'
  BY PublishTypes DEF IInv
<1>2. PICK s \in Sessions :
         /\ published' = Append(published, s)
         /\ IF socket # "none" /\ ~lagged /\ s \in filter
            THEN Offer(seq + 1)
            ELSE UNCHANGED <<queue, lagged>>
  BY DEF Publish
<1>3. /\ UNCHANGED <<epoch, socket, filter, boundary, outbox, wire, client, cursor,
                     cursorEpoch, asked, stale, loaded, received, kept, connects, restarts>>
      /\ Frames' = Frames /\ Streaming' = Streaming
  BY DEF Publish, clientVars, Frames, Streaming
<1>4. Base' = Base
  BY <1>3 DEF Base
<1>5. /\ seq \in Nat /\ seq' = seq + 1 /\ published'[seq + 1] = s
      /\ \A n \in 1..seq : published'[n] = published[n]
  <2>1. published \in Seq(Sessions) /\ seq = Len(published) /\ seq' = Len(published')
    BY <1>1 DEF TypeOK, seq
  <2> QED  BY <1>2, <2>1, AppendIs
<1>6. /\ Base \in Int /\ Len(Frames) \in Nat /\ boundary \in Nat
      /\ cursor \in Int /\ Len(queue) \in Nat /\ queue \in Seq(0..MaxSeq)
      /\ \A i \in 1..Len(Frames) : Frames[i].seq \in 0..MaxSeq
      /\ Streaming => Base <= seq
  <2>1. /\ boundary \in Nat /\ cursor \in Int /\ Len(queue) \in Nat
        /\ queue \in Seq(0..MaxSeq)
    BY <1>1, EventHubAssumption DEF TypeOK, NoCursor, EventHubAssumption
  <2>2. /\ Base \in Int /\ Len(Frames) \in Nat
        /\ \A i \in 1..Len(Frames) : Frames[i].seq \in 0..MaxSeq
        /\ Streaming => Base <= seq
    BY Standing
  <2> QED  BY <2>1, <2>2
<1>7. \/ /\ queue' = Append(queue, seq + 1) /\ lagged' = lagged /\ ~lagged
         /\ socket # "none"
      \/ queue' = <<Resync>> /\ lagged' = TRUE /\ socket # "none"
      \/ /\ queue' = queue /\ lagged' = lagged
         /\ socket = "none" \/ lagged \/ s \notin filter
  BY <1>2 DEF Offer
<1>8. Epochs'
  BY <1>1, <1>3, <1>5, <1>6 DEF Epochs
<1>9. Phases'
  BY <1>1, <1>3, <1>7 DEF Phases
<1>10. Follows'
  BY <1>1, <1>3 DEF Follows
<1>11. Ordered'
  BY <1>1, <1>3, <1>4, <1>5, <1>6 DEF Ordered
<1>12. NoGap'
  BY <1>1, <1>3, <1>5, <1>6 DEF NoGap, Epochs
<1>13. CASE queue' = Append(queue, seq + 1) /\ lagged' = lagged /\ ~lagged
  <2>1. seq + 1 \in 0..MaxSeq
    BY <1>1, <1>5 DEF TypeOK
  <2>2. /\ Len(queue') = Len(queue) + 1 /\ queue'[Len(queue) + 1] = seq + 1
        /\ \A i \in 1..Len(queue) : queue'[i] = queue[i]
    BY <1>6, <1>13, <2>1, AppendIs
  <2>3. \A i \in 1..Len(queue) : queue[i] \in 1..seq
    BY <1>1, <1>13 DEF QueueOrdered
  <2>4. QueueOrdered'
    <3>1. ASSUME NEW i \in 1..Len(queue')
          PROVE  /\ queue'[i] \in 1..seq'
                 /\ \A j \in 1..(i - 1) : queue'[j] < queue'[i]
                 /\ Streaming /\ queue'[i] > boundary =>
                       /\ queue'[i] > Base
                       /\ \A j \in 1..Len(Frames) : Frames[j].type = "event" =>
                             Frames[j].seq < queue'[i]
      <4>1. CASE i \in 1..Len(queue)
        BY <1>1, <1>5, <1>6, <1>13, <2>2, <2>3, <4>1 DEF QueueOrdered
      <4>2. CASE i = Len(queue) + 1
        <5>1. queue'[i] = seq + 1
          BY <2>2, <4>2
        <5>2. \A j \in 1..(i - 1) : queue'[j] < queue'[i]
          BY <1>5, <1>6, <2>2, <2>3, <4>2, <5>1
        <5>3. \A j \in 1..Len(Frames) : Frames[j].seq < queue'[i]
          BY <1>1, <1>5, <1>6, <5>1 DEF Ordered
        <5> QED  BY <1>5, <1>6, <5>1, <5>2, <5>3
      <4> QED  BY <1>6, <2>2, <4>1, <4>2
    <3> QED  BY <1>3, <1>4, <1>13, <3>1 DEF QueueOrdered
  <2>5. Complete'
    <3>1. \A n \in Int : Carried(n)' <=> Carried(n)
      BY <1>3 DEF Carried
    <3>2. \A n \in Int : Queued(n) => Queued(n)'
      BY <1>3, <1>6, <2>2 DEF Queued
    <3>3. ASSUME NEW n \in Int, n = seq + 1
          PROVE  Queued(n)'
      <4>1. Len(queue) + 1 \in 1..Len(queue') /\ n > boundary'
        BY <1>1, <1>3, <1>5, <1>6, <2>2, <3>3 DEF Epochs
      <4> QED  BY <2>2, <3>3, <4>1 DEF Queued
    <3>4. ASSUME NEW i \in 1..Len(Frames), Frames[i].type = "event",
                 NEW n \in 1..seq', Base < n, n < Frames[i].seq, published'[n] \in asked
          PROVE  Carried(n)
      <4>1. n \in 1..seq
        BY <1>1, <1>5, <1>6, <3>4 DEF Ordered
      <4> QED  BY <1>1, <1>5, <3>4, <4>1 DEF Complete
    <3>5. ASSUME Streaming, NEW n \in 1..seq', Base < n, published'[n] \in asked
          PROVE  Carried(n) \/ Queued(n)'
      <4>1. CASE n = seq + 1
        BY <3>3, <4>1
      <4>2. CASE n \in 1..seq
        <5>1. Carried(n) \/ Queued(n)
          BY <1>1, <1>5, <1>13, <3>5, <4>2 DEF Complete
        <5> QED  BY <3>2, <5>1
      <4> QED  BY <1>5, <4>1, <4>2
    <3>6. \A n \in 1..seq' : n \in Int
      OBVIOUS
    <3> QED  BY <1>3, <1>4, <3>1, <3>4, <3>5, <3>6 DEF Complete
  <2> QED  BY <1>1, <1>8, <1>9, <1>10, <1>11, <1>12, <2>4, <2>5 DEF IInv
<1>14. ASSUME NEW i \in 1..Len(Frames), Frames[i].type = "event",
              NEW n \in 1..seq', Base < n, n < Frames[i].seq, published'[n] \in asked
       PROVE  Carried(n)'
  <2>1. n \in 1..seq
    BY <1>1, <1>5, <1>6, <1>14 DEF Ordered
  <2>2. Carried(n)
    BY <1>1, <1>5, <1>14, <2>1 DEF Complete
  <2> QED  BY <1>3, <2>2 DEF Carried
<1>15. CASE queue' = <<Resync>> /\ lagged' = TRUE
  <2>1. QueueOrdered'
    BY <1>3, <1>6, <1>15 DEF QueueOrdered, Resync
  <2>2. Complete'
    BY <1>3, <1>4, <1>14, <1>15 DEF Complete
  <2> QED  BY <1>1, <1>8, <1>9, <1>10, <1>11, <1>12, <2>1, <2>2 DEF IInv
<1>16. CASE /\ queue' = queue /\ lagged' = lagged
            /\ socket = "none" \/ lagged \/ s \notin filter
  <2>1. QueueOrdered'
    BY <1>1, <1>3, <1>4, <1>5, <1>16 DEF QueueOrdered
  <2>2. ASSUME Streaming, ~lagged, NEW n \in 1..seq', Base < n, published'[n] \in asked
        PROVE  Carried(n)' \/ Queued(n)'
    <3>1. s \notin asked
      <4>1. s \notin filter
        BY <1>16, <2>2 DEF Streaming
      <4> QED  BY <1>1, <4>1 DEF Follows
    <3>2. n \in 1..seq
      BY <1>5, <2>2, <3>1
    <3>3. Carried(n) \/ Queued(n)
      BY <1>1, <1>5, <2>2, <3>2 DEF Complete
    <3> QED  BY <1>3, <1>16, <3>3 DEF Carried, Queued
  <2>3. Complete'
    BY <1>3, <1>4, <1>14, <1>16, <2>2 DEF Complete
  <2> QED  BY <1>1, <1>8, <1>9, <1>10, <1>11, <1>12, <2>1, <2>3 DEF IInv
<1> QED  BY <1>7, <1>13, <1>15, <1>16

-----------------------------------------------------------------------------
(* The handshake: the replay starts right after the cursor, or the client  *)
(* is told to load.                                                        *)

LEMMA HelloFrames ==
    ASSUME IInv, Hello
    PROVE  \E resumed \in BOOLEAN :
              /\ resumed => cursor # NoCursor /\ cursorEpoch = epoch /\ cursor <= seq
              /\ Frames' \in Seq(Frame)
              /\ Len(Frames') = IF resumed THEN 1 + seq - cursor ELSE 1
              /\ Frames'[1] = Welcome(seq, resumed)
              /\ \A i \in 2..Len(Frames') : Frames'[i] = Event(cursor + i - 1)
              /\ Frames = <<>> /\ outbox' # <<>>
<1>1. TypeOK /\ Phases /\ EventHubAssumption
  BY EventHubAssumption DEF IInv
<1>2. /\ wire \in Seq(Frame) /\ outbox \in Seq(Frame) /\ Frames = <<>>
      /\ seq \in Nat /\ seq \in 0..MaxSeq /\ cursor \in Int
  BY <1>1 DEF TypeOK, Phases, Hello, NoCursor, seq, EventHubAssumption
<1>3. wire = <<>> /\ wire' = <<>>
  <2>1. Len(Frames) = Len(wire) + Len(outbox)
    BY <1>1, FramesAre
  <2>2. Len(wire) = 0
    BY <1>2, <2>1
  <2> QED  BY <1>2, <2>2 DEF Hello
<1>4. PICK first \in oldest..(seq + 1) :
         outbox' = IF Resumes(first)
                   THEN <<Welcome(seq, TRUE)>> \o Replay(first)
                   ELSE <<Welcome(seq, FALSE)>>
  BY DEF Hello
<1>5. TRUE \in BOOLEAN /\ FALSE \in BOOLEAN
  OBVIOUS
<1>6. CASE Resumes(first)
  <2>1. /\ cursor # NoCursor /\ cursorEpoch = epoch /\ cursor <= seq
        /\ cursor = seq \/ cursor >= first - 1
    BY <1>6 DEF Resumes, Covers
  <2> DEFINE from == IF first > cursor THEN first ELSE cursor + 1
             w == Welcome(seq, TRUE)
             r == Replay(first)
  <2>2. /\ r \in Seq(Frame) /\ Len(r) = seq + 1 - from
        /\ \A i \in 1..(seq + 1 - from) : r[i] = Event(from + i - 1)
    BY <1>1, <2>1, ReplayIs
  <2>3. w \in Frame
    BY <1>2, <1>5, FramesOf
  <2>4. first \in Int /\ first <= seq + 1
    BY <1>1, <1>2 DEF TypeOK
  <2>5. from = cursor + 1
    BY <1>2, <2>1, <2>4
  <2> HIDE DEF w, r, from
  <2>6. /\ <<w>> \in Seq(Frame) /\ Len(<<w>>) = 1 /\ <<w>>[1] = w
    BY <2>3, OneFrame
  <2>7. outbox' = <<w>> \o r
    BY <1>4, <1>6 DEF w, r
  <2>8. /\ <<w>> \o r \in Seq(Frame) /\ Len(<<w>> \o r) = 1 + Len(r)
        /\ (<<w>> \o r)[1] = w
        /\ \A i \in 1..Len(r) : (<<w>> \o r)[1 + i] = r[i]
    BY <2>2, <2>6, ConcatProperties
  <2>9. Frames' = <<w>> \o r
    <3>1. <<>> \o (<<w>> \o r) = <<w>> \o r
      BY <2>8
    <3> QED  BY <1>3, <2>7, <3>1 DEF Frames
  <2>10. Len(r) = seq - cursor /\ Len(r) \in Nat /\ seq + 1 - from = Len(r)
    <3>1. Len(r) = seq + 1 - from
      BY <2>2
    <3> QED  BY <1>2, <2>1, <2>5, <3>1
  <2>11. Len(Frames') = 1 + Len(r)
    BY <2>8, <2>9
  <2>12. \A i \in 2..Len(Frames') : Frames'[i] = Event(cursor + i - 1)
    <3>1. ASSUME NEW i \in 2..Len(Frames')
          PROVE  Frames'[i] = Event(cursor + i - 1)
      <4>1. i - 1 \in 1..Len(r) /\ i - 1 \in 1..(seq + 1 - from) /\ 1 + (i - 1) = i
        BY <2>10, <2>11, <3>1
      <4>2. Frames'[i] = r[i - 1] /\ r[i - 1] = Event(from + (i - 1) - 1)
        BY <2>2, <2>8, <2>9, <4>1
      <4>3. from + (i - 1) - 1 = cursor + i - 1
        BY <1>2, <2>5, <3>1, <4>1
      <4> QED  BY <4>2, <4>3
    <3> QED  BY <3>1
  <2>13. Len(Frames') = 1 + seq - cursor /\ Frames'[1] = w /\ Frames' \in Seq(Frame)
    <3>1. Len(Frames') = 1 + seq - cursor
      BY <1>2, <2>10, <2>11
    <3> QED  BY <2>8, <2>9, <3>1
  <2>14. outbox' # <<>>
    BY <2>2, <2>7, <2>8
  <2> QED  BY <1>2, <1>5, <2>1, <2>12, <2>13, <2>14 DEF w
<1>7. CASE ~Resumes(first)
  <2> DEFINE w == Welcome(seq, FALSE)
  <2>1. w \in Frame
    BY <1>2, <1>5, FramesOf
  <2> HIDE DEF w
  <2>2. /\ <<w>> \in Seq(Frame) /\ Len(<<w>>) = 1 /\ <<w>>[1] = w /\ <<w>> # <<>>
    BY <2>1, OneFrame
  <2>3. outbox' = <<w>>
    BY <1>4, <1>7 DEF w
  <2>4. Frames' = <<w>>
    <3>1. <<>> \o <<w>> = <<w>>
      BY <2>2
    <3> QED  BY <1>3, <2>3, <3>1 DEF Frames
  <2>5. /\ Frames' \in Seq(Frame) /\ Len(Frames') = 1 /\ Frames'[1] = w
        /\ outbox' # <<>> /\ 2..Len(Frames') = {}
    BY <2>2, <2>3, <2>4
  <2> QED  BY <1>2, <1>5, <2>5 DEF w
<1> QED  BY <1>6, <1>7

LEMMA HelloStep == ASSUME IInv, Hello PROVE IInv'
<1>1. /\ TypeOK /\ Epochs /\ Phases /\ Follows /\ QueueOrdered /\ NoGap /\ TypeOK'
  BY HelloTypes DEF IInv
<1>2. PICK resumed \in BOOLEAN :
         /\ resumed => cursor # NoCursor /\ cursorEpoch = epoch /\ cursor <= seq
         /\ Frames' \in Seq(Frame)
         /\ Len(Frames') = IF resumed THEN 1 + seq - cursor ELSE 1
         /\ Frames'[1] = Welcome(seq, resumed)
         /\ \A i \in 2..Len(Frames') : Frames'[i] = Event(cursor + i - 1)
         /\ Frames = <<>> /\ outbox' # <<>>
  BY HelloFrames
<1>3. /\ UNCHANGED <<epoch, published, filter, queue, lagged, wire, client, cursor,
                     cursorEpoch, asked, stale, loaded, received, kept, connects, restarts>>
      /\ client = "hello" /\ socket' = "replaying" /\ boundary' = seq
  BY DEF Hello, clientVars
<1>4. seq \in Nat /\ seq' = seq /\ cursor \in Int /\ cursor >= -1 /\ Len(Frames') \in Nat
      /\ Len(Frames') >= 1
  BY <1>1, <1>2, <1>3 DEF TypeOK, seq, NoCursor
<1>5. /\ Frames'[1].type = "welcome" /\ Frames'[1].seq = seq
      /\ Frames'[1].resumed = resumed
  BY <1>2 DEF Welcome
<1>6. \A i \in 2..Len(Frames') :
         /\ Frames'[i].type = "event" /\ Frames'[i].seq = cursor + i - 1
         /\ cursor + i - 1 \in 1..seq /\ resumed
  <2>1. ASSUME NEW i \in 2..Len(Frames')
        PROVE  /\ Frames'[i].type = "event" /\ Frames'[i].seq = cursor + i - 1
               /\ cursor + i - 1 \in 1..seq /\ resumed
    <3>1. resumed
      BY <1>2, <1>4, <2>1
    <3>2. Frames'[i] = Event(cursor + i - 1)
      BY <1>2, <2>1
    <3>3. cursor + i - 1 \in 1..seq
      BY <1>2, <1>4, <2>1, <3>1 DEF NoCursor
    <3> QED  BY <3>1, <3>2, <3>3 DEF Event
  <2> QED  BY <2>1
<1>7. \A i \in 1..Len(Frames') : i = 1 \/ i \in 2..Len(Frames')
  BY <1>4
<1>8. Frames' # <<>> /\ Base' = IF resumed THEN cursor ELSE seq
  BY <1>2, <1>3, <1>4, <1>5 DEF Base
<1>9. Epochs'
  BY <1>1, <1>3, <1>4 DEF Epochs
<1>10. Phases'
  BY <1>1, <1>2, <1>3, <1>5, <1>6, <1>7, <1>8 DEF Phases
<1>11. Follows' /\ NoGap'
  BY <1>1, <1>3 DEF Follows, NoGap
<1>12. Ordered'
  <2>1. ASSUME NEW i \in 1..Len(Frames')
        PROVE  Frames'[i].seq <= seq'
    BY <1>4, <1>5, <1>6, <1>7
  <2>2. ASSUME NEW i \in 1..Len(Frames'), Frames'[i].type = "event"
        PROVE  /\ Frames'[i].seq >= 1 /\ Frames'[i].seq > Base'
               /\ \A j \in 1..(i - 1) : Frames'[j].type = "event" =>
                     Frames'[j].seq < Frames'[i].seq
    <3>1. i \in 2..Len(Frames')
      BY <1>5, <1>7, <2>2
    <3>2. \A j \in 1..(i - 1) : j = 1 \/ j \in 2..Len(Frames')
      BY <1>4, <3>1
    <3>3. Frames'[i].seq = cursor + i - 1 /\ Frames'[i].seq >= 1 /\ Base' = cursor
      BY <1>6, <1>8, <3>1, <1>4
    <3>4. \A j \in 1..(i - 1) : Frames'[j].type = "event" => Frames'[j].seq = cursor + j - 1
      BY <1>5, <1>6, <3>2
    <3> QED  BY <1>4, <3>1, <3>3, <3>4
  <2> QED  BY <2>1, <2>2 DEF Ordered
<1>13. QueueOrdered'
  <2>1. ~lagged => \A i \in 1..Len(queue) : queue[i] \in 1..seq /\ ~(queue[i] > seq)
    BY <1>1, <1>4 DEF QueueOrdered
  <2>2. lagged => \A i \in 1..Len(queue) : ~(queue[i] > seq)
    <3>1. lagged => queue = <<0>>
      BY <1>1 DEF QueueOrdered, Resync
    <3>2. Len(<<0>>) = 1 /\ <<0>>[1] = 0
      OBVIOUS
    <3>3. lagged => Len(queue) = 1 /\ queue[1] = 0
      BY <3>1, <3>2
    <3>4. \A i \in 1..1 : i = 1
      OBVIOUS
    <3>5. ASSUME lagged, NEW i \in 1..Len(queue)
          PROVE  ~(queue[i] > seq)
      <4>1. i = 1 /\ queue[1] = 0
        BY <3>3, <3>4, <3>5
      <4> QED  BY <1>4, <4>1
    <3> QED  BY <3>5
  <2> QED  BY <1>1, <1>3, <1>4, <2>1, <2>2 DEF QueueOrdered
<1>14. Complete'
  <2>1. ASSUME NEW n \in 1..seq, Base' < n
        PROVE  Carried(n)'
    <3>1. resumed /\ Base' = cursor
      BY <1>4, <1>8, <2>1
    <3>2. n - cursor + 1 \in 2..Len(Frames') /\ n - cursor + 1 \in 1..Len(Frames')
      BY <1>2, <1>4, <2>1, <3>1
    <3>3. cursor + (n - cursor + 1) - 1 = n
      BY <1>4, <2>1
    <3>4. Frames'[n - cursor + 1].type = "event" /\ Frames'[n - cursor + 1].seq = n
      BY <1>6, <3>2, <3>3
    <3> QED  BY <3>2, <3>4 DEF Carried
  <2> QED  BY <1>3, <1>4, <2>1 DEF Complete
<1> QED  BY <1>1, <1>9, <1>10, <1>11, <1>12, <1>13, <1>14 DEF IInv

-----------------------------------------------------------------------------
(* The sender: the first of the queue joins the end of the frames.         *)

LEMMA AllSent ==
    ASSUME IInv, socket = "live"
    PROVE  Frames = wire /\ outbox = <<>> /\ wire \in Seq(Frame) /\ Len(wire) \in Nat
<1>1. outbox = <<>> /\ wire \in Seq(Frame)
  BY DEF IInv, Phases, TypeOK
<1> QED  BY <1>1 DEF Frames

LEMMA SendEventStep == ASSUME IInv, SendEvent PROVE IInv'
<1>1. /\ TypeOK /\ Epochs /\ Phases /\ Follows /\ Ordered /\ QueueOrdered
      /\ Complete /\ NoGap /\ TypeOK'
  BY SendTypes DEF IInv, Send
<1>2. /\ UNCHANGED <<epoch, published, oldest, socket, filter, lagged, boundary, outbox,
                     client, cursor, cursorEpoch, asked, stale, loaded, received, kept,
                     connects, restarts>>
      /\ socket = "live" /\ queue # <<>> /\ Head(queue) # Resync /\ queue' = Tail(queue)
      /\ wire' = IF AfterReplay(Head(queue)) THEN Append(wire, Event(Head(queue))) ELSE wire
  BY DEF SendEvent, hubVars, clientVars
<1>3. Frames = wire /\ outbox = <<>> /\ wire \in Seq(Frame) /\ Len(wire) \in Nat
  BY <1>2, AllSent
<1>4. Streaming /\ Streaming' /\ seq' = seq /\ seq \in Nat /\ boundary \in Nat
  BY <1>1, <1>2, EventHubAssumption DEF Streaming, seq, TypeOK, EventHubAssumption
<1>5. Frames' = wire' /\ wire' \in Seq(Frame)
  <2>1. wire' \in Seq(Frame) /\ outbox' = <<>>
    BY <1>1, <1>2, <1>3 DEF TypeOK
  <2> QED  BY <2>1 DEF Frames
<1> DEFINE h == Head(queue)
<1>6. /\ h \in 0..MaxSeq /\ Len(queue') = Len(queue) - 1 /\ h = queue[1]
      /\ Len(queue) \in Nat \ {0}
      /\ \A i \in 1..Len(queue') : queue'[i] = queue[i + 1]
  <2>1. queue \in Seq(0..MaxSeq)
    BY <1>1 DEF TypeOK
  <2> QED  BY <1>2, <2>1, ElementIs
<1>7. ~lagged
  <2>1. ASSUME lagged PROVE FALSE
    <3>1. queue = <<Resync>>
      BY <1>1, <2>1 DEF QueueOrdered
    <3> QED  BY <1>2, <1>6, <3>1
  <2> QED  BY <2>1
<1>8. /\ \A i \in 1..Len(queue) :
            /\ queue[i] \in 1..seq
            /\ \A j \in 1..(i - 1) : queue[j] < queue[i]
      /\ \A i \in 1..Len(queue) : queue[i] > boundary =>
            /\ queue[i] > Base
            /\ \A j \in 1..Len(Frames) : Frames[j].type = "event" => Frames[j].seq < queue[i]
  BY <1>1, <1>4, <1>7 DEF QueueOrdered
<1>9. /\ Base \in Int /\ Frames # <<>> <=> 1 \in 1..Len(Frames)
      /\ \A i \in 1..Len(Frames) : Frames[i].seq \in 0..MaxSeq
  BY Standing
<1>10. h \in 1..seq /\ \A i \in 2..Len(queue) : h < queue[i]
  <2>1. 1 \in 1..Len(queue) /\ \A i \in 2..Len(queue) : i \in 1..Len(queue) /\ 1 \in 1..(i - 1)
    BY <1>6
  <2> QED  BY <1>6, <1>8, <2>1
<1>11. ASSUME NEW i \in 1..Len(queue')
       PROVE  i + 1 \in 2..Len(queue) /\ i + 1 \in 1..Len(queue) /\ queue'[i] = queue[i + 1]
  BY <1>6
<1>12. Follows' /\ NoGap' /\ Epochs'
  BY <1>1, <1>2, <1>4 DEF Follows, NoGap, Epochs
<1>13. \A i \in 1..Len(queue') :
          /\ queue'[i] \in 1..seq
          /\ \A j \in 1..(i - 1) : queue'[j] < queue'[i]
  <2>1. ASSUME NEW i \in 1..Len(queue'), NEW j \in 1..(i - 1)
        PROVE  queue'[j] < queue'[i]
    <3>1. j \in 1..Len(queue') /\ j + 1 \in 1..((i + 1) - 1)
      BY <1>6, <2>1
    <3> QED  BY <1>8, <1>11, <2>1, <3>1
  <2> QED  BY <1>8, <1>11, <2>1
<1> HIDE DEF h
<1>14. CASE ~AfterReplay(h)
  <2>1. Frames' = Frames /\ h <= boundary
    BY <1>2, <1>3, <1>4, <1>5, <1>10, <1>14 DEF h, AfterReplay
  <2>2. Base' = Base
    BY <1>2, <2>1 DEF Base
  <2>3. Ordered' /\ Phases'
    BY <1>1, <1>2, <1>4, <2>1, <2>2 DEF Ordered, Phases
  <2>4. QueueOrdered'
    BY <1>2, <1>4, <1>7, <1>8, <1>11, <1>13, <2>1, <2>2 DEF QueueOrdered
  <2>5. \A n \in Int : Queued(n) => Queued(n)'
    <3>1. ASSUME NEW n \in Int, Queued(n)
          PROVE  Queued(n)'
      <4>1. PICK i \in 1..Len(queue) : queue[i] = n /\ n > boundary
        BY <3>1 DEF Queued
      <4>2. i # 1
        BY <1>4, <1>6, <1>10, <2>1, <4>1 DEF h
      <4>3. i - 1 \in 1..Len(queue') /\ queue'[i - 1] = queue[i]
        BY <1>6, <4>1, <4>2
      <4> QED  BY <1>2, <4>1, <4>3 DEF Queued
    <3> QED  BY <3>1
  <2>6. \A n \in Int : Carried(n)' <=> Carried(n)
    BY <2>1 DEF Carried
  <2>7. Complete'
    <3>1. \A n \in 1..seq : n \in Int
      OBVIOUS
    <3> QED  BY <1>1, <1>2, <1>4, <2>1, <2>2, <2>5, <2>6, <3>1 DEF Complete
  <2> QED  BY <1>1, <1>12, <2>3, <2>4, <2>7 DEF IInv
<1>15. CASE AfterReplay(h)
  <2>1. h > boundary /\ wire' = Append(wire, Event(h))
    BY <1>2, <1>15 DEF h, AfterReplay
  <2>2. Event(h) \in Frame
    BY <1>1, <1>6, FramesOf
  <2>3. /\ Len(Frames') = Len(Frames) + 1 /\ Len(Frames) \in Nat
        /\ Frames'[Len(Frames) + 1] = Event(h)
        /\ \A i \in 1..Len(Frames) : Frames'[i] = Frames[i]
    BY <1>3, <1>5, <2>1, <2>2, AppendIs
  <2>4. /\ Frames'[Len(Frames) + 1].type = "event" /\ Frames'[Len(Frames) + 1].seq = h
    BY <2>3 DEF Event
  <2>5. \A i \in 1..Len(Frames') : i \in 1..Len(Frames) \/ i = Len(Frames) + 1
    BY <2>3
  <2>6. Base' = Base
    <3>1. CASE Frames # <<>>
      <4>1. 1 \in 1..Len(Frames) /\ Frames'[1] = Frames[1] /\ Frames' # <<>>
        BY <1>5, <1>9, <2>3, <3>1
      <4> QED  BY <1>2, <3>1, <4>1 DEF Base
    <3>2. CASE Frames = <<>>
      <4>1. Frames'[1].type = "event"
        BY <2>4, <3>2
      <4> QED  BY <1>2, <3>2, <4>1 DEF Base
    <3> QED  BY <3>1, <3>2
  <2>7. Phases'
    <3>1. Frames # <<>> => Frames' # <<>> /\ Frames'[1] = Frames[1]
      BY <1>5, <1>9, <2>3
    <3>2. \A i \in 1..Len(Frames') :
             /\ Frames'[i].type = "welcome" => i = 1 /\ client = "hello"
             /\ Frames'[i].type # "resync_required"
      BY <1>1, <1>2, <2>3, <2>4, <2>5 DEF Phases
    <3> QED  BY <1>1, <1>2, <1>3, <3>1, <3>2 DEF Phases
  <2>8. 1 \in 1..Len(queue) /\ queue[1] > boundary /\ queue[1] = h
    BY <1>6, <2>1 DEF h
  <2>9. h > Base /\ \A j \in 1..Len(Frames) : Frames[j].type = "event" => Frames[j].seq < h
    BY <1>8, <2>8
  <2>10. Ordered'
    <3>1. \A i \in 1..Len(Frames') : Frames'[i].seq <= seq
      BY <1>1, <1>10, <2>3, <2>4, <2>5 DEF Ordered
    <3>2. ASSUME NEW i \in 1..Len(Frames'), Frames'[i].type = "event"
          PROVE  /\ Frames'[i].seq >= 1 /\ Frames'[i].seq > Base
                 /\ \A j \in 1..(i - 1) : Frames'[j].type = "event" =>
                       Frames'[j].seq < Frames'[i].seq
      <4>1. \A j \in 1..(i - 1) : j \in 1..Len(Frames) /\ Frames'[j] = Frames[j]
        BY <2>3, <3>2
      <4>2. CASE i \in 1..Len(Frames)
        BY <1>1, <2>3, <3>2, <4>1, <4>2 DEF Ordered
      <4>3. CASE i = Len(Frames) + 1
        BY <1>10, <2>4, <2>9, <4>1, <4>3
      <4> QED  BY <2>5, <4>2, <4>3
    <3> QED  BY <1>4, <2>6, <3>1, <3>2 DEF Ordered
  <2>11. QueueOrdered'
    <3>1. ASSUME NEW i \in 1..Len(queue'), queue'[i] > boundary
          PROVE  /\ queue'[i] > Base
                 /\ \A j \in 1..Len(Frames') : Frames'[j].type = "event" =>
                       Frames'[j].seq < queue'[i]
      <4>1. i + 1 \in 2..Len(queue) /\ i + 1 \in 1..Len(queue) /\ queue'[i] = queue[i + 1]
        BY <1>11
      <4>2. /\ queue[i + 1] > Base /\ h < queue[i + 1]
            /\ \A j \in 1..Len(Frames) : Frames[j].type = "event" =>
                  Frames[j].seq < queue[i + 1]
        BY <1>8, <1>10, <3>1, <4>1
      <4> QED  BY <2>3, <2>4, <2>5, <4>1, <4>2
    <3> QED  BY <1>2, <1>4, <1>7, <1>13, <2>6, <3>1 DEF QueueOrdered
  <2>12. \A n \in Int : Carried(n) => Carried(n)'
    <3>1. \A i \in 1..Len(Frames) : i \in 1..Len(Frames')
      BY <2>3
    <3> QED  BY <2>3, <3>1 DEF Carried
  <2>13. ASSUME NEW n \in Int, Queued(n)
         PROVE  Carried(n)' \/ Queued(n)'
    <3>1. PICK i \in 1..Len(queue) : queue[i] = n /\ n > boundary
      BY <2>13 DEF Queued
    <3>2. CASE i = 1
      <4>1. n = h /\ Len(Frames) + 1 \in 1..Len(Frames')
        BY <2>3, <2>8, <3>1, <3>2
      <4> QED  BY <2>4, <4>1 DEF Carried
    <3>3. CASE i # 1
      <4>1. i - 1 \in 1..Len(queue') /\ queue'[i - 1] = queue[i]
        BY <1>6, <3>1, <3>3
      <4> QED  BY <1>2, <3>1, <4>1 DEF Queued
    <3> QED  BY <3>2, <3>3
  <2>14. Complete'
    <3>1. ASSUME NEW n \in 1..seq, Base < n, published[n] \in asked
          PROVE  Carried(n)' \/ Queued(n)'
      <4>1. n \in Int /\ (Carried(n) \/ Queued(n))
        BY <1>1, <1>4, <1>7, <3>1 DEF Complete
      <4> QED  BY <2>12, <2>13, <4>1
    <3>2. ASSUME NEW i \in 1..Len(Frames'), Frames'[i].type = "event",
                 NEW n \in 1..seq, Base < n, n < Frames'[i].seq, published[n] \in asked
          PROVE  Carried(n)'
      <4>1. n \in Int
        OBVIOUS
      <4>2. CASE i \in 1..Len(Frames)
        <5>1. Carried(n)
          BY <1>1, <2>3, <3>2, <4>2 DEF Complete
        <5> QED  BY <2>12, <4>1, <5>1
      <4>3. CASE i = Len(Frames) + 1
        <5>1. n < h
          BY <2>4, <3>2, <4>3
        <5>2. ~Queued(n)
          <6>1. \A k \in 1..Len(queue) : queue[k] >= h
            <7>1. ASSUME NEW k \in 1..Len(queue)
                  PROVE  queue[k] >= h
              <8>1. k = 1 \/ k \in 2..Len(queue)
                BY <1>6, <7>1
              <8> QED  BY <1>4, <1>8, <1>10, <2>8, <8>1
            <7> QED  BY <7>1
          <6> QED  BY <1>10, <5>1, <6>1 DEF Queued
        <5>3. Carried(n)
          BY <1>1, <1>4, <1>7, <3>2, <5>2 DEF Complete
        <5> QED  BY <2>12, <4>1, <5>3
      <4> QED  BY <2>5, <4>2, <4>3
    <3> QED  BY <1>2, <1>4, <2>6, <3>1, <3>2 DEF Complete
  <2> QED  BY <1>1, <1>12, <2>7, <2>10, <2>11, <2>14 DEF IInv
<1> QED  BY <1>14, <1>15

LEMMA SendResyncStep == ASSUME IInv, SendResync PROVE IInv'
<1>1. /\ TypeOK /\ Epochs /\ Phases /\ Follows /\ Ordered /\ Complete /\ NoGap /\ TypeOK'
  BY SendTypes DEF IInv, Send
<1>2. /\ UNCHANGED <<epoch, published, oldest, client, cursor, cursorEpoch, asked, stale,
                     loaded, received, kept, connects, restarts>>
      /\ socket = "live" /\ socket' = "none" /\ filter' = Sessions /\ queue' = <<>>
      /\ lagged' = FALSE /\ boundary' = 0 /\ outbox' = <<>>
      /\ wire' = Append(wire, ResyncRequired)
  BY DEF SendResync, FreshServerSide, hubVars, clientVars
<1>3. Frames = wire /\ outbox = <<>> /\ wire \in Seq(Frame)
  BY <1>2, AllSent
<1>4. ~Streaming' /\ seq' = seq /\ seq \in Nat
  BY <1>1, <1>2 DEF Streaming, seq, TypeOK
<1>5. Frames' = wire' /\ wire' \in Seq(Frame)
  <2>1. wire' \in Seq(Frame) /\ outbox' = <<>>
    BY <1>1, <1>2 DEF TypeOK
  <2> QED  BY <2>1 DEF Frames
<1>6. ResyncRequired \in Frame
  BY EventHubAssumption DEF EventHubAssumption, ResyncRequired, Frame
<1>7. /\ Len(Frames') = Len(Frames) + 1 /\ Len(Frames) \in Nat
      /\ Frames'[Len(Frames) + 1] = ResyncRequired
      /\ \A i \in 1..Len(Frames) : Frames'[i] = Frames[i]
  BY <1>2, <1>3, <1>5, <1>6, AppendIs
<1>8. /\ Frames'[Len(Frames) + 1].type = "resync_required"
      /\ Frames'[Len(Frames) + 1].seq = 0
  BY <1>7 DEF ResyncRequired
<1>9. \A i \in 1..Len(Frames') : i \in 1..Len(Frames) \/ i = Len(Frames) + 1
  BY <1>7
<1>10. Frames # <<>> <=> 1 \in 1..Len(Frames)
  BY Standing
<1>11. Base' = Base
  <2>1. CASE Frames # <<>>
    <3>1. Frames'[1] = Frames[1] /\ Frames' # <<>>
      BY <1>5, <1>7, <1>10, <2>1
    <3> QED  BY <1>2, <2>1, <3>1 DEF Base
  <2>2. CASE Frames = <<>>
    <3>1. Frames'[1].type = "resync_required"
      BY <1>8, <2>2
    <3> QED  BY <1>2, <2>2, <3>1 DEF Base
  <2> QED  BY <2>1, <2>2
<1>12. Phases'
  <2>1. Frames # <<>> => Frames' # <<>> /\ Frames'[1] = Frames[1]
    BY <1>5, <1>7, <1>10
  <2>2. \A i \in 1..Len(Frames') :
           /\ Frames'[i].type = "welcome" => i = 1 /\ client = "hello"
           /\ Frames'[i].type = "resync_required" => i = Len(Frames')
    BY <1>1, <1>2, <1>7, <1>8, <1>9 DEF Phases
  <2> QED  BY <1>1, <1>2, <1>3, <2>1, <2>2 DEF Phases
<1>13. Ordered'
  <2>1. \A i \in 1..Len(Frames') : Frames'[i].seq <= seq
    BY <1>1, <1>4, <1>7, <1>8, <1>9 DEF Ordered
  <2>2. ASSUME NEW i \in 1..Len(Frames'), Frames'[i].type = "event"
        PROVE  /\ Frames'[i].seq >= 1 /\ Frames'[i].seq > Base
               /\ \A j \in 1..(i - 1) : Frames'[j].type = "event" =>
                     Frames'[j].seq < Frames'[i].seq
    <3>1. i \in 1..Len(Frames)
      BY <1>8, <1>9, <2>2
    <3>2. \A j \in 1..(i - 1) : j \in 1..Len(Frames)
      BY <1>7, <3>1
    <3> QED  BY <1>1, <1>7, <2>2, <3>1, <3>2 DEF Ordered
  <2> QED  BY <1>4, <1>11, <2>1, <2>2 DEF Ordered
<1>14. QueueOrdered'
  <2>1. 1..Len(queue') = {}
    BY <1>2
  <2> QED  BY <1>2, <1>4, <2>1 DEF QueueOrdered
<1>15. Complete'
  <2>1. ASSUME NEW i \in 1..Len(Frames'), Frames'[i].type = "event",
               NEW n \in 1..seq, Base < n, n < Frames'[i].seq, published[n] \in asked
        PROVE  Carried(n)'
    <3>1. i \in 1..Len(Frames)
      BY <1>8, <1>9, <2>1
    <3>2. Carried(n)
      BY <1>1, <1>7, <2>1, <3>1 DEF Complete
    <3>3. \A k \in 1..Len(Frames) : k \in 1..Len(Frames')
      BY <1>7
    <3> QED  BY <1>7, <3>2, <3>3 DEF Carried
  <2> QED  BY <1>2, <1>4, <1>11, <2>1 DEF Complete
<1>16. Epochs'
  BY <1>1, <1>2, <1>4 DEF Epochs
<1>17. Follows'
  BY <1>1, <1>2 DEF Follows, TypeOK
<1>18. NoGap'
  BY <1>1, <1>2 DEF NoGap
<1> QED  BY <1>1, <1>12, <1>13, <1>14, <1>15, <1>16, <1>17, <1>18 DEF IInv

-----------------------------------------------------------------------------
(* The client reads the first frame.                                       *)

LEMMA ReadFrames ==
    ASSUME IInv, wire # <<>>, wire' = Tail(wire), UNCHANGED outbox
    PROVE  /\ Frames \in Seq(Frame) /\ Len(Frames) \in Nat \ {0}
           /\ 1 \in 1..Len(Frames) /\ Frames # <<>> /\ Frames[1] = Head(wire)
           /\ Len(Frames') = Len(Frames) - 1 /\ Frames' = Tail(Frames)
           /\ \A i \in 1..Len(Frames') :
                 /\ i + 1 \in 1..Len(Frames) /\ i + 1 \in 2..Len(Frames)
                 /\ Frames'[i] = Frames[i + 1]
           /\ \A i \in 2..Len(Frames) :
                 i - 1 \in 1..Len(Frames') /\ Frames'[i - 1] = Frames[i]
<1>1. wire \in Seq(Frame) /\ outbox \in Seq(Frame)
  BY DEF IInv, TypeOK
<1> DEFINE f == Frames
           g == Frames'
<1>2. g = Tail(f) /\ f[1] = Head(wire) /\ f # <<>> /\ f \in Seq(Frame)
  BY <1>1, FramesRead, FramesAre DEF Frames, IInv
<1> HIDE DEF f, g
<1>3. Len(f) \in Nat \ {0} /\ Len(g) = Len(f) - 1
      /\ \A i \in 1..Len(g) : g[i] = f[i + 1]
  BY <1>2, ElementIs
<1>4. \A i \in 1..Len(g) : i + 1 \in 1..Len(f) /\ i + 1 \in 2..Len(f)
  BY <1>3
<1>5. \A i \in 2..Len(f) : i - 1 \in 1..Len(g) /\ g[i - 1] = f[i]
  BY <1>3
<1>6. 1 \in 1..Len(f)
  BY <1>3
<1> QED  BY <1>2, <1>3, <1>4, <1>5, <1>6 DEF f, g

\* What is left of the stream stays in order and complete, from the number the
\* first frame stood for on.
LEMMA RestOfFrames ==
    ASSUME IInv, wire # <<>>, wire' = Tail(wire),
           UNCHANGED <<hubVars, serverVars>>,
           client' = "joined", asked' \subseteq asked,
           Head(wire).type \in {"welcome", "event"},
           cursor' = IF Head(wire).type = "event" THEN Head(wire).seq ELSE Base
    PROVE  Ordered' /\ QueueOrdered' /\ Complete' /\ Base' = cursor'
           /\ cursor' <= seq'
<1>1. TypeOK /\ Epochs /\ Phases /\ Ordered /\ QueueOrdered /\ Complete
  BY DEF IInv
<1>2. UNCHANGED outbox /\ UNCHANGED <<published, socket, queue, lagged, boundary>>
      /\ seq' = seq /\ Streaming' = Streaming
  BY DEF hubVars, serverVars, seq, Streaming
<1>3. /\ Len(Frames) \in Nat \ {0} /\ 1 \in 1..Len(Frames) /\ Frames[1] = Head(wire)
      /\ Len(Frames') = Len(Frames) - 1 /\ Frames # <<>>
      /\ \A i \in 1..Len(Frames') :
            /\ i + 1 \in 1..Len(Frames) /\ i + 1 \in 2..Len(Frames)
            /\ Frames'[i] = Frames[i + 1]
      /\ \A i \in 2..Len(Frames) :
            i - 1 \in 1..Len(Frames') /\ Frames'[i - 1] = Frames[i]
  BY <1>2, ReadFrames
<1>4. /\ seq \in Nat /\ Base \in Int
      /\ \A i \in 1..Len(Frames) : Frames[i].seq \in 0..MaxSeq
  BY Standing
<1>5. \A i \in 1..Len(Frames') : Frames'[i].type # "welcome"
  <2>1. \A i \in 2..Len(Frames) : i \in 1..Len(Frames) /\ i # 1
    OBVIOUS
  <2> QED  BY <1>1, <1>3, <2>1 DEF Phases
<1>6. Base' = cursor'
  <2>1. CASE Frames' = <<>>
    BY <2>1 DEF Base
  <2>2. CASE Frames' # <<>>
    <3>1. Frames' \in Seq(Frame)
      BY <1>2, ReadFrames, TailIs
    <3>2. 1 \in 1..Len(Frames')
      BY <2>2, <3>1
    <3> QED  BY <1>5, <3>2 DEF Base
  <2> QED  BY <2>1, <2>2
<1>7. cursor' \in Int /\ Base <= cursor'
  BY <1>1, <1>3, <1>4 DEF Ordered
<1>8. cursor' <= seq
  <2>1. Head(wire).seq <= seq
    BY <1>1, <1>3 DEF Ordered
  <2>2. CASE Head(wire).type = "event"
    BY <2>1, <2>2
  <2>3. CASE Head(wire).type = "welcome"
    <3>1. client = "hello" /\ socket # "prepared"
      BY <1>1, <1>3, <2>3 DEF Phases
    <3>2. Frames[1].resumed => cursor <= seq
      BY <1>1, <3>1 DEF Phases, Epochs
    <3> QED  BY <1>3, <2>1, <2>3, <3>2 DEF Base
  <2> QED  BY <2>2, <2>3
<1>9. ASSUME NEW i \in 1..Len(Frames'), Frames'[i].type = "event"
      PROVE  Frames'[i].seq > cursor'
  <2>1. /\ i + 1 \in 1..Len(Frames) /\ Frames'[i] = Frames[i + 1]
        /\ 1 \in 1..((i + 1) - 1)
    BY <1>3, <1>9
  <2>2. Frames[i + 1].seq > Base /\ (Frames[1].type = "event" =>
           Frames[1].seq < Frames[i + 1].seq)
    BY <1>1, <1>9, <2>1 DEF Ordered
  <2> QED  BY <1>3, <1>4, <2>1, <2>2
<1>10. Ordered'
  <2>1. \A i \in 1..Len(Frames') : Frames'[i].seq <= seq
    BY <1>1, <1>3 DEF Ordered
  <2>2. ASSUME NEW i \in 1..Len(Frames'), Frames'[i].type = "event"
        PROVE  /\ Frames'[i].seq >= 1
               /\ \A j \in 1..(i - 1) : Frames'[j].type = "event" =>
                     Frames'[j].seq < Frames'[i].seq
    <3>1. Frames'[i].seq >= 1
      BY <1>1, <1>3, <2>2 DEF Ordered
    <3>2. ASSUME NEW j \in 1..(i - 1), Frames'[j].type = "event"
          PROVE  Frames'[j].seq < Frames'[i].seq
      <4>1. j \in 1..Len(Frames') /\ j + 1 \in 1..((i + 1) - 1)
        BY <1>3, <3>2
      <4> QED  BY <1>1, <1>3, <2>2, <3>2, <4>1 DEF Ordered
    <3> QED  BY <3>1, <3>2
  <2> QED  BY <1>2, <1>6, <1>9, <2>1, <2>2 DEF Ordered
<1>11. QueueOrdered'
  <2>1. ASSUME Streaming, NEW i \in 1..Len(queue), queue[i] > boundary
        PROVE  /\ queue[i] > cursor'
               /\ \A j \in 1..Len(Frames') : Frames'[j].type = "event" =>
                     Frames'[j].seq < queue[i]
    <3>1. /\ queue[i] > Base
          /\ \A j \in 1..Len(Frames) : Frames[j].type = "event" => Frames[j].seq < queue[i]
      BY <1>1, <2>1 DEF QueueOrdered
    <3> QED  BY <1>3, <3>1
  <2> QED  BY <1>1, <1>2, <1>6, <2>1 DEF QueueOrdered
<1>12. ASSUME NEW n \in Int, n > cursor', Carried(n)
       PROVE  Carried(n)'
  <2>1. PICK i \in 1..Len(Frames) : Frames[i].type = "event" /\ Frames[i].seq = n
    BY <1>12 DEF Carried
  <2>2. i # 1
    BY <1>3, <1>4, <1>12, <2>1
  <2>3. i \in 2..Len(Frames)
    BY <2>1, <2>2
  <2> QED  BY <1>3, <2>1, <2>3 DEF Carried
<1>13. Complete'
  <2>1. ASSUME NEW i \in 1..Len(Frames'), Frames'[i].type = "event",
               NEW n \in 1..seq, cursor' < n, n < Frames'[i].seq, published[n] \in asked
        PROVE  Carried(n)'
    <3>1. Base < n /\ n \in Int
      BY <1>4, <1>7, <2>1
    <3>2. Carried(n)
      BY <1>1, <1>3, <2>1, <3>1 DEF Complete
    <3> QED  BY <1>7, <1>12, <2>1, <3>1, <3>2
  <2>2. ASSUME Streaming, ~lagged, NEW n \in 1..seq, cursor' < n, published[n] \in asked
        PROVE  Carried(n)' \/ Queued(n)'
    <3>1. Base < n /\ n \in Int
      BY <1>4, <1>7, <2>2
    <3>2. Carried(n) \/ Queued(n)
      BY <1>1, <2>2, <3>1 DEF Complete
    <3>3. Queued(n) => Queued(n)'
      BY <1>2 DEF Queued
    <3> QED  BY <1>7, <1>12, <2>2, <3>1, <3>2, <3>3
  <2> QED  BY <1>2, <1>6, <2>1, <2>2 DEF Complete
<1> QED  BY <1>2, <1>6, <1>8, <1>10, <1>11, <1>13

LEMMA RestOfPhases ==
    ASSUME IInv, wire # <<>>, wire' = Tail(wire),
           UNCHANGED <<hubVars, serverVars>>, client' = "joined"
    PROVE  Phases'
<1>1. Phases
  BY DEF IInv
<1>2. UNCHANGED <<outbox, socket, queue>>
  BY DEF serverVars
<1>3. /\ Len(Frames) \in Nat \ {0} /\ Frames # <<>> /\ Len(Frames') = Len(Frames) - 1
      /\ \A i \in 1..Len(Frames') :
            /\ i + 1 \in 1..Len(Frames) /\ i + 1 \in 2..Len(Frames)
            /\ Frames'[i] = Frames[i + 1]
  BY <1>2, ReadFrames
<1>4. \A i \in 1..Len(Frames') : i + 1 # 1
  OBVIOUS
<1>5. ASSUME NEW i \in 1..Len(Frames')
      PROVE  /\ Frames'[i].type # "welcome"
             /\ Frames'[i].type = "resync_required" => i = Len(Frames') /\ socket = "none"
  <2>1. i + 1 \in 1..Len(Frames) /\ Frames'[i] = Frames[i + 1] /\ i + 1 # 1
    BY <1>3, <1>4
  <2>2. /\ Frames[i + 1].type # "welcome"
        /\ Frames[i + 1].type = "resync_required" => i + 1 = Len(Frames) /\ socket = "none"
    BY <1>1, <2>1 DEF Phases
  <2>3. i + 1 = Len(Frames) => i = Len(Frames')
    BY <1>3
  <2> QED  BY <2>1, <2>2, <2>3
<1> QED  BY <1>1, <1>2, <1>3, <1>5 DEF Phases

LEMMA JoinStep == ASSUME IInv, Join PROVE IInv'
<1>1. /\ TypeOK /\ Epochs /\ Phases /\ Follows /\ NoGap /\ TypeOK'
  BY ReadTypes DEF IInv, Read
<1>2. /\ UNCHANGED <<hubVars, serverVars, connects, restarts>>
      /\ wire # <<>> /\ wire' = Tail(wire) /\ Head(wire).type = "welcome"
      /\ client' = "joined" /\ asked' \subseteq Sessions
  BY DEF Join
<1>3. /\ UNCHANGED <<epoch, published, outbox, socket, filter, boundary, restarts>>
      /\ seq' = seq
  BY <1>2 DEF hubVars, serverVars, seq
<1>4. 1 \in 1..Len(Frames) /\ Frames[1] = Head(wire) /\ Frames # <<>>
  BY <1>2, <1>3, ReadFrames
<1>5. client = "hello" /\ asked = Sessions /\ filter = Sessions
  BY <1>1, <1>2, <1>4 DEF Phases, Follows
<1>6. Head(wire).resumed => cursorEpoch = epoch
  BY <1>1, <1>4, <1>5 DEF Phases
<1>7. cursor' = Base
  BY <1>2, <1>4 DEF Join, Base
<1>8. "welcome" # "event"
  OBVIOUS
<1>9. Ordered' /\ QueueOrdered' /\ Complete' /\ cursor' <= seq'
  BY <1>2, <1>5, <1>7, <1>8, RestOfFrames
<1>10. Phases'
  BY <1>2, RestOfPhases
<1>11. cursorEpoch' = epoch
  BY <1>6 DEF Join
<1>12. Epochs'
  BY <1>1, <1>3, <1>9, <1>11 DEF Epochs, TypeOK
<1>13. Follows'
  <2>1. kept' \subseteq asked'
    BY DEF Join
  <2> QED  BY <1>2, <1>3, <1>5, <2>1 DEF Follows
<1>14. NoGap'
  <2>1. CASE Head(wire).resumed
    <3>1. /\ UNCHANGED <<cursor, cursorEpoch, stale, loaded, received>>
          /\ kept' \subseteq kept
      BY <2>1 DEF Join
    <3> QED  BY <1>1, <1>3, <3>1 DEF NoGap
  <2>2. CASE ~Head(wire).resumed
    <3>1. stale' = TRUE
      BY <2>2 DEF Join
    <3> QED  BY <3>1 DEF NoGap
  <2> QED  BY <2>1, <2>2
<1> QED  BY <1>1, <1>9, <1>10, <1>12, <1>13, <1>14 DEF IInv

LEMMA ReceiveStep == ASSUME IInv, Receive PROVE IInv'
<1>1. /\ TypeOK /\ Epochs /\ Phases /\ Follows /\ Ordered /\ Complete /\ NoGap /\ TypeOK'
  BY ReadTypes DEF IInv, Read
<1>2. /\ UNCHANGED <<hubVars, serverVars, client, cursorEpoch, asked, stale, loaded, kept,
                     connects, restarts>>
      /\ wire # <<>> /\ wire' = Tail(wire) /\ Head(wire).type = "event"
      /\ received' = received \union {Head(wire).seq}
      /\ cursor' = IF Head(wire).seq > cursor THEN Head(wire).seq ELSE cursor
  BY DEF Receive
<1>3. /\ UNCHANGED <<epoch, published, outbox, socket, filter, boundary>> /\ seq' = seq
  BY <1>2 DEF hubVars, serverVars, seq
<1>4. /\ 1 \in 1..Len(Frames) /\ Frames[1] = Head(wire) /\ Frames # <<>>
      /\ Frames \in Seq(Frame) /\ Len(Frames) \in Nat
  BY <1>2, <1>3, ReadFrames
<1>5. client = "joined" /\ Base = cursor
  <2>1. client # "away"
    BY <1>1, <1>4 DEF Phases
  <2>2. client # "hello"
    BY <1>1, <1>2, <1>4 DEF Phases
  <2> QED  BY <1>1, <2>1, <2>2, Standing DEF TypeOK
<1>6. Head(wire).seq > cursor /\ cursor' = Head(wire).seq
  BY <1>1, <1>2, <1>4, <1>5 DEF Ordered
<1>7. asked' \subseteq asked /\ client' = "joined"
  BY <1>2, <1>5
<1>8. Ordered' /\ QueueOrdered' /\ Complete' /\ cursor' <= seq'
  BY <1>2, <1>6, <1>7, RestOfFrames
<1>9. Phases'
  BY <1>2, <1>7, RestOfPhases
<1>10. Epochs' /\ Follows'
  BY <1>1, <1>2, <1>3, <1>8 DEF Epochs, Follows
<1>11. NoGap'
  <2>1. seq \in Nat /\ cursor \in Int /\ Head(wire).seq \in Int
    <3>1. seq \in Nat /\ cursor \in Int
      BY <1>1 DEF TypeOK, NoCursor, seq
    <3>2. Head(wire).seq \in 0..MaxSeq
      BY <1>4, Standing
    <3> QED  BY <3>1, <3>2
  <2>2. ASSUME ~stale, cursorEpoch = epoch, NEW n \in 1..cursor', published[n] \in kept
        PROVE  n <= loaded \/ n \in received'
    <3>1. CASE n <= cursor
      BY <1>1, <1>2, <2>1, <2>2, <3>1 DEF NoGap
    <3>2. CASE n = Head(wire).seq
      BY <1>2, <3>2
    <3>3. CASE cursor < n /\ n < Head(wire).seq
      <4>1. n \in 1..seq /\ published[n] \in asked
        BY <1>1, <1>3, <1>6, <1>8, <2>1, <2>2, <3>3 DEF Follows
      <4>2. Carried(n)
        BY <1>1, <1>2, <1>4, <1>5, <3>3, <4>1 DEF Complete
      <4>3. PICK i \in 1..Len(Frames) : Frames[i].type = "event" /\ Frames[i].seq = n
        BY <4>2 DEF Carried
      <4>4. i # 1 /\ 1 \in 1..(i - 1)
        BY <1>4, <2>1, <3>3, <4>3
      <4>5. Frames[1].seq < n
        BY <1>1, <1>2, <1>4, <4>3, <4>4 DEF Ordered
      <4> QED  BY <1>4, <2>1, <3>3, <4>5
    <3> QED  BY <1>6, <2>1, <2>2, <3>1, <3>2, <3>3
  <2> QED  BY <1>2, <1>3, <2>2 DEF NoGap
<1> QED  BY <1>1, <1>8, <1>9, <1>10, <1>11 DEF IInv

LEMMA ReceiveResyncStep == ASSUME IInv, ReceiveResync PROVE IInv'
<1>1. /\ TypeOK /\ Epochs /\ Phases /\ Follows /\ QueueOrdered /\ TypeOK'
  BY ReadTypes DEF IInv, Read
<1>2. /\ UNCHANGED <<hubVars, serverVars, cursorEpoch, connects, restarts>>
      /\ wire # <<>> /\ wire' = Tail(wire) /\ Head(wire).type = "resync_required"
      /\ client' = "away" /\ asked' = Sessions /\ cursor' = NoCursor /\ stale' = TRUE
      /\ kept' = {}
  BY DEF ReceiveResync
<1>3. /\ UNCHANGED <<epoch, published, outbox, socket, queue, lagged, filter, boundary>>
      /\ seq' = seq
  BY <1>2 DEF hubVars, serverVars, seq
<1>4. /\ 1 \in 1..Len(Frames) /\ Frames[1] = Head(wire) /\ Frames \in Seq(Frame)
      /\ Len(Frames') = Len(Frames) - 1 /\ Frames' = Tail(Frames) /\ Frames # <<>>
  BY <1>2, <1>3, ReadFrames
<1>5. socket = "none" /\ Len(Frames) = 1
  BY <1>1, <1>2, <1>4 DEF Phases
<1>6. Frames' = <<>>
  BY <1>4, <1>5, TailIs
<1>7. queue = <<>> /\ ~lagged /\ outbox = <<>>
  <2>1. queue = <<>> /\ outbox = <<>>
    BY <1>1, <1>5 DEF Phases
  <2>2. <<>> # <<Resync>>
    OBVIOUS
  <2> QED  BY <1>1, <2>1, <2>2 DEF QueueOrdered
<1>8. wire' = <<>>
  <2>1. wire \in Seq(Frame) /\ Len(Frames) = Len(wire) + Len(outbox)
    BY <1>1, FramesAre DEF TypeOK
  <2>2. Len(wire) = 1
    BY <1>5, <1>7, <2>1
  <2> QED  BY <1>2, <2>1, <2>2
<1>9. lagged' = FALSE /\ queue' = <<>> /\ outbox' = <<>> /\ socket' \in {"none", "prepared"}
  BY <1>1, <1>3, <1>5, <1>7 DEF TypeOK
<1>10. Ordered' /\ QueueOrdered' /\ Complete'
  BY <1>8, <1>9, EmptyStream
<1>11. Phases'
  BY <1>1, <1>2, <1>3, <1>5, <1>6, <1>7 DEF Phases
<1>12. Epochs'
  <2>1. NoCursor <= seq
    BY <1>1 DEF TypeOK, seq, NoCursor
  <2> QED  BY <1>1, <1>2, <1>3, <2>1 DEF Epochs
<1>13. Follows'
  <2>1. filter' = Sessions
    BY <1>1, <1>3, <1>5 DEF Follows
  <2> QED  BY <1>2, <2>1 DEF Follows
<1>14. NoGap'
  BY <1>2 DEF NoGap
<1> QED  BY <1>1, <1>10, <1>11, <1>12, <1>13, <1>14 DEF IInv

-----------------------------------------------------------------------------
(* The theorems.                                                           *)

LEMMA InitHolds == Init => IInv
<1> SUFFICES ASSUME Init PROVE IInv
  OBVIOUS
<1>1. EventHubAssumption
  BY EventHubAssumption
<1>2. seq = 0 /\ Frames = <<>> /\ ~Streaming /\ ~lagged
  BY DEF Init, seq, Frames, Streaming
<1>3. 1..Len(Frames) = {} /\ 1..Len(queue) = {}
  BY <1>2 DEF Init
<1>4. TypeOK
  <2>1. <<>> \in Seq(Sessions) /\ <<>> \in Seq(Frame) /\ <<>> \in Seq(0..MaxSeq)
        /\ Len(<<>>) = 0
    OBVIOUS
  <2>2. /\ 0 \in 0..MaxSeq /\ 0 <= QueueCapacity /\ 0 <= WireCapacity /\ 0 <= MaxSeq
        /\ 1 \in 1..(MaxRestarts + 1) /\ 0 \in 0..(MaxRestarts + 1) /\ 1 \in 1..(0 + 1)
        /\ 0 \in 0..MaxConnects /\ 0 \in 0..MaxRestarts
    BY <1>1 DEF EventHubAssumption
  <2>3. /\ published \in Seq(Sessions) /\ seq <= MaxSeq /\ oldest \in 1..(seq + 1)
        /\ queue \in Seq(0..MaxSeq) /\ Len(queue) <= QueueCapacity
        /\ wire \in Seq(Frame) /\ Len(wire) <= WireCapacity /\ outbox \in Seq(Frame)
    BY <1>2, <2>1, <2>2 DEF Init
  <2> QED  BY <2>2, <2>3 DEF Init, TypeOK
<1>5. Epochs /\ Phases /\ Follows
  BY <1>2, <1>3 DEF Init, Epochs, Phases, Follows, NoCursor
<1>6. Ordered /\ QueueOrdered /\ Complete
  BY <1>2, <1>3 DEF Ordered, QueueOrdered, Complete
<1>7. NoGap
  BY DEF Init, NoGap
<1> QED  BY <1>4, <1>5, <1>6, <1>7 DEF IInv

LEMMA NextHolds == IInv /\ [Next]_vars => IInv'
<1> SUFFICES ASSUME IInv, [Next]_vars PROVE IInv'
  OBVIOUS
<1>1. CASE Publish
  BY <1>1, PublishStep
<1>2. CASE Hello
  BY <1>2, HelloStep
<1>3. CASE Send
  BY <1>3, SendReplayStep, SendEventStep, SendResyncStep DEF Send
<1>4. CASE TakeSubscribe
  BY <1>4, TakeSubscribeStep
<1>5. CASE Connect
  BY <1>5, ConnectStep
<1>6. CASE Read
  BY <1>6, JoinStep, ReceiveStep, ReceiveResyncStep DEF Read
<1>7. CASE Load
  BY <1>7, LoadStep
<1>8. CASE Restart
  BY <1>8, RestartStep
<1>9. CASE UNCHANGED vars
  <2>1. /\ UNCHANGED <<epoch, published, oldest, socket, filter, queue, lagged, boundary,
                       outbox, wire, client, cursor, cursorEpoch, asked, stale, loaded,
                       received, kept, connects, restarts>>
    BY <1>9 DEF vars, hubVars, serverVars, clientVars
  <2>2. Frames' = Frames /\ Streaming' = Streaming /\ seq' = seq
    BY <2>1 DEF Frames, Streaming, seq
  <2>3. Base' = Base /\ \A n \in Int : (Carried(n)' <=> Carried(n)) /\ (Queued(n)' <=> Queued(n))
    BY <2>1, <2>2 DEF Base, Carried, Queued
  <2>4. TypeOK' /\ Epochs' /\ Phases' /\ Follows' /\ NoGap'
    BY <2>1, <2>2 DEF IInv, TypeOK, Epochs, Phases, Follows, NoGap, seq
  <2>5. Ordered' /\ QueueOrdered'
    BY <2>1, <2>2, <2>3 DEF IInv, Ordered, QueueOrdered
  <2>6. Complete'
    <3>1. \A n \in 1..seq : n \in Int
      OBVIOUS
    <3> QED  BY <2>1, <2>2, <2>3, <3>1 DEF IInv, Complete
  <2> QED  BY <2>4, <2>5, <2>6 DEF IInv
<1> QED  BY <1>1, <1>2, <1>3, <1>4, <1>5, <1>6, <1>7, <1>8, <1>9 DEF Next

LEMMA Invariant == Spec => []IInv
BY InitHolds, NextHolds, PTL DEF Spec

\* Every variable of the stream has its type, and neither the queue of a
\* subscription nor the socket takes more than its limit (Subscription.offer).
THEOREM StreamTypes == Spec => []TypeOK
<1>1. IInv => TypeOK
  BY DEF IInv
<1> QED  BY <1>1, Invariant, PTL

\* A client that was not told to reload misses no event of the sessions it
\* follows up to its resume cursor, for any capacity of the ring, the queue and
\* the socket and whatever order events, handshakes, subscriptions, broken
\* connections and restarts come in (EventHub.replay, Subscription.offer,
\* ApiServer.stream).
THEOREM StreamHasNoGap == Spec => []NoGap
<1>1. IInv => NoGap
  BY DEF IInv
<1> QED  BY <1>1, Invariant, PTL

\* What is on its way to the client carries ever larger numbers, above its
\* cursor: replay and live events neither overlap nor overtake (_handshake,
\* _send_events).
THEOREM StreamOrdered == Spec => []StreamInOrder
<1>1. ASSUME IInv PROVE StreamInOrder
  <2>1. TypeOK /\ Ordered
    BY <1>1 DEF IInv
  <2>2. /\ Len(Frames) = Len(wire) + Len(outbox) /\ wire \in Seq(Frame)
        /\ Len(wire) \in Nat /\ Len(outbox) \in Nat
        /\ \A i \in 1..Len(wire) : Frames[i] = wire[i] /\ i \in 1..Len(Frames)
    BY <2>1, FramesAre DEF TypeOK
  <2>3. ASSUME NEW i \in 1..Len(wire), wire[i].type = "event"
        PROVE  /\ wire[i].seq > NextCursor
               /\ \A j \in 1..(i - 1) : wire[j].type = "event" => wire[j].seq < wire[i].seq
    <3>1. wire # <<>> /\ Head(wire) = wire[1] /\ 1 \in 1..Len(wire)
      BY <2>2, <2>3
    <3>2. Frames # <<>>
      BY <1>1, <2>2, <3>1, Standing
    <3>3. NextCursor = Base
      BY <2>2, <3>1, <3>2 DEF NextCursor, Base
    <3>4. \A j \in 1..(i - 1) : j \in 1..Len(wire)
      BY <2>2
    <3> QED  BY <2>1, <2>2, <2>3, <3>3, <3>4 DEF Ordered
  <2> QED  BY <2>3 DEF StreamInOrder
<1> QED  BY <1>1, Invariant, PTL
=============================================================================
