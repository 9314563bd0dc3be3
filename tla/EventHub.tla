------------------------------ MODULE EventHub ------------------------------
(***************************************************************************)
(* The event stream of the session protocol: the hub numbers events and    *)
(* keeps a bounded ring of them, a connection gets what its client missed  *)
(* from the ring and what follows from a bounded queue, and the client     *)
(* resumes from the last number it received.  Any part may fall short: the *)
(* ring forgets, the queue overflows, frames in flight are lost with their *)
(* connection, the server restarts with a new epoch.                       *)
(*                                                                         *)
(* One client and the connection it uses last; connections share nothing   *)
(* but the ring.  Client steps follow docs/protocol/client-guide.md.       *)
(***************************************************************************)
EXTENDS Integers, Sequences

CONSTANTS
    Sessions,
    RingCapacity,   \* EventHub.capacity
    QueueCapacity,  \* EventHub.queue_capacity
    WireCapacity,   \* frames a socket holds before the sender waits
    MaxSeq,         \* bound: events of one epoch
    MaxConnects,    \* bound: connections opened
    MaxRestarts     \* bound: ends of the server process

ASSUME EventHubAssumption ==
    /\ RingCapacity \in Nat
    /\ QueueCapacity \in Nat \ {0}
    /\ WireCapacity \in Nat \ {0}
    /\ MaxSeq \in Nat
    /\ MaxConnects \in Nat
    /\ MaxRestarts \in Nat

VARIABLES
    epoch,        \* EventHub.epoch
    published,    \* the session of each event of this epoch; EventHub.seq is its length
    oldest,       \* number of the first event still in the ring
    socket,       \* "none", "prepared", "replaying" or "live" on the server side
    filter,       \* Subscription.session_ids
    queue,        \* Subscription.queue
    lagged,       \* Subscription.lagged
    boundary,     \* EventHub.seq when the handshake read the replay, 0 before
    outbox,       \* frames the handshake has still to send
    wire,         \* frames sent and not received
    client,       \* "away", "hello" or "joined"
    cursor,       \* the client's resume cursor, its epoch
    cursorEpoch,
    asked,        \* the client's last subscribe frame
    stale,        \* the client has to load snapshots and history
    loaded,       \* number of the last event its load includes
    received,     \* events received since the last failed resume
    kept,         \* sessions it has followed without a break since its load
    connects, restarts

hubVars == <<epoch, published, oldest>>
serverVars == <<socket, filter, queue, lagged, boundary, outbox>>
clientVars == <<client, cursor, cursorEpoch, asked, stale, loaded, received, kept>>
vars == <<hubVars, serverVars, wire, clientVars, connects, restarts>>

seq == Len(published)
NoCursor == -1
Resync == 0  \* the sentinel of an overflowed queue; events count from 1

Event(n) == [type |-> "event", seq |-> n, resumed |-> FALSE]
Welcome(n, resumed) == [type |-> "welcome", seq |-> n, resumed |-> resumed]
ResyncRequired == [type |-> "resync_required", seq |-> 0, resumed |-> FALSE]
Frame == [type : {"event", "welcome", "resync_required"}, seq : 0..MaxSeq,
          resumed : BOOLEAN]

\* The server side of a new, or of no, connection.
FreshServerSide(state) ==
    /\ socket' = state
    /\ filter' = Sessions
    /\ queue' = <<>>
    /\ lagged' = FALSE
    /\ boundary' = 0
    /\ outbox' = <<>>
-----------------------------------------------------------------------------
\* Mutant: the queue takes one event too many.
OfferOneMore(n) ==
    IF Len(queue) <= QueueCapacity
    THEN queue' = Append(queue, n) /\ lagged' = lagged
    ELSE queue' = <<Resync>> /\ lagged' = TRUE

\* Mutant: nothing wakes the sender of a queue that overflowed.
OfferNoSentinel(n) ==
    IF Len(queue) < QueueCapacity
    THEN queue' = Append(queue, n) /\ lagged' = lagged
    ELSE queue' = <<>> /\ lagged' = TRUE

\* Subscription.offer, past its first return.
Offer(n) ==
    IF Len(queue) < QueueCapacity
    THEN queue' = Append(queue, n) /\ lagged' = lagged
    ELSE queue' = <<Resync>> /\ lagged' = TRUE

\* EventHub.publish.  _prune keeps the ring to its capacity; what it also drops by
\* age here it would drop before the next replay, see Hello.
Publish ==
    /\ seq < MaxSeq
    /\ \E s \in Sessions :
          /\ published' = Append(published, s)
          /\ oldest' = IF seq + 2 - oldest > RingCapacity THEN oldest + 1 ELSE oldest
          /\ IF socket # "none" /\ ~lagged /\ s \in filter
             THEN Offer(seq + 1)
             ELSE UNCHANGED <<queue, lagged>>
    /\ UNCHANGED <<epoch, socket, filter, boundary, outbox, wire, clientVars, connects,
                   restarts>>

\* Mutant: the ring is taken to hold the event before its first.
CoversOneMore(first) == cursor >= first - 2

\* The last test of EventHub.replay: nothing after the cursor has left the ring.
Covers(first) == cursor >= first - 1

\* EventHub.replay of the cursor in the hello frame, the ring starting at first.
Resumes(first) ==
    /\ cursor # NoCursor
    /\ cursorEpoch = epoch
    /\ cursor <= seq
    /\ cursor = seq \/ (first <= seq /\ Covers(first))

\* The events of the ring that come after the cursor.
Replay(first) ==
    LET from == IF first > cursor THEN first ELSE cursor + 1 IN
    [i \in 1..(seq + 1 - from) |-> Event(from + i - 1)]

\* The handshake once the hello frame is there: _prune drops what is too old, the
\* replay and the boundary are read with it, the frames are sent later.
Hello ==
    /\ socket = "prepared"
    /\ client = "hello"
    /\ \E first \in oldest..(seq + 1) :
          /\ oldest' = first
          /\ outbox' = IF Resumes(first)
                       THEN <<Welcome(seq, TRUE)>> \o Replay(first)
                       ELSE <<Welcome(seq, FALSE)>>
    /\ boundary' = seq
    /\ socket' = "replaying"
    /\ UNCHANGED <<epoch, published, filter, queue, lagged, wire, clientVars, connects,
                   restarts>>

\* One send of the handshake; after the last one the sender starts.
SendReplay ==
    /\ socket = "replaying"
    /\ Len(wire) < WireCapacity
    /\ wire' = Append(wire, Head(outbox))
    /\ outbox' = Tail(outbox)
    /\ socket' = IF Tail(outbox) = <<>> THEN "live" ELSE "replaying"
    /\ UNCHANGED <<hubVars, filter, queue, lagged, boundary, clientVars, connects, restarts>>

\* Mutant: the last event of the replay is sent again.
AfterReplayInclusive(n) == n >= boundary

\* What the handshake's replay, or the client's load, does not cover.
AfterReplay(n) == n > boundary

\* One round of _send_events.
SendEvent ==
    /\ socket = "live"
    /\ queue # <<>>
    /\ Head(queue) # Resync
    /\ Len(wire) < WireCapacity
    /\ queue' = Tail(queue)
    /\ wire' = IF AfterReplay(Head(queue)) THEN Append(wire, Event(Head(queue))) ELSE wire
    /\ UNCHANGED <<hubVars, socket, filter, lagged, boundary, outbox, clientVars, connects,
                   restarts>>

\* Subscription.get raises, the sender closes the socket with code 4009.
SendResync ==
    /\ socket = "live"
    /\ queue # <<>>
    /\ Head(queue) = Resync
    /\ Len(wire) < WireCapacity
    /\ wire' = Append(wire, ResyncRequired)
    /\ FreshServerSide("none")
    /\ UNCHANGED <<hubVars, clientVars, connects, restarts>>

\* _client_frame of a subscribe frame; frames are read once the handshake is over.
TakeSubscribe ==
    /\ socket = "live"
    /\ filter # asked
    /\ filter' = asked
    /\ UNCHANGED <<hubVars, socket, queue, lagged, boundary, outbox, wire, clientVars,
                   connects, restarts>>
-----------------------------------------------------------------------------
\* The client opens a connection, the first or in place of one that may be
\* broken; the server subscribes it before it reads the hello frame.
Connect ==
    /\ connects < MaxConnects
    /\ connects' = connects + 1
    /\ client' = "hello"
    /\ asked' = Sessions
    /\ FreshServerSide("prepared")
    /\ wire' = <<>>
    /\ UNCHANGED <<hubVars, cursor, cursorEpoch, stale, loaded, received, kept,
                   restarts>>

\* The client reads the welcome frame and answers with a subscribe frame.  When
\* it is not resumed its old cursor is void and it has to load.
Join ==
    /\ wire # <<>>
    /\ Head(wire).type = "welcome"
    /\ wire' = Tail(wire)
    /\ client' = "joined"
    /\ asked' \in SUBSET Sessions
    /\ IF Head(wire).resumed
       THEN /\ kept' = kept \intersect asked'
            /\ UNCHANGED <<cursor, cursorEpoch, stale, loaded, received>>
       ELSE /\ kept' = asked'
            /\ cursor' = Head(wire).seq
            /\ cursorEpoch' = epoch
            /\ stale' = TRUE
            /\ loaded' = 0
            /\ received' = {}
    /\ UNCHANGED <<hubVars, serverVars, connects, restarts>>

\* "Use the largest received durable sequence as the next resume cursor."
Receive ==
    /\ wire # <<>>
    /\ Head(wire).type = "event"
    /\ wire' = Tail(wire)
    /\ received' = received \union {Head(wire).seq}
    /\ cursor' = IF Head(wire).seq > cursor THEN Head(wire).seq ELSE cursor
    /\ UNCHANGED <<hubVars, serverVars, client, cursorEpoch, asked, stale, loaded, kept,
                   connects, restarts>>

\* Code 4009: "Discard its resume cursor and reload snapshots/history."
ReceiveResync ==
    /\ wire # <<>>
    /\ Head(wire).type = "resync_required"
    /\ wire' = Tail(wire)
    /\ client' = "away"
    /\ asked' = Sessions
    /\ cursor' = NoCursor
    /\ stale' = TRUE
    /\ loaded' = 0
    /\ received' = {}
    /\ kept' = {}
    /\ UNCHANGED <<hubVars, serverVars, cursorEpoch, connects, restarts>>

\* The client loads snapshots and history over HTTP, after its subscribe frame.
Load ==
    /\ client = "joined"
    /\ stale \/ kept # asked
    /\ stale' = FALSE
    /\ loaded' = seq
    /\ kept' = asked
    /\ UNCHANGED <<hubVars, serverVars, wire, client, cursor, cursorEpoch, asked, received,
                   connects, restarts>>

\* The server process ends and starts again; what it had sent may have arrived
\* before, or never does.
Restart ==
    /\ restarts < MaxRestarts
    /\ restarts' = restarts + 1
    /\ epoch' = epoch + 1
    /\ published' = <<>>
    /\ oldest' = 1
    /\ FreshServerSide("none")
    /\ wire' = <<>>
    /\ client' = "away"
    /\ asked' = Sessions
    /\ UNCHANGED <<cursor, cursorEpoch, stale, loaded, received, kept, connects>>

Init ==
    /\ epoch = 1
    /\ published = <<>>
    /\ oldest = 1
    /\ socket = "none"
    /\ filter = Sessions
    /\ queue = <<>>
    /\ lagged = FALSE
    /\ boundary = 0
    /\ outbox = <<>>
    /\ wire = <<>>
    /\ client = "away"
    /\ cursor = NoCursor
    /\ cursorEpoch = 0
    /\ asked = Sessions
    /\ stale = TRUE
    /\ loaded = 0
    /\ received = {}
    /\ kept = {}
    /\ connects = 0
    /\ restarts = 0

Send == SendReplay \/ SendEvent \/ SendResync
Read == Join \/ Receive \/ ReceiveResync

Next ==
    \/ Publish
    \/ Hello \/ Send \/ TakeSubscribe
    \/ Connect \/ Read \/ Load
    \/ Restart

\* Server tasks and both ends of a connection make progress; nobody has to
\* publish, connect, load or restart.
Spec == Init /\ [][Next]_vars /\ WF_vars(Hello) /\ WF_vars(Send) /\ WF_vars(Read)
-----------------------------------------------------------------------------
\* Every variable has its type; queue and wire keep their limits.
TypeOK ==
    /\ epoch \in 1..(MaxRestarts + 1)
    /\ published \in Seq(Sessions) /\ seq <= MaxSeq
    /\ oldest \in 1..(seq + 1)
    /\ socket \in {"none", "prepared", "replaying", "live"}
    /\ filter \subseteq Sessions
    /\ queue \in Seq(0..MaxSeq) /\ Len(queue) <= QueueCapacity
    /\ lagged \in BOOLEAN
    /\ boundary \in 0..MaxSeq
    /\ outbox \in Seq(Frame)
    /\ wire \in Seq(Frame) /\ Len(wire) <= WireCapacity
    /\ client \in {"away", "hello", "joined"}
    /\ cursor \in {NoCursor} \union 0..MaxSeq
    /\ cursorEpoch \in 0..(MaxRestarts + 1)
    /\ asked \subseteq Sessions
    /\ stale \in BOOLEAN
    /\ loaded \in 0..MaxSeq
    /\ received \subseteq 1..MaxSeq
    /\ kept \subseteq Sessions
    /\ connects \in 0..MaxConnects
    /\ restarts \in 0..MaxRestarts

\* A client that was not told to reload has every event of the sessions it
\* follows up to its cursor, from its load or from the stream, whatever was
\* pruned, dropped, lost or replayed on the way (EventHub.replay,
\* Subscription.offer, ApiServer.stream).
NoGap ==
    ~stale /\ cursorEpoch = epoch =>
        \A n \in 1..cursor : published[n] \in kept => n <= loaded \/ n \in received

\* The cursor once a welcome frame on its way is read.
NextCursor ==
    IF wire # <<>> /\ Head(wire).type = "welcome" /\ ~Head(wire).resumed
    THEN Head(wire).seq ELSE cursor

\* The frames on their way carry ever larger numbers, all above the client's
\* cursor: no event reaches it twice, none comes before an older one
\* (_handshake, _send_events).
StreamInOrder ==
    \A i \in 1..Len(wire) : wire[i].type = "event" =>
        /\ wire[i].seq > NextCursor
        /\ \A j \in 1..(i - 1) : wire[j].type = "event" => wire[j].seq < wire[i].seq

\* An event of a session the client follows that has not reached it.
Owed(n) ==
    /\ client = "joined" /\ ~stale /\ cursorEpoch = epoch
    /\ n \in 1..seq /\ published[n] \in kept
    /\ n > loaded /\ n \notin received

\* A connected client does not miss an event silently for ever: the event
\* arrives, or the client is told to reload, or its connection ends
\* (Subscription.get, _send_events).
Informed == \A n \in 1..MaxSeq : Owed(n) ~> ~Owed(n)
=============================================================================
