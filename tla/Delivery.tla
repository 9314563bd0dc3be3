------------------------------ MODULE Delivery ------------------------------
(***************************************************************************)
(* Transcript delivery of one session to one Telegram topic.               *)
(*                                                                         *)
(* The session monitor reads a growing transcript, registers a receipt per *)
(* read, and hands messages to the topic's queue; a queue worker sends     *)
(* them and settles the receipts; the monitor persists how far delivery    *)
(* got.  A user may jump to live, and the process may stop or crash.       *)
(*                                                                         *)
(* Monitor, worker and user handlers are coroutines of one event loop:     *)
(* another coroutine runs only while this one awaits (AtAwait).            *)
(*                                                                         *)
(* Transcript entry i is the i-th record; offset i is the byte after it.   *)
(***************************************************************************)
EXTENDS DeliveryContract, FiniteSets

CONSTANTS
    None,
    MaxLen,        \* bound: entries the agent writes
    Texts,         \* entries delivered as mergeable one-part text messages
    Silent,        \* entries that render to no message
    Closes,        \* Closes[i] = the tool call that entry i is the result of, or 0
    Receipts,      \* receipt objects (an object no one refers to is reused)
    ReplayLimit,   \* startup_replay_max_bytes; 0 disables the clamp
    MaxCrashes,    \* bound: process ends
    MaxJumps,      \* bound: confirmed "jump to live" requests
    Faults         \* what may go wrong, of FaultKinds

\* A save, a send, a read or a parser rebuild fails, a read fails late, after
\* it moved the parse position, the file grows under a read with no cached
\* prefix, Telegram answers with flood control, a delivery handler raises, the
\* topic is rebound, the window leaves the multiplexer's listing.
FaultKinds == {"save", "send", "flood", "read", "lateRead", "grow", "rebuild", "dispatch",
               "rebind", "close"}

Entries == 1..MaxLen
Offsets == 0..MaxLen

Intent == [snapshot : Offsets, purged : BOOLEAN]
Read == [from : Offsets, seen : Offsets]
Dispatch == [receipt : Receipts, next : 1..(MaxLen + 1), last : Entries]

\* ContentTask: what it sends, the checkpoint and receipts it carries, and
\* whether it already is a merged text batch.
Task ==
    [kind : {"text", "single", "notice"}, entries : SUBSET Entries, cp : Offsets,
     receipts : Seq(Receipts) \ {<<>>}, batched : BOOLEAN]

ASSUME DeliveryAssumption ==
    /\ MaxLen \in Nat
    /\ Texts \subseteq Entries
    /\ Silent \subseteq Entries \ Texts
    /\ Closes \in [Entries -> Offsets]
    /\ \A i \in Entries : Closes[i] < i
    /\ IsFiniteSet(Receipts)
    /\ None \notin Receipts \cup Intent \cup Read \cup Dispatch
    /\ None \notin [from : Offsets, hi : Entries] \cup [task : Task, sending : BOOLEAN]
                     \cup [call : Offsets, release : Offsets \cup {NoCheckpoint}]
    /\ ReplayLimit \in Nat
    /\ MaxCrashes \in Nat
    /\ MaxJumps \in Nat
    /\ Faults \subseteq FaultKinds

VARIABLES
    eof,        \* entries in the transcript file
    bound,      \* the topic routes to this window
    live,       \* the window is live
    disk,       \* monitor_state.json: last_byte_offset and pending skip
    watermark,  \* TrackedSession.last_byte_offset
    parsed,     \* TrackedSession.parsed_offset (-1: follow the watermark)
    skip,       \* BacklogSkipIntent or None
    aged,       \* the intent is older than the barrier deadline
    dirty,      \* MonitorState._dirty
    pc,         \* where the monitor coroutine is
    reading,    \* the read in progress: position and file length it started from
    batch,      \* _pending_batches: the entry range parsed and not registered
    rebuild,    \* _parser_rebuild_pending
    prefix,     \* length of the cached prefix in _file_prefixes (-1: none)
    clamp,      \* _startup_clamped (0: not clamped)
    clampDone,  \* _startup_replay_checked, or not a session of the last process
    openCalls,  \* _pending_tools
    toolFence,  \* _tool_delivery_fences
    rcpt,       \* receipt objects
    order,      \* _delivery_receipts
    notice,     \* _skip_notice_receipts
    retrying,   \* _skip_retry_at holds a time for this session
    job,        \* the dispatch in progress: its receipt and the entries to go
    queue,      \* the user's message queue
    flight,     \* the task the worker holds
    delivered,  \* entries sent, or dropped on purpose by routing (history)
    skipped,    \* entries given up by a completed skip, by the startup clamp or
                \* as history of a replaced file (history)
    acked,      \* Telegram took the notice of the current skip (history)
    crashes, jumps

envVars == <<eof, bound, live>>
stateVars == <<disk, watermark, skip, aged, dirty>>
readerVars == <<parsed, reading, batch, rebuild, prefix, clamp, clampDone, openCalls,
                toolFence>>
receiptVars == <<rcpt, order, notice, retrying>>
workVars == <<job, queue, flight>>
historyVars == <<delivered, skipped, acked>>
boundVars == <<crashes, jumps>>
vars == <<envVars, stateVars, readerVars, receiptVars, workVars, historyVars,
          boundVars, pc>>
-----------------------------------------------------------------------------
Calls == {Closes[i] : i \in Entries} \ {0}

\* Monitor positions at which the event loop may run someone else.
AtAwait == pc \in {"sleep", "read", "reading", "register", "dispatch", "draining", "exited"}
MonitorUp == pc \in {"sleep", "read", "reading", "register", "dispatch"}
WorkerUp == MonitorUp \/ pc = "draining"

SeqRange(s) == {s[i] : i \in 1..Len(s)}

TaskReceipts == UNION {SeqRange(queue[i].receipts) : i \in 1..Len(queue)}
FreeReceipts ==
    Receipts \ (SeqRange(order) \cup TaskReceipts \cup {notice}
                \cup (IF job = None THEN {} ELSE {job.receipt})
                \cup (IF flight = None THEN {} ELSE SeqRange(flight.task.receipts)))

\* _parse_pos
ParsePos == IF parsed >= 0 THEN parsed ELSE watermark

\* Mutant: replay ignores what is already durable.
FloorWithoutWatermark(w) == clamp

\* _clamped_floor
ClampedFloor(w) == IF clamp > w THEN clamp ELSE w

SaveOutcomes == IF "save" \in Faults THEN BOOLEAN ELSE {TRUE}

\* Mutant: a failed write also counts as saved.
SavedUnchecked(changed, w, s) ==
    \E ok \in SaveOutcomes :
        /\ disk' = IF changed /\ ok THEN [watermark |-> w, skip |-> s] ELSE disk
        /\ dirty' = FALSE

\* MonitorState.save_if_dirty with the state it would write.
Saved(changed, w, s) ==
    \E ok \in SaveOutcomes :
        IF changed /\ ok
        THEN disk' = [watermark |-> w, skip |-> s] /\ dirty' = FALSE
        ELSE disk' = disk /\ dirty' = changed

\* TranscriptReader.replay_from_watermark
Replay(w) ==
    /\ parsed' = ClampedFloor(w)
    /\ openCalls' = {}
    /\ toolFence' = None
    /\ rebuild' = TRUE
    /\ batch' = None

\* Mutant: the receipts of the purged range stay registered.
DiscardNotice ==
    /\ order' = order
    /\ notice' = None
    /\ retrying' = FALSE

\* _discard_session_delivery_state
Discard ==
    /\ order' = <<>>
    /\ notice' = None
    /\ retrying' = FALSE

\* _cancel_pending_skip
CancelPendingSkip ==
    /\ skip' = None
    /\ Replay(watermark)
    /\ Discard
    /\ Saved(dirty \/ skip # None, watermark, None)
    /\ UNCHANGED <<watermark, skipped>>

\* MonitorState.complete_skip and the replay and discard its callers add.
CompleteSkip ==
    LET target == IF skip.snapshot > watermark THEN skip.snapshot ELSE watermark
    IN  /\ watermark' = target
        /\ skip' = None
        /\ Replay(target)
        /\ Discard
        /\ Saved(TRUE, target, None)
        /\ skipped' = skipped \cup 1..skip.snapshot
-----------------------------------------------------------------------------
\* Environment: the agent writes, the topic is rebound, the window comes and
\* goes, time passes.
AgentWrites ==
    /\ eof < MaxLen
    /\ eof' = eof + 1
    /\ UNCHANGED <<bound, live, stateVars, readerVars, receiptVars, workVars,
                   historyVars, boundVars, pc>>

Rebind ==
    /\ AtAwait
    /\ "rebind" \in Faults
    /\ bound' = ~bound
    /\ UNCHANGED <<eof, live, stateVars, readerVars, receiptVars, workVars,
                   historyVars, boundVars, pc>>

WindowChanges ==
    /\ AtAwait
    /\ "close" \in Faults
    /\ live' = ~live
    /\ UNCHANGED <<eof, bound, stateVars, readerVars, receiptVars, workVars,
                   historyVars, boundVars, pc>>

BarrierAges ==
    /\ skip # None
    /\ ~aged
    /\ aged' = TRUE
    /\ UNCHANGED <<envVars, disk, watermark, skip, dirty, readerVars, receiptVars,
                   workVars, historyVars, boundVars, pc>>
-----------------------------------------------------------------------------
\* Queue side.

Content(e, cp, r) ==
    [kind |-> IF e \in Texts THEN "text" ELSE "single", entries |-> {e}, cp |-> cp,
     receipts |-> <<r>>, batched |-> FALSE]

Notice(cp, r) ==
    [kind |-> "notice", entries |-> {}, cp |-> cp, receipts |-> <<r>>, batched |-> FALSE]

\* Positions of the queue that purge_source_tasks removes through a snapshot.
PurgedSlots(snapshot) ==
    {i \in 1..Len(queue) : queue[i].kind # "notice" /\ queue[i].cp <= snapshot}

\* What is left, in order.
Retained(keep) ==
    {[k \in 1..Cardinality(keep) |-> queue[f[k]]] :
        f \in {g \in [1..Cardinality(keep) -> keep] :
                  \A k, l \in 1..Cardinality(keep) : k < l => g[k] < g[l]}}

\* Receipt objects once every purged task settled its receipts as dropped.
PurgeSettled(slots) ==
    [r \in Receipts |->
        [rcpt[r] EXCEPT !.pending =
            @ - Cardinality({i \in slots : r \in SeqRange(queue[i].receipts)})]]

\* _enqueue_pending_skip_notice: queue one receipt-tracked notice; a closed
\* window refuses it and the attempt is retried later.
EnqueueNotice(q, objects, s) ==
    \/ /\ live
       /\ \E r \in FreeReceipts :
             /\ rcpt' = [objects EXCEPT ![r] = Closed(Tracked(NewReceipt(s.snapshot)))]
             /\ queue' = Append(q, Notice(s.snapshot, r))
             /\ notice' = r
             /\ retrying' = FALSE
    \/ /\ ~live
       /\ rcpt' = objects
       /\ queue' = q
       /\ notice' = notice
       /\ retrying' = TRUE

\* _prepare_pending_skip and the notice after it: retire the queued range,
\* persist that, then queue the notice.  onDisk is the state file so far.
PurgeThenNotice(s, onDisk) ==
    LET slots == PurgedSlots(s.snapshot)
        purged == [s EXCEPT !.purged = TRUE]
    IN  \E q \in Retained((1..Len(queue)) \ slots), ok \in SaveOutcomes :
          IF ok
          THEN /\ disk' = [watermark |-> watermark, skip |-> purged]
               /\ dirty' = FALSE
               /\ skip' = purged
               /\ EnqueueNotice(q, PurgeSettled(slots), purged)
          ELSE /\ disk' = onDisk
               /\ dirty' = TRUE
               /\ skip' = s
               /\ queue' = q
               /\ rcpt' = PurgeSettled(slots)
               /\ notice' = notice
               /\ retrying' = TRUE

\* request_backlog_skip, from a confirmed button: it runs to its end without
\* awaiting anything that suspends.  The barrier is written before the queue
\* is touched; when that fails nothing else happens.
RequestSkip ==
    /\ MonitorUp
    /\ jumps < MaxJumps
    /\ bound
    /\ skip = None
    /\ eof >= watermark
    /\ LET intent == [snapshot |-> eof, purged |-> FALSE]
       IN  \/ /\ FALSE \in SaveOutcomes
              /\ Saved(TRUE, watermark, None)
              /\ UNCHANGED <<skip, aged, acked, queue, receiptVars>>
           \/ /\ PurgeThenNotice(intent, [watermark |-> watermark, skip |-> intent])
              /\ aged' = FALSE
              /\ acked' = FALSE
              /\ UNCHANGED order
    /\ jumps' = jumps + 1
    /\ UNCHANGED <<envVars, watermark, readerVars, job, flight, delivered, skipped,
                   crashes, pc>>
-----------------------------------------------------------------------------
\* Monitor coroutine: one cycle goes through the positions below in order.

Wake ==
    /\ pc = "sleep"
    /\ pc' = "resume"
    /\ UNCHANGED <<envVars, stateVars, readerVars, receiptVars, workVars,
                   historyVars, boundVars>>

\* _resume_pending_skip_notices
ResumeSkip ==
    /\ pc = "resume"
    /\ pc' = "expire"
    /\ \/ /\ skip = None \/ retrying
          /\ UNCHANGED <<stateVars, readerVars, receiptVars, queue, skipped>>
       \/ /\ skip # None /\ ~bound
          /\ CancelPendingSkip
          /\ UNCHANGED <<aged, reading, prefix, clamp, clampDone, rcpt, queue>>
       \/ /\ skip # None /\ bound /\ ~skip.purged
          /\ PurgeThenNotice(skip, disk)
          /\ UNCHANGED <<watermark, aged, readerVars, order, skipped>>
       \/ /\ skip # None /\ bound /\ skip.purged /\ notice = None
          /\ EnqueueNotice(queue, rcpt, skip)
          /\ UNCHANGED <<stateVars, readerVars, order, skipped>>
       \/ /\ skip # None /\ bound /\ skip.purged /\ notice # None
          /\ UNCHANGED <<stateVars, readerVars, receiptVars, queue, skipped>>
    /\ UNCHANGED <<envVars, job, flight, delivered, acked, boundVars>>

\* Mutant: a barrier whose notice is being retried does not expire.
ExpiredUnlessRetrying == skip # None /\ aged /\ ~retrying

\* The barrier outlived its deadline.
Expired == skip # None /\ aged

\* _expire_aged_skip_barriers
ExpireSkip ==
    /\ pc = "expire"
    /\ pc' = "barrier"
    /\ \/ /\ ~Expired
          /\ UNCHANGED <<stateVars, readerVars, order, notice, retrying, skipped>>
       \/ /\ Expired /\ (~bound \/ ~skip.purged)
          /\ CancelPendingSkip
          /\ UNCHANGED <<aged, reading, prefix, clamp, clampDone>>
       \/ /\ Expired /\ bound /\ skip.purged
          /\ CompleteSkip
          /\ UNCHANGED <<aged, reading, prefix, clamp, clampDone>>
    /\ UNCHANGED <<envVars, rcpt, workVars, delivered, acked, boundVars>>

CommitPoints == {"barrier", "commit", "lastCommit"}

NoticeState ==
    CASE notice = None -> "none"
      [] notice # None /\ rcpt[notice].failed -> "failed"
      [] notice # None /\ CommitReady(rcpt[notice]) -> "ready"
      [] OTHER -> "pending"

\* _commit_pending_skips
CommitSkips ==
    /\ pc \in CommitPoints
    /\ pc' = CASE pc = "barrier" -> "read"
               [] pc = "commit" -> "prefix"
               [] pc = "lastCommit" -> "lastPrefix"
    /\ \/ /\ NoticeState \in {"none", "pending"}
          /\ UNCHANGED <<stateVars, readerVars, order, notice, retrying, skipped>>
       \/ /\ NoticeState = "failed"
          /\ notice' = None
          /\ retrying' = TRUE
          /\ UNCHANGED <<stateVars, readerVars, order, skipped>>
       \/ /\ NoticeState = "ready"
          /\ skip = None \/ ~bound
          /\ CancelPendingSkip
          /\ UNCHANGED <<aged, reading, prefix, clamp, clampDone>>
       \/ /\ NoticeState = "ready"
          /\ skip # None /\ bound
          /\ CompleteSkip
          /\ UNCHANGED <<aged, reading, prefix, clamp, clampDone>>
    /\ UNCHANGED <<envVars, rcpt, workVars, delivered, acked, boundVars>>

\* check_for_updates up to the file read: a skipped source is left alone, so is
\* one whose window a confirmed listing lacks, a backlog over the startup limit
\* is passed over once per process, and a file with nothing new is not opened.
ReadBegin ==
    LET over == ~clampDone /\ ReplayLimit > 0 /\ eof - ParsePos > ReplayLimit
        from == IF over THEN eof ELSE ParsePos
    IN  /\ pc = "read"
        /\ \/ /\ skip # None \/ ~live
              /\ pc' = "register"
              /\ UNCHANGED <<parsed, reading, rebuild, clamp, clampDone, skipped>>
           \/ /\ skip = None
              /\ clampDone' = TRUE
              /\ parsed' = IF over THEN eof ELSE parsed
              /\ clamp' = IF over THEN eof ELSE clamp
              /\ rebuild' = (rebuild \/ over)
              /\ skipped' = IF over THEN skipped \cup (ParsePos + 1)..eof ELSE skipped
              /\ \/ /\ from >= eof /\ ~rebuild'
                    /\ pc' = "register"
                    /\ UNCHANGED reading
                 \/ /\ from < eof \/ rebuild'
                    /\ pc' = "reading"
                    /\ reading' = [from |-> from, seen |-> eof]
        /\ UNCHANGED <<envVars, stateVars, batch, prefix, openCalls, toolFence,
                       receiptVars, workVars, delivered, acked, boundVars>>

\* Mutant: the result of the last open call does not set the release point.
FenceNeverReleased(fence, open, hi) ==
    CASE open # {} /\ fence = None -> [call |-> hi, release |-> NoCheckpoint]
      [] OTHER -> fence

\* The tool-delivery fence after a batch that ends at hi and leaves open calls.
NextFence(fence, open, hi) ==
    CASE open # {} /\ fence = None -> [call |-> hi, release |-> NoCheckpoint]
      [] open # {} /\ fence # None -> [fence EXCEPT !.release = NoCheckpoint]
      [] open = {} /\ fence # None /\ fence.release = NoCheckpoint
            -> [fence EXCEPT !.release = hi]
      [] OTHER -> fence

\* Tool calls without a result once the entries of new are parsed.
OpenAfter(calls, new) ==
    {c \in calls \cup (Calls \cap new) : \A i \in new : Closes[i] # c}

\* _prefix_covers_consumed: growth under the read can be told from replacement.
PrefixCovers == reading.from > 0 /\ prefix >= reading.from

\* The read ends with the entries up to hi: _read_new_lines moves the parse
\* position, the prefix up to the length last seen is cached, a pending parser
\* rebuild starts from the committed prefix with no open tool call, and
\* _append_provider_messages adds one batch.
ReadEnd ==
    /\ pc = "reading"
    /\ pc' = "register"
    /\ reading' = None
    /\ dirty' = TRUE
    /\ \E hi \in reading.seen..eof :
          LET new == (reading.from + 1)..hi
              fence == IF rebuild THEN None ELSE toolFence
              open == OpenAfter(IF rebuild THEN {} ELSE openCalls, new)
          IN  /\ parsed' = hi
              /\ rebuild' = FALSE
              /\ openCalls' = open
              /\ toolFence' = IF new = {} THEN fence ELSE NextFence(fence, open, hi)
              /\ batch' = IF new = {} THEN batch ELSE [from |-> reading.from, hi |-> hi]
              /\ \/ prefix' = hi
                 \/ PrefixCovers /\ prefix' \in hi..eof
    /\ UNCHANGED <<envVars, disk, watermark, skip, aged, clamp, clampDone, receiptVars,
                   workVars, historyVars, boundVars>>

\* The file grew under the read and no cached prefix tells that from a
\* replacement (_read_session_entries): the entries up to past count as
\* history.  A second attempt reads on from there, as a new file generation; if
\* the file grows under that one too, nothing is delivered this cycle.
GrowthTakenForReplacement ==
    /\ pc = "reading"
    /\ "grow" \in Faults
    /\ ~PrefixCovers
    /\ pc' = "register"
    /\ reading' = None
    /\ clamp' = 0
    /\ \E past \in (reading.seen + 1)..eof :
          /\ skipped' = skipped \cup (reading.from + 1)..past
          /\ \/ \E hi \in past..eof :
                   LET open == OpenAfter({}, (past + 1)..hi)
                   IN  /\ parsed' = hi
                       /\ prefix' = hi
                       /\ rebuild' = FALSE
                       /\ openCalls' = open
                       /\ toolFence' = NextFence(None, open, hi)
                       /\ batch' = [from |-> past, hi |-> hi]
                       /\ dirty' = TRUE
                       /\ Discard
             \/ /\ parsed' = past
                /\ UNCHANGED <<prefix, rebuild, openCalls, toolFence, batch, dirty, order,
                               notice, retrying>>
    /\ UNCHANGED <<envVars, disk, watermark, skip, aged, clampDone, rcpt, workVars,
                   delivered, acked, boundVars>>

\* The parser context could not be rebuilt, be it that the file grew since the
\* read: parse again from the floor.
RebuildFails ==
    /\ pc = "reading"
    /\ rebuild
    /\ "rebuild" \in Faults \/ reading.seen < eof
    /\ pc' = "register"
    /\ reading' = None
    /\ dirty' = TRUE
    /\ parsed' = ClampedFloor(watermark)
    /\ prefix' \in reading.seen..eof
    /\ UNCHANGED <<envVars, disk, watermark, skip, aged, batch, rebuild, clamp, clampDone,
                   openCalls, toolFence, receiptVars, workVars, historyVars, boundVars>>

\* The file could not be read this cycle.
ReadFails ==
    /\ pc = "reading"
    /\ "read" \in Faults
    /\ pc' = "register"
    /\ reading' = None
    /\ UNCHANGED <<envVars, stateVars, parsed, batch, rebuild, prefix, clamp, clampDone,
                   openCalls, toolFence, receiptVars, workVars, historyVars, boundVars>>

\* The second stat or the tail marker failed after the entries were read: they
\* are dropped, the parse position stays behind them.
ReadFailsLate ==
    /\ pc = "reading"
    /\ "lateRead" \in Faults
    /\ pc' = "register"
    /\ reading' = None
    /\ parsed' \in reading.seen..eof
    /\ UNCHANGED <<envVars, stateVars, batch, rebuild, prefix, clamp, clampDone, openCalls,
                   toolFence, receiptVars, workVars, historyVars, boundVars>>

\* The save at the end of check_for_updates, then _register_delivery_receipts:
\* the batch has a receipt before the monitor awaits again.
Register ==
    /\ pc = "register"
    /\ Saved(dirty, watermark, skip)
    /\ batch' = None
    /\ \/ /\ batch = None
          /\ pc' = "commit"
          /\ UNCHANGED <<rcpt, order, job>>
       \/ /\ batch # None
          /\ pc' = "dispatch"
          /\ \E r \in FreeReceipts :
                /\ rcpt' = [rcpt EXCEPT ![r] = NewReceipt(batch.hi)]
                /\ order' = Append(order, r)
                /\ job' = [receipt |-> r, next |-> batch.from + 1, last |-> batch.hi]
    /\ UNCHANGED <<envVars, watermark, skip, aged, parsed, reading, rebuild, prefix, clamp,
                   clampDone, openCalls, toolFence, notice, retrying, queue, flight,
                   historyVars, boundVars>>

\* handle_new_message for the next entry: an entry with no message or no live
\* topic is dropped on purpose, any other one is enqueued under the receipt.
RouteEntry ==
    /\ pc = "dispatch"
    /\ job.next <= job.last
    /\ job' = [job EXCEPT !.next = @ + 1]
    /\ \/ /\ job.next \in Silent \/ ~bound \/ ~live
          /\ delivered' = delivered \cup {job.next}
          /\ UNCHANGED <<rcpt, queue>>
       \/ /\ job.next \notin Silent /\ bound /\ live
          /\ rcpt' = [rcpt EXCEPT ![job.receipt] = Tracked(@)]
          /\ queue' = Append(queue, Content(job.next, rcpt[job.receipt].checkpoint,
                                            job.receipt))
          /\ UNCHANGED delivered
    /\ UNCHANGED <<envVars, stateVars, readerVars, order, notice, retrying, flight,
                   skipped, acked, boundVars, pc>>

\* _dispatch_message_with_receipt ends, normally or with an exception.
DispatchEnds ==
    /\ pc = "dispatch"
    /\ pc' = "commit"
    /\ job' = None
    /\ \/ /\ job.next > job.last
          /\ rcpt' = [rcpt EXCEPT ![job.receipt] = Closed(@)]
       \/ /\ "dispatch" \in Faults
          /\ rcpt' = [rcpt EXCEPT ![job.receipt] = Closed(Failed(@))]
    /\ UNCHANGED <<envVars, stateVars, readerVars, order, notice, retrying, queue, flight,
                   historyVars, boundVars>>

\* Mutant: the fence opens when the result is parsed.
FenceUntilParsed(list) == toolFence # None /\ toolFence.release = NoCheckpoint

\* A completed tool call releases its fence when every receipt from the call
\* to the result is ready.
FenceHolds(list) ==
    /\ toolFence # None
    /\ \/ toolFence.release = NoCheckpoint
       \/ \A i \in 1..Len(list) : list[i].checkpoint # toolFence.release
       \/ \E i \in 1..Len(list) :
             /\ list[i].checkpoint >= toolFence.call
             /\ list[i].checkpoint <= toolFence.release
             /\ ~CommitReady(list[i])

\* Mutant: a skip barrier does not hold the commit.
HeldByToolsOnly(list) == openCalls # {} \/ FenceHolds(list)

\* Nothing commits beside a barrier, an open tool call or a tool fence.
CommitHeld(list) == skip # None \/ openCalls # {} \/ FenceHolds(list)

\* _commit_watermark_prefixes after its skip part: the leading settled run is
\* consumed and its offset, if it has one, is persisted.
CommitPrefix ==
    LET list == [i \in 1..Len(order) |-> rcpt[order[i]]]
        n == SettledPrefix(list)
        offset == SettledRunOffset(list, n)
    IN  /\ pc \in {"prefix", "lastPrefix"}
        /\ pc' = IF pc = "prefix" THEN "sleep" ELSE "exited"
        /\ \/ /\ order = <<>> \/ CommitHeld(list)
              /\ UNCHANGED <<disk, watermark, dirty, toolFence, order>>
           \/ /\ order # <<>> /\ ~CommitHeld(list)
              /\ toolFence' = None
              /\ order' = SubSeq(order, n + 1, Len(order))
              /\ \/ /\ offset \in {NoOffset, watermark}
                    /\ UNCHANGED <<disk, watermark, dirty>>
                 \/ /\ offset \notin {NoOffset, watermark}
                    /\ watermark' = offset
                    /\ Saved(TRUE, offset, skip)
        /\ UNCHANGED <<envVars, skip, aged, parsed, reading, batch, rebuild, prefix, clamp,
                       clampDone, openCalls, rcpt, notice, retrying, workVars,
                       historyVars, boundVars>>

MonitorStep ==
    \/ Wake \/ ResumeSkip \/ ExpireSkip \/ CommitSkips
    \/ ReadBegin \/ ReadEnd \/ GrowthTakenForReplacement
    \/ RebuildFails \/ ReadFails \/ ReadFailsLate
    \/ Register \/ RouteEntry \/ DispatchEnds \/ CommitPrefix
-----------------------------------------------------------------------------
\* Worker coroutine of the user's queue.

\* Each receipt of a task is settled once, however often the task lists it
\* (_delivery_receipts_for_settlement).
SettlementReceipts(task) == SeqRange(task.receipts)

\* The settlement at the end of _message_queue_worker.
SettleFlight(outcome) ==
    /\ rcpt' = [r \in Receipts |->
                  IF r \in SettlementReceipts(flight.task) THEN Settled(rcpt[r], outcome)
                  ELSE rcpt[r]]
    /\ flight' = None
    /\ delivered' = IF outcome = "failed" THEN delivered
                    ELSE delivered \cup flight.task.entries
    /\ acked' = (acked \/ (outcome = "delivered"
                            /\ notice \in SettlementReceipts(flight.task)))

TakeTask ==
    /\ WorkerUp
    /\ flight = None
    /\ queue # <<>>
    /\ flight' = [task |-> Head(queue), sending |-> FALSE]
    /\ queue' = Tail(queue)
    /\ UNCHANGED <<envVars, stateVars, readerVars, receiptVars, job, historyVars,
                   boundVars, pc>>

\* _is_stale_task: a closed window's tasks are dropped on purpose.
DropStale ==
    /\ WorkerUp
    /\ flight # None
    /\ ~flight.sending
    /\ ~live
    /\ SettleFlight("dropped")
    /\ UNCHANGED <<envVars, stateVars, readerVars, order, notice, retrying, job, queue,
                   skipped, boundVars, pc>>

\* A notice whose topic was rebound is not sent.
RefuseNotice ==
    /\ WorkerUp
    /\ flight # None
    /\ ~flight.sending
    /\ live
    /\ flight.task.kind = "notice"
    /\ ~bound
    /\ SettleFlight("failed")
    /\ UNCHANGED <<envVars, stateVars, readerVars, order, notice, retrying, job, queue,
                   skipped, boundVars, pc>>

\* A text task with the first n queued texts behind it (_merge_content_tasks).
Merged(task, n) ==
    [task EXCEPT
        !.entries = @ \cup UNION {queue[i].entries : i \in 1..n},
        !.receipts = @ \o [i \in 1..n |-> queue[i].receipts[1]],
        !.batched = TRUE]

\* The send starts; a single text first absorbs texts queued right behind it,
\* as many as fit.
StartSend ==
    /\ WorkerUp
    /\ flight # None
    /\ ~flight.sending
    /\ live
    /\ flight.task.kind = "notice" => bound
    /\ \/ /\ flight' = [flight EXCEPT !.sending = TRUE]
          /\ UNCHANGED queue
       \/ /\ flight.task.kind = "text"
          /\ ~flight.task.batched
          /\ \E n \in 1..Len(queue) :
                /\ \A i \in 1..n : queue[i].kind = "text"
                /\ flight' = [task |-> Merged(flight.task, n), sending |-> TRUE]
                /\ queue' = SubSeq(queue, n + 1, Len(queue))
    /\ UNCHANGED <<envVars, stateVars, readerVars, receiptVars, job, historyVars,
                   boundVars, pc>>

SendEnds ==
    /\ WorkerUp
    /\ flight # None
    /\ flight.sending
    /\ \/ SettleFlight("delivered")
       \/ "send" \in Faults /\ SettleFlight("failed")
    /\ UNCHANGED <<envVars, stateVars, readerVars, order, notice, retrying, job, queue,
                   skipped, boundVars, pc>>

\* RetryAfter: the task, merged as it is, starts over after a pause.
FloodRetry ==
    /\ WorkerUp
    /\ "flood" \in Faults
    /\ flight # None
    /\ flight.sending
    /\ flight' = [flight EXCEPT !.sending = FALSE]
    /\ UNCHANGED <<envVars, stateVars, readerVars, receiptVars, job, queue, historyVars,
                   boundVars, pc>>

WorkerStep ==
    TakeTask \/ DropStale \/ RefuseNotice \/ StartSend \/ SendEnds \/ FloodRetry
-----------------------------------------------------------------------------
\* Process lifetime.

\* stop_delivery_runtime, SessionMonitor.stop_and_wait: the monitor task is
\* cancelled where it awaits, which fails the receipt it was dispatching, and
\* the state is saved.
StopMonitor ==
    /\ MonitorUp
    /\ pc' = "draining"
    /\ reading' = None
    /\ job' = None
    /\ rcpt' = IF job = None THEN rcpt
               ELSE [rcpt EXCEPT ![job.receipt] = Closed(Failed(@))]
    /\ \E ok \in SaveOutcomes :
          IF ok
          THEN disk' = [watermark |-> watermark, skip |-> skip] /\ dirty' = FALSE
          ELSE UNCHANGED <<disk, dirty>>
    /\ UNCHANGED <<envVars, watermark, skip, aged, parsed, batch, rebuild, prefix, clamp,
                   clampDone, openCalls, toolFence, order, notice, retrying, queue, flight,
                   historyVars, boundVars>>

\* shutdown_workers: whatever the bounded drain left is abandoned; the
\* interrupted send counts as failed.
StopWorkers ==
    /\ pc = "draining"
    /\ pc' = "lastCommit"
    /\ queue' = <<>>
    /\ \/ /\ flight = None
          /\ UNCHANGED <<rcpt, flight, delivered, acked>>
       \/ /\ flight # None
          /\ SettleFlight("failed")
    /\ UNCHANGED <<envVars, stateVars, readerVars, order, notice, retrying, job, skipped,
                   boundVars>>

\* The process ends, at any point, and starts again from the state file.
Restart ==
    /\ crashes < MaxCrashes
    /\ crashes' = crashes + 1
    /\ pc' = "sleep"
    /\ watermark' = disk.watermark
    /\ skip' = disk.skip
    /\ dirty' = FALSE
    /\ parsed' = -1
    /\ reading' = None
    /\ batch' = None
    /\ rebuild' = (disk.watermark > 0)
    /\ prefix' = eof
    /\ clamp' = 0
    /\ clampDone' = FALSE
    /\ openCalls' = {}
    /\ toolFence' = None
    /\ rcpt' = [r \in Receipts |-> NewReceipt(0)]
    /\ order' = <<>>
    /\ notice' = None
    /\ retrying' = FALSE
    /\ job' = None
    /\ queue' = <<>>
    /\ flight' = None
    /\ UNCHANGED <<envVars, disk, aged, historyVars, jumps>>

Init ==
    /\ eof = 0
    /\ bound = TRUE
    /\ live = TRUE
    /\ disk = [watermark |-> 0, skip |-> None]
    /\ watermark = 0
    /\ skip = None
    /\ aged = FALSE
    /\ dirty = FALSE
    /\ pc = "sleep"
    /\ parsed = 0
    /\ reading = None
    /\ batch = None
    /\ rebuild = FALSE
    /\ prefix = -1
    /\ clamp = 0
    /\ clampDone = TRUE
    /\ openCalls = {}
    /\ toolFence = None
    /\ rcpt = [r \in Receipts |-> NewReceipt(0)]
    /\ order = <<>>
    /\ notice = None
    /\ retrying = FALSE
    /\ job = None
    /\ queue = <<>>
    /\ flight = None
    /\ delivered = {}
    /\ skipped = {}
    /\ acked = FALSE
    /\ crashes = 0
    /\ jumps = 0

Environment == AgentWrites \/ Rebind \/ WindowChanges \/ BarrierAges
Lifetime == StopMonitor \/ StopWorkers \/ Restart

Next == Environment \/ RequestSkip \/ MonitorStep \/ WorkerStep \/ Lifetime

Spec == Init /\ [][Next]_vars

\* The event loop runs every ready coroutine in turn: the monitor is always
\* ready to go on, the worker only while the monitor awaits, hence strong
\* fairness.  Time passes.  Nothing else is fair.
Fairness ==
    /\ WF_vars(MonitorStep)
    /\ SF_vars(WorkerStep)
    /\ WF_vars(BarrierAges)

FairSpec == Spec /\ Fairness
-----------------------------------------------------------------------------
EnvTypes ==
    /\ eof \in Offsets
    /\ bound \in BOOLEAN
    /\ live \in BOOLEAN

StateTypes ==
    /\ disk \in [watermark : Offsets, skip : Intent \cup {None}]
    /\ watermark \in Offsets
    /\ skip \in Intent \cup {None}
    /\ aged \in BOOLEAN
    /\ dirty \in BOOLEAN

ReaderTypes ==
    /\ parsed \in Offsets \cup {-1}
    /\ reading \in Read \cup {None}
    /\ batch \in [from : Offsets, hi : Entries] \cup {None}
    /\ rebuild \in BOOLEAN
    /\ prefix \in Offsets \cup {-1}
    /\ clamp \in Offsets
    /\ clampDone \in BOOLEAN
    /\ openCalls \subseteq Calls
    /\ toolFence \in [call : Offsets, release : Offsets \cup {NoCheckpoint}] \cup {None}

ReceiptTypes ==
    /\ rcpt \in [Receipts -> Receipt]
    /\ \A r \in Receipts : rcpt[r].checkpoint \in Offsets
    /\ order \in Seq(Receipts)
    /\ notice \in Receipts \cup {None}
    /\ retrying \in BOOLEAN

WorkTypes ==
    /\ job \in Dispatch \cup {None}
    /\ queue \in Seq(Task)
    /\ flight \in [task : Task, sending : BOOLEAN] \cup {None}

HistoryTypes ==
    /\ delivered \subseteq Entries
    /\ skipped \subseteq Entries
    /\ acked \in BOOLEAN
    /\ crashes \in Nat
    /\ jumps \in Nat

\* A read is under way at "reading", a dispatch at "dispatch".
PcTypes ==
    /\ pc \in {"sleep", "resume", "expire", "barrier", "read", "reading", "register",
               "dispatch", "commit", "prefix", "draining", "lastCommit", "lastPrefix",
               "exited"}
    /\ pc = "reading" => reading # None
    /\ pc = "dispatch" => job # None

\* Every variable has its type.
TypeOK ==
    /\ EnvTypes
    /\ StateTypes
    /\ ReaderTypes
    /\ ReceiptTypes
    /\ WorkTypes
    /\ HistoryTypes
    /\ PcTypes

\* At-least-once: every entry below the persisted watermark was sent, dropped
\* on purpose by routing, or given up by a completed skip, the startup clamp or
\* as history of a replaced file, so a restart from the state file never loses
\* one (providers.md, "persists a transcript's delivered watermark only after
\* its queued delivery receipts succeed").
DurableCovered ==
    \A i \in Entries : i <= disk.watermark => i \in delivered \cup skipped

\* The worker and the purge never settle a receipt that has no tracked task
\* left, which DeliveryReceipt.settle answers with RuntimeError.
SettleNeverRaises ==
    LET tasks == {queue[i] : i \in 1..Len(queue)}
                 \cup (IF flight = None THEN {} ELSE {flight.task})
    IN  \A t \in tasks : \A r \in SeqRange(t.receipts) : rcpt[r].pending > 0

\* A clean MonitorState is what the file holds, so save_if_dirty may skip it.
CleanMeansSaved ==
    ~dirty => disk = [watermark |-> watermark, skip |-> skip]

\* The persisted watermark never falls between a tool call and its result, so a
\* replay parses the pair together; a skip or clamp may cut through one.
ToolPairsWhole ==
    \A i \in Entries :
        Closes[i] # 0 /\ i <= eof /\ Closes[i] <= disk.watermark
            => i <= disk.watermark \/ Closes[i] \in skipped

\* Delivery is at-least-once: the persisted watermark only moves forward, and
\* only over entries that were sent, dropped by routing, or given up, across
\* skips, cancelled skips, failed saves and restarts.
Promise == INSTANCE AtLeastOnce WITH
    Last <- MaxLen, written <- eof, handled <- delivered \cup skipped,
    durable <- disk.watermark

DeliversAtLeastOnce == Promise!Spec

\* No entry below the persisted watermark is handed to the queue again: what is
\* replayed after a restart or a cancelled skip starts above it.
NeverRequeueCommitted ==
    [][\A e \in Entries :
          (job # None /\ job' # None /\ job'.next = e + 1 /\ job.next = e)
              => e > disk.watermark]_vars

\* While a skip barrier is on disk the watermark beside it stays put: only
\* removing the barrier, or a later jump replacing it, moves it, in one write.
BarrierFreezesWatermark ==
    [][(jumps' = jumps /\ disk.skip # None /\ disk'.skip # None)
          => disk'.watermark = disk.watermark]_vars

\* Every task a receipt tracked is settled once: when the queue is empty, the
\* worker idle and no dispatch runs, no receipt still waits for a task
\* (delivery_contract.py, "Queue workers settle each tracked outbound task").
EveryTaskSettled ==
    (MonitorUp /\ queue = <<>> /\ flight = None /\ job = None)
        => \A i \in 1..Len(order) : rcpt[order[i]].pending = 0

Stopped == pc \in {"draining", "lastCommit", "lastPrefix", "exited"}

\* An undeliverable notice cannot pause a source forever: a running process
\* retires every barrier, by its notice, by cancelling it or by its deadline.
BarrierRetired == (skip # None) ~> (skip = None \/ Stopped)

\* A send carries two tasks of one receipt: adjacent texts of one batch, merged.
MergedWithinBatch ==
    flight # None /\ Cardinality(SeqRange(flight.task.receipts)) < Len(flight.task.receipts)

\* While nothing fails and no two texts of one batch are merged into one send,
\* what the agent wrote becomes durable: a running process ends up with its
\* watermark at the end of the transcript.  A send that merges two texts of one
\* batch settles their receipt once although it was tracked twice, and the
\* commit stays fenced until the process restarts: behaviours with such a send
\* are excluded here and are the subject of EveryTaskSettled.  Texts of
\* different batches may be merged.
EventuallyDurable ==
    []~MergedWithinBatch => ((eof = MaxLen) ~> (disk.watermark = MaxLen \/ Stopped))
=============================================================================
