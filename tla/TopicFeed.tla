----------------------------- MODULE TopicFeed -----------------------------
(***************************************************************************)
(* What a topic shows.  The monitor queues the entries of a transcript,    *)
(* the poller and the hooks queue changes of the status message, and one   *)
(* worker per user turns them into calls to Telegram: it gathers tool      *)
(* calls in one message that it edits, merges texts, keeps at most one     *)
(* status message, and tries again when Telegram asks it to wait.          *)
(*                                                                         *)
(* One user, one topic with a known chat, one live window whose tool calls *)
(* are shown, no speech and no task list.  Every call may fail or be       *)
(* refused for a time (RetryAfter) and then has no effect; a step of the   *)
(* worker goes from the answer of one call to the next.  Texts are one     *)
(* part each, and no two calls look the same.                              *)
(***************************************************************************)
EXTENDS SequencesExt, FiniteSetsExt

CONSTANTS
    Transcripts,  \* sequences of entries the agent may write
    Modes,        \* batch modes: a subset of {"batched", "ephemeral", "verbose"}
    MaxEntries,   \* BATCH_MAX_ENTRIES
    MaxMerge,     \* texts that fit into MERGE_MAX_LENGTH
    Texts,        \* what a status may say
    MaxStatus,    \* bound: changes of the status asked for
    MaxFaults,    \* bound: calls that fail or are refused
    None

Kinds == {"text", "use", "long", "result"}
\* A long call does not fit into a batch.  A result names its call.
Entries == [kind: Kinds, of: Nat]

StatusKinds == {"busy", "note", "clear"}
Flushing == {"flush", "flushDelete", "flushOpen", "flushFinal"}
\* What the worker flushes the batch for.
Aims == {"overflow", "content", "merge", "clear", "update"}
Pcs == {"dispatch", "deliver", "open", "edit", "toolEdit", "send", "statusEdit",
        "statusSend"} \cup Flushing \cup Aims

\* The task in flight, a batch and a status message, as far as there is one.
Works == [kind: StatusKinds \cup {"content"}, body: Seq(Nat), text: Texts \cup {None},
          chosen: Texts \cup {None}, merged: Nat, then: Aims \cup {"none"}, pc: Pcs]
Batches == [entries: Seq(Nat), msg: Nat,
            draft: {"none", "unset", "streaming", "legacy"}, last: Seq(Nat)]
Statuses == [msg: Nat, text: Texts \cup {None}]

ASSUME FeedAssumption ==
    /\ Transcripts \subseteq Seq(Entries)
    /\ \A t \in Transcripts : \A i \in DOMAIN t :
           t[i].kind = "result" => /\ t[i].of \in 1..(i-1)
                                   /\ t[t[i].of].kind \in {"use", "long"}
    /\ Modes \subseteq {"batched", "ephemeral", "verbose"}
    /\ MaxEntries \in Nat \ {0}
    /\ MaxMerge \in Nat \ {0}
    /\ MaxStatus \in Nat
    /\ MaxFaults \in Nat
    /\ None \notin Works \cup Batches \cup Statuses

VARIABLES
    feed,        \* the transcript of this behaviour
    mode,        \* get_batch_mode of the window
    published,   \* entries queued so far
    queue,       \* _message_queues
    pending,     \* _pending_status_updates and _pending_status_clears
    suppressed,  \* _status_suppressed_until lies ahead
    unfinished,  \* the count that queue.join waits for
    work,        \* the task in flight and where the worker is
    batch,       \* _active_batches
    status,      \* _status_msg_info
    toolMsgs,    \* _tool_msg_ids
    settled,     \* outcome of each entry, "open" before
    chat,        \* the messages of the topic, oldest first
    asked, faults,
    previewed,   \* history: calls acknowledged when only a preview was shown
    flushFailed, \* history: a flush left its batch active
    toolRetried  \* history: a tool call was taken again after a flood

queueVars == <<queue, pending, unfinished>>
shownVars == <<batch, status, toolMsgs, chat>>
history == <<previewed, flushFailed, toolRetried>>
vars == <<feed, mode, published, queueVars, suppressed, work, shownVars, settled,
          asked, faults, history>>

IsCall(i) == feed[i].kind \in {"use", "long"}
IsTool(i) == feed[i].kind # "text"

Init ==
    /\ feed \in Transcripts
    /\ mode \in Modes
    /\ published = 0
    /\ queue = <<>> /\ pending = {} /\ unfinished = 0
    /\ suppressed = FALSE
    /\ work = None
    /\ batch = None /\ status = None
    /\ toolMsgs = {}
    /\ settled = [i \in 1..Len(feed) |-> "open"]
    /\ chat = <<>>
    /\ asked = 0 /\ faults = 0
    /\ previewed = {} /\ flushFailed = FALSE /\ toolRetried = FALSE

-----------------------------------------------------------------------------
(* Producers.                                                               *)

\* put_nowait counts the task as unfinished.
Put(task) ==
    /\ queue' = Append(queue, task)
    /\ unfinished' = unfinished + 1

\* enqueue_content_message for the next entry of the transcript.
EnqueueContent ==
    /\ published < Len(feed)
    /\ published' = published + 1
    /\ Put([kind |-> "content", body |-> <<published + 1>>, text |-> None])
    /\ UNCHANGED <<feed, mode, pending, suppressed, work, shownVars, settled, asked,
                   faults, history>>

\* enqueue_status_update: a poll refresh ("busy"), a notice of a hook ("note")
\* or a clear; at most one of each is queued.
EnqueueStatus(kind, text) ==
    /\ asked < MaxStatus
    /\ asked' = asked + 1
    /\ kind = "busy" => ~suppressed /\ "clear" \notin pending
    /\ kind \notin pending
    /\ pending' = pending \cup {kind}
    /\ Put([kind |-> kind, body |-> <<>>, text |-> IF kind = "clear" THEN None ELSE text])
    /\ UNCHANGED <<feed, mode, published, suppressed, work, shownVars, settled,
                   faults, history>>

\* The flood delay of the status passes.
SuppressionEnds ==
    /\ suppressed
    /\ suppressed' = FALSE
    /\ UNCHANGED <<feed, mode, published, queueVars, work, shownVars, settled, asked,
                   faults, history>>

-----------------------------------------------------------------------------
(* The worker: taking a task and settling it.                               *)

At(pc) == work # None /\ work.pc = pc
GoTo(pc) == work' = [work EXCEPT !.pc = pc]

Take ==
    /\ work = None
    /\ queue # <<>>
    /\ LET task == Head(queue) IN
       /\ work' = [kind |-> task.kind, body |-> task.body, text |-> task.text,
                   chosen |-> None, merged |-> 0, then |-> "none", pc |-> "dispatch"]
       /\ pending' = pending \ {task.kind}
    /\ queue' = Tail(queue)
    /\ UNCHANGED <<feed, mode, published, unfinished, suppressed, shownVars, settled,
                   asked, faults, history>>

\* The receipts of the task are settled and task_done is called for it and for
\* every task merged into it.
Finish(outcome) ==
    /\ settled' = [i \in DOMAIN settled |->
                      IF i \in Range(work.body) THEN outcome ELSE settled[i]]
    /\ work' = None
    /\ unfinished' = unfinished - 1 - work.merged

\* Every call is answered in one of three ways; "fail" and "flood" are faults.
Answer(o) ==
    /\ o # "ok" => faults < MaxFaults
    /\ faults' = IF o = "ok" THEN faults ELSE faults + 1

\* RetryAfter reaches _dispatch_with_retry: the task, with what was merged into
\* it, is dispatched again after the delay, or fails when its budget is spent.
\* A poll refresh is dropped and further ones are suppressed.
Flooded ==
    /\ \/ /\ work.kind # "busy"
          /\ work' = [work EXCEPT !.pc = "dispatch", !.merged = 0, !.chosen = None,
                                  !.then = "none"]
          /\ unfinished' = unfinished - work.merged
          /\ toolRetried' = \/ toolRetried
                            \/ work.pc \in {"open", "edit"} /\ IsCall(work.body[1])
          /\ UNCHANGED <<settled, suppressed>>
       \/ /\ Finish(IF work.kind = "busy" THEN "dropped" ELSE "failed")
          /\ suppressed' = (suppressed \/ work.kind = "busy")
          /\ UNCHANGED toolRetried

Send(kind, body) == chat' = Append(chat, [kind |-> kind, body |-> body, state |-> "up"])
Edit(msg, body) == chat' = [chat EXCEPT ![msg].body = body]

\* A message is deleted, or stays when the call fails.
Deleted(msgs, msg, ok) ==
    [msgs EXCEPT ![msg].state = IF ok THEN "gone" ELSE "undeleted"]

\* Mutant: the message is forgotten and left (clear_status_msg_info).
ClearStatusForgets ==
    /\ status' = None
    /\ UNCHANGED <<chat, faults>>

\* clear_status_message forgets the message before it asks for its deletion;
\* errors are suppressed.
ClearStatus ==
    /\ status' = None
    /\ IF status = None THEN UNCHANGED <<chat, faults>>
       ELSE \E o \in {"ok", "fail"} :
               Answer(o) /\ chat' = Deleted(chat, status.msg, o = "ok")

-----------------------------------------------------------------------------
(* The worker: tool calls gathered in one message.                          *)

Batchable(w) == w.body # <<>> /\ IsTool(w.body[1]) /\ mode # "verbose"
NewBatch == [entries |-> <<>>, msg |-> 0, draft |-> "none", last |-> <<>>]

\* Mutant: the rendered text is remembered before it was sent.
EnteredAsSent(b, i) ==
    [b EXCEPT !.entries = Append(b.entries, i), !.last = Append(b.entries, i)]

Entered(b, i) == [b EXCEPT !.entries = Append(@, i)]

Fits(b, i) == feed[i].kind # "long" /\ Len(b.entries) < MaxEntries

\* A long call is cut to the size of a whole batch.
Weigh(calls) ==
    FoldLeft(LAMBDA sum, j : sum + IF feed[j].kind = "long" THEN MaxEntries ELSE 1, 0, calls)

\* The newest calls that leave room for another.
Evicted(b, i) ==
    LET Kept(n) == SubSeq(b.entries, Len(b.entries) - n + 1, Len(b.entries))
        Room(n) == Weigh(Append(Kept(n), i)) <= MaxEntries
    IN [b EXCEPT !.entries = Kept(Max({n \in 0..Len(b.entries) : n = 0 \/ Room(n)}))]

\* _handle_tool_use_event: the call joins the batch; when it does not fit the
\* batch is flushed first, or old calls make room for it.
DispatchUse ==
    /\ At("dispatch") /\ Batchable(work) /\ IsCall(work.body[1])
    /\ LET i == work.body[1]
           b == IF batch = None THEN NewBatch ELSE batch
       IN \/ /\ mode = "ephemeral"
             /\ batch' = Entered(Evicted(b, i), i)
             /\ GoTo("deliver")
          \/ /\ mode = "batched" /\ Fits(b, i)
             /\ batch' = Entered(b, i)
             /\ GoTo("deliver")
          \/ /\ mode = "batched" /\ ~Fits(b, i)
             /\ work' = [work EXCEPT !.pc = "flush", !.then = "overflow"]
             /\ UNCHANGED batch
    /\ UNCHANGED <<feed, mode, published, queueVars, suppressed, status, toolMsgs, chat,
                   settled, asked, faults, history>>

\* After the flush, whether or not it succeeded: the call opens a batch of its
\* own, or is sent like a text when it fits into none.
Overflow ==
    /\ At("overflow")
    /\ LET i == work.body[1] IN
       IF Fits(NewBatch, i)
       THEN batch' = Entered(NewBatch, i) /\ GoTo("deliver")
       ELSE batch' = None /\ GoTo("content")
    /\ UNCHANGED <<feed, mode, published, queueVars, suppressed, status, toolMsgs, chat,
                   settled, asked, faults, history>>

\* _handle_tool_result: a result of a call of the batch is taken up by it, an
\* ephemeral one without its call is dropped, any other is sent like a text.
DispatchResult ==
    /\ At("dispatch") /\ Batchable(work) /\ ~IsCall(work.body[1])
    /\ LET call == feed[work.body[1]].of IN
       IF batch = None THEN GoTo("content") /\ UNCHANGED <<settled, unfinished>>
       ELSE IF call \in Range(batch.entries)
            THEN GoTo("deliver") /\ UNCHANGED <<settled, unfinished>>
       ELSE IF mode = "ephemeral" THEN Finish("dropped")
       ELSE /\ work' = [work EXCEPT !.pc = "flush", !.then = "content"]
            /\ UNCHANGED <<settled, unfinished>>
    /\ UNCHANGED <<feed, mode, published, queue, pending, suppressed, shownVars, asked,
                   faults, history>>

\* _send_or_edit_batch up to its call.  A row shows its call, not the result,
\* so a result often changes nothing.  A draft that a flush could not start
\* makes it raise.
Deliver ==
    /\ At("deliver")
    /\ \/ /\ batch.last = batch.entries
          /\ batch.msg # 0 \/ batch.draft # "none"
          /\ Finish("delivered")
          /\ UNCHANGED <<status, chat, faults>>
       \/ /\ batch.last # batch.entries
          /\ batch.draft = "unset"
          /\ Finish("failed")
          /\ UNCHANGED <<status, chat, faults>>
       \/ /\ batch.last # batch.entries
          /\ batch.msg # 0 \/ batch.draft = "streaming"
          /\ GoTo("edit")
          /\ UNCHANGED <<status, chat, faults, settled, unfinished>>
       \/ /\ batch.msg = 0 /\ batch.draft = "none"
          /\ ClearStatus
          /\ GoTo("open")
          /\ UNCHANGED <<settled, unfinished>>
    /\ UNCHANGED <<feed, mode, published, queue, pending, suppressed, batch, toolMsgs,
                   asked, history>>

\* The first message of a batch.  DraftStream.start reports every error as
\* None; an ephemeral batch is sent by safe_send, which lets a flood through.
Open(o) ==
    /\ At("open")
    /\ Answer(o)
    /\ \/ /\ o = "ok"
          /\ Send("batch", batch.entries)
          /\ batch' = [batch EXCEPT !.msg = Len(chat) + 1, !.last = batch.entries,
                         !.draft = IF mode = "batched" THEN "legacy" ELSE "none"]
          /\ Finish("delivered")
          /\ UNCHANGED <<suppressed, toolRetried>>
       \/ /\ o = "fail" \/ (o = "flood" /\ mode = "batched")
          /\ Finish("failed")
          /\ UNCHANGED <<chat, batch, suppressed, toolRetried>>
       \/ /\ o = "flood" /\ mode = "ephemeral"
          /\ Flooded
          /\ UNCHANGED <<chat, batch>>
    /\ UNCHANGED <<feed, mode, published, queue, pending, status, toolMsgs, asked,
                   previewed, flushFailed>>

\* replace_confirmed, or edit_with_fallback of an ephemeral batch.  While a
\* draft streams, what is confirmed is its preview.
EditBatch(o) ==
    /\ At("edit")
    /\ Answer(o)
    /\ \/ /\ o = "ok"
          /\ batch' = [batch EXCEPT !.last = batch.entries]
          /\ IF batch.draft = "streaming"
             THEN /\ previewed' = previewed \cup Range(batch.entries)
                  /\ UNCHANGED chat
             ELSE Edit(batch.msg, batch.entries) /\ UNCHANGED previewed
          /\ Finish("delivered")
          /\ UNCHANGED <<suppressed, toolRetried>>
       \/ /\ o = "fail"
          /\ Finish("failed")
          /\ UNCHANGED <<chat, batch, suppressed, toolRetried, previewed>>
       \/ /\ o = "flood"
          /\ Flooded
          /\ UNCHANGED <<chat, batch, previewed>>
    /\ UNCHANGED <<feed, mode, published, queue, pending, status, toolMsgs, asked,
                   flushFailed>>

-----------------------------------------------------------------------------
(* The worker: flushing the batch before anything else is shown.            *)

\* flush_batch up to its first call.  A batch that was never shown gets a
\* draft, which may stream.
Flush ==
    /\ At("flush")
    /\ \/ /\ batch = None
          /\ GoTo(work.then)
          /\ UNCHANGED batch
       \/ /\ batch # None /\ mode = "ephemeral"
          /\ IF batch.msg # 0 THEN GoTo("flushDelete") /\ UNCHANGED batch
                              ELSE GoTo(work.then) /\ batch' = None
       \/ /\ batch # None /\ mode # "ephemeral"
          /\ IF batch.draft \in {"streaming", "legacy"}
             THEN GoTo("flushFinal") /\ UNCHANGED batch
             ELSE GoTo("flushOpen") /\ batch' = [batch EXCEPT !.draft = "unset"]
    /\ UNCHANGED <<feed, mode, published, queueVars, suppressed, status, toolMsgs, chat,
                   settled, asked, faults, history>>

FlushDelete(o) ==
    /\ At("flushDelete")
    /\ Answer(o)
    /\ chat' = Deleted(chat, batch.msg, o = "ok")
    /\ batch' = None
    /\ GoTo(work.then)
    /\ UNCHANGED <<feed, mode, published, queueVars, suppressed, status, toolMsgs,
                   settled, asked, history>>

\* DraftStream.start: it streams, falls back to a message, or stays unset and
\* leaves the batch active.
FlushOpen(o) ==
    /\ At("flushOpen")
    /\ Answer(o)
    /\ \/ /\ o = "ok"
          /\ batch' = [batch EXCEPT !.draft = "streaming"]
          /\ GoTo("flushFinal")
          /\ UNCHANGED <<chat, flushFailed>>
       \/ /\ o = "ok"
          /\ Send("batch", batch.entries)
          /\ batch' = [batch EXCEPT !.draft = "legacy", !.msg = Len(chat) + 1]
          /\ GoTo("flushFinal")
          /\ UNCHANGED flushFailed
       \/ /\ o # "ok"
          /\ flushFailed' = TRUE
          /\ GoTo(work.then)
          /\ UNCHANGED <<chat, batch>>
    /\ UNCHANGED <<feed, mode, published, queueVars, suppressed, status, toolMsgs,
                   settled, asked, previewed, toolRetried>>

\* DraftStream.finalize: the last edit, or the message a preview turns into.
\* When it fails the batch stays active.
FlushFinal(o) ==
    /\ At("flushFinal")
    /\ Answer(o)
    /\ IF o = "ok"
       THEN /\ IF batch.draft = "streaming" THEN Send("batch", batch.entries)
                                            ELSE Edit(batch.msg, batch.entries)
            /\ batch' = None
            /\ UNCHANGED flushFailed
       ELSE /\ flushFailed' = TRUE
            /\ UNCHANGED <<chat, batch>>
    /\ GoTo(work.then)
    /\ UNCHANGED <<feed, mode, published, queueVars, suppressed, status, toolMsgs,
                   settled, asked, previewed, toolRetried>>

-----------------------------------------------------------------------------
(* The worker: texts, and tools that are not gathered.                      *)

\* Mutant: flush_if_active is left out.
DispatchContentUnflushed ==
    /\ At("dispatch")
    /\ work.kind = "content" /\ ~Batchable(work)
    /\ GoTo("merge")
    /\ UNCHANGED <<feed, mode, published, queueVars, suppressed, shownVars, settled,
                   asked, faults, history>>

DispatchContent ==
    /\ At("dispatch")
    /\ work.kind = "content" /\ ~Batchable(work)
    /\ work' = [work EXCEPT !.pc = "flush", !.then = "merge"]
    /\ UNCHANGED <<feed, mode, published, queueVars, suppressed, shownVars, settled,
                   asked, faults, history>>

\* How many texts at the head of the queue join a text that is not merged yet.
Mergeable ==
    LET Text(task) == task.kind = "content" /\ ~IsTool(task.body[1])
    IN IF IsTool(work.body[1]) \/ Len(work.body) > 1 THEN 0
       ELSE Max({k \in 0..Min({Len(queue), MaxMerge - 1}) :
                    \A j \in 1..k : Text(queue[j])})

\* Mutant: the last text that was merged is put back.
RemainingOneMore(n) == SubSeq(queue, Max({n, 1}), Len(queue))

Remaining(n) == SubSeq(queue, n + 1, Len(queue))

\* _merge_content_tasks drains the queue and puts back what remains.
Merge ==
    /\ At("merge")
    /\ LET n == Mergeable IN
       /\ work' = [work EXCEPT !.pc = "content", !.merged = n,
                      !.body = @ \o [j \in 1..n |-> queue[j].body[1]]]
       /\ queue' = Remaining(n)
    /\ UNCHANGED <<feed, mode, published, pending, unfinished, suppressed, shownVars,
                   settled, asked, faults, history>>

\* _process_content_task: a result edits the message of its call, if that is
\* known, once the status is gone.
Content ==
    /\ At("content")
    /\ IF /\ feed[work.body[1]].kind = "result"
          /\ \E m \in toolMsgs : m.call = feed[work.body[1]].of
       THEN ClearStatus /\ GoTo("toolEdit")
       ELSE GoTo("send") /\ UNCHANGED <<status, chat, faults>>
    /\ UNCHANGED <<feed, mode, published, queueVars, suppressed, batch, toolMsgs,
                   settled, asked, history>>

ToolEdit(o) ==
    /\ At("toolEdit")
    /\ Answer(o)
    /\ LET i == work.body[1]
           m == CHOOSE x \in toolMsgs : x.call = feed[i].of
       IN \/ /\ o = "ok"
             /\ Edit(m.msg, <<i>>)
             /\ toolMsgs' = toolMsgs \ {m}
             /\ Finish("delivered")
             /\ UNCHANGED <<suppressed, toolRetried>>
          \/ /\ o = "fail"
             /\ toolMsgs' = toolMsgs \ {m}
             /\ GoTo("send")
             /\ UNCHANGED <<chat, settled, unfinished, suppressed, toolRetried>>
          \/ /\ o = "flood"
             /\ Flooded
             /\ UNCHANGED <<chat, toolMsgs>>
    /\ UNCHANGED <<feed, mode, published, queue, pending, batch, status, asked,
                   previewed, flushFailed>>

\* A message of its own; the message of a call is kept for its result.
SendContent(o) ==
    /\ At("send")
    /\ Answer(o)
    /\ \/ /\ o = "ok"
          /\ Send("content", work.body)
          /\ toolMsgs' = IF IsCall(work.body[1])
                         THEN toolMsgs \cup {[call |-> work.body[1], msg |-> Len(chat) + 1]}
                         ELSE toolMsgs
          /\ Finish("delivered")
          /\ UNCHANGED <<suppressed, toolRetried>>
       \/ /\ o = "fail"
          /\ Finish("failed")
          /\ UNCHANGED <<chat, toolMsgs, suppressed, toolRetried>>
       \/ /\ o = "flood"
          /\ Flooded
          /\ UNCHANGED <<chat, toolMsgs>>
    /\ UNCHANGED <<feed, mode, published, queue, pending, batch, status, asked,
                   previewed, flushFailed>>

-----------------------------------------------------------------------------
(* The worker: the status message.                                          *)

Later == {j \in DOMAIN queue : queue[j].kind = work.kind}

\* The n-th position of a set, and a sequence without the positions of one.
Nth(P, n) == CHOOSE j \in P : Cardinality({i \in P : i <= j}) = n
Without(seq, P) ==
    LET kept == DOMAIN seq \ P
    IN [n \in 1..Cardinality(kept) |-> seq[Nth(kept, n)]]

\* Mutant: task_done is not called for the updates that are taken out.
CoalesceUncounted(done) ==
    /\ queue' = Without(queue, Later)
    /\ pending' = IF Later = {} THEN pending ELSE pending \ {work.kind}
    /\ unfinished' = unfinished - done

\* _coalesce_status_updates takes the later updates of the kind out of the
\* queue; the last one replaces this one.  task_done is called for each.
Coalesce(done) ==
    /\ queue' = Without(queue, Later)
    /\ pending' = IF Later = {} THEN pending ELSE pending \ {work.kind}
    /\ unfinished' = unfinished - Cardinality(Later) - done

Latest == IF Later = {} THEN work.text ELSE queue[Max(Later)].text

\* An ephemeral batch stands for the activity: updates are dropped.
DropStatus ==
    /\ At("dispatch")
    /\ work.kind \in {"busy", "note"}
    /\ batch # None /\ mode = "ephemeral"
    /\ Coalesce(1)
    /\ work' = None
    /\ UNCHANGED <<feed, mode, published, suppressed, shownVars, settled, asked, faults,
                   history>>

\* Otherwise the batch is flushed first.
DispatchStatus ==
    /\ At("dispatch")
    /\ \/ work.kind = "clear"
       \/ work.kind \in {"busy", "note"} /\ ~(batch # None /\ mode = "ephemeral")
    /\ work' = [work EXCEPT !.pc = "flush",
                   !.then = IF work.kind = "clear" THEN "clear" ELSE "update"]
    /\ UNCHANGED <<feed, mode, published, queueVars, suppressed, shownVars, settled,
                   asked, faults, history>>

Shown == status # None /\ status.text = Latest

\* send_status_text up to its first call; a text that is shown is not sent.
\* The choice of the newest update is local to this dispatch.
Update ==
    /\ At("update")
    /\ \/ /\ Shown
          /\ Coalesce(1)
          /\ work' = None
       \/ /\ ~Shown
          /\ Coalesce(0)
          /\ work' = [work EXCEPT !.chosen = Latest,
                         !.pc = IF status = None THEN "statusSend" ELSE "statusEdit"]
    /\ UNCHANGED <<feed, mode, published, suppressed, shownVars, settled, asked, faults,
                   history>>

\* A failed edit leads to an attempt to delete the message and to a new one.
StatusEdit(o) ==
    /\ At("statusEdit")
    /\ Answer(o)
    /\ \/ /\ o = "ok"
          /\ status' = [status EXCEPT !.text = work.chosen]
          /\ Finish("delivered")
          /\ UNCHANGED <<chat, suppressed, toolRetried>>
       \/ /\ o = "fail"
          /\ \E deleted \in BOOLEAN : chat' = Deleted(chat, status.msg, deleted)
          /\ status' = None
          /\ GoTo("statusSend")
          /\ UNCHANGED <<settled, unfinished, suppressed, toolRetried>>
       \/ /\ o = "flood"
          /\ Flooded
          /\ UNCHANGED <<chat, status>>
    /\ UNCHANGED <<feed, mode, published, queue, pending, batch, toolMsgs, asked,
                   previewed, flushFailed>>

\* A status that could not be sent is not tried again.
StatusSend(o) ==
    /\ At("statusSend")
    /\ Answer(o)
    /\ \/ /\ o = "ok"
          /\ Send("status", <<>>)
          /\ status' = [msg |-> Len(chat) + 1, text |-> work.chosen]
          /\ Finish("delivered")
          /\ UNCHANGED <<suppressed, toolRetried>>
       \/ /\ o = "fail"
          /\ Finish("delivered")
          /\ UNCHANGED <<chat, status, suppressed, toolRetried>>
       \/ /\ o = "flood"
          /\ Flooded
          /\ UNCHANGED <<chat, status>>
    /\ UNCHANGED <<feed, mode, published, queue, pending, batch, toolMsgs, asked,
                   previewed, flushFailed>>

\* process_status_clear.
Clear ==
    /\ At("clear")
    /\ ClearStatus
    /\ Finish("delivered")
    /\ UNCHANGED <<feed, mode, published, queue, pending, suppressed, batch, toolMsgs,
                   asked, history>>

-----------------------------------------------------------------------------

Answers == {"ok", "fail", "flood"}

Next ==
    \/ EnqueueContent
    \/ \E kind \in StatusKinds, text \in Texts : EnqueueStatus(kind, text)
    \/ SuppressionEnds
    \/ Take
    \/ DispatchUse \/ Overflow \/ DispatchResult \/ Deliver
    \/ Flush
    \/ DispatchContent \/ Merge \/ Content
    \/ DropStatus \/ DispatchStatus \/ Update \/ Clear
    \/ \E o \in Answers :
          \/ Open(o) \/ EditBatch(o)
          \/ FlushDelete(o) \/ FlushOpen(o) \/ FlushFinal(o)
          \/ ToolEdit(o) \/ SendContent(o)
          \/ StatusEdit(o) \/ StatusSend(o)

Spec == Init /\ [][Next]_vars

-----------------------------------------------------------------------------
(* Properties.                                                              *)

Up(m) == chat[m].state = "up"
Showing(i) == {m \in DOMAIN chat : Up(m) /\ i \in Range(chat[m].body)}
ResultsOf(i) == {j \in DOMAIN feed : feed[j].kind = "result" /\ feed[j].of = i}

\* What queue.join waits for is what is queued, in flight and merged; an update
\* is pending exactly while one of its kind is queued.  put_nowait in
\* _merge_content_tasks and _coalesce_status_updates is undone by task_done.
QueueAccounts ==
    /\ unfinished = Len(queue) + (IF work = None THEN 0 ELSE 1 + work.merged)
    /\ \A kind \in StatusKinds :
          Cardinality({j \in DOMAIN queue : queue[j].kind = kind})
              = IF kind \in pending THEN 1 ELSE 0

\* An entry whose receipt was settled as delivered can be read in the topic: its
\* own text, for a call also its result, and for a result also its call.  Ephemeral
\* batches are meant to go.  A call that was only acknowledged on a streaming
\* preview (flush_batch opens one) is not covered.
DeliveredIsShown ==
    \A i \in DOMAIN settled :
        (settled[i] = "delivered" /\ ~(mode = "ephemeral" /\ IsTool(i))) =>
            LET calls == IF feed[i].kind = "result" THEN {feed[i].of} ELSE {}
            IN \/ \E j \in {i} \cup calls \cup ResultsOf(i) : Showing(j) # {}
               \/ ({i} \cup calls) \cap previewed # {}

\* While no flush failed, the texts and the calls on display are in the order of
\* the transcript.
OrderKept ==
    ~flushFailed =>
        \A i, j \in DOMAIN feed :
            (i < j /\ feed[i].kind # "result" /\ feed[j].kind # "result") =>
                \A m \in Showing(i), n \in Showing(j) : m <= n

\* Nothing is on display twice, unless a call was taken again after a flood.
ShownOnce ==
    ~toolRetried =>
        \A i \in DOMAIN feed :
            /\ Cardinality(Showing(i)) <= 1
            /\ \A m \in Showing(i) :
                  Cardinality({p \in DOMAIN chat[m].body : chat[m].body[p] = i}) = 1

\* A status message, or the tool message of an ephemeral batch, that is on
\* display is the one the bot will edit or delete.
NoGhosts ==
    \A m \in DOMAIN chat : Up(m) =>
        /\ chat[m].kind = "status" => status # None /\ status.msg = m
        /\ chat[m].kind = "batch" /\ mode = "ephemeral" => batch # None /\ batch.msg = m
=============================================================================
