# A verification project for ccgram

ccgram bridges coding agents that run in terminal windows to Telegram topics. It
reads each agent's transcript file and hook events, sends what is new to the topic
bound to the window, and carries the user's answers back as keystrokes. The hard
part is that many actors share the state: a monitor coroutine, a queue worker per
user, handlers of user actions, tasks that make and delete topics, and hook processes
outside the process. Any of
them may fail, and the process may end at any point, yet nothing the agent said
may be lost. This directory states that promise and checks the code against it.

Paths below are relative to `src/src/ccgram/`.

## Inventory

| Component | State it keeps | Operations | Correct when |
|---|---|---|---|
| Acknowledgement contract: `delivery_contract.py` | a receipt: checkpoint, pending count, closed, failed | track, settle, fail, close; leading settled run and its offset | the offset never covers a receipt still owed, and is the largest such |
| Monitor state: `monitor_state.py` | per session the durable watermark and the parse position; skip intents; events offset; dirty flag | load, save, request, cancel and complete a skip, commit offsets | a clean state is what the file holds; a failed write is not forgotten |
| Session monitor: `session_monitor.py` | receipt lists, notice receipts, retry times | one cycle: hook events, barriers, read, register, dispatch, commit; stop | the watermark only covers what was handled; a barrier pauses its source and ends |
| Transcript reader: `transcript_reader.py` | parse context, open tool calls and fences, cached prefixes, pending batches, startup clamp | read, clamp, rebuild, replay, adopt a file, clear a session | an entry is parsed once per process and again after a replay; call and result stay together |
| Message queue and routing: `handlers/messaging_pipeline/` | a queue and a worker per user, the task in flight, tool batches | route, enqueue, merge, purge, send, retry, settle, drain | each tracked task is settled once, in order |
| Hook events: `hook.py`, `event_reader.py`, `handlers/hook_events.py` | `events.jsonl`, the offset | append, read, dispatch | in order, at most once |
| Session protocol: `session_protocol/`, `api/server.py` | action records, requests, subscriptions | execute an action, answer a request, subscribe, replay | an action acts at most once; an answer reaches the request it was given for; a subscriber has no gap without a resync |
| Routing and bindings: `thread_router.py`, `state_persistence.py` | topic to window, retired topics, claims of creations under way, deletions in flight; a debounced file | bind, unbind, retire, begin, attach, prepare, commit, abort a claim, begin and end a deletion, save | a window has one topic; no two claims meet; what is being deleted is free; the file is never ahead of a deletion |
| Session map: `session_map.py`, `session_lifecycle.py` | the map file with replay markers, the sessions last seen per window, the session of each window state | write under a lock, read, prefer the primary session, reconcile, prune | a marked session is read from its start; a running agent is in the map; nothing is tracked for ever |
| Identity: `window_resolver.py`, `session_resolver.py`, `herdr_targets.py`; window state: `session.py`, `window_state_store.py` | aliases, attributes of windows | resolve, migrate | a window never resolves to another window's session |
| Topics: `handlers/topics/`, `handlers/recovery/` | tasks, window locks, creation transactions | create for a window, launch a window, recover a claim, delete a retired topic, bind and unbind | one topic per window, none lost track of, none deleted while something needs it |
| Polling and window death: `handlers/polling/`, `idle_tracker.py` | per-window timers and strategies | poll, declare dead, clean up | a live window is never declared dead |
| Multiplexers: `multiplexer/` | caches of windows and agent status, event streams | list, send keys, subscribe, reconcile | a stale listing never closes a window |
| Interactive prompts, status, live view | messages shown, modes | show, refresh, answer | a prompt's buttons answer that prompt |
| Providers, shell, commands, voice, send, text, mini app, CLI | little of their own | parse, format, translate | mostly pure functions and user interface |

How they interact: hook processes append events and session-map entries; the
monitor reads both, then each transcript, and hands messages to routing, which puts
tasks on a user's queue. A context variable carries the batch's receipt along, so
every task enqueued while one message is handled is tracked by it. Workers send and
settle. The monitor commits the settled run to the state file. A user's *Jump to
live* writes a barrier, purges the queue and lets a visible notice complete the skip.
A new window makes the monitor ask for a topic; a message in an unbound topic makes a
launch ask for a window. Both write a claim before they ask, and whatever they do not
live to settle the recovery takes up. Retired topics are swept and deleted. All of them
share the routing record and yield at every await.
The session protocol shares transcripts and input with the Telegram side.

What is hard to test is listed in `PROJECT.json` under `hazards`: steps of monitor,
worker and user in unusual orders; a process end between any two steps; failed
saves, sends and reads; timeouts that race late answers; stale checks.

## Modules

    DeliveryContract ── ReceiptLedger ── ReceiptLedgerProofs
          │  └── DeliveryContractProofs ──┤
          └── Delivery ── MCDelivery      │
                │  └── DeliveryProofs ────┘
                └── (implements) AtLeastOnce
    HookEvents ── SessionMap ── MCSessionMap
                       └── SessionMapProofs (also about HookEvents)
    ThreadRouter ── Topics ── MCTopics
                      └── TopicsProofs
    EventHub ── EventHubProofs
    TopicFeed ── MCTopicFeed
          └── TopicFeedProofs
    RequestStore ── Actions ── MCActions
                       └── ActionsProofs

`DeliveryContract` holds the pure operators of `delivery_contract.py`: receipts, the
leading run (`SettledPrefix`) and its offset (`SettledRunOffset`). A receipt is a
record; its identity is the position or object that holds it.

`ReceiptLedger` is one session's receipt list with any number of durable consumers.
Each parse cycle registers one receipt per consumer, all at the same checkpoint, and
that tie is the case `settled_run_offset` exists for. Receipts are tracked, settled,
closed in any order. It leaves out everything else so that the offset rule can be
proved for every number of consumers.

`AtLeastOnce` is the promise: a durable position that moves forward only over entries
that were handled, or given up by a skip.

`Delivery` is the detailed model: one session, one topic, one durable consumer.

| Part of the model | Code |
|---|---|
| `pc` from `sleep` to `prefix` | the order of `_monitor_loop`: resume notices, expire barriers, commit skips, `check_for_updates`, register, dispatch, commit |
| `reading`, `parsed`, `prefix`, `rebuild`, `clamp`, `openCalls`, `toolFence` | the reader's `_read_session_entries`, `parsed_offset`, `_file_prefixes`, `_parser_rebuild_pending`, `_startup_clamped`, `_pending_tools`, `_tool_delivery_fences` |
| `order`, `rcpt`, `notice`, `retrying` | `_delivery_receipts`, the receipt objects, `_skip_notice_receipts`, `_skip_retry_at` |
| `disk`, `watermark`, `skip`, `dirty` | `monitor_state.json`, `last_byte_offset`, the intent, `_dirty` |
| `queue`, `flight` | the user's queue and what its worker holds |
| `RequestSkip` | `request_backlog_skip`, one step since nothing in it suspends |
| `StopMonitor`, `StopWorkers`, the last commit | `stop_delivery_runtime` |
| `Restart` | the process ends anywhere and loads the state file |

Coroutines are interleaved where the code awaits (`AtAwait`); the monitor positions
between two awaits exclude the worker and the user only where the code does. A
receipt object nothing refers to may be used again (`FreeReceipts`), so three objects
stand for any number. Histories (`delivered`, `skipped`, `acked`) exist for the
properties and no guard reads them.

`HookEvents` is the event log: writers append lines, someone may empty the file, the
reader restarts at zero when its offset lies beyond the end, the offset moves before
the events are dispatched, and becomes durable whenever the state is saved.

`SessionMap` extends `HookEvents` with what the events are about. A hook process writes
its session into the map under a lock, then its event into the log, in two steps the
monitor can come between. Agents start, resume, replace each other (`/clear`), nest and
exit. The monitor's cycle runs through `HookEvents`' own actions.

| Part of the model | Code |
|---|---|
| `hook`, `HookLooks` to `HookWritesEvent` | `_process_hook_stdin`: `_refresh_session_map_if_stale` for an event other than a start, `_update_session_map`, `_write_event` |
| `stage` from `boot` to `check` | `_monitor_loop`: start-up cleanup, `list_windows_for_reconciliation`, `_read_hook_events`, `_read_and_sync_session_map` to `prune_session_map`, `check_for_updates` |
| `listing`, `cur`, `last` | `all_windows`, `current_map`, `SessionLifecycle._last_session_map` |
| `map`, `state` | `session_map.json`; the `session_id` of each window state |
| `tracked`, `saved`, `fresh` | the tracked sessions in memory and in `monitor_state.json`; `_fresh_sessions` |
| `Prefers` | `_prefer_existing_primary`, with the order of `writers` for modification times |
| `ReserveReplay` | `_reserve_replay_start`: offset zero saved, then the marker consumed |

`ThreadRouter` holds the methods of the class of that name, each as an operator from a
routing record to the next one; a method that raises has its condition in `CanX`.
`Topics` runs them: its actions are what the flows do between two awaits.

| Part of the model | Code |
|---|---|
| `router`, `disk`, `timer` | the router's attributes, its part of `state.json`, the debounce timer |
| `Save`, `SaveAfterFault`, `SaveBoth`, `Debounce` | `flush_state` (strict: a failed write raises, and what the handler does then is in the action), two flushes in a row, `schedule_save` |
| `seen`, `job` with flow `create` | `_handle_new_window_locked`, `create_topic_in_chat`: claim, request, second attempt, commit, and the callback of a cancelled task (`late`) |
| `job` with flows `launch`, `banner`, `resume` | `launch_window`, `_create_and_bind_window`, `_create_resume_window`: claim, offer check, backend, attach, readiness, commit, and what each does on failure |
| `rec` | one task of `recover_topic_provisioning` on one claim: presence, probe, readiness, lock, recreate, commit |
| `cleanup` | one `cleanup_retired_topic`: flush, clear state, delete, close as a fallback |
| `Locked`, `PendingCreation` | `_window_topic_lock`; `_is_pending_user_creation` with the claims and `pending_creation_transaction` |
| `remote`, `madeFor`, `alive` | Telegram's topics and the back end's windows; `madeFor` and `everBound` are histories |
| `Restart` | the process ends anywhere and loads `state.json` |

`EventHub` is the event stream of the session protocol, from publication to a client
that resumes. `published` and `oldest` are the hub's sequence and ring, `socket` to
`outbox` one connection on the server, `wire` the frames under way, the rest the client
as `docs/protocol/client-guide.md` prescribes it. The server subscribes a connection
before it reads the hello frame, reads replay and boundary in one step, sends the replay
while the queue already fills, and then sends from the queue only what lies above the
boundary. A client sends one subscribe frame per connection, which can only narrow the
subscription; widening it later on the same connection is not modelled, since nothing
acknowledges a subscribe frame and the guide asks for no more than one.

`RequestStore` holds the pure operators of `session_protocol/requests.py`: the open
request of a session and the hook evidence behind it. `Actions` runs them: clients
submit actions to executors, hooks are taken in without a lock and processed later,
and the screen is observed under a lock.

| Part of the model | Code |
|---|---|
| `pc` from `lock` to `sent` | `ActionExecutor._once`: the input lock, `_preflight` (observe, validate, read the prompt, judge), `_perform` (verify, send, confirm the prompt is gone), `_record_delivery` |
| `result`, `landed` | the durable rows of `actions`; what the terminal took, a history |
| `store` | `RequestStore`: `_open`, `_hooks`, `_hook_prompts`, `_consumed_hooks`, `_latest_hooks`, `_deferred` |
| `queue`, `intake`, `match` | `ProtocolRuntime.hooks`, what went through `observe_hook`, the entry `_match_hook` works on |
| `lock`, `look` | `_refresh_lock`, and what its owner's observation read before its awaits |
| `binding`, `version` | the durable row of `sessions` |
| `input` | `input_lock` of the target |
| `Restart`, `booting` | the process ends; `start_runtime` observes the session, then the hooks in the tail of the log |

`TopicFeed` is what a user sees of one topic. `Delivery` has the send of a task as one
step with an outcome; here the worker goes from one call to Telegram to the next, with
the batch of tool calls, the status message and the tool messages it keeps between
tasks, and `chat` is the list of messages on display.

| Part of the model | Code |
|---|---|
| `feed`, `published` | the entries of a transcript: a text, a call, a call too long for a batch, the result of a call; how many were queued |
| `mode` | `get_batch_mode`: `batched`, `ephemeral`, or `verbose` (no batches) |
| `queue`, `pending`, `unfinished` | the user's queue, `_pending_status_updates` and `_pending_status_clears`, the count behind `queue.join` |
| `work.pc` | the next call or decision of `_dispatch`, `process_tool_event`, `flush_batch`, `_process_content_task`, `send_status_text` |
| `batch` | `_active_batches`: entries, message, mode of its draft (`none`, `unset`, `streaming`, `legacy`), `last_sent_text` |
| `status`, `toolMsgs` | `_status_msg_info`, `_tool_msg_ids` |
| `Answer`, `Flooded` | what a call raises or returns; `RetryAfter` in `_dispatch_with_retry` |
| `previewed`, `flushFailed`, `toolRetried` | histories, for the three exceptions below |

`MCDelivery`, `MCActions`, `MCTopics`, `MCSessionMap` and `MCTopicFeed` give their modules
instances.

### Abstractions of Delivery

* Entry *i* is one transcript record and offset *i* the byte after it; one entry
  renders to at most one message. Appends are whole entries: partial lines are not
  modelled.
* Initially the session is tracked at offset 0 by a replay-from-start mark and that is
  on disk, the state of a new session after its first save.
* "Intentionally dropped" covers entries that render to nothing, that no bound topic
  takes, or whose window closed. The code settles them as handled, and so does the
  model.
* The window leaves and returns to the confirmed listing (`WindowChanges`), which is
  what a multiplexer with intermittent listings does. Removal of a session is not
  modelled.
* The rebinding of a topic is a flag, the answer of `validate_skip`.
* A barrier's age is a flag that time sets. The legacy intents without a
  creation time are not modelled.
* Ties of checkpoints need several consumers and are in `ReceiptLedger` only.
* A file is never really replaced; that an append is *taken* for a replacement is
  modelled (`GrowthTakenForReplacement`).

### Abstractions of Actions

* One session and one terminal. A prompt is its text: two drawings of the same text are
  the same prompt, as they are for the code, which compares fingerprints.
* A hook is its identity. `Asks` gives the prompt that shows what it asks for, or None
  for the end of a turn; hook *i* is line *i* of the log.
* `message` and `dismiss` are `message.send` without and with `dismissRequest`.
  `interrupt` stands for the kinds that type whatever requests are open.
* The first `current()` of `_once` only finds the target of the input lock. What it does to
  the store any `Refresh` does.
* The foreground process is verified and the input sent in two steps. Evidence that
  arrives between the two does not stop the input: the code judges evidence before it
  verifies (`backend.py`, `send_text`), and `DecidedOnEvidence` claims no more.
* The pane and the expected prompt a Telegram handler may pass to `execute` are left out
  (`actions.py:342`): they choose a pane and reject an action whose prompt has changed,
  before anything is typed.
* Tombstones of used hooks end with the process, so a hook answered before a restart
  may give controls again while it is fresh. `OneRequestPerHook` is about one process.

### Abstractions of Topics

* One user and one chat. Display names, group metadata, legacy bindings without a chat
  and retry times are left out: a call that comes before its time changes nothing, so
  it may come at any time.
* A topic is made, bound, closed or deleted at Telegram in the step that answers the
  request. An error that follows an effect is `TelegramTimesOut`, for the attempts in
  `HiddenEffect`; a deletion that fails did not happen.
* `Unlucky` counts failed writes and bad answers together; a flow may meet any of them
  at any of its steps while `MaxFaults` lasts.
* Flows that clear a topic's state first (`BeforeDelete`, `RecClear`) yield there. The
  handlers of *unbind*, a closed topic and the window picker are one step each,
  although the first two clear state across awaits before they unbind.
* A backend's failure to make a window proves that there is none, or proves nothing
  (`BackendFails`), as `_is_definitive_create_failure` tells them apart.
* `RecoverWindow` and `ResumeWindow` replace the window the topic is bound to when they
  start. The banner takes it from its button (`recovery_banner.py:121`), which may be older
  than the binding when the offer came with a message of the user.
* Automatic deletion of dead topics is switched on (`autodelete_dead_topics`).
* The guard a launch registers for its window with a time limit adds to `Locked` and to
  the claim only after these have ended, and is left out: properties hold without it.

### Abstractions of SessionMap

* Every window is bound, runs Claude, and lives on a back end whose map is pruned and
  whose window ids are stable. Provider selection, alias folding, adoption of unbound
  windows and `wait_for_session_map_entry` are left out.
* A session has one transcript, which exists from its first write on. How long ago it
  was written is any time, so the primary-session grace holds or not (`grace`).
* Snapshot, load, reconciliation and pruning are one step: between the read of the map
  and the end of the prune nothing but hook processes runs, and a hook that writes
  between the two is pruned as one that wrote before.
* The end of a session is one step, since its hook leaves the map alone.
* `state.json` is loaded as last saved or as before this process, since its saves are
  debounced.
* Truncation of the log and saves by other coroutines are in `HookEvents` only, so the run
  does not show the order of events over a truncation; `InOrder` does.

### Abstractions of TopicFeed

* A call to Telegram that fails had no effect; a send whose answer is lost is not
  modelled here. The fallback from formatted to plain text, and the one retry inside
  `_push_legacy` and `_start_streaming`, are part of their call.
* A batch row shows its call, not the result, as `_format_batch_entry` does; rows of equal
  calls and task lists, whose text changes with results, are left out.
* A long call takes the whole room of a batch. In ephemeral mode it is cut and evicts the
  others; in batched mode it is sent like a text.
* Every task has a chat id, as the routing sets it, so a status message is never converted
  to content. The window stays alive and bound, and its mode does not change.
* The deletion of a message may fail; such a message is marked `undeleted` and nothing is
  claimed of it.

## What the runs check

| Run | Instance | Shows |
|---|---|---|
| `ledger` | 2 cycles, 2 consumers, 2 tasks per receipt | `WatermarkBelowOutstanding`, `OffsetIsLargestSafe`, `WatermarkMonotone`: with ties and failures in every order |
| `safety` | a text that calls a tool, its silent result, two more texts; clamp of 1; every fault but late reads; two process ends | `DurableCovered`, `ToolPairsWhole`, `NeverRequeueCommitted` |
| `jump` | 2 entries, one jump, failed saves, rebinding, one process end | `DeliversAtLeastOnce`, `BarrierFreezesWatermark`, `CleanMeansSaved`, `SettleNeverRaises` |
| `barrier` | 1 entry, one jump, failed sends, rebinding, late read failures, a window that comes and goes | `BarrierRetired`, under fairness |
| `live` | a text that calls a tool, its result, a text; one process end, rebinding | `EventuallyDurable`, under fairness; behaviours in which two mergeable texts of one batch share a send are excluded (disagreement 1), merges across batches are in |
| `event_hub` | 2 sessions, 3 events an epoch, ring, queue and socket of 2, 3 connections, one server restart | `NoGap`, `StreamInOrder`, and `Informed` under fairness |
| `actions` | 2 hooks asking for the same text, an answer and another action, 2 executors, intake queue of 1, 2 drawings, the first hook ages, one fault | `InputsOnce`, `OutcomeIsTrue`, `OneRequestPerHook`, `ControlsAreNewest`, `DecidedOnEvidence`, `FinishingKeepsNewEvidence` |
| `topics` | 2 topics, 2 windows, 2 claims, 1 recoverer, history of 1; 2 faults; 3 events of users, windows or crashes | `RoutingIsUnique`, `DeletingIsFree`, `DeletionIsDurable`, `NoStrandedTopic`, `NoDuplicateTopic`, `RecoveryNeverEvicts`, `ReleaseLeavesTrace` |
| `topics_live` | 2 topics, 1 window, 1 claim, 1 recoverer; 2 faults, 3 events | `ClaimsResolve`, `RetiredTopicsGo`, under fairness |
| `session_map` | 1 window, 2 sessions, 3 events, 2 hooks and one end of a session, one nested agent, one fault, one process end | `OpeningKept`, `NothingLeftTracked`, `InOrderAtMostOnce` |
| `topic_feed` | 6 transcripts of 4 entries in each mode, batches of 2, merges of 2, 2 status tasks with 2 texts, 2 calls that fail or are refused | `QueueAccounts`, `DeliveredIsShown`, `OrderKept`, `ShownOnce`, `NoGhosts` |

Bounds. Four entries with three texts give a run before, at and after a failure, a
batch of two next to a batch of one, and a tool call whose result comes after it in the same
read or a later one, which is what the settled run, the fences and merging
distinguish. A clamp of one passes over part of a backlog and keeps part. Three receipt objects cover the largest number in use with one consumer
in these instances: a run that needed a fourth would stop at `Register`, and deadlock
is checked. One process end after any step reaches every state file; the second in
`safety` replays over a replay. Symmetry permutes receipt objects, and is used in
safety runs only.

Deadlock is checked except where the model may stop by design: without rebinding or
closing faults nothing happens after a graceful stop once the allowed restarts are
used (`live`, the single-question runs), and likewise in `EventHub`, `Topics` and
`SessionMap`, whose environment may stop publishing, connecting, or doing anything.

In `event_hub` three events overflow a queue of two and push the first out of the ring;
of three connections the second can resume, be cut in the middle of its replay, and the
third resumes from there; a restart reuses the numbers a cursor of the old epoch names.

In `actions` two hooks of one text are the case in which evidence can be confused: the
second supersedes the first, overflows the intake queue of one, or arrives while the
first is matched or its prompt answered. Two drawings let the prompt go and return.
The one fault is a failed await of an executor, of an observation or of a match, a
change of the foreground process, or the end of the process. Executors are symmetric.
Hooks that end a turn are in the model and in the proof but not in this instance.

In `topics` two claims let a creation and a launch, or a launch and a recovery, want the
same window; two topics and two windows are what an eviction and a duplicate need. Three
events are enough to make a topic, launch for it and delete it, or to start, cancel and
crash. Two faults let a write and the write of its error path both fail. `HiddenEffect`
holds only the second attempt: see the disagreements. Topics, windows and claims are
symmetric. `topics_live` has one window and one claim, and no symmetry.

In `session_map` one window is enough: sessions of two windows meet only in the map,
where each has its own entry, and in the tracked sessions, which two sessions of one
window share as well. What two windows add is covered by the theorems, which hold for any
number, and by instances too large to repeat with every check: TLC went through two windows and
two sessions with three hook processes and one process end (7.1 million states), and with two
hooks, one session end and one process end (3.4 million). Two hooks and two sessions give a replacement, a resumption, a
nested agent, or a start between the monitor's read and its prune.

In `topic_feed` the transcripts fill a batch of two and overflow it, hold a long call,
results that come at once, late and in the other order, texts that merge and texts
that separate calls. Two faults make a batch fail to open and its flush fail as well, or
an edit fail and what replaces it. Two status tasks are queued together, coalesce, or
race a clear. It stops when its transcript is shown.

Fairness. The monitor is one coroutine that always has a next step, so weak fairness
of `MonitorStep`. The worker may run only while the monitor awaits, so it is enabled
again and again rather than continuously: strong fairness, which an event loop that
runs its ready coroutines in turn gives. Time passes (`BarrierAges`). The agent, the
user, faults and restarts are never forced. Both liveness properties of `Delivery` are about
a process that keeps running (`Stopped` is an allowed end), and about monitor cycles
that are not cut short by an error. `EventuallyDurable` also assumes that no send merges
two texts of one batch (`MergedWithinBatch`): after one the commit stays fenced until the
process restarts, without any fault (disagreement 1). The two texts of `live` meet in one
send when the result between them is dropped by an unbound topic; when they come from
different batches, that send has to settle both receipts. In `EventHub` the handshake, the sender task and both
ends of a socket are weakly fair: each waits only for the other end. Publishing,
connecting, loading and restarting are never forced.
In `Topics` a task goes on while it can and every request ends by an answer, an error or
a timeout: weak fairness per task. The recoverer is started again and again and goes
round all the claims, while other tasks may hold a claim in between: strong fairness of
each `RecPick`. Users, windows, cancellations and crashes are never forced. What
`ClaimsResolve` allows to stay is what the code keeps on purpose: a claim that names
neither a topic nor a window after a crash or a lost answer, and one whose window a user
gave to another topic.

Every property has a mutant in `PROJECT.json`: a plausible bug of one mapped
definition that makes it fail. Each mutated operator sits above the definition it
would replace, marked "Mutant".

## Disagreements found

One run expects a violation: the code does not do what its documentation says.

1. `merge`: two texts of one batch folded into one send settle their shared receipt
   once though it was tracked twice (`_delivery_receipts_for_settlement` removes
   duplicates). The receipt stays pending and nothing behind it is committed until
   the process restarts, which then replays. `EventuallyDurable` excludes behaviours
   with such a send, so it says nothing of this receipt.

The others are in the models and kept out of the properties or the instances, so that
what else goes wrong would still show:

2. The map is pruned with the windows the monitor listed at the start of its cycle,
   before the hook events were dispatched. A window that appeared since and whose hook
   has written its entry loses it, although its agent runs. The prune reads the file
   again under the lock for the sake of such a write (`session_map.py:706`), but the
   listing it compares with is the older one (`Pruned` in `SessionMap`).
3. The events offset is moved, and may be saved, before the events it passes are
   dispatched (`architecture-map.md:91` says after). `InOrderAtMostOnce` does not claim
   that none is lost.
4. When the second `stat` of a read, or its tail marker, fails, the entries are dropped
   while the parse position stays behind them; a later receipt then commits past entries
   that were never dispatched. The runs about coverage exclude the fault `lateRead` for
   that reason (with it `DurableCovered` fails); `barrier` includes it.
5. An append between the two stats of a read is taken for a replaced file when nothing
   was consumed yet, or when no cached prefix covers the parse position (after the clamp
   or a jump); the entries up to the new end count as history. The passing runs include
   this fault; the entries it passes over count as given up.
6. The first attempt of a topic creation may time out after Telegram made the topic; the
   second attempt then makes another, and the first topic has no claim
   (`topic_orchestration.py:91`). With `"sent"` in `HiddenEffect`, `NoStrandedTopic` fails.
7. A topic made for a window that a user bound meanwhile takes the window from the
   user's topic when it is committed, though `_find_topic_owner` looks for a user "without
   evicting another topic"; it looks before the request only. `RecoveryNeverEvicts` is about
   the recovery, which does look again.

8. A tool call is acknowledged on a preview. `tool_batch.py:401` says a streaming draft
   "cannot acknowledge this task safely" and opens batches without one; but a batch that
   could not be opened gets a draft from `flush_batch`, which may stream, and when its
   final send fails the batch stays active and the next call is confirmed on the preview.
   `DeliveredIsShown` excepts the calls in `previewed`.
9. After a failed flush the batch stays active, and later calls are edited into a message
   that stands above the texts sent since (`OrderKept` holds while no flush failed). When
   the draft could not be started at all, every later call of the batch fails with a
   `RuntimeError` until a flush succeeds (`Deliver`).
10. A call that meets a flood while its batch is sent or edited is dispatched again and
   entered a second time (`_add_tool_use_entry` has no memory of the first); `ShownOnce`
   excepts such calls.
11. A hook notice is durable, "must not be discarded merely because Telegram temporarily
   rate-limits the chat" (`message_task.py:55`). While one is queued a second one is
   dropped by `enqueue_status_update`, and after a coalescing that meets a flood the older
   of the two is retried, not the selected one (`Flooded` forgets `chosen`).

## What is proved

All proofs hold for every value of the constants that satisfies the module's
assumption, and the runs evaluate each assumption. Most of these only bound a counter or
keep `None` apart from what it is compared with. More is asked where the code says so: a
queue holds at least one element, hooks are the lines 1..*n* of a log, an action has
at least one kind, an entry's call lies before it.

`DeliveryContractProofs` has the facts about the operators: `SettledPrefix` is a
leading run that stops at the first receipt not in it (by taking the least index that
is not), and `SettledRunOffset` is either none or a checkpoint of the run below the
fence's.

`ReceiptLedgerProofs`: `WatermarkBelowOutstanding` is not inductive, since a receipt
registered later must also lie above the watermark. The invariant `IInv` adds that
checkpoints are positive, never decrease along the list, lie above the watermark and
at or below the parse position, and that the watermark is at most the parse
position. Then `Register` adds checkpoints above the old parse position, `Commit`
keeps the receipts from the fence on and moves the watermark strictly below the
fence, and the other steps change one receipt or empty the list. `WatermarkNeverFalls`
follows since what a commit persists is a checkpoint of the list, and
`LargestSafeOffset` since the list is sorted.

`DeliveryProofs` goes up in steps, each invariant resting on those before it and each
with one lemma per action:

1. `TypeCorrect`. The type invariant is inductive because it includes that a read is
   under way at `reading`, a dispatch at `dispatch`, that every task carries a receipt and
   every checkpoint lies in the transcript. `CleanStateSaved`: a clean state equals its
   file, by the only ways a step touches the four variables. `BarrierHolds` combines
   the two: while a barrier is on disk either it is in memory too, where `CommitHeld`
   blocks the commit, or the state is dirty and the write that moves the watermark
   removes it.
2. `SettlesSafely`. `SettleNeverRaises` is not inductive: that a receipt of a waiting task
   is pending says nothing of the next task of the same receipt. `Tracks` counts: a
   receipt is pending at least as often as tasks carry it, in the queue or in flight
   (*at least*, because of the disagreement on merging below), and `Singles` says that only
   a task in flight carries several. A purge takes tasks out of the middle of the queue, so
   the proof counts positions through an injection.
3. `PlacesKept`. The invariant `Places`: durable position, watermark, the checkpoints in
   the order of the list, the parse position and the end of the file keep this order; a
   read, a batch and a dispatch stand where they began; before the first read of a process
   nothing is outstanding. `NothingRequeued` follows: what a dispatch queues lies above the
   watermark.
4. `NothingLost`. `Accounts`: with no barrier, each entry between watermark and parse
   position is handled, waits in the batch, or is *owed* by the receipt whose range it falls
   into, because that receipt failed, has not been routed so far, has a task with
   the entry, or was left pending by the shutdown. A receipt that owes an entry is not
   ready, so the settled run stops before it. Two parts are about what is given up: where
   growth of the file may be taken for its replacement nothing read is outstanding, so what
   is given up then lies right behind what already was. The theorem assumes `"lateRead"
   \notin Faults`: with such a read the code does drop entries silently (disagreement 4), and
   TLC shows it.
5. `KeepsPromise`, the refinement of `AtLeastOnce`, under the same hypothesis: `Written`
   says that nothing beyond the end of the file is handled, queued or in flight; each step then
   extends the file, handles entries, advances the durable position over handled ones, or
   forfeits a prefix by a skip. The watermark in memory does fall, in a restart, but
   then the file stays as it is.
6. `PairsStayWhole`, `ToolPairsWhole` under the same hypothesis and `OneResult`, that no two
   entries are results of one call. `Pairs`: a call whose result was not parsed is open
   (`Opened`); the fence begins at or before the receipt of the first open call and is not
   released while one is open (`FenceAt`, `OpenFence`); and where a receipt ends between a call
   and its parsed result, either that fence still covers it or the receipts behind it up
   to the one of the result are ready (`Fenced`). A released fence lets a commit pass only
   when all receipts in its range are ready (`FenceReleases`), so the settled run takes
   the result along. The second alternative is what makes it inductive: a commit clears the fence
   even when it stops before the fence's end. Any number of calls may overlap.

`EventHubProofs`: `StreamHasNoGap`, `StreamOrdered` and the types. Neither property is
inductive, since both are about what the client has read, not about what is on the way.
The proof puts the frames on the wire and those of the handshake still in the outbox into one
sequence, `Frames`. `Phases` and `Epochs` say how far both ends are and whose
numbers they use; `Ordered` that the events in `Frames` increase and lie above `Base`, the
cursor the client will have once its welcome is read; `QueueOrdered` the same of the
queue beyond the boundary; `Complete` that between `Base` and any event on its way, or the
end of the stream, no event the client asked for is missing from `Frames` and queue,
unless the connection lagged. The hard steps are the handshake, where replay and boundary are cut
out of the ring while the queue already fills, and a filter that arrives while
events selected by the old one are under way.

`ActionsProofs`, with three inductive invariants. `Newest`: matched evidence, from which a
prompt still to come takes its controls, is none or that of the latest hook
(`ControlsNewest`, one lemma per operation of the store). `ExecInv` and `Locks`: one
executor works on an action; what has landed is the beginning of a complete input that
fits how far it is; an action on record as rejected has nothing landed, one as
sent everything; and the refresh lock belongs to who observes, matches or validates
(`InputsOnceAlways`, `OutcomesTrue`). `StoreInv`: an open request with a hook is bound
to that hook, prompt and version (`Tied`); a hook that gave controls is over, consumed, or the
one bound now (`Spent`); the tickets of waiting hooks are among those the store counts as
deferred, a hook without a ticket is one the store refuses anyway, and the latest hook,
while it may still become evidence, waits itself or left a ticket nobody resolves
(`Intake`); an executor that holds the id of the open request holds that
request (`Held`). From these follow `OneRequest`, `DecidesOnEvidence`, `NewEvidenceKept` and the
types. Hooks are finitely many lines of a log, since the tickets are counted.

`SessionMapProofs` first proves `TypeCorrect` and `InOrder` of `HookEvents`.
`InOrderAtMostOnce` is not inductive, since it says nothing of the
events still to be dispatched. `IInv` adds that the log increases and is no longer than
what was written, that everything read was written, that nothing is pending outside a
dispatch, and that, while no offset was lost, the events dispatched followed by those
pending increase and every line the next read can return lies above them all. That
last part ties the truncation rule to the order: an emptied file only ever holds
lines newer than any read before, so reading it from the start repeats nothing.
Then every step of `SessionMap` is, seen from the log and its reader, a step
of `HookEvents` or none (`MapRefinesLog`), with the saves of the tracked sessions mapped
to its saves by other coroutines. So `InOrderAtMostOnce` carries over (`MapInOrder`)
without a second invariant, for any number of windows, sessions and hooks.

Where a session is read from needs the invariant `MapIInv` about every place that names a
session. `UnseenNowhere`: a session whose first hook has not written the map is in no
map, no snapshot of a cycle, not tracked and not among the reserved. `MarkersStand`: while a
replay marker stands, the session can be reached by the window of its marker only, in
the map, in what the cycle read and in what it last reconciled, unless it is in `moved`.
`MarkersRead`: from the step in which the cycle reads the map until its prune, no session whose
marker this cycle has read and not yet acted on is tracked from the end. `ReservedKept`: a reserved session is at
the beginning in memory and in what was saved, so a process end keeps it. From these
follows `OpeningIsKept`; `Reconciled`, that outside a cut cycle
what is tracked was in the map the cycle read, gives `NothingIsLeftTracked`. The proof
showed a case the one window of the run cannot reach, and which TLC confirms with two: a session
whose marker stands is resumed in a second window while `_prefer_existing_primary`
keeps an older session in the window of the marker; the cycle then sees the session without
its marker and tracks it from the end. No doc promises otherwise for a
resumed session, so `OpeningKept` leaves such sessions (`moved`) out.

`TopicsProofs`: `RoutingIsUnique` is not inductive, since a new process starts from the
file, and since a deletion frees its window only by what nobody else holds. The invariant
says of the record in memory that it has the fields of a router, that `UniqueRouting` and
`FreeDeleting` hold, and of the file the same without the deletions, which are not saved.
Most methods only give something up: bindings, claims or parts of a claim, deletions
(`GivesUp`), and a record that gives up stays consistent. The five that take something,
`Begin`, the two attachments, `Bind` and `BeginDeletion`, have one lemma each, which uses the
guard the code has in that method. Every action is then a composition of methods and one
of the five ways to save; so the awaits, the faults and the number of tasks do not matter.
`RoutingUnique` and `DeletingFree` follow, and `FileConsistent` for the file.

Its second half builds on that and is about what each task relies on across its awaits.
`Turns` says what a composition of methods may do to a record: which claims it may
touch, that a claim which named a topic leaves that topic bound, listed or gone, that
records of retired topics get growing numbers. `TraceInv` adds to the
invariant above that each claim in memory is in the file, what the claim of a creation or
launch looks like at each of its awaits (`JobOk`), what a recoverer found out
before each of its own (`RecOk`), and that what is being deleted is marked in memory and
free in the file (`Deletes`). `DeletionDurable`, `ReleaseLeaves` and `RecoveryKeepsBindings`
follow. `CoverInv` says of each topic the bot made and nobody bound that, in memory and in the
file, it is listed or covered by a claim for the window it was made for, one that names it
or one of which nothing more can be found out while no request but the one that made the
topic is open; and that one window has one such topic. `NoStranded`
and `NoDuplicate` follow; both assume `"sent" \notin HiddenEffect`, without which both
fail (disagreement 6).

`TopicFeedProofs` proves all five invariants of `TopicFeed`, for every transcript in which a
result names an earlier call (`FeedAssumption`), every batch mode and size, any number of
status changes and of faults. Every action is first reduced to cases: `Flow` says what it does
to the queue and to the task in flight (appended, taken, merged, coalesced, or the task goes
on, ends or is taken again), `Display` what it does to the batch, to the messages and to the
receipts. The invariant `FeedIInv` is then kept case by case, each part resting on the ones
before it:

* `PcInv`: what the worker relies on at each place, through every flush; for one, no batch is
  active where a text is sent unless a flush failed. `Shape`: the message of the batch, of
  the status and of a kept tool call exists and is of its kind, the batch's message shows
  what `last` remembers, and in batched mode nothing but calls of the batch. `NoGhostIsLeft`
  is part of it.
* `Queued`: each task is counted once, and one update of a kind is queued; `QueueIsCounted`
  follows. That coalescing keeps the order of what remains rests on lemmas about
  `Without`, the sequence less a set of positions.
* `FeedInOrder` and `Behind`: the task and the queue hold the transcript in its order, and
  whatever is on display or in the batch comes before what is queued and not after the head
  of the task. `OrderKept` alone is not inductive, since a later flush shows the batch:
  `Ordered` adds that what is shown outside the batch's message comes before the batch, in
  the transcript and in the topic. `OrderIsKept` follows.
* `Once`: nothing in the batch is shown but by its message, and what the worker is about is
  neither shown nor, unless it has entered it, in the batch (`OnceAt`). Here
  the exception of `ShownOnce` is used: a call that meets a flood goes back to where it
  enters the batch. `NothingShownTwice` follows.
* `Delivered`: how a delivered entry is accounted for, with what `DeliveredIsShown` leaves
  open: a call that is no longer on display gave way to its result, and only where the calls
  are not batched. A step that takes text off the display is shown to keep each account
  (`KeepsSeen`). `DeliveredCanBeRead` follows.

The type invariants of `ReceiptLedger`, `Delivery`, `EventHub`, `Actions` and `HookEvents`
are proved, and the runs do not repeat those of the first two and the last. `TopicFeed` has
its types in `FeedTypeOK`, part of `FeedInvariant`.

Only model-checked: the liveness properties, which the prover cannot reach. Every safety
property of a passing run is proved.

## Not modelled

The components marked `not_modelled` in `PROJECT.json`, with reasons there. Within the
modelled ones: replacement and adoption of transcript files, provider changes,
the effect of a session's removal on its receipts and barriers, partial lines, several
sessions on one queue, the pacing of sends, task lists in the status, the bounded wait of interactive
prompts, what most hook handlers do; of the topics several chats and users, the
directory browser and the age limit of unbound windows; of identity the aliases; of the
session protocol the creation, removal, split and resumption of sessions, the
correlation of deliveries with the transcript, history, uploads and pairing.

## Plan

1. Core, done: `DeliveryContract`, `ReceiptLedger`, `Delivery`, `AtLeastOnce`,
   `HookEvents` and the first proofs.
2. `EventHub`, done: the stream of `session_protocol/events.py` and `api/server.py`.
3. `RequestStore` and `Actions`, done: `ActionExecutor`, `ProtocolStore` and `RequestStore`
   together, and the first proof about them.
4. `TranscriptFile`: generations of a file, adoption and replacement, partial lines, the
   restored parse position of each error path.
5. `ThreadRouter` and `Topics`, done: the router's claims with topic provisioning, deletion
   and the saves, and their proofs.
6. `SessionMap`, done: hook processes, the lock and the monitor's cycle, and its refinement
   of `HookEvents`. Identity migration is left.
7. `TopicFeed`, done: tool batches, merging and the status message over single calls.
   Window liveness, polling and window death, and the rate limiter are left.
8. Proofs, done: `Delivery` with the refinement of `AtLeastOnce`, the hub, the executor and the
   request store, the topics, the session map, the topic's feed.
