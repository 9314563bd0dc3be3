------------------------------ MODULE Actions ------------------------------
(***************************************************************************)
(* Actions on one session of the protocol: requests to press a key for a   *)
(* prompt, or to send a message, that clients retry and executors carry    *)
(* out (actions.py), while hooks of the agent are taken in at once and     *)
(* processed later by the poller (runtime.py, service.py), and the screen  *)
(* is observed under a lock that hook intake does not take.  Results are   *)
(* durable (store.py), all evidence about prompts is lost with the process.*)
(*                                                                         *)
(* The agent, its screen and its process are the environment.              *)
(***************************************************************************)
EXTENDS RequestStore, Sequences, FiniteSets

CONSTANTS
    Ids,        \* ids of actions
    Executors,  \* concurrent calls of ActionExecutor.execute
    Kinds,      \* the kinds of action each id may stand for
    QueueMax,   \* capacity of ProtocolRuntime.hooks
    MaxShown,   \* bound: prompts the agent draws
    MaxAge,     \* bound: hooks with a later stamp stay fresh
    MaxFaults   \* bound: failures, changes of the foreground process, process ends

Poller == "poller"
\* message.send without and with dismissRequest; run.interrupt stands for the kinds that
\* type without regard to requests.
ActionKinds == {"respond", "message", "dismiss", "interrupt"}

Evidence == Hooks \union {None}
Requests == [id : Nat \ {0}, version : Nat, prompt : Prompts, hook : Evidence,
             observed : Evidence]
Bindings == [hook : Hooks, prompt : Prompts, version : Nat]
Entries == [hook : Hooks, ticket : BOOLEAN]

ASSUME ActionsAssumption ==
    /\ IsFiniteSet(Hooks) /\ Hooks = 1..Cardinality(Hooks)
    /\ IsFiniteSet(Executors)
    /\ Kinds \in [Ids -> (SUBSET ActionKinds) \ {{}}]
    /\ Poller \notin Executors /\ None \notin Executors \union {Poller} \union Ids
    /\ None \notin Requests \union Bindings \union Entries
    /\ QueueMax \in Nat \ {0}
    /\ MaxShown \in Nat /\ MaxAge \in Nat /\ MaxFaults \in Nat

VARIABLES
    screen,     \* the prompt the agent shows, or None
    proc,       \* its foreground process
    horizon,    \* hooks with a stamp up to it are older than _HOOK_MATCH_TTL
    logged,     \* hooks 1..logged were in the event log when a process read it
    intake,     \* hooks 1..intake went through ProtocolRuntime.observe_hook
    queue,      \* ProtocolRuntime.hooks: hook and whether it holds a ticket
    match,      \* the queue entry the poller is matching, or None
    booting,    \* start_runtime has not returned
    store,      \* RequestStore
    lock,       \* owner of LocalSessionService._refresh_lock
    look,       \* what the owner's observation captured, or None
    input,      \* owner of the input lock of the target
    binding,    \* sessions.binding: process and whether it was available
    version,    \* sessions.version
    result,     \* actions.result
    pc, doing,  \* per executor: where it is, and the action
    asked,      \* per executor: the kind, and the version and request the client saw
    seen,       \* per executor: what it read and has not judged yet
    target,     \* per executor: the process it means to type to
    req,        \* per executor: the request it works on
    typing,     \* per executor: the input to type
    landed,     \* history: per action, the inputs the terminal took
    controls,   \* history: requests of this process to which a hook gave controls
    shown, faults

worldVars == <<screen, proc, horizon, shown>>
hookVars == <<logged, intake, queue, match, booting>>
storeVars == <<store, controls>>
lookVars == <<lock, look, binding, version>>
taskVars == <<doing, asked, seen, target, req, typing>>
execVars == <<input, result, pc, taskVars, landed>>
vars == <<worldVars, hookVars, storeVars, lookVars, execVars, faults>>

gone == {h \in Hooks : Stamp[h] <= horizon}

\* The name of the next request, one that nobody refers to (new_id).
FreshId ==
    LET used == {store.open} \union {req[e] : e \in Executors}
        names == {r.id : r \in used \ {None}}
                 \union {asked[e].request : e \in {f \in Executors : asked[f] # None}}
    IN  CHOOSE n \in 1..(Cardinality(names) + 1) : n \notin names

Fault == faults < MaxFaults /\ faults' = faults + 1
NoFault == UNCHANGED faults
-----------------------------------------------------------------------------
(* The environment.                                                         *)

\* The agent draws a prompt, whose hook may have come before or may still come.
AgentShows ==
    /\ screen = None /\ shown < MaxShown
    /\ screen' \in Prompts
    /\ shown' = shown + 1
    /\ UNCHANGED <<proc, horizon, hookVars, storeVars, lookVars, execVars, faults>>

\* A prompt ends: the agent took an input, or someone answered in the terminal.
PromptEnds ==
    /\ screen # None
    /\ screen' = None
    /\ UNCHANGED <<proc, horizon, shown, hookVars, storeVars, lookVars, execVars, faults>>

\* Another agent runs in the terminal.
ProcessChanges ==
    /\ Fault
    /\ proc' = proc + 1
    /\ screen' = None
    /\ UNCHANGED <<horizon, shown, hookVars, storeVars, lookVars, execVars>>

\* Time passes _HOOK_MATCH_TTL for some hooks.
HooksAge ==
    /\ \E h \in Hooks : horizon < Stamp[h] /\ Stamp[h] <= MaxAge /\ horizon' = Stamp[h]
    /\ UNCHANGED <<screen, proc, shown, hookVars, storeVars, lookVars, execVars, faults>>
-----------------------------------------------------------------------------
(* Hook intake by the session monitor, which takes no lock.                 *)

\* Mutant: a full queue takes one hook more.
PutOneMore(h, ticket) ==
    IF Len(queue) <= QueueMax THEN Append(queue, [hook |-> h, ticket |-> ticket]) ELSE queue

\* asyncio.Queue.put_nowait; what does not fit is lost.
Put(h, ticket) ==
    IF Len(queue) < QueueMax THEN Append(queue, [hook |-> h, ticket |-> ticket]) ELSE queue

\* ProtocolRuntime.observe_hook.  A hook the queue cannot take keeps its ticket.
TakeIn ==
    /\ ~booting /\ intake < Cardinality(Hooks)
    /\ LET h == intake + 1
           ticket == Accepts(store, h, gone)
       IN  /\ store' = IF ticket THEN Deferred(ObserveIdentity(store, h)) ELSE store
           /\ queue' = Put(h, ticket)
    /\ intake' = intake + 1
    /\ logged' = IF intake < logged THEN logged ELSE intake + 1
    /\ UNCHANGED <<worldVars, match, booting, controls, lookVars, execVars, faults>>
-----------------------------------------------------------------------------
(* Observation of the session under the refresh lock.                       *)

\* LocalSessionService.current and refresh, up to the awaits of the backend.
LookStart(by) ==
    /\ lock = None
    /\ lock' = by
    /\ look' = [proc |-> proc, prompt |-> screen]
    /\ UNCHANGED <<worldVars, hookVars, storeVars, binding, version, execVars, faults>>

\* ProtocolStore.bind
BoundVersion(b) == IF b = binding THEN version ELSE version + 1

\* LocalSessionService._observe.  Another binding retires what was open; an
\* observation that failed sees no prompt and an unavailable process.
Observe(ok) ==
    LET b == <<look.proc, ok>>
        v == BoundVersion(b)
        before == IF v # version THEN Close(store, None) ELSE store
        after == Reconcile(before, IF ok THEN look.prompt ELSE None, v, gone, FreshId)
        opens == after.open # None /\ after.open # store.open
    IN  /\ binding' = b
        /\ version' = v
        /\ store' = after
        /\ controls' = IF opens /\ after.open.hook # None
                       THEN [controls EXCEPT ![after.open.hook] = @ + 1]
                       ELSE controls
        /\ look' = None

\* LocalSessionService.refresh, called by the poller or for a client.
Refresh ==
    /\ lock = Poller /\ look # None
    /\ \E ok \in BOOLEAN : Observe(ok) /\ (IF ok THEN NoFault ELSE Fault)
    /\ lock' = None
    /\ UNCHANGED <<worldVars, hookVars, execVars>>
-----------------------------------------------------------------------------
(* The poller processes the hooks taken in, under the refresh lock.         *)

\* LocalSessionService._observe_hook up to _match_hook.  A hook that is refused,
\* and the end of a turn, need no match.
HookStart ==
    /\ lock = None /\ queue # <<>>
    /\ LET h == Head(queue).hook
           ticket == Head(queue).ticket
       IN  IF Accepts(store, h, gone) /\ Asks[h] # None
           THEN /\ store' = ObserveIdentity(store, h)
                /\ match' = Head(queue)
                /\ lock' = Poller
           ELSE /\ store' = Resolved(IF Accepts(store, h, gone)
                                     THEN Close(ObserveIdentity(store, h), None)
                                     ELSE store, ticket)
                /\ UNCHANGED <<match, lock>>
    /\ queue' = Tail(queue)
    /\ UNCHANGED <<worldVars, logged, intake, booting, controls, look, binding, version,
                   execVars, faults>>

\* _match_hook looked for the tool call in the transcript; ProtocolRuntime.poll then
\* resolves the ticket.
HookEnd ==
    /\ match # None
    /\ \E found \in BOOLEAN :
          store' = Resolved(IF found THEN ObserveHook(store, match.hook, gone)
                            ELSE DiscardIdentity(store, match.hook), match.ticket)
    /\ match' = None
    /\ lock' = None
    /\ UNCHANGED <<worldVars, logged, intake, queue, booting, controls, look, binding,
                   version, execVars, faults>>

\* An error of the backend or the transcript ends the pass of ProtocolRuntime.poll;
\* the ticket of the hook stays.
HookFails ==
    /\ match # None /\ ~booting /\ Fault
    /\ match' = None
    /\ lock' = None
    /\ UNCHANGED <<worldVars, logged, intake, queue, booting, storeVars, look, binding, version,
                   execVars>>

\* start_runtime returns; its second refresh is any that follows.
Booted ==
    /\ booting /\ queue = <<>> /\ lock = None
    /\ booting' = FALSE
    /\ UNCHANGED <<worldVars, logged, intake, queue, match, storeVars, lookVars, execVars, faults>>
-----------------------------------------------------------------------------
(* ActionExecutor._once                                                     *)

\* Mutant: a result that was never confirmed does not count.
FreshUnlessFinished(a) == result[a] \in {"none", "unknown"}

\* ProtocolStore.action knows nothing of the id.
Fresh(a) == result[a] = "none"

\* The id is free (_action_locks) and is reserved as unknown before anything is done.
\* The client asks for what it was shown.  The observation that follows only names
\* the target of the input lock: its effect is that of Refresh.
Submit(e) ==
    /\ ~booting /\ pc[e] = "idle"
    /\ \E a \in Ids :
          /\ Fresh(a) /\ \A f \in Executors : doing[f] # a
          /\ \E kind \in Kinds[a] :
                /\ kind = "respond" => store.open # None /\ store.open.hook # None
                /\ asked' = [asked EXCEPT ![e] =
                      [kind |-> kind, version |-> version,
                       request |-> IF kind = "respond" THEN store.open.id ELSE 0]]
          /\ result' = [result EXCEPT ![a] = "unknown"]
          /\ doing' = [doing EXCEPT ![e] = a]
    /\ pc' = [pc EXCEPT ![e] = "lock"]
    /\ UNCHANGED <<worldVars, hookVars, storeVars, lookVars, input, seen, target, req,
                   typing, landed, faults>>

\* ProtocolStore.finish, and the locks of the action are released.
Finish(e, outcome) ==
    /\ result' = [result EXCEPT ![doing[e]] = outcome]
    /\ pc' = [pc EXCEPT ![e] = "idle"]
    /\ doing' = [doing EXCEPT ![e] = None]
    /\ asked' = [asked EXCEPT ![e] = None]
    /\ seen' = [seen EXCEPT ![e] = None]
    /\ target' = [target EXCEPT ![e] = None]
    /\ req' = [req EXCEPT ![e] = None]
    /\ typing' = [typing EXCEPT ![e] = None]
    /\ input' = IF input = e THEN None ELSE input

\* Mutant: an error is a rejection, however late.
OutcomeRejected(place) == "rejected"

\* The outcome of an error, by whether _perform had begun.
ErrorOutcome(place) ==
    IF place \in {"verify", "send", "confirm", "gone"} THEN "unknown" ELSE "rejected"

Stop(e) == Finish(e, ErrorOutcome(pc[e]))

Goto(e, place) ==
    /\ pc' = [pc EXCEPT ![e] = place]
    /\ UNCHANGED <<result, doing>>

\* input_lock, which gives up after a while.
TakeInput(e) ==
    /\ pc[e] = "lock"
    /\ IF input = None
       THEN input' = e /\ Goto(e, "preflight") /\ UNCHANGED <<asked, seen, target, req, typing>>
       ELSE Stop(e)
    /\ UNCHANGED <<worldVars, hookVars, storeVars, lookVars, landed, faults>>

\* LocalSessionService.current; the refresh lock is kept until the caller resumes.
ExecutorObserve(e) ==
    /\ lock = e /\ look # None
    /\ \E ok \in BOOLEAN :
          /\ Observe(ok)
          /\ IF ok THEN NoFault ELSE Fault
          /\ seen' = [seen EXCEPT ![e] = [version |-> version', ok |-> ok]]
    /\ target' = [target EXCEPT ![e] = look.proc]
    /\ Goto(e, "validate")
    /\ UNCHANGED <<worldVars, hookVars, lock, input, asked, req, typing, landed>>

\* SessionBackend.inspect fails.
ExecutorLookFails(e) ==
    /\ lock = e /\ look # None /\ Fault
    /\ look' = None
    /\ lock' = None
    /\ Stop(e)
    /\ UNCHANGED <<worldVars, hookVars, storeVars, binding, version, landed>>

\* Go on to type an input, for a request or for none.
Type(e, what, r) ==
    /\ typing' = [typing EXCEPT ![e] = what]
    /\ req' = [req EXCEPT ![e] = r]
    /\ seen' = [seen EXCEPT ![e] = None]
    /\ asked' = [asked EXCEPT ![e] = None]
    /\ Goto(e, "verify")
    /\ UNCHANGED <<input, target>>

\* Why _validate_target, _preflight, _validate_message_request and the first tests of
\* _validate_response turn an action down.
Invalid(e) ==
    LET kind == asked[e].kind IN
    \/ seen[e].version # asked[e].version \/ ~seen[e].ok
    \/ kind # "interrupt" /\ store.deferred # 0
    \/ kind = "message" /\ store.open # None
    \/ kind = "respond" /\ (\/ store.open = None
                            \/ store.open.id # asked[e].request
                            \/ store.open.hook = None)

\* A response has its prompt read; any other action goes on to _perform.
Proceed(e) ==
    CASE asked[e].kind = "respond" ->
            /\ req' = [req EXCEPT ![e] = store.open]
            /\ seen' = [seen EXCEPT ![e] = None]
            /\ Goto(e, "check")
            /\ UNCHANGED <<input, asked, target, typing>>
      [] asked[e].kind = "interrupt" -> Type(e, "interrupt", None)
      [] OTHER -> Type(e, IF store.open = None THEN "text" ELSE "escape", store.open)

\* _preflight after its observation
Validate(e) ==
    /\ pc[e] = "validate"
    /\ IF Invalid(e) THEN Stop(e) ELSE Proceed(e)
    /\ lock' = None
    /\ UNCHANGED <<worldVars, hookVars, storeVars, look, binding, version, landed, faults>>

\* The screen is read ...
CheckStart(e) ==
    /\ pc[e] = "check"
    /\ seen' = [seen EXCEPT ![e] = [prompt |-> screen]]
    /\ Goto(e, "checked")
    /\ UNCHANGED <<worldVars, hookVars, storeVars, lookVars, input, asked, target, req,
                   typing, landed, faults>>

\* ... and, when the executor resumes, the rest of _validate_response and the tests of
\* _respond, which nothing separates.
CheckEnd(e) ==
    /\ pc[e] = "checked"
    /\ IF IsCurrent(store, req[e].id)
       THEN IF seen[e].prompt = req[e].prompt
            THEN Type(e, "answer", req[e]) /\ UNCHANGED store
            ELSE Stop(e) /\ store' = Close(store, None)
       ELSE Stop(e) /\ UNCHANGED store
    /\ UNCHANGED <<worldVars, hookVars, controls, lookVars, landed, faults>>
-----------------------------------------------------------------------------
(* ActionExecutor._perform                                                  *)

\* MultiplexerSessionBackend._verify_selected_pane
Verify(e) ==
    /\ pc[e] = "verify"
    /\ IF proc = target[e]
       THEN Goto(e, "send") /\ UNCHANGED <<input, asked, seen, target, req, typing>>
       ELSE Stop(e)
    /\ UNCHANGED <<worldVars, hookVars, storeVars, lookVars, landed, faults>>

Land(e) == landed' = [landed EXCEPT ![doing[e]] = Append(@, typing[e])]

\* SessionBackend.send_text and send_key
Send(e) ==
    /\ pc[e] = "send"
    /\ Land(e)
    /\ Goto(e, IF typing[e] \in {"answer", "escape"} THEN "confirm" ELSE "sent")
    /\ UNCHANGED <<worldVars, hookVars, storeVars, lookVars, input, asked, seen,
                   target, req, typing, faults>>

\* An await of the action fails or times out; an input under way may have landed.
Fails(e) ==
    /\ pc[e] \in {"lock", "check", "verify", "send", "confirm"} /\ Fault
    /\ Stop(e)
    /\ \/ pc[e] = "send" /\ Land(e)
       \/ UNCHANGED landed
    /\ UNCHANGED <<worldVars, hookVars, storeVars, lookVars>>

\* _prompt_gone, which gives up after three looks.
Confirm(e) ==
    /\ pc[e] = "confirm"
    /\ IF screen = None
       THEN Goto(e, "gone") /\ UNCHANGED <<input, asked, seen, target, req, typing>>
       ELSE Finish(e, "unknown")
    /\ UNCHANGED <<worldVars, hookVars, storeVars, lookVars, landed, faults>>

\* _respond after the prompt is gone
Answered(e) ==
    /\ pc[e] = "gone" /\ typing[e] = "answer"
    /\ store' = IF IsCurrent(store, req[e].id) THEN Close(store, None) ELSE store
    /\ Finish(e, "sent")
    /\ UNCHANGED <<worldVars, hookVars, controls, lookVars, landed, faults>>

\* _send_message after the prompt is gone
Dismissed(e) ==
    /\ pc[e] = "gone" /\ typing[e] = "escape"
    /\ IF IsCurrent(store, req[e].id)
       THEN store' = Close(store, None) /\ Type(e, "text", None)
       ELSE Stop(e) /\ UNCHANGED store
    /\ UNCHANGED <<worldVars, hookVars, controls, lookVars, landed, faults>>

\* The backend confirmed; _record_delivery of a message waits for the refresh lock.
Sent(e) ==
    /\ pc[e] = "sent"
    /\ typing[e] = "text" => lock = None
    /\ store' = IF typing[e] = "interrupt" THEN Close(store, None) ELSE store
    /\ Finish(e, "sent")
    /\ UNCHANGED <<worldVars, hookVars, controls, lookVars, landed, faults>>
-----------------------------------------------------------------------------
NoTask == [e \in Executors |-> None]

\* The process ends.  The next one observes the session, then the hooks in the tail of
\* the log; the monitor goes on from the offset that was saved last.
Restart ==
    /\ Fault
    /\ store' = NoEvidence
    /\ controls' = [h \in Hooks |-> 0]
    /\ \E n \in logged..Cardinality(Hooks) :
          /\ logged' = n
          /\ queue' = [h \in 1..n |-> [hook |-> h, ticket |-> FALSE]]
          /\ intake' \in 0..n
    /\ match' = None
    /\ booting' = TRUE
    /\ lock' = Poller
    /\ look' = [proc |-> proc, prompt |-> screen]
    /\ doing' = NoTask /\ asked' = NoTask /\ seen' = NoTask
    /\ target' = NoTask /\ req' = NoTask /\ typing' = NoTask
    /\ pc' = [e \in Executors |-> "idle"] /\ input' = None
    /\ UNCHANGED <<worldVars, binding, version, result, landed>>

\* The session was observed once and shows no prompt.
Init ==
    /\ screen = None /\ proc = 1 /\ horizon = 0 /\ shown = 0
    /\ logged = 0 /\ intake = 0 /\ queue = <<>> /\ match = None /\ booting = FALSE
    /\ store = NoEvidence /\ controls = [h \in Hooks |-> 0]
    /\ lock = None /\ look = None /\ binding = <<1, TRUE>> /\ version = 1
    /\ doing = NoTask /\ asked = NoTask /\ seen = NoTask
    /\ target = NoTask /\ req = NoTask /\ typing = NoTask
    /\ pc = [e \in Executors |-> "idle"] /\ input = None
    /\ result = [a \in Ids |-> "none"]
    /\ landed = [a \in Ids |-> <<>>]
    /\ faults = 0

World == AgentShows \/ PromptEnds \/ ProcessChanges \/ HooksAge
Observer == LookStart(Poller) \/ Refresh \/ HookStart \/ HookEnd \/ HookFails \/ Booted
Executor(e) ==
    \/ Submit(e) \/ TakeInput(e)
    \/ pc[e] = "preflight" /\ LookStart(e)
    \/ ExecutorObserve(e) \/ ExecutorLookFails(e)
    \/ Validate(e) \/ CheckStart(e) \/ CheckEnd(e) \/ Verify(e) \/ Send(e) \/ Fails(e)
    \/ Confirm(e) \/ Answered(e) \/ Dismissed(e) \/ Sent(e)
Next == World \/ TakeIn \/ Observer \/ (\E e \in Executors : Executor(e)) \/ Restart

Spec == Init /\ [][Next]_vars
-----------------------------------------------------------------------------
Places == {"idle", "lock", "preflight", "validate", "check", "checked",
           "verify", "send", "confirm", "gone", "sent"}
Inputs == {"answer", "escape", "text", "interrupt"}

\* Types.  The intake queue (runtime.py) stays within its capacity once the process
\* runs, an observation or a match belongs to the owner of the refresh lock, and every
\* ticket of a queued hook is counted, so resolve never meets a session without one.
TypeOK ==
    /\ screen \in Prompts \union {None}
    /\ logged \in 0..Cardinality(Hooks) /\ intake \in 0..logged
    /\ queue \in Seq(Entries) /\ (~booting => Len(queue) <= QueueMax)
    /\ match \in Entries \union {None}
    /\ store.open \in Requests \union {None}
    /\ {store.hook, store.latest} \subseteq Evidence
    /\ store.consumed \subseteq Hooks
    /\ store.deferred \in Nat
    /\ Cardinality({i \in DOMAIN queue : queue[i].ticket}) <= store.deferred
    /\ lock \in Executors \union {None, Poller}
    /\ look # None => lock # None
    /\ match # None => lock = Poller /\ look = None
    /\ pc \in [Executors -> Places]
    /\ \A e \in Executors : pc[e] = "idle" <=> doing[e] = None
    /\ typing \in [Executors -> Inputs \union {None}]
    /\ result \in [Ids -> {"none", "unknown", "sent", "rejected"}]

\* The inputs an action of each kind types when all goes well.
Complete(kind) ==
    CASE kind = "respond" -> {<<"answer">>}
      [] kind = "message" -> {<<"text">>}
      [] kind = "dismiss" -> {<<"text">>, <<"escape", "text">>}
      [] kind = "interrupt" -> {<<"interrupt">>}

\* Whatever is retried, by whom, over ends of the process: the terminal takes the inputs
\* of one action id at most once and in their order (actions.py, store.py).
InputsOnce ==
    \A a \in Ids : \E done \in UNION {Complete(k) : k \in Kinds[a]} :
        \E n \in 0..Len(done) : landed[a] = SubSeq(done, 1, n)

\* A recorded result tells the truth: nothing was typed for a rejected action, and
\* everything for one that was sent; only "unknown" leaves it open.
OutcomeIsTrue ==
    \A a \in Ids :
        /\ result[a] = "rejected" => landed[a] = <<>>
        /\ result[a] = "sent" => landed[a] \in UNION {Complete(k) : k \in Kinds[a]}

\* In the life of a process one hook gives controls to at most one request, however
\* often its event is read, matched or replaced, and whatever the screen shows.
OneRequestPerHook ==
    \A h \in Hooks : controls[h] <= 1

\* Controls on display rest on the newest evidence taken in: another hook retires them
\* at once, long before it is processed or the screen is read again (requests.py).
ControlsAreNewest ==
    store.open # None /\ store.open.hook # None => store.latest = store.open.hook

\* Once a key or text is decided on, no hook evidence waits to be processed; text goes
\* where no request is open and an answer to the request that was asked for.
DecidedOnEvidence ==
    [][\A e \in Executors :
          pc'[e] = "verify" /\ pc[e] # "verify" /\ typing'[e] # "interrupt" =>
             /\ store.deferred = 0
             /\ typing'[e] = "text" => store'.open = None
             /\ typing'[e] = "answer" =>
                   store.open # None /\ store.open.id = asked[e].request]_vars

\* Finishing an answer or a dismissal consumes no fresh evidence that its request had
\* not observed: a hook that arrived meanwhile still gives controls to its prompt.
FinishingKeepsNewEvidence ==
    [][\A e \in Executors :
          pc[e] = "gone" /\ pc'[e] # "gone" /\ ~booting' =>
             (store'.consumed \ store.consumed) \ gone
                 \subseteq {req[e].hook, req[e].observed}]_vars
=============================================================================
