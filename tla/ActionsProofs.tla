--------------------------- MODULE ActionsProofs ---------------------------
(***************************************************************************)
(* What holds of Actions for every value of the constants.  Three inductive*)
(* invariants carry the proofs.  Newest: evidence that may give controls   *)
(* is that of the latest hook.  ExecInv with Locks: how far each executor  *)
(* is with its action, what the terminal took of it, and who observes.     *)
(* StoreInv: what the open request is bound to, which evidence was used,   *)
(* which hooks and tickets still wait, and that an executor with the id of *)
(* the open request holds that request.                                    *)
(***************************************************************************)
EXTENDS Actions, FiniteSetTheorems, SequenceTheorems, TLAPS

-----------------------------------------------------------------------------
(* What every operation of the request store keeps.                        *)

IsStore(s) ==
    s = [open |-> s.open, hook |-> s.hook, bound |-> s.bound, consumed |-> s.consumed,
         latest |-> s.latest, deferred |-> s.deferred]

Newest(s) ==
    /\ IsStore(s)
    /\ s.hook \in {None, s.latest}
    /\ s.open # None => s.open.hook \in {None, s.latest}

\* A new store has no evidence (RequestStore.__init__).
LEMMA NoEvidenceNewest == Newest(NoEvidence)
BY DEF Newest, IsStore, NoEvidence

\* Tickets do not touch the evidence (RequestStore.defer and resolve).
LEMMA TicketsNewest ==
    ASSUME NEW s, Newest(s), NEW ticket
    PROVE  Newest(Deferred(s)) /\ Newest(Resolved(s, ticket))
BY DEF Newest, IsStore, Deferred, Resolved

\* Closing leaves no request, and of the evidence at most what it keeps
\* (RequestStore.close).
LEMMA CloseNewest ==
    ASSUME NEW s, Newest(s), NEW kept
    PROVE  Newest(Close(s, kept)) /\ Close(s, kept).latest = s.latest
           /\ Close(s, kept).open = None /\ Close(s, None).hook = None
<1> DEFINE bound == IF s.bound = None THEN None ELSE s.bound.hook
           used(k) == s.consumed \union ((({s.hook, s.latest} \ {k}) \union {bound}) \ {None})
<1>1. ASSUME NEW k
      PROVE  Close(s, k) = [s EXCEPT !.open = None, !.bound = None,
                                     !.hook = IF @ = k THEN @ ELSE None,
                                     !.consumed = used(k)]
  BY DEF Close, Newest, IsStore
<1>2. ASSUME NEW k
      PROVE  /\ Newest(Close(s, k)) /\ Close(s, k).latest = s.latest
             /\ Close(s, k).open = None /\ Close(s, k).hook \in {k, None}
  <2> DEFINE t == Close(s, k)
             c == used(k)
  <2>1. t = [s EXCEPT !.open = None, !.bound = None,
                      !.hook = IF @ = k THEN @ ELSE None, !.consumed = c]
    BY <1>1
  <2> HIDE DEF t, c, used
  <2>2. Newest(t) /\ t.latest = s.latest /\ t.open = None /\ t.hook \in {k, None}
    BY <2>1 DEF Newest, IsStore
  <2> QED  BY <2>2 DEF t
<1> QED  BY <1>2

\* An identity that is taken in becomes the latest, and nothing older stays
\* (RequestStore.observe_identity).
LEMMA IdentityNewest ==
    ASSUME NEW s, Newest(s), NEW h
    PROVE  Newest(ObserveIdentity(s, h)) /\ ObserveIdentity(s, h).latest = h
<1>1. CASE s.latest \in {None, h}
  BY <1>1 DEF Newest, IsStore, ObserveIdentity
<1>2. CASE s.latest \notin {None, h}
  <2> DEFINE c == Close(s, None)
  <2>1. Newest(c) /\ c.open = None /\ c.hook = None
    BY CloseNewest
  <2>2. ObserveIdentity(s, h) = [c EXCEPT !.latest = h]
    BY <1>2 DEF ObserveIdentity
  <2> HIDE DEF c
  <2> QED  BY <2>1, <2>2 DEF Newest, IsStore
<1> QED  BY <1>1, <1>2

\* Evidence that matched the transcript is that of the latest identity
\* (RequestStore.observe_hook).
LEMMA HookNewest ==
    ASSUME NEW s, Newest(s), NEW h, NEW past
    PROVE  Newest(ObserveHook(s, h, past))
<1> DEFINE t == ObserveIdentity(s, h)
<1>1. Newest(t) /\ t.latest = h
  BY IdentityNewest
<1>2. ObserveHook(s, h, past) \in {s, [t EXCEPT !.hook = h]}
  BY DEF ObserveHook
<1> HIDE DEF t
<1> QED  BY <1>1, <1>2 DEF Newest, IsStore

\* RequestStore.discard_identity
LEMMA DiscardNewest ==
    ASSUME NEW s, Newest(s), NEW h
    PROVE  Newest(DiscardIdentity(s, h))
BY CloseNewest DEF DiscardIdentity

\* A prompt gets controls from the evidence of the store only, and so from the
\* latest hook (RequestStore.reconcile).
LEMMA ReconcileNewest ==
    ASSUME NEW s, Newest(s), NEW p, NEW v, NEW past, NEW id
    PROVE  Newest(Reconcile(s, p, v, past, id))
<1> DEFINE now == Unbound(s, p, v, past)
           h == Structuring(now, p, v, past)
           rest == Displaced(now)
           drawn == [id |-> id, version |-> v, prompt |-> p, hook |-> h,
                     observed |-> s.hook]
           bound == IF h # None THEN Binding(h, p, v) ELSE rest.bound
<1>1. Newest(ReconcileAbsent(s))
  BY CloseNewest DEF ReconcileAbsent
<1>2. Newest(now) /\ now.hook = s.hook /\ now.latest = s.latest
  BY DEF Newest, IsStore, Unbound
<1>3. h \in {None, now.hook}
  BY DEF Structuring
<1>4. /\ IsStore(rest)
      /\ rest.hook = now.hook /\ rest.latest = now.latest
  <2> HIDE DEF now
  <2> QED  BY <1>2 DEF Newest, IsStore, Displaced
<1>5. Reconcile(s, p, v, past, id)
         \in {ReconcileAbsent(s), now, [rest EXCEPT !.open = drawn, !.bound = bound]}
  BY DEF Reconcile
<1>6. drawn.hook = h
  OBVIOUS
<1> HIDE DEF now, h, rest, drawn, bound
<1>7. rest.hook \in {None, rest.latest} /\ drawn.hook \in {None, rest.latest}
  BY <1>2, <1>3, <1>4, <1>6 DEF Newest
<1>8. ASSUME NEW t, t = [rest EXCEPT !.open = drawn, !.bound = bound]
      PROVE  Newest(t)
  BY <1>4, <1>7, <1>8 DEF Newest, IsStore
<1> QED  BY <1>1, <1>2, <1>5, <1>8

-----------------------------------------------------------------------------
(* The steps of the session.                                               *)

\* An observation of the screen (LocalSessionService._observe).
LEMMA ObserveNewest ==
    ASSUME NEW ok \in BOOLEAN, Newest(store), Observe(ok)
    PROVE  Newest(store')
<1> DEFINE v == BoundVersion(<<look.proc, ok>>)
           before == IF v # version THEN Close(store, None) ELSE store
<1>1. Newest(before)
  BY CloseNewest
<1>2. store' = Reconcile(before, IF ok THEN look.prompt ELSE None, v, gone, FreshId)
  BY DEF Observe
<1> HIDE DEF before
<1> QED  BY <1>1, <1>2, ReconcileNewest

\* Intake of a hook (ProtocolRuntime.observe_hook), which takes no lock.
LEMMA TakeInNewest ==
    ASSUME Newest(store), TakeIn
    PROVE  Newest(store')
<1> DEFINE h == intake + 1
<1>1. Newest(ObserveIdentity(store, h))
  BY IdentityNewest
<1>2. Newest(Deferred(ObserveIdentity(store, h)))
  BY <1>1, TicketsNewest
<1>3. store' \in {store, Deferred(ObserveIdentity(store, h))}
  BY DEF TakeIn
<1> QED  BY <1>2, <1>3

\* The poller begins with a hook (LocalSessionService._observe_hook).
LEMMA HookStartNewest ==
    ASSUME Newest(store), HookStart
    PROVE  Newest(store')
<1> DEFINE h == Head(queue).hook
           ticket == Head(queue).ticket
           t == ObserveIdentity(store, h)
           over == IF Accepts(store, h, gone) THEN Close(t, None) ELSE store
<1>1. Newest(t)
  BY IdentityNewest
<1>2. Newest(over)
  <2> HIDE DEF t
  <2> QED  BY <1>1, CloseNewest
<1>3. Newest(Resolved(over, ticket))
  <2> HIDE DEF over, ticket
  <2> QED  BY <1>2, TicketsNewest
<1>4. store' \in {t, Resolved(over, ticket)}
  BY DEF HookStart
<1> QED  BY <1>1, <1>3, <1>4

\* The poller ends with a hook, whether its tool call was found or not.
LEMMA HookEndNewest ==
    ASSUME Newest(store), HookEnd
    PROVE  Newest(store')
<1> DEFINE with == ObserveHook(store, match.hook, gone)
           without == DiscardIdentity(store, match.hook)
<1>1. Newest(with) /\ Newest(without)
  BY HookNewest, DiscardNewest
<1>2. store' \in {Resolved(with, match.ticket), Resolved(without, match.ticket)}
  BY DEF HookEnd
<1> HIDE DEF with, without
<1> QED  BY <1>1, <1>2, TicketsNewest

\* What executors do to the store is to close it, or to observe the session.
LEMMA ExecutorNewest ==
    ASSUME Newest(store), NEW e \in Executors, Executor(e)
    PROVE  Newest(store')
<1>1. CASE \/ Submit(e) \/ TakeInput(e) \/ LookStart(e) \/ ExecutorLookFails(e)
           \/ Validate(e) \/ CheckStart(e) \/ Verify(e) \/ Send(e) \/ Fails(e) \/ Confirm(e)
  <2>1. UNCHANGED store
    BY <1>1 DEF Submit, TakeInput, LookStart, ExecutorLookFails, Validate, CheckStart,
                Verify, Send, Fails, Confirm, storeVars
  <2> QED  BY <2>1
<1>2. CASE ExecutorObserve(e)
  BY <1>2, ObserveNewest DEF ExecutorObserve
<1>3. CASE CheckEnd(e) \/ Answered(e) \/ Dismissed(e) \/ Sent(e)
  <2>1. store' \in {store, Close(store, None)}
    BY <1>3 DEF CheckEnd, Answered, Dismissed, Sent
  <2> QED  BY <2>1, CloseNewest
<1> QED  BY <1>1, <1>2, <1>3 DEF Executor

\* Newest is inductive.
LEMMA NextNewest ==
    ASSUME Newest(store), [Next]_vars
    PROVE  Newest(store')
<1>1. CASE World
  BY <1>1 DEF World, AgentShows, PromptEnds, ProcessChanges, HooksAge, storeVars
<1>2. CASE TakeIn
  BY <1>2, TakeInNewest
<1>3. CASE Observer
  <2>1. CASE LookStart(Poller) \/ HookFails \/ Booted
    BY <2>1 DEF LookStart, HookFails, Booted, storeVars
  <2>2. CASE Refresh
    BY <2>2, ObserveNewest DEF Refresh
  <2>3. CASE HookStart
    BY <2>3, HookStartNewest
  <2>4. CASE HookEnd
    BY <2>4, HookEndNewest
  <2> QED  BY <1>3, <2>1, <2>2, <2>3, <2>4 DEF Observer
<1>4. CASE \E e \in Executors : Executor(e)
  BY <1>4, ExecutorNewest
<1>5. CASE Restart
  BY <1>5, NoEvidenceNewest DEF Restart
<1>6. CASE UNCHANGED vars
  BY <1>6 DEF vars, storeVars
<1> QED  BY <1>1, <1>2, <1>3, <1>4, <1>5, <1>6 DEF Next

\* Controls on display rest on the newest evidence taken in: whatever interleaving of
\* intake, matching, observation and executors, and over ends of the process, another
\* hook leaves no older controls behind (requests.py, runtime.py, service.py).
THEOREM ControlsNewest == Spec => []ControlsAreNewest
<1>1. Init => Newest(store)
  BY NoEvidenceNewest DEF Init
<1>2. Newest(store) /\ [Next]_vars => Newest(store)'
  BY NextNewest DEF Newest, IsStore
<1>3. Newest(store) => ControlsAreNewest
  BY DEF Newest, ControlsAreNewest
<1> QED  BY <1>1, <1>2, <1>3, PTL DEF Spec

-----------------------------------------------------------------------------
(* What an executor has typed of its action, and what it records of it.    *)

\* What action a types next, after it typed before.
Step(a, what, before) ==
    \/ /\ before = <<>>
       /\ \/ what = "answer" /\ "respond" \in Kinds[a]
          \/ what = "interrupt" /\ "interrupt" \in Kinds[a]
          \/ what = "text" /\ ("message" \in Kinds[a] \/ "dismiss" \in Kinds[a])
          \/ what = "escape" /\ "dismiss" \in Kinds[a]
    \/ before = <<"escape">> /\ what = "text" /\ "dismiss" \in Kinds[a]

\* What the terminal took of action a begins one of its complete inputs.
Begun(a) ==
    \E done \in UNION {Complete(k) : k \in Kinds[a]} :
        \E n \in 0..Len(done) : landed[a] = SubSeq(done, 1, n)

Record(a) ==
    /\ Begun(a)
    /\ result[a] \in {"none", "rejected"} => landed[a] = <<>>
    /\ result[a] = "sent" => landed[a] \in UNION {Complete(k) : k \in Kinds[a]}

\* How far executor e is with its action.
Stage(e) ==
    LET a == doing[e] IN
    /\ pc[e] # "idle" => result[a] = "unknown"
    /\ pc[e] \in {"lock", "preflight", "validate"} =>
          landed[a] = <<>> /\ asked[e].kind \in Kinds[a]
    /\ pc[e] \in {"check", "checked"} =>
          landed[a] = <<>> /\ "respond" \in Kinds[a] /\ req[e].id = asked[e].request
    /\ pc[e] \in {"verify", "send"} => Step(a, typing[e], landed[a])
    /\ pc[e] \in {"confirm", "gone"} =>
          landed[a] = <<typing[e]>> /\ typing[e] \in {"answer", "escape"}
             /\ Step(a, typing[e], <<>>)
    /\ pc[e] = "sent" =>
          /\ typing[e] \in {"text", "interrupt"}
          /\ \E before \in {<<>>, <<"escape">>} :
                landed[a] = Append(before, typing[e]) /\ Step(a, typing[e], before)

Shapes ==
    /\ pc \in [Executors -> Places]
    /\ doing \in [Executors -> Ids \union {None}]
    /\ typing \in [Executors -> Inputs \union {None}]
    /\ asked = [e \in Executors |-> asked[e]]
    /\ req = [e \in Executors |-> req[e]]
    /\ result \in [Ids -> {"none", "unknown", "sent", "rejected"}]
    /\ landed \in [Ids -> Seq(Inputs)]

\* One executor works on an action.
Owners ==
    /\ \A e \in Executors : pc[e] = "idle" <=> doing[e] = None
    /\ \A e, f \in Executors : doing[e] = doing[f] => e = f \/ doing[e] = None

\* The refresh lock belongs to who observes, matches or validates.
Locks ==
    /\ lock \in Executors \union {None, Poller}
    /\ look # None => lock # None
    /\ match # None => lock = Poller /\ look = None
    /\ \A e \in Executors : lock = e => pc[e] \in {"preflight", "validate"}
    /\ \A e \in Executors : pc[e] = "validate" => lock = e /\ look = None

ExecInv ==
    /\ Shapes /\ Owners
    /\ \A a \in Ids : Record(a)
    /\ \A e \in Executors : Stage(e)

-----------------------------------------------------------------------------
(* The beginnings of a complete input.                                     *)

LEMMA AppendTwo ==
    ASSUME NEW x, NEW y
    PROVE  Append(<<x>>, y) = <<x, y>>
<1> DEFINE S == {x, y}
           u == Append(<<x>>, y)
           v == <<x, y>>
<1>1. x \in S /\ y \in S
  OBVIOUS
<1>2. /\ Len(u) = 2 /\ u[1] = x /\ u[2] = y
      /\ Len(v) = 2 /\ v[1] = x /\ v[2] = y
  OBVIOUS
<1> HIDE DEF S
<1>3. u \in Seq(S)
  BY <1>1
<1>4. v \in Seq(S)
  BY <1>1
<1> HIDE DEF u, v
<1>5. \A i \in 1..2 : i = 1 \/ i = 2
  OBVIOUS
<1>6. \A i \in 1..Len(u) : u[i] = v[i]
  BY <1>2, <1>5
<1>7. u = v
  BY <1>2, <1>3, <1>4, <1>6, SeqEqual
<1> QED  BY <1>7 DEF u, v

LEMMA PrefixIs ==
    ASSUME NEW x, NEW y
    PROVE  /\ SubSeq(<<x>>, 1, 0) = <<>> /\ SubSeq(<<x>>, 1, 1) = <<x>>
           /\ SubSeq(<<x, y>>, 1, 0) = <<>> /\ SubSeq(<<x, y>>, 1, 1) = <<x>>
           /\ SubSeq(<<x, y>>, 1, 2) = <<x, y>>
           /\ 0 \in 0..Len(<<x>>) /\ 1 \in 0..Len(<<x>>)
           /\ 1 \in 0..Len(<<x, y>>) /\ 2 \in 0..Len(<<x, y>>)
           /\ Append(<<>>, x) = <<x>> /\ Append(<<x>>, y) = <<x, y>>
<1> DEFINE S == {x, y}
           u == <<x>>
           v == <<x, y>>
<1>1. /\ u \in Seq(S) /\ Len(u) = 1 /\ u[1] = x
      /\ v \in Seq(S) /\ Len(v) = 2 /\ v[1] = x /\ v[2] = y
  <2>1. Len(u) = 1 /\ u[1] = x /\ Len(v) = 2 /\ v[1] = x /\ v[2] = y
    OBVIOUS
  <2>2. x \in S /\ y \in S
    OBVIOUS
  <2> HIDE DEF S
  <2>3. u \in Seq(S)
    BY <2>2
  <2>4. v \in Seq(S)
    BY <2>2
  <2> QED  BY <2>1, <2>3, <2>4
<1>2. Append(<<>>, x) = <<x>> /\ Append(<<x>>, y) = <<x, y>>
  <2>1. Append(<<>>, x) = <<x>>
    OBVIOUS
  <2> QED  BY <2>1, AppendTwo
<1> HIDE DEF S, u, v
<1>3. 0 \in Int /\ 1 \in Int /\ 0 < 1
  OBVIOUS
<1>4. SubSeq(u, 1, 0) = <<>> /\ SubSeq(v, 1, 0) = <<>>
  BY <1>3, SubSeqEmpty
<1>5. SubSeq(u, 1, 1) = u /\ SubSeq(v, 1, 2) = v
  BY <1>1, SubSeqFull
<1>6. SubSeq(v, 1, 1) = <<x>>
  <2>1. \A i \in 1..1 : v[i] \in S
    BY <1>1
  <2>2. /\ SubSeq(v, 1, 1) \in Seq(S)
        /\ Len(SubSeq(v, 1, 1)) = 1
        /\ \A i \in 1..1 : SubSeq(v, 1, 1)[i] = v[1 + i - 1]
    BY <1>3, <2>1, SubSeqProperties
  <2>3. SubSeq(v, 1, 1)[1] = x
    BY <1>1, <2>2
  <2> DEFINE w == SubSeq(v, 1, 1)
  <2>4. w \in Seq(S) /\ u \in Seq(S) /\ Len(w) = Len(u) /\ \A i \in 1..Len(w) : w[i] = u[i]
    <3>1. \A i \in 1..1 : i = 1
      OBVIOUS
    <3> QED  BY <1>1, <2>2, <2>3, <3>1
  <2> HIDE DEF w
  <2>5. w = u
    BY <2>4, SeqEqual
  <2> QED  BY <2>5 DEF w, u
<1>7. 0 \in 0..Len(u) /\ 1 \in 0..Len(u) /\ 1 \in 0..Len(v) /\ 2 \in 0..Len(v)
  BY <1>1
<1> QED  BY <1>2, <1>4, <1>5, <1>6, <1>7 DEF u, v

\* The kinds of an action say which inputs are complete.
LEMMA CompleteIs ==
    ASSUME NEW a \in Ids
    PROVE  LET all == UNION {Complete(k) : k \in Kinds[a]} IN
           /\ "respond" \in Kinds[a] => <<"answer">> \in all
           /\ "message" \in Kinds[a] => <<"text">> \in all
           /\ "dismiss" \in Kinds[a] => <<"text">> \in all /\ <<"escape", "text">> \in all
           /\ "interrupt" \in Kinds[a] => <<"interrupt">> \in all
           /\ Kinds[a] \subseteq ActionKinds
<1>1. /\ <<"answer">> \in Complete("respond")
      /\ <<"text">> \in Complete("message")
      /\ <<"text">> \in Complete("dismiss") /\ <<"escape", "text">> \in Complete("dismiss")
      /\ <<"interrupt">> \in Complete("interrupt")
  BY DEF Complete
<1>2. Kinds[a] \subseteq ActionKinds
  BY ActionsAssumption DEF ActionsAssumption
<1> QED  BY <1>1, <1>2

\* An input that comes next is the last of a beginning; a text or an interrupt
\* is the last of all.
LEMMA StepBegins ==
    ASSUME NEW a \in Ids, NEW what, NEW before, Step(a, what, before)
    PROVE  LET all == UNION {Complete(k) : k \in Kinds[a]}
               now == Append(before, what) IN
           /\ \E done \in all : \E n \in 0..Len(done) : now = SubSeq(done, 1, n)
           /\ what \in {"text", "interrupt"} => now \in all
           /\ what \in Inputs
           /\ what \in {"answer", "escape"} => before = <<>> /\ now = <<what>>
           /\ before \in {<<>>, <<"escape">>} /\ now \in Seq(Inputs)
<1> DEFINE all == UNION {Complete(k) : k \in Kinds[a]}
           now == Append(before, what)
<1>1. /\ "respond" \in Kinds[a] => <<"answer">> \in all
      /\ "message" \in Kinds[a] => <<"text">> \in all
      /\ "dismiss" \in Kinds[a] => <<"text">> \in all /\ <<"escape", "text">> \in all
      /\ "interrupt" \in Kinds[a] => <<"interrupt">> \in all
  BY CompleteIs
<1> HIDE DEF all
<1>2. /\ before \in {<<>>, <<"escape">>}
      /\ \/ before = <<>> /\ what \in {"answer", "interrupt", "text"} /\ <<what>> \in all
         \/ before = <<>> /\ what = "escape" /\ <<"escape", "text">> \in all
         \/ before = <<"escape">> /\ what = "text" /\ <<"escape", "text">> \in all
  BY <1>1 DEF Step
<1>3. CASE before = <<>> /\ what \in {"answer", "interrupt", "text"} /\ <<what>> \in all
  <2>1. now = <<what>> /\ now = SubSeq(<<what>>, 1, 1) /\ 1 \in 0..Len(<<what>>)
    BY <1>3, PrefixIs
  <2>2. what \in Inputs /\ <<what>> \in Seq(Inputs)
    BY <1>3 DEF Inputs
  <2> QED  BY <1>2, <1>3, <2>1, <2>2 DEF all
<1>4. CASE before = <<>> /\ what = "escape" /\ <<"escape", "text">> \in all
  <2> DEFINE done == <<"escape", "text">>
  <2>1. now = <<what>> /\ now = SubSeq(done, 1, 1) /\ 1 \in 0..Len(done)
    BY <1>4, PrefixIs
  <2>2. what \in Inputs /\ <<what>> \in Seq(Inputs) /\ done \in all
    BY <1>4 DEF Inputs
  <2> HIDE DEF done
  <2>3. \E d \in all : \E n \in 0..Len(d) : now = SubSeq(d, 1, n)
    BY <2>1, <2>2
  <2> QED  BY <1>2, <1>4, <2>1, <2>2, <2>3 DEF all
<1>5. CASE before = <<"escape">> /\ what = "text" /\ <<"escape", "text">> \in all
  <2> DEFINE done == <<"escape", "text">>
  <2>1. now = done /\ now = SubSeq(done, 1, 2) /\ 2 \in 0..Len(done)
    BY <1>5, PrefixIs
  <2>2. what \in Inputs /\ done \in Seq(Inputs) /\ done \in all
    BY <1>5 DEF Inputs
  <2> HIDE DEF done
  <2>3. \E d \in all : \E n \in 0..Len(d) : now = SubSeq(d, 1, n)
    BY <2>1, <2>2
  <2> QED  BY <1>2, <1>5, <2>1, <2>2, <2>3 DEF all
<1> QED  BY <1>2, <1>3, <1>4, <1>5

-----------------------------------------------------------------------------
(* One executor moves, and what it moves is its own.                       *)

\* What a step of executor e leaves alone, its action being a.
OnlyOf(e, a) ==
    /\ \A f \in Executors \ {e} :
          /\ pc'[f] = pc[f] /\ doing'[f] = doing[f] /\ asked'[f] = asked[f]
          /\ req'[f] = req[f] /\ typing'[f] = typing[f]
    /\ \A b \in Ids \ {a} : result'[b] = result[b] /\ landed'[b] = landed[b]

LEMMA OthersKeep ==
    ASSUME ExecInv, NEW e \in Executors, NEW a \in Ids, OnlyOf(e, a), Shapes',
           \A f \in Executors \ {e} : doing[f] # a,
           doing'[e] \in {a, None}, pc'[e] = "idle" <=> doing'[e] = None,
           Record(a)', Stage(e)'
    PROVE  ExecInv'
<1>1. Shapes /\ Owners /\ (\A b \in Ids : Record(b)) /\ (\A f \in Executors : Stage(f))
  BY DEF ExecInv
<1>2. /\ \A f \in Executors \ {e} :
            /\ pc'[f] = pc[f] /\ doing'[f] = doing[f] /\ asked'[f] = asked[f]
            /\ req'[f] = req[f] /\ typing'[f] = typing[f]
      /\ \A b \in Ids \ {a} : result'[b] = result[b] /\ landed'[b] = landed[b]
  BY DEF OnlyOf
<1>3. a # None
  BY ActionsAssumption DEF ActionsAssumption
<1>4. Owners'
  <2>1. \A f \in Executors : pc'[f] = "idle" <=> doing'[f] = None
    BY <1>1, <1>2 DEF Owners
  <2>2. ASSUME NEW f \in Executors, NEW g \in Executors, doing'[f] = doing'[g]
        PROVE  f = g \/ doing'[f] = None
    <3>1. CASE f # e /\ g # e
      BY <1>1, <1>2, <2>2, <3>1 DEF Owners
    <3>2. CASE f = e /\ g # e
      BY <1>2, <2>2, <3>2
    <3>3. CASE f # e /\ g = e
      BY <1>2, <2>2, <3>3
    <3> QED  BY <3>1, <3>2, <3>3
  <2> QED  BY <2>1, <2>2 DEF Owners
<1>5. ASSUME NEW b \in Ids
      PROVE  Record(b)'
  <2>1. CASE b = a
    BY <2>1
  <2>2. CASE b # a
    <3>1. result'[b] = result[b] /\ landed'[b] = landed[b] /\ Record(b)
      BY <1>1, <1>2, <2>2
    <3> QED  BY <3>1 DEF Record, Begun
  <2> QED  BY <2>1, <2>2
<1>6. ASSUME NEW f \in Executors
      PROVE  Stage(f)'
  <2>1. CASE f = e
    BY <2>1
  <2>2. CASE f # e /\ doing[f] = None
    <3>1. pc'[f] = "idle"
      BY <1>1, <1>2, <2>2 DEF Owners
    <3> QED  BY <3>1 DEF Stage
  <2>3. CASE f # e /\ doing[f] # None
    <3>1. /\ pc'[f] = pc[f] /\ doing'[f] = doing[f] /\ asked'[f] = asked[f]
          /\ req'[f] = req[f] /\ typing'[f] = typing[f] /\ Stage(f)
      BY <1>1, <1>2, <2>3
    <3>2. doing[f] \in Ids \ {a}
      BY <1>1, <2>3 DEF Shapes
    <3>3. result'[doing[f]] = result[doing[f]] /\ landed'[doing[f]] = landed[doing[f]]
      BY <1>2, <3>2
    <3> QED  BY <3>1, <3>3 DEF Stage
  <2> QED  BY <2>1, <2>2, <2>3
<1> QED  BY <1>4, <1>5, <1>6 DEF ExecInv

\* An action of an executor that is at work is its own.
LEMMA Own ==
    ASSUME ExecInv, NEW e \in Executors, pc[e] # "idle"
    PROVE  /\ doing[e] \in Ids /\ doing[e] # None
           /\ \A f \in Executors \ {e} : doing[f] # doing[e]
           /\ Record(doing[e]) /\ Stage(e) /\ Shapes /\ result[doing[e]] = "unknown"
<1>1. Shapes /\ Owners /\ (\A b \in Ids : Record(b)) /\ (\A f \in Executors : Stage(f))
  BY DEF ExecInv
<1>2. doing[e] \in Ids /\ doing[e] # None
  BY <1>1 DEF Shapes, Owners
<1>3. \A f \in Executors \ {e} : doing[f] # doing[e]
  BY <1>1, <1>2 DEF Owners
<1> QED  BY <1>1, <1>2, <1>3 DEF Stage

\* An end of an action that tells the truth (ProtocolStore.finish).
LEMMA FinishKeeps ==
    ASSUME ExecInv, NEW e \in Executors, pc[e] # "idle",
           NEW outcome \in {"unknown", "sent", "rejected"}, Finish(e, outcome),
           NEW a, a = doing[e],
           landed' \in [Ids -> Seq(Inputs)],
           \A b \in Ids \ {a} : landed'[b] = landed[b],
           Begun(a)', outcome = "rejected" => landed'[a] = <<>>,
           outcome = "sent" => landed'[a] \in UNION {Complete(k) : k \in Kinds[a]}
    PROVE  ExecInv'
<1>1. /\ a \in Ids /\ a # None /\ Shapes
      /\ \A f \in Executors \ {e} : doing[f] # a
  BY Own
<1>2. /\ result' = [result EXCEPT ![a] = outcome]
      /\ pc' = [pc EXCEPT ![e] = "idle"]
      /\ doing' = [doing EXCEPT ![e] = None]
      /\ asked' = [asked EXCEPT ![e] = None]
      /\ req' = [req EXCEPT ![e] = None]
      /\ typing' = [typing EXCEPT ![e] = None]
  BY DEF Finish
<1>3. Shapes'
  <2>1. pc' \in [Executors -> Places]
    BY <1>1, <1>2 DEF Shapes, Places
  <2>2. /\ doing' \in [Executors -> Ids \union {None}]
        /\ typing' \in [Executors -> Inputs \union {None}]
        /\ result' \in [Ids -> {"none", "unknown", "sent", "rejected"}]
    BY <1>1, <1>2 DEF Shapes
  <2>3. asked' = [f \in Executors |-> asked'[f]] /\ req' = [f \in Executors |-> req'[f]]
    BY <1>1, <1>2 DEF Shapes
  <2> QED  BY <2>1, <2>2, <2>3 DEF Shapes
<1>4. OnlyOf(e, a)
  BY <1>1, <1>2 DEF Shapes, OnlyOf
<1>5. doing'[e] = None /\ pc'[e] = "idle" /\ result'[a] = outcome
  BY <1>1, <1>2 DEF Shapes
<1>6. Record(a)'
  BY <1>5 DEF Record
<1>7. Stage(e)'
  BY <1>5 DEF Stage
<1> QED  BY <1>1, <1>3, <1>4, <1>5, <1>6, <1>7, OthersKeep

\* An error that is reported before anything was typed rejects the action, one
\* reported later leaves it open.
LEMMA StopKeeps ==
    ASSUME ExecInv, NEW e \in Executors, pc[e] \notin {"idle", "sent"}, Stop(e),
           UNCHANGED landed
    PROVE  ExecInv'
<1>1. /\ Stage(e) /\ Record(doing[e]) /\ Shapes
  BY Own
<1> DEFINE outcome == ErrorOutcome(pc[e])
<1>2. outcome \in {"unknown", "rejected"}
  BY DEF ErrorOutcome
<1>3. outcome = "rejected" => landed[doing[e]] = <<>>
  <2>1. pc[e] \in Places
    BY <1>1 DEF Shapes
  <2> QED  BY <1>1, <2>1 DEF ErrorOutcome, Stage, Places
<1>4. Finish(e, outcome)
  BY DEF Stop
<1> HIDE DEF outcome
<1>5. ASSUME NEW a, a = doing[e]
      PROVE  ExecInv'
  <2>1. Begun(a)'
    BY <1>1, <1>5 DEF Record, Begun
  <2>2. outcome = "rejected" => landed'[a] = <<>>
    BY <1>3, <1>5
  <2>3. outcome \in {"unknown", "sent", "rejected"} /\ outcome # "sent"
    BY <1>2
  <2>4. landed' \in [Ids -> Seq(Inputs)] /\ \A b \in Ids \ {a} : landed'[b] = landed[b]
    BY <1>1 DEF Shapes
  <2> QED  BY <1>4, <1>5, <2>1, <2>2, <2>3, <2>4, FinishKeeps
<1> QED  BY <1>5

\* Going on from one place to another with the same action.
LEMMA MoveKeeps ==
    ASSUME ExecInv, NEW e \in Executors, pc[e] # "idle", NEW place \in Places,
           place # "idle", pc' = [pc EXCEPT ![e] = place], UNCHANGED <<doing, result, landed>>,
           \A f \in Executors \ {e} : asked'[f] = asked[f] /\ req'[f] = req[f]
                                      /\ typing'[f] = typing[f],
           asked' = [f \in Executors |-> asked'[f]], req' = [f \in Executors |-> req'[f]],
           typing' \in [Executors -> Inputs \union {None}],
           Stage(e)'
    PROVE  ExecInv'
<1>1. /\ doing[e] \in Ids /\ doing[e] # None /\ Shapes /\ Record(doing[e])
      /\ \A f \in Executors \ {e} : doing[f] # doing[e]
  BY Own
<1>2. ASSUME NEW a, a = doing[e]
      PROVE  ExecInv'
  <2>1. Shapes'
    BY <1>1 DEF Shapes
  <2>2. OnlyOf(e, a)
    BY <1>1 DEF Shapes, OnlyOf
  <2>3. Record(a)'
    BY <1>1, <1>2 DEF Record, Begun
  <2>4. pc'[e] = place /\ doing'[e] = a /\ doing'[e] # None
    BY <1>1, <1>2 DEF Shapes
  <2> QED  BY <1>1, <1>2, <2>1, <2>2, <2>3, <2>4, OthersKeep
<1> QED  BY <1>2

-----------------------------------------------------------------------------
(* The steps of an executor.                                               *)

LEMMA SubmitKeeps == ASSUME ExecInv, NEW e \in Executors, Submit(e) PROVE ExecInv'
<1>1. PICK a \in Ids :
         /\ Fresh(a) /\ \A f \in Executors : doing[f] # a
         /\ \E kind \in Kinds[a] :
               asked' = [asked EXCEPT ![e] =
                  [kind |-> kind, version |-> version,
                   request |-> IF kind = "respond" THEN store.open.id ELSE 0]]
         /\ result' = [result EXCEPT ![a] = "unknown"]
         /\ doing' = [doing EXCEPT ![e] = a]
  BY DEF Submit
<1>2. PICK kind \in Kinds[a] :
         asked' = [asked EXCEPT ![e] =
            [kind |-> kind, version |-> version,
             request |-> IF kind = "respond" THEN store.open.id ELSE 0]]
  BY <1>1
<1>3. /\ pc' = [pc EXCEPT ![e] = "lock"] /\ pc[e] = "idle" /\ result[a] = "none"
      /\ UNCHANGED <<req, typing, landed>>
  BY <1>1 DEF Submit, Fresh
<1>4. Shapes /\ Record(a) /\ Owners
  BY DEF ExecInv
<1>5. Shapes'
  BY <1>1, <1>2, <1>3, <1>4 DEF Shapes, Places
<1>6. OnlyOf(e, a)
  BY <1>1, <1>2, <1>3, <1>4 DEF Shapes, OnlyOf
<1>7. /\ doing'[e] = a /\ pc'[e] = "lock" /\ result'[a] = "unknown"
      /\ asked'[e].kind = kind /\ landed'[a] = landed[a] /\ landed[a] = <<>>
      /\ a # None
  BY <1>1, <1>2, <1>3, <1>4, ActionsAssumption DEF Shapes, Record, ActionsAssumption
<1>8. Record(a)'
  BY <1>4, <1>7 DEF Record, Begun
<1>9. Stage(e)'
  BY <1>7 DEF Stage
<1> QED  BY <1>1, <1>5, <1>6, <1>7, <1>8, <1>9, OthersKeep

\* Going on without a new input.
LEMMA GotoKeeps ==
    ASSUME ExecInv, NEW e \in Executors, pc[e] # "idle", NEW place \in Places,
           place # "idle", Goto(e, place), UNCHANGED <<asked, req, typing, landed>>,
           \/ pc[e] \in {"lock", "preflight"} /\ place \in {"preflight", "validate"}
           \/ pc[e] = "check" /\ place = "checked"
           \/ pc[e] = "verify" /\ place = "send"
           \/ pc[e] = "confirm" /\ place = "gone"
    PROVE  ExecInv'
<1>1. Stage(e) /\ Shapes
  BY Own
<1>2. pc' = [pc EXCEPT ![e] = place] /\ UNCHANGED <<result, doing>>
  BY DEF Goto
<1>3. pc'[e] = place
  BY <1>1, <1>2 DEF Shapes
<1>4. Stage(e)'
  BY <1>1, <1>2, <1>3 DEF Stage
<1>5. /\ asked' = [f \in Executors |-> asked'[f]] /\ req' = [f \in Executors |-> req'[f]]
      /\ typing' \in [Executors -> Inputs \union {None}]
  BY <1>1 DEF Shapes
<1> QED  BY <1>2, <1>4, <1>5, MoveKeeps

\* An executor decides on an input that comes next.
LEMMA TypeKeeps ==
    ASSUME ExecInv, NEW e \in Executors, pc[e] # "idle", NEW what, NEW r,
           Type(e, what, r), UNCHANGED landed,
           Step(doing[e], what, landed[doing[e]])
    PROVE  ExecInv'
<1>1. Stage(e) /\ Shapes /\ doing[e] \in Ids /\ result[doing[e]] = "unknown"
  BY Own
<1>2. /\ typing' = [typing EXCEPT ![e] = what]
      /\ req' = [req EXCEPT ![e] = r]
      /\ asked' = [asked EXCEPT ![e] = None]
      /\ pc' = [pc EXCEPT ![e] = "verify"] /\ UNCHANGED <<result, doing>>
  BY DEF Type, Goto
<1>3. what \in Inputs
  BY <1>1, StepBegins
<1>4. pc'[e] = "verify" /\ typing'[e] = what /\ "verify" \in Places
  BY <1>1, <1>2 DEF Shapes, Places
<1>5. Stage(e)'
  BY <1>1, <1>2, <1>4 DEF Stage, Step
<1>6. /\ asked' = [f \in Executors |-> asked'[f]] /\ req' = [f \in Executors |-> req'[f]]
      /\ typing' \in [Executors -> Inputs \union {None}]
      /\ \A f \in Executors \ {e} : asked'[f] = asked[f] /\ req'[f] = req[f]
                                    /\ typing'[f] = typing[f]
  BY <1>1, <1>2, <1>3 DEF Shapes
<1> QED  BY <1>2, <1>4, <1>5, <1>6, MoveKeeps

\* Validation lets an action go on to the input of its kind.
LEMMA ValidateKeeps == ASSUME ExecInv, NEW e \in Executors, Validate(e) PROVE ExecInv'
<1>1. /\ pc[e] = "validate" /\ UNCHANGED landed
      /\ Invalid(e) => Stop(e)
      /\ ~Invalid(e) => Proceed(e)
  BY DEF Validate
<1>2. /\ Stage(e) /\ Shapes /\ doing[e] \in Ids
  BY <1>1, Own
<1>3. landed[doing[e]] = <<>> /\ asked[e].kind \in Kinds[doing[e]]
  BY <1>1, <1>2 DEF Stage
<1>4. CASE Invalid(e)
  BY <1>1, <1>4, StopKeeps
<1>5. CASE ~Invalid(e) /\ asked[e].kind = "respond"
  <2>1. /\ req' = [req EXCEPT ![e] = store.open] /\ Goto(e, "check")
        /\ UNCHANGED <<asked, typing>> /\ store.open.id = asked[e].request
    BY <1>1, <1>5 DEF Proceed, Invalid
  <2>2. pc' = [pc EXCEPT ![e] = "check"] /\ UNCHANGED <<result, doing>>
    BY <2>1 DEF Goto
  <2>3. pc'[e] = "check" /\ req'[e] = store.open
    BY <1>2, <2>1, <2>2 DEF Shapes
  <2>4. Stage(e)'
    BY <1>1, <1>2, <1>3, <1>5, <2>1, <2>2, <2>3 DEF Stage
  <2>5. /\ asked' = [f \in Executors |-> asked'[f]] /\ req' = [f \in Executors |-> req'[f]]
        /\ typing' \in [Executors -> Inputs \union {None}]
        /\ \A f \in Executors \ {e} : asked'[f] = asked[f] /\ req'[f] = req[f]
                                      /\ typing'[f] = typing[f]
    BY <1>2, <2>1 DEF Shapes
  <2>6. "check" \in Places /\ "check" # "idle" /\ pc[e] # "idle"
    BY <1>1 DEF Places
  <2> QED  BY <1>1, <2>2, <2>4, <2>5, <2>6, MoveKeeps
<1>6. CASE ~Invalid(e) /\ asked[e].kind = "interrupt"
  <2>1. Type(e, "interrupt", None)
    BY <1>1, <1>6 DEF Proceed
  <2>2. Step(doing[e], "interrupt", landed[doing[e]])
    BY <1>3, <1>6 DEF Step
  <2>3. pc[e] # "idle"
    BY <1>1
  <2> QED  BY <1>1, <2>1, <2>2, <2>3, TypeKeeps
<1>7. CASE ~Invalid(e) /\ asked[e].kind \notin {"respond", "interrupt"}
  <2> DEFINE what == IF store.open = None THEN "text" ELSE "escape"
  <2>1. Type(e, what, store.open)
    BY <1>1, <1>7 DEF Proceed
  <2>2. asked[e].kind \in {"message", "dismiss"}
    BY <1>2, <1>3, <1>7, CompleteIs DEF ActionKinds
  <2>3. asked[e].kind = "message" => what = "text"
    BY <1>7 DEF Invalid
  <2>4. Step(doing[e], what, landed[doing[e]])
    BY <1>3, <2>2, <2>3 DEF Step
  <2>5. pc[e] # "idle"
    BY <1>1
  <2> HIDE DEF what
  <2> QED  BY <1>1, <2>1, <2>4, <2>5, TypeKeeps
<1> QED  BY <1>4, <1>5, <1>6, <1>7

LEMMA CheckEndKeeps == ASSUME ExecInv, NEW e \in Executors, CheckEnd(e) PROVE ExecInv'
<1>1. pc[e] = "checked" /\ UNCHANGED landed /\ (Type(e, "answer", req[e]) \/ Stop(e))
  BY DEF CheckEnd
<1>2. Stage(e) /\ pc[e] # "idle"
  BY <1>1, Own
<1>3. Step(doing[e], "answer", landed[doing[e]])
  BY <1>1, <1>2 DEF Stage, Step
<1>4. CASE Type(e, "answer", req[e])
  BY <1>1, <1>2, <1>3, <1>4, TypeKeeps
<1>5. CASE Stop(e)
  BY <1>1, <1>5, StopKeeps
<1> QED  BY <1>1, <1>4, <1>5

LEMMA DismissedKeeps == ASSUME ExecInv, NEW e \in Executors, Dismissed(e) PROVE ExecInv'
<1>1. /\ pc[e] = "gone" /\ typing[e] = "escape" /\ UNCHANGED landed
      /\ Type(e, "text", None) \/ Stop(e)
  BY DEF Dismissed
<1>2. Stage(e) /\ pc[e] # "idle"
  BY <1>1, Own
<1>3. landed[doing[e]] = <<"escape">> /\ Step(doing[e], "escape", <<>>)
  BY <1>1, <1>2 DEF Stage
<1>4. Step(doing[e], "text", landed[doing[e]])
  BY <1>3 DEF Step
<1>5. CASE Type(e, "text", None)
  BY <1>1, <1>2, <1>4, <1>5, TypeKeeps
<1>6. CASE Stop(e)
  BY <1>1, <1>6, StopKeeps
<1> QED  BY <1>1, <1>5, <1>6

\* What the terminal takes is the input that comes next.
LEMMA LandIs ==
    ASSUME ExecInv, NEW e \in Executors, pc[e] = "send", Land(e), NEW a, a = doing[e]
    PROVE  /\ a \in Ids /\ landed'[a] = Append(landed[a], typing[e])
           /\ Step(a, typing[e], landed[a]) /\ Begun(a)'
           /\ landed' \in [Ids -> Seq(Inputs)]
           /\ \A b \in Ids \ {a} : landed'[b] = landed[b]
<1>1. Stage(e) /\ Shapes /\ a \in Ids
  BY Own
<1>2. Step(a, typing[e], landed[a])
  BY <1>1 DEF Stage
<1>3. landed' = [landed EXCEPT ![a] = Append(landed[a], typing[e])]
  BY DEF Land
<1> DEFINE now == Append(landed[a], typing[e])
<1>4. /\ \E done \in UNION {Complete(k) : k \in Kinds[a]} :
            \E n \in 0..Len(done) : now = SubSeq(done, 1, n)
      /\ now \in Seq(Inputs)
  BY <1>1, <1>2, StepBegins
<1> HIDE DEF now
<1>5. landed' = [landed EXCEPT ![a] = now]
  BY <1>3 DEF now
<1>6. /\ landed'[a] = now /\ landed' \in [Ids -> Seq(Inputs)]
      /\ \A b \in Ids \ {a} : landed'[b] = landed[b]
  BY <1>1, <1>4, <1>5 DEF Shapes
<1>7. Begun(a)'
  BY <1>4, <1>6 DEF Begun
<1> QED  BY <1>1, <1>2, <1>6, <1>7 DEF now

LEMMA SendKeeps == ASSUME ExecInv, NEW e \in Executors, Send(e) PROVE ExecInv'
<1>1. /\ pc[e] = "send" /\ Land(e) /\ UNCHANGED <<asked, req, typing, result, doing>>
      /\ pc' = [pc EXCEPT ![e] =
                   IF typing[e] \in {"answer", "escape"} THEN "confirm" ELSE "sent"]
  BY DEF Send, Goto
<1>2. /\ doing[e] # None /\ Shapes
      /\ \A f \in Executors \ {e} : doing[f] # doing[e]
      /\ result[doing[e]] = "unknown"
  BY <1>1, Own
<1>3. ASSUME NEW a, a = doing[e]
      PROVE  ExecInv'
  <2>1. /\ a \in Ids /\ landed'[a] = Append(landed[a], typing[e])
        /\ Step(a, typing[e], landed[a]) /\ Begun(a)'
        /\ landed' \in [Ids -> Seq(Inputs)]
        /\ \A b \in Ids \ {a} : landed'[b] = landed[b]
    BY <1>1, <1>3, LandIs
  <2>2. pc' \in [Executors -> Places]
    BY <1>1, <1>2 DEF Shapes, Places
  <2>3. Shapes'
    BY <1>1, <1>2, <2>1, <2>2 DEF Shapes
  <2>4. OnlyOf(e, a)
    BY <1>1, <1>2, <2>1 DEF Shapes, OnlyOf
  <2>5. /\ pc'[e] = IF typing[e] \in {"answer", "escape"} THEN "confirm" ELSE "sent"
        /\ doing'[e] = a /\ typing'[e] = typing[e] /\ result'[a] = "unknown"
    BY <1>1, <1>2, <1>3 DEF Shapes
  <2>6. Record(a)'
    BY <2>1, <2>5 DEF Record
  <2>7. /\ typing[e] \in Inputs /\ landed[a] \in {<<>>, <<"escape">>}
        /\ typing[e] \in {"answer", "escape"} =>
              landed[a] = <<>> /\ Append(landed[a], typing[e]) = <<typing[e]>>
    BY <2>1, StepBegins
  <2>8. Stage(e)'
    <3>1. CASE typing[e] \in {"answer", "escape"}
      <4>1. landed'[a] = <<typing[e]>> /\ Step(a, typing[e], <<>>)
        BY <2>1, <2>7, <3>1
      <4>2. Step(a, typing[e], <<>>)'
        BY <1>1, <4>1 DEF Step
      <4> QED  BY <2>5, <3>1, <4>1, <4>2 DEF Stage
    <3>2. CASE typing[e] \notin {"answer", "escape"}
      <4>1. typing[e] \in {"text", "interrupt"}
        BY <2>7, <3>2 DEF Inputs
      <4>2. \E before \in {<<>>, <<"escape">>} :
               landed'[a] = Append(before, typing[e]) /\ Step(a, typing[e], before)
        BY <2>1, <2>7
      <4> QED  BY <2>5, <3>2, <4>1, <4>2 DEF Stage, Step
    <3> QED  BY <3>1, <3>2
  <2>9. pc'[e] # "idle" /\ doing'[e] # None
    BY <1>2, <1>3, <2>5
  <2> QED  BY <1>2, <1>3, <2>1, <2>3, <2>4, <2>5, <2>6, <2>8, <2>9, OthersKeep
<1> QED  BY <1>3

\* An error of an input under way: whether it landed or not, the action stays open.
LEMMA FailsKeeps == ASSUME ExecInv, NEW e \in Executors, Fails(e) PROVE ExecInv'
<1>1. /\ pc[e] \in {"lock", "check", "verify", "send", "confirm"} /\ Stop(e)
      /\ (pc[e] = "send" /\ Land(e)) \/ UNCHANGED landed
  BY DEF Fails
<1>2. CASE UNCHANGED landed
  BY <1>1, <1>2, StopKeeps
<1>3. CASE pc[e] = "send" /\ Land(e)
  <2>1. Finish(e, "unknown")
    BY <1>1, <1>3 DEF Stop, ErrorOutcome
  <2>2. ASSUME NEW a, a = doing[e]
        PROVE  ExecInv'
    <3>1. /\ landed' \in [Ids -> Seq(Inputs)] /\ Begun(a)'
          /\ \A b \in Ids \ {a} : landed'[b] = landed[b]
      BY <1>3, <2>2, LandIs
    <3>2. "unknown" \in {"unknown", "sent", "rejected"} /\ "unknown" # "sent"
          /\ "unknown" # "rejected" /\ pc[e] # "idle"
      BY <1>3
    <3> QED  BY <2>1, <2>2, <3>1, <3>2, FinishKeeps
  <2> QED  BY <2>2
<1> QED  BY <1>1, <1>2, <1>3

\* A confirmed action has typed all of its input.
LEMMA SentKeeps ==
    ASSUME ExecInv, NEW e \in Executors, Answered(e) \/ Sent(e)
    PROVE  ExecInv'
<1>1. /\ (pc[e] = "gone" /\ typing[e] = "answer") \/ pc[e] = "sent"
      /\ Finish(e, "sent") /\ UNCHANGED landed
  BY DEF Answered, Sent
<1>2. pc[e] # "idle"
  BY <1>1
<1>3. Stage(e) /\ Shapes /\ Record(doing[e]) /\ doing[e] \in Ids
  BY <1>2, Own
<1>4. ASSUME NEW a, a = doing[e]
      PROVE  ExecInv'
  <2>1. Begun(a)' /\ landed' \in [Ids -> Seq(Inputs)]
        /\ \A b \in Ids \ {a} : landed'[b] = landed[b]
    BY <1>1, <1>3, <1>4 DEF Record, Begun, Shapes
  <2>2. landed[a] \in UNION {Complete(k) : k \in Kinds[a]}
    <3>1. CASE pc[e] = "gone" /\ typing[e] = "answer"
      <4>1. landed[a] = <<"answer">> /\ Step(a, "answer", <<>>)
        BY <1>3, <1>4, <3>1 DEF Stage
      <4>2. "respond" \in Kinds[a]
        BY <4>1 DEF Step
      <4> QED  BY <1>3, <1>4, <4>1, <4>2, CompleteIs
    <3>2. CASE pc[e] = "sent"
      <4>1. PICK before \in {<<>>, <<"escape">>} :
               landed[a] = Append(before, typing[e]) /\ Step(a, typing[e], before)
        BY <1>3, <1>4, <3>2 DEF Stage
      <4>2. typing[e] \in {"text", "interrupt"}
        BY <1>3, <1>4, <3>2 DEF Stage
      <4> QED  BY <1>3, <1>4, <4>1, <4>2, StepBegins
    <3> QED  BY <1>1, <3>1, <3>2
  <2>3. landed'[a] \in UNION {Complete(k) : k \in Kinds[a]}
    BY <1>1, <2>2
  <2>4. "sent" \in {"unknown", "sent", "rejected"} /\ "sent" # "rejected"
    OBVIOUS
  <2> QED  BY <1>1, <1>2, <1>4, <2>1, <2>3, <2>4, FinishKeeps
<1> QED  BY <1>4

-----------------------------------------------------------------------------
(* The refresh lock.                                                       *)

\* The names of executors are neither the poller nor nobody.
LEMMA Names == None \notin Executors /\ Poller \notin Executors /\ None # Poller
BY ActionsAssumption DEF ActionsAssumption

LEMMA LockIs ==
    ASSUME Locks, NEW e \in Executors
    PROVE  /\ lock = e /\ look # None => pc[e] = "preflight"
           /\ lock = e => pc[e] \in {"preflight", "validate"} /\ match = None
           /\ pc[e] = "validate" => lock = e /\ look = None /\ match = None
BY Names DEF Locks

\* A step that leaves the lock alone and moves an executor that does not need it.
LEMMA LockStays ==
    ASSUME Locks, Shapes, NEW e \in Executors, NEW place,
           UNCHANGED <<lock, look, match>>, pc' = [pc EXCEPT ![e] = place],
           pc[e] # "validate", place # "validate", lock # e
    PROVE  Locks'
<1>1. pc'[e] = place /\ \A f \in Executors \ {e} : pc'[f] = pc[f]
  BY DEF Shapes
<1> QED  BY <1>1 DEF Locks

\* A step that sets the lock free, and the executor that had it goes on.
LEMMA LockFreed ==
    ASSUME Locks, Shapes, NEW e \in Executors, NEW place,
           lock = e, lock' = None, look' = None, UNCHANGED match,
           pc' = [pc EXCEPT ![e] = place], place # "validate"
    PROVE  Locks'
<1>1. pc'[e] = place /\ \A f \in Executors \ {e} : pc'[f] = pc[f]
  BY DEF Shapes
<1>2. match = None
  BY LockIs
<1>3. \A f \in Executors : pc'[f] # "validate"
  BY <1>1 DEF Locks
<1>4. \A f \in Executors : None # f
  BY Names
<1> QED  BY <1>2, <1>3, <1>4 DEF Locks

LEMMA ExecutorLocks ==
    ASSUME Locks, Shapes, NEW e \in Executors, Executor(e)
    PROVE  Locks'
<1>1. ASSUME NEW place, Goto(e, place) PROVE pc' = [pc EXCEPT ![e] = place]
  BY <1>1 DEF Goto
<1>2. ASSUME NEW outcome, Finish(e, outcome) PROVE pc' = [pc EXCEPT ![e] = "idle"]
  BY <1>2 DEF Finish
<1>3. ASSUME Stop(e) PROVE pc' = [pc EXCEPT ![e] = "idle"]
  BY <1>3 DEF Stop, Finish
<1>4. ASSUME NEW what, NEW r, Type(e, what, r) PROVE pc' = [pc EXCEPT ![e] = "verify"]
  BY <1>4 DEF Type, Goto
<1>5. CASE pc[e] \notin {"preflight", "validate"} /\ UNCHANGED <<lock, look, match>>
           /\ \E place : pc' = [pc EXCEPT ![e] = place] /\ place # "validate"
  <2>1. lock # e /\ pc[e] # "validate"
    BY <1>5, LockIs
  <2> QED  BY <1>5, <2>1, LockStays
<1>6. CASE Submit(e)
  <2>1. pc[e] = "idle" /\ UNCHANGED <<lock, look, match>> /\ pc' = [pc EXCEPT ![e] = "lock"]
    BY <1>6 DEF Submit, lookVars, hookVars
  <2>2. lock # e /\ pc[e] # "validate" /\ "lock" # "validate"
    BY <2>1, LockIs
  <2> QED  BY <2>1, <2>2, LockStays
<1>7. CASE TakeInput(e)
  <2>1. pc[e] = "lock" /\ UNCHANGED <<lock, look, match>>
        /\ (Goto(e, "preflight") \/ Stop(e))
    BY <1>7 DEF TakeInput, lookVars, hookVars
  <2> QED  BY <1>1, <1>3, <1>5, <2>1
<1>8. CASE pc[e] = "preflight" /\ LookStart(e)
  <2>1. lock = None /\ lock' = e /\ UNCHANGED <<match, pc>>
    BY <1>8 DEF LookStart, hookVars, execVars
  <2>2. match = None /\ \A f \in Executors : pc[f] # "validate" /\ f # None
    BY <2>1, Names DEF Locks
  <2> QED  BY <1>8, <2>1, <2>2, Names DEF Locks
<1>9. CASE ExecutorObserve(e)
  <2>1. /\ lock = e /\ look # None /\ UNCHANGED <<lock, match>> /\ look' = None
        /\ Goto(e, "validate")
    BY <1>9 DEF ExecutorObserve, Observe, hookVars
  <2>2. pc' = [pc EXCEPT ![e] = "validate"]
    BY <1>1, <2>1
  <2>3. pc'[e] = "validate" /\ \A f \in Executors \ {e} : pc'[f] = pc[f]
    BY <2>2 DEF Shapes
  <2>4. match = None /\ \A f \in Executors \ {e} : pc[f] # "validate" /\ lock # f
    BY <2>1, Names DEF Locks
  <2> QED  BY <2>1, <2>3, <2>4, Names DEF Locks
<1>10. CASE ExecutorLookFails(e)
  <2>1. lock = e /\ lock' = None /\ look' = None /\ UNCHANGED match /\ Stop(e)
    BY <1>10 DEF ExecutorLookFails, hookVars
  <2>2. pc' = [pc EXCEPT ![e] = "idle"]
    BY <1>3, <2>1
  <2> QED  BY <2>1, <2>2, LockFreed
<1>11. CASE Validate(e)
  <2>1. pc[e] = "validate" /\ lock' = None /\ UNCHANGED <<look, match>>
    BY <1>11 DEF Validate, hookVars
  <2>2. lock = e /\ look = None
    BY <2>1 DEF Locks
  <2>3. Stop(e) \/ Goto(e, "check") \/ (\E what, r : Type(e, what, r))
    BY <1>11 DEF Validate, Proceed
  <2>4. \E place \in {"idle", "check", "verify"} : pc' = [pc EXCEPT ![e] = place]
    BY <1>1, <1>3, <1>4, <2>3
  <2> QED  BY <2>1, <2>2, <2>4, LockFreed
<1>12. CASE CheckStart(e)
  <2>1. pc[e] = "check" /\ UNCHANGED <<lock, look, match>> /\ Goto(e, "checked")
    BY <1>12 DEF CheckStart, lookVars, hookVars
  <2> QED  BY <1>1, <1>5, <2>1
<1>13. CASE CheckEnd(e)
  <2>1. /\ pc[e] = "checked" /\ UNCHANGED <<lock, look, match>>
        /\ Type(e, "answer", req[e]) \/ Stop(e)
    BY <1>13 DEF CheckEnd, lookVars, hookVars
  <2> QED  BY <1>3, <1>4, <1>5, <2>1
<1>14. CASE Verify(e)
  <2>1. /\ pc[e] = "verify" /\ UNCHANGED <<lock, look, match>>
        /\ Goto(e, "send") \/ Stop(e)
    BY <1>14 DEF Verify, lookVars, hookVars
  <2> QED  BY <1>1, <1>3, <1>5, <2>1
<1>15. CASE Send(e)
  <2>1. /\ pc[e] = "send" /\ UNCHANGED <<lock, look, match>>
        /\ Goto(e, "confirm") \/ Goto(e, "sent")
    BY <1>15 DEF Send, lookVars, hookVars
  <2> QED  BY <1>1, <1>5, <2>1
<1>16. CASE Fails(e)
  <2>1. /\ pc[e] \notin {"preflight", "validate"} /\ UNCHANGED <<lock, look, match>> /\ Stop(e)
    BY <1>16 DEF Fails, lookVars, hookVars
  <2> QED  BY <1>3, <1>5, <2>1
<1>17. CASE Confirm(e)
  <2>1. /\ pc[e] = "confirm" /\ UNCHANGED <<lock, look, match>>
        /\ Goto(e, "gone") \/ Finish(e, "unknown")
    BY <1>17 DEF Confirm, lookVars, hookVars
  <2> QED  BY <1>1, <1>2, <1>5, <2>1
<1>18. CASE Answered(e) \/ Sent(e)
  <2>1. /\ pc[e] \in {"gone", "sent"} /\ UNCHANGED <<lock, look, match>> /\ Finish(e, "sent")
    BY <1>18 DEF Answered, Sent, lookVars, hookVars
  <2> QED  BY <1>2, <1>5, <2>1
<1>19. CASE Dismissed(e)
  <2>1. /\ pc[e] = "gone" /\ UNCHANGED <<lock, look, match>>
        /\ Type(e, "text", None) \/ Stop(e)
    BY <1>19 DEF Dismissed, lookVars, hookVars
  <2> QED  BY <1>3, <1>4, <1>5, <2>1
<1> QED
  BY <1>6, <1>7, <1>8, <1>9, <1>10, <1>11, <1>12, <1>13, <1>14, <1>15, <1>16, <1>17,
     <1>18, <1>19 DEF Executor

-----------------------------------------------------------------------------
(* Every step.                                                             *)

\* Executors and their record, untouched.
LEMMA UntouchedKeeps == ASSUME ExecInv, UNCHANGED execVars PROVE ExecInv'
<1>1. UNCHANGED <<result, pc, doing, asked, req, typing, landed>>
  BY DEF execVars, taskVars
<1>2. Shapes' /\ Owners'
  BY <1>1 DEF ExecInv, Shapes, Owners
<1>3. \A a \in Ids : Record(a)'
  BY <1>1 DEF ExecInv, Record, Begun
<1>4. ASSUME NEW e \in Executors PROVE Stage(e)'
  <2>1. Stage(e)
    BY DEF ExecInv
  <2> QED  BY <1>1, <2>1 DEF Stage, Step
<1> QED  BY <1>2, <1>3, <1>4 DEF ExecInv

LEMMA ExecutorKeeps ==
    ASSUME ExecInv, Locks, NEW e \in Executors, Executor(e)
    PROVE  ExecInv'
<1>1. CASE Submit(e)
  BY <1>1, SubmitKeeps
<1>2. CASE TakeInput(e)
  <2>1. /\ pc[e] = "lock" /\ pc[e] \notin {"idle", "sent"} /\ UNCHANGED landed
        /\ Stop(e) \/ (Goto(e, "preflight") /\ UNCHANGED <<asked, req, typing>>)
    BY <1>2 DEF TakeInput
  <2>2. "preflight" \in Places /\ "preflight" # "idle"
    BY DEF Places
  <2> QED  BY <2>1, <2>2, GotoKeeps, StopKeeps
<1>3. CASE pc[e] = "preflight" /\ LookStart(e)
  BY <1>3, UntouchedKeeps DEF LookStart
<1>4. CASE ExecutorObserve(e)
  <2>1. /\ Goto(e, "validate") /\ UNCHANGED <<asked, req, typing, landed>>
        /\ lock = e /\ look # None
    BY <1>4 DEF ExecutorObserve
  <2>2. pc[e] = "preflight" /\ pc[e] # "idle"
    BY <2>1 DEF Locks
  <2>3. "validate" \in Places /\ "validate" # "idle"
    BY DEF Places
  <2> QED  BY <2>1, <2>2, <2>3, GotoKeeps
<1>5. CASE ExecutorLookFails(e)
  <2>1. lock = e /\ look # None /\ Stop(e) /\ UNCHANGED landed
    BY <1>5 DEF ExecutorLookFails
  <2>2. pc[e] \notin {"idle", "sent"}
    BY <2>1 DEF Locks
  <2> QED  BY <2>1, <2>2, StopKeeps
<1>6. CASE Validate(e)
  BY <1>6, ValidateKeeps
<1>7. CASE CheckStart(e)
  <2>1. /\ pc[e] = "check" /\ pc[e] # "idle" /\ Goto(e, "checked")
        /\ UNCHANGED <<asked, req, typing, landed>>
    BY <1>7 DEF CheckStart
  <2>2. "checked" \in Places /\ "checked" # "idle"
    BY DEF Places
  <2> QED  BY <2>1, <2>2, GotoKeeps
<1>8. CASE CheckEnd(e)
  BY <1>8, CheckEndKeeps
<1>9. CASE Verify(e)
  <2>1. /\ pc[e] = "verify" /\ pc[e] \notin {"idle", "sent"} /\ UNCHANGED landed
        /\ Stop(e) \/ (Goto(e, "send") /\ UNCHANGED <<asked, req, typing>>)
    BY <1>9 DEF Verify
  <2>2. "send" \in Places /\ "send" # "idle"
    BY DEF Places
  <2> QED  BY <2>1, <2>2, GotoKeeps, StopKeeps
<1>10. CASE Send(e)
  BY <1>10, SendKeeps
<1>11. CASE Fails(e)
  BY <1>11, FailsKeeps
<1>12. CASE Confirm(e)
  <2>1. /\ pc[e] = "confirm" /\ pc[e] \notin {"idle", "sent"} /\ UNCHANGED landed
        /\ Finish(e, "unknown") \/ (Goto(e, "gone") /\ UNCHANGED <<asked, req, typing>>)
    BY <1>12 DEF Confirm
  <2>2. "gone" \in Places /\ "gone" # "idle"
    BY DEF Places
  <2>3. CASE Finish(e, "unknown")
    <3>1. Stop(e)
      BY <2>1, <2>3 DEF Stop, ErrorOutcome
    <3> QED  BY <2>1, <3>1, StopKeeps
  <2> QED  BY <2>1, <2>2, <2>3, GotoKeeps
<1>13. CASE Answered(e) \/ Sent(e)
  BY <1>13, SentKeeps
<1>14. CASE Dismissed(e)
  BY <1>14, DismissedKeeps
<1> QED
  BY <1>1, <1>2, <1>3, <1>4, <1>5, <1>6, <1>7, <1>8, <1>9, <1>10, <1>11, <1>12, <1>13,
     <1>14 DEF Executor

LEMMA RestartKeeps == ASSUME ExecInv, Restart PROVE ExecInv' /\ Locks'
<1>1. /\ pc' = [e \in Executors |-> "idle"]
      /\ doing' = NoTask /\ asked' = NoTask /\ req' = NoTask /\ typing' = NoTask
      /\ UNCHANGED <<result, landed>> /\ match' = None /\ lock' = Poller
  BY DEF Restart
<1>2. Shapes'
  BY <1>1 DEF ExecInv, Shapes, NoTask, Places
<1>3. Owners'
  BY <1>1 DEF Owners, NoTask
<1>4. \A a \in Ids : Record(a)'
  BY <1>1 DEF ExecInv, Record, Begun
<1>5. \A e \in Executors : pc'[e] = "idle"
  BY <1>1
<1>6. \A e \in Executors : Stage(e)'
  BY <1>5 DEF Stage
<1>7. Locks'
  BY <1>1, <1>5, Names DEF Locks
<1> QED  BY <1>2, <1>3, <1>4, <1>6, <1>7 DEF ExecInv

LEMMA ExecHolds ==
    ASSUME ExecInv, Locks, [Next]_vars
    PROVE  ExecInv' /\ Locks'
<1>1. Shapes
  BY DEF ExecInv
<1>2. CASE World \/ TakeIn
  <2>1. UNCHANGED execVars /\ UNCHANGED <<lock, look, match, pc>>
    BY <1>2 DEF World, AgentShows, PromptEnds, ProcessChanges, HooksAge, TakeIn, hookVars,
                lookVars, execVars
  <2> QED  BY <2>1, UntouchedKeeps DEF Locks
<1>3. CASE Observer
  <2>1. UNCHANGED execVars
    BY <1>3 DEF Observer, LookStart, Refresh, HookStart, HookEnd, HookFails, Booted
  <2>2. UNCHANGED pc /\ ExecInv'
    BY <2>1, UntouchedKeeps DEF execVars
  <2>3. CASE LookStart(Poller)
    <3>1. lock = None /\ lock' = Poller /\ UNCHANGED match
      BY <2>3 DEF LookStart, hookVars
    <3> QED  BY <2>2, <3>1, Names DEF Locks
  <2>4. CASE Refresh
    <3>1. lock = Poller /\ look # None /\ lock' = None /\ look' = None /\ UNCHANGED match
      BY <2>4 DEF Refresh, Observe, hookVars
    <3> QED  BY <2>2, <3>1, Names DEF Locks
  <2>5. CASE HookStart
    <3>1. /\ lock = None /\ UNCHANGED look
          /\ \/ lock' = Poller
             \/ UNCHANGED <<match, lock>>
      BY <2>5 DEF HookStart
    <3> QED  BY <2>2, <3>1, Names DEF Locks
  <2>6. CASE HookEnd \/ HookFails
    <3>1. match # None /\ match' = None /\ lock' = None /\ UNCHANGED look
      BY <2>6 DEF HookEnd, HookFails
    <3> QED  BY <2>2, <3>1, Names DEF Locks
  <2>7. CASE Booted
    BY <2>2, <2>7 DEF Booted, lookVars, Locks
  <2> QED  BY <1>3, <2>3, <2>4, <2>5, <2>6, <2>7 DEF Observer
<1>4. CASE \E e \in Executors : Executor(e)
  BY <1>1, <1>4, ExecutorKeeps, ExecutorLocks
<1>5. CASE Restart
  BY <1>5, RestartKeeps
<1>6. CASE UNCHANGED vars
  <2>1. UNCHANGED execVars /\ UNCHANGED <<lock, look, match, pc>>
    BY <1>6 DEF vars, hookVars, lookVars, execVars
  <2> QED  BY <2>1, UntouchedKeeps DEF Locks
<1> QED  BY <1>2, <1>3, <1>4, <1>5, <1>6 DEF Next

LEMMA ExecInit == Init => ExecInv /\ Locks
<1> SUFFICES ASSUME Init PROVE ExecInv /\ Locks
  OBVIOUS
<1>1. Shapes /\ Owners
  BY DEF Init, Shapes, Owners, NoTask, Places
<1>2. ASSUME NEW a \in Ids
      PROVE  Record(a)
  <2>1. PICK k \in Kinds[a] : k \in ActionKinds
    BY ActionsAssumption DEF ActionsAssumption
  <2>2. PICK done : done \in UNION {Complete(l) : l \in Kinds[a]}
                    /\ (\E x : done = <<x>>)
    BY <2>1, CompleteIs DEF ActionKinds
  <2>3. 0 \in 0..Len(done) /\ SubSeq(done, 1, 0) = <<>>
    BY <2>2, PrefixIs
  <2>4. landed[a] = <<>> /\ result[a] = "none"
    BY DEF Init
  <2> QED  BY <2>2, <2>3, <2>4 DEF Record, Begun
<1>3. \A e \in Executors : Stage(e)
  BY DEF Init, Stage
<1>4. Locks
  BY Names DEF Init, Locks
<1> QED  BY <1>1, <1>2, <1>3, <1>4 DEF ExecInv

LEMMA ExecAlways == Spec => [](ExecInv /\ Locks)
<1>1. (ExecInv /\ Locks) /\ [Next]_vars => (ExecInv /\ Locks)'
  BY ExecHolds
<1> QED  BY <1>1, ExecInit, PTL DEF Spec

\* The terminal takes the inputs of one action id at most once and in order, however
\* many executors, retries and ends of the process (actions.py, store.py).
THEOREM InputsOnceAlways == Spec => []InputsOnce
<1>1. ExecInv => InputsOnce
  BY DEF ExecInv, Record, Begun, InputsOnce
<1> QED  BY <1>1, ExecAlways, PTL

\* A recorded result tells the truth (ProtocolStore.finish).
THEOREM OutcomesTrue == Spec => []OutcomeIsTrue
<1>1. ExecInv => OutcomeIsTrue
  BY DEF ExecInv, Record, OutcomeIsTrue
<1> QED  BY <1>1, ExecAlways, PTL

LEMMA ExecAndNewest == Spec => [](ExecInv /\ Locks /\ Newest(store))
<1>1. Init => Newest(store)
  BY NoEvidenceNewest DEF Init
<1>2. Newest(store) /\ [Next]_vars => Newest(store)'
  BY NextNewest DEF Newest, IsStore
<1> QED  BY <1>1, <1>2, ExecAlways, PTL DEF Spec

\* Once a key or text is decided on, no hook evidence waits to be processed; text goes
\* where no request is open and an answer to the request that was asked for, whatever
\* happened since the client asked (_validate_target, _preflight, _respond).
THEOREM DecidesOnEvidence == Spec => DecidedOnEvidence
<1> DEFINE P(e) == pc'[e] = "verify" /\ pc[e] # "verify" /\ typing'[e] # "interrupt" =>
                      /\ store.deferred = 0
                      /\ typing'[e] = "text" => store'.open = None
                      /\ typing'[e] = "answer" =>
                            store.open # None /\ store.open.id = asked[e].request
<1>1. ASSUME ExecInv, Newest(store), NEW e \in Executors, Executor(e)
      PROVE  P(e)
  <2>1. Shapes /\ Stage(e)
    BY <1>1 DEF ExecInv
  <2>2. ASSUME NEW place, pc' = [pc EXCEPT ![e] = place] PROVE pc'[e] = place
    BY <2>1, <2>2 DEF Shapes
  <2>3. ASSUME NEW what, NEW r, Type(e, what, r) PROVE typing'[e] = what
    BY <2>1, <2>3 DEF Type, Shapes
  <2>4. ASSUME Stop(e) PROVE pc'[e] = "idle"
    BY <2>2, <2>4 DEF Stop, Finish
  <2>5. CASE Validate(e)
    <3>1. /\ Invalid(e) => Stop(e)
          /\ ~Invalid(e) => Proceed(e)
          /\ UNCHANGED store
      BY <2>5 DEF Validate, storeVars
    <3>2. CASE Invalid(e)
      BY <2>4, <3>1, <3>2
    <3>3. CASE ~Invalid(e) /\ asked[e].kind = "respond"
      BY <2>2, <3>1, <3>3 DEF Proceed, Goto
    <3>4. CASE ~Invalid(e) /\ asked[e].kind = "interrupt"
      BY <2>3, <3>1, <3>4 DEF Proceed
    <3>5. CASE ~Invalid(e) /\ asked[e].kind \notin {"respond", "interrupt"}
      <4>1. Type(e, IF store.open = None THEN "text" ELSE "escape", store.open)
        BY <3>1, <3>5 DEF Proceed
      <4>2. typing'[e] = IF store.open = None THEN "text" ELSE "escape"
        BY <2>3, <4>1
      <4>3. store.deferred = 0
        BY <3>5 DEF Invalid
      <4> QED  BY <3>1, <4>2, <4>3
    <3> QED  BY <3>2, <3>3, <3>4, <3>5
  <2>6. CASE CheckEnd(e)
    <3>1. CASE Stop(e)
      BY <2>4, <3>1
    <3>2. CASE ~Stop(e)
      <4>1. pc[e] = "checked" /\ IsCurrent(store, req[e].id) /\ Type(e, "answer", req[e])
        BY <2>6, <3>2 DEF CheckEnd
      <4>2. typing'[e] = "answer" /\ req[e].id = asked[e].request
        BY <2>1, <2>3, <4>1 DEF Stage
      <4> QED  BY <4>1, <4>2 DEF IsCurrent
    <3> QED  BY <3>1, <3>2
  <2>7. CASE Dismissed(e)
    <3>1. CASE Stop(e)
      BY <2>4, <3>1
    <3>2. CASE ~Stop(e)
      <4>1. /\ IsCurrent(store, req[e].id) /\ store' = Close(store, None)
            /\ Type(e, "text", None)
        BY <2>7, <3>2 DEF Dismissed
      <4>2. typing'[e] = "text" /\ store'.open = None
        BY <1>1, <2>3, <4>1, CloseNewest
      <4> QED  BY <4>1, <4>2 DEF IsCurrent
    <3> QED  BY <3>1, <3>2
  <2>8. CASE ~(Validate(e) \/ CheckEnd(e) \/ Dismissed(e))
    <3>1. \/ UNCHANGED pc
          \/ Stop(e) \/ (\E outcome : Finish(e, outcome))
          \/ pc' = [pc EXCEPT ![e] = "lock"]
          \/ \E place \in Places \ {"verify"} : Goto(e, place)
      BY <1>1, <2>8
      DEF Executor, Submit, TakeInput, LookStart, execVars, ExecutorObserve,
          ExecutorLookFails, CheckStart, Verify, Send, Fails, Confirm, Answered, Sent, Places
    <3>2. CASE UNCHANGED pc
      BY <3>2
    <3>3. CASE Stop(e) \/ (\E outcome : Finish(e, outcome))
      <4>1. pc' = [pc EXCEPT ![e] = "idle"]
        BY <3>3 DEF Stop, Finish
      <4> QED  BY <2>2, <4>1
    <3>4. CASE pc' = [pc EXCEPT ![e] = "lock"]
      BY <2>2, <3>4
    <3>5. CASE \E place \in Places \ {"verify"} : Goto(e, place)
      BY <2>2, <3>5 DEF Goto
    <3> QED  BY <3>1, <3>2, <3>3, <3>4, <3>5
  <2> QED  BY <2>5, <2>6, <2>7, <2>8
<1>2. ASSUME ExecInv, NEW e \in Executors, NEW f \in Executors \ {e}, Executor(e)
      PROVE  pc'[f] = pc[f]
  <2>1. Shapes
    BY <1>2 DEF ExecInv
  <2>2. UNCHANGED pc \/ \E place : pc' = [pc EXCEPT ![e] = place]
    BY <1>2
    DEF Executor, Submit, TakeInput, LookStart, execVars, ExecutorObserve,
        ExecutorLookFails, Validate, Proceed, CheckStart, CheckEnd, Verify, Send, Fails,
        Confirm, Answered, Dismissed, Sent, Stop, Finish, Goto, Type
  <2> QED  BY <2>1, <2>2 DEF Shapes
<1>3. ASSUME ExecInv, Newest(store), [Next]_vars, NEW e \in Executors
      PROVE  P(e)
  <2>1. CASE UNCHANGED pc
    BY <2>1
  <2>2. CASE Restart
    <3>1. pc'[e] = "idle"
      BY <2>2 DEF Restart
    <3> QED  BY <3>1
  <2>3. CASE Executor(e)
    BY <1>1, <1>3, <2>3
  <2>4. CASE \E f \in Executors \ {e} : Executor(f)
    <3>1. pc'[e] = pc[e]
      BY <1>2, <1>3, <2>4
    <3> QED  BY <3>1
  <2>5. CASE World \/ TakeIn \/ Observer \/ UNCHANGED vars
    BY <2>1, <2>5 DEF World, AgentShows, PromptEnds, ProcessChanges, HooksAge, TakeIn,
       Observer, LookStart, Refresh, HookStart, HookEnd, HookFails, Booted, execVars, vars
  <2> QED  BY <1>3, <2>1, <2>2, <2>3, <2>4, <2>5 DEF Next
<1>4. ASSUME ExecInv, Newest(store), [Next]_vars
      PROVE  \A e \in Executors : P(e)
  BY <1>3, <1>4
<1>5. (ExecInv /\ Newest(store)) /\ [Next]_vars => [\A e \in Executors : P(e)]_vars
  BY <1>4
<1> QED  BY <1>5, ExecAndNewest, PTL DEF Spec, DecidedOnEvidence

-----------------------------------------------------------------------------
(* What a request is bound to, and which evidence was used.                *)

\* The open request has controls exactly while it is bound, to the hook it shows.
Tied(s) ==
    /\ IsStore(s)
    /\ s.open \in Requests \union {None}
    /\ s.hook \in Evidence /\ s.latest \in Evidence
    /\ s.consumed \subseteq Hooks
    /\ s.deferred \in Nat
    /\ s.bound # None => s.open # None /\ s.open.hook # None
    /\ s.open # None /\ s.open.hook # None =>
          /\ s.bound = Binding(s.open.hook, s.open.prompt, s.open.version)
          /\ s.open.observed = s.open.hook

\* What store t has that came of store s without a new request: used evidence stays
\* used, and evidence of a request that is over was used.
Keeps(s, t) ==
    /\ Tied(t)
    /\ s.consumed \subseteq t.consumed
    /\ s.bound # None => t.bound = s.bound \/ s.bound.hook \in t.consumed
    /\ t.open \in {s.open, None}
    /\ t.deferred = s.deferred

\* Nothing else happened to the evidence: what is still to come stays so.
Rests(s, t) ==
    /\ t.latest = s.latest
    /\ t.hook # t.latest /\ t.latest \notin t.consumed => s.hook # s.latest \/ s.latest = None

\* A binding is a value of its own.
LEMMA BindingIs ==
    ASSUME NEW h \in Hooks, NEW p \in Prompts, NEW v \in Nat
    PROVE  Binding(h, p, v) # None /\ Binding(h, p, v).hook = h
BY ActionsAssumption DEF ActionsAssumption, Bindings, Binding

LEMMA TiedIs ==
    ASSUME NEW s, Tied(s)
    PROVE  /\ s.open # None => /\ s.open \in Requests /\ s.open.hook \in Evidence
                               /\ s.open.version \in Nat /\ s.open.prompt \in Prompts
           /\ s.bound # None => s.bound.hook \in Hooks /\ s.bound.hook = s.open.hook
           /\ s.bound = None <=> s.open = None \/ s.open.hook = None
<1>1. s.open # None => /\ s.open \in Requests /\ s.open.hook \in Evidence
                       /\ s.open.version \in Nat /\ s.open.prompt \in Prompts
  BY DEF Tied, Requests
<1>2. ASSUME s.open # None, s.open.hook # None
      PROVE  s.bound # None /\ s.bound.hook = s.open.hook /\ s.bound.hook \in Hooks
  <2>1. s.open.hook \in Hooks /\ s.open.prompt \in Prompts /\ s.open.version \in Nat
    BY <1>1, <1>2 DEF Evidence
  <2>2. s.bound = Binding(s.open.hook, s.open.prompt, s.open.version)
    BY <1>2 DEF Tied
  <2> QED  BY <2>1, <2>2, BindingIs
<1>3. s.bound # None => s.open # None /\ s.open.hook # None
  BY DEF Tied
<1> QED  BY <1>1, <1>2, <1>3

LEMMA NoEvidenceTied == Tied(NoEvidence)
BY DEF Tied, IsStore, NoEvidence, Evidence

\* RequestStore.close
LEMMA CloseKeeps ==
    ASSUME NEW s, Tied(s), NEW kept
    PROVE  /\ Keeps(s, Close(s, kept)) /\ Rests(s, Close(s, kept))
           /\ Close(s, kept).open = None /\ Close(s, kept).bound = None
           /\ s.latest # None => s.latest \in Close(s, None).consumed
           /\ Close(s, None).hook = None
           /\ Close(s, None).consumed \subseteq
                 s.consumed \union {s.hook, s.latest}
                            \union {h \in Hooks : s.bound # None /\ s.bound.hook = h}
<1> DEFINE bound == IF s.bound = None THEN None ELSE s.bound.hook
           used(k) == s.consumed \union ((({s.hook, s.latest} \ {k}) \union {bound}) \ {None})
<1>1. ASSUME NEW k
      PROVE  Close(s, k) = [s EXCEPT !.open = None, !.bound = None,
                                     !.hook = IF @ = k THEN @ ELSE None,
                                     !.consumed = used(k)]
  BY DEF Close, Tied, IsStore
<1>2. bound \in Evidence /\ (s.bound # None => bound = s.bound.hook /\ bound \in Hooks)
  BY TiedIs DEF Evidence
<1>3. None \notin Hooks
  BY RequestStoreAssumption DEF RequestStoreAssumption
<1> HIDE DEF bound
<1>4. ASSUME NEW k
      PROVE  /\ used(k) \subseteq Hooks /\ s.consumed \subseteq used(k)
             /\ bound # None => bound \in used(k)
             /\ s.latest # None /\ s.latest # k => s.latest \in used(k)
  BY <1>2 DEF Tied, Evidence
<1>5. used(None) \subseteq s.consumed \union {s.hook, s.latest}
                            \union {h \in Hooks : s.bound # None /\ s.bound.hook = h}
  BY <1>2 DEF bound
<1>6. ASSUME NEW k, NEW t, NEW c, c = used(k), IsStore(t),
             t.open = None, t.bound = None, t.consumed = c,
             t.hook = (IF s.hook = k THEN s.hook ELSE None),
             t.latest = s.latest, t.deferred = s.deferred
      PROVE  Keeps(s, t) /\ Rests(s, t)
  <2> HIDE DEF used
  <2>1. /\ c \subseteq Hooks /\ s.consumed \subseteq c
        /\ bound # None => bound \in c
        /\ s.latest # None /\ s.latest # k => s.latest \in c
    BY <1>4, <1>6
  <2>2. Tied(t)
    BY <1>6, <2>1 DEF Tied, Evidence
  <2>3. Keeps(s, t)
    BY <1>2, <1>3, <1>6, <2>1, <2>2 DEF Keeps
  <2>4. Rests(s, t)
    BY <1>6, <2>1 DEF Rests
  <2> QED  BY <2>3, <2>4
<1>7. ASSUME NEW k, NEW t, t = Close(s, k)
      PROVE  /\ IsStore(t) /\ t.open = None /\ t.bound = None /\ t.consumed = used(k)
             /\ t.hook = (IF s.hook = k THEN s.hook ELSE None)
             /\ t.latest = s.latest /\ t.deferred = s.deferred
  <2> DEFINE c == used(k)
             h == IF s.hook = k THEN s.hook ELSE None
  <2>1. t = [s EXCEPT !.open = None, !.bound = None, !.hook = h, !.consumed = c]
    BY <1>1, <1>7
  <2>2. s = [open |-> s.open, hook |-> s.hook, bound |-> s.bound, consumed |-> s.consumed,
             latest |-> s.latest, deferred |-> s.deferred]
    BY DEF Tied, IsStore
  <2> HIDE DEF c, h, used
  <2>3. /\ IsStore(t) /\ t.open = None /\ t.bound = None /\ t.consumed = c /\ t.hook = h
        /\ t.latest = s.latest /\ t.deferred = s.deferred
    BY <2>1, <2>2 DEF IsStore
  <2> QED  BY <2>3 DEF c, h
<1> DEFINE t1 == Close(s, kept)
           t2 == Close(s, None)
<1> HIDE DEF used
<1>8. /\ IsStore(t1) /\ t1.open = None /\ t1.bound = None /\ t1.consumed = used(kept)
      /\ t1.hook = (IF s.hook = kept THEN s.hook ELSE None)
      /\ t1.latest = s.latest /\ t1.deferred = s.deferred
  BY <1>7
<1>9. t2.consumed = used(None) /\ t2.hook = None
  BY <1>7
<1>10. s.latest # None => s.latest \in used(None)
  BY <1>4
<1> HIDE DEF t1, t2
<1>11. Keeps(s, t1) /\ Rests(s, t1)
  BY <1>6, <1>8
<1> QED  BY <1>5, <1>8, <1>9, <1>11, <1>10 DEF t1, t2

LEMMA KeepsOf ==
    ASSUME NEW s, NEW t, NEW u, Keeps(s, t), Keeps(t, u)
    PROVE  Keeps(s, u)
BY DEF Keeps

\* RequestStore.observe_identity
LEMMA IdentityKeeps ==
    ASSUME NEW s, Tied(s), NEW h \in Hooks, NEW t, t = ObserveIdentity(s, h)
    PROVE  /\ Keeps(s, t) /\ t.latest = h
           /\ t.hook \in {s.hook, None}
           /\ s.latest \in {None, h} => t.hook = s.hook /\ t.consumed = s.consumed
<1>1. CASE s.latest \in {None, h}
  <2>1. t = [s EXCEPT !.latest = h]
    BY <1>1 DEF ObserveIdentity
  <2>2. /\ IsStore(t) /\ t.open = s.open /\ t.bound = s.bound /\ t.consumed = s.consumed
        /\ t.hook = s.hook /\ t.latest = h /\ t.deferred = s.deferred
    BY <2>1 DEF Tied, IsStore
  <2>3. Tied(t)
    BY <2>2 DEF Tied, Evidence
  <2> QED  BY <2>2, <2>3 DEF Keeps
<1>2. CASE s.latest \notin {None, h}
  <2> DEFINE c == Close(s, None)
  <2>1. Keeps(s, c) /\ c.open = None /\ c.bound = None
    BY CloseKeeps
  <2>2. t = [c EXCEPT !.latest = h]
    BY <1>2 DEF ObserveIdentity
  <2>3. c.hook = None
    BY DEF Close, Tied, IsStore
  <2> HIDE DEF c
  <2>4. Tied(c)
    BY <2>1 DEF Keeps
  <2>5. /\ IsStore(t) /\ t.open = c.open /\ t.bound = c.bound /\ t.consumed = c.consumed
        /\ t.hook = c.hook /\ t.latest = h /\ t.deferred = c.deferred
    BY <2>2, <2>4 DEF Tied, IsStore
  <2>6. Tied(t)
    BY <2>4, <2>5 DEF Tied, Evidence
  <2>7. Keeps(c, t)
    BY <2>5, <2>6 DEF Keeps
  <2> QED  BY <1>2, <2>1, <2>3, <2>5, <2>7, KeepsOf
<1> QED  BY <1>1, <1>2

\* RequestStore.observe_hook, of evidence it takes
LEMMA HookKeeps ==
    ASSUME NEW s, Tied(s), NEW h \in Hooks, NEW t, t = [ObserveIdentity(s, h) EXCEPT !.hook = h]
    PROVE  /\ Keeps(s, t) /\ t.latest = h /\ t.hook = h
<1> DEFINE c == ObserveIdentity(s, h)
<1>1. Keeps(s, c) /\ c.latest = h
  BY IdentityKeeps
<1>2. t = [c EXCEPT !.hook = h]
  OBVIOUS
<1> HIDE DEF c
<1>3. Tied(c)
  BY <1>1 DEF Keeps
<1>4. /\ IsStore(t) /\ t.open = c.open /\ t.bound = c.bound /\ t.consumed = c.consumed
      /\ t.hook = h /\ t.latest = h /\ t.deferred = c.deferred
  BY <1>1, <1>2, <1>3 DEF Tied, IsStore
<1>5. Tied(t)
  BY <1>3, <1>4 DEF Tied, Evidence
<1>6. Keeps(c, t)
  BY <1>4, <1>5 DEF Keeps
<1> QED  BY <1>1, <1>4, <1>6, KeepsOf

\* RequestStore.reconcile without a prompt
LEMMA AbsentKeeps ==
    ASSUME NEW s, Tied(s)
    PROVE  Keeps(s, ReconcileAbsent(s)) /\ Rests(s, ReconcileAbsent(s))
<1>1. Keeps(s, s) /\ Rests(s, s)
  BY DEF Keeps, Rests
<1> DEFINE kept == IF s.latest = s.open.hook THEN None ELSE s.latest
<1>2. Keeps(s, Close(s, kept)) /\ Rests(s, Close(s, kept))
  BY CloseKeeps
<1> HIDE DEF kept
<1>3. ReconcileAbsent(s) \in {s, Close(s, kept)}
  BY DEF ReconcileAbsent, kept
<1> QED  BY <1>1, <1>2, <1>3

\* Evidence bound to a prompt and version that are gone is used (RequestStore.reconcile).
LEMMA UnboundIs ==
    ASSUME NEW s, Tied(s), NEW p, NEW v, NEW past, NEW t, t = Unbound(s, p, v, past)
    PROVE  \/ /\ t = s
              /\ s.bound # None /\ s.bound.hook = s.hook /\ ~IsConsumed(s, s.hook, past) =>
                    s.bound = Binding(s.hook, p, v)
           \/ /\ s.open # None /\ s.open.hook # None /\ s.open.hook = s.hook
              /\ s.open.prompt # p \/ s.open.version # v
              /\ IsStore(t) /\ t.open = s.open /\ t.bound = None
              /\ t.hook = s.hook /\ t.latest = s.latest /\ t.deferred = s.deferred
              /\ t.consumed = s.consumed \union {s.open.hook} /\ s.open.hook \in Hooks
<1>1. CASE /\ s.bound # None /\ ~IsConsumed(s, s.hook, past)
           /\ s.bound.hook = s.hook /\ s.bound # Binding(s.hook, p, v)
  <2>1. t = [s EXCEPT !.bound = None, !.consumed = @ \union {s.hook}]
    BY <1>1 DEF Unbound
  <2>2. /\ s.open # None /\ s.open.hook # None /\ s.open.hook = s.hook
        /\ s.open.hook \in Hooks
    BY <1>1, TiedIs DEF Evidence
  <2>3. s.open.prompt # p \/ s.open.version # v
    BY <1>1, <2>2 DEF Tied
  <2>4. /\ IsStore(t) /\ t.open = s.open /\ t.bound = None
        /\ t.hook = s.hook /\ t.latest = s.latest /\ t.deferred = s.deferred
        /\ t.consumed = s.consumed \union {s.hook}
    BY <2>1 DEF Tied, IsStore
  <2> QED  BY <2>2, <2>3, <2>4
<1>2. CASE ~(/\ s.bound # None /\ ~IsConsumed(s, s.hook, past)
             /\ s.bound.hook = s.hook /\ s.bound # Binding(s.hook, p, v))
  BY <1>2 DEF Unbound
<1> QED  BY <1>1, <1>2

\* The open request gives way, and with it what it was bound to.
LEMMA DisplacedIs ==
    ASSUME NEW s, Tied(s), NEW p, NEW v, NEW past,
           NEW now, now = Unbound(s, p, v, past), NEW t, t = Displaced(now)
    PROVE  /\ IsStore(t) /\ t.bound = None
           /\ t.hook = s.hook /\ t.latest = s.latest /\ t.deferred = s.deferred
           /\ t.consumed \subseteq Hooks /\ s.consumed \subseteq t.consumed
           /\ s.open # None /\ s.open.hook # None => s.open.hook \in t.consumed
<1>1. /\ IsStore(now) /\ now.open = s.open
      /\ now.hook = s.hook /\ now.latest = s.latest /\ now.deferred = s.deferred
      /\ s.consumed \subseteq now.consumed /\ now.consumed \subseteq Hooks
      /\ now.bound = s.bound \/ now.bound = None
  BY UnboundIs DEF Tied
<1>2. CASE s.open # None /\ s.open.hook # None
  <2>1. t = [now EXCEPT !.bound = None, !.consumed = @ \union {s.open.hook}]
    BY <1>1, <1>2 DEF Displaced
  <2>2. s.open.hook \in Hooks
    BY <1>2, TiedIs DEF Evidence
  <2>3. /\ IsStore(t) /\ t.bound = None /\ t.consumed = now.consumed \union {s.open.hook}
        /\ t.hook = now.hook /\ t.latest = now.latest /\ t.deferred = now.deferred
    BY <1>1, <2>1 DEF IsStore
  <2> QED  BY <1>1, <2>2, <2>3
<1>3. CASE ~(s.open # None /\ s.open.hook # None)
  <2>1. t = now
    BY <1>1, <1>3 DEF Displaced
  <2>2. now.bound = None
    BY <1>1, <1>3, TiedIs
  <2> QED  BY <1>1, <1>3, <2>1, <2>2
<1> QED  BY <1>2, <1>3

\* A request that opens with controls opens for evidence that was never used.
Opens(s, t, past, id) ==
    /\ Tied(t)
    /\ s.consumed \subseteq t.consumed
    /\ s.bound # None => t.bound = s.bound \/ s.bound.hook \in t.consumed
    /\ t.deferred = s.deferred
    /\ t.open \in {s.open, None} \/
          (/\ t.open.id = id
           /\ t.open.hook # None =>
                 /\ t.open.hook \in Hooks \ (past \union s.consumed)
                 /\ s.bound # None => s.bound.hook # t.open.hook)

LEMMA ReconcileOpens ==
    ASSUME NEW s, Tied(s), NEW p \in Prompts, NEW v \in Nat, NEW past, NEW id \in Nat \ {0},
           NEW t, t = Reconcile(s, p, v, past, id)
    PROVE  Opens(s, t, past, id) /\ Rests(s, t)
<1> DEFINE now == Unbound(s, p, v, past)
           h == Structuring(now, p, v, past)
           rest == Displaced(now)
           new == [id |-> id, version |-> v, prompt |-> p, hook |-> h, observed |-> s.hook]
           same == now.open # None /\ [now.open EXCEPT !.id = id] = new
           b == IF h # None THEN Binding(h, p, v) ELSE rest.bound
<1>1. p # None
  BY RequestStoreAssumption DEF RequestStoreAssumption
<1>2. t = IF same THEN now ELSE [rest EXCEPT !.open = new, !.bound = b]
  BY <1>1 DEF Reconcile
<1>3. \/ /\ now = s
         /\ s.bound # None /\ s.bound.hook = s.hook /\ ~IsConsumed(s, s.hook, past) =>
               s.bound = Binding(s.hook, p, v)
      \/ /\ s.open # None /\ s.open.hook # None /\ s.open.hook = s.hook
         /\ s.open.prompt # p \/ s.open.version # v
         /\ IsStore(now) /\ now.open = s.open /\ now.bound = None
         /\ now.hook = s.hook /\ now.latest = s.latest /\ now.deferred = s.deferred
         /\ now.consumed = s.consumed \union {s.open.hook} /\ s.open.hook \in Hooks
  BY UnboundIs
<1>4. /\ IsStore(rest) /\ rest.bound = None
      /\ rest.hook = s.hook /\ rest.latest = s.latest /\ rest.deferred = s.deferred
      /\ rest.consumed \subseteq Hooks /\ s.consumed \subseteq rest.consumed
      /\ s.open # None /\ s.open.hook # None => s.open.hook \in rest.consumed
  BY DisplacedIs
<1>5. \/ h = None
      \/ /\ h = now.hook /\ h # None /\ ~IsConsumed(now, h, past)
         /\ now.bound = Binding(h, p, v) \/ (h \notin past /\ Asks[h] = p)
  BY DEF Structuring, Matches
<1>6. now.hook = s.hook /\ now.open = s.open
  BY <1>3
<1>7. h \in Evidence /\ (h # None => h = s.hook /\ h \in Hooks)
  BY <1>5, <1>6 DEF Tied, Evidence
<1>8. new.id = id /\ new.version = v /\ new.prompt = p /\ new.hook = h /\ new.observed = s.hook
  OBVIOUS
<1>9. new \in Requests
  BY <1>7 DEF Requests, Tied
<1>10. s.open # None => s.open \in Requests
  BY TiedIs
<1>11. ASSUME same PROVE now = s
  <2>1. s.open \in Requests /\ [s.open EXCEPT !.id = id] = new
    BY <1>6, <1>10, <1>11
  <2>2. s.open.prompt = p /\ s.open.version = v
    BY <1>8, <2>1 DEF Requests
  <2> QED  BY <1>3, <2>2
<1>12. ASSUME ~same, h # None
       PROVE  h \notin past \union s.consumed /\ (s.bound # None => s.bound.hook # h)
  <2>1. h = s.hook /\ h \in Hooks
    BY <1>7, <1>12
  <2>2. Binding(h, p, v) # None /\ Binding(h, p, v).hook = h
    BY <2>1, BindingIs
  <2>3. now = s
    <3>1. ASSUME now.bound = None, h \in now.consumed PROVE FALSE
      BY <1>5, <1>12, <2>2, <3>1 DEF IsConsumed
    <3> QED  BY <1>3, <2>1, <3>1
  <2>4. ~IsConsumed(s, h, past)
    BY <1>5, <1>12, <2>3
  <2>5. ASSUME s.bound # None, s.bound.hook = h
        PROVE  FALSE
    <3>1. s.bound = Binding(h, p, v)
      BY <1>3, <2>1, <2>3, <2>4, <2>5
    <3>2. /\ s.open # None /\ s.open.hook # None /\ s.open.observed = s.open.hook
          /\ s.bound = Binding(s.open.hook, s.open.prompt, s.open.version)
      BY <2>5 DEF Tied
    <3>3. s.open.hook = h /\ s.open.prompt = p /\ s.open.version = v
      BY <3>1, <3>2 DEF Binding
    <3>4. [s.open EXCEPT !.id = id] = new
      BY <1>10, <2>1, <3>2, <3>3 DEF Requests
    <3> QED  BY <1>6, <1>12, <3>2, <3>4
  <2>6. s.bound # Binding(h, p, v)
    BY <2>2, <2>5
  <2>7. h \notin past
    BY <1>5, <1>12, <2>3, <2>6
  <2> QED  BY <2>4, <2>5, <2>7 DEF IsConsumed
<1>13. CASE same
  <2>1. t = s
    BY <1>2, <1>11, <1>13
  <2> QED  BY <2>1 DEF Opens, Rests
<1>14. CASE ~same
  <2>1. t = [rest EXCEPT !.open = new, !.bound = b]
    BY <1>2, <1>14
  <2>2. b = IF h # None THEN Binding(h, p, v) ELSE None
    BY <1>4
  <2>3. h # None => h \notin past \union s.consumed /\ (s.bound # None => s.bound.hook # h)
    BY <1>12, <1>14
  <2> HIDE DEF now, h, rest, new, same, b
  <2>4. /\ IsStore(t) /\ t.open = new /\ t.bound = b /\ t.consumed = rest.consumed
        /\ t.hook = rest.hook /\ t.latest = rest.latest /\ t.deferred = rest.deferred
    BY <1>4, <2>1 DEF IsStore
  <2>5. h # None => h = s.hook /\ Binding(h, p, v) # None
    BY <1>7, BindingIs
  <2>6. Tied(t)
    <3>1. new # None
      BY <1>9, ActionsAssumption DEF ActionsAssumption
    <3> QED  BY <1>4, <1>8, <1>9, <3>1, <2>2, <2>4, <2>5 DEF Tied
  <2>7. s.bound # None => s.bound.hook \in t.consumed
    BY <1>4, <2>4, TiedIs
  <2>8. t.open.id = id /\ t.open.hook = h
    BY <1>8, <2>4
  <2>9. Opens(s, t, past, id)
    BY <1>4, <1>7, <2>3, <2>4, <2>6, <2>7, <2>8 DEF Opens
  <2>10. Rests(s, t)
    BY <1>4, <2>4 DEF Rests
  <2> QED  BY <2>9, <2>10
<1> QED  BY <1>13, <1>14

-----------------------------------------------------------------------------
(* The evidence that is still to be processed.                             *)

\* The tickets of the hooks in the queue and of the one that is matched.
Count(q) == Cardinality({i \in DOMAIN q : q[i].ticket})
Tickets(q, m) == Count(q) + (IF m # None /\ m.ticket THEN 1 ELSE 0)

\* RequestStore.observe_identity does not take the hook, now or later.
Refused(s, h, past) ==
    \/ h \in past \union s.consumed
    \/ s.latest # None /\ Stamp[h] < Stamp[s.latest]

\* Once the process runs, a hook without a ticket is one that is refused.
Vouched(s, q, m, boot, past) ==
    ~boot => /\ m # None => m.ticket
             /\ \A i \in DOMAIN q : q[i].ticket \/ Refused(s, q[i].hook, past)

\* The latest identity, while it may still become evidence, has a hook that waits, or
\* a ticket that nobody will resolve.
Waiting(s, q, m, past) ==
    s.latest \notin past \union s.consumed \union {None, s.hook} =>
       \/ Tickets(q, m) < s.deferred
       \/ \E i \in DOMAIN q : q[i].ticket /\ q[i].hook = s.latest
       \/ m # None /\ m.hook = s.latest

Intake(s, q, m, boot, past) ==
    /\ Tickets(q, m) <= s.deferred
    /\ Vouched(s, q, m, boot, past)
    /\ Waiting(s, q, m, past)

\* Hooks that gave controls once are not fit to give them again.
Spent(s, past, given) ==
    \A h \in Hooks :
       /\ given[h] \in 0..1
       /\ given[h] = 1 => h \in past \union s.consumed \/ (s.bound # None /\ s.bound.hook = h)

Values ==
    /\ screen \in Prompts \union {None}
    /\ look # None => look.prompt \in Prompts \union {None}
    /\ version \in Nat /\ horizon \in Nat
    /\ logged \in 0..Cardinality(Hooks) /\ intake \in 0..logged
    /\ queue \in Seq(Entries) /\ (~booting => Len(queue) <= QueueMax)
    /\ match \in Entries \union {None}
    /\ controls \in [Hooks -> Nat]

\* An executor that holds the id of the open request holds that request.
Held ==
    /\ \A e \in Executors :
          req[e] # None /\ store.open # None /\ req[e].id = store.open.id => req[e] = store.open
    /\ \A e \in Executors :
          /\ pc[e] \in {"check", "checked"} => req[e] # None
          /\ pc[e] \in {"verify", "send", "confirm", "gone"} /\ typing[e] \in {"answer", "escape"} =>
                req[e] # None

StoreInv ==
    /\ Values
    /\ Tied(store)
    /\ Spent(store, gone, controls)
    /\ Intake(store, queue, match, booting, gone)
    /\ Held

-----------------------------------------------------------------------------
(* Names and tickets.                                                      *)

LEMMA ImageFinite ==
    ASSUME NEW S, IsFiniteSet(S), NEW f, NEW T, T = {f[x] : x \in S}
    PROVE  IsFiniteSet(T)
<1> DEFINE g == [x \in S |-> f[x]]
<1>1. g \in [S -> T] /\ \A t \in T : \E x \in S : g[x] = t
  OBVIOUS
<1> HIDE DEF g
<1>2. g \in Surjection(S, T)
  BY <1>1 DEF Surjection
<1> QED  BY <1>2, FS_Surjection

\* The name of a new request is one that nobody uses (new_id).
LEMMA FreshIs ==
    /\ FreshId \in Nat \ {0}
    /\ \A e \in Executors : req[e] # None => req[e].id # FreshId
<1> DEFINE held == {req[e] : e \in Executors}
           used == {store.open} \union held
           now == used \ {None}
           id == [r \in now |-> r.id]
           ids == {r.id : r \in now}
           wanting == {f \in Executors : asked[f] # None}
           wants == [e \in wanting |-> asked[e].request]
           wanted == {asked[e].request : e \in wanting}
           names == ids \union wanted
           n == Cardinality(names)
<1>1. IsFiniteSet(Executors)
  BY ActionsAssumption DEF ActionsAssumption
<1>2. IsFiniteSet(held)
  BY <1>1, ImageFinite
<1>3. IsFiniteSet({store.open}) /\ IsFiniteSet(wanting)
  BY <1>1, FS_Singleton, FS_Subset
<1>4. IsFiniteSet(used)
  BY <1>2, <1>3, FS_Union
<1>5. IsFiniteSet(now)
  BY <1>4, FS_Subset
<1>6. IsFiniteSet(ids)
  <2>1. ids = {id[r] : r \in now}
    OBVIOUS
  <2> HIDE DEF ids, id, now
  <2> QED  BY <1>5, <2>1, ImageFinite
<1>7. IsFiniteSet(wanted)
  <2>1. wanted = {wants[e] : e \in wanting}
    OBVIOUS
  <2> HIDE DEF wanted, wants, wanting
  <2> QED  BY <1>3, <2>1, ImageFinite
<1>8. IsFiniteSet(names) /\ n \in Nat
  BY <1>6, <1>7, FS_Union, FS_CardinalityType
<1>9. FreshId = CHOOSE k \in 1..(n + 1) : k \notin names
  BY DEF FreshId
<1>10. \A e \in Executors : req[e] # None => req[e].id \in names
  OBVIOUS
<1> HIDE DEF names, n
<1>11. \E k \in 1..(n + 1) : k \notin names
  <2>1. SUFFICES ASSUME 1..(n + 1) \subseteq names PROVE FALSE
    OBVIOUS
  <2>2. Cardinality(1..(n + 1)) = n + 1
    <3>1. 1 \in Int /\ n + 1 \in Int /\ ~(1 > n + 1) /\ (n + 1) - 1 + 1 = n + 1
      BY <1>8
    <3> QED  BY <3>1, FS_Interval
  <2>3. Cardinality(1..(n + 1)) <= Cardinality(names)
    BY <1>8, <2>1, FS_Subset
  <2> QED  BY <1>8, <2>2, <2>3 DEF n
<1>12. FreshId \in 1..(n + 1) /\ FreshId \notin names
  BY <1>9, <1>11
<1> QED  BY <1>8, <1>10, <1>12

LEMMA CountType ==
    ASSUME NEW q \in Seq(Entries)
    PROVE  Count(q) \in Nat /\ IsFiniteSet({i \in DOMAIN q : q[i].ticket})
<1> DEFINE T == {i \in DOMAIN q : q[i].ticket}
<1>1. DOMAIN q = 1..Len(q) /\ Len(q) \in Nat
  OBVIOUS
<1>2. IsFiniteSet(1..Len(q))
  BY <1>1, FS_Interval
<1>3. T \subseteq 1..Len(q)
  BY <1>1
<1> HIDE DEF T
<1>4. IsFiniteSet(T) /\ Cardinality(T) \in Nat
  BY <1>2, <1>3, FS_Subset, FS_CardinalityType
<1> QED  BY <1>4 DEF T, Count

LEMMA CountPut ==
    ASSUME NEW q \in Seq(Entries), NEW x \in Entries
    PROVE  Count(Append(q, x)) = Count(q) + (IF x.ticket THEN 1 ELSE 0)
<1> DEFINE r == Append(q, x)
           T == {i \in DOMAIN q : q[i].ticket}
           U == {i \in DOMAIN r : r[i].ticket}
           k == Len(q) + 1
<1>1. /\ r \in Seq(Entries) /\ Len(r) = k /\ r[k] = x
      /\ \A i \in 1..Len(q) : r[i] = q[i]
  BY AppendProperties
<1>2. DOMAIN q = 1..Len(q) /\ DOMAIN r = 1..k /\ k \in Nat /\ Len(q) \in Nat
  BY <1>1
<1>3. \A i \in 1..k : i \in 1..Len(q) \/ i = k
  BY <1>2
<1>4. k \notin 1..Len(q) /\ k \in 1..k /\ 1..Len(q) \subseteq 1..k
  BY <1>2
<1> HIDE DEF r, k
<1>5. /\ x.ticket => U = T \union {k}
      /\ ~x.ticket => U = T
  <2>1. ASSUME NEW i \in 1..Len(q) PROVE i \in U <=> i \in T
    BY <1>1, <1>2, <1>4, <2>1
  <2>2. k \in U <=> x.ticket
    BY <1>1, <1>2, <1>4
  <2>3. U \subseteq 1..k /\ T \subseteq 1..Len(q)
    BY <1>2
  <2> HIDE DEF U, T
  <2>4. ASSUME x.ticket PROVE U = T \union {k}
    BY <1>3, <1>4, <2>1, <2>2, <2>3, <2>4
  <2>5. ASSUME ~x.ticket PROVE U = T
    BY <1>3, <1>4, <2>1, <2>2, <2>3, <2>5
  <2> QED  BY <2>4, <2>5
<1>6. IsFiniteSet(T) /\ Cardinality(T) \in Nat /\ k \notin T
  BY <1>2, <1>4, CountType DEF Count
<1>7. Count(q) = Cardinality(T) /\ Count(r) = Cardinality(U)
  BY DEF Count
<1> HIDE DEF U, T
<1>8. Count(r) = Count(q) + (IF x.ticket THEN 1 ELSE 0)
  <2>1. Cardinality(T \union {k}) = Cardinality(T) + 1
    BY <1>6, FS_AddElement
  <2>2. CASE x.ticket
    <3>1. U = T \union {k}
      BY <1>5, <2>2
    <3> QED  BY <1>7, <2>1, <2>2, <3>1
  <2>3. CASE ~x.ticket
    <3>1. U = T
      BY <1>5, <2>3
    <3> QED  BY <1>6, <1>7, <2>3, <3>1
  <2> QED  BY <2>2, <2>3
<1> QED  BY <1>8 DEF r

LEMMA CountTake ==
    ASSUME NEW q \in Seq(Entries), q # <<>>
    PROVE  /\ Head(q) \in Entries /\ Tail(q) \in Seq(Entries)
           /\ Count(q) = Count(Tail(q)) + (IF Head(q).ticket THEN 1 ELSE 0)
           /\ \A i \in DOMAIN Tail(q) : i + 1 \in DOMAIN q /\ Tail(q)[i] = q[i + 1]
           /\ \A i \in DOMAIN q : q[i] = Head(q) \/ \E j \in DOMAIN Tail(q) : q[i] = Tail(q)[j]
           /\ Len(Tail(q)) = Len(q) - 1
<1> DEFINE r == Tail(q)
           T == {i \in DOMAIN q : q[i].ticket}
           U == {i \in DOMAIN r : r[i].ticket}
           V == T \ {1}
           g == [i \in U |-> i + 1]
<1>1. /\ r \in Seq(Entries) /\ Len(r) = Len(q) - 1
      /\ \A i \in 1..Len(r) : r[i] = q[i + 1]
      /\ Head(q) = q[1] /\ q[1] \in Entries /\ Len(q) \in Nat \ {0}
  <2>1. Len(q) \in Nat \ {0} /\ Head(q) = q[1]
    OBVIOUS
  <2>2. q[1] \in Entries
    BY <2>1
  <2> QED  BY <2>1, <2>2, HeadTailProperties
<1>2. DOMAIN q = 1..Len(q) /\ DOMAIN r = 1..(Len(q) - 1)
  BY <1>1
<1>3. \A i \in 1..Len(q) : i = 1 \/ (i - 1 \in 1..(Len(q) - 1) /\ (i - 1) + 1 = i)
  BY <1>1
<1>4. \A i \in 1..(Len(q) - 1) : i + 1 \in 1..Len(q) /\ i + 1 # 1
  BY <1>1
<1>5. \A i \in DOMAIN r : i + 1 \in DOMAIN q /\ r[i] = q[i + 1]
  BY <1>1, <1>2, <1>4
<1>6. \A i \in DOMAIN q : q[i] = Head(q) \/ \E j \in DOMAIN r : q[i] = r[j]
  BY <1>1, <1>2, <1>3
<1> HIDE DEF r
<1>7. g \in Bijection(U, V)
  <2>1. \A i \in U : i + 1 \in V
    BY <1>2, <1>4, <1>5
  <2>2. g \in [U -> V] /\ \A i \in U : g[i] = i + 1
    BY <2>1
  <2>3. \A i, j \in U : g[i] = g[j] => i = j
    <3>1. \A i \in U : i \in Int
      BY <1>2
    <3> QED  BY <2>2, <3>1
  <2>4. \A k \in V : \E i \in U : g[i] = k
    <3>1. ASSUME NEW k \in V PROVE \E i \in U : g[i] = k
      <4>1. k - 1 \in 1..(Len(q) - 1) /\ (k - 1) + 1 = k /\ q[k].ticket
        BY <1>2, <1>3, <3>1
      <4>2. k - 1 \in U
        BY <1>2, <1>5, <4>1
      <4> QED  BY <2>2, <4>1, <4>2
    <3> QED  BY <3>1
  <2> HIDE DEF g, U, V
  <2>5. g \in Injection(U, V) /\ g \in Surjection(U, V)
    BY <2>2, <2>3, <2>4 DEF Injection, Surjection, IsInjective
  <2> QED  BY <2>5 DEF Bijection
<1>8. IsFiniteSet(T) /\ IsFiniteSet(U)
  BY <1>1, CountType DEF r
<1>9. Cardinality(V) = Cardinality(U)
  <2> HIDE DEF g, U, V
  <2>1. ExistsBijection(U, V)
    BY <1>7 DEF ExistsBijection
  <2> QED  BY <1>8, <2>1, FS_Bijection
<1>10. 1 \in T <=> Head(q).ticket
  BY <1>1, <1>2
<1>11. Count(q) = Cardinality(T) /\ Count(r) = Cardinality(U)
  BY DEF Count
<1>12. Cardinality(V) = IF 1 \in T THEN Cardinality(T) - 1 ELSE Cardinality(T)
  BY <1>8, FS_RemoveElement
<1>13. Cardinality(T) \in Nat /\ Cardinality(V) \in Nat
  BY <1>8, <1>9, FS_CardinalityType
<1> HIDE DEF T, U, V
<1>14. Count(q) = Count(r) + (IF Head(q).ticket THEN 1 ELSE 0)
  BY <1>9, <1>10, <1>11, <1>12, <1>13
<1> QED  BY <1>1, <1>5, <1>6, <1>14 DEF r

\* RequestStore.observe_identity refuses a hook for ever.
LEMMA RefusedIs ==
    ASSUME NEW s, Tied(s), NEW h \in Hooks, NEW past
    PROVE  ~Accepts(s, h, past) <=> Refused(s, h, past)
<1>1. s.latest \in Evidence
  BY DEF Tied
<1>2. s.latest # None => Stamp[s.latest] \in Nat
  BY <1>1, RequestStoreAssumption DEF RequestStoreAssumption, Evidence
<1>3. Stamp[h] \in Nat
  BY RequestStoreAssumption DEF RequestStoreAssumption
<1>4. s.latest = h => ~(Stamp[h] < Stamp[s.latest])
  BY <1>3
<1>5. s.latest # None => (~(Stamp[h] >= Stamp[s.latest]) <=> Stamp[h] < Stamp[s.latest])
  BY <1>2, <1>3
<1> QED  BY <1>4, <1>5 DEF Accepts, Refused, IsConsumed

\* The latest identity only gives way to one that is not older.
Later(s, t) ==
    s.latest # None => t.latest # None /\ Stamp[t.latest] >= Stamp[s.latest]

LEMMA RefusedStays ==
    ASSUME NEW s, Tied(s), NEW t, Tied(t), s.consumed \subseteq t.consumed, Later(s, t),
           NEW past, NEW then, past \subseteq then, NEW h \in Hooks, Refused(s, h, past)
    PROVE  Refused(t, h, then)
<1>1. s.latest \in Evidence /\ t.latest \in Evidence
  BY DEF Tied
<1>2. /\ s.latest # None => Stamp[s.latest] \in Nat
      /\ t.latest # None => Stamp[t.latest] \in Nat
  BY <1>1, RequestStoreAssumption DEF RequestStoreAssumption, Evidence
<1>3. Stamp[h] \in Nat
  BY RequestStoreAssumption DEF RequestStoreAssumption
<1>4. CASE h \in past \union s.consumed
  BY <1>4 DEF Refused
<1>5. CASE s.latest # None /\ Stamp[h] < Stamp[s.latest]
  BY <1>2, <1>3, <1>5 DEF Refused, Later
<1> QED  BY <1>4, <1>5 DEF Refused

\* What neither takes a hook in nor resolves a ticket leaves the evidence to come.
LEMMA IntakeStays ==
    ASSUME NEW s, Tied(s), NEW t, Tied(t), s.consumed \subseteq t.consumed,
           t.deferred = s.deferred, Rests(s, t), NEW past, NEW then, past \subseteq then,
           NEW q \in Seq(Entries), NEW m, NEW boot, Intake(s, q, m, boot, past)
    PROVE  Intake(t, q, m, boot, then)
<1>1. Tickets(q, m) <= t.deferred
  BY DEF Intake
<1>2. Vouched(t, q, m, boot, then)
  <2>1. Later(s, t)
    <3>1. s.latest # None => Stamp[s.latest] \in Nat
      BY RequestStoreAssumption DEF RequestStoreAssumption, Evidence, Tied
    <3> QED  BY <3>1 DEF Rests, Later
  <2>2. \A i \in DOMAIN q : q[i].hook \in Hooks
    <3>1. \A i \in DOMAIN q : q[i] \in Entries
      OBVIOUS
    <3> QED  BY <3>1 DEF Entries
  <2>3. \A i \in DOMAIN q : Refused(s, q[i].hook, past) => Refused(t, q[i].hook, then)
    BY <2>1, <2>2, RefusedStays
  <2> QED  BY <2>3 DEF Intake, Vouched
<1>3. Waiting(t, q, m, then)
  <2>1. SUFFICES ASSUME t.latest \notin then \union t.consumed \union {None, t.hook}
                 PROVE  \/ Tickets(q, m) < t.deferred
                        \/ \E i \in DOMAIN q : q[i].ticket /\ q[i].hook = t.latest
                        \/ m # None /\ m.hook = t.latest
    BY DEF Waiting
  <2>2. t.latest = s.latest /\ s.latest \notin past \union s.consumed \union {None, s.hook}
    BY <2>1 DEF Rests
  <2> QED  BY <2>2 DEF Intake, Waiting
<1> QED  BY <1>1, <1>2, <1>3 DEF Intake

LEMMA SpentStays ==
    ASSUME NEW s, NEW t, s.consumed \subseteq t.consumed,
           s.bound # None => t.bound = s.bound \/ s.bound.hook \in t.consumed,
           NEW past, NEW then, past \subseteq then, NEW given, Spent(s, past, given)
    PROVE  Spent(t, then, given)
BY DEF Spent

-----------------------------------------------------------------------------
(* Hooks are taken in and processed.                                       *)

\* A hook that is taken becomes the latest identity (RequestStore.observe_identity).
LEMMA AcceptLater ==
    ASSUME NEW s, Tied(s), NEW h \in Hooks, NEW past, Accepts(s, h, past), NEW t, t.latest = h
    PROVE  Later(s, t)
<1>1. h # None /\ Stamp[h] \in Nat
  BY RequestStoreAssumption DEF RequestStoreAssumption
<1> QED  BY <1>1 DEF Accepts, Later

LEMMA DeferredIs ==
    ASSUME NEW s, Tied(s), NEW t, t = Deferred(s)
    PROVE  /\ Tied(t) /\ t.open = s.open /\ t.hook = s.hook /\ t.bound = s.bound
           /\ t.consumed = s.consumed /\ t.latest = s.latest /\ t.deferred = s.deferred + 1
<1>1. /\ IsStore(t) /\ t.open = s.open /\ t.hook = s.hook /\ t.bound = s.bound
      /\ t.consumed = s.consumed /\ t.latest = s.latest /\ t.deferred = s.deferred + 1
  BY DEF Deferred, Tied, IsStore
<1> QED  BY <1>1 DEF Tied

LEMMA ResolvedIs ==
    ASSUME NEW s, Tied(s), NEW ticket \in BOOLEAN, NEW n \in Nat,
           n + (IF ticket THEN 1 ELSE 0) <= s.deferred, NEW t, t = Resolved(s, ticket)
    PROVE  /\ Tied(t) /\ t.open = s.open /\ t.hook = s.hook /\ t.bound = s.bound
           /\ t.consumed = s.consumed /\ t.latest = s.latest
           /\ t.deferred = s.deferred - (IF ticket THEN 1 ELSE 0)
           /\ n <= t.deferred
<1>1. CASE ticket
  <2>1. t = [s EXCEPT !.deferred = @ - 1]
    BY <1>1 DEF Resolved
  <2>2. /\ IsStore(t) /\ t.open = s.open /\ t.hook = s.hook /\ t.bound = s.bound
        /\ t.consumed = s.consumed /\ t.latest = s.latest /\ t.deferred = s.deferred - 1
    BY <2>1 DEF Tied, IsStore
  <2>3. s.deferred \in Nat /\ s.deferred >= n + 1
    BY <1>1 DEF Tied
  <2>4. t.deferred \in Nat /\ n <= t.deferred
    BY <2>2, <2>3
  <2> QED  BY <1>1, <2>2, <2>4 DEF Tied
<1>2. CASE ~ticket
  <2>1. t = s /\ s.deferred \in Nat
    BY <1>2 DEF Resolved, Tied
  <2> QED  BY <1>2, <2>1
<1> QED  BY <1>1, <1>2

\* What the steps of hook intake leave: the store, the tickets and what is to come.
Evidently(s, t, q, m, boot, past) ==
    /\ Tied(t)
    /\ s.consumed \subseteq t.consumed
    /\ s.bound # None => t.bound = s.bound \/ s.bound.hook \in t.consumed
    /\ t.open \in {s.open, None}
    /\ Intake(t, q, m, boot, past)

\* ProtocolRuntime.observe_hook: store s becomes t, and the queue q becomes r.
Taken(s, t, h, ticket, q, r, m, past) ==
    /\ Tied(s) /\ h \in Hooks /\ ticket \in BOOLEAN
    /\ q \in Seq(Entries)
    /\ Intake(s, q, m, FALSE, past)
    /\ ticket = Accepts(s, h, past)
    /\ t = IF ticket THEN Deferred(ObserveIdentity(s, h)) ELSE s
    /\ r \in {q, Append(q, [hook |-> h, ticket |-> ticket])}

LEMMA TakeInEvidence ==
    ASSUME NEW s, NEW t, NEW h, NEW ticket, NEW q, NEW r, NEW m, NEW past,
           Taken(s, t, h, ticket, q, r, m, past)
    PROVE  Evidently(s, t, r, m, FALSE, past) /\ r \in Seq(Entries)
<1> USE DEF Taken
<1> DEFINE x == [hook |-> h, ticket |-> ticket]
           o == ObserveIdentity(s, h)
           n == IF ticket THEN 1 ELSE 0
           i1 == IF m # None /\ m.ticket THEN 1 ELSE 0
           k == Len(q) + 1
<1>1. x \in Entries /\ x.hook = h /\ x.ticket = ticket
  BY DEF Entries
<1>2. Keeps(s, o) /\ o.latest = h
  BY IdentityKeeps
<1>3. Tied(o) /\ o.deferred = s.deferred
  BY <1>2 DEF Keeps
<1>4. /\ Tied(t) /\ t.deferred = s.deferred + n
      /\ s.consumed \subseteq t.consumed
      /\ s.bound # None => t.bound = s.bound \/ s.bound.hook \in t.consumed
      /\ t.open \in {s.open, None}
      /\ ticket => t.latest = h
      /\ ~ticket => t = s
      /\ Later(s, t)
  <2>1. CASE ticket
    <3>1. t = Deferred(o)
      BY <2>1
    <3> HIDE DEF o
    <3>2. /\ Tied(t) /\ t.open = o.open /\ t.bound = o.bound
          /\ t.consumed = o.consumed /\ t.latest = o.latest /\ t.deferred = o.deferred + 1
      BY <1>3, <3>1, DeferredIs
    <3>3. Later(s, t)
      BY <1>2, <2>1, <3>2, AcceptLater
    <3> QED  BY <1>2, <1>3, <2>1, <3>2, <3>3 DEF Keeps
  <2>2. CASE ~ticket
    <3>1. t = s /\ s.deferred \in Nat
      BY <2>2 DEF Tied
    <3>2. Later(s, t)
      <4>1. s.latest # None => Stamp[s.latest] \in Nat
        BY RequestStoreAssumption DEF RequestStoreAssumption, Evidence, Tied
      <4> QED  BY <3>1, <4>1 DEF Later
    <3> QED  BY <2>2, <3>1, <3>2
  <2> QED  BY <2>1, <2>2
<1>5. /\ r \in Seq(Entries) /\ Count(q) \in Nat
      /\ r = q => Count(r) = Count(q)
      /\ r # q => Count(r) = Count(q) + n
  <2> DEFINE a == Append(q, x)
  <2>1. Count(a) = Count(q) + (IF x.ticket THEN 1 ELSE 0)
    BY <1>1, CountPut
  <2>2. (IF x.ticket THEN 1 ELSE 0) = n
    BY <1>1
  <2>3. Count(q) \in Nat
    BY CountType
  <2>4. a \in Seq(Entries) /\ r \in {q, a}
    BY <1>1
  <2> HIDE DEF a, x, n
  <2> QED  BY <2>1, <2>2, <2>3, <2>4
<1>6. \A i \in DOMAIN q : i \in DOMAIN r /\ r[i] = q[i]
  BY <1>1, AppendProperties
<1>7. r # q => k \in DOMAIN r /\ r[k] = x /\ \A i \in DOMAIN r : i \in DOMAIN q \/ i = k
  <2>1. SUFFICES ASSUME r = Append(q, x)
                 PROVE  k \in DOMAIN r /\ r[k] = x /\ \A i \in DOMAIN r : i \in DOMAIN q \/ i = k
    OBVIOUS
  <2>2. Len(r) = k /\ r[k] = x /\ Len(q) \in Nat /\ DOMAIN q = 1..Len(q)
    BY <1>1, <2>1, AppendProperties
  <2>3. DOMAIN r = 1..k
    BY <1>5, <2>2
  <2> QED  BY <2>2, <2>3
<1>8. Tickets(q, m) = Count(q) + i1 /\ Tickets(r, m) = Count(r) + i1 /\ i1 \in Nat /\ n \in Nat
  BY DEF Tickets
<1>9. s.deferred \in Nat /\ Count(q) + i1 <= s.deferred
  BY <1>8 DEF Tied, Intake
<1> HIDE DEF x, o, n, i1, k
<1>10. Tickets(r, m) <= t.deferred
  BY <1>4, <1>5, <1>8, <1>9
<1>11. Vouched(t, r, m, FALSE, past)
  <2>1. m # None => m.ticket
    BY DEF Intake, Vouched
  <2>2. ASSUME NEW i \in DOMAIN q
        PROVE  q[i].ticket \/ Refused(t, q[i].hook, past)
    <3>1. q[i].ticket \/ Refused(s, q[i].hook, past)
      BY DEF Intake, Vouched
    <3>2. q[i] \in Entries
      OBVIOUS
    <3>3. q[i].hook \in Hooks
      BY <3>2 DEF Entries
    <3> QED  BY <1>4, <3>1, <3>3, RefusedStays
  <2>3. x.ticket \/ Refused(t, x.hook, past)
    BY <1>1, <1>4, RefusedIs
  <2>4. ASSUME NEW i \in DOMAIN r
        PROVE  r[i].ticket \/ Refused(t, r[i].hook, past)
    <3>1. CASE i \in DOMAIN q
      BY <1>6, <2>2, <3>1
    <3>2. CASE i \notin DOMAIN q
      <4>1. r[i] = x
        BY <1>7, <3>2
      <4> QED  BY <2>3, <4>1
    <3> QED  BY <3>1, <3>2
  <2> QED  BY <2>1, <2>4 DEF Vouched
<1>12. Waiting(t, r, m, past)
  <2>1. CASE ticket /\ r # q
    <3>1. k \in DOMAIN r /\ r[k].ticket /\ r[k].hook = t.latest
      BY <1>1, <1>4, <1>7, <2>1
    <3> QED  BY <3>1 DEF Waiting
  <2>2. CASE ticket /\ r = q
    <3>1. Tickets(r, m) < t.deferred
      BY <1>4, <1>5, <1>8, <1>9, <2>2 DEF n
    <3> QED  BY <3>1 DEF Waiting
  <2>3. CASE ~ticket
    <3>1. t = s /\ Tickets(r, m) = Tickets(q, m)
      BY <1>4, <1>5, <1>8, <1>9, <2>3 DEF n
    <3>2. Waiting(s, q, m, past)
      BY DEF Intake
    <3> QED  BY <1>6, <3>1, <3>2 DEF Waiting
  <2> QED  BY <2>1, <2>2, <2>3
<1> QED  BY <1>4, <1>5, <1>10, <1>11, <1>12 DEF Evidently, Intake

\* The latest identity may still become evidence.
Awaited(s, past) == s.latest \notin past \union s.consumed \union {None, s.hook}

\* A hook is done with: it leaves the queue or the match, and its ticket is to be resolved.
DoneWith(s, u, h, ticket, q, m, r, boot, past) ==
    /\ Tied(s) /\ Tied(u) /\ h \in Hooks /\ ticket \in BOOLEAN
    /\ q \in Seq(Entries) /\ r \in Seq(Entries)
    /\ Intake(s, q, m, boot, past)
    /\ m # None => m.hook = h
    /\ Tickets(r, None) + (IF ticket THEN 1 ELSE 0) = Tickets(q, m)
    /\ \A i \in DOMAIN r : \E j \in DOMAIN q : r[i] = q[j]
    /\ \A i \in DOMAIN q : q[i].hook = h \/ \E j \in DOMAIN r : r[j] = q[i]
    /\ u.deferred = s.deferred /\ s.consumed \subseteq u.consumed /\ Later(s, u)
    /\ Awaited(u, past) => u.latest = s.latest /\ Awaited(s, past) /\ s.latest # h

LEMMA IntakeResolved ==
    ASSUME NEW s, NEW u, NEW h, NEW ticket, NEW q, NEW m, NEW r, NEW boot, NEW past,
           DoneWith(s, u, h, ticket, q, m, r, boot, past),
           NEW t, t = Resolved(u, ticket)
    PROVE  Intake(t, r, None, boot, past) /\ Tied(t)
<1> USE DEF DoneWith
<1> DEFINE n == IF ticket THEN 1 ELSE 0
<1>1. Count(r) \in Nat /\ Tickets(r, None) = Count(r)
  <2>1. Count(r) \in Nat
    BY CountType
  <2> QED  BY <2>1 DEF Tickets
<1>2. Count(r) + n = Tickets(q, m) /\ n \in Nat /\ Tickets(q, m) <= s.deferred
  BY <1>1 DEF Intake
<1>3. /\ Tied(t) /\ t.open = u.open /\ t.hook = u.hook /\ t.bound = u.bound
      /\ t.consumed = u.consumed /\ t.latest = u.latest
      /\ t.deferred = u.deferred - n
      /\ Count(r) <= t.deferred
  BY <1>1, <1>2, ResolvedIs
<1>4. s.deferred \in Nat
  BY DEF Tied
<1> HIDE DEF n
<1>5. Vouched(t, r, None, boot, past)
  <2>1. SUFFICES ASSUME ~boot, NEW i \in DOMAIN r
                 PROVE  r[i].ticket \/ Refused(t, r[i].hook, past)
    BY DEF Vouched
  <2>2. PICK j \in DOMAIN q : r[i] = q[j]
    OBVIOUS
  <2>3. q[j].ticket \/ Refused(s, q[j].hook, past)
    BY <2>1 DEF Intake, Vouched
  <2>4. q[j] \in Entries
    OBVIOUS
  <2>5. q[j].hook \in Hooks
    BY <2>4 DEF Entries
  <2>6. Refused(s, q[j].hook, past) => Refused(u, q[j].hook, past)
    BY <2>5, RefusedStays
  <2>7. Refused(u, q[j].hook, past) => Refused(t, q[j].hook, past)
    BY <1>3 DEF Refused
  <2> QED  BY <2>2, <2>3, <2>6, <2>7
<1>6. Waiting(t, r, None, past)
  <2>1. SUFFICES ASSUME t.latest \notin past \union t.consumed \union {None, t.hook}
                 PROVE  \/ Tickets(r, None) < t.deferred
                        \/ \E i \in DOMAIN r : r[i].ticket /\ r[i].hook = t.latest
    BY DEF Waiting
  <2>2. t.latest = s.latest /\ Awaited(s, past) /\ s.latest # h
    BY <1>3, <2>1 DEF Awaited
  <2>3. \/ Tickets(q, m) < s.deferred
        \/ \E i \in DOMAIN q : q[i].ticket /\ q[i].hook = s.latest
        \/ m # None /\ m.hook = s.latest
    BY <2>2 DEF Intake, Waiting, Awaited
  <2>4. CASE Tickets(q, m) < s.deferred
    BY <1>1, <1>2, <1>3, <1>4, <2>4
  <2>5. CASE \E i \in DOMAIN q : q[i].ticket /\ q[i].hook = s.latest
    BY <2>2, <2>5
  <2>6. CASE m # None /\ m.hook = s.latest
    BY <2>2, <2>6
  <2> QED  BY <2>3, <2>4, <2>5, <2>6
<1> QED  BY <1>1, <1>3, <1>5, <1>6 DEF Intake

\* The poller begins with a hook, or is done with it (LocalSessionService._observe_hook).
LEMMA HookStartEvidence ==
    ASSUME NEW s, Tied(s), NEW past, NEW boot,
           NEW q \in Seq(Entries), q # <<>>, Intake(s, q, None, boot, past),
           NEW x, x = Head(q)
    PROVE  /\ x \in Entries /\ x.hook \in Hooks /\ x.ticket \in BOOLEAN
           /\ Tail(q) \in Seq(Entries) /\ Len(Tail(q)) = Len(q) - 1
           /\ Accepts(s, x.hook, past) =>
                 Evidently(s, ObserveIdentity(s, x.hook), Tail(q), x, boot, past)
           /\ \A u : u = (IF Accepts(s, x.hook, past)
                          THEN Close(ObserveIdentity(s, x.hook), None) ELSE s) =>
                 Evidently(s, Resolved(u, x.ticket), Tail(q), None, boot, past)
<1> DEFINE r == Tail(q)
           h == x.hook
           n == IF x.ticket THEN 1 ELSE 0
<1>1. /\ x \in Entries /\ r \in Seq(Entries) /\ Len(r) = Len(q) - 1
      /\ Count(q) = Count(r) + n
      /\ \A i \in DOMAIN r : i + 1 \in DOMAIN q /\ r[i] = q[i + 1]
      /\ \A i \in DOMAIN q : q[i] = x \/ \E j \in DOMAIN r : q[i] = r[j]
  BY CountTake
<1>2. h \in Hooks /\ x.ticket \in BOOLEAN
  BY <1>1 DEF Entries
<1>3. x # None
  BY <1>1, ActionsAssumption DEF ActionsAssumption
<1>4. Count(q) \in Nat /\ Count(r) \in Nat
  BY <1>1, CountType
<1>5. Tickets(q, None) = Count(q) /\ Tickets(r, x) = Count(q) /\ Tickets(r, None) + n = Count(q)
  BY <1>1, <1>3, <1>4 DEF Tickets
<1>6. Count(q) <= s.deferred
  BY <1>5 DEF Intake
<1>7. x = q[1] /\ 1 \in DOMAIN q
  OBVIOUS
<1> HIDE DEF r
<1>8. ASSUME Accepts(s, h, past)
      PROVE  Evidently(s, ObserveIdentity(s, h), r, x, boot, past)
  <2> DEFINE o == ObserveIdentity(s, h)
  <2>1. Keeps(s, o) /\ o.latest = h
    BY <1>2, IdentityKeeps
  <2>2. Later(s, o)
    BY <1>2, <1>8, <2>1, AcceptLater
  <2>3. Tied(o) /\ s.consumed \subseteq o.consumed /\ o.deferred = s.deferred
    BY <2>1 DEF Keeps
  <2> HIDE DEF o, h
  <2>4. Vouched(o, r, x, boot, past)
    <3>1. ASSUME ~boot PROVE x.ticket
      <4>1. ~Refused(s, h, past)
        BY <1>2, <1>8, RefusedIs
      <4> QED  BY <1>7, <3>1, <4>1 DEF Intake, Vouched, h
    <3>2. ASSUME ~boot, NEW i \in DOMAIN r
          PROVE  r[i].ticket \/ Refused(o, r[i].hook, past)
      <4>1. r[i].ticket \/ Refused(s, r[i].hook, past)
        BY <1>1, <3>2 DEF Intake, Vouched
      <4>2. r[i] \in Entries
        BY <1>1
      <4>3. r[i].hook \in Hooks
        BY <4>2 DEF Entries
      <4> QED  BY <2>2, <2>3, <4>1, <4>3, RefusedStays
    <3> QED  BY <3>1, <3>2 DEF Vouched
  <2>5. Waiting(o, r, x, past)
    BY <1>3, <2>1 DEF Waiting, h
  <2>6. Tickets(r, x) <= o.deferred
    BY <1>5, <1>6, <2>3
  <2>7. Evidently(s, o, r, x, boot, past)
    BY <2>1, <2>3, <2>4, <2>5, <2>6 DEF Evidently, Intake, Keeps
  <2> QED  BY <2>7 DEF o
<1>9. ASSUME NEW u, u = IF Accepts(s, h, past) THEN Close(ObserveIdentity(s, h), None) ELSE s
      PROVE  Evidently(s, Resolved(u, x.ticket), r, None, boot, past)
  <2>1. /\ Keeps(s, u) /\ Later(s, u)
        /\ Awaited(u, past) => u.latest = s.latest /\ Awaited(s, past) /\ s.latest # h
    <3>1. CASE Accepts(s, h, past)
      <4> DEFINE o == ObserveIdentity(s, h)
                 c == Close(o, None)
      <4>1. Keeps(s, o) /\ o.latest = h
        BY <1>2, IdentityKeeps
      <4>2. Tied(o) /\ h # None
        BY <1>2, <4>1, RequestStoreAssumption DEF Keeps, RequestStoreAssumption
      <4>3. /\ Keeps(o, c) /\ Rests(o, c)
            /\ o.latest # None => o.latest \in c.consumed
        <5> HIDE DEF o
        <5> QED  BY <4>2, CloseKeeps
      <4>4. u = c
        BY <1>9, <3>1
      <4> HIDE DEF c, o, h
      <4>5. c.latest = h /\ h \in c.consumed
        BY <4>1, <4>2, <4>3 DEF Rests
      <4>6. Later(s, c)
        BY <1>2, <3>1, <4>5, AcceptLater
      <4>7. Keeps(s, c)
        BY <4>1, <4>3, KeepsOf
      <4> QED  BY <4>4, <4>5, <4>6, <4>7 DEF Awaited
    <3>2. CASE ~Accepts(s, h, past)
      <4>1. u = s
        BY <1>9, <3>2
      <4>2. Refused(s, h, past)
        BY <1>2, <3>2, RefusedIs
      <4>3. Keeps(s, s)
        BY DEF Keeps
      <4>4. s.latest # None => Stamp[s.latest] \in Nat
        BY RequestStoreAssumption DEF RequestStoreAssumption, Evidence, Tied
      <4>5. Later(s, s)
        BY <4>4 DEF Later
      <4>6. Awaited(s, past) => s.latest # h
        BY <4>2, <4>4 DEF Awaited, Refused
      <4> QED  BY <4>1, <4>3, <4>5, <4>6
    <3> QED  BY <3>1, <3>2
  <2>2. Tied(u) /\ u.deferred = s.deferred /\ s.consumed \subseteq u.consumed
    BY <2>1 DEF Keeps
  <2>3. /\ \A i \in DOMAIN r : \E j \in DOMAIN q : r[i] = q[j]
        /\ \A i \in DOMAIN q : q[i].hook = h \/ \E j \in DOMAIN r : r[j] = q[i]
    BY <1>1
  <2> DEFINE t == Resolved(u, x.ticket)
  <2>4. DoneWith(s, u, h, x.ticket, q, None, r, boot, past)
    BY <1>1, <1>2, <1>5, <2>1, <2>2, <2>3 DEF DoneWith
  <2>5. Intake(t, r, None, boot, past) /\ Tied(t)
    BY <2>4, IntakeResolved
  <2>6. t.open = u.open /\ t.bound = u.bound /\ t.consumed = u.consumed
    <3>1. IsStore(u)
      BY <2>2 DEF Tied
    <3> QED  BY <3>1 DEF Resolved, IsStore
  <2>7. Evidently(s, t, r, None, boot, past)
    BY <2>1, <2>5, <2>6 DEF Evidently, Keeps
  <2> QED  BY <2>7
<1> QED  BY <1>1, <1>2, <1>8, <1>9 DEF r

\* The match is over (LocalSessionService._observe_hook, ProtocolRuntime.poll).
LEMMA HookEndEvidence ==
    ASSUME NEW s, Tied(s), NEW past, NEW boot, NEW q \in Seq(Entries), NEW x \in Entries,
           Intake(s, q, x, boot, past), NEW found \in BOOLEAN,
           NEW u, u = IF found THEN ObserveHook(s, x.hook, past) ELSE DiscardIdentity(s, x.hook)
    PROVE  Evidently(s, Resolved(u, x.ticket), q, None, boot, past)
<1> DEFINE h == x.hook
<1>1. h \in Hooks /\ x.ticket \in BOOLEAN /\ x # None /\ h # None
  BY ActionsAssumption, RequestStoreAssumption
     DEF Entries, ActionsAssumption, RequestStoreAssumption
<1>2. Keeps(s, s)
  BY DEF Keeps
<1>3. s.latest # None => Stamp[s.latest] \in Nat
  BY RequestStoreAssumption DEF RequestStoreAssumption, Evidence, Tied
<1>4. Later(s, s)
  BY <1>3 DEF Later
<1>5. /\ Keeps(s, u) /\ Later(s, u)
      /\ Awaited(u, past) => u.latest = s.latest /\ Awaited(s, past) /\ s.latest # h
  <2>1. CASE found /\ Accepts(s, h, past)
    <3>1. u = [ObserveIdentity(s, h) EXCEPT !.hook = h]
      BY <2>1 DEF ObserveHook
    <3>2. Keeps(s, u) /\ u.latest = h /\ u.hook = h
      BY <1>1, <3>1, HookKeeps
    <3>3. Later(s, u)
      BY <1>1, <2>1, <3>2, AcceptLater
    <3> QED  BY <3>2, <3>3 DEF Awaited
  <2>2. CASE found /\ ~Accepts(s, h, past)
    <3>1. u = s
      BY <2>2 DEF ObserveHook
    <3>2. Refused(s, h, past)
      BY <1>1, <2>2, RefusedIs
    <3>3. Awaited(s, past) => s.latest # h
      BY <1>3, <3>2 DEF Awaited, Refused
    <3> QED  BY <1>2, <1>4, <3>1, <3>3
  <2>3. CASE ~found /\ s.latest = h
    <3> DEFINE c == Close(s, None)
    <3>1. /\ Keeps(s, c) /\ Rests(s, c)
          /\ s.latest # None => s.latest \in c.consumed
      BY CloseKeeps
    <3>2. u = c
      BY <2>3 DEF DiscardIdentity
    <3> HIDE DEF c
    <3>3. c.latest = s.latest
      BY <3>1 DEF Rests
    <3>4. Later(s, c)
      BY <1>3, <3>3 DEF Later
    <3> QED  BY <1>1, <2>3, <3>1, <3>2, <3>3, <3>4 DEF Awaited
  <2>4. CASE ~found /\ s.latest # h
    <3>1. u = s
      BY <2>4 DEF DiscardIdentity
    <3> QED  BY <1>2, <1>4, <2>4, <3>1
  <2> QED  BY <2>1, <2>2, <2>3, <2>4
<1>6. Tied(u) /\ u.deferred = s.deferred /\ s.consumed \subseteq u.consumed
  BY <1>5 DEF Keeps
<1>7. Count(q) \in Nat
  BY CountType
<1>8. Tickets(q, None) + (IF x.ticket THEN 1 ELSE 0) = Tickets(q, x)
  BY <1>1, <1>7 DEF Tickets
<1> DEFINE t == Resolved(u, x.ticket)
<1>9. DoneWith(s, u, h, x.ticket, q, x, q, boot, past)
  BY <1>1, <1>5, <1>6, <1>8 DEF DoneWith
<1>10. Intake(t, q, None, boot, past) /\ Tied(t)
  BY <1>9, IntakeResolved
<1>11. t.open = u.open /\ t.bound = u.bound /\ t.consumed = u.consumed
  <2>1. IsStore(u)
    BY <1>6 DEF Tied
  <2> QED  BY <2>1 DEF Resolved, IsStore
<1>12. Evidently(s, t, q, None, boot, past)
  BY <1>5, <1>10, <1>11 DEF Evidently, Keeps
<1> QED  BY <1>12

\* A match that failed leaves its ticket (ProtocolRuntime.poll).
LEMMA HookFailsEvidence ==
    ASSUME NEW s, Tied(s), NEW past, NEW q \in Seq(Entries), NEW x \in Entries,
           Intake(s, q, x, FALSE, past)
    PROVE  Intake(s, q, None, FALSE, past)
<1>1. x # None
  BY ActionsAssumption DEF ActionsAssumption
<1>2. Count(q) \in Nat /\ s.deferred \in Nat
  BY CountType DEF Tied
<1>3. x.ticket
  BY <1>1 DEF Intake, Vouched
<1>4. Tickets(q, x) = Count(q) + 1 /\ Tickets(q, None) = Count(q)
  BY <1>1, <1>2, <1>3 DEF Tickets
<1>5. Tickets(q, None) < s.deferred
  BY <1>2, <1>4 DEF Intake
<1>6. Vouched(s, q, None, FALSE, past)
  BY DEF Intake, Vouched
<1>7. Waiting(s, q, None, past)
  BY <1>5 DEF Waiting
<1>8. Tickets(q, None) <= s.deferred
  BY <1>2, <1>4, <1>5
<1> QED  BY <1>6, <1>7, <1>8 DEF Intake

-----------------------------------------------------------------------------
(* The steps of the session.                                               *)

\* What a step keeps of the requests that executors hold, unless it is theirs.
LEMMA HeldStays ==
    ASSUME Held, \A f \in Executors : req'[f] \in {req[f], None, store.open},
           store'.open \in {store.open, None},
           \A e \in Executors :
              /\ pc'[e] \in {"check", "checked"} => req'[e] # None
              /\ pc'[e] \in {"verify", "send", "confirm", "gone"}
                    /\ typing'[e] \in {"answer", "escape"} => req'[e] # None
    PROVE  Held'
BY DEF Held

LEMMA GoneGrows ==
    ASSUME horizon \in Nat, horizon' \in Nat, horizon' >= horizon
    PROVE  gone \subseteq gone'
BY RequestStoreAssumption DEF RequestStoreAssumption, gone

\* Nothing happened to the store, the hooks and the executors.
LEMMA WorldKeeps ==
    ASSUME StoreInv, World
    PROVE  StoreInv'
<1>1. /\ UNCHANGED <<hookVars, storeVars, lookVars, execVars>>
      /\ screen' \in Prompts \union {None}
      /\ horizon' = horizon \/ \E h \in Hooks : horizon < Stamp[h] /\ horizon' = Stamp[h]
  BY DEF World, AgentShows, PromptEnds, ProcessChanges, HooksAge, StoreInv, Values
<1>2. Values /\ Tied(store) /\ Spent(store, gone, controls)
      /\ Intake(store, queue, match, booting, gone) /\ Held
  BY DEF StoreInv
<1>3. horizon \in Nat /\ horizon' \in Nat /\ horizon' >= horizon
  BY <1>1, <1>2, RequestStoreAssumption DEF RequestStoreAssumption, Values
<1>4. gone \subseteq gone'
  BY <1>3, GoneGrows
<1>5. Values'
  BY <1>1, <1>2, <1>3 DEF Values, hookVars, storeVars, lookVars
<1>6. /\ store' = store /\ controls' = controls /\ queue' = queue /\ match' = match
      /\ booting' = booting /\ req' = req /\ pc' = pc /\ typing' = typing
  BY <1>1 DEF hookVars, storeVars, lookVars, execVars, taskVars
<1>7. Held'
  BY <1>2, <1>6 DEF Held
<1> DEFINE then == gone'
<1>8. Rests(store, store)
  BY DEF Rests
<1> HIDE DEF then
<1>9. gone \subseteq then
  BY <1>4 DEF then
<1>10. Intake(store, queue, match, booting, then)
  BY <1>2, <1>8, <1>9, IntakeStays DEF Values
<1>11. Spent(store, then, controls)
  BY <1>2, <1>9, SpentStays
<1> QED  BY <1>2, <1>5, <1>6, <1>7, <1>10, <1>11 DEF StoreInv, then

\* A step that leaves the hooks' ages: what it does to the store and the intake.
LEMMA EvidentlyHolds ==
    ASSUME StoreInv, Values', horizon' = horizon, controls' = controls,
           Evidently(store, store', queue', match', booting', gone),
           UNCHANGED <<req, pc, typing>>
    PROVE  StoreInv'
<1>1. gone' = gone
  BY DEF gone
<1>2. Spent(store, gone, controls) /\ Held
  BY DEF StoreInv
<1>3. Spent(store', gone, controls)
  BY <1>2, SpentStays DEF Evidently
<1>4. Held'
  BY <1>2 DEF Held, Evidently
<1>5. Tied(store') /\ Intake(store', queue', match', booting', gone)
  BY DEF Evidently
<1> HIDE DEF gone
<1> QED  BY <1>1, <1>3, <1>4, <1>5 DEF StoreInv

LEMMA TakeInKeeps ==
    ASSUME StoreInv, TakeIn
    PROVE  StoreInv'
<1> DEFINE h == intake + 1
           ticket == Accepts(store, h, gone)
           x == [hook |-> h, ticket |-> ticket]
<1>1. Values /\ Tied(store) /\ Intake(store, queue, match, booting, gone)
  BY DEF StoreInv
<1>2. /\ ~booting /\ intake < Cardinality(Hooks)
      /\ store' = IF ticket THEN Deferred(ObserveIdentity(store, h)) ELSE store
      /\ queue' = IF Len(queue) < QueueMax THEN Append(queue, x) ELSE queue
      /\ intake' = intake + 1
      /\ logged' = IF intake < logged THEN logged ELSE intake + 1
      /\ UNCHANGED <<worldVars, match, booting, controls, lookVars, execVars>>
  BY DEF TakeIn, Put
<1>3. Cardinality(Hooks) \in Nat /\ Hooks = 1..Cardinality(Hooks)
  BY FS_CardinalityType, ActionsAssumption DEF ActionsAssumption
<1>4. intake \in Nat /\ intake <= logged /\ logged \in Nat /\ logged <= Cardinality(Hooks)
  BY <1>1, <1>3 DEF Values
<1>5. h \in Hooks
  <2>1. h \in 1..Cardinality(Hooks)
    BY <1>2, <1>3, <1>4
  <2> QED  BY <1>3, <2>1
<1>6. ticket \in BOOLEAN
  BY DEF Accepts
<1>7. booting = FALSE => Intake(store, queue, match, FALSE, gone)
  BY <1>1
<1>8. queue' \in {queue, Append(queue, x)}
  BY <1>2
<1>9. queue \in Seq(Entries) /\ match \in Entries \union {None}
  BY <1>1 DEF Values
<1>10. Intake(store, queue, match, FALSE, gone)
  BY <1>1, <1>2 DEF Intake, Vouched
<1> HIDE DEF gone, x
<1>11. Evidently(store, store', queue', match, FALSE, gone) /\ queue' \in Seq(Entries)
  <2>1. Taken(store, store', h, ticket, queue, queue', match, gone)
    BY <1>1, <1>2, <1>5, <1>6, <1>8, <1>9, <1>10 DEF Taken, x
  <2> HIDE DEF h, ticket
  <2> QED  BY <2>1, TakeInEvidence
<1>12. Evidently(store, store', queue', match', booting', gone)
  BY <1>2, <1>11 DEF Evidently, Intake, Vouched
<1>13. Values'
  <2>1. Len(queue') <= QueueMax
    <3>1. x \in Entries
      BY <1>5, <1>6 DEF x, Entries
    <3>2. Len(Append(queue, x)) = Len(queue) + 1 /\ Len(queue) \in Nat
      BY <1>9, <3>1, AppendProperties
    <3>3. Len(queue) <= QueueMax /\ QueueMax \in Nat
      BY <1>1, <1>2, ActionsAssumption DEF Values, ActionsAssumption
    <3> QED  BY <1>2, <3>2, <3>3
  <2>2. intake' \in 0..logged' /\ logged' \in 0..Cardinality(Hooks)
    BY <1>2, <1>3, <1>4
  <2> QED  BY <1>1, <1>2, <1>11, <2>1, <2>2 DEF Values, worldVars, lookVars
<1>14. horizon' = horizon /\ controls' = controls /\ UNCHANGED <<req, pc, typing>>
  BY <1>2 DEF worldVars, execVars, taskVars
<1> QED  BY <1>12, <1>13, <1>14, EvidentlyHolds

\* What the steps of the poller find.
LEMMA StoreInvIs ==
    ASSUME StoreInv
    PROVE  /\ Values /\ Tied(store) /\ Spent(store, gone, controls)
           /\ Intake(store, queue, match, booting, gone) /\ Held
           /\ queue \in Seq(Entries) /\ match \in Entries \union {None}
           /\ Evidently(store, store, queue, match, booting, gone)
BY DEF StoreInv, Values, Evidently

LEMMA LookStartKeeps ==
    ASSUME StoreInv, NEW by, LookStart(by)
    PROVE  StoreInv'
<1>1. /\ look' = [proc |-> proc, prompt |-> screen]
      /\ UNCHANGED <<worldVars, hookVars, storeVars, binding, version, execVars>>
  BY DEF LookStart
<1>2. /\ horizon' = horizon /\ controls' = controls /\ store' = store /\ queue' = queue
      /\ match' = match /\ booting' = booting /\ UNCHANGED <<req, pc, typing>>
  BY <1>1 DEF worldVars, hookVars, storeVars, execVars, taskVars
<1>3. Values'
  BY <1>1, StoreInvIs DEF Values, worldVars, hookVars, storeVars
<1> QED  BY <1>2, <1>3, StoreInvIs, EvidentlyHolds

LEMMA HookStartKeeps ==
    ASSUME StoreInv, Locks, HookStart
    PROVE  StoreInv'
<1> DEFINE x == Head(queue)
           h == x.hook
           ok == Accepts(store, h, gone)
           u == IF ok THEN Close(ObserveIdentity(store, h), None) ELSE store
<1>1. /\ lock = None /\ queue # <<>>
      /\ queue' = Tail(queue)
      /\ UNCHANGED <<worldVars, logged, intake, booting, controls, look, version, execVars>>
      /\ \/ ok /\ store' = ObserveIdentity(store, h) /\ match' = x
         \/ store' = Resolved(u, x.ticket) /\ match' = match
  BY DEF HookStart
<1>2. match = None
  BY <1>1, Names DEF Locks
<1>3. /\ Values /\ Tied(store) /\ Intake(store, queue, None, booting, gone)
      /\ queue \in Seq(Entries)
  BY <1>2, StoreInvIs
<1> HIDE DEF gone
<1>4. /\ x \in Entries /\ h \in Hooks /\ x.ticket \in BOOLEAN
      /\ Tail(queue) \in Seq(Entries) /\ Len(Tail(queue)) = Len(queue) - 1
      /\ ok => Evidently(store, ObserveIdentity(store, h), Tail(queue), x, booting, gone)
      /\ Evidently(store, Resolved(u, x.ticket), Tail(queue), None, booting, gone)
  BY <1>1, <1>3, HookStartEvidence
<1> HIDE DEF x, ok, u, h
<1>5. Evidently(store, store', queue', match', booting', gone)
  <2>1. booting' = booting
    BY <1>1
  <2>2. CASE ok /\ store' = ObserveIdentity(store, h) /\ match' = x
    BY <1>1, <1>4, <2>1, <2>2
  <2>3. CASE store' = Resolved(u, x.ticket) /\ match' = match
    BY <1>1, <1>2, <1>4, <2>1, <2>3
  <2> QED  BY <1>1, <2>2, <2>3
<1>6. Values'
  <2>1. match' \in Entries \union {None}
    BY <1>1, <1>2, <1>4
  <2>2. queue' \in Seq(Entries) /\ (~booting' => Len(queue') <= QueueMax)
    <3>1. Len(queue) \in Nat /\ QueueMax \in Nat
      BY <1>3, ActionsAssumption DEF ActionsAssumption
    <3>2. Len(queue') = Len(queue) - 1 /\ queue' \in Seq(Entries) /\ booting' = booting
      BY <1>1, <1>4
    <3> QED  BY <1>3, <3>1, <3>2 DEF Values
  <2> QED  BY <1>1, <1>3, <2>1, <2>2 DEF Values, worldVars
<1>7. horizon' = horizon /\ controls' = controls /\ UNCHANGED <<req, pc, typing>>
  BY <1>1 DEF worldVars, execVars, taskVars
<1> QED  BY <1>5, <1>6, <1>7, EvidentlyHolds

LEMMA HookEndKeeps ==
    ASSUME StoreInv, HookEnd
    PROVE  StoreInv'
<1>1. PICK found \in BOOLEAN :
         store' = Resolved(IF found THEN ObserveHook(store, match.hook, gone)
                           ELSE DiscardIdentity(store, match.hook), match.ticket)
  BY DEF HookEnd
<1>2. /\ match # None /\ match' = None
      /\ UNCHANGED <<worldVars, logged, intake, queue, booting, controls, look, version, execVars>>
  BY DEF HookEnd
<1>3. /\ Values /\ Tied(store) /\ Intake(store, queue, match, booting, gone)
      /\ queue \in Seq(Entries) /\ match \in Entries
  BY <1>2, StoreInvIs
<1> DEFINE u == IF found THEN ObserveHook(store, match.hook, gone)
                ELSE DiscardIdentity(store, match.hook)
<1> HIDE DEF gone
<1>4. Evidently(store, Resolved(u, match.ticket), queue, None, booting, gone)
  BY <1>3, HookEndEvidence
<1>5. Evidently(store, store', queue', match', booting', gone)
  BY <1>1, <1>2, <1>4
<1>6. Values'
  BY <1>2, <1>3 DEF Values, worldVars
<1>7. horizon' = horizon /\ controls' = controls /\ UNCHANGED <<req, pc, typing>>
  BY <1>2 DEF worldVars, execVars, taskVars
<1> QED  BY <1>5, <1>6, <1>7, EvidentlyHolds

LEMMA HookFailsKeeps ==
    ASSUME StoreInv, HookFails
    PROVE  StoreInv'
<1>1. /\ match # None /\ ~booting /\ match' = None
      /\ UNCHANGED <<worldVars, logged, intake, queue, booting, storeVars, look, version, execVars>>
  BY DEF HookFails
<1>2. /\ Values /\ Tied(store) /\ queue \in Seq(Entries) /\ match \in Entries
      /\ Intake(store, queue, match, booting, gone)
  BY <1>1, StoreInvIs
<1>3. Intake(store, queue, match, FALSE, gone)
  BY <1>1, <1>2 DEF Intake, Vouched
<1> HIDE DEF gone
<1>4. Intake(store, queue, None, FALSE, gone)
  BY <1>2, <1>3, HookFailsEvidence
<1>5. Evidently(store, store, queue, None, booting, gone)
  BY <1>1, <1>2, <1>4 DEF Evidently, Intake, Vouched
<1>6. store' = store /\ controls' = controls /\ horizon' = horizon /\ UNCHANGED <<req, pc, typing>>
  BY <1>1 DEF worldVars, storeVars, execVars, taskVars
<1>7. Values'
  BY <1>1, <1>2 DEF Values, worldVars, storeVars
<1>8. Evidently(store, store', queue', match', booting', gone)
  BY <1>1, <1>5, <1>6
<1> QED  BY <1>6, <1>7, <1>8, EvidentlyHolds

LEMMA BootedKeeps ==
    ASSUME StoreInv, Locks, Booted
    PROVE  StoreInv'
<1>1. /\ booting /\ queue = <<>> /\ lock = None /\ booting' = FALSE
      /\ UNCHANGED <<worldVars, logged, intake, queue, match, storeVars, lookVars, execVars>>
  BY DEF Booted
<1>2. match = None
  BY <1>1, Names DEF Locks
<1>3. Values /\ Evidently(store, store, queue, match, booting, gone)
  BY StoreInvIs
<1>4. DOMAIN queue = {} /\ Len(queue) = 0
  BY <1>1
<1> HIDE DEF gone
<1>5. Evidently(store, store, queue, match, FALSE, gone)
  BY <1>2, <1>3, <1>4 DEF Evidently, Intake, Vouched
<1>6. store' = store /\ controls' = controls /\ horizon' = horizon /\ UNCHANGED <<req, pc, typing>>
  BY <1>1 DEF worldVars, storeVars, execVars, taskVars
<1>7. Values'
  <2>1. QueueMax \in Nat
    BY ActionsAssumption DEF ActionsAssumption
  <2> QED  BY <1>1, <1>3, <1>4, <2>1 DEF Values, worldVars, storeVars, lookVars
<1>8. Evidently(store, store', queue', match', booting', gone)
  BY <1>1, <1>5, <1>6
<1> QED  BY <1>6, <1>7, <1>8, EvidentlyHolds

LEMMA RestsOf ==
    ASSUME NEW s, NEW t, NEW u, Rests(s, t), Rests(t, u), t.consumed \subseteq u.consumed
    PROVE  Rests(s, u)
BY DEF Rests

\* An observation opens a request with controls for evidence that gave none yet
\* (RequestStore.reconcile).
LEMMA ObserveOpens ==
    ASSUME StoreInv, NEW ok \in BOOLEAN, look # None, Observe(ok)
    PROVE  /\ Opens(store, store', gone, FreshId) /\ Rests(store, store')
           /\ version' \in Nat /\ look' = None
           /\ controls' = IF /\ store'.open # None /\ store'.open # store.open
                             /\ store'.open.hook # None
                          THEN [controls EXCEPT ![store'.open.hook] = @ + 1] ELSE controls
<1> DEFINE v == BoundVersion(<<look.proc, ok>>)
           before == IF v # version THEN Close(store, None) ELSE store
           p == IF ok THEN look.prompt ELSE None
           past == gone
           id == FreshId
<1>1. /\ store' = Reconcile(before, p, v, past, id)
      /\ version' = v /\ look' = None
      /\ controls' = IF (store'.open # None /\ store'.open # store.open) /\ store'.open.hook # None
                     THEN [controls EXCEPT ![store'.open.hook] = @ + 1] ELSE controls
  BY DEF Observe
<1>2. Tied(store) /\ version \in Nat /\ p \in Prompts \union {None}
  BY StoreInvIs DEF Values
<1>3. v \in Nat
  BY <1>2 DEF BoundVersion
<1>4. id \in Nat \ {0}
  BY FreshIs
<1>5. Keeps(store, before) /\ Rests(store, before)
  <2>1. Keeps(store, store) /\ Rests(store, store)
    BY <1>2 DEF Keeps, Rests
  <2>2. Keeps(store, Close(store, None)) /\ Rests(store, Close(store, None))
    BY <1>2, CloseKeeps
  <2> QED  BY <2>1, <2>2
<1>6. Tied(before)
  BY <1>5 DEF Keeps
<1> HIDE DEF v, before, p, past, id
<1>7. Opens(before, store', past, id) /\ Rests(before, store')
  <2>1. CASE p = None
    <3>1. store' = ReconcileAbsent(before)
      BY <1>1, <2>1 DEF Reconcile
    <3>2. Keeps(before, store') /\ Rests(before, store')
      BY <1>6, <3>1, AbsentKeeps
    <3> QED  BY <3>2 DEF Keeps, Opens
  <2>2. CASE p # None
    <3>1. p \in Prompts
      BY <1>2, <2>2
    <3> QED  BY <1>1, <1>3, <1>4, <1>6, <3>1, ReconcileOpens
  <2> QED  BY <2>1, <2>2
<1>8. Opens(store, store', past, id)
  BY <1>5, <1>7 DEF Keeps, Opens
<1>9. Rests(store, store')
  BY <1>5, <1>7, RestsOf DEF Opens
<1> QED  BY <1>1, <1>3, <1>8, <1>9 DEF past, id

LEMMA ObserveKeeps ==
    ASSUME StoreInv, NEW ok \in BOOLEAN, look # None, Observe(ok),
           UNCHANGED <<worldVars, hookVars, req, typing>>,
           \A f \in Executors : pc'[f] = pc[f] \/ pc'[f] = "validate"
    PROVE  StoreInv'
<1> DEFINE past == gone
           id == FreshId
           h == store'.open.hook
           opens == store'.open # None /\ store'.open # store.open /\ h # None
<1>1. /\ Opens(store, store', past, id) /\ Rests(store, store')
      /\ version' \in Nat /\ look' = None
      /\ controls' = IF opens THEN [controls EXCEPT ![h] = @ + 1] ELSE controls
  BY ObserveOpens
<1>2. /\ Values /\ Tied(store) /\ Spent(store, past, controls)
      /\ Intake(store, queue, match, booting, past) /\ Held /\ queue \in Seq(Entries)
  BY StoreInvIs
<1>3. gone' = past
  BY DEF worldVars, gone
<1>4. \A e \in Executors : req[e] # None => req[e].id # id
  BY FreshIs
<1> HIDE DEF past, id
<1>5. Tied(store') /\ store.consumed \subseteq store'.consumed /\ store'.deferred = store.deferred
  BY <1>1 DEF Opens
<1>6. queue' = queue /\ match' = match /\ booting' = booting
  BY DEF hookVars
<1>7. Intake(store', queue', match', booting', past)
  BY <1>1, <1>2, <1>5, <1>6, IntakeStays
<1>8. Spent(store', past, controls)
  BY <1>1, <1>2, SpentStays DEF Opens
<1>9. opens => h \in Hooks \ (past \union store.consumed)
                 /\ (store.bound # None => store.bound.hook # h)
  BY <1>1 DEF Opens
<1>10. opens => store'.bound # None /\ store'.bound.hook = h
  BY <1>5, TiedIs
<1>11. controls' \in [Hooks -> Nat] /\ Spent(store', past, controls')
  <2>1. CASE ~opens
    BY <1>1, <1>2, <1>8, <2>1 DEF Values
  <2>2. CASE opens
    <3>1. h \in Hooks /\ controls[h] = 0
      BY <1>2, <1>9, <2>2 DEF Spent
    <3>2. controls \in [Hooks -> Nat] /\ controls' = [controls EXCEPT ![h] = @ + 1]
      BY <1>1, <1>2, <2>2 DEF Values
    <3>3. controls'[h] = 1 /\ \A g \in Hooks \ {h} : controls'[g] = controls[g]
      BY <3>1, <3>2
    <3>4. controls' \in [Hooks -> Nat]
      BY <3>1, <3>2
    <3> HIDE DEF h
    <3> QED  BY <1>8, <1>10, <2>2, <3>3, <3>4 DEF Spent
  <2> QED  BY <2>1, <2>2
<1>12. Values'
  BY <1>1, <1>2, <1>11 DEF Values, worldVars, hookVars
<1>13. Held'
  <2>1. store'.open \in {store.open, None} \/ store'.open.id = id
    BY <1>1 DEF Opens
  <2>2. req' = req /\ typing' = typing
    OBVIOUS
  <2> QED  BY <1>2, <1>4, <2>1, <2>2 DEF Held
<1> QED  BY <1>3, <1>5, <1>7, <1>11, <1>12, <1>13 DEF StoreInv

LEMMA RestartStore == ASSUME StoreInv, Restart PROVE StoreInv'
<1>1. PICK n \in logged..Cardinality(Hooks) :
         /\ logged' = n /\ queue' = [h \in 1..n |-> [hook |-> h, ticket |-> FALSE]]
         /\ intake' \in 0..n
  BY DEF Restart
<1>2. /\ store' = NoEvidence /\ controls' = [h \in Hooks |-> 0]
      /\ match' = None /\ booting' = TRUE
      /\ look' = [proc |-> proc, prompt |-> screen]
      /\ req' = NoTask /\ pc' = [e \in Executors |-> "idle"]
      /\ UNCHANGED <<worldVars, version>>
  BY DEF Restart
<1>3. Values
  BY StoreInvIs
<1>4. Cardinality(Hooks) \in Nat /\ Hooks = 1..Cardinality(Hooks)
  BY FS_CardinalityType, ActionsAssumption DEF ActionsAssumption
<1>5. logged \in Nat /\ n \in Nat /\ n <= Cardinality(Hooks)
  BY <1>1, <1>3, <1>4 DEF Values
<1>6. /\ queue' \in Seq(Entries)
      /\ \A i \in DOMAIN queue' : queue'[i].ticket = FALSE
  <2>1. \A h \in 1..n : h \in Hooks
    BY <1>4, <1>5
  <2>2. queue' \in [1..n -> Entries]
    BY <1>1, <2>1 DEF Entries
  <2>3. queue' \in Seq(Entries)
    BY <1>5, <2>2
  <2> QED  BY <1>1, <2>3
<1>7. {i \in DOMAIN queue' : queue'[i].ticket} = {}
  BY <1>6
<1>8. Tickets(queue', None) = 0
  <2>1. Count(queue') = 0
    BY <1>7, FS_EmptySet DEF Count
  <2> QED  BY <2>1 DEF Tickets
<1>9. Tied(store') /\ store'.latest = None /\ store'.deferred = 0 /\ store'.open = None
  BY <1>2, NoEvidenceTied DEF NoEvidence
<1>10. Intake(store', queue', None, TRUE, gone')
  BY <1>8, <1>9 DEF Intake, Vouched, Waiting
<1>11. Spent(store', gone', controls')
  BY <1>2 DEF Spent
<1>12. Values'
  <2>1. logged' \in 0..Cardinality(Hooks) /\ intake' \in 0..logged'
    BY <1>1, <1>4, <1>5
  <2> QED  BY <1>2, <1>3, <1>6, <2>1 DEF Values, worldVars
<1>13. Held'
  BY <1>2, <1>9 DEF Held, NoTask
<1> QED  BY <1>2, <1>9, <1>10, <1>11, <1>12, <1>13 DEF StoreInv

\* Where executor e holds a request after a step.
Holds(e) ==
    /\ pc[e] \in {"check", "checked"} => req[e] # None
    /\ pc[e] \in {"verify", "send", "confirm", "gone"} /\ typing[e] \in {"answer", "escape"} =>
          req[e] # None

\* A step of an executor closes the open request at most, and takes it at most.
Works(e) ==
    /\ UNCHANGED <<worldVars, hookVars, controls, version>>
    /\ look' \in {look, None}
    /\ store' \in {store, Close(store, None)}
    /\ \A f \in Executors \ {e} :
          req'[f] = req[f] /\ pc'[f] = pc[f] /\ typing'[f] = typing[f]
    /\ req'[e] \in {req[e], None, store.open}
    /\ Holds(e)'

LEMMA WorksKeeps ==
    ASSUME StoreInv, NEW e \in Executors, Works(e)
    PROVE  StoreInv'
<1> DEFINE c == Close(store, None)
           past == gone
<1>1. /\ Values /\ Tied(store) /\ Spent(store, past, controls)
      /\ Intake(store, queue, match, booting, past) /\ Held /\ queue \in Seq(Entries)
  BY StoreInvIs
<1>2. Keeps(store, store) /\ Rests(store, store)
  BY <1>1 DEF Keeps, Rests
<1>3. Keeps(store, c) /\ Rests(store, c)
  BY <1>1, CloseKeeps
<1>4. store' = store \/ store' = c
  BY DEF Works
<1> HIDE DEF c
<1>5. Keeps(store, store') /\ Rests(store, store')
  BY <1>2, <1>3, <1>4
<1>6. /\ gone' = past /\ queue' = queue /\ match' = match /\ booting' = booting
      /\ controls' = controls
  BY DEF Works, worldVars, hookVars, gone
<1> HIDE DEF past
<1>7. Intake(store, queue, match, booting, past) /\ Spent(store, past, controls)
  BY <1>1
<1>8. Tied(store') /\ Spent(store', past, controls)
  BY <1>1, <1>5, SpentStays DEF Keeps
<1>9. Intake(store', queue', match', booting', past)
  BY <1>1, <1>5, <1>6, IntakeStays DEF Keeps
<1>10. Values'
  BY <1>1 DEF Works, Values, worldVars, hookVars
<1>11. Held'
  <2>1. \A f \in Executors : req'[f] \in {req[f], None, store.open}
    BY DEF Works
  <2>2. store'.open \in {store.open, None}
    BY <1>5 DEF Keeps
  <2>3. \A f \in Executors : Holds(f)'
    <3>1. ASSUME NEW f \in Executors PROVE Holds(f)'
      <4>1. CASE f = e
        BY <4>1 DEF Works
      <4>2. CASE f # e
        BY <1>1, <4>2 DEF Works, Held, Holds
      <4> QED  BY <4>1, <4>2
    <3> QED  BY <3>1
  <2> QED  BY <1>1, <2>1, <2>2, <2>3, HeldStays DEF Holds
<1> QED  BY <1>6, <1>8, <1>9, <1>10, <1>11 DEF StoreInv

\* An action that is over holds nothing.
LEMMA FinishWorks ==
    ASSUME StoreInv, Shapes, NEW e \in Executors, NEW outcome, Finish(e, outcome),
           UNCHANGED <<worldVars, hookVars, controls, version>>,
           look' \in {look, None}, store' \in {store, Close(store, None)}
    PROVE  StoreInv'
<1>1. /\ pc' = [pc EXCEPT ![e] = "idle"] /\ req' = [req EXCEPT ![e] = None]
      /\ typing' = [typing EXCEPT ![e] = None]
  BY DEF Finish
<1>2. pc'[e] = "idle" /\ req'[e] = None
  BY <1>1 DEF Shapes
<1>3. \A f \in Executors \ {e} : req'[f] = req[f] /\ pc'[f] = pc[f] /\ typing'[f] = typing[f]
  BY <1>1 DEF Shapes
<1>4. Works(e)
  BY <1>2, <1>3 DEF Works, Holds
<1> QED  BY <1>4, WorksKeeps

LEMMA StopWorks ==
    ASSUME StoreInv, Shapes, NEW e \in Executors, Stop(e),
           UNCHANGED <<worldVars, hookVars, controls, version>>,
           look' \in {look, None}, store' \in {store, Close(store, None)}
    PROVE  StoreInv'
BY FinishWorks DEF Stop

\* An executor goes on with what it has.
LEMMA GotoWorks ==
    ASSUME StoreInv, Shapes, NEW e \in Executors, NEW place, Goto(e, place),
           UNCHANGED <<worldVars, hookVars, controls, version, req, typing>>,
           look' \in {look, None}, store' \in {store, Close(store, None)},
           \/ place \notin {"check", "checked", "verify", "send", "confirm", "gone"}
           \/ pc[e] \in {"check", "checked"} /\ place \in {"check", "checked"}
           \/ /\ pc[e] \in {"verify", "send", "confirm", "gone"}
              /\ place \in {"send", "confirm", "gone"}
    PROVE  StoreInv'
<1>1. pc' = [pc EXCEPT ![e] = place] /\ req' = req /\ typing' = typing
  BY DEF Goto
<1>2. pc'[e] = place
  BY <1>1 DEF Shapes
<1>3. \A f \in Executors \ {e} : req'[f] = req[f] /\ pc'[f] = pc[f] /\ typing'[f] = typing[f]
  BY <1>1 DEF Shapes
<1>4. Held
  BY StoreInvIs
<1>5. Holds(e)'
  BY <1>1, <1>2, <1>4 DEF Holds, Held
<1>6. Works(e)
  BY <1>1, <1>3, <1>5 DEF Works
<1> QED  BY <1>6, WorksKeeps

\* Text and interrupts are typed for no request.
LEMMA TypeWorks ==
    ASSUME StoreInv, Shapes, NEW e \in Executors, NEW what, NEW r, Type(e, what, r),
           UNCHANGED <<worldVars, hookVars, controls, version>>,
           look' \in {look, None}, store' \in {store, Close(store, None)},
           r \in {req[e], None, store.open}, what \in {"answer", "escape"} => r # None
    PROVE  StoreInv'
<1>1. /\ pc' = [pc EXCEPT ![e] = "verify"] /\ req' = [req EXCEPT ![e] = r]
      /\ typing' = [typing EXCEPT ![e] = what]
  BY DEF Type, Goto
<1>2. pc'[e] = "verify" /\ req'[e] = r /\ typing'[e] = what
  BY <1>1 DEF Shapes
<1>3. \A f \in Executors \ {e} : req'[f] = req[f] /\ pc'[f] = pc[f] /\ typing'[f] = typing[f]
  BY <1>1 DEF Shapes
<1>4. Holds(e)'
  BY <1>2 DEF Holds
<1>5. Works(e)
  BY <1>2, <1>3, <1>4 DEF Works
<1> QED  BY <1>5, WorksKeeps

LEMMA ValidateWorks ==
    ASSUME StoreInv, Shapes, NEW e \in Executors, Validate(e)
    PROVE  StoreInv'
<1>1. /\ pc[e] = "validate"
      /\ UNCHANGED <<worldVars, hookVars, controls, version>> /\ look' = look /\ store' = store
      /\ IF Invalid(e) THEN Stop(e) ELSE Proceed(e)
  BY DEF Validate, storeVars
<1>2. CASE Stop(e)
  BY <1>1, <1>2, StopWorks
<1>3. CASE ~Invalid(e) /\ Proceed(e)
  <2>1. CASE asked[e].kind = "respond"
    <3>1. store.open # None
      BY <1>3, <2>1 DEF Invalid
    <3>2. /\ pc' = [pc EXCEPT ![e] = "check"] /\ req' = [req EXCEPT ![e] = store.open]
          /\ typing' = typing
      BY <1>3, <2>1 DEF Proceed, Goto
    <3>3. pc'[e] = "check" /\ req'[e] = store.open
      BY <3>2 DEF Shapes
    <3>4. \A f \in Executors \ {e} : req'[f] = req[f] /\ pc'[f] = pc[f] /\ typing'[f] = typing[f]
      BY <3>2 DEF Shapes
    <3>5. Works(e)
      BY <1>1, <3>1, <3>3, <3>4 DEF Works, Holds
    <3> QED  BY <3>5, WorksKeeps
  <2>2. CASE asked[e].kind = "interrupt"
    <3>1. Type(e, "interrupt", None)
      BY <1>3, <2>2 DEF Proceed
    <3> QED  BY <1>1, <3>1, TypeWorks
  <2>3. CASE asked[e].kind \notin {"respond", "interrupt"}
    <3>1. Type(e, IF store.open = None THEN "text" ELSE "escape", store.open)
      BY <1>3, <2>3 DEF Proceed
    <3>2. CASE store.open = None
      <4>1. Type(e, "text", None)
        BY <3>1, <3>2
      <4> QED  BY <1>1, <4>1, TypeWorks
    <3>3. CASE store.open # None
      <4>1. Type(e, "escape", store.open)
        BY <3>1, <3>3
      <4> QED  BY <1>1, <3>3, <4>1, TypeWorks
    <3> QED  BY <3>2, <3>3
  <2> QED  BY <2>1, <2>2, <2>3
<1> QED  BY <1>1, <1>2, <1>3

LEMMA CheckEndWorks ==
    ASSUME StoreInv, Shapes, NEW e \in Executors, CheckEnd(e)
    PROVE  StoreInv'
<1>1. /\ pc[e] = "checked"
      /\ UNCHANGED <<worldVars, hookVars, controls, version>> /\ look' = look
      /\ \/ Type(e, "answer", req[e]) /\ store' = store
         \/ Stop(e) /\ store' \in {store, Close(store, None)}
  BY DEF CheckEnd, lookVars
<1>2. CASE Type(e, "answer", req[e]) /\ store' = store
  <2>1. req[e] # None
    BY <1>1, StoreInvIs DEF Held
  <2> QED  BY <1>1, <1>2, <2>1, TypeWorks
<1>3. CASE Stop(e) /\ store' \in {store, Close(store, None)}
  BY <1>1, <1>3, StopWorks
<1> QED  BY <1>1, <1>2, <1>3

LEMMA DismissedWorks ==
    ASSUME StoreInv, Shapes, NEW e \in Executors, Dismissed(e)
    PROVE  StoreInv'
<1>1. /\ UNCHANGED <<worldVars, hookVars, controls, version>> /\ look' = look
      /\ \/ Type(e, "text", None) /\ store' = Close(store, None)
         \/ Stop(e) /\ store' = store
  BY DEF Dismissed, lookVars
<1>2. CASE Type(e, "text", None) /\ store' = Close(store, None)
  <2>1. store' \in {store, Close(store, None)} /\ look' \in {look, None}
    BY <1>1, <1>2
  <2> QED  BY <1>1, <1>2, <2>1, TypeWorks
<1>3. CASE Stop(e) /\ store' = store
  BY <1>1, <1>3, StopWorks
<1> QED  BY <1>1, <1>2, <1>3

\* The other steps of an executor.
LEMMA RestWorks ==
    ASSUME StoreInv, Shapes, NEW e \in Executors,
           \/ Submit(e) \/ TakeInput(e) \/ ExecutorLookFails(e) \/ CheckStart(e) \/ Verify(e)
           \/ Send(e) \/ Fails(e) \/ Confirm(e) \/ Answered(e) \/ Sent(e)
    PROVE  StoreInv'
<1>1. CASE Submit(e)
  <2>1. /\ pc' = [pc EXCEPT ![e] = "lock"]
        /\ UNCHANGED <<worldVars, hookVars, storeVars, lookVars, req, typing>>
    BY <1>1 DEF Submit
  <2>2. pc'[e] = "lock" /\ \A f \in Executors \ {e} : pc'[f] = pc[f]
    BY <2>1 DEF Shapes
  <2>3. Works(e)
    BY <2>1, <2>2 DEF Works, Holds, storeVars, lookVars
  <2> QED  BY <2>3, WorksKeeps
<1>2. CASE TakeInput(e)
  <2>1. /\ UNCHANGED <<worldVars, hookVars, controls, version>> /\ look' = look /\ store' = store
        /\ Stop(e) \/ (Goto(e, "preflight") /\ UNCHANGED <<req, typing>>)
    BY <1>2 DEF TakeInput, storeVars, lookVars
  <2>2. CASE Stop(e)
    BY <2>1, <2>2, StopWorks
  <2>3. CASE Goto(e, "preflight") /\ UNCHANGED <<req, typing>>
    BY <2>1, <2>3, GotoWorks
  <2> QED  BY <2>1, <2>2, <2>3
<1>3. CASE ExecutorLookFails(e)
  <2>1. /\ UNCHANGED <<worldVars, hookVars, controls, version>> /\ look' = None /\ store' = store
        /\ Stop(e)
    BY <1>3 DEF ExecutorLookFails, storeVars
  <2> QED  BY <2>1, StopWorks
<1>4. CASE CheckStart(e)
  <2>1. /\ UNCHANGED <<worldVars, hookVars, controls, version, req, typing>>
        /\ look' = look /\ store' = store
        /\ pc[e] = "check" /\ Goto(e, "checked")
    BY <1>4 DEF CheckStart, storeVars, lookVars
  <2> QED  BY <2>1, GotoWorks
<1>5. CASE Verify(e)
  <2>1. /\ UNCHANGED <<worldVars, hookVars, controls, version>> /\ look' = look /\ store' = store
        /\ pc[e] = "verify"
        /\ Stop(e) \/ (Goto(e, "send") /\ UNCHANGED <<req, typing>>)
    BY <1>5 DEF Verify, storeVars, lookVars
  <2>2. CASE Stop(e)
    BY <2>1, <2>2, StopWorks
  <2>3. CASE Goto(e, "send") /\ UNCHANGED <<req, typing>>
    BY <2>1, <2>3, GotoWorks
  <2> QED  BY <2>1, <2>2, <2>3
<1>6. CASE Send(e)
  <2>1. /\ UNCHANGED <<worldVars, hookVars, controls, version, req, typing>>
        /\ look' = look /\ store' = store /\ pc[e] = "send"
        /\ Goto(e, "confirm") \/ Goto(e, "sent")
    BY <1>6 DEF Send, storeVars, lookVars
  <2>2. CASE Goto(e, "confirm")
    BY <2>1, <2>2, GotoWorks
  <2>3. CASE Goto(e, "sent")
    BY <2>1, <2>3, GotoWorks
  <2> QED  BY <2>1, <2>2, <2>3
<1>7. CASE Fails(e)
  <2>1. /\ UNCHANGED <<worldVars, hookVars, controls, version>> /\ look' = look /\ store' = store
        /\ Stop(e)
    BY <1>7 DEF Fails, storeVars, lookVars
  <2> QED  BY <2>1, StopWorks
<1>8. CASE Confirm(e)
  <2>1. /\ UNCHANGED <<worldVars, hookVars, controls, version>> /\ look' = look /\ store' = store
        /\ pc[e] = "confirm"
        /\ Finish(e, "unknown") \/ (Goto(e, "gone") /\ UNCHANGED <<req, typing>>)
    BY <1>8 DEF Confirm, storeVars, lookVars
  <2>2. CASE Finish(e, "unknown")
    BY <2>1, <2>2, FinishWorks
  <2>3. CASE Goto(e, "gone") /\ UNCHANGED <<req, typing>>
    BY <2>1, <2>3, GotoWorks
  <2> QED  BY <2>1, <2>2, <2>3
<1>9. CASE Answered(e) \/ Sent(e)
  <2>1. /\ UNCHANGED <<worldVars, hookVars, controls, version>> /\ look' = look
        /\ store' \in {store, Close(store, None)} /\ Finish(e, "sent")
    BY <1>9 DEF Answered, Sent, lookVars
  <2> QED  BY <2>1, FinishWorks
<1> QED  BY <1>1, <1>2, <1>3, <1>4, <1>5, <1>6, <1>7, <1>8, <1>9

LEMMA ExecutorStore ==
    ASSUME StoreInv, Shapes, NEW e \in Executors, Executor(e)
    PROVE  StoreInv'
<1>1. CASE ExecutorObserve(e)
  <2>1. PICK ok \in BOOLEAN : Observe(ok)
    BY <1>1 DEF ExecutorObserve
  <2>2. /\ look # None /\ UNCHANGED <<worldVars, hookVars, req, typing>>
        /\ pc' = [pc EXCEPT ![e] = "validate"]
    BY <1>1 DEF ExecutorObserve, Goto
  <2>3. \A f \in Executors : pc'[f] = pc[f] \/ pc'[f] = "validate"
    BY <2>2 DEF Shapes
  <2> QED  BY <2>1, <2>2, <2>3, ObserveKeeps
<1>2. CASE LookStart(e)
  BY <1>2, LookStartKeeps
<1> QED  BY <1>1, <1>2, ValidateWorks, CheckEndWorks, DismissedWorks, RestWorks DEF Executor

LEMMA StoreHolds ==
    ASSUME StoreInv, Shapes, Locks, [Next]_vars
    PROVE  StoreInv'
<1>1. CASE Refresh
  <2>1. PICK ok \in BOOLEAN : Observe(ok)
    BY <1>1 DEF Refresh
  <2>2. look # None /\ UNCHANGED <<worldVars, hookVars, req, typing, pc>>
    BY <1>1 DEF Refresh, execVars, taskVars
  <2>3. \A f \in Executors : pc'[f] = pc[f] \/ pc'[f] = "validate"
    BY <2>2
  <2> QED  BY <2>1, <2>2, <2>3, ObserveKeeps
<1>2. CASE LookStart(Poller)
  BY <1>2, LookStartKeeps
<1>3. CASE UNCHANGED vars
  <2>1. /\ UNCHANGED <<screen, look, version, horizon, logged, intake, queue, match, booting>>
        /\ UNCHANGED <<store, controls, req, pc, typing>>
    BY <1>3 DEF vars, worldVars, hookVars, storeVars, lookVars, execVars, taskVars
  <2>2. gone' = gone
    BY <2>1 DEF gone
  <2>3. Values' /\ Held'
    BY <2>1, StoreInvIs DEF Values, Held
  <2>4. /\ Tied(store) /\ Spent(store, gone, controls)
        /\ Intake(store, queue, match, booting, gone)
    BY StoreInvIs
  <2> HIDE DEF gone
  <2>5. /\ Tied(store') /\ Spent(store', gone', controls')
        /\ Intake(store', queue', match', booting', gone')
    BY <2>1, <2>2, <2>4
  <2> QED  BY <2>3, <2>5 DEF StoreInv
<1> QED  BY <1>1, <1>2, <1>3, WorldKeeps, TakeInKeeps, HookStartKeeps, HookEndKeeps,
            HookFailsKeeps, BootedKeeps, ExecutorStore, RestartStore DEF Next, Observer

LEMMA StoreInit == Init => StoreInv
<1> SUFFICES ASSUME Init PROVE StoreInv
  OBVIOUS
<1>1. Cardinality(Hooks) \in Nat /\ QueueMax \in Nat
  BY FS_CardinalityType, ActionsAssumption DEF ActionsAssumption
<1>2. Values
  <2>1. /\ screen = None /\ horizon = 0 /\ logged = 0 /\ intake = 0 /\ queue = <<>>
        /\ match = None /\ look = None /\ version = 1 /\ controls = [h \in Hooks |-> 0]
    BY DEF Init
  <2>2. queue \in Seq(Entries) /\ Len(queue) = 0
    BY <2>1
  <2> QED  BY <1>1, <2>1, <2>2 DEF Values
<1>3. store = NoEvidence /\ Tied(store)
  BY NoEvidenceTied DEF Init
<1>4. store.latest = None /\ store.deferred = 0 /\ store.open = None
  BY <1>3 DEF NoEvidence
<1>5. DOMAIN queue = {}
  BY DEF Init
<1>6. Count(queue) = 0
  <2>1. {i \in DOMAIN queue : queue[i].ticket} = {}
    BY <1>5
  <2> QED  BY <2>1, FS_EmptySet DEF Count
<1>7. match = None
  BY DEF Init
<1>8. Intake(store, queue, match, booting, gone)
  BY <1>4, <1>5, <1>6, <1>7 DEF Intake, Tickets, Vouched, Waiting
<1>9. Spent(store, gone, controls)
  <2>1. \A h \in Hooks : controls[h] = 0
    BY DEF Init
  <2>2. 0 \in 0..1 /\ 0 # 1
    OBVIOUS
  <2> QED  BY <2>1, <2>2 DEF Spent
<1>10. Held
  BY <1>4 DEF Init, Held, NoTask
<1> QED  BY <1>2, <1>3, <1>8, <1>9, <1>10 DEF StoreInv

LEMMA StoreAlways == Spec => [](StoreInv /\ ExecInv /\ Locks)
<1>1. Init => StoreInv /\ ExecInv /\ Locks
  BY StoreInit, ExecInit
<1>2. StoreInv /\ ExecInv /\ Locks /\ [Next]_vars => (StoreInv /\ ExecInv /\ Locks)'
  BY StoreHolds, ExecHolds DEF ExecInv
<1> QED  BY <1>1, <1>2, PTL DEF Spec

\* In the life of a process one hook gives controls to at most one request
\* (RequestStore.reconcile), whatever is taken in, matched, displaced or answered.
THEOREM OneRequest == Spec => []OneRequestPerHook
<1>1. StoreInv => OneRequestPerHook
  <2>1. StoreInv => \A h \in Hooks : controls[h] \in 0..1
    BY DEF StoreInv, Spent
  <2>2. \A n \in 0..1 : n <= 1
    OBVIOUS
  <2> QED  BY <2>1, <2>2 DEF OneRequestPerHook
<1> QED  BY <1>1, StoreAlways, PTL

\* The types of the session, and the bounds of the intake queue and its tickets
\* (runtime.py).
THEOREM SessionTypes == Spec => []TypeOK
<1>1. StoreInv /\ ExecInv /\ Locks => TypeOK
  <2>1. SUFFICES ASSUME StoreInv, ExecInv, Locks PROVE TypeOK
    OBVIOUS
  <2>2. Values /\ Tied(store) /\ Intake(store, queue, match, booting, gone)
    BY <2>1, StoreInvIs
  <2>3. queue \in Seq(Entries) /\ match \in Entries \union {None}
    BY <2>2 DEF Values
  <2>4. Cardinality({i \in DOMAIN queue : queue[i].ticket}) <= store.deferred
    <3>1. Count(queue) \in Nat /\ store.deferred \in Nat
      BY <2>2, <2>3, CountType DEF Tied
    <3>2. Count(queue) <= Tickets(queue, match) /\ Tickets(queue, match) \in Nat
      BY <3>1 DEF Tickets
    <3>3. Tickets(queue, match) <= store.deferred
      BY <2>2 DEF Intake
    <3> QED  BY <3>1, <3>2, <3>3 DEF Count
  <2>5. {store.hook, store.latest} \subseteq Evidence
    BY <2>2 DEF Tied
  <2> QED  BY <2>1, <2>2, <2>4, <2>5 DEF TypeOK, Values, Tied, ExecInv, Shapes, Owners, Locks
<1> QED  BY <1>1, StoreAlways, PTL

\* Finishing an answer or a dismissal uses the evidence of its own request and nothing
\* that still waits (RequestStore.close, is_current).
THEOREM NewEvidenceKept == Spec => FinishingKeepsNewEvidence
<1> DEFINE Fine == \A e \in Executors :
          pc[e] = "gone" /\ pc'[e] # "gone" /\ ~booting' =>
             (store'.consumed \ store.consumed) \ gone
                 \subseteq {req[e].hook, req[e].observed}
<1>1. ASSUME StoreInv, ExecInv, Locks, Next
      PROVE  Fine
  <2> SUFFICES ASSUME NEW e \in Executors, pc[e] = "gone", pc'[e] # "gone", ~booting'
               PROVE  (store'.consumed \ store.consumed) \ gone
                          \subseteq {req[e].hook, req[e].observed}
    OBVIOUS
  <2>1. Shapes /\ Owners
    BY <1>1 DEF ExecInv
  <2>2. Values /\ Tied(store) /\ Intake(store, queue, match, booting, gone) /\ Held
    BY <1>1, StoreInvIs
  <2>3. Answered(e) \/ Dismissed(e)
    <3>1. ~(World \/ TakeIn \/ Observer)
      BY DEF World, AgentShows, PromptEnds, ProcessChanges, HooksAge, TakeIn, Observer, LookStart,
             Refresh, HookStart, HookEnd, HookFails, Booted, execVars
    <3>2. ~Restart
      BY DEF Restart
    <3>3. PICK f \in Executors : Executor(f)
      BY <1>1, <3>1, <3>2 DEF Next
    <3>4. f = e
      <4>1. \A g \in Executors \ {f} : pc'[g] = pc[g]
        BY <2>1, <3>3 DEF Executor, Submit, TakeInput, LookStart, ExecutorObserve,
           ExecutorLookFails, Validate, Proceed, CheckStart, CheckEnd, Verify, Send, Fails,
           Confirm, Answered, Dismissed, Sent, Stop, Finish, Goto, Type, Shapes, execVars
      <4> QED  BY <4>1
    <3>5. ~(pc[e] = "preflight" /\ LookStart(e))
      OBVIOUS
    <3>6. pc[e] = "gone" => ~(ExecutorObserve(e) \/ ExecutorLookFails(e))
      BY <1>1 DEF Locks, ExecutorObserve, ExecutorLookFails
    <3> QED  BY <3>3, <3>4, <3>5, <3>6
             DEF Executor, Submit, TakeInput, Validate, CheckStart, CheckEnd, Verify, Send,
                 Fails, Confirm, Sent
  <2>4. IsCurrent(store, req[e].id) => req[e] = store.open /\ store.open # None
    <3>1. req[e] # None
      BY <1>1, <2>2, <2>3 DEF Held, Answered, Dismissed
    <3> QED  BY <2>2, <3>1 DEF Held, IsCurrent
  <2>5. CASE store' = store
    BY <2>5
  <2>6. CASE IsCurrent(store, req[e].id) /\ store' = Close(store, None)
    <3> DEFINE r == req[e]
    <3>1. r = store.open /\ r # None /\ store.deferred = 0 /\ store.hook = r.observed
      BY <2>4, <2>6 DEF IsCurrent
    <3>2. store.bound # None => store.bound.hook = r.hook
      BY <2>2, <3>1, TiedIs
    <3>3. store'.consumed \subseteq store.consumed \union {store.hook, store.latest}
                  \union {h \in Hooks : store.bound # None /\ store.bound.hook = h}
      BY <2>2, <2>6, CloseKeeps
    <3>4. store.latest \in gone \union store.consumed \union {None, store.hook}
      <4>1. ~booting
        BY <2>3 DEF Answered, Dismissed, hookVars
      <4>2. Tickets(queue, match) <= 0
        BY <2>2, <3>1 DEF Intake
      <4>3. queue \in Seq(Entries)
        BY <2>2 DEF Values
      <4>4. Count(queue) \in Nat /\ IsFiniteSet({i \in DOMAIN queue : queue[i].ticket})
        BY <4>3, CountType
      <4>5. ~(match # None /\ match.ticket) /\ Count(queue) = 0
        BY <4>2, <4>4 DEF Tickets
      <4>6. match = None
        BY <2>2, <4>1, <4>5 DEF Intake, Vouched
      <4>7. {i \in DOMAIN queue : queue[i].ticket} = {}
        BY <4>4, <4>5, FS_EmptySet DEF Count
      <4>8. ~(Tickets(queue, match) < store.deferred)
        BY <3>1, <4>4, <4>6 DEF Tickets
      <4> HIDE DEF gone
      <4> QED  BY <2>2, <4>6, <4>7, <4>8 DEF Intake, Waiting
    <3>5. store'.consumed \subseteq Hooks /\ None \notin Hooks
      <4>1. Keeps(store, Close(store, None))
        BY <2>2, CloseKeeps
      <4>2. Tied(store')
        BY <2>6, <4>1 DEF Keeps
      <4> QED  BY <4>2, RequestStoreAssumption DEF Tied, RequestStoreAssumption
    <3> HIDE DEF r, gone
    <3>6. (store'.consumed \ store.consumed) \ gone \subseteq {r.hook, r.observed}
      BY <3>1, <3>2, <3>3, <3>4, <3>5
    <3> QED  BY <3>6 DEF r
  <2> QED  BY <2>3, <2>5, <2>6 DEF Answered, Dismissed
<1>2. ASSUME UNCHANGED vars PROVE Fine
  BY <1>2 DEF vars, execVars
<1>3. StoreInv /\ ExecInv /\ Locks /\ [Next]_vars => [Fine]_vars
  BY <1>1, <1>2
<1> QED  BY <1>3, StoreAlways, PTL DEF Spec, FinishingKeepsNewEvidence
=============================================================================
