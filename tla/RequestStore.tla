---------------------------- MODULE RequestStore ----------------------------
(***************************************************************************)
(* The open request of one session and the hook evidence behind it, as     *)
(* operators on the store's state (session_protocol/requests.py).  A hook  *)
(* tells that the agent asks for something; a prompt on the screen that    *)
(* shows the same thing becomes a request with controls.  Evidence that    *)
(* was used or superseded must not produce controls again.                 *)
(*                                                                         *)
(* A hook stands for its identity; gone is the set of hooks older than the *)
(* matching window (_HOOK_MATCH_TTL).  A request is structured, that is    *)
(* with controls, when it is bound to a hook.                              *)
(***************************************************************************)
EXTENDS Integers

CONSTANTS
    Hooks, Prompts, None,
    Stamp,  \* the timestamp of each hook
    Asks    \* the prompt that shows what a hook asks for; None for the end of a turn

ASSUME RequestStoreAssumption ==
    /\ None \notin Hooks \union Prompts
    /\ Stamp \in [Hooks -> Nat]
    /\ Asks \in [Hooks -> Prompts \union {None}]

\* RequestStore.__init__
NoEvidence ==
    [open |-> None,      \* _open: the open request
     hook |-> None,      \* _hooks: matched evidence, bound or not
     bound |-> None,     \* _hook_prompts: the hook, prompt and version that belong together
     consumed |-> {},    \* _consumed_hooks
     latest |-> None,    \* _latest_hooks
     deferred |-> 0]     \* _deferred: tickets of hooks taken in and not processed

Binding(h, p, v) == [hook |-> h, prompt |-> p, version |-> v]

\* Mutant: evidence that was used is not remembered.
NeverConsumed(s, h, gone) == FALSE

\* RequestStore._is_consumed; tombstones last for the matching window.
IsConsumed(s, h, gone) == h \in s.consumed \ gone

\* RequestStore.defer and resolve
Deferred(s) == [s EXCEPT !.deferred = @ + 1]
Resolved(s, ticket) == IF ticket THEN [s EXCEPT !.deferred = @ - 1] ELSE s

\* Mutant: a request does not know that its evidence changed.
IsCurrentById(s, id) == s.deferred = 0 /\ s.open # None /\ s.open.id = id

\* Mutant: hooks taken in and not processed do not count.
IsCurrentDespiteDeferral(s, id) ==
    s.open # None /\ s.open.id = id /\ s.hook = s.open.observed

\* RequestStore.is_current
IsCurrent(s, id) ==
    /\ s.deferred = 0
    /\ s.open # None
    /\ s.open.id = id
    /\ s.hook = s.open.observed

\* RequestStore.close.  What it knew of is consumed, except the evidence kept.
Close(s, kept) ==
    LET bound == IF s.bound = None THEN None ELSE s.bound.hook IN
    [s EXCEPT !.open = None,
              !.bound = None,
              !.hook = IF @ = kept THEN @ ELSE None,
              !.consumed = @ \union
                  ((({s.hook, s.latest} \ {kept}) \union {bound}) \ {None})]

\* RequestStore.observe_identity, whether it takes the hook ...
Accepts(s, h, gone) ==
    /\ h \notin gone
    /\ ~IsConsumed(s, h, gone)
    /\ s.latest \in {None, h} \/ Stamp[h] >= Stamp[s.latest]

\* Mutant: another hook before it is not superseded.
ObserveIdentityOnly(s, h) == [s EXCEPT !.latest = h]

\* ... and what it then does: another hook before it is superseded.
ObserveIdentity(s, h) ==
    [(IF s.latest \in {None, h} THEN s ELSE Close(s, None)) EXCEPT !.latest = h]

\* RequestStore.observe_hook
ObserveHook(s, h, gone) ==
    IF Accepts(s, h, gone) THEN [ObserveIdentity(s, h) EXCEPT !.hook = h] ELSE s

\* RequestStore.discard_identity
DiscardIdentity(s, h) == IF s.latest = h THEN Close(s, None) ELSE s

\* RequestStore._match
Matches(h, p, gone) == h \notin gone /\ Asks[h] = p

\* RequestStore.reconcile without a prompt: the request is over; evidence it was
\* not bound to may belong to a prompt still to come.
ReconcileAbsent(s) ==
    IF s.open = None THEN s
    ELSE Close(s, IF s.latest = s.open.hook THEN None ELSE s.latest)

\* Evidence bound to one prompt and version does not carry over to another.
Unbound(s, p, v, gone) ==
    IF /\ s.bound # None /\ ~IsConsumed(s, s.hook, gone)
       /\ s.bound.hook = s.hook /\ s.bound # Binding(s.hook, p, v)
    THEN [s EXCEPT !.bound = None, !.consumed = @ \union {s.hook}]
    ELSE s

\* The hook that gives a prompt its controls, None if there is none.
Structuring(s, p, v, gone) ==
    IF /\ s.hook # None /\ ~IsConsumed(s, s.hook, gone)
       /\ s.bound = Binding(s.hook, p, v) \/ Matches(s.hook, p, gone)
    THEN s.hook ELSE None

\* The open request gives way: evidence it was bound to is consumed.
Displaced(s) ==
    IF s.open # None /\ s.open.hook # None
    THEN [s EXCEPT !.bound = None, !.consumed = @ \union {s.open.hook}]
    ELSE s

\* RequestStore.reconcile with the prompt on the screen; a new request is named id.
Reconcile(s, p, v, gone, id) ==
    LET now == Unbound(s, p, v, gone)
        h == Structuring(now, p, v, gone)
        rest == Displaced(now)
        shown == [id |-> id, version |-> v, prompt |-> p, hook |-> h, observed |-> s.hook]
    IN  IF p = None THEN ReconcileAbsent(s)
        ELSE IF now.open # None /\ [now.open EXCEPT !.id = id] = shown THEN now
        ELSE [rest EXCEPT !.open = shown,
                          !.bound = IF h # None THEN Binding(h, p, v) ELSE @]
=============================================================================
