------------------------------- MODULE Topics -------------------------------
(***************************************************************************)
(* The life of a forum topic: it is made for a window that appears, a      *)
(* window is launched for it, an interrupted creation is recovered, and a  *)
(* retired topic is deleted.  The flows are asyncio tasks that share the   *)
(* routing record (ThreadRouter); a step of the model is the code between  *)
(* two awaits.  state.json keeps the durable part of the record: some      *)
(* changes are flushed at once and may fail, others wait for a debounce    *)
(* timer, and the process may stop at any step.                            *)
(***************************************************************************)
EXTENDS ThreadRouter

CONSTANTS Recoverers,     \* tasks that run recover_topic_provisioning
          HiddenEffect,   \* attempts whose timeout may hide a created topic
          MaxFaults,      \* bound on failed writes and unlucky answers
          MaxEvents       \* bound on what users, windows and crashes do

ASSUME TopicsAssumption ==
    /\ HiddenEffect \subseteq {"sent", "resent"}
    /\ MaxFaults \in Nat /\ MaxEvents \in Nat

VARIABLES
    router,     \* the routing record in memory
    disk,       \* its durable part, as state.json has it
    timer,      \* a debounced save is pending
    remote,     \* each topic, as Telegram has it
    madeFor,    \* the window the bot asked the topic for
    everBound,  \* topics that were bound at some time
    alive,      \* each window, as the backend has it
    seen,       \* windows whose handler waits for provider detection
    job,        \* per claim, the creation or launch that works on it
    rec,        \* per recoverer, the claim it looks at and how far it is
    cleanup,    \* per topic, the deletion in flight
    faults, events

env  == <<remote, madeFor, alive>>
vars == <<router, disk, timer, remote, madeFor, everBound, alive, seen, job,
          rec, cleanup, faults, events>>

NoJob == [pc |-> "idle", flow |-> "create", win |-> None, topic |-> None,
          keep |-> FALSE, late |-> FALSE]
NoRec == [pc |-> "idle", claim |-> None, snap |-> None, dead |-> FALSE]
NoCleanup == [pc |-> "idle", seq |-> 0, closed |-> FALSE]

Init ==
    /\ router = EmptyRouter
    /\ disk = Durable(EmptyRouter)
    /\ timer = FALSE
    /\ remote = [t \in Topics |-> "none"]
    /\ madeFor = [t \in Topics |-> None]
    /\ everBound = {}
    /\ alive = [w \in Windows |-> "none"]
    /\ seen = {}
    /\ job = [c \in ClaimIds |-> NoJob]
    /\ rec = [p \in Recoverers |-> NoRec]
    /\ cleanup = [t \in Topics |-> NoCleanup]
    /\ faults = 0
    /\ events = 0

-----------------------------------------------------------------------------
(* Saving.                                                                 *)

BoundTopics(r) == {t \in Topics : r.bind[t] # None}

Becomes(r) == router' = r /\ everBound' = everBound \cup BoundTopics(r)

Unlucky == faults < MaxFaults /\ faults' = faults + 1

\* flush_state: cancels the timer, then writes; a failed write leaves the
\* change in memory without a pending save.
Save(r) ==
    /\ Becomes(r)
    /\ timer' = FALSE
    /\ \/ disk' = Durable(r) /\ UNCHANGED faults
       \/ UNCHANGED disk /\ Unlucky

\* A flush after a first fault: the next write may fail as well.
SaveAfterFault(r) ==
    /\ Becomes(r)
    /\ timer' = FALSE
    /\ disk' \in {disk, Durable(r)}
    /\ Unlucky

\* Two flushes with a change in between, of which the second fails alone.
SaveBoth(first, last) ==
    /\ Becomes(last)
    /\ timer' = FALSE
    /\ \/ disk' = Durable(last) /\ UNCHANGED faults
       \/ disk' = Durable(first) /\ Unlucky

\* schedule_save alone.
Debounce(r) ==
    /\ Becomes(r)
    /\ timer' = (timer \/ r # router)
    /\ UNCHANGED <<disk, faults>>

Quiet == UNCHANGED <<router, disk, timer, everBound, faults>>

SaveLater ==
    /\ timer
    /\ Save(router)
    /\ UNCHANGED <<env, seen, job, rec, cleanup, events>>

Event == events < MaxEvents /\ events' = events + 1

-----------------------------------------------------------------------------
(* Locks and guards against a second topic for one window.                 *)

Working(c) == job[c].pc # "idle"
Free(c)    == /\ router.claims[c] = None
              /\ ~Working(c)
              /\ \A p \in Recoverers : rec[p].claim # c

\* _window_topic_lock: held by the new-window handler until its creation has
\* settled, and by a recoverer that makes a replacement.
Locked(w) ==
    \/ w \in seen
    \/ \E c \in ClaimIds : /\ job[c].flow = "create" /\ Working(c)
                           /\ ~job[c].late /\ job[c].win = w
    \/ \E p \in Recoverers : /\ rec[p].pc \in {"recreate", "agent", "clear"}
                             /\ rec[p].snap.target = w

\* pending_creation_transaction: open until a launched window has its claim.
TransactionOpen ==
    \E c \in ClaimIds : job[c].flow = "launch" /\ job[c].pc \in {"create", "made"}

PendingCreation(w) == TransactionOpen \/ HasTargetClaim(router, w, {})

\* A task that ends lets a recoverer that waits for it go on.
EndJob(c) ==
    /\ job' = [job EXCEPT ![c] = NoJob]
    /\ rec' = [p \in Recoverers |->
                 IF rec[p].claim = c /\ rec[p].pc = "create" THEN NoRec
                 ELSE rec[p]]

-----------------------------------------------------------------------------
(* A topic for a new window.                                               *)

NewWindow(w) ==
    /\ alive[w] # "none"
    /\ ~Locked(w)
    /\ ~Bound(router, w)
    /\ ~PendingCreation(w)
    /\ seen' = seen \cup {w}
    /\ Quiet
    /\ UNCHANGED <<env, job, rec, cleanup, events>>

\* create_topic_in_chat gives up: no user is free to own the topic, the chat is
\* in backoff, or the window has been claimed meanwhile.
SkipCreation(w) ==
    /\ w \in seen
    /\ seen' = seen \ {w}
    /\ Quiet
    /\ UNCHANGED <<env, job, rec, cleanup, events>>

BeginCreation(w, c) ==
    LET begun   == Begin(router, c, None, w, None, "topic_for_target")
        aborted == Abort(begun, c, FALSE, TRUE)
    IN  /\ w \in seen
        /\ Free(c)
        /\ ~Bound(router, w)
        /\ CanBegin(router, None, w, None)
        /\ seen' = seen \ {w}
        /\ \/ /\ Becomes(begun)
              /\ disk' = Durable(begun)
              /\ timer' = FALSE
              /\ job' = [job EXCEPT ![c] =
                           [NoJob EXCEPT !.pc = "sent", !.win = w]]
              /\ UNCHANGED faults
           \/ SaveAfterFault(aborted) /\ UNCHANGED job
        /\ UNCHANGED <<env, rec, cleanup, events>>

\* Telegram's side of one create_forum_topic request.
Makes(t, w) ==
    /\ remote[t] = "none"
    /\ remote' = [remote EXCEPT ![t] = "open"]
    /\ madeFor' = [madeFor EXCEPT ![t] = w]

InFlight(c) == job[c].flow = "create" /\ job[c].pc \in {"sent", "resent"}

TelegramCreates(c, t) ==
    /\ InFlight(c)
    /\ Makes(t, job[c].win)
    /\ job' = [job EXCEPT ![c].pc = "created", ![c].topic = t]
    /\ Quiet
    /\ UNCHANGED <<alive, seen, rec, cleanup, events>>

\* Flood control and the other errors that are not retried.
TelegramRefuses(c) ==
    /\ InFlight(c)
    /\ Unlucky
    /\ job' = [job EXCEPT ![c].pc = "refused"]
    /\ UNCHANGED <<router, disk, timer, env, everBound, seen, rec, cleanup,
                   events>>

\* A network error or a timeout, after which the topic may exist: the first
\* attempt is repeated, the second leaves the outcome unclear.
TelegramTimesOut(c) ==
    /\ InFlight(c)
    /\ Unlucky
    /\ job' = [job EXCEPT ![c].pc = IF @ = "sent" THEN "resent" ELSE "unclear"]
    /\ \/ UNCHANGED <<remote, madeFor>>
       \/ job[c].pc \in HiddenEffect /\ \E t \in Topics : Makes(t, job[c].win)
    /\ UNCHANGED <<router, disk, timer, everBound, alive, seen, rec, cleanup,
                   events>>

\* The awaiting task is cancelled; the request lives on, and a callback will
\* settle its claim.
CancelCreation(c) ==
    /\ InFlight(c)
    /\ ~job[c].late
    /\ Event
    /\ Save(MarkUncertain(router, c, ~job[c].keep))
    /\ job' = [job EXCEPT ![c].late = TRUE]
    /\ rec' = [p \in Recoverers |->
                 IF rec[p].claim = c /\ rec[p].pc = "create" THEN NoRec
                 ELSE rec[p]]
    /\ UNCHANGED <<env, seen, cleanup>>

\* _commit_topic_provisioning: attach, flush, commit, flush.
SettleCreated(c) ==
    LET t        == job[c].topic
        attached == AttachTopic(router, c, t)
    IN  /\ job[c].pc = "created"
        /\ \/ /\ ~CanAttachTopic(router, c, t)
              /\ Save(MarkUncertain(router, c, TRUE))
           \/ /\ CanAttachTopic(router, c, t)
              /\ SaveAfterFault(MarkUncertain(attached, c, TRUE))
           \/ /\ CanAttachTopic(router, c, t)
              /\ ~CanCommit(attached, c)
              /\ SaveBoth(attached, MarkUncertain(attached, c, TRUE))
           \/ /\ CanAttachTopic(router, c, t)
              /\ CanCommit(attached, c)
              /\ SaveBoth(attached, Commit(attached, c))
        /\ EndJob(c)
        /\ UNCHANGED <<env, seen, cleanup, events>>

\* A definitive refusal: a fresh claim is released, a replacement waits for
\* its next try.
SettleRefused(c) ==
    /\ job[c].pc = "refused"
    /\ Save(IF ~job[c].keep THEN Abort(router, c, FALSE, TRUE)
            ELSE IF CanDefer(router, c) THEN DeferRecreation(router, c, FALSE)
            ELSE MarkUncertain(router, c, TRUE))
    /\ EndJob(c)
    /\ UNCHANGED <<env, seen, cleanup, events>>

\* Mutant: a lost answer is taken for a refusal.
SettleAsRefused(c) ==
    /\ job[c].pc = "unclear"
    /\ Save(IF ~job[c].keep THEN Abort(router, c, FALSE, TRUE)
            ELSE IF CanDefer(router, c) THEN DeferRecreation(router, c, FALSE)
            ELSE MarkUncertain(router, c, TRUE))
    /\ EndJob(c)
    /\ UNCHANGED <<env, seen, cleanup, events>>

SettleUnclear(c) ==
    /\ job[c].pc = "unclear"
    /\ Save(MarkUncertain(router, c, TRUE))
    /\ EndJob(c)
    /\ UNCHANGED <<env, seen, cleanup, events>>

-----------------------------------------------------------------------------
(* The deletion of a retired topic.                                        *)

\* Mutant: the topic is deleted whether or not the flush succeeds.
StartCleanupUnsaved(r, t, pc) ==
    IF CanBeginDeletion(r, t, r.retired[t].seq)
    THEN /\ Save(BeginDeletion(r, t))
         /\ cleanup' = [cleanup EXCEPT ![t] =
                          [pc |-> pc, seq |-> r.retired[t].seq,
                           closed |-> r.retired[t].closed]]
    ELSE Save(r) /\ UNCHANGED cleanup

\* cleanup_retired_topic: the record r is flushed before the topic is touched;
\* a failed flush gives the deletion up.
StartCleanup(r, t, pc) ==
    IF CanBeginDeletion(r, t, r.retired[t].seq)
    THEN \/ /\ Becomes(BeginDeletion(r, t))
            /\ disk' = Durable(r)
            /\ timer' = FALSE
            /\ cleanup' = [cleanup EXCEPT ![t] =
                             [pc |-> pc, seq |-> r.retired[t].seq,
                              closed |-> r.retired[t].closed]]
            /\ UNCHANGED faults
         \/ SaveAfterFault(r) /\ UNCHANGED cleanup
    ELSE Save(r) /\ UNCHANGED cleanup

\* A sweep, or a sync, which takes the topics the user closed as well.
SweepCleanup(t) ==
    /\ router.retired[t] # None
    /\ \/ router.retired[t].eligible
       \/ router.retired[t].reason = "remote_closed"
    /\ CanBeginDeletion(router, t, router.retired[t].seq)
    /\ StartCleanup(router, t, "delete")
    /\ UNCHANGED <<env, seen, job, rec, events>>

\* The window of a bound topic is confirmed dead: retire_topic_binding.
DeadTopic(t) ==
    /\ router.bind[t] # None
    /\ alive[router.bind[t]] = "dead"
    /\ ~HasTargetClaim(router, router.bind[t], {})
    /\ ~HasTopicClaim(router, t)
    /\ StartCleanup(Unbind(router, t, "dead_session", TRUE), t, "before")
    /\ UNCHANGED <<env, seen, job, rec, events>>

\* clear_topic_state has run; the delete request goes out.
BeforeDelete(t) ==
    /\ cleanup[t].pc = "before"
    /\ cleanup' = [cleanup EXCEPT ![t].pc = "delete"]
    /\ Quiet
    /\ UNCHANGED <<env, seen, job, rec, events>>

EndCleanup(t) == cleanup' = [cleanup EXCEPT ![t] = NoCleanup]

\* Deleted, or found to be gone already.
DeleteDone(t) ==
    /\ cleanup[t].pc = "delete"
    /\ remote' = [remote EXCEPT ![t] = "gone"]
    /\ Save(EndDeletion(DiscardRetired(router, t, cleanup[t].seq), t))
    /\ EndCleanup(t)
    /\ UNCHANGED <<madeFor, alive, seen, job, rec, events>>

DeleteRateLimited(t) ==
    /\ cleanup[t].pc = "delete"
    /\ SaveAfterFault(EndDeletion(UpdateRetired(router, t, cleanup[t].seq,
                                                cleanup[t].closed), t))
    /\ EndCleanup(t)
    /\ UNCHANGED <<env, seen, job, rec, events>>

StillRetired(t, seq) ==
    /\ StillListed(router, t, seq)
    /\ router.bind[t] = None
    /\ ~HasTopicClaim(router, t)
    /\ router.delTarget[t] # None =>
          ~HasTargetClaim(router, router.delTarget[t], {})

\* _close_fallback: a topic that cannot be deleted is closed, and stays listed.
DeleteRefused(t) ==
    /\ cleanup[t].pc = "delete"
    /\ \/ /\ ~StillRetired(t, cleanup[t].seq)
          /\ Becomes(EndDeletion(router, t))
          /\ Unlucky
          /\ UNCHANGED <<disk, timer>>
          /\ EndCleanup(t)
       \/ /\ StillRetired(t, cleanup[t].seq)
          /\ cleanup[t].closed
          /\ SaveAfterFault(EndDeletion(UpdateRetired(router, t,
                                             cleanup[t].seq, TRUE), t))
          /\ EndCleanup(t)
       \/ /\ StillRetired(t, cleanup[t].seq)
          /\ ~cleanup[t].closed
          /\ Unlucky
          /\ cleanup' = [cleanup EXCEPT ![t].pc = "close"]
          /\ UNCHANGED <<router, disk, timer, everBound>>
    /\ UNCHANGED <<env, seen, job, rec, events>>

CloseAnswered(t) ==
    LET update(closed) ==
            EndDeletion(UpdateRetired(router, t, cleanup[t].seq, closed), t)
    IN  /\ cleanup[t].pc = "close"
        /\ \/ /\ remote[t] \in {"open", "closed"}
              /\ remote' = [remote EXCEPT ![t] = "closed"]
              /\ Save(update(TRUE))
           \/ /\ remote[t] = "gone"
              /\ Save(EndDeletion(DiscardRetired(router, t, cleanup[t].seq), t))
              /\ UNCHANGED remote
           \/ SaveAfterFault(update(FALSE)) /\ UNCHANGED remote
        /\ EndCleanup(t)
        /\ UNCHANGED <<madeFor, alive, seen, job, rec, events>>

-----------------------------------------------------------------------------
(* A window for a topic: a launch, or the replacement of a dead window.    *)

\* The claim is flushed before the backend is asked; a failed flush aborts it.
BeginLaunch(t, c, flow, pc, previous) ==
    LET kind == IF previous = None THEN "target_for_topic" ELSE "replacement"
        begun == Begin(router, c, t, None, previous, kind)
    IN  /\ remote[t] = "open"
        /\ Free(c)
        /\ CanBegin(router, t, None, previous)
        /\ Event
        /\ \/ /\ Becomes(begun)
              /\ disk' = Durable(begun)
              /\ timer' = FALSE
              /\ job' = [job EXCEPT ![c] =
                           [NoJob EXCEPT !.pc = pc, !.flow = flow, !.topic = t]]
              /\ UNCHANGED faults
           \/ SaveAfterFault(Abort(begun, c, TRUE, FALSE)) /\ UNCHANGED job
        /\ UNCHANGED <<env, seen, rec, cleanup>>

LaunchWindow(t, c) == BeginLaunch(t, c, "launch", "create", None)

\* Fresh, Continue and Resume of the recovery banner; it checks its offer first.
RecoverWindow(t, c) == BeginLaunch(t, c, "banner", "offer", router.bind[t])

ResumeWindow(t, c) == BeginLaunch(t, c, "resume", "create", router.bind[t])

\* The target is proven absent: the claim is aborted, and the topic deleted
\* unless it still serves the window that was to be replaced.
FinishAbsent(c) ==
    LET t == job[c].topic
        r == Abort(router, c, TRUE, FALSE)
    IN  /\ IF router.claims[c] # None /\ router.claims[c].kind = "replacement"
           THEN Save(r) /\ UNCHANGED cleanup
           ELSE StartCleanup(r, t, "before")
        /\ EndJob(c)

FinishUncertain(c) ==
    /\ Save(MarkUncertain(router, c, TRUE))
    /\ EndJob(c)
    /\ UNCHANGED cleanup

\* _stale_recovery_offer: the old window turns out to be there after all, or
\* the offer stands.
CheckOffer(c) ==
    /\ job[c].pc = "offer"
    /\ \/ /\ router.claims[c].kind = "replacement"
          /\ FinishAbsent(c)
       \/ /\ job' = [job EXCEPT ![c].pc = "create"]
          /\ Quiet
          /\ UNCHANGED <<rec, cleanup>>
    /\ UNCHANGED <<env, seen, events>>

BackendMakes(c, w) ==
    /\ job[c].pc = "create"
    /\ alive[w] = "none"
    /\ alive' = [alive EXCEPT ![w] = "alive"]
    /\ job' = [job EXCEPT ![c].pc = "made", ![c].win = w]
    /\ Quiet
    /\ UNCHANGED <<remote, madeFor, seen, rec, cleanup, events>>

\* A refusal proves that no window exists; any other failure proves nothing.
BackendFails(c) ==
    /\ job[c].pc = "create"
    /\ \/ FinishAbsent(c) /\ UNCHANGED alive
       \/ /\ FinishUncertain(c)
          /\ \/ UNCHANGED alive
             \/ \E w \in Windows : /\ alive[w] = "none"
                                   /\ alive' = [alive EXCEPT ![w] = "alive"]
    /\ UNCHANGED <<remote, madeFor, seen, events>>

AttachLaunched(c) ==
    LET w == job[c].win
    IN  /\ job[c].pc = "made"
        /\ \/ /\ CanAttachTarget(router, c, w)
              /\ Becomes(AttachTarget(router, c, w))
              /\ disk' = Durable(AttachTarget(router, c, w))
              /\ timer' = FALSE
              /\ job' = [job EXCEPT ![c].pc = "wait"]
              /\ UNCHANGED <<faults, rec>>
           \/ /\ CanAttachTarget(router, c, w)
              /\ SaveAfterFault(MarkUncertain(AttachTarget(router, c, w), c, TRUE))
              /\ EndJob(c)
           \/ /\ ~CanAttachTarget(router, c, w)
              /\ Save(MarkUncertain(router, c, TRUE))
              /\ EndJob(c)
        /\ UNCHANGED <<env, seen, cleanup, events>>

\* The agent is up: the claim is committed.  A failed flush finds it settled.
LaunchReady(c) ==
    /\ job[c].pc = "wait"
    /\ IF CanCommit(router, c) THEN Save(Commit(router, c))
       ELSE Save(MarkUncertain(router, c, TRUE))
    /\ EndJob(c)
    /\ UNCHANGED <<env, seen, cleanup, events>>

\* No sign of the agent: only a window confirmed dead ends the claim.
LaunchNotReady(c) ==
    /\ job[c].pc = "wait"
    /\ IF alive[job[c].win] = "dead" THEN FinishAbsent(c) ELSE FinishUncertain(c)
    /\ UNCHANGED <<env, seen, events>>

\* An error or a cancellation while waiting: the window is closed again.
LaunchAborts(c) ==
    /\ job[c].pc = "wait"
    /\ \/ /\ alive' = [alive EXCEPT ![job[c].win] = "dead"]
          /\ FinishAbsent(c)
       \/ FinishUncertain(c) /\ UNCHANGED alive
    /\ UNCHANGED <<remote, madeFor, seen, events>>

-----------------------------------------------------------------------------
(* The recovery of claims nobody owns.                                     *)

Current(p) ==
    rec[p].snap # None /\ router.claims[rec[p].claim] = rec[p].snap

\* _claim_is_current: the same claim, still without an owner.
Untouched(p) == Current(p) /\ rec[p].claim \notin router.owned

\* Mutant: only the topic of the claim is looked at.
BoundHere(claim) ==
    claim.thread # None /\ router.bind[claim.thread] = claim.target

BoundElsewhere(claim) ==
    \E t \in Topics \ {claim.thread} : router.bind[t] = claim.target

Leave(p) == rec' = [rec EXCEPT ![p] = NoRec]
GoTo(p, pc) == rec' = [rec EXCEPT ![p].pc = pc]

RecPick(p, c) ==
    LET claim == router.claims[c]
    IN  /\ rec[p].pc = "idle"
        /\ claim # None
        /\ c \notin router.owned
        /\ claim.target # None
        /\ \/ claim.thread # None
           \/ claim.retry # None /\ ~claim.uncertain
        /\ rec' = [rec EXCEPT ![p] =
                     [pc |-> IF claim.thread # None THEN "presence" ELSE "lock",
                      claim |-> c, snap |-> claim, dead |-> FALSE]]
        /\ Quiet
        /\ UNCHANGED <<env, seen, job, cleanup, events>>

RecPresence(p) ==
    LET w == rec[p].snap.target
        t == rec[p].snap.thread
    IN  /\ rec[p].pc = "presence"
        /\ \/ /\ ~Untouched(p)
              /\ Leave(p) /\ Quiet /\ UNCHANGED cleanup
           \/ /\ Untouched(p)
              /\ Leave(p)
              /\ Unlucky
              /\ UNCHANGED <<router, disk, timer, everBound, cleanup>>
           \/ /\ Untouched(p)
              /\ alive[w] = "alive"
              /\ GoTo(p, "probe") /\ Quiet /\ UNCHANGED cleanup
           \/ /\ Untouched(p)
              /\ alive[w] # "alive"
              /\ Leave(p)
              /\ StartCleanup(Abort(router, rec[p].claim, TRUE, FALSE), t,
                              "before")
        /\ UNCHANGED <<env, seen, job, events>>

\* probe_topic_exists: an edit of the title tells whether the topic is there.
RecProbe(p) ==
    LET t == rec[p].snap.thread
    IN  /\ rec[p].pc = "probe"
        /\ \/ ~Untouched(p) /\ Leave(p) /\ Quiet
           \/ /\ Leave(p)
              /\ Unlucky
              /\ UNCHANGED <<router, disk, timer, everBound>>
           \/ /\ Untouched(p)
              /\ remote[t] # "gone"
              /\ GoTo(p, "ready") /\ Quiet
           \/ /\ Untouched(p)
              /\ remote[t] = "gone"
              /\ rec' = [rec EXCEPT ![p].pc = "lock",
                                    ![p].dead = router.bind[t] # None]
              /\ Quiet
        /\ UNCHANGED <<env, seen, job, cleanup, events>>

\* _claim_agent_is_ready, for a topic that is present.
RecReady(p) ==
    /\ rec[p].pc = "ready"
    /\ \/ GoTo(p, "commit") /\ UNCHANGED faults
       \/ Leave(p) /\ Unlucky
    /\ UNCHANGED <<router, disk, timer, everBound, env, seen, job, cleanup,
                   events>>

\* _commit_present_topic, under the window's lock.
RecCommit(p) ==
    LET c == rec[p].claim
    IN  /\ rec[p].pc = "commit"
        /\ ~Locked(rec[p].snap.target)
        /\ \/ /\ Untouched(p)
              /\ ~BoundElsewhere(rec[p].snap)
              /\ CanCommit(router, c)
              /\ Save(Commit(router, c))
           \/ /\ \/ ~Untouched(p)
                 \/ BoundElsewhere(rec[p].snap)
                 \/ ~CanCommit(router, c)
              /\ Quiet
        /\ Leave(p)
        /\ UNCHANGED <<env, seen, job, cleanup, events>>

RecLock(p) ==
    /\ rec[p].pc = "lock"
    /\ ~Locked(rec[p].snap.target)
    /\ GoTo(p, "recreate")
    /\ Quiet
    /\ UNCHANGED <<env, seen, job, cleanup, events>>

\* _prepare_recreation cannot be flushed: the claim is deferred, unsaved.
PrepareFails(prepared, c) ==
    /\ Becomes(DeferRecreation(prepared, c, FALSE))
    /\ timer' = TRUE
    /\ Unlucky
    /\ UNCHANGED disk

\* _recreate_deleted_topic, once presence is known.  A prepared claim is
\* deferred, dropped, or kept for the creation of the new topic.
RecRecreate(p) ==
    LET c        == rec[p].claim
        w        == rec[p].snap.target
        prepared == PrepareRecreation(router, c)
    IN  /\ rec[p].pc = "recreate"
        /\ \/ ~Untouched(p) /\ Leave(p) /\ Quiet
           \/ /\ Untouched(p)
              /\ Leave(p)
              /\ \/ SaveAfterFault(DeferRecreation(prepared, c, TRUE))
                 \/ PrepareFails(prepared, c)
           \/ /\ Untouched(p)
              /\ alive[w] # "alive"
              /\ Leave(p)
              /\ \/ SaveBoth(prepared, Abort(prepared, c, TRUE, FALSE))
                 \/ PrepareFails(prepared, c)
           \/ /\ Untouched(p)
              /\ alive[w] = "alive"
              /\ Bound(router, w)
              /\ Leave(p)
              /\ \/ SaveBoth(prepared, Abort(prepared, c, FALSE, TRUE))
                 \/ PrepareFails(prepared, c)
           \/ /\ Untouched(p)
              /\ alive[w] = "alive"
              /\ ~Bound(router, w)
              /\ GoTo(p, "agent") /\ Quiet
        /\ UNCHANGED <<env, seen, job, cleanup, events>>

SendReplacement(p) ==
    /\ job' = [job EXCEPT ![rec[p].claim] =
                 [NoJob EXCEPT !.pc = "sent", !.win = rec[p].snap.target,
                               !.keep = TRUE]]
    /\ GoTo(p, "create")

\* The chat is in backoff: create_topic_in_chat sends nothing and defers.
InBackoff(prepared, c) ==
    /\ Becomes(DeferRecreation(prepared, c, FALSE))
    /\ timer' = FALSE
    /\ disk' \in {Durable(prepared), Durable(DeferRecreation(prepared, c, FALSE))}
    /\ Unlucky

\* _claim_agent_is_ready, then _prepare_recreation; a failed flush defers.
RecAgent(p) ==
    LET c        == rec[p].claim
        prepared == PrepareRecreation(router, c)
    IN  /\ rec[p].pc = "agent"
        /\ \/ ~Untouched(p) /\ Leave(p) /\ Quiet /\ UNCHANGED job
           \/ /\ Untouched(p)
              /\ Leave(p)
              /\ Unlucky
              /\ UNCHANGED <<router, disk, timer, everBound, job>>
           \/ /\ Untouched(p)
              /\ Leave(p)
              /\ PrepareFails(prepared, c)
              /\ UNCHANGED job
           \/ /\ Untouched(p)
              /\ ~rec[p].dead
              /\ Leave(p)
              /\ InBackoff(prepared, c)
              /\ UNCHANGED job
           \/ /\ Untouched(p)
              /\ Becomes(prepared)
              /\ disk' = Durable(prepared)
              /\ timer' = FALSE
              /\ UNCHANGED faults
              /\ IF rec[p].dead
                 THEN /\ rec' = [rec EXCEPT ![p].pc = "clear",
                                            ![p].snap = prepared.claims[c]]
                      /\ UNCHANGED job
                 ELSE SendReplacement(p)
        /\ UNCHANGED <<env, seen, cleanup, events>>

\* The state of the dead topic is cleared before its replacement is made.
RecClear(p) ==
    /\ rec[p].pc = "clear"
    /\ \/ /\ Current(p) /\ rec[p].claim \in router.owned
          /\ SendReplacement(p) /\ Quiet
       \/ /\ Current(p) /\ rec[p].claim \in router.owned
          /\ InBackoff(router, rec[p].claim)
          /\ Leave(p) /\ UNCHANGED job
       \/ /\ ~(Current(p) /\ rec[p].claim \in router.owned)
          /\ Leave(p) /\ Quiet /\ UNCHANGED job
    /\ UNCHANGED <<env, seen, cleanup, events>>

-----------------------------------------------------------------------------
(* Users, windows, and the process itself.                                 *)

UserMakesTopic(t) ==
    /\ Event
    /\ remote[t] = "none"
    /\ remote' = [remote EXCEPT ![t] = "open"]
    /\ Quiet
    /\ UNCHANGED <<madeFor, alive, seen, job, rec, cleanup>>

UserDeletes(t) ==
    /\ Event
    /\ remote[t] \in {"open", "closed"}
    /\ remote' = [remote EXCEPT ![t] = "gone"]
    /\ Quiet
    /\ UNCHANGED <<madeFor, alive, seen, job, rec, cleanup>>

\* The window picker names windows that were unbound when it was drawn.
UserBinds(t, w) ==
    /\ Event
    /\ remote[t] = "open"
    /\ alive[w] = "alive"
    /\ CanBind(router, t, {})
    /\ Debounce(Bind(router, t, w))
    /\ UNCHANGED <<env, seen, job, rec, cleanup>>

UserUnbinds(t) ==
    /\ Event
    /\ router.bind[t] # None
    /\ Debounce(Unbind(router, t, "keep_remote", FALSE))
    /\ UNCHANGED <<env, seen, job, rec, cleanup>>

UserCloses(t) ==
    /\ Event
    /\ remote[t] = "open"
    /\ remote' = [remote EXCEPT ![t] = "closed"]
    /\ Debounce(Unbind(router, t, "remote_closed", FALSE))
    /\ UNCHANGED <<madeFor, alive, seen, job, rec, cleanup>>

\* The probe of the bound topics finds one gone: _unbind_deleted_topic.
TopicGoneNoticed(t) ==
    /\ remote[t] = "gone"
    /\ router.bind[t] # None
    /\ Debounce(Unbind(router, t, "remote_deleted", FALSE))
    /\ UNCHANGED <<env, seen, job, rec, cleanup, events>>

WindowAppears(w) ==
    /\ Event
    /\ alive[w] = "none"
    /\ alive' = [alive EXCEPT ![w] = "alive"]
    /\ Quiet
    /\ UNCHANGED <<remote, madeFor, seen, job, rec, cleanup>>

WindowDies(w) ==
    /\ Event
    /\ alive[w] = "alive"
    /\ alive' = [alive EXCEPT ![w] = "dead"]
    /\ Quiet
    /\ UNCHANGED <<remote, madeFor, seen, job, rec, cleanup>>

\* The process stops between two steps, and a new one loads state.json.
Restart ==
    /\ Event
    /\ Becomes(Load(disk))
    /\ timer' = FALSE
    /\ seen' = {}
    /\ job' = [c \in ClaimIds |-> NoJob]
    /\ rec' = [p \in Recoverers |-> NoRec]
    /\ cleanup' = [t \in Topics |-> NoCleanup]
    /\ UNCHANGED <<disk, env, faults>>

-----------------------------------------------------------------------------
Creation ==
    \/ \E w \in Windows : NewWindow(w) \/ SkipCreation(w)
    \/ \E w \in Windows, c \in ClaimIds : BeginCreation(w, c)
    \/ \E c \in ClaimIds :
          \/ \E t \in Topics : TelegramCreates(c, t)
          \/ TelegramRefuses(c) \/ TelegramTimesOut(c) \/ CancelCreation(c)
          \/ SettleCreated(c) \/ SettleRefused(c) \/ SettleUnclear(c)

Deletion ==
    \E t \in Topics :
        \/ SweepCleanup(t) \/ DeadTopic(t) \/ BeforeDelete(t) \/ DeleteDone(t)
        \/ DeleteRateLimited(t) \/ DeleteRefused(t) \/ CloseAnswered(t)

Launch ==
    \/ \E t \in Topics, c \in ClaimIds :
          LaunchWindow(t, c) \/ RecoverWindow(t, c) \/ ResumeWindow(t, c)
    \/ \E c \in ClaimIds :
          \/ CheckOffer(c)
          \/ \E w \in Windows : BackendMakes(c, w)
          \/ BackendFails(c) \/ AttachLaunched(c) \/ LaunchReady(c)
          \/ LaunchNotReady(c) \/ LaunchAborts(c)

Recovery ==
    \E p \in Recoverers :
        \/ \E c \in ClaimIds : RecPick(p, c)
        \/ RecPresence(p) \/ RecProbe(p) \/ RecReady(p) \/ RecCommit(p)
        \/ RecLock(p) \/ RecRecreate(p) \/ RecAgent(p) \/ RecClear(p)

World ==
    \/ \E t \in Topics :
          \/ UserMakesTopic(t) \/ UserDeletes(t) \/ UserUnbinds(t)
          \/ UserCloses(t) \/ TopicGoneNoticed(t)
    \/ \E t \in Topics, w \in Windows : UserBinds(t, w)
    \/ \E w \in Windows : WindowAppears(w) \/ WindowDies(w)
    \/ Restart

Next == Creation \/ Deletion \/ Launch \/ Recovery \/ World \/ SaveLater

Spec == Init /\ [][Next]_vars

\* Each task goes on while it can; asyncio starves none, and every request to
\* Telegram or to the backend ends by an answer or a timeout.  The recoverer
\* goes round all the claims, so it comes back to each one it may pick.
HandlerStep(w) ==
    NewWindow(w) \/ SkipCreation(w) \/ \E c \in ClaimIds : BeginCreation(w, c)
JobStep(c) ==
    \/ \E t \in Topics : TelegramCreates(c, t)
    \/ TelegramRefuses(c) \/ TelegramTimesOut(c)
    \/ SettleCreated(c) \/ SettleRefused(c) \/ SettleUnclear(c)
    \/ CheckOffer(c) \/ BackendFails(c) \/ AttachLaunched(c)
    \/ \E w \in Windows : BackendMakes(c, w)
    \/ LaunchReady(c) \/ LaunchNotReady(c) \/ LaunchAborts(c)
RecStep(p) ==
    \/ RecPresence(p) \/ RecProbe(p) \/ RecReady(p) \/ RecCommit(p)
    \/ RecLock(p) \/ RecRecreate(p) \/ RecAgent(p) \/ RecClear(p)
CleanupStep(t) ==
    \/ SweepCleanup(t) \/ DeadTopic(t) \/ BeforeDelete(t) \/ DeleteDone(t)
    \/ DeleteRateLimited(t) \/ DeleteRefused(t) \/ CloseAnswered(t)

Fairness ==
    /\ \A w \in Windows : WF_vars(HandlerStep(w))
    /\ \A c \in ClaimIds : WF_vars(JobStep(c))
    /\ \A p \in Recoverers : WF_vars(RecStep(p))
    /\ \A p \in Recoverers, c \in ClaimIds : SF_vars(RecPick(p, c))
    /\ \A t \in Topics : WF_vars(CleanupStep(t)) /\ WF_vars(TopicGoneNoticed(t))
    /\ WF_vars(SaveLater)

FairSpec == Spec /\ Fairness

-----------------------------------------------------------------------------
(* Properties.                                                             *)

\* A window has one topic, and no two claims want the same topic or the same
\* window (ThreadRouter.begin_topic_provisioning and its attach methods).
RoutingIsUnique == UniqueRouting(router)

\* While a topic is being deleted nothing binds or claims it, nor claims the
\* window it served, whatever flows run meanwhile (begin_topic_deletion).
DeletingIsFree == FreeDeleting(router)

\* The delete request is sent only when the file on disk has let the topic go:
\* a crash brings no binding or claim of a deleted topic back.
DeletionIsDurable ==
    \A t \in Topics : cleanup[t].pc \in {"before", "delete", "close"} =>
        /\ disk.bind[t] = None
        /\ \A c \in ClaimIds : disk.claims[c] # None => disk.claims[c].thread # t

\* A topic the bot asked for and that is there has been bound, or is listed for
\* cleanup, or a claim accounts for it.
Accounted(r, t) ==
    \/ t \in everBound
    \/ r.retired[t] # None
    \/ \E c \in ClaimIds :
          /\ r.claims[c] # None
          /\ r.claims[c].thread = t \/ madeFor[t] \in TargetsOf(r.claims[c])

Asked(t) == madeFor[t] # None /\ remote[t] \in {"open", "closed"}

\* No topic is left behind in the chat without a trace, in memory or after a
\* crash: a claim "remains present until the caller can prove that creation
\* either committed or failed safely" (thread_router.py:78).
NoStrandedTopic ==
    \A t \in Topics : Asked(t) => Accounted(router, t) /\ Accounted(Load(disk), t)

\* Two topics are never made for one window before one of them is bound or
\* given up: locks, claims and the uncertain mark together see to it.
NoDuplicateTopic ==
    \A t, u \in Topics :
        /\ Asked(t) /\ t \notin everBound /\ router.retired[t] = None
        /\ Asked(u) /\ u \notin everBound /\ router.retired[u] = None
        /\ madeFor[t] = madeFor[u]
        => t = u

\* Recovery commits a claim "without evicting a concurrent target bind"
\* (topic_provisioning_recovery.py:285): no topic loses its window to it.
RecoveryEvicts ==
    \E p \in Recoverers, t \in Topics :
        /\ RecCommit(p)
        /\ router.bind[t] # None /\ t # rec[p].snap.thread
        /\ router'.bind[t] # router.bind[t]
RecoveryNeverEvicts == [][~RecoveryEvicts]_vars

\* A claim that names a topic goes away only when the topic is bound, listed
\* for cleanup, or known to be gone, a restart on old data included.
ReleaseLeavesTrace ==
    [][\A c \in ClaimIds, t \in Topics :
          /\ router.claims[c] # None /\ router.claims[c].thread = t
          /\ router'.claims[c] = None
          => \/ router'.bind[t] # None
             \/ router'.retired[t] # None
             \/ remote'[t] = "gone"]_vars

\* A claim that nothing can be learnt about any more: a topic or a window may
\* have been made for it, and no one knows which.
Unclear(claim) ==
    \/ claim.target = None
    \/ claim.thread = None /\ (claim.retry = None \/ claim.uncertain)

\* The bound on topics leaves the model's Telegram nothing to make.
NoTopicLeft == \A t \in Topics : remote[t] # "none"

\* Every claim is settled in the end, whichever of its tasks was cancelled or
\* lost: it is committed or released, unless what it stands for is unknown or a
\* user gave its window to another topic (recover_topic_provisioning).
ClaimsResolve ==
    \A c \in ClaimIds :
        router.claims[c] # None ~>
            \/ router.claims[c] = None
            \/ Unclear(router.claims[c]) /\ c \notin router.owned
            \/ BoundElsewhere(router.claims[c])
            \/ NoTopicLeft

\* A topic that is to be deleted does not stay so: through refusals and failed
\* saves it is deleted in the end or bound again, unless a claim protects it or a
\* restart forgot that it was to go (cleanup_retired_topics).
RetiredTopicsGo ==
    \A t \in Topics :
        router.retired[t] # None /\ router.retired[t].eligible ~>
            \/ router.retired[t] = None \/ ~router.retired[t].eligible
            \/ HasTopicClaim(router, t)
            \/ /\ router.retired[t].target # None
               /\ HasTargetClaim(router, router.retired[t].target, {})
=============================================================================
