---------------------------- MODULE ThreadRouter ----------------------------
(***************************************************************************)
(* The routing record of the bot (thread_router.py): which forum topic is  *)
(* bound to which terminal window, which topics are retired and wait for   *)
(* cleanup, and the durable claims of the creations that are under way.    *)
(* Every operator is one method of ThreadRouter, as a function from a      *)
(* routing record to the next one; a method that raises is an operator     *)
(* together with its enabling condition CanX.                              *)
(*                                                                         *)
(* One user and one chat: a topic is its thread id, a window is its        *)
(* canonical id.  Display names, group routing metadata and legacy         *)
(* unscoped bindings are left out; retry_at is left out too, because a     *)
(* call that comes too early changes nothing.                              *)
(***************************************************************************)
EXTENDS Naturals, FiniteSets

CONSTANTS Topics, Windows, ClaimIds, None,
          RetiredLimit    \* how much history of retired topics is kept

Kinds   == {"topic_for_target", "target_for_topic", "replacement"}
Reasons == {"keep_remote", "remote_closed", "remote_deleted", "dead_session",
            "creation_failed"}

RetiredTopic ==
    [target: Windows \cup {None}, reason: Reasons, eligible: BOOLEAN,
     closed: BOOLEAN, seq: Nat]

\* retry is the deleted topic that a replacement topic will stand for.
TopicProvisioning ==
    [thread: Topics \cup {None}, target: Windows \cup {None},
     previous: Windows \cup {None}, kind: Kinds, uncertain: BOOLEAN,
     retry: Topics \cup {None}]

ASSUME RouterAssumption ==
    /\ None \notin Topics \cup Windows \cup RetiredTopic \cup TopicProvisioning
    /\ RetiredLimit \in Nat

\* owned, deleting and delTarget live in the process only; the rest is saved.
Router ==
    [bind: [Topics -> Windows \cup {None}],
     retired: [Topics -> RetiredTopic \cup {None}],
     claims: [ClaimIds -> TopicProvisioning \cup {None}],
     owned: SUBSET ClaimIds,
     deleting: SUBSET Topics,
     delTarget: [Topics -> Windows \cup {None}],
     next: Nat]

EmptyRouter ==
    [bind |-> [t \in Topics |-> None], retired |-> [t \in Topics |-> None],
     claims |-> [c \in ClaimIds |-> None], owned |-> {}, deleting |-> {},
     delTarget |-> [t \in Topics |-> None], next |-> 1]

-----------------------------------------------------------------------------
(* Who protects a topic or a window.                                       *)

Bound(r, w) == \E t \in Topics : r.bind[t] = w

HasTopicClaim(r, t) ==
    \E c \in ClaimIds : r.claims[c] # None /\ r.claims[c].thread = t

TargetsOf(claim) == {claim.target, claim.previous} \ {None}

\* The claims other than except that protect window w.
HasTargetClaim(r, w, except) ==
    \E c \in ClaimIds \ except :
        r.claims[c] # None /\ w \in TargetsOf(r.claims[c])

TargetDeletionClaimed(r, w) ==
    \E t \in r.deleting :
        \/ r.delTarget[t] = w
        \/ r.retired[t] # None /\ r.retired[t].target = w

-----------------------------------------------------------------------------
(* Retired topics.                                                         *)

\* Pending cleanups are all kept; of the rest only the newest RetiredLimit.
Retain(retired) ==
    LET History == {t \in Topics : retired[t] # None /\ ~retired[t].eligible}
        Newer(t) == {u \in History : retired[u].seq > retired[t].seq}
    IN  [t \in Topics |->
            IF t \in History /\ Cardinality(Newer(t)) >= RetiredLimit
            THEN None ELSE retired[t]]

Retire(r, t, reason, eligible, w) ==
    [r EXCEPT
       !.retired = Retain([@ EXCEPT ![t] =
                     [target |-> w, reason |-> reason, eligible |-> eligible,
                      closed |-> FALSE, seq |-> r.next]]),
       !.next = @ + 1]

\* unbind_thread of a topic that is not bound returns early.
Unbind(r, t, reason, eligible) ==
    IF r.bind[t] = None THEN r
    ELSE Retire([r EXCEPT !.bind[t] = None], t, reason, eligible, r.bind[t])

Listed(r) == {t \in Topics : r.retired[t] # None}

\* A record is identified by its topic and its sequence number.
StillListed(r, t, seq) == t \in Listed(r) /\ r.retired[t].seq = seq

DiscardRetired(r, t, seq) ==
    IF StillListed(r, t, seq) THEN [r EXCEPT !.retired[t] = None] ELSE r

\* _save_retry: a failed cleanup stays eligible.
UpdateRetired(r, t, seq, closed) ==
    IF StillListed(r, t, seq)
    THEN [r EXCEPT !.retired[t].closed = closed, !.retired[t].eligible = TRUE]
    ELSE r

-----------------------------------------------------------------------------
(* Bindings.                                                               *)

\* Mutant: the topics that were bound to the window keep it.
BindKeepsOthers(r, t, w) == [r EXCEPT !.bind[t] = w]

\* A window is claimed once in a chat: other topics bound to it lose it.
BindScoped(r, t, w) ==
    [r EXCEPT !.bind = [u \in Topics |-> IF u = t THEN w
                                         ELSE IF @[u] = w THEN None
                                         ELSE @[u]]]

\* Mutant: a bind does not look at the deletions in flight.
CanBindWhileDeleting(r, t, claims) ==
    \/ ~HasTopicClaim(r, t)
    \/ \E c \in claims : r.claims[c] # None /\ r.claims[c].thread = t

\* claims is the set of claims on whose behalf the bind is made.
CanBind(r, t, claims) ==
    /\ t \notin r.deleting
    /\ \/ ~HasTopicClaim(r, t)
       \/ \E c \in claims : r.claims[c] # None /\ r.claims[c].thread = t

Bind(r, t, w) ==
    [BindScoped(r, t, w) EXCEPT !.retired[t] = None]

-----------------------------------------------------------------------------
(* Provisioning claims.                                                    *)

CanBegin(r, t, target, previous) ==
    /\ t # None => t \notin r.deleting /\ ~HasTopicClaim(r, t)
    /\ \A w \in {target, previous} \ {None} :
          ~HasTargetClaim(r, w, {}) /\ ~TargetDeletionClaimed(r, w)

Begin(r, c, t, target, previous, kind) ==
    [r EXCEPT
       !.claims[c] = [thread |-> t, target |-> target, previous |-> previous,
                      kind |-> kind, uncertain |-> FALSE, retry |-> None],
       !.owned = @ \cup {c}]

CanAttachTopic(r, c, t) ==
    /\ r.claims[c] # None
    /\ t \notin r.deleting
    /\ \A d \in ClaimIds \ {c} : r.claims[d] # None => r.claims[d].thread # t

AttachTopic(r, c, t) == [r EXCEPT !.claims[c].thread = t]

CanAttachTarget(r, c, w) ==
    /\ r.claims[c] # None
    /\ ~TargetDeletionClaimed(r, w)
    /\ ~HasTargetClaim(r, w, {c})

\* A target that is superseded is kept as the previous one.
AttachTarget(r, c, w) ==
    LET claim == r.claims[c]
    IN  IF claim.target = w THEN r
        ELSE [r EXCEPT !.claims[c] =
                [claim EXCEPT !.target = w,
                              !.previous = IF claim.target = None
                                           THEN claim.previous
                                           ELSE claim.target]]

\* A topic known to be gone leaves neither a binding nor a retired record.
DiscardAbsentTopic(r, t) ==
    [Unbind(r, t, "remote_deleted", FALSE) EXCEPT !.retired[t] = None]

CanPrepare(r, c) ==
    /\ r.claims[c] # None
    /\ r.claims[c].target # None
    /\ r.claims[c].thread # None \/ r.claims[c].retry # None

PrepareRecreation(r, c) ==
    LET claim   == r.claims[c]
        cleared == IF claim.thread = None THEN r
                   ELSE DiscardAbsentTopic(r, claim.thread)
    IN  [cleared EXCEPT
           !.claims[c] = [claim EXCEPT !.thread = None, !.uncertain = TRUE,
                             !.retry = IF claim.thread = None THEN @
                                       ELSE claim.thread],
           !.owned = @ \cup {c}]

CanDefer(r, c) ==
    r.claims[c] # None /\ r.claims[c].thread = None /\ r.claims[c].retry # None

DeferRecreation(r, c, uncertain) ==
    [r EXCEPT !.claims[c].uncertain = uncertain, !.owned = @ \ {c}]

\* commit_topic_provisioning returns FALSE for an incomplete claim, and raises
\* while the target or the topic is being deleted.
Complete(r, c) ==
    /\ r.claims[c] # None
    /\ r.claims[c].thread # None
    /\ r.claims[c].target # None

CanCommit(r, c) ==
    /\ Complete(r, c)
    /\ ~TargetDeletionClaimed(r, r.claims[c].target)
    /\ CanBind(r, r.claims[c].thread, {c})

Commit(r, c) ==
    [Bind(r, r.claims[c].thread, r.claims[c].target) EXCEPT
       !.claims[c] = None, !.owned = @ \ {c}]

\* A claim is released on proof that the target is absent, or that the topic
\* (or its replacement) is absent; without proof it only becomes uncertain.
CanRelease(claim, targetAbsent, topicAbsent) ==
    \/ targetAbsent
    \/ /\ topicAbsent
       /\ \/ claim.thread # None
          \/ claim.retry # None
          \/ claim.kind = "topic_for_target"

\* Mutant: a released claim does not list its topic for cleanup.
AbortSilently(r, c, targetAbsent, topicAbsent) ==
    LET claim == r.claims[c]
    IN  IF claim = None THEN r
        ELSE IF ~CanRelease(claim, targetAbsent, topicAbsent)
             THEN [r EXCEPT !.claims[c].uncertain = TRUE]
        ELSE [r EXCEPT !.claims[c] = None, !.owned = @ \ {c}]

Abort(r, c, targetAbsent, topicAbsent) ==
    LET claim    == r.claims[c]
        released == [r EXCEPT !.claims[c] = None, !.owned = @ \ {c}]
    IN  IF claim = None THEN r
        ELSE IF ~CanRelease(claim, targetAbsent, topicAbsent)
             THEN [r EXCEPT !.claims[c].uncertain = TRUE]
        ELSE IF claim.thread = None THEN released
        ELSE IF topicAbsent THEN DiscardAbsentTopic(released, claim.thread)
        ELSE IF r.bind[claim.thread] = None
             THEN Retire(released, claim.thread, "creation_failed", TRUE,
                         claim.target)
        ELSE released

\* Mutant: a task that gives up keeps its claim.
MarkOwned(r, c, releaseOwner) ==
    IF r.claims[c] = None THEN r ELSE [r EXCEPT !.claims[c].uncertain = TRUE]

\* Marking a claim that is already settled is refused, and the refusal logged.
MarkUncertain(r, c, releaseOwner) ==
    IF r.claims[c] = None THEN r
    ELSE [r EXCEPT !.claims[c].uncertain = TRUE,
                   !.owned = IF releaseOwner THEN @ \ {c} ELSE @]

-----------------------------------------------------------------------------
(* The deletion of a retired topic.                                        *)

CanBeginDeletion(r, t, seq) ==
    /\ t \notin r.deleting
    /\ StillListed(r, t, seq)
    /\ r.bind[t] = None
    /\ ~HasTopicClaim(r, t)
    /\ r.retired[t].target # None =>
          ~HasTargetClaim(r, r.retired[t].target, {})

BeginDeletion(r, t) ==
    [r EXCEPT !.deleting = @ \cup {t}, !.delTarget[t] = r.retired[t].target]

\* Mutant: the topic is not marked free again.
EndDeletionHalf(r, t) == [r EXCEPT !.delTarget[t] = None]

EndDeletion(r, t) ==
    [r EXCEPT !.deleting = @ \ {t}, !.delTarget[t] = None]

-----------------------------------------------------------------------------
(* What reaches state.json, and what a new process makes of it.            *)

Durable(r) == [bind |-> r.bind, retired |-> r.retired, claims |-> r.claims]

Load(d) ==
    LET last == IF Listed(d) = {} THEN 0
                ELSE CHOOSE n \in {d.retired[t].seq : t \in Listed(d)} :
                        \A t \in Listed(d) : n >= d.retired[t].seq
    IN  [EmptyRouter EXCEPT
           !.bind = d.bind,
           !.retired = [t \in Topics |-> IF d.bind[t] # None THEN None
                                         ELSE d.retired[t]],
           !.claims = d.claims,
           !.next = last + 1]

-----------------------------------------------------------------------------
(* What the methods keep among themselves.                                 *)

UniqueRouting(r) ==
    /\ \A t, u \in Topics : t # u /\ r.bind[t] # None => r.bind[t] # r.bind[u]
    /\ \A c, d \in ClaimIds :
          c # d /\ r.claims[c] # None /\ r.claims[d] # None =>
             /\ r.claims[c].thread # None =>
                   r.claims[c].thread # r.claims[d].thread
             /\ TargetsOf(r.claims[c]) \cap TargetsOf(r.claims[d]) = {}

FreeDeleting(r) ==
    \A t \in r.deleting :
        /\ r.bind[t] = None
        /\ ~HasTopicClaim(r, t)
        /\ r.delTarget[t] # None => ~HasTargetClaim(r, r.delTarget[t], {})
=============================================================================
