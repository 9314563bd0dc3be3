---------------------------- MODULE TopicsProofs ----------------------------
(***************************************************************************)
(* The routing record stays consistent for every number of topics, windows,*)
(* claims and recoverers, and through every fault: a window has one topic, *)
(* no two claims meet, and what is being deleted is left alone.            *)
(*                                                                         *)
(* The inductive invariant says it of the record in memory and of its copy *)
(* on disk, which a new process starts from.  Most methods only give up    *)
(* bindings and claims (GivesUp), and so keep it.                          *)
(*                                                                         *)
(* From there on, no topic is lost: a topic the bot made is bound, listed  *)
(* or claimed, in memory and on disk, a claim never goes without a trace,  *)
(* and a topic that is deleted does not come back.                         *)
(***************************************************************************)
EXTENDS Topics, WellFoundedInduction, TLAPS

ShapeOfClaim(k) ==
    k = [thread |-> k.thread, target |-> k.target, previous |-> k.previous,
         kind |-> k.kind, uncertain |-> k.uncertain, retry |-> k.retry]

SavedShape(r) ==
    /\ r.bind = [t \in Topics |-> r.bind[t]]
    /\ r.claims = [c \in ClaimIds |-> r.claims[c]]
    /\ \A c \in ClaimIds : r.claims[c] # None => ShapeOfClaim(r.claims[c])

Shape(r) ==
    /\ r = [bind |-> r.bind, retired |-> r.retired, claims |-> r.claims,
            owned |-> r.owned, deleting |-> r.deleting,
            delTarget |-> r.delTarget, next |-> r.next]
    /\ SavedShape(r)
    /\ r.delTarget = [t \in Topics |-> r.delTarget[t]]
    /\ r.deleting \subseteq Topics

Consistent(r) == Shape(r) /\ UniqueRouting(r) /\ FreeDeleting(r)

ConsistentFile(d) == SavedShape(d) /\ UniqueRouting(d)

IInv == Consistent(router) /\ ConsistentFile(disk)

\* s is r with bindings, claims and deletions dropped or narrowed.
GivesUp(r, s) ==
    /\ \A t \in Topics : s.bind[t] \in {r.bind[t], None}
    /\ \A c \in ClaimIds : s.claims[c] # None =>
          /\ r.claims[c] # None
          /\ s.claims[c].thread \in {r.claims[c].thread, None}
          /\ TargetsOf(s.claims[c]) \subseteq TargetsOf(r.claims[c])
    /\ s.deleting \subseteq r.deleting
    /\ \A t \in s.deleting : s.delTarget[t] = r.delTarget[t]

\* k is what record r holds for claim c, or less.
Narrower(r, c, k) ==
    c \in ClaimIds =>
       /\ r.claims[c] # None
       /\ ShapeOfClaim(k)
       /\ k.thread \in {r.claims[c].thread, None}
       /\ TargetsOf(k) \subseteq TargetsOf(r.claims[c])

-----------------------------------------------------------------------------
(* A record that gives up is consistent.                                   *)

LEMMA GivesUpConsistent ==
    ASSUME NEW r, NEW s, Consistent(r), Shape(s), GivesUp(r, s)
    PROVE  Consistent(s)
<1>1. UniqueRouting(s)
  <2>1. ASSUME NEW t \in Topics, NEW u \in Topics, t # u, s.bind[t] # None
        PROVE  s.bind[t] # s.bind[u]
    BY <2>1 DEF Consistent, UniqueRouting, GivesUp
  <2>2. ASSUME NEW c \in ClaimIds, NEW d \in ClaimIds, c # d,
               s.claims[c] # None, s.claims[d] # None
        PROVE  /\ s.claims[c].thread # None =>
                     s.claims[c].thread # s.claims[d].thread
               /\ TargetsOf(s.claims[c]) \cap TargetsOf(s.claims[d]) = {}
    BY <2>2 DEF Consistent, UniqueRouting, GivesUp
  <2> QED  BY <2>1, <2>2 DEF UniqueRouting
<1>2. FreeDeleting(s)
  <2> SUFFICES ASSUME NEW t \in s.deleting
               PROVE  /\ s.bind[t] = None
                      /\ ~HasTopicClaim(s, t)
                      /\ s.delTarget[t] # None =>
                            ~HasTargetClaim(s, s.delTarget[t], {})
    BY DEF FreeDeleting
  <2>1. t \in Topics /\ t \in r.deleting /\ t # None
    BY RouterAssumption DEF Consistent, Shape, GivesUp
  <2>2. s.bind[t] = None
    BY <2>1 DEF Consistent, FreeDeleting, GivesUp
  <2>3. ~HasTopicClaim(s, t)
    BY <2>1 DEF Consistent, FreeDeleting, GivesUp, HasTopicClaim
  <2>4. s.delTarget[t] # None => ~HasTargetClaim(s, s.delTarget[t], {})
    BY <2>1 DEF Consistent, FreeDeleting, GivesUp, HasTargetClaim
  <2> QED  BY <2>2, <2>3, <2>4
<1> QED  BY <1>1, <1>2 DEF Consistent

LEMMA RetireGivesUp ==
    ASSUME NEW r, Shape(r), NEW t, NEW reason, NEW eligible, NEW w
    PROVE  /\ Shape(Retire(r, t, reason, eligible, w))
           /\ GivesUp(r, Retire(r, t, reason, eligible, w))
<1> DEFINE s == Retire(r, t, reason, eligible, w)
<1>1. PICK x, n : s = [r EXCEPT !.retired = x, !.next = n]
  BY DEF Retire
<1> HIDE DEF s
<1>2. Shape(s) /\ s.bind = r.bind /\ s.claims = r.claims
               /\ s.deleting = r.deleting /\ s.delTarget = r.delTarget
  BY <1>1 DEF Shape, SavedShape
<1>3. GivesUp(r, s)
  BY <1>2 DEF GivesUp
<1> QED  BY <1>2, <1>3 DEF s

LEMMA GivesUpMore ==
    ASSUME NEW r, NEW s, NEW u, Shape(u), GivesUp(r, s), GivesUp(s, u)
    PROVE  GivesUp(r, u)
<1>1. \A t \in Topics : u.bind[t] \in {r.bind[t], None}
  BY DEF GivesUp
<1>2. ASSUME NEW c \in ClaimIds, u.claims[c] # None
      PROVE  /\ r.claims[c] # None
             /\ u.claims[c].thread \in {r.claims[c].thread, None}
             /\ TargetsOf(u.claims[c]) \subseteq TargetsOf(r.claims[c])
  BY <1>2 DEF GivesUp
<1>3. u.deleting \subseteq r.deleting
  BY DEF GivesUp
<1>4. \A t \in u.deleting : u.delTarget[t] = r.delTarget[t]
  BY DEF GivesUp
<1> QED  BY <1>1, <1>2, <1>3, <1>4 DEF GivesUp

LEMMA UnbindGivesUp ==
    ASSUME NEW r, Shape(r), NEW t, NEW reason, NEW eligible
    PROVE  /\ Shape(Unbind(r, t, reason, eligible))
           /\ GivesUp(r, Unbind(r, t, reason, eligible))
<1>1. CASE r.bind[t] = None
  BY <1>1 DEF Unbind, GivesUp
<1>2. CASE r.bind[t] # None
  <2> DEFINE s == [r EXCEPT !.bind[t] = None]
             u == Retire(s, t, reason, eligible, r.bind[t])
  <2>1. Unbind(r, t, reason, eligible) = u
    BY <1>2 DEF Unbind
  <2>2. s = [r EXCEPT !.bind = [r.bind EXCEPT ![t] = None]]
    OBVIOUS
  <2> HIDE DEF s
  <2>3. Shape(s) /\ s.claims = r.claims /\ s.deleting = r.deleting
                 /\ s.delTarget = r.delTarget
                 /\ s.bind = [r.bind EXCEPT ![t] = None]
    BY <2>2 DEF Shape, SavedShape
  <2>4. GivesUp(r, s)
    BY <2>3 DEF GivesUp, Shape, SavedShape
  <2>5. Shape(u) /\ GivesUp(s, u)
    BY <2>3, RetireGivesUp
  <2> HIDE DEF u
  <2> QED  BY <2>1, <2>4, <2>5, GivesUpMore
<1> QED  BY <1>1, <1>2

\* Only the list of retired topics changes.
LEMMA RelistGivesUp ==
    ASSUME NEW r, Shape(r), NEW x
    PROVE  /\ Shape([r EXCEPT !.retired = x])
           /\ GivesUp(r, [r EXCEPT !.retired = x])
<1> DEFINE s == [r EXCEPT !.retired = x]
<1>1. s = [r EXCEPT !.retired = x]
  OBVIOUS
<1> HIDE DEF s
<1>2. Shape(s) /\ s.bind = r.bind /\ s.claims = r.claims
               /\ s.deleting = r.deleting /\ s.delTarget = r.delTarget
  BY <1>1 DEF Shape, SavedShape
<1>3. GivesUp(r, s)
  BY <1>2 DEF GivesUp
<1> QED  BY <1>2, <1>3 DEF s

LEMMA DiscardRetiredGivesUp ==
    ASSUME NEW r, Shape(r), NEW t, NEW seq
    PROVE  /\ Shape(DiscardRetired(r, t, seq))
           /\ GivesUp(r, DiscardRetired(r, t, seq))
<1>1. GivesUp(r, r)
  BY DEF GivesUp
<1>2. DiscardRetired(r, t, seq)
         \in {r, [r EXCEPT !.retired = [r.retired EXCEPT ![t] = None]]}
  BY DEF DiscardRetired
<1> QED  BY <1>1, <1>2, RelistGivesUp

LEMMA UpdateRetiredGivesUp ==
    ASSUME NEW r, Shape(r), NEW t, NEW seq, NEW closed
    PROVE  /\ Shape(UpdateRetired(r, t, seq, closed))
           /\ GivesUp(r, UpdateRetired(r, t, seq, closed))
<1>1. GivesUp(r, r)
  BY DEF GivesUp
<1>2. PICK x : UpdateRetired(r, t, seq, closed) \in {r, [r EXCEPT !.retired = x]}
  <2> DEFINE s == [r EXCEPT !.retired[t].closed = closed,
                            !.retired[t].eligible = TRUE]
  <2>1. UpdateRetired(r, t, seq, closed) \in {r, s}
    BY DEF UpdateRetired
  <2>2. PICK y, z : s = [[r EXCEPT !.retired = y] EXCEPT !.retired = z]
    OBVIOUS
  <2> HIDE DEF s
  <2>3. s = [r EXCEPT !.retired = z]
    BY <2>2 DEF Shape
  <2> QED  BY <2>1, <2>3
<1> QED  BY <1>1, <1>2, RelistGivesUp

LEMMA DiscardAbsentGivesUp ==
    ASSUME NEW r, Shape(r), NEW t
    PROVE  /\ Shape(DiscardAbsentTopic(r, t))
           /\ GivesUp(r, DiscardAbsentTopic(r, t))
<1> DEFINE s == Unbind(r, t, "remote_deleted", FALSE)
           u == [s EXCEPT !.retired = [s.retired EXCEPT ![t] = None]]
<1>1. Shape(s) /\ GivesUp(r, s)
  BY UnbindGivesUp
<1>2. DiscardAbsentTopic(r, t) = u
  BY DEF DiscardAbsentTopic
<1> HIDE DEF s
<1>3. Shape(u) /\ GivesUp(s, u)
  BY <1>1, RelistGivesUp
<1> HIDE DEF u
<1> QED  BY <1>1, <1>2, <1>3, GivesUpMore

\* A claim is replaced by a lesser one.
LEMMA NarrowGivesUp ==
    ASSUME NEW r, NEW s, Shape(s), GivesUp(r, s), NEW c, NEW k, NEW o,
           k = None \/ Narrower(r, c, k),
           NEW u,
           u = [s EXCEPT !.claims = [s.claims EXCEPT ![c] = k], !.owned = o]
    PROVE  Shape(u) /\ GivesUp(r, u)
<1>2. /\ u.bind = s.bind /\ u.deleting = s.deleting /\ u.delTarget = s.delTarget
      /\ u.claims = [s.claims EXCEPT ![c] = k]
      /\ u = [bind |-> u.bind, retired |-> u.retired, claims |-> u.claims,
              owned |-> u.owned, deleting |-> u.deleting,
              delTarget |-> u.delTarget, next |-> u.next]
  BY DEF Shape
<1>3. \A d \in ClaimIds : u.claims[d] = IF d = c THEN k ELSE s.claims[d]
  BY <1>2 DEF Shape, SavedShape
<1>4. u.claims = [d \in ClaimIds |-> u.claims[d]]
  BY <1>2 DEF Shape, SavedShape
<1>5. \A d \in ClaimIds : u.claims[d] # None => ShapeOfClaim(u.claims[d])
  BY <1>3 DEF Shape, SavedShape, Narrower
<1>6. Shape(u)
  BY <1>2, <1>4, <1>5 DEF Shape, SavedShape
<1>7. GivesUp(r, u)
  BY <1>2, <1>3 DEF GivesUp, Narrower
<1> QED  BY <1>6, <1>7

LEMMA MarkedClaim ==
    ASSUME NEW k, ShapeOfClaim(k), NEW u
    PROVE  /\ ShapeOfClaim([k EXCEPT !.uncertain = u])
           /\ [k EXCEPT !.uncertain = u].thread = k.thread
           /\ TargetsOf([k EXCEPT !.uncertain = u]) = TargetsOf(k)
<1> DEFINE m == [k EXCEPT !.uncertain = u]
<1>1. m = [k EXCEPT !.uncertain = u]
  OBVIOUS
<1> HIDE DEF m
<1>2. /\ m = [thread |-> k.thread, target |-> k.target, previous |-> k.previous,
             kind |-> k.kind, uncertain |-> u, retry |-> k.retry]
  BY <1>1 DEF ShapeOfClaim
<1>3. ShapeOfClaim(m) /\ m.thread = k.thread /\ TargetsOf(m) = TargetsOf(k)
  BY <1>2 DEF ShapeOfClaim, TargetsOf
<1> QED  BY <1>1, <1>3

LEMMA PreparedClaim ==
    ASSUME NEW k, ShapeOfClaim(k), NEW x
    PROVE  LET m == [k EXCEPT !.thread = None, !.uncertain = TRUE, !.retry = x]
           IN  ShapeOfClaim(m) /\ m.thread = None /\ TargetsOf(m) = TargetsOf(k)
<1> DEFINE m == [k EXCEPT !.thread = None, !.uncertain = TRUE, !.retry = x]
<1>1. m = [k EXCEPT !.thread = None, !.uncertain = TRUE, !.retry = x]
  OBVIOUS
<1> HIDE DEF m
<1>2. /\ m = [thread |-> None, target |-> k.target, previous |-> k.previous,
             kind |-> k.kind, uncertain |-> TRUE, retry |-> x]
  BY <1>1 DEF ShapeOfClaim
<1>3. ShapeOfClaim(m) /\ m.thread = None /\ TargetsOf(m) = TargetsOf(k)
  BY <1>2 DEF ShapeOfClaim, TargetsOf
<1> QED  BY <1>1, <1>3

LEMMA MarkGivesUp ==
    ASSUME NEW r, Shape(r), NEW c, NEW releaseOwner
    PROVE  /\ Shape(MarkUncertain(r, c, releaseOwner))
           /\ GivesUp(r, MarkUncertain(r, c, releaseOwner))
<1> DEFINE k == [r.claims[c] EXCEPT !.uncertain = TRUE]
           o == IF releaseOwner THEN r.owned \ {c} ELSE r.owned
<1>0. GivesUp(r, r)
  BY DEF GivesUp
<1>1. CASE r.claims[c] = None
  BY <1>0, <1>1 DEF MarkUncertain
<1>2. CASE r.claims[c] # None
  <2>1. Narrower(r, c, k)
    <3> SUFFICES ASSUME c \in ClaimIds
                 PROVE  Narrower(r, c, k)
      BY DEF Narrower
    <3>1. ShapeOfClaim(r.claims[c])
      BY <1>2 DEF Shape, SavedShape
    <3>2. ShapeOfClaim(k) /\ k.thread = r.claims[c].thread
                          /\ TargetsOf(k) = TargetsOf(r.claims[c])
      BY <3>1, MarkedClaim
    <3> HIDE DEF k
    <3> QED  BY <1>2, <3>2 DEF Narrower
  <2>2. MarkUncertain(r, c, releaseOwner)
          = [r EXCEPT !.claims = [r.claims EXCEPT ![c] = k], !.owned = o]
    BY <1>2 DEF MarkUncertain, Shape
  <2> HIDE DEF k, o
  <2> QED  BY <1>0, <2>1, <2>2, NarrowGivesUp
<1> QED  BY <1>1, <1>2

LEMMA DeferGivesUp ==
    ASSUME NEW r, NEW s, Shape(s), GivesUp(r, s), NEW c,
           Narrower(r, c, s.claims[c]), NEW uncertain
    PROVE  /\ Shape(DeferRecreation(s, c, uncertain))
           /\ GivesUp(r, DeferRecreation(s, c, uncertain))
<1> DEFINE k == [s.claims[c] EXCEPT !.uncertain = uncertain]
           o == s.owned \ {c}
<1>1. Narrower(r, c, k)
  <2>1. c \in ClaimIds => /\ ShapeOfClaim(k)
                          /\ k.thread = s.claims[c].thread
                          /\ TargetsOf(k) = TargetsOf(s.claims[c])
    BY MarkedClaim DEF Narrower
  <2> HIDE DEF k
  <2> QED  BY <2>1 DEF Narrower
<1>2. DeferRecreation(s, c, uncertain)
        = [s EXCEPT !.claims = [s.claims EXCEPT ![c] = k], !.owned = o]
  BY DEF DeferRecreation, Shape
<1> HIDE DEF k, o
<1> QED  BY <1>1, <1>2, NarrowGivesUp

\* A claim narrows itself.
LEMMA ClaimNarrower ==
    ASSUME NEW r, Shape(r), NEW c, r.claims[c] # None
    PROVE  Narrower(r, c, r.claims[c])
BY DEF Shape, SavedShape, Narrower

LEMMA PrepareGivesUp ==
    ASSUME NEW r, Shape(r), NEW c, r.claims[c] # None
    PROVE  /\ Shape(PrepareRecreation(r, c))
           /\ GivesUp(r, PrepareRecreation(r, c))
           /\ Narrower(r, c, PrepareRecreation(r, c).claims[c])
<1> DEFINE claim == r.claims[c]
           s == IF claim.thread = None THEN r
                ELSE DiscardAbsentTopic(r, claim.thread)
           k == [claim EXCEPT !.thread = None, !.uncertain = TRUE,
                     !.retry = IF claim.thread = None THEN claim.retry
                               ELSE claim.thread]
           o == s.owned \cup {c}
           u == [s EXCEPT !.claims = [s.claims EXCEPT ![c] = k], !.owned = o]
<1>1. Shape(s) /\ GivesUp(r, s)
  <2>1. GivesUp(r, r)
    BY DEF GivesUp
  <2> QED  BY <2>1, DiscardAbsentGivesUp
<1>2. Narrower(r, c, k)
  <2> SUFFICES ASSUME c \in ClaimIds
               PROVE  Narrower(r, c, k)
    BY DEF Narrower
  <2>1. ShapeOfClaim(claim)
    BY DEF Shape, SavedShape
  <2>2. ShapeOfClaim(k) /\ k.thread = None /\ TargetsOf(k) = TargetsOf(claim)
    BY <2>1, PreparedClaim
  <2> HIDE DEF k
  <2> QED  BY <2>2 DEF Narrower
<1>3. PrepareRecreation(r, c) = u
  BY DEF PrepareRecreation
<1>4. c \in ClaimIds => u.claims[c] = k
  <2> HIDE DEF s, k, o
  <2> QED  BY <1>1 DEF Shape, SavedShape
<1>5. Shape(u) /\ GivesUp(r, u)
  <2> HIDE DEF s, k, o
  <2> QED  BY <1>1, <1>2, NarrowGivesUp
<1> HIDE DEF s, k, o, u
<1> QED  BY <1>2, <1>3, <1>4, <1>5 DEF Narrower

LEMMA AbortGivesUp ==
    ASSUME NEW r, Shape(r), NEW c, NEW targetAbsent, NEW topicAbsent
    PROVE  /\ Shape(Abort(r, c, targetAbsent, topicAbsent))
           /\ GivesUp(r, Abort(r, c, targetAbsent, topicAbsent))
<1> DEFINE claim == r.claims[c]
           released == [r EXCEPT !.claims = [r.claims EXCEPT ![c] = None],
                                 !.owned = r.owned \ {c}]
           marked == [r EXCEPT !.claims[c].uncertain = TRUE]
           gone == DiscardAbsentTopic(released, claim.thread)
           listed == Retire(released, claim.thread, "creation_failed", TRUE,
                            claim.target)
<1>1. Abort(r, c, targetAbsent, topicAbsent)
        \in {r, released, gone, listed}
             \cup (IF claim = None THEN {} ELSE {marked})
  BY DEF Abort
<1>2. GivesUp(r, r)
  BY DEF GivesUp
<1>3. Shape(released) /\ GivesUp(r, released)
  BY <1>2, NarrowGivesUp
<1>4. claim # None => Shape(marked) /\ GivesUp(r, marked)
  <2> SUFFICES ASSUME claim # None
               PROVE  Shape(marked) /\ GivesUp(r, marked)
    OBVIOUS
  <2>1. MarkUncertain(r, c, FALSE) = [r EXCEPT !.claims[c].uncertain = TRUE,
                                               !.owned = r.owned]
    BY DEF MarkUncertain
  <2>2. marked = MarkUncertain(r, c, FALSE)
    BY <2>1 DEF Shape
  <2> HIDE DEF marked
  <2> QED  BY <2>2, MarkGivesUp
<1> HIDE DEF released, marked, claim
<1>5. Shape(gone) /\ GivesUp(r, gone)
  BY <1>3, DiscardAbsentGivesUp, GivesUpMore
<1>6. Shape(listed) /\ GivesUp(r, listed)
  BY <1>3, RetireGivesUp, GivesUpMore
<1> HIDE DEF gone, listed
<1> QED  BY <1>1, <1>2, <1>3, <1>4, <1>5, <1>6

LEMMA EndDeletionGivesUp ==
    ASSUME NEW r, Shape(r), NEW t
    PROVE  Shape(EndDeletion(r, t)) /\ GivesUp(r, EndDeletion(r, t))
<1> DEFINE s == EndDeletion(r, t)
<1>1. s = [r EXCEPT !.deleting = r.deleting \ {t},
                    !.delTarget = [r.delTarget EXCEPT ![t] = None]]
  BY DEF EndDeletion
<1> HIDE DEF s
<1>2. /\ s.bind = r.bind /\ s.claims = r.claims
      /\ s.deleting = r.deleting \ {t}
      /\ s.delTarget = [r.delTarget EXCEPT ![t] = None]
      /\ s = [bind |-> s.bind, retired |-> s.retired, claims |-> s.claims,
              owned |-> s.owned, deleting |-> s.deleting,
              delTarget |-> s.delTarget, next |-> s.next]
  BY <1>1 DEF Shape
<1>3. Shape(s)
  BY <1>2 DEF Shape, SavedShape
<1>4. GivesUp(r, s)
  BY <1>2 DEF GivesUp, Shape
<1> QED  BY <1>3, <1>4 DEF s

-----------------------------------------------------------------------------
(* The methods that take something: their guards keep the record           *)
(* consistent.                                                             *)

\* Claim c becomes k, which meets no other claim and nothing that is deleted.
LEMMA ClaimConsistent ==
    ASSUME NEW r, Consistent(r), NEW c, NEW k, ShapeOfClaim(k), NEW o, NEW u,
           u = [r EXCEPT !.claims = [r.claims EXCEPT ![c] = k], !.owned = o],
           \A d \in ClaimIds \ {c} : r.claims[d] # None =>
               /\ k.thread # None => r.claims[d].thread # k.thread
               /\ TargetsOf(k) \cap TargetsOf(r.claims[d]) = {},
           k.thread \notin r.deleting,
           \A t \in r.deleting : r.delTarget[t] \notin TargetsOf(k)
    PROVE  Consistent(u)
<1>1. /\ u.bind = r.bind /\ u.deleting = r.deleting /\ u.delTarget = r.delTarget
      /\ u.claims = [r.claims EXCEPT ![c] = k]
      /\ u = [bind |-> u.bind, retired |-> u.retired, claims |-> u.claims,
              owned |-> u.owned, deleting |-> u.deleting,
              delTarget |-> u.delTarget, next |-> u.next]
  BY DEF Consistent, Shape
<1>2. \A d \in ClaimIds : u.claims[d] = IF d = c THEN k ELSE r.claims[d]
  BY <1>1 DEF Consistent, Shape, SavedShape
<1>3. u.claims = [d \in ClaimIds |-> u.claims[d]]
  BY <1>1 DEF Consistent, Shape, SavedShape
<1>4. \A d \in ClaimIds : u.claims[d] # None => ShapeOfClaim(u.claims[d])
  BY <1>2 DEF Consistent, Shape, SavedShape
<1>5. Shape(u)
  BY <1>1, <1>3, <1>4 DEF Consistent, Shape, SavedShape
<1>6. UniqueRouting(u)
  <2>1. ASSUME NEW d \in ClaimIds, NEW e \in ClaimIds, d # e,
               u.claims[d] # None, u.claims[e] # None
        PROVE  /\ u.claims[d].thread # None =>
                     u.claims[d].thread # u.claims[e].thread
               /\ TargetsOf(u.claims[d]) \cap TargetsOf(u.claims[e]) = {}
    <3>1. CASE d # c /\ e # c
      BY <1>2, <2>1, <3>1 DEF Consistent, UniqueRouting
    <3>2. CASE d = c
      BY <1>2, <2>1, <3>2
    <3>3. CASE e = c
      BY <1>2, <2>1, <3>3
    <3> QED  BY <3>1, <3>2, <3>3
  <2> QED  BY <1>1, <2>1 DEF Consistent, UniqueRouting
<1>7. FreeDeleting(u)
  <2> SUFFICES ASSUME NEW t \in r.deleting
               PROVE  /\ r.bind[t] = None
                      /\ ~HasTopicClaim(u, t)
                      /\ r.delTarget[t] # None =>
                            ~HasTargetClaim(u, r.delTarget[t], {})
    BY <1>1 DEF FreeDeleting
  <2>1. /\ r.bind[t] = None
        /\ ~HasTopicClaim(r, t)
        /\ r.delTarget[t] # None => ~HasTargetClaim(r, r.delTarget[t], {})
    BY DEF Consistent, FreeDeleting
  <2> QED  BY <1>2, <2>1 DEF HasTopicClaim, HasTargetClaim
<1> QED  BY <1>5, <1>6, <1>7 DEF Consistent

LEMMA BeginConsistent ==
    ASSUME NEW r, Consistent(r), NEW c, NEW t, NEW target, NEW previous,
           NEW kind, CanBegin(r, t, target, previous)
    PROVE  Consistent(Begin(r, c, t, target, previous, kind))
<1> DEFINE k == [thread |-> t, target |-> target, previous |-> previous,
                 kind |-> kind, uncertain |-> FALSE, retry |-> None]
           u == Begin(r, c, t, target, previous, kind)
<1>1. ShapeOfClaim(k) /\ k.thread = t /\ TargetsOf(k) = {target, previous} \ {None}
  BY DEF ShapeOfClaim, TargetsOf
<1>2. ShapeOfClaim(k)
  BY <1>1
<1>3. u = [r EXCEPT !.claims = [r.claims EXCEPT ![c] = k],
                    !.owned = r.owned \cup {c}]
  BY DEF Begin
<1> HIDE DEF k, u
<1>4. k.thread \notin r.deleting
  BY <1>1, RouterAssumption DEF CanBegin, Consistent, Shape
<1>5. \A x \in r.deleting : r.delTarget[x] \notin TargetsOf(k)
  BY <1>1 DEF CanBegin, TargetDeletionClaimed
<1>6. \A d \in ClaimIds \ {c} : r.claims[d] # None =>
          /\ k.thread # None => r.claims[d].thread # k.thread
          /\ TargetsOf(k) \cap TargetsOf(r.claims[d]) = {}
  BY <1>1 DEF CanBegin, HasTopicClaim, HasTargetClaim
<1>7. Consistent(u)
  BY <1>2, <1>3, <1>4, <1>5, <1>6, ClaimConsistent
<1> QED  BY <1>7 DEF u

LEMMA ThreadedClaim ==
    ASSUME NEW k, ShapeOfClaim(k), NEW x
    PROVE  LET m == [k EXCEPT !.thread = x]
           IN  ShapeOfClaim(m) /\ m.thread = x /\ TargetsOf(m) = TargetsOf(k)
<1> DEFINE m == [k EXCEPT !.thread = x]
<1>1. m = [k EXCEPT !.thread = x]
  OBVIOUS
<1> HIDE DEF m
<1>2. m = [thread |-> x, target |-> k.target, previous |-> k.previous,
           kind |-> k.kind, uncertain |-> k.uncertain, retry |-> k.retry]
  BY <1>1 DEF ShapeOfClaim
<1>3. ShapeOfClaim(m) /\ m.thread = x /\ TargetsOf(m) = TargetsOf(k)
  BY <1>2 DEF ShapeOfClaim, TargetsOf
<1> QED  BY <1>1, <1>3

LEMMA TargetedClaim ==
    ASSUME NEW k, ShapeOfClaim(k), NEW w, NEW q, q \in {k.previous, k.target}
    PROVE  LET m == [k EXCEPT !.target = w, !.previous = q]
           IN  /\ ShapeOfClaim(m) /\ m.thread = k.thread
               /\ TargetsOf(m) \subseteq TargetsOf(k) \cup {w}
<1> DEFINE m == [k EXCEPT !.target = w, !.previous = q]
<1>1. m = [k EXCEPT !.target = w, !.previous = q]
  OBVIOUS
<1> HIDE DEF m
<1>2. m = [thread |-> k.thread, target |-> w, previous |-> q,
           kind |-> k.kind, uncertain |-> k.uncertain, retry |-> k.retry]
  BY <1>1 DEF ShapeOfClaim
<1>3. /\ ShapeOfClaim(m) /\ m.thread = k.thread
      /\ TargetsOf(m) \subseteq TargetsOf(k) \cup {w}
  BY <1>2 DEF ShapeOfClaim, TargetsOf
<1> QED  BY <1>1, <1>3

LEMMA AttachTopicConsistent ==
    ASSUME NEW r, Consistent(r), NEW c \in ClaimIds, NEW t,
           CanAttachTopic(r, c, t)
    PROVE  Consistent(AttachTopic(r, c, t))
<1> DEFINE k == [r.claims[c] EXCEPT !.thread = t]
           u == AttachTopic(r, c, t)
<1>1. ShapeOfClaim(r.claims[c])
  BY DEF CanAttachTopic, Consistent, Shape, SavedShape
<1>2. ShapeOfClaim(k) /\ k.thread = t /\ TargetsOf(k) = TargetsOf(r.claims[c])
  BY <1>1, ThreadedClaim
<1>3. u = [r EXCEPT !.claims = [r.claims EXCEPT ![c] = k], !.owned = r.owned]
  <2>1. u = [r EXCEPT !.claims = [r.claims EXCEPT ![c] = k]]
    BY DEF AttachTopic
  <2> HIDE DEF u, k
  <2> QED  BY <2>1 DEF Consistent, Shape
<1> HIDE DEF k, u
<1>4. \A x \in r.deleting : r.delTarget[x] \notin TargetsOf(k)
  <2> SUFFICES ASSUME NEW x \in r.deleting, r.delTarget[x] \in TargetsOf(k)
               PROVE  FALSE
    OBVIOUS
  <2>1. r.delTarget[x] # None
    BY DEF TargetsOf
  <2>2. HasTargetClaim(r, r.delTarget[x], {})
    BY <1>2 DEF HasTargetClaim, CanAttachTopic
  <2> QED  BY <2>1, <2>2 DEF Consistent, FreeDeleting
<1>5. \A d \in ClaimIds \ {c} : r.claims[d] # None =>
          /\ k.thread # None => r.claims[d].thread # k.thread
          /\ TargetsOf(k) \cap TargetsOf(r.claims[d]) = {}
  BY <1>2 DEF CanAttachTopic, Consistent, UniqueRouting
<1>6. k.thread \notin r.deleting
  BY <1>2 DEF CanAttachTopic
<1>7. Consistent(u)
  BY <1>2, <1>3, <1>4, <1>5, <1>6, ClaimConsistent
<1> QED  BY <1>7 DEF u

LEMMA AttachTargetConsistent ==
    ASSUME NEW r, Consistent(r), NEW c \in ClaimIds, NEW w,
           CanAttachTarget(r, c, w)
    PROVE  Consistent(AttachTarget(r, c, w))
<1>1. CASE r.claims[c].target = w
  BY <1>1 DEF AttachTarget
<1>2. CASE r.claims[c].target # w
  <2> DEFINE q == IF r.claims[c].target = None THEN r.claims[c].previous
                  ELSE r.claims[c].target
             k == [r.claims[c] EXCEPT !.target = w, !.previous = q]
             u == AttachTarget(r, c, w)
  <2>1. ShapeOfClaim(r.claims[c])
    BY DEF CanAttachTarget, Consistent, Shape, SavedShape
  <2>2. /\ ShapeOfClaim(k) /\ k.thread = r.claims[c].thread
        /\ TargetsOf(k) \subseteq TargetsOf(r.claims[c]) \cup {w}
        /\ None \notin TargetsOf(k)
    <3>1. None \notin TargetsOf(k)
      BY DEF TargetsOf
    <3>2. q \in {r.claims[c].previous, r.claims[c].target}
      OBVIOUS
    <3> HIDE DEF q
    <3> QED  BY <2>1, <3>1, <3>2, TargetedClaim
  <2>3. u = [r EXCEPT !.claims = [r.claims EXCEPT ![c] = k], !.owned = r.owned]
    <3>1. u = [r EXCEPT !.claims = [r.claims EXCEPT ![c] = k]]
      BY <1>2 DEF AttachTarget
    <3> HIDE DEF u, k
    <3> QED  BY <3>1 DEF Consistent, Shape
  <2> HIDE DEF k, u
  <2>4. \A x \in r.deleting : r.delTarget[x] \notin TargetsOf(k)
    <3> SUFFICES ASSUME NEW x \in r.deleting, r.delTarget[x] \in TargetsOf(k)
                 PROVE  FALSE
      OBVIOUS
    <3>1. r.delTarget[x] # None /\ r.delTarget[x] # w
      BY <2>2 DEF CanAttachTarget, TargetDeletionClaimed
    <3>2. HasTargetClaim(r, r.delTarget[x], {})
      BY <2>2, <3>1 DEF HasTargetClaim, CanAttachTarget
    <3> QED  BY <3>1, <3>2 DEF Consistent, FreeDeleting
  <2>5. \A d \in ClaimIds \ {c} : r.claims[d] # None =>
            /\ k.thread # None => r.claims[d].thread # k.thread
            /\ TargetsOf(k) \cap TargetsOf(r.claims[d]) = {}
    BY <2>2 DEF CanAttachTarget, HasTargetClaim, Consistent, UniqueRouting
  <2>6. k.thread \notin r.deleting
    BY <2>2 DEF CanAttachTarget, Consistent, FreeDeleting, HasTopicClaim
  <2>7. Consistent(u)
    BY <2>2, <2>3, <2>4, <2>5, <2>6, ClaimConsistent
  <2> QED  BY <2>7 DEF u
<1> QED  BY <1>1, <1>2

LEMMA BindConsistent ==
    ASSUME NEW r, Consistent(r), NEW t, NEW w, NEW owners, CanBind(r, t, owners)
    PROVE  Consistent(Bind(r, t, w))
<1> DEFINE b == [u \in Topics |-> IF u = t THEN w
                                  ELSE IF r.bind[u] = w THEN None
                                  ELSE r.bind[u]]
           v == BindScoped(r, t, w)
           s == Bind(r, t, w)
<1>1. v = [r EXCEPT !.bind = b]
  BY DEF BindScoped
<1> HIDE DEF v
<1>2. s = [v EXCEPT !.retired = [v.retired EXCEPT ![t] = None]]
  BY DEF Bind, v
<1> HIDE DEF s, b
<1>3. /\ v.bind = b /\ v.claims = r.claims
      /\ v.deleting = r.deleting /\ v.delTarget = r.delTarget
      /\ v = [bind |-> v.bind, retired |-> v.retired, claims |-> v.claims,
              owned |-> v.owned, deleting |-> v.deleting,
              delTarget |-> v.delTarget, next |-> v.next]
  BY <1>1 DEF Consistent, Shape
<1>4. /\ s.bind = b /\ s.claims = r.claims
      /\ s.deleting = r.deleting /\ s.delTarget = r.delTarget
      /\ s = [bind |-> s.bind, retired |-> s.retired, claims |-> s.claims,
              owned |-> s.owned, deleting |-> s.deleting,
              delTarget |-> s.delTarget, next |-> s.next]
  BY <1>2, <1>3
<1>5. Shape(s)
  BY <1>4 DEF b, Consistent, Shape, SavedShape
<1>6. UniqueRouting(s)
  BY <1>4 DEF b, Consistent, UniqueRouting
<1>7. FreeDeleting(s)
  <2> SUFFICES ASSUME NEW x \in r.deleting
               PROVE  /\ b[x] = None
                      /\ ~HasTopicClaim(s, x)
                      /\ s.delTarget[x] # None =>
                            ~HasTargetClaim(s, s.delTarget[x], {})
    BY <1>4 DEF FreeDeleting
  <2>1. x \in Topics /\ x # t
    BY DEF CanBind, Consistent, Shape
  <2>2. b[x] = None
    BY <2>1 DEF b, Consistent, FreeDeleting
  <2> QED  BY <1>4, <2>2 DEF Consistent, FreeDeleting, HasTopicClaim, HasTargetClaim
<1> QED  BY <1>5, <1>6, <1>7 DEF Consistent, s

LEMMA CommitConsistent ==
    ASSUME NEW r, Consistent(r), NEW c, CanCommit(r, c)
    PROVE  Consistent(Commit(r, c))
<1> DEFINE v == Bind(r, r.claims[c].thread, r.claims[c].target)
           u == Commit(r, c)
<1>1. Consistent(v)
  BY BindConsistent DEF CanCommit
<1>2. u = [v EXCEPT !.claims = [v.claims EXCEPT ![c] = None],
                    !.owned = v.owned \ {c}]
  BY DEF Commit
<1> HIDE DEF v, u
<1>3. GivesUp(v, v)
  BY DEF GivesUp
<1>4. Shape(u) /\ GivesUp(v, u)
  BY <1>1, <1>2, <1>3, NarrowGivesUp DEF Consistent
<1> QED  BY <1>1, <1>4, GivesUpConsistent DEF u

LEMMA BeginDeletionConsistent ==
    ASSUME NEW r, Consistent(r), NEW t, NEW seq,
           CanBeginDeletion(r, t, seq)
    PROVE  Consistent(BeginDeletion(r, t))
<1> DEFINE s == BeginDeletion(r, t)
           w == r.retired[t].target
<1>1. s = [r EXCEPT !.deleting = r.deleting \cup {t},
                    !.delTarget = [r.delTarget EXCEPT ![t] = w]]
  BY DEF BeginDeletion
<1> HIDE DEF s
<1>2. /\ s.bind = r.bind /\ s.claims = r.claims
      /\ s.deleting = r.deleting \cup {t}
      /\ s.delTarget = [r.delTarget EXCEPT ![t] = w]
      /\ s = [bind |-> s.bind, retired |-> s.retired, claims |-> s.claims,
              owned |-> s.owned, deleting |-> s.deleting,
              delTarget |-> s.delTarget, next |-> s.next]
  BY <1>1 DEF Consistent, Shape
<1>3. Shape(s)
  BY <1>2 DEF CanBeginDeletion, StillListed, Listed, Consistent, Shape, SavedShape
<1>4. UniqueRouting(s)
  BY <1>2 DEF Consistent, UniqueRouting
<1>5. s.delTarget[t] = w /\ \A x \in r.deleting : s.delTarget[x] = r.delTarget[x]
  BY <1>2 DEF CanBeginDeletion, StillListed, Listed, Consistent, Shape
<1>6. FreeDeleting(s)
  BY <1>2, <1>5 DEF CanBeginDeletion, Consistent, FreeDeleting, HasTopicClaim,
                    HasTargetClaim
<1> QED  BY <1>3, <1>4, <1>6 DEF Consistent, s

LEMMA LoadConsistent ==
    ASSUME NEW d, ConsistentFile(d)
    PROVE  Consistent(Load(d))
<1> DEFINE s == Load(d)
<1>1. PICK x, n : s = [EmptyRouter EXCEPT !.bind = d.bind, !.retired = x,
                                          !.claims = d.claims, !.next = n]
  BY DEF Load
<1> HIDE DEF s
<1>2. /\ s.bind = d.bind /\ s.claims = d.claims /\ s.deleting = {}
      /\ s.delTarget = [t \in Topics |-> None]
      /\ s = [bind |-> s.bind, retired |-> s.retired, claims |-> s.claims,
              owned |-> s.owned, deleting |-> s.deleting,
              delTarget |-> s.delTarget, next |-> s.next]
  BY <1>1 DEF EmptyRouter
<1>3. Shape(s)
  BY <1>2 DEF ConsistentFile, Shape, SavedShape
<1>4. UniqueRouting(s) /\ FreeDeleting(s)
  BY <1>2 DEF ConsistentFile, UniqueRouting, FreeDeleting
<1> QED  BY <1>3, <1>4 DEF Consistent, s

LEMMA DurableConsistent ==
    ASSUME NEW r, Consistent(r)
    PROVE  ConsistentFile(Durable(r))
BY DEF Durable, Consistent, ConsistentFile, Shape, SavedShape, UniqueRouting

-----------------------------------------------------------------------------
(* The same, of the results that the actions save.                         *)

LEMMA UnbindConsistent ==
    ASSUME NEW r, Consistent(r), NEW t, NEW reason, NEW eligible
    PROVE  Consistent(Unbind(r, t, reason, eligible))
BY UnbindGivesUp, GivesUpConsistent DEF Consistent

LEMMA MarkConsistent ==
    ASSUME NEW r, Consistent(r), NEW c, NEW releaseOwner
    PROVE  Consistent(MarkUncertain(r, c, releaseOwner))
BY MarkGivesUp, GivesUpConsistent DEF Consistent

LEMMA AbortConsistent ==
    ASSUME NEW r, Consistent(r), NEW c, NEW targetAbsent, NEW topicAbsent
    PROVE  Consistent(Abort(r, c, targetAbsent, topicAbsent))
BY AbortGivesUp, GivesUpConsistent DEF Consistent

LEMMA DiscardRetiredConsistent ==
    ASSUME NEW r, Consistent(r), NEW t, NEW seq
    PROVE  Consistent(DiscardRetired(r, t, seq))
BY DiscardRetiredGivesUp, GivesUpConsistent DEF Consistent

LEMMA UpdateRetiredConsistent ==
    ASSUME NEW r, Consistent(r), NEW t, NEW seq, NEW closed
    PROVE  Consistent(UpdateRetired(r, t, seq, closed))
BY UpdateRetiredGivesUp, GivesUpConsistent DEF Consistent

LEMMA EndDeletionConsistent ==
    ASSUME NEW r, Consistent(r), NEW t
    PROVE  Consistent(EndDeletion(r, t))
BY EndDeletionGivesUp, GivesUpConsistent DEF Consistent

LEMMA DeferConsistent ==
    ASSUME NEW r, Consistent(r), NEW c, r.claims[c] # None, NEW uncertain
    PROVE  Consistent(DeferRecreation(r, c, uncertain))
<1>1. GivesUp(r, r)
  BY DEF GivesUp
<1>2. Narrower(r, c, r.claims[c])
  BY ClaimNarrower DEF Consistent
<1> QED  BY <1>1, <1>2, DeferGivesUp, GivesUpConsistent DEF Consistent

LEMMA PreparedConsistent ==
    ASSUME NEW r, Consistent(r), NEW c, r.claims[c] # None
    PROVE  LET prepared == PrepareRecreation(r, c)
           IN  /\ Consistent(prepared)
               /\ \A b : Consistent(DeferRecreation(prepared, c, b))
<1> DEFINE prepared == PrepareRecreation(r, c)
<1>1. /\ Shape(prepared) /\ GivesUp(r, prepared)
      /\ Narrower(r, c, prepared.claims[c])
  BY PrepareGivesUp DEF Consistent
<1> HIDE DEF prepared
<1>2. Consistent(prepared)
  BY <1>1, GivesUpConsistent
<1>3. ASSUME NEW b
      PROVE  Consistent(DeferRecreation(prepared, c, b))
  BY <1>1, DeferGivesUp, GivesUpConsistent
<1> QED  BY <1>2, <1>3 DEF prepared

-----------------------------------------------------------------------------
(* Saving keeps the invariant.                                             *)

LEMMA Keeps ==
    ASSUME NEW r, NEW d, Consistent(r), ConsistentFile(d), router' = r, disk' = d
    PROVE  IInv'
BY DEF IInv

LEMMA QuietKeeps ==
    ASSUME IInv, UNCHANGED <<router, disk>>
    PROVE  IInv'
BY DEF IInv

LEMMA SaveKeeps ==
    ASSUME NEW r, IInv, Consistent(r), Save(r)
    PROVE  IInv'
<1>1. disk' = disk \/ disk' = Durable(r)
  BY DEF Save
<1>2. router' = r
  BY DEF Save, Becomes
<1> QED  BY <1>1, <1>2, Keeps, DurableConsistent DEF IInv

LEMMA SaveAfterFaultKeeps ==
    ASSUME NEW r, IInv, Consistent(r), SaveAfterFault(r)
    PROVE  IInv'
<1>1. disk' = disk \/ disk' = Durable(r)
  BY DEF SaveAfterFault
<1>2. router' = r
  BY DEF SaveAfterFault, Becomes
<1> QED  BY <1>1, <1>2, Keeps, DurableConsistent DEF IInv

LEMMA SaveBothKeeps ==
    ASSUME NEW r, NEW s, IInv, Consistent(r), Consistent(s), SaveBoth(r, s)
    PROVE  IInv'
<1>1. disk' = Durable(r) \/ disk' = Durable(s)
  BY DEF SaveBoth
<1>2. router' = s
  BY DEF SaveBoth, Becomes
<1> QED  BY <1>1, <1>2, Keeps, DurableConsistent DEF IInv

LEMMA DebounceKeeps ==
    ASSUME NEW r, IInv, Consistent(r), Debounce(r)
    PROVE  IInv'
<1>1. router' = r /\ disk' = disk
  BY DEF Debounce, Becomes
<1> QED  BY <1>1, Keeps DEF IInv

LEMMA BecomesKeeps ==
    ASSUME NEW r, IInv, Consistent(r), Becomes(r),
           disk' = disk \/ disk' = Durable(r)
    PROVE  IInv'
<1>1. router' = r
  BY DEF Becomes
<1> QED  BY <1>1, Keeps, DurableConsistent DEF IInv

LEMMA StartCleanupKeeps ==
    ASSUME NEW r, NEW t, NEW pc, IInv, Consistent(r), StartCleanup(r, t, pc)
    PROVE  IInv'
<1>1. CASE CanBeginDeletion(r, t, r.retired[t].seq)
  <2>1. CASE SaveAfterFault(r)
    BY <2>1, SaveAfterFaultKeeps
  <2>2. CASE Becomes(BeginDeletion(r, t)) /\ disk' = Durable(r)
    <3>1. Consistent(BeginDeletion(r, t))
      BY <1>1, BeginDeletionConsistent
    <3>2. router' = BeginDeletion(r, t)
      BY <2>2 DEF Becomes
    <3> QED  BY <2>2, <3>1, <3>2, Keeps, DurableConsistent
  <2> QED  BY <1>1, <2>1, <2>2 DEF StartCleanup
<1>2. CASE ~CanBeginDeletion(r, t, r.retired[t].seq)
  BY <1>2, SaveKeeps DEF StartCleanup
<1> QED  BY <1>1, <1>2

LEMMA FinishAbsentKeeps ==
    ASSUME NEW c, IInv, FinishAbsent(c)
    PROVE  IInv'
<1> DEFINE r == Abort(router, c, TRUE, FALSE)
<1>1. Consistent(r)
  BY AbortConsistent DEF IInv
<1>2. Save(r) \/ StartCleanup(r, job[c].topic, "before")
  BY DEF FinishAbsent
<1> HIDE DEF r
<1> QED  BY <1>1, <1>2, SaveKeeps, StartCleanupKeeps

LEMMA FinishUncertainKeeps ==
    ASSUME NEW c, IInv, FinishUncertain(c)
    PROVE  IInv'
BY MarkConsistent, SaveKeeps DEF IInv, FinishUncertain

-----------------------------------------------------------------------------
(* The actions, by the flow they belong to.                                *)

LEMMA CreationKeeps ==
    ASSUME IInv, Creation
    PROVE  IInv'
<1>0. Consistent(router) /\ ConsistentFile(disk)
  BY DEF IInv
<1>1. ASSUME NEW w \in Windows, NewWindow(w) \/ SkipCreation(w)
      PROVE  IInv'
  BY <1>1, QuietKeeps DEF NewWindow, SkipCreation, Quiet
<1>2. ASSUME NEW w \in Windows, NEW c \in ClaimIds, BeginCreation(w, c)
      PROVE  IInv'
  <2> DEFINE begun == Begin(router, c, None, w, None, "topic_for_target")
             aborted == Abort(begun, c, FALSE, TRUE)
  <2>1. Consistent(begun)
    BY <1>0, <1>2, BeginConsistent DEF BeginCreation
  <2>2. \/ Becomes(begun) /\ disk' = Durable(begun)
        \/ SaveAfterFault(aborted)
    BY <1>2 DEF BeginCreation
  <2> HIDE DEF begun
  <2>3. Consistent(aborted)
    BY <2>1, AbortConsistent
  <2> HIDE DEF aborted
  <2> QED  BY <2>1, <2>2, <2>3, BecomesKeeps, SaveAfterFaultKeeps
<1>3. ASSUME NEW c \in ClaimIds,
             \/ \E t \in Topics : TelegramCreates(c, t)
             \/ TelegramRefuses(c) \/ TelegramTimesOut(c)
      PROVE  IInv'
  BY <1>3, QuietKeeps DEF TelegramCreates, TelegramRefuses, TelegramTimesOut, Quiet
<1>4. ASSUME NEW c \in ClaimIds, CancelCreation(c)
      PROVE  IInv'
  BY <1>0, <1>4, MarkConsistent, SaveKeeps DEF CancelCreation
<1>5. ASSUME NEW c \in ClaimIds, SettleCreated(c)
      PROVE  IInv'
  <2> DEFINE t == job[c].topic
             attached == AttachTopic(router, c, t)
  <2>1. CASE ~CanAttachTopic(router, c, t)
    BY <1>0, <1>5, <2>1, MarkConsistent, SaveKeeps DEF SettleCreated
  <2>2. CASE CanAttachTopic(router, c, t)
    <3>1. Consistent(attached)
      BY <1>0, <2>2, AttachTopicConsistent
    <3>2. \/ SaveAfterFault(MarkUncertain(attached, c, TRUE))
          \/ SaveBoth(attached, MarkUncertain(attached, c, TRUE))
          \/ CanCommit(attached, c) /\ SaveBoth(attached, Commit(attached, c))
      BY <1>5, <2>2 DEF SettleCreated
    <3> HIDE DEF attached
    <3>3. Consistent(MarkUncertain(attached, c, TRUE))
      BY <3>1, MarkConsistent
    <3>4. CanCommit(attached, c) => Consistent(Commit(attached, c))
      BY <3>1, CommitConsistent
    <3> QED  BY <3>1, <3>2, <3>3, <3>4, SaveAfterFaultKeeps, SaveBothKeeps
  <2> QED  BY <2>1, <2>2
<1>6. ASSUME NEW c \in ClaimIds, SettleRefused(c)
      PROVE  IInv'
  <2>1. Consistent(Abort(router, c, FALSE, TRUE))
    BY <1>0, AbortConsistent
  <2>2. CanDefer(router, c) => Consistent(DeferRecreation(router, c, FALSE))
    BY <1>0, DeferConsistent DEF CanDefer
  <2>3. Consistent(MarkUncertain(router, c, TRUE))
    BY <1>0, MarkConsistent
  <2> QED  BY <1>6, <2>1, <2>2, <2>3, SaveKeeps DEF SettleRefused
<1>7. ASSUME NEW c \in ClaimIds, SettleUnclear(c)
      PROVE  IInv'
  BY <1>0, <1>7, MarkConsistent, SaveKeeps DEF SettleUnclear
<1> QED  BY <1>1, <1>2, <1>3, <1>4, <1>5, <1>6, <1>7 DEF Creation

LEMMA DeletionKeeps ==
    ASSUME IInv, Deletion
    PROVE  IInv'
<1>0. Consistent(router) /\ ConsistentFile(disk)
  BY DEF IInv
<1> PICK t \in Topics :
        \/ SweepCleanup(t) \/ DeadTopic(t) \/ BeforeDelete(t) \/ DeleteDone(t)
        \/ DeleteRateLimited(t) \/ DeleteRefused(t) \/ CloseAnswered(t)
  BY DEF Deletion
<1>1. CASE SweepCleanup(t)
  BY <1>0, <1>1, StartCleanupKeeps DEF SweepCleanup
<1>2. CASE DeadTopic(t)
  BY <1>0, <1>2, UnbindConsistent, StartCleanupKeeps DEF DeadTopic
<1>3. CASE BeforeDelete(t)
  BY <1>3, QuietKeeps DEF BeforeDelete, Quiet
<1>4. Consistent(EndDeletion(DiscardRetired(router, t, cleanup[t].seq), t))
  BY <1>0, DiscardRetiredConsistent, EndDeletionConsistent
<1>5. \A closed : Consistent(EndDeletion(UpdateRetired(router, t,
                                         cleanup[t].seq, closed), t))
  BY <1>0, UpdateRetiredConsistent, EndDeletionConsistent
<1>6. CASE DeleteDone(t)
  BY <1>4, <1>6, SaveKeeps DEF DeleteDone
<1>7. CASE DeleteRateLimited(t)
  BY <1>5, <1>7, SaveAfterFaultKeeps DEF DeleteRateLimited
<1>8. CASE DeleteRefused(t)
  <2>1. \/ Becomes(EndDeletion(router, t)) /\ disk' = disk
        \/ SaveAfterFault(EndDeletion(UpdateRetired(router, t,
                                             cleanup[t].seq, TRUE), t))
        \/ UNCHANGED <<router, disk>>
    BY <1>8 DEF DeleteRefused
  <2>2. Consistent(EndDeletion(router, t))
    BY <1>0, EndDeletionConsistent
  <2> QED  BY <1>5, <2>1, <2>2, BecomesKeeps, SaveAfterFaultKeeps, QuietKeeps
<1>9. CASE CloseAnswered(t)
  <2>1. \/ Save(EndDeletion(UpdateRetired(router, t, cleanup[t].seq, TRUE), t))
        \/ Save(EndDeletion(DiscardRetired(router, t, cleanup[t].seq), t))
        \/ SaveAfterFault(EndDeletion(UpdateRetired(router, t, cleanup[t].seq,
                                                    FALSE), t))
    BY <1>9 DEF CloseAnswered
  <2> QED  BY <1>4, <1>5, <2>1, SaveKeeps, SaveAfterFaultKeeps
<1> QED  BY <1>1, <1>2, <1>3, <1>6, <1>7, <1>8, <1>9

LEMMA BeginLaunchKeeps ==
    ASSUME NEW t, NEW c, NEW flow, NEW pc, NEW previous, IInv,
           BeginLaunch(t, c, flow, pc, previous)
    PROVE  IInv'
<1> DEFINE kind == IF previous = None THEN "target_for_topic" ELSE "replacement"
           begun == Begin(router, c, t, None, previous, kind)
<1>1. Consistent(begun)
  <2>1. Consistent(router) /\ CanBegin(router, t, None, previous)
    BY DEF IInv, BeginLaunch
  <2> HIDE DEF kind
  <2> QED  BY <2>1, BeginConsistent
<1>2. \/ Becomes(begun) /\ disk' = Durable(begun)
      \/ SaveAfterFault(Abort(begun, c, TRUE, FALSE))
  BY DEF BeginLaunch
<1> HIDE DEF begun
<1>3. Consistent(Abort(begun, c, TRUE, FALSE))
  BY <1>1, AbortConsistent
<1> QED  BY <1>1, <1>2, <1>3, BecomesKeeps, SaveAfterFaultKeeps

LEMMA LaunchKeeps ==
    ASSUME IInv, Launch
    PROVE  IInv'
<1>0. Consistent(router) /\ ConsistentFile(disk)
  BY DEF IInv
<1>1. ASSUME NEW t \in Topics, NEW c \in ClaimIds,
             LaunchWindow(t, c) \/ RecoverWindow(t, c) \/ ResumeWindow(t, c)
      PROVE  IInv'
  BY <1>1, BeginLaunchKeeps DEF LaunchWindow, RecoverWindow, ResumeWindow
<1>2. ASSUME NEW c \in ClaimIds, CheckOffer(c)
      PROVE  IInv'
  BY <1>2, FinishAbsentKeeps, QuietKeeps DEF CheckOffer, Quiet
<1>3. ASSUME NEW c \in ClaimIds, NEW w \in Windows, BackendMakes(c, w)
      PROVE  IInv'
  BY <1>3, QuietKeeps DEF BackendMakes, Quiet
<1>4. ASSUME NEW c \in ClaimIds, BackendFails(c)
      PROVE  IInv'
  BY <1>4, FinishAbsentKeeps, FinishUncertainKeeps DEF BackendFails
<1>5. ASSUME NEW c \in ClaimIds, AttachLaunched(c)
      PROVE  IInv'
  <2> DEFINE w == job[c].win
             attached == AttachTarget(router, c, w)
  <2>1. CASE ~CanAttachTarget(router, c, w)
    BY <1>0, <1>5, <2>1, MarkConsistent, SaveKeeps DEF AttachLaunched
  <2>2. CASE CanAttachTarget(router, c, w)
    <3>1. Consistent(attached)
      BY <1>0, <2>2, AttachTargetConsistent
    <3>2. \/ Becomes(attached) /\ disk' = Durable(attached)
          \/ SaveAfterFault(MarkUncertain(attached, c, TRUE))
      BY <1>5, <2>2 DEF AttachLaunched
    <3> HIDE DEF attached
    <3>3. Consistent(MarkUncertain(attached, c, TRUE))
      BY <3>1, MarkConsistent
    <3> QED  BY <3>1, <3>2, <3>3, BecomesKeeps, SaveAfterFaultKeeps
  <2> QED  BY <2>1, <2>2
<1>6. ASSUME NEW c \in ClaimIds, LaunchReady(c)
      PROVE  IInv'
  <2>1. CASE CanCommit(router, c)
    BY <1>0, <1>6, <2>1, CommitConsistent, SaveKeeps DEF LaunchReady
  <2>2. CASE ~CanCommit(router, c)
    BY <1>0, <1>6, <2>2, MarkConsistent, SaveKeeps DEF LaunchReady
  <2> QED  BY <2>1, <2>2
<1>7. ASSUME NEW c \in ClaimIds, LaunchNotReady(c) \/ LaunchAborts(c)
      PROVE  IInv'
  <2>1. FinishAbsent(c) \/ FinishUncertain(c)
    BY <1>7 DEF LaunchNotReady, LaunchAborts
  <2> QED  BY <2>1, FinishAbsentKeeps, FinishUncertainKeeps
<1> QED  BY <1>1, <1>2, <1>3, <1>4, <1>5, <1>6, <1>7 DEF Launch

LEMMA PrepareFailsKeeps ==
    ASSUME NEW prepared, NEW c, IInv, PrepareFails(prepared, c),
           Consistent(DeferRecreation(prepared, c, FALSE))
    PROVE  IInv'
BY BecomesKeeps DEF PrepareFails

LEMMA InBackoffKeeps ==
    ASSUME NEW prepared, NEW c, IInv, InBackoff(prepared, c),
           Consistent(prepared), Consistent(DeferRecreation(prepared, c, FALSE))
    PROVE  IInv'
<1>1. router' = DeferRecreation(prepared, c, FALSE)
  BY DEF InBackoff, Becomes
<1>2. \/ disk' = Durable(prepared)
      \/ disk' = Durable(DeferRecreation(prepared, c, FALSE))
  BY DEF InBackoff
<1> QED  BY <1>1, <1>2, Keeps, DurableConsistent

LEMMA RecoveryKeeps ==
    ASSUME IInv, Recovery
    PROVE  IInv'
<1>0. Consistent(router) /\ ConsistentFile(disk)
  BY DEF IInv
<1> PICK p \in Recoverers :
        \/ \E c \in ClaimIds : RecPick(p, c)
        \/ RecPresence(p) \/ RecProbe(p) \/ RecReady(p) \/ RecCommit(p)
        \/ RecLock(p) \/ RecRecreate(p) \/ RecAgent(p) \/ RecClear(p)
  BY DEF Recovery
<1> DEFINE c == rec[p].claim
           prepared == PrepareRecreation(router, c)
           deferred(b) == DeferRecreation(prepared, c, b)
<1>1. CASE \E d \in ClaimIds : RecPick(p, d)
  BY <1>1, QuietKeeps DEF RecPick, Quiet
<1>2. CASE RecPresence(p)
  <2>1. \/ UNCHANGED <<router, disk>>
        \/ StartCleanup(Abort(router, c, TRUE, FALSE), rec[p].snap.thread,
                        "before")
    BY <1>2 DEF RecPresence, Quiet
  <2>2. Consistent(Abort(router, c, TRUE, FALSE))
    BY <1>0, AbortConsistent
  <2> HIDE DEF c
  <2> QED  BY <2>1, <2>2, QuietKeeps, StartCleanupKeeps
<1>3. CASE RecProbe(p) \/ RecReady(p) \/ RecLock(p)
  BY <1>3, QuietKeeps DEF RecProbe, RecReady, RecLock, Quiet
<1>4. CASE RecCommit(p)
  <2>1. \/ CanCommit(router, c) /\ Save(Commit(router, c))
        \/ UNCHANGED <<router, disk>>
    BY <1>4 DEF RecCommit, Quiet
  <2> HIDE DEF c
  <2> QED  BY <1>0, <2>1, CommitConsistent, SaveKeeps, QuietKeeps
<1>5. Untouched(p) => /\ Consistent(prepared)
                      /\ \A b : Consistent(deferred(b))
  <2>1. Untouched(p) => router.claims[c] # None
    BY DEF Untouched, Current
  <2> HIDE DEF c
  <2> QED  BY <1>0, <2>1, PreparedConsistent
<1>6. CASE RecRecreate(p)
  <2>1. \/ UNCHANGED <<router, disk>>
        \/ /\ Untouched(p)
           /\ \/ SaveAfterFault(deferred(TRUE))
              \/ PrepareFails(prepared, c)
              \/ SaveBoth(prepared, Abort(prepared, c, TRUE, FALSE))
              \/ SaveBoth(prepared, Abort(prepared, c, FALSE, TRUE))
    BY <1>6 DEF RecRecreate, Quiet
  <2> HIDE DEF prepared, c
  <2>2. CASE UNCHANGED <<router, disk>>
    BY <2>2, QuietKeeps
  <2>3. CASE Untouched(p) /\ SaveAfterFault(deferred(TRUE))
    BY <1>5, <2>3, SaveAfterFaultKeeps
  <2>4. CASE Untouched(p) /\ PrepareFails(prepared, c)
    BY <1>5, <2>4, PrepareFailsKeeps
  <2>5. CASE Untouched(p) /\ SaveBoth(prepared, Abort(prepared, c, TRUE, FALSE))
    BY <1>5, <2>5, AbortConsistent, SaveBothKeeps
  <2>6. CASE Untouched(p) /\ SaveBoth(prepared, Abort(prepared, c, FALSE, TRUE))
    BY <1>5, <2>6, AbortConsistent, SaveBothKeeps
  <2> QED  BY <2>1, <2>2, <2>3, <2>4, <2>5, <2>6
<1>7. CASE RecAgent(p)
  <2>1. \/ UNCHANGED <<router, disk>>
        \/ /\ Untouched(p)
           /\ \/ PrepareFails(prepared, c)
              \/ InBackoff(prepared, c)
              \/ Becomes(prepared) /\ disk' = Durable(prepared)
    BY <1>7 DEF RecAgent, Quiet
  <2> HIDE DEF prepared, c
  <2> QED  BY <1>5, <2>1, QuietKeeps, PrepareFailsKeeps, InBackoffKeeps,
              BecomesKeeps
<1>8. CASE RecClear(p)
  <2>1. \/ UNCHANGED <<router, disk>>
        \/ router.claims[c] # None /\ InBackoff(router, c)
    BY <1>8 DEF RecClear, Quiet, Current
  <2> HIDE DEF c
  <2> QED  BY <1>0, <2>1, DeferConsistent, QuietKeeps, InBackoffKeeps
<1> QED  BY <1>1, <1>2, <1>3, <1>4, <1>6, <1>7, <1>8

LEMMA WorldKeeps ==
    ASSUME IInv, World
    PROVE  IInv'
<1>0. Consistent(router) /\ ConsistentFile(disk)
  BY DEF IInv
<1>1. ASSUME NEW t \in Topics, UserMakesTopic(t) \/ UserDeletes(t)
      PROVE  IInv'
  BY <1>1, QuietKeeps DEF UserMakesTopic, UserDeletes, Quiet
<1>2. ASSUME NEW t \in Topics,
             UserUnbinds(t) \/ UserCloses(t) \/ TopicGoneNoticed(t)
      PROVE  IInv'
  BY <1>0, <1>2, UnbindConsistent, DebounceKeeps
     DEF UserUnbinds, UserCloses, TopicGoneNoticed
<1>3. ASSUME NEW t \in Topics, NEW w \in Windows, UserBinds(t, w)
      PROVE  IInv'
  BY <1>0, <1>3, BindConsistent, DebounceKeeps DEF UserBinds
<1>4. ASSUME NEW w \in Windows, WindowAppears(w) \/ WindowDies(w)
      PROVE  IInv'
  BY <1>4, QuietKeeps DEF WindowAppears, WindowDies, Quiet
<1>5. CASE Restart
  BY <1>0, <1>5, LoadConsistent, BecomesKeeps DEF Restart
<1> QED  BY <1>1, <1>2, <1>3, <1>4, <1>5 DEF World

-----------------------------------------------------------------------------
(* The theorems.                                                           *)

LEMMA InitIInv == Init => IInv
<1> SUFFICES ASSUME Init
             PROVE  IInv
  OBVIOUS
<1>1. Consistent(EmptyRouter)
  BY DEF EmptyRouter, Consistent, Shape, SavedShape, UniqueRouting, FreeDeleting
<1> QED  BY <1>1, DurableConsistent DEF Init, IInv

LEMMA NextIInv == IInv /\ [Next]_vars => IInv'
<1> SUFFICES ASSUME IInv, [Next]_vars
             PROVE  IInv'
  OBVIOUS
<1>1. CASE Next
  <2>1. CASE SaveLater
    BY <2>1, SaveKeeps DEF SaveLater, IInv
  <2> QED  BY <1>1, <2>1, CreationKeeps, DeletionKeeps, LaunchKeeps,
              RecoveryKeeps, WorldKeeps DEF Next
<1>2. CASE UNCHANGED vars
  BY <1>2, QuietKeeps DEF vars
<1> QED  BY <1>1, <1>2

LEMMA Inductive == Spec => []IInv
<1> QED  BY InitIInv, NextIInv, PTL DEF Spec

\* A window never has two topics, nor two claims one topic or one window, with
\* any number of users, launches, recoveries, failed writes and restarts in
\* between (ThreadRouter's bind and provisioning methods).
THEOREM RoutingUnique == Spec => []RoutingIsUnique
<1>1. IInv => RoutingIsUnique
  BY DEF IInv, Consistent, RoutingIsUnique
<1> QED  BY <1>1, Inductive, PTL

\* A topic in deletion is neither bound nor claimed until the deletion ends, nor
\* is its window claimed (ThreadRouter.begin_topic_deletion and the guards that
\* ask is_topic_deletion_claimed).
THEOREM DeletingFree == Spec => []DeletingIsFree
<1>1. IInv => DeletingIsFree
  BY DEF IInv, Consistent, DeletingIsFree
<1> QED  BY <1>1, Inductive, PTL

\* The file on disk is as consistent as the record in memory, so that a new
\* process starts from a routing without duplicates whenever the old one
\* stopped (ThreadRouter.from_dict).
THEOREM FileConsistent == Spec => []UniqueRouting(disk)
<1>1. IInv => UniqueRouting(disk)
  BY DEF IInv, ConsistentFile
<1> QED  BY <1>1, Inductive, PTL

-----------------------------------------------------------------------------
\* Every record of a retired topic is older than the next one.
Numbered(d, n) == \A t \in Topics : d.retired[t] # None => d.retired[t].seq < n

SavedTypes(d) ==
    /\ d.bind \in [Topics -> Windows \cup {None}]
    /\ d.retired \in [Topics -> RetiredTopic \cup {None}]
    /\ d.claims \in [ClaimIds -> TopicProvisioning \cup {None}]

Types(r) ==
    /\ SavedTypes(r)
    /\ r.owned \subseteq ClaimIds
    /\ r.next \in Nat
    /\ Numbered(r, r.next)

\* E is a set of topics that holds all that are bound in d and all that are
\* listed for anything but deletion.
Known(d, E) ==
    /\ BoundTopics(d) \subseteq E
    /\ \A t \in Topics \ E : d.retired[t] # None => d.retired[t].eligible

Fine(r, E) == Shape(r) /\ Types(r) /\ Known(r, E)

\* s is made of r by a method: no claim but those of C changes, and no topic but
\* those of G, and those that are or were bound, is struck off the list.
Turns(r, s, E, C, G) ==
    /\ Fine(s, E \cup BoundTopics(s))
    /\ s.deleting = r.deleting
    /\ r.next <= s.next
    /\ \A t \in Topics \ (E \cup BoundTopics(s) \cup G) :
          r.retired[t] # None => s.retired[t] # None
    /\ \A d \in ClaimIds \ C : /\ s.claims[d] = r.claims[d]
                               /\ d \in s.owned <=> d \in r.owned

-----------------------------------------------------------------------------
(* The methods of the record.                                              *)

LEMMA ExceptTyped ==
    ASSUME NEW S, NEW T, NEW f \in [S -> T], NEW t, NEW k \in T
    PROVE  [f EXCEPT ![t] = k] \in [S -> T]
OBVIOUS

LEMMA FineMore ==
    ASSUME NEW r, NEW E, NEW F, Fine(r, E), E \subseteq F
    PROVE  Fine(r, F)
BY DEF Fine, Known

LEMMA FineAnd ==
    ASSUME NEW r, NEW E, Fine(r, E)
    PROVE  Fine(r, E \cup BoundTopics(r))
BY FineMore

LEMMA TurnsMore ==
    ASSUME NEW r, NEW u, NEW s, NEW E, NEW C, NEW G, NEW F,
           Fine(r, E), Turns(r, u, E, C, G), Turns(u, s, F, C, G),
           F \subseteq E \cup BoundTopics(s), BoundTopics(u) \subseteq F
    PROVE  Turns(r, s, E, C, G)
<1>1. Fine(s, E \cup BoundTopics(s))
  BY FineMore DEF Turns
<1>2. r.next <= s.next
  BY DEF Turns, Fine, Types
<1>3. ASSUME NEW t \in Topics \ (E \cup BoundTopics(s) \cup G), r.retired[t] # None
      PROVE  s.retired[t] # None
  <2>1. t \notin F /\ t \notin BoundTopics(u)
    BY <1>3
  <2> QED  BY <1>3, <2>1 DEF Turns
<1> QED  BY <1>1, <1>2, <1>3 DEF Turns

LEMMA TurnsSelf ==
    ASSUME NEW r, NEW E, Fine(r, E), NEW C, NEW G
    PROVE  Turns(r, r, E, C, G)
BY FineAnd DEF Turns, Fine, Types

LEMMA RetireTurns ==
    ASSUME NEW r, NEW E, Fine(r, E), NEW t \in Topics, NEW reason \in Reasons,
           NEW eligible \in BOOLEAN, NEW w \in Windows \cup {None},
           t \in E \/ eligible, NEW C, NEW G
    PROVE  LET s == Retire(r, t, reason, eligible, w)
           IN  /\ Fine(s, E)
               /\ s.bind = r.bind /\ s.claims = r.claims /\ s.owned = r.owned
               /\ eligible => s.retired[t] # None
               /\ Turns(r, s, E, C, G)
<1> DEFINE k == [target |-> w, reason |-> reason, eligible |-> eligible,
                 closed |-> FALSE, seq |-> r.next]
           x == [r.retired EXCEPT ![t] = k]
           y == Retain(x)
           s == Retire(r, t, reason, eligible, w)
<1>1. k \in RetiredTopic /\ k # None /\ k.eligible = eligible /\ k.seq = r.next
  <2>1. k \in RetiredTopic
    BY DEF Fine, Types, RetiredTopic
  <2> QED  BY <2>1, RouterAssumption
<1>2. s = [r EXCEPT !.retired = y, !.next = r.next + 1]
  BY DEF Retire
<1> HIDE DEF k, s
<1>3. /\ x \in [Topics -> RetiredTopic \cup {None}] /\ x[t] = k
      /\ \A u \in Topics \ {t} : x[u] = r.retired[u]
  BY <1>1 DEF Fine, Types, SavedTypes
<1> HIDE DEF x
<1>4. /\ y \in [Topics -> RetiredTopic \cup {None}]
      /\ \A u \in Topics : /\ y[u] \in {x[u], None}
                           /\ x[u] # None /\ x[u].eligible => y[u] = x[u]
  BY <1>3 DEF Retain
<1> HIDE DEF y
<1>5. /\ Shape(s) /\ s.bind = r.bind /\ s.retired = y /\ s.claims = r.claims
      /\ s.owned = r.owned /\ s.deleting = r.deleting /\ s.next = r.next + 1
  BY <1>2 DEF Fine, Shape, SavedShape
<1>6. Types(s) /\ r.next <= s.next
  <2>1. Numbered(s, s.next) /\ r.next <= s.next
    BY <1>1, <1>3, <1>4, <1>5 DEF Numbered, Fine, Types, SavedTypes, RetiredTopic
  <2> QED  BY <1>4, <1>5, <2>1 DEF Fine, Types, SavedTypes
<1>7. BoundTopics(s) = BoundTopics(r)
  BY <1>5 DEF BoundTopics
<1>8. Fine(s, E)
  <2>1. Known(s, E)
    BY <1>1, <1>3, <1>4, <1>5, <1>7 DEF Fine, Known
  <2> QED  BY <1>5, <1>6, <2>1 DEF Fine
<1>9. ASSUME NEW u \in Topics \ E, r.retired[u] # None
      PROVE  s.retired[u] # None
  BY <1>1, <1>3, <1>4, <1>5, <1>9 DEF Fine, Known
<1>10. Turns(r, s, E, C, G)
  BY <1>5, <1>6, <1>8, <1>9, FineAnd DEF Turns
<1> QED  BY <1>1, <1>3, <1>4, <1>5, <1>8, <1>10 DEF s

LEMMA UnbindTurns ==
    ASSUME NEW r, NEW E, Fine(r, E), NEW t \in Topics, NEW reason \in Reasons,
           NEW eligible \in BOOLEAN, NEW C, NEW G
    PROVE  LET s == Unbind(r, t, reason, eligible)
           IN  /\ Fine(s, E)
               /\ s.claims = r.claims /\ s.owned = r.owned
               /\ s.bind[t] = None
               /\ Turns(r, s, E, C, G)
<1>1. CASE r.bind[t] = None
  BY <1>1, TurnsSelf DEF Unbind
<1>2. CASE r.bind[t] # None
  <2> DEFINE w == r.bind[t]
             u == [r EXCEPT !.bind = [r.bind EXCEPT ![t] = None]]
             s == Retire(u, t, reason, eligible, w)
  <2>1. Unbind(r, t, reason, eligible) = s
    BY <1>2 DEF Unbind
  <2>2. w \in Windows \cup {None} /\ t \in E
    BY <1>2 DEF Fine, Types, SavedTypes, Known, BoundTopics
  <2> HIDE DEF w
  <2>3. /\ Shape(u) /\ u.bind = [r.bind EXCEPT ![t] = None]
        /\ u.retired = r.retired /\ u.claims = r.claims /\ u.owned = r.owned
        /\ u.deleting = r.deleting /\ u.next = r.next
    BY DEF Fine, Shape, SavedShape
  <2> HIDE DEF u
  <2>4. Types(u)
    BY <2>3 DEF Fine, Types, SavedTypes, Numbered
  <2>5. BoundTopics(u) \subseteq BoundTopics(r) /\ u.bind[t] = None
    BY <2>3 DEF BoundTopics, Fine, Types, SavedTypes
  <2>6. Fine(u, E)
    BY <2>3, <2>4, <2>5 DEF Fine, Known
  <2>7. Turns(r, u, E, C, G)
    BY <2>3, <2>6, FineAnd DEF Turns, Fine, Types
  <2>8. /\ Fine(s, E)
        /\ s.bind = u.bind /\ s.claims = u.claims /\ s.owned = u.owned
        /\ Turns(u, s, E, C, G)
    BY <2>2, <2>6, RetireTurns
  <2> HIDE DEF s
  <2>9. Turns(r, s, E, C, G)
    BY <2>6, <2>7, <2>8, TurnsMore DEF Fine, Known
  <2> QED  BY <2>1, <2>3, <2>5, <2>8, <2>9
<1> QED  BY <1>1, <1>2

\* Only the list of retired topics changes, and of it only topic t.
LEMMA RelistTurns ==
    ASSUME NEW r, NEW E, Fine(r, E), NEW t, NEW k \in RetiredTopic \cup {None},
           k # None => k.seq < r.next /\ k.eligible,
           NEW s, s = [r EXCEPT !.retired = [r.retired EXCEPT ![t] = k]],
           NEW C, NEW G, k # None \/ t \in G
    PROVE  /\ Fine(s, E)
           /\ s.bind = r.bind /\ s.claims = r.claims /\ s.owned = r.owned
           /\ Turns(r, s, E, C, G)
<1>1. /\ Shape(s) /\ s.bind = r.bind /\ s.claims = r.claims
      /\ s.owned = r.owned /\ s.deleting = r.deleting /\ s.next = r.next
      /\ s.retired = [r.retired EXCEPT ![t] = k]
  BY DEF Fine, Shape, SavedShape
<1>2. \A u \in Topics : s.retired[u] = IF u = t THEN k ELSE r.retired[u]
  BY <1>1 DEF Fine, Types, SavedTypes
<1>3. Types(s)
  <2>1. r.retired \in [Topics -> RetiredTopic \cup {None}]
    BY DEF Fine, Types, SavedTypes
  <2>2. s.retired \in [Topics -> RetiredTopic \cup {None}]
    <3>1. [r.retired EXCEPT ![t] = k] \in [Topics -> RetiredTopic \cup {None}]
      BY <2>1, ExceptTyped, Zenon
    <3> QED  BY <1>1, <3>1
  <2>3. Numbered(s, s.next)
    BY <1>1, <1>2 DEF Fine, Types, Numbered
  <2> QED  BY <1>1, <2>2, <2>3 DEF Fine, Types, SavedTypes
<1>4. BoundTopics(s) = BoundTopics(r)
  BY <1>1 DEF BoundTopics
<1>5. Fine(s, E)
  <2>1. Known(s, E)
    BY <1>2, <1>4 DEF Fine, Known
  <2> QED  BY <1>1, <1>3, <2>1 DEF Fine
<1>6. \A u \in Topics \ G : r.retired[u] # None => s.retired[u] # None
  BY <1>2
<1>7. r.next <= s.next
  BY <1>1 DEF Fine, Types
<1> QED  BY <1>1, <1>5, <1>6, <1>7, FineAnd DEF Turns

LEMMA DiscardAbsentTurns ==
    ASSUME NEW r, NEW E, Fine(r, E), NEW t \in Topics, NEW C, NEW G, t \in G
    PROVE  LET s == DiscardAbsentTopic(r, t)
           IN  /\ Fine(s, E)
               /\ s.claims = r.claims /\ s.owned = r.owned
               /\ s.bind[t] = None
               /\ Turns(r, s, E, C, G)
<1> DEFINE u == Unbind(r, t, "remote_deleted", FALSE)
           s == [u EXCEPT !.retired = [u.retired EXCEPT ![t] = None]]
<1>1. DiscardAbsentTopic(r, t) = s
  BY DEF DiscardAbsentTopic
<1>2. /\ Fine(u, E) /\ u.claims = r.claims /\ u.owned = r.owned
      /\ u.bind[t] = None
      /\ Turns(r, u, E, C, G)
  BY UnbindTurns DEF Reasons
<1>3. s = [u EXCEPT !.retired = [u.retired EXCEPT ![t] = None]]
  OBVIOUS
<1> HIDE DEF u, s
<1>4. /\ Fine(s, E) /\ s.bind = u.bind /\ s.claims = u.claims
      /\ s.owned = u.owned
      /\ Turns(u, s, E, C, G)
  BY <1>2, <1>3, RelistTurns
<1>5. Turns(r, s, E, C, G)
  BY <1>2, <1>4, TurnsMore DEF Fine, Known
<1> QED  BY <1>1, <1>2, <1>4, <1>5

LEMMA DiscardRetiredTurns ==
    ASSUME NEW r, NEW E, Fine(r, E), NEW t \in Topics, NEW seq, NEW C, NEW G, t \in G
    PROVE  LET s == DiscardRetired(r, t, seq)
           IN  /\ Fine(s, E)
               /\ s.bind = r.bind /\ s.claims = r.claims /\ s.owned = r.owned
               /\ Turns(r, s, E, C, G)
<1> DEFINE s == [r EXCEPT !.retired = [r.retired EXCEPT ![t] = None]]
<1>1. DiscardRetired(r, t, seq) \in {r, s}
  BY DEF DiscardRetired
<1>2. s = [r EXCEPT !.retired = [r.retired EXCEPT ![t] = None]]
  OBVIOUS
<1> HIDE DEF s
<1>3. /\ Fine(s, E)
      /\ s.bind = r.bind /\ s.claims = r.claims /\ s.owned = r.owned
      /\ Turns(r, s, E, C, G)
  BY <1>2, RelistTurns
<1> QED  BY <1>1, <1>3, TurnsSelf

LEMMA UpdateRetiredTurns ==
    ASSUME NEW r, NEW E, Fine(r, E), NEW t \in Topics, NEW seq,
           NEW closed \in BOOLEAN, NEW C, NEW G
    PROVE  LET s == UpdateRetired(r, t, seq, closed)
           IN  /\ Fine(s, E)
               /\ s.bind = r.bind /\ s.claims = r.claims /\ s.owned = r.owned
               /\ Turns(r, s, E, C, G)
<1>1. CASE ~StillListed(r, t, seq)
  BY <1>1, TurnsSelf DEF UpdateRetired
<1>2. CASE StillListed(r, t, seq)
  <2> DEFINE k == [r.retired[t] EXCEPT !.closed = closed, !.eligible = TRUE]
             s == UpdateRetired(r, t, seq, closed)
  <2>1. r.retired[t] \in RetiredTopic /\ r.retired[t].seq < r.next
    BY <1>2 DEF StillListed, Listed, Fine, Types, SavedTypes, Numbered
  <2>2. /\ k \in RetiredTopic \cup {None} /\ k # None
        /\ k.seq < r.next /\ k.eligible
    <3>1. k \in RetiredTopic /\ k.seq = r.retired[t].seq /\ k.eligible
      BY <2>1 DEF RetiredTopic
    <3> QED  BY <2>1, <3>1, RouterAssumption
  <2>3. s = [r EXCEPT !.retired = [r.retired EXCEPT ![t] = k]]
    <3>1. s = [r EXCEPT !.retired[t].closed = closed,
                        !.retired[t].eligible = TRUE]
      BY <1>2 DEF UpdateRetired
    <3> DEFINE y == [r.retired EXCEPT ![t].closed = closed]
               z == [y EXCEPT ![t].eligible = TRUE]
    <3>2. s = [r EXCEPT !.retired = z]
      BY <3>1 DEF Fine, Shape
    <3>3. z = [r.retired EXCEPT ![t] = k]
      BY DEF Fine, Types, SavedTypes
    <3> HIDE DEF y, z, s, k
    <3> QED  BY <3>2, <3>3
  <2> HIDE DEF k, s
  <2>4. /\ Fine(s, E)
        /\ s.bind = r.bind /\ s.claims = r.claims /\ s.owned = r.owned
        /\ Turns(r, s, E, C, G)
    <3>1. k \in RetiredTopic \cup {None}
      BY <2>2
    <3>2. k # None => k.seq < r.next /\ k.eligible
      BY <2>2
    <3>3. k # None \/ t \in G
      BY <2>2
    <3> QED  BY <2>3, <3>1, <3>2, <3>3, RelistTurns
  <2> QED  BY <2>4 DEF s
<1> QED  BY <1>1, <1>2

Reclaims(r, s, c, k, o) ==
    s = [r EXCEPT !.claims = [r.claims EXCEPT ![c] = k], !.owned = o]

\* The claim alone changes.
LEMMA ClaimTurns ==
    ASSUME NEW r, NEW E, Fine(r, E), NEW c \in ClaimIds,
           NEW k \in TopicProvisioning \cup {None}, NEW o,
           o \in {r.owned, r.owned \cup {c}, r.owned \ {c}},
           NEW s, Reclaims(r, s, c, k, o), NEW C, NEW G, c \in C
    PROVE  /\ Fine(s, E)
           /\ s.bind = r.bind /\ s.retired = r.retired
           /\ s.claims[c] = k /\ s.owned = o
           /\ Turns(r, s, E, C, G)
<1>1. /\ s = [bind |-> s.bind, retired |-> s.retired, claims |-> s.claims,
              owned |-> s.owned, deleting |-> s.deleting,
              delTarget |-> s.delTarget, next |-> s.next]
      /\ s.bind = r.bind /\ s.claims = [r.claims EXCEPT ![c] = k]
      /\ s.owned = o /\ s.deleting = r.deleting /\ s.next = r.next
      /\ s.retired = r.retired /\ s.delTarget = r.delTarget
  BY DEF Reclaims, Fine, Shape
<1>2. /\ \A d \in ClaimIds : s.claims[d] = IF d = c THEN k ELSE r.claims[d]
      /\ s.claims = [d \in ClaimIds |-> s.claims[d]]
  BY <1>1 DEF Fine, Types, SavedTypes
<1>3. \A d \in ClaimIds : s.claims[d] # None => ShapeOfClaim(s.claims[d])
  <2>1. k # None => ShapeOfClaim(k)
    BY DEF TopicProvisioning, ShapeOfClaim
  <2> QED  BY <1>2, <2>1 DEF Fine, Shape, SavedShape
<1>4. Shape(s)
  BY <1>1, <1>2, <1>3 DEF Fine, Shape, SavedShape
<1>5. Types(s)
  <2>1. s.claims \in [ClaimIds -> TopicProvisioning \cup {None}]
    <3>1. r.claims \in [ClaimIds -> TopicProvisioning \cup {None}]
      BY DEF Fine, Types, SavedTypes
    <3>2. [r.claims EXCEPT ![c] = k] \in [ClaimIds -> TopicProvisioning \cup {None}]
      BY <3>1, ExceptTyped, Zenon
    <3> QED  BY <1>1, <3>2
  <2> QED  BY <1>1, <2>1 DEF Fine, Types, SavedTypes, Numbered
<1>6. Fine(s, E)
  <2>1. BoundTopics(s) = BoundTopics(r)
    BY <1>1 DEF BoundTopics
  <2> QED  BY <1>1, <1>4, <1>5, <2>1 DEF Fine, Known
<1>7. r.next <= s.next
  BY <1>1 DEF Fine, Types
<1>8. \A d \in ClaimIds \ C : s.claims[d] = r.claims[d] /\ (d \in s.owned <=> d \in r.owned)
  BY <1>1, <1>2
<1>9. Turns(r, s, E, C, G)
  BY <1>1, <1>6, <1>7, <1>8, FineAnd DEF Turns
<1> QED  BY <1>1, <1>2, <1>6, <1>9

LEMMA BindTurns ==
    ASSUME NEW r, NEW E, Fine(r, E), NEW t \in Topics, NEW w \in Windows,
           NEW C, NEW G
    PROVE  LET s == Bind(r, t, w)
           IN  /\ Fine(s, E \cup BoundTopics(s))
               /\ s.bind[t] = w /\ t \in BoundTopics(s)
               /\ s.claims = r.claims /\ s.owned = r.owned
               /\ BoundTopics(s) \subseteq E \cup {t}
               /\ Turns(r, s, E, C, G)
<1> DEFINE b == [u \in Topics |-> IF u = t THEN w
                                  ELSE IF r.bind[u] = w THEN None
                                  ELSE r.bind[u]]
           x == [r.retired EXCEPT ![t] = None]
           s == Bind(r, t, w)
<1>1. s = [r EXCEPT !.bind = b, !.retired = x]
  <2>1. BindScoped(r, t, w) = [r EXCEPT !.bind = b]
    BY DEF BindScoped
  <2>2. [r EXCEPT !.bind = b].retired = r.retired
    BY DEF Fine, Shape
  <2> HIDE DEF b
  <2> QED  BY <2>1, <2>2 DEF Bind, Fine, Shape
<1>2. /\ b \in [Topics -> Windows \cup {None}]
      /\ b[t] = w /\ \A u \in Topics : b[u] # None => u = t \/ r.bind[u] # None
  BY DEF Fine, Types, SavedTypes
<1>3. /\ x \in [Topics -> RetiredTopic \cup {None}]
      /\ x[t] = None /\ \A u \in Topics \ {t} : x[u] = r.retired[u]
  BY DEF Fine, Types, SavedTypes
<1> HIDE DEF b, x, s
<1>4. /\ s = [bind |-> s.bind, retired |-> s.retired, claims |-> s.claims,
              owned |-> s.owned, deleting |-> s.deleting,
              delTarget |-> s.delTarget, next |-> s.next]
      /\ s.bind = b /\ s.retired = x /\ s.claims = r.claims
      /\ s.owned = r.owned /\ s.deleting = r.deleting /\ s.next = r.next
      /\ s.delTarget = r.delTarget
  BY <1>1 DEF Fine, Shape
<1>5. Shape(s)
  BY <1>2, <1>4 DEF Fine, Shape, SavedShape
<1>6. Types(s) /\ r.next <= s.next
  BY <1>2, <1>3, <1>4 DEF Fine, Types, SavedTypes, Numbered
<1>7. t \in BoundTopics(s) /\ BoundTopics(s) \subseteq E \cup {t}
  <2>1. w # None
    BY RouterAssumption
  <2> QED  BY <1>2, <1>4, <2>1 DEF BoundTopics, Fine, Known
<1>8. Fine(s, E \cup BoundTopics(s))
  <2>1. Known(s, E \cup BoundTopics(s))
    BY <1>3, <1>4, <1>7 DEF Fine, Known
  <2> QED  BY <1>5, <1>6, <2>1 DEF Fine
<1>9. Turns(r, s, E, C, G)
  BY <1>3, <1>4, <1>6, <1>7, <1>8 DEF Turns
<1> QED  BY <1>2, <1>4, <1>7, <1>8, <1>9 DEF s

\* m is claim k with another opinion on whether its outcome is known.
Marked(k, m, uncertain) ==
    /\ m \in TopicProvisioning /\ m # None
    /\ m.thread = k.thread /\ m.target = k.target /\ m.kind = k.kind
    /\ m.retry = k.retry /\ m.uncertain = uncertain

LEMMA MarkedIs ==
    ASSUME NEW k \in TopicProvisioning, NEW u \in BOOLEAN
    PROVE  Marked(k, [k EXCEPT !.uncertain = u], u)
<1>1. [k EXCEPT !.uncertain = u] \in TopicProvisioning
  BY DEF TopicProvisioning
<1> QED  BY <1>1, RouterAssumption DEF Marked, TopicProvisioning

LEMMA MarkTurns ==
    ASSUME NEW r, NEW E, Fine(r, E), NEW c \in ClaimIds, NEW b \in BOOLEAN,
           NEW C, NEW G, c \in C
    PROVE  LET s == MarkUncertain(r, c, b)
           IN  /\ Fine(s, E)
               /\ s.bind = r.bind /\ s.retired = r.retired
               /\ r.claims[c] = None => s = r
               /\ r.claims[c] # None => Marked(r.claims[c], s.claims[c], TRUE)
               /\ ~b => s.owned = r.owned
               /\ Turns(r, s, E, C, G)
<1> DEFINE k == [r.claims[c] EXCEPT !.uncertain = TRUE]
           o == IF b THEN r.owned \ {c} ELSE r.owned
           s == MarkUncertain(r, c, b)
<1>1. CASE r.claims[c] = None
  <2>1. s = r
    BY <1>1 DEF MarkUncertain
  <2> HIDE DEF s
  <2> QED  BY <1>1, <2>1, TurnsSelf DEF s
<1>2. CASE r.claims[c] # None
  <2>1. r.claims[c] \in TopicProvisioning
    BY <1>2 DEF Fine, Types, SavedTypes
  <2>2. Marked(r.claims[c], k, TRUE)
    BY <2>1, MarkedIs
  <2>3. Reclaims(r, s, c, k, o)
    BY <1>2 DEF Reclaims, MarkUncertain, Fine, Shape
  <2>4. o \in {r.owned, r.owned \cup {c}, r.owned \ {c}} /\ (~b => o = r.owned)
    OBVIOUS
  <2>5. k \in TopicProvisioning \cup {None}
    BY <2>2 DEF Marked
  <2> HIDE DEF k, s, o
  <2>6. /\ Fine(s, E)
        /\ s.bind = r.bind /\ s.retired = r.retired
        /\ s.claims[c] = k /\ s.owned = o
        /\ Turns(r, s, E, C, G)
    BY <2>3, <2>4, <2>5, ClaimTurns
  <2> QED  BY <1>2, <2>2, <2>4, <2>6 DEF s
<1> QED  BY <1>1, <1>2

LEMMA DeferTurns ==
    ASSUME NEW r, NEW E, Fine(r, E), NEW c \in ClaimIds, r.claims[c] # None,
           NEW u \in BOOLEAN, NEW C, NEW G, c \in C
    PROVE  LET s == DeferRecreation(r, c, u)
           IN  /\ Fine(s, E)
               /\ s.bind = r.bind /\ s.retired = r.retired
               /\ Marked(r.claims[c], s.claims[c], u)
               /\ Turns(r, s, E, C, G)
<1> DEFINE k == [r.claims[c] EXCEPT !.uncertain = u]
           o == r.owned \ {c}
           s == DeferRecreation(r, c, u)
<1>1. r.claims[c] \in TopicProvisioning
  BY DEF Fine, Types, SavedTypes
<1>2. Marked(r.claims[c], k, u)
  BY <1>1, MarkedIs
<1>3. Reclaims(r, s, c, k, o)
  BY DEF Reclaims, DeferRecreation, Fine, Shape
<1>4. o \in {r.owned, r.owned \cup {c}, r.owned \ {c}}
  OBVIOUS
<1>5. k \in TopicProvisioning \cup {None}
  BY <1>2 DEF Marked
<1> HIDE DEF k, s, o
<1>6. /\ Fine(s, E)
      /\ s.bind = r.bind /\ s.retired = r.retired
      /\ s.claims[c] = k
      /\ Turns(r, s, E, C, G)
  BY <1>3, <1>4, <1>5, ClaimTurns
<1> QED  BY <1>2, <1>6 DEF s

\* The claim of a topic that is to be made again.
LEMMA PrepareTurns ==
    ASSUME NEW r, NEW E, Fine(r, E), NEW c \in ClaimIds, r.claims[c] # None,
           NEW C, NEW G, c \in C,
           r.claims[c].thread # None => r.claims[c].thread \in G
    PROVE  LET s == PrepareRecreation(r, c)
               k == r.claims[c]
               m == s.claims[c]
           IN  /\ Fine(s, E)
               /\ m \in TopicProvisioning /\ m # None
               /\ m.thread = None /\ m.target = k.target /\ m.uncertain
               /\ k.thread # None \/ k.retry # None => m.retry # None
               /\ c \in s.owned
               /\ Turns(r, s, E, C, G)
<1> DEFINE claim == r.claims[c]
           u == IF claim.thread = None THEN r
                ELSE DiscardAbsentTopic(r, claim.thread)
           x == IF claim.thread = None THEN claim.retry ELSE claim.thread
           m == [claim EXCEPT !.thread = None, !.uncertain = TRUE, !.retry = x]
           o == u.owned \cup {c}
           s == PrepareRecreation(r, c)
<1>1. claim \in TopicProvisioning
  BY DEF Fine, Types, SavedTypes
<1>2. claim.thread \in Topics \cup {None} /\ x \in Topics \cup {None}
  BY <1>1 DEF TopicProvisioning
<1>3. /\ m \in TopicProvisioning /\ m # None
      /\ m.thread = None /\ m.target = claim.target /\ m.uncertain = TRUE
      /\ m.retry = x
  <2>1. m \in TopicProvisioning
    BY <1>1, <1>2 DEF TopicProvisioning
  <2> HIDE DEF x, claim
  <2> QED  BY <1>1, <1>2, <2>1, RouterAssumption DEF TopicProvisioning
<1>4. Reclaims(u, s, c, m, o)
  BY DEF Reclaims, PrepareRecreation
<1>5. Fine(u, E) /\ Turns(r, u, E, C, G) /\ u.claims = r.claims
  <2>1. CASE claim.thread = None
    BY <2>1, TurnsSelf
  <2>2. CASE claim.thread # None
    <3>1. claim.thread \in Topics /\ claim.thread \in G
      BY <1>2, <2>2
    <3> HIDE DEF claim
    <3> QED  BY <2>2, <3>1, DiscardAbsentTurns
  <2> QED  BY <2>1, <2>2
<1>6. o \in {u.owned, u.owned \cup {c}, u.owned \ {c}} /\ c \in o
  OBVIOUS
<1>7. m \in TopicProvisioning \cup {None}
  BY <1>3
<1>8. claim.thread # None \/ claim.retry # None => x # None
  OBVIOUS
<1> HIDE DEF u, x, m, o, s
<1>9. Fine(s, E) /\ s.claims[c] = m /\ s.owned = o /\ Turns(u, s, E, C, G)
  BY <1>4, <1>5, <1>6, <1>7, ClaimTurns
<1>10. Turns(r, s, E, C, G)
  BY <1>5, <1>9, TurnsMore DEF Fine, Known
<1> QED  BY <1>3, <1>6, <1>8, <1>9, <1>10 DEF s

\* A claim that is dropped, which the methods below do.
LEMMA ReleaseTurns ==
    ASSUME NEW r, NEW E, Fine(r, E), NEW c \in ClaimIds, NEW C, NEW G, c \in C
    PROVE  LET s == [r EXCEPT !.claims[c] = None, !.owned = r.owned \ {c}]
           IN  /\ Fine(s, E)
               /\ s.bind = r.bind /\ s.retired = r.retired
               /\ s.claims[c] = None /\ c \notin s.owned
               /\ Turns(r, s, E, C, G)
<1> DEFINE k == None
           o == r.owned \ {c}
           s == [r EXCEPT !.claims[c] = None, !.owned = r.owned \ {c}]
<1>1. Reclaims(r, s, c, k, o)
  BY DEF Reclaims
<1>2. o \in {r.owned, r.owned \cup {c}, r.owned \ {c}} /\ c \notin o
  OBVIOUS
<1>3. k \in TopicProvisioning \cup {None} /\ k = None
  OBVIOUS
<1> HIDE DEF s, o, k
<1>4. /\ Fine(s, E)
      /\ s.bind = r.bind /\ s.retired = r.retired
      /\ s.claims[c] = k /\ s.owned = o
      /\ Turns(r, s, E, C, G)
  BY <1>1, <1>2, <1>3, ClaimTurns
<1> QED  BY <1>2, <1>3, <1>4 DEF s

\* A released claim leaves its topic listed, bound or known to be gone.
\* s is r without claim k of c, if the proofs allow to release it.
Aborted(r, s, c, k, release, G) ==
    /\ k = None \/ release => s.claims[c] = None
    /\ k # None /\ k.thread # None /\ s.claims[c] = None =>
          \/ s.bind[k.thread] # None
          \/ s.retired[k.thread] # None
          \/ k.thread \in G

LEMMA AbortTurns ==
    ASSUME NEW r, NEW E, Fine(r, E), NEW c \in ClaimIds,
           NEW a \in BOOLEAN, NEW b \in BOOLEAN, NEW C, NEW G, c \in C,
           b /\ r.claims[c] # None /\ r.claims[c].thread # None =>
              r.claims[c].thread \in G
    PROVE  LET s == Abort(r, c, a, b)
           IN  /\ Fine(s, E)
               /\ Aborted(r, s, c, r.claims[c], CanRelease(r.claims[c], a, b), G)
               /\ Turns(r, s, E, C, G)
<1> DEFINE k == r.claims[c]
           s == Abort(r, c, a, b)
           released == [r EXCEPT !.claims[c] = None, !.owned = r.owned \ {c}]
           marked == MarkUncertain(r, c, FALSE)
<1> SUFFICES /\ Fine(s, E)
             /\ k = None \/ CanRelease(k, a, b) => s.claims[c] = None
             /\ k # None /\ k.thread # None /\ s.claims[c] = None =>
                   \/ s.bind[k.thread] # None
                   \/ s.retired[k.thread] # None
                   \/ k.thread \in G
             /\ Turns(r, s, E, C, G)
  BY DEF Aborted
<1>1. /\ Fine(released, E)
      /\ released.bind = r.bind /\ released.retired = r.retired
      /\ released.claims[c] = None /\ c \notin released.owned
      /\ Turns(r, released, E, C, G)
  BY ReleaseTurns
<1> HIDE DEF released
<1>2. CASE k = None
  <2>1. s = r
    BY <1>2 DEF Abort
  <2> HIDE DEF s
  <2> QED  BY <1>2, <2>1, TurnsSelf DEF s
<1>3. CASE k # None /\ ~CanRelease(k, a, b)
  <2>1. s = marked
    <3>1. s = [r EXCEPT !.claims[c].uncertain = TRUE]
      BY <1>3 DEF Abort
    <3>2. marked = [r EXCEPT !.claims[c].uncertain = TRUE, !.owned = r.owned]
      BY <1>3 DEF MarkUncertain
    <3> QED  BY <3>1, <3>2 DEF Fine, Shape
  <2>2. /\ Fine(marked, E)
        /\ marked.retired = r.retired /\ marked.owned = r.owned
        /\ Marked(k, marked.claims[c], TRUE)
        /\ Turns(r, marked, E, C, G)
    BY <1>3, MarkTurns
  <2>3. ~a /\ marked.claims[c] # None
    BY <1>3, <2>2 DEF CanRelease, Marked
  <2> HIDE DEF s, marked
  <2> QED  BY <1>3, <2>1, <2>2, <2>3 DEF s
<1>4. CASE k # None /\ CanRelease(k, a, b)
  <2>1. k \in TopicProvisioning
    BY <1>4 DEF Fine, Types, SavedTypes
  <2>2. CASE k.thread = None
    <3>1. s = released
      BY <1>4, <2>2 DEF Abort, released
    <3> HIDE DEF s
    <3> QED  BY <1>1, <2>2, <3>1 DEF s
  <2>3. CASE k.thread # None /\ b
    <3>1. s = DiscardAbsentTopic(released, k.thread)
      BY <1>4, <2>3 DEF Abort, released
    <3>2. k.thread \in Topics /\ k.thread \in G
      BY <1>4, <2>1, <2>3 DEF TopicProvisioning
    <3> HIDE DEF s, k
    <3>3. /\ Fine(s, E) /\ Turns(released, s, E, C, G)
          /\ s.claims = released.claims /\ s.owned = released.owned
      BY <1>1, <3>1, <3>2, DiscardAbsentTurns
    <3>4. Turns(r, s, E, C, G)
      BY <1>1, <3>3, TurnsMore DEF Fine, Known
    <3> QED  BY <1>1, <3>2, <3>3, <3>4 DEF s, k
  <2>4. CASE k.thread # None /\ ~b /\ r.bind[k.thread] = None
    <3> DEFINE eligible == TRUE
               reason == "creation_failed"
    <3>1. s = Retire(released, k.thread, reason, eligible, k.target)
      BY <1>4, <2>4 DEF Abort, released
    <3>2. /\ k.thread \in Topics /\ k.target \in Windows \cup {None}
          /\ reason \in Reasons
      BY <2>1, <2>4 DEF TopicProvisioning, Reasons
    <3>3. eligible \in BOOLEAN
      OBVIOUS
    <3>4. k.thread \in E \/ eligible
      OBVIOUS
    <3>5. eligible
      OBVIOUS
    <3> HIDE DEF s, k, eligible, reason
    <3>6. /\ Fine(s, E)
          /\ s.claims = released.claims /\ s.owned = released.owned
          /\ eligible => s.retired[k.thread] # None
          /\ Turns(released, s, E, C, G)
      BY <1>1, <3>1, <3>2, <3>3, <3>4, RetireTurns
    <3>7. /\ Fine(s, E) /\ Turns(released, s, E, C, G)
          /\ s.claims = released.claims /\ s.owned = released.owned
          /\ s.retired[k.thread] # None
      BY <3>5, <3>6
    <3>8. Turns(r, s, E, C, G)
      BY <1>1, <3>7, TurnsMore DEF Fine, Known
    <3> QED  BY <1>1, <3>7, <3>8 DEF s, k
  <2>5. CASE k.thread # None /\ ~b /\ r.bind[k.thread] # None
    <3>1. s = released
      BY <1>4, <2>5 DEF Abort, released
    <3> HIDE DEF s
    <3> QED  BY <1>1, <2>5, <3>1 DEF s
  <2> QED  BY <2>2, <2>3, <2>4, <2>5
<1> QED  BY <1>2, <1>3, <1>4

LEMMA AbsentTurns ==
    ASSUME NEW r, NEW E, Fine(r, E), NEW c \in ClaimIds, r.claims[c] # None,
           r.claims[c].thread # None, NEW C, NEW G, c \in C
    PROVE  LET s == Abort(r, c, TRUE, FALSE)
               t == r.claims[c].thread
           IN  /\ s.claims[c] = None
               /\ s.bind[t] # None \/ s.retired[t] # None
               /\ Turns(r, s, E, C, G)
<1> DEFINE a == TRUE
           b == FALSE
           H == {}
           s == Abort(r, c, a, b)
           t == r.claims[c].thread
<1>1. /\ a \in BOOLEAN /\ b \in BOOLEAN
      /\ b /\ r.claims[c] # None /\ r.claims[c].thread # None =>
            r.claims[c].thread \in H
  OBVIOUS
<1>2. CanRelease(r.claims[c], a, b) /\ t \notin H
  BY DEF CanRelease
<1> HIDE DEF a, b, H
<1>3. /\ Aborted(r, s, c, r.claims[c], CanRelease(r.claims[c], a, b), H)
      /\ Turns(r, s, E, C, H)
  BY <1>1, AbortTurns
<1> HIDE DEF s, t
<1>4. Turns(r, s, E, C, G)
  BY <1>3 DEF H, Turns
<1>5. s.claims[c] = None /\ (s.bind[t] # None \/ s.retired[t] # None)
  BY <1>2, <1>3 DEF Aborted, t
<1> QED  BY <1>4, <1>5 DEF s, t, a, b

\* Claim c of s is new, and its task owns it.
Begun(s, c, t, target, kind) ==
    /\ s.claims[c] # None
    /\ s.claims[c].thread = t /\ s.claims[c].target = target
    /\ s.claims[c].kind = kind /\ s.claims[c].retry = None
    /\ c \in s.owned

LEMMA BeginTurns ==
    ASSUME NEW r, NEW E, Fine(r, E), NEW c \in ClaimIds,
           NEW t \in Topics \cup {None}, NEW target \in Windows \cup {None},
           NEW previous \in Windows \cup {None}, NEW kind \in Kinds,
           NEW C, NEW G, c \in C
    PROVE  LET s == Begin(r, c, t, target, previous, kind)
           IN  /\ Fine(s, E)
               /\ Begun(s, c, t, target, kind)
               /\ Turns(r, s, E, C, G)
<1> DEFINE k == [thread |-> t, target |-> target, previous |-> previous,
                 kind |-> kind, uncertain |-> FALSE, retry |-> None]
           o == r.owned \cup {c}
           s == Begin(r, c, t, target, previous, kind)
<1>1. /\ k \in TopicProvisioning /\ k.thread = t /\ k.target = target
      /\ k.kind = kind /\ k.retry = None
  BY DEF TopicProvisioning
<1>2. Reclaims(r, s, c, k, o)
  BY DEF Reclaims, Begin
<1>3. o \in {r.owned, r.owned \cup {c}, r.owned \ {c}} /\ c \in o
  OBVIOUS
<1>4. k \in TopicProvisioning \cup {None} /\ k # None
  BY <1>1, RouterAssumption
<1> HIDE DEF k, o, s
<1>5. /\ Fine(s, E)
      /\ s.bind = r.bind /\ s.retired = r.retired
      /\ s.claims[c] = k /\ s.owned = o
      /\ Turns(r, s, E, C, G)
  BY <1>2, <1>3, <1>4, ClaimTurns
<1>6. Begun(s, c, t, target, kind)
  BY <1>1, <1>3, <1>4, <1>5 DEF Begun
<1> QED  BY <1>5, <1>6 DEF s

LEMMA AttachTopicTurns ==
    ASSUME NEW r, NEW E, Fine(r, E), NEW c \in ClaimIds, r.claims[c] # None,
           NEW t \in Topics, NEW C, NEW G, c \in C
    PROVE  LET s == AttachTopic(r, c, t)
               m == s.claims[c]
           IN  /\ Fine(s, E)
               /\ s.bind = r.bind /\ s.retired = r.retired
               /\ m \in TopicProvisioning /\ m # None
               /\ m.thread = t /\ m.target = r.claims[c].target
               /\ s.owned = r.owned
               /\ Turns(r, s, E, C, G)
<1> DEFINE k == [r.claims[c] EXCEPT !.thread = t]
           o == r.owned
           s == AttachTopic(r, c, t)
<1>1. r.claims[c] \in TopicProvisioning
  BY DEF Fine, Types, SavedTypes
<1>2. /\ k \in TopicProvisioning /\ k.thread = t
      /\ k.target = r.claims[c].target
  BY <1>1 DEF TopicProvisioning
<1>3. Reclaims(r, s, c, k, o)
  BY DEF Reclaims, AttachTopic, Fine, Shape
<1>4. o \in {r.owned, r.owned \cup {c}, r.owned \ {c}} /\ o = r.owned
  OBVIOUS
<1>5. k \in TopicProvisioning \cup {None} /\ k # None
  BY <1>2, RouterAssumption
<1> HIDE DEF k, o, s
<1>6. /\ Fine(s, E)
      /\ s.bind = r.bind /\ s.retired = r.retired
      /\ s.claims[c] = k /\ s.owned = o
      /\ Turns(r, s, E, C, G)
  BY <1>3, <1>4, <1>5, ClaimTurns
<1> QED  BY <1>2, <1>4, <1>5, <1>6 DEF s

LEMMA AttachTargetTurns ==
    ASSUME NEW r, NEW E, Fine(r, E), NEW c \in ClaimIds, r.claims[c] # None,
           NEW w \in Windows, NEW C, NEW G, c \in C
    PROVE  LET s == AttachTarget(r, c, w)
               m == s.claims[c]
           IN  /\ Fine(s, E)
               /\ s.bind = r.bind /\ s.retired = r.retired
               /\ m \in TopicProvisioning /\ m # None
               /\ m.thread = r.claims[c].thread /\ m.target = w
               /\ s.owned = r.owned
               /\ Turns(r, s, E, C, G)
<1> DEFINE q == IF r.claims[c].target = None THEN r.claims[c].previous
                ELSE r.claims[c].target
           k == [r.claims[c] EXCEPT !.target = w, !.previous = q]
           o == r.owned
           s == AttachTarget(r, c, w)
<1>1. r.claims[c] \in TopicProvisioning
  BY DEF Fine, Types, SavedTypes
<1>2. CASE r.claims[c].target = w
  <2>1. s = r
    BY <1>2 DEF AttachTarget
  <2> HIDE DEF s
  <2> QED  BY <1>1, <1>2, <2>1, TurnsSelf DEF s
<1>3. CASE r.claims[c].target # w
  <2>1. /\ k \in TopicProvisioning /\ k.thread = r.claims[c].thread
        /\ k.target = w
    BY <1>1 DEF TopicProvisioning
  <2>2. Reclaims(r, s, c, k, o)
    BY <1>3 DEF Reclaims, AttachTarget, Fine, Shape
  <2>3. o \in {r.owned, r.owned \cup {c}, r.owned \ {c}} /\ o = r.owned
    OBVIOUS
  <2>4. k \in TopicProvisioning \cup {None} /\ k # None
    BY <2>1, RouterAssumption
  <2> HIDE DEF k, o, s
  <2>5. /\ Fine(s, E)
        /\ s.bind = r.bind /\ s.retired = r.retired
        /\ s.claims[c] = k /\ s.owned = o
        /\ Turns(r, s, E, C, G)
    BY <2>2, <2>3, <2>4, ClaimTurns
  <2> QED  BY <2>1, <2>3, <2>4, <2>5 DEF s
<1> QED  BY <1>2, <1>3

LEMMA CommitTurns ==
    ASSUME NEW r, NEW E, Fine(r, E), NEW c \in ClaimIds, CanCommit(r, c),
           NEW C, NEW G, c \in C
    PROVE  LET s == Commit(r, c)
           IN  /\ r.claims[c].thread \in BoundTopics(s)
               /\ s.claims[c] = None
               /\ Turns(r, s, E, C, G)
<1> DEFINE t == r.claims[c].thread
           w == r.claims[c].target
           u == Bind(r, t, w)
           s == Commit(r, c)
<1>1. t \in Topics /\ w \in Windows
  <2>1. r.claims[c] \in TopicProvisioning
    BY DEF CanCommit, Complete, Fine, Types, SavedTypes
  <2> QED  BY <2>1 DEF CanCommit, Complete, TopicProvisioning
<1>2. s = [u EXCEPT !.claims[c] = None, !.owned = u.owned \ {c}]
  BY DEF Commit
<1> HIDE DEF t, w, s
<1>3. /\ Fine(u, E \cup BoundTopics(u))
      /\ t \in BoundTopics(u)
      /\ Turns(r, u, E, C, G)
  BY <1>1, BindTurns
<1> HIDE DEF u
<1>4. /\ s.bind = u.bind /\ s.claims[c] = None
      /\ Turns(u, s, E \cup BoundTopics(u), C, G)
  BY <1>2, <1>3, ReleaseTurns
<1>5. BoundTopics(s) = BoundTopics(u)
  BY <1>4 DEF BoundTopics
<1>6. Turns(r, s, E, C, G)
  BY <1>3, <1>4, <1>5, TurnsMore
<1> QED  BY <1>3, <1>4, <1>5, <1>6 DEF s, t

-----------------------------------------------------------------------------
(* The invariant.                                                          *)

\* What is on disk is older than what is in memory, and has every claim.
File ==
    /\ SavedTypes(disk) /\ Numbered(disk, router.next)
    /\ Known(disk, everBound)
    /\ \A c \in ClaimIds : router.claims[c] # None => disk.claims[c] # None

Chat ==
    /\ remote = [t \in Topics |-> remote[t]]
    /\ madeFor = [t \in Topics |-> madeFor[t]]
    /\ \A t \in Topics : remote[t] = "none" => madeFor[t] = None

\* k is the claim of the creation that is under way for c.
Creating(c, k) ==
    /\ k # None /\ k.thread = None /\ k.target = job[c].win
    /\ job[c].keep => k.retry # None /\ k.uncertain
    /\ ~job[c].keep => k.retry = None /\ k.kind = "topic_for_target"

ShapeOfJob(k) ==
    k = [pc |-> k.pc, flow |-> k.flow, win |-> k.win, topic |-> k.topic,
         keep |-> k.keep, late |-> k.late]

ShapeOfRec(k) ==
    k = [pc |-> k.pc, claim |-> k.claim, snap |-> k.snap, dead |-> k.dead]

ShapeOfCleanup(k) == k = [pc |-> k.pc, seq |-> k.seq, closed |-> k.closed]

JobOk(c) ==
    /\ ShapeOfJob(job[c])
    /\ Working(c) =>
       \/ /\ job[c].flow = "create"
          /\ job[c].pc \in {"sent", "resent", "created", "refused", "unclear"}
          /\ job[c].win \in Windows
          /\ Creating(c, router.claims[c]) /\ Creating(c, disk.claims[c])
          /\ job[c].keep \in BOOLEAN /\ (job[c].keep => c \in router.owned)
          /\ job[c].pc = "created" =>
                job[c].topic \in Topics /\ madeFor[job[c].topic] = job[c].win
       \/ /\ job[c].flow # "create"
          /\ job[c].pc \in {"offer", "create", "made", "wait"}
          /\ c \in router.owned
          /\ job[c].topic \in Topics
          /\ router.claims[c] # None /\ router.claims[c].thread = job[c].topic
          /\ job[c].pc = "made" => job[c].win \in Windows
          /\ job[c].pc # "wait" => router.claims[c].target = None

\* Nothing is to be found out any more about the topic of such a claim.
Blind(k) == k.thread = None /\ (k.retry = None \/ k.uncertain)

ClearOk(p) ==
    LET c == rec[p].claim
        k == rec[p].snap
    IN  /\ router.claims[c] = k /\ disk.claims[c] = k
        /\ c \in router.owned
        /\ ~Working(c)
        /\ k.thread = None /\ k.uncertain /\ k.retry # None
        /\ \A q \in Recoverers \ {p} : rec[q].pc = "clear" => rec[q].claim # c

RecOk(p) ==
    LET k == rec[p].snap
    IN  /\ ShapeOfRec(rec[p])
        /\ rec[p].pc # "idle" => /\ rec[p].claim \in ClaimIds
                                 /\ k \in TopicProvisioning
                                 /\ k.target # None
        /\ rec[p].pc \notin {"idle", "clear", "create"} => ~Blind(k)
        /\ rec[p].pc = "presence" => k.thread # None
        /\ rec[p].pc \in {"lock", "recreate", "agent"} /\ k.thread # None =>
              remote[k.thread] = "gone"
        /\ rec[p].pc = "clear" => ClearOk(p)

Tasks ==
    /\ job = [c \in ClaimIds |-> job[c]]
    /\ rec = [p \in Recoverers |-> rec[p]]
    /\ \A c \in ClaimIds : JobOk(c)
    /\ \A p \in Recoverers : RecOk(p)

LetGo(d, t) == d.bind[t] = None /\ ~HasTopicClaim(d, t)

\* What is being deleted is marked in memory, and is free on disk.
Deletes ==
    /\ cleanup = [t \in Topics |-> cleanup[t]]
    /\ \A t \in Topics : ShapeOfCleanup(cleanup[t])
    /\ \A t \in Topics : cleanup[t].pc # "idle" =>
          /\ t \in router.deleting /\ LetGo(disk, t)
          /\ cleanup[t].closed \in BOOLEAN

TraceInv ==
    IInv /\ Fine(router, everBound) /\ File /\ Chat /\ Tasks /\ Deletes

\* The claims on which a topic whose claim does not name it may depend: no
\* request of theirs is open, unless it is the one that made the topic.
Waiting(t) ==
    {c \in ClaimIds :
        /\ Working(c) => /\ job[c].flow = "create"
                         /\ \/ job[c].pc = "unclear"
                            \/ job[c].pc = "created" /\ job[c].topic = t
        /\ \A p \in Recoverers : rec[p].pc = "clear" => rec[p].claim # c}

\* Claim k of c accounts for topic t, which was made for window w.
Holds(k, c, t, w, S) ==
    /\ k # None /\ k.target = w
    /\ k.thread = t \/ (Blind(k) /\ c \in S)

Cover(r, t, w, S) ==
    \/ r.retired[t] # None
    \/ \E c \in ClaimIds : Holds(r.claims[c], c, t, w, S)

\* The bot made topic t, it is there, and it was never bound.
Unbound(t) == Asked(t) /\ t \notin everBound

Covered ==
    \A t \in Topics : Unbound(t) =>
        /\ Cover(router, t, madeFor[t], Waiting(t))
        /\ Cover(disk, t, madeFor[t], Waiting(t))

Alone(d) ==
    \A t, u \in Topics :
        /\ Unbound(t) /\ Unbound(u) /\ madeFor[t] = madeFor[u]
        /\ d.retired[t] = None /\ d.retired[u] = None
        => t = u

CoverInv == Covered /\ Alone(router) /\ Alone(disk)

-----------------------------------------------------------------------------
(* One step, of a task that works for the claims C.                        *)

Same(r, s) ==
    /\ r.bind = s.bind /\ r.retired = s.retired /\ r.claims = s.claims
    /\ r.owned = s.owned /\ r.next = s.next

\* The record becomes s, and r goes to the file if anything does.
Written(r, s, C, G) ==
    /\ Turns(router, r, everBound, C, G) /\ Turns(router, s, everBound, C, G)
    /\ BoundTopics(r) \subseteq everBound \cup BoundTopics(s)
    /\ r.next <= s.next
    /\ Same(router', s)
    /\ everBound' = everBound \cup BoundTopics(s)
    /\ disk' = disk \/ disk' = Durable(r)

\* No topic is made for a window, and those of G are gone.
ChatKept(G) ==
    /\ madeFor' = madeFor
    /\ remote' = [t \in Topics |-> remote'[t]]
    /\ \A t \in Topics :
          /\ remote'[t] = "none" => remote[t] = "none"
          /\ remote[t] = "gone" \/ t \in G => remote'[t] = "gone"
          /\ madeFor[t] # None /\ remote'[t] \in {"open", "closed"} =>
                remote[t] \in {"open", "closed"}

\* What is known of the chat stays true, though a topic may be made.
ChatGrows ==
    \A t \in Topics : /\ madeFor[t] # None => madeFor'[t] = madeFor[t]
                      /\ remote[t] = "gone" => remote'[t] = "gone"

\* Only the tasks of claims C move on, or look at them.
TasksKept(C) ==
    /\ job' = [c \in ClaimIds |-> job'[c]]
    /\ rec' = [p \in Recoverers |-> rec'[p]]
    /\ \A c \in ClaimIds \ C : job'[c] = job[c]
    /\ \A c \in ClaimIds \cap C : JobOk(c)'
    /\ \A p \in Recoverers :
          \/ rec'[p] = NoRec
          \/ rec'[p] = rec[p] /\ (rec[p].pc = "clear" => rec[p].claim \notin C)
          \/ RecOk(p)' /\ (rec'[p].pc = "clear" => rec'[p].claim \in C)

LEMMA FineStep ==
    ASSUME TraceInv, NEW r, NEW s, NEW C, NEW G, Written(r, s, C, G), Shape(router')
    PROVE  Fine(router', everBound')
<1>1. Fine(s, everBound') /\ Same(router', s)
  BY DEF Written, Turns
<1>2. Types(router') /\ Known(router', everBound')
  BY <1>1 DEF Same, Fine, Types, SavedTypes, Numbered, Known, BoundTopics
<1> QED  BY <1>2 DEF Fine

LEMMA FileStep ==
    ASSUME TraceInv, NEW r, NEW s, NEW C, NEW G, Written(r, s, C, G),
           \A c \in ClaimIds \cap C : s.claims[c] # None => disk'.claims[c] # None
    PROVE  File'
<1>1. /\ router'.claims = s.claims /\ router'.next = s.next
      /\ everBound' = everBound \cup BoundTopics(s)
  BY DEF Written, Same
<1>2. \A c \in ClaimIds \ C : s.claims[c] = router.claims[c] /\ r.claims[c] = router.claims[c]
  BY DEF Written, Turns
<1>3. CASE disk' = disk
  <2>1. SavedTypes(disk')
    BY <1>3 DEF TraceInv, File
  <2>2. Numbered(disk', router'.next)
    <3>1. \A t \in Topics : disk.retired[t] # None => disk.retired[t].seq \in Nat
      BY DEF TraceInv, File, SavedTypes, RetiredTopic
    <3>2. router.next \in Nat /\ s.next \in Nat /\ router.next <= s.next
      BY DEF TraceInv, Written, Turns, Fine, Types
    <3> QED  BY <1>1, <1>3, <3>1, <3>2 DEF TraceInv, File, Numbered
  <2>3. Known(disk', everBound')
    BY <1>1, <1>3 DEF TraceInv, File, Known
  <2>4. \A c \in ClaimIds : router'.claims[c] # None => disk'.claims[c] # None
    BY <1>1, <1>2, <1>3 DEF TraceInv, File
  <2> QED  BY <2>1, <2>2, <2>3, <2>4 DEF File
<1>4. CASE disk' = Durable(r)
  <2>1. /\ disk'.bind = r.bind /\ disk'.retired = r.retired
        /\ disk'.claims = r.claims
    BY <1>4 DEF Durable
  <2>2. Fine(r, everBound') /\ r.next \in Nat /\ r.next <= s.next /\ s.next \in Nat
    BY <1>1, FineMore DEF Written, Turns, Fine, Types
  <2>3. SavedTypes(disk')
    BY <2>1, <2>2 DEF Fine, Types, SavedTypes
  <2>4. Numbered(disk', router'.next)
    <3>1. \A t \in Topics : r.retired[t] # None => r.retired[t].seq \in Nat
      BY <2>2 DEF Fine, Types, SavedTypes, RetiredTopic
    <3> QED  BY <1>1, <2>1, <2>2, <3>1 DEF Fine, Types, Numbered
  <2>5. Known(disk', everBound')
    BY <2>1, <2>2 DEF Fine, Known, BoundTopics
  <2>6. \A c \in ClaimIds : router'.claims[c] # None => disk'.claims[c] # None
    BY <1>1, <1>2, <2>1
  <2> QED  BY <2>3, <2>4, <2>5, <2>6 DEF File
<1> QED  BY <1>3, <1>4 DEF Written

LEMMA ChatStep ==
    ASSUME TraceInv, NEW G, ChatKept(G)
    PROVE  Chat'
BY DEF TraceInv, ChatKept, Chat

LEMMA TasksStep ==
    ASSUME TraceInv, NEW r, NEW s, NEW C, NEW G, Written(r, s, C, G), ChatGrows,
           TasksKept(C)
    PROVE  Tasks'
<1>1. \A c \in ClaimIds \ C : /\ router'.claims[c] = router.claims[c]
                              /\ disk'.claims[c] \in {disk.claims[c], router.claims[c]}
                              /\ c \in router'.owned <=> c \in router.owned
                              /\ job'[c] = job[c]
  BY DEF Written, Same, Turns, Durable, TasksKept
<1>2. ASSUME NEW c \in ClaimIds \ C
      PROVE  JobOk(c)'
  <2>1. JobOk(c)
    BY DEF TraceInv, Tasks
  <2>2. job[c].topic \in Topics /\ madeFor[job[c].topic] = job[c].win
            /\ job[c].win \in Windows =>
          madeFor'[job[c].topic] = job[c].win
    BY RouterAssumption DEF ChatGrows
  <2> QED  BY <1>1, <2>1, <2>2 DEF JobOk, Creating, Working
<1>3. ASSUME NEW p \in Recoverers
      PROVE  RecOk(p)'
  <2>1. CASE rec'[p] = NoRec
    BY <2>1 DEF NoRec, RecOk, ShapeOfRec
  <2>2. CASE rec'[p] = rec[p] /\ (rec[p].pc = "clear" => rec[p].claim \notin C)
    <3>1. RecOk(p)
      BY DEF TraceInv, Tasks
    <3>2. rec[p].snap.thread # None /\ remote[rec[p].snap.thread] = "gone"
            /\ rec[p].snap \in TopicProvisioning =>
          remote'[rec[p].snap.thread] = "gone"
      BY DEF ChatGrows, TopicProvisioning
    <3>3. rec[p].pc = "clear" => ClearOk(p)'
      <4> SUFFICES ASSUME rec[p].pc = "clear"
                   PROVE  ClearOk(p)'
        OBVIOUS
      <4> DEFINE c == rec[p].claim
      <4>1. c \in ClaimIds \ C /\ ClearOk(p)
        BY <2>2, <3>1 DEF RecOk
      <4>2. \A q \in Recoverers \ {p} : rec'[q].pc = "clear" => rec'[q].claim # c
        BY <4>1 DEF TasksKept, NoRec, ClearOk
      <4> QED  BY <1>1, <2>2, <4>1, <4>2 DEF ClearOk, Working
    <3> QED  BY <2>2, <3>1, <3>2, <3>3 DEF RecOk
  <2> QED  BY <2>1, <2>2 DEF TasksKept
<1> QED  BY <1>2, <1>3 DEF TasksKept, Tasks

\* What claim c accounts for in memory, x lists or accounts for after the step.
HoldsOn(x, c) ==
    \A t \in Topics :
        Unbound(t)' /\ Holds(router.claims[c], c, t, madeFor[t], Waiting(t)) =>
            \/ x.retired[t] # None
            \/ Holds(x.claims[c], c, t, madeFor[t], Waiting(t)')

\* What claim c accounts for on disk it still does if the file is left alone.
FileHoldsOn(c) ==
    \A t \in Topics :
        Unbound(t)' /\ Holds(disk.claims[c], c, t, madeFor[t], Waiting(t)) =>
            Holds(disk.claims[c], c, t, madeFor[t], Waiting(t)')

LEMMA CoverStep ==
    ASSUME TraceInv, CoverInv, NEW r, NEW s, NEW C, NEW G,
           Written(r, s, C, G), ChatKept(G), TasksKept(C),
           \A c \in ClaimIds \cap C : HoldsOn(r, c) /\ HoldsOn(s, c),
           disk' # Durable(r) => \A c \in ClaimIds \cap C : FileHoldsOn(c)
    PROVE  CoverInv'
<1>1. \A t \in Topics : Unbound(t)' => /\ Unbound(t) /\ t \notin G
                                       /\ t \notin everBound \cup BoundTopics(s)
                                       /\ madeFor'[t] = madeFor[t]
  BY DEF Unbound, Asked, ChatKept, Written
<1>2. ASSUME NEW c \in ClaimIds \ C, NEW t \in Topics, c \in Waiting(t)
      PROVE  c \in Waiting(t)'
  <2>1. job'[c] = job[c]
    BY DEF TasksKept
  <2>2. ASSUME NEW p \in Recoverers, rec'[p].pc = "clear"
        PROVE  rec'[p].claim # c
    BY <1>2, <2>2 DEF TasksKept, NoRec, Waiting
  <2> QED  BY <1>2, <2>1, <2>2 DEF Waiting, Working
<1>3. ASSUME NEW t \in Topics, Unbound(t)', router.retired[t] # None
      PROVE  r.retired[t] # None /\ s.retired[t] # None
  <2>1. t \notin everBound \cup BoundTopics(r) \cup G
    BY <1>1, <1>3 DEF Written
  <2>2. t \notin everBound \cup BoundTopics(s) \cup G
    BY <1>1, <1>3
  <2> QED  BY <1>3, <2>1, <2>2 DEF Written, Turns
<1>4. ASSUME NEW t \in Topics, Unbound(t)', NEW x \in {r, s}
      PROVE  Cover(x, t, madeFor[t], Waiting(t)')
  <2>1. Cover(router, t, madeFor[t], Waiting(t))
    BY <1>1, <1>4 DEF CoverInv, Covered
  <2>2. CASE router.retired[t] # None
    BY <1>3, <1>4, <2>2 DEF Cover
  <2>3. ASSUME NEW c \in ClaimIds, Holds(router.claims[c], c, t, madeFor[t], Waiting(t))
        PROVE  Cover(x, t, madeFor[t], Waiting(t)')
    <3>1. CASE c \in C
      BY <1>4, <2>3, <3>1 DEF HoldsOn, Cover
    <3>2. CASE c \notin C
      <4>1. x.claims[c] = router.claims[c]
        BY <3>2 DEF Written, Turns
      <4>2. Holds(router.claims[c], c, t, madeFor[t], Waiting(t)')
        BY <1>2, <2>3, <3>2 DEF Holds
      <4> QED  BY <4>1, <4>2 DEF Cover
    <3> QED  BY <3>1, <3>2
  <2> QED  BY <2>1, <2>2, <2>3 DEF Cover
<1>5. ASSUME NEW t \in Topics, Unbound(t)', disk' # Durable(r)
      PROVE  Cover(disk, t, madeFor[t], Waiting(t)')
  <2>1. Cover(disk, t, madeFor[t], Waiting(t))
    BY <1>1, <1>5 DEF CoverInv, Covered
  <2>2. ASSUME NEW c \in ClaimIds, Holds(disk.claims[c], c, t, madeFor[t], Waiting(t))
        PROVE  Holds(disk.claims[c], c, t, madeFor[t], Waiting(t)')
    <3>1. CASE c \in C
      BY <1>5, <2>2, <3>1 DEF FileHoldsOn
    <3>2. CASE c \notin C
      BY <1>2, <2>2, <3>2 DEF Holds
    <3> QED  BY <3>1, <3>2
  <2> QED  BY <2>1, <2>2 DEF Cover
<1>6. /\ router'.retired = s.retired /\ router'.claims = s.claims
      /\ \/ disk' = disk
         \/ disk'.retired = r.retired /\ disk'.claims = r.claims
  BY DEF Written, Same, Durable
<1>7. disk' = Durable(r) => disk'.retired = r.retired /\ disk'.claims = r.claims
  BY DEF Durable
<1>8. disk' = Durable(r) \/ disk' = disk
  BY DEF Written
<1>9. Covered'
  <2> SUFFICES ASSUME NEW t \in Topics, Unbound(t)'
               PROVE  /\ Cover(router', t, madeFor'[t], Waiting(t)')
                      /\ Cover(disk', t, madeFor'[t], Waiting(t)')
    BY DEF Covered
  <2>1. madeFor'[t] = madeFor[t]
    BY <1>1
  <2>2. Cover(router', t, madeFor[t], Waiting(t)')
    BY <1>4, <1>6 DEF Cover
  <2>3. Cover(disk', t, madeFor[t], Waiting(t)')
    BY <1>4, <1>5, <1>7, <1>8 DEF Cover
  <2> QED  BY <2>1, <2>2, <2>3
<1>10. Alone(router)'
  <2> SUFFICES ASSUME NEW t \in Topics, NEW u \in Topics, Unbound(t)', Unbound(u)',
                      madeFor'[t] = madeFor'[u],
                      router'.retired[t] = None, router'.retired[u] = None
               PROVE  t = u
    BY DEF Alone
  <2> QED  BY <1>1, <1>3, <1>6 DEF CoverInv, Alone
<1>11. Alone(disk)'
  <2> SUFFICES ASSUME NEW t \in Topics, NEW u \in Topics, Unbound(t)', Unbound(u)',
                      madeFor'[t] = madeFor'[u],
                      disk'.retired[t] = None, disk'.retired[u] = None
               PROVE  t = u
    BY DEF Alone
  <2> QED  BY <1>1, <1>3, <1>6 DEF CoverInv, Alone
<1> QED  BY <1>9, <1>10, <1>11 DEF CoverInv

\* The body of ReleaseLeavesTrace.
Leaves ==
    \A c \in ClaimIds, t \in Topics :
        /\ router.claims[c] # None /\ router.claims[c].thread = t
        /\ router'.claims[c] = None
        => \/ router'.bind[t] # None
           \/ router'.retired[t] # None
           \/ remote'[t] = "gone"

LEMMA LeavesStep ==
    ASSUME NEW r, NEW s, NEW C, NEW G, Written(r, s, C, G), ChatKept(G),
           \A c \in ClaimIds \cap C :
              /\ router.claims[c] # None /\ router.claims[c].thread \in Topics
              /\ s.claims[c] = None
              => \/ s.bind[router.claims[c].thread] # None
                 \/ s.retired[router.claims[c].thread] # None
                 \/ router.claims[c].thread \in G
    PROVE  Leaves
<1>1. \A c \in ClaimIds \ C : router'.claims[c] = router.claims[c]
  BY DEF Written, Turns, Same
<1>2. /\ router'.bind = s.bind /\ router'.retired = s.retired
      /\ router'.claims = s.claims
  BY DEF Written, Same
<1>3. \A t \in Topics \cap G : remote'[t] = "gone"
  BY DEF ChatKept
<1> QED  BY <1>1, <1>2, <1>3 DEF Leaves

ClaimKept(c, r, s, G) ==
    /\ s.claims[c] # None => disk'.claims[c] # None
    /\ HoldsOn(r, c) /\ HoldsOn(s, c)
    /\ disk' # Durable(r) => FileHoldsOn(c)
    /\ /\ router.claims[c] # None /\ router.claims[c].thread \in Topics
       /\ s.claims[c] = None
       => \/ s.bind[router.claims[c].thread] # None
          \/ s.retired[router.claims[c].thread] # None
          \/ router.claims[c].thread \in G

\* What is shown of each step, but for IInv.
After ==
    /\ Fine(router', everBound') /\ File' /\ Chat' /\ Tasks' /\ Deletes'
    /\ Leaves
    /\ CoverInv => CoverInv'

LEMMA StepKeeps ==
    ASSUME TraceInv, IInv', Deletes', NEW r, NEW s, NEW C, NEW G,
           Written(r, s, C, G), ChatKept(G), TasksKept(C),
           \A c \in ClaimIds \cap C : ClaimKept(c, r, s, G)
    PROVE  After
<1>1. Fine(router', everBound')
  <2>1. Shape(router')
    BY DEF IInv, Consistent
  <2> QED  BY <2>1, FineStep
<1>2. File'
  <2>1. \A c \in ClaimIds \cap C : s.claims[c] # None => disk'.claims[c] # None
    BY DEF ClaimKept
  <2> QED  BY <2>1, FileStep
<1>3. Chat' /\ Tasks'
  <2>1. ChatGrows
    BY DEF ChatKept, ChatGrows
  <2> QED  BY <2>1, ChatStep, TasksStep
<1>4. Leaves
  <2>1. \A c \in ClaimIds \cap C :
           /\ router.claims[c] # None /\ router.claims[c].thread \in Topics
           /\ s.claims[c] = None
           => \/ s.bind[router.claims[c].thread] # None
              \/ s.retired[router.claims[c].thread] # None
              \/ router.claims[c].thread \in G
    BY DEF ClaimKept
  <2> QED  BY <2>1, LeavesStep
<1>5. CoverInv => CoverInv'
  <2>1. \A c \in ClaimIds \cap C : HoldsOn(r, c) /\ HoldsOn(s, c)
    BY DEF ClaimKept
  <2>2. disk' # Durable(r) => \A c \in ClaimIds \cap C : FileHoldsOn(c)
    BY DEF ClaimKept
  <2> QED  BY <2>1, <2>2, CoverStep
<1> QED  BY <1>1, <1>2, <1>3, <1>4, <1>5 DEF After

\* Every save, and a change without one, as far as it concerns record s alone.
LEMMA OneWritten ==
    ASSUME NEW s, NEW C, NEW G, Turns(router, s, everBound, C, G), Becomes(s),
           disk' = disk \/ disk' = Durable(s)
    PROVE  Written(s, s, C, G)
<1>1. s.next <= s.next
  BY DEF Turns, Fine, Types
<1> QED  BY <1>1 DEF Written, Becomes, Same

LEMMA BothWritten ==
    ASSUME NEW r, NEW s, NEW C, NEW G,
           Turns(router, r, everBound, C, G), Turns(router, s, everBound, C, G),
           BoundTopics(r) \subseteq everBound, r.next <= s.next, Becomes(s),
           disk' = disk \/ disk' = Durable(r)
    PROVE  Written(r, s, C, G)
BY DEF Written, Becomes, Same

LEMMA QuietWritten ==
    ASSUME TraceInv, UNCHANGED <<router, disk, everBound>>, NEW C, NEW G
    PROVE  Written(router, router, C, G)
<1>1. Turns(router, router, everBound, C, G)
  BY TurnsSelf DEF TraceInv
<1>2. BoundTopics(router) \subseteq everBound
  BY DEF TraceInv, Fine, Known
<1> QED  BY <1>1, <1>2, OneWritten DEF Becomes

LEMMA ChatSame ==
    ASSUME TraceInv, UNCHANGED <<remote, madeFor>>
    PROVE  ChatKept({})
BY DEF TraceInv, Chat, ChatKept

LEMMA TasksSame ==
    ASSUME TraceInv, UNCHANGED <<job, rec>>
    PROVE  TasksKept({})
BY DEF TraceInv, Tasks, TasksKept

-----------------------------------------------------------------------------
(* Deletions in flight.                                                    *)

LEMMA FreeOnDisk ==
    ASSUME NEW r, Consistent(r), NEW t \in r.deleting
    PROVE  LetGo(Durable(r), t)
BY DEF Consistent, FreeDeleting, LetGo, HasTopicClaim, Durable

LEMMA DeletesKept ==
    ASSUME TraceInv, NEW r, Consistent(r), r.deleting = router.deleting,
           disk' = disk \/ disk' = Durable(r),
           router'.deleting = router.deleting, cleanup' = cleanup
    PROVE  Deletes'
<1> SUFFICES ASSUME NEW t \in Topics, cleanup[t].pc # "idle"
             PROVE  t \in router'.deleting /\ LetGo(disk', t)
  BY DEF TraceInv, Deletes
<1>1. t \in router.deleting /\ LetGo(disk, t)
  BY DEF TraceInv, Deletes
<1>2. LetGo(Durable(r), t)
  BY <1>1, FreeOnDisk
<1> QED  BY <1>1, <1>2

LEMMA DeletesQuiet ==
    ASSUME TraceInv, UNCHANGED <<router, disk, cleanup>>
    PROVE  Deletes'
BY DeletesKept DEF TraceInv, IInv

\* cleanup_retired_topic writes r and may take topic t into deletion.
LEMMA StartCleanupStep ==
    ASSUME TraceInv, NEW r, NEW t \in Topics, NEW pc, NEW C, NEW G,
           Consistent(r), Turns(router, r, everBound, C, G),
           StartCleanup(r, t, pc)
    PROVE  Written(r, r, C, G) /\ Deletes'
<1>1. r.deleting = router.deleting /\ Shape(r)
  BY DEF Turns, Fine
<1>2. CASE Becomes(r) /\ (disk' = disk \/ disk' = Durable(r)) /\ cleanup' = cleanup
  <2>1. router'.deleting = router.deleting
    BY <1>1, <1>2 DEF Becomes
  <2> QED  BY <1>1, <1>2, <2>1, OneWritten, DeletesKept
<1>3. CASE /\ CanBeginDeletion(r, t, r.retired[t].seq)
           /\ Becomes(BeginDeletion(r, t)) /\ disk' = Durable(r)
           /\ cleanup' = [cleanup EXCEPT ![t] =
                            [pc |-> pc, seq |-> r.retired[t].seq,
                             closed |-> r.retired[t].closed]]
  <2>1. /\ router' = BeginDeletion(r, t)
        /\ Same(BeginDeletion(r, t), r)
        /\ BeginDeletion(r, t).deleting = r.deleting \cup {t}
    BY <1>1, <1>3 DEF Becomes, BeginDeletion, Same, Shape
  <2>2. everBound' = everBound \cup BoundTopics(r)
    BY <1>3, <2>1 DEF Becomes, BoundTopics, Same
  <2>3. Written(r, r, C, G)
    <3>1. r.next <= r.next
      BY DEF Turns, Fine, Types
    <3> QED  BY <1>3, <2>1, <2>2, <3>1 DEF Written
  <2>4. ASSUME NEW u \in Topics, cleanup'[u].pc # "idle"
        PROVE  /\ u \in router'.deleting /\ LetGo(disk', u)
               /\ cleanup'[u].closed \in BOOLEAN
    <3>1. CASE u = t
      <4>1. LetGo(disk', u)
        BY <1>3, <3>1 DEF CanBeginDeletion, LetGo, HasTopicClaim, Durable
      <4>2. r.retired[t].closed \in BOOLEAN
        BY <1>3 DEF CanBeginDeletion, StillListed, Listed, Turns, Fine, Types,
                    SavedTypes, RetiredTopic
      <4>3. cleanup'[t].closed = r.retired[t].closed
        BY <1>3 DEF TraceInv, Deletes
      <4> QED  BY <2>1, <3>1, <4>1, <4>2, <4>3
    <3>2. CASE u # t
      <4>1. u \in r.deleting /\ cleanup'[u].closed \in BOOLEAN
        BY <1>1, <1>3, <2>4, <3>2 DEF TraceInv, Deletes
      <4> QED  BY <1>3, <2>1, <4>1, FreeOnDisk
    <3> QED  BY <3>1, <3>2
  <2>5. cleanup' = [u \in Topics |-> cleanup'[u]]
    BY <1>3 DEF TraceInv, Deletes
  <2>6. \A u \in Topics : ShapeOfCleanup(cleanup'[u])
    BY <1>3 DEF TraceInv, Deletes, ShapeOfCleanup
  <2> QED  BY <2>3, <2>4, <2>5, <2>6 DEF Deletes
<1> QED  BY <1>2, <1>3 DEF StartCleanup, Save, SaveAfterFault

\* The deletion of topic t ends; y is the record before it is marked free.
LEMMA EndDeletionStep ==
    ASSUME TraceInv, NEW y, NEW t \in Topics, NEW C, NEW G,
           Consistent(y), Turns(router, y, everBound, C, G), EndCleanup(t),
           Becomes(EndDeletion(y, t)),
           disk' = disk \/ disk' = Durable(EndDeletion(y, t))
    PROVE  Written(y, y, C, G) /\ Deletes'
<1> DEFINE x == EndDeletion(y, t)
<1>1. /\ Same(x, y) /\ x.deleting = y.deleting \ {t} /\ Durable(x) = Durable(y)
      /\ y.deleting = router.deleting
  BY DEF Turns, Fine, Shape, EndDeletion, Same, Durable
<1>2. Consistent(x)
  BY EndDeletionConsistent
<1> HIDE DEF x
<1>3. router' = x /\ everBound' = everBound \cup BoundTopics(y)
  BY <1>1 DEF x, Becomes, BoundTopics, Same
<1>4. disk' = disk \/ disk' = Durable(x)
  BY DEF x
<1>5. Written(y, y, C, G)
  <2>1. y.next <= y.next
    BY DEF Turns, Fine, Types
  <2> QED  BY <1>1, <1>3, <1>4, <2>1 DEF Written
<1>6. ASSUME NEW u \in Topics, cleanup'[u].pc # "idle"
      PROVE  /\ u \in router'.deleting /\ LetGo(disk', u)
             /\ cleanup'[u].closed \in BOOLEAN
  <2>1. u # t /\ cleanup'[u] = cleanup[u]
    BY <1>6 DEF EndCleanup, NoCleanup, TraceInv, Deletes
  <2>2. u \in x.deleting /\ LetGo(disk, u) /\ cleanup'[u].closed \in BOOLEAN
    BY <1>1, <1>6, <2>1 DEF TraceInv, Deletes
  <2> QED  BY <1>2, <1>3, <1>4, <2>2, FreeOnDisk
<1>7. cleanup' = [u \in Topics |-> cleanup'[u]]
  BY DEF EndCleanup, TraceInv, Deletes
<1>8. \A u \in Topics : ShapeOfCleanup(cleanup'[u])
  BY DEF EndCleanup, NoCleanup, TraceInv, Deletes, ShapeOfCleanup
<1> QED  BY <1>5, <1>6, <1>7, <1>8 DEF Deletes

-----------------------------------------------------------------------------
(* Tasks that begin and end.                                               *)

LEMMA EndJobTasks ==
    ASSUME TraceInv, NEW c \in ClaimIds, Working(c), EndJob(c)
    PROVE  TasksKept({c}) /\ \A t : c \in Waiting(t)'
<1>1. /\ job' = [d \in ClaimIds |-> job'[d]] /\ rec' = [p \in Recoverers |-> rec'[p]]
      /\ job'[c] = NoJob /\ \A d \in ClaimIds \ {c} : job'[d] = job[d]
      /\ \A p \in Recoverers : rec'[p] \in {NoRec, rec[p]}
  BY DEF EndJob, TraceInv, Tasks
<1>2. ~Working(c)'
  BY <1>1 DEF Working, NoJob
<1>3. \A p \in Recoverers : rec[p].pc = "clear" => rec[p].claim # c
  BY DEF TraceInv, Tasks, RecOk, ClearOk
<1>4. TasksKept({c})
  BY <1>1, <1>2, <1>3 DEF TasksKept, JobOk, NoJob, ShapeOfJob
<1>5. \A p \in Recoverers : rec'[p].pc = "clear" => rec'[p].claim # c
  BY <1>1, <1>3 DEF NoRec
<1> QED  BY <1>2, <1>4, <1>5 DEF Waiting

\* What claim c accounts for, x lists or accounts for without a request.
Passes(x, c) ==
    \A t \in Topics :
        Unbound(t)' /\ Holds(router.claims[c], c, t, madeFor[t], Waiting(t)) =>
            \/ x.retired[t] # None
            \/ /\ x.claims[c] # None /\ x.claims[c].target = madeFor[t]
               /\ x.claims[c].thread = t \/ Blind(x.claims[c])

LEMMA JobEnds ==
    ASSUME TraceInv, IInv', Deletes', NEW c \in ClaimIds, Working(c), EndJob(c),
           UNCHANGED <<remote, madeFor>>,
           NEW r, NEW s, Written(r, s, {c}, {}), Passes(r, c), Passes(s, c),
           s.claims[c] # None => r.claims[c] # None,
           /\ router.claims[c].thread \in Topics /\ s.claims[c] = None
           => \/ s.bind[router.claims[c].thread] # None
              \/ s.retired[router.claims[c].thread] # None
    PROVE  After
<1>1. TasksKept({c}) /\ \A t : c \in Waiting(t)'
  BY EndJobTasks
<1>2. HoldsOn(r, c) /\ HoldsOn(s, c) /\ FileHoldsOn(c)
  BY <1>1 DEF Passes, HoldsOn, FileHoldsOn, Holds
<1>3. s.claims[c] # None => disk'.claims[c] # None
  <2>1. router.claims[c] # None
    BY DEF TraceInv, Tasks, JobOk, Creating
  <2>2. disk.claims[c] # None
    BY <2>1 DEF TraceInv, File
  <2> QED  BY <2>2 DEF Written, Durable
<1>4. ClaimKept(c, r, s, {})
  BY <1>2, <1>3 DEF ClaimKept
<1>5. ChatKept({})
  BY ChatSame
<1> QED  BY <1>1, <1>4, <1>5, StepKeeps

\* The claim of a job that is marked or left alone keeps what it accounts for.
LEMMA MarkPasses ==
    ASSUME NEW c, NEW x, Marked(router.claims[c], x.claims[c], TRUE)
    PROVE  Passes(x, c)
BY DEF Marked, Passes, Holds, Blind

\* A creation that has not been answered accounts for no topic.
LEMMA CreatingHolds ==
    ASSUME TraceInv, NEW c \in ClaimIds, Working(c), job[c].flow = "create",
           NEW t \in Topics
    PROVE  /\ router.claims[c] # None /\ router.claims[c].thread = None
           /\ Holds(router.claims[c], c, t, madeFor[t], Waiting(t)) \/
              Holds(disk.claims[c], c, t, madeFor[t], Waiting(t)) =>
                 \/ job[c].pc = "unclear"
                 \/ job[c].pc = "created" /\ job[c].topic = t
<1>1. Creating(c, router.claims[c]) /\ Creating(c, disk.claims[c])
  BY DEF TraceInv, Tasks, JobOk
<1> QED  BY <1>1, RouterAssumption DEF Creating, Holds, Waiting

LEMMA FinishUncertainStep ==
    ASSUME TraceInv, IInv', NEW c \in ClaimIds, Working(c), EndJob(c),
           Save(MarkUncertain(router, c, TRUE)),
           UNCHANGED <<remote, madeFor, cleanup>>
    PROVE  After
<1> DEFINE b == TRUE
           s == MarkUncertain(router, c, b)
           C == {c}
           G == {}
<1>1. Fine(router, everBound) /\ Consistent(router)
  BY DEF TraceInv, IInv
<1>2. router.claims[c] # None
  BY DEF TraceInv, Tasks, JobOk, Creating
<1>3. Consistent(s) /\ Save(s)
  BY <1>1, MarkConsistent
<1>4. b \in BOOLEAN /\ c \in C
  OBVIOUS
<1> HIDE DEF b, C, G
<1>5. Marked(router.claims[c], s.claims[c], TRUE) /\ Turns(router, s, everBound, C, G)
  BY <1>1, <1>2, <1>4, MarkTurns
<1> HIDE DEF s
<1>6. s.claims[c] # None /\ Passes(s, c)
  BY <1>5, MarkPasses DEF Marked
<1>7. Becomes(s) /\ (disk' = disk \/ disk' = Durable(s)) /\ router' = s
  BY <1>3 DEF Save, Becomes
<1>8. Written(s, s, C, G)
  BY <1>5, <1>7, OneWritten
<1>9. Deletes'
  BY <1>3, <1>5, <1>7, DeletesKept DEF Turns
<1> QED  BY <1>6, <1>8, <1>9, JobEnds DEF C, G

\* One record is saved as the job of claim c ends.
LEMMA SavedAtEnd ==
    ASSUME TraceInv, IInv', NEW c \in ClaimIds, Working(c), EndJob(c),
           NEW s, Save(s) \/ SaveAfterFault(s), Consistent(s),
           Turns(router, s, everBound, {c}, {}), Passes(s, c),
           UNCHANGED <<remote, madeFor, cleanup>>,
           /\ router.claims[c].thread \in Topics /\ s.claims[c] = None
           => \/ s.bind[router.claims[c].thread] # None
              \/ s.retired[router.claims[c].thread] # None
    PROVE  After
<1> DEFINE C == {c}
           G == {}
<1>1. Turns(router, s, everBound, C, G)
  OBVIOUS
<1> HIDE DEF C, G
<1>2. Becomes(s) /\ (disk' = disk \/ disk' = Durable(s)) /\ router' = s
  BY DEF Save, SaveAfterFault, Becomes
<1>3. Written(s, s, C, G)
  BY <1>1, <1>2, OneWritten
<1>4. Deletes'
  BY <1>1, <1>2, DeletesKept DEF Turns
<1> QED  BY <1>3, <1>4, JobEnds DEF C, G

LEMMA FinishAbsentStep ==
    ASSUME TraceInv, IInv', NEW c \in ClaimIds, Working(c), job[c].flow # "create",
           FinishAbsent(c), UNCHANGED <<remote, madeFor>>
    PROVE  After
<1> DEFINE s == Abort(router, c, TRUE, FALSE)
           t == job[c].topic
           C == {c}
           G == {}
<1>1. Fine(router, everBound) /\ Consistent(router)
  BY DEF TraceInv, IInv
<1>2. router.claims[c] # None /\ router.claims[c].thread = t /\ t \in Topics
  BY DEF TraceInv, Tasks, JobOk
<1>3. EndJob(c) /\ ((Save(s) /\ UNCHANGED cleanup) \/ StartCleanup(s, t, "before"))
  BY DEF FinishAbsent
<1>4. Consistent(s)
  BY <1>1, AbortConsistent
<1>5. c \in C /\ t # None
  BY <1>2, RouterAssumption
<1> HIDE DEF C, G, t
<1>6. /\ s.claims[c] = None
      /\ s.bind[t] # None \/ s.retired[t] # None
      /\ Turns(router, s, everBound, C, G)
  BY <1>1, <1>2, <1>5, AbsentTurns
<1> HIDE DEF s
<1>7. Written(s, s, C, G) /\ Deletes'
  <2>1. CASE Save(s) /\ UNCHANGED cleanup
    <3>1. Becomes(s) /\ (disk' = disk \/ disk' = Durable(s)) /\ router' = s
      BY <2>1 DEF Save, Becomes
    <3>2. Written(s, s, C, G)
      BY <1>6, <3>1, OneWritten
    <3> QED  BY <1>4, <1>6, <2>1, <3>1, <3>2, DeletesKept DEF Turns
  <2>2. CASE StartCleanup(s, t, "before")
    BY <1>2, <1>4, <1>6, <2>2, StartCleanupStep
  <2> QED  BY <1>3, <2>1, <2>2
<1>8. Passes(s, c)
  <2> SUFFICES ASSUME NEW u \in Topics, Unbound(u)',
                      Holds(router.claims[c], c, u, madeFor[u], Waiting(u))
               PROVE  s.retired[u] # None
    BY DEF Passes
  <2>1. u = t
    BY <1>2, RouterAssumption DEF Holds, Blind
  <2>2. s.bind[u] = None
    BY <1>7 DEF Written, Unbound, BoundTopics
  <2> QED  BY <1>6, <2>1, <2>2
<1> QED  BY <1>2, <1>3, <1>6, <1>7, <1>8, JobEnds DEF C, G

\* A refused creation, or one that got no answer yet, has nothing to account for.
LEMMA NothingMade ==
    ASSUME TraceInv, NEW c \in ClaimIds, Working(c), job[c].flow = "create",
           job[c].pc \notin {"unclear", "created"}
    PROVE  \A t \in Topics :
              /\ ~Holds(router.claims[c], c, t, madeFor[t], Waiting(t))
              /\ ~Holds(disk.claims[c], c, t, madeFor[t], Waiting(t))
BY CreatingHolds

LEMMA SettleRefusedStep ==
    ASSUME TraceInv, IInv', NEW c \in ClaimIds, SettleRefused(c)
    PROVE  After
<1> DEFINE a == FALSE
           b == TRUE
           C == {c}
           G == {}
<1>1. Fine(router, everBound) /\ Consistent(router)
  BY DEF TraceInv, IInv
<1>2. /\ Working(c) /\ job[c].flow = "create" /\ EndJob(c)
      /\ UNCHANGED <<remote, madeFor, cleanup>>
  BY DEF SettleRefused, env, Working, TraceInv, Tasks, JobOk
<1>3. Creating(c, router.claims[c])
  BY <1>2 DEF TraceInv, Tasks, JobOk
<1>4. a \in BOOLEAN /\ b \in BOOLEAN /\ c \in C /\ router.claims[c] # None
  BY <1>3 DEF Creating
<1>5. \A t \in Topics : ~Holds(router.claims[c], c, t, madeFor[t], Waiting(t))
  BY <1>2, NothingMade DEF SettleRefused
<1>6. \A x : Passes(x, c)
  BY <1>5 DEF Passes
<1>7. router.claims[c].thread \notin Topics
  BY <1>3, RouterAssumption DEF Creating
<1>8. CASE Save(Abort(router, c, a, b))
  <2> DEFINE s == Abort(router, c, a, b)
  <2>1. Save(s) /\ Consistent(s)
    BY <1>1, <1>8, AbortConsistent
  <2> HIDE DEF a, b, C, G
  <2>2. Turns(router, s, everBound, C, G)
    BY <1>1, <1>3, <1>4, AbortTurns DEF Creating
  <2> HIDE DEF s
  <2> QED  BY <1>2, <1>6, <1>7, <2>1, <2>2, SavedAtEnd DEF C, G
<1>9. CASE Save(DeferRecreation(router, c, a)) /\ CanDefer(router, c)
  <2> DEFINE s == DeferRecreation(router, c, a)
  <2>1. Save(s) /\ Consistent(s)
    BY <1>1, <1>4, <1>9, DeferConsistent
  <2> HIDE DEF a, b, C, G
  <2>2. Turns(router, s, everBound, C, G)
    BY <1>1, <1>3, <1>4, DeferTurns DEF Creating
  <2> HIDE DEF s
  <2> QED  BY <1>2, <1>6, <1>7, <2>1, <2>2, SavedAtEnd DEF C, G
<1>10. CASE Save(MarkUncertain(router, c, b))
  BY <1>2, <1>10, FinishUncertainStep
<1> QED  BY <1>8, <1>9, <1>10 DEF SettleRefused

LEMMA SettleUnclearStep ==
    ASSUME TraceInv, IInv', NEW c \in ClaimIds, SettleUnclear(c)
    PROVE  After
<1>1. Working(c)
  BY DEF SettleUnclear, Working
<1> QED  BY <1>1, FinishUncertainStep DEF SettleUnclear, env

LEMMA SettleCreatedStep ==
    ASSUME TraceInv, IInv', NEW c \in ClaimIds, SettleCreated(c)
    PROVE  After
<1> DEFINE b == TRUE
           t == job[c].topic
           a == AttachTopic(router, c, t)
           m == MarkUncertain(a, c, b)
           s == Commit(a, c)
           C == {c}
           G == {}
<1>1. Fine(router, everBound) /\ Consistent(router)
  BY DEF TraceInv, IInv
<1>2. /\ Working(c) /\ job[c].flow = "create" /\ EndJob(c)
      /\ UNCHANGED <<remote, madeFor, cleanup>>
  BY DEF SettleCreated, env, Working, TraceInv, Tasks, JobOk
<1>3. /\ Creating(c, router.claims[c]) /\ t \in Topics /\ t # None
      /\ madeFor[t] = job[c].win
  BY <1>2, RouterAssumption DEF TraceInv, Tasks, JobOk, SettleCreated
<1>4. /\ b \in BOOLEAN /\ c \in C /\ router.claims[c] # None
      /\ router.claims[c].thread \notin Topics
  BY <1>3, RouterAssumption DEF Creating
<1>5. ASSUME NEW u \in Topics,
             Holds(router.claims[c], c, u, madeFor[u], Waiting(u))
      PROVE  u = t
  BY <1>2, <1>5, CreatingHolds DEF SettleCreated
<1>6. CASE Save(MarkUncertain(router, c, b))
  BY <1>2, <1>6, FinishUncertainStep
<1>7. CASE /\ CanAttachTopic(router, c, t)
           /\ \/ SaveAfterFault(m)
              \/ SaveBoth(a, m)
              \/ CanCommit(a, c) /\ SaveBoth(a, s)
  <2> HIDE DEF b, C, G, t
  <2>1. /\ Fine(a, everBound) /\ a.bind = router.bind
        /\ a.claims[c] # None
        /\ a.claims[c].thread = t /\ a.claims[c].target = router.claims[c].target
        /\ Turns(router, a, everBound, C, G)
    BY <1>1, <1>3, <1>4, AttachTopicTurns
  <2>2. Consistent(a)
    BY <1>1, <1>3, <1>7, AttachTopicConsistent
  <2>3. BoundTopics(a) \subseteq everBound
    BY <2>1 DEF Fine, Known
  <2> HIDE DEF a
  <2>4. /\ Marked(a.claims[c], m.claims[c], TRUE) /\ m.bind = a.bind
        /\ Turns(a, m, everBound, C, G)
    BY <1>4, <2>1, MarkTurns
  <2>5. Consistent(m)
    BY <2>2, MarkConsistent
  <2> HIDE DEF m
  <2>6. Turns(router, m, everBound, C, G)
    BY <1>1, <2>1, <2>3, <2>4, TurnsMore
  <2>7. \A x : x.claims[c] # None /\ x.claims[c].thread = t
                 /\ x.claims[c].target = router.claims[c].target =>
                    Passes(x, c)
    BY <1>5, <1>3 DEF Passes, Creating
  <2>8. Passes(a, c) /\ Passes(m, c) /\ m.claims[c] # None
    BY <2>1, <2>4, <2>7 DEF Marked
  <2>9. CASE SaveAfterFault(m)
    BY <1>2, <2>5, <2>6, <2>8, <2>9, SavedAtEnd DEF C, G
  <2>10. CASE SaveBoth(a, m)
    <3>1. router' = m /\ Becomes(m)
      BY <2>10 DEF SaveBoth, Becomes
    <3>2. CASE disk' = Durable(m)
      <4>1. Written(m, m, C, G)
        BY <2>6, <3>1, <3>2, OneWritten
      <4>2. Deletes'
        BY <1>2, <2>5, <2>6, <3>1, <3>2, DeletesKept DEF Turns
      <4> QED  BY <1>2, <2>8, <4>1, <4>2, JobEnds DEF C, G
    <3>3. CASE disk' = Durable(a)
      <4>1. Written(a, m, C, G)
        BY <2>1, <2>3, <2>4, <2>6, <3>1, <3>3, BothWritten DEF Turns
      <4>2. Deletes'
        BY <1>2, <2>1, <2>2, <2>6, <3>1, <3>3, DeletesKept DEF Turns
      <4> QED  BY <1>2, <2>1, <2>8, <4>1, <4>2, JobEnds DEF C, G
    <3> QED  BY <2>10, <3>2, <3>3 DEF SaveBoth
  <2>11. CASE CanCommit(a, c) /\ SaveBoth(a, s)
    <3>1. /\ t \in BoundTopics(s) /\ s.claims[c] = None
          /\ Turns(a, s, everBound, C, G)
      BY <1>4, <2>1, <2>11, CommitTurns
    <3>2. Consistent(s)
      BY <2>2, <2>11, CommitConsistent
    <3> HIDE DEF s
    <3>3. Turns(router, s, everBound, C, G)
      BY <1>1, <2>1, <2>3, <3>1, TurnsMore
    <3>4. router' = s /\ Becomes(s)
      BY <2>11 DEF SaveBoth, Becomes
    <3>5. Passes(s, c)
      BY <1>5, <3>1, <3>4 DEF Passes, Becomes, Unbound
    <3>6. CASE disk' = Durable(s)
      <4>1. Written(s, s, C, G)
        BY <3>3, <3>4, <3>6, OneWritten
      <4>2. Deletes'
        BY <1>2, <3>2, <3>3, <3>4, <3>6, DeletesKept DEF Turns
      <4> QED  BY <1>2, <1>4, <3>1, <3>5, <4>1, <4>2, JobEnds DEF C, G
    <3>7. CASE disk' = Durable(a)
      <4>1. Written(a, s, C, G)
        BY <2>1, <2>3, <3>1, <3>3, <3>4, <3>7, BothWritten DEF Turns
      <4>2. Deletes'
        BY <1>2, <2>1, <2>2, <3>3, <3>4, <3>7, DeletesKept DEF Turns
      <4> QED  BY <1>2, <1>4, <2>8, <3>1, <3>5, <4>1, <4>2, JobEnds DEF C, G
    <3> QED  BY <2>11, <3>6, <3>7 DEF SaveBoth
  <2> QED  BY <1>7, <2>9, <2>10, <2>11
<1> QED  BY <1>6, <1>7 DEF SettleCreated

LEMMA LaunchReadyStep ==
    ASSUME TraceInv, IInv', NEW c \in ClaimIds, LaunchReady(c)
    PROVE  After
<1> DEFINE s == Commit(router, c)
           C == {c}
           G == {}
<1>1. Fine(router, everBound) /\ Consistent(router)
  BY DEF TraceInv, IInv
<1>2. /\ Working(c) /\ EndJob(c)
      /\ UNCHANGED <<remote, madeFor, cleanup>>
  BY DEF LaunchReady, env, Working
<1>3. CASE Save(MarkUncertain(router, c, TRUE))
  BY <1>2, <1>3, FinishUncertainStep
<1>4. CASE CanCommit(router, c) /\ Save(s)
  <2>1. router.claims[c].thread # None /\ c \in C
    BY <1>4 DEF CanCommit, Complete
  <2>2. Consistent(s)
    BY <1>1, <1>4, CommitConsistent
  <2> HIDE DEF C, G
  <2>3. /\ router.claims[c].thread \in BoundTopics(s)
        /\ Turns(router, s, everBound, C, G)
    BY <1>1, <1>4, <2>1, CommitTurns
  <2> HIDE DEF s
  <2>4. Becomes(s)
    BY <1>4 DEF Save
  <2>5. Passes(s, c)
    BY <2>1, <2>3, <2>4 DEF Passes, Becomes, Unbound, Holds, Blind
  <2> QED  BY <1>2, <1>4, <2>2, <2>3, <2>5, SavedAtEnd DEF BoundTopics, C, G
<1> QED  BY <1>3, <1>4 DEF LaunchReady

\* A task that gets on with its job, while the record stays as it is.
LEMMA JobMoves ==
    ASSUME TraceInv, IInv', UNCHANGED <<router, disk, everBound, cleanup, rec>>,
           NEW G, ChatKept(G),
           NEW c \in ClaimIds, NEW k, job' = [job EXCEPT ![c] = k], JobOk(c)',
           \A t \in Topics : c \in Waiting(t) => c \in Waiting(t)',
           \A p \in Recoverers : rec[p].pc = "clear" => rec[p].claim # c
    PROVE  After
<1> DEFINE C == {c}
<1>1. job' = [d \in ClaimIds |-> job'[d]] /\ rec = [p \in Recoverers |-> rec[p]]
  BY DEF TraceInv, Tasks
<1>2. TasksKept(C)
  BY <1>1 DEF TraceInv, Tasks, TasksKept
<1>3. Deletes'
  BY DeletesQuiet
<1>4. HoldsOn(router, c) /\ FileHoldsOn(c)
  BY DEF HoldsOn, FileHoldsOn, Holds
<1>5. ClaimKept(c, router, router, G)
  BY <1>4 DEF ClaimKept, TraceInv, File
<1>6. \A d \in ClaimIds \cap C : ClaimKept(d, router, router, G)
  BY <1>5
<1> HIDE DEF C
<1>7. Written(router, router, C, G)
  BY QuietWritten
<1> QED  BY <1>2, <1>3, <1>6, <1>7, StepKeeps

\* No recoverer makes a topic for a claim that a task works on.
LEMMA NoneClears ==
    ASSUME TraceInv, NEW c, Working(c)
    PROVE  \A p \in Recoverers : rec[p].pc = "clear" => rec[p].claim # c
BY DEF TraceInv, Tasks, RecOk, ClearOk

LEMMA TelegramRefusesStep ==
    ASSUME TraceInv, IInv', NEW c \in ClaimIds, TelegramRefuses(c)
    PROVE  After
<1> DEFINE k == [job[c] EXCEPT !.pc = "refused"]
<1>1. job' = [job EXCEPT ![c] = k] /\ Working(c) /\ job[c].flow = "create"
  BY DEF TelegramRefuses, InFlight, Working
<1>2. JobOk(c)'
  <2>1. JobOk(c) /\ job'[c] = k
    BY <1>1 DEF TraceInv, Tasks
  <2>2. /\ ShapeOfJob(k) /\ k.pc = "refused" /\ k.flow = job[c].flow
        /\ k.win = job[c].win /\ k.keep = job[c].keep
    BY <2>1 DEF JobOk, ShapeOfJob
  <2>3. UNCHANGED <<router, disk>>
    BY DEF TelegramRefuses
  <2> QED  BY <1>1, <2>1, <2>2, <2>3 DEF JobOk, Creating, Working
<1> HIDE DEF k
<1>3. \A t : c \notin Waiting(t)
  BY <1>1 DEF Waiting, TelegramRefuses, InFlight
<1>4. ChatKept({})
  BY ChatSame DEF TelegramRefuses, env
<1> QED  BY <1>1, <1>2, <1>3, <1>4, NoneClears, JobMoves DEF TelegramRefuses

LEMMA LaunchMovesStep ==
    ASSUME TraceInv, IInv', NEW c \in ClaimIds, job[c].pc \in {"offer", "create"},
           UNCHANGED <<router, disk, everBound, cleanup, rec, remote, madeFor>>,
           \/ job' = [job EXCEPT ![c].pc = "create"]
           \/ \E w \in Windows : job' = [job EXCEPT ![c].pc = "made", ![c].win = w]
    PROVE  After
<1>1. /\ Working(c) /\ job[c].flow # "create"
      /\ router.claims[c].target = None
  BY DEF Working, TraceInv, Tasks, JobOk
<1>2. PICK k : /\ job' = [job EXCEPT ![c] = k]
               /\ \/ k = [job[c] EXCEPT !.pc = "create"]
                  \/ \E w \in Windows : k = [job[c] EXCEPT !.pc = "made", !.win = w]
  <2>1. CASE job' = [job EXCEPT ![c].pc = "create"]
    BY <2>1
  <2>2. CASE \E w \in Windows : job' = [job EXCEPT ![c].pc = "made", ![c].win = w]
    <3>1. PICK w \in Windows : job' = [job EXCEPT ![c].pc = "made", ![c].win = w]
      BY <2>2
    <3>2. job' = [job EXCEPT ![c] = [job[c] EXCEPT !.pc = "made", !.win = w]]
      BY <3>1 DEF TraceInv, Tasks
    <3> QED  BY <3>2
  <2> QED  BY <2>1, <2>2
<1>3. JobOk(c)'
  <2>1. JobOk(c) /\ job'[c] = k
    BY <1>2 DEF TraceInv, Tasks
  <2>2. /\ ShapeOfJob(k) /\ k.pc \in {"create", "made"} /\ k.flow = job[c].flow
        /\ k.topic = job[c].topic /\ (k.pc = "made" => k.win \in Windows)
    BY <1>2, <2>1 DEF JobOk, ShapeOfJob
  <2> QED  BY <1>1, <2>1, <2>2 DEF JobOk, Working
<1>4. \A t : c \notin Waiting(t)
  BY <1>1 DEF Waiting
<1>5. ChatKept({})
  BY ChatSame
<1> QED  BY <1>1, <1>2, <1>3, <1>4, <1>5, NoneClears, JobMoves

LEMMA CheckOfferStep ==
    ASSUME TraceInv, IInv', NEW c \in ClaimIds, CheckOffer(c)
    PROVE  After
<1>1. Working(c) /\ job[c].flow # "create" /\ UNCHANGED <<remote, madeFor>>
  BY DEF CheckOffer, env, Working, TraceInv, Tasks, JobOk
<1>2. CASE FinishAbsent(c)
  BY <1>1, <1>2, FinishAbsentStep
<1>3. CASE job' = [job EXCEPT ![c].pc = "create"] /\ Quiet /\ UNCHANGED <<rec, cleanup>>
  BY <1>1, <1>3, LaunchMovesStep DEF CheckOffer, Quiet
<1> QED  BY <1>2, <1>3 DEF CheckOffer

LEMMA BackendMakesStep ==
    ASSUME TraceInv, IInv', NEW c \in ClaimIds, NEW w \in Windows, BackendMakes(c, w)
    PROVE  After
BY LaunchMovesStep DEF BackendMakes, Quiet

LEMMA BackendFailsStep ==
    ASSUME TraceInv, IInv', NEW c \in ClaimIds, BackendFails(c)
    PROVE  After
<1>1. Working(c) /\ job[c].flow # "create" /\ UNCHANGED <<remote, madeFor>>
  BY DEF BackendFails, env, Working, TraceInv, Tasks, JobOk
<1> QED  BY <1>1, FinishAbsentStep, FinishUncertainStep DEF BackendFails, FinishUncertain

LEMMA LaunchEndsStep ==
    ASSUME TraceInv, IInv', NEW c \in ClaimIds, LaunchNotReady(c) \/ LaunchAborts(c)
    PROVE  After
<1>1. Working(c) /\ job[c].flow # "create" /\ UNCHANGED <<remote, madeFor>>
  BY DEF LaunchNotReady, LaunchAborts, env, Working, TraceInv, Tasks, JobOk
<1>2. FinishAbsent(c) \/ FinishUncertain(c)
  BY DEF LaunchNotReady, LaunchAborts
<1> QED  BY <1>1, <1>2, FinishAbsentStep, FinishUncertainStep DEF FinishUncertain

LEMMA CancelCreationStep ==
    ASSUME TraceInv, IInv', NEW c \in ClaimIds, CancelCreation(c)
    PROVE  After
<1> DEFINE b == ~job[c].keep
           s == MarkUncertain(router, c, b)
           C == {c}
           G == {}
<1>1. Fine(router, everBound) /\ Consistent(router)
  BY DEF TraceInv, IInv
<1>2. /\ Working(c) /\ job[c].flow = "create"
      /\ job[c].pc \in {"sent", "resent"}
      /\ UNCHANGED <<remote, madeFor, cleanup>>
  BY DEF CancelCreation, InFlight, env, Working
<1>3. /\ Creating(c, router.claims[c]) /\ Creating(c, disk.claims[c])
      /\ job[c].keep \in BOOLEAN /\ (job[c].keep => c \in router.owned)
      /\ job[c].win \in Windows
  BY <1>2 DEF TraceInv, Tasks, JobOk
<1>4. b \in BOOLEAN /\ c \in C /\ router.claims[c] # None
  BY <1>3 DEF Creating
<1>5. Save(s) /\ Consistent(s)
  BY <1>1, MarkConsistent DEF CancelCreation
<1>6. ~b => job[c].keep
  BY <1>3
<1> HIDE DEF b, C, G
<1>7. /\ Marked(router.claims[c], s.claims[c], TRUE)
      /\ ~b => s.owned = router.owned
      /\ Turns(router, s, everBound, C, G)
  BY <1>1, <1>4, MarkTurns
<1> HIDE DEF s
<1>8. Becomes(s) /\ (disk' = disk \/ disk' = Durable(s)) /\ router' = s
  BY <1>5 DEF Save, Becomes
<1>9. Written(s, s, C, G)
  BY <1>7, <1>8, OneWritten
<1>10. Deletes'
  BY <1>2, <1>5, <1>7, <1>8, DeletesKept DEF Turns
<1>11. \A p \in Recoverers : rec[p].pc = "clear" => rec[p].claim # c
  BY <1>2, NoneClears
<1>12. JobOk(c)'
  <2>1. /\ ShapeOfJob(job'[c])
        /\ job'[c].flow = "create" /\ job'[c].pc = job[c].pc
        /\ job'[c].win = job[c].win /\ job'[c].keep = job[c].keep
    <3>1. job'[c] = [job[c] EXCEPT !.late = TRUE] /\ ShapeOfJob(job[c])
      BY DEF CancelCreation, TraceInv, Tasks, JobOk
    <3> QED  BY <1>2, <3>1 DEF ShapeOfJob
  <2>2. router' = s /\ disk'.claims[c] \in {disk.claims[c], s.claims[c]}
    BY <1>8 DEF Durable
  <2>3. job[c].keep => s.owned = router.owned
    BY DEF b, s, MarkUncertain, Fine, Shape, TraceInv
  <2>4. /\ s.claims[c] # None /\ s.claims[c].thread = None
        /\ s.claims[c].target = job[c].win
        /\ job[c].keep => s.claims[c].retry # None /\ s.claims[c].uncertain
        /\ ~job[c].keep => s.claims[c].retry = None
                           /\ s.claims[c].kind = "topic_for_target"
    BY <1>3, <1>7 DEF Marked, Creating
  <2>5. Creating(c, router.claims[c])' /\ Creating(c, disk.claims[c])'
    <3> SUFFICES ASSUME NEW k \in {s.claims[c], disk.claims[c]}
                 PROVE  Creating(c, k)'
      BY <2>2
    <3>1. /\ k # None /\ k.thread = None /\ k.target = job[c].win
          /\ job[c].keep => k.retry # None /\ k.uncertain
          /\ ~job[c].keep => k.retry = None /\ k.kind = "topic_for_target"
      <4>1. CASE k = s.claims[c]
        BY <2>4, <4>1
      <4>2. CASE k = disk.claims[c]
        BY <1>3, <4>2 DEF Creating
      <4> QED  BY <4>1, <4>2
    <3>2. CASE job[c].keep = TRUE
      BY <2>1, <3>1, <3>2 DEF Creating
    <3>3. CASE job[c].keep = FALSE
      BY <2>1, <3>1, <3>3 DEF Creating
    <3> QED  BY <1>3, <3>2, <3>3
  <2> QED  BY <1>2, <1>3, <2>1, <2>2, <2>3, <2>5 DEF JobOk
<1>13. TasksKept(C)
  <2>1. /\ job' = [d \in ClaimIds |-> job'[d]] /\ rec' = [p \in Recoverers |-> rec'[p]]
        /\ \A d \in ClaimIds \ {c} : job'[d] = job[d]
        /\ \A p \in Recoverers : rec'[p] \in {NoRec, rec[p]}
    BY DEF CancelCreation, TraceInv, Tasks
  <2> QED  BY <1>11, <1>12, <2>1 DEF TasksKept, C
<1>14. HoldsOn(s, c) /\ FileHoldsOn(c)
  BY <1>2, NothingMade DEF HoldsOn, FileHoldsOn
<1>15. ChatKept(G)
  BY <1>2, ChatSame DEF G
<1>16. ClaimKept(c, s, s, G)
  <2>1. s.claims[c] # None /\ disk'.claims[c] # None
    BY <1>3, <1>7, <1>8 DEF Marked, Durable, Creating
  <2> QED  BY <1>14, <2>1 DEF ClaimKept
<1>17. \A d \in ClaimIds \cap C : ClaimKept(d, s, s, G)
  BY <1>16 DEF C
<1> QED  BY <1>9, <1>10, <1>13, <1>15, <1>17, StepKeeps

\* A launched window is a task's own: its claim had no target before.
LEMMA AttachLaunchedStep ==
    ASSUME TraceInv, IInv', NEW c \in ClaimIds, AttachLaunched(c)
    PROVE  After
<1> DEFINE w == job[c].win
           b == TRUE
           a == AttachTarget(router, c, w)
           s == MarkUncertain(a, c, b)
           C == {c}
           G == {}
<1>1. Fine(router, everBound) /\ Consistent(router)
  BY DEF TraceInv, IInv
<1>2. /\ Working(c) /\ UNCHANGED <<remote, madeFor, cleanup>> /\ w \in Windows
      /\ job[c].flow # "create" /\ c \in router.owned
      /\ job[c].topic \in Topics
      /\ router.claims[c] # None /\ router.claims[c].thread = job[c].topic
      /\ router.claims[c].target = None
  BY DEF AttachLaunched, env, Working, TraceInv, Tasks, JobOk
<1>3. b \in BOOLEAN /\ c \in C
  OBVIOUS
<1>4. ASSUME NEW t \in Topics, Unbound(t)'
      PROVE  ~Holds(router.claims[c], c, t, madeFor[t], Waiting(t))
  BY <1>2, <1>4 DEF Holds, Unbound, Asked
<1>5. CASE ~CanAttachTarget(router, c, w)
  BY <1>2, <1>5, FinishUncertainStep DEF AttachLaunched
<1>6. CASE /\ CanAttachTarget(router, c, w)
           /\ \/ /\ Becomes(a) /\ disk' = Durable(a) /\ rec' = rec
                 /\ job' = [job EXCEPT ![c].pc = "wait"]
              \/ SaveAfterFault(s) /\ EndJob(c)
  <2> HIDE DEF b, C, G, w
  <2>1. /\ Fine(a, everBound)
        /\ a.claims[c] # None /\ a.claims[c].thread = router.claims[c].thread
        /\ a.owned = router.owned
        /\ Turns(router, a, everBound, C, G)
    BY <1>1, <1>2, <1>3, AttachTargetTurns
  <2>2. Consistent(a)
    BY <1>1, <1>6, AttachTargetConsistent
  <2>3. BoundTopics(a) \subseteq everBound
    BY <2>1 DEF Fine, Known
  <2> HIDE DEF a
  <2>4. CASE SaveAfterFault(s) /\ EndJob(c)
    <3>1. /\ Marked(a.claims[c], s.claims[c], TRUE)
          /\ Turns(a, s, everBound, C, G)
      BY <1>3, <2>1, MarkTurns
    <3>2. Consistent(s)
      BY <2>2, MarkConsistent
    <3> HIDE DEF s
    <3>3. Turns(router, s, everBound, C, G)
      BY <1>1, <2>1, <2>3, <3>1, TurnsMore
    <3>4. Passes(s, c) /\ s.claims[c] # None
      BY <1>4, <3>1 DEF Passes, Marked
    <3> QED  BY <1>2, <2>4, <3>2, <3>3, <3>4, SavedAtEnd DEF C, G
  <2>5. CASE /\ Becomes(a) /\ disk' = Durable(a) /\ rec' = rec
             /\ job' = [job EXCEPT ![c].pc = "wait"]
    <3>1. Written(a, a, C, G) /\ router' = a
      BY <2>1, <2>5, OneWritten DEF Becomes
    <3>2. Deletes'
      BY <1>2, <2>1, <2>2, <2>5, <3>1, DeletesKept DEF Turns
    <3>3. JobOk(c)'
      <4>1. job'[c] = [job[c] EXCEPT !.pc = "wait"] /\ ShapeOfJob(job[c])
        BY <2>5 DEF TraceInv, Tasks, JobOk
      <4>2. /\ ShapeOfJob(job'[c]) /\ job'[c].pc = "wait"
            /\ job'[c].flow = job[c].flow /\ job'[c].topic = job[c].topic
        BY <4>1 DEF ShapeOfJob
      <4> QED  BY <1>2, <2>1, <3>1, <4>2 DEF JobOk
    <3>4. TasksKept(C)
      <4>1. \A p \in Recoverers : rec[p].pc = "clear" => rec[p].claim # c
        BY <1>2, NoneClears
      <4>2. job' = [d \in ClaimIds |-> job'[d]] /\ rec = [p \in Recoverers |-> rec[p]]
            /\ \A d \in ClaimIds \ {c} : job'[d] = job[d]
        BY <2>5 DEF TraceInv, Tasks
      <4> QED  BY <2>5, <3>3, <4>1, <4>2 DEF TasksKept, C
    <3>5. ClaimKept(c, a, a, G)
      BY <1>4, <2>1, <2>5 DEF ClaimKept, HoldsOn, Durable
    <3>6. ChatKept(G)
      BY <1>2, ChatSame DEF G
    <3>7. \A d \in ClaimIds \cap C : ClaimKept(d, a, a, G)
      BY <3>5 DEF C
    <3> QED  BY <3>1, <3>2, <3>4, <3>6, <3>7, StepKeeps
  <2> QED  BY <1>6, <2>4, <2>5
<1> QED  BY <1>5, <1>6 DEF AttachLaunched

-----------------------------------------------------------------------------
(* New claims.                                                             *)

\* Claim c is taken for a new task, or given up again at once.
LEMMA FreshClaim ==
    ASSUME TraceInv, IInv', NEW c \in ClaimIds, Free(c),
           NEW s, Turns(router, s, everBound, {c}, {}), Consistent(s), Becomes(s),
           UNCHANGED <<remote, madeFor, rec, cleanup>>,
           \/ /\ job' = job /\ s.claims[c] = None
              /\ disk' = disk \/ disk' = Durable(s)
           \/ /\ \E k : job' = [job EXCEPT ![c] = k]
              /\ JobOk(c)' /\ disk' = Durable(s)
    PROVE  After
<1> DEFINE C == {c}
           G == {}
<1>1. Turns(router, s, everBound, C, G)
  OBVIOUS
<1>2. /\ router.claims[c] = None /\ ~Working(c)
      /\ \A p \in Recoverers : rec[p].claim # c
  BY DEF Free
<1>3. TasksKept(C)
  <2>1. /\ job' = [d \in ClaimIds |-> job'[d]]
        /\ rec' = [p \in Recoverers |-> rec'[p]]
        /\ \A d \in ClaimIds \ {c} : job'[d] = job[d]
    BY DEF TraceInv, Tasks
  <2>2. JobOk(c)'
    <3>1. CASE job' = job
      BY <1>2, <3>1 DEF TraceInv, Tasks, JobOk, Working
    <3> QED  BY <3>1
  <2> QED  BY <1>2, <2>1, <2>2 DEF TasksKept
<1>4. ChatKept(G)
  BY ChatSame
<1>5. ClaimKept(c, s, s, G)
  <2>1. HoldsOn(s, c)
    BY <1>2 DEF HoldsOn, Holds
  <2>2. disk' # Durable(s) => FileHoldsOn(c)
    BY DEF FileHoldsOn, Waiting, Working
  <2>3. s.claims[c] # None => disk'.claims[c] # None
    BY DEF Durable
  <2> QED  BY <1>2, <2>1, <2>2, <2>3 DEF ClaimKept
<1>6. \A d \in ClaimIds \cap C : ClaimKept(d, s, s, G)
  BY <1>5
<1> HIDE DEF C, G
<1>7. disk' = disk \/ disk' = Durable(s)
  OBVIOUS
<1>8. Written(s, s, C, G)
  BY <1>1, <1>7, OneWritten
<1>9. Deletes'
  <2>1. router' = s
    BY DEF Becomes
  <2> QED  BY <1>1, <1>7, <2>1, DeletesKept DEF Turns
<1> QED  BY <1>3, <1>4, <1>6, <1>8, <1>9, StepKeeps

LEMMA BeginCreationStep ==
    ASSUME TraceInv, IInv', NEW w \in Windows, NEW c \in ClaimIds,
           BeginCreation(w, c)
    PROVE  After
<1> DEFINE n == None
           kind == "topic_for_target"
           a == FALSE
           b == TRUE
           begun == Begin(router, c, n, w, n, kind)
           s == Abort(begun, c, a, b)
           C == {c}
           G == {}
<1>1. Fine(router, everBound) /\ Consistent(router)
  BY DEF TraceInv, IInv
<1>2. /\ Free(c) /\ UNCHANGED <<remote, madeFor, rec, cleanup>>
      /\ CanBegin(router, n, w, n)
  BY DEF BeginCreation, env
<1>3. /\ n \in Topics \cup {None} /\ n \in Windows \cup {None} /\ n = None
      /\ w \in Windows \cup {None}
      /\ kind \in Kinds /\ kind = "topic_for_target"
      /\ a \in BOOLEAN /\ b \in BOOLEAN /\ c \in C
  BY DEF Kinds
<1>4. \/ /\ Becomes(begun) /\ disk' = Durable(begun)
         /\ job' = [job EXCEPT ![c] = [NoJob EXCEPT !.pc = "sent", !.win = w]]
      \/ SaveAfterFault(s) /\ job' = job
  BY DEF BeginCreation
<1>5. \A k : k.kind = kind => CanRelease(k, a, b)
  BY DEF CanRelease
<1> HIDE DEF n, kind, a, b, C, G
<1>6. /\ Fine(begun, everBound)
      /\ begun.claims[c] # None
      /\ begun.claims[c].thread = n /\ begun.claims[c].target = w
      /\ begun.claims[c].kind = kind /\ begun.claims[c].retry = None
      /\ Turns(router, begun, everBound, C, G)
  <2>1. /\ Fine(begun, everBound) /\ Turns(router, begun, everBound, C, G)
        /\ Begun(begun, c, n, w, kind)
    BY <1>1, <1>3, BeginTurns
  <2> QED  BY <2>1 DEF Begun
<1>7. Consistent(begun)
  BY <1>1, <1>2, BeginConsistent
<1>8. BoundTopics(begun) \subseteq everBound
  BY <1>6 DEF Fine, Known
<1> HIDE DEF begun
<1>9. CASE /\ Becomes(begun) /\ disk' = Durable(begun)
           /\ job' = [job EXCEPT ![c] = [NoJob EXCEPT !.pc = "sent", !.win = w]]
  <2>1. job'[c] = [NoJob EXCEPT !.pc = "sent", !.win = w]
    BY <1>9 DEF TraceInv, Tasks
  <2>2. router'.claims[c] = begun.claims[c] /\ disk'.claims[c] = begun.claims[c]
    BY <1>9 DEF Becomes, Durable
  <2>3. JobOk(c)'
    BY <1>3, <1>6, <2>1, <2>2 DEF JobOk, NoJob, ShapeOfJob, Creating
  <2>4. \E k : job' = [job EXCEPT ![c] = k]
    BY <1>9
  <2> QED  BY <1>2, <1>6, <1>7, <1>9, <2>3, <2>4, FreshClaim DEF C, G
<1>10. CASE SaveAfterFault(s) /\ job' = job
  <2>1. Consistent(s)
    BY <1>7, AbortConsistent
  <2>2. b /\ begun.claims[c] # None /\ begun.claims[c].thread # None =>
           begun.claims[c].thread \in G
    BY <1>3, <1>6
  <2>3. /\ Aborted(begun, s, c, begun.claims[c], CanRelease(begun.claims[c], a, b), G)
        /\ Turns(begun, s, everBound, C, G)
    BY <1>3, <1>6, <2>2, AbortTurns
  <2> HIDE DEF s
  <2>4. s.claims[c] = None
    BY <1>5, <1>6, <2>3 DEF Aborted
  <2>5. Turns(router, s, everBound, C, G)
    BY <1>1, <1>6, <1>8, <2>3, TurnsMore
  <2> QED  BY <1>2, <1>10, <2>1, <2>4, <2>5, FreshClaim DEF C, G, SaveAfterFault
<1> QED  BY <1>4, <1>9, <1>10

LEMMA BeginLaunchStep ==
    ASSUME TraceInv, IInv', NEW t \in Topics, NEW c \in ClaimIds,
           NEW flow, flow # "create", NEW pc \in {"offer", "create"},
           NEW previous \in Windows \cup {None},
           BeginLaunch(t, c, flow, pc, previous)
    PROVE  After
<1> DEFINE n == None
           kind == IF previous = None THEN "target_for_topic" ELSE "replacement"
           begun == Begin(router, c, t, n, previous, kind)
           s == Abort(begun, c, TRUE, FALSE)
           C == {c}
           G == {}
<1>1. Fine(router, everBound) /\ Consistent(router)
  BY DEF TraceInv, IInv
<1>2. /\ Free(c) /\ UNCHANGED <<remote, madeFor, rec, cleanup>>
      /\ CanBegin(router, t, n, previous)
  BY DEF BeginLaunch, env
<1>3. /\ n \in Windows \cup {None} /\ n = None /\ t \in Topics \cup {None}
      /\ previous \in Windows \cup {None}
      /\ kind \in Kinds /\ c \in C
  BY DEF Kinds
<1>4. t # None
  BY RouterAssumption
<1>5. \/ /\ Becomes(begun) /\ disk' = Durable(begun)
         /\ job' = [job EXCEPT ![c] =
                      [NoJob EXCEPT !.pc = pc, !.flow = flow, !.topic = t]]
      \/ SaveAfterFault(s) /\ job' = job
  BY DEF BeginLaunch
<1> HIDE DEF n, kind, C, G
<1>6. /\ Fine(begun, everBound)
      /\ begun.claims[c] # None
      /\ begun.claims[c].thread = t /\ begun.claims[c].target = n
      /\ c \in begun.owned
      /\ Turns(router, begun, everBound, C, G)
  <2>1. /\ Fine(begun, everBound) /\ Turns(router, begun, everBound, C, G)
        /\ Begun(begun, c, t, n, kind)
    BY <1>1, <1>3, BeginTurns
  <2> QED  BY <2>1 DEF Begun
<1>7. Consistent(begun)
  BY <1>1, <1>2, BeginConsistent
<1>8. BoundTopics(begun) \subseteq everBound
  BY <1>6 DEF Fine, Known
<1> HIDE DEF begun
<1>9. CASE /\ Becomes(begun) /\ disk' = Durable(begun)
           /\ job' = [job EXCEPT ![c] =
                        [NoJob EXCEPT !.pc = pc, !.flow = flow, !.topic = t]]
  <2>1. job'[c] = [NoJob EXCEPT !.pc = pc, !.flow = flow, !.topic = t]
    BY <1>9 DEF TraceInv, Tasks
  <2>2. router' = begun
    BY <1>9 DEF Becomes
  <2>3. JobOk(c)'
    BY <1>3, <1>6, <1>4, <2>1, <2>2 DEF JobOk, NoJob, ShapeOfJob
  <2>4. \E k : job' = [job EXCEPT ![c] = k]
    BY <1>9
  <2> QED  BY <1>2, <1>6, <1>7, <1>9, <2>3, <2>4, FreshClaim DEF C, G
<1>10. CASE SaveAfterFault(s) /\ job' = job
  <2>1. Consistent(s)
    BY <1>7, AbortConsistent
  <2>2. s.claims[c] = None /\ Turns(begun, s, everBound, C, G)
    BY <1>3, <1>6, <1>4, AbsentTurns
  <2> HIDE DEF s
  <2>3. Turns(router, s, everBound, C, G)
    BY <1>1, <1>6, <1>8, <2>2, TurnsMore
  <2> QED  BY <1>2, <1>10, <2>1, <2>2, <2>3, FreshClaim DEF C, G, SaveAfterFault
<1> QED  BY <1>5, <1>9, <1>10

LEMMA LaunchStep ==
    ASSUME TraceInv, IInv', NEW t \in Topics, NEW c \in ClaimIds,
           LaunchWindow(t, c) \/ RecoverWindow(t, c) \/ ResumeWindow(t, c)
    PROVE  After
<1>1. router.bind[t] \in Windows \cup {None}
  BY DEF TraceInv, Fine, Types, SavedTypes
<1>2. CASE LaunchWindow(t, c)
  <2> DEFINE n == None
             flow == "launch"
             pc == "create"
  <2>1. BeginLaunch(t, c, flow, pc, n)
    BY <1>2 DEF LaunchWindow
  <2>2. flow # "create" /\ pc \in {"offer", "create"} /\ n \in Windows \cup {None}
    OBVIOUS
  <2> HIDE DEF n, flow, pc
  <2> QED  BY <2>1, <2>2, BeginLaunchStep
<1>3. CASE RecoverWindow(t, c) \/ ResumeWindow(t, c)
  BY <1>1, <1>3, BeginLaunchStep DEF RecoverWindow, ResumeWindow
<1> QED  BY <1>2, <1>3

-----------------------------------------------------------------------------
(* Telegram makes a topic.                                                 *)

\* Nothing but the chat and the job of c changes; a topic may have been made
\* for c, and c is then known as the claim that accounts for it.
LEMMA MakesKeeps ==
    ASSUME TraceInv, IInv', NEW c \in ClaimIds, InFlight(c),
           UNCHANGED <<router, disk, everBound, cleanup, rec>>,
           NEW k, job' = [job EXCEPT ![c] = k], JobOk(c)',
           NEW n \in Topics, Makes(n, job[c].win), c \in Waiting(n)'
    PROVE  After
<1> DEFINE w == job[c].win
           C == {c}
           G == {}
<1>1. /\ Working(c) /\ job[c].flow = "create" /\ w \in Windows
      /\ Creating(c, router.claims[c]) /\ Creating(c, disk.claims[c])
  BY DEF InFlight, Working, TraceInv, Tasks, JobOk
<1>2. /\ remote[n] = "none" /\ madeFor[n] = None
      /\ remote' = [remote EXCEPT ![n] = "open"]
      /\ madeFor' = [madeFor EXCEPT ![n] = w]
  BY DEF Makes, TraceInv, Chat
<1>3. ChatGrows
  BY <1>2 DEF ChatGrows, TraceInv, Chat
<1>4. TasksKept(C)
  <2>1. \A p \in Recoverers : rec[p].pc = "clear" => rec[p].claim # c
    BY <1>1, NoneClears
  <2>2. job' = [d \in ClaimIds |-> job'[d]] /\ rec = [p \in Recoverers |-> rec[p]]
        /\ \A d \in ClaimIds \ {c} : job'[d] = job[d]
    BY DEF TraceInv, Tasks
  <2> QED  BY <2>1, <2>2 DEF TasksKept
<1> HIDE DEF C, G
<1>5. Written(router, router, C, G)
  BY QuietWritten
<1>6. Tasks'
  BY <1>3, <1>4, <1>5, TasksStep
<1>7. Fine(router', everBound') /\ File'
  BY DEF TraceInv, File
<1>8. Chat'
  BY <1>1, <1>2 DEF TraceInv, Chat
<1>9. Deletes'
  BY DeletesQuiet
<1>10. Leaves
  BY DEF Leaves
<1>11. \A t \in Topics \ {n} : (Unbound(t)' <=> Unbound(t)) /\ madeFor'[t] = madeFor[t]
  BY <1>2 DEF Unbound, Asked, TraceInv, Chat
<1>12. ASSUME NEW t \in Topics, NEW d \in Waiting(t)
       PROVE  d # c /\ d \in Waiting(t)'
  <2>1. d # c
    BY <1>1 DEF Waiting, InFlight
  <2>2. job'[d] = job[d]
    BY <2>1 DEF Waiting, TraceInv, Tasks
  <2> QED  BY <2>1, <2>2 DEF Waiting, Working
<1>13. ASSUME CoverInv, NEW t \in Topics \ {n}, Unbound(t)
       PROVE  /\ Cover(router, t, madeFor[t], Waiting(t)')
              /\ Cover(disk, t, madeFor[t], Waiting(t)')
  BY <1>12, <1>13 DEF CoverInv, Covered, Cover, Holds
<1>14. /\ Cover(router, n, madeFor'[n], Waiting(n)')
       /\ Cover(disk, n, madeFor'[n], Waiting(n)')
  <2>1. madeFor'[n] = w
    BY <1>2 DEF TraceInv, Chat
  <2>2. \A x : Creating(c, x) => Holds(x, c, n, w, Waiting(n)')
    <3>1. job[c].keep \in BOOLEAN
      BY <1>1 DEF TraceInv, Tasks, JobOk
    <3>2. CASE job[c].keep = TRUE
      BY <3>2 DEF Creating, Holds, Blind
    <3>3. CASE job[c].keep = FALSE
      BY <3>3 DEF Creating, Holds, Blind
    <3> QED  BY <3>1, <3>2, <3>3
  <2> QED  BY <1>1, <2>1, <2>2 DEF Cover
<1>15. CoverInv => Covered'
  <2> SUFFICES ASSUME CoverInv, NEW t \in Topics, Unbound(t)'
               PROVE  /\ Cover(router, t, madeFor'[t], Waiting(t)')
                      /\ Cover(disk, t, madeFor'[t], Waiting(t)')
    BY DEF Covered
  <2>1. CASE t = n
    BY <1>14, <2>1
  <2>2. CASE t # n
    BY <1>11, <1>13, <2>2
  <2> QED  BY <2>1, <2>2
\* No other topic that was made for this window is in need of the claim.
<1>16. ASSUME CoverInv, NEW d, UniqueRouting(d), Creating(c, d.claims[c]),
              d \in {router, disk}, NEW t \in Topics \ {n}, Unbound(t),
              madeFor[t] = w, d.retired[t] = None
       PROVE  FALSE
  <2>1. Cover(d, t, w, Waiting(t))
    BY <1>16 DEF CoverInv, Covered
  <2>2. PICK e \in ClaimIds : Holds(d.claims[e], e, t, w, Waiting(t))
    BY <1>16, <2>1 DEF Cover
  <2>3. CASE e = c
    BY <1>1, <1>16, <2>2, <2>3, NothingMade DEF InFlight
  <2>4. CASE e # c
    <3>1. /\ d.claims[e] # None /\ d.claims[e].target = w
          /\ d.claims[c] # None /\ d.claims[c].target = w /\ w # None
      BY <1>1, <1>16, <2>2, RouterAssumption DEF Holds, Creating
    <3>2. w \in TargetsOf(d.claims[e]) \cap TargetsOf(d.claims[c])
      BY <3>1 DEF TargetsOf
    <3> QED  BY <1>16, <2>4, <3>1, <3>2 DEF UniqueRouting
  <2> QED  BY <2>3, <2>4
<1>17. ASSUME CoverInv, NEW d, UniqueRouting(d), Creating(c, d.claims[c]),
              d \in {router, disk}, Alone(d)
       PROVE  Alone(d)'
  <2>1. d' = d
    BY <1>17
  <2> SUFFICES ASSUME NEW t \in Topics, NEW u \in Topics, Unbound(t)', Unbound(u)',
                      madeFor'[t] = madeFor'[u], d.retired[t] = None,
                      d.retired[u] = None
               PROVE  t = u
    BY <2>1 DEF Alone
  <2>2. madeFor'[n] = w
    BY <1>2 DEF TraceInv, Chat
  <2>3. CASE t # n /\ u # n
    BY <1>11, <1>17, <2>3 DEF Alone
  <2>4. CASE t = n /\ u # n
    BY <1>11, <1>16, <1>17, <2>2, <2>4
  <2>5. CASE t # n /\ u = n
    BY <1>11, <1>16, <1>17, <2>2, <2>5
  <2> QED  BY <2>3, <2>4, <2>5
<1>18. CoverInv => Alone(router)' /\ Alone(disk)'
  BY <1>1, <1>17 DEF CoverInv, TraceInv, IInv, Consistent, ConsistentFile
<1> QED  BY <1>6, <1>7, <1>8, <1>9, <1>10, <1>15, <1>18 DEF After, CoverInv

LEMMA TelegramCreatesStep ==
    ASSUME TraceInv, IInv', NEW c \in ClaimIds, NEW t \in Topics,
           TelegramCreates(c, t)
    PROVE  After
<1> DEFINE k == [job[c] EXCEPT !.pc = "created", !.topic = t]
<1>1. /\ job' = [job EXCEPT ![c] = k] /\ InFlight(c) /\ Makes(t, job[c].win)
      /\ UNCHANGED <<router, disk, everBound, cleanup, rec>>
  BY DEF TelegramCreates, Quiet, TraceInv, Tasks
<1>2. Working(c) /\ job[c].flow = "create" /\ JobOk(c) /\ job'[c] = k
  BY <1>1 DEF InFlight, Working, TraceInv, Tasks
<1>3. /\ ShapeOfJob(k) /\ k.pc = "created" /\ k.flow = job[c].flow
      /\ k.win = job[c].win /\ k.keep = job[c].keep /\ k.topic = t
  BY <1>2 DEF JobOk, ShapeOfJob
<1>4. madeFor'[t] = job[c].win
  BY <1>1 DEF Makes, TraceInv, Chat
<1> HIDE DEF k
<1>5. JobOk(c)'
  BY <1>1, <1>2, <1>3, <1>4 DEF JobOk, Creating, Working
<1>6. c \in Waiting(t)'
  BY <1>1, <1>2, <1>3, NoneClears DEF Waiting
<1> QED  BY <1>1, <1>5, <1>6, MakesKeeps

\* A request that ended without an answer and is not repeated.
LEMMA TelegramTimesOutStep ==
    ASSUME TraceInv, IInv', NEW c \in ClaimIds, TelegramTimesOut(c)
    PROVE  /\ "sent" \notin HiddenEffect => After
           /\ Fine(router', everBound') /\ File' /\ Chat' /\ Tasks' /\ Deletes'
           /\ Leaves
<1> DEFINE k == [job[c] EXCEPT !.pc = IF job[c].pc = "sent" THEN "resent"
                                      ELSE "unclear"]
           C == {c}
           G == {}
<1>1. /\ job' = [job EXCEPT ![c] = k] /\ InFlight(c)
      /\ UNCHANGED <<router, disk, everBound, cleanup, rec>>
  BY DEF TelegramTimesOut, TraceInv, Tasks
<1>2. Working(c) /\ job[c].flow = "create" /\ JobOk(c) /\ job'[c] = k
  BY <1>1 DEF InFlight, Working, TraceInv, Tasks
<1>3. /\ ShapeOfJob(k) /\ k.flow = job[c].flow /\ k.pc \in {"resent", "unclear"}
      /\ job[c].pc = "resent" => k.pc = "unclear"
      /\ k.win = job[c].win /\ k.keep = job[c].keep
  BY <1>2 DEF JobOk, ShapeOfJob
<1> HIDE DEF k
<1>4. JobOk(c)'
  BY <1>1, <1>2, <1>3 DEF JobOk, Creating, Working
<1>5. CASE UNCHANGED <<remote, madeFor>>
  <2>1. ChatKept({})
    BY <1>5, ChatSame
  <2>2. \A t : c \notin Waiting(t)
    BY <1>1, <1>2 DEF Waiting, InFlight
  <2>3. After
    BY <1>1, <1>2, <1>4, <2>1, <2>2, NoneClears, JobMoves
  <2> QED  BY <2>3 DEF After
<1>6. ASSUME NEW n \in Topics, Makes(n, job[c].win), job[c].pc \in HiddenEffect
      PROVE  /\ "sent" \notin HiddenEffect => After
             /\ Fine(router', everBound') /\ File' /\ Chat' /\ Tasks' /\ Deletes'
             /\ Leaves
  <2>1. /\ remote[n] = "none" /\ madeFor[n] = None
        /\ remote' = [remote EXCEPT ![n] = "open"]
        /\ madeFor' = [madeFor EXCEPT ![n] = job[c].win]
        /\ job[c].win \in Windows
    BY <1>1, <1>2, <1>6 DEF Makes, TraceInv, Chat, JobOk, InFlight
  <2>2. ChatGrows
    BY <2>1 DEF ChatGrows, TraceInv, Chat
  <2>3. TasksKept(C)
    <3>1. \A p \in Recoverers : rec[p].pc = "clear" => rec[p].claim # c
      BY <1>2, NoneClears
    <3>2. job' = [d \in ClaimIds |-> job'[d]] /\ rec = [p \in Recoverers |-> rec[p]]
          /\ \A d \in ClaimIds \ {c} : job'[d] = job[d]
      BY <1>1 DEF TraceInv, Tasks
    <3> QED  BY <1>1, <1>4, <3>1, <3>2 DEF TasksKept
  <2> HIDE DEF C, G
  <2>4. Written(router, router, C, G)
    BY <1>1, QuietWritten
  <2>5. Tasks'
    BY <2>2, <2>3, <2>4, TasksStep
  <2>6. Fine(router', everBound') /\ File'
    BY <1>1 DEF TraceInv, File
  <2>7. Chat'
    BY <2>1 DEF TraceInv, Chat
  <2>8. Deletes' /\ Leaves
    BY <1>1, DeletesQuiet DEF Leaves
  <2>9. ASSUME "sent" \notin HiddenEffect
        PROVE  After
    <3>1. k.pc = "unclear"
      BY <1>1, <1>3, <1>6, <2>9 DEF InFlight
    <3>2. c \in Waiting(n)'
      BY <1>1, <1>2, <1>3, <3>1, NoneClears DEF Waiting
    <3> QED  BY <1>1, <1>4, <1>6, <3>2, MakesKeeps
  <2> QED  BY <2>5, <2>6, <2>7, <2>8, <2>9
<1> QED  BY <1>5, <1>6 DEF TelegramTimesOut

-----------------------------------------------------------------------------
(* The recovery.                                                           *)

\* A recoverer that looks around, or leaves.
LEMMA RecMoves ==
    ASSUME TraceInv, IInv', NEW p \in Recoverers,
           UNCHANGED <<router, disk, everBound, remote, madeFor, job, cleanup>>,
           NEW k, rec' = [rec EXCEPT ![p] = k],
           k = NoRec \/ (RecOk(p)' /\ k.pc # "clear")
    PROVE  After
<1> DEFINE C == {}
           G == {}
<1>1. TasksKept(C)
  <2>1. /\ job = [c \in ClaimIds |-> job[c]]
        /\ rec' = [q \in Recoverers |-> rec'[q]] /\ rec'[p] = k
        /\ \A q \in Recoverers \ {p} : rec'[q] = rec[q]
    BY DEF TraceInv, Tasks
  <2> QED  BY <2>1 DEF TasksKept
<1>2. ChatKept(G)
  BY ChatSame
<1>3. \A c \in ClaimIds \cap C : ClaimKept(c, router, router, G)
  OBVIOUS
<1> HIDE DEF C, G
<1>4. Written(router, router, C, G)
  BY QuietWritten
<1>5. Deletes'
  BY DeletesQuiet
<1> QED  BY <1>1, <1>2, <1>3, <1>4, <1>5, StepKeeps

\* The claim that a recoverer works on is no one else's.
LEMMA UntouchedFree ==
    ASSUME TraceInv, NEW p \in Recoverers, Untouched(p),
           rec[p].pc \notin {"idle", "clear", "create"}
    PROVE  LET c == rec[p].claim
               k == rec[p].snap
           IN  /\ c \in ClaimIds /\ ~Working(c)
               /\ router.claims[c] = k /\ k \in TopicProvisioning /\ k # None
               /\ ~Blind(k) /\ k.target # None
               /\ \A q \in Recoverers : rec[q].pc = "clear" => rec[q].claim # c
<1> DEFINE c == rec[p].claim
           k == rec[p].snap
<1>1. /\ c \in ClaimIds /\ k \in TopicProvisioning /\ ~Blind(k)
      /\ k.target # None /\ router.claims[c] = k /\ c \notin router.owned
      /\ k # None
  BY RouterAssumption DEF TraceInv, Tasks, RecOk, Untouched, Current
<1>2. \A q \in Recoverers : rec[q].pc = "clear" => rec[q].claim # c
  BY <1>1 DEF TraceInv, Tasks, RecOk, ClearOk
<1>3. ~Working(c)
  <2> SUFFICES ASSUME Working(c)
               PROVE  FALSE
    OBVIOUS
  <2> HIDE DEF c
  <2>1. JobOk(c)
    BY <1>1 DEF TraceInv, Tasks
  <2>2. job[c].flow = "create" /\ Creating(c, router.claims[c]) /\ ~job[c].keep
    BY <1>1, <2>1 DEF JobOk
  <2> QED  BY <1>1, <2>2 DEF Creating, Blind
<1> QED  BY <1>1, <1>2, <1>3

\* The recoverer writes its claim, by way of r, and leaves it.
LEMMA RecWrites ==
    ASSUME TraceInv, IInv', Deletes', NEW p \in Recoverers, Untouched(p),
           rec[p].pc \notin {"idle", "clear", "create"}, Leave(p), job' = job,
           UNCHANGED <<remote, madeFor>>,
           NEW c, c = rec[p].claim, NEW G,
           \A t \in Topics \cap G : remote[t] = "gone",
           NEW r, NEW s, Written(r, s, {c}, G),
           s.claims[c] # None => r.claims[c] # None,
           LET t == rec[p].snap.thread
           IN  t \in Topics => \/ t \in G
                               \/ /\ r = s
                                  /\ t \in BoundTopics(s) \/ s.retired[t] # None
    PROVE  After
<1> DEFINE C == {c}
           k == rec[p].snap
<1>1. /\ c \in ClaimIds /\ ~Working(c)
      /\ router.claims[c] = k /\ k \in TopicProvisioning /\ k # None
      /\ ~Blind(k) /\ k.target # None
      /\ \A q \in Recoverers : rec[q].pc = "clear" => rec[q].claim # c
  BY UntouchedFree
<1>2. TasksKept(C)
  <2>1. /\ job = [d \in ClaimIds |-> job[d]]
        /\ rec' = [q \in Recoverers |-> rec'[q]]
        /\ \A q \in Recoverers : rec'[q] \in {NoRec, rec[q]}
    BY DEF Leave, TraceInv, Tasks
  <2>2. JobOk(c)'
    BY <1>1 DEF JobOk, Working, TraceInv, Tasks
  <2> QED  BY <1>1, <2>1, <2>2 DEF TasksKept
<1>3. ChatKept(G)
  BY DEF ChatKept, TraceInv, Chat
<1>4. ASSUME NEW t \in Topics, Unbound(t)',
             Holds(router.claims[c], c, t, madeFor[t], Waiting(t))
      PROVE  s.retired[t] # None /\ r.retired[t] # None
  <2>1. t = k.thread
    BY <1>1, <1>4 DEF Holds
  <2>2. t \notin G
    BY <1>4 DEF Unbound, Asked
  <2>3. t \notin BoundTopics(s)
    BY <1>4 DEF Written, Unbound
  <2> QED  BY <2>1, <2>2, <2>3
<1>5. HoldsOn(r, c) /\ HoldsOn(s, c)
  BY <1>4 DEF HoldsOn
<1>6. FileHoldsOn(c)
  <2>1. \A q \in Recoverers : rec'[q].pc = "clear" => rec'[q].claim # c
    BY <1>1 DEF Leave, TraceInv, Tasks, NoRec
  <2> QED  BY <1>1, <2>1 DEF FileHoldsOn, Holds, Waiting, Working
<1>7. ClaimKept(c, r, s, G)
  <2>1. disk.claims[c] # None
    BY <1>1 DEF TraceInv, File
  <2>2. s.claims[c] # None => disk'.claims[c] # None
    BY <2>1 DEF Written, Durable
  <2>3. k.thread \in Topics =>
           \/ s.bind[k.thread] # None
           \/ s.retired[k.thread] # None
           \/ k.thread \in G
    BY DEF BoundTopics
  <2> QED  BY <1>1, <1>5, <1>6, <2>2, <2>3 DEF ClaimKept
<1>8. \A d \in ClaimIds \cap C : ClaimKept(d, r, s, G)
  BY <1>7
<1>9. Written(r, s, C, G)
  OBVIOUS
<1> HIDE DEF C
<1> QED  BY <1>2, <1>3, <1>8, <1>9, StepKeeps

LEMMA RecPickStep ==
    ASSUME TraceInv, IInv', NEW p \in Recoverers, NEW c \in ClaimIds, RecPick(p, c)
    PROVE  After
<1> DEFINE claim == router.claims[c]
           k == [pc |-> IF claim.thread # None THEN "presence" ELSE "lock",
                 claim |-> c, snap |-> claim, dead |-> FALSE]
<1>1. /\ rec' = [rec EXCEPT ![p] = k] /\ claim # None /\ claim.target # None
      /\ claim.thread # None \/ (claim.retry # None /\ ~claim.uncertain)
      /\ UNCHANGED <<router, disk, everBound, remote, madeFor, job, cleanup>>
  BY DEF RecPick, Quiet, env
<1>2. claim \in TopicProvisioning
  BY <1>1 DEF TraceInv, Fine, Types, SavedTypes
<1>3. rec'[p] = k
  BY <1>1 DEF TraceInv, Tasks
<1>4. /\ ShapeOfRec(k) /\ k.claim = c /\ k.snap = claim
      /\ \/ k.pc = "presence" /\ claim.thread # None
         \/ k.pc = "lock" /\ claim.thread = None
  BY DEF ShapeOfRec
<1> HIDE DEF k, claim
<1>5. RecOk(p)'
  <2>1. ~Blind(claim)
    BY <1>1 DEF Blind
  <2> QED  BY <1>1, <1>2, <1>3, <1>4, <2>1 DEF RecOk
<1> QED  BY <1>1, <1>4, <1>5, RecMoves

\* A recoverer that goes on with what it has learnt.
LEMMA GoOnStep ==
    ASSUME TraceInv, IInv', NEW p \in Recoverers,
           UNCHANGED <<router, disk, everBound, remote, madeFor, job, cleanup>>,
           rec[p].pc \notin {"idle", "clear", "create"},
           NEW pc \in {"probe", "ready", "commit", "lock", "recreate", "agent"},
           NEW dead,
           rec' = [rec EXCEPT ![p] = [rec[p] EXCEPT !.pc = pc, !.dead = dead]],
           pc \in {"lock", "recreate", "agent"} =>
              \/ rec[p].pc \in {"lock", "recreate", "agent"}
              \/ remote[rec[p].snap.thread] = "gone"
    PROVE  After
<1> DEFINE k == [rec[p] EXCEPT !.pc = pc, !.dead = dead]
<1>1. RecOk(p) /\ rec'[p] = k
  BY DEF TraceInv, Tasks
<1>2. k.pc = pc /\ k.claim = rec[p].claim /\ k.snap = rec[p].snap /\ ShapeOfRec(k)
  BY <1>1 DEF RecOk, ShapeOfRec
<1>3. rec' = [rec EXCEPT ![p] = k]
  OBVIOUS
<1> HIDE DEF k
<1>4. RecOk(p)'
  BY <1>1, <1>2 DEF RecOk
<1> QED  BY <1>2, <1>3, <1>4, RecMoves

LEMMA LeaveStep ==
    ASSUME TraceInv, IInv', NEW p \in Recoverers, Leave(p),
           UNCHANGED <<router, disk, everBound, remote, madeFor, job, cleanup>>
    PROVE  After
BY RecMoves DEF Leave

LEMMA GoToIs ==
    ASSUME TraceInv, NEW p \in Recoverers, NEW pc, GoTo(p, pc)
    PROVE  rec' = [rec EXCEPT ![p] = [rec[p] EXCEPT !.pc = pc, !.dead = rec[p].dead]]
<1>1. ShapeOfRec(rec[p])
  BY DEF TraceInv, Tasks, RecOk
<1>2. [rec[p] EXCEPT !.pc = pc] = [rec[p] EXCEPT !.pc = pc, !.dead = rec[p].dead]
  BY <1>1 DEF ShapeOfRec
<1> QED  BY <1>2 DEF GoTo

LEMMA RecProbeStep ==
    ASSUME TraceInv, IInv', NEW p \in Recoverers,
           RecProbe(p) \/ RecReady(p) \/ RecLock(p)
    PROVE  After
<1>1. UNCHANGED <<router, disk, everBound, remote, madeFor, job, cleanup>>
  BY DEF RecProbe, RecReady, RecLock, Quiet, env
<1>2. rec[p].pc \in {"probe", "ready", "lock"}
  BY DEF RecProbe, RecReady, RecLock
<1>3. CASE Leave(p)
  BY <1>1, <1>3, LeaveStep
<1>4. ASSUME NEW pc \in {"ready", "commit", "recreate"}, GoTo(p, pc),
             pc = "recreate" => rec[p].pc = "lock"
      PROVE  After
  <2>1. rec' = [rec EXCEPT ![p] = [rec[p] EXCEPT !.pc = pc, !.dead = rec[p].dead]]
    BY <1>4, GoToIs
  <2> QED  BY <1>1, <1>2, <1>4, <2>1, GoOnStep
<1>5. CASE /\ remote[rec[p].snap.thread] = "gone"
           /\ \E b : rec' = [rec EXCEPT ![p].pc = "lock", ![p].dead = b]
  <2>1. PICK b : rec' = [rec EXCEPT ![p].pc = "lock", ![p].dead = b]
    BY <1>5
  <2>2. rec' = [rec EXCEPT ![p] = [rec[p] EXCEPT !.pc = "lock", !.dead = b]]
    BY <2>1 DEF TraceInv, Tasks
  <2> DEFINE pc == "lock"
  <2>3. pc \in {"probe", "ready", "commit", "lock", "recreate", "agent"}
    OBVIOUS
  <2>4. rec' = [rec EXCEPT ![p] = [rec[p] EXCEPT !.pc = pc, !.dead = b]]
    BY <2>2
  <2> HIDE DEF pc
  <2> QED  BY <1>1, <1>2, <1>5, <2>3, <2>4, GoOnStep
<1>6. CASE RecProbe(p)
  BY <1>3, <1>4, <1>5, <1>6 DEF RecProbe
<1>7. CASE RecReady(p)
  BY <1>3, <1>4, <1>7 DEF RecReady
<1>8. CASE RecLock(p)
  BY <1>4, <1>8 DEF RecLock
<1> QED  BY <1>6, <1>7, <1>8

LEMMA RecPresenceStep ==
    ASSUME TraceInv, IInv', NEW p \in Recoverers, RecPresence(p)
    PROVE  After
<1> DEFINE c == rec[p].claim
           t == rec[p].snap.thread
           s == Abort(router, c, TRUE, FALSE)
           C == {c}
           G == {}
<1>1. UNCHANGED <<remote, madeFor, job>> /\ rec[p].pc = "presence"
  BY DEF RecPresence, env
<1>2. CASE Leave(p) /\ UNCHANGED <<router, disk, everBound, cleanup>>
  BY <1>1, <1>2, LeaveStep
<1>3. CASE GoTo(p, "probe") /\ UNCHANGED <<router, disk, everBound, cleanup>>
  <2> DEFINE pc == "probe"
  <2>1. pc \in {"probe", "ready", "commit"} /\ GoTo(p, pc)
    BY <1>3
  <2> HIDE DEF pc
  <2>2. rec' = [rec EXCEPT ![p] = [rec[p] EXCEPT !.pc = pc, !.dead = rec[p].dead]]
    BY <2>1, GoToIs
  <2>3. /\ pc \in {"probe", "ready", "commit", "lock", "recreate", "agent"}
        /\ pc \notin {"lock", "recreate", "agent"}
    BY <2>1
  <2> QED  BY <1>1, <1>3, <2>2, <2>3, GoOnStep
<1>4. CASE Untouched(p) /\ Leave(p) /\ StartCleanup(s, t, "before")
  <2>1. /\ c \in ClaimIds /\ router.claims[c] # None
        /\ router.claims[c].thread = t /\ t \in Topics /\ t # None
    <3>1. /\ c \in ClaimIds /\ router.claims[c] = rec[p].snap
          /\ rec[p].snap \in TopicProvisioning /\ rec[p].snap # None
      BY <1>1, <1>4, UntouchedFree
    <3>2. t # None
      BY <1>1 DEF TraceInv, Tasks, RecOk
    <3> QED  BY <3>1, <3>2 DEF TopicProvisioning
  <2>2. Fine(router, everBound) /\ Consistent(router) /\ c \in C
    BY DEF TraceInv, IInv
  <2> HIDE DEF c, t, C, G
  <2>3. /\ s.claims[c] = None
        /\ s.bind[t] # None \/ s.retired[t] # None
        /\ Turns(router, s, everBound, C, G)
    BY <2>1, <2>2, AbsentTurns
  <2>4. Consistent(s)
    BY <2>2, AbortConsistent
  <2> HIDE DEF s
  <2>5. Written(s, s, C, G) /\ Deletes'
    BY <1>4, <2>1, <2>3, <2>4, StartCleanupStep
  <2>6. t \in BoundTopics(s) \/ s.retired[t] # None
    BY <2>1, <2>3 DEF BoundTopics
  <2>7. rec[p].pc \notin {"idle", "clear", "create"}
    BY <1>1
  <2>8. \A u \in Topics \cap G : remote[u] = "gone"
    BY DEF G
  <2>9. rec[p].snap.thread = t /\ rec[p].claim = c
    BY DEF t, c
  <2> QED  BY <1>1, <1>4, <2>3, <2>5, <2>6, <2>7, <2>8, <2>9, RecWrites DEF C
<1> QED  BY <1>1, <1>2, <1>3, <1>4 DEF RecPresence, Quiet

LEMMA RecCommitStep ==
    ASSUME TraceInv, IInv', NEW p \in Recoverers, RecCommit(p)
    PROVE  After
<1> DEFINE c == rec[p].claim
           s == Commit(router, c)
           C == {c}
           G == {}
<1>1. UNCHANGED <<remote, madeFor, job, cleanup>> /\ rec[p].pc = "commit" /\ Leave(p)
  BY DEF RecCommit, env
<1>2. CASE UNCHANGED <<router, disk, everBound>>
  BY <1>1, <1>2, LeaveStep
<1>3. CASE Untouched(p) /\ CanCommit(router, c) /\ Save(s)
  <2>1. c \in ClaimIds /\ router.claims[c] = rec[p].snap
    BY <1>1, <1>3, UntouchedFree
  <2>2. Fine(router, everBound) /\ Consistent(router) /\ c \in C
    BY DEF TraceInv, IInv
  <2> HIDE DEF c, C, G
  <2>3. /\ rec[p].snap.thread \in BoundTopics(s) /\ s.claims[c] = None
        /\ Turns(router, s, everBound, C, G)
    BY <1>3, <2>1, <2>2, CommitTurns
  <2>4. Consistent(s)
    BY <1>3, <2>2, CommitConsistent
  <2> HIDE DEF s
  <2>5. Becomes(s) /\ (disk' = disk \/ disk' = Durable(s)) /\ router' = s
    BY <1>3 DEF Save, Becomes
  <2>6. Written(s, s, C, G)
    BY <2>3, <2>5, OneWritten
  <2>7. Deletes'
    BY <1>1, <2>3, <2>4, <2>5, DeletesKept DEF Turns
  <2>8. \A u \in Topics \cap G : remote[u] = "gone"
    BY DEF G
  <2>9. rec[p].claim = c
    BY DEF c
  <2> QED  BY <1>1, <1>3, <2>3, <2>6, <2>7, <2>8, <2>9, RecWrites DEF C
<1> QED  BY <1>2, <1>3 DEF RecCommit, Quiet

\* Record s has claim c ready for a new topic; the old one, in G, is gone.
Prepared(s, c, w, C, G) ==
    /\ Fine(s, everBound) /\ Consistent(s)
    /\ Turns(router, s, everBound, C, G)
    /\ BoundTopics(s) \subseteq everBound
    /\ \A t \in Topics \cap G : remote[t] = "gone"
    /\ s.claims[c] \in TopicProvisioning /\ s.claims[c] # None
    /\ s.claims[c].thread = None /\ s.claims[c].target = w
    /\ s.claims[c].uncertain /\ s.claims[c].retry # None
    /\ c \in s.owned

LEMMA PreparedTurns ==
    ASSUME TraceInv, NEW p \in Recoverers, Untouched(p),
           rec[p].pc \in {"recreate", "agent"},
           NEW C, NEW G, rec[p].claim \in C, G = {rec[p].snap.thread}
    PROVE  Prepared(PrepareRecreation(router, rec[p].claim), rec[p].claim,
                    rec[p].snap.target, C, G)
<1> DEFINE c == rec[p].claim
           k == rec[p].snap
           s == PrepareRecreation(router, c)
           m == s.claims[c]
<1>1. /\ c \in ClaimIds /\ router.claims[c] = k /\ k \in TopicProvisioning
      /\ k # None /\ ~Blind(k)
  BY UntouchedFree
<1>2. \A t \in Topics \cap G : remote[t] = "gone"
  BY RouterAssumption DEF TraceInv, Tasks, RecOk
<1>3. Fine(router, everBound) /\ Consistent(router) /\ c \in C
  BY DEF TraceInv, IInv
<1>4. /\ router.claims[c] # None
      /\ router.claims[c].thread # None => router.claims[c].thread \in G
  BY <1>1
<1>5. Consistent(s)
  <2> HIDE DEF c, k
  <2> QED  BY <1>3, <1>4, PreparedConsistent
<1> HIDE DEF c, k
<1>6. /\ Fine(s, everBound) /\ Turns(router, s, everBound, C, G)
      /\ m \in TopicProvisioning /\ m # None
      /\ m.thread = None /\ m.target = router.claims[c].target /\ m.uncertain
      /\ router.claims[c].thread # None \/ router.claims[c].retry # None =>
            m.retry # None
      /\ c \in s.owned
  BY <1>1, <1>3, <1>4, PrepareTurns
<1> HIDE DEF s, m
<1>7. m.retry # None
  BY <1>1, <1>6 DEF Blind
<1>8. BoundTopics(s) \subseteq everBound
  BY <1>6 DEF Fine, Known
<1> QED  BY <1>1, <1>2, <1>5, <1>6, <1>7, <1>8 DEF Prepared, s, m, c, k

\* The prepared claim becomes that of s, and one of the two is saved, or none.
LEMMA PreparedSaved ==
    ASSUME TraceInv, IInv', NEW p \in Recoverers, Untouched(p),
           rec[p].pc \in {"recreate", "agent"}, Leave(p), job' = job,
           UNCHANGED <<remote, madeFor, cleanup>>,
           NEW c, c = rec[p].claim, NEW C, C = {c}, NEW G, G = {rec[p].snap.thread},
           NEW r, r = PrepareRecreation(router, c),
           NEW s, Turns(r, s, everBound, C, G), Consistent(s), Becomes(s),
           disk' \in {disk, Durable(r), Durable(s)}
    PROVE  After
<1>1. /\ Fine(r, everBound) /\ Consistent(r)
      /\ Turns(router, r, everBound, C, G)
      /\ BoundTopics(r) \subseteq everBound
      /\ \A t \in Topics \cap G : remote[t] = "gone"
      /\ r.claims[c] # None
  <2>1. rec[p].claim \in C
    OBVIOUS
  <2>2. Prepared(PrepareRecreation(router, rec[p].claim), rec[p].claim,
                 rec[p].snap.target, C, G)
    BY <2>1, PreparedTurns
  <2> QED  BY <2>2 DEF Prepared
<1>2. Turns(router, s, everBound, C, G) /\ router' = s
  <2>1. Fine(router, everBound)
    BY DEF TraceInv
  <2> QED  BY <1>1, <2>1, TurnsMore DEF Becomes
<1>3. rec[p].pc \notin {"idle", "clear", "create"} /\ rec[p].snap.thread \in G
  OBVIOUS
<1>4. CASE disk' = disk \/ disk' = Durable(s)
  <2>1. Written(s, s, C, G)
    BY <1>2, <1>4, OneWritten
  <2>2. Deletes'
    BY <1>2, <1>4, DeletesKept DEF Turns
  <2> QED  BY <1>1, <1>3, <2>1, <2>2, RecWrites
<1>5. CASE disk' = Durable(r)
  <2>1. Written(r, s, C, G)
    BY <1>1, <1>2, <1>5, BothWritten DEF Turns
  <2>2. Deletes'
    BY <1>1, <1>2, <1>5, DeletesKept DEF Turns
  <2> QED  BY <1>1, <1>3, <2>1, <2>2, RecWrites
<1> QED  BY <1>4, <1>5

LEMMA RecRecreateStep ==
    ASSUME TraceInv, IInv', NEW p \in Recoverers, RecRecreate(p)
    PROVE  After
<1> DEFINE c == rec[p].claim
           r == PrepareRecreation(router, c)
           C == {c}
           G == {rec[p].snap.thread}
<1>1. UNCHANGED <<remote, madeFor, job, cleanup>> /\ rec[p].pc = "recreate"
  BY DEF RecRecreate, env
<1>2. CASE Leave(p) /\ UNCHANGED <<router, disk, everBound>>
  BY <1>1, <1>2, LeaveStep
<1>3. CASE GoTo(p, "agent") /\ UNCHANGED <<router, disk, everBound>>
  <2> DEFINE pc == "agent"
  <2>1. pc \in {"agent"} /\ GoTo(p, pc)
    BY <1>3
  <2> HIDE DEF pc
  <2>2. rec' = [rec EXCEPT ![p] = [rec[p] EXCEPT !.pc = pc, !.dead = rec[p].dead]]
    BY <2>1, GoToIs
  <2>3. pc \in {"probe", "ready", "commit", "lock", "recreate", "agent"}
    BY <2>1
  <2> QED  BY <1>1, <1>3, <2>2, <2>3, GoOnStep
<1>4. ASSUME Untouched(p)
      PROVE  /\ Fine(r, everBound) /\ Consistent(r) /\ c \in ClaimIds
             /\ r.claims[c] # None /\ r.claims[c].thread = None
  <2>1. rec[p].claim \in C /\ rec[p].pc \in {"recreate", "agent"}
    BY <1>1
  <2> HIDE DEF C, G
  <2>2. /\ Fine(r, everBound) /\ Consistent(r)
        /\ r.claims[c] # None /\ r.claims[c].thread = None
    <3>1. Prepared(PrepareRecreation(router, rec[p].claim), rec[p].claim,
                   rec[p].snap.target, C, G)
      BY <1>4, <2>1, PreparedTurns DEF G
    <3> QED  BY <3>1 DEF Prepared
  <2>3. c \in ClaimIds
    BY <1>1, <1>4, UntouchedFree
  <2> QED  BY <2>2, <2>3
<1>5. ASSUME Untouched(p), NEW s, Turns(r, s, everBound, C, G), Consistent(s),
             Becomes(s), disk' \in {disk, Durable(r), Durable(s)}, Leave(p)
      PROVE  After
  <2>1. rec[p].pc \in {"recreate", "agent"}
    BY <1>1
  <2> HIDE DEF C, G, r, c
  <2> QED  BY <1>1, <1>5, <2>1, PreparedSaved DEF C, G, r, c
<1>6. ASSUME Untouched(p), NEW b \in BOOLEAN
      PROVE  LET s == DeferRecreation(r, c, b)
             IN  Turns(r, s, everBound, C, G) /\ Consistent(s)
  <2>1. c \in C
    OBVIOUS
  <2> HIDE DEF C, G, r, c
  <2>2. Consistent(DeferRecreation(r, c, b))
    BY <1>4, <1>6, DeferConsistent
  <2> QED  BY <1>4, <1>6, <2>1, <2>2, DeferTurns
<1>7. ASSUME Untouched(p), NEW a \in BOOLEAN, NEW b \in BOOLEAN
      PROVE  LET s == Abort(r, c, a, b)
             IN  Turns(r, s, everBound, C, G) /\ Consistent(s)
  <2>1. c \in C
    OBVIOUS
  <2> HIDE DEF C, G, r, c
  <2>2. Consistent(Abort(r, c, a, b))
    BY <1>4, <1>7, AbortConsistent
  <2> QED  BY <1>4, <1>7, <2>1, <2>2, AbortTurns
<1>8. CASE Untouched(p) /\ Leave(p) /\ SaveAfterFault(DeferRecreation(r, c, TRUE))
  <2> DEFINE b == TRUE
             s == DeferRecreation(r, c, b)
  <2>1. b \in BOOLEAN /\ Becomes(s) /\ (disk' = disk \/ disk' = Durable(s))
    BY <1>8 DEF SaveAfterFault
  <2> HIDE DEF b, C, G, r, c
  <2> QED  BY <1>5, <1>6, <1>8, <2>1
<1>9. CASE Untouched(p) /\ Leave(p) /\ PrepareFails(r, c)
  <2> DEFINE b == FALSE
             s == DeferRecreation(r, c, b)
  <2>1. b \in BOOLEAN /\ Becomes(s) /\ disk' = disk
    BY <1>9 DEF PrepareFails
  <2> HIDE DEF b, C, G, r, c
  <2> QED  BY <1>5, <1>6, <1>9, <2>1
<1>10. ASSUME Untouched(p), Leave(p), NEW a \in BOOLEAN, NEW b \in BOOLEAN,
              SaveBoth(r, Abort(r, c, a, b))
       PROVE  After
  <2> DEFINE s == Abort(r, c, a, b)
  <2>1. Becomes(s) /\ (disk' = Durable(r) \/ disk' = Durable(s))
    BY <1>10 DEF SaveBoth
  <2> HIDE DEF C, G, r, c
  <2> QED  BY <1>5, <1>7, <1>10, <2>1
<1>11. CASE Untouched(p) /\ Leave(p) /\ SaveBoth(r, Abort(r, c, TRUE, FALSE))
  <2> DEFINE a == TRUE
             b == FALSE
  <2>1. a \in BOOLEAN /\ b \in BOOLEAN /\ SaveBoth(r, Abort(r, c, a, b))
    BY <1>11
  <2> HIDE DEF a, b, C, G, r, c
  <2> QED  BY <1>10, <1>11, <2>1
<1>12. CASE Untouched(p) /\ Leave(p) /\ SaveBoth(r, Abort(r, c, FALSE, TRUE))
  <2> DEFINE a == FALSE
             b == TRUE
  <2>1. a \in BOOLEAN /\ b \in BOOLEAN /\ SaveBoth(r, Abort(r, c, a, b))
    BY <1>12
  <2> HIDE DEF a, b, C, G, r, c
  <2> QED  BY <1>10, <1>12, <2>1
<1> QED  BY <1>2, <1>3, <1>8, <1>9, <1>11, <1>12 DEF RecRecreate, Quiet

\* Claim k of c waits for a new topic, in memory and on disk.
Awaits(k, c, w) ==
    /\ router'.claims[c] = k /\ disk'.claims[c] = k /\ c \in router'.owned
    /\ k # None /\ k.thread = None /\ k.target = w
    /\ k.uncertain /\ k.retry # None

\* The task of a creation whose request for window w is on its way.
SentJob(m, w) == m = [NoJob EXCEPT !.pc = "sent", !.win = w, !.keep = TRUE]

LEMMA SendIs ==
    ASSUME NEW w, NEW m, SentJob(m, w)
    PROVE  /\ m.pc = "sent" /\ m.flow = "create" /\ m.win = w /\ m.keep = TRUE
           /\ ShapeOfJob(m)
BY DEF NoJob, ShapeOfJob, SentJob

LEMMA SendTasks ==
    ASSUME TraceInv, NEW p \in Recoverers, rec[p].pc # "idle", SendReplacement(p),
           NEW c, c = rec[p].claim, NEW k, Awaits(k, c, rec[p].snap.target),
           \A q \in Recoverers \ {p} : rec[q].pc = "clear" => rec[q].claim # c
    PROVE  TasksKept({c})
<1> DEFINE w == rec[p].snap.target
           m == [NoJob EXCEPT !.pc = "sent", !.win = w, !.keep = TRUE]
           n == [rec[p] EXCEPT !.pc = "create"]
<1>1. /\ c \in ClaimIds /\ rec[p].snap \in TopicProvisioning
      /\ rec[p].snap.target # None /\ ShapeOfRec(rec[p])
  BY DEF TraceInv, Tasks, RecOk
<1>2. job' = [job EXCEPT ![c] = m] /\ rec' = [rec EXCEPT ![p] = n]
  BY DEF SendReplacement, GoTo
<1>3. /\ m.pc = "sent" /\ m.flow = "create" /\ m.win = rec[p].snap.target
      /\ m.keep = TRUE /\ ShapeOfJob(m)
  <2>1. SentJob(m, w) /\ w = rec[p].snap.target
    BY DEF SentJob
  <2> HIDE DEF m, w
  <2>2. m.pc = "sent" /\ m.flow = "create" /\ m.win = w /\ m.keep = TRUE /\ ShapeOfJob(m)
    BY <2>1, SendIs
  <2> QED  BY <2>1, <2>2
<1>4. /\ n.pc = "create" /\ n.claim = c /\ n.snap = rec[p].snap /\ ShapeOfRec(n)
  BY <1>1 DEF ShapeOfRec
<1> HIDE DEF m, n
<1>5. /\ job' = [d \in ClaimIds |-> job'[d]] /\ rec' = [q \in Recoverers |-> rec'[q]]
      /\ job'[c] = m /\ \A d \in ClaimIds \ {c} : job'[d] = job[d]
      /\ rec'[p] = n /\ \A q \in Recoverers \ {p} : rec'[q] = rec[q]
  BY <1>1, <1>2 DEF TraceInv, Tasks
<1>6. JobOk(c)'
  <2>1. m.win \in Windows
    BY <1>1, <1>3 DEF TopicProvisioning
  <2> QED  BY <1>3, <1>5, <2>1 DEF JobOk, Creating, Awaits
<1>7. RecOk(p)'
  BY <1>1, <1>4, <1>5 DEF RecOk
<1>8. rec'[p].pc # "clear"
  BY <1>4, <1>5
<1> QED  BY <1>5, <1>6, <1>7, <1>8 DEF TasksKept

LEMMA DefersStep ==
    ASSUME TraceInv, IInv', NEW p \in Recoverers, Untouched(p),
           rec[p].pc \in {"recreate", "agent"}, Leave(p), job' = job,
           UNCHANGED <<remote, madeFor, cleanup>>,
           NEW c, c = rec[p].claim, NEW r, r = PrepareRecreation(router, c),
           NEW b \in BOOLEAN, NEW s, s = DeferRecreation(r, c, b), Becomes(s),
           disk' \in {disk, Durable(r), Durable(s)}
    PROVE  After
<1> DEFINE C == {c}
           G == {rec[p].snap.thread}
<1>1. rec[p].claim \in C /\ c \in C /\ c \in ClaimIds
  BY UntouchedFree
<1> HIDE DEF C, G
<1>2. Prepared(r, c, rec[p].snap.target, C, G)
  <2>1. Prepared(PrepareRecreation(router, rec[p].claim), rec[p].claim,
                 rec[p].snap.target, C, G)
    BY <1>1, PreparedTurns DEF G
  <2> QED  BY <2>1
<1>3. /\ Fine(r, everBound) /\ Consistent(r)
      /\ r.claims[c] # None /\ r.claims[c].thread = None
  BY <1>2 DEF Prepared
<1>4. Consistent(s)
  BY <1>3, DeferConsistent
<1>5. Turns(r, s, everBound, C, G)
  BY <1>1, <1>3, DeferTurns
<1> QED  BY <1>4, <1>5, PreparedSaved DEF C, G

LEMMA ClearTasks ==
    ASSUME TraceInv, NEW p \in Recoverers, job' = job,
           NEW c \in ClaimIds, c = rec[p].claim, ~Working(c), rec[p].pc # "idle",
           NEW k \in TopicProvisioning, Awaits(k, c, rec[p].snap.target),
           rec' = [rec EXCEPT ![p].pc = "clear", ![p].snap = k],
           \A q \in Recoverers \ {p} : rec[q].pc = "clear" => rec[q].claim # c
    PROVE  TasksKept({c})
<1>1. RecOk(p) /\ ShapeOfRec(rec[p]) /\ rec = [q \in Recoverers |-> rec[q]]
  BY DEF TraceInv, Tasks, RecOk
<1> DEFINE n == rec'[p]
<1>2. n = [rec[p] EXCEPT !.pc = "clear", !.snap = k]
  BY <1>1
<1>3. ShapeOfRec(n) /\ n.pc = "clear" /\ n.claim = c /\ n.snap = k
  BY <1>1, <1>2 DEF ShapeOfRec
<1>4. /\ rec' = [q \in Recoverers |-> rec'[q]]
      /\ \A q \in Recoverers \ {p} : rec'[q] = rec[q]
  BY <1>1
<1>5. JobOk(c)' /\ ~Working(c)'
  BY DEF JobOk, Working, TraceInv, Tasks
<1>6. ClearOk(p)'
  <2>1. rec'[p].claim = c /\ rec'[p].snap = k
    BY <1>3, <1>4
  <2>2. \A q \in Recoverers \ {p} : rec'[q].pc = "clear" => rec'[q].claim # c
    BY <1>4
  <2> QED  BY <1>5, <2>1, <2>2 DEF ClearOk, Awaits
<1>7. RecOk(p)'
  <2>1. k.target # None
    BY <1>1 DEF RecOk, Awaits
  <2> QED  BY <1>3, <1>4, <1>6, <2>1 DEF RecOk
<1>8. job' = [d \in ClaimIds |-> job'[d]]
  BY DEF TraceInv, Tasks
<1> QED  BY <1>3, <1>4, <1>5, <1>7, <1>8 DEF TasksKept

\* The claim is ready and saved; its old topic is cleared, or a new one asked for.
LEMMA RecPreparesStep ==
    ASSUME TraceInv, IInv', NEW p \in Recoverers, rec[p].pc = "agent",
           Untouched(p), UNCHANGED <<remote, madeFor, cleanup>>,
           NEW c, c = rec[p].claim, NEW r, r = PrepareRecreation(router, c),
           Becomes(r), disk' = Durable(r),
           \/ /\ job' = job
              /\ rec' = [rec EXCEPT ![p].pc = "clear", ![p].snap = r.claims[c]]
           \/ SendReplacement(p)
    PROVE  After
<1> DEFINE w == rec[p].snap.target
           k == r.claims[c]
           C == {c}
           G == {rec[p].snap.thread}
<1>1. /\ c \in ClaimIds /\ ~Working(c) /\ router.claims[c] = rec[p].snap
      /\ ~Blind(rec[p].snap)
      /\ \A q \in Recoverers : rec[q].pc = "clear" => rec[q].claim # c
  BY UntouchedFree
<1>2. Prepared(r, c, w, C, G)
  <2>1. rec[p].claim \in C /\ rec[p].pc \in {"recreate", "agent"}
    OBVIOUS
  <2> HIDE DEF C, G
  <2>2. Prepared(PrepareRecreation(router, rec[p].claim), rec[p].claim,
                 rec[p].snap.target, C, G)
    BY <2>1, PreparedTurns DEF G
  <2> QED  BY <2>2
<1>3. k \in TopicProvisioning
  BY <1>2 DEF Prepared
<1>4. c \in C /\ \A t \in Topics \cap G : t = rec[p].snap.thread
  OBVIOUS
<1>5. C = {c}
  OBVIOUS
<1> HIDE DEF C, G
<1>6. Written(r, r, C, G)
  BY <1>2, OneWritten DEF Prepared
<1>7. Deletes'
  BY <1>2, DeletesKept DEF Prepared, Turns, Becomes
<1>8. ChatKept(G)
  BY <1>2 DEF ChatKept, TraceInv, Chat, Prepared
<1>9. Awaits(k, c, w)
  BY <1>2 DEF Awaits, Prepared, Becomes, Durable
<1>10. TasksKept(C)
  <2>1. rec[p].pc # "idle"
    OBVIOUS
  <2>2. CASE SendReplacement(p)
    <3> HIDE DEF k
    <3> QED  BY <1>1, <1>5, <1>9, <2>1, <2>2, SendTasks
  <2>3. CASE job' = job /\ rec' = [rec EXCEPT ![p].pc = "clear", ![p].snap = k]
    <3> HIDE DEF k
    <3> QED  BY <1>1, <1>3, <1>5, <1>9, <2>1, <2>3, ClearTasks
  <2> QED  BY <2>2, <2>3
<1>11. HoldsOn(r, c)
  <2>1. \A t \in Topics : Unbound(t)' => t \notin G
    BY <1>8 DEF Unbound, Asked, ChatKept
  <2> QED  BY <1>1, <2>1 DEF HoldsOn, Holds, G
<1>12. r.claims[c] # None /\ disk'.claims[c] # None
  BY <1>9 DEF Awaits
<1>13. ClaimKept(c, r, r, G)
  BY <1>11, <1>12 DEF ClaimKept
<1>14. \A d \in ClaimIds \cap C : ClaimKept(d, r, r, G)
  BY <1>5, <1>13
<1> QED  BY <1>6, <1>7, <1>8, <1>10, <1>14, StepKeeps

LEMMA RecAgentStep ==
    ASSUME TraceInv, IInv', NEW p \in Recoverers, RecAgent(p)
    PROVE  After
<1> DEFINE c == rec[p].claim
           r == PrepareRecreation(router, c)
<1>1. UNCHANGED <<remote, madeFor, cleanup>> /\ rec[p].pc = "agent"
  BY DEF RecAgent, env
<1>2. CASE Leave(p) /\ UNCHANGED <<router, disk, everBound, job>>
  BY <1>1, <1>2, LeaveStep
<1>3. CASE /\ Untouched(p) /\ Leave(p) /\ job' = job
           /\ PrepareFails(r, c) \/ InBackoff(r, c)
  <2> DEFINE b == FALSE
             s == DeferRecreation(r, c, b)
  <2>1. b \in BOOLEAN /\ Becomes(s) /\ disk' \in {disk, Durable(r), Durable(s)}
    BY <1>3 DEF PrepareFails, InBackoff
  <2>2. rec[p].pc \in {"recreate", "agent"}
    BY <1>1
  <2> HIDE DEF b
  <2> QED  BY <1>1, <1>3, <2>1, <2>2, DefersStep
<1>4. CASE /\ Untouched(p) /\ Becomes(r) /\ disk' = Durable(r)
           /\ \/ /\ job' = job
                 /\ rec' = [rec EXCEPT ![p].pc = "clear", ![p].snap = r.claims[c]]
              \/ SendReplacement(p)
  BY <1>1, <1>4, RecPreparesStep
<1> QED  BY <1>1, <1>2, <1>3, <1>4 DEF RecAgent, Quiet

\* A claim whose old topic is being cleared accounts for no topic yet.
LEMMA ClearHolds ==
    ASSUME TraceInv, NEW p \in Recoverers, rec[p].pc = "clear",
           NEW c, c = rec[p].claim
    PROVE  /\ c \in ClaimIds /\ ClearOk(p)
           /\ \A x : HoldsOn(x, c)
           /\ FileHoldsOn(c)
<1>1. c \in ClaimIds /\ ClearOk(p)
  BY DEF TraceInv, Tasks, RecOk
<1>2. /\ router.claims[c] = rec[p].snap /\ disk.claims[c] = rec[p].snap
      /\ rec[p].snap.thread = None
  BY <1>1 DEF ClearOk
<1>3. \A t : c \notin Waiting(t)
  BY DEF Waiting
<1>4. \A t \in Topics : t # None
  BY RouterAssumption
<1> QED  BY <1>1, <1>2, <1>3, <1>4 DEF HoldsOn, FileHoldsOn, Holds

LEMMA RecClearStep ==
    ASSUME TraceInv, IInv', NEW p \in Recoverers, RecClear(p)
    PROVE  After
<1>1. UNCHANGED <<remote, madeFor, cleanup>> /\ rec[p].pc = "clear"
  BY DEF RecClear, env
<1>2. PICK c : c = rec[p].claim
  OBVIOUS
<1> DEFINE C == {c}
           G == {}
<1>3. /\ c \in ClaimIds /\ ClearOk(p)
      /\ \A x : HoldsOn(x, c)
      /\ FileHoldsOn(c)
  BY <1>1, <1>2, ClearHolds
<1>4. /\ router.claims[c] = rec[p].snap /\ disk.claims[c] = rec[p].snap
      /\ c \in router.owned /\ ~Working(c)
      /\ rec[p].snap.thread = None /\ rec[p].snap.uncertain
      /\ rec[p].snap.retry # None
      /\ rec[p].snap # None
      /\ \A q \in Recoverers \ {p} : rec[q].pc = "clear" => rec[q].claim # c
  BY <1>1, <1>2, <1>3, RouterAssumption DEF ClearOk, TraceInv, Tasks, RecOk
<1>5. CASE Leave(p) /\ UNCHANGED <<router, disk, everBound, job>>
  BY <1>1, <1>5, LeaveStep
<1>6. CASE SendReplacement(p) /\ UNCHANGED <<router, disk, everBound>>
  <2> DEFINE k == rec[p].snap
  <2>1. Awaits(k, c, k.target)
    BY <1>4, <1>6 DEF Awaits
  <2>2. TasksKept(C)
    <3>1. Awaits(k, c, rec[p].snap.target) /\ rec[p].pc # "idle"
      BY <1>1, <2>1
    <3> HIDE DEF k
    <3> QED  BY <1>2, <1>4, <1>6, <3>1, SendTasks
  <2>3. ChatKept(G)
    BY <1>1, ChatSame
  <2>4. ClaimKept(c, router, router, G)
    BY <1>3, <1>4, <1>6 DEF ClaimKept
  <2>5. \A d \in ClaimIds \cap C : ClaimKept(d, router, router, G)
    BY <2>4
  <2>6. Deletes'
    BY <1>1, <1>6, DeletesQuiet
  <2> HIDE DEF C, G
  <2>7. Written(router, router, C, G)
    BY <1>6, QuietWritten
  <2> QED  BY <2>2, <2>3, <2>5, <2>6, <2>7, StepKeeps
<1>7. CASE Leave(p) /\ job' = job /\ InBackoff(router, c)
  <2> DEFINE b == FALSE
             s == DeferRecreation(router, c, b)
  <2>1. /\ b \in BOOLEAN /\ Becomes(s)
        /\ disk' = Durable(router) \/ disk' = Durable(s)
    BY <1>7 DEF InBackoff
  <2>2. /\ c \in C /\ C = {c}
    OBVIOUS
  <2>3. /\ Fine(router, everBound) /\ Consistent(router) /\ router.claims[c] # None
    BY <1>4 DEF TraceInv, IInv
  <2>4. ChatKept(G)
    BY <1>1, ChatSame
  <2> HIDE DEF b, C, G
  <2>5. s.claims[c] # None /\ Turns(router, s, everBound, C, G)
    BY <1>3, <2>1, <2>2, <2>3, DeferTurns DEF Marked
  <2>6. Consistent(s)
    BY <2>3, DeferConsistent
  <2>7. TasksKept(C)
    <3>1. /\ job' = [d \in ClaimIds |-> job'[d]]
          /\ rec' = [q \in Recoverers |-> rec'[q]]
          /\ rec'[p] = NoRec /\ \A q \in Recoverers \ {p} : rec'[q] = rec[q]
      BY <1>7 DEF Leave, TraceInv, Tasks
    <3>2. JobOk(c)'
      BY <1>3, <1>4, <1>7 DEF JobOk, Working, TraceInv, Tasks
    <3> QED  BY <1>4, <1>7, <2>2, <3>1, <3>2 DEF TasksKept
  <2> HIDE DEF s
  <2>8. ASSUME NEW r \in {router, s}, disk' = Durable(r)
        PROVE  After
    <3>1. Turns(router, r, everBound, C, G) /\ Consistent(r) /\ r.next <= s.next
      BY <2>3, <2>5, <2>6, <2>8, TurnsSelf DEF Turns, Fine, Types
    <3>2. Written(r, s, C, G)
      <4>1. CASE r = router
        <5>1. BoundTopics(r) \subseteq everBound
          BY <2>3, <4>1 DEF Fine, Known
        <5> QED  BY <2>1, <2>5, <2>8, <3>1, <5>1, BothWritten
      <4>2. CASE r = s
        BY <2>1, <2>5, <2>8, <4>2, OneWritten
      <4> QED  BY <4>1, <4>2
    <3>3. Deletes'
      BY <1>1, <2>1, <2>5, <2>8, <3>1, DeletesKept DEF Turns, Becomes
    <3>4. disk'.claims[c] # None
      BY <2>3, <2>5, <2>8 DEF Durable
    <3>5. ClaimKept(c, r, s, G)
      BY <1>3, <2>5, <2>8, <3>4 DEF ClaimKept
    <3>6. \A d \in ClaimIds \cap C : ClaimKept(d, r, s, G)
      BY <2>2, <3>5
    <3> QED  BY <2>4, <2>7, <3>2, <3>3, <3>6, StepKeeps
  <2> QED  BY <2>1, <2>8
<1> QED  BY <1>1, <1>2, <1>5, <1>6, <1>7 DEF RecClear, Quiet

\* What neither the record nor a task takes part in.
LEMMA QuietStep ==
    ASSUME TraceInv, IInv', UNCHANGED <<router, disk, everBound, job, rec, cleanup>>,
           ChatKept({})
    PROVE  After
<1> DEFINE C == {}
           G == {}
<1>1. TasksKept(C) /\ ChatKept(G) /\ Deletes'
  BY TasksSame, DeletesQuiet
<1>2. \A c \in ClaimIds \cap C : ClaimKept(c, router, router, G)
  OBVIOUS
<1> HIDE DEF C, G
<1>3. Written(router, router, C, G)
  BY QuietWritten
<1> QED  BY <1>1, <1>2, <1>3, StepKeeps

\* A change of the record that no task takes part in.
LEMMA RecordStep ==
    ASSUME TraceInv, IInv', UNCHANGED <<job, rec>>, NEW s, NEW G, ChatKept(G),
           Written(s, s, {}, G), Deletes'
    PROVE  After
<1> DEFINE C == {}
<1>1. TasksKept(C) /\ Written(s, s, C, G)
  BY TasksSame
<1>2. \A c \in ClaimIds \cap C : ClaimKept(c, s, s, G)
  OBVIOUS
<1> HIDE DEF C
<1> QED  BY <1>1, <1>2, StepKeeps

LEMMA UserQuietStep ==
    ASSUME TraceInv, IInv',
           \/ \E w \in Windows : \/ NewWindow(w) \/ SkipCreation(w)
                                 \/ WindowAppears(w) \/ WindowDies(w)
           \/ \E t \in Topics : UserMakesTopic(t) \/ UserDeletes(t)
    PROVE  After
<1>1. UNCHANGED <<router, disk, everBound, job, rec, cleanup>>
  BY DEF NewWindow, SkipCreation, WindowAppears, WindowDies, UserMakesTopic,
         UserDeletes, Quiet, env
<1>2. ChatKept({})
  <2>1. CASE \E w \in Windows : \/ NewWindow(w) \/ SkipCreation(w)
                                \/ WindowAppears(w) \/ WindowDies(w)
    <3>1. UNCHANGED <<remote, madeFor>>
      BY <2>1 DEF NewWindow, SkipCreation, WindowAppears, WindowDies, env
    <3> QED  BY <3>1, ChatSame
  <2>2. ASSUME NEW t \in Topics, UserMakesTopic(t) \/ UserDeletes(t)
        PROVE  ChatKept({})
    <3>1. madeFor' = madeFor
      BY <2>2 DEF UserMakesTopic, UserDeletes
    <3> QED  BY <2>2, <3>1 DEF UserMakesTopic, UserDeletes, ChatKept, TraceInv, Chat
  <2> QED  BY <2>1, <2>2
<1> QED  BY <1>1, <1>2, QuietStep

LEMMA SaveLaterStep ==
    ASSUME TraceInv, IInv', SaveLater
    PROVE  After
<1> DEFINE C == {}
           G == {}
<1>1. /\ Becomes(router) /\ (disk' = disk \/ disk' = Durable(router))
      /\ UNCHANGED <<router, remote, madeFor, job, rec, cleanup>>
  BY DEF SaveLater, Save, Becomes, env
<1>2. ChatKept(G)
  BY <1>1, ChatSame
<1>3. Deletes'
  BY <1>1, DeletesKept DEF TraceInv, IInv
<1>4. Fine(router, everBound)
  BY DEF TraceInv
<1>5. Written(router, router, C, G)
  <2> HIDE DEF C, G
  <2>1. Turns(router, router, everBound, C, G)
    BY <1>4, TurnsSelf
  <2> QED  BY <1>1, <2>1, OneWritten
<1> QED  BY <1>1, <1>2, <1>3, <1>5, RecordStep

\* A user, or the check of the bound topics, changes what is bound.
LEMMA DebounceStep ==
    ASSUME TraceInv, IInv', NEW s, Debounce(s), Turns(router, s, everBound, {}, {}),
           UNCHANGED <<job, rec, cleanup>>, ChatKept({})
    PROVE  After
<1>1. Becomes(s) /\ disk' = disk /\ router'.deleting = router.deleting
  BY DEF Debounce, Becomes, Turns
<1>2. Written(s, s, {}, {})
  BY <1>1, OneWritten
<1>3. Deletes'
  BY <1>1, DeletesKept DEF TraceInv, IInv
<1> QED  BY <1>2, <1>3, RecordStep

LEMMA UserStep ==
    ASSUME TraceInv, IInv', NEW t \in Topics,
           \/ UserUnbinds(t) \/ UserCloses(t) \/ TopicGoneNoticed(t)
           \/ \E w \in Windows : UserBinds(t, w)
    PROVE  After
<1>1. UNCHANGED <<job, rec, cleanup, madeFor>>
  BY DEF UserUnbinds, UserCloses, TopicGoneNoticed, UserBinds, env
<1>2. ChatKept({})
  <2>1. CASE UserCloses(t)
    BY <1>1, <2>1 DEF UserCloses, ChatKept, TraceInv, Chat
  <2>2. CASE ~UserCloses(t)
    <3>1. UNCHANGED <<remote, madeFor>>
      BY <2>2 DEF UserUnbinds, TopicGoneNoticed, UserBinds, env
    <3> QED  BY <3>1, ChatSame
  <2> QED  BY <2>1, <2>2
<1>3. Fine(router, everBound)
  BY DEF TraceInv
<1>4. ASSUME NEW reason \in Reasons, NEW e \in BOOLEAN,
             Debounce(Unbind(router, t, reason, e))
      PROVE  After
  <2> DEFINE s == Unbind(router, t, reason, e)
             C == {}
             G == {}
  <2>1. Turns(router, s, everBound, C, G)
    <3> HIDE DEF C, G
    <3> QED  BY <1>3, UnbindTurns
  <2> HIDE DEF s
  <2> QED  BY <1>1, <1>2, <1>4, <2>1, DebounceStep DEF s
<1>5. \E reason \in {"keep_remote", "remote_closed", "remote_deleted"} :
         \/ \E e \in {FALSE} : Debounce(Unbind(router, t, reason, e))
         \/ \E w \in Windows : Debounce(Bind(router, t, w))
  BY DEF UserUnbinds, UserCloses, TopicGoneNoticed, UserBinds
<1>6. ASSUME NEW w \in Windows, Debounce(Bind(router, t, w))
      PROVE  After
  <2> DEFINE s == Bind(router, t, w)
             C == {}
             G == {}
  <2>1. Turns(router, s, everBound, C, G)
    <3> HIDE DEF C, G
    <3> QED  BY <1>3, BindTurns
  <2> HIDE DEF s
  <2> QED  BY <1>1, <1>2, <1>6, <2>1, DebounceStep DEF s
<1>7. {"keep_remote", "remote_closed", "remote_deleted"} \subseteq Reasons
  BY DEF Reasons
<1> QED  BY <1>4, <1>5, <1>6, <1>7

-----------------------------------------------------------------------------
(* The deletion.                                                           *)

LEMMA BeginCleanupStep ==
    ASSUME TraceInv, IInv', NEW t \in Topics, SweepCleanup(t) \/ DeadTopic(t)
    PROVE  After
<1> DEFINE C == {}
           G == {}
<1>1. UNCHANGED <<remote, madeFor, job, rec>>
  BY DEF SweepCleanup, DeadTopic, env
<1>2. ChatKept(G)
  BY <1>1, ChatSame
<1>3. Fine(router, everBound) /\ Consistent(router)
  BY DEF TraceInv, IInv
<1>4. ASSUME NEW s, NEW pc, StartCleanup(s, t, pc), Consistent(s),
             Turns(router, s, everBound, C, G)
      PROVE  After
  <2>1. Written(s, s, C, G) /\ Deletes'
    <3> HIDE DEF C, G
    <3> QED  BY <1>4, StartCleanupStep
  <2> QED  BY <1>1, <1>2, <2>1, RecordStep
<1>5. CASE SweepCleanup(t)
  <2>1. Turns(router, router, everBound, C, G)
    <3> HIDE DEF C, G
    <3> QED  BY <1>3, TurnsSelf
  <2> HIDE DEF C, G
  <2> QED  BY <1>3, <1>4, <1>5, <2>1 DEF SweepCleanup
<1>6. CASE DeadTopic(t)
  <2> DEFINE reason == "dead_session"
             e == TRUE
             s == Unbind(router, t, reason, e)
  <2>1. StartCleanup(s, t, "before")
    BY <1>6 DEF DeadTopic
  <2>2. reason \in Reasons /\ e \in BOOLEAN
    BY DEF Reasons
  <2> HIDE DEF reason, e, C, G
  <2>3. Turns(router, s, everBound, C, G)
    BY <1>3, <2>2, UnbindTurns
  <2>4. Consistent(s)
    BY <1>3, UnbindConsistent
  <2> HIDE DEF s
  <2> QED  BY <1>4, <2>1, <2>3, <2>4
<1> QED  BY <1>5, <1>6

\* A deletion goes on from one request to the next.
LEMMA CleanupMovesStep ==
    ASSUME TraceInv, IInv', NEW t \in Topics, cleanup[t].pc # "idle",
           NEW pc, cleanup' = [cleanup EXCEPT ![t].pc = pc],
           UNCHANGED <<router, disk, everBound, remote, madeFor, job, rec>>
    PROVE  After
<1> DEFINE C == {}
           G == {}
<1>1. ChatKept(G)
  BY ChatSame
<1>2. /\ cleanup = [u \in Topics |-> cleanup[u]]
      /\ \A u \in Topics : ShapeOfCleanup(cleanup[u])
      /\ cleanup[t].closed \in BOOLEAN
  BY DEF TraceInv, Deletes
<1>3. /\ cleanup' = [u \in Topics |-> cleanup'[u]]
      /\ \A u \in Topics \ {t} : cleanup'[u] = cleanup[u]
      /\ cleanup'[t] = [cleanup[t] EXCEPT !.pc = pc]
  BY <1>2
<1>4. ShapeOfCleanup(cleanup'[t]) /\ cleanup'[t].closed = cleanup[t].closed
  BY <1>2, <1>3 DEF ShapeOfCleanup
<1>5. Deletes'
  <2>1. \A u \in Topics : cleanup'[u].pc # "idle" =>
           /\ cleanup[u].pc # "idle"
           /\ cleanup'[u].closed = cleanup[u].closed
    BY <1>3, <1>4
  <2>2. \A u \in Topics : ShapeOfCleanup(cleanup'[u])
    BY <1>2, <1>3, <1>4
  <2> QED  BY <1>3, <2>1, <2>2 DEF TraceInv, Deletes
<1>6. Written(router, router, C, G)
  <2> HIDE DEF C, G
  <2> QED  BY QuietWritten
<1> QED  BY <1>1, <1>5, <1>6, RecordStep

\* A deletion ends: its topic is struck off the list only if it is gone.
LEMMA CleanupEndsStep ==
    ASSUME TraceInv, IInv', NEW t \in Topics, EndCleanup(t), UNCHANGED <<job, rec>>,
           NEW y, Consistent(y), NEW G, Turns(router, y, everBound, {}, G),
           Becomes(EndDeletion(y, t)), ChatKept(G),
           disk' = disk \/ disk' = Durable(EndDeletion(y, t))
    PROVE  After
<1>1. Written(y, y, {}, G) /\ Deletes'
  BY EndDeletionStep
<1> QED  BY <1>1, RecordStep

LEMMA DiscardedStep ==
    ASSUME TraceInv, IInv', NEW t \in Topics, EndCleanup(t),
           UNCHANGED <<madeFor, job, rec>>,
           remote' = [remote EXCEPT ![t] = "gone"], NEW seq,
           Save(EndDeletion(DiscardRetired(router, t, seq), t))
    PROVE  After
<1> DEFINE y == DiscardRetired(router, t, seq)
           C == {}
           G == {t}
<1>1. Fine(router, everBound) /\ Consistent(router) /\ t \in G
  BY DEF TraceInv, IInv
<1>2. ChatKept(G)
  BY DEF ChatKept, TraceInv, Chat
<1>3. /\ Becomes(EndDeletion(y, t))
      /\ disk' = disk \/ disk' = Durable(EndDeletion(y, t))
  BY DEF Save
<1>4. Consistent(y)
  BY <1>1, DiscardRetiredConsistent
<1>5. Turns(router, y, everBound, C, G)
  <2> HIDE DEF C, G
  <2> QED  BY <1>1, DiscardRetiredTurns
<1> HIDE DEF y, G
<1> QED  BY <1>2, <1>3, <1>4, <1>5, CleanupEndsStep

LEMMA ListedStep ==
    ASSUME TraceInv, IInv', NEW t \in Topics, EndCleanup(t),
           UNCHANGED <<job, rec>>, ChatKept({}), NEW closed \in BOOLEAN, NEW seq,
           LET s == EndDeletion(UpdateRetired(router, t, seq, closed), t)
           IN  Save(s) \/ SaveAfterFault(s)
    PROVE  After
<1> DEFINE y == UpdateRetired(router, t, seq, closed)
           C == {}
           G == {}
<1>1. Fine(router, everBound) /\ Consistent(router) /\ ChatKept(G)
  BY DEF TraceInv, IInv
<1>2. /\ Becomes(EndDeletion(y, t))
      /\ disk' = disk \/ disk' = Durable(EndDeletion(y, t))
  BY DEF Save, SaveAfterFault
<1>3. Consistent(y)
  BY <1>1, UpdateRetiredConsistent
<1>4. Turns(router, y, everBound, C, G)
  <2> HIDE DEF C, G
  <2> QED  BY <1>1, UpdateRetiredTurns
<1> HIDE DEF y, G
<1> QED  BY <1>1, <1>2, <1>3, <1>4, CleanupEndsStep

LEMMA CleanupGoesOnStep ==
    ASSUME TraceInv, IInv', NEW t \in Topics,
           \/ BeforeDelete(t) \/ DeleteDone(t) \/ DeleteRateLimited(t)
           \/ DeleteRefused(t) \/ CloseAnswered(t)
    PROVE  After
<1>1. UNCHANGED <<madeFor, job, rec>> /\ cleanup[t].pc # "idle"
  BY DEF BeforeDelete, DeleteDone, DeleteRateLimited, DeleteRefused,
         CloseAnswered, env
<1>2. cleanup[t].closed \in BOOLEAN
  BY <1>1 DEF TraceInv, Deletes
<1>3. CASE \E pc : /\ cleanup' = [cleanup EXCEPT ![t].pc = pc]
                   /\ UNCHANGED <<router, disk, everBound, remote>>
  BY <1>1, <1>3, CleanupMovesStep
<1>4. CASE /\ EndCleanup(t) /\ remote' = [remote EXCEPT ![t] = "gone"]
           /\ Save(EndDeletion(DiscardRetired(router, t, cleanup[t].seq), t))
  BY <1>1, <1>4, DiscardedStep
<1>5. ASSUME EndCleanup(t), ChatKept({}), NEW closed \in BOOLEAN,
             LET s == EndDeletion(UpdateRetired(router, t, cleanup[t].seq, closed), t)
             IN  Save(s) \/ SaveAfterFault(s)
      PROVE  After
  <2> DEFINE seq == cleanup[t].seq
  <2>1. LET s == EndDeletion(UpdateRetired(router, t, seq, closed), t)
        IN  Save(s) \/ SaveAfterFault(s)
    BY <1>5
  <2> HIDE DEF seq
  <2> QED  BY <1>1, <1>5, <2>1, ListedStep
<1>6. UNCHANGED remote => ChatKept({})
  BY <1>1, ChatSame
<1>7. CASE BeforeDelete(t)
  BY <1>3, <1>7 DEF BeforeDelete, Quiet, env
<1>8. CASE DeleteDone(t)
  BY <1>4, <1>8 DEF DeleteDone
<1>9. CASE DeleteRateLimited(t)
  <2>1. EndCleanup(t) /\ ChatKept({})
    BY <1>6, <1>9 DEF DeleteRateLimited, env
  <2> QED  BY <1>2, <1>5, <1>9, <2>1 DEF DeleteRateLimited
<1>10. CASE DeleteRefused(t)
  <2>1. UNCHANGED remote /\ ChatKept({})
    BY <1>6, <1>10 DEF DeleteRefused, env
  <2>2. CASE EndCleanup(t) /\ Becomes(EndDeletion(router, t)) /\ disk' = disk
    <3> DEFINE G == {}
               C == {}
    <3>1. Consistent(router) /\ ChatKept(G) /\ Fine(router, everBound)
      BY <2>1 DEF TraceInv, IInv
    <3>2. Turns(router, router, everBound, C, G)
      <4> HIDE DEF C, G
      <4> QED  BY <3>1, TurnsSelf
    <3> HIDE DEF G
    <3> QED  BY <1>1, <2>2, <3>1, <3>2, CleanupEndsStep
  <2>3. CASE /\ EndCleanup(t)
             /\ SaveAfterFault(EndDeletion(UpdateRetired(router, t,
                                               cleanup[t].seq, TRUE), t))
    <3> DEFINE b == TRUE
    <3>1. /\ b \in BOOLEAN
          /\ SaveAfterFault(EndDeletion(UpdateRetired(router, t,
                                            cleanup[t].seq, b), t))
      BY <2>3
    <3> HIDE DEF b
    <3> QED  BY <1>5, <2>1, <2>3, <3>1
  <2>4. CASE /\ cleanup' = [cleanup EXCEPT ![t].pc = "close"]
             /\ UNCHANGED <<router, disk, everBound>>
    BY <1>3, <2>1, <2>4
  <2> QED  BY <1>10, <2>2, <2>3, <2>4 DEF DeleteRefused
<1>11. CASE CloseAnswered(t)
  <2> DEFINE s(closed) == EndDeletion(UpdateRetired(router, t, cleanup[t].seq,
                                                    closed), t)
  <2>1. EndCleanup(t)
    BY <1>11 DEF CloseAnswered
  <2>2. CASE /\ remote[t] \in {"open", "closed"}
             /\ remote' = [remote EXCEPT ![t] = "closed"] /\ Save(s(TRUE))
    <3> DEFINE b == TRUE
    <3>1. ChatKept({})
      BY <1>1, <2>2 DEF ChatKept, TraceInv, Chat
    <3>2. b \in BOOLEAN /\ Save(s(b))
      BY <2>2
    <3> HIDE DEF b
    <3> QED  BY <1>5, <2>1, <3>1, <3>2
  <2>3. CASE /\ remote[t] = "gone" /\ UNCHANGED remote
             /\ Save(EndDeletion(DiscardRetired(router, t, cleanup[t].seq), t))
    <3>1. remote' = [remote EXCEPT ![t] = "gone"]
      BY <2>3 DEF TraceInv, Chat
    <3> QED  BY <1>4, <2>1, <2>3, <3>1
  <2>4. CASE SaveAfterFault(s(FALSE)) /\ UNCHANGED remote
    <3> DEFINE b == FALSE
    <3>1. ChatKept({})
      BY <1>6, <2>4
    <3>2. b \in BOOLEAN /\ SaveAfterFault(s(b))
      BY <2>4
    <3> HIDE DEF b
    <3> QED  BY <1>5, <2>1, <3>1, <3>2
  <2> QED  BY <1>11, <2>2, <2>3, <2>4 DEF CloseAnswered
<1> QED  BY <1>7, <1>8, <1>9, <1>10, <1>11

-----------------------------------------------------------------------------
(* A new process.                                                          *)

LEMMA BoundedMax ==
    ASSUME NEW S, S \subseteq Nat, S # {}, NEW b \in Nat, \A n \in S : n < b
    PROVE  \E m \in S : \A n \in S : m >= n
<1> DEFINE T == {k \in Nat : \A n \in S : n <= k}
           Less == OpToRel(<, Nat)
<1>1. b \in T
  OBVIOUS
<1>2. PICK m \in T : \A y \in T : ~(<<y, m>> \in Less)
  <2>1. IsWellFoundedOn(Less, Nat)
    BY NatLessThanWellFounded
  <2>2. T \subseteq Nat /\ T # {}
    BY <1>1
  <2> HIDE DEF T, Less
  <2> QED  BY <2>1, <2>2, WFMin
<1>3. m \in Nat /\ \A k \in T : ~(k < m)
  BY <1>2 DEF OpToRel
<1> HIDE DEF Less
<1>4. SUFFICES ASSUME m \notin S
               PROVE  FALSE
  BY <1>2
<1>5. ASSUME NEW n \in S
      PROVE  n <= m - 1 /\ n \in Nat
  BY <1>3, <1>4
<1>6. PICK n \in S : TRUE
  OBVIOUS
<1>7. m - 1 \in Nat
  BY <1>3, <1>5, <1>6
<1>8. m - 1 \in T
  BY <1>5, <1>7
<1> QED  BY <1>3, <1>8

\* A new process numbers its records after all that it finds.
LEMMA LoadNumbered ==
    ASSUME NEW d, SavedTypes(d), NEW b \in Nat, Numbered(d, b)
    PROVE  Load(d).next \in Nat /\ Numbered(d, Load(d).next)
<1> DEFINE S == {d.retired[t].seq : t \in Listed(d)}
           last == IF Listed(d) = {} THEN 0
                   ELSE CHOOSE n \in S : \A t \in Listed(d) : n >= d.retired[t].seq
<1>1. Load(d).next = last + 1
  BY DEF Load, EmptyRouter
<1>2. S \subseteq Nat /\ \A n \in S : n < b
  <2>1. \A t \in Listed(d) : d.retired[t] \in RetiredTopic /\ d.retired[t].seq < b
    BY DEF Listed, SavedTypes, Numbered
  <2> QED  BY <2>1 DEF RetiredTopic
<1>3. CASE Listed(d) = {}
  BY <1>1, <1>3 DEF Listed, Numbered
<1>4. CASE Listed(d) # {}
  <2>1. S # {}
    BY <1>4
  <2>2. PICK m \in S : \A n \in S : m >= n
    <3> HIDE DEF S
    <3> QED  BY <1>2, <2>1, BoundedMax
  <2>3. \A t \in Listed(d) : d.retired[t].seq \in S
    OBVIOUS
  <2>4. last \in S /\ \A t \in Listed(d) : last >= d.retired[t].seq
    <3>1. \E n \in S : \A t \in Listed(d) : n >= d.retired[t].seq
      BY <2>2, <2>3
    <3>2. last = CHOOSE n \in S : \A t \in Listed(d) : n >= d.retired[t].seq
      BY <1>4
    <3> HIDE DEF S, last
    <3> QED  BY <3>1, <3>2
  <2> HIDE DEF last, S
  <2>5. last \in Nat
    BY <1>2, <2>4
  <2>6. ASSUME NEW t \in Listed(d)
        PROVE  d.retired[t].seq < last + 1
    <3>1. d.retired[t].seq \in Nat /\ last >= d.retired[t].seq
      BY <1>2, <2>3, <2>4
    <3> QED  BY <2>5, <3>1
  <2> QED  BY <1>1, <2>5, <2>6 DEF Listed, Numbered
<1> QED  BY <1>3, <1>4

LEMMA RestartStep ==
    ASSUME TraceInv, IInv', Restart
    PROVE  After
<1> DEFINE s == Load(disk)
<1>1. /\ router' = s /\ everBound' = everBound \cup BoundTopics(s)
      /\ UNCHANGED <<disk, remote, madeFor>>
      /\ job' = [c \in ClaimIds |-> NoJob]
      /\ rec' = [p \in Recoverers |-> NoRec]
      /\ cleanup' = [t \in Topics |-> NoCleanup]
  BY DEF Restart, Becomes, env
<1>2. /\ SavedTypes(disk) /\ Numbered(disk, router.next) /\ Known(disk, everBound)
      /\ router.next \in Nat
      /\ \A c \in ClaimIds : router.claims[c] # None => disk.claims[c] # None
  BY DEF TraceInv, File, Fine, Types
<1>3. /\ s.bind = disk.bind /\ s.claims = disk.claims /\ s.owned = {}
      /\ s.deleting = {}
      /\ s.retired = [t \in Topics |-> IF disk.bind[t] # None THEN None
                                       ELSE disk.retired[t]]
  BY DEF Load, EmptyRouter
<1>4. s.next \in Nat /\ Numbered(disk, s.next)
  BY <1>2, LoadNumbered
<1> HIDE DEF s
<1>5. BoundTopics(s) = BoundTopics(disk) /\ everBound' = everBound
  <2>1. BoundTopics(s) = BoundTopics(disk)
    BY <1>3 DEF BoundTopics
  <2> QED  BY <1>1, <1>2, <2>1 DEF Known
<1>6. \A t \in Topics : s.retired[t] # None => s.retired[t] = disk.retired[t]
  BY <1>3
<1>7. Fine(router', everBound')
  <2>1. Shape(s)
    BY <1>1 DEF IInv, Consistent
  <2>2. s.retired \in [Topics -> RetiredTopic \cup {None}]
    BY <1>2, <1>3 DEF SavedTypes
  <2>3. Types(s)
    BY <1>2, <1>3, <1>4, <1>6, <2>2 DEF Types, SavedTypes, Numbered
  <2>4. Known(s, everBound)
    BY <1>2, <1>5, <1>6 DEF Known
  <2> QED  BY <1>1, <1>5, <2>1, <2>3, <2>4 DEF Fine
<1>8. File'
  BY <1>1, <1>2, <1>3, <1>4, <1>5 DEF File
<1>9. Chat'
  BY <1>1 DEF TraceInv, Chat
<1>10. Tasks'
  <2>1. \A c \in ClaimIds : JobOk(c)'
    BY <1>1 DEF JobOk, Working, ShapeOfJob, NoJob
  <2>2. \A p \in Recoverers : RecOk(p)'
    BY <1>1 DEF RecOk, ShapeOfRec, NoRec
  <2> QED  BY <1>1, <2>1, <2>2 DEF Tasks
<1>11. Deletes'
  BY <1>1 DEF Deletes, ShapeOfCleanup, NoCleanup
<1>12. Leaves
  BY <1>1, <1>2, <1>3 DEF Leaves
<1>13. ASSUME CoverInv
       PROVE  CoverInv'
  <2>1. \A t : Waiting(t)' = ClaimIds
    BY <1>1 DEF Waiting, Working, NoJob, NoRec
  <2>2. ASSUME NEW t \in Topics, Unbound(t)'
        PROVE  Unbound(t) /\ s.retired[t] = disk.retired[t]
    <3>1. Unbound(t)
      BY <1>1, <1>5, <2>2 DEF Unbound, Asked
    <3>2. disk.bind[t] = None
      BY <1>2, <3>1 DEF Unbound, Known, BoundTopics
    <3> QED  BY <1>3, <3>1, <3>2
  <2>3. ASSUME NEW t \in Topics, Unbound(t)'
        PROVE  /\ Cover(router', t, madeFor'[t], Waiting(t)')
               /\ Cover(disk', t, madeFor'[t], Waiting(t)')
    <3>1. Cover(disk, t, madeFor[t], Waiting(t))
      BY <1>13, <2>2, <2>3 DEF CoverInv, Covered
    <3>2. Cover(disk, t, madeFor[t], Waiting(t)')
      BY <2>1, <3>1 DEF Cover, Holds
    <3>3. Cover(s, t, madeFor[t], Waiting(t)')
      BY <1>3, <2>2, <2>3, <3>2 DEF Cover
    <3> QED  BY <1>1, <3>2, <3>3
  <2>4. Alone(router)' /\ Alone(disk)'
    BY <1>1, <1>13, <2>2 DEF CoverInv, Alone
  <2> QED  BY <2>3, <2>4 DEF CoverInv, Covered
<1> QED  BY <1>7, <1>8, <1>9, <1>10, <1>11, <1>12, <1>13 DEF After

-----------------------------------------------------------------------------
(* The invariant holds.                                                    *)

LEMMA InitTrace == Init => TraceInv /\ CoverInv
<1> SUFFICES ASSUME Init
             PROVE  TraceInv /\ CoverInv
  OBVIOUS
<1> USE DEF Init
<1>1. IInv
  BY InitIInv
<1>2. /\ router.bind = [t \in Topics |-> None]
      /\ router.retired = [t \in Topics |-> None]
      /\ router.claims = [c \in ClaimIds |-> None]
      /\ router.owned = {} /\ router.deleting = {} /\ router.next = 1
      /\ disk.bind = router.bind /\ disk.retired = router.retired
      /\ disk.claims = router.claims
  BY DEF EmptyRouter, Durable
<1>3. SavedTypes(router) /\ SavedTypes(disk)
  BY <1>2 DEF SavedTypes
<1>4. Fine(router, everBound)
  BY <1>1, <1>2, <1>3 DEF IInv, Consistent, Fine, Types, Numbered, Known,
                          BoundTopics
<1>5. File /\ Chat
  BY <1>2, <1>3 DEF File, Chat, Numbered, Known, BoundTopics
<1>6. Tasks
  BY DEF Tasks, JobOk, RecOk, ShapeOfJob, ShapeOfRec, NoJob, NoRec, Working
<1>7. Deletes
  BY DEF Deletes, ShapeOfCleanup, NoCleanup
<1>8. CoverInv
  BY DEF CoverInv, Covered, Alone, Unbound, Asked
<1> QED  BY <1>1, <1>4, <1>5, <1>6, <1>7, <1>8 DEF TraceInv

\* Each step keeps what After names, but for a lost answer to the first request
\* for a topic, which may leave a topic no one knows of.
LostAnswer == "sent" \in HiddenEffect /\ \E c \in ClaimIds : TelegramTimesOut(c)

Sound ==
    /\ Fine(router', everBound') /\ File' /\ Chat' /\ Tasks' /\ Deletes'
    /\ Leaves

LEMMA CreationStep ==
    ASSUME TraceInv, IInv', Creation
    PROVE  Sound /\ (LostAnswer \/ After)
<1>1. After => Sound
  BY DEF After, Sound
<1>2. ASSUME NEW c \in ClaimIds, TelegramTimesOut(c)
      PROVE  Sound /\ (LostAnswer \/ After)
  BY <1>2, TelegramTimesOutStep DEF Sound, LostAnswer
<1>3. ASSUME NEW c \in ClaimIds,
             \/ \E t \in Topics : TelegramCreates(c, t)
             \/ TelegramRefuses(c) \/ CancelCreation(c)
             \/ SettleCreated(c) \/ SettleRefused(c) \/ SettleUnclear(c)
      PROVE  After
  BY <1>3, TelegramCreatesStep, TelegramRefusesStep, CancelCreationStep,
     SettleCreatedStep, SettleRefusedStep, SettleUnclearStep
<1>4. ASSUME NEW w \in Windows,
             \/ NewWindow(w) \/ SkipCreation(w)
             \/ \E c \in ClaimIds : BeginCreation(w, c)
      PROVE  After
  BY <1>4, UserQuietStep, BeginCreationStep
<1> QED  BY <1>1, <1>2, <1>3, <1>4 DEF Creation

LEMMA DeletionStep ==
    ASSUME TraceInv, IInv', Deletion
    PROVE  After
BY BeginCleanupStep, CleanupGoesOnStep DEF Deletion

LEMMA LaunchesStep ==
    ASSUME TraceInv, IInv', Launch
    PROVE  After
BY LaunchStep, CheckOfferStep, BackendMakesStep, BackendFailsStep,
   AttachLaunchedStep, LaunchReadyStep, LaunchEndsStep DEF Launch

LEMMA RecoveryStep ==
    ASSUME TraceInv, IInv', Recovery
    PROVE  After
BY RecPickStep, RecPresenceStep, RecProbeStep, RecCommitStep, RecRecreateStep,
   RecAgentStep, RecClearStep DEF Recovery

LEMMA WorldStep ==
    ASSUME TraceInv, IInv', World
    PROVE  After
BY UserStep, UserQuietStep, RestartStep DEF World

LEMMA StutterStep ==
    ASSUME TraceInv, IInv', UNCHANGED vars
    PROVE  After
<1>1. ChatKept({})
  BY ChatSame DEF vars, env
<1> QED  BY <1>1, QuietStep DEF vars

LEMMA NextTrace ==
    ASSUME TraceInv, [Next]_vars
    PROVE  TraceInv' /\ Leaves /\ (LostAnswer \/ (CoverInv => CoverInv'))
<1>1. IInv'
  BY NextIInv DEF TraceInv
<1>2. Sound /\ (LostAnswer \/ After)
  <2>1. After => Sound
    BY DEF After, Sound
  <2> QED  BY <1>1, <2>1, CreationStep, DeletionStep, LaunchesStep, RecoveryStep,
              WorldStep, SaveLaterStep, StutterStep DEF Next
<1> QED  BY <1>1, <1>2 DEF Sound, After, TraceInv

LEMMA TraceInductive == Spec => []TraceInv
<1>1. TraceInv /\ [Next]_vars => TraceInv'
  BY NextTrace
<1> QED  BY <1>1, InitTrace, PTL DEF Spec

LEMMA CoverInductive ==
    ASSUME "sent" \notin HiddenEffect
    PROVE  Spec => []CoverInv
<1>1. TraceInv /\ CoverInv /\ [Next]_vars => CoverInv'
  BY NextTrace DEF LostAnswer
<1> QED  BY <1>1, InitTrace, TraceInductive, PTL DEF Spec

-----------------------------------------------------------------------------
(* The theorems.                                                           *)

\* Before the request to delete a topic goes out, the file on disk neither binds
\* nor claims it, whatever failed before: a crash brings nothing of it back
\* (cleanup_retired_topic, which gives the deletion up when its flush fails).
THEOREM DeletionDurable == Spec => []DeletionIsDurable
<1>1. TraceInv => DeletionIsDurable
  BY DEF TraceInv, Deletes, LetGo, HasTopicClaim, DeletionIsDurable
<1> QED  BY <1>1, TraceInductive, PTL

\* A claim that names a topic is given up only with the topic bound, listed or
\* gone, whichever flow ends it and whatever the file held at a restart
\* (abort_topic_provisioning, commit_topic_provisioning and from_dict).
THEOREM ReleaseLeaves == Spec => ReleaseLeavesTrace
<1>1. TraceInv /\ [Next]_vars =>
         [\A c \in ClaimIds, t \in Topics :
             /\ router.claims[c] # None /\ router.claims[c].thread = t
             /\ router'.claims[c] = None
             => \/ router'.bind[t] # None
                \/ router'.retired[t] # None
                \/ remote'[t] = "gone"]_vars
  BY NextTrace DEF Leaves
<1> QED  BY <1>1, TraceInductive, PTL DEF Spec, ReleaseLeavesTrace

\* Recovery never takes a window from the topic that has it, however the claim,
\* the probe and the user's bind interleave (_commit_present_topic).
THEOREM RecoveryKeepsBindings == Spec => RecoveryNeverEvicts
<1>1. TraceInv => ~RecoveryEvicts
  <2> SUFFICES ASSUME TraceInv, NEW p \in Recoverers, NEW t \in Topics,
                      RecCommit(p), router.bind[t] # None,
                      t # rec[p].snap.thread, router'.bind[t] # router.bind[t]
               PROVE  FALSE
    BY DEF RecoveryEvicts
  <2> DEFINE c == rec[p].claim
             k == rec[p].snap
             b == Bind(router, k.thread, k.target)
  <2>1. /\ Untouched(p) /\ ~BoundElsewhere(k) /\ CanCommit(router, c)
        /\ router' = Commit(router, c)
    BY DEF RecCommit, Save, Becomes, Quiet
  <2>2. router.claims[c] = k
    BY <2>1 DEF Untouched, Current
  <2>3. Shape(router)
    BY DEF TraceInv, IInv, Consistent
  <2>4. router'.bind = b.bind
    BY <2>1, <2>2 DEF Commit, Bind, BindScoped
  <2>5. b.bind[t] = IF router.bind[t] = k.target THEN None ELSE router.bind[t]
    BY <2>3 DEF Bind, BindScoped, Shape
  <2> HIDE DEF k, b
  <2>6. router.bind[t] # k.target
    BY <2>1 DEF BoundElsewhere, k
  <2> QED  BY <2>4, <2>5, <2>6
<1> QED  BY <1>1, TraceInductive, PTL DEF Spec, RecoveryNeverEvicts

\* A topic the bot made and no one bound is listed for cleanup or accounted for
\* by a claim, in memory and in the file a new process would load, if no answer
\* to a first request for a topic is lost after the topic was made
\* (begin_topic_provisioning, its attach, commit and abort, and from_dict).
THEOREM NoStranded ==
    ASSUME "sent" \notin HiddenEffect
    PROVE  Spec => []NoStrandedTopic
<1>1. TraceInv /\ CoverInv => NoStrandedTopic
  <2> SUFFICES ASSUME TraceInv, CoverInv, NEW t \in Topics, Asked(t),
                      t \notin everBound
               PROVE  Accounted(router, t) /\ Accounted(Load(disk), t)
    BY DEF NoStrandedTopic, Accounted
  <2>1. /\ Cover(router, t, madeFor[t], Waiting(t))
        /\ Cover(disk, t, madeFor[t], Waiting(t))
    BY DEF CoverInv, Covered, Unbound
  <2>2. disk.bind[t] = None
    BY DEF TraceInv, File, Known, BoundTopics
  <2>3. /\ Load(disk).claims = disk.claims
        /\ Load(disk).retired[t] = disk.retired[t]
    BY <2>2 DEF Load, EmptyRouter
  <2>4. madeFor[t] # None
    BY DEF Asked
  <2> QED  BY <2>1, <2>3, <2>4 DEF Cover, Holds, Accounted, TargetsOf
<1> QED  BY <1>1, TraceInductive, CoverInductive, PTL

\* Of the topics made for one window at most one is neither bound nor given up,
\* if no answer to a first request for a topic is lost after the topic was made
\* (_window_topic_lock, has_target_claim and the uncertain mark of a claim).
THEOREM NoDuplicate ==
    ASSUME "sent" \notin HiddenEffect
    PROVE  Spec => []NoDuplicateTopic
<1>1. CoverInv => NoDuplicateTopic
  BY DEF CoverInv, Alone, Unbound, NoDuplicateTopic
<1> QED  BY <1>1, CoverInductive, PTL
=============================================================================
