-------------------------- MODULE SessionMapProofs --------------------------
(***************************************************************************)
(* Proofs about HookEvents for any number of events, truncations and       *)
(* restarts.  The order of dispatch is not inductive: what is read and not *)
(* dispatched, and what the next read will return, must continue it.       *)
(*                                                                         *)
(* The session map leaves the hook event log as it found it: whatever the  *)
(* hooks, the agents and the monitor do, the log and its reader go through *)
(* a behaviour of HookEvents, so what is proved of that module holds here. *)
(*                                                                         *)
(* Where the monitor reads a session from needs an invariant about every   *)
(* place a session is named: before the hook of its first start has        *)
(* written the map it is nowhere, while its replay marker stands it can be *)
(* reached by the window of the marker only, and once the marker was       *)
(* consumed its first line is on disk.                                     *)
(***************************************************************************)
EXTENDS SessionMap, SequenceTheorems, TLAPS

Increasing(s) == \A i, j \in 1..Len(s) : i < j => s[i] < s[j]

\* Every element of s is below every element of t.
Before(s, t) == \A i \in 1..Len(s), j \in 1..Len(t) : s[i] < t[j]

\* The next read may return line i of the log.
Unread(i) == i > offset \/ offset > Len(log)

LogOrder ==
    /\ Increasing(log)
    /\ Len(log) <= written
    /\ \A i \in 1..Len(log) : log[i] <= written

\* Everything read was written.
ReadIsWritten ==
    /\ \A i \in 1..Len(ran) : ran[i] <= written
    /\ \A i \in 1..Len(todo) : todo[i] <= written

DispatchOrder ==
    /\ Increasing(ran)
    /\ Increasing(todo)
    /\ Before(ran, todo)

\* What a later read returns follows what was read so far.
UnreadFollows ==
    \A i \in 1..Len(log) : Unread(i) =>
        /\ \A j \in 1..Len(ran) : ran[j] < log[i]
        /\ \A j \in 1..Len(todo) : todo[j] < log[i]

IInv ==
    /\ TypeOK
    /\ LogOrder
    /\ ReadIsWritten
    /\ pc # "dispatch" => todo = <<>>
    /\ lossless => DispatchOrder /\ UnreadFollows
-----------------------------------------------------------------------------
LEMMA InitIInv == Init => IInv
<1> SUFFICES ASSUME Init PROVE IInv
    OBVIOUS
<1>1. <<>> \in Seq(1..MaxEvents) /\ Len(<<>>) = 0
    BY EmptySeq
<1>2. TypeOK
    <2>1. log \in Seq(1..MaxEvents) /\ todo \in Seq(1..MaxEvents) /\ ran \in Seq(1..MaxEvents)
        BY <1>1 DEF Init
    <2>2. 0 \in 0..MaxEvents
        BY HookEventsAssumption
    <2> QED
        BY <2>1, <2>2 DEF Init, TypeOK
<1>3. LogOrder /\ ReadIsWritten /\ DispatchOrder /\ UnreadFollows
    BY <1>1
    DEF Init, LogOrder, ReadIsWritten, DispatchOrder, UnreadFollows, Increasing, Before
<1> QED
    BY <1>2, <1>3 DEF Init, IInv

LEMMA Elements ==
    ASSUME TypeOK
    PROVE  /\ MaxEvents \in Nat /\ written \in Nat /\ offset \in Nat
           /\ Len(log) \in Nat /\ \A i \in 1..Len(log) : log[i] \in Nat
           /\ Len(ran) \in Nat /\ \A i \in 1..Len(ran) : ran[i] \in Nat
           /\ Len(todo) \in Nat /\ \A i \in 1..Len(todo) : todo[i] \in Nat
<1>1. \A s \in Seq(1..MaxEvents) : Len(s) \in Nat /\ \A i \in 1..Len(s) : s[i] \in 1..MaxEvents
    BY LenProperties, ElementOfSeq
<1> QED
    BY <1>1, HookEventsAssumption DEF TypeOK

LEMMA WriteEventIInv == ASSUME IInv, WriteEvent PROVE IInv'
<1>1. written + 1 \in 1..MaxEvents /\ log \in Seq(1..MaxEvents)
    BY HookEventsAssumption DEF IInv, TypeOK, WriteEvent
<1>2. /\ log' \in Seq(1..MaxEvents)
      /\ Len(log') = Len(log) + 1 /\ Len(log) \in Nat
      /\ \A i \in 1..Len(log) : log'[i] = log[i]
      /\ log'[Len(log) + 1] = written + 1
    BY <1>1, AppendProperties, LenProperties DEF WriteEvent
<1>3. TypeOK'
    BY <1>1, <1>2 DEF IInv, TypeOK, WriteEvent
<1>4. LogOrder'
    <2>1. \A i \in 1..Len(log') : i \in 1..Len(log) \/ i = Len(log) + 1
        BY <1>2
    <2>2. \A i \in 1..Len(log') : log'[i] <= written'
        BY <1>2, <2>1, Elements DEF IInv, LogOrder, WriteEvent
    <2>3. Increasing(log')
        <3> SUFFICES ASSUME NEW i \in 1..Len(log'), NEW j \in 1..Len(log'), i < j
                     PROVE  log'[i] < log'[j]
            BY DEF Increasing
        <3>1. i \in 1..Len(log)
            BY <1>2
        <3>2. CASE j \in 1..Len(log)
            BY <1>2, <3>1, <3>2 DEF IInv, LogOrder, Increasing
        <3>3. CASE j = Len(log) + 1
            BY <1>2, <3>1, <3>3, Elements DEF IInv, LogOrder
        <3> QED
            BY <2>1, <3>2, <3>3
    <2> QED
        BY <1>2, <2>2, <2>3, Elements DEF IInv, LogOrder, WriteEvent
<1>5. ReadIsWritten'
    BY Elements DEF IInv, ReadIsWritten, WriteEvent
<1>6. ASSUME lossless PROVE UnreadFollows'
    <2> SUFFICES ASSUME NEW i \in 1..Len(log'), Unread(i)'
                 PROVE  /\ \A j \in 1..Len(ran) : ran[j] < log'[i]
                        /\ \A j \in 1..Len(todo) : todo[j] < log'[i]
        BY DEF UnreadFollows, WriteEvent
    <2>1. CASE i = Len(log) + 1
        BY <1>2, <2>1, Elements DEF IInv, ReadIsWritten
    <2>2. CASE i \in 1..Len(log)
        <3>1. Unread(i)
            BY <1>2, <2>2, Elements DEF Unread, WriteEvent, IInv
        <3> QED
            BY <1>2, <1>6, <2>2, <3>1 DEF IInv, UnreadFollows
    <2> QED
        BY <1>2, <2>1, <2>2
<1>7. UNCHANGED <<ran, todo, pc, lossless>>
    BY DEF WriteEvent
<1>8. lossless' => DispatchOrder'
    BY <1>7 DEF IInv, DispatchOrder
<1>9. pc' # "dispatch" => todo' = <<>>
    BY <1>7 DEF IInv
<1> QED
    BY <1>3, <1>4, <1>5, <1>6, <1>7, <1>8, <1>9 DEF IInv

LEMMA TruncateIInv == ASSUME IInv, Truncate PROVE IInv'
<1>1. /\ log' = <<>>
      /\ UNCHANGED <<written, offset, disk, dirty, pc, todo, ran, lossless, restarts>>
      /\ truncations' = truncations + 1
    BY DEF Truncate
<1>2. TypeOK'
    BY <1>1 DEF IInv, TypeOK
<1>3. LogOrder' /\ UnreadFollows'
    BY <1>1, Elements DEF IInv, LogOrder, UnreadFollows, Increasing
<1>4. /\ ReadIsWritten'
      /\ pc' # "dispatch" => todo' = <<>>
      /\ lossless' => DispatchOrder'
    BY <1>1 DEF IInv, ReadIsWritten, DispatchOrder
<1> QED
    BY <1>2, <1>3, <1>4 DEF IInv

\* What a read returns: the lines after start, up to hi.
LEMMA ReadLines ==
    ASSUME NEW E, NEW s \in Seq(E), NEW start \in 0..Len(s), NEW hi \in start..Len(s)
    PROVE  LET t == SubSeq(s, start + 1, hi)
           IN  /\ t \in Seq(E)
               /\ Len(t) = hi - start
               /\ \A j \in 1..Len(t) : t[j] = s[start + j]
<1>1. Len(s) \in Nat
    BY LenProperties
<1>2. /\ Len(SubSeq(s, start + 1, hi)) = hi - start
      /\ \A j \in 1..(hi - start) : SubSeq(s, start + 1, hi)[j] = s[start + j]
    BY <1>1, SubSeqProperties
<1>3. SubSeq(s, start + 1, hi) \in Seq(E)
    BY <1>1, SubSeqProperties
<1> QED
    BY <1>2, <1>3

LEMMA ReadEventsIInv == ASSUME IInv, ReadEvents PROVE IInv'
<1> PICK hi \in ReadStart..Len(log) :
          /\ todo' = SubSeq(log, ReadStart + 1, hi)
          /\ dirty' = (dirty \/ hi # offset)
          /\ offset' = hi
    BY DEF ReadEvents
<1>1. /\ log \in Seq(1..MaxEvents) /\ Len(log) \in Nat
      /\ \A i \in 1..Len(log) : log[i] \in 1..MaxEvents
    BY LenProperties, ElementOfSeq DEF IInv, TypeOK
<1>2. ReadStart \in 0..Len(log) /\ hi \in 0..Len(log) /\ ReadStart <= hi
    BY <1>1 DEF ReadStart, IInv, TypeOK
<1>3. /\ todo' \in Seq(1..MaxEvents)
      /\ Len(todo') = hi - ReadStart
      /\ \A j \in 1..Len(todo') : todo'[j] = log[ReadStart + j]
    BY <1>1, <1>2, ReadLines
<1>4. \A j \in 1..Len(todo') : ReadStart + j \in 1..Len(log) /\ ReadStart + j <= hi
    BY <1>1, <1>2, <1>3
<1>5. TypeOK'
    <2>1. offset' \in 0..MaxEvents
        BY <1>1, <1>2, Elements DEF IInv, TypeOK, LogOrder
    <2>2. dirty' \in BOOLEAN /\ pc' = "dispatch"
        BY DEF ReadEvents
    <2>3. UNCHANGED <<log, written, disk, ran, lossless, truncations, restarts>>
        BY DEF ReadEvents
    <2> QED
        BY <1>3, <2>1, <2>2, <2>3 DEF IInv, TypeOK
<1>6. /\ UNCHANGED <<log, written, ran, lossless>>
      /\ todo = <<>>
      /\ pc' = "dispatch"
    BY DEF IInv, ReadEvents
<1>7. ReadIsWritten'
    BY <1>3, <1>4, <1>6 DEF IInv, LogOrder, ReadIsWritten
<1>8. \A j \in 1..Len(todo') : Unread(ReadStart + j)
    BY <1>1, <1>2, <1>3, <1>4, Elements DEF Unread, ReadStart, IInv
<1>9. ASSUME lossless PROVE DispatchOrder'
    <2>1. Increasing(todo')
        <3> SUFFICES ASSUME NEW i \in 1..Len(todo'), NEW j \in 1..Len(todo'), i < j
                     PROVE  todo'[i] < todo'[j]
            BY DEF Increasing
        <3>1. ReadStart + i < ReadStart + j
            BY <1>1, <1>2, <1>3
        <3> QED
            BY <1>3, <1>4, <3>1 DEF Increasing, IInv, LogOrder
    <2>2. Before(ran, todo')
        BY <1>3, <1>4, <1>8, <1>9 DEF Before, IInv, UnreadFollows
    <2> QED
        BY <1>6, <1>9, <2>1, <2>2 DEF DispatchOrder, IInv
<1>10. ASSUME lossless PROVE UnreadFollows'
    <2> SUFFICES ASSUME NEW i \in 1..Len(log), i > hi
                 PROVE  /\ \A j \in 1..Len(ran) : ran[j] < log[i]
                        /\ \A j \in 1..Len(todo') : todo'[j] < log[i]
        <3>1. \A i \in 1..Len(log) : Unread(i)' => i > hi
            BY <1>1, <1>2, <1>6 DEF Unread
        <3> QED
            BY <1>6, <3>1 DEF UnreadFollows
    <2>1. Unread(i)
        BY <1>1, <1>2, Elements DEF Unread, ReadStart, IInv
    <2>2. \A j \in 1..Len(todo') : ReadStart + j < i
        BY <1>1, <1>2, <1>3, <1>4
    <2>3. \A j \in 1..Len(todo') : todo'[j] < log[i]
        BY <1>3, <1>4, <2>2 DEF IInv, LogOrder, Increasing
    <2> QED
        BY <1>10, <2>1, <2>3 DEF IInv, UnreadFollows
<1>11. LogOrder'
    BY <1>6 DEF IInv, LogOrder
<1> QED
    BY <1>5, <1>6, <1>7, <1>9, <1>10, <1>11 DEF IInv

LEMMA DispatchIInv == ASSUME IInv, Dispatch PROVE IInv'
<1>1. /\ ran \in Seq(1..MaxEvents) /\ Len(ran) \in Nat
      /\ todo \in Seq(1..MaxEvents) /\ Len(todo) \in Nat \ {0}
      /\ Head(todo) = todo[1] /\ todo[1] \in 1..MaxEvents
    <2>1. ran \in Seq(1..MaxEvents) /\ todo \in Seq(1..MaxEvents) /\ todo # <<>>
        BY DEF IInv, TypeOK, Dispatch
    <2>2. Len(ran) \in Nat /\ Len(todo) \in Nat /\ Len(todo) # 0
        BY <2>1, LenProperties, EmptySeq
    <2>3. Head(todo) \in 1..MaxEvents
        BY <2>1, HeadTailProperties
    <2>4. Head(todo) = todo[1]
        OBVIOUS
    <2> QED
        BY <2>1, <2>2, <2>3, <2>4
<1>2. /\ ran' \in Seq(1..MaxEvents)
      /\ Len(ran') = Len(ran) + 1
      /\ \A i \in 1..Len(ran) : ran'[i] = ran[i]
      /\ ran'[Len(ran) + 1] = todo[1]
    BY <1>1, AppendProperties DEF Dispatch
<1>3. /\ todo' \in Seq(1..MaxEvents)
      /\ Len(todo') = Len(todo) - 1
      /\ \A i \in 1..Len(todo') : todo'[i] = todo[i + 1]
    BY <1>1, HeadTailProperties DEF Dispatch
<1>4. TypeOK'
    <2>1. UNCHANGED <<log, written, offset, disk, dirty, pc, lossless, truncations, restarts>>
        BY DEF Dispatch
    <2> QED
        BY <1>2, <1>3, <2>1 DEF IInv, TypeOK
<1>5. /\ UNCHANGED <<log, written, offset, lossless>>
      /\ pc' = "dispatch"
    BY DEF Dispatch
<1>6. /\ \A i \in 1..Len(ran') : (i \in 1..Len(ran) \/ i = Len(ran) + 1)
      /\ 1 \in 1..Len(todo)
      /\ \A i \in 1..Len(todo') : i + 1 \in 1..Len(todo) /\ 1 < i + 1
    BY <1>1, <1>2, <1>3
<1>7. ReadIsWritten'
    BY <1>2, <1>3, <1>5, <1>6 DEF IInv, ReadIsWritten
<1>8. ASSUME lossless PROVE DispatchOrder'
    <2>1. Increasing(ran) /\ Increasing(todo) /\ Before(ran, todo)
        BY <1>8 DEF IInv, DispatchOrder
    <2>2. Increasing(ran')
        <3> SUFFICES ASSUME NEW i \in 1..Len(ran'), NEW j \in 1..Len(ran'), i < j
                     PROVE  ran'[i] < ran'[j]
            BY DEF Increasing
        <3>1. i \in 1..Len(ran)
            BY <1>1, <1>2
        <3> QED
            BY <1>2, <1>6, <2>1, <3>1 DEF Increasing, Before
    <2>3. Increasing(todo')
        <3> SUFFICES ASSUME NEW i \in 1..Len(todo'), NEW j \in 1..Len(todo'), i < j
                     PROVE  todo'[i] < todo'[j]
            BY DEF Increasing
        <3>1. i + 1 < j + 1
            BY <1>1, <1>3
        <3> QED
            BY <1>3, <1>6, <2>1, <3>1 DEF Increasing
    <2>4. Before(ran', todo')
        BY <1>2, <1>3, <1>6, <2>1 DEF Increasing, Before
    <2> QED
        BY <2>2, <2>3, <2>4 DEF DispatchOrder
<1>9. ASSUME lossless PROVE UnreadFollows'
    <2>1. \A i \in 1..Len(log) : Unread(i)' => Unread(i)
        BY <1>5 DEF Unread
    <2> QED
        BY <1>2, <1>3, <1>5, <1>6, <1>9, <2>1 DEF UnreadFollows, IInv
<1>10. LogOrder'
    BY <1>5 DEF IInv, LogOrder
<1> QED
    BY <1>4, <1>5, <1>7, <1>8, <1>9, <1>10 DEF IInv

\* Nothing is read or dispatched; what was read may be dropped.
LEMMA OthersKeep ==
    ASSUME IInv,
           UNCHANGED <<log, written, offset, ran>>,
           todo' = todo \/ todo' = <<>>
    PROVE  /\ LogOrder' /\ ReadIsWritten'
           /\ DispatchOrder => DispatchOrder'
           /\ UnreadFollows => UnreadFollows'
<1>1. \A i \in 1..Len(todo') : i \in 1..Len(todo) /\ todo'[i] = todo[i]
    <2>1. Len(<<>>) = 0
        BY EmptySeq
    <2> QED
        BY <2>1
<1>2. \A i \in 1..Len(log) : Unread(i)' = Unread(i)
    BY DEF Unread
<1> QED
    BY <1>1, <1>2
    DEF IInv, LogOrder, ReadIsWritten, DispatchOrder, UnreadFollows, Increasing, Before

\* The steps that read nothing and dispatch nothing.
LEMMA OtherIInv ==
    ASSUME IInv,
           DispatchDone \/ CycleEnds \/ SaveElsewhere \/ Stop \/ UNCHANGED vars
    PROVE  IInv'
<1>1. /\ UNCHANGED <<log, written, offset, ran, lossless, truncations, restarts>>
      /\ todo' = todo \/ todo' = <<>>
      /\ pc' \in {pc, "rest", "read", "stopped"}
      /\ disk' \in {disk, offset} /\ dirty' \in {dirty, FALSE}
    BY DEF DispatchDone, CycleEnds, SaveElsewhere, SaveIfDirty, Stop, vars
<1>2. TypeOK'
    <2>1. todo' \in Seq(1..MaxEvents)
        BY <1>1, EmptySeq DEF IInv, TypeOK
    <2>2. disk' \in 0..MaxEvents /\ dirty' \in BOOLEAN
        BY <1>1 DEF IInv, TypeOK
    <2> QED
        BY <1>1, <2>1, <2>2 DEF IInv, TypeOK
<1>3. pc' # "dispatch" => todo' = <<>>
    BY DEF IInv, DispatchDone, CycleEnds, SaveElsewhere, Stop, vars
<1>4. /\ LogOrder' /\ ReadIsWritten'
      /\ DispatchOrder => DispatchOrder'
      /\ UnreadFollows => UnreadFollows'
    BY <1>1, OthersKeep
<1> QED
    BY <1>1, <1>2, <1>3, <1>4 DEF IInv

LEMMA RestartIInv == ASSUME IInv, Restart PROVE IInv'
<1>1. /\ UNCHANGED <<log, written, disk, ran, truncations>>
      /\ offset' = disk /\ dirty' = FALSE /\ todo' = <<>> /\ pc' = "read"
      /\ restarts' = restarts + 1
      /\ lossless' = (lossless /\ disk = offset)
    BY DEF Restart
<1>2. lossless' \in BOOLEAN
    BY <1>1
<1>3. TypeOK'
    <2>1. todo' \in Seq(1..MaxEvents)
        BY <1>1, EmptySeq
    <2>2. offset' \in 0..MaxEvents /\ disk' \in 0..MaxEvents /\ restarts' \in Nat
        BY <1>1 DEF IInv, TypeOK
    <2>3. dirty' \in BOOLEAN /\ pc' \in {"read", "dispatch", "rest", "stopped"}
        BY <1>1
    <2>4. /\ log' \in Seq(1..MaxEvents) /\ ran' \in Seq(1..MaxEvents)
          /\ written' \in 0..MaxEvents /\ truncations' \in Nat
        BY <1>1 DEF IInv, TypeOK
    <2> QED
        BY <1>2, <2>1, <2>2, <2>3, <2>4 DEF TypeOK
<1>4. Len(<<>>) = 0
    BY EmptySeq
<1>5. LogOrder' /\ ReadIsWritten'
    BY <1>1, <1>4 DEF IInv, LogOrder, ReadIsWritten
<1>6. ASSUME lossless' PROVE DispatchOrder' /\ UnreadFollows'
    <2>1. offset' = offset /\ lossless
        BY <1>1, <1>6
    <2> QED
        BY <1>1, <2>1, OthersKeep DEF IInv
<1> QED
    BY <1>1, <1>3, <1>5, <1>6 DEF IInv

LEMMA NextIInv == ASSUME IInv, [Next]_vars PROVE IInv'
    BY WriteEventIInv, TruncateIInv, ReadEventsIInv, DispatchIInv, OtherIInv, RestartIInv
    DEF Next

\* The invariant that carries the order of dispatch holds in every state.
THEOREM Inductive == Spec => []IInv
<1>1. IInv /\ [Next]_vars => IInv'
    BY NextIInv
<1> QED
    BY InitIInv, <1>1, PTL DEF Spec

\* The variables of the event log and its reader keep their types, the offset
\* never lies beyond the events written.
THEOREM TypeCorrect == Spec => []TypeOK
<1>1. IInv => TypeOK
    BY DEF IInv
<1> QED
    BY Inductive, <1>1, PTL

\* Hook events are dispatched in the order they were written and at most once,
\* unless a process ended with an offset it had not saved.
THEOREM InOrder == Spec => []InOrderAtMostOnce
<1>1. IInv => InOrderAtMostOnce
    BY DEF IInv, DispatchOrder, Increasing, InOrderAtMostOnce
<1> QED
    BY Inductive, <1>1, PTL

-----------------------------------------------------------------------------
(* The session map.                                                        *)

\* A save of the monitor state is one of HookEvents.
LEMMA SavesAreSaves ==
    /\ Saves => Next
    /\ SaveFails => UNCHANGED vars
BY DEF Saves, SaveFails, Next

\* The windows and the agents touch the log only to append to it.
LEMMA WindowStepsRefine ==
    ASSUME NEW w \in Windows,
           \/ WindowAppears(w) \/ WindowDies(w) \/ AgentActs(w) \/ AgentExits(w)
           \/ SessionEnds(w)
    PROVE  [Next]_vars
<1>1. CASE WindowAppears(w) BY <1>1 DEF WindowAppears
<1>2. CASE WindowDies(w) BY <1>2 DEF WindowDies
<1>3. CASE AgentActs(w) BY <1>3 DEF AgentActs
<1>4. CASE AgentExits(w) \/ SessionEnds(w)
  BY <1>4 DEF AgentExits, SessionEnds, WritesEnd, Next
<1> QED BY <1>1, <1>2, <1>3, <1>4

LEMMA StartsRefine ==
    ASSUME NEW w \in Windows, NEW s \in Sessions, AgentStarts(w, s) \/ NestedStarts(w, s)
    PROVE  [Next]_vars
BY DEF AgentStarts, NestedStarts

\* So do the hooks.
LEMMA SessionStepsRefine ==
    ASSUME NEW s \in Sessions, Writes(s) \/ HookStep(s)
    PROVE  [Next]_vars
<1>1. CASE Writes(s) BY <1>1 DEF Writes
<1>2. CASE HookStep(s)
  BY <1>2 DEF HookStep, HookLooks, HookWritesMap, HookWritesEvent, Next
<1> QED BY <1>1, <1>2

\* Every stage of a monitor cycle is a step of the reader, a save, or neither.
LEMMA CycleRefines ==
    ASSUME Cycle PROVE [Next]_vars
<1>1. CASE Boot BY <1>1, SavesAreSaves DEF Boot
<1>2. CASE ListWindows BY <1>2 DEF ListWindows
<1>3. CASE MonitorReads \/ MonitorDispatches \/ MonitorDispatched
  BY <1>3 DEF MonitorReads, MonitorDispatches, MonitorDispatched, Next
<1>4. CASE ReadMapFails \/ MonitorCycleEnds
  BY <1>4 DEF ReadMapFails, MonitorCycleEnds, Next
<1>5. CASE SyncMap BY <1>5, SavesAreSaves DEF SyncMap
<1>6. ASSUME NEW w \in Windows, ReserveReplay(w) PROVE [Next]_vars
  BY <1>6, SavesAreSaves DEF ReserveReplay
<1>7. ASSUME NEW w \in Windows, TrackSession(w) PROVE [Next]_vars
  BY <1>7 DEF TrackSession
<1> QED BY <1>1, <1>2, <1>3, <1>4, <1>5, <1>6, <1>7 DEF Cycle

\* Seen from the log, a run of the hooks and the monitor is a run of HookEvents
\* (hook.py, session_monitor.py).
THEOREM MapRefinesLog == MapSpec => Spec
<1>1. MapInit => Init BY DEF MapInit
<1>2. [MapNext]_mapVars => [Next]_vars
  <2>1. CASE Cycle BY <2>1, CycleRefines
  <2>2. CASE MonitorRestarts BY <2>2 DEF MonitorRestarts, Next
  <2>3. CASE UNCHANGED mapVars BY <2>3 DEF mapVars
  <2> QED
    BY <2>1, <2>2, <2>3, WindowStepsRefine, StartsRefine, SessionStepsRefine DEF MapNext
<1> QED BY <1>1, <1>2, PTL DEF MapSpec, Spec

\* With hooks that write the map first, /clear, nested agents and a monitor
\* that also saves the tracked sessions, events are still dispatched in order
\* and none twice, unless a process ended with an offset it had not saved.
THEOREM MapInOrder == MapSpec => []InOrderAtMostOnce
BY MapRefinesLog, InOrder

-----------------------------------------------------------------------------
(* Which sessions the monitor tracks, and from where.                      *)

MapEntries == [sid : Sessions, replay : BOOLEAN]
Starts     == {"no", "zero", "eof"}
Hooks      == [pc : {"idle", "look", "map", "log"}, win : Windows \cup {None},
               replay : BOOLEAN, fresh : BOOLEAN]

MapTypeOK ==
    /\ map \in [Windows -> MapEntries \cup {None}]
    /\ cur \in [Windows -> MapEntries \cup {None}]
    /\ state \in [Windows -> Sessions \cup {None}]
    /\ tracked \in [Sessions -> Starts]
    /\ saved \in [Sessions -> Starts]
    /\ \A w \in check : w \in Windows /\ cur[w] # None
    /\ slips \in Nat

WorldTypeOK ==
    /\ pane \in [Windows -> Sessions \cup {"absent", "shell", "gone"}]
    /\ hook \in [Sessions -> Hooks]
    /\ writers \in Seq(Sessions)

\* Only a session that started runs, writes or has a hook process.
OnlyBorn ==
    /\ \A w \in Windows : pane[w] \in Sessions => pane[w] \in born
    /\ nested \subseteq born
    /\ ToSet(writers) \subseteq born
    /\ \A s \in Sessions : hook[s].pc # "idle" => s \in born

\* The hook of its first start has not written the map.
Unseen(s) == s \notin born \/ (hook[s].pc = "map" /\ hook[s].replay)

Nowhere(s) ==
    /\ \A w \in Windows : Sid(map[w]) # s /\ Sid(cur[w]) # s /\ state[w] # s
    /\ tracked[s] # "eof" /\ saved[s] # "eof"
    /\ s \notin reserved

UnseenNowhere ==
    \A s \in Sessions : Unseen(s) => Nowhere(s) /\ s \notin ToSet(writers)

\* What a standing marker promises: neither the file nor the memory has the
\* session at its end, and the cycle can come to it by this window only.
Marked(s, w) ==
    /\ tracked[s] # "eof" /\ saved[s] # "eof"
    /\ \A v \in Windows \ {w} : Sid(map[v]) # s /\ Sid(cur[v]) # s /\ state[v] # s
    /\ cur[w] # Entry(s, FALSE)

MarkersStand ==
    \A s \in Sessions \ moved, w \in Windows : map[w] = Entry(s, TRUE) => Marked(s, w)

\* The same for a marker this cycle has read, whatever became of the map since.
MarkersRead ==
    \A s \in Sessions \ moved, w \in check : cur[w] = Entry(s, TRUE) => tracked[s] # "eof"

ReservedKept ==
    \A s \in Sessions \ moved : s \in reserved => tracked[s] = "zero" /\ saved[s] = "zero"

\* Without a slip every tracked session is in the map of the last reconciliation,
\* and so is what this cycle looks at.
Reconciled ==
    /\ DOMAIN last = Windows
    /\ pc = "dispatch" => stage = "events"
    /\ stage = "check" => \A w \in Windows : cur[w] # None => Sid(cur[w]) \in Range(last)
    /\ slips = 0 /\ stage # "boot" =>
           \A s \in Sessions : tracked[s] # "no" => s \in Range(last)

MapIInv ==
    /\ MapTypeOK /\ WorldTypeOK
    /\ OnlyBorn /\ UnseenNowhere
    /\ MarkersStand /\ MarkersRead /\ ReservedKept
    /\ Reconciled
-----------------------------------------------------------------------------
LEMMA NoneIsNoEntry ==
    /\ None \notin MapEntries /\ None \notin Sessions
    /\ \A s \in Sessions, b \in BOOLEAN :
          /\ Entry(s, b) \in MapEntries /\ Entry(s, b).sid = s /\ Entry(s, b).replay = b
          /\ Entry(s, b) # None /\ Sid(Entry(s, b)) = s
    /\ \A e \in MapEntries : e # None /\ Sid(e) = e.sid /\ Sid(e) \in Sessions
                               /\ e = Entry(e.sid, e.replay)
    /\ Sid(None) = None
BY SessionMapAssumption DEF MapEntries, Entry, Sid

LEMMA InitMapIInv == ASSUME MapInit PROVE MapIInv
<1>1. /\ map = NoMap /\ cur = NoMap /\ state = NoMap /\ tracked = [s \in Sessions |-> "no"]
      /\ saved = tracked /\ check = {} /\ slips = 0 /\ writers = <<>> /\ reserved = {}
      /\ hook = [s \in Sessions |-> NoHook] /\ nested = {} /\ stage = "boot"
      /\ pane = [w \in Windows |-> "absent"]
    BY DEF MapInit
<1>2. MapTypeOK
    BY <1>1 DEF MapTypeOK, NoMap, Starts
<1>3. WorldTypeOK
    <2>1. NoHook \in Hooks
        BY DEF NoHook, Hooks
    <2>2. <<>> \in Seq(Sessions)
        BY EmptySeq
    <2> QED
        BY <1>1, <2>1, <2>2 DEF WorldTypeOK
<1>4. ToSet(writers) = {}
    BY <1>1 DEF ToSet
<1>5. OnlyBorn
    BY <1>1, <1>4, SessionMapAssumption DEF OnlyBorn, NoHook
<1>6. \A s \in Sessions : Nowhere(s)
    BY <1>1, NoneIsNoEntry DEF Nowhere, NoMap
<1>7. UnseenNowhere
    BY <1>4, <1>6 DEF UnseenNowhere
<1>8. MarkersStand
    BY <1>1, NoneIsNoEntry DEF MarkersStand, NoMap
<1>9. MarkersRead /\ ReservedKept
    BY <1>1 DEF MarkersRead, ReservedKept
<1>10. Reconciled
    BY <1>1 DEF Reconciled, MapInit, Init, NoMap
<1> QED
    BY <1>2, <1>3, <1>5, <1>7, <1>8, <1>9, <1>10 DEF MapIInv

\* The world goes on: the monitor's state and the map are as they were.
WorldOnly == UNCHANGED <<pc, map, moved, cur, last, check, stage, state, tracked, saved,
                         reserved, slips>>

\* What a step of the world must show for the invariant.
WorldFits ==
    /\ WorldTypeOK' /\ OnlyBorn'
    /\ \A s \in Sessions : Unseen(s)' => Unseen(s) /\ s \notin ToSet(writers)'

LEMMA WorldOnlyKeeps == ASSUME MapIInv, WorldOnly, WorldFits PROVE MapIInv'
<1>0. /\ pc' = pc /\ map' = map /\ moved' = moved /\ cur' = cur /\ last' = last /\ check' = check
      /\ stage' = stage /\ state' = state /\ tracked' = tracked /\ saved' = saved
      /\ reserved' = reserved /\ slips' = slips
    BY DEF WorldOnly
<1>1. MapTypeOK' /\ WorldTypeOK' /\ OnlyBorn'
    BY <1>0 DEF MapIInv, MapTypeOK, WorldFits
<1>2. UnseenNowhere'
    <2> SUFFICES ASSUME NEW s \in Sessions, Unseen(s)'
                 PROVE  Nowhere(s)' /\ s \notin ToSet(writers)'
        BY DEF UnseenNowhere
    <2>1. Unseen(s) /\ s \notin ToSet(writers)'
        BY DEF WorldFits
    <2>2. Nowhere(s)
        BY <2>1 DEF MapIInv, UnseenNowhere
    <2> QED
        BY <1>0, <2>1, <2>2 DEF Nowhere
<1>3. MarkersStand' /\ MarkersRead' /\ ReservedKept'
    BY <1>0 DEF MapIInv, MarkersStand, MarkersRead, ReservedKept, Marked
<1>4. Reconciled'
    BY <1>0 DEF MapIInv, Reconciled
<1> QED
    BY <1>1, <1>2, <1>3, <1>4 DEF MapIInv

\* Nothing of what the invariant says of the world changes.
WorldKept == UNCHANGED <<pane, nested, born, writers, hook>>

LEMMA WorldKeptFits ==
    ASSUME MapIInv, WorldKept
    PROVE  /\ WorldTypeOK' /\ OnlyBorn'
           /\ \A s \in Sessions : Unseen(s)' <=> Unseen(s)
           /\ writers' = writers
<1>0. pane' = pane /\ nested' = nested /\ born' = born /\ writers' = writers /\ hook' = hook
    BY DEF WorldKept
<1> QED
    BY <1>0 DEF MapIInv, WorldTypeOK, OnlyBorn, Unseen

-----------------------------------------------------------------------------
LEMMA PanesFit ==
    ASSUME MapIInv, \E w \in Windows : WindowAppears(w) \/ WindowDies(w) \/ AgentExits(w)
                                        \/ SessionEnds(w)
    PROVE  MapIInv'
<1> PICK w \in Windows : WindowAppears(w) \/ WindowDies(w) \/ AgentExits(w) \/ SessionEnds(w)
    OBVIOUS
<1>1. WorldOnly /\ UNCHANGED <<nested, born, writers, hook>>
    BY DEF WindowAppears, WindowDies, AgentExits, SessionEnds, WritesEnd, WorldOnly,
           sessions, monitor, hooks, vars, WriteEvent
<1>2. pane' = pane \/ \E x \in {"shell", "gone"} : pane' = [pane EXCEPT ![w] = x]
    BY DEF WindowAppears, WindowDies, AgentExits, SessionEnds
<1>3. /\ \A v \in Windows : pane'[v] \in Sessions => pane'[v] \in born
      /\ pane' \in [Windows -> Sessions \cup {"absent", "shell", "gone"}]
    BY <1>2, SessionMapAssumption DEF MapIInv, OnlyBorn, WorldTypeOK
<1>4. WorldTypeOK' /\ OnlyBorn'
    BY <1>1, <1>3 DEF MapIInv, WorldTypeOK, OnlyBorn
<1>5. \A s \in Sessions : Unseen(s)' => Unseen(s) /\ s \notin ToSet(writers)'
    BY <1>1 DEF MapIInv, Unseen, UnseenNowhere
<1> QED
    BY <1>1, <1>4, <1>5, WorldOnlyKeeps DEF WorldFits

\* The hook process that Fires starts.
LEMMA FiredHook ==
    ASSUME NEW w \in Windows, NEW s, NEW at \in {"look", "map"}, Fires(s, w, at)
    PROVE  \E h \in Hooks : /\ hook' = [hook EXCEPT ![s] = h]
                            /\ h.pc = at
                            /\ h.replay = (s \notin ToSet(writers))
<1> DEFINE h == [pc |-> at, win |-> w, replay |-> s \notin ToSet(writers),
                 fresh |-> s \notin born]
<1>1. h \in Hooks
    <2>1. (s \notin ToSet(writers)) \in BOOLEAN /\ (s \notin born) \in BOOLEAN
        OBVIOUS
    <2> QED
        BY <2>1 DEF Hooks
<1>2. hook' = [hook EXCEPT ![s] = h]
    BY DEF Fires
<1>3. h.pc = at /\ h.replay = (s \notin ToSet(writers))
    BY Zenon
<1> HIDE DEF h
<1> QED
    BY <1>1, <1>2, <1>3

LEMMA StartFits ==
    ASSUME MapIInv, NEW w \in Windows, NEW s \in Sessions, AgentStarts(w, s) \/ NestedStarts(w, s)
    PROVE  MapIInv'
<1>1. WorldOnly /\ writers' = writers /\ born' = born \cup {s}
    BY DEF AgentStarts, NestedStarts, WorldOnly, sessions, monitor, vars
<1>2. /\ Fires(s, w, "map")
      /\ s \in born => s \in ToSet(writers)
    BY DEF AgentStarts, NestedStarts
<1>3. \E h \in Hooks : /\ hook' = [hook EXCEPT ![s] = h]
                       /\ h.replay = (s \notin ToSet(writers))
    BY <1>2, FiredHook
<1>4. WorldTypeOK'
    BY <1>1, <1>3 DEF MapIInv, WorldTypeOK, AgentStarts, NestedStarts
<1>5. /\ pane' = pane \/ pane' = [pane EXCEPT ![w] = s]
      /\ nested' \subseteq nested \cup {s}
    BY DEF AgentStarts, NestedStarts
<1>6. OnlyBorn'
    <2>1. \A v \in Windows : pane'[v] = pane[v] \/ pane'[v] = s
        BY <1>5 DEF MapIInv, WorldTypeOK
    <2>4. \A v \in Windows : pane'[v] \in Sessions => pane'[v] \in born'
        BY <1>1, <2>1 DEF MapIInv, OnlyBorn
    <2>2. \A r \in Sessions : hook'[r].pc # "idle" => r \in born'
        BY <1>1, <1>3 DEF MapIInv, OnlyBorn, WorldTypeOK
    <2>3. nested' \subseteq born' /\ ToSet(writers') \subseteq born'
        BY <1>1, <1>5 DEF MapIInv, OnlyBorn
    <2> QED
        BY <2>2, <2>3, <2>4 DEF OnlyBorn
<1>7. ASSUME NEW r \in Sessions, Unseen(r)' PROVE Unseen(r) /\ r \notin ToSet(writers)'
    <2>1. CASE r = s
        BY <1>1, <1>2, <1>3, <1>7, <2>1 DEF MapIInv, WorldTypeOK, Unseen
    <2>2. CASE r # s
        BY <1>1, <1>3, <1>7, <2>2 DEF MapIInv, WorldTypeOK, Unseen, UnseenNowhere
    <2> QED
        BY <2>1, <2>2
<1> QED
    BY <1>1, <1>4, <1>6, <1>7, WorldOnlyKeeps DEF WorldFits

\* A hook process that comes to nothing the invariant speaks of.
LEMMA HookFits ==
    ASSUME MapIInv, WorldOnly, UNCHANGED <<pane, nested, born, writers>>,
           NEW s \in Sessions, s \in born, NEW h \in Hooks,
           hook' = [hook EXCEPT ![s] = h],
           h.pc = "map" => ~h.replay
    PROVE  MapIInv'
<1>1. WorldTypeOK'
    BY DEF MapIInv, WorldTypeOK
<1>2. OnlyBorn'
    BY DEF MapIInv, WorldTypeOK, OnlyBorn
<1>3. ASSUME NEW r \in Sessions, Unseen(r)' PROVE Unseen(r) /\ r \notin ToSet(writers)'
    BY <1>3 DEF MapIInv, WorldTypeOK, Unseen, UnseenNowhere
<1> QED
    BY <1>1, <1>2, <1>3, WorldOnlyKeeps DEF WorldFits

LEMMA ActsFit == ASSUME MapIInv, NEW w \in Windows, AgentActs(w) PROVE MapIInv'
<1>1. WorldOnly /\ UNCHANGED <<pane, nested, born, writers>>
    BY DEF AgentActs, WorldOnly, sessions, monitor, world, vars
<1>2. pane[w] \in Sessions /\ Fires(pane[w], w, "look")
    BY DEF AgentActs
<1>3. pane[w] \in born
    BY <1>2 DEF MapIInv, OnlyBorn
<1>4. \E h \in Hooks : hook' = [hook EXCEPT ![pane[w]] = h] /\ h.pc = "look"
    BY <1>2, FiredHook
<1> QED
    BY <1>1, <1>2, <1>3, <1>4, HookFits

LEMMA LooksFit == ASSUME MapIInv, NEW s \in Sessions, HookLooks(s) PROVE MapIInv'
<1>1. WorldOnly /\ UNCHANGED <<pane, nested, born, writers>>
    BY DEF HookLooks, WorldOnly, sessions, monitor, world, vars
<1>2. hook[s].pc = "look" /\ hook[s] \in Hooks
    BY DEF HookLooks, MapIInv, WorldTypeOK
<1>3. \E p \in {"map", "log"} : hook' = [hook EXCEPT ![s].pc = p, ![s].replay = FALSE]
    BY DEF HookLooks
<1>4. \E h \in Hooks : hook' = [hook EXCEPT ![s] = h] /\ ~h.replay
    <2> PICK p \in {"map", "log"} : hook' = [hook EXCEPT ![s].pc = p, ![s].replay = FALSE]
        BY <1>3
    <2>1. [hook[s] EXCEPT !.pc = p, !.replay = FALSE] \in Hooks
        BY <1>2 DEF Hooks
    <2>2. hook' = [hook EXCEPT ![s] = [hook[s] EXCEPT !.pc = p, !.replay = FALSE]]
        BY DEF MapIInv, WorldTypeOK
    <2>3. ~[hook[s] EXCEPT !.pc = p, !.replay = FALSE].replay
        BY <1>2 DEF Hooks
    <2> QED
        BY <2>1, <2>2, <2>3
<1>5. s \in born
    BY <1>2 DEF MapIInv, OnlyBorn
<1> QED
    BY <1>1, <1>4, <1>5, HookFits

LEMMA EventFits == ASSUME MapIInv, NEW s \in Sessions, HookWritesEvent(s) PROVE MapIInv'
<1>1. /\ UNCHANGED <<map, moved, cur, last, check, stage, state, tracked, saved, reserved>>
      /\ UNCHANGED <<pc, pane, nested, born, writers>>
      /\ slips' = slips \/ slips' = slips + 1
    BY DEF HookWritesEvent, sessions, monitor, world, Slip, vars, WriteEvent
<1>2. hook' = [hook EXCEPT ![s] = NoHook] /\ NoHook \in Hooks /\ NoHook.pc = "idle"
    BY DEF HookWritesEvent, NoHook, Hooks
<1>3. s \in born
    BY DEF HookWritesEvent, MapIInv, OnlyBorn
<1>4. WorldTypeOK'
    BY <1>1, <1>2 DEF MapIInv, WorldTypeOK
<1>5. OnlyBorn'
    BY <1>1, <1>2 DEF MapIInv, WorldTypeOK, OnlyBorn
<1>6. ASSUME NEW r \in Sessions, Unseen(r)' PROVE Unseen(r) /\ r \notin ToSet(writers)'
    BY <1>1, <1>2, <1>6 DEF MapIInv, WorldTypeOK, Unseen, UnseenNowhere
<1>7. UnseenNowhere'
    <2> SUFFICES ASSUME NEW r \in Sessions, Unseen(r)'
                 PROVE  Nowhere(r)' /\ r \notin ToSet(writers)'
        BY DEF UnseenNowhere
    <2>2. Nowhere(r)
        BY <1>6 DEF MapIInv, UnseenNowhere
    <2> QED
        BY <1>1, <1>6, <2>2 DEF Nowhere
<1>8. MapTypeOK'
    BY <1>1 DEF MapIInv, MapTypeOK
<1>9. MarkersStand' /\ MarkersRead' /\ ReservedKept'
    BY <1>1 DEF MapIInv, MarkersStand, MarkersRead, ReservedKept, Marked
<1>10. Reconciled'
    BY <1>1 DEF MapIInv, MapTypeOK, Reconciled
<1> QED
    BY <1>4, <1>5, <1>7, <1>8, <1>9, <1>10 DEF MapIInv

LEMMA RewrittenBy ==
    ASSUME writers \in Seq(Sessions), NEW s \in Sessions, Writes(s)
    PROVE  writers' \in Seq(Sessions) /\ ToSet(writers') \subseteq ToSet(writers) \cup {s}
<1> DEFINE n == Age(s)
           a == SubSeq(writers, 1, n - 1)
           b == SubSeq(writers, n + 1, Len(writers))
<1>1. writers' = Append(a \o b, s)
    BY DEF Writes, RemoveAt
<1>2. Len(writers) \in Nat /\ DOMAIN writers = 1 .. Len(writers)
      /\ writers \in [1 .. Len(writers) -> Sessions]
    BY LenProperties
<1>3. n \in 0 .. Len(writers)
    BY <1>2 DEF Age, ToSet
<1> HIDE DEF n
<1>4. /\ a \in Seq(Sessions) /\ Len(a) = IF n = 0 THEN 0 ELSE n - 1
      /\ \A i \in 1 .. Len(a) : a[i] \in ToSet(writers)
    <2>1. \A i \in 1 .. n - 1 : writers[i] \in Sessions
        BY <1>2, <1>3
    <2>2. /\ a \in Seq(Sessions) /\ Len(a) = IF 1 <= n - 1 THEN (n - 1) - 1 + 1 ELSE 0
          /\ \A i \in 1 .. (n - 1) - 1 + 1 : a[i] = writers[1 + i - 1]
        BY <1>2, <1>3, <2>1, SubSeqProperties
    <2> QED
        BY <1>2, <1>3, <2>2 DEF ToSet
<1>5. /\ b \in Seq(Sessions) /\ Len(b) = Len(writers) - n
      /\ \A i \in 1 .. Len(b) : b[i] \in ToSet(writers)
    <2>1. \A i \in n + 1 .. Len(writers) : writers[i] \in Sessions
        BY <1>2, <1>3
    <2>2. /\ b \in Seq(Sessions)
          /\ Len(b) = IF n + 1 <= Len(writers) THEN Len(writers) - (n + 1) + 1 ELSE 0
          /\ \A i \in 1 .. Len(writers) - (n + 1) + 1 : b[i] = writers[n + 1 + i - 1]
        BY <1>2, <1>3, <2>1, SubSeqProperties
    <2> HIDE DEF b
    <2>3. Len(b) = Len(writers) - n
        <3>1. Len(b) = IF n + 1 <= Len(writers) THEN Len(writers) - (n + 1) + 1 ELSE 0
            BY <2>2
        <3>2. n \in Nat /\ n <= Len(writers) /\ Len(writers) \in Nat
            BY <1>2, <1>3
        <3> QED
            BY <3>1, <3>2
    <2>4. \A i \in 1 .. Len(b) : b[i] = writers[n + i] /\ n + i \in DOMAIN writers
        <3> SUFFICES ASSUME NEW i \in 1 .. Len(b)
                     PROVE  b[i] = writers[n + i] /\ n + i \in DOMAIN writers
            OBVIOUS
        <3>1. i \in 1 .. Len(writers) - (n + 1) + 1 /\ n + 1 + i - 1 = n + i
            BY <1>2, <1>3, <2>3
        <3>2. b[i] = writers[n + 1 + i - 1]
            BY <2>2, <3>1
        <3> QED
            BY <1>2, <1>3, <3>1, <3>2
    <2> QED
        BY <2>2, <2>3, <2>4 DEF ToSet
<1> HIDE DEF a, b
<1> DEFINE c == a \o b
<1>6. c \in Seq(Sessions) /\ Len(c) \in Nat /\ \A i \in 1 .. Len(c) : c[i] \in ToSet(writers)
    <2>1. /\ c \in Seq(Sessions) /\ Len(c) = Len(a) + Len(b)
          /\ \A i \in 1 .. Len(a) + Len(b) : c[i] = IF i <= Len(a) THEN a[i] ELSE b[i - Len(a)]
        BY <1>4, <1>5, ConcatProperties
    <2>2. Len(a) \in Nat /\ Len(b) \in Nat
        BY <1>4, <1>5, LenProperties
    <2> QED
        BY <1>4, <1>5, <2>1, <2>2
<1> HIDE DEF c
<1>7. /\ Append(c, s) \in Seq(Sessions) /\ Len(Append(c, s)) = Len(c) + 1
      /\ \A i \in 1 .. Len(c) : Append(c, s)[i] = c[i]
      /\ Append(c, s)[Len(c) + 1] = s
    BY <1>6, AppendProperties
<1>8. \A i \in 1 .. Len(c) + 1 : Append(c, s)[i] \in ToSet(writers) \cup {s}
    BY <1>6, <1>7
<1>9. DOMAIN Append(c, s) = 1 .. Len(c) + 1
    BY <1>7, LenProperties
<1>10. writers' = Append(c, s)
    BY <1>1 DEF c
<1> QED
    BY <1>7, <1>8, <1>9, <1>10 DEF ToSet

LEMMA WritesFit == ASSUME MapIInv, NEW s \in Sessions, Writes(s) PROVE MapIInv'
<1>1. WorldOnly /\ UNCHANGED <<pane, nested, born, hook>>
    BY DEF Writes, WorldOnly, sessions, monitor, hooks, vars
<1>2. writers' \in Seq(Sessions) /\ ToSet(writers') \subseteq ToSet(writers) \cup {s}
    BY RewrittenBy DEF MapIInv, WorldTypeOK
<1>3. s \in born /\ hook[s].pc = "idle"
    BY DEF Writes, Running, Ready, MapIInv, OnlyBorn
<1>4. OnlyBorn' /\ WorldTypeOK'
    BY <1>1, <1>2, <1>3 DEF MapIInv, WorldTypeOK, OnlyBorn
<1>5. ASSUME NEW r \in Sessions, Unseen(r)' PROVE Unseen(r) /\ r \notin ToSet(writers')
    <2>1. Unseen(r) /\ r # s
        BY <1>1, <1>3, <1>5 DEF Unseen
    <2>2. r \notin ToSet(writers)
        BY <2>1 DEF MapIInv, UnseenNowhere
    <2> QED
        BY <1>2, <2>1, <2>2
<1> QED
    BY <1>1, <1>4, <1>5, WorldOnlyKeeps DEF WorldFits

-----------------------------------------------------------------------------
\* The map gets an entry of s, or the write is dropped.
LEMMA HookMapFits == ASSUME MapIInv, NEW s \in Sessions, HookWritesMap(s) PROVE MapIInv'
<1>1. /\ UNCHANGED <<cur, last, check, stage, state, tracked, saved, reserved>>
      /\ UNCHANGED <<pc, pane, nested, born, writers>>
    BY DEF HookWritesMap, sessions, monitor, world, vars
<1>2. /\ hook[s].pc = "map" /\ hook[s] \in Hooks
      /\ hook' = [hook EXCEPT ![s] = [hook[s] EXCEPT !.pc = "log"]]
      /\ [hook[s] EXCEPT !.pc = "log"] \in Hooks
      /\ [hook[s] EXCEPT !.pc = "log"].pc = "log"
    BY DEF HookWritesMap, MapIInv, WorldTypeOK, Hooks
<1>3. s \in born
    BY <1>2 DEF MapIInv, OnlyBorn
<1>4. slips' \in Nat /\ (slips' = 0 => slips = 0)
    <2>1. slips \in Nat
        BY DEF MapIInv, MapTypeOK
    <2>2. slips' = slips \/ slips' = slips + 1
        BY DEF HookWritesMap, Slip
    <2> QED
        BY <2>1, <2>2
<1>5. /\ map' \in [Windows -> MapEntries \cup {None}]
      /\ \A v \in Windows : map'[v] = map[v]
                             \/ (v = hook[s].win /\ map'[v] = Entry(s, hook[s].replay))
      /\ moved \subseteq moved'
      /\ \A w \in Windows : map[w] = Entry(s, TRUE) /\ map'[w] = map[w] /\ w # hook[s].win
             /\ map' # map => s \in moved'
    <2>1. CASE UNCHANGED <<map, moved>>
        <3>1. map' = map /\ moved' = moved /\ map \in [Windows -> MapEntries \cup {None}]
            BY <2>1 DEF MapIInv, MapTypeOK
        <3>2. \A v \in Windows : map'[v] = map[v]
            BY <3>1
        <3> QED
            BY <3>1, <3>2
    <2>2. CASE /\ map' = [map EXCEPT ![hook[s].win] = Entry(s, hook[s].replay)]
               /\ moved' = IF \E w \in Windows \ {hook[s].win} : map[w] = Entry(s, TRUE)
                           THEN moved \cup {s} ELSE moved
        <3>1. Entry(s, hook[s].replay) \in MapEntries
            BY <1>2, NoneIsNoEntry DEF Hooks
        <3>2. map \in [Windows -> MapEntries \cup {None}]
            BY DEF MapIInv, MapTypeOK
        <3>3. /\ map' \in [Windows -> MapEntries \cup {None}]
              /\ \A v \in Windows : map'[v] = map[v]
                             \/ (v = hook[s].win /\ map'[v] = Entry(s, hook[s].replay))
            <4> DEFINE e == Entry(s, hook[s].replay)
                       x == hook[s].win
            <4>1. map' = [map EXCEPT ![x] = e] /\ e \in MapEntries
                BY <2>2, <3>1
            <4> HIDE DEF e, x
            <4>2. /\ map' \in [Windows -> MapEntries \cup {None}]
                  /\ \A v \in Windows : map'[v] = map[v] \/ (v = x /\ map'[v] = e)
                BY <3>2, <4>1
            <4> QED
                BY <4>2 DEF e, x
        <3>4. /\ moved \subseteq moved'
              /\ \A w \in Windows : map[w] = Entry(s, TRUE) /\ w # hook[s].win => s \in moved'
            BY <2>2
        <3> QED
            BY <3>3, <3>4
    <2> QED
        BY <2>1, <2>2 DEF HookWritesMap
<1>6. MapTypeOK' /\ WorldTypeOK'
    BY <1>1, <1>2, <1>4, <1>5 DEF MapIInv, MapTypeOK, WorldTypeOK
<1>7. OnlyBorn'
    BY <1>1, <1>2, <1>3 DEF MapIInv, WorldTypeOK, OnlyBorn
<1>8. UnseenNowhere'
    <2> SUFFICES ASSUME NEW r \in Sessions, Unseen(r)'
                 PROVE  Nowhere(r)' /\ r \notin ToSet(writers)'
        BY DEF UnseenNowhere
    <2>1. r # s /\ Unseen(r)
        BY <1>1, <1>2, <1>3 DEF MapIInv, WorldTypeOK, Unseen
    <2>2. Nowhere(r) /\ r \notin ToSet(writers)
        BY <2>1 DEF MapIInv, UnseenNowhere
    <2>3. \A v \in Windows : Sid(map'[v]) # r
        BY <1>2, <1>5, <2>1, <2>2, NoneIsNoEntry DEF Nowhere, Hooks
    <2> QED
        BY <1>1, <2>2, <2>3 DEF Nowhere
<1>9. MarkersStand'
    <2> SUFFICES ASSUME NEW r \in Sessions \ moved', NEW w \in Windows, map'[w] = Entry(r, TRUE)
                 PROVE  Marked(r, w)'
        BY DEF MarkersStand
    <2>1. CASE map'[w] = map[w]
        <3>1. Marked(r, w)
            BY <1>5, <2>1 DEF MapIInv, MarkersStand
        <3>2. \A v \in Windows \ {w} : Sid(map'[v]) # r
            <4> SUFFICES ASSUME NEW v \in Windows \ {w}, Sid(map'[v]) = r PROVE FALSE
                OBVIOUS
            <4>1. map'[v] # map[v]
                BY <3>1 DEF Marked
            <4>2. v = hook[s].win /\ map'[v] = Entry(s, hook[s].replay)
                BY <1>5, <4>1
            <4>3. r = s
                BY <1>2, <4>2, NoneIsNoEntry DEF Hooks
            <4> QED
                BY <1>5, <2>1, <4>1, <4>2, <4>3
        <3> QED
            BY <1>1, <3>1, <3>2 DEF Marked
    <2>2. CASE w = hook[s].win /\ map'[w] = Entry(s, hook[s].replay)
        <3>1. r = s /\ hook[s].replay
            BY <1>2, <2>2 DEF Hooks, Entry
        <3>2. Nowhere(s)
            BY <1>2, <3>1 DEF Unseen, MapIInv, UnseenNowhere
        <3>3. \A v \in Windows \ {w} : Sid(map'[v]) # s
            BY <1>5, <2>2, <3>2 DEF Nowhere
        <3>4. cur[w] # Entry(s, FALSE)
            <4>1. Sid(Entry(s, FALSE)) = s
                BY NoneIsNoEntry
            <4> QED
                BY <3>2, <4>1 DEF Nowhere
        <3> QED
            BY <1>1, <3>1, <3>2, <3>3, <3>4 DEF Marked, Nowhere
    <2> QED
        BY <1>5, <2>1, <2>2
<1>10. MarkersRead' /\ ReservedKept'
    BY <1>1, <1>5 DEF MapIInv, MarkersRead, ReservedKept
<1>11. Reconciled'
    BY <1>1, <1>4 DEF MapIInv, Reconciled
<1> QED
    BY <1>6, <1>7, <1>8, <1>9, <1>10, <1>11 DEF MapIInv

-----------------------------------------------------------------------------
\* A step of the monitor that finds no session: it forgets some, saves some, or
\* goes back to what was saved.
Forgets ==
    /\ WorldKept /\ UNCHANGED <<map, moved>>
    /\ \A w \in Windows : cur'[w] \in {cur[w], None} /\ state'[w] \in {state[w], None}
    /\ \A s \in Sessions : /\ tracked'[s] \in {tracked[s], saved[s], "no"}
                           /\ saved'[s] \in {saved[s], tracked'[s]}
                           /\ s \in reserved' => s \in reserved
                                                 /\ tracked'[s] \in {tracked[s], saved[s]}

LEMMA ForgetsKeeps ==
    ASSUME MapIInv, Forgets
    PROVE  UnseenNowhere' /\ MarkersStand' /\ ReservedKept'
<1>1. map' = map /\ moved' = moved
    BY DEF Forgets
<1>2. ASSUME NEW s \in Sessions, Nowhere(s) PROVE Nowhere(s)'
    <2>1. \A w \in Windows : Sid(map'[w]) # s /\ Sid(cur'[w]) # s /\ state'[w] # s
        BY <1>1, <1>2, NoneIsNoEntry DEF Nowhere, Forgets
    <2>2. tracked'[s] # "eof" /\ saved'[s] # "eof" /\ s \notin reserved'
        BY <1>2 DEF Nowhere, Forgets
    <2> QED
        BY <2>1, <2>2 DEF Nowhere
<1>3. UnseenNowhere'
    BY <1>2, WorldKeptFits DEF Forgets, MapIInv, UnseenNowhere
<1>4. MarkersStand'
    <2> SUFFICES ASSUME NEW s \in Sessions \ moved, NEW w \in Windows, map[w] = Entry(s, TRUE)
                 PROVE  Marked(s, w)'
        BY <1>1 DEF MarkersStand
    <2>1. Marked(s, w)
        BY DEF MapIInv, MarkersStand
    <2>2. tracked'[s] # "eof" /\ saved'[s] # "eof"
        BY <2>1 DEF Marked, Forgets
    <2>3. \A v \in Windows \ {w} : Sid(map'[v]) # s /\ Sid(cur'[v]) # s /\ state'[v] # s
        BY <1>1, <2>1, NoneIsNoEntry DEF Marked, Forgets
    <2>4. cur'[w] # Entry(s, FALSE)
        BY <2>1, NoneIsNoEntry DEF Marked, Forgets
    <2> QED
        BY <2>2, <2>3, <2>4 DEF Marked
<1>5. ReservedKept'
    <2> SUFFICES ASSUME NEW s \in Sessions \ moved, s \in reserved'
                 PROVE  tracked'[s] = "zero" /\ saved'[s] = "zero"
        BY <1>1 DEF ReservedKept
    <2>1. tracked[s] = "zero" /\ saved[s] = "zero"
        BY DEF Forgets, MapIInv, ReservedKept
    <2> QED
        BY <2>1 DEF Forgets
<1> QED
    BY <1>3, <1>4, <1>5

\* What TranscriptReader.clear_session leaves.
LEMMA Dropped ==
    ASSUME NEW S, Drop(S)
    PROVE  /\ tracked' = [s \in Sessions |-> IF s \in S THEN "no" ELSE tracked[s]]
           /\ \A s \in Sessions : /\ s \in S => tracked'[s] = "no" /\ s \notin reserved'
                                  /\ s \notin S => tracked'[s] = tracked[s]
                                                   /\ (s \in reserved' <=> s \in reserved)
BY DEF Drop

LEMMA EffectiveEntries ==
    ASSUME MapTypeOK, NEW grace
    PROVE  /\ Effective(map, grace) \in [Windows -> MapEntries \cup {None}]
           /\ \A w \in Windows :
                 \/ Effective(map, grace)[w] = map[w]
                 \/ /\ map[w] # None /\ state[w] \in Sessions /\ state[w] # Sid(map[w])
                    /\ Effective(map, grace)[w] = Entry(state[w], FALSE)
<1> DEFINE now == Effective(map, grace)
<1>1. now = [w \in Windows |-> IF map[w] # None /\ Prefers(w, map[w].sid, grace)
                               THEN Entry(state[w], FALSE) ELSE map[w]]
    BY DEF Effective
<1>2. \A w \in Windows : map[w] # None => map[w] \in MapEntries /\ Sid(map[w]) = map[w].sid
    BY NoneIsNoEntry DEF MapTypeOK
<1>3. \A w \in Windows : Prefers(w, map[w].sid, grace) =>
          state[w] # None /\ state[w] # map[w].sid /\ state[w] \in Sessions
    BY DEF Prefers, MapTypeOK
<1>4. \A w \in Windows : map[w] \in MapEntries \cup {None}
    BY DEF MapTypeOK
<1>5. \A w \in Windows : state[w] \in Sessions => Entry(state[w], FALSE) \in MapEntries
    BY NoneIsNoEntry
<1>6. \A w \in Windows :
         \/ now[w] = map[w]
         \/ /\ map[w] # None /\ state[w] \in Sessions /\ state[w] # Sid(map[w])
            /\ now[w] = Entry(state[w], FALSE)
    BY <1>1, <1>2, <1>3
<1>7. now \in [Windows -> MapEntries \cup {None}]
    BY <1>1, <1>3, <1>4, <1>5
<1> QED
    BY <1>6, <1>7

LEMMA BootFits == ASSUME MapIInv, Boot PROVE MapIInv'
<1>1. /\ WorldKept /\ UNCHANGED <<map, moved, cur, check, state>>
      /\ stage' = "list"
    BY DEF Boot, WorldKept, world, hooks
<1>2. PICK grace \in SUBSET Sessions :
         LET now == Effective(map, grace)
         IN  \/ /\ Drop(Sessions \ Mapped(now))
                /\ last' = Sids(now)
                /\ Saves /\ UNCHANGED slips
             \/ /\ UNCHANGED <<vars, tracked, saved, fresh, reserved>>
                /\ last' \in {NoMap, Sids(now)}
                /\ Slip
    BY DEF Boot
<1> DEFINE now == Effective(map, grace)
<1>3. /\ tracked' \in [Sessions -> Starts] /\ saved' \in [Sessions -> Starts]
      /\ slips' \in Nat
      /\ \A s \in Sessions : /\ tracked'[s] \in {tracked[s], "no"}
                             /\ saved'[s] \in {saved[s], tracked'[s]}
                             /\ s \in reserved' => s \in reserved /\ tracked'[s] = tracked[s]
      /\ slips' = 0 => \A s \in Sessions : tracked'[s] # "no" => s \in Range(last')
    <2>1. CASE /\ Drop(Sessions \ Mapped(now))
               /\ last' = Sids(now)
               /\ Saves /\ UNCHANGED slips
        <3>1. \A s \in Sessions : s \in Mapped(now) => s \in Range(last')
            <4> SUFFICES ASSUME NEW s \in Sessions, NEW w \in Windows, s = Sid(now[w])
                         PROVE  s \in Range(last')
                BY DEF Mapped
            <4>1. last' = [v \in Windows |-> Sid(now[v])]
                BY <2>1 DEF Sids
            <4> HIDE DEF now
            <4> QED
                BY <4>1 DEF Range
        <3>2. saved' = tracked'
            BY <2>1 DEF Saves
        <3>3. /\ tracked' = [s \in Sessions |-> IF s \in Sessions \ Mapped(now) THEN "no"
                                                ELSE tracked[s]]
              /\ \A s \in Sessions :
                    /\ s \in Sessions \ Mapped(now) => tracked'[s] = "no" /\ s \notin reserved'
                    /\ s \notin Sessions \ Mapped(now) =>
                          tracked'[s] = tracked[s] /\ (s \in reserved' <=> s \in reserved)
            BY <2>1, Dropped
        <3> HIDE DEF now
        <3>4. tracked' \in [Sessions -> Starts]
            BY <3>3 DEF MapIInv, MapTypeOK, Starts
        <3>5. slips' = slips
            BY <2>1
        <3> QED
            BY <3>1, <3>2, <3>3, <3>4, <3>5 DEF MapIInv, MapTypeOK
    <2>2. CASE /\ UNCHANGED <<vars, tracked, saved, fresh, reserved>>
               /\ Slip
        <3>1. slips' = slips + 1
            BY <2>2 DEF Slip
        <3> QED
            BY <2>2, <3>1 DEF MapIInv, MapTypeOK
    <2> QED
        BY <1>2, <2>1, <2>2
<1>4. Forgets
    BY <1>1, <1>3 DEF Forgets
<1>5. MapTypeOK'
    BY <1>1, <1>3 DEF MapIInv, MapTypeOK
<1>6. MarkersRead'
    BY <1>1, <1>3 DEF MapIInv, MapTypeOK, MarkersRead
<1>7. Reconciled'
    <2>1. pc' = "read"
        BY <1>2 DEF Boot, Saves, SaveElsewhere, vars
    <2>2. DOMAIN last' = Windows
        BY <1>2 DEF Sids, NoMap
    <2> QED
        BY <1>1, <1>3, <2>1, <2>2 DEF Reconciled
<1> QED
    BY <1>1, <1>4, <1>5, <1>6, <1>7, ForgetsKeeps, WorldKeptFits DEF MapIInv

\* The steps of a cycle that leave the sessions where they are.
LEMMA PlainFit ==
    ASSUME MapIInv, \/ ListWindows \/ MonitorReads \/ MonitorDispatches \/ MonitorDispatched
                    \/ ReadMapFails \/ MonitorCycleEnds
    PROVE  MapIInv'
<1>1. WorldKept /\ UNCHANGED <<map, moved, tracked, reserved, check, last>>
    BY DEF ListWindows, MonitorReads, MonitorDispatches, MonitorDispatched, ReadMapFails,
           MonitorCycleEnds, WorldKept, world, hooks, sessions, monitor
<1>2. /\ saved' = saved \/ saved' = tracked
      /\ slips' = slips \/ slips' = slips + 1
    BY DEF ListWindows, MonitorReads, MonitorDispatches, MonitorDispatched, ReadMapFails,
           MonitorCycleEnds, sessions, Slip
<1>3. /\ stage' = "check" => stage = "check" /\ cur' = cur
      /\ stage = "boot" => stage' = "boot"
      /\ pc' = "dispatch" => stage' = "events"
    BY DEF ListWindows, MonitorReads, MonitorDispatches, MonitorDispatched, ReadMapFails,
           MonitorCycleEnds, monitor, MapIInv, Reconciled, vars, ReadEvents, Dispatch,
           DispatchDone, CycleEnds
<1>4. /\ state' = state \/ \E w : state' = [state EXCEPT ![w] = None]
      /\ cur' = cur \/ (cur' = NoMap /\ check = {})
    BY DEF ListWindows, MonitorReads, MonitorDispatches, MonitorDispatched, ReadMapFails,
           MonitorCycleEnds, sessions, monitor
<1>5. /\ state' \in [Windows -> Sessions \cup {None}]
      /\ \A w \in Windows : state'[w] \in {state[w], None}
    BY <1>4 DEF MapIInv, MapTypeOK
<1>6. /\ cur' \in [Windows -> MapEntries \cup {None}]
      /\ \A w \in Windows : cur'[w] \in {cur[w], None}
      /\ \A w \in check : cur'[w] = cur[w]
    BY <1>4 DEF MapIInv, MapTypeOK, NoMap
<1>7. Forgets
    BY <1>1, <1>2, <1>5, <1>6 DEF Forgets
<1>8. MapTypeOK'
    BY <1>1, <1>2, <1>5, <1>6 DEF MapIInv, MapTypeOK
<1>9. MarkersRead'
    BY <1>1, <1>6 DEF MapIInv, MarkersRead
<1>10. Reconciled'
    <2>1. slips' = 0 => slips = 0
        BY <1>2 DEF MapIInv, MapTypeOK
    <2> QED
        BY <1>1, <1>3, <2>1 DEF MapIInv, Reconciled
<1> QED
    BY <1>7, <1>8, <1>9, <1>10, ForgetsKeeps, WorldKeptFits DEF MapIInv, Forgets

LEMMA RestartFits == ASSUME MapIInv, MonitorRestarts PROVE MapIInv'
<1>1. /\ WorldKept /\ UNCHANGED <<map, moved, saved, reserved, slips>>
      /\ stage' = "boot" /\ cur' = NoMap /\ check' = {} /\ tracked' = saved
      /\ state' = state \/ state' = NoMap
      /\ pc' = "read" /\ last' = NoMap
    BY DEF MonitorRestarts, Restart, WorldKept, world, hooks
<1>2. /\ state' \in [Windows -> Sessions \cup {None}]
      /\ cur' \in [Windows -> MapEntries \cup {None}]
      /\ \A w \in Windows : state'[w] \in {state[w], None} /\ cur'[w] = None
    BY <1>1 DEF MapIInv, MapTypeOK, NoMap
<1>3. Forgets
    BY <1>1, <1>2 DEF Forgets
<1>4. MapTypeOK'
    BY <1>1, <1>2 DEF MapIInv, MapTypeOK
<1>5. MarkersRead' /\ Reconciled'
    BY <1>1 DEF MarkersRead, Reconciled, NoMap
<1> QED
    BY <1>3, <1>4, <1>5, ForgetsKeeps, WorldKeptFits DEF MapIInv, Forgets

\* What the map, the states and the snapshot of a cycle become.
LEMMA SyncEntries ==
    ASSUME MapTypeOK, NEW grace, NEW live,
           state' = [w \in Windows |-> IF Effective(map, grace)[w] = None THEN state[w]
                                       ELSE Effective(map, grace)[w].sid],
           map' = Pruned(map, live), cur' = Pruned(Effective(map, grace), live)
    PROVE  /\ state' \in [Windows -> Sessions \cup {None}]
           /\ map' \in [Windows -> MapEntries \cup {None}]
           /\ cur' \in [Windows -> MapEntries \cup {None}]
           /\ \A w \in Windows :
                /\ map'[w] \in {map[w], None}
                /\ \/ Sid(cur'[w]) = None /\ cur'[w] = None
                   \/ cur'[w] = map[w]
                   \/ /\ state[w] \in Sessions /\ state[w] # Sid(map[w])
                      /\ cur'[w] = Entry(state[w], FALSE)
                /\ state'[w] \in {state[w], Sid(map[w])}
                /\ cur'[w] # None => Sid(cur'[w]) = Sid(Effective(map, grace)[w])
<1> DEFINE now == Effective(map, grace)
<1>1. /\ now \in [Windows -> MapEntries \cup {None}]
      /\ \A w \in Windows :
            \/ now[w] = map[w]
            \/ /\ map[w] # None /\ state[w] \in Sessions /\ state[w] # Sid(map[w])
               /\ now[w] = Entry(state[w], FALSE)
    BY EffectiveEntries
<1>2. state' = [w \in Windows |-> IF now[w] = None THEN state[w] ELSE now[w].sid]
    OBVIOUS
<1>3. map' = Pruned(map, live) /\ cur' = Pruned(now, live)
    OBVIOUS
<1> HIDE DEF now
<1>4. /\ map' \in [Windows -> MapEntries \cup {None}]
      /\ cur' \in [Windows -> MapEntries \cup {None}]
      /\ \A w \in Windows : map'[w] \in {map[w], None} /\ cur'[w] \in {now[w], None}
    <2>1. CASE live = None
        BY <1>1, <1>3, <2>1 DEF Pruned, MapTypeOK
    <2>2. CASE live # None
        <3>1. /\ map' = [w \in Windows |-> IF w \in live THEN map[w] ELSE None]
              /\ cur' = [w \in Windows |-> IF w \in live THEN now[w] ELSE None]
            BY <1>3, <2>2 DEF Pruned
        <3> QED
            BY <1>1, <3>1 DEF MapTypeOK
    <2> QED
        BY <2>1, <2>2
<1>5. \A w \in Windows : now[w] # None => now[w].sid = Sid(now[w]) /\ now[w].sid \in Sessions
    BY <1>1, NoneIsNoEntry
<1>6. state' \in [Windows -> Sessions \cup {None}]
    BY <1>2, <1>5 DEF MapTypeOK
<1>7. ASSUME NEW w \in Windows
      PROVE  /\ state'[w] \in {state[w], Sid(map[w])}
             /\ \/ Sid(cur'[w]) = None /\ cur'[w] = None
                \/ cur'[w] = map[w]
                \/ /\ state[w] \in Sessions /\ state[w] # Sid(map[w])
                   /\ cur'[w] = Entry(state[w], FALSE)
             /\ cur'[w] # None => Sid(cur'[w]) = Sid(now[w])
    <2>1. state'[w] = IF now[w] = None THEN state[w] ELSE Sid(now[w])
        BY <1>2, <1>5
    <2>2. CASE now[w] = map[w]
        BY <1>4, <2>1, <2>2, NoneIsNoEntry
    <2>3. CASE /\ map[w] # None /\ state[w] \in Sessions /\ state[w] # Sid(map[w])
               /\ now[w] = Entry(state[w], FALSE)
        <3>1. Sid(now[w]) = state[w]
            BY <2>3, NoneIsNoEntry
        <3>2. cur'[w] = now[w] \/ (cur'[w] = None /\ Sid(cur'[w]) = None)
            BY <1>4, NoneIsNoEntry
        <3> QED
            BY <2>1, <2>3, <3>1, <3>2
    <2> QED
        BY <1>1, <2>2, <2>3
<1> QED
    BY <1>4, <1>6, <1>7 DEF now

LEMMA SyncFits == ASSUME MapIInv, SyncMap PROVE MapIInv'
<1> PICK grace \in SUBSET Sessions :
        LET now == Effective(map, grace)
        IN  /\ stage = "map"
            /\ state' = [w \in Windows |-> IF now[w] = None THEN state[w] ELSE now[w].sid]
            /\ last' = Sids(now)
            /\ Drop(Removed(now))
            /\ IF Removed(now) = {} THEN UNCHANGED <<vars, saved, slips>>
                                    ELSE (Saves /\ UNCHANGED slips) \/ SaveFails
            /\ map' = Pruned(map, listing)
            /\ cur' = Pruned(now, listing)
            /\ check' = {w \in Windows : cur'[w] # None}
            /\ listing' = None
            /\ stage' = "check"
            /\ UNCHANGED <<world, hooks>>
    BY DEF SyncMap
<1> DEFINE now == Effective(map, grace)
<1>1. WorldKept /\ moved' = moved /\ stage' = "check" /\ stage = "map"
    BY DEF WorldKept, world, hooks
<1>2. /\ state' \in [Windows -> Sessions \cup {None}]
      /\ map' \in [Windows -> MapEntries \cup {None}]
      /\ cur' \in [Windows -> MapEntries \cup {None}]
      /\ \A w \in Windows :
            /\ map'[w] \in {map[w], None}
            /\ \/ Sid(cur'[w]) = None /\ cur'[w] = None
               \/ cur'[w] = map[w]
               \/ /\ state[w] \in Sessions /\ state[w] # Sid(map[w])
                  /\ cur'[w] = Entry(state[w], FALSE)
            /\ state'[w] \in {state[w], Sid(map[w])}
            /\ cur'[w] # None => Sid(cur'[w]) = Sid(now[w])
    BY SyncEntries DEF MapIInv
<1>3. /\ tracked' = [s \in Sessions |-> IF s \in Removed(now) THEN "no" ELSE tracked[s]]
      /\ \A s \in Sessions :
            /\ s \in Removed(now) => tracked'[s] = "no" /\ s \notin reserved'
            /\ s \notin Removed(now) => tracked'[s] = tracked[s]
                                        /\ (s \in reserved' <=> s \in reserved)
    BY Dropped
<1>4. /\ saved' = saved \/ saved' = tracked'
      /\ slips' = slips \/ slips' = slips + 1
      /\ pc' = pc
    BY DEF Saves, SaveFails, SaveElsewhere, Slip, vars
<1>5. last' = [w \in Windows |-> Sid(now[w])]
    BY DEF Sids
<1>6. check' = {w \in Windows : cur'[w] # None}
    OBVIOUS
<1>7. \A s \in Sessions : s \notin Removed(now) /\ s \in Range(last) => s \in Range(last')
    <2>4. DOMAIN last = Windows
        BY DEF MapIInv, Reconciled
    <2>1. Removed(now) = {last[w] : w \in {v \in Windows : last[v] \notin {None, Sid(now[v])}}}
        BY DEF Removed
    <2> SUFFICES ASSUME NEW s \in Sessions, s \notin Removed(now), NEW v \in Windows, s = last[v]
                 PROVE  s \in Range(last')
        BY <2>4 DEF Range
    <2>2. s # None
        BY NoneIsNoEntry
    <2>3. s = Sid(now[v])
        BY <2>1, <2>2
    <2> HIDE DEF now
    <2> QED
        BY <1>5, <2>3 DEF Range
<1> HIDE DEF now
<1>8. MapTypeOK'
    <2>1. tracked' \in [Sessions -> Starts]
        BY <1>3 DEF MapIInv, MapTypeOK, Starts
    <2>2. saved' \in [Sessions -> Starts] /\ slips' \in Nat
        BY <1>4, <2>1 DEF MapIInv, MapTypeOK
    <2> QED
        BY <1>2, <1>6, <2>1, <2>2 DEF MapTypeOK
<1>9. \A s \in Sessions : /\ tracked'[s] # "eof" \/ tracked[s] = "eof"
                          /\ saved'[s] # "eof" \/ tracked[s] = "eof" \/ saved[s] = "eof"
                          /\ s \in reserved' => s \in reserved /\ tracked'[s] = tracked[s]
    BY <1>3, <1>4
<1>10. UnseenNowhere'
    <2> SUFFICES ASSUME NEW s \in Sessions, Unseen(s)
                 PROVE  Nowhere(s)' /\ s \notin ToSet(writers)
        BY <1>1, WorldKeptFits DEF UnseenNowhere
    <2>1. Nowhere(s) /\ s \notin ToSet(writers)
        BY DEF MapIInv, UnseenNowhere
    <2>2. ASSUME NEW w \in Windows PROVE Sid(map'[w]) # s /\ Sid(cur'[w]) # s /\ state'[w] # s
        <3>1. Sid(map[w]) # s /\ state[w] # s /\ s # None
            BY <2>1, NoneIsNoEntry DEF Nowhere
        <3>2. state[w] \in Sessions => Sid(Entry(state[w], FALSE)) = state[w]
            BY NoneIsNoEntry
        <3> QED
            BY <1>2, <3>1, <3>2, NoneIsNoEntry
    <2> QED
        BY <1>9, <2>1, <2>2 DEF Nowhere
<1>11. MarkersStand'
    <2> SUFFICES ASSUME NEW s \in Sessions \ moved, NEW w \in Windows, map'[w] = Entry(s, TRUE)
                 PROVE  Marked(s, w)'
        BY <1>1 DEF MarkersStand
    <2>1. map[w] = Entry(s, TRUE)
        <3>1. Entry(s, TRUE) # None
            BY NoneIsNoEntry
        <3> QED
            BY <1>2, <3>1
    <2>2. Marked(s, w)
        BY <2>1 DEF MapIInv, MarkersStand
    <2>3. ASSUME NEW v \in Windows \ {w}
          PROVE  Sid(map'[v]) # s /\ Sid(cur'[v]) # s /\ state'[v] # s
        <3>1. Sid(map[v]) # s /\ state[v] # s /\ s # None
            BY <2>2, NoneIsNoEntry DEF Marked
        <3>2. state[v] \in Sessions => Sid(Entry(state[v], FALSE)) = state[v]
            BY NoneIsNoEntry
        <3> QED
            BY <1>2, <3>1, <3>2, NoneIsNoEntry
    <2>4. cur'[w] # Entry(s, FALSE)
        <3>1. Sid(map[w]) = s /\ Entry(s, TRUE) # Entry(s, FALSE) /\ Entry(s, FALSE) # None
            <4>1. Entry(s, TRUE).replay /\ ~Entry(s, FALSE).replay
                BY DEF Entry
            <4> QED
                BY <2>1, <4>1, NoneIsNoEntry
        <3>2. state[w] \in Sessions => Sid(Entry(state[w], FALSE)) = state[w]
            BY NoneIsNoEntry
        <3>3. Sid(Entry(s, FALSE)) = s
            BY NoneIsNoEntry
        <3> QED
            BY <1>2, <2>1, <3>1, <3>2, <3>3
    <2> QED
        BY <1>9, <2>2, <2>3, <2>4 DEF Marked
<1>12. MarkersRead'
    <2> SUFFICES ASSUME NEW s \in Sessions \ moved, NEW w \in Windows, cur'[w] = Entry(s, TRUE)
                 PROVE  tracked'[s] # "eof"
        BY <1>1, <1>6 DEF MarkersRead
    <2>1. Entry(s, TRUE) # None /\ Entry(s, TRUE).replay
        BY NoneIsNoEntry DEF Entry
    <2>2. ~Entry(state[w], FALSE).replay
        BY DEF Entry
    <2>3. map[w] = Entry(s, TRUE)
        BY <1>2, <2>1, <2>2
    <2>4. tracked[s] # "eof"
        BY <2>3 DEF MapIInv, MarkersStand, Marked
    <2> QED
        BY <1>9, <2>4
<1>13. ReservedKept'
    BY <1>1, <1>4, <1>9 DEF MapIInv, ReservedKept
<1>14. Reconciled'
    <2>1. pc' # "dispatch"
        BY <1>1, <1>4 DEF MapIInv, Reconciled
    <2>2. ASSUME NEW w \in Windows, cur'[w] # None PROVE Sid(cur'[w]) \in Range(last')
        <3>1. Sid(cur'[w]) = last'[w] /\ w \in DOMAIN last'
            BY <1>2, <1>5, <2>2
        <3> QED
            BY <3>1 DEF Range
    <2>5. DOMAIN last' = Windows
        BY <1>5
    <2>3. slips' = 0 => slips = 0
        BY <1>4 DEF MapIInv, MapTypeOK
    <2>4. ASSUME slips' = 0, NEW s \in Sessions, tracked'[s] # "no" PROVE s \in Range(last')
        <3>1. s \notin Removed(now) /\ tracked[s] # "no"
            BY <1>3, <2>4
        <3>2. s \in Range(last)
            BY <1>1, <2>3, <2>4, <3>1 DEF MapIInv, Reconciled
        <3> QED
            BY <1>7, <3>1, <3>2
    <2> QED
        BY <1>1, <2>1, <2>2, <2>4, <2>5 DEF Reconciled
<1> QED
    BY <1>1, <1>8, <1>10, <1>11, <1>12, <1>13, <1>14, WorldKeptFits DEF MapIInv

\* The session of a window this cycle looks at.
LEMMA Checked ==
    ASSUME MapIInv, NEW w \in check
    PROVE  /\ w \in Windows /\ cur[w].sid \in Sessions /\ Sid(cur[w]) = cur[w].sid
           /\ cur[w] = Entry(cur[w].sid, cur[w].replay)
           /\ cur[w].replay \in BOOLEAN
<1>1. w \in Windows /\ cur[w] \in MapEntries
    BY DEF MapIInv, MapTypeOK
<1> QED
    BY <1>1, NoneIsNoEntry DEF MapEntries

LEMMA ReserveFits == ASSUME MapIInv, NEW w \in Windows, ReserveReplay(w) PROVE MapIInv'
<1> DEFINE s == cur[w].sid
<1>1. /\ WorldKept /\ moved' = moved /\ UNCHANGED <<cur, last, state>>
      /\ stage' = stage /\ stage = "check" /\ check' = check \ {w}
      /\ w \in check /\ cur[w].replay
      /\ tracked' = [tracked EXCEPT ![s] = IF tracked[s] = "no" THEN "zero" ELSE tracked[s]]
    BY DEF ReserveReplay, WorldKept, world, hooks
<1>2. /\ saved' = saved \/ saved' = tracked'
      /\ slips' = slips \/ slips' = slips + 1
      /\ pc' = pc
      /\ \/ map' = map /\ reserved' = reserved
         \/ /\ saved' = tracked' /\ Sid(map[w]) = s
            /\ map' = [map EXCEPT ![w].replay = FALSE] /\ reserved' = reserved \cup {s}
    BY DEF ReserveReplay, Saves, SaveFails, SaveElsewhere, Slip, Acknowledge, vars
<1>3. s \in Sessions /\ Sid(cur[w]) = s /\ cur[w] = Entry(s, TRUE)
    BY <1>1, Checked
<1>4. (s \in moved \/ tracked[s] # "eof") /\ tracked[s] \in Starts
    BY <1>1, <1>3 DEF MapIInv, MarkersRead, MapTypeOK
<1> HIDE DEF s
<1>5. /\ tracked' \in [Sessions -> Starts]
      /\ \A r \in Sessions : r # s => tracked'[r] = tracked[r]
      /\ tracked'[s] = IF tracked[s] = "no" THEN "zero" ELSE tracked[s]
    BY <1>1, <1>3 DEF MapIInv, MapTypeOK, Starts
<1>6. /\ map' \in [Windows -> MapEntries \cup {None}]
      /\ \A v \in Windows : \/ map'[v] = map[v]
                            \/ map'[v] = Entry(s, FALSE) /\ Sid(map[v]) = s
    <2>1. CASE map' = map
        BY <2>1 DEF MapIInv, MapTypeOK
    <2>2. CASE Sid(map[w]) = s /\ map' = [map EXCEPT ![w].replay = FALSE]
        <3>1. map[w] \in MapEntries
            BY <1>3, <2>2, NoneIsNoEntry DEF MapIInv, MapTypeOK
        <3>2. map[w].sid = s
            BY <2>2, <3>1, NoneIsNoEntry
        <3>3. [map[w] EXCEPT !.replay = FALSE] = Entry(s, FALSE)
            <4> DEFINE e == [map[w] EXCEPT !.replay = FALSE]
            <4>1. e \in MapEntries /\ e.sid = s /\ e.replay = FALSE
                BY <3>1, <3>2 DEF MapEntries
            <4> HIDE DEF e
            <4>2. e = Entry(e.sid, e.replay)
                BY <4>1, NoneIsNoEntry
            <4>3. e = Entry(s, FALSE)
                BY <4>1, <4>2
            <4> QED
                BY <4>3 DEF e
        <3>4. map' = [map EXCEPT ![w] = Entry(s, FALSE)]
            BY <2>2, <3>3
        <3>5. Entry(s, FALSE) \in MapEntries
            BY <1>3, NoneIsNoEntry
        <3> QED
            BY <2>2, <3>4, <3>5 DEF MapIInv, MapTypeOK
    <2> QED
        BY <1>2, <2>1, <2>2
<1>7. MapTypeOK'
    BY <1>1, <1>2, <1>5, <1>6 DEF MapIInv, MapTypeOK
<1>8. \A v \in Windows : Sid(map'[v]) = Sid(map[v])
    <2>1. Sid(Entry(s, FALSE)) = s
        BY <1>3, NoneIsNoEntry
    <2> QED
        BY <1>6, <2>1
<1>9. \A r \in Sessions : /\ tracked[r] # "eof" => tracked'[r] # "eof"
                          /\ tracked[r] # "eof" /\ saved[r] # "eof" => saved'[r] # "eof"
                          /\ r # s => (r \in reserved' <=> r \in reserved)
    BY <1>2, <1>5
<1>10. UnseenNowhere'
    <2> SUFFICES ASSUME NEW r \in Sessions, Unseen(r)
                 PROVE  Nowhere(r)' /\ r \notin ToSet(writers)
        BY <1>1, WorldKeptFits DEF UnseenNowhere
    <2>1. Nowhere(r) /\ r \notin ToSet(writers)
        BY DEF MapIInv, UnseenNowhere
    <2>2. r # s
        BY <1>3, <2>1 DEF Nowhere
    <2> QED
        BY <1>1, <1>8, <1>9, <2>1, <2>2 DEF Nowhere
<1>11. MarkersStand'
    <2> SUFFICES ASSUME NEW r \in Sessions \ moved, NEW v \in Windows, map'[v] = Entry(r, TRUE)
                 PROVE  Marked(r, v)'
        BY <1>1 DEF MarkersStand
    <2>1. map[v] = Entry(r, TRUE)
        <3>1. Entry(r, TRUE).replay /\ ~Entry(s, FALSE).replay
            BY DEF Entry
        <3> QED
            BY <1>6, <3>1
    <2>2. Marked(r, v)
        BY <2>1 DEF MapIInv, MarkersStand
    <2> QED
        BY <1>1, <1>8, <1>9, <2>2 DEF Marked
<1>12. MarkersRead'
    BY <1>1, <1>9 DEF MapIInv, MarkersRead
<1>13. ReservedKept'
    <2> SUFFICES ASSUME NEW r \in Sessions \ moved, r \in reserved'
                 PROVE  tracked'[r] = "zero" /\ saved'[r] = "zero"
        BY <1>1 DEF ReservedKept
    <2>1. CASE r \in reserved
        <3>1. tracked[r] = "zero" /\ saved[r] = "zero"
            BY <2>1 DEF MapIInv, ReservedKept
        <3>2. tracked'[r] = "zero"
            BY <1>5, <3>1
        <3> QED
            BY <1>2, <3>1, <3>2
    <2>2. CASE r \notin reserved
        <3>1. r = s /\ saved' = tracked'
            BY <1>2, <2>2
        <3>2. tracked[s] \in {"no", "zero"}
            BY <1>4, <3>1 DEF Starts
        <3> QED
            BY <1>5, <3>1, <3>2
    <2> QED
        BY <2>1, <2>2
<1>14. Reconciled'
    <2>1. slips' = 0 => slips = 0
        BY <1>2 DEF MapIInv, MapTypeOK
    <2>2. s \in Range(last)
        <3>1. cur[w] # None
            BY <1>3, NoneIsNoEntry
        <3> QED
            BY <1>1, <1>3, <3>1 DEF MapIInv, Reconciled
    <2>3. ASSUME slips' = 0, NEW r \in Sessions, tracked'[r] # "no" PROVE r \in Range(last)
        BY <1>1, <1>5, <2>1, <2>2, <2>3 DEF MapIInv, Reconciled
    <2> QED
        BY <1>1, <1>2, <2>3 DEF MapIInv, Reconciled
<1> QED
    BY <1>1, <1>7, <1>10, <1>11, <1>12, <1>13, <1>14, WorldKeptFits DEF MapIInv

LEMMA TrackFits == ASSUME MapIInv, NEW w \in Windows, TrackSession(w) PROVE MapIInv'
<1> DEFINE s == cur[w].sid
<1>1. /\ WorldKept /\ UNCHANGED <<pc, map, moved, cur, last, stage, state, saved, reserved, slips>>
      /\ stage = "check" /\ check' = check \ {w} /\ w \in check
      /\ \A v \in check : ~cur[v].replay
    BY DEF TrackSession, WorldKept, world, hooks, vars
<1>2. \/ tracked' = tracked
      \/ tracked[s] = "no" /\ \E x \in {"zero", "eof"} : tracked' = [tracked EXCEPT ![s] = x]
    BY DEF TrackSession
<1>3. s \in Sessions /\ Sid(cur[w]) = s /\ cur[w] = Entry(s, FALSE)
    BY <1>1, Checked
<1> HIDE DEF s
<1>4. /\ tracked' \in [Sessions -> Starts]
      /\ \A r \in Sessions : r # s => tracked'[r] = tracked[r]
      /\ tracked'[s] = tracked[s] \/ tracked[s] = "no"
    BY <1>2, <1>3 DEF MapIInv, MapTypeOK, Starts
<1>5. MapTypeOK'
    BY <1>1, <1>4 DEF MapIInv, MapTypeOK
<1>6. UnseenNowhere'
    <2> SUFFICES ASSUME NEW r \in Sessions, Unseen(r)
                 PROVE  Nowhere(r)' /\ r \notin ToSet(writers)
        BY <1>1, WorldKeptFits DEF UnseenNowhere
    <2>1. Nowhere(r) /\ r \notin ToSet(writers)
        BY DEF MapIInv, UnseenNowhere
    <2>2. r # s
        BY <1>3, <2>1 DEF Nowhere
    <2> QED
        BY <1>1, <1>4, <2>1, <2>2 DEF Nowhere
<1>7. MarkersStand'
    <2> SUFFICES ASSUME NEW r \in Sessions \ moved, NEW v \in Windows, map[v] = Entry(r, TRUE)
                 PROVE  Marked(r, v)'
        BY <1>1 DEF MarkersStand
    <2>1. Marked(r, v)
        BY DEF MapIInv, MarkersStand
    <2>2. r # s
        BY <1>3, <2>1 DEF Marked
    <2> QED
        BY <1>1, <1>4, <2>1, <2>2 DEF Marked
<1>8. MarkersRead'
    <2> SUFFICES ASSUME NEW r \in Sessions, NEW v \in check, cur[v] = Entry(r, TRUE) PROVE FALSE
        BY <1>1 DEF MarkersRead
    <2>1. Entry(r, TRUE).replay
        BY DEF Entry
    <2> QED
        BY <1>1, <2>1
<1>9. ReservedKept'
    BY <1>1, <1>4 DEF MapIInv, ReservedKept
<1>10. Reconciled'
    <2>1. s \in Range(last)
        <3>1. cur[w] # None
            BY <1>3, NoneIsNoEntry
        <3> QED
            BY <1>1, <1>3, <3>1 DEF MapIInv, Reconciled
    <2> QED
        BY <1>1, <1>4, <2>1 DEF MapIInv, Reconciled
<1> QED
    BY <1>1, <1>5, <1>6, <1>7, <1>8, <1>9, <1>10, WorldKeptFits DEF MapIInv

LEMMA MapStutterFits == ASSUME MapIInv, UNCHANGED mapVars PROVE MapIInv'
<1>1. WorldOnly /\ WorldKept
    BY DEF mapVars, vars, world, hooks, monitor, sessions, WorldOnly, WorldKept
<1> QED
    BY <1>1, WorldKeptFits, WorldOnlyKeeps DEF WorldFits, MapIInv, UnseenNowhere

LEMMA MapStepIInv == ASSUME MapIInv, [MapNext]_mapVars PROVE MapIInv'
<1>1. CASE \E w \in Windows : WindowAppears(w) \/ WindowDies(w) \/ AgentActs(w) \/ AgentExits(w)
                               \/ SessionEnds(w)
    BY <1>1, PanesFit, ActsFit
<1>2. CASE \E w \in Windows, s \in Sessions : AgentStarts(w, s) \/ NestedStarts(w, s)
    BY <1>2, StartFits
<1>3. CASE \E s \in Sessions : Writes(s) \/ HookStep(s)
    BY <1>3, WritesFit, LooksFit, HookMapFits, EventFits DEF HookStep
<1>4. CASE Cycle
    BY <1>4, BootFits, PlainFit, SyncFits, ReserveFits, TrackFits DEF Cycle
<1>5. CASE MonitorRestarts
    BY <1>5, RestartFits
<1>6. CASE UNCHANGED mapVars
    BY <1>6, MapStutterFits
<1> QED
    BY <1>1, <1>2, <1>3, <1>4, <1>5, <1>6 DEF MapNext

\* What the map, the snapshot of a cycle, the window states and both records of
\* the tracked sessions say of each other holds for any number of windows,
\* sessions, hooks, restarts and failures.
THEOREM MapInvariant == MapSpec => []MapIInv
<1>1. MapInit => MapIInv
    BY InitMapIInv
<1>2. MapIInv /\ [MapNext]_mapVars => MapIInv'
    BY MapStepIInv
<1> QED
    BY <1>1, <1>2, PTL DEF MapSpec

\* A session whose start left a replay marker is read from its first line, unless
\* it was mapped to a second window before the marker was consumed
\* (_reserve_replay_start, check_for_updates).
THEOREM OpeningIsKept == MapSpec => []OpeningKept
<1>1. MapIInv => OpeningKept
    BY DEF MapIInv, MarkersStand, Marked, ReservedKept, OpeningKept
<1> QED
    BY <1>1, MapInvariant, PTL

\* Unless a read, a write or a lock failed, whatever is tracked at the end of a
\* cycle belongs to a window of the map that cycle reconciled.
THEOREM NothingIsLeftTracked == MapSpec => []NothingLeftTracked
<1>1. MapIInv => NothingLeftTracked
    BY DEF MapIInv, Reconciled, NothingLeftTracked
<1> QED
    BY <1>1, MapInvariant, PTL
=============================================================================
