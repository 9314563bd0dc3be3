----------------------------- MODULE HookEvents -----------------------------
(***************************************************************************)
(* The hook event log, events.jsonl, and the monitor's incremental reader. *)
(* Hook processes append events; once per cycle the monitor reads what is  *)
(* new, moves its offset, and then dispatches the events one at a time,    *)
(* awaiting each handler.  The offset becomes durable with the monitor     *)
(* state, whenever any coroutine of the process saves it.                  *)
(*                                                                         *)
(* Events are numbered as they are written; offset n is the byte after the *)
(* n-th line of the current file.                                          *)
(***************************************************************************)
EXTENDS Integers, Sequences

CONSTANTS
    MaxEvents,       \* bound: events the hooks write
    MaxTruncations,  \* bound: times someone empties the log
    MaxRestarts      \* bound: process ends

ASSUME HookEventsAssumption ==
    /\ MaxEvents \in Nat
    /\ MaxTruncations \in Nat
    /\ MaxRestarts \in Nat

VARIABLES
    log,        \* events in the file
    written,    \* events written so far
    offset,     \* MonitorState.events_offset
    disk,       \* events_offset in monitor_state.json
    dirty,      \* MonitorState._dirty
    pc,         \* "read", "dispatch" or "rest" of a cycle; "stopped"
    todo,       \* events read and not dispatched
    ran,        \* events whose dispatch path ran, in order (history)
    lossless,   \* no process ended with an offset it had not saved (history)
    truncations, restarts

vars == <<log, written, offset, disk, dirty, pc, todo, ran, lossless, truncations,
          restarts>>

\* Every part of a monitor cycle waits somewhere, where another coroutine may run.
AtAwait == pc # "stopped"

\* hook._write_event
WriteEvent ==
    /\ written < MaxEvents
    /\ written' = written + 1
    /\ log' = Append(log, written + 1)
    /\ UNCHANGED <<offset, disk, dirty, pc, todo, ran, lossless, truncations, restarts>>

\* The file is emptied from outside.
Truncate ==
    /\ truncations < MaxTruncations
    /\ truncations' = truncations + 1
    /\ log' = <<>>
    /\ UNCHANGED <<written, offset, disk, dirty, pc, todo, ran, lossless, restarts>>

\* Mutant: an offset at the end of the file also counts as truncation.
ReadStartAtEnd == IF offset >= Len(log) THEN 0 ELSE offset

\* read_new_events: an offset beyond the file means it was truncated.
ReadStart == IF offset > Len(log) THEN 0 ELSE offset

\* The read half of _read_hook_events: the offset moves past every event read,
\* possibly not all of them when the file fails under the reader.
ReadEvents ==
    /\ pc = "read"
    /\ pc' = "dispatch"
    /\ \E hi \in ReadStart..Len(log) :
          /\ todo' = SubSeq(log, ReadStart + 1, hi)
          /\ dirty' = (dirty \/ hi # offset)
          /\ offset' = hi
    /\ UNCHANGED <<log, written, disk, ran, lossless, truncations, restarts>>

\* One round of its loop: filtered by identity, handled, or the handler raised;
\* the loop goes on in each case.
Dispatch ==
    /\ pc = "dispatch"
    /\ todo # <<>>
    /\ ran' = Append(ran, Head(todo))
    /\ todo' = Tail(todo)
    /\ UNCHANGED <<log, written, offset, disk, dirty, pc, lossless, truncations, restarts>>

DispatchDone ==
    /\ pc = "dispatch"
    /\ todo = <<>>
    /\ pc' = "rest"
    /\ UNCHANGED <<log, written, offset, disk, dirty, todo, ran, lossless, truncations,
                   restarts>>

\* MonitorState.save_if_dirty; a failed write leaves the state dirty.
SaveIfDirty ==
    \/ /\ dirty
       /\ disk' = offset
       /\ dirty' = FALSE
    \/ UNCHANGED <<disk, dirty>>

\* The rest of the cycle saves the state, unless an error ends it earlier.
CycleEnds ==
    /\ pc = "rest"
    /\ pc' = "read"
    /\ SaveIfDirty
    /\ UNCHANGED <<log, written, offset, todo, ran, lossless, truncations, restarts>>

\* A user's skip request saves the same state while the monitor waits.
SaveElsewhere ==
    /\ AtAwait
    /\ SaveIfDirty
    /\ UNCHANGED <<log, written, offset, pc, todo, ran, lossless, truncations, restarts>>

\* SessionMonitor.stop: the loop is cancelled where it waits, the state saved.
Stop ==
    /\ AtAwait
    /\ pc' = "stopped"
    /\ todo' = <<>>
    /\ \/ disk' = offset /\ dirty' = FALSE
       \/ UNCHANGED <<disk, dirty>>
    /\ UNCHANGED <<log, written, offset, ran, lossless, truncations, restarts>>

\* The process ends, stopped or killed at any point, and starts again.
Restart ==
    /\ restarts < MaxRestarts
    /\ restarts' = restarts + 1
    /\ lossless' = (lossless /\ disk = offset)
    /\ offset' = disk
    /\ dirty' = FALSE
    /\ todo' = <<>>
    /\ pc' = "read"
    /\ UNCHANGED <<log, written, disk, ran, truncations>>

Init ==
    /\ log = <<>>
    /\ written = 0
    /\ offset = 0
    /\ disk = 0
    /\ dirty = FALSE
    /\ pc = "read"
    /\ todo = <<>>
    /\ ran = <<>>
    /\ lossless = TRUE
    /\ truncations = 0
    /\ restarts = 0

Next ==
    \/ WriteEvent \/ Truncate
    \/ ReadEvents \/ Dispatch \/ DispatchDone \/ CycleEnds
    \/ SaveElsewhere
    \/ Stop \/ Restart

Spec == Init /\ [][Next]_vars
-----------------------------------------------------------------------------
\* Every variable has its type.
TypeOK ==
    /\ log \in Seq(1..MaxEvents)
    /\ written \in 0..MaxEvents
    /\ offset \in 0..MaxEvents
    /\ disk \in 0..MaxEvents
    /\ dirty \in BOOLEAN
    /\ pc \in {"read", "dispatch", "rest", "stopped"}
    /\ todo \in Seq(1..MaxEvents)
    /\ ran \in Seq(1..MaxEvents)
    /\ lossless \in BOOLEAN
    /\ truncations \in Nat
    /\ restarts \in Nat

\* Events are dispatched in the order the hooks wrote them and none of them
\* twice, across truncations of the log and restarts, unless a process ended
\* with an offset it had not saved (read_new_events, _read_hook_events).
InOrderAtMostOnce ==
    lossless => \A i, j \in 1..Len(ran) : i < j => ran[i] < ran[j]
=============================================================================
