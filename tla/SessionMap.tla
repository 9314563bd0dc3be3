----------------------------- MODULE SessionMap -----------------------------
(***************************************************************************)
(* Which session a window runs, from the hook to the monitor.  A hook      *)
(* process writes its session into session_map.json under a file lock and  *)
(* then appends its event to the log of HookEvents.  Once per cycle the    *)
(* monitor lists the windows, dispatches the events, takes a snapshot of   *)
(* the map, brings its window states and tracked sessions up to date,      *)
(* prunes the map, and looks at the transcript of each window's session.   *)
(* monitor_state.json holds the events offset of HookEvents and the        *)
(* tracked sessions together, so both become durable in the same save.     *)
(*                                                                         *)
(* Every window is bound to a topic, the provider is Claude on a backend   *)
(* whose map is pruned, and a session has one transcript.  Under the lock  *)
(* a read and the write that follows it are one step.                      *)
(***************************************************************************)
EXTENDS HookEvents, SequencesExt, FiniteSets

CONSTANTS Windows, Sessions, None,
          MaxHooks,   \* bound: hook processes, but for those of SessionEnd
          MaxEnds,    \* bound: those of SessionEnd
          MaxNested,  \* bound: agents started inside another one's window
          MaxSlips    \* bound: lock timeouts, and reads or writes that fail

ASSUME SessionMapAssumption ==
    /\ None \notin Windows \cup Sessions \cup [sid : Sessions, replay : BOOLEAN]
    /\ Sessions \cap {"absent", "shell", "gone"} = {}
    /\ MaxHooks \in Nat /\ MaxEnds \in Nat
    /\ MaxHooks + MaxEnds <= MaxEvents
    /\ MaxNested \in Nat /\ MaxSlips \in Nat

VARIABLES
    pane,       \* each window: "absent", "shell", its session, or "gone"
    nested,     \* sessions that run inside another one's window
    born,       \* sessions that ever started
    owed,       \* windows whose replaced session has not reported its end
    writers,    \* sessions by the time of the last write to their transcripts
    hook,       \* the hook process of each session
    fired,      \* hook processes so far, but for those of SessionEnd
    what,       \* what each event of the log says
    moved,      \* sessions mapped to a second window under their marker (history)
    map,        \* session_map.json
    stage,      \* where the monitor is in its cycle
    listing,    \* live windows this cycle found, None when that is unknown
    cur,        \* the map as this cycle understands it
    last,       \* SessionLifecycle._last_session_map
    check,      \* windows whose transcripts this cycle still has to look at
    state,      \* session_id of each window state
    tracked,    \* where the monitor began to read each session
    saved,      \* the same in monitor_state.json
    fresh,      \* TranscriptReader._fresh_sessions
    reserved,   \* sessions whose replay marker was consumed (history)
    slips

world    == <<pane, nested, born, owed, writers>>
hooks    == <<hook, fired, what, moved>>
monitor  == <<stage, listing, cur, last, check>>
sessions == <<state, tracked, saved, fresh, reserved>>
mapVars  == <<vars, world, hooks, map, monitor, sessions, slips>>

NoHook == [pc |-> "idle", win |-> None, replay |-> FALSE, fresh |-> FALSE]
NoMap  == [w \in Windows |-> None]

\* An entry of the map
Entry(s, replay) == [sid |-> s, replay |-> replay]
Sid(entry)       == IF entry = None THEN None ELSE entry.sid

MapInit ==
    /\ Init
    /\ pane = [w \in Windows |-> "absent"]
    /\ nested = {} /\ born = {} /\ owed = {} /\ writers = <<>>
    /\ hook = [s \in Sessions |-> NoHook]
    /\ fired = 0
    /\ what = [n \in 1 .. MaxEvents |-> <<"act">>]
    /\ moved = {}
    /\ map = NoMap
    /\ stage = "boot"
    /\ listing = None
    /\ cur = NoMap /\ last = NoMap
    /\ check = {}
    /\ state = NoMap
    /\ tracked = [s \in Sessions |-> "no"] /\ saved = tracked
    /\ fresh = {} /\ reserved = {}
    /\ slips = 0

Slip == slips < MaxSlips /\ slips' = slips + 1

-----------------------------------------------------------------------------
(* Windows and the agents in them.                                         *)

WindowAppears(w) ==
    /\ pane[w] = "absent"
    /\ pane' = [pane EXCEPT ![w] = "shell"]
    /\ UNCHANGED <<vars, nested, born, owed, writers, hooks, map, monitor,
                   sessions, slips>>

\* The agent dies with its window; no hook runs.
WindowDies(w) ==
    /\ pane[w] \in Sessions \cup {"shell"}
    /\ pane' = [pane EXCEPT ![w] = "gone"]
    /\ UNCHANGED <<vars, nested, born, owed, writers, hooks, map, monitor,
                   sessions, slips>>

Running(s) == \E w \in Windows : pane[w] = s

\* An agent waits for its hook.
Ready(s) == s \in Sessions => hook[s].pc = "idle"

Fires(s, w, at) ==
    /\ Ready(s)
    /\ fired < MaxHooks
    /\ fired' = fired + 1
    /\ hook' = [hook EXCEPT ![s] =
                  [pc |-> at, win |-> w, replay |-> s \notin ToSet(writers),
                   fresh |-> s \notin born]]

\* A new session, a resumed one, or the one /clear starts: the end of the
\* session before it is reported later.
AgentStarts(w, s) ==
    /\ pane[w] \in Sessions \cup {"shell"}
    /\ Ready(pane[w])
    /\ ~Running(s) /\ s \notin nested
    /\ s \in born => s \in ToSet(writers)
    /\ Fires(s, w, "map")
    /\ pane' = [pane EXCEPT ![w] = s]
    /\ born' = born \cup {s}
    /\ owed' = IF pane[w] \in Sessions THEN owed \cup {w} ELSE owed
    /\ UNCHANGED <<vars, nested, writers, what, moved, map, monitor, sessions,
                   slips>>

\* The hook of an agent that runs inside the window's agent and was not told
\* apart from it (_is_nested_session fails open).
NestedStarts(w, s) ==
    /\ pane[w] \in Sessions /\ Ready(pane[w])
    /\ s \notin born
    /\ Cardinality(nested) < MaxNested
    /\ Fires(s, w, "map")
    /\ nested' = nested \cup {s}
    /\ born' = born \cup {s}
    /\ UNCHANGED <<vars, pane, owed, writers, what, moved, map, monitor,
                   sessions, slips>>

\* Any other event of the running agent, when the map does not name it; one
\* that finds its session there leaves nothing but a line of the log.
AgentActs(w) ==
    /\ pane[w] \in Sessions /\ Sid(map[w]) # pane[w]
    /\ Fires(pane[w], w, "look")
    /\ UNCHANGED <<vars, world, what, moved, map, monitor, sessions, slips>>

Age(s) == IF s \in ToSet(writers) THEN CHOOSE i \in DOMAIN writers : writers[i] = s
                                  ELSE 0

\* The transcript of s grows: it has the latest modification time.
Writes(s) ==
    /\ Running(s) \/ s \in nested
    /\ Ready(s)
    /\ writers' = Append(RemoveAt(writers, Age(s)), s)
    /\ UNCHANGED <<vars, pane, nested, born, owed, hooks, map, monitor, sessions,
                   slips>>

-----------------------------------------------------------------------------
(* Hook processes (hook.py).                                               *)

\* _refresh_session_map_if_stale looks at the map without the lock; it leaves
\* a missing entry to the next start.
HookLooks(s) ==
    LET stale == Sid(map[hook[s].win]) \notin {None, s}
    IN  /\ hook[s].pc = "look"
        /\ hook' = [hook EXCEPT ![s].pc = IF stale THEN "map" ELSE "log",
                                ![s].replay = FALSE]
        /\ UNCHANGED <<vars, world, fired, what, moved, map, monitor, sessions,
                       slips>>

\* _update_session_map; the update is dropped when the lock stays taken.
HookWritesMap(s) ==
    /\ hook[s].pc = "map"
    /\ hook' = [hook EXCEPT ![s].pc = "log"]
    /\ \/ /\ map' = [map EXCEPT ![hook[s].win] = Entry(s, hook[s].replay)]
          /\ moved' = IF \E w \in Windows \ {hook[s].win} : map[w] = Entry(s, TRUE)
                      THEN moved \cup {s} ELSE moved
          /\ UNCHANGED slips
       \/ Slip /\ UNCHANGED <<map, moved>>
    /\ UNCHANGED <<vars, world, fired, what, monitor, sessions>>

\* _write_event, with the same lock timeout.
HookWritesEvent(s) ==
    /\ hook[s].pc = "log"
    /\ hook' = [hook EXCEPT ![s] = NoHook]
    /\ \/ /\ WriteEvent
          /\ what' = [what EXCEPT ![written'] =
                          IF hook[s].fresh THEN <<"fresh", s>> ELSE <<"act">>]
          /\ UNCHANGED slips
       \/ Slip /\ UNCHANGED <<vars, what>>
    /\ UNCHANGED <<world, fired, moved, map, monitor, sessions>>

\* The hook of a SessionEnd leaves the map alone.
WritesEnd(w) ==
    /\ Cardinality({n \in 1 .. MaxEvents : what[n][1] = "end"}) < MaxEnds
    /\ WriteEvent
    /\ what' = [what EXCEPT ![written'] = <<"end", w>>]
    /\ UNCHANGED <<nested, born, writers, hook, fired, moved, map, monitor, sessions,
                   slips>>

AgentExits(w) ==
    /\ pane[w] \in Sessions /\ Ready(pane[w])
    /\ WritesEnd(w)
    /\ pane' = [pane EXCEPT ![w] = "shell"]
    /\ UNCHANGED owed

\* The end of a session that /clear replaced is reported late.
SessionEnds(w) ==
    /\ w \in owed
    /\ WritesEnd(w)
    /\ owed' = owed \ {w}
    /\ UNCHANGED pane

-----------------------------------------------------------------------------
(* The monitor (session_monitor.py).                                       *)

\* _prefer_existing_primary keeps the session of a window state whose
\* transcript was written after the incoming one's, or is in its grace: the
\* time since the last write of a session is any.
Prefers(w, incoming, grace) ==
    LET existing == state[w]
    IN  /\ existing \notin {None, incoming}
        /\ existing \in ToSet(writers)
        /\ existing \in grace \/ Age(existing) >= Age(incoming)

\* effective_session_map_info and parse_session_map
Effective(m, grace) ==
    [w \in Windows |-> IF m[w] # None /\ Prefers(w, m[w].sid, grace)
                       THEN Entry(state[w], FALSE) ELSE m[w]]

Mapped(m) == {Sid(m[w]) : w \in Windows}

\* TranscriptReader.clear_session for each session of S.
Drop(S) ==
    /\ tracked' = [s \in Sessions |-> IF s \in S THEN "no" ELSE tracked[s]]
    /\ fresh' = fresh \ S
    /\ reserved' = reserved \ S

\* save_if_dirty writes the offset and the tracked sessions; a failed write
\* leaves both for the next save.
Saves     == SaveElsewhere /\ disk' = offset /\ ~dirty' /\ saved' = tracked'
SaveFails == Slip /\ UNCHANGED <<vars, saved>>

Sids(m) == [w \in Windows |-> Sid(m[w])]

\* _cleanup_all_stale_sessions, then SessionLifecycle.initialize from a second
\* read; either read may fail.
Boot ==
    /\ pc = "read" /\ stage = "boot"
    /\ stage' = "list"
    /\ \E grace \in SUBSET Sessions :
          LET now == Effective(map, grace)
          IN  \/ /\ Drop(Sessions \ Mapped(now))
                 /\ last' = Sids(now)
                 /\ Saves /\ UNCHANGED slips
              \/ /\ UNCHANGED <<vars, tracked, saved, fresh, reserved>>
                 /\ last' \in {NoMap, Sids(now)}
                 /\ Slip
    /\ UNCHANGED <<world, hooks, map, listing, cur, check, state>>

Alive == {w \in Windows : pane[w] \notin {"absent", "gone"}}

\* list_windows_for_reconciliation
ListWindows ==
    /\ pc = "read" /\ stage = "list"
    /\ stage' = "events"
    /\ \/ listing' = Alive /\ UNCHANGED slips
       \/ listing' = None /\ Slip
    /\ UNCHANGED <<vars, world, hooks, map, cur, last, check, sessions>>

MonitorReads ==
    /\ stage = "events"
    /\ ReadEvents
    /\ UNCHANGED <<world, hooks, map, monitor, sessions, slips>>

\* _note_session_start, and handle_session_end, which clears whatever session
\* the window state has.
MonitorDispatches ==
    LET event == what[Head(todo)]
    IN  /\ Dispatch
        /\ fresh' = IF event[1] = "fresh" THEN fresh \cup {event[2]} ELSE fresh
        /\ state' = IF event[1] = "end" THEN [state EXCEPT ![event[2]] = None] ELSE state
        /\ UNCHANGED <<world, hooks, map, monitor, tracked, saved,
                       reserved, slips>>

MonitorDispatched ==
    /\ DispatchDone
    /\ stage' = "map"
    /\ UNCHANGED <<world, hooks, map, listing, cur, last, check, sessions, slips>>

\* The cycle ends early when read_session_map_raw fails.
ReadMapFails ==
    /\ stage = "map"
    /\ CycleEnds /\ UNCHANGED <<disk, dirty>>
    /\ stage' = "list" /\ listing' = None
    /\ Slip
    /\ UNCHANGED <<world, hooks, map, cur, last, check, sessions>>

\* Mutant: the session of a window without an entry stays.
RemovedReplaced(now) ==
    {last[w] : w \in {v \in Windows : now[v] # None /\ last[v] \notin {None, Sid(now[v])}}}

\* SessionLifecycle.reconcile: the sessions whose window has another one now,
\* or none.
Removed(now) == {last[w] : w \in {v \in Windows : last[v] \notin {None, Sid(now[v])}}}

\* prune_session_map, with the windows found at the start of the cycle.
Pruned(m, live) == IF live = None THEN m
                   ELSE [w \in Windows |-> IF w \in live THEN m[w] ELSE None]

\* read_session_map_raw, load_session_map, _detect_and_cleanup_changes and
\* prune_session_map, with no other coroutine in between.
SyncMap == \E grace \in SUBSET Sessions :
    LET now == Effective(map, grace)
    IN  /\ stage = "map"
        /\ state' = [w \in Windows |-> IF now[w] = None THEN state[w] ELSE now[w].sid]
        /\ last' = Sids(now)
        /\ Drop(Removed(now))
        /\ IF Removed(now) = {} THEN UNCHANGED <<vars, saved, slips>>
                                ELSE (Saves /\ UNCHANGED slips) \/ SaveFails
        /\ map' = Pruned(map, listing)
        /\ cur' = Pruned(now, listing)
        /\ check' = {w \in Windows : cur'[w] # None}
        /\ listing' = None
        /\ stage' = "check"
        /\ UNCHANGED <<world, hooks>>

\* acknowledge_replay_from_start, a no-op when the entry is another session's.
Acknowledge(w, s) ==
    IF Sid(map[w]) = s
    THEN map' = [map EXCEPT ![w].replay = FALSE] /\ reserved' = reserved \cup {s}
    ELSE UNCHANGED <<map, reserved>>

\* Mutant: the marker goes even if offset zero could not be saved.
ReserveReplayUnsaved(w) ==
    LET s == cur[w].sid
    IN  /\ stage = "check" /\ w \in check
        /\ cur[w].replay
        /\ check' = check \ {w}
        /\ tracked' = [tracked EXCEPT ![s] = IF @ = "no" THEN "zero" ELSE @]
        /\ \/ Saves /\ Acknowledge(w, s) /\ UNCHANGED slips
           \/ Saves /\ Slip /\ UNCHANGED <<map, reserved>>
           \/ SaveFails /\ Acknowledge(w, s)
        /\ UNCHANGED <<world, hooks, stage, listing, cur, last, state, fresh>>

\* _reserve_replay_start: the marker goes once offset zero is on disk.
ReserveReplay(w) ==
    LET s == cur[w].sid
    IN  /\ stage = "check" /\ w \in check
        /\ cur[w].replay
        /\ check' = check \ {w}
        /\ tracked' = [tracked EXCEPT ![s] = IF @ = "no" THEN "zero" ELSE @]
        /\ \/ Saves /\ Acknowledge(w, s) /\ UNCHANGED slips
           \/ Saves /\ Slip /\ UNCHANGED <<map, reserved>>
           \/ SaveFails /\ UNCHANGED <<map, reserved>>
        /\ UNCHANGED <<world, hooks, stage, listing, cur, last, state, fresh>>

\* check_for_updates: a session is tracked once its transcript exists, from the
\* end unless it was announced as new.
TrackSession(w) ==
    LET s     == cur[w].sid
        start == s \in ToSet(writers) /\ tracked[s] = "no"
    IN  /\ stage = "check" /\ w \in check
        /\ \A v \in check : ~cur[v].replay
        /\ check' = check \ {w}
        /\ tracked' = IF start THEN [tracked EXCEPT ![s] = IF s \in fresh THEN "zero" ELSE "eof"]
                               ELSE tracked
        /\ fresh' = IF start THEN fresh \ {s} ELSE fresh
        /\ UNCHANGED <<vars, world, hooks, map, stage, listing, cur, last, state,
                       saved, reserved, slips>>

MonitorCycleEnds ==
    /\ stage = "check" /\ check = {}
    /\ CycleEnds
    /\ stage' = "list" /\ cur' = NoMap
    /\ \/ disk' = offset /\ ~dirty' /\ saved' = tracked /\ UNCHANGED slips
       \/ UNCHANGED <<disk, dirty, saved>> /\ Slip
    /\ UNCHANGED <<world, hooks, map, listing, last, check, state,
                   tracked, fresh, reserved>>

\* The process starts from its two files; the debounced save of state.json
\* happened, or none did.
MonitorRestarts ==
    /\ Restart
    /\ stage' = "boot"
    /\ listing' = None /\ cur' = NoMap /\ last' = NoMap /\ check' = {}
    /\ state' \in {state, NoMap}
    /\ tracked' = saved
    /\ fresh' = {}
    /\ UNCHANGED <<world, hooks, map, saved, reserved, slips>>

-----------------------------------------------------------------------------
HookStep(s) == HookLooks(s) \/ HookWritesMap(s) \/ HookWritesEvent(s)

Cycle ==
    \/ Boot \/ ListWindows
    \/ MonitorReads \/ MonitorDispatches \/ MonitorDispatched
    \/ ReadMapFails \/ SyncMap
    \/ \E w \in Windows : ReserveReplay(w) \/ TrackSession(w)
    \/ MonitorCycleEnds

MapNext ==
    \/ \E w \in Windows : WindowAppears(w) \/ WindowDies(w) \/ AgentActs(w) \/ AgentExits(w)
                           \/ SessionEnds(w)
    \/ \E w \in Windows, s \in Sessions : AgentStarts(w, s) \/ NestedStarts(w, s)
    \/ \E s \in Sessions : Writes(s) \/ HookStep(s)
    \/ Cycle
    \/ MonitorRestarts

MapSpec == MapInit /\ [][MapNext]_mapVars

-----------------------------------------------------------------------------
\* A session whose start was written with a replay marker is read from its
\* first line as long as the monitor does not drop it: neither while the marker
\* stands nor after it was consumed, through failed saves and crashes, is it
\* tracked from the end of its transcript (_reserve_replay_start).  A session that
\* was mapped to a second window under its standing marker is not covered: when
\* the window of the marker keeps an older session (_prefer_existing_primary), the
\* cycle does not see the marker and tracks the session by its other window.
OpeningKept ==
    \A s \in Sessions :
        /\ s \in reserved \/ \E w \in Windows : map[w] = Entry(s, TRUE)
        /\ s \notin moved
        => tracked[s] # "eof"

\* Once a cycle has gone through the map, every session it tracks is the one
\* of some window in the map it reconciled (_detect_and_cleanup_changes,
\* _cleanup_all_stale_sessions).
NothingLeftTracked ==
    stage = "check" /\ check = {} /\ slips = 0 =>
        \A s \in Sessions : tracked[s] # "no" => s \in Range(last)
=============================================================================
