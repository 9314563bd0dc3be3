----------------------------- MODULE AtLeastOnce -----------------------------
(***************************************************************************)
(* What transcript delivery promises across crashes: the durable position  *)
(* only moves forward, and only over entries that were handled, that is    *)
(* sent, dropped on purpose, or given up by an explicit skip.  An entry    *)
(* above the durable position may be handled any number of times.          *)
(***************************************************************************)
EXTENDS Integers

CONSTANT Last  \* the last entry ever written

VARIABLES
    written,  \* entries in the transcript
    handled,  \* entries sent, dropped or given up
    durable   \* entries a restart will not read again

vars == <<written, handled, durable>>

Init ==
    /\ written = 0
    /\ handled = {}
    /\ durable = 0

Write ==
    /\ written < Last
    /\ written' = written + 1
    /\ UNCHANGED <<handled, durable>>

Handle ==
    /\ \E S \in SUBSET (1..written) : handled' = handled \cup S
    /\ UNCHANGED <<written, durable>>

\* The position reaches w once everything up to it is handled.
Advance ==
    /\ \E w \in durable..written :
          /\ 1..w \subseteq handled
          /\ durable' = w
    /\ UNCHANGED <<written, handled>>

\* Everything up to w is given up, and that is durable at once.
Forfeit ==
    /\ \E w \in 0..written :
          /\ handled' = handled \cup 1..w
          /\ durable' \in durable..written
          /\ 1..durable' \subseteq handled'
    /\ UNCHANGED written

Next == Write \/ Handle \/ Advance \/ Forfeit

Spec == Init /\ [][Next]_vars
=============================================================================
