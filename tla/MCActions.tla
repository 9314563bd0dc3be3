----------------------------- MODULE MCActions -----------------------------
(* Instances of Actions for TLC.                                            *)
EXTENDS Actions, TLC

CONSTANTS e1, e2, p

MCExecutors == {e1, e2}
MCSymmetry == Permutations(MCExecutors)

\* Two hooks that show the same text, one after the other in time.
SameText == [h \in Hooks |-> p]
InOrder == [h \in Hooks |-> h]
\* One action answers a request, the other does anything else.
AnswerAndOther ==
    [a \in Ids |-> IF a = "a" THEN {"respond"} ELSE ActionKinds \ {"respond"}]
=============================================================================
