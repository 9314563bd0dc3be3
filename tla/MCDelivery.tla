----------------------------- MODULE MCDelivery -----------------------------
(* Instances of Delivery for TLC.                                           *)
EXTENDS Delivery, TLC

CONSTANTS r1, r2, r3

MCReceipts == {r1, r2, r3}
MCSymmetry == Permutations(MCReceipts)

\* Three texts.
AllTexts == {1, 2, 3}
\* A text that calls a tool and a text behind the result.
Texts13 == {1, 3}
\* Texts around the silent result of entry 1, which also calls a tool.
Texts134 == {1, 3, 4}
NoCalls == [i \in 1..MaxLen |-> 0]
\* Entry 1 calls a tool, entry 2 is its result.
FirstIsCall == [i \in 1..MaxLen |-> IF i = 2 THEN 1 ELSE 0]

\* Every fault that leaves the coverage of the watermark intact.
AllFaults == FaultKinds \ {"lateRead"}
=============================================================================
