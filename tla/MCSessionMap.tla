---------------------------- MODULE MCSessionMap ----------------------------
\* SessionMap for TLC: windows and sessions are interchangeable.
EXTENDS SessionMap

Symmetry == Permutations(Windows) \cup Permutations(Sessions)
=============================================================================
