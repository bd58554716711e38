--------------------------- MODULE MCHostLimiter ---------------------------
EXTENDS HostLimiter, TLC
CONSTANTS c1, c2, c3, c4, h1, h2

\* Timers and goroutines are always on time.
PromptSpec == Init /\ [][Next /\ prompt']_vars

Symmetry == Permutations(Calls) \cup Permutations(Hosts)
=============================================================================
