------------------------ MODULE MCSharedKeyExchange ------------------------
(* Two clients race over two keys: one pair and one that replaces it.  A    *)
(* connection holds at most two commands or answers: the one the call       *)
(* waits for and one that came late.                                        *)
EXTENDS SharedKeyExchange, TLC

CONSTANTS c1, c2, k1, k2

MCClients == {c1, c2}
OneClient == {c1}
MCKeys == {k1, k2}

KeySymmetry == Permutations(MCKeys)
Symmetry == Permutations(MCClients) \cup KeySymmetry

\* mishaps only grows and the invariants say nothing of a pair that is not intact, so
\* the states after it was replaced or read out of step are not explored
Unspoilt == Intact
=============================================================================
