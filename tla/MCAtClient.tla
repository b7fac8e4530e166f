----------------------------- MODULE MCAtClient -----------------------------
(* AtClient on a heap of six blocks: a started context with hooks holds     *)
(* five (client, read buffer, host, hooks, atSign), and after a failed      *)
(* connect stranded two the next one still succeeds.                        *)
EXTENDS AtClient, TLC

CONSTANTS b1, b2, b3, b4, b5, b6

MCBlocks == {b1, b2, b3, b4, b5, b6}
Symmetry == Permutations(MCBlocks)
=============================================================================
