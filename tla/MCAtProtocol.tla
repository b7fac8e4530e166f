---------------------------- MODULE MCAtProtocol ----------------------------
(* AtProtocol with room on each connection for an authentication (two       *)
(* commands) and operations after it; connections are not bounded.          *)
EXTENDS AtProtocol
=============================================================================
