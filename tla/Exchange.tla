------------------------------ MODULE Exchange ------------------------------
(***************************************************************************)
(* What one atServer session promises the caller of atclient_connection_   *)
(* send: commands are executed in the order they were issued; a command    *)
(* is answered with its own answer, after it was executed; and once a read *)
(* gave up on an answer the session is tainted: from then on a caller may  *)
(* be given the answer to an earlier command, but never one that was       *)
(* already given, and never one to a command the server did not execute.   *)
(* A new session has none of the old one's commands or answers.            *)
(***************************************************************************)
EXTENDS Naturals

VARIABLES
    issued,     \* commands issued in this session
    executed,   \* how many of them the server executed
    replied,    \* the command whose answer a caller was last given
    tainted     \* a read of this session gave up

vars == <<issued, executed, replied, tainted>>

Init ==
    /\ issued = 0
    /\ executed = 0
    /\ replied = 0
    /\ tainted = FALSE

NewSession ==
    /\ issued' = 0
    /\ executed' = 0
    /\ replied' = 0
    /\ tainted' = FALSE

Issue ==
    /\ issued' = issued + 1
    /\ UNCHANGED <<executed, replied>>
    /\ tainted' \in {tainted, TRUE}     \* TRUE: the caller will not read the answer

Execute ==
    /\ executed < issued
    /\ executed' = executed + 1
    /\ UNCHANGED <<issued, replied, tainted>>

Answer ==
    /\ ~tainted
    /\ replied < issued
    /\ executed = issued
    /\ replied' = issued
    /\ UNCHANGED <<issued, executed, tainted>>

GiveUp ==
    /\ tainted' = TRUE
    /\ \E n \in (replied + 1)..executed : replied' = n
    /\ UNCHANGED <<issued, executed>>

GiveUpEmpty ==
    /\ tainted' = TRUE
    /\ UNCHANGED <<issued, executed, replied>>

Next ==
    \/ NewSession
    \/ Issue
    \/ Execute
    \/ Answer
    \/ GiveUp
    \/ GiveUpEmpty

Spec == Init /\ [][Next]_vars
=============================================================================
