------------------------------ MODULE AtClient ------------------------------
(***************************************************************************)
(* The life cycle of an atclient context: the atSign, the atServer         *)
(* connection inside it and the bits of _initialized_fields that guard     *)
(* both.  One action per public function; an application is single         *)
(* threaded, so a function is one step.                                    *)
(*                                                                         *)
(* Between atclient_free and the next atclient_init the context is not     *)
(* used (atclient.h: the caller of _init calls _free once it is done).     *)
(***************************************************************************)
EXTENDS AtConnection

VARIABLES
    inited,      \* between atclient_init and atclient_free
    started,     \* _initialized_fields bit 1: the atServer connection
    atsign,      \* the pointer to the atSign
    atsignSet    \* _initialized_fields bit 0

vars == <<conn, heap, inited, started, atsign, atsignSet>>

\* a zeroed context, as after atclient_init
Init ==
    /\ conn = Zeroed
    /\ heap = [b \in Blocks |-> "free"]
    /\ inited = TRUE
    /\ started = FALSE
    /\ atsign = NULL
    /\ atsignSet = FALSE

-----------------------------------------------------------------------------
(* The atSign                                                              *)

AtSignBlocks == {b \in {atsign} : atsignSet /\ b # NULL}

\* atclient_set_atsign: the old copy goes first, then the new one may not fit
SetAtSign ==
    /\ inited
    /\ LET h == Release(heap, AtSignBlocks)
       IN  \/ \E b \in FreeIn(h) :
                 /\ heap' = Store(h, b, "atsign")
                 /\ atsign' = b
                 /\ atsignSet' = TRUE
           \/ /\ heap' = h
              /\ atsign' = NULL
              /\ atsignSet' = FALSE
    /\ UNCHANGED <<conn, inited, started>>

UnsetAtSign ==
    /\ inited
    /\ heap' = Release(heap, AtSignBlocks)
    /\ atsign' = NULL
    /\ atsignSet' = FALSE
    /\ UNCHANGED <<conn, inited, started>>

-----------------------------------------------------------------------------
(* The atServer connection                                                 *)

\* Wrong on purpose: only the socket is given back
StoppedSocketOnly == IF started THEN EnabledBlocks(conn) ELSE {}

\* atclient_stop_atserver_connection frees only a connection that is started
\* and zeroes it in any case
StoppedBlocks == IF started THEN OwnedBlocks(conn) ELSE {}

Stop ==
    /\ inited
    /\ conn' = Zeroed
    /\ heap' = Release(heap, StoppedBlocks)
    /\ started' = FALSE
    /\ UNCHANGED <<inited, atsign, atsignSet>>

\* Wrong on purpose: the hooks flag comes back with the pointer
RestartedWithFlag == [Zeroed EXCEPT !.hooks = conn.hooks, !.hooksOn = conn.hooksOn]

\* what atclient_start_atserver_connection hands to atclient_connection_connect:
\* the connection is stopped, initialised and given its hooks pointer back
Restarted == [Zeroed EXCEPT !.hooks = conn.hooks]

StartSucceeds ==
    /\ inited
    /\ ConnectSucceeds(Restarted, Release(heap, StoppedBlocks))
    /\ started' = TRUE
    /\ UNCHANGED <<inited, atsign, atsignSet>>

StartFails ==
    /\ inited
    /\ ConnectFails(Restarted, Release(heap, StoppedBlocks))
    /\ started' = FALSE
    /\ UNCHANGED <<inited, atsign, atsignSet>>

Start == StartSucceeds \/ StartFails

\* atauth closes the CRAM session with atclient_connection_disconnect on the
\* connection inside the context; the started bit is not told
DisconnectConnection ==
    /\ inited
    /\ Disconnect
    /\ UNCHANGED <<inited, started, atsign, atsignSet>>

HooksEnable ==
    /\ inited
    /\ EnableHooks
    /\ UNCHANGED <<inited, started, atsign, atsignSet>>

HooksDisable ==
    /\ inited
    /\ DisableHooks
    /\ UNCHANGED <<inited, started, atsign, atsignSet>>

-----------------------------------------------------------------------------
(* The context                                                             *)

\* atclient_free: the atSign, then the connection if it is started
Free ==
    /\ inited
    /\ heap' = Release(Release(heap, AtSignBlocks), StoppedBlocks)
    /\ atsign' = NULL
    /\ atsignSet' = FALSE
    /\ conn' = IF started THEN Zeroed ELSE conn
    /\ started' = FALSE
    /\ inited' = FALSE

\* atclient_init on the freed context: memset, whatever the pointers held
Reinit ==
    /\ ~inited
    /\ conn' = Zeroed
    /\ started' = FALSE
    /\ atsign' = NULL
    /\ atsignSet' = FALSE
    /\ inited' = TRUE
    /\ UNCHANGED heap

Next ==
    \/ SetAtSign
    \/ UnsetAtSign
    \/ Start
    \/ Stop
    \/ DisconnectConnection
    \/ HooksEnable
    \/ HooksDisable
    \/ Free
    \/ Reinit

Spec == Init /\ [][Next]_vars

-----------------------------------------------------------------------------
(* Properties                                                              *)

TypeOK ==
    /\ conn \in Connections
    /\ heap \in [Blocks -> Contents]
    /\ inited \in BOOLEAN /\ started \in BOOLEAN /\ atsignSet \in BOOLEAN
    /\ atsign \in Pointers

\* a pointer that points to an allocation of the kind it is meant for
Holds(p, what) == p \in Blocks /\ heap[p] = what

\* Whatever a flag or a pointer test lets the code free or dereference is
\* allocated and still holds what the code takes it for, at every moment of every
\* sequence of calls: no double free and no use of freed or reused memory, through
\* failed connects, restarts, disconnects and hooks set up at any time.
PointersSound ==
    /\ HooksEnabled(conn) => Holds(conn.hooks, "hooks")
    /\ conn.hostSet /\ conn.host # NULL => Holds(conn.host, "host")
    /\ conn.client # NULL => conn.enabled /\ Holds(conn.client, "wifi_client")
    /\ conn.readBuf # NULL => conn.enabled /\ Holds(conn.readBuf, "read_buf")
    /\ atsignSet => Holds(atsign, "atsign")

\* An atServer connection the started bit vouches for and that was not disconnected
\* has everything a read or a write dereferences: a connected client, its read
\* buffer and the address it went to.
StartedIsUsable ==
    started /\ conn.enabled =>
        /\ conn.configured /\ conn.connected
        /\ conn.client # NULL /\ conn.readBuf # NULL
        /\ conn.hostSet /\ conn.portSet /\ conn.host # NULL

\* the blocks some flag of the context still leads to
Reachable == OwnedBlocks(conn) \cup AtSignBlocks

Leaked == {b \in Blocks : heap[b] # "free"} \ Reachable

\* Memory is lost in one situation only: the connection holds a socket or hooks
\* while the started bit is off (a connect that failed half way, hooks enabled
\* before the connection was started) and the connection is zeroed.  Every other
\* call, failing allocations included, gives back all it had.
LeaksOnlyWhenNotStarted ==
    [][Leaked' # Leaked => ~started /\ (conn.enabled \/ HooksEnabled(conn))]_vars

\* "Frees memory allocated by atclient's _init function.  The caller of _init is
\* responsible for calling this once it is done" (atclient.h): once the context is
\* freed nothing it allocated is left.
FreeReturnsEverything == ~inited => \A b \in Blocks : heap[b] = "free"
=============================================================================
