---------------------------- MODULE AtConnection ----------------------------
(***************************************************************************)
(* The atclient_connection structure, the TLS socket embedded in it (the   *)
(* Arduino provider over WiFiClientSecure) and its hooks structure, seen   *)
(* as owners of heap blocks.                                               *)
(*                                                                         *)
(* The C structure is one record, conn; a pointer field holds a block of   *)
(* the heap or NULL.  The code never looks inside a pointer to decide who  *)
(* owns it: it consults the flags _is_connection_enabled,                  *)
(* _is_host_initialized and _is_hooks_enabled, and those flags are what    *)
(* this module keeps apart from the pointers.                              *)
(***************************************************************************)
CONSTANTS
    Blocks,     \* the heap blocks malloc and new can hand out
    NULL        \* the null pointer

ASSUME NullAssumption == NULL \notin Blocks

VARIABLES
    conn,       \* atclient.atserver_connection
    heap        \* what each block holds, "free" when it is not allocated

connVars == <<conn, heap>>

Pointers == Blocks \cup {NULL}
Contents == {"free", "wifi_client", "read_buf", "host", "hooks", "atsign"}

\* struct atclient_connection with struct atclient_tls_socket inlined
Connections ==
    [enabled : BOOLEAN, host : Pointers, hostSet : BOOLEAN, portSet : BOOLEAN,
     hooks : Pointers, hooksOn : BOOLEAN,
     client : Pointers, readBuf : Pointers, configured : BOOLEAN, connected : BOOLEAN]

\* memset(ctx, 0, sizeof(atclient_connection)), and atclient_connection_init
Zeroed ==
    [enabled |-> FALSE, host |-> NULL, hostSet |-> FALSE, portSet |-> FALSE,
     hooks |-> NULL, hooksOn |-> FALSE,
     client |-> NULL, readBuf |-> NULL, configured |-> FALSE, connected |-> FALSE]

-----------------------------------------------------------------------------
(* The heap.  Any free block may be handed out again, so an address that   *)
(* is still written down somewhere can come back as something else.        *)

FreeIn(h) == {b \in Blocks : h[b] = "free"}

Release(h, B) == [b \in Blocks |-> IF b \in B THEN "free" ELSE h[b]]

Store(h, b, what) == [h EXCEPT ![b] = what]

-----------------------------------------------------------------------------
(* The socket: atsdk_socket.cpp                                            *)

\* what atclient_tls_socket_free deletes
SocketBlocks(c) == {c.client, c.readBuf} \ {NULL}

SocketFreed(c) ==
    [c EXCEPT !.client = NULL, !.readBuf = NULL,
              !.configured = FALSE, !.connected = FALSE]

\* atclient_tls_socket_init: forgets whatever the fields held
SocketInited(c) == SocketFreed(c)

\* Wrong on purpose: the flag receives the pointer
ConfiguredWithPointer(c, client, buf) ==
    [c EXCEPT !.client = client, !.readBuf = buf, !.configured = client]

\* atclient_tls_socket_configure with both allocations made
SocketConfigured(c, client, buf) ==
    [c EXCEPT !.client = client, !.readBuf = buf, !.configured = TRUE]

-----------------------------------------------------------------------------
(* Enabling, disabling and freeing a connection                            *)

\* the blocks atclient_connection_disable_connection frees
EnabledBlocks(c) == IF c.enabled THEN SocketBlocks(c) ELSE {}

\* Wrong on purpose: the socket goes but the flag stays
DisabledKeepsFlag(c) == IF c.enabled THEN SocketFreed(c) ELSE c

Disabled(c) == [(IF c.enabled THEN SocketFreed(c) ELSE c) EXCEPT !.enabled = FALSE]

\* disable if enabled, then atclient_connection_enable_connection
Reenabled(c) == [SocketInited(Disabled(c)) EXCEPT !.enabled = TRUE]

HooksEnabled(c) == c.hooks # NULL /\ c.hooksOn

\* the blocks the flags of c own: what atclient_connection_free releases
OwnedBlocks(c) ==
    EnabledBlocks(c)
        \cup {b \in {c.hooks} : HooksEnabled(c)}
        \cup {b \in {c.host} : c.hostSet /\ b # NULL}

-----------------------------------------------------------------------------
(* atclient_connection_connect applied to the connection c in the heap h.  *)
(* Each operator below is one way out of the function; the caller decides  *)
(* what the return value does to its own state.                            *)

\* the heap once the previous socket was freed
Reclaimed(c, h) == Release(h, EnabledBlocks(c))

\* there is room for the client and the read buffer
SocketFits(c, h) == \E client, buf \in FreeIn(Reclaimed(c, h)) : client # buf

\* new WiFiClientSecure or the read buffer's malloc fails (the client is then
\* deleted): the function returns at once and leaves the connection enabled
ConnectConfigureFails(c, h) ==
    /\ conn' = Reenabled(c)
    /\ heap' = Reclaimed(c, h)

\* the TLS handshake fails: again a plain return, with the socket configured
ConnectTlsFails(c, h) ==
    \E client, buf \in FreeIn(Reclaimed(c, h)) :
        /\ client # buf
        /\ conn' = SocketConfigured(Reenabled(c), client, buf)
        /\ heap' = Store(Store(Reclaimed(c, h), client, "wifi_client"), buf, "read_buf")

\* no banner arrives: goto exit, which disables the connection
ConnectBannerFails(c, h) ==
    /\ SocketFits(c, h)
    /\ conn' = Disabled(Reenabled(c))
    /\ heap' = Reclaimed(c, h)

\* the copy of the host name cannot be allocated: the pointer is already
\* overwritten, the old copy is not freed and the flag keeps its value
ConnectHostFails(c, h) ==
    /\ SocketFits(c, h)
    /\ conn' = [Disabled(Reenabled(c)) EXCEPT !.host = NULL]
    /\ heap' = Reclaimed(c, h)

\* the new copy of the host name is made before the old one is freed
ConnectSucceeds(c, h) ==
    \E client, buf, host \in FreeIn(Reclaimed(c, h)) :
        /\ client # buf /\ buf # host /\ client # host
        /\ conn' = [SocketConfigured(Reenabled(c), client, buf) EXCEPT
                        !.connected = TRUE, !.host = host,
                        !.hostSet = TRUE, !.portSet = TRUE]
        /\ heap' = Store(Store(Store(Release(Reclaimed(c, h), {c.host}),
                                     client, "wifi_client"), buf, "read_buf"), host, "host")

ConnectFails(c, h) ==
    \/ ConnectConfigureFails(c, h)
    \/ ConnectTlsFails(c, h)
    \/ ConnectBannerFails(c, h)
    \/ ConnectHostFails(c, h)

-----------------------------------------------------------------------------
(* Operations on a connection that the application or the library calls    *)

\* atclient_connection_disconnect: refused on a connection that is not enabled
Disconnect ==
    /\ conn.enabled
    /\ conn' = Disabled(conn)
    /\ heap' = Reclaimed(conn, heap)

\* the blocks and the fields after atclient_connection_hooks_disable
HookBlocks(c) == {b \in {c.hooks} : HooksEnabled(c)}
Unhooked(c) == [c EXCEPT !.hooks = NULL, !.hooksOn = FALSE]

DisableHooks ==
    /\ conn' = Unhooked(conn)
    /\ heap' = Release(heap, HookBlocks(conn))

\* atclient_connection_hooks_enable: hooks already enabled are dropped first; when
\* they are not enabled the pointer is overwritten, whatever it was
EnableHooks ==
    LET h == Release(heap, HookBlocks(conn))
        c == IF HooksEnabled(conn) THEN Unhooked(conn) ELSE conn
    IN  \/ \E b \in FreeIn(h) :
              /\ conn' = [c EXCEPT !.hooks = b, !.hooksOn = TRUE]
              /\ heap' = Store(h, b, "hooks")
        \/ /\ conn' = [c EXCEPT !.hooks = NULL]      \* malloc returned NULL
           /\ heap' = h
=============================================================================
