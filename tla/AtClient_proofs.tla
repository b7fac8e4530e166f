-------------------------- MODULE AtClient_proofs ---------------------------
(***************************************************************************)
(* Ownership in AtClient, for every heap: the type invariant and           *)
(* PointersSound are inductive together, and StartedIsUsable with them.    *)
(* PointersSound needs no clause that says the pointers differ: blocks     *)
(* that hold different things are different blocks.  Flags is there for the  *)
(* theorem on leaks: what a stop may overlook is then a socket or hooks,   *)
(* never a host name, and a context that was freed holds no atSign.        *)
(***************************************************************************)
EXTENDS AtClient, TLAPS

Flags ==
    /\ conn.hostSet => started
    /\ ~inited => ~started /\ ~atsignSet

IInv == TypeOK /\ PointersSound /\ StartedIsUsable /\ Flags

-----------------------------------------------------------------------------
(* Lemmas about the heap                                                   *)

\* Giving blocks back keeps the heap a heap and disturbs no other block.
LEMMA ReleaseLemma ==
    ASSUME NEW h \in [Blocks -> Contents], NEW B
    PROVE  /\ Release(h, B) \in [Blocks -> Contents]
           /\ \A b \in Blocks : b \notin B => Release(h, B)[b] = h[b]
           /\ \A b \in Blocks : b \in B => Release(h, B)[b] = "free"
BY DEF Release, Contents

\* Filling a block keeps the heap a heap and disturbs no other block.
LEMMA StoreLemma ==
    ASSUME NEW h \in [Blocks -> Contents], NEW b \in Blocks, NEW what \in Contents
    PROVE  /\ Store(h, b, what) \in [Blocks -> Contents]
           /\ Store(h, b, what)[b] = what
           /\ \A x \in Blocks : x # b => Store(h, b, what)[x] = h[x]
BY DEF Store

-----------------------------------------------------------------------------
(* Lemmas about the connection record                                      *)

\* A zeroed connection is a well-typed one that owns nothing.
LEMMA ZeroedLemma ==
    /\ Zeroed \in Connections
    /\ ~Zeroed.enabled /\ ~Zeroed.hooksOn /\ ~Zeroed.hostSet
    /\ Zeroed.client = NULL /\ Zeroed.readBuf = NULL
BY DEF Zeroed, Connections, Pointers

\* Freeing or initialising the socket clears its four fields and no other.
LEMMA SocketFreedLemma ==
    ASSUME NEW c \in Connections
    PROVE  /\ SocketFreed(c) \in Connections
           /\ SocketFreed(c).client = NULL /\ SocketFreed(c).readBuf = NULL
           /\ SocketFreed(c).configured = FALSE /\ SocketFreed(c).connected = FALSE
           /\ SocketFreed(c).enabled = c.enabled
           /\ SocketFreed(c).hooks = c.hooks /\ SocketFreed(c).hooksOn = c.hooksOn
           /\ SocketFreed(c).host = c.host /\ SocketFreed(c).hostSet = c.hostSet
           /\ SocketFreed(c).portSet = c.portSet
BY DEF SocketFreed, Connections, Pointers

\* A disabled connection keeps its address and its hooks, and loses the socket it had.
LEMMA DisabledLemma ==
    ASSUME NEW c \in Connections
    PROVE  /\ Disabled(c) \in Connections
           /\ Disabled(c).enabled = FALSE
           /\ c.enabled => Disabled(c).client = NULL /\ Disabled(c).readBuf = NULL
           /\ ~c.enabled => Disabled(c).client = c.client /\ Disabled(c).readBuf = c.readBuf
           /\ Disabled(c).hooks = c.hooks /\ Disabled(c).hooksOn = c.hooksOn
           /\ Disabled(c).host = c.host /\ Disabled(c).hostSet = c.hostSet
           /\ Disabled(c).portSet = c.portSet
<1> DEFINE d == IF c.enabled THEN SocketFreed(c) ELSE c
<1>1. d \in Connections
  BY SocketFreedLemma
<1>2. /\ c.enabled => d.client = NULL /\ d.readBuf = NULL
      /\ ~c.enabled => d.client = c.client /\ d.readBuf = c.readBuf
      /\ d.hooks = c.hooks /\ d.hooksOn = c.hooksOn
      /\ d.host = c.host /\ d.hostSet = c.hostSet
      /\ d.portSet = c.portSet
  BY SocketFreedLemma
<1>3. Disabled(c) = [d EXCEPT !.enabled = FALSE]
  BY DEF Disabled
<1> HIDE DEF d
<1> QED  BY <1>1, <1>2, <1>3 DEF Connections

\* An enabled connection starts with an empty socket.
LEMMA ReenabledLemma ==
    ASSUME NEW c \in Connections
    PROVE  /\ Reenabled(c) \in Connections
           /\ Reenabled(c).enabled = TRUE
           /\ Reenabled(c).client = NULL /\ Reenabled(c).readBuf = NULL
           /\ Reenabled(c).hooks = c.hooks /\ Reenabled(c).hooksOn = c.hooksOn
           /\ Reenabled(c).host = c.host /\ Reenabled(c).hostSet = c.hostSet
<1> DEFINE d == SocketInited(Disabled(c))
<1>1. /\ d \in Connections
      /\ d.client = NULL /\ d.readBuf = NULL
      /\ d.hooks = c.hooks /\ d.hooksOn = c.hooksOn
      /\ d.host = c.host /\ d.hostSet = c.hostSet
  <2> DEFINE e == Disabled(c)
  <2>1. /\ e \in Connections
        /\ e.hooks = c.hooks /\ e.hooksOn = c.hooksOn
        /\ e.host = c.host /\ e.hostSet = c.hostSet
    BY DisabledLemma
  <2>2. d = SocketFreed(e)
    BY DEF SocketInited
  <2> HIDE DEF d, e
  <2> QED  BY <2>1, <2>2, SocketFreedLemma
<1>2. Reenabled(c) = [d EXCEPT !.enabled = TRUE]
  BY DEF Reenabled
<1> HIDE DEF d
<1> QED  BY <1>1, <1>2 DEF Connections

\* What atclient_start_atserver_connection hands to connect is a disabled connection
\* that owns nothing, so connect reclaims nothing.
LEMMA RestartedLemma ==
    ASSUME TypeOK, NEW h \in [Blocks -> Contents]
    PROVE  /\ Restarted \in Connections
           /\ ~Restarted.enabled /\ ~Restarted.hooksOn
           /\ ~Restarted.hostSet /\ Restarted.host = NULL
           /\ Reclaimed(Restarted, h) = h
<1>1. conn.hooks \in Pointers
  BY DEF TypeOK, Connections
<1>2. /\ Restarted \in Connections
      /\ ~Restarted.enabled /\ ~Restarted.hooksOn
      /\ ~Restarted.hostSet /\ Restarted.host = NULL
  BY <1>1 DEF Restarted, Zeroed, Connections, Pointers
<1>3. Reclaimed(Restarted, h) = h
  BY <1>2 DEF Reclaimed, Release, EnabledBlocks
<1> QED  BY <1>2, <1>3

-----------------------------------------------------------------------------
(* Init                                                                    *)

\* The inductive invariant holds of a freshly initialised context.
THEOREM InitIInv == Init => IInv
<1> SUFFICES ASSUME Init PROVE IInv
  OBVIOUS
<1>1. TypeOK
  BY DEF Init, TypeOK, Zeroed, Connections, Pointers, Contents
<1>2. PointersSound
  BY DEF Init, PointersSound, Zeroed, HooksEnabled
<1>3. StartedIsUsable
  BY DEF Init, StartedIsUsable
<1> QED  BY <1>1, <1>2, <1>3 DEF IInv, Flags, Init, Zeroed

-----------------------------------------------------------------------------
(* One lemma per action                                                    *)

\* atclient_set_atsign preserves the invariant, whether the copy fits or not.
LEMMA SetAtSignStep == ASSUME IInv, SetAtSign PROVE IInv'
<1> DEFINE h == Release(heap, AtSignBlocks)
<1>1. h \in [Blocks -> Contents]
  BY ReleaseLemma DEF IInv, TypeOK
<1>2. \A b \in Blocks : heap[b] # "atsign" => h[b] = heap[b]
  BY ReleaseLemma DEF IInv, TypeOK, PointersSound, Holds, AtSignBlocks
<1>3. CASE \E b \in FreeIn(h) : /\ heap' = Store(h, b, "atsign")
                                /\ atsign' = b
                                /\ atsignSet' = TRUE
  <2> PICK b \in FreeIn(h) : /\ heap' = Store(h, b, "atsign")
                             /\ atsign' = b
                             /\ atsignSet' = TRUE
    BY <1>3
  <2>1. b \in Blocks /\ h[b] = "free"
    BY DEF FreeIn
  <2>2. /\ heap' \in [Blocks -> Contents]
        /\ heap'[b] = "atsign"
        /\ \A x \in Blocks : x # b => heap'[x] = h[x]
    BY <1>1, <2>1, StoreLemma DEF Contents
  <2>3. \A x \in Blocks : heap[x] \notin {"atsign", "free"} => heap'[x] = heap[x]
    BY <1>2, <2>1, <2>2
  <2>4. TypeOK'
    BY <2>1, <2>2 DEF IInv, TypeOK, SetAtSign, Pointers
  <2>5. PointersSound'
    BY <2>1, <2>2, <2>3 DEF IInv, PointersSound, SetAtSign, Holds, HooksEnabled
  <2>6. StartedIsUsable'
    BY DEF IInv, StartedIsUsable, SetAtSign
  <2> QED  BY <2>4, <2>5, <2>6 DEF IInv, Flags, SetAtSign
<1>4. CASE heap' = h /\ atsign' = NULL /\ atsignSet' = FALSE
  <2>1. TypeOK'
    BY <1>1, <1>4 DEF IInv, TypeOK, SetAtSign, Pointers
  <2>2. PointersSound'
    BY <1>2, <1>4 DEF IInv, PointersSound, SetAtSign, Holds, HooksEnabled
  <2>3. StartedIsUsable'
    BY DEF IInv, StartedIsUsable, SetAtSign
  <2> QED  BY <2>1, <2>2, <2>3 DEF IInv, Flags, SetAtSign
<1> QED  BY <1>3, <1>4 DEF SetAtSign

\* atclient_unset_atsign preserves the invariant.
LEMMA UnsetAtSignStep == ASSUME IInv, UnsetAtSign PROVE IInv'
<1>1. /\ heap' \in [Blocks -> Contents]
      /\ \A b \in Blocks : heap[b] # "atsign" => heap'[b] = heap[b]
  BY ReleaseLemma DEF IInv, TypeOK, PointersSound, Holds, AtSignBlocks, UnsetAtSign
<1>2. TypeOK'
  BY <1>1 DEF IInv, TypeOK, UnsetAtSign, Pointers
<1>3. PointersSound'
  BY <1>1 DEF IInv, PointersSound, UnsetAtSign, Holds, HooksEnabled
<1>4. StartedIsUsable'
  BY DEF IInv, StartedIsUsable, UnsetAtSign
<1> QED  BY <1>2, <1>3, <1>4 DEF IInv, Flags, UnsetAtSign

\* Stopping the connection gives back blocks of the connection only.
LEMMA StoppedLemma ==
    ASSUME IInv
    PROVE  /\ \A b \in Blocks : b \in StoppedBlocks => heap[b] \notin {"free", "atsign"}
           /\ Release(heap, StoppedBlocks) \in [Blocks -> Contents]
           /\ atsignSet => /\ atsign \in Blocks
                           /\ Release(heap, StoppedBlocks)[atsign] = "atsign"
<1>1. \A b \in Blocks : b \in StoppedBlocks => heap[b] \notin {"free", "atsign"}
  BY NullAssumption DEF IInv, PointersSound, Holds, StoppedBlocks, OwnedBlocks,
                        EnabledBlocks, SocketBlocks
<1> QED  BY <1>1, ReleaseLemma DEF IInv, Flags, TypeOK, PointersSound, Holds

\* atclient_stop_atserver_connection preserves the invariant.
LEMMA StopStep == ASSUME IInv, Stop PROVE IInv'
<1>1. conn' = Zeroed /\ conn' \in Connections
  BY ZeroedLemma DEF Stop
<1>2. /\ heap' \in [Blocks -> Contents]
      /\ atsignSet => atsign \in Blocks /\ heap'[atsign] = "atsign"
  BY StoppedLemma DEF Stop
<1>3. TypeOK'
  BY <1>1, <1>2 DEF IInv, TypeOK, Stop
<1>4. PointersSound'
  BY <1>1, <1>2 DEF PointersSound, Stop, Holds, HooksEnabled, Zeroed
<1>5. StartedIsUsable'
  BY DEF StartedIsUsable, Stop
<1> QED  BY <1>1, ZeroedLemma, <1>3, <1>4, <1>5 DEF IInv, Flags, Stop

\* A successful start: three blocks that were free once the old connection was
\* stopped now hold the new one.
LEMMA StartSucceedsEffect ==
    ASSUME IInv, StartSucceeds
    PROVE  LET h == Release(heap, StoppedBlocks)
           IN  \E client, buf, host \in Blocks :
                  /\ h[client] = "free" /\ h[buf] = "free" /\ h[host] = "free"
                  /\ heap' \in [Blocks -> Contents]
                  /\ heap'[client] = "wifi_client" /\ heap'[buf] = "read_buf"
                  /\ heap'[host] = "host"
                  /\ \A b \in Blocks \ {client, buf, host} : heap'[b] = h[b]
                  /\ conn' \in Connections
                  /\ conn'.enabled /\ ~conn'.hooksOn
                  /\ conn'.client = client /\ conn'.readBuf = buf /\ conn'.host = host
                  /\ conn'.configured /\ conn'.connected /\ conn'.hostSet /\ conn'.portSet
<1> DEFINE h == Release(heap, StoppedBlocks)
           c == Reenabled(Restarted)
<1>1. h \in [Blocks -> Contents]
  BY StoppedLemma
<1>2. /\ Restarted \in Connections
      /\ ~Restarted.hooksOn /\ ~Restarted.hostSet /\ Restarted.host = NULL
      /\ Reclaimed(Restarted, h) = h
  BY <1>1, RestartedLemma DEF IInv
<1>3. /\ c \in Connections
      /\ c.enabled = TRUE /\ ~c.hooksOn
  BY <1>2, ReenabledLemma
<1>4. Release(h, {Restarted.host}) = h
  BY <1>1, <1>2, NullAssumption DEF Release
<1> HIDE DEF h, c
<1>5. PICK client, buf, host \in FreeIn(h) :
         /\ client # buf /\ buf # host /\ client # host
         /\ conn' = [SocketConfigured(c, client, buf) EXCEPT
                         !.connected = TRUE, !.host = host,
                         !.hostSet = TRUE, !.portSet = TRUE]
         /\ heap' = Store(Store(Store(h, client, "wifi_client"), buf, "read_buf"), host, "host")
  BY <1>2, <1>4 DEF StartSucceeds, ConnectSucceeds, h, c
<1>6. /\ client \in Blocks /\ h[client] = "free"
      /\ buf \in Blocks /\ h[buf] = "free"
      /\ host \in Blocks /\ h[host] = "free"
  BY DEF FreeIn
<1>7. /\ heap' \in [Blocks -> Contents]
      /\ heap'[client] = "wifi_client" /\ heap'[buf] = "read_buf" /\ heap'[host] = "host"
      /\ \A b \in Blocks \ {client, buf, host} : heap'[b] = h[b]
  BY <1>1, <1>5, <1>6 DEF Store, Contents
<1>8. /\ conn' \in Connections
      /\ conn'.enabled /\ ~conn'.hooksOn
      /\ conn'.client = client /\ conn'.readBuf = buf /\ conn'.host = host
      /\ conn'.configured /\ conn'.connected /\ conn'.hostSet /\ conn'.portSet
  BY <1>3, <1>5, <1>6 DEF SocketConfigured, Connections, Pointers
<1> QED  BY <1>6, <1>7, <1>8 DEF h

\* A successful atclient_start_atserver_connection preserves the invariant.
LEMMA StartSucceedsStep == ASSUME IInv, StartSucceeds PROVE IInv'
<1> DEFINE h == Release(heap, StoppedBlocks)
<1>1. atsignSet => atsign \in Blocks /\ h[atsign] = "atsign"
  BY StoppedLemma
<1>2. PICK client, buf, host \in Blocks :
         /\ h[client] = "free" /\ h[buf] = "free" /\ h[host] = "free"
         /\ heap' \in [Blocks -> Contents]
         /\ heap'[client] = "wifi_client" /\ heap'[buf] = "read_buf"
         /\ heap'[host] = "host"
         /\ \A b \in Blocks \ {client, buf, host} : heap'[b] = h[b]
         /\ conn' \in Connections
         /\ conn'.enabled /\ ~conn'.hooksOn
         /\ conn'.client = client /\ conn'.readBuf = buf /\ conn'.host = host
         /\ conn'.configured /\ conn'.connected /\ conn'.hostSet /\ conn'.portSet
  BY StartSucceedsEffect
<1> HIDE DEF h
<1>3. TypeOK'
  BY <1>2 DEF IInv, TypeOK, StartSucceeds
<1>4. PointersSound'
  BY <1>1, <1>2 DEF PointersSound, StartSucceeds, Holds, HooksEnabled
<1>5. StartedIsUsable'
  BY <1>2, NullAssumption DEF StartedIsUsable
<1> QED  BY <1>3, <1>4, <1>5 DEF IInv, Flags, StartSucceeds

\* A failed start: either nothing is allocated, or the socket of a connection that
\* stays enabled is.
LEMMA StartFailsEffect ==
    ASSUME IInv, StartFails
    PROVE  LET h == Release(heap, StoppedBlocks)
           IN  /\ conn' \in Connections
               /\ ~conn'.hooksOn /\ ~conn'.hostSet
               /\ heap' \in [Blocks -> Contents]
               /\ \/ conn'.client = NULL /\ conn'.readBuf = NULL /\ heap' = h
                  \/ /\ conn'.enabled
                     /\ conn'.client \in Blocks /\ conn'.readBuf \in Blocks
                     /\ h[conn'.client] = "free" /\ h[conn'.readBuf] = "free"
                     /\ heap'[conn'.client] = "wifi_client"
                     /\ heap'[conn'.readBuf] = "read_buf"
                     /\ \A b \in Blocks \ {conn'.client, conn'.readBuf} : heap'[b] = h[b]
<1> DEFINE h == Release(heap, StoppedBlocks)
           c == Reenabled(Restarted)
           d == Disabled(c)
<1>1. h \in [Blocks -> Contents]
  BY StoppedLemma
<1>2. /\ Restarted \in Connections
      /\ ~Restarted.hooksOn /\ ~Restarted.hostSet
      /\ Reclaimed(Restarted, h) = h
  BY <1>1, RestartedLemma DEF IInv
<1>3. /\ c \in Connections
      /\ c.enabled = TRUE /\ ~c.hooksOn /\ ~c.hostSet
      /\ c.client = NULL /\ c.readBuf = NULL
  BY <1>2, ReenabledLemma
<1> HIDE DEF c
<1>4. /\ d \in Connections
      /\ d.client = NULL /\ d.readBuf = NULL /\ ~d.hooksOn /\ ~d.hostSet
  BY <1>3, DisabledLemma
<1> HIDE DEF h, d
<1>5. \/ conn' = c /\ heap' = h
      \/ \E client, buf \in FreeIn(h) :
            /\ client # buf
            /\ conn' = SocketConfigured(c, client, buf)
            /\ heap' = Store(Store(h, client, "wifi_client"), buf, "read_buf")
      \/ conn' = d /\ heap' = h
      \/ conn' = [d EXCEPT !.host = NULL] /\ heap' = h
  BY <1>2 DEF StartFails, ConnectFails, ConnectConfigureFails, ConnectTlsFails,
              ConnectBannerFails, ConnectHostFails, h, c, d
<1>6. /\ conn' \in Connections
      /\ ~conn'.hooksOn /\ ~conn'.hostSet
      /\ heap' \in [Blocks -> Contents]
      /\ \/ conn'.client = NULL /\ conn'.readBuf = NULL /\ heap' = h
         \/ /\ conn'.enabled
            /\ conn'.client \in Blocks /\ conn'.readBuf \in Blocks
            /\ h[conn'.client] = "free" /\ h[conn'.readBuf] = "free"
            /\ heap'[conn'.client] = "wifi_client"
            /\ heap'[conn'.readBuf] = "read_buf"
            /\ \A b \in Blocks \ {conn'.client, conn'.readBuf} : heap'[b] = h[b]
  <2>1. CASE conn' = c /\ heap' = h
    BY <1>1, <1>3, <2>1
  <2>2. CASE \E client, buf \in FreeIn(h) :
                /\ client # buf
                /\ conn' = SocketConfigured(c, client, buf)
                /\ heap' = Store(Store(h, client, "wifi_client"), buf, "read_buf")
    <3> PICK client, buf \in FreeIn(h) :
                /\ client # buf
                /\ conn' = SocketConfigured(c, client, buf)
                /\ heap' = Store(Store(h, client, "wifi_client"), buf, "read_buf")
      BY <2>2
    <3>1. /\ client \in Blocks /\ h[client] = "free"
          /\ buf \in Blocks /\ h[buf] = "free"
      BY DEF FreeIn
    <3>2. /\ heap' \in [Blocks -> Contents]
          /\ heap'[client] = "wifi_client" /\ heap'[buf] = "read_buf"
          /\ \A b \in Blocks \ {client, buf} : heap'[b] = h[b]
      BY <1>1, <3>1 DEF Store, Contents
    <3>3. /\ conn' \in Connections
          /\ conn'.enabled /\ ~conn'.hooksOn /\ ~conn'.hostSet
          /\ conn'.client = client /\ conn'.readBuf = buf
      BY <1>3, <3>1 DEF SocketConfigured, Connections, Pointers
    <3> QED  BY <3>1, <3>2, <3>3
  <2>3. CASE conn' = d /\ heap' = h
    BY <1>1, <1>4, <2>3
  <2>4. CASE conn' = [d EXCEPT !.host = NULL] /\ heap' = h
    BY <1>1, <1>4, <2>4 DEF Connections, Pointers
  <2> QED  BY <1>5, <2>1, <2>2, <2>3, <2>4
<1> QED  BY <1>6 DEF h

\* A failed atclient_start_atserver_connection preserves the invariant.
LEMMA StartFailsStep == ASSUME IInv, StartFails PROVE IInv'
<1>1. atsignSet => /\ atsign \in Blocks
                   /\ Release(heap, StoppedBlocks)[atsign] = "atsign"
  BY StoppedLemma
<1>2. /\ conn' \in Connections
      /\ ~conn'.hooksOn /\ ~conn'.hostSet
      /\ heap' \in [Blocks -> Contents]
      /\ atsignSet => heap'[atsign] = "atsign"
      /\ conn'.client # NULL => /\ conn'.enabled /\ conn'.client \in Blocks
                                /\ heap'[conn'.client] = "wifi_client"
      /\ conn'.readBuf # NULL => /\ conn'.enabled /\ conn'.readBuf \in Blocks
                                 /\ heap'[conn'.readBuf] = "read_buf"
  BY <1>1, StartFailsEffect
<1>3. TypeOK'
  BY <1>2 DEF IInv, TypeOK, StartFails
<1>4. PointersSound'
  BY <1>1, <1>2 DEF PointersSound, StartFails, Holds, HooksEnabled
<1>5. StartedIsUsable'
  BY DEF StartedIsUsable, StartFails
<1> QED  BY <1>2, <1>3, <1>4, <1>5 DEF IInv, Flags, StartFails

\* atclient_connection_disconnect preserves the invariant.
LEMMA DisconnectStep == ASSUME IInv, DisconnectConnection PROVE IInv'
<1>1. /\ conn \in Connections
      /\ heap \in [Blocks -> Contents]
      /\ conn.enabled
  BY DEF IInv, TypeOK, DisconnectConnection, Disconnect
<1>2. /\ conn' \in Connections
      /\ ~conn'.enabled /\ conn'.client = NULL /\ conn'.readBuf = NULL
      /\ conn'.hooks = conn.hooks /\ conn'.hooksOn = conn.hooksOn
      /\ conn'.host = conn.host /\ conn'.hostSet = conn.hostSet
  BY <1>1, DisabledLemma DEF DisconnectConnection, Disconnect
<1>3. /\ heap' \in [Blocks -> Contents]
      /\ \A b \in Blocks : heap[b] \notin {"wifi_client", "read_buf"} => heap'[b] = heap[b]
  BY <1>1, ReleaseLemma DEF IInv, PointersSound, Holds, DisconnectConnection, Disconnect,
                            Reclaimed, EnabledBlocks, SocketBlocks
<1>4. TypeOK'
  BY <1>2, <1>3 DEF IInv, TypeOK, DisconnectConnection
<1>5. PointersSound'
  BY <1>2, <1>3 DEF IInv, PointersSound, Holds, HooksEnabled, DisconnectConnection
<1>6. StartedIsUsable'
  BY <1>2 DEF StartedIsUsable
<1> QED  BY <1>2, <1>4, <1>5, <1>6 DEF IInv, Flags, DisconnectConnection
\* Dropping the hooks clears two fields and keeps every other block.
LEMMA UnhookedLemma ==
    ASSUME IInv
    PROVE  /\ Unhooked(conn) \in Connections
           /\ Unhooked(conn).hooks = NULL /\ ~Unhooked(conn).hooksOn
           /\ Unhooked(conn) = [conn EXCEPT !.hooks = NULL, !.hooksOn = FALSE]
           /\ Release(heap, HookBlocks(conn)) \in [Blocks -> Contents]
           /\ \A b \in Blocks : heap[b] # "hooks" => Release(heap, HookBlocks(conn))[b] = heap[b]
<1>1. /\ Unhooked(conn) \in Connections
      /\ Unhooked(conn).hooks = NULL /\ ~Unhooked(conn).hooksOn
  BY DEF IInv, TypeOK, Unhooked, Connections, Pointers
<1>2. Unhooked(conn) = [conn EXCEPT !.hooks = NULL, !.hooksOn = FALSE]
  BY DEF Unhooked
<1>3. /\ Release(heap, HookBlocks(conn)) \in [Blocks -> Contents]
      /\ \A b \in Blocks : heap[b] # "hooks" => Release(heap, HookBlocks(conn))[b] = heap[b]
  BY ReleaseLemma DEF IInv, TypeOK, PointersSound, Holds, HookBlocks
<1> QED  BY <1>1, <1>2, <1>3

\* atclient_connection_hooks_disable preserves the invariant.
LEMMA HooksDisableStep == ASSUME IInv, HooksDisable PROVE IInv'
<1>1. /\ conn' = [conn EXCEPT !.hooks = NULL, !.hooksOn = FALSE]
      /\ conn' \in Connections
      /\ heap' \in [Blocks -> Contents]
      /\ \A b \in Blocks : heap[b] # "hooks" => heap'[b] = heap[b]
  BY UnhookedLemma DEF HooksDisable, DisableHooks
<1>2. /\ ~conn'.hooksOn
      /\ conn'.enabled = conn.enabled
      /\ conn'.client = conn.client /\ conn'.readBuf = conn.readBuf
      /\ conn'.configured = conn.configured /\ conn'.connected = conn.connected
      /\ conn'.host = conn.host /\ conn'.hostSet = conn.hostSet /\ conn'.portSet = conn.portSet
  BY <1>1 DEF IInv, TypeOK, Connections
<1>3. TypeOK'
  BY <1>1 DEF IInv, TypeOK, HooksDisable
<1>4. PointersSound'
  BY <1>1, <1>2 DEF IInv, PointersSound, Holds, HooksEnabled, HooksDisable
<1>5. StartedIsUsable'
  BY <1>2 DEF IInv, StartedIsUsable, HooksDisable
<1> QED  BY <1>2, <1>3, <1>4, <1>5 DEF IInv, Flags, HooksDisable

\* atclient_connection_hooks_enable preserves the invariant, malloc failing included.
LEMMA HooksEnableStep == ASSUME IInv, HooksEnable PROVE IInv'
<1> DEFINE h == Release(heap, HookBlocks(conn))
           c == IF HooksEnabled(conn) THEN Unhooked(conn) ELSE conn
<1>1. /\ h \in [Blocks -> Contents]
      /\ \A b \in Blocks : heap[b] # "hooks" => h[b] = heap[b]
  BY UnhookedLemma
<1>2. /\ c \in Connections
      /\ c.hooks = NULL \/ ~c.hooksOn
      /\ c.enabled = conn.enabled
      /\ c.client = conn.client /\ c.readBuf = conn.readBuf
      /\ c.configured = conn.configured /\ c.connected = conn.connected
      /\ c.host = conn.host /\ c.hostSet = conn.hostSet /\ c.portSet = conn.portSet
  BY UnhookedLemma DEF IInv, TypeOK, Connections, HooksEnabled
<1>3. \/ \E b \in FreeIn(h) : /\ conn' = [c EXCEPT !.hooks = b, !.hooksOn = TRUE]
                              /\ heap' = Store(h, b, "hooks")
      \/ conn' = [c EXCEPT !.hooks = NULL] /\ heap' = h
  BY DEF HooksEnable, EnableHooks
<1> HIDE DEF h, c
<1>4. /\ conn' \in Connections
      /\ heap' \in [Blocks -> Contents]
      /\ \A b \in Blocks : heap[b] \notin {"hooks", "free"} => heap'[b] = heap[b]
      /\ HooksEnabled(conn') => conn'.hooks \in Blocks /\ heap'[conn'.hooks] = "hooks"
      /\ conn'.enabled = conn.enabled
      /\ conn'.client = conn.client /\ conn'.readBuf = conn.readBuf
      /\ conn'.configured = conn.configured /\ conn'.connected = conn.connected
      /\ conn'.host = conn.host /\ conn'.hostSet = conn.hostSet /\ conn'.portSet = conn.portSet
  <2>1. CASE \E b \in FreeIn(h) : /\ conn' = [c EXCEPT !.hooks = b, !.hooksOn = TRUE]
                                  /\ heap' = Store(h, b, "hooks")
    <3> PICK b \in FreeIn(h) : /\ conn' = [c EXCEPT !.hooks = b, !.hooksOn = TRUE]
                               /\ heap' = Store(h, b, "hooks")
      BY <2>1
    <3>1. b \in Blocks /\ h[b] = "free"
      BY DEF FreeIn
    <3>2. /\ heap' \in [Blocks -> Contents]
          /\ heap'[b] = "hooks"
          /\ \A x \in Blocks : heap[x] \notin {"hooks", "free"} => heap'[x] = heap[x]
      BY <1>1, <3>1 DEF Store, Contents
    <3> QED  BY <1>2, <3>1, <3>2 DEF Connections, Pointers
  <2>2. CASE conn' = [c EXCEPT !.hooks = NULL] /\ heap' = h
    BY <1>1, <1>2, <2>2 DEF Connections, Pointers, HooksEnabled
  <2> QED  BY <1>3, <2>1, <2>2
<1>5. TypeOK'
  BY <1>4 DEF IInv, TypeOK, HooksEnable
<1>6. PointersSound'
  BY <1>4 DEF IInv, PointersSound, Holds, HooksEnable
<1>7. StartedIsUsable'
  BY <1>4 DEF IInv, StartedIsUsable, HooksEnable
<1> QED  BY <1>4, <1>5, <1>6, <1>7 DEF IInv, Flags, HooksEnable

\* atclient_free: a context that is not started keeps its connection as it is.
LEMMA FreeStep == ASSUME IInv, Free PROVE IInv'
<1> DEFINE h == Release(heap, AtSignBlocks)
<1>1. /\ h \in [Blocks -> Contents]
      /\ \A b \in Blocks : heap[b] # "atsign" => h[b] = heap[b]
  BY ReleaseLemma DEF IInv, TypeOK, PointersSound, Holds, AtSignBlocks
<1>2. heap' = Release(h, StoppedBlocks) /\ heap' \in [Blocks -> Contents]
  BY <1>1, ReleaseLemma DEF Free
<1>3. CASE started
  <2>1. conn' = Zeroed /\ conn' \in Connections
    BY <1>3, ZeroedLemma DEF Free
  <2> QED  BY <1>2, <2>1, ZeroedLemma DEF IInv, Flags, TypeOK, PointersSound, StartedIsUsable, Free,
                                          HooksEnabled, Pointers
<1>4. CASE ~started
  <2>1. conn' = conn /\ StoppedBlocks = {}
    BY <1>4 DEF Free, StoppedBlocks
  <2>2. \A b \in Blocks : heap[b] # "atsign" => heap'[b] = heap[b]
    BY <1>1, <1>2, <2>1, ReleaseLemma
  <2>3. TypeOK'
    BY <1>2, <2>1 DEF IInv, TypeOK, Free, Pointers
  <2>4. PointersSound'
    BY <2>1, <2>2 DEF IInv, PointersSound, Holds, HooksEnabled, Free
  <2> QED  BY <1>4, <2>1, <2>3, <2>4 DEF IInv, Flags, StartedIsUsable, Free
<1> QED  BY <1>3, <1>4

\* atclient_init preserves the invariant.
LEMMA ReinitStep == ASSUME IInv, Reinit PROVE IInv'
BY ZeroedLemma DEF IInv, Flags, TypeOK, PointersSound, StartedIsUsable, Reinit, Zeroed, HooksEnabled,
                   Pointers

\* Every step preserves the invariant.
LEMMA NextStep == ASSUME IInv, [Next]_vars PROVE IInv'
<1>1. CASE UNCHANGED vars
  BY <1>1 DEF IInv, Flags, TypeOK, PointersSound, StartedIsUsable, Holds, vars
<1>2. CASE Next
  BY <1>2, SetAtSignStep, UnsetAtSignStep, StartSucceedsStep, StartFailsStep, StopStep,
     DisconnectStep, HooksEnableStep, HooksDisableStep, FreeStep, ReinitStep DEF Next, Start
<1> QED  BY <1>1, <1>2

-----------------------------------------------------------------------------
(* Leaks.  Quiet is the situation in which zeroing the connection cannot    *)
(* lose anything; in it no action changes what is leaked.                   *)

Quiet == started \/ ~(conn.enabled \/ HooksEnabled(conn))

\* A leaked block is an allocated one that no flag leads to.
LEMMA LeakedLemma ==
    \A b \in Blocks :
        b \in Leaked <=> /\ heap[b] # "free"
                         /\ ~(conn.enabled /\ (b = conn.client \/ b = conn.readBuf))
                         /\ ~(HooksEnabled(conn) /\ b = conn.hooks)
                         /\ ~(conn.hostSet /\ b = conn.host)
                         /\ ~(atsignSet /\ b = atsign)
BY NullAssumption DEF Leaked, Reachable, OwnedBlocks, EnabledBlocks, SocketBlocks, AtSignBlocks

\* The same of the next state.
LEMMA LeakedLemmaPrime ==
    \A b \in Blocks :
        b \in Leaked' <=> /\ heap'[b] # "free"
                          /\ ~(conn'.enabled /\ (b = conn'.client \/ b = conn'.readBuf))
                          /\ ~(HooksEnabled(conn') /\ b = conn'.hooks)
                          /\ ~(conn'.hostSet /\ b = conn'.host)
                          /\ ~(atsignSet' /\ b = atsign')
BY NullAssumption DEF Leaked, Reachable, OwnedBlocks, EnabledBlocks, SocketBlocks, AtSignBlocks

\* Stopping a quiet connection leaves allocated what was leaked, and the atSign.
LEMMA QuietStopLemma ==
    ASSUME IInv, Quiet
    PROVE  \A b \in Blocks :
              Release(heap, StoppedBlocks)[b] # "free" <=> \/ b \in Leaked
                                                           \/ atsignSet /\ b = atsign
<1>1. \A b \in Blocks : Release(heap, StoppedBlocks)[b] # "free"
                            <=> heap[b] # "free" /\ b \notin StoppedBlocks
  BY DEF Release
<1>2. OwnedBlocks(conn) = StoppedBlocks
  BY DEF IInv, Flags, Quiet, StoppedBlocks, OwnedBlocks, EnabledBlocks
<1>3. \A b \in Blocks : b \in Leaked <=> /\ heap[b] # "free"
                                         /\ b \notin StoppedBlocks
                                         /\ ~(atsignSet /\ b = atsign)
  BY <1>2, NullAssumption DEF Leaked, Reachable, AtSignBlocks
<1>4. atsignSet => Release(heap, StoppedBlocks)[atsign] = "atsign"
  BY StoppedLemma
<1> QED  BY <1>1, <1>3, <1>4

\* A start from a quiet connection, successful or not, leaks nothing.
LEMMA LeakStart == ASSUME IInv, Quiet, Start PROVE \A b \in Blocks : b \in Leaked' <=> b \in Leaked
<1> DEFINE h == Release(heap, StoppedBlocks)
<1>1. \A b \in Blocks : h[b] # "free" <=> b \in Leaked \/ (atsignSet /\ b = atsign)
  BY QuietStopLemma
<1>2. \A b \in Blocks : atsignSet /\ b = atsign => b \notin Leaked
  BY LeakedLemma
<1>3. CASE StartSucceeds
  <2>1. PICK client, buf, host \in Blocks :
           /\ h[client] = "free" /\ h[buf] = "free" /\ h[host] = "free"
           /\ heap'[client] = "wifi_client" /\ heap'[buf] = "read_buf"
           /\ heap'[host] = "host"
           /\ \A b \in Blocks \ {client, buf, host} : heap'[b] = h[b]
           /\ conn'.enabled /\ ~conn'.hooksOn
           /\ conn'.client = client /\ conn'.readBuf = buf /\ conn'.host = host
           /\ conn'.hostSet
    BY <1>3, StartSucceedsEffect
  <2>2. atsign' = atsign /\ atsignSet' = atsignSet
    BY <1>3 DEF StartSucceeds
  <2> HIDE DEF h
  <2> QED  BY <1>1, <1>2, <2>1, <2>2, LeakedLemmaPrime DEF HooksEnabled
<1>4. CASE StartFails
  <2>1. /\ ~conn'.hooksOn /\ ~conn'.hostSet
        /\ \/ conn'.client = NULL /\ conn'.readBuf = NULL /\ heap' = h
           \/ /\ conn'.enabled
              /\ conn'.client \in Blocks /\ conn'.readBuf \in Blocks
              /\ h[conn'.client] = "free" /\ h[conn'.readBuf] = "free"
              /\ heap'[conn'.client] = "wifi_client"
              /\ heap'[conn'.readBuf] = "read_buf"
              /\ \A b \in Blocks \ {conn'.client, conn'.readBuf} : heap'[b] = h[b]
    BY <1>4, StartFailsEffect
  <2>2. atsign' = atsign /\ atsignSet' = atsignSet
    BY <1>4 DEF StartFails
  <2> HIDE DEF h
  <2> QED  BY <1>1, <1>2, <2>1, <2>2, LeakedLemmaPrime, NullAssumption DEF HooksEnabled
<1> QED  BY <1>3, <1>4 DEF Start

\* Stopping a quiet connection leaks nothing.
LEMMA LeakStop == ASSUME IInv, Quiet, Stop PROVE \A b \in Blocks : b \in Leaked' <=> b \in Leaked
<1>1. \A b \in Blocks : heap'[b] # "free" <=> b \in Leaked \/ (atsignSet /\ b = atsign)
  BY QuietStopLemma DEF Stop
<1>2. ~conn'.enabled /\ ~HooksEnabled(conn') /\ ~conn'.hostSet
  BY ZeroedLemma DEF Stop, HooksEnabled
<1> QED  BY <1>1, <1>2, LeakedLemma, LeakedLemmaPrime DEF Stop

\* Setting and unsetting the atSign leak nothing.
LEMMA LeakAtSign ==
    ASSUME IInv, SetAtSign \/ UnsetAtSign
    PROVE  \A b \in Blocks : b \in Leaked' <=> b \in Leaked
<1> DEFINE h == Release(heap, AtSignBlocks)
<1>1. \A b \in Blocks : h[b] # "free" <=> heap[b] # "free" /\ ~(atsignSet /\ b = atsign)
  BY NullAssumption DEF Release, AtSignBlocks
<1>2. conn' = conn
  BY DEF SetAtSign, UnsetAtSign
<1>3. \/ /\ heap' = h
         /\ ~atsignSet'
      \/ \E b \in FreeIn(h) : heap' = Store(h, b, "atsign") /\ atsign' = b /\ atsignSet'
  BY DEF SetAtSign, UnsetAtSign
<1>4. CASE heap' = h /\ ~atsignSet'
  BY <1>1, <1>2, <1>4, LeakedLemma, LeakedLemmaPrime
<1>5. CASE \E b \in FreeIn(h) : heap' = Store(h, b, "atsign") /\ atsign' = b /\ atsignSet'
  <2> PICK b \in FreeIn(h) : heap' = Store(h, b, "atsign") /\ atsign' = b /\ atsignSet'
    BY <1>5
  <2>1. b \in Blocks /\ h[b] = "free"
    BY DEF FreeIn
  <2>2. \A x \in Blocks : heap'[x] # "free" <=> h[x] # "free" \/ x = b
    BY <2>1 DEF Store, Release
  <2> HIDE DEF h
  <2> QED  BY <1>1, <1>2, <2>1, <2>2, LeakedLemma, LeakedLemmaPrime
<1> QED  BY <1>3, <1>4, <1>5

\* Disconnecting leaks nothing.
LEMMA LeakDisconnect ==
    ASSUME IInv, DisconnectConnection
    PROVE  \A b \in Blocks : b \in Leaked' <=> b \in Leaked
<1>1. /\ ~conn'.enabled
      /\ conn'.hooks = conn.hooks /\ conn'.hooksOn = conn.hooksOn
      /\ conn'.host = conn.host /\ conn'.hostSet = conn.hostSet
  BY DisabledLemma DEF IInv, TypeOK, DisconnectConnection, Disconnect
<1>2. \A b \in Blocks : heap'[b] # "free" <=> /\ heap[b] # "free"
                                              /\ b # conn.client /\ b # conn.readBuf
  BY NullAssumption DEF DisconnectConnection, Disconnect, Reclaimed, Release, EnabledBlocks,
                        SocketBlocks
<1>3. conn.enabled /\ atsign' = atsign /\ atsignSet' = atsignSet
  BY DEF DisconnectConnection, Disconnect
<1> QED  BY <1>1, <1>2, <1>3, LeakedLemma, LeakedLemmaPrime DEF HooksEnabled

\* Enabling and disabling hooks leak nothing.
LEMMA LeakHooks ==
    ASSUME IInv, HooksEnable \/ HooksDisable
    PROVE  \A b \in Blocks : b \in Leaked' <=> b \in Leaked
<1> DEFINE h == Release(heap, HookBlocks(conn))
<1>1. \A b \in Blocks : h[b] # "free" <=> /\ heap[b] # "free"
                                          /\ ~(HooksEnabled(conn) /\ b = conn.hooks)
  BY DEF Release, HookBlocks
<1>2. /\ conn'.enabled = conn.enabled
      /\ conn'.client = conn.client /\ conn'.readBuf = conn.readBuf
      /\ conn'.host = conn.host /\ conn'.hostSet = conn.hostSet
      /\ \/ ~HooksEnabled(conn') /\ heap' = h
         \/ \E b \in FreeIn(h) : /\ HooksEnabled(conn') /\ conn'.hooks = b
                                 /\ heap' = Store(h, b, "hooks")
  <2>1. CASE HooksDisable
    BY <2>1, UnhookedLemma DEF HooksDisable, DisableHooks, HooksEnabled, IInv, TypeOK, Connections
  <2>2. CASE HooksEnable
    <3> DEFINE c == IF HooksEnabled(conn) THEN Unhooked(conn) ELSE conn
    <3>1. /\ c \in Connections
          /\ c.hooks = NULL \/ ~c.hooksOn
          /\ c.enabled = conn.enabled
          /\ c.client = conn.client /\ c.readBuf = conn.readBuf
          /\ c.host = conn.host /\ c.hostSet = conn.hostSet
      BY UnhookedLemma DEF IInv, TypeOK, Connections, HooksEnabled
    <3>2. \/ \E b \in FreeIn(h) : /\ conn' = [c EXCEPT !.hooks = b, !.hooksOn = TRUE]
                                  /\ heap' = Store(h, b, "hooks")
          \/ conn' = [c EXCEPT !.hooks = NULL] /\ heap' = h
      BY <2>2 DEF HooksEnable, EnableHooks
    <3>3. \A b \in FreeIn(h) : b \in Blocks
      BY DEF FreeIn
    <3> HIDE DEF h, c
    <3> QED  BY <3>1, <3>2, <3>3, NullAssumption DEF Connections, HooksEnabled
  <2> QED  BY <2>1, <2>2
<1>3. atsign' = atsign /\ atsignSet' = atsignSet
  BY DEF HooksEnable, HooksDisable
<1>4. CASE ~HooksEnabled(conn') /\ heap' = h
  BY <1>1, <1>2, <1>3, <1>4, LeakedLemma, LeakedLemmaPrime
<1>5. CASE \E b \in FreeIn(h) : /\ HooksEnabled(conn') /\ conn'.hooks = b
                                /\ heap' = Store(h, b, "hooks")
  <2> PICK b \in FreeIn(h) : /\ HooksEnabled(conn') /\ conn'.hooks = b
                             /\ heap' = Store(h, b, "hooks")
    BY <1>5
  <2>1. b \in Blocks /\ h[b] = "free"
    BY DEF FreeIn
  <2>2. \A x \in Blocks : heap'[x] # "free" <=> h[x] # "free" \/ x = b
    BY <2>1 DEF Store, Release
  <2> HIDE DEF h
  <2> QED  BY <1>1, <1>2, <1>3, <2>1, <2>2, LeakedLemma, LeakedLemmaPrime
<1> QED  BY <1>2, <1>4, <1>5

\* atclient_free of a quiet context leaks nothing.
LEMMA LeakFree == ASSUME IInv, Quiet, Free PROVE \A b \in Blocks : b \in Leaked' <=> b \in Leaked
<1>1. \A b \in Blocks : heap'[b] # "free" <=> /\ heap[b] # "free"
                                              /\ ~(atsignSet /\ b = atsign)
                                              /\ b \notin StoppedBlocks
  BY NullAssumption DEF Free, Release, AtSignBlocks
<1>2. OwnedBlocks(conn) = StoppedBlocks
  BY DEF IInv, Flags, Quiet, StoppedBlocks, OwnedBlocks, EnabledBlocks
<1>3. \A b \in Blocks : b \in Leaked <=> heap'[b] # "free"
  BY <1>1, <1>2, NullAssumption DEF Leaked, Reachable, AtSignBlocks
<1>4. /\ ~conn'.enabled \/ StoppedBlocks = {}
      /\ ~atsignSet'
  BY ZeroedLemma DEF Free, StoppedBlocks
<1>5. ~conn'.enabled /\ ~HooksEnabled(conn') /\ ~conn'.hostSet
  BY ZeroedLemma DEF Free, IInv, Flags, Quiet, HooksEnabled
<1> QED  BY <1>3, <1>4, <1>5, LeakedLemmaPrime

\* atclient_init of a freed, quiet context leaks nothing.
LEMMA LeakReinit ==
    ASSUME IInv, Quiet, Reinit
    PROVE  \A b \in Blocks : b \in Leaked' <=> b \in Leaked
<1>1. ~started /\ ~atsignSet /\ ~conn.hostSet /\ ~conn.enabled /\ ~HooksEnabled(conn)
  BY DEF IInv, Flags, Quiet, Reinit
<1>2. /\ heap' = heap /\ ~atsignSet'
      /\ ~conn'.hostSet /\ ~conn'.enabled /\ ~HooksEnabled(conn')
  BY ZeroedLemma DEF Reinit, HooksEnabled
<1> QED  BY <1>1, <1>2, LeakedLemma, LeakedLemmaPrime

-----------------------------------------------------------------------------
(* The theorems                                                            *)

\* The inductive invariant holds in every reachable state.
THEOREM IInvHolds == Spec => []IInv
<1>1. IInv /\ [Next]_vars => IInv'
  BY NextStep
<1> QED  BY InitIInv, <1>1, PTL DEF Spec

\* Every variable keeps its type, whatever the heap.
THEOREM TypeCorrect == Spec => []TypeOK
BY IInvHolds, PTL DEF IInv

\* No call frees or dereferences memory that is not allocated for that purpose.
THEOREM PointersAreSound == Spec => []PointersSound
BY IInvHolds, PTL DEF IInv

\* A connection that counts as started and is enabled can be read from and written to.
THEOREM StartedConnectionIsUsable == Spec => []StartedIsUsable
BY IInvHolds, PTL DEF IInv

\* Memory is lost only when a connection that is not started, but holds a socket or
\* hooks, is zeroed.
THEOREM LeaksAreConfined == Spec => LeaksOnlyWhenNotStarted
<1>1. ASSUME IInv, [Next]_vars
      PROVE  Leaked' # Leaked => ~started /\ (conn.enabled \/ HooksEnabled(conn))
  <2> SUFFICES ASSUME Quiet PROVE Leaked' = Leaked
    BY DEF Quiet
  <2>1. Leaked \subseteq Blocks /\ Leaked' \subseteq Blocks
    BY DEF Leaked
  <2>2. CASE UNCHANGED vars
    BY <2>2 DEF vars, Leaked, Reachable, AtSignBlocks
  <2>3. CASE Next
    <3>1. \A b \in Blocks : b \in Leaked' <=> b \in Leaked
      BY <1>1, <2>3, LeakAtSign, LeakStart, LeakStop, LeakDisconnect, LeakHooks, LeakFree,
         LeakReinit DEF Next
    <3> QED  BY <2>1, <3>1
  <2> QED  BY <1>1, <2>2, <2>3
<1>2. IInv /\ [Next]_vars => [Leaked' # Leaked => /\ ~started
                                                  /\ conn.enabled \/ HooksEnabled(conn)]_vars
  BY <1>1
<1> QED  BY IInvHolds, <1>2, PTL DEF Spec, LeaksOnlyWhenNotStarted

=============================================================================
