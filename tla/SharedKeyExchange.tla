-------------------------- MODULE SharedKeyExchange --------------------------
(***************************************************************************)
(* The AES key one atSign ("me") shares with another: how clients of that  *)
(* atSign look it up, create it and encrypt with it, and how readers find  *)
(* the key of what they read.  The atServer keeps it twice, as             *)
(* shared_key.other@me (mine, for our own use) and as                      *)
(* @other:shared_key@me (theirs); two commands write the pair.             *)
(*                                                                         *)
(* A client runs one call at a time and waits for one answer at a time.    *)
(* Its connection is what Exchange promises: commands are executed in      *)
(* order, each has one answer, a read that gives up leaves its answer in   *)
(* the stream and the next read takes that one.  The atServer and the      *)
(* network are external.                                                   *)
(***************************************************************************)
EXTENDS Naturals, Sequences

CONSTANTS
    Clients,    \* the clients of the atSign, each with its own connection
    Keys,       \* the AES keys atchops_aes_generate_key can return
    NoKey,
    MaxUnread   \* bound: commands and answers on the way on one connection

ASSUME NoKeyAssumption == NoKey \notin Keys
ASSUME MaxUnreadAssumption == MaxUnread \in Nat \ {0}

VARIABLES
    mine, theirs,   \* the pair at the atServer
    sealed,         \* the key the last stored value and the last notification are under
    used,           \* keys generated so far
    pc,             \* the answer each client waits for, "idle" between calls
    op,             \* the call in progress: "put" or "notify"
    key,            \* the shared encryption key of that call
    link,           \* the connection of each client
    reader,         \* a program that reads, on either side
    acked,          \* history: the key of the last put that returned 0
    mishaps         \* history: "replaced", "interrupted", "stale"

serverVars == <<mine, theirs, sealed>>
clientVars == <<used, pc, op, key, acked>>
vars == <<serverVars, clientVars, link, reader, mishaps>>

-----------------------------------------------------------------------------
(* Commands and answers                                                    *)

Cmd(c, k) == [c |-> c, k |-> k]
Ans(a, k) == [a |-> a, k |-> k]

Ack == Ans("ack", NoKey)
NotFound == Ans("notfound", NoKey)
Junk == Ans("junk", NoKey)      \* an error, nothing, or a piece of an answer
IsData(x) == x.a \in {"key", "pub", "ack"}

\* What a read of the answers s can give, and what it leaves: nothing came in time;
\* the whole line, or no memory for its copy; a part of the line, which will do where
\* the code looks at a prefix only.
Reads(s) ==
    IF s = <<>> THEN {[ans |-> Junk, rest |-> <<>>]}
    ELSE {[ans |-> Head(s), rest |-> Tail(s)], [ans |-> Junk, rest |-> Tail(s)]}
         \cup {[ans |-> x, rest |-> <<Junk>> \o Tail(s)] :
                   x \in {Junk} \cup ({Head(s)} \cap {Ack, NotFound})}

\* a connection just authenticated
Fresh == [up |-> TRUE, asked |-> <<>>, answers |-> <<>>]

\* nothing of an earlier command is on the way
InStep(l) == l.asked = <<>> /\ l.answers = <<>>

Room(l) == Len(l.asked) + Len(l.answers) < MaxUnread

\* l after cmd was written: a dead connection may swallow it
Written(l, cmd) == IF l.up THEN [l EXCEPT !.asked = Append(@, cmd)] ELSE l

-----------------------------------------------------------------------------
(* The steps of a call.  A step takes the answer r from the connection and, *)
(* unless the call ends, writes the next command.                           *)

After(c, r) == [link[c] EXCEPT !.answers = r.rest]

Asks(c, l, cmd, next) ==
    /\ Room(l)
    /\ link' = [link EXCEPT ![c] = Written(l, cmd)]
    /\ pc' = [pc EXCEPT ![c] = next]
    /\ UNCHANGED <<op, acked>>

\* the call returns and its buffers are gone
Ends(c, l) ==
    /\ link' = [link EXCEPT ![c] = l]
    /\ pc' = [pc EXCEPT ![c] = "idle"]
    /\ op' = [op EXCEPT ![c] = "put"]
    /\ key' = [key EXCEPT ![c] = NoKey]

Fails(c, l) == Ends(c, l) /\ UNCHANGED <<used, acked>>

\* put and notify encrypt the value with key k and send it; with async_read a put
\* returns at once and leaves the answer unread
SendsValue(c, l, k) ==
    \/ /\ Asks(c, l, Cmd(op[c], k), "value")
       /\ key' = [key EXCEPT ![c] = k]
    \/ /\ op[c] = "put"
       /\ Room(l)
       /\ Ends(c, Written(l, Cmd("put", k)))
       /\ UNCHANGED acked

\* atclient_put_shared_key or atclient_notify, through the llookup of
\* atclient_get_shared_encryption_key_shared_by_me
Begin(c, o) ==
    /\ pc[c] = "idle"
    /\ Room(link[c])
    /\ link' = [link EXCEPT ![c] = Written(link[c], Cmd("get", NoKey))]
    /\ pc' = [pc EXCEPT ![c] = "get"]
    /\ op' = [op EXCEPT ![c] = o]
    /\ mishaps' = mishaps \cup (IF InStep(link[c]) THEN {} ELSE {"stale"})
    /\ UNCHANGED <<serverVars, used, key, acked, reader>>

\* put creates a pair when there is none, notify whenever the key was not had
Creates(o, ans) == ans = NotFound \/ o = "notify"

GetAnswer(c) ==
    /\ pc[c] = "get"
    /\ \E r \in Reads(link[c].answers) :
        \/ /\ r.ans.a = "key"
           /\ SendsValue(c, After(c, r), r.ans.k)
        \/ /\ Creates(op[c], r.ans)
           /\ Asks(c, After(c, r), Cmd("lookup", NoKey), "pub")
           /\ UNCHANGED key
        \/ Fails(c, After(c, r))
    /\ UNCHANGED <<serverVars, used, reader, mishaps>>

\* Wrong on purpose: what was in the buffer before is taken for the key
PublicKeyAnswerKeepsBuffer(c) ==
    /\ pc[c] = "pub"
    /\ \E r \in Reads(link[c].answers) :
        \/ /\ r.ans.a = "pub"
           /\ used' = used \cup {key[c]}
           /\ UNCHANGED key
           /\ Asks(c, After(c, r), Cmd("us", key[c]), "us")
        \/ Fails(c, After(c, r))
    /\ UNCHANGED <<serverVars, reader, mishaps>>

\* the other's public key: an AES key is generated, encrypted for both, and ours sent
PublicKeyAnswer(c) ==
    /\ pc[c] = "pub"
    /\ \E r \in Reads(link[c].answers) :
        \/ /\ r.ans.a = "pub"
           /\ \E k \in Keys \ used :
                /\ used' = used \cup {k}
                /\ key' = [key EXCEPT ![c] = k]
                /\ Asks(c, After(c, r), Cmd("us", k), "us")
        \/ Fails(c, After(c, r))
    /\ UNCHANGED <<serverVars, reader, mishaps>>

\* Wrong on purpose: each copy gets a key of its own
OursAnswerGenerates(c) ==
    /\ pc[c] = "us"
    /\ \E r \in Reads(link[c].answers) :
        \/ /\ IsData(r.ans)
           /\ \E k \in Keys \ used : Asks(c, After(c, r), Cmd("them", k), "them")
           /\ UNCHANGED <<used, key, mishaps>>
        \/ /\ Fails(c, After(c, r))
           /\ mishaps' = mishaps \cup {"interrupted"}
    /\ UNCHANGED <<serverVars, reader>>

\* 7a to 7b: our copy is stored, theirs is sent
OursAnswer(c) ==
    /\ pc[c] = "us"
    /\ \E r \in Reads(link[c].answers) :
        \/ /\ IsData(r.ans)
           /\ Asks(c, After(c, r), Cmd("them", key[c]), "them")
           /\ UNCHANGED <<used, key, mishaps>>
        \/ /\ Fails(c, After(c, r))
           /\ mishaps' = mishaps \cup {"interrupted"}
    /\ UNCHANGED <<serverVars, reader>>

\* Wrong on purpose: any answer to 7b will do
TheirsAnswerUnchecked(c) ==
    /\ pc[c] = "them"
    /\ \E r \in Reads(link[c].answers) :
        SendsValue(c, After(c, r), key[c]) \/ Fails(c, After(c, r))
    /\ UNCHANGED <<serverVars, used, reader, mishaps>>

TheirsAnswer(c) ==
    /\ pc[c] = "them"
    /\ \E r \in Reads(link[c].answers) :
        \/ /\ IsData(r.ans)
           /\ SendsValue(c, After(c, r), key[c]) \/ Fails(c, After(c, r))
           /\ UNCHANGED <<used, mishaps>>
        \/ /\ ~IsData(r.ans)
           /\ Fails(c, After(c, r))
           /\ mishaps' = mishaps \cup {"interrupted"}
    /\ UNCHANGED <<serverVars, reader>>

ValueAnswer(c) ==
    /\ pc[c] = "value"
    /\ \E r \in Reads(link[c].answers) :
        /\ Ends(c, After(c, r))
        /\ acked' = IF IsData(r.ans) /\ op[c] = "put" THEN key[c] ELSE acked
    /\ UNCHANGED <<serverVars, used, reader, mishaps>>

\* the application stops and authenticates again between two calls
Reconnect(c) ==
    /\ pc[c] = "idle"
    /\ link' = [link EXCEPT ![c] = Fresh]
    /\ UNCHANGED <<serverVars, clientVars, reader, mishaps>>

-----------------------------------------------------------------------------
(* The atServer                                                            *)

\* it may refuse anything
Refuses == Junk

Serve(c) ==
    /\ link[c].asked # <<>>
    /\ LET cmd == Head(link[c].asked)
           Answers(x) == link' = [link EXCEPT ![c].asked = Tail(@), ![c].answers = Append(@, x)]
       IN  \/ /\ cmd.c = "get"
              /\ Answers(IF mine = NoKey THEN NotFound ELSE Ans("key", mine))
              /\ UNCHANGED <<serverVars, mishaps>>
           \/ /\ cmd.c = "lookup"
              /\ Answers(Ans("pub", NoKey))
              /\ UNCHANGED <<serverVars, mishaps>>
           \/ /\ cmd.c = "us"
              /\ mine' = cmd.k
              /\ mishaps' = mishaps \cup (IF mine = NoKey THEN {} ELSE {"replaced"})
              /\ Answers(Ack)
              /\ UNCHANGED <<theirs, sealed>>
           \/ /\ cmd.c = "them"
              /\ theirs' = cmd.k
              /\ Answers(Ack)
              /\ UNCHANGED <<mine, sealed, mishaps>>
           \/ /\ cmd.c \in {"put", "notify"}
              /\ sealed' = [sealed EXCEPT ![cmd.c] = cmd.k]
              /\ Answers(Ack)
              /\ UNCHANGED <<mine, theirs, mishaps>>
           \/ /\ Answers(Refuses)
              /\ UNCHANGED <<serverVars, mishaps>>
    /\ UNCHANGED <<clientVars, reader>>

\* what was not executed is lost; answers already sent may still be read
Drops(c) ==
    /\ link[c].up
    /\ link' = [link EXCEPT ![c].up = FALSE, ![c].asked = <<>>]
    /\ UNCHANGED <<serverVars, clientVars, reader, mishaps>>

-----------------------------------------------------------------------------
(* A program that reads.  It uses a connection in step, so each of its two  *)
(* lookups is one step of the atServer; a lookup that finds nothing ends    *)
(* the call.                                                                *)

Idle == [how |-> "idle", held |-> NoKey, got |-> "nothing"]

\* atclient_get_shared_key looks the key up first, theirs or its own
ReadsKey(how) ==
    /\ reader.how = "idle"
    /\ LET k == IF how = "own" THEN mine ELSE theirs
       IN  /\ k # NoKey
           /\ reader' = [how |-> how, held |-> k, got |-> "nothing"]
    /\ UNCHANGED <<serverVars, clientVars, link, mishaps>>

ReadsValue ==
    /\ reader.how \in {"own", "other"}
    /\ reader' = [Idle EXCEPT !.got =
            IF sealed["put"] = NoKey THEN "nothing"
            ELSE IF sealed["put"] = reader.held THEN "value" ELSE "garbage"]
    /\ UNCHANGED <<serverVars, clientVars, link, mishaps>>

\* atclient_monitor_read has the value and then looks the key up
ReadsNotification ==
    /\ reader.how = "idle"
    /\ sealed["notify"] # NoKey
    /\ reader' = [how |-> "monitor", held |-> sealed["notify"], got |-> "nothing"]
    /\ UNCHANGED <<serverVars, clientVars, link, mishaps>>

DecryptsNotification ==
    /\ reader.how = "monitor"
    /\ reader' = [Idle EXCEPT !.got =
            IF theirs = NoKey THEN "nothing"
            ELSE IF theirs = reader.held THEN "value" ELSE "garbage"]
    /\ UNCHANGED <<serverVars, clientVars, link, mishaps>>

-----------------------------------------------------------------------------
Init ==
    /\ mine = NoKey /\ theirs = NoKey
    /\ sealed = [o \in {"put", "notify"} |-> NoKey]
    /\ used = {}
    /\ pc = [c \in Clients |-> "idle"]
    /\ op = [c \in Clients |-> "put"]
    /\ key = [c \in Clients |-> NoKey]
    /\ link = [c \in Clients |-> Fresh]
    /\ reader = Idle
    /\ acked = NoKey
    /\ mishaps = {}

Call(c) ==
    \/ \E o \in {"put", "notify"} : Begin(c, o)
    \/ GetAnswer(c)
    \/ PublicKeyAnswer(c)
    \/ OursAnswer(c)
    \/ TheirsAnswer(c)
    \/ ValueAnswer(c)
    \/ Reconnect(c)

Read ==
    \/ \E how \in {"own", "other"} : ReadsKey(how)
    \/ ReadsValue
    \/ ReadsNotification
    \/ DecryptsNotification

Next ==
    \/ \E c \in Clients : Call(c) \/ Serve(c) \/ Drops(c)
    \/ Read

Spec == Init /\ [][Next]_vars

-----------------------------------------------------------------------------
(* Properties                                                              *)

MaybeKeys == Keys \cup {NoKey}

Links ==
    [up : BOOLEAN,
     asked : Seq([c : {"get", "lookup", "us", "them", "put", "notify"}, k : MaybeKeys]),
     answers : Seq([a : {"key", "pub", "ack", "notfound", "junk"}, k : MaybeKeys])]

TypeOK ==
    /\ mine \in MaybeKeys /\ theirs \in MaybeKeys /\ acked \in MaybeKeys
    /\ sealed \in [{"put", "notify"} -> MaybeKeys]
    /\ used \subseteq Keys
    /\ pc \in [Clients -> {"idle", "get", "pub", "us", "them", "value"}]
    /\ op \in [Clients -> {"put", "notify"}]
    /\ key \in [Clients -> MaybeKeys]
    /\ link \in [Clients -> Links]
    /\ reader \in [how : {"idle", "own", "other", "monitor"}, held : MaybeKeys,
                   got : {"nothing", "value", "garbage"}]
    /\ mishaps \subseteq {"replaced", "interrupted", "stale"}

\* Two things spoil the pair: a creation over an existing pair (a race, or a notify
\* whose lookup failed) and a call on a connection that still carries an earlier
\* answer.  Short of those the other side's copy is ours or is missing, and what was
\* put or notified is under ours: through timeouts, refusals, lost connections, lines
\* cut short, clients that interleave, creations cut short half way and the updates
\* they leave under way.  And when no creation was cut short, theirs is missing only
\* as long as some client is half way.
Intact == mishaps \subseteq {"interrupted"}

Agreement ==
    Intact =>
        /\ theirs \in {NoKey, mine}
        /\ mishaps = {} /\ (\A c \in Clients : pc[c] \notin {"us", "them"}) => mine = theirs
        /\ \A o \in {"put", "notify"} : sealed[o] \in {NoKey, mine}

\* AES-CTR decrypts with any key, so a reader that has the wrong one gets garbage and
\* not an error.  Short of the same two things no reader does, whatever changes at
\* the atServer between its two lookups.
NoGarbage == Intact => reader.got # "garbage"

\* "Putting a shared key is a shared value and is encrypted for you and the person you
\* shared it with ... @return int 0 on success" (atclient_put_shared_key, atclient.h):
\* when a put returns 0 the other atSign has the key of the value.
PutIsShared == [][acked' # acked => theirs = acked']_vars
=============================================================================
