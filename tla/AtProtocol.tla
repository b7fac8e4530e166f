----------------------------- MODULE AtProtocol -----------------------------
(***************************************************************************)
(* One atServer connection at the level of the atProtocol: the commands    *)
(* the client writes, the answers and prompts the server writes back, and  *)
(* the reads that cut that stream into answers.  The callers modelled are  *)
(* the two authentications, which read several answers in a row, and every *)
(* function that sends one command with atclient_connection_send.          *)
(*                                                                         *)
(* A byte stream is a sequence of tokens, split where the code can tell    *)
(* the difference: the '@' that opens a prompt, the rest of a prompt after *)
(* authentication ("alice@"), the head of an answer (through "data:" or    *)
(* "error:") and its tail (through the '\n').  A read may end between any  *)
(* two tokens.  The server and the network are external: they are modelled *)
(* from what the client's code expects of them.                            *)
(***************************************************************************)
EXTENDS Naturals, Sequences, SequencesExt

CONSTANT MaxSent    \* bound: commands written on one connection

ASSUME MaxSentAssumption == MaxSent \in Nat

VARIABLES
    link,       \* "none" (no usable socket), "up" or "closed" (by the peer)
    requests,   \* commands written and not yet executed by the server
    wire,       \* tokens the server wrote and the client has not received
    inbox,      \* tokens received and not yet read
    authed,     \* the server session of this connection is authenticated
    sent,       \* commands written on this connection
    phase,      \* where the call in progress is, "idle" between calls
    mode,       \* the authentication in progress: "pkam" or "cram"
    recv,       \* the caller's receive buffer
    last,       \* the last call that returned, and how
    atsignSet,  \* _initialized_fields bit 0 of the context
    started,    \* _initialized_fields bit 1 of the context
    broken,     \* history: how reads of this connection ended early
    answered    \* history: the last command whose answer was handed to a caller

serverVars == <<link, requests, wire, authed>>
contextVars == <<atsignSet, started>>
vars == <<link, requests, wire, inbox, authed, sent, phase, mode, recv, last,
          atsignSet, started, broken, answered>>

-----------------------------------------------------------------------------
(* Tokens                                                                  *)

Results == {"challenge", "success", "data", "big", "long", "error"}

At == [t |-> "at", n |-> 0, v |-> "none"]
Name == [t |-> "name", n |-> 0, v |-> "none"]
HeadOf(n, v) == [t |-> "head", n |-> n, v |-> v]
TailOf(n) == [t |-> "tail", n |-> n, v |-> "none"]

\* the whole answer v to command n
AnswerTo(n, v) == <<HeadOf(n, v), TailOf(n)>>

IsHead(x) == x.t = "head"
IsTail(x) == x.t = "tail"
EndsRead(x) == x.t = "tail" \/ x.v = "long"
EndsWithAt(x) == x.t \in {"at", "name"}

-----------------------------------------------------------------------------
(* Reading                                                                 *)

\* atclient_tls_socket_read until '\n' over the received tokens s: after how many it
\* ends.  It takes what is there up to the line's end; when there is no such end it
\* takes all and times out, and an answer longer than READ_BUF_SIZE ends it early.
LineReads(s) ==
    LET end == SelectInSeq(s, EndsRead)
    IN  {IF end = 0 THEN Len(s) ELSE end}

\* atclient_tls_socket_read until '@', which may also be found inside the rest of a
\* challenge; the rest of that token then stays
PromptReads(s) ==
    LET at == SelectInSeq(s, EndsWithAt)
        k == IF at # 0 THEN at ELSE Len(s)
    IN  {k} \cup {i - 1 : i \in {j \in 1..k : IsTail(s[j])}}

Taken(s, k) == SubSeq(s, 1, k)
Rest(s, k) == SubSeq(s, k + 1, Len(s))

\* Wrong on purpose: the prompt is kept in front of the answer
StripNothing(line) == line

\* atclient_utils_find_index_past_at_prompt: a line that starts with '@' is searched
\* for its ':' and kept from after the last '@' before it
Parsable(line) == line[1].t = "at" => SelectInSeq(line, IsHead) # 0

StripPrompt(line) ==
    IF line[1].t = "at" THEN SubSeq(line, SelectInSeq(line, IsHead), Len(line)) ELSE line

\* what is copied to recv: nothing when the answer does not fit (the call succeeds
\* all the same); what came of a large answer that was cut may fit
Copied(line) ==
    IF \A x \in ToSet(line) : x.v \notin {"big", "long"} THEN {StripPrompt(line)}
    ELSE IF IsTail(Last(line)) THEN {<<>>}
    ELSE {<<>>, StripPrompt(line)}

Answered(got) ==
    LET h == SelectInSeq(got, IsHead)
    IN  IF h = 0 THEN answered ELSE got[h].n

\* The outcomes of step 9 of atclient_connection_send: how many tokens the read took,
\* what the send returns, what it leaves in recv, and how the read ended.  The copy
\* of the line may fail to be allocated after the line was taken.
LineResults(line) ==
    IF line = <<>>
    THEN {[k |-> 0, ret |-> "failed", got |-> <<>>, why |-> "timeout"]}
    ELSE LET why == IF IsTail(Last(line)) THEN "whole" ELSE "cut"
         IN  {[k |-> Len(line), ret |-> "failed", got |-> <<>>, why |-> why]} \cup
             IF Parsable(line)
             THEN {[k |-> Len(line), ret |-> "ok", got |-> g, why |-> why] : g \in Copied(line)}
             ELSE {[k |-> Len(line), ret |-> "failed", got |-> <<>>, why |-> "unparsed"]}

SendResults == UNION {LineResults(Taken(inbox, k)) : k \in LineReads(inbox)}

\* Wrong on purpose: a whole line counts as one cut short
ShortfallAlways(why) == {why}

Shortfall(why) == {why} \ {"whole"}

Receive(o) ==
    /\ inbox' = Rest(inbox, o.k)
    /\ recv' = o.got
    /\ broken' = broken \cup Shortfall(o.why)
    /\ answered' = Answered(o.got)

-----------------------------------------------------------------------------
(* Writing and returning                                                   *)

CanWrite == link # "none" /\ sent < MaxSent

\* atclient_tls_socket_write; recv is cleared for the answer.  A write on a
\* connection the peer closed may still be accepted by the local stack.
Write(cmd, good) ==
    /\ requests' = Append(requests, [cmd |-> cmd, n |-> sent + 1, good |-> good])
    /\ sent' = sent + 1
    /\ recv' = <<>>

WriteFails ==
    /\ link # "up"
    /\ recv' = <<>>

Return(call, ret) ==
    /\ phase' = "idle"
    /\ last' = [call |-> call, ret |-> ret]

-----------------------------------------------------------------------------
(* atclient_pkam_authenticate and atclient_cram_authenticate               *)

\* steps 1 to 5: an argument, the atServer's address or an allocation is missing, and
\* the connection of the context is left as it is
AuthGivesUp ==
    /\ phase = "idle"
    /\ Return("auth", "failed")
    /\ UNCHANGED <<serverVars, contextVars, inbox, sent, mode, recv, broken, answered>>

\* Wrong on purpose: what was received on the previous connection is kept
SessionKeepsInbox == inbox

\* a socket freshly configured has received nothing, and the banner is consumed by
\* atclient_connection_connect
SessionInbox == <<>>

NewSession ==
    /\ requests' = <<>>
    /\ wire' = <<>>
    /\ inbox' = SessionInbox
    /\ authed' = FALSE
    /\ sent' = 0
    /\ recv' = <<>>
    /\ broken' = {}
    /\ answered' = 0

\* atclient_start_atserver_connection drops the connection there was
AuthConnects(m) ==
    /\ phase = "idle"
    /\ NewSession
    /\ link' = "up"
    /\ started' = TRUE
    /\ phase' = "start"
    /\ mode' = m
    /\ UNCHANGED <<last, atsignSet>>

AuthConnectFails ==
    /\ phase = "idle"
    /\ NewSession
    /\ link' = "none"
    /\ started' = FALSE
    /\ Return("auth", "failed")
    /\ UNCHANGED <<mode, atsignSet>>

SendFrom ==
    /\ phase = "start"
    /\ \/ /\ CanWrite
          /\ Write("from", TRUE)
          /\ phase' = "from"
          /\ UNCHANGED last
       \/ /\ WriteFails
          /\ Return("auth", "failed")
          /\ UNCHANGED <<requests, sent>>
       \/ /\ Return("auth", "ok")      \* no memory for from_cmd: ret is still 0
          /\ UNCHANGED <<requests, sent, recv>>
    /\ UNCHANGED <<link, wire, authed, contextVars, inbox, mode, broken, answered>>

\* only pkam reads the prompt that follows
FromAnswer ==
    /\ phase = "from"
    /\ \E o \in SendResults :
        /\ Receive(o)
        /\ \/ /\ o.ret = "failed"
              /\ Return("auth", "failed")
           \/ /\ o.ret = "ok"
              /\ phase' = IF mode = "pkam" THEN "prompt" ELSE "sign"
              /\ UNCHANGED last
    /\ UNCHANGED <<serverVars, contextVars, sent, mode>>

ReadPrompt ==
    /\ phase = "prompt"
    /\ \E k \in PromptReads(inbox) : inbox' = Rest(inbox, k)
    /\ IF inbox = <<>>
       THEN Return("auth", "failed") /\ broken' = broken \cup {"timeout"}
       ELSE phase' = "sign" /\ UNCHANGED <<last, broken>>
    /\ UNCHANGED <<serverVars, contextVars, sent, mode, recv, answered>>

\* atclient_string_utils_get_substring_position(recv, "data:")
HasData(got) == \E i \in 1..Len(got) : IsHead(got[i]) /\ got[i].v # "error"

\* the signature, or the digest, is the right one for a challenge received whole
SendProof ==
    /\ phase = "sign"
    /\ \/ /\ HasData(recv)
          /\ CanWrite
          /\ Write(mode, recv = AnswerTo(1, "challenge"))
          /\ phase' = "auth"
          /\ UNCHANGED last
       \/ /\ HasData(recv)
          /\ WriteFails
          /\ Return("auth", "failed")
          /\ UNCHANGED <<requests, sent>>
       \/ /\ HasData(recv)
          /\ Return("auth", "ok")      \* no memory for pkam_cmd: ret is still 0
          /\ UNCHANGED <<requests, sent, recv>>
       \/ /\ Return("auth", "failed")  \* no "data:", or signing or encoding fails
          /\ UNCHANGED <<requests, sent, recv>>
    /\ UNCHANGED <<link, wire, authed, contextVars, inbox, mode, broken, answered>>

\* Wrong on purpose: whatever is not an error is a success
AcceptsUnlessError(got) == got # <<>> /\ got[1].v # "error"

\* atclient_string_utils_starts_with(recv, "data:success")
Accepts(got) == got # <<>> /\ IsHead(got[1]) /\ got[1].v = "success"

AuthAnswer ==
    /\ phase = "auth"
    /\ \E o \in SendResults :
        /\ Receive(o)
        /\ \/ /\ o.ret = "ok" /\ Accepts(o.got)
              /\ \/ Return("auth", "ok") /\ atsignSet' = TRUE
                 \/ Return("auth", "failed") /\ atsignSet' = FALSE  \* atclient_set_atsign
           \/ /\ ~(o.ret = "ok" /\ Accepts(o.got))
              /\ Return("auth", "failed")
              /\ UNCHANGED atsignSet
    /\ UNCHANGED <<serverVars, sent, mode, started>>

-----------------------------------------------------------------------------
(* Functions that send one command                                         *)

\* what atclient_put_*, atclient_get_*, atclient_delete, atclient_notify and
\* atclient_send_heartbeat check; nothing tells them whether the session that
\* replaced an authenticated one was authenticated too
MayOperate == started /\ atsignSet

BeginOp ==
    /\ CanWrite
    /\ Write("op", TRUE)

SendOp ==
    /\ phase = "idle"
    /\ MayOperate
    /\ BeginOp
    /\ phase' = "op"
    /\ UNCHANGED <<link, wire, authed, contextVars, inbox, mode, last, broken, answered>>

\* atclient_connection_is_connected has no guard but the connection's own
IsConnected ==
    /\ phase = "idle"
    /\ BeginOp
    /\ phase' = "op"
    /\ UNCHANGED <<link, wire, authed, contextVars, inbox, mode, last, broken, answered>>

\* async_read: the function returns with the answer unread
SendUnread ==
    /\ phase = "idle"
    /\ MayOperate
    /\ BeginOp
    /\ Return("op", "ok")
    /\ broken' = broken \cup {"unread"}
    /\ UNCHANGED <<link, wire, authed, contextVars, inbox, mode, answered>>

\* refused by a guard, no memory for the command or the buffer, or not written
OpFails ==
    /\ phase = "idle"
    /\ recv' = <<>>
    /\ Return("op", "failed")
    /\ UNCHANGED <<serverVars, contextVars, inbox, sent, mode, broken, answered>>

\* Wrong on purpose: a read that timed out is tried again until something comes
OpAnswerRetries ==
    /\ phase = "op"
    /\ \E o \in SendResults :
        /\ Receive(o)
        /\ IF o.why = "timeout" THEN UNCHANGED <<phase, last>> ELSE Return("op", o.ret)
    /\ UNCHANGED <<serverVars, contextVars, sent, mode>>

\* What was received is any answer to atclient_connection_is_connected; the others may
\* find no "data:" in it, or nothing after it that they can use.
OpAnswer ==
    /\ phase = "op"
    /\ \E o \in SendResults, ret \in {"ok", "failed"} :
        /\ o.ret = "failed" => ret = "failed"
        /\ Receive(o) /\ Return("op", ret)
    /\ UNCHANGED <<serverVars, contextVars, sent, mode>>

\* atclient_connection_disconnect by the application or by atauth
Disconnect ==
    /\ phase = "idle"
    /\ link # "none"
    /\ link' = "none"
    /\ wire' = <<>>
    /\ inbox' = <<>>
    /\ UNCHANGED <<requests, authed, contextVars, sent, phase, mode, recv, last, broken,
                   answered>>

-----------------------------------------------------------------------------
(* The server and the network                                              *)

Outcomes(r) ==
    CASE r.cmd = "from" -> {"challenge", "error"}
      [] r.cmd \in {"pkam", "cram"} -> IF r.good THEN {"success", "error"} ELSE {"error"}
      [] r.cmd = "op" -> IF authed THEN {"data", "big", "long", "error"} ELSE {"data", "error"}

Serve ==
    /\ link = "up"
    /\ requests # <<>>
    /\ LET r == Head(requests)
       IN  \E v \in Outcomes(r) :
            /\ authed' = (authed \/ v = "success")
            /\ wire' = wire \o AnswerTo(r.n, v) \o (IF authed' THEN <<At, Name>> ELSE <<At>>)
    /\ requests' = Tail(requests)
    /\ UNCHANGED <<link, contextVars, inbox, sent, phase, mode, recv, last, broken, answered>>

Deliver ==
    /\ wire # <<>>
    /\ inbox' = Append(inbox, Head(wire))
    /\ wire' = Tail(wire)
    /\ UNCHANGED <<link, requests, authed, contextVars, sent, phase, mode, recv, last, broken,
                   answered>>

\* what was not delivered is lost
PeerCloses ==
    /\ link = "up"
    /\ link' = "closed"
    /\ wire' = <<>>
    /\ UNCHANGED <<requests, authed, contextVars, inbox, sent, phase, mode, recv, last, broken,
                   answered>>

-----------------------------------------------------------------------------
Init ==
    /\ link = "none"
    /\ requests = <<>> /\ wire = <<>> /\ inbox = <<>>
    /\ authed = FALSE
    /\ sent = 0
    /\ phase = "idle" /\ mode = "pkam"
    /\ recv = <<>>
    /\ last = [call |-> "op", ret |-> "failed"]
    /\ atsignSet = FALSE /\ started = FALSE
    /\ broken = {}
    /\ answered = 0

\* the steps of a call in progress
InCall ==
    \/ SendFrom
    \/ FromAnswer
    \/ ReadPrompt
    \/ SendProof
    \/ AuthAnswer
    \/ OpAnswer

Next ==
    \/ InCall
    \/ AuthGivesUp
    \/ \E m \in {"pkam", "cram"} : AuthConnects(m)
    \/ AuthConnectFails
    \/ SendOp
    \/ IsConnected
    \/ SendUnread
    \/ OpFails
    \/ Disconnect
    \/ Serve
    \/ Deliver
    \/ PeerCloses

\* Every loop of the library ends by itself, with data, at a limit or at a timeout,
\* so a call in progress goes on.  Nothing is assumed of the server, the network or
\* the application.
Fairness == WF_vars(InCall)

Spec == Init /\ [][Next]_vars /\ Fairness

-----------------------------------------------------------------------------
(* Properties                                                              *)

Tokens ==
    {At, Name} \cup {HeadOf(n, v) : n \in 1..MaxSent, v \in Results}
               \cup {TailOf(n) : n \in 1..MaxSent}

Requests ==
    [cmd : {"from", "pkam", "cram", "op"}, n : 1..MaxSent, good : BOOLEAN]

TypeOK ==
    /\ link \in {"none", "up", "closed"}
    /\ requests \in Seq(Requests)
    /\ wire \in Seq(Tokens) /\ inbox \in Seq(Tokens) /\ recv \in Seq(Tokens)
    /\ authed \in BOOLEAN /\ atsignSet \in BOOLEAN /\ started \in BOOLEAN
    /\ sent \in 0..MaxSent /\ answered \in 0..MaxSent
    /\ phase \in {"idle", "start", "from", "prompt", "sign", "auth", "op"}
    /\ mode \in {"pkam", "cram"}
    /\ last \in [call : {"auth", "op"}, ret : {"ok", "failed"}]
    /\ broken \subseteq {"timeout", "cut", "unparsed", "unread"}

\* As long as no read of the connection ended before its line did and no answer was
\* left unread, the receive buffer after a send holds the whole answer to the very
\* command that was sent, without the prompt, or nothing: through both
\* authentications, whose prompts are read differently, slow or split arrival,
\* allocation failures and answers too large for the caller.
Paired ==
    broken = {} /\ recv # <<>> => \E v \in Results : recv = AnswerTo(sent, v)

\* An authentication accepts an answer, and records the atSign, only when the server
\* accepted the proof on this very connection, whatever was cut, late or left unread
\* before.
AcceptedMeansAuthed ==
    [][AuthAnswer /\ last'.ret = "ok" => authed /\ started]_vars

\* Every call returns, whatever the server and the network do or stop doing.
CallsReturn == phase # "idle" ~> phase = "idle"

\* The connection keeps what Exchange promises: in order, own answer, executed
\* before answered; after a read gave up never the same answer twice; nothing of a
\* previous connection.
E == INSTANCE Exchange WITH
        issued <- sent,
        executed <- sent - Len(requests),
        replied <- answered,
        tainted <- broken # {}
ImplementsExchange == E!Spec

\* "Unable to find command result token `:`, connection should be reset"
\* (atclient_utils_find_index_past_at_prompt): after that no call on the same
\* connection is given an answer.
NoAnswerAfterUnparsed == "unparsed" \in broken => recv = <<>>

\* "authenticate with secondary server ... @return int 0 on success, non-zero on
\* error" (atclient_pkam_authenticate, atclient.h): an authentication that returned 0
\* left the session authenticated.
AuthOkMeansAuthed == last = [call |-> "auth", ret |-> "ok"] /\ phase = "idle" => authed
=============================================================================
