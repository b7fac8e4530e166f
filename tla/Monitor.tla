------------------------------- MODULE Monitor -------------------------------
(***************************************************************************)
(* The monitor: an application that listens for notifications on a         *)
(* connection of its own.  It checks that the connection is alive,         *)
(* reconnects when it is not, reads one message, uses it and frees it, and *)
(* begins again.  The atServer writes notifications into the same stream   *)
(* as the answers to the check's noop, so each side of that loop may take  *)
(* a line meant for the other.                                             *)
(*                                                                         *)
(* A line is written in one piece or in two; a read that times out between *)
(* them, or whose buffer is full, takes the front alone.  The server and   *)
(* the network are external; so is the application, which does what the    *)
(* example of the repository does.                                         *)
(***************************************************************************)
EXTENDS Integers, Sequences

CONSTANTS
    MaxNotes,   \* bound: notifications the server sends
    NULL,       \* the null pointer
    Code        \* what the union holds of a read error's code

ASSUME MaxNotesIsNumber == MaxNotes \in Nat
ASSUME NullIsNoAddress == NULL \notin Nat

VARIABLES
    link,       \* "none"; "open", without the monitor; "up", with it; or "closed" by
                \* the peer, with bytes left to read
    owed,       \* noops the server has not answered
    wire, inbox,    \* pieces of lines, not yet and already received
    published,  \* the last notification sent
    phase,      \* what the application's loop is at
    message,    \* the atclient_monitor_message
    heap,       \* what each allocated block is
    line,       \* the line monitor_read took
    value,      \* the decrypted_value of the notification in hand: "none" or "text"
    ret,        \* what the call returned
    masked,     \* history: why this read may succeed without a decrypted value
    seen        \* history: the notifications the application was given

serverVars == <<link, owed, wire, published>>
messageVars == <<message, heap, value, ret, masked>>
vars == <<link, owed, wire, inbox, published, phase, message, heap, line, value, ret, masked,
          seen>>

-----------------------------------------------------------------------------
(* Lines                                                                   *)

\* what the server writes: a notification, the answer to a noop, the bare newline
\* after monitor.  What a line says is chosen when it is looked at.
Note(n) == [kind |-> "note", id |-> n]
Answer == [kind |-> "answer", id |-> 0]
Newline == [kind |-> "newline", id |-> 0]

Lines == {Note(n) : n \in 1..MaxNotes} \cup {Answer, Newline}

Piece(l, part) == [line |-> l, part |-> part]
NoPiece == Piece(Newline, "whole")
Pieces == [line : Lines, part : {"whole", "front", "rest"}]

\* the ways a line may arrive
Ways(l) == {<<Piece(l, "whole")>>, <<Piece(l, "front"), Piece(l, "rest")>>}

\* Wrong on purpose: what was read stays in the stream
ReadsPeeked ==
    IF inbox = <<>> THEN {} ELSE {[got |-> Head(inbox), left |-> inbox]}

\* atclient_tls_socket_read until '\n': what it takes, and what it leaves.  The rest of
\* a line stays if it has not arrived, or if the line is longer than the buffer.
Reads ==
    IF inbox = <<>> THEN {}
    ELSE LET first == Head(inbox)
         IN  {[got |-> first, left |-> Tail(inbox)]} \cup
             IF first.part = "front" /\ Len(inbox) > 1
             THEN {[got |-> Piece(first.line, "whole"), left |-> Tail(Tail(inbox))]}
             ELSE {}

-----------------------------------------------------------------------------
(* The server and the network                                              *)

\* the server answers on a connection; it sends notifications where the monitor was started
Live == {"open", "up"}

Publish ==
    /\ link = "up" /\ published < MaxNotes
    /\ published' = published + 1
    /\ \E pieces \in Ways(Note(published + 1)) : wire' = wire \o pieces
    /\ UNCHANGED <<link, owed, inbox, phase, line, seen, messageVars>>

\* Wrong on purpose: an answer to no noop
AnswerNoopUnasked ==
    /\ link \in Live
    /\ owed' = owed - 1 /\ wire' = Append(wire, Piece(Answer, "whole"))
    /\ UNCHANGED <<link, published, inbox, phase, line, seen, messageVars>>

\* bound: an answer is cut only when nothing else is under way
AnswerNoop ==
    /\ link \in Live /\ owed > 0
    /\ owed' = owed - 1
    /\ \E pieces \in Ways(Answer) :
          /\ wire' = wire \o pieces
          /\ Len(pieces) > 1 => owed = 1 /\ wire = <<>> /\ inbox = <<>>
    /\ UNCHANGED <<link, published, inbox, phase, line, seen, messageVars>>

Arrive ==
    /\ wire # <<>>
    /\ inbox' = Append(inbox, Head(wire)) /\ wire' = Tail(wire)
    /\ UNCHANGED <<link, owed, published, phase, line, seen, messageVars>>

\* what was not received is lost
Close ==
    /\ link \in Live
    /\ link' = "closed" /\ wire' = <<>> /\ owed' = 0
    /\ UNCHANGED <<published, inbox, phase, line, seen, messageVars>>

-----------------------------------------------------------------------------
(* atclient_monitor_is_connected: a noop, and whatever line comes next.    *)

Noop ==
    /\ phase = "check"
    /\ \/ link \in Live /\ owed' = owed + 1 /\ phase' = "answer"
       \/ link = "closed" /\ phase' \in {"answer", "connect"} /\ UNCHANGED owed
       \/ link = "none" /\ phase' = "connect" /\ UNCHANGED owed
    /\ UNCHANGED <<link, wire, published, inbox, line, seen, messageVars>>

\* Any line that is not too long is an answer; of one that is, the length is not set,
\* and what is there says whether the connection is alive.  One character is too short.
Alive(piece) ==
    IF piece.line = Answer /\ piece.part = "whole" THEN {TRUE} ELSE BOOLEAN

\* Wrong on purpose: a timeout is no error, as it is none to monitor_read
CheckTimedOutIgnored ==
    /\ phase = "answer" /\ inbox = <<>>
    /\ phase' = "read"
    /\ UNCHANGED <<serverVars, inbox, line, seen, messageVars>>

CheckTimedOut ==
    /\ phase = "answer" /\ inbox = <<>>
    /\ phase' = "connect"
    /\ UNCHANGED <<serverVars, inbox, line, seen, messageVars>>

\* the copy of the line may fail to be allocated
CheckAnswered ==
    /\ phase = "answer"
    /\ \E r \in Reads :
          /\ inbox' = r.left
          /\ \E alive \in Alive(r.got) \cup {FALSE} : phase' = IF alive THEN "read" ELSE "connect"
    /\ UNCHANGED <<serverVars, line, seen, messageVars>>

\* what is on the wire once the monitor is started
Started == {<<>>, <<Piece(Newline, "whole")>>}

\* what an authentication that failed or was left half way may leave of an answer, or
\* the error that monitor gets without one
LeftOver == {<<>>, <<Piece(Answer, "rest")>>} \cup Ways(Answer)

\* free, init, authenticate, monitor.  An authentication that fails once the connection
\* was started leaves it open; the loop tries again after its next check only.  If it
\* fails with 0, or monitor does, whose result is not looked at, the loop goes on as if
\* it were subscribed.
Connect ==
    /\ phase = "connect"
    /\ inbox' = <<>> /\ owed' = 0
    /\ \/ link' = "up" /\ wire' \in Started /\ phase' = "read"
       \/ link' = "open" /\ wire' \in LeftOver /\ phase' \in {"check", "read"}
       \/ link' = "none" /\ wire' = <<>> /\ phase' = "check"
    /\ UNCHANGED <<published, line, seen, messageVars>>

-----------------------------------------------------------------------------
(* The message.  Its type says which field of the union is in use, and     *)
(* with that what is to be freed.                                          *)

NotificationTypes == {"NOTIFICATION", "ERROR_PARSE", "ERROR_DECRYPT"}
ResponseTypes == {"DATA", "ERROR"}
OtherTypes == {"NONE", "EMPTY", "ERROR_READ"}

\* what malloc returns, and what it is used for; a message read points to its buffer
Fresh(h) == CHOOSE b \in 1..(Len(h) + 1) : b \notin DOMAIN h \/ h[b][1] = "free"
Allocated(h, use) == LET b == Fresh(h) IN IF b > Len(h) THEN Append(h, use) ELSE [h EXCEPT ![b] = use]
Released(h, b) == IF b = NULL THEN h ELSE [h EXCEPT ![b] = <<"free", NULL>>]

\* the atserver_message and its buffer
LineReleased(h, m) ==
    IF m.line = NULL THEN h ELSE Released(Released(h, h[m.line][2]), m.line)

MessageInit == [type |-> "NONE", line |-> NULL, union |-> NULL]

\* Wrong on purpose: the atserver_message goes, the notification of an error stays
MessageFreedByOk(h, m) ==
    LineReleased(IF m.type = "NOTIFICATION" THEN Released(h, m.union) ELSE h, m)

MessageFreed(h, m) ==
    LineReleased(IF m.type \in NotificationTypes THEN Released(h, m.union) ELSE h, m)

\* the type stays
MessageFree ==
    /\ phase = "use"
    /\ heap' = MessageFreed(heap, message)
    /\ message' = [message EXCEPT !.line = NULL, !.union = NULL]
    /\ phase' = "check" /\ value' = "none" /\ ret' = "ok" /\ masked' = {} /\ line' = NoPiece
    /\ UNCHANGED <<serverVars, inbox, seen>>

-----------------------------------------------------------------------------
(* atclient_monitor_read                                                   *)

Return(r) == ret' = r /\ phase' = "use"

\* of a message just initialized, or of one that was freed and is used again
Given == {message, MessageInit}

ReadTimedOut ==
    /\ phase = "read" /\ inbox = <<>>
    /\ \E m \in Given : message' = [m EXCEPT !.type = "EMPTY"]
    /\ Return("ok")
    /\ UNCHANGED <<serverVars, inbox, heap, line, value, masked, seen>>

\* the copy of the line cannot be allocated
ReadFails ==
    /\ phase = "read"
    /\ \E r \in Reads : inbox' = r.left
    /\ \E m \in Given : message' = [m EXCEPT !.type = "ERROR_READ", !.union = Code]
    /\ Return("failed")
    /\ UNCHANGED <<serverVars, heap, line, value, masked, seen>>

\* atserver_message_parse: a piece that does not end the line is refused, and so is a
\* bare newline; one that does not begin it is taken for a message if it has a ':'
Parsable(piece) == piece.line # Newline /\ piece.part # "front"

\* no atserver_message, or none in the line
ReadRefused ==
    /\ phase = "read"
    /\ \E r \in Reads : inbox' = r.left
    /\ message' \in Given
    /\ Return("failed")
    /\ UNCHANGED <<serverVars, heap, line, value, masked, seen>>

ReadLine ==
    /\ phase = "read"
    /\ \E r \in Reads :
          /\ Parsable(r.got)
          /\ inbox' = r.left /\ line' = r.got
    /\ LET buffer == Fresh(heap)
           held == Allocated(heap, <<"buffer", NULL>>)
       IN  /\ heap' = Allocated(held, <<"line", buffer>>)
           /\ \E m \in Given : message' = [m EXCEPT !.line = Fresh(held)]
    /\ phase' = "populate"
    /\ UNCHANGED <<serverVars, value, ret, masked, seen>>

\* Wrong on purpose: the pointer to what was freed stays
FailedDangling(h, m) == heap' = LineReleased(h, m) /\ message' = m /\ Return("failed")

\* on every error the atserver_message and its buffer are freed
Failed(h, m) ==
    /\ heap' = LineReleased(h, m)
    /\ message' = [m EXCEPT !.line = NULL]
    /\ Return("failed")

\* the front of the line is gone: no token, or not one that is known
PopulateUnknown ==
    /\ phase = "populate" /\ line.part = "rest"
    /\ Failed(heap, [message EXCEPT !.type = "NONE"])
    /\ UNCHANGED <<serverVars, inbox, line, value, masked, seen>>

\* what follows may also be the rest of a line that was cut behind the prompt

\* the body is a part of the buffer; there may be none
PopulateResponse(type) ==
    /\ phase = "populate" /\ line.line = Answer
    /\ \/ /\ message' = [message EXCEPT !.type = type, !.union = heap[message.line][2]]
          /\ Return("ok") /\ UNCHANGED heap
       \/ Failed(heap, [message EXCEPT !.type = type])
    /\ UNCHANGED <<serverVars, inbox, line, value, masked, seen>>

IsNote == phase = "populate" /\ line.line.kind = "note"

\* a notification without a body
PopulateBare ==
    /\ IsNote
    /\ Failed(heap, [message EXCEPT !.type = "ERROR_PARSE"])
    /\ UNCHANGED <<serverVars, inbox, line, value, masked, seen>>

PopulateNoMemory ==
    /\ IsNote
    /\ Failed(heap, [message EXCEPT !.union = NULL])
    /\ UNCHANGED <<serverVars, inbox, line, value, masked, seen>>

WithNotification(type) == [message EXCEPT !.type = type, !.union = Fresh(heap)]

\* a field is not what is expected, or its copy cannot be allocated
PopulateUnreadable ==
    /\ IsNote
    /\ Failed(Allocated(heap, <<"notification", NULL>>), WithNotification("ERROR_PARSE"))
    /\ UNCHANGED <<serverVars, inbox, line, value, masked, seen>>

PopulateNotification ==
    /\ IsNote
    /\ heap' = Allocated(heap, <<"notification", NULL>>)
    /\ message' = WithNotification("NOTIFICATION")
    /\ phase' = "pre"
    /\ UNCHANGED <<serverVars, inbox, line, value, ret, masked, seen>>

-----------------------------------------------------------------------------
(* Decryption, with the hooks before and after it if there are any         *)

Undecrypted == Failed(heap, [message EXCEPT !.type = "ERROR_DECRYPT"])

PreHook ==
    /\ phase = "pre"
    /\ \/ phase' = "decrypt" /\ UNCHANGED <<message, heap, ret>>
       \/ Undecrypted
    /\ UNCHANGED <<serverVars, inbox, line, value, masked, seen>>

\* the text; that of a notification that is not encrypted is its value itself
DecryptText ==
    /\ phase = "decrypt"
    /\ value' = "text" /\ ret' = "ok" /\ phase' = "post"
    /\ UNCHANGED <<serverVars, inbox, message, heap, line, masked, seen>>

\* Wrong on purpose: the key is not there, and the result of the lookup is dropped
DecryptFailsSilently ==
    /\ phase = "decrypt"
    /\ ret' = "ok" /\ phase' = "post"
    /\ UNCHANGED <<serverVars, inbox, message, heap, line, value, masked, seen>>

\* no key, no IV, a name or a value that does not decode, no memory for the name
DecryptFails ==
    /\ phase = "decrypt"
    /\ ret' = "failed" /\ phase' = "post"
    /\ UNCHANGED <<serverVars, inbox, message, heap, line, value, masked, seen>>

\* no memory for the text, or for the notification's copy of it: ret is 0 by then
DecryptNoMemory ==
    /\ phase = "decrypt"
    /\ ret' = "ok" /\ phase' = "post" /\ masked' = masked \cup {"memory"}
    /\ UNCHANGED <<serverVars, inbox, message, heap, line, value, seen>>

Delivered ==
    /\ Return("ok") /\ seen' = Append(seen, line.line.id)
    /\ UNCHANGED <<message, heap>>

\* the hook's result, if there is a hook, replaces the decryption's
PostHook ==
    /\ phase = "post"
    /\ \/ Delivered /\ masked' = IF ret = "failed" THEN masked \cup {"hook"} ELSE masked
       \/ Undecrypted /\ UNCHANGED <<seen, masked>>
    /\ UNCHANGED <<serverVars, inbox, line, value>>

-----------------------------------------------------------------------------
\* setup has connected; it, too, may have failed with 0, and stops for any other failure
Init ==
    /\ \/ link = "up" /\ wire \in Started
       \/ link = "open" /\ wire \in LeftOver
    /\ owed = 0 /\ inbox = <<>> /\ published = 0
    /\ phase = "check" /\ message = MessageInit /\ heap = <<>>
    /\ line = NoPiece
    /\ value = "none" /\ ret = "ok" /\ masked = {} /\ seen = <<>>

Server == Publish \/ AnswerNoop \/ Close

Check == Noop \/ CheckTimedOut \/ CheckAnswered \/ Connect

Populate ==
    \/ PopulateUnknown \/ PopulateResponse("DATA") \/ PopulateResponse("ERROR")
    \/ PopulateBare \/ PopulateNoMemory \/ PopulateUnreadable \/ PopulateNotification

Decrypt == DecryptText \/ DecryptFails \/ DecryptNoMemory

Application ==
    \/ Check
    \/ ReadTimedOut \/ ReadFails \/ ReadRefused \/ ReadLine
    \/ Populate \/ PreHook \/ Decrypt \/ PostHook
    \/ MessageFree

Next == Server \/ Arrive \/ Application

\* the application's loop goes on, bytes that were sent arrive, and of connection
\* attempts repeated for ever one succeeds
Spec ==
    /\ Init /\ [][Next]_vars
    /\ WF_vars(Application) /\ WF_vars(Arrive)
    /\ SF_vars(Connect /\ link' = "up")

-----------------------------------------------------------------------------
Phases == {"check", "answer", "connect", "read", "populate", "pre", "decrypt", "post", "use"}
Types == NotificationTypes \cup ResponseTypes \cup OtherTypes

TypeOK ==
    /\ link \in Live \cup {"none", "closed"} /\ owed \in Nat /\ published \in 0..MaxNotes
    /\ phase \in Phases /\ ret \in {"ok", "failed"} /\ value \in {"none", "text"}
    /\ masked \subseteq {"memory", "hook"}
    /\ \A i \in DOMAIN seen : seen[i] \in 1..MaxNotes
    /\ message.type \in Types /\ line \in Pieces
    /\ \A p \in {wire[i] : i \in DOMAIN wire} \cup {inbox[i] : i \in DOMAIN inbox} : p \in Pieces

\* Whatever came, however it was cut, and whichever of the reads' steps failed, and
\* also for a message that is used again without being initialized: the fields that
\* the message's type makes free or show are NULL or lead to a block of that kind,
\* still allocated.  Nothing is freed twice or read after it was freed.
Sound ==
    /\ message.line # NULL =>
          /\ message.line \in DOMAIN heap /\ heap[message.line][1] = "line"
          /\ heap[heap[message.line][2]][1] = "buffer"
    /\ message.type \in NotificationTypes /\ message.union # NULL =>
          message.union \in DOMAIN heap /\ heap[message.union][1] = "notification"
    /\ phase = "use" /\ ret = "ok" /\ message.type \in ResponseTypes =>
          message.union \in DOMAIN heap /\ heap[message.union][1] = "buffer"

\* When the message was freed nothing of it is left, whatever type a failed read gave it
NoLeaks == phase \in {"check", "answer", "connect", "read"} =>
    \A b \in DOMAIN heap : heap[b][1] = "free"

\* A notification handed to the application is there and has its decrypted value,
\* unless memory ran out at the very end or a hook hid the failure.
ValueUnlessMasked ==
    phase = "use" /\ ret = "ok" /\ message.type = "NOTIFICATION" =>
        message.union # NULL /\ (value = "text" \/ masked # {})

Feed == INSTANCE NotificationFeed

\* In their order and at most once: whatever the checks eat, the timeouts cut and the
\* reconnects lose, no notification is invented, repeated or overtaken.
ImplementsFeed == Feed!Spec

\* Whatever is left to read when the peer closes, and however often connecting fails: a
\* monitor that never gets a notification again is one whose checks the server goes on
\* answering.  A check that nothing answers always ends in a new connection.
HeldByAnswersOnly == <>[](link # "up") => []<><<AnswerNoop>>_vars

\* What atclient_monitor_is_connected is documented to tell, and the loop built on it:
\* a connection that was lost is replaced by one that has notifications to read.
Resubscribes == link = "closed" ~> link = "up"
=============================================================================
