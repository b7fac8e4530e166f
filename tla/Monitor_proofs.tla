---------------------------- MODULE Monitor_proofs ----------------------------
(***************************************************************************)
(* What holds of the monitor for every number of notifications: its types, *)
(* that a message's pointers lead to what its type says, that nothing of   *)
(* it is left when it was freed, that a notification has its value, and    *)
(* that the monitor implements NotificationFeed.                           *)
(***************************************************************************)
EXTENDS Monitor, SequenceTheorems, TLAPS

-----------------------------------------------------------------------------
(* The blocks of a message                                                 *)

Addresses == Nat \cup {NULL}
Uses == {"free", "buffer", "line", "notification"} \X Addresses

Is(h, b, use) == b \in DOMAIN h /\ h[b][1] = use

\* an atserver_message with the buffer it owns
LineAt(h, l) == Is(h, l, "line") /\ Is(h, h[l][2], "buffer")

LineBlocks(h, l) == IF l = NULL THEN {} ELSE {l, h[l][2]}

\* nothing is allocated but the blocks of S
Only(h, S) == \A b \in DOMAIN h : b \notin S => h[b][1] = "free"

-----------------------------------------------------------------------------
(* The inductive invariant                                                 *)

StreamInv ==
    /\ wire \in Seq(Pieces) /\ inbox \in Seq(Pieces) /\ seen \in Seq(1..MaxNotes)
    /\ owed \in Nat /\ published \in 0..MaxNotes /\ link \in Live \cup {"none", "closed"}

CallType ==
    /\ phase \in Phases /\ line \in Pieces
    /\ ret \in {"ok", "failed"} /\ value \in {"none", "text"} /\ masked \subseteq {"memory", "hook"}

MessageType ==
    /\ heap \in Seq(Uses)
    /\ message \in [type : Types, line : Addresses, union : Addresses \cup {Code}]

Quiet ==
    phase \in {"check", "answer", "connect", "read"} =>
        message.line = NULL /\ message.union = NULL /\ Only(heap, {})

Parsed ==
    phase = "populate" =>
        /\ LineAt(heap, message.line) /\ message.union = NULL
        /\ Only(heap, LineBlocks(heap, message.line))

Noted ==
    phase \in {"pre", "decrypt", "post"} =>
        /\ LineAt(heap, message.line) /\ message.type = "NOTIFICATION"
        /\ Is(heap, message.union, "notification") /\ message.union # NULL
        /\ Only(heap, LineBlocks(heap, message.line) \cup {message.union})
        /\ line.line.kind = "note"

Used ==
    phase = "use" =>
        /\ message.line # NULL => LineAt(heap, message.line)
        /\ message.type \in NotificationTypes /\ message.union # NULL =>
              Is(heap, message.union, "notification")
        /\ Only(heap, LineBlocks(heap, message.line)
                        \cup (IF message.type \in NotificationTypes THEN {message.union} ELSE {}))
        /\ ret = "ok" /\ message.type \in ResponseTypes =>
              message.line # NULL /\ message.union = heap[message.line][2]
        /\ ret = "ok" /\ message.type = "NOTIFICATION" => message.union # NULL

Valued ==
    /\ phase = "post" /\ ret = "ok" => value = "text" \/ masked # {}
    /\ phase = "use" /\ ret = "ok" /\ message.type = "NOTIFICATION" => value = "text" \/ masked # {}

MessageInv == MessageType /\ Quiet /\ Parsed /\ Noted /\ Used /\ Valued

IInv == StreamInv /\ CallType /\ MessageInv

-----------------------------------------------------------------------------
(* Lemmas about the heap                                                   *)

\* malloc finds a block, and changes no other.
LEMMA AllocatedFacts ==
    ASSUME NEW h \in Seq(Uses), NEW u \in Uses
    PROVE  /\ Fresh(h) \in Nat /\ Fresh(h) # NULL
           /\ Fresh(h) \in DOMAIN h => h[Fresh(h)][1] = "free"
           /\ Allocated(h, u) \in Seq(Uses)
           /\ DOMAIN Allocated(h, u) = DOMAIN h \cup {Fresh(h)}
           /\ Allocated(h, u)[Fresh(h)] = u
           /\ \A b \in DOMAIN h : b # Fresh(h) => Allocated(h, u)[b] = h[b]
  <1> DEFINE b == Fresh(h)
  <1>1. DOMAIN h = 1..Len(h) /\ Len(h) \in Nat
    BY LenProperties
  <1>2. \E c \in 1..(Len(h) + 1) : c \notin DOMAIN h \/ h[c][1] = "free"
    <2>1. Len(h) + 1 \in 1..(Len(h) + 1) /\ Len(h) + 1 \notin DOMAIN h
      BY <1>1
    <2>2. QED
      BY <2>1
  <1>3. b \in 1..(Len(h) + 1) /\ (b \notin DOMAIN h \/ h[b][1] = "free")
    BY <1>2 DEF Fresh
  <1>4. b \in Nat /\ b # NULL
    BY <1>1, <1>3, NullIsNoAddress
  <1> HIDE DEF b
  <1>5. CASE b > Len(h)
    <2>1. Allocated(h, u) = Append(h, u)
      BY <1>5 DEF Allocated, b
    <2>2. b = Len(h) + 1
      BY <1>1, <1>3, <1>5
    <2>3. /\ Append(h, u) \in Seq(Uses) /\ Len(Append(h, u)) = Len(h) + 1
          /\ \A i \in 1..Len(h) : Append(h, u)[i] = h[i]
          /\ Append(h, u)[Len(h) + 1] = u
      BY AppendProperties
    <2>4. DOMAIN Append(h, u) = 1..(Len(h) + 1)
      BY <2>3, LenProperties
    <2>5. QED
      BY <1>1, <1>3, <1>4, <2>1, <2>2, <2>3, <2>4 DEF b
  <1>6. CASE ~(b > Len(h))
    <2>1. Allocated(h, u) = [h EXCEPT ![b] = u]
      BY <1>6 DEF Allocated, b
    <2>2. b \in 1..Len(h)
      BY <1>1, <1>3, <1>6
    <2>3. [h EXCEPT ![b] = u] \in Seq(Uses)
      BY <2>2, ExceptSeq
    <2>4. QED
      BY <1>1, <1>3, <1>4, <2>1, <2>2, <2>3 DEF b
  <1>7. QED
    BY <1>5, <1>6

\* free frees one block.
LEMMA ReleasedFacts ==
    ASSUME NEW h \in Seq(Uses), NEW b \in DOMAIN h
    PROVE  /\ b # NULL
           /\ Released(h, b) \in Seq(Uses) /\ DOMAIN Released(h, b) = DOMAIN h
           /\ Released(h, b)[b][1] = "free"
           /\ \A c \in DOMAIN h : c # b => Released(h, b)[c] = h[c]
  <1>1. DOMAIN h = 1..Len(h) /\ Len(h) \in Nat
    BY LenProperties
  <1>2. b # NULL
    BY <1>1, NullIsNoAddress
  <1>3. <<"free", NULL>> \in Uses
    BY DEF Uses, Addresses
  <1>4. Released(h, b) = [h EXCEPT ![b] = <<"free", NULL>>]
    BY <1>2 DEF Released
  <1>5. [h EXCEPT ![b] = <<"free", NULL>>] \in Seq(Uses)
    BY <1>1, <1>3, ExceptSeq
  <1>6. QED
    BY <1>2, <1>4, <1>5

\* Freeing a line frees its buffer too and nothing else.
LEMMA LineReleasedFacts ==
    ASSUME NEW h \in Seq(Uses), NEW m,
           m.line # NULL => LineAt(h, m.line)
    PROVE  /\ LineReleased(h, m) \in Seq(Uses) /\ DOMAIN LineReleased(h, m) = DOMAIN h
           /\ \A b \in LineBlocks(h, m.line) : LineReleased(h, m)[b][1] = "free"
           /\ \A b \in DOMAIN h : b \notin LineBlocks(h, m.line) => LineReleased(h, m)[b] = h[b]
  <1>1. CASE m.line = NULL
    BY <1>1 DEF LineReleased, LineBlocks
  <1>2. CASE m.line # NULL
    <2> DEFINE buffer == h[m.line][2]
               g == Released(h, buffer)
    <2>1. m.line \in DOMAIN h /\ buffer \in DOMAIN h /\ m.line # buffer
      BY <1>2 DEF LineAt, Is
    <2>2. /\ g \in Seq(Uses) /\ DOMAIN g = DOMAIN h /\ g[buffer][1] = "free"
          /\ \A c \in DOMAIN h : c # buffer => g[c] = h[c]
      BY <2>1, ReleasedFacts
    <2>3. LineReleased(h, m) = Released(g, m.line)
      BY <1>2 DEF LineReleased
    <2>4. LineBlocks(h, m.line) = {m.line, buffer}
      BY <1>2 DEF LineBlocks
    <2> HIDE DEF g, buffer
    <2>5. /\ Released(g, m.line) \in Seq(Uses) /\ DOMAIN Released(g, m.line) = DOMAIN g
          /\ Released(g, m.line)[m.line][1] = "free"
          /\ \A c \in DOMAIN g : c # m.line => Released(g, m.line)[c] = g[c]
      BY <2>1, <2>2, ReleasedFacts
    <2>6. QED
      BY <2>1, <2>2, <2>3, <2>4, <2>5
  <1>3. QED
    BY <1>1, <1>2

-----------------------------------------------------------------------------
(* Lemmas about the stream                                                 *)

\* A line is of pieces however it is cut.
LEMMA WaysFacts ==
    ASSUME NEW l \in Lines, NEW p \in Ways(l)
    PROVE  p \in Seq(Pieces)
  <1>1. \A part \in {"whole", "front", "rest"} : Piece(l, part) \in Pieces
    BY DEF Piece, Pieces
  <1>2. <<Piece(l, "whole")>> \in Seq(Pieces) /\ <<Piece(l, "front"), Piece(l, "rest")>> \in Seq(Pieces)
    BY <1>1
  <1>3. QED
    BY <1>2 DEF Ways

\* What is read is a piece, what is left are pieces.
LEMMA ReadsFacts ==
    ASSUME inbox \in Seq(Pieces), NEW r \in Reads
    PROVE  r.got \in Pieces /\ r.left \in Seq(Pieces)
  <1>1. inbox # <<>>
    BY DEF Reads
  <1> DEFINE first == Head(inbox)
  <1>2. first \in Pieces /\ Tail(inbox) \in Seq(Pieces) /\ Len(Tail(inbox)) = Len(inbox) - 1
    BY <1>1, HeadTailProperties
  <1>3. CASE r = [got |-> first, left |-> Tail(inbox)]
    BY <1>2, <1>3
  <1>4. CASE Len(inbox) > 1 /\ r = [got |-> Piece(first.line, "whole"), left |-> Tail(Tail(inbox))]
    <2>1. Piece(first.line, "whole") \in Pieces
      BY <1>2 DEF Piece, Pieces
    <2>2. Tail(inbox) # <<>>
      <3>1. Len(inbox) \in Nat
        BY LenProperties
      <3>2. Len(Tail(inbox)) # 0
        BY <1>2, <1>4, <3>1
      <3>3. Len(<<>>) = 0
        OBVIOUS
      <3>4. QED
        BY <3>2, <3>3
    <2>3. Tail(Tail(inbox)) \in Seq(Pieces)
      BY <1>2, <2>2, HeadTailProperties
    <2>4. QED
      BY <1>4, <2>1, <2>3
  <1>5. QED
    BY <1>1, <1>3, <1>4 DEF Reads

LEMMA LineFacts ==
    /\ Newline \in Lines /\ Answer \in Lines
    /\ NoPiece \in Pieces
    /\ \A n \in 1..MaxNotes : Note(n) \in Lines
  BY DEF Newline, Answer, Lines, NoPiece, Piece, Pieces, Note

\* What connecting leaves on the wire are pieces, of no notification.
LEMMA ConnectedFacts ==
    ASSUME NEW w \in Started \cup LeftOver
    PROVE  w \in Seq(Pieces) /\ \A i \in DOMAIN w : w[i].line \in {Answer, Newline}
  <1>1. CASE w = <<>>
    BY <1>1
  <1>2. CASE w \in {<<Piece(Newline, "whole")>>, <<Piece(Answer, "rest")>>}
    <2>1. Piece(Newline, "whole") \in Pieces /\ Piece(Answer, "rest") \in Pieces
      BY LineFacts DEF Piece, Pieces
    <2>2. Piece(Newline, "whole").line = Newline /\ Piece(Answer, "rest").line = Answer
      BY DEF Piece
    <2>3. ASSUME NEW p \in Pieces, p.line \in {Answer, Newline}, w = <<p>>
          PROVE  w \in Seq(Pieces) /\ \A i \in DOMAIN w : w[i].line \in {Answer, Newline}
      BY <2>3
    <2>4. QED
      BY <1>2, <2>1, <2>2, <2>3
  <1>3. CASE w \in Ways(Answer)
    <2>1. w \in Seq(Pieces)
      BY <1>3, LineFacts, WaysFacts
    <2>2. QED
      BY <1>3, <2>1 DEF Ways, Piece
  <1>4. QED
    BY <1>1, <1>2, <1>3 DEF Started, LeftOver

-----------------------------------------------------------------------------
(* The server, the network and the checks leave the message alone          *)

Checking == {"check", "answer", "connect", "read"}

LEMMA MessageUntouched ==
    ASSUME MessageInv, UNCHANGED <<line, messageVars>>,
           phase' = phase \/ (phase \in Checking /\ phase' \in Checking)
    PROVE  MessageInv'
  BY DEF MessageInv, MessageType, Quiet, Parsed, Noted, Used, Valued, messageVars, Checking,
         LineAt, LineBlocks, Is, Only

LEMMA ServerStep ==
    ASSUME IInv, Server \/ Arrive
    PROVE  IInv'
  <1>1. ASSUME Publish PROVE StreamInv'
    <2>1. published + 1 \in 1..MaxNotes /\ published' = published + 1
      BY <1>1, MaxNotesIsNumber DEF Publish, IInv, StreamInv
    <2>2. PICK p \in Ways(Note(published + 1)) : wire' = wire \o p
      BY <1>1 DEF Publish
    <2>3. p \in Seq(Pieces)
      BY <2>1, <2>2, LineFacts, WaysFacts
    <2>4. wire' \in Seq(Pieces)
      BY <2>2, <2>3, ConcatProperties DEF IInv, StreamInv
    <2>5. QED
      BY <1>1, <2>1, <2>4 DEF Publish, IInv, StreamInv
  <1>2. ASSUME AnswerNoop PROVE StreamInv'
    <2>1. PICK p \in Ways(Answer) : wire' = wire \o p
      BY <1>2 DEF AnswerNoop
    <2>2. wire' \in Seq(Pieces)
      BY <2>1, LineFacts, WaysFacts, ConcatProperties DEF IInv, StreamInv
    <2>3. owed' \in Nat
      BY <1>2 DEF AnswerNoop, IInv, StreamInv
    <2>4. QED
      BY <1>2, <2>2, <2>3 DEF AnswerNoop, IInv, StreamInv
  <1>3. ASSUME Arrive PROVE StreamInv'
    <2>1. Head(wire) \in Pieces /\ wire' \in Seq(Pieces)
      BY <1>3, HeadTailProperties DEF Arrive, IInv, StreamInv
    <2>2. inbox' \in Seq(Pieces)
      BY <1>3, <2>1, AppendProperties DEF Arrive, IInv, StreamInv
    <2>3. QED
      BY <1>3, <2>1, <2>2 DEF Arrive, IInv, StreamInv
  <1>4. ASSUME Close PROVE StreamInv'
    <2>1. wire' \in Seq(Pieces)
      BY <1>4, EmptySeq DEF Close
    <2>2. QED
      BY <1>4, <2>1 DEF Close, IInv, StreamInv
  <1>5. StreamInv'
    BY <1>1, <1>2, <1>3, <1>4 DEF Server
  <1>6. UNCHANGED <<phase, line, messageVars>>
    BY DEF Server, Publish, AnswerNoop, Close, Arrive
  <1>7. CallType'
    BY <1>6 DEF IInv, CallType, messageVars
  <1>8. MessageInv'
    BY <1>6, MessageUntouched DEF IInv
  <1>9. QED
    BY <1>5, <1>7, <1>8 DEF IInv

LEMMA CheckStep ==
    ASSUME IInv, Check
    PROVE  IInv'
  <1>1. ASSUME Noop PROVE StreamInv' /\ phase \in Checking /\ phase' \in Checking
    BY <1>1 DEF Noop, IInv, StreamInv, Checking
  <1>2. ASSUME CheckTimedOut PROVE StreamInv' /\ phase \in Checking /\ phase' \in Checking
    BY <1>2 DEF CheckTimedOut, IInv, StreamInv, serverVars, Checking
  <1>3. ASSUME CheckAnswered PROVE StreamInv' /\ phase \in Checking /\ phase' \in Checking
    <2>1. PICK r \in Reads : inbox' = r.left /\ phase' \in {"read", "connect"}
      BY <1>3 DEF CheckAnswered
    <2>2. inbox' \in Seq(Pieces)
      BY <2>1, ReadsFacts DEF IInv, StreamInv
    <2>3. QED
      BY <1>3, <2>1, <2>2 DEF CheckAnswered, IInv, StreamInv, serverVars, Checking
  <1>4. ASSUME Connect PROVE StreamInv' /\ phase \in Checking /\ phase' \in Checking
    <2>1. wire' \in Started \cup LeftOver
      BY <1>4 DEF Connect, Started
    <2>2. wire' \in Seq(Pieces) /\ inbox' \in Seq(Pieces) /\ owed' \in Nat
      BY <1>4, <2>1, ConnectedFacts DEF Connect
    <2>3. QED
      BY <1>4, <2>2 DEF Connect, IInv, StreamInv, Checking, Live
  <1>5. StreamInv' /\ phase \in Checking /\ phase' \in Checking
    BY <1>1, <1>2, <1>3, <1>4 DEF Check
  <1>6. UNCHANGED <<line, messageVars>>
    BY DEF Check, Noop, CheckTimedOut, CheckAnswered, Connect
  <1>7. CallType'
    BY <1>5, <1>6 DEF IInv, CallType, messageVars, Phases, Checking
  <1>8. MessageInv'
    BY <1>5, <1>6, MessageUntouched DEF IInv
  <1>9. QED
    BY <1>5, <1>7, <1>8 DEF IInv

-----------------------------------------------------------------------------
(* Reading                                                                 *)

\* A message that is read into has nothing to free.
LEMMA GivenFacts ==
    ASSUME IInv, phase = "read", NEW m \in Given
    PROVE  /\ m \in [type : Types, line : Addresses, union : Addresses \cup {Code}]
           /\ m.line = NULL /\ m.union = NULL
  <1>1. MessageInit \in [type : Types, line : Addresses, union : Addresses \cup {Code}]
    BY DEF MessageInit, Types, OtherTypes, Addresses
  <1>2. MessageInit.line = NULL /\ MessageInit.union = NULL
    BY DEF MessageInit
  <1>3. /\ message \in [type : Types, line : Addresses, union : Addresses \cup {Code}]
        /\ message.line = NULL /\ message.union = NULL
    BY DEF IInv, MessageInv, MessageType, Quiet
  <1>4. QED
    BY <1>1, <1>2, <1>3 DEF Given

\* A read that took nothing from the heap, and gives the message a type that makes
\* nothing free.
LEMMA EmptyHanded ==
    ASSUME IInv, phase = "read", phase' = "use", UNCHANGED heap,
           message' \in [type : Types, line : Addresses, union : Addresses \cup {Code}],
           message'.line = NULL,
           message'.type \in NotificationTypes => message'.union = NULL,
           ret' = "ok" => message'.type = "EMPTY"
    PROVE  MessageInv'
  <1>1. heap \in Seq(Uses) /\ Only(heap, {})
    BY DEF IInv, MessageInv, MessageType, Quiet
  <1>2. MessageType'
    BY <1>1 DEF MessageType
  <1>3. Used'
    BY <1>1 DEF Used, Only, NotificationTypes, ResponseTypes
  <1>4. QED
    BY <1>2, <1>3 DEF MessageInv, Quiet, Parsed, Noted, Valued

LEMMA ReadTaken ==
    ASSUME StreamInv, NEW r \in Reads, inbox' = r.left, UNCHANGED <<serverVars, seen>>
    PROVE  StreamInv'
  <1>1. inbox' \in Seq(Pieces)
    BY ReadsFacts DEF StreamInv
  <1>2. QED
    BY <1>1 DEF StreamInv, serverVars

LEMMA ReadLineStep ==
    ASSUME IInv, ReadLine
    PROVE  IInv'
  <1> DEFINE buffer == Fresh(heap)
             held == Allocated(heap, <<"buffer", NULL>>)
             l == Fresh(held)
             all == Allocated(held, <<"line", buffer>>)
  <1>1. phase = "read" /\ heap \in Seq(Uses) /\ Only(heap, {})
    BY DEF ReadLine, IInv, MessageInv, MessageType, Quiet
  <1>2. <<"buffer", NULL>> \in Uses
    BY DEF Uses, Addresses
  <1>3. /\ buffer \in Nat /\ held \in Seq(Uses) /\ DOMAIN held = DOMAIN heap \cup {buffer}
        /\ held[buffer] = <<"buffer", NULL>>
        /\ \A b \in DOMAIN heap : b # buffer => held[b] = heap[b]
    BY <1>1, <1>2, AllocatedFacts
  <1>4. heap' = all /\ phase' = "populate"
    BY DEF ReadLine
  <1>5. PICK m \in Given : message' = [m EXCEPT !.line = l]
    BY DEF ReadLine
  <1> HIDE DEF buffer, held
  <1>6. <<"line", buffer>> \in Uses
    BY <1>3 DEF Uses, Addresses
  <1>7. /\ l \in Nat /\ l # NULL /\ (l \in DOMAIN held => held[l][1] = "free")
        /\ all \in Seq(Uses) /\ DOMAIN all = DOMAIN held \cup {l}
        /\ all[l] = <<"line", buffer>>
        /\ \A b \in DOMAIN held : b # l => all[b] = held[b]
    BY <1>3, <1>6, AllocatedFacts
  <1> HIDE DEF l, all
  <1>8. l # buffer /\ all[buffer] = <<"buffer", NULL>>
    BY <1>3, <1>7
  <1>9. LineAt(all, l) /\ LineBlocks(all, l) = {l, buffer}
    BY <1>3, <1>7, <1>8 DEF LineAt, LineBlocks, Is
  <1>10. Only(all, {l, buffer})
    BY <1>1, <1>3, <1>7 DEF Only
  <1>11. /\ message' \in [type : Types, line : Addresses, union : Addresses \cup {Code}]
         /\ message'.line = l /\ message'.union = NULL
    BY <1>1, <1>5, <1>7, GivenFacts DEF Addresses
  <1>12. MessageInv'
    BY <1>4, <1>7, <1>9, <1>10, <1>11
    DEF MessageInv, MessageType, Quiet, Parsed, Noted, Used, Valued
  <1>13. PICK r \in Reads : inbox' = r.left /\ line' = r.got
    BY DEF ReadLine
  <1>14. StreamInv' /\ line' \in Pieces
    BY <1>13, ReadTaken, ReadsFacts DEF ReadLine, IInv, StreamInv
  <1>15. CallType'
    BY <1>4, <1>14 DEF ReadLine, IInv, CallType, Phases
  <1>16. QED
    BY <1>12, <1>14, <1>15 DEF IInv

LEMMA ReadStep ==
    ASSUME IInv, ReadTimedOut \/ ReadFails \/ ReadRefused \/ ReadLine
    PROVE  IInv'
  <1>1. CASE ReadTimedOut
    <2>1. PICK m \in Given : message' = [m EXCEPT !.type = "EMPTY"]
      BY <1>1 DEF ReadTimedOut
    <2>2. MessageInv'
      BY <1>1, <2>1, GivenFacts, EmptyHanded
      DEF ReadTimedOut, Return, Types, OtherTypes, NotificationTypes
    <2>3. StreamInv' /\ CallType'
      BY <1>1 DEF ReadTimedOut, Return, IInv, StreamInv, CallType, serverVars, Phases
    <2>4. QED
      BY <2>2, <2>3 DEF IInv
  <1>2. CASE ReadFails
    <2>1. PICK m \in Given : message' = [m EXCEPT !.type = "ERROR_READ", !.union = Code]
      BY <1>2 DEF ReadFails
    <2>2. MessageInv'
      BY <1>2, <2>1, GivenFacts, EmptyHanded
      DEF ReadFails, Return, Types, OtherTypes, NotificationTypes
    <2>3. StreamInv' /\ CallType'
      BY <1>2, ReadTaken DEF ReadFails, Return, IInv, CallType, Phases
    <2>4. QED
      BY <2>2, <2>3 DEF IInv
  <1>3. CASE ReadRefused
    <2>1. MessageInv'
      BY <1>3, GivenFacts, EmptyHanded DEF ReadRefused, Return
    <2>2. StreamInv' /\ CallType'
      BY <1>3, ReadTaken DEF ReadRefused, Return, IInv, CallType, Phases
    <2>3. QED
      BY <2>1, <2>2 DEF IInv
  <1>4. QED
    BY <1>1, <1>2, <1>3, ReadLineStep

-----------------------------------------------------------------------------
(* Parsing                                                                 *)

\* A call that fails behind the parser frees the line, and leaves what the message's
\* type makes free.
LEMMA FailedEnds ==
    ASSUME NEW h \in Seq(Uses),
           NEW m \in [type : Types, line : Addresses, union : Addresses \cup {Code}],
           LineAt(h, m.line), m.line # NULL,
           m.type \in NotificationTypes /\ m.union # NULL => Is(h, m.union, "notification"),
           Only(h, LineBlocks(h, m.line)
                     \cup (IF m.type \in NotificationTypes THEN {m.union} ELSE {})),
           Failed(h, m)
    PROVE  MessageInv' /\ phase' = "use" /\ ret' = "failed"
  <1> DEFINE g == LineReleased(h, m)
  <1>1. /\ g \in Seq(Uses) /\ DOMAIN g = DOMAIN h
        /\ \A b \in LineBlocks(h, m.line) : g[b][1] = "free"
        /\ \A b \in DOMAIN h : b \notin LineBlocks(h, m.line) => g[b] = h[b]
    BY LineReleasedFacts
  <1>2. heap' = g /\ message' = [m EXCEPT !.line = NULL] /\ phase' = "use" /\ ret' = "failed"
    BY DEF Failed, Return
  <1> HIDE DEF g
  <1>3. /\ message' \in [type : Types, line : Addresses, union : Addresses \cup {Code}]
        /\ message'.line = NULL /\ message'.type = m.type /\ message'.union = m.union
    BY <1>2 DEF Addresses
  <1>4. MessageType'
    BY <1>1, <1>2, <1>3 DEF MessageType
  <1>5. LineBlocks(h, m.line) = {m.line, h[m.line][2]}
    BY DEF LineBlocks
  <1>6. m.type \in NotificationTypes /\ m.union # NULL => Is(g, m.union, "notification")
    BY <1>1, <1>5 DEF LineAt, Is
  <1>7. Only(g, IF m.type \in NotificationTypes THEN {m.union} ELSE {})
    BY <1>1 DEF Only
  <1>8. LineBlocks(g, NULL) = {}
    BY DEF LineBlocks
  <1>9. Used'
    BY <1>2, <1>3, <1>6, <1>7, <1>8 DEF Used
  <1>10. QED
    BY <1>2, <1>4, <1>9 DEF MessageInv, Quiet, Parsed, Noted, Valued

\* The notification's block is none of the line's, and the line's stay.
LEMMA NotificationAllocated ==
    ASSUME IInv, phase = "populate", NEW type \in NotificationTypes
    PROVE  LET h == Allocated(heap, <<"notification", NULL>>)
               m == WithNotification(type)
           IN  /\ h \in Seq(Uses)
               /\ m \in [type : Types, line : Addresses, union : Addresses \cup {Code}]
               /\ m.type = type /\ m.line = message.line /\ m.union # NULL
               /\ m.line # NULL /\ LineAt(h, m.line)
               /\ Is(h, m.union, "notification")
               /\ Only(h, LineBlocks(h, m.line) \cup {m.union})
  <1> DEFINE use == <<"notification", NULL>>
             h == Allocated(heap, use)
             b == Fresh(heap)
             m == WithNotification(type)
             l == message.line
  <1>1. /\ heap \in Seq(Uses)
        /\ message \in [type : Types, line : Addresses, union : Addresses \cup {Code}]
        /\ LineAt(heap, l) /\ Only(heap, LineBlocks(heap, l))
    BY DEF IInv, MessageInv, MessageType, Parsed
  <1>2. use \in Uses
    BY DEF Uses, Addresses
  <1>3. /\ b \in Nat /\ b # NULL /\ (b \in DOMAIN heap => heap[b][1] = "free")
        /\ h \in Seq(Uses) /\ DOMAIN h = DOMAIN heap \cup {b} /\ h[b] = use
        /\ \A c \in DOMAIN heap : c # b => h[c] = heap[c]
    BY <1>1, <1>2, AllocatedFacts
  <1>4. l # NULL
    BY <1>1, ReleasedFacts DEF LineAt, Is
  <1>5. m = [message EXCEPT !.type = type, !.union = b]
    BY DEF WithNotification
  <1> HIDE DEF h, b, m
  <1>6. /\ m \in [type : Types, line : Addresses, union : Addresses \cup {Code}]
        /\ m.type = type /\ m.line = l /\ m.union = b
    BY <1>1, <1>3, <1>5 DEF Addresses, Types
  <1>7. h[l] = heap[l] /\ h[heap[l][2]] = heap[heap[l][2]]
    BY <1>1, <1>3 DEF LineAt, Is
  <1>8. LineAt(h, l) /\ LineBlocks(h, l) = LineBlocks(heap, l)
    BY <1>1, <1>3, <1>7 DEF LineAt, LineBlocks, Is
  <1>9. Only(h, LineBlocks(h, l) \cup {b})
    BY <1>1, <1>3, <1>8 DEF Only
  <1>10. Is(h, b, "notification")
    BY <1>3 DEF Is
  <1>11. QED
    BY <1>3, <1>4, <1>6, <1>8, <1>9, <1>10 DEF h, m

\* Failing with the line alone, under whichever type but those of a notification in hand.
LEMMA LineAlone ==
    ASSUME IInv, phase = "populate"
    PROVE  /\ heap \in Seq(Uses)
           /\ message \in [type : Types, line : Addresses, union : Addresses \cup {Code}]
           /\ message.line # NULL /\ LineAt(heap, message.line) /\ message.union = NULL
           /\ heap[message.line][2] \in DOMAIN heap
           /\ heap[message.line][2] \in Nat
           /\ \A S : Only(heap, LineBlocks(heap, message.line) \cup S)
  <1>1. /\ heap \in Seq(Uses)
        /\ message \in [type : Types, line : Addresses, union : Addresses \cup {Code}]
        /\ LineAt(heap, message.line) /\ message.union = NULL
        /\ Only(heap, LineBlocks(heap, message.line))
    BY DEF IInv, MessageInv, MessageType, Parsed
  <1>2. message.line \in DOMAIN heap /\ heap[message.line][2] \in DOMAIN heap
    BY <1>1 DEF LineAt, Is
  <1>3. message.line # NULL
    BY <1>1, <1>2, ReleasedFacts
  <1>4. heap[message.line][2] \in Nat
    BY <1>1, <1>2, LenProperties
  <1>5. QED
    BY <1>1, <1>2, <1>3, <1>4 DEF Only

\* What the calls between the line and its use leave alone
LEMMA CallKept ==
    ASSUME IInv, UNCHANGED <<serverVars, inbox, line, value, masked, seen>>,
           phase' \in Phases, ret' \in {"ok", "failed"}, MessageInv'
    PROVE  IInv'
  BY DEF IInv, StreamInv, CallType, serverVars

LEMMA PopulateFails ==
    ASSUME IInv, phase = "populate", NEW t \in Types, NEW m,
           m = [message EXCEPT !.type = t] \/ m = [message EXCEPT !.union = NULL],
           Failed(heap, m), UNCHANGED <<serverVars, inbox, line, value, masked, seen>>
    PROVE  IInv'
  <1>1. /\ m \in [type : Types, line : Addresses, union : Addresses \cup {Code}]
        /\ m.line = message.line /\ m.union = NULL
    BY LineAlone DEF Addresses
  <1>2. MessageInv' /\ phase' = "use" /\ ret' = "failed"
    BY <1>1, LineAlone, FailedEnds
  <1>3. QED
    BY <1>2, CallKept DEF Phases

LEMMA PopulateStep ==
    ASSUME IInv, Populate
    PROVE  IInv'
  <1>1. phase = "populate" /\ UNCHANGED <<serverVars, inbox, line, value, masked, seen>>
    BY DEF Populate, PopulateUnknown, PopulateResponse, PopulateBare, PopulateNoMemory,
           PopulateUnreadable, PopulateNotification, IsNote
  <1>2. CASE PopulateUnknown
    <2>1. "NONE" \in Types
      BY DEF Types, OtherTypes
    <2>2. QED
      BY <1>1, <1>2, <2>1, PopulateFails DEF PopulateUnknown
  <1>3. ASSUME NEW type \in ResponseTypes, PopulateResponse(type)
        PROVE  IInv'
    <2>1. type \in Types /\ type \notin NotificationTypes
      BY <1>3 DEF Types, ResponseTypes, NotificationTypes
    <2>2. CASE Failed(heap, [message EXCEPT !.type = type])
      BY <1>1, <2>1, <2>2, PopulateFails
    <2>3. CASE /\ message' = [message EXCEPT !.type = type, !.union = heap[message.line][2]]
               /\ Return("ok") /\ UNCHANGED heap
      <3>1. /\ message' \in [type : Types, line : Addresses, union : Addresses \cup {Code}]
            /\ message'.line = message.line /\ message'.type = type
            /\ message'.union = heap[message.line][2]
        BY <1>1, <2>1, <2>3, LineAlone DEF Addresses
      <3>2. MessageType'
        BY <1>1, <2>3, <3>1, LineAlone DEF MessageType
      <3>3. Used'
        <4>1. message.line # NULL /\ LineAt(heap, message.line)
          BY <1>1, LineAlone
        <4>2. Only(heap, LineBlocks(heap, message.line) \cup {})
          BY <1>1, LineAlone
        <4>3. heap' = heap
          BY <2>3
        <4>4. type # "NOTIFICATION"
          BY <2>1 DEF NotificationTypes
        <4>5. QED
          BY <2>1, <3>1, <4>1, <4>2, <4>3, <4>4 DEF Used
      <3>4. MessageInv'
        BY <2>1, <2>3, <3>1, <3>2, <3>3
        DEF MessageInv, Quiet, Parsed, Noted, Valued, Return, NotificationTypes
      <3>5. QED
        BY <1>1, <2>3, <3>4, CallKept DEF Return, Phases
    <2>4. QED
      BY <1>3, <2>2, <2>3 DEF PopulateResponse
  <1>4. CASE PopulateBare
    <2>1. "ERROR_PARSE" \in Types
      BY DEF Types, NotificationTypes
    <2>2. QED
      BY <1>1, <1>4, <2>1, PopulateFails DEF PopulateBare
  <1>5. CASE PopulateNoMemory
    <2>1. "NONE" \in Types
      BY DEF Types, OtherTypes
    <2>2. QED
      BY <1>1, <1>5, <2>1, PopulateFails DEF PopulateNoMemory
  <1>6. CASE PopulateUnreadable
    <2>1. "ERROR_PARSE" \in NotificationTypes
      BY DEF NotificationTypes
    <2>2. MessageInv' /\ phase' = "use" /\ ret' = "failed"
      BY <1>1, <1>6, <2>1, NotificationAllocated, FailedEnds DEF PopulateUnreadable
    <2>3. QED
      BY <1>1, <2>2, CallKept DEF Phases
  <1>7. CASE PopulateNotification
    <2>1. "NOTIFICATION" \in NotificationTypes
      BY DEF NotificationTypes
    <2>2. /\ heap' = Allocated(heap, <<"notification", NULL>>)
          /\ message' = WithNotification("NOTIFICATION")
          /\ phase' = "pre" /\ ret' = ret /\ line'.line.kind = "note"
      BY <1>7 DEF PopulateNotification, IsNote
    <2>3. MessageInv'
      BY <1>1, <2>1, <2>2, NotificationAllocated
      DEF MessageInv, MessageType, Quiet, Parsed, Noted, Used, Valued
    <2>4. QED
      BY <1>1, <2>2, <2>3, CallKept DEF Phases, IInv, CallType
  <1>8. QED
    BY <1>2, <1>3, <1>4, <1>5, <1>6, <1>7 DEF Populate, ResponseTypes

-----------------------------------------------------------------------------
(* Decryption                                                              *)

\* A notification in hand can be taken back whole.
LEMMA NotificationInHand ==
    ASSUME IInv, phase \in {"pre", "decrypt", "post"}
    PROVE  /\ heap \in Seq(Uses)
           /\ message \in [type : Types, line : Addresses, union : Addresses \cup {Code}]
           /\ message.line # NULL /\ LineAt(heap, message.line)
           /\ message.type = "NOTIFICATION"
           /\ message.union # NULL /\ Is(heap, message.union, "notification")
           /\ Only(heap, LineBlocks(heap, message.line) \cup {message.union})
           /\ line.line.kind = "note"
  <1>1. heap \in Seq(Uses) /\ LineAt(heap, message.line)
    BY DEF IInv, MessageInv, MessageType, Noted
  <1>2. message.line # NULL
    BY <1>1, ReleasedFacts DEF LineAt, Is
  <1>3. QED
    BY <1>1, <1>2 DEF IInv, MessageInv, MessageType, Noted

LEMMA UndecryptedEnds ==
    ASSUME IInv, phase \in {"pre", "decrypt", "post"}, Undecrypted
    PROVE  MessageInv' /\ phase' = "use" /\ ret' = "failed"
  <1> DEFINE m == [message EXCEPT !.type = "ERROR_DECRYPT"]
  <1>1. "ERROR_DECRYPT" \in Types /\ "ERROR_DECRYPT" \in NotificationTypes
    BY DEF Types, NotificationTypes
  <1>2. /\ m \in [type : Types, line : Addresses, union : Addresses \cup {Code}]
        /\ m.line = message.line /\ m.union = message.union /\ m.type = "ERROR_DECRYPT"
    BY <1>1, NotificationInHand
  <1>3. Failed(heap, m)
    BY DEF Undecrypted
  <1> HIDE DEF m
  <1>4. QED
    BY <1>1, <1>2, <1>3, NotificationInHand, FailedEnds

LEMMA PreHookStep ==
    ASSUME IInv, PreHook
    PROVE  IInv'
  <1>1. phase = "pre" /\ UNCHANGED <<serverVars, inbox, line, value, masked, seen>>
    BY DEF PreHook
  <1>2. CASE phase' = "decrypt" /\ UNCHANGED <<message, heap, ret>>
    <2>1. MessageInv'
      BY <1>1, <1>2, NotificationInHand
      DEF MessageInv, MessageType, Quiet, Parsed, Noted, Used, Valued
    <2>2. QED
      BY <1>1, <1>2, <2>1, CallKept DEF Phases, IInv, CallType
  <1>3. CASE Undecrypted
    BY <1>1, <1>3, UndecryptedEnds, CallKept DEF Phases
  <1>4. QED
    BY <1>2, <1>3 DEF PreHook

LEMMA DecryptStep ==
    ASSUME IInv, Decrypt
    PROVE  IInv'
  <1>1. /\ phase = "decrypt" /\ phase' = "post" /\ ret' \in {"ok", "failed"}
        /\ UNCHANGED <<serverVars, inbox, message, heap, line, seen>>
        /\ ret' = "ok" => value' = "text" \/ masked' # {}
    BY DEF Decrypt, DecryptText, DecryptFails, DecryptNoMemory
  <1>2. value' \in {"none", "text"} /\ masked' \subseteq {"memory", "hook"}
    BY DEF Decrypt, DecryptText, DecryptFails, DecryptNoMemory, IInv, CallType
  <1>3. MessageInv'
    BY <1>1, NotificationInHand
    DEF MessageInv, MessageType, Quiet, Parsed, Noted, Used, Valued
  <1>4. StreamInv' /\ CallType'
    BY <1>1, <1>2 DEF IInv, StreamInv, CallType, serverVars, Phases
  <1>5. QED
    BY <1>3, <1>4 DEF IInv

LEMMA PostHookStep ==
    ASSUME IInv, PostHook
    PROVE  IInv'
  <1>1. phase = "post" /\ UNCHANGED <<serverVars, inbox, line, value>>
    BY DEF PostHook
  <1>2. CASE Delivered /\ masked' = IF ret = "failed" THEN masked \cup {"hook"} ELSE masked
    <2>1. /\ phase' = "use" /\ ret' = "ok" /\ seen' = Append(seen, line.line.id)
          /\ UNCHANGED <<message, heap>>
      BY <1>2 DEF Delivered, Return
    <2>2. ret \in {"ok", "failed"} /\ masked \subseteq {"memory", "hook"} /\ line.line \in Lines
      BY DEF IInv, CallType, Pieces
    <2>3. value = "text" \/ masked' # {}
      BY <1>1, <1>2, <2>2 DEF IInv, MessageInv, Valued
    <2>4. line.line.id \in 1..MaxNotes
      BY <1>1, <2>2, NotificationInHand DEF Lines, Note, Answer, Newline
    <2>5. seen' \in Seq(1..MaxNotes)
      BY <2>1, <2>4, AppendProperties DEF IInv, StreamInv
    <2>6. Used'
      BY <1>1, <2>1, NotificationInHand DEF Used, NotificationTypes, ResponseTypes
    <2>7. MessageInv'
      BY <1>1, <2>1, <2>3, <2>6, NotificationInHand
      DEF MessageInv, MessageType, Quiet, Parsed, Noted, Valued
    <2>8. StreamInv' /\ CallType'
      BY <1>1, <1>2, <2>1, <2>2, <2>5 DEF IInv, StreamInv, CallType, serverVars, Phases
    <2>9. QED
      BY <2>7, <2>8 DEF IInv
  <1>3. CASE Undecrypted /\ UNCHANGED <<seen, masked>>
    BY <1>1, <1>3, UndecryptedEnds, CallKept DEF Phases
  <1>4. QED
    BY <1>2, <1>3 DEF PostHook

-----------------------------------------------------------------------------
(* The message is freed                                                    *)

LEMMA MessageFreedFacts ==
    ASSUME IInv, phase = "use"
    PROVE  MessageFreed(heap, message) \in Seq(Uses) /\ Only(MessageFreed(heap, message), {})
  <1> DEFINE l == message.line
             note == message.type \in NotificationTypes
             g == IF note THEN Released(heap, message.union) ELSE heap
             f == LineReleased(g, message)
             left == IF note THEN {message.union} ELSE {}
  <1>1. /\ heap \in Seq(Uses)
        /\ l # NULL => LineAt(heap, l)
        /\ note /\ message.union # NULL => Is(heap, message.union, "notification")
        /\ Only(heap, LineBlocks(heap, l) \cup left)
    BY DEF IInv, MessageInv, MessageType, Used
  <1>2. NULL \notin DOMAIN heap
    BY <1>1, ReleasedFacts
  <1>3. /\ g \in Seq(Uses) /\ DOMAIN g = DOMAIN heap
        /\ \A b \in DOMAIN heap : b \notin left => g[b] = heap[b]
        /\ \A b \in DOMAIN heap : b \in left => g[b][1] = "free"
    <2>1. CASE note /\ message.union # NULL
      <3>1. message.union \in DOMAIN heap
        BY <1>1, <2>1 DEF Is
      <3>2. QED
        BY <1>1, <2>1, <3>1, ReleasedFacts
    <2>2. CASE note /\ message.union = NULL
      BY <1>1, <1>2, <2>2 DEF Released
    <2>3. CASE ~note
      BY <1>1, <2>3
    <2>4. QED
      BY <2>1, <2>2, <2>3
  <1>4. l # NULL => l \notin left /\ heap[l][2] \notin left
    BY <1>1, <1>2 DEF LineAt, Is
  <1>5. MessageFreed(heap, message) = f
    BY DEF MessageFreed
  <1> HIDE DEF g, left, note
  <1>6. (l # NULL => LineAt(g, l)) /\ LineBlocks(g, l) = LineBlocks(heap, l)
    BY <1>1, <1>3, <1>4 DEF LineAt, LineBlocks, Is
  <1>7. /\ f \in Seq(Uses) /\ DOMAIN f = DOMAIN g
        /\ \A b \in LineBlocks(g, l) : f[b][1] = "free"
        /\ \A b \in DOMAIN g : b \notin LineBlocks(g, l) => f[b] = g[b]
    BY <1>3, <1>6, LineReleasedFacts
  <1>8. Only(f, {})
    BY <1>1, <1>3, <1>6, <1>7 DEF Only
  <1>9. QED
    BY <1>5, <1>7, <1>8

LEMMA FreeStep ==
    ASSUME IInv, MessageFree
    PROVE  IInv'
  <1>1. /\ phase = "use" /\ phase' = "check" /\ value' = "none" /\ ret' = "ok" /\ masked' = {}
        /\ line' = NoPiece /\ heap' = MessageFreed(heap, message)
        /\ message' = [message EXCEPT !.line = NULL, !.union = NULL]
        /\ UNCHANGED <<serverVars, inbox, seen>>
    BY DEF MessageFree
  <1>2. /\ message' \in [type : Types, line : Addresses, union : Addresses \cup {Code}]
        /\ message'.line = NULL /\ message'.union = NULL
    BY <1>1 DEF IInv, MessageInv, MessageType, Addresses
  <1>3. heap' \in Seq(Uses) /\ Only(heap', {})
    BY <1>1, MessageFreedFacts
  <1>4. MessageInv'
    BY <1>1, <1>2, <1>3 DEF MessageInv, MessageType, Quiet, Parsed, Noted, Used, Valued
  <1>5. StreamInv' /\ CallType'
    BY <1>1, LineFacts DEF IInv, StreamInv, CallType, serverVars, Phases
  <1>6. QED
    BY <1>4, <1>5 DEF IInv

-----------------------------------------------------------------------------
(* The theorems                                                            *)

LEMMA InitIInv ==
    ASSUME Init
    PROVE  IInv
  <1>1. StreamInv
    <2>1. wire \in Started \cup LeftOver /\ link \in Live
      BY DEF Init, Live
    <2>2. wire \in Seq(Pieces)
      BY <2>1, ConnectedFacts
    <2>3. QED
      BY <2>1, <2>2, MaxNotesIsNumber, EmptySeq DEF Init, StreamInv
  <1>2. CallType
    BY LineFacts DEF Init, CallType, Phases
  <1>3. MessageType
    BY EmptySeq DEF Init, MessageType, MessageInit, Types, OtherTypes, Addresses
  <1>4. DOMAIN heap = {}
    BY EmptySeq, LenProperties DEF Init
  <1>5. Quiet
    BY <1>4 DEF Init, Quiet, MessageInit, Only
  <1>6. QED
    BY <1>1, <1>2, <1>3, <1>5 DEF Init, IInv, MessageInv, Parsed, Noted, Used, Valued

LEMMA StutterStep ==
    ASSUME IInv, UNCHANGED vars
    PROVE  IInv'
  <1>1. MessageInv'
    BY MessageUntouched DEF IInv, vars, messageVars
  <1>2. QED
    BY <1>1 DEF IInv, StreamInv, CallType, vars

LEMMA NextStep ==
    ASSUME IInv, [Next]_vars
    PROVE  IInv'
  BY ServerStep, CheckStep, ReadStep, PopulateStep, PreHookStep, DecryptStep, PostHookStep,
     FreeStep, StutterStep DEF Next, Application

LEMMA Invariance == Spec => []IInv
  BY InitIInv, NextStep, PTL DEF Spec

\* The server, the stream and the application's loop keep their types, for every
\* number of notifications.
THEOREM TypeCorrect == Spec => []TypeOK
  <1>1. ASSUME IInv PROVE TypeOK
    <2>1. \A i \in DOMAIN wire : wire[i] \in Pieces
      BY <1>1, LenProperties, ElementOfSeq DEF IInv, StreamInv
    <2>2. \A i \in DOMAIN inbox : inbox[i] \in Pieces
      BY <1>1, LenProperties, ElementOfSeq DEF IInv, StreamInv
    <2>3. \A i \in DOMAIN seen : seen[i] \in 1..MaxNotes
      BY <1>1, LenProperties, ElementOfSeq DEF IInv, StreamInv
    <2>4. message.type \in Types
      BY <1>1 DEF IInv, MessageInv, MessageType
    <2>5. QED
      BY <1>1, <2>1, <2>2, <2>3, <2>4 DEF TypeOK, IInv, StreamInv, CallType
  <1>2. QED
    BY <1>1, Invariance, PTL

\* atclient_monitor_read and atclient_monitor_message_free, whatever they read: what
\* the message's type makes free or show is NULL or a block of that kind.
THEOREM MessageSound == Spec => []Sound
  <1>1. ASSUME IInv PROVE Sound
    <2>1. CASE phase \in {"check", "answer", "connect", "read"}
      BY <1>1, <2>1 DEF IInv, MessageInv, Quiet, Sound
    <2>2. CASE phase = "populate"
      BY <1>1, <2>2 DEF IInv, MessageInv, Parsed, Sound, LineAt, Is
    <2>3. CASE phase \in {"pre", "decrypt", "post"}
      BY <1>1, <2>3 DEF IInv, MessageInv, Noted, Sound, LineAt, Is
    <2>4. CASE phase = "use"
      BY <1>1, <2>4 DEF IInv, MessageInv, Used, Sound, LineAt, Is
    <2>5. QED
      BY <1>1, <2>1, <2>2, <2>3, <2>4 DEF IInv, CallType, Phases
  <1>2. QED
    BY <1>1, Invariance, PTL

\* atclient_monitor_message_free leaves nothing of a message allocated.
THEOREM NothingLeaks == Spec => []NoLeaks
  <1>1. ASSUME IInv PROVE NoLeaks
    BY <1>1 DEF IInv, MessageInv, Quiet, Only, NoLeaks
  <1>2. QED
    BY <1>1, Invariance, PTL

\* A notification atclient_monitor_read reports has its decrypted value, or one of
\* the two known ways to hide that it has none was taken.
THEOREM ValueDelivered == Spec => []ValueUnlessMasked
  <1>1. ASSUME IInv PROVE ValueUnlessMasked
    BY <1>1 DEF IInv, MessageInv, Used, Valued, ValueUnlessMasked
  <1>2. QED
    BY <1>1, Invariance, PTL

-----------------------------------------------------------------------------
(* The order of the stream, for the feed: what was sent and not yet read   *)
(* lies in order in the stream, beyond all that the application was given  *)

\* what is received and what is under way
Stream == inbox \o wire

Noting(p) == p.line.kind = "note"

\* two pieces of one notification are its two parts, one behind the other
Ordered(s) == \A i, j \in DOMAIN s : i < j /\ Noting(s[i]) /\ Noting(s[j]) =>
    s[i].line.id < s[j].line.id \/ (j = i + 1 /\ s[i].part = "front")

UpTo(s, n) == \A i \in DOMAIN s : Noting(s[i]) => s[i].line.id <= n

Beyond(s, n) == \A i \in DOMAIN s : Noting(s[i]) => n < s[i].line.id

StreamOrder ==
    /\ Ordered(Stream) /\ UpTo(Stream, published)
    /\ \A k \in DOMAIN seen : seen[k] <= published /\ Beyond(Stream, seen[k])

\* the line in hand lies between what was given and what is still to be read
LineOrder ==
    phase \in {"populate", "pre", "decrypt", "post"} /\ Noting(line) =>
        /\ line.line.id <= published /\ Beyond(Stream, line.line.id)
        /\ \A k \in DOMAIN seen : seen[k] < line.line.id

OrderInv == StreamOrder /\ LineOrder

-----------------------------------------------------------------------------
(* Lemmas about the stream                                                 *)

LEMMA StreamFacts ==
    ASSUME NEW a \in Seq(Pieces), NEW b \in Seq(Pieces)
    PROVE  /\ a \o b \in Seq(Pieces) /\ DOMAIN (a \o b) = 1..(Len(a) + Len(b))
           /\ Len(a \o b) = Len(a) + Len(b) /\ Len(a) \in Nat /\ Len(b) \in Nat
           /\ \A i \in 1..Len(a) : (a \o b)[i] = a[i]
           /\ \A i \in 1..Len(b) : (a \o b)[Len(a) + i] = b[i]
  <1>1. /\ a \o b \in Seq(Pieces) /\ Len(a \o b) = Len(a) + Len(b)
        /\ \A i \in 1..(Len(a) + Len(b)) :
              (a \o b)[i] = IF i <= Len(a) THEN a[i] ELSE b[i - Len(a)]
    BY ConcatProperties
  <1>2. Len(a) \in Nat /\ Len(b) \in Nat /\ DOMAIN (a \o b) = 1..Len(a \o b)
    BY <1>1, LenProperties
  <1>3. ASSUME NEW i \in 1..Len(a)
        PROVE  (a \o b)[i] = a[i]
    <2>1. i \in 1..(Len(a) + Len(b)) /\ i <= Len(a)
      BY <1>2
    <2>2. QED
      BY <1>1, <2>1
  <1>4. ASSUME NEW i \in 1..Len(b)
        PROVE  (a \o b)[Len(a) + i] = b[i]
    <2>1. Len(a) + i \in 1..(Len(a) + Len(b)) /\ ~(Len(a) + i <= Len(a)) /\ Len(a) + i - Len(a) = i
      BY <1>2
    <2>2. QED
      BY <1>1, <2>1
  <1>5. QED
    BY <1>1, <1>2, <1>3, <1>4

\* t is what is left of s when k pieces were taken and some at the end were lost
Within(t, s, k) == Len(t) + k <= Len(s) /\ \A i \in 1..Len(t) : t[i] = s[i + k]

LEMMA NoteIds ==
    ASSUME NEW p \in Pieces, Noting(p)
    PROVE  p.line.id \in Nat
  BY MaxNotesIsNumber DEF Pieces, Noting, Lines, Note, Answer, Newline

LEMMA WithinFacts ==
    ASSUME NEW s \in Seq(Pieces), NEW t \in Seq(Pieces), NEW k \in Nat, Within(t, s, k)
    PROVE  /\ Ordered(s) => Ordered(t)
           /\ \A n \in Int : UpTo(s, n) => UpTo(t, n)
           /\ \A n \in Int : Beyond(s, n) => Beyond(t, n)
  <1>1. Len(t) \in Nat /\ Len(s) \in Nat /\ DOMAIN s = 1..Len(s) /\ DOMAIN t = 1..Len(t)
    BY LenProperties
  <1>2. \A i \in DOMAIN t : i + k \in DOMAIN s /\ t[i] = s[i + k]
    BY <1>1 DEF Within
  <1>3. ASSUME Ordered(s), NEW i \in DOMAIN t, NEW j \in DOMAIN t,
               i < j, Noting(t[i]), Noting(t[j])
        PROVE  t[i].line.id < t[j].line.id \/ (j = i + 1 /\ t[i].part = "front")
    <2>1. i + k \in DOMAIN s /\ j + k \in DOMAIN s /\ i + k < j + k
      BY <1>1, <1>2, <1>3
    <2>2. \/ s[i + k].line.id < s[j + k].line.id
          \/ j + k = (i + k) + 1 /\ s[i + k].part = "front"
      BY <1>2, <1>3, <2>1 DEF Ordered
    <2>3. j + k = (i + k) + 1 => j = i + 1
      BY <1>1
    <2>4. QED
      BY <1>2, <2>2, <2>3
  <1>4. Ordered(s) => Ordered(t)
    BY <1>3 DEF Ordered
  <1>5. \A n \in Int : UpTo(s, n) => UpTo(t, n)
    BY <1>2 DEF UpTo
  <1>6. \A n \in Int : Beyond(s, n) => Beyond(t, n)
    BY <1>2 DEF Beyond
  <1>7. QED
    BY <1>4, <1>5, <1>6

\* Pieces that are taken or lost leave the others in order.
LEMMA StreamLeft ==
    ASSUME IInv, IInv', OrderInv, UNCHANGED <<published, seen>>,
           NEW k \in Nat, Within(Stream', Stream, k)
    PROVE  StreamOrder' /\ \A n \in Int : Beyond(Stream, n) => Beyond(Stream', n)
  <1>1. Stream \in Seq(Pieces) /\ Stream' \in Seq(Pieces)
    BY StreamFacts DEF Stream, IInv, StreamInv
  <1>2. published \in Int /\ \A i \in DOMAIN seen : seen[i] \in Int
    BY MaxNotesIsNumber, ElementOfSeq, LenProperties DEF IInv, StreamInv
  <1>3. /\ Ordered(Stream) => Ordered(Stream')
        /\ \A n \in Int : UpTo(Stream, n) => UpTo(Stream', n)
        /\ \A n \in Int : Beyond(Stream, n) => Beyond(Stream', n)
    BY <1>1, WithinFacts
  <1>4. QED
    BY <1>2, <1>3 DEF OrderInv, StreamOrder

\* What a read leaves, and where the line it took lies.
LEMMA ReadOrder ==
    ASSUME IInv, NEW r \in Reads, inbox' = r.left, inbox' \in Seq(Pieces), wire' = wire, OrderInv
    PROVE  /\ \E k \in Nat : Within(Stream', Stream, k)
           /\ Parsable(r.got) /\ Noting(r.got) =>
                 /\ r.got.line.id \in Nat /\ r.got.line.id <= published
                 /\ Beyond(Stream', r.got.line.id)
                 /\ \A i \in DOMAIN seen : seen[i] < r.got.line.id
  <1> DEFINE first == Head(inbox)
             n == first.line.id
  <1>1. /\ inbox \in Seq(Pieces) /\ wire \in Seq(Pieces)
        /\ Len(inbox) \in Nat /\ Len(wire) \in Nat /\ Len(inbox') \in Nat
    BY LenProperties DEF IInv, StreamInv
  <1>2. inbox # <<>>
    BY DEF Reads
  <1>3. /\ first \in Pieces /\ first = inbox[1] /\ Len(inbox) >= 1
        /\ Tail(inbox) \in Seq(Pieces) /\ Len(Tail(inbox)) = Len(inbox) - 1
        /\ \A i \in 1..Len(Tail(inbox)) : Tail(inbox)[i] = inbox[i + 1]
    BY <1>1, <1>2, HeadTailProperties, EmptySeq
  <1>4. /\ DOMAIN Stream = 1..(Len(inbox) + Len(wire)) /\ Len(Stream) = Len(inbox) + Len(wire)
        /\ \A i \in 1..Len(inbox) : Stream[i] = inbox[i]
        /\ \A i \in 1..Len(wire) : Stream[Len(inbox) + i] = wire[i]
        /\ Stream \in Seq(Pieces)
    BY <1>1, StreamFacts DEF Stream
  <1>5. /\ DOMAIN Stream' = 1..(Len(inbox') + Len(wire)) /\ Len(Stream') = Len(inbox') + Len(wire)
        /\ \A i \in 1..Len(inbox') : Stream'[i] = inbox'[i]
        /\ \A i \in 1..Len(wire) : Stream'[Len(inbox') + i] = wire[i]
    BY <1>1, StreamFacts DEF Stream
  <1>6. \E k \in {1, 2} :
           /\ Len(inbox') = Len(inbox) - k /\ \A i \in 1..Len(inbox') : inbox'[i] = inbox[i + k]
           /\ \/ k = 1 /\ r.got = first
              \/ k = 2 /\ r.got = Piece(first.line, "whole")
    <2>1. CASE r = [got |-> first, left |-> Tail(inbox)]
      BY <1>3, <2>1
    <2>2. CASE Len(inbox) > 1 /\ r = [got |-> Piece(first.line, "whole"), left |-> Tail(Tail(inbox))]
      <3>1. Tail(inbox) # <<>>
        <4>1. Len(Tail(inbox)) # 0
          BY <1>1, <1>3, <2>2
        <4>2. Len(<<>>) = 0
          OBVIOUS
        <4>3. QED
          BY <4>1, <4>2
      <3>2. /\ Len(Tail(Tail(inbox))) = Len(Tail(inbox)) - 1
            /\ \A i \in 1..Len(Tail(Tail(inbox))) : Tail(Tail(inbox))[i] = Tail(inbox)[i + 1]
        BY <1>3, <3>1, HeadTailProperties
      <3>3. inbox' = Tail(Tail(inbox))
        BY <2>2
      <3>4. Len(inbox') = Len(inbox) - 2
        BY <1>1, <1>3, <3>2, <3>3
      <3>5. ASSUME NEW i \in 1..Len(inbox')
            PROVE  inbox'[i] = inbox[i + 2]
        <4>1. i \in 1..Len(Tail(Tail(inbox))) /\ i + 1 \in 1..Len(Tail(inbox)) /\ (i + 1) + 1 = i + 2
          BY <1>1, <1>3, <3>3, <3>4
        <4>2. QED
          BY <1>3, <3>2, <3>3, <4>1
      <3>6. QED
        BY <2>2, <3>4, <3>5
    <2>3. QED
      BY <1>2, <2>1, <2>2 DEF Reads
  <1>7. PICK k \in {1, 2} :
           /\ Len(inbox') = Len(inbox) - k /\ \A i \in 1..Len(inbox') : inbox'[i] = inbox[i + k]
           /\ \/ k = 1 /\ r.got = first
              \/ k = 2 /\ r.got = Piece(first.line, "whole")
    BY <1>6
  <1>8. Within(Stream', Stream, k)
    <2>1. ASSUME NEW i \in 1..Len(Stream')
          PROVE  Stream'[i] = Stream[i + k]
      <3>1. CASE i \in 1..Len(inbox')
        <4>1. i + k \in 1..Len(inbox)
          BY <1>1, <1>7, <3>1
        <4>2. QED
          BY <1>4, <1>5, <1>7, <3>1, <4>1
      <3>2. CASE i \notin 1..Len(inbox')
        <4> DEFINE j == i - Len(inbox')
        <4>1. j \in 1..Len(wire) /\ i = Len(inbox') + j /\ i + k = Len(inbox) + j
          BY <1>1, <1>5, <1>7, <3>2
        <4> HIDE DEF j
        <4>2. Stream'[Len(inbox') + j] = wire[j] /\ Stream[Len(inbox) + j] = wire[j]
          BY <1>4, <1>5, <4>1
        <4>3. QED
          BY <4>1, <4>2
      <3>3. QED
        BY <3>1, <3>2
    <2>2. Len(Stream') + k <= Len(Stream)
      BY <1>1, <1>4, <1>5, <1>7
    <2>3. QED
      BY <2>1, <2>2 DEF Within
  <1>9. ASSUME Parsable(r.got), Noting(r.got)
        PROVE  /\ r.got.line.id \in Nat /\ r.got.line.id <= published
               /\ Beyond(Stream', r.got.line.id)
               /\ \A i \in DOMAIN seen : seen[i] < r.got.line.id
    <2>1. r.got.line = first.line /\ Noting(first) /\ (k = 1 => first.part # "front")
      BY <1>7, <1>9 DEF Piece, Noting, Parsable
    <2>2. 1 \in DOMAIN Stream /\ Stream[1] = first
      BY <1>1, <1>3, <1>4
    <2>3. n \in Nat
      BY <1>3, <2>1, NoteIds
    <2>4. n <= published /\ \A i \in DOMAIN seen : seen[i] < n
      BY <2>1, <2>2 DEF OrderInv, StreamOrder, UpTo, Beyond
    <2>5. ASSUME NEW i \in DOMAIN Stream', Noting(Stream'[i])
          PROVE  n < Stream'[i].line.id
      <3>1. i + k \in DOMAIN Stream /\ Stream'[i] = Stream[i + k] /\ 1 < i + k
        BY <1>1, <1>4, <1>5, <1>8 DEF Within
      <3>2. n < Stream[i + k].line.id \/ (i + k = 2 /\ first.part = "front")
        BY <2>1, <2>2, <2>5, <3>1 DEF OrderInv, StreamOrder, Ordered
      <3>3. i + k = 2 => k = 1
        BY <1>5, <1>1
      <3>4. QED
        BY <2>1, <3>1, <3>2, <3>3
    <2>6. QED
      BY <2>1, <2>3, <2>4, <2>5 DEF Beyond
  <1>10. QED
    BY <1>8, <1>9

\* What is written goes behind all that is in the stream.
LEMMA StreamWritten ==
    ASSUME IInv, NEW l \in Lines, NEW p \in Ways(l), wire' = wire \o p, inbox' = inbox
    PROVE  /\ Stream \in Seq(Pieces) /\ Stream' = Stream \o p
           /\ DOMAIN Stream' = 1..(Len(Stream) + Len(p))
           /\ \A i \in 1..Len(Stream) : Stream'[i] = Stream[i]
           /\ \A i \in 1..Len(p) : Stream'[Len(Stream) + i] = p[i]
           /\ Len(p) \in Nat
           /\ \A i \in 1..Len(p) : p[i].line = l
           /\ \A i, j \in 1..Len(p) : i < j => j = i + 1 /\ p[i].part = "front"
  <1>1. inbox \in Seq(Pieces) /\ wire \in Seq(Pieces) /\ p \in Seq(Pieces)
    BY WaysFacts DEF IInv, StreamInv
  <1>2. inbox \o (wire \o p) = (inbox \o wire) \o p
    BY <1>1, ConcatAssociative
  <1>3. Stream' = Stream \o p
    BY <1>2 DEF Stream
  <1>4. Stream \in Seq(Pieces)
    BY <1>1, StreamFacts DEF Stream
  <1>5. /\ DOMAIN (Stream \o p) = 1..(Len(Stream) + Len(p)) /\ Len(p) \in Nat
        /\ \A i \in 1..Len(Stream) : (Stream \o p)[i] = Stream[i]
        /\ \A i \in 1..Len(p) : (Stream \o p)[Len(Stream) + i] = p[i]
    BY <1>1, <1>4, StreamFacts
  <1>6. CASE p = <<Piece(l, "whole")>>
    <2>1. Len(p) = 1 /\ p[1] = Piece(l, "whole")
      BY <1>6
    <2>2. p[1].line = l /\ \A i \in 1..1 : i = 1
      BY <2>1 DEF Piece
    <2>3. (\A i \in 1..1 : p[i].line = l) /\ \A i, j \in 1..1 : ~(i < j)
      BY <2>2
    <2>4. QED
      BY <1>3, <1>4, <1>5, <2>1, <2>3
  <1>7. CASE p = <<Piece(l, "front"), Piece(l, "rest")>>
    <2>1. Len(p) = 2 /\ p[1] = Piece(l, "front") /\ p[2] = Piece(l, "rest")
      BY <1>7
    <2>2. p[1].line = l /\ p[1].part = "front" /\ p[2].line = l
      BY <2>1 DEF Piece
    <2>3. \A i \in 1..2 : i = 1 \/ i = 2
      OBVIOUS
    <2>4. (\A i \in 1..2 : p[i].line = l) /\ \A i, j \in 1..2 : i < j => j = i + 1 /\ p[i].part = "front"
      BY <2>2, <2>3
    <2>5. QED
      BY <1>3, <1>4, <1>5, <2>1, <2>4
  <1>8. QED
    BY <1>6, <1>7 DEF Ways

-----------------------------------------------------------------------------
(* The steps                                                               *)

InHand == {"populate", "pre", "decrypt", "post"}

\* The order outlasts what only takes from the stream and leaves the line in hand.
LEMMA OrderKept ==
    ASSUME IInv, IInv', OrderInv, UNCHANGED <<published, seen>>,
           NEW k \in Nat, Within(Stream', Stream, k),
           phase' \in InHand => phase \in InHand /\ line' = line
    PROVE  OrderInv'
  <1>1. StreamOrder' /\ \A n \in Int : Beyond(Stream, n) => Beyond(Stream', n)
    BY StreamLeft
  <1>2. Noting(line) => line.line.id \in Nat
    BY NoteIds DEF IInv, CallType
  <1>3. LineOrder'
    BY <1>1, <1>2 DEF OrderInv, LineOrder, InHand
  <1>4. QED
    BY <1>1, <1>3 DEF OrderInv

LEMMA OrderUntouched ==
    ASSUME IInv, IInv', OrderInv, UNCHANGED <<published, seen, inbox, wire>>,
           phase' \in InHand => phase \in InHand /\ line' = line
    PROVE  OrderInv'
  <1>1. Stream \in Seq(Pieces) /\ Stream' = Stream
    BY StreamFacts DEF Stream, IInv, StreamInv
  <1>2. Within(Stream', Stream, 0)
    <2>1. Len(Stream) \in Nat
      BY <1>1, LenProperties
    <2>2. QED
      BY <1>1, <2>1 DEF Within
  <1>3. QED
    BY <1>2, OrderKept

LEMMA PublishOrder ==
    ASSUME IInv, IInv', OrderInv, Publish
    PROVE  OrderInv'
  <1> DEFINE n == published + 1
             N == Len(Stream)
  <1>1. published \in Nat /\ n \in 1..MaxNotes /\ published' = n
    BY MaxNotesIsNumber DEF Publish, IInv, StreamInv
  <1>2. PICK p \in Ways(Note(n)) : wire' = wire \o p
    BY DEF Publish
  <1>3. Note(n) \in Lines /\ inbox' = inbox
    BY <1>1, LineFacts DEF Publish
  <1>4. /\ Stream \in Seq(Pieces) /\ DOMAIN Stream' = 1..(N + Len(p))
        /\ \A i \in 1..N : Stream'[i] = Stream[i]
        /\ \A i \in 1..Len(p) : Stream'[N + i] = p[i]
        /\ Len(p) \in Nat
        /\ \A i \in 1..Len(p) : p[i].line = Note(n)
        /\ \A i, j \in 1..Len(p) : i < j => j = i + 1 /\ p[i].part = "front"
    BY <1>2, <1>3, StreamWritten
  <1>5. DOMAIN Stream = 1..N /\ N \in Nat
    BY <1>4, LenProperties
  <1>6. \A i \in DOMAIN Stream : Noting(Stream[i]) => Stream[i].line.id \in Nat
    BY <1>4, <1>5, NoteIds, ElementOfSeq
  <1>7. \A i \in 1..Len(p) : p[i].line.id = n
    BY <1>4 DEF Note
  <1>8. \A i \in DOMAIN Stream' : i \in 1..N \/ i - N \in 1..Len(p)
    BY <1>4, <1>5
  <1> HIDE DEF n, N
  <1>9. \A i \in DOMAIN Stream' : i \in 1..N \/ (Stream'[i] = p[i - N] /\ Stream'[i].line.id = n)
    <2>1. ASSUME NEW i \in DOMAIN Stream', i - N \in 1..Len(p)
          PROVE  Stream'[i] = p[i - N] /\ Stream'[i].line.id = n
      <3>1. N + (i - N) = i
        BY <1>4, <1>5, <2>1
      <3>2. Stream'[N + (i - N)] = p[i - N]
        BY <1>4, <2>1
      <3>3. QED
        BY <1>7, <2>1, <3>1, <3>2
    <2>2. QED
      BY <1>8, <2>1
  <1>10. UpTo(Stream, published) /\ n = published + 1
    BY DEF OrderInv, StreamOrder, n
  <1>11. ASSUME NEW i \in DOMAIN Stream', NEW j \in DOMAIN Stream',
                i < j, Noting(Stream'[i]), Noting(Stream'[j])
         PROVE  Stream'[i].line.id < Stream'[j].line.id \/ (j = i + 1 /\ Stream'[i].part = "front")
    <2>1. CASE i \in 1..N /\ j \in 1..N
      BY <1>4, <1>5, <1>11, <2>1 DEF OrderInv, StreamOrder, Ordered
    <2>2. CASE i \in 1..N /\ j \notin 1..N
      <3>1. Stream[i].line.id \in Nat /\ Stream[i].line.id <= published
        BY <1>4, <1>5, <1>6, <1>10, <1>11, <2>2 DEF UpTo
      <3>2. QED
        BY <1>1, <1>4, <1>9, <1>10, <1>11, <2>2, <3>1
    <2>3. CASE i \notin 1..N
      <3>1. i - N \in 1..Len(p) /\ j - N \in 1..Len(p) /\ i - N < j - N /\ Stream'[i] = p[i - N]
        BY <1>4, <1>5, <1>8, <1>9, <1>11, <2>3
      <3>2. j - N = (i - N) + 1 /\ p[i - N].part = "front"
        BY <1>4, <3>1
      <3>3. j = i + 1
        BY <1>4, <1>5, <3>2
      <3>4. QED
        BY <3>1, <3>2, <3>3
    <2>4. QED
      BY <2>1, <2>2, <2>3
  <1>12. Ordered(Stream')
    BY <1>11 DEF Ordered
  <1>13. UpTo(Stream', published')
    <2>1. ASSUME NEW i \in DOMAIN Stream', Noting(Stream'[i])
          PROVE  Stream'[i].line.id <= n
      BY <1>1, <1>4, <1>5, <1>6, <1>9, <1>10, <2>1 DEF UpTo
    <2>2. QED
      BY <1>1, <2>1 DEF UpTo
  <1>14. ASSUME NEW m \in Int, m < n, Beyond(Stream, m)
         PROVE  Beyond(Stream', m)
    BY <1>4, <1>5, <1>9, <1>14 DEF Beyond
  <1>15. ASSUME NEW k \in DOMAIN seen
         PROVE  seen[k] \in Int /\ Beyond(Stream, seen[k])
    BY MaxNotesIsNumber, ElementOfSeq, LenProperties DEF IInv, StreamInv, OrderInv, StreamOrder
  <1>16. \A k \in DOMAIN seen : seen[k] <= published' /\ Beyond(Stream', seen[k])
    <2>1. ASSUME NEW k \in DOMAIN seen
          PROVE  seen[k] < n
      BY <1>1, <1>10, <1>15, <2>1 DEF OrderInv, StreamOrder
    <2>2. QED
      BY <1>1, <1>14, <1>15, <2>1
  <1>17. StreamOrder'
    BY <1>12, <1>13, <1>16 DEF Publish, StreamOrder
  <1>18. ASSUME phase \in InHand, Noting(line)
         PROVE  line.line.id <= published' /\ Beyond(Stream', line.line.id)
    <2>1. /\ line.line.id \in Nat /\ line.line.id <= published /\ Beyond(Stream, line.line.id)
      BY <1>18, NoteIds DEF IInv, CallType, OrderInv, LineOrder, InHand
    <2>2. QED
      BY <1>1, <1>10, <1>14, <2>1
  <1>19. LineOrder'
    BY <1>18 DEF Publish, LineOrder, OrderInv, InHand
  <1>20. QED
    BY <1>17, <1>19 DEF OrderInv

LEMMA AnswerOrder ==
    ASSUME IInv, IInv', OrderInv, AnswerNoop
    PROVE  OrderInv'
  <1> DEFINE N == Len(Stream)
  <1>1. PICK p \in Ways(Answer) : wire' = wire \o p
    BY DEF AnswerNoop
  <1>2. /\ Stream \in Seq(Pieces) /\ DOMAIN Stream' = 1..(N + Len(p))
        /\ \A i \in 1..N : Stream'[i] = Stream[i]
        /\ \A i \in 1..Len(p) : Stream'[N + i] = p[i]
        /\ Len(p) \in Nat
        /\ \A i \in 1..Len(p) : p[i].line = Answer
    BY <1>1, LineFacts, StreamWritten DEF AnswerNoop
  <1>3. DOMAIN Stream = 1..N /\ N \in Nat
    BY <1>2, LenProperties
  <1> HIDE DEF N
  <1>4. ASSUME NEW i \in DOMAIN Stream', Noting(Stream'[i])
        PROVE  i \in DOMAIN Stream /\ Stream'[i] = Stream[i]
    <2>1. CASE i \in 1..N
      BY <1>2, <1>3, <2>1
    <2>2. CASE i \notin 1..N
      <3>1. i - N \in 1..Len(p) /\ N + (i - N) = i
        BY <1>2, <1>3, <2>2
      <3>2. Stream'[N + (i - N)].line = Answer
        BY <1>2, <3>1
      <3>3. QED
        BY <1>4, <3>1, <3>2 DEF Noting, Answer
    <2>3. QED
      BY <2>1, <2>2
  <1>5. /\ UNCHANGED <<published, seen, phase, line>>
        /\ Ordered(Stream) => Ordered(Stream')
        /\ \A m : UpTo(Stream, m) => UpTo(Stream', m)
        /\ \A m : Beyond(Stream, m) => Beyond(Stream', m)
    BY <1>4 DEF AnswerNoop, Ordered, UpTo, Beyond
  <1>6. QED
    BY <1>5 DEF OrderInv, StreamOrder, LineOrder

LEMMA ArriveOrder ==
    ASSUME IInv, IInv', OrderInv, Arrive
    PROVE  OrderInv'
  <1>1. /\ inbox \in Seq(Pieces) /\ wire \in Seq(Pieces) /\ wire # <<>>
        /\ inbox' = Append(inbox, Head(wire)) /\ wire' = Tail(wire)
        /\ UNCHANGED <<published, seen, phase, line>>
    BY DEF Arrive, IInv, StreamInv
  <1>2. /\ Head(wire) = wire[1] /\ Head(wire) \in Pieces /\ Tail(wire) \in Seq(Pieces)
        /\ Len(Tail(wire)) = Len(wire) - 1
        /\ \A i \in 1..Len(Tail(wire)) : Tail(wire)[i] = wire[i + 1]
    BY <1>1, HeadTailProperties
  <1>3. /\ inbox' \in Seq(Pieces) /\ Len(inbox') = Len(inbox) + 1
        /\ \A i \in 1..Len(inbox) : inbox'[i] = inbox[i]
        /\ inbox'[Len(inbox) + 1] = wire[1]
    BY <1>1, <1>2, AppendProperties
  <1>4. /\ Len(Stream) = Len(inbox) + Len(wire) /\ Len(inbox) \in Nat /\ Len(wire) \in Nat
        /\ \A i \in 1..Len(inbox) : Stream[i] = inbox[i]
        /\ \A i \in 1..Len(wire) : Stream[Len(inbox) + i] = wire[i]
    BY <1>1, StreamFacts DEF Stream
  <1>5. /\ Len(Stream') = Len(inbox') + Len(wire') /\ Len(wire') \in Nat
        /\ \A i \in 1..Len(inbox') : Stream'[i] = inbox'[i]
        /\ \A i \in 1..Len(wire') : Stream'[Len(inbox') + i] = wire'[i]
    BY <1>1, <1>2, <1>3, StreamFacts DEF Stream
  <1>6. Len(wire) >= 1
    BY <1>1, EmptySeq, <1>4
  <1>7. Len(Stream') = Len(Stream)
    BY <1>1, <1>2, <1>3, <1>4, <1>5
  <1>8. ASSUME NEW i \in 1..Len(Stream')
        PROVE  Stream'[i] = Stream[i]
    <2>1. CASE i \in 1..Len(inbox)
      BY <1>3, <1>4, <1>5, <2>1
    <2>2. CASE i = Len(inbox) + 1
      <3>1. i \in 1..Len(inbox') /\ 1 \in 1..Len(wire)
        BY <1>3, <1>4, <1>6, <2>2
      <3>2. Stream'[i] = wire[1] /\ Stream[Len(inbox) + 1] = wire[1]
        BY <1>3, <1>4, <1>5, <2>2, <3>1
      <3>3. QED
        BY <2>2, <3>2
    <2>3. CASE i > Len(inbox) + 1
      <3> DEFINE j == i - (Len(inbox) + 1)
      <3>1. /\ j \in 1..Len(wire') /\ j + 1 \in 1..Len(wire)
            /\ i = Len(inbox') + j /\ i = Len(inbox) + (j + 1)
        BY <1>1, <1>2, <1>3, <1>4, <1>5, <2>3
      <3> HIDE DEF j
      <3>2. Stream'[Len(inbox') + j] = wire'[j] /\ Stream[Len(inbox) + (j + 1)] = wire[j + 1]
        BY <1>4, <1>5, <3>1
      <3>3. wire'[j] = wire[j + 1]
        BY <1>1, <1>2, <3>1
      <3>4. QED
        BY <3>1, <3>2, <3>3
    <2>4. QED
      BY <1>4, <2>1, <2>2, <2>3
  <1>9. Within(Stream', Stream, 0)
    BY <1>4, <1>7, <1>8 DEF Within
  <1>10. QED
    BY <1>1, <1>9, OrderKept

LEMMA CloseOrder ==
    ASSUME IInv, IInv', OrderInv, Close
    PROVE  OrderInv'
  <1>1. /\ inbox \in Seq(Pieces) /\ wire \in Seq(Pieces) /\ wire' = <<>> /\ inbox' = inbox
        /\ UNCHANGED <<published, seen, phase, line>>
    BY DEF Close, IInv, StreamInv
  <1>2. /\ Len(Stream) = Len(inbox) + Len(wire) /\ Len(inbox) \in Nat /\ Len(wire) \in Nat
        /\ \A i \in 1..Len(inbox) : Stream[i] = inbox[i]
    BY <1>1, StreamFacts DEF Stream
  <1>3. Stream' = inbox
    BY <1>1, ConcatEmptySeq DEF Stream
  <1>4. Within(Stream', Stream, 0)
    BY <1>2, <1>3 DEF Within
  <1>5. QED
    BY <1>1, <1>4, OrderKept

LEMMA ConnectOrder ==
    ASSUME IInv, IInv', OrderInv, Connect
    PROVE  OrderInv'
  <1>1. /\ inbox' = <<>> /\ wire' \in Started \cup LeftOver
        /\ UNCHANGED <<published, seen>> /\ phase' \notin InHand
    BY DEF Connect, InHand, Started
  <1>2. Stream' = wire'
    BY <1>1, ConcatEmptySeq DEF Stream, IInv, StreamInv
  <1>3. \A i \in DOMAIN wire' : ~Noting(wire'[i])
    BY <1>1, ConnectedFacts DEF Noting, Answer, Newline
  <1>4. Ordered(Stream') /\ \A n : UpTo(Stream', n) /\ Beyond(Stream', n)
    BY <1>2, <1>3 DEF Ordered, UpTo, Beyond
  <1>5. QED
    BY <1>1, <1>4 DEF OrderInv, StreamOrder, LineOrder, InHand

\* A read that does not take its line in hand
LEMMA ReadPastOrder ==
    ASSUME IInv, IInv', OrderInv, NEW r \in Reads, inbox' = r.left,
           UNCHANGED <<published, seen, wire>>, phase' \notin InHand
    PROVE  OrderInv'
  <1>1. PICK k \in Nat : Within(Stream', Stream, k)
    BY ReadOrder DEF IInv, StreamInv
  <1>2. QED
    BY <1>1, OrderKept

LEMMA ReadLineOrder ==
    ASSUME IInv, IInv', OrderInv, ReadLine
    PROVE  OrderInv'
  <1>1. PICK r \in Reads : Parsable(r.got) /\ inbox' = r.left /\ line' = r.got
    BY DEF ReadLine
  <1>2. UNCHANGED <<published, seen, wire>> /\ inbox' \in Seq(Pieces)
    BY DEF ReadLine, serverVars, IInv, StreamInv
  <1>3. /\ \E k \in Nat : Within(Stream', Stream, k)
        /\ Noting(line') =>
              /\ line'.line.id \in Nat /\ line'.line.id <= published
              /\ Beyond(Stream', line'.line.id)
              /\ \A i \in DOMAIN seen : seen[i] < line'.line.id
    BY <1>1, <1>2, ReadOrder
  <1>4. StreamOrder'
    BY <1>2, <1>3, StreamLeft
  <1>5. LineOrder'
    BY <1>2, <1>3 DEF LineOrder
  <1>6. QED
    BY <1>4, <1>5 DEF OrderInv

\* The notification handed over is the next in the feed.
LEMMA PostHookOrder ==
    ASSUME IInv, IInv', OrderInv, PostHook
    PROVE  OrderInv' /\ (UNCHANGED <<published, seen>> \/ Feed!Deliver)
  <1>1. phase = "post" /\ UNCHANGED <<published, inbox, wire, line>> /\ phase' = "use"
    BY DEF PostHook, serverVars, Delivered, Undecrypted, Failed, Return
  <1>2. CASE UNCHANGED seen
    BY <1>1, <1>2, OrderUntouched DEF InHand
  <1>3. CASE seen' = Append(seen, line.line.id)
    <2> DEFINE n == line.line.id
    <2>1. Noting(line) /\ n \in Nat
      BY <1>1, NotificationInHand, NoteIds DEF Noting, IInv, CallType
    <2>2. n <= published /\ Beyond(Stream, n) /\ \A k \in DOMAIN seen : seen[k] < n
      BY <1>1, <2>1 DEF OrderInv, LineOrder
    <2>3. 1 <= n /\ n \in 1..MaxNotes
      BY <2>1 DEF IInv, CallType, Pieces, Lines, Note, Answer, Newline, Noting
    <2>4. published \in Nat
      BY MaxNotesIsNumber DEF IInv, StreamInv
    <2> HIDE DEF n
    <2>5. seen' = Append(seen, n) /\ n \in 1..published
      BY <1>3, <2>1, <2>2, <2>3, <2>4 DEF n
    <2>6. Feed!Deliver
      BY <1>1, <2>2, <2>5 DEF Feed!Deliver
    <2>7. Stream' = Stream
      BY <1>1 DEF Stream
    <2>8. seen \in Seq(1..MaxNotes) /\ n \in 1..MaxNotes
      BY <2>3 DEF n, IInv, StreamInv
    <2>9. ASSUME NEW k \in DOMAIN seen'
          PROVE  seen'[k] <= published /\ Beyond(Stream, seen'[k])
      <3>1. /\ Len(seen) \in Nat /\ DOMAIN seen = 1..Len(seen)
            /\ DOMAIN seen' = 1..(Len(seen) + 1)
            /\ \A i \in 1..Len(seen) : seen'[i] = seen[i]
            /\ seen'[Len(seen) + 1] = n
        BY <2>5, <2>8, AppendProperties, LenProperties
      <3>2. k \in DOMAIN seen \/ k = Len(seen) + 1
        BY <2>9, <3>1
      <3>3. QED
        BY <2>2, <3>1, <3>2 DEF OrderInv, StreamOrder
    <2>10. StreamOrder'
      BY <1>1, <2>7, <2>9 DEF OrderInv, StreamOrder
    <2>11. LineOrder'
      BY <1>1 DEF LineOrder
    <2>12. QED
      BY <2>6, <2>10, <2>11 DEF OrderInv
  <1>4. QED
    BY <1>2, <1>3 DEF PostHook, Delivered

LEMMA OrderStep ==
    ASSUME IInv, IInv', OrderInv, [Next]_vars
    PROVE  OrderInv' /\ [Feed!Next]_<<published, seen>>
  <1>1. CASE Publish
    <2>1. Feed!Publish
      BY <1>1 DEF Publish, Feed!Publish
    <2>2. QED
      BY <1>1, <2>1, PublishOrder DEF Feed!Next
  <1>2. CASE AnswerNoop
    BY <1>2, AnswerOrder DEF AnswerNoop
  <1>3. CASE Arrive
    BY <1>3, ArriveOrder DEF Arrive
  <1>4. CASE Close
    BY <1>4, CloseOrder DEF Close
  <1>5. CASE Noop \/ CheckTimedOut
    BY <1>5, OrderUntouched DEF Noop, CheckTimedOut, serverVars, InHand
  <1>6. CASE CheckAnswered
    <2>1. /\ UNCHANGED <<published, seen, wire>> /\ phase' \notin InHand
          /\ \E r \in Reads : inbox' = r.left
      BY <1>6 DEF CheckAnswered, serverVars, InHand
    <2>2. QED
      BY <2>1, ReadPastOrder
  <1>7. CASE Connect
    BY <1>7, ConnectOrder DEF Connect
  <1>8. CASE ReadTimedOut
    BY <1>8, OrderUntouched DEF ReadTimedOut, Return, serverVars, InHand
  <1>9. CASE ReadFails \/ ReadRefused
    <2>1. /\ UNCHANGED <<published, seen, wire>> /\ phase' \notin InHand
          /\ \E r \in Reads : inbox' = r.left
      BY <1>9 DEF ReadFails, ReadRefused, Return, serverVars, InHand
    <2>2. QED
      BY <2>1, ReadPastOrder
  <1>10. CASE ReadLine
    BY <1>10, ReadLineOrder DEF ReadLine, serverVars
  <1>11. CASE Populate
    <2>1. phase = "populate" /\ UNCHANGED <<published, seen, inbox, wire, line>>
      BY <1>11 DEF Populate, PopulateUnknown, PopulateResponse, PopulateBare, PopulateNoMemory,
         PopulateUnreadable, PopulateNotification, IsNote, serverVars
    <2>2. QED
      BY <2>1, OrderUntouched DEF InHand
  <1>12. CASE PreHook \/ Decrypt
    <2>1. phase \in {"pre", "decrypt"} /\ UNCHANGED <<published, seen, inbox, wire, line>>
      BY <1>12 DEF PreHook, Decrypt, DecryptText, DecryptFails, DecryptNoMemory, serverVars
    <2>2. QED
      BY <2>1, OrderUntouched DEF InHand
  <1>13. CASE PostHook
    BY <1>13, PostHookOrder DEF Feed!Next
  <1>14. CASE MessageFree
    BY <1>14, OrderUntouched DEF MessageFree, serverVars, InHand
  <1>15. CASE UNCHANGED vars
    BY <1>15, OrderUntouched DEF vars, serverVars, InHand
  <1>16. QED
    BY <1>1, <1>2, <1>3, <1>4, <1>5, <1>6, <1>7, <1>8, <1>9, <1>10, <1>11, <1>12, <1>13, <1>14,
       <1>15 DEF Next, Server, Application, Check

-----------------------------------------------------------------------------
(* The theorem                                                             *)

LEMMA InitOrder ==
    ASSUME Init
    PROVE  OrderInv /\ Feed!Init
  <1>1. /\ wire \in Started \cup LeftOver /\ inbox = <<>> /\ seen = <<>> /\ published = 0
        /\ phase = "check"
    BY DEF Init
  <1>2. wire \in Seq(Pieces) /\ \A i \in DOMAIN wire : ~Noting(wire[i])
    BY <1>1, ConnectedFacts DEF Noting, Answer, Newline
  <1>3. Stream = wire
    BY <1>1, <1>2, ConcatEmptySeq DEF Stream
  <1>4. Ordered(Stream) /\ \A n : UpTo(Stream, n)
    BY <1>2, <1>3 DEF Ordered, UpTo
  <1>5. StreamOrder /\ LineOrder
    BY <1>1, <1>4 DEF StreamOrder, LineOrder
  <1>6. QED
    BY <1>1, <1>5 DEF OrderInv, Feed!Init

\* The monitor's loop, with its checks, timeouts, cut lines and reconnects, implements
\* the feed: no notification is invented, repeated or overtaken.
THEOREM MonitorFeeds == Spec => ImplementsFeed
  <1>1. Init => OrderInv /\ Feed!Init
    BY InitOrder
  <1>2. IInv /\ IInv' /\ OrderInv /\ [Next]_vars => OrderInv' /\ [Feed!Next]_<<published, seen>>
    BY OrderStep
  <1>3. QED
    BY <1>1, <1>2, Invariance, PTL DEF Spec, ImplementsFeed, Feed!Spec
=============================================================================
