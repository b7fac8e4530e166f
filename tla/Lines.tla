-------------------------------- MODULE Lines --------------------------------
(***************************************************************************)
(* The lines the servers answer with and the three places that take them   *)
(* apart: atclient_utils_find_index_past_at_prompt for the answer to a     *)
(* command, atserver_message_parse for what a monitor reads, and           *)
(* atdirectory_lookup.  A text is a sequence of pieces, each one character *)
(* or a word no parser looks into ("null" is four characters).             *)
(***************************************************************************)
EXTENDS Integers, Sequences, SequencesExt

CONSTANTS
    Pieces, MaxLine,        \* what an atServer's line is made of; bound: pieces of it
    Digits, DigitValue, DigitWeight,    \* the digits of a port, some taken together:
                                        \* their value and the power of ten before them
    MaxAnswer,              \* bound: pieces of the atDirectory's line
    PartLenMax,             \* ATSERVER_MESSAGE_PROMPT_LEN_MAX and ..._TOKEN_LEN_MAX
    PortMax                 \* UINT16_MAX

ASSUME LineBounds == MaxLine \in Nat /\ MaxAnswer \in Nat /\ PartLenMax \in Nat /\ PortMax \in Nat
ASSUME DigitKinds == /\ DigitValue \in [Digits -> Nat] /\ DigitWeight \in [Digits -> Nat]
                     /\ Digits \cap {"\r", "\n", " ", "+"} = {}

VARIABLES line, answer      \* what an atServer, the atDirectory has sent of a line

lineVars == <<line, answer>>

First(s, from, c) == SelectInSubSeq(s, from, Len(s), LAMBDA e : e = c)
LastBefore(s, to, c) == SelectLastInSubSeq(s, 1, to - 1, LAMBDA e : e = c)
Begins(s, prefix) == IsPrefix(prefix, s)
From(s, i) == SubSeq(s, i, Len(s))
Terminated(s) == s # <<>> /\ Last(s) = "\n"

-----------------------------------------------------------------------------
\* Wrong on purpose: forward to the next "@" instead of back from the token
PastAtPromptForward(s) ==
    IF First(s, 2, ":") = 0 THEN -1 ELSE First(s, 2, "@")

\* how many pieces find_index_past_at_prompt skips; -1: the token is missing
PastAtPrompt(s) ==
    LET colon == First(s, 2, ":")
    IN  CASE s[1] # "@" -> 0
          [] s[1] = "@" /\ Begins(s, <<"@", "null">>) -> 1
          [] s[1] = "@" /\ ~Begins(s, <<"@", "null">>) ->
                 IF colon = 0 THEN -1 ELSE LastBefore(s, colon, "@")

EmptyMessage == [prompt |-> 0, token |-> 0, text |-> <<>>]

Chopped(s) ==
    SubSeq(s, 1, Len(s) - (IF Len(s) > 1 /\ s[Len(s) - 1] = "\r" THEN 2 ELSE 1))

\* the lengths of the prompt and of the token, and the line without its end
MessageParse(s) ==
    LET text == Chopped(s)
        colon == First(text, 2, ":")
        prompt == IF text[1] = "@" THEN LastBefore(text, colon, "@") ELSE 0
        token == colon - prompt
    IN  IF \/ ~Terminated(s)
           \/ text = <<>>
           \/ colon = 0
           \/ prompt > PartLenMax \/ token > PartLenMax
        THEN EmptyMessage
        ELSE [prompt |-> prompt, token |-> token, text |-> text]

-----------------------------------------------------------------------------
NoAddress == [ret |-> 1, host |-> <<>>, port |-> 0]

IsLineEnd(c) == c \in {"\r", "\n"}

\* a blank stands for all white space that ends no line
IsWhite(c) == c = " " \/ IsLineEnd(c)

\* what is left for strtol to read as digits: the code cuts the line's end, strtol skips
\* white space and a plus; a minus makes the number too small and is any other character
PortText(s) ==
    LET begin == SelectInSeq(s, LAMBDA c : ~IsWhite(c))
        end == SelectLastInSeq(s, LAMBDA c : ~IsLineEnd(c))
    IN  IF begin = 0 THEN <<>>
        ELSE SubSeq(s, IF s[begin] = "+" THEN begin + 1 ELSE begin, end)

\* strtol of digits alone, past PortMax no further
Number(s) ==
    LET number[n \in 0 .. Len(s)] ==
            IF n = 0 THEN 0
            ELSE LET before == number[n - 1]
                 IN  IF before > PortMax THEN before
                     ELSE before * DigitWeight[s[n]] + DigitValue[s[n]]
    IN  number[Len(s)]

\* Wrong on purpose: the port is cut to its 16 bits before it is looked at
ParseHostPortCut(s) ==
    LET colon == First(s, 2, ":")
        digits == PortText(From(s, colon + 1))
    IN  IF colon = 0 \/ digits = <<>> \/ \E i \in DOMAIN digits : digits[i] \notin Digits
        THEN NoAddress
        ELSE [ret |-> 0, host |-> SubSeq(s, 1, colon - 1), port |-> Number(digits) % (PortMax + 1)]

ParseHostPort(s) ==
    LET colon == First(s, 2, ":")
        digits == PortText(From(s, colon + 1))
        port == Number(digits)
    IN  IF \/ colon = 0
           \/ digits = <<>> \/ \E i \in DOMAIN digits : digits[i] \notin Digits
           \/ port < 1 \/ port > PortMax
        THEN NoAddress
        ELSE [ret |-> 0, host |-> SubSeq(s, 1, colon - 1), port |-> port]

WithoutAt(s) == IF s[1] = "@" THEN Tail(s) ELSE s

\* "null" has to be the whole of what was read, its line end included
Lookup(s) ==
    LET named == WithoutAt(s)
    IN  IF named = <<"null">> THEN [NoAddress EXCEPT !.ret = 0] ELSE ParseHostPort(named)

-----------------------------------------------------------------------------
LineInit == line = <<>> /\ answer = <<>>

ServerSends(c) ==
    /\ ~Terminated(line) /\ Len(line) < MaxLine
    /\ line' = Append(line, c)
    /\ UNCHANGED answer

DirectorySends(c) ==
    /\ ~Terminated(answer) /\ Len(answer) < MaxAnswer
    /\ answer' = Append(answer, c)
    /\ UNCHANGED line

ServerNext == \E c \in Pieces \cup {"\r", "\n"} : ServerSends(c)
DirectoryNext == \E c \in Pieces \cup Digits \cup {"\r", "\n", " ", "+"} : DirectorySends(c)

-----------------------------------------------------------------------------
\* A line a monitor takes apart is the line an answer would be: both readers
\* drop the same prompt and so find the same token and body, the parts are of
\* the line and in order, and a line one of them rejects for want of a token is
\* rejected by the other.  The exception is a prompt that begins "@null", which
\* find_index_past_at_prompt takes for the word null: of an atSign that begins
\* so it leaves the prompt in the answer (atclient_atclient_utils.c:74).
PromptsAgree ==
    Terminated(line) =>
        LET m == MessageParse(line)
            past == PastAtPrompt(line)
            short == Len(line) <= PartLenMax
        IN  /\ (past = -1) => m = EmptyMessage
            /\ m # EmptyMessage =>
                 /\ m.token > 0 /\ m.text[m.prompt + m.token] = ":"
                 /\ m.prompt > 0 => m.text[m.prompt] = "@"
                 /\ \A i \in (m.prompt + 1) .. (m.prompt + m.token - 1) :
                        m.text[i] # "@" \/ m.prompt = 0
                 /\ Begins(line, m.text)
                 /\ ~Begins(line, <<"@", "null">>) => past = m.prompt
            /\ (m = EmptyMessage /\ short /\ line[1] = "@" /\ Len(line) > 1)
                 => past = -1 \/ Begins(line, <<"@", "null">>)

\* Of whatever the atDirectory has sent when the read ends, at the line's end or at the
\* timeout, a lookup that succeeds makes no other address: the host is the text up to
\* the first colon, the port is all the digits between white space with at most a plus
\* and the line's end, and their value fits in 16 bits.  A success without a host is of a
\* text that says "null" and no more (atclient_atdirectory.c:82).
AddressOrError ==
    answer # <<>> /\ Lookup(answer).ret = 0 =>
        LET r == Lookup(answer)
            named == WithoutAt(answer)
            colon == Len(r.host) + 1
        IN  IF r.host = <<>> THEN named = <<"null">>
            ELSE /\ Begins(named, r.host) /\ named[colon] = ":"
                 /\ r.port \in 1 .. PortMax
                 /\ \E i, j \in colon + 1 .. Len(named) :
                       /\ \A k \in colon + 1 .. i - 1 :
                             IsWhite(named[k]) \/ (named[k] = "+" /\ k = i - 1)
                       /\ \A k \in i .. j : named[k] \in Digits
                       /\ \A k \in j + 1 .. Len(named) : IsLineEnd(named[k])
                       /\ Number(SubSeq(named, i, j)) = r.port
=============================================================================
