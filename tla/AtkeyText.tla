------------------------------ MODULE AtkeyText ------------------------------
(***************************************************************************)
(* An atKey as text, atclient_atkey_from_string and                        *)
(* atclient_atkey_to_string: [cached:][public: | @shared_with:]            *)
(* key[.namespace]@shared_by.  The words "cached" and "public" are one     *)
(* piece each, since the parser compares a token's beginning with them.    *)
(* A name too long for the parser's buffer is outside the model.           *)
(***************************************************************************)
EXTENDS Integers, Sequences, SequencesExt

CONSTANTS
    Steps, MaxSteps,        \* the sequences of pieces a name grows by; bound: their number
    Words                   \* the pieces a name is made of besides the delimiters

NamePieces == Words \cup {"cached", "public", "@", ":", "."}

ASSUME StepBound == MaxSteps \in Nat
ASSUME NameSteps == Words \cap {"@", ":", "."} = {} /\ \A s \in Steps : s \in Seq(NamePieces)

VARIABLES name, steps       \* the text so far and the number of steps it took

nameVars == <<name, steps>>

StartsWith(s, word) == s # <<>> /\ s[1] = word

FirstIn(s, c) == SelectInSeq(s, LAMBDA e : e = c)

FirstOther(s, c) == SelectInSeq(s, LAMBDA e : e # c)

\* strtok_r: delimiters before the token are skipped; no token is the empty one
Undelimited(s, delim) ==
    LET begin == FirstOther(s, delim)
    IN  IF begin = 0 THEN <<>> ELSE SubSeq(s, begin, Len(s))

Split(s, delim) ==
    LET end == FirstIn(s, delim)
    IN  IF end = 0 THEN [tok |-> s, rest |-> <<>>]
        ELSE [tok |-> SubSeq(s, 1, end - 1), rest |-> SubSeq(s, end + 1, Len(s))]

Token(s, delim) == Split(Undelimited(s, delim), delim)

\* Wrong on purpose: the "@" that the tokenizer took is not put back
AtsignAsIs(s) == s

AtsignWithAt(s) == IF StartsWith(s, "@") THEN s ELSE <<"@">> \o s

NoAtkey == [ret |-> 1, cached |-> FALSE, public |-> FALSE, with |-> <<>>,
            key |-> <<>>, namespace |-> <<>>, by |-> <<>>]

\* a namespace, if a "." is there and is not the last: what follows the key's token
ReadKey(named, k) ==
    LET dot == FirstIn(named.tok, ".")
    IN  IF named.tok = <<>> \/ named.rest = <<>> THEN NoAtkey
        ELSE IF dot = 0 \/ dot = Len(named.tok)
             THEN [k EXCEPT !.key = named.tok, !.by = AtsignWithAt(named.rest)]
        ELSE LET t == Token(named.tok, ".")
             IN  IF t.rest = <<>> THEN NoAtkey
                 ELSE [k EXCEPT !.key = t.tok, !.namespace = t.rest, !.by = AtsignWithAt(named.rest)]

\* of the atSign's token; what follows its next ":" is dropped
ReadName(t, k) == ReadKey(Token(t.tok, "@"), k)

ReadScope(t, k) ==
    IF StartsWith(t.tok, "public") THEN ReadName(Token(t.rest, ":"), [k EXCEPT !.public = TRUE])
    ELSE IF StartsWith(t.tok, "@") THEN ReadName(Token(t.rest, ":"), [k EXCEPT !.with = t.tok])
    ELSE ReadName(t, k)

ReadCached(t) ==
    IF StartsWith(t.tok, "cached")
    THEN ReadScope(Token(t.rest, ":"), [NoAtkey EXCEPT !.ret = 0, !.cached = TRUE])
    ELSE ReadScope(t, [NoAtkey EXCEPT !.ret = 0])

AtkeyFromString(s) == ReadCached(Token(s, ":"))

IsShared(k) == ~k.public /\ k.with # <<>> /\ k.with # k.by

AtkeyToString(k) ==
    (IF k.cached THEN <<"cached", ":">> ELSE <<>>)
        \o (IF k.public THEN <<"public", ":">> ELSE IF IsShared(k) THEN k.with \o <<":">> ELSE <<>>)
        \o k.key
        \o (IF k.namespace # <<>> THEN <<".">> \o k.namespace ELSE <<>>)
        \o k.by

\* atclient_atkey_strlen: what to_string allocates, but for the terminator
AtkeyStrlen(k) ==
    (IF k.cached THEN 2 ELSE 0) + (IF k.public THEN 2 ELSE 0)
        + (IF IsShared(k) THEN Len(k.with) + 1 ELSE 0)
        + Len(k.key) + (IF k.namespace # <<>> THEN 1 + Len(k.namespace) ELSE 0) + Len(k.by)

-----------------------------------------------------------------------------
NameInit == name = <<>> /\ steps = 0

NameGrows(s) ==
    /\ steps < MaxSteps
    /\ name' = name \o s
    /\ steps' = steps + 1

NameNext == \E s \in Steps : NameGrows(s)

-----------------------------------------------------------------------------
\* the names that to_string prints without anything in front of the key
PlainSelfKey(k) == ~k.public /\ ~IsShared(k)

Misread(k) ==
    \/ PlainSelfKey(k) /\ (k.key[1] = "public" \/ (k.key[1] = "cached" /\ ~k.cached))
    \/ Len(k.by) = 1 \/ k.by[2] = "@"

\* the names of the documentation, atclient_atkey.c:127-167, but for self keys
\* that begin with "cached" or "public"
WellFormed(s) ==
    \E cached \in {<<>>, <<"cached", ":">>}, key, by \in Words :
    \E scope \in {<<>>, <<"public", ":">>} \cup {<<"@", w, ":">> : w \in Words \ {by}},
       namespace \in {<<>>} \cup {<<".", w>> : w \in Words} :
        /\ s = cached \o scope \o <<key>> \o namespace \o <<"@", by>>
        /\ scope = <<>> => key \notin {"cached", "public"}

PrintsAs(k) ==
    /\ Len(AtkeyToString(k)) = AtkeyStrlen(k)
    /\ ~Misread(k) =>
           /\ AtkeyFromString(AtkeyToString(k)).ret = 0
           /\ AtkeyToString(AtkeyFromString(AtkeyToString(k))) = AtkeyToString(k)

\* A well formed name is parsed, and printed as it was, into exactly the bytes
\* counted for it; any name the parser accepts, however odd, is printed as one
\* that names the same record again: an update and the lookup of what a scan
\* listed reach the same key.  The exception is a self key whose own name
\* begins with "public" or "cached", or whose atSign has no name: it is
\* printed but not parsed back.
KeyTextRoundTrip ==
    /\ WellFormed(name) =>
           AtkeyFromString(name).ret = 0 /\ AtkeyToString(AtkeyFromString(name)) = name
    /\ AtkeyFromString(name).ret = 0 => PrintsAs(AtkeyFromString(name))
=============================================================================
