--------------------------------- MODULE Rpc ---------------------------------
(***************************************************************************)
(* RPC over notifications: a request and its answers are keys, written     *)
(* "@to:request.<id>.<domain>.__rpcs.<base>@from" and                      *)
(* "@to:<answer>.<id>.<domain>.__rpcs.<base>@from".  The peer is external: *)
(* its ids may be wider than 32 bits and it may leave the base out.        *)
(* One request and its answers are modelled; two requests that are not     *)
(* told apart are two values of the id with one reading.  Names that       *)
(* overflow the buffers of a key are outside the model.                    *)
(***************************************************************************)
EXTENDS Integers, Sequences, SequencesExt

CONSTANTS
    Domains,            \* domain namespaces, as sequences of characters
    Ids,                \* the ids a request may have
    IdSpan,             \* 2^32: the ids of a uint32_t
    LongSpans           \* the span of unsigned long, on each target

\* an unsigned long has 32 bits at least
ASSUME RpcNumbers == /\ Ids \subseteq Nat /\ IdSpan \in Nat \ {0}
                     /\ LongSpans \subseteq Nat /\ \A span \in LongSpans : IdSpan <= span

\* a name does not begin with a dot, and the word __rpcs is not part of one
ASSUME DomainNames ==
    \A d \in Domains : /\ d \in Seq(STRING)
                       /\ d # <<>> => d[1] # "."
                       /\ \A i \in 1..Len(d) : d[i] # "__rpcs"

VARIABLES
    request,            \* none, or who sent it, with which id, in which domain, and its key
    response            \* the key of an answer to it, or none

rpcVars == <<request, response>>

Answers == {"ack", "nack", "success", "error"}
Nothing == <<>>

\* the id is one piece; any other piece is no number
IdText(id) == <<"id", id>>
Word(w) == <<"word", w>>
Chars(s) == [i \in DOMAIN s |-> Word(s[i])]
Dot == Word(".")

Suffix(domain, aware) ==
    Chars(domain) \o <<Dot, Word("__rpcs")>> \o (IF aware THEN <<Dot, Word("base")>> ELSE <<>>) \o <<Word("@")>>

Key(kind, id, domain, aware) ==
    <<Word("@"), Word("to"), Word(":"), Word(kind), Dot, IdText(id), Dot>>
        \o Suffix(domain, aware) \o <<Word("from")>>

Holds(s, part) == \E i \in 0 .. Len(s) - Len(part) : SubSeq(s, i + 1, i + Len(part)) = part

Body(key) == SubSeq(key, SelectInSeq(key, LAMBDA c : c = Word(":")) + 1, Len(key))

InNamespace(key, domain) == Holds(key, Suffix(domain, TRUE)) \/ Holds(key, Suffix(domain, FALSE))

IsResponseKey(key, domain) ==
    InNamespace(key, domain) /\ \E t \in Answers : IsPrefix(<<Word(t), Dot>>, Body(key))

IsRequestKey(key, domain) ==
    InNamespace(key, domain) /\ IsPrefix(<<Word("request"), Dot>>, Body(key))

\* Wrong on purpose: the id is read as a signed number of 32 bits
IdReadSigned(id, span) == IF id < IdSpan \div 2 THEN id ELSE IdSpan \div 2 - 1

\* strtoul, which stops at the largest unsigned long, cut to a uint32_t
IdRead(id, span) == (IF id < span THEN id ELSE span - 1) % IdSpan

Unread == [ret |-> -1, id |-> 0, kind |-> "none"]

ParseKey(key, kinds, span) ==
    LET body == Body(key)
        dot1 == SelectInSeq(body, LAMBDA c : c = Dot)
        dot2 == SelectInSubSeq(body, dot1 + 1, Len(body), LAMBDA c : c = Dot)
    IN  IF \/ dot1 # 2 \/ body[1][2] \notin kinds
           \/ dot2 # 4 \/ body[3][1] # "id"
        THEN Unread
        ELSE [ret |-> 0, id |-> IdRead(body[3][2], span), kind |-> body[1][2]]

ParseResponseKey(key, span) == ParseKey(key, Answers, span)

\* the envelope of every request has a payload
ParseRequest(key, span) == ParseKey(key, {"request"}, span)

-----------------------------------------------------------------------------
RpcInit == request = Nothing /\ response = Nothing

\* send_request; the id is a uint32_t
DeviceAsks(id, domain) ==
    /\ request = Nothing /\ id < IdSpan
    /\ request' = [from |-> "device", id |-> id, domain |-> domain, key |-> Key("request", id, domain, TRUE)]
    /\ UNCHANGED response

PeerAsks(id, domain, aware) ==
    /\ request = Nothing
    /\ request' = [from |-> "peer", id |-> id, domain |-> domain, key |-> Key("request", id, domain, aware)]
    /\ UNCHANGED response

\* the loop rpc.h lays out: a request of the domain served is parsed and answered,
\* first by an ack, then by its result
DeviceAnswers(kind, domain, span) ==
    LET read == ParseRequest(request.key, span)
    IN  /\ request # Nothing /\ request.from = "peer"
        /\ IsRequestKey(request.key, domain)
        /\ read.ret = 0
        /\ response' = [kind |-> kind, span |-> span, key |-> Key(kind, read.id, domain, TRUE)]
        /\ UNCHANGED request

PeerAnswers(kind, aware) ==
    /\ request # Nothing /\ request.from = "device"
    /\ \E span \in LongSpans :
           response' = [kind |-> kind, span |-> span, key |-> Key(kind, request.id, request.domain, aware)]
    /\ UNCHANGED request

RpcNext ==
    \/ \E id \in Ids, d \in Domains : DeviceAsks(id, d) \/ \E aware \in BOOLEAN : PeerAsks(id, d, aware)
    \/ \E kind \in Answers :
          \/ \E d \in Domains, span \in LongSpans : DeviceAnswers(kind, d, span)
          \/ \E aware \in BOOLEAN : PeerAnswers(kind, aware)

-----------------------------------------------------------------------------
EndsWithAnother(d) == \E e \in Domains \ {d} : IsSuffix(e, d)

\* An answer finds its request: the device that asked recognises it in the
\* domain it asked in and no other, and reads the kind and the id that were
\* sent; the peer that asked gets its own id back, in its own domain.  The
\* exceptions are an id of more than 32 bits, which comes back as another one
\* (atclient_rpc.c:295), and a domain whose name ends with the name of another
\* one, whose keys both take for their own (atclient_rpc.c:121).
AnswersFindTheirRequest ==
    (request # Nothing /\ response # Nothing) =>
        LET read == ParseResponseKey(response.key, response.span)
            told == IF request.from = "peer" THEN response.key[6][2] ELSE read.id
        IN  /\ IsResponseKey(response.key, request.domain) \/ EndsWithAnother(request.domain)
            /\ ~EndsWithAnother(request.domain) =>
                   \A d \in Domains \ {request.domain} : ~IsResponseKey(response.key, d)
            /\ read.ret = 0 /\ read.kind = response.kind
            /\ request.id < IdSpan => told = request.id
=============================================================================
