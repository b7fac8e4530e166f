---------------------- MODULE SharedKeyExchange_proofs ----------------------
(***************************************************************************)
(* Proofs about SharedKeyExchange, for any set of clients and of keys and  *)
(* any bound on what is under way.                                         *)
(***************************************************************************)
EXTENDS SharedKeyExchange, SequenceTheorems, TLAPS

-----------------------------------------------------------------------------
(* The inductive invariant: as long as the pair is intact                  *)

\* the server has our copy of the pair client c made, and not yet theirs
HalfWay(c) ==
    /\ key[c] = mine
    /\ pc[c] = "them" \/ (pc[c] = "us" /\ Ack \in Range(link[c].answers))

\* theirs follows mine, and while it is missing someone is about to send it, or
\* someone who was has given up
Paired ==
    \/ theirs = mine
    \/ /\ theirs = NoKey
       /\ (\E c \in Clients : HalfWay(c)) \/ "interrupted" \in mishaps

\* what was stored is under the one key there ever was
Sealed == \A o \in {"put", "notify"} : sealed[o] # NoKey => sealed[o] = mine

Reading ==
    /\ reader.how # "idle" => reader.held = mine /\ mine # NoKey
    /\ reader.got # "garbage"

\* the call that c gave up may have left an update under way
Late(c) == pc[c] = "idle" /\ "interrupted" \in mishaps

\* Which keys are under way.  An update of the pair is under way for the call that
\* waits for its answer, or was left by the call given up last; values and keys that
\* were looked up may be left over.
KeysAsked(c) == \A x \in Range(link[c].asked) :
    /\ x.c \in {"put", "notify"} => x.k = mine /\ mine # NoKey
    /\ x.c = "us" => (pc[c] = "us" /\ x.k = key[c]) \/ (Late(c) /\ x.k \in Keys)
    /\ x.c = "them" =>
          (pc[c] = "them" /\ x.k = key[c]) \/ (Late(c) /\ x.k = mine /\ mine # NoKey)

KeysAnswered(c) ==
    \A x \in Range(link[c].answers) : x.a = "key" => x.k = mine /\ mine # NoKey

\* an answer to the lookup of the public key cannot be a left over one
Getting(c) == pc[c] = "get" =>
    /\ \A x \in Range(link[c].asked) : x.c # "lookup"
    /\ \A x \in Range(link[c].answers) : x.a # "pub"

\* and once it is there it is all there is, so the answer to 7a is that to 7a
LookingUp(c) == pc[c] = "pub" =>
    LET l == link[c]
    IN  /\ \A i \in 1..Len(l.asked) : l.asked[i].c = "lookup" => i = Len(l.asked)
        /\ \A i \in 1..Len(l.answers) :
              l.answers[i].a = "pub" => i = Len(l.answers) /\ l.asked = <<>>

Ours(c) == pc[c] = "us" =>
    LET l == link[c]
    IN  /\ key[c] \in Keys
        /\ l.answers = <<>> \/ l.asked = <<>>
        /\ Len(l.asked) <= 1 /\ Len(l.answers) <= 1
        /\ \A x \in Range(l.asked) : x.c = "us"
        /\ \A x \in Range(l.answers) : x \in {Ack, Junk}
        /\ Ack \in Range(l.answers) => mine = key[c]

\* the rest of the answer to 7a may be left; it is no data
Theirs(c) == pc[c] = "them" =>
    LET l == link[c]
    IN  /\ key[c] \in Keys /\ mine = key[c]
        /\ Len(l.asked) <= 1
        /\ \A x \in Range(l.asked) : x.c = "them"
        /\ \A x \in Range(l.answers) : IsData(x) => l.asked = <<>> /\ theirs = mine

InCall(c) ==
    /\ KeysAsked(c) /\ KeysAnswered(c)
    /\ Getting(c) /\ LookingUp(c) /\ Ours(c) /\ Theirs(c)

Clean == Paired /\ Sealed /\ Reading /\ \A c \in Clients : InCall(c)

CleanInv == Intact => Clean
IInv == TypeOK /\ CleanInv

-----------------------------------------------------------------------------
(* Lemmas about sequences, as far as their elements go                     *)

\* One element behind the others.
LEMMA AppendRange ==
    ASSUME NEW S, NEW s \in Seq(S), NEW e \in S
    PROVE  /\ Append(s, e) \in Seq(S) /\ Len(Append(s, e)) = Len(s) + 1
           /\ Range(Append(s, e)) = Range(s) \cup {e}
<1> DEFINE t == Append(s, e)
<1>1. /\ t \in Seq(S) /\ Len(t) = Len(s) + 1 /\ Len(s) \in Nat
      /\ \A i \in 1..Len(s) : t[i] = s[i]
      /\ t[Len(s) + 1] = e
  BY AppendProperties, LenProperties
<1>2. DOMAIN s = 1..Len(s) /\ DOMAIN t = 1..(Len(s) + 1)
  BY <1>1, LenProperties
<1> HIDE DEF t
<1>3. Range(t) = Range(s) \cup {e}
  BY <1>1, <1>2 DEF Range
<1> QED  BY <1>1, <1>3 DEF t

\* The first element and the others.
LEMMA TailRange ==
    ASSUME NEW S, NEW s \in Seq(S), s # <<>>
    PROVE  /\ Head(s) \in S /\ Head(s) = s[1] /\ Head(s) \in Range(s)
           /\ Tail(s) \in Seq(S) /\ Len(s) \in Nat \ {0} /\ Len(Tail(s)) = Len(s) - 1
           /\ \A i \in 1..Len(Tail(s)) : Tail(s)[i] = s[i + 1]
           /\ Range(Tail(s)) \subseteq Range(s)
<1>1. /\ Tail(s) \in Seq(S) /\ Len(Tail(s)) = Len(s) - 1
      /\ \A i \in 1..Len(Tail(s)) : Tail(s)[i] = s[i + 1]
  BY HeadTailProperties
<1>2. Len(s) \in Nat \ {0} /\ DOMAIN s = 1..Len(s) /\ DOMAIN Tail(s) = 1..(Len(s) - 1)
  BY <1>1, EmptySeq, LenProperties
<1>3. Head(s) = s[1] /\ Head(s) \in Range(s) /\ Head(s) \in S
  BY <1>2, HeadTailProperties DEF Range
<1>4. Range(Tail(s)) \subseteq Range(s)
  BY <1>1, <1>2 DEF Range
<1> QED  BY <1>1, <1>2, <1>3, <1>4

\* One element before the others.
LEMMA ConsRange ==
    ASSUME NEW S, NEW s \in Seq(S), NEW e \in S
    PROVE  <<e>> \o s \in Seq(S) /\ Range(<<e>> \o s) = Range(s) \cup {e}
<1> DEFINE t == <<e>> \o s
<1>0. <<e>> \in Seq(S) /\ Len(<<e>>) = 1 /\ <<e>>[1] = e
  OBVIOUS
<1>1. /\ t \in Seq(S) /\ Len(t) = Len(s) + 1 /\ Len(s) \in Nat
      /\ \A i \in 1..(Len(s) + 1) : t[i] = IF i <= 1 THEN e ELSE s[i - 1]
  BY <1>0, ConcatProperties, LenProperties
<1>2. DOMAIN s = 1..Len(s) /\ DOMAIN t = 1..(Len(s) + 1)
  BY <1>1, LenProperties
<1> HIDE DEF t
<1>3. e \in Range(t)
  BY <1>1, <1>2 DEF Range
<1>4. ASSUME NEW x \in Range(s) PROVE x \in Range(t)
  <2>1. PICK i \in 1..Len(s) : s[i] = x
    BY <1>2 DEF Range
  <2>2. i + 1 \in 1..(Len(s) + 1) /\ ~(i + 1 <= 1) /\ (i + 1) - 1 = i
    BY <1>1
  <2> QED  BY <1>1, <1>2, <2>1, <2>2 DEF Range
<1>5. ASSUME NEW x \in Range(t) PROVE x \in Range(s) \cup {e}
  <2>1. PICK i \in 1..(Len(s) + 1) : t[i] = x
    BY <1>2 DEF Range
  <2>2. i <= 1 \/ i - 1 \in 1..Len(s)
    BY <1>1
  <2> QED  BY <1>1, <1>2, <2>1, <2>2 DEF Range
<1> QED  BY <1>1, <1>3, <1>4, <1>5 DEF t

\* A sequence without elements, and one that has some.
LEMMA RangeFacts ==
    ASSUME NEW S, NEW s \in Seq(S)
    PROVE  /\ Len(s) \in Nat /\ Range(s) \subseteq S
           /\ \A i \in 1..Len(s) : s[i] \in Range(s)
           /\ Len(s) = 0 <=> s = <<>>
           /\ s = <<>> => Range(s) = {}
<1>1. Len(s) \in Nat /\ DOMAIN s = 1..Len(s) /\ s \in [1..Len(s) -> S]
  BY LenProperties
<1>2. Len(s) = 0 <=> s = <<>>
  BY EmptySeq
<1> QED  BY <1>1, <1>2 DEF Range

\* Nothing follows a first element that is the only one.
LEMMA NoneLeft ==
    ASSUME NEW S, NEW s \in Seq(S), s # <<>>, Len(s) <= 1
    PROVE  Tail(s) = <<>> /\ Range(Tail(s)) = {}
<1> DEFINE t == Tail(s)
<1>1. t \in Seq(S) /\ Len(s) \in Nat \ {0} /\ Len(t) = Len(s) - 1
  BY TailRange
<1> HIDE DEF t
<1>2. Len(t) = 0
  BY <1>1
<1>3. t = <<>>
  BY <1>1, <1>2, EmptySeq
<1>4. Range(t) = {}
  BY <1>1, <1>3, RangeFacts
<1> QED  BY <1>3, <1>4 DEF t

\* The last element stays the last one.
LEMMA LastLeft ==
    ASSUME NEW S, NEW s \in Seq(S), s # <<>>, NEW i \in 1..Len(Tail(s))
    PROVE  /\ i + 1 \in 1..Len(s) /\ Tail(s)[i] = s[i + 1]
           /\ i + 1 = Len(s) => i = Len(Tail(s))
<1> DEFINE t == Tail(s)
<1>1. Len(s) \in Nat \ {0} /\ Len(t) = Len(s) - 1 /\ t[i] = s[i + 1]
  BY TailRange
<1> HIDE DEF t
<1>2. i \in 1..Len(t)
  BY DEF t
<1>3. i + 1 \in 1..Len(s) /\ (i + 1 = Len(s) => i = Len(t))
  BY <1>1, <1>2
<1> QED  BY <1>1, <1>3 DEF t

-----------------------------------------------------------------------------
(* Lemmas about a connection                                               *)

Commands == [c : {"get", "lookup", "us", "them", "put", "notify"}, k : MaybeKeys]
Answers == [a : {"key", "pub", "ack", "notfound", "junk"}, k : MaybeKeys]

\* NoKey is no key, and both are what a command may carry.
LEMMA Constants == NoKey \in MaybeKeys /\ Keys \subseteq MaybeKeys /\ NoKey \notin Keys
BY NoKeyAssumption DEF MaybeKeys

\* What goes over it.
LEMMA Traffic ==
    /\ {Ack, NotFound, Junk} \subseteq Answers
    /\ \A k \in MaybeKeys : Ans("key", k) \in Answers /\ Ans("pub", k) \in Answers
    /\ \A k \in MaybeKeys, c \in {"get", "lookup", "us", "them", "put", "notify"} :
          Cmd(c, k) \in Commands /\ Cmd(c, k).c = c /\ Cmd(c, k).k = k
    /\ Ack.a = "ack" /\ NotFound.a = "notfound" /\ Junk.a = "junk"
    /\ IsData(Ack) /\ ~IsData(NotFound) /\ ~IsData(Junk) /\ Ack # Junk
BY Constants DEF Ack, NotFound, Junk, Ans, Cmd, Answers, Commands, IsData

\* TypeOK, taken apart for one client.
LEMMA LinkType ==
    ASSUME TypeOK, NEW c \in Clients
    PROVE  /\ link[c] \in Links /\ link[c].up \in BOOLEAN
           /\ link[c].asked \in Seq(Commands) /\ link[c].answers \in Seq(Answers)
           /\ pc[c] \in {"idle", "get", "pub", "us", "them", "value"}
           /\ op[c] \in {"put", "notify"} /\ key[c] \in MaybeKeys
           /\ link = [d \in Clients |-> link[d]] /\ DOMAIN link = Clients
<1>1. link[c] \in Links
  BY DEF TypeOK
<1>2. link[c].asked \in Seq(Commands) /\ link[c].answers \in Seq(Answers) /\ link[c].up \in BOOLEAN
  BY <1>1 DEF Links, Commands, Answers
<1> QED  BY <1>1, <1>2 DEF TypeOK

\* What a read gives, and what it leaves.
LEMMA ReadFacts ==
    ASSUME TypeOK, NEW c \in Clients, NEW r \in Reads(link[c].answers)
    PROVE  LET s == link[c].answers
           IN  /\ r.ans \in Answers /\ r.rest \in Seq(Answers)
               /\ After(c, r) = [link[c] EXCEPT !.answers = r.rest]
               /\ r.ans = Junk \/ (s # <<>> /\ r.ans = Head(s))
               /\ s # <<>> => \A x \in Range(r.rest) : x = Junk \/ x \in Range(Tail(s))
               /\ s = <<>> => r.rest = <<>>
               /\ \A x \in Range(r.rest) : x = Junk \/ x \in Range(s)
               /\ r.ans \in {Junk, Ack, NotFound} \/ r.rest = Tail(s)
<1> DEFINE s == link[c].answers
           t == Tail(s)
           u == <<Junk>> \o t
<1>1. s \in Seq(Answers) /\ {Ack, NotFound, Junk} \subseteq Answers
  BY LinkType, Traffic
<1>2. r \in Reads(s) /\ After(c, r) = [link[c] EXCEPT !.answers = r.rest]
  BY DEF After
<1> SUFFICES
         /\ r.ans \in Answers /\ r.rest \in Seq(Answers)
         /\ r.ans = Junk \/ (s # <<>> /\ r.ans = Head(s))
         /\ s # <<>> => \A x \in Range(r.rest) : x = Junk \/ x \in Range(t)
         /\ s = <<>> => r.rest = <<>>
         /\ \A x \in Range(r.rest) : x = Junk \/ x \in Range(s)
         /\ r.ans \in {Junk, Ack, NotFound} \/ r.rest = t
  BY <1>2
<1> HIDE DEF s
<1>3. CASE s = <<>>
  <2>1. r = [ans |-> Junk, rest |-> <<>>]
    BY <1>2, <1>3 DEF Reads
  <2>2. r.ans = Junk /\ r.rest = <<>> /\ <<>> \in Seq(Answers) /\ Range(<<>>) = {}
    BY <2>1, EmptySeq, RangeFacts
  <2> QED  BY <1>1, <1>3, <2>2
<1>4. CASE s # <<>>
  <2>1. Head(s) \in Answers /\ t \in Seq(Answers) /\ Range(t) \subseteq Range(s)
    BY <1>1, <1>4, TailRange
  <2>2. r = [ans |-> Head(s), rest |-> t] \/ r = [ans |-> Junk, rest |-> t]
        \/ \E x \in {Junk} \cup ({Head(s)} \cap {Ack, NotFound}) : r = [ans |-> x, rest |-> u]
    BY <1>2, <1>4 DEF Reads
  <2>3. \/ r.ans = Head(s) /\ r.rest = t
        \/ r.ans = Junk /\ r.rest = t
        \/ r.ans \in {Junk} \cup ({Head(s)} \cap {Ack, NotFound}) /\ r.rest = u
    BY <2>2
  <2> HIDE DEF t
  <2>4. u \in Seq(Answers) /\ Range(u) = Range(t) \cup {Junk}
    BY <1>1, <2>1, ConsRange
  <2> HIDE DEF u
  <2> QED  BY <1>1, <1>4, <2>1, <2>3, <2>4
<1> QED  BY <1>3, <1>4

\* What a write leaves.
LEMMA WriteFacts ==
    ASSUME NEW l \in Links, NEW cmd \in Commands, NEW w, w = Written(l, cmd)
    PROVE  /\ w \in Links /\ w.answers = l.answers
           /\ \/ w.asked = l.asked
              \/ /\ w.asked = Append(l.asked, cmd) /\ Len(w.asked) = Len(l.asked) + 1
                 /\ \A i \in 1..Len(l.asked) : w.asked[i] = l.asked[i]
                 /\ w.asked[Len(l.asked) + 1] = cmd
           /\ w.asked \in Seq(Commands)
           /\ Range(w.asked) \subseteq Range(l.asked) \cup {cmd}
<1>1. l.asked \in Seq(Commands)
  BY DEF Links, Commands
<1> DEFINE t == Append(l.asked, cmd)
<1>2. t \in Seq(Commands) /\ Range(t) = Range(l.asked) \cup {cmd}
  BY <1>1, AppendRange
<1>3. /\ Len(t) = Len(l.asked) + 1 /\ t[Len(l.asked) + 1] = cmd
      /\ \A i \in 1..Len(l.asked) : t[i] = l.asked[i]
  BY <1>1, AppendProperties
<1>4. w = IF l.up THEN [l EXCEPT !.asked = t] ELSE l
  BY DEF Written
<1>5. l.up \in BOOLEAN
  BY DEF Links
<1> HIDE DEF t
<1>6. CASE l.up
  <2>1. w = [l EXCEPT !.asked = t]
    BY <1>4, <1>6
  <2>2. w \in Links /\ w.answers = l.answers /\ w.asked = t
    BY <1>2, <2>1 DEF Links, Commands
  <2>3. w.asked = Append(l.asked, cmd)
    BY <2>2 DEF t
  <2> QED  BY <1>2, <1>3, <2>2, <2>3
<1>7. CASE ~l.up
  BY <1>1, <1>4, <1>7
<1> QED  BY <1>5, <1>6, <1>7

\* The same, in short.
LEMMA WriteRange ==
    ASSUME NEW l \in Links, NEW cmd \in Commands
    PROVE  /\ Written(l, cmd).answers = l.answers
           /\ Range(Written(l, cmd).asked) \subseteq Range(l.asked) \cup {cmd}
BY WriteFacts

\* The first command on a connection in step.
LEMMA FirstCommand ==
    ASSUME NEW l \in Links, NEW cmd \in Commands, l.asked = <<>>, l.answers = <<>>
    PROVE  LET w == Written(l, cmd)
           IN  w.answers = <<>> /\ Range(w.asked) \subseteq {cmd}
<1>1. Range(<<>>) = {}
  BY RangeFacts, EmptySeq
<1> QED  BY <1>1, WriteRange

\* A read leaves a connection as good as it was.
LEMMA AfterType ==
    ASSUME TypeOK, NEW c \in Clients, NEW r \in Reads(link[c].answers)
    PROVE  /\ After(c, r) \in Links
           /\ After(c, r).answers = r.rest
           /\ After(c, r).asked = link[c].asked
<1>1. link[c] \in Links /\ r.rest \in Seq(Answers)
  BY LinkType, ReadFacts
<1> QED  BY <1>1 DEF After, Links, Answers

\* A command follows what was read.
LEMMA Asking ==
    ASSUME TypeOK, NEW c \in Clients, NEW r \in Reads(link[c].answers), NEW cmd \in Commands,
           NEW w, w = Written(After(c, r), cmd)
    PROVE  /\ w \in Links /\ w.answers = r.rest
           /\ \/ w.asked = link[c].asked
              \/ /\ w.asked = Append(link[c].asked, cmd)
                 /\ Len(w.asked) = Len(link[c].asked) + 1
                 /\ \A i \in 1..Len(link[c].asked) : w.asked[i] = link[c].asked[i]
                 /\ w.asked[Len(link[c].asked) + 1] = cmd
           /\ w.asked \in Seq(Commands)
           /\ Range(w.asked) \subseteq Range(link[c].asked) \cup {cmd}
<1> DEFINE l == After(c, r)
<1>1. l \in Links /\ l.answers = r.rest /\ l.asked = link[c].asked
  BY AfterType
<1>2. w = Written(l, cmd)
  OBVIOUS
<1> HIDE DEF l
<1>3. /\ w \in Links /\ w.answers = l.answers
      /\ \/ w.asked = l.asked
         \/ /\ w.asked = Append(l.asked, cmd) /\ Len(w.asked) = Len(l.asked) + 1
            /\ \A i \in 1..Len(l.asked) : w.asked[i] = l.asked[i]
            /\ w.asked[Len(l.asked) + 1] = cmd
      /\ w.asked \in Seq(Commands)
      /\ Range(w.asked) \subseteq Range(l.asked) \cup {cmd}
  BY <1>1, <1>2, WriteFacts
<1> QED  BY <1>1, <1>3

-----------------------------------------------------------------------------
(* Type correctness                                                        *)

Places == {"idle", "get", "pub", "us", "them", "value"}

\* the part of TypeOK a call may touch
CallType ==
    /\ link \in [Clients -> Links]
    /\ pc \in [Clients -> Places]
    /\ op \in [Clients -> {"put", "notify"}]
    /\ key \in [Clients -> MaybeKeys]
    /\ acked \in MaybeKeys

\* A step that asks keeps the types of what it changes.
LEMMA AskType ==
    ASSUME TypeOK, NEW c \in Clients, NEW l \in Links, NEW cmd \in Commands,
           NEW next \in Places, Asks(c, l, cmd, next)
    PROVE  /\ link' \in [Clients -> Links] /\ pc' \in [Clients -> Places]
           /\ op' \in [Clients -> {"put", "notify"}] /\ acked' \in MaybeKeys
<1>1. Written(l, cmd) \in Links
  BY WriteFacts
<1> QED  BY <1>1 DEF Asks, TypeOK, Places

\* So does one that ends the call.
LEMMA EndType ==
    ASSUME TypeOK, NEW c \in Clients, NEW l \in Links, Ends(c, l)
    PROVE  /\ link' \in [Clients -> Links] /\ pc' \in [Clients -> Places]
           /\ op' \in [Clients -> {"put", "notify"}] /\ key' \in [Clients -> MaybeKeys]
BY Constants DEF Ends, TypeOK, Places

\* So does one that gives up.
LEMMA FailType ==
    ASSUME TypeOK, NEW c \in Clients, NEW l \in Links, Fails(c, l)
    PROVE  CallType' /\ used' \subseteq Keys
BY EndType DEF Fails, TypeOK, CallType

\* So does one that sends the value.
LEMMA SendType ==
    ASSUME TypeOK, NEW c \in Clients, NEW l \in Links, NEW k \in MaybeKeys, SendsValue(c, l, k)
    PROVE  CallType'
<1>1. CASE Asks(c, l, Cmd(op[c], k), "value") /\ key' = [key EXCEPT ![c] = k]
  <2>1. Cmd(op[c], k) \in Commands /\ "value" \in Places
    BY LinkType, Traffic DEF Places
  <2>2. key' \in [Clients -> MaybeKeys]
    BY <1>1 DEF TypeOK
  <2> QED  BY <1>1, <2>1, <2>2, AskType DEF CallType
<1>2. CASE Ends(c, Written(l, Cmd("put", k))) /\ UNCHANGED acked
  <2>1. Cmd("put", k) \in Commands
    BY Traffic
  <2>2. Written(l, Cmd("put", k)) \in Links
    BY <2>1, WriteFacts
  <2> QED  BY <1>2, <2>2, EndType DEF CallType, TypeOK
<1> QED  BY <1>1, <1>2 DEF SendsValue

\* The atServer keeps the types.
LEMMA ServeType ==
    ASSUME TypeOK, NEW c \in Clients, Serve(c)
    PROVE  TypeOK'
<1> DEFINE s == link[c].asked
           a == link[c].answers
           cmd == Head(s)
           t == Tail(s)
<1>1. s \in Seq(Commands) /\ a \in Seq(Answers) /\ s # <<>> /\ link[c] \in Links
  BY LinkType DEF Serve
<1>2. cmd \in Commands /\ t \in Seq(Commands)
  BY <1>1, HeadTailProperties
<1>3. cmd.k \in MaybeKeys
  BY <1>2 DEF Commands
<1>4. PICK x : link' = [link EXCEPT ![c].asked = Tail(@), ![c].answers = Append(@, x)]
               /\ x \in {NotFound, Ans("key", mine), Ans("pub", NoKey), Ack, Junk}
  BY Zenon DEF Serve, Refuses
<1>5. x \in Answers
  BY <1>4, Traffic, Constants DEF TypeOK
<1> DEFINE b == Append(a, x)
<1>6. b \in Seq(Answers)
  BY <1>1, <1>5, AppendProperties
<1> DEFINE l == [link[c] EXCEPT !.asked = t, !.answers = b]
<1>7. link' = [link EXCEPT ![c] = l]
  BY <1>4, LinkType
<1> HIDE DEF b, t
<1>8. l \in Links
  BY <1>1, <1>2, <1>6 DEF Links, Commands, Answers
<1> HIDE DEF l
<1>9. link' \in [Clients -> Links]
  BY <1>7, <1>8 DEF TypeOK
<1>10. /\ mine' \in {mine, cmd.k} /\ theirs' \in {theirs, cmd.k}
       /\ \/ sealed' = sealed
          \/ cmd.c \in {"put", "notify"} /\ sealed' = [sealed EXCEPT ![cmd.c] = cmd.k]
       /\ mishaps' \in {mishaps, mishaps \cup {}, mishaps \cup {"replaced"}}
       /\ UNCHANGED <<clientVars, reader>>
  BY DEF Serve, serverVars
<1> HIDE DEF cmd
<1> QED  BY <1>3, <1>9, <1>10 DEF TypeOK, clientVars

\* A client keeps the types.
LEMMA CallKeepsType ==
    ASSUME TypeOK, NEW c \in Clients, Call(c)
    PROVE  TypeOK'
<1>1. ASSUME NEW r \in Reads(link[c].answers)
      PROVE  After(c, r) \in Links /\ r.ans.k \in MaybeKeys
  BY AfterType, ReadFacts DEF Answers
<1>2. /\ \A k \in MaybeKeys : Cmd("us", k) \in Commands /\ Cmd("them", k) \in Commands
      /\ Cmd("get", NoKey) \in Commands /\ Cmd("lookup", NoKey) \in Commands
      /\ {"get", "pub", "us", "them"} \subseteq Places
      /\ NoKey \in MaybeKeys /\ Keys \subseteq MaybeKeys
      /\ key[c] \in MaybeKeys /\ link[c] \in Links
  BY Traffic, Constants, LinkType DEF Places
<1>3. ASSUME NEW o \in {"put", "notify"}, Begin(c, o) PROVE TypeOK'
  <2>1. Written(link[c], Cmd("get", NoKey)) \in Links
    BY <1>2, WriteFacts
  <2> QED  BY <1>3, <2>1 DEF Begin, TypeOK, serverVars
<1>4. CASE GetAnswer(c)
  <2>1. PICK r \in Reads(link[c].answers) :
          \/ r.ans.a = "key" /\ SendsValue(c, After(c, r), r.ans.k)
          \/ Asks(c, After(c, r), Cmd("lookup", NoKey), "pub") /\ UNCHANGED key
          \/ Fails(c, After(c, r))
    BY <1>4 DEF GetAnswer
  <2>2. CallType'
    BY <1>1, <1>2, <2>1, SendType, AskType, FailType DEF CallType, TypeOK
  <2> QED  BY <1>4, <2>2 DEF GetAnswer, CallType, TypeOK, Places, serverVars
<1>5. CASE PublicKeyAnswer(c)
  <2>1. PICK r \in Reads(link[c].answers) :
          \/ \E k \in Keys \ used :
                /\ used' = used \cup {k} /\ key' = [key EXCEPT ![c] = k]
                /\ Asks(c, After(c, r), Cmd("us", k), "us")
          \/ Fails(c, After(c, r))
    BY <1>5 DEF PublicKeyAnswer
  <2>2. CallType' /\ used' \subseteq Keys
    <3>1. CASE Fails(c, After(c, r))
      BY <1>1, <3>1, FailType
    <3>2. ASSUME NEW k \in Keys \ used, used' = used \cup {k}, key' = [key EXCEPT ![c] = k],
                 Asks(c, After(c, r), Cmd("us", k), "us")
          PROVE  CallType' /\ used' \subseteq Keys
      <4>1. k \in MaybeKeys
        BY <1>2
      <4>2. key' \in [Clients -> MaybeKeys] /\ used' \subseteq Keys
        BY <3>2, <4>1 DEF TypeOK
      <4> QED  BY <1>1, <1>2, <3>2, <4>1, <4>2, AskType DEF CallType
    <3> QED  BY <2>1, <3>1, <3>2
  <2> QED  BY <1>5, <2>2 DEF PublicKeyAnswer, CallType, TypeOK, Places, serverVars
<1>6. CASE OursAnswer(c)
  <2>1. PICK r \in Reads(link[c].answers) :
          \/ Asks(c, After(c, r), Cmd("them", key[c]), "them") /\ UNCHANGED <<used, key, mishaps>>
          \/ Fails(c, After(c, r)) /\ mishaps' = mishaps \cup {"interrupted"}
    BY <1>6 DEF OursAnswer
  <2>2. CallType' /\ used' \subseteq Keys
    BY <1>1, <1>2, <2>1, AskType, FailType DEF CallType, TypeOK
  <2>3. mishaps' \subseteq {"replaced", "interrupted", "stale"}
    BY <2>1 DEF TypeOK
  <2> QED  BY <1>6, <2>2, <2>3 DEF OursAnswer, CallType, TypeOK, Places, serverVars
<1>7. CASE TheirsAnswer(c)
  <2>1. PICK r \in Reads(link[c].answers) :
          \/ SendsValue(c, After(c, r), key[c]) /\ UNCHANGED <<used, mishaps>>
          \/ Fails(c, After(c, r)) /\ UNCHANGED <<used, mishaps>>
          \/ Fails(c, After(c, r)) /\ mishaps' = mishaps \cup {"interrupted"}
    BY <1>7 DEF TheirsAnswer
  <2>2. CallType' /\ used' \subseteq Keys
    BY <1>1, <1>2, <2>1, SendType, FailType DEF TypeOK
  <2>3. mishaps' \subseteq {"replaced", "interrupted", "stale"}
    BY <2>1 DEF TypeOK
  <2> QED  BY <1>7, <2>2, <2>3 DEF TheirsAnswer, CallType, TypeOK, Places, serverVars
<1>8. CASE ValueAnswer(c)
  <2>1. PICK r \in Reads(link[c].answers) :
          Ends(c, After(c, r)) /\ acked' \in {key[c], acked}
    BY <1>8 DEF ValueAnswer
  <2>2. CallType'
    BY <1>1, <1>2, <2>1, EndType DEF CallType, TypeOK
  <2> QED  BY <1>8, <2>2 DEF ValueAnswer, CallType, TypeOK, Places, serverVars
<1>9. CASE Reconnect(c)
  <2>1. Fresh \in Links
    BY EmptySeq DEF Fresh, Links
  <2> QED  BY <1>9, <2>1 DEF Reconnect, TypeOK, serverVars, clientVars
<1> QED  BY <1>3, <1>4, <1>5, <1>6, <1>7, <1>8, <1>9 DEF Call

\* Every step keeps the types.
LEMMA NextKeepsType ==
    ASSUME TypeOK, [Next]_vars
    PROVE  TypeOK'
<1>1. ASSUME NEW c \in Clients, Drops(c) PROVE TypeOK'
  <2> DEFINE l == [link[c] EXCEPT !.up = FALSE, !.asked = <<>>]
  <2>1. link' = [link EXCEPT ![c] = l]
    BY <1>1, LinkType DEF Drops
  <2>2. link[c] \in Links
    BY LinkType
  <2>3. l \in Links
    BY <2>2, EmptySeq DEF Links
  <2> HIDE DEF l
  <2>4. link' \in [Clients -> Links]
    BY <2>1, <2>3 DEF TypeOK
  <2>5. UNCHANGED <<serverVars, clientVars, reader, mishaps>>
    BY <1>1 DEF Drops
  <2> QED  BY <2>4, <2>5 DEF TypeOK, serverVars, clientVars
<1>2. CASE Read
  <2>1. UNCHANGED <<serverVars, clientVars, link, mishaps>>
    BY <1>2 DEF Read, ReadsKey, ReadsValue, ReadsNotification, DecryptsNotification
  <2>2. \/ \E how \in {"own", "other", "monitor"}, k \in MaybeKeys :
              reader' = [how |-> how, held |-> k, got |-> "nothing"]
        \/ \E got \in {"nothing", "value", "garbage"} : reader' = [Idle EXCEPT !.got = got]
    BY <1>2 DEF Read, ReadsKey, ReadsValue, ReadsNotification, DecryptsNotification, TypeOK
  <2>3. reader' \in [how : {"idle", "own", "other", "monitor"}, held : MaybeKeys,
                     got : {"nothing", "value", "garbage"}]
    BY <2>2, Constants DEF Idle
  <2> QED  BY <2>1, <2>3 DEF TypeOK, serverVars, clientVars
<1>3. CASE UNCHANGED vars
  BY <1>3 DEF vars, serverVars, clientVars, TypeOK
<1> QED  BY <1>1, <1>2, <1>3, CallKeepsType, ServeType DEF Next

\* The pair, the calls, the connections and the readers keep their types, for any set
\* of clients and of keys.
THEOREM TypeCorrect == Spec => []TypeOK
<1>1. Init => TypeOK
  <2>1. Fresh \in Links
    BY EmptySeq DEF Fresh, Links
  <2> QED  BY <2>1, Constants DEF Init, TypeOK, Idle
<1>2. TypeOK /\ [Next]_vars => TypeOK'
  BY NextKeepsType
<1> QED  BY <1>1, <1>2, PTL DEF Spec

-----------------------------------------------------------------------------
(* The invariant is inductive: what a client does                          *)

\* Only c and its connection change.
Alone(c) == \A d \in Clients \ {c} :
    link'[d] = link[d] /\ pc'[d] = pc[d] /\ key'[d] = key[d]

\* What holds of a client goes on to hold when its copies of the pair come to be.
LEMMA Elsewhere ==
    ASSUME TypeOK, NEW d \in Clients, InCall(d),
           link'[d] = link[d], pc'[d] = pc[d], key'[d] = key[d],
           mine' = mine \/ mine = NoKey, theirs' = theirs \/ theirs' = mine',
           mishaps \subseteq mishaps'
    PROVE  InCall(d)'
<1>1. KeysAsked(d)' /\ KeysAnswered(d)'
  BY DEF InCall, KeysAsked, KeysAnswered, Late
<1>2. Getting(d)' /\ LookingUp(d)'
  BY DEF InCall, Getting, LookingUp
<1>3. Ours(d)'
  BY Constants DEF InCall, Ours
<1>4. Theirs(d)'
  BY Constants DEF InCall, Theirs
<1> QED  BY <1>1, <1>2, <1>3, <1>4 DEF InCall

\* A step of one client keeps the invariant if it does so for that client, and if the
\* pair that client left half way is still half way, complete or given up.
LEMMA Moves ==
    ASSUME TypeOK, Clean, NEW c \in Clients, Alone(c), UNCHANGED <<serverVars, reader>>,
           mishaps \subseteq mishaps', InCall(c)',
           HalfWay(c) => HalfWay(c)' \/ theirs = mine \/ "interrupted" \in mishaps'
    PROVE  Clean'
<1>1. UNCHANGED <<mine, theirs, sealed, reader>>
  BY DEF serverVars
<1>2. ASSUME NEW d \in Clients PROVE InCall(d)'
  BY <1>1, Elsewhere DEF Alone, Clean
<1>3. ASSUME NEW d \in Clients \ {c}, HalfWay(d) PROVE HalfWay(d)'
  BY <1>1, <1>3 DEF HalfWay, Alone
<1>4. Paired'
  BY <1>1, <1>3 DEF Clean, Paired
<1>5. Sealed' /\ Reading'
  BY <1>1 DEF Clean, Sealed, Reading
<1> QED  BY <1>2, <1>4, <1>5 DEF Clean

\* A call that has no update of the pair under way, and now awaits none.
LEMMA Rests ==
    ASSUME NEW c \in Clients, pc'[c] \in {"idle", "value"}, UNCHANGED mine,
           KeysAnswered(c)',
           \A x \in Range(link'[c].asked) :
              /\ x.c \in {"put", "notify"} => x.k = mine /\ mine # NoKey
              /\ x.c \notin {"us", "them"}
    PROVE  InCall(c)'
<1>1. KeysAsked(c)'
  BY DEF KeysAsked
<1> QED  BY <1>1 DEF InCall, Getting, LookingUp, Ours, Theirs

\* A read leaves the keys that came where they belong.
LEMMA RestKeys ==
    ASSUME TypeOK, NEW c \in Clients, NEW r \in Reads(link[c].answers), KeysAnswered(c),
           link'[c].answers = r.rest, UNCHANGED mine
    PROVE  KeysAnswered(c)'
BY ReadFacts, Traffic DEF KeysAnswered

\* What a step that asks changes.
LEMMA AskChanges ==
    ASSUME TypeOK, NEW c \in Clients, NEW l, NEW cmd, NEW next, Asks(c, l, cmd, next)
    PROVE  /\ link'[c] = Written(l, cmd) /\ pc'[c] = next
           /\ \A d \in Clients \ {c} : link'[d] = link[d] /\ pc'[d] = pc[d]
BY DEF Asks, TypeOK

\* What a step that ends the call changes.
LEMMA EndChanges ==
    ASSUME TypeOK, NEW c \in Clients, NEW l, Ends(c, l)
    PROVE  link'[c] = l /\ pc'[c] = "idle" /\ Alone(c)
BY DEF Ends, TypeOK, Alone

\* A key is set for one client, or kept.
LEMMA KeySet ==
    ASSUME TypeOK, NEW c \in Clients, NEW k,
           key' = [key EXCEPT ![c] = k] \/ (key' = key /\ k = key[c])
    PROVE  key'[c] = k /\ \A d \in Clients \ {c} : key'[d] = key[d]
BY DEF TypeOK

\* What a step that asks leaves under way.
LEMMA UnderWay ==
    ASSUME TypeOK, NEW c \in Clients, NEW r \in Reads(link[c].answers), NEW cmd \in Commands,
           link'[c] = Written(After(c, r), cmd)
    PROVE  /\ link'[c].answers = r.rest
           /\ Range(link'[c].asked) \subseteq Range(link[c].asked) \cup {cmd}
           /\ \/ link'[c].asked = link[c].asked
              \/ /\ Len(link'[c].asked) = Len(link[c].asked) + 1
                 /\ \A i \in 1..Len(link[c].asked) : link'[c].asked[i] = link[c].asked[i]
           /\ link[c].asked = <<>> =>
                 Len(link'[c].asked) <= 1 /\ Range(link'[c].asked) \subseteq {cmd}
<1> DEFINE w == link'[c]
<1>1. w = Written(After(c, r), cmd)
  OBVIOUS
<1> HIDE DEF w
<1>2. /\ w.answers = r.rest /\ Range(w.asked) \subseteq Range(link[c].asked) \cup {cmd}
      /\ \/ w.asked = link[c].asked
         \/ /\ Len(w.asked) = Len(link[c].asked) + 1
            /\ \A i \in 1..Len(link[c].asked) : w.asked[i] = link[c].asked[i]
  BY <1>1, Asking
<1>3. ASSUME link[c].asked = <<>>
      PROVE  Len(w.asked) <= 1 /\ Range(w.asked) \subseteq {cmd}
  <2>1. Len(link[c].asked) = 0 /\ Range(link[c].asked) = {}
    BY <1>3, LinkType, RangeFacts
  <2>2. CASE w.asked = link[c].asked
    BY <2>1, <2>2
  <2>3. CASE Len(w.asked) = Len(link[c].asked) + 1
    BY <1>2, <2>1, <2>3
  <2> QED  BY <1>2, <2>2, <2>3
<1> QED  BY <1>2, <1>3 DEF w

\* A call that sends its value under the key of the pair.
LEMMA Sends ==
    ASSUME TypeOK, Clean, NEW c \in Clients, NEW r \in Reads(link[c].answers),
           SendsValue(c, After(c, r), mine), mine # NoKey, UNCHANGED mine,
           \A x \in Range(link[c].asked) : x.c \notin {"us", "them"}
    PROVE  InCall(c)' /\ Alone(c)
<1>1. InCall(c) /\ KeysAnswered(c) /\ KeysAsked(c)
  BY DEF Clean, InCall
<1>2. op[c] \in {"put", "notify"} /\ mine \in MaybeKeys
  BY LinkType DEF TypeOK
<1>3. PICK o \in {"put", "notify"} :
          link'[c] = Written(After(c, r), Cmd(o, mine)) /\ pc'[c] \in {"idle", "value"} /\ Alone(c)
  <2>1. CASE Asks(c, After(c, r), Cmd(op[c], mine), "value") /\ key' = [key EXCEPT ![c] = mine]
    BY <1>2, <2>1, AskChanges, KeySet DEF Alone
  <2>2. CASE Ends(c, Written(After(c, r), Cmd("put", mine)))
    BY <2>2, EndChanges
  <2> QED  BY <2>1, <2>2 DEF SendsValue
<1> DEFINE cmd == Cmd(o, mine)
<1>4. cmd \in Commands /\ cmd.c = o /\ cmd.k = mine
  BY <1>2, Traffic
<1>a. link'[c] = Written(After(c, r), cmd)
  BY <1>3
<1> HIDE DEF cmd
<1>5. link'[c].answers = r.rest /\ Range(link'[c].asked) \subseteq Range(link[c].asked) \cup {cmd}
  BY <1>4, <1>a, UnderWay
<1>6. KeysAnswered(c)'
  BY <1>1, <1>5, RestKeys
<1>7. ASSUME NEW x \in Range(link'[c].asked)
      PROVE  (x.c \in {"put", "notify"} => x.k = mine) /\ x.c \notin {"us", "them"}
  BY <1>1, <1>4, <1>5 DEF KeysAsked
<1> QED  BY <1>3, <1>6, <1>7, Rests

\* A call that gives up while no update of the pair is under way.
LEMMA GivesUp ==
    ASSUME TypeOK, Clean, NEW c \in Clients, NEW r \in Reads(link[c].answers),
           Ends(c, After(c, r)), UNCHANGED mine,
           \A x \in Range(link[c].asked) : x.c \notin {"us", "them"}
    PROVE  InCall(c)' /\ Alone(c)
<1>1. KeysAnswered(c) /\ KeysAsked(c)
  BY DEF Clean, InCall
<1>2. link'[c] = After(c, r) /\ pc'[c] = "idle" /\ Alone(c)
  BY EndChanges
<1>3. link'[c].answers = r.rest /\ link'[c].asked = link[c].asked
  BY <1>2, AfterType
<1>4. KeysAnswered(c)'
  BY <1>1, <1>3, RestKeys
<1> QED  BY <1>1, <1>2, <1>3, <1>4, Rests DEF KeysAsked

\* A call that gives up while the answer to an update is missing.
LEMMA Interrupts ==
    ASSUME TypeOK, Clean, NEW c \in Clients, NEW r \in Reads(link[c].answers),
           Ends(c, After(c, r)), UNCHANGED mine, pc[c] \in {"us", "them"},
           "interrupted" \in mishaps'
    PROVE  InCall(c)' /\ Alone(c)
<1>1. KeysAnswered(c) /\ KeysAsked(c) /\ Ours(c) /\ Theirs(c)
  BY DEF Clean, InCall
<1>2. link'[c] = After(c, r) /\ pc'[c] = "idle" /\ Alone(c)
  BY EndChanges
<1>3. link'[c].answers = r.rest /\ link'[c].asked = link[c].asked
  BY <1>2, AfterType
<1>4. KeysAnswered(c)'
  BY <1>1, <1>3, RestKeys
<1>5. pc[c] = "us" => key[c] \in Keys
  BY <1>1 DEF Ours
<1>6. pc[c] = "them" => key[c] = mine /\ mine # NoKey
  BY <1>1, Constants DEF Theirs
<1>7. KeysAsked(c)'
  BY <1>1, <1>2, <1>3, <1>5, <1>6 DEF KeysAsked, Late
<1> QED  BY <1>2, <1>4, <1>7 DEF InCall, Getting, LookingUp, Ours, Theirs

\* While a call is not at its updates there are none of them under way.
LEMMA NoUpdates ==
    ASSUME Clean, NEW c \in Clients, pc[c] \notin {"us", "them", "idle"}
    PROVE  /\ \A x \in Range(link[c].asked) : x.c \notin {"us", "them"}
           /\ ~HalfWay(c)
BY DEF Clean, InCall, KeysAsked, HalfWay, Late

\* A call begins on a connection in step.
LEMMA BeginStep ==
    ASSUME TypeOK, Clean, NEW c \in Clients, NEW o \in {"put", "notify"}, Begin(c, o),
           Intact', mishaps \subseteq mishaps'
    PROVE  Clean'
<1>1. link[c].asked = <<>> /\ link[c].answers = <<>> /\ pc[c] = "idle"
  BY DEF Begin, InStep, Intact
<1>2. Cmd("get", NoKey) \in Commands /\ Cmd("get", NoKey).c = "get" /\ link[c] \in Links
  BY Traffic, Constants, LinkType
<1>3. /\ link'[c] = Written(link[c], Cmd("get", NoKey)) /\ pc'[c] = "get" /\ Alone(c)
      /\ UNCHANGED <<serverVars, reader>>
  BY DEF Begin, Alone, TypeOK
<1>4. Range(<<>>) = {}
  BY RangeFacts, EmptySeq
<1>5. link'[c].answers = <<>> /\ \A x \in Range(link'[c].asked) : x.c = "get"
  <2>1. link'[c].answers = <<>> /\ Range(link'[c].asked) \subseteq {Cmd("get", NoKey)}
    BY <1>1, <1>2, <1>3, FirstCommand
  <2> QED  BY <1>2, <2>1
<1>6. InCall(c)'
  BY <1>3, <1>4, <1>5 DEF InCall, KeysAsked, KeysAnswered, Getting, LookingUp, Ours, Theirs
<1>7. ~HalfWay(c)
  BY <1>1 DEF HalfWay
<1> QED  BY <1>3, <1>6, <1>7, Moves

\* The lookup of the key: found, to be created, or given up.
LEMMA GetAnswerStep ==
    ASSUME TypeOK, Clean, NEW c \in Clients, GetAnswer(c), mishaps \subseteq mishaps'
    PROVE  Clean'
<1>1. pc[c] = "get" /\ UNCHANGED <<serverVars, reader>> /\ UNCHANGED mine
  BY DEF GetAnswer, serverVars
<1>2. (\A x \in Range(link[c].asked) : x.c \notin {"us", "them"}) /\ ~HalfWay(c)
  BY <1>1, NoUpdates
<1>3. InCall(c) /\ KeysAsked(c) /\ KeysAnswered(c) /\ Getting(c)
  BY DEF Clean, InCall
<1>4. PICK r \in Reads(link[c].answers) :
          \/ r.ans.a = "key" /\ SendsValue(c, After(c, r), r.ans.k)
          \/ Asks(c, After(c, r), Cmd("lookup", NoKey), "pub") /\ UNCHANGED key
          \/ Fails(c, After(c, r))
  BY DEF GetAnswer
<1>5. CASE r.ans.a = "key" /\ SendsValue(c, After(c, r), r.ans.k)
  <2>1. r.ans \in Range(link[c].answers)
    BY <1>5, ReadFacts, Traffic, LinkType, TailRange
  <2>2. r.ans.k = mine /\ mine # NoKey
    BY <1>3, <1>5, <2>1 DEF KeysAnswered
  <2> QED  BY <1>1, <1>2, <1>5, <2>2, Sends, Moves
<1>6. CASE Asks(c, After(c, r), Cmd("lookup", NoKey), "pub") /\ UNCHANGED key
  <2> DEFINE cmd == Cmd("lookup", NoKey)
  <2>1. cmd \in Commands /\ cmd.c = "lookup"
    BY Traffic, Constants
  <2>2. link'[c] = Written(After(c, r), cmd) /\ pc'[c] = "pub" /\ Alone(c)
    BY <1>6, AskChanges DEF Alone
  <2> HIDE DEF cmd
  <2>3. /\ link'[c].answers = r.rest /\ Range(link'[c].asked) \subseteq Range(link[c].asked) \cup {cmd}
        /\ \/ link'[c].asked = link[c].asked
           \/ /\ Len(link'[c].asked) = Len(link[c].asked) + 1
              /\ \A i \in 1..Len(link[c].asked) : link'[c].asked[i] = link[c].asked[i]
    BY <2>1, <2>2, UnderWay
  <2>4. /\ r.rest \in Seq(Answers) /\ link[c].asked \in Seq(Commands)
        /\ \A x \in Range(r.rest) : x = Junk \/ x \in Range(link[c].answers)
    BY ReadFacts, LinkType
  <2>5. KeysAnswered(c)' /\ KeysAsked(c)'
    BY <1>1, <1>2, <1>3, <2>1, <2>3, RestKeys DEF KeysAsked
  <2>6. \A i \in 1..Len(link'[c].answers) : link'[c].answers[i].a # "pub"
    BY <1>1, <1>3, <2>3, <2>4, RangeFacts, Traffic DEF Getting
  <2>7. \A i \in 1..Len(link'[c].asked) : link'[c].asked[i].c = "lookup" => i = Len(link'[c].asked)
    <3>1. Len(link[c].asked) \in Nat /\ \A i \in 1..Len(link[c].asked) : link[c].asked[i].c # "lookup"
      BY <1>1, <1>3, <2>4, RangeFacts DEF Getting
    <3> QED  BY <2>3, <3>1
  <2>8. LookingUp(c)'
    BY <2>6, <2>7 DEF LookingUp
  <2>9. InCall(c)'
    BY <2>2, <2>5, <2>8 DEF InCall, Getting, Ours, Theirs
  <2> QED  BY <1>1, <1>2, <2>2, <2>9, Moves
<1>7. CASE Fails(c, After(c, r))
  BY <1>1, <1>2, <1>7, GivesUp, Moves DEF Fails
<1> QED  BY <1>4, <1>5, <1>6, <1>7

\* A key is made, and it is sent when nothing else is under way.
LEMMA PublicKeyAnswerStep ==
    ASSUME TypeOK, Clean, NEW c \in Clients, PublicKeyAnswer(c), mishaps \subseteq mishaps'
    PROVE  Clean'
<1>1. pc[c] = "pub" /\ UNCHANGED <<serverVars, reader>> /\ UNCHANGED mine
  BY DEF PublicKeyAnswer, serverVars
<1>2. (\A x \in Range(link[c].asked) : x.c \notin {"us", "them"}) /\ ~HalfWay(c)
  BY <1>1, NoUpdates
<1>3. LookingUp(c)
  BY DEF Clean, InCall
<1>4. PICK r \in Reads(link[c].answers) :
          \/ /\ r.ans.a = "pub"
             /\ \E k \in Keys : key' = [key EXCEPT ![c] = k] /\ Asks(c, After(c, r), Cmd("us", k), "us")
          \/ Fails(c, After(c, r))
  BY DEF PublicKeyAnswer
<1>5. ASSUME r.ans.a = "pub", NEW k \in Keys, key' = [key EXCEPT ![c] = k],
             Asks(c, After(c, r), Cmd("us", k), "us")
      PROVE  Clean'
  <2> DEFINE s == link[c].answers
             cmd == Cmd("us", k)
  <2>1. s \in Seq(Answers) /\ s # <<>> /\ r.ans = Head(s) /\ r.rest = Tail(s)
    BY <1>5, ReadFacts, LinkType, Traffic
  <2>2. s[1].a = "pub" /\ Len(s) \in Nat \ {0} /\ Len(Tail(s)) = Len(s) - 1 /\ Tail(s) \in Seq(Answers)
    BY <1>5, <2>1, TailRange
  <2>3. link[c].asked = <<>> /\ Len(s) = 1
    <3>1. 1 \in 1..Len(s)
      BY <2>2
    <3> QED  BY <1>1, <1>3, <2>2, <3>1 DEF LookingUp
  <2>4. r.rest = <<>>
    BY <2>1, <2>2, <2>3, RangeFacts
  <2>5. cmd \in Commands /\ cmd.c = "us" /\ cmd.k = k
    BY Traffic, Constants
  <2>a. key'[c] = k /\ \A d \in Clients \ {c} : key'[d] = key[d]
    BY <1>5, KeySet
  <2>6. link'[c] = Written(After(c, r), cmd) /\ pc'[c] = "us" /\ Alone(c) /\ key'[c] = k
    BY <1>5, <2>a, AskChanges DEF Alone
  <2> HIDE DEF cmd, s
  <2>7. /\ link'[c].answers = <<>>
        /\ Len(link'[c].asked) <= 1 /\ Range(link'[c].asked) \subseteq {cmd}
    BY <2>3, <2>4, <2>5, <2>6, UnderWay
  <2>8. Len(<<>>) = 0 /\ Range(<<>>) = {}
    BY RangeFacts, EmptySeq
  <2>9. KeysAsked(c)' /\ KeysAnswered(c)'
    BY <2>5, <2>6, <2>7, <2>8 DEF KeysAsked, KeysAnswered
  <2>10. Ours(c)'
    BY <2>5, <2>6, <2>7, <2>8 DEF Ours
  <2>11. InCall(c)'
    BY <2>6, <2>9, <2>10 DEF InCall, Getting, LookingUp, Theirs
  <2> QED  BY <1>1, <1>2, <2>6, <2>11, Moves
<1>6. CASE Fails(c, After(c, r))
  BY <1>1, <1>2, <1>6, GivesUp, Moves DEF Fails
<1> QED  BY <1>4, <1>5, <1>6

\* The answer to 7a can only be that to 7a.
LEMMA OursAnswerStep ==
    ASSUME TypeOK, Clean, NEW c \in Clients, OursAnswer(c), mishaps \subseteq mishaps'
    PROVE  Clean'
<1>1. pc[c] = "us" /\ UNCHANGED <<serverVars, reader>> /\ UNCHANGED <<mine, theirs>>
  BY DEF OursAnswer, serverVars
<1>2. Ours(c) /\ KeysAnswered(c)
  BY DEF Clean, InCall
<1>3. PICK r \in Reads(link[c].answers) :
          \/ IsData(r.ans) /\ Asks(c, After(c, r), Cmd("them", key[c]), "them") /\ UNCHANGED key
          \/ Ends(c, After(c, r)) /\ "interrupted" \in mishaps'
  BY DEF OursAnswer, Fails
<1>4. CASE IsData(r.ans) /\ Asks(c, After(c, r), Cmd("them", key[c]), "them") /\ UNCHANGED key
  <2> DEFINE s == link[c].answers
             cmd == Cmd("them", key[c])
  <2>4. s \in Seq(Answers) /\ link[c].asked \in Seq(Commands) /\ key[c] \in MaybeKeys
    BY LinkType
  <2>5. s # <<>> /\ r.ans = Head(s) /\ r.ans \in Range(s)
    BY <1>4, <2>4, ReadFacts, TailRange, Traffic
  <2>6. Ack \in Range(s)
    BY <1>1, <1>2, <1>4, <2>5, Traffic DEF Ours
  <2>7. key[c] \in Keys /\ mine = key[c] /\ link[c].asked = <<>> /\ Len(s) <= 1
    BY <1>1, <1>2, <2>5, <2>6 DEF Ours
  <2>8. \A x \in Range(r.rest) : x = Junk
    <3>1. Range(Tail(s)) = {}
      BY <2>4, <2>5, <2>7, NoneLeft
    <3> QED  BY <2>5, <3>1, ReadFacts
  <2>9. cmd \in Commands /\ cmd.c = "them" /\ cmd.k = key[c]
    BY <2>4, Traffic
  <2>10. link'[c] = Written(After(c, r), cmd) /\ pc'[c] = "them" /\ Alone(c) /\ key'[c] = key[c]
    BY <1>4, AskChanges DEF Alone
  <2> HIDE DEF s, cmd
  <2>11. link'[c].answers = r.rest
    BY <2>9, <2>10, UnderWay
  <2>12. Len(link'[c].asked) <= 1 /\ Range(link'[c].asked) \subseteq {cmd}
    BY <2>7, <2>9, <2>10, UnderWay
  <2>13. Theirs(c)' /\ KeysAsked(c)'
    BY <1>1, <2>7, <2>8, <2>9, <2>10, <2>11, <2>12, Traffic DEF Theirs, KeysAsked
  <2>14. KeysAnswered(c)'
    BY <1>1, <1>2, <2>11, RestKeys
  <2>15. InCall(c)'
    BY <2>10, <2>13, <2>14 DEF InCall, Getting, LookingUp, Ours
  <2>16. HalfWay(c)'
    BY <1>1, <2>7, <2>10 DEF HalfWay
  <2> QED  BY <1>1, <2>10, <2>15, <2>16, Moves
<1>5. CASE Ends(c, After(c, r)) /\ "interrupted" \in mishaps'
  BY <1>1, <1>5, Interrupts, Moves
<1> QED  BY <1>3, <1>4, <1>5

\* The answer to 7b comes after both copies are there.
LEMMA TheirsAnswerStep ==
    ASSUME TypeOK, Clean, NEW c \in Clients, TheirsAnswer(c), mishaps \subseteq mishaps'
    PROVE  Clean'
<1>1. pc[c] = "them" /\ UNCHANGED <<serverVars, reader>> /\ UNCHANGED <<mine, theirs>>
  BY DEF TheirsAnswer, serverVars
<1>2. Theirs(c)
  BY DEF Clean, InCall
<1>3. PICK r \in Reads(link[c].answers) :
          \/ IsData(r.ans) /\ (SendsValue(c, After(c, r), key[c]) \/ Fails(c, After(c, r)))
          \/ Ends(c, After(c, r)) /\ "interrupted" \in mishaps'
  BY DEF TheirsAnswer, Fails
<1>4. CASE IsData(r.ans) /\ (SendsValue(c, After(c, r), key[c]) \/ Fails(c, After(c, r)))
  <2>1. r.ans \in Range(link[c].answers)
    BY <1>4, LinkType, ReadFacts, TailRange, Traffic
  <2>2. key[c] = mine /\ mine # NoKey /\ link[c].asked = <<>> /\ theirs = mine
    BY <1>1, <1>2, <1>4, <2>1, Constants DEF Theirs
  <2>3. \A x \in Range(link[c].asked) : x.c \notin {"us", "them"}
    BY <2>2, RangeFacts, EmptySeq
  <2>4. CASE SendsValue(c, After(c, r), key[c])
    BY <1>1, <2>2, <2>3, <2>4, Sends, Moves
  <2>5. CASE Fails(c, After(c, r))
    BY <1>1, <2>2, <2>3, <2>5, GivesUp, Moves DEF Fails
  <2> QED  BY <1>4, <2>4, <2>5
<1>5. CASE Ends(c, After(c, r)) /\ "interrupted" \in mishaps'
  BY <1>1, <1>5, Interrupts, Moves
<1> QED  BY <1>3, <1>4, <1>5

\* The answer to the value ends the call, whatever it is.
LEMMA ValueAnswerStep ==
    ASSUME TypeOK, Clean, NEW c \in Clients, ValueAnswer(c), mishaps \subseteq mishaps'
    PROVE  Clean'
<1>1. pc[c] = "value" /\ UNCHANGED <<serverVars, reader>> /\ UNCHANGED mine
  BY DEF ValueAnswer, serverVars
<1>2. (\A x \in Range(link[c].asked) : x.c \notin {"us", "them"}) /\ ~HalfWay(c)
  BY <1>1, NoUpdates
<1>3. PICK r \in Reads(link[c].answers) : Ends(c, After(c, r))
  BY DEF ValueAnswer
<1> QED  BY <1>1, <1>2, <1>3, GivesUp, Moves

\* A new connection carries nothing.
LEMMA ReconnectStep ==
    ASSUME TypeOK, Clean, NEW c \in Clients, Reconnect(c), mishaps \subseteq mishaps'
    PROVE  Clean'
<1>1. /\ pc[c] = "idle" /\ UNCHANGED <<serverVars, reader>>
      /\ link'[c] = Fresh /\ pc'[c] = "idle" /\ Alone(c) /\ UNCHANGED mine
  BY DEF Reconnect, Alone, TypeOK, clientVars, serverVars
<1>2. link'[c].asked = <<>> /\ link'[c].answers = <<>>
  BY <1>1 DEF Fresh
<1>a. Range(<<>>) = {}
  BY RangeFacts, EmptySeq
<1>3. InCall(c)'
  BY <1>1, <1>2, <1>a, Rests DEF KeysAnswered
<1>4. ~HalfWay(c)
  BY <1>1 DEF HalfWay
<1> QED  BY <1>1, <1>3, <1>4, Moves

-----------------------------------------------------------------------------
(* What the atServer, the network and a reader do                          *)

\* The answer x to the command that waited longest.
LEMMA Answered ==
    ASSUME TypeOK, NEW c \in Clients, InCall(c), link[c].asked # <<>>, NEW x \in Answers,
           link'[c].asked = Tail(link[c].asked),
           link'[c].answers = Append(link[c].answers, x),
           pc'[c] = pc[c], key'[c] = key[c], mine' = mine \/ mine = NoKey,
           x.a = "key" => x.k = mine' /\ mine' # NoKey,
           x.a = "pub" => Head(link[c].asked).c = "lookup",
           Head(link[c].asked).c = "us" => x \in {Ack, Junk},
           Head(link[c].asked).c = "us" /\ pc[c] = "us" /\ x = Ack => mine' = key[c],
           Head(link[c].asked).c = "them" /\ IsData(x) => theirs' = mine',
           mishaps \subseteq mishaps'
    PROVE  InCall(c)'
<1> DEFINE s == link[c].asked
           a == link[c].answers
           t == link'[c].asked
           b == link'[c].answers
<1>1. s \in Seq(Commands) /\ a \in Seq(Answers)
  BY LinkType
<1>2. /\ Head(s) \in Range(s) /\ Head(s) = s[1] /\ t \in Seq(Commands)
      /\ Len(s) \in Nat \ {0} /\ Len(t) = Len(s) - 1
      /\ \A i \in 1..Len(t) : t[i] = s[i + 1]
      /\ Range(t) \subseteq Range(s)
  BY <1>1, TailRange
<1>3. b \in Seq(Answers) /\ Len(b) = Len(a) + 1 /\ Range(b) = Range(a) \cup {x}
  BY <1>1, AppendRange
<1>4. b[Len(a) + 1] = x /\ \A i \in 1..Len(a) : b[i] = a[i]
  BY <1>1, AppendProperties
<1>5. Len(a) \in Nat /\ (Len(a) = 0 => a = <<>>) /\ (a = <<>> => Range(a) = {} /\ Len(a) = 0)
  BY <1>1, RangeFacts, EmptySeq
<1>8. KeysAsked(c)'
  BY <1>2 DEF InCall, KeysAsked, Late
<1>9. KeysAnswered(c)'
  BY <1>3 DEF InCall, KeysAnswered
<1>10. Getting(c)'
  BY <1>2, <1>3 DEF InCall, Getting
<1>11. ASSUME pc[c] = "pub" PROVE LookingUp(c)'
  <2>1. /\ \A i \in 1..Len(s) : s[i].c = "lookup" => i = Len(s)
        /\ \A i \in 1..Len(a) : a[i].a = "pub" => i = Len(a) /\ s = <<>>
    BY <1>11 DEF InCall, LookingUp
  <2>2. ASSUME NEW i \in 1..Len(t), t[i].c = "lookup" PROVE i = Len(t)
    <3>1. i + 1 \in 1..Len(s) /\ t[i] = s[i + 1] /\ (i + 1 = Len(s) => i = Len(t))
      BY <1>1, LastLeft
    <3> QED  BY <2>1, <2>2, <3>1
  <2>3. ASSUME NEW i \in 1..Len(b), b[i].a = "pub" PROVE i = Len(b) /\ t = <<>>
    <3>1. ~(i \in 1..Len(a))
      BY <1>4, <2>1, <2>3
    <3>2. i = Len(a) + 1 /\ b[i] = x
      BY <1>3, <1>4, <1>5, <3>1
    <3>3. s[1].c = "lookup" /\ 1 \in 1..Len(s)
      BY <1>2, <2>3, <3>2
    <3>4. Len(s) <= 1
      BY <2>1, <3>3
    <3>5. t = <<>>
      BY <1>1, <3>4, NoneLeft
    <3> QED  BY <1>3, <3>2, <3>5
  <2> QED  BY <2>2, <2>3 DEF LookingUp
<1>12. ASSUME pc[c] = "us" PROVE Ours(c)'
  <2>1. /\ key[c] \in Keys /\ a = <<>> /\ Len(s) <= 1
        /\ \A y \in Range(s) : y.c = "us"
    BY <1>12 DEF InCall, Ours
  <2>2. t = <<>> /\ Range(t) = {} /\ Len(t) = 0 /\ Head(s).c = "us"
    BY <1>1, <1>2, <2>1, NoneLeft, EmptySeq
  <2>3. x \in {Ack, Junk} /\ (x = Ack => mine' = key[c])
    BY <1>12, <2>2
  <2>4. Range(b) = {x} /\ Len(b) = 1
    BY <1>3, <1>5, <2>1
  <2> QED  BY <2>1, <2>2, <2>3, <2>4 DEF Ours
<1>13. ASSUME pc[c] = "them" PROVE Theirs(c)'
  <2>1. /\ key[c] \in Keys /\ mine = key[c] /\ Len(s) <= 1
        /\ \A y \in Range(s) : y.c = "them"
        /\ \A y \in Range(a) : ~IsData(y)
    BY <1>13 DEF InCall, Theirs
  <2>2. Head(s).c = "them" /\ mine' = mine
    BY <1>2, <2>1, Constants
  <2>3. t = <<>> /\ Range(t) = {} /\ Len(t) = 0
    BY <1>1, <2>1, NoneLeft, EmptySeq
  <2>4. \A y \in Range(b) : IsData(y) => theirs' = mine'
    BY <1>3, <2>1, <2>2
  <2> QED  BY <2>1, <2>2, <2>3, <2>4 DEF Theirs
<1>14. LookingUp(c)' /\ Ours(c)' /\ Theirs(c)'
  BY <1>11, <1>12, <1>13 DEF LookingUp, Ours, Theirs
<1> QED  BY <1>8, <1>9, <1>10, <1>14 DEF InCall

\* A pair that is intact was not replaced.
LEMMA Unreplaced ==
    ASSUME Intact'
    PROVE  mishaps' # mishaps \cup {"replaced"}
BY DEF Intact

\* The atServer executes the command that waited longest.
LEMMA ServeStep ==
    ASSUME TypeOK, Clean, NEW c \in Clients, Serve(c), Intact', mishaps \subseteq mishaps'
    PROVE  Clean'
<1> DEFINE s == link[c].asked
           cmd == Head(s)
<1>1. /\ s # <<>> /\ s \in Seq(Commands) /\ link[c].answers \in Seq(Answers)
      /\ UNCHANGED <<pc, key, reader>>
  BY LinkType DEF Serve, clientVars
<1>2. cmd \in Range(s) /\ cmd \in Commands
  BY <1>1, TailRange
<1>3. /\ InCall(c)
      /\ cmd.c \in {"put", "notify"} => cmd.k = mine /\ mine # NoKey
      /\ cmd.c = "us" => cmd.k \in Keys
      /\ cmd.c = "us" /\ pc[c] = "us" => cmd.k = key[c]
      /\ cmd.c = "us" /\ pc[c] # "us" => Late(c)
      /\ cmd.c = "them" => cmd.k = mine
  BY <1>2 DEF Clean, InCall, KeysAsked, Ours, Theirs, Late
<1>4. PICK x :
        /\ link' = [link EXCEPT ![c].asked = Tail(@), ![c].answers = Append(@, x)]
        /\ \/ /\ x = Junk \/ (cmd.c = "lookup" /\ x = Ans("pub", NoKey))
                 \/ (cmd.c = "get" /\ mine = NoKey /\ x = NotFound)
                 \/ (cmd.c = "get" /\ mine # NoKey /\ x = Ans("key", mine))
              /\ UNCHANGED <<mine, theirs, sealed>>
           \/ cmd.c = "us" /\ x = Ack /\ mine = NoKey /\ mine' = cmd.k /\ UNCHANGED <<theirs, sealed>>
           \/ cmd.c = "them" /\ x = Ack /\ theirs' = cmd.k /\ UNCHANGED <<mine, sealed>>
           \/ /\ cmd.c \in {"put", "notify"} /\ x = Ack
              /\ sealed' = [sealed EXCEPT ![cmd.c] = cmd.k] /\ UNCHANGED <<mine, theirs>>
  BY Zenon, Unreplaced DEF Serve, Refuses, serverVars
<1>5. x \in Answers
  BY <1>4, Traffic, Constants DEF TypeOK
<1>6. /\ link'[c].asked = Tail(s) /\ link'[c].answers = Append(link[c].answers, x)
      /\ \A d \in Clients \ {c} : link'[d] = link[d]
  BY <1>4, LinkType
<1>7. /\ Ans("key", mine).a = "key" /\ Ans("key", mine).k = mine /\ Ans("pub", NoKey).a = "pub"
      /\ Ack.a = "ack" /\ Junk.a = "junk" /\ NotFound.a = "notfound"
      /\ ~IsData(Junk) /\ Ack # Junk
  BY Traffic DEF Ans
<1>8. Range(link'[c].answers) = Range(link[c].answers) \cup {x}
  BY <1>1, <1>5, <1>6, AppendRange
<1> HIDE DEF cmd
<1>9. /\ mine' = mine \/ mine = NoKey
      /\ theirs' = theirs \/ theirs' = mine'
      /\ x.a = "key" => x.k = mine' /\ mine' # NoKey
      /\ x.a = "pub" => cmd.c = "lookup"
      /\ cmd.c = "us" => x \in {Ack, Junk}
      /\ cmd.c = "us" /\ pc[c] = "us" /\ x = Ack => mine' = key[c]
      /\ cmd.c = "them" /\ IsData(x) => theirs' = mine'
  BY <1>3, <1>4, <1>7
<1>10. InCall(c)'
  BY <1>1, <1>3, <1>5, <1>6, <1>9, Answered DEF cmd
<1>11. ASSUME NEW d \in Clients PROVE InCall(d)'
  <2>1. CASE d = c
    BY <1>10, <2>1
  <2>2. CASE d # c
    BY <1>1, <1>6, <1>9, <2>2, Elsewhere DEF Clean
  <2> QED  BY <2>1, <2>2
<1>12. mine = NoKey => theirs = NoKey
  BY DEF Clean, Paired
<1>13. Paired'
  <2>1. CASE UNCHANGED <<mine, theirs>>
    <3>1. ASSUME NEW d \in Clients, HalfWay(d) PROVE HalfWay(d)'
      BY <1>1, <1>6, <1>8, <2>1, <3>1 DEF HalfWay
    <3> QED  BY <2>1, <3>1 DEF Clean, Paired
  <2>2. CASE cmd.c = "us" /\ x = Ack /\ mine = NoKey /\ mine' = cmd.k /\ UNCHANGED theirs
    <3>1. pc[c] = "us" => HalfWay(c)'
      BY <1>1, <1>3, <1>8, <2>2 DEF HalfWay
    <3>2. pc[c] # "us" => "interrupted" \in mishaps'
      BY <1>3, <2>2 DEF Late
    <3> QED  BY <1>12, <2>2, <3>1, <3>2 DEF Paired
  <2>3. CASE cmd.c = "them" /\ theirs' = cmd.k /\ UNCHANGED mine
    BY <1>3, <2>3 DEF Paired
  <2> QED  BY <1>4, <2>1, <2>2, <2>3
<1>14. Sealed'
  <2>1. CASE UNCHANGED <<sealed, mine>>
    BY <2>1 DEF Clean, Sealed
  <2>2. CASE UNCHANGED sealed /\ mine = NoKey
    BY <2>2 DEF Clean, Sealed
  <2>3. CASE cmd.c \in {"put", "notify"} /\ sealed' = [sealed EXCEPT ![cmd.c] = cmd.k] /\ UNCHANGED mine
    BY <1>3, <2>3 DEF Clean, Sealed, TypeOK
  <2> QED  BY <1>4, <2>1, <2>2, <2>3
<1>15. Reading'
  BY <1>1, <1>9 DEF Clean, Reading
<1> QED  BY <1>11, <1>13, <1>14, <1>15 DEF Clean

\* What was asked is lost; the answers are not.
LEMMA DropsStep ==
    ASSUME TypeOK, Clean, NEW c \in Clients, Drops(c), mishaps \subseteq mishaps'
    PROVE  Clean'
<1>1. /\ UNCHANGED <<serverVars, reader>> /\ UNCHANGED <<pc, key, mine, theirs>> /\ Alone(c)
      /\ link'[c].asked = <<>> /\ link'[c].answers = link[c].answers
  BY LinkType DEF Drops, Alone, clientVars, serverVars
<1>2. Range(<<>>) = {} /\ Len(<<>>) = 0
  BY RangeFacts, EmptySeq
<1>3. InCall(c)
  BY DEF Clean
<1>4. KeysAsked(c)' /\ KeysAnswered(c)' /\ Getting(c)'
  BY <1>1, <1>2, <1>3 DEF InCall, KeysAsked, KeysAnswered, Getting
<1>5. LookingUp(c)'
  BY <1>1, <1>2, <1>3 DEF InCall, LookingUp
<1>6. Ours(c)' /\ Theirs(c)'
  BY <1>1, <1>2, <1>3 DEF InCall, Ours, Theirs
<1>7. HalfWay(c) => HalfWay(c)'
  BY <1>1 DEF HalfWay
<1> QED  BY <1>1, <1>4, <1>5, <1>6, <1>7, Moves DEF InCall

\* A reader finds one key wherever it looks.
LEMMA ReadStep ==
    ASSUME TypeOK, Clean, Read, mishaps \subseteq mishaps'
    PROVE  Clean'
<1>1. UNCHANGED <<mine, theirs, sealed, pc, key, link>>
  BY DEF Read, ReadsKey, ReadsValue, ReadsNotification, DecryptsNotification, serverVars, clientVars
<1>2. /\ theirs # NoKey => theirs = mine
      /\ \A o \in {"put", "notify"} : sealed[o] # NoKey => sealed[o] = mine
      /\ reader.how # "idle" => reader.held = mine /\ mine # NoKey
  BY DEF Clean, Paired, Sealed, Reading
<1>3. Reading'
  <2>1. ASSUME NEW how \in {"own", "other"}, ReadsKey(how) PROVE Reading'
    BY <1>1, <1>2, <2>1 DEF ReadsKey, Reading
  <2>2. CASE ReadsValue
    <3>1. reader'.how = "idle" /\ reader'.got # "garbage"
      BY <1>2, <2>2 DEF ReadsValue, Idle
    <3> QED  BY <3>1 DEF Reading
  <2>3. CASE ReadsNotification
    BY <1>1, <1>2, <2>3 DEF ReadsNotification, Reading
  <2>4. CASE DecryptsNotification
    <3>1. reader'.how = "idle" /\ reader'.got # "garbage"
      BY <1>2, <2>4 DEF DecryptsNotification, Idle
    <3> QED  BY <3>1 DEF Reading
  <2> QED  BY <2>1, <2>2, <2>3, <2>4 DEF Read
<1>4. ASSUME NEW d \in Clients PROVE InCall(d)' /\ (HalfWay(d) => HalfWay(d)')
  BY <1>1, Elsewhere DEF Clean, HalfWay
<1>5. Paired' /\ Sealed'
  BY <1>1, <1>4 DEF Clean, Paired, Sealed
<1> QED  BY <1>3, <1>4, <1>5 DEF Clean

\* A step that spoils nothing keeps the invariant.
LEMMA NextKeepsClean ==
    ASSUME TypeOK, Clean, [Next]_vars, Intact', mishaps \subseteq mishaps'
    PROVE  Clean'
<1>1. ASSUME NEW c \in Clients, Call(c) PROVE Clean'
  BY <1>1, BeginStep, GetAnswerStep, PublicKeyAnswerStep, OursAnswerStep, TheirsAnswerStep,
     ValueAnswerStep, ReconnectStep DEF Call
<1>2. CASE UNCHANGED vars
  <2>1. UNCHANGED <<mine, theirs, sealed, pc, key, link, reader>>
    BY <1>2 DEF vars, serverVars, clientVars
  <2>2. ASSUME NEW d \in Clients PROVE InCall(d)' /\ (HalfWay(d) => HalfWay(d)')
    BY <2>1, Elsewhere DEF Clean, HalfWay
  <2> QED  BY <2>1, <2>2 DEF Clean, Paired, Sealed, Reading
<1> QED  BY <1>1, <1>2, ServeStep, DropsStep, ReadStep DEF Next

-----------------------------------------------------------------------------
(* The theorems                                                            *)

\* The invariant holds at first.
LEMMA InitIInv == Init => IInv
<1> SUFFICES ASSUME Init PROVE IInv
  OBVIOUS
<1>1. TypeOK
  <2>1. Fresh \in Links
    BY EmptySeq DEF Fresh, Links
  <2> QED  BY <2>1, Constants DEF Init, TypeOK, Idle
<1>2. Range(<<>>) = {}
  BY RangeFacts, EmptySeq
<1>3. ASSUME NEW c \in Clients PROVE InCall(c)
  <2>1. pc[c] = "idle" /\ link[c].asked = <<>> /\ link[c].answers = <<>>
    BY DEF Init, Fresh
  <2> QED  BY <1>2, <2>1 DEF InCall, KeysAsked, KeysAnswered, Getting, LookingUp, Ours, Theirs
<1>4. Paired /\ Sealed /\ Reading
  BY DEF Init, Paired, Sealed, Reading, Idle
<1> QED  BY <1>1, <1>3, <1>4 DEF IInv, CleanInv, Clean

\* Every step keeps it.
LEMMA Inductive == IInv /\ [Next]_vars => IInv'
<1> SUFFICES ASSUME IInv, [Next]_vars PROVE IInv'
  OBVIOUS
<1>1. TypeOK'
  BY NextKeepsType DEF IInv
<1>2. mishaps \subseteq mishaps'
  BY DEF Next, Call, Begin, GetAnswer, PublicKeyAnswer, OursAnswer, TheirsAnswer, ValueAnswer,
         Reconnect, Serve, Drops, Read, ReadsKey, ReadsValue, ReadsNotification,
         DecryptsNotification, vars
<1>3. Intact' => Clean'
  <2>1. Intact' => Intact
    BY <1>2 DEF Intact
  <2> QED  BY <1>2, <2>1, NextKeepsClean DEF IInv, CleanInv
<1> QED  BY <1>1, <1>3 DEF IInv, CleanInv

\* It holds always.
LEMMA IInvHolds == Spec => []IInv
BY InitIInv, Inductive, PTL DEF Spec

\* The atServer's two copies are never two keys, and all that was stored is under ours,
\* through every timeout, refusal, race and creation cut short that leaves the pair
\* intact; theirs is there too whenever no client is half way or gave up there.
THEOREM CopiesAgree == Spec => []Agreement
<1>1. IInv => Agreement
  BY DEF IInv, CleanInv, Clean, Paired, HalfWay, Sealed, Agreement, Intact
<1> QED  BY <1>1, IInvHolds, PTL

\* No reader, on either side, decrypts with another key than the value is under.
THEOREM ReadersNeverGarble == Spec => []NoGarbage
<1>1. IInv => NoGarbage
  BY DEF IInv, CleanInv, Clean, Reading, NoGarbage
<1> QED  BY <1>1, IInvHolds, PTL
=============================================================================
