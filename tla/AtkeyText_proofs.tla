-------------------------- MODULE AtkeyText_proofs --------------------------
(***************************************************************************)
(* Proofs about the text of an atKey, for names of any length: what the    *)
(* parser makes of any text, that a record it makes is printed into the    *)
(* length counted for it, and that the printed text gives the record back. *)
(* The lemmas on searching and joining sequences serve the other texts too.*)
(***************************************************************************)
EXTENDS AtkeyText, SequenceTheorems, WellFoundedInduction, TLAPS

-----------------------------------------------------------------------------
(* Lemmas about sequences                                                  *)

\* A non-empty set of naturals has a least element.
LEMMA LeastOf ==
    ASSUME NEW S \in SUBSET Nat, S # {}
    PROVE  Min(S) \in S /\ \A y \in S : Min(S) <= y
<1>. DEFINE Less == OpToRel(<, Nat)
<1>1. IsWellFoundedOn(Less, Nat)
  BY NatLessThanWellFounded
<1>2. \A x, y \in Nat : <<y, x>> \in Less <=> y < x
  <2>1. Less = {ss \in Nat \X Nat : ss[1] < ss[2]}
    BY Zenon DEF OpToRel
  <2>. QED BY <2>1
<1>. HIDE DEF Less
<1>3. PICK x \in S : \A y \in S : <<y, x>> \notin Less
  BY <1>1, WFMin
<1>4. ASSUME NEW y \in S
      PROVE  x <= y
  <2>1. x \in Nat /\ y \in Nat
    OBVIOUS
  <2>2. ~(y < x)
    BY <1>2, <1>3, <2>1
  <2>. QED BY <2>1, <2>2
<1>. QED BY <1>4 DEF Min


\* Two sequences joined: what each contributes, and where it lies.
LEMMA Joined ==
    ASSUME NEW S, NEW a \in Seq(S), NEW b \in Seq(S)
    PROVE  /\ a \o b \in Seq(S) /\ Len(a \o b) = Len(a) + Len(b)
           /\ \A i \in 1..Len(a) : (a \o b)[i] = a[i]
           /\ \A i \in 1..Len(b) : (a \o b)[Len(a) + i] = b[i]
OBVIOUS

-----------------------------------------------------------------------------
(* The tokens of a name                                                    *)

\* FirstIn finds the first c, or gives 0.
LEMMA FirstInFinds ==
    ASSUME NEW S, NEW s \in Seq(S), NEW c
    PROVE  \/ FirstIn(s, c) = 0 /\ \A i \in 1..Len(s) : s[i] # c
           \/ /\ FirstIn(s, c) \in 1..Len(s) /\ s[FirstIn(s, c)] = c
              /\ \A i \in 1..(FirstIn(s, c) - 1) : s[i] # c
<1>. DEFINE I == {i \in 1..Len(s) : s[i] = c}
            k == Min(I)
<1>1. FirstIn(s, c) = IF I # {} THEN k ELSE 0
  BY DEF FirstIn, SelectInSeq
<1>2. I \in SUBSET Nat
  OBVIOUS
<1>3. I # {} => k \in I /\ \A y \in I : k <= y
  BY <1>2, LeastOf
<1>. HIDE DEF k
<1>4. CASE I = {}
  <2>1. \A i \in 1..Len(s) : s[i] # c
    BY <1>4
  <2>2. FirstIn(s, c) = 0
    BY <1>1, <1>4
  <2>. QED BY <2>1, <2>2
<1>5. CASE I # {}
  <2>1. k \in 1..Len(s) /\ s[k] = c
    BY <1>3, <1>5
  <2>2. \A i \in 1..(k - 1) : i \in 1..Len(s) /\ i < k
    BY <2>1
  <2>3. \A i \in 1..(k - 1) : s[i] # c
    <3>1. \A i \in 1..Len(s) : s[i] = c => k <= i
      BY <1>3, <1>5
    <3>. HIDE DEF I
    <3>. QED BY <2>1, <2>2, <3>1
  <2>4. FirstIn(s, c) = k
    BY <1>1, <1>5
  <2>. QED BY <2>1, <2>3, <2>4
<1>. QED BY <1>4, <1>5

\* FirstOther finds the first that is not c, or gives 0.
LEMMA FirstOtherFinds ==
    ASSUME NEW S, NEW s \in Seq(S), NEW c
    PROVE  \/ FirstOther(s, c) = 0 /\ \A i \in 1..Len(s) : s[i] = c
           \/ /\ FirstOther(s, c) \in 1..Len(s) /\ s[FirstOther(s, c)] # c
              /\ \A i \in 1..(FirstOther(s, c) - 1) : s[i] = c
<1>. DEFINE I == {i \in 1..Len(s) : s[i] # c}
            k == Min(I)
<1>1. FirstOther(s, c) = IF I # {} THEN k ELSE 0
  BY DEF FirstOther, SelectInSeq
<1>2. I \in SUBSET Nat
  OBVIOUS
<1>3. I # {} => k \in I /\ \A y \in I : k <= y
  BY <1>2, LeastOf
<1>. HIDE DEF k
<1>4. CASE I = {}
  <2>1. \A i \in 1..Len(s) : s[i] = c
    BY <1>4
  <2>2. FirstOther(s, c) = 0
    BY <1>1, <1>4
  <2>. QED BY <2>1, <2>2
<1>5. CASE I # {}
  <2>1. k \in 1..Len(s) /\ s[k] # c
    BY <1>3, <1>5
  <2>2. \A i \in 1..(k - 1) : i \in 1..Len(s) /\ i < k
    BY <2>1
  <2>3. \A i \in 1..(k - 1) : s[i] = c
    <3>1. \A i \in 1..Len(s) : s[i] # c => k <= i
      BY <1>3, <1>5
    <3>. HIDE DEF I
    <3>. QED BY <2>1, <2>2, <3>1
  <2>4. FirstOther(s, c) = k
    BY <1>1, <1>5
  <2>. QED BY <2>1, <2>3, <2>4
<1>. QED BY <1>4, <1>5

\* A token has no delimiter in it, and with no token nothing is left.
LEMMA TokenFacts ==
    ASSUME NEW S, NEW s \in Seq(S), NEW d
    PROVE  /\ Token(s, d).tok \in Seq(S \ {d})
           /\ Token(s, d).rest \in Seq(S)
           /\ Token(s, d).tok = <<>> => Token(s, d).rest = <<>>
<1>. DEFINE u == Undelimited(s, d)
            begin == FirstOther(s, d)
            end == FirstIn(u, d)
<1>1. u \in Seq(S) /\ (u # <<>> => u[1] # d)
  <2>1. CASE begin = 0
    <3>1. u = <<>>
      BY <2>1 DEF Undelimited
    <3>. QED BY <3>1, EmptySeq
  <2>2. CASE begin # 0
    <3>1. begin \in 1..Len(s) /\ s[begin] # d
      BY <2>2, FirstOtherFinds
    <3>2. u = SubSeq(s, begin, Len(s))
      BY <2>2 DEF Undelimited
    <3>. HIDE DEF begin, u
    <3>3. u \in Seq(S) /\ u[1] = s[begin + 1 - 1]
      BY <3>1, <3>2, SubSeqProperties
    <3>4. begin + 1 - 1 = begin
      BY <3>1
    <3>. QED BY <3>1, <3>3, <3>4
  <2>. QED BY <2>1, <2>2
<1>2. Token(s, d) = Split(u, d)
  BY DEF Token
<1>. HIDE DEF u
<1>3. CASE end = 0
  <2>1. \A i \in 1..Len(u) : u[i] # d
    BY <1>1, <1>3, FirstInFinds
  <2>2. u \in Seq(S \ {d})
    BY <1>1, <2>1
  <2>3. Split(u, d).tok = u /\ Split(u, d).rest = <<>>
    BY <1>3 DEF Split
  <2>. QED BY <1>2, <2>2, <2>3, EmptySeq
<1>4. CASE end # 0
  <2>1. end \in 1..Len(u) /\ u[end] = d /\ \A i \in 1..(end - 1) : u[i] # d
    BY <1>1, <1>4, FirstInFinds
  <2>2. Split(u, d).tok = SubSeq(u, 1, end - 1) /\ Split(u, d).rest = SubSeq(u, end + 1, Len(u))
    BY <1>4 DEF Split
  <2>. HIDE DEF end
  <2>3. end # 1
    BY <1>1, <2>1
  <2>4. /\ SubSeq(u, 1, end - 1) \in Seq(S \ {d})
        /\ Len(SubSeq(u, 1, end - 1)) # 0
    <3>1. \A i \in 1..(end - 1) : u[i] \in S \ {d}
      BY <1>1, <2>1
    <3>2. end - 1 \in Int /\ 1 <= end - 1 /\ end - 1 - 1 + 1 # 0
      BY <2>1, <2>3
    <3>. QED BY <3>1, <3>2, SubSeqProperties
  <2>5. SubSeq(u, end + 1, Len(u)) \in Seq(S)
    <3>1. \A i \in (end + 1)..Len(u) : u[i] \in S
      BY <1>1, <2>1
    <3>2. end + 1 \in Int /\ Len(u) \in Int
      BY <1>1, <2>1
    <3>. QED BY <3>1, <3>2, SubSeqProperties
  <2>6. SubSeq(u, 1, end - 1) # <<>>
    BY <2>4, EmptySeq
  <2>. QED BY <1>2, <2>2, <2>4, <2>5, <2>6
<1>. QED BY <1>3, <1>4

\* Nothing is skipped before what does not begin with a delimiter.
LEMMA NothingSkipped ==
    ASSUME NEW S, NEW s \in Seq(S), NEW d, s # <<>>, s[1] # d
    PROVE  Undelimited(s, d) = s
<1>. DEFINE begin == FirstOther(s, d)
<1>1. Len(s) \in Nat /\ Len(s) > 0
  BY EmptySeq
<1>2. begin = 1
  BY <1>1, FirstOtherFinds
<1>3. Undelimited(s, d) = SubSeq(s, 1, Len(s))
  BY <1>2 DEF Undelimited
<1>. QED BY <1>3, SubSeqFull

\* Without a delimiter, all is the token.
LEMMA TokenWhole ==
    ASSUME NEW S, NEW d, NEW s \in Seq(S \ {d}), s # <<>>
    PROVE  Token(s, d) = [tok |-> s, rest |-> <<>>]
<1>1. Len(s) \in Nat /\ Len(s) > 0 /\ s \in Seq(S) /\ \A i \in 1..Len(s) : s[i] # d
  BY EmptySeq
<1>2. Undelimited(s, d) = s
  BY <1>1, NothingSkipped
<1>3. FirstIn(s, d) = 0
  BY <1>1, FirstInFinds
<1>. QED BY <1>2, <1>3 DEF Token, Split

\* A word, a delimiter, a rest: the word is the token.
LEMMA TokenReads ==
    ASSUME NEW S, NEW d \in S, NEW a \in Seq(S \ {d}), a # <<>>, NEW r \in Seq(S)
    PROVE  Token(a \o (<<d>> \o r), d) = [tok |-> a, rest |-> r]
<1>. DEFINE m == <<d>> \o r
            s == a \o m
            n == Len(a)
<1>1. n \in Nat /\ n > 0 /\ a \in Seq(S) /\ \A i \in 1..n : a[i] # d
  BY EmptySeq
<1>2. m \in Seq(S) /\ Len(m) = 1 + Len(r) /\ m[1] = d /\ \A i \in 1..Len(r) : m[1 + i] = r[i]
  OBVIOUS
<1>. HIDE DEF m
<1>3. /\ s \in Seq(S) /\ Len(s) = n + Len(m)
      /\ \A i \in 1..n : s[i] = a[i]
      /\ \A i \in 1..Len(m) : s[n + i] = m[i]
  <2>1. a \in Seq(S) /\ m \in Seq(S)
    BY <1>1, <1>2
  <2>. QED BY <2>1, Joined
<1>. HIDE DEF s, n
<1>4. Undelimited(s, d) = s
  <2>1. s # <<>> /\ s[1] # d
    BY <1>1, <1>2, <1>3
  <2>. QED BY <1>3, <2>1, NothingSkipped
<1>5. FirstIn(s, d) = n + 1
  <2>. DEFINE k == FirstIn(s, d)
  <2>1. n + 1 \in 1..Len(s) /\ s[n + 1] = d /\ \A i \in 1..n : s[i] # d
    BY <1>1, <1>2, <1>3
  <2>2. \/ k = 0 /\ \A i \in 1..Len(s) : s[i] # d
        \/ k \in 1..Len(s) /\ s[k] = d /\ \A i \in 1..(k - 1) : s[i] # d
    BY <1>3, FirstInFinds
  <2>. HIDE DEF k
  <2>3. k = n + 1
    BY <1>1, <2>1, <2>2
  <2>. QED BY <2>3 DEF k
<1>6. SubSeq(s, 1, n) = a
  <2>1. SubSeq(s, 1, n) \in Seq(S) /\ Len(SubSeq(s, 1, n)) = n /\ \A i \in 1..n : SubSeq(s, 1, n)[i] = s[i]
    BY <1>1, <1>3, SubSeqProperties
  <2>. QED BY <1>1, <1>3, <2>1, SeqEqual DEF n
<1>7. SubSeq(s, n + 2, Len(s)) = r
  <2>. DEFINE q == SubSeq(s, n + 2, Len(s))
              z == Len(r)
  <2>1. z \in Nat /\ Len(s) = n + 1 + z /\ \A i \in 1..z : s[n + 1 + i] = r[i]
    <3>1. \A i \in 1..z : 1 + i \in 1..Len(m) /\ n + (1 + i) = n + 1 + i
      BY <1>1, <1>2
    <3>. QED BY <1>1, <1>2, <1>3, <3>1
  <2>. HIDE DEF z
  <2>2. /\ q \in Seq(S) /\ Len(q) = z
        /\ \A i \in 1..z : q[i] = s[n + 2 + i - 1]
    <3>1. \A i \in (n + 2)..Len(s) : s[i] \in S
      BY <1>1, <1>3, <2>1
    <3>2. n + 2 \in Int /\ Len(s) \in Int /\ Len(s) - (n + 2) + 1 = z
      BY <1>1, <2>1
    <3>3. (IF n + 2 <= Len(s) THEN Len(s) - (n + 2) + 1 ELSE 0) = z
      BY <1>1, <2>1
    <3>. HIDE DEF q
    <3>. QED BY <3>1, <3>2, <3>3, SubSeqProperties DEF q
  <2>3. \A i \in 1..z : n + 2 + i - 1 = n + 1 + i
    BY <1>1, <2>1
  <2>. HIDE DEF q
  <2>4. \A i \in 1..z : q[i] = r[i]
    BY <2>1, <2>2, <2>3
  <2>5. q = r
    BY <2>2, <2>4, SeqEqual DEF z
  <2>. QED BY <2>5 DEF q
<1>8. n + 1 # 0 /\ n + 1 - 1 = n /\ n + 1 + 1 = n + 2
  BY <1>1
<1>9. Split(s, d) = [tok |-> a, rest |-> r]
  <2>. DEFINE end == FirstIn(s, d)
  <2>1. end = n + 1 /\ end # 0
    BY <1>5, <1>8
  <2>2. Split(s, d) = [tok |-> SubSeq(s, 1, end - 1), rest |-> SubSeq(s, end + 1, Len(s))]
    BY <2>1 DEF Split
  <2>. HIDE DEF end
  <2>3. end - 1 = n /\ end + 1 = n + 2
    BY <1>1, <2>1
  <2>4. SubSeq(s, 1, end - 1) = a /\ SubSeq(s, end + 1, Len(s)) = r
    BY <1>6, <1>7, <2>3
  <2>. QED BY <2>2, <2>4
<1>. QED BY <1>4, <1>9 DEF Token, s, m

-----------------------------------------------------------------------------
(* What the parser accepts                                                 *)

\* The pieces of a token between two ":", the record of a parsed name, and its parts.
TokenPieces == NamePieces \ {":"}

NameKey(c, p, w, x, n, b) ==
    [ret |-> 0, cached |-> c, public |-> p, with |-> w, key |-> x, namespace |-> n, by |-> b]

NameParts(x, n, b) ==
    /\ x \in Seq(TokenPieces \ {"@"}) /\ x # <<>>
    /\ n \in Seq(TokenPieces \ {"@"})
    /\ n = <<>> => \A i \in 1..(Len(x) - 1) : x[i] # "."
    /\ n # <<>> => x \in Seq((TokenPieces \ {"@"}) \ {"."})
    /\ b \in Seq(TokenPieces) /\ Len(b) > 0 /\ b[1] = "@"

\* Setting fields of the record of a name.
LEMMA NameKeyFields ==
    ASSUME NEW c, NEW p, NEW w, NEW x, NEW n, NEW b
    PROVE  /\ NameKey(c, p, w, x, n, b).ret = 0
           /\ NameKey(c, p, w, x, n, b).cached = c
           /\ NameKey(c, p, w, x, n, b).public = p
           /\ NameKey(c, p, w, x, n, b).with = w
           /\ NameKey(c, p, w, x, n, b).key = x
           /\ NameKey(c, p, w, x, n, b).namespace = n
           /\ NameKey(c, p, w, x, n, b).by = b
BY Zenon DEF NameKey

\* The record a reader begins with.
LEMMA NoNameYet ==
    [NoAtkey EXCEPT !.ret = 0] = NameKey(FALSE, FALSE, <<>>, <<>>, <<>>, <<>>)
<1>. DEFINE f == FALSE
            e == <<>>
            r == 1
<1>1. [[ret |-> r, cached |-> f, public |-> f, with |-> e,
        key |-> e, namespace |-> e, by |-> e] EXCEPT !.ret = 0] = NameKey(f, f, e, e, e, e)
  <2>. HIDE DEF f, e, r
  <2>. QED BY DEF NameKey
<1>. QED BY <1>1 DEF NoAtkey

\* The record of a cached name, to begin with.
LEMMA CachedNameYet ==
    [NoAtkey EXCEPT !.ret = 0, !.cached = TRUE] = NameKey(TRUE, FALSE, <<>>, <<>>, <<>>, <<>>)
<1>. DEFINE f == FALSE
            y == TRUE
            e == <<>>
<1>1. [NoAtkey EXCEPT !.ret = 0, !.cached = TRUE] = [[NoAtkey EXCEPT !.ret = 0] EXCEPT !.cached = TRUE]
  OBVIOUS
<1>2. [NameKey(f, f, e, e, e, e) EXCEPT !.cached = y] = NameKey(y, f, e, e, e, e)
  <2>. HIDE DEF f, y, e
  <2>. QED BY DEF NameKey
<1>. QED BY <1>1, <1>2, NoNameYet

\* An atSign gets the "@" that the tokenizer took.
LEMMA AtsignFacts ==
    ASSUME NEW s \in Seq(TokenPieces)
    PROVE  /\ AtsignWithAt(s) \in Seq(TokenPieces)
           /\ Len(AtsignWithAt(s)) > 0
           /\ AtsignWithAt(s)[1] = "@"
<1>1. CASE StartsWith(s, "@")
  <2>1. AtsignWithAt(s) = s
    BY <1>1 DEF AtsignWithAt
  <2>. QED BY <1>1, <2>1, EmptySeq DEF StartsWith
<1>2. CASE ~StartsWith(s, "@")
  <2>. DEFINE at == <<"@">>
  <2>1. at \in Seq(TokenPieces) /\ Len(at) = 1 /\ at[1] = "@"
    BY DEF TokenPieces, NamePieces
  <2>2. AtsignWithAt(s) = at \o s
    BY <1>2 DEF AtsignWithAt
  <2>. HIDE DEF at
  <2>3. /\ at \o s \in Seq(TokenPieces) /\ Len(at \o s) = Len(at) + Len(s)
        /\ \A i \in 1..Len(at) : (at \o s)[i] = at[i]
    BY <2>1, Joined
  <2>4. Len(s) \in Nat /\ 1 \in 1..Len(at)
    BY <2>1
  <2>. QED BY <2>1, <2>2, <2>3, <2>4
<1>. QED BY <1>1, <1>2

\* The key, its namespace and its owner, out of what "@" separates.
LEMMA KeyRead ==
    ASSUME NEW c, NEW p, NEW w, NEW named,
           named.tok \in Seq(TokenPieces \ {"@"}), named.rest \in Seq(TokenPieces)
    PROVE  \/ ReadKey(named, NameKey(c, p, w, <<>>, <<>>, <<>>)).ret = 1
           \/ \E x, n, b : /\ NameParts(x, n, b)
                           /\ ReadKey(named, NameKey(c, p, w, <<>>, <<>>, <<>>)) = NameKey(c, p, w, x, n, b)
<1>. DEFINE e == <<>>
            k == NameKey(c, p, w, e, e, e)
            tok == named.tok
            b == AtsignWithAt(named.rest)
            dot == FirstIn(tok, ".")
            t == Token(tok, ".")
            T == TokenPieces \ {"@"}
<1>1. b \in Seq(TokenPieces) /\ Len(b) > 0 /\ b[1] = "@"
  BY AtsignFacts
<1>2. tok \in Seq(T) /\ Len(tok) \in Nat /\ e \in Seq(T)
  BY EmptySeq
<1>3. CASE tok = <<>> \/ named.rest = <<>>
  <2>1. ReadKey(named, k) = NoAtkey
    BY <1>3 DEF ReadKey
  <2>. QED BY <2>1 DEF NoAtkey
<1>4. CASE ~(tok = <<>> \/ named.rest = <<>>) /\ (dot = 0 \/ dot = Len(tok))
  <2>1. ReadKey(named, k) = [k EXCEPT !.key = tok, !.by = b]
    BY <1>4 DEF ReadKey
  <2>2. [k EXCEPT !.key = tok, !.by = b] = NameKey(c, p, w, tok, e, b)
    <3>. HIDE DEF tok, b, e
    <3>1. [k EXCEPT !.key = tok] = NameKey(c, p, w, tok, e, e)
      BY DEF NameKey
    <3>2. [NameKey(c, p, w, tok, e, e) EXCEPT !.by = b] = NameKey(c, p, w, tok, e, b)
      BY DEF NameKey
    <3>. HIDE DEF k
    <3>3. [k EXCEPT !.key = tok, !.by = b] = [[k EXCEPT !.key = tok] EXCEPT !.by = b]
      OBVIOUS
    <3>. QED BY <3>1, <3>2, <3>3
  <2>3. \A i \in 1..(Len(tok) - 1) : tok[i] # "."
    <3>. HIDE DEF tok
    <3>1. \/ dot = 0 /\ \A i \in 1..Len(tok) : tok[i] # "."
          \/ dot \in 1..Len(tok) /\ \A i \in 1..(dot - 1) : tok[i] # "."
      BY <1>2, FirstInFinds
    <3>. HIDE DEF dot
    <3>. QED BY <1>2, <1>4, <3>1
  <2>4. NameParts(tok, e, b)
    <3>. HIDE DEF tok, b
    <3>. QED BY <1>1, <1>2, <1>4, <2>3 DEF NameParts
  <2>. QED BY <2>1, <2>2, <2>4
<1>5. CASE ~(tok = <<>> \/ named.rest = <<>>) /\ ~(dot = 0 \/ dot = Len(tok))
  <2>1. ReadKey(named, k) =
          IF t.rest = <<>> THEN NoAtkey
          ELSE [k EXCEPT !.key = t.tok, !.namespace = t.rest, !.by = b]
    BY <1>5 DEF ReadKey
  <2>2. CASE t.rest = <<>>
    BY <2>1, <2>2 DEF NoAtkey
  <2>3. CASE t.rest # <<>>
    <3>1. ReadKey(named, k) = [k EXCEPT !.key = t.tok, !.namespace = t.rest, !.by = b]
      BY <2>1, <2>3
    <3>2. [k EXCEPT !.key = t.tok, !.namespace = t.rest, !.by = b] = NameKey(c, p, w, t.tok, t.rest, b)
      <4>. DEFINE y == t.tok
                  v == t.rest
      <4>. HIDE DEF y, v, b, e
      <4>1. [k EXCEPT !.key = y] = NameKey(c, p, w, y, e, e)
        BY DEF NameKey
      <4>2. [NameKey(c, p, w, y, e, e) EXCEPT !.namespace = v] = NameKey(c, p, w, y, v, e)
        BY DEF NameKey
      <4>3. [NameKey(c, p, w, y, v, e) EXCEPT !.by = b] = NameKey(c, p, w, y, v, b)
        BY DEF NameKey
      <4>. HIDE DEF k
      <4>4. [k EXCEPT !.key = y, !.namespace = v, !.by = b]
              = [[[k EXCEPT !.key = y] EXCEPT !.namespace = v] EXCEPT !.by = b]
        OBVIOUS
      <4>5. [k EXCEPT !.key = y, !.namespace = v, !.by = b] = NameKey(c, p, w, y, v, b)
        BY <4>1, <4>2, <4>3, <4>4
      <4>. QED BY <4>5 DEF y, v
    <3>3. t.tok \in Seq(T \ {"."}) /\ t.rest \in Seq(T) /\ t.tok # <<>>
      <4>. HIDE DEF tok, T
      <4>. QED BY <1>2, <2>3, TokenFacts
    <3>4. t.tok \in Seq(T)
      BY <3>3
    <3>5. NameParts(t.tok, t.rest, b)
      <4>. HIDE DEF t, b
      <4>. QED BY <1>1, <2>3, <3>3, <3>4 DEF NameParts
    <3>. QED BY <3>1, <3>2, <3>5
  <2>. QED BY <2>2, <2>3
<1>. QED BY <1>3, <1>4, <1>5

\* The same, out of a token of ":".
LEMMA NameRead ==
    ASSUME NEW c, NEW p, NEW w, NEW t, t.tok \in Seq(TokenPieces)
    PROVE  \/ ReadName(t, NameKey(c, p, w, <<>>, <<>>, <<>>)).ret = 1
           \/ \E x, n, b : /\ NameParts(x, n, b)
                           /\ ReadName(t, NameKey(c, p, w, <<>>, <<>>, <<>>)) = NameKey(c, p, w, x, n, b)
<1>. DEFINE named == Token(t.tok, "@")
<1>1. named.tok \in Seq(TokenPieces \ {"@"}) /\ named.rest \in Seq(TokenPieces)
  BY TokenFacts
<1>2. ReadName(t, NameKey(c, p, w, <<>>, <<>>, <<>>)) = ReadKey(named, NameKey(c, p, w, <<>>, <<>>, <<>>))
  BY DEF ReadName
<1>. HIDE DEF named
<1>. QED BY <1>1, <1>2, KeyRead

\* What is read before the key: for everybody, for one atSign, or neither.
Scoped(r, c) ==
    \/ r.ret = 1
    \/ \E p \in BOOLEAN, w \in Seq(TokenPieces) : \E x, n, b :
          /\ NameParts(x, n, b)
          /\ w # <<>> => w[1] = "@" /\ ~p
          /\ r = NameKey(c, p, w, x, n, b)

\* A scope, then a name.
LEMMA ScopeRead ==
    ASSUME NEW c, NEW t, t.tok \in Seq(TokenPieces), t.rest \in Seq(NamePieces)
    PROVE  Scoped(ReadScope(t, NameKey(c, FALSE, <<>>, <<>>, <<>>, <<>>)), c)
<1>. DEFINE e == <<>>
            none == FALSE
            all == TRUE
            k == NameKey(c, none, e, e, e, e)
            u == Token(t.rest, ":")
<1>1. u.tok \in Seq(TokenPieces)
  BY TokenFacts DEF TokenPieces
<1>2. e \in Seq(TokenPieces)
  BY EmptySeq
<1>3. ASSUME NEW p \in BOOLEAN, NEW w \in Seq(TokenPieces), w # <<>> => w[1] = "@" /\ ~p,
             NEW v, v.tok \in Seq(TokenPieces),
             ReadScope(t, k) = ReadName(v, NameKey(c, p, w, e, e, e))
      PROVE  Scoped(ReadScope(t, k), c)
  <2>. HIDE DEF k
  <2>. QED BY <1>3, NameRead DEF Scoped
<1>4. CASE StartsWith(t.tok, "public")
  <2>1. [k EXCEPT !.public = all] = NameKey(c, all, e, e, e, e)
    <3>. HIDE DEF none, all, e
    <3>. QED BY DEF NameKey
  <2>2. ReadScope(t, k) = ReadName(u, [k EXCEPT !.public = all])
    BY <1>4 DEF ReadScope
  <2>3. all \in BOOLEAN
    OBVIOUS
  <2>4. ReadScope(t, k) = ReadName(u, NameKey(c, all, e, e, e, e))
    BY <2>1, <2>2
  <2>5. e # <<>> => e[1] = "@" /\ ~all
    OBVIOUS
  <2>9. Scoped(ReadScope(t, k), c)
    <3>. HIDE DEF k, u, all, e
    <3>. QED BY <1>1, <1>2, <1>3, <2>3, <2>4, <2>5
  <2>. QED BY <2>9
<1>5. CASE ~StartsWith(t.tok, "public") /\ StartsWith(t.tok, "@")
  <2>. DEFINE w == t.tok
  <2>1. [k EXCEPT !.with = w] = NameKey(c, none, w, e, e, e)
    <3>. HIDE DEF none, e, w
    <3>. QED BY DEF NameKey
  <2>2. ReadScope(t, k) = ReadName(u, [k EXCEPT !.with = w])
    BY <1>5 DEF ReadScope
  <2>3. w \in Seq(TokenPieces) /\ w[1] = "@" /\ none \in BOOLEAN /\ ~none
    BY <1>5 DEF StartsWith
  <2>4. ReadScope(t, k) = ReadName(u, NameKey(c, none, w, e, e, e))
    BY <2>1, <2>2
  <2>9. Scoped(ReadScope(t, k), c)
    <3>. HIDE DEF k, u, none, w, e
    <3>. QED BY <1>1, <1>3, <2>3, <2>4
  <2>. QED BY <2>9
<1>6. CASE ~StartsWith(t.tok, "public") /\ ~StartsWith(t.tok, "@")
  <2>1. ReadScope(t, k) = ReadName(t, NameKey(c, none, e, e, e, e))
    BY <1>6 DEF ReadScope
  <2>2. none \in BOOLEAN /\ (e # <<>> => e[1] = "@" /\ ~none)
    OBVIOUS
  <2>9. Scoped(ReadScope(t, k), c)
    <3>. HIDE DEF k, u, none, e
    <3>. QED BY <1>2, <1>3, <2>1, <2>2
  <2>. QED BY <2>9
<1>. QED BY <1>4, <1>5, <1>6

\* A name the parser accepts gives a record of well formed parts.
LEMMA NameParsed ==
    ASSUME NEW s \in Seq(NamePieces)
    PROVE  \E c \in BOOLEAN : Scoped(AtkeyFromString(s), c)
<1>. DEFINE t == Token(s, ":")
            u == Token(t.rest, ":")
<1>1. t.tok \in Seq(TokenPieces) /\ t.rest \in Seq(NamePieces)
  BY TokenFacts DEF TokenPieces
<1>2. AtkeyFromString(s) = ReadCached(t)
  BY DEF AtkeyFromString
<1>. HIDE DEF t
<1>3. u.tok \in Seq(TokenPieces) /\ u.rest \in Seq(NamePieces)
  BY <1>1, TokenFacts DEF TokenPieces
<1>4. CASE StartsWith(t.tok, "cached")
  <2>1. [NoAtkey EXCEPT !.ret = 0, !.cached = TRUE] = NameKey(TRUE, FALSE, <<>>, <<>>, <<>>, <<>>)
    BY CachedNameYet
  <2>2. ReadCached(t) = ReadScope(u, NameKey(TRUE, FALSE, <<>>, <<>>, <<>>, <<>>))
    BY <1>4, <2>1 DEF ReadCached
  <2>. HIDE DEF u
  <2>. QED BY <1>2, <1>3, <2>2, ScopeRead
<1>5. CASE ~StartsWith(t.tok, "cached")
  <2>1. ReadCached(t) = ReadScope(t, NameKey(FALSE, FALSE, <<>>, <<>>, <<>>, <<>>))
    BY <1>5, NoNameYet DEF ReadCached
  <2>. QED BY <1>1, <1>2, <2>1, ScopeRead
<1>. QED BY <1>4, <1>5

-----------------------------------------------------------------------------
(* What is printed is read again                                           *)

\* The pieces to_string prints: the scope, and the key with its namespace and owner.
ScopeText(p, w) == IF p THEN <<"public", ":">> ELSE IF w # <<>> THEN w \o <<":">> ELSE <<>>

NamespaceText(n) == IF n # <<>> THEN <<".">> \o n ELSE <<>>

NameText(x, n, b) == (x \o NamespaceText(n)) \o b

\* The parts of a record whose text is read back, but for "cached" in front.
Readable(p, w, x, b) ==
    /\ Len(b) > 1 /\ b[2] # "@"
    /\ w # <<>> => ~p /\ w[1] = "@"
    /\ ~p /\ w = <<>> => x[1] # "public"

\* The delimiters are pieces of a token, but for the ":" that ends it.
LEMMA Delimiters == "@" \in TokenPieces /\ "." \in TokenPieces /\ "." \in TokenPieces \ {"@"}
BY DEF TokenPieces, NamePieces

\* The text of a key, namespace and owner: what "@" separates in it.
LEMMA NameTextFacts ==
    ASSUME NEW x, NEW n, NEW b, NameParts(x, n, b), Len(b) > 1
    PROVE  /\ NameText(x, n, b) \in Seq(TokenPieces)
           /\ NameText(x, n, b) # <<>>
           /\ NameText(x, n, b)[1] = x[1] /\ x[1] # "@"
           /\ x \o NamespaceText(n) \in Seq(TokenPieces \ {"@"})
           /\ x \o NamespaceText(n) # <<>>
           /\ Token(NameText(x, n, b), "@") = [tok |-> x \o NamespaceText(n), rest |-> Tail(b)]
<1>. DEFINE T == TokenPieces \ {"@"}
            m == NamespaceText(n)
            a == x \o m
            at == "@"
            r == Tail(b)
<1>1. x \in Seq(T) /\ n \in Seq(T) /\ Len(x) \in Nat /\ Len(x) > 0 /\ b \in Seq(TokenPieces) /\ b # <<>> /\ b[1] = at
  BY EmptySeq DEF NameParts
<1>2. m \in Seq(T)
  <2>1. CASE n = <<>>
    BY <2>1, EmptySeq DEF NamespaceText
  <2>2. CASE n # <<>>
    <3>. DEFINE d == <<".">>
    <3>1. d \in Seq(T)
      BY Delimiters
    <3>2. m = d \o n
      BY <2>2 DEF NamespaceText
    <3>. HIDE DEF d, m, T
    <3>. QED BY <1>1, <3>1, <3>2, ConcatProperties
  <2>. QED BY <2>1, <2>2
<1>3. a \in Seq(T) /\ Len(a) = Len(x) + Len(m) /\ \A i \in 1..Len(x) : a[i] = x[i]
  <2>. HIDE DEF T, m
  <2>. QED BY <1>1, <1>2, Joined
<1>4. Len(m) \in Nat
  BY <1>2
<1>5. a # <<>> /\ Len(a) > 0 /\ a[1] = x[1] /\ x[1] # at
  <2>1. 1 \in 1..Len(x) /\ Len(a) > 0
    BY <1>1, <1>3, <1>4
  <2>. HIDE DEF a, m
  <2>. QED BY <1>1, <1>3, <2>1
<1>6. a \in Seq(TokenPieces)
  <2>. HIDE DEF a
  <2>. QED BY <1>3
<1>7. /\ a \o b \in Seq(TokenPieces) /\ Len(a \o b) = Len(a) + Len(b)
      /\ \A i \in 1..Len(a) : (a \o b)[i] = a[i]
  <2>. HIDE DEF a, m, T
  <2>. QED BY <1>1, <1>6, Joined
<1>8. a \o b # <<>> /\ (a \o b)[1] = a[1]
  <2>. HIDE DEF a, m, T
  <2>. QED BY <1>1, <1>5, <1>7
<1>9. b = <<at>> \o r /\ r \in Seq(TokenPieces)
  <2>. HIDE DEF at
  <2>. QED BY <1>1
<1>10. Token(a \o (<<at>> \o r), at) = [tok |-> a, rest |-> r]
  <2>1. at \in TokenPieces
    BY Delimiters
  <2>2. a \in Seq(TokenPieces \ {at})
    BY <1>3
  <2>. HIDE DEF a, at, r, m, T
  <2>. QED BY <1>5, <1>9, <2>1, <2>2, TokenReads
<1>11. Token(a \o b, at) = [tok |-> a, rest |-> r]
  <2>. HIDE DEF a, at, r, m, T
  <2>. QED BY <1>9, <1>10
<1>12. NameText(x, n, b) = a \o b
  BY DEF NameText
<1>. HIDE DEF r, m, T
<1>. QED BY <1>3, <1>5, <1>7, <1>8, <1>11, <1>12 DEF m, T, r

\* The text of a key, namespace and owner is read as these.
LEMMA NameReadBack ==
    ASSUME NEW c, NEW p, NEW w, NEW x, NEW n, NEW b, NameParts(x, n, b), Len(b) > 1, b[2] # "@",
           NEW t, t.tok = NameText(x, n, b)
    PROVE  ReadName(t, NameKey(c, p, w, <<>>, <<>>, <<>>)) = NameKey(c, p, w, x, n, b)
<1>. DEFINE T == TokenPieces \ {"@"}
            e == <<>>
            k == NameKey(c, p, w, e, e, e)
            a == x \o NamespaceText(n)
            r == Tail(b)
            named == Token(t.tok, "@")
            dot == FirstIn(a, ".")
<1>1. named.tok = a /\ named.rest = r
  BY NameTextFacts
<1>2. a \in Seq(T) /\ a # <<>>
  BY NameTextFacts
<1>3. r # <<>> /\ AtsignWithAt(r) = b
  <2>1. b \in Seq(TokenPieces) /\ b[1] = "@"
    BY DEF NameParts
  <2>2. r # <<>> /\ r[1] = b[2] /\ b = <<"@">> \o r
    <3>. DEFINE at == "@"
    <3>1. b # <<>> /\ Len(b) \in Nat /\ b[1] = at
      BY <2>1
    <3>2. Len(r) = Len(b) - 1 /\ \A i \in 1..Len(r) : r[i] = b[i + 1]
      BY <2>1, <3>1, HeadTailProperties
    <3>3. b = <<at>> \o r
      <4>. HIDE DEF at
      <4>. QED BY <2>1, <3>1
    <3>. HIDE DEF r
    <3>4. r[1] = b[1 + 1] /\ Len(r) # 0
      BY <3>1, <3>2
    <3>5. r # <<>> /\ r[1] = b[2]
      BY <3>4
    <3>. QED BY <3>3, <3>5
  <2>. HIDE DEF r
  <2>3. ~StartsWith(r, "@")
    BY <2>2 DEF StartsWith
  <2>. QED BY <2>2, <2>3 DEF AtsignWithAt
<1>4. ReadName(t, k) = ReadKey(named, k)
  BY DEF ReadName
<1>. HIDE DEF named, r
<1>5. x \in Seq(T) /\ x # <<>> /\ n \in Seq(T) /\ Len(x) \in Nat /\ Len(n) \in Nat
  BY DEF NameParts
<1>6. CASE n = <<>>
  <2>1. a = x
    BY <1>5, <1>6, ConcatEmptySeq DEF NamespaceText
  <2>2. \A i \in 1..(Len(x) - 1) : x[i] # "."
    BY <1>6 DEF NameParts
  <2>3. dot = 0 \/ dot = Len(a)
    <3>1. \/ dot = 0
          \/ dot \in 1..Len(a) /\ a[dot] = "."
      BY <1>2, FirstInFinds
    <3>. HIDE DEF dot, a
    <3>. QED BY <1>5, <2>1, <2>2, <3>1
  <2>4. ReadKey(named, k) = [k EXCEPT !.key = a, !.by = AtsignWithAt(r)]
    <3>. HIDE DEF k
    <3>. QED BY <1>1, <1>2, <1>3, <2>3 DEF ReadKey
  <2>5. [k EXCEPT !.key = x, !.by = b] = NameKey(c, p, w, x, e, b)
    <3>. HIDE DEF e
    <3>1. [k EXCEPT !.key = x] = NameKey(c, p, w, x, e, e)
      BY DEF NameKey
    <3>2. [NameKey(c, p, w, x, e, e) EXCEPT !.by = b] = NameKey(c, p, w, x, e, b)
      BY DEF NameKey
    <3>. HIDE DEF k
    <3>3. [k EXCEPT !.key = x, !.by = b] = [[k EXCEPT !.key = x] EXCEPT !.by = b]
      OBVIOUS
    <3>. QED BY <3>1, <3>2, <3>3
  <2>6. ReadName(t, k) = NameKey(c, p, w, x, n, b)
    <3>. HIDE DEF k, a
    <3>. QED BY <1>3, <1>4, <1>6, <2>1, <2>4, <2>5
  <2>. QED BY <2>6
<1>7. CASE n # <<>>
  <2>. DEFINE d == "."
              u == Token(a, d)
  <2>1. x \in Seq(T \ {d}) /\ d \in T
    BY <1>7, Delimiters DEF NameParts
  <2>2. a = x \o (<<d>> \o n)
    BY <1>7 DEF NamespaceText
  <2>3. u = [tok |-> x, rest |-> n]
    <3>1. Token(x \o (<<d>> \o n), d) = [tok |-> x, rest |-> n]
      <4>. HIDE DEF T, d
      <4>. QED BY <1>5, <2>1, TokenReads
    <3>. QED BY <2>2, <3>1
  <2>4. ~(dot = 0 \/ dot = Len(a))
    <3>. DEFINE m == <<d>> \o n
                l == Len(x)
    <3>1. m \in Seq(T) /\ Len(m) = 1 + Len(n) /\ m[1] = d
      <4>. HIDE DEF T, d
      <4>. QED BY <1>5, <2>1
    <3>2. Len(n) > 0
      BY <1>5, <1>7, EmptySeq
    <3>3. Len(a) = l + Len(m) /\ \A i \in 1..Len(m) : a[l + i] = m[i]
      <4>. HIDE DEF T, m, d, a
      <4>1. Len(x \o m) = Len(x) + Len(m) /\ \A i \in 1..Len(m) : (x \o m)[Len(x) + i] = m[i]
        BY <1>5, <3>1, Joined
      <4>. QED BY <2>2, <4>1 DEF m
    <3>. HIDE DEF m, l
    <3>4. l \in Nat
      BY <1>5 DEF l
    <3>5. 1 \in 1..Len(m)
      BY <1>5, <3>1
    <3>6. a[l + 1] = d /\ l + 1 \in 1..(Len(a) - 1)
      BY <1>5, <3>1, <3>2, <3>3, <3>4, <3>5
    <3>7. \/ dot = 0 /\ \A i \in 1..Len(a) : a[i] # d
          \/ dot \in 1..Len(a) /\ \A i \in 1..(dot - 1) : a[i] # d
      <4>. HIDE DEF a, T
      <4>. QED BY <1>2, FirstInFinds
    <3>. HIDE DEF dot, a, d
    <3>. QED BY <1>2, <3>6, <3>7
  <2>5. ReadKey(named, k) = [k EXCEPT !.key = u.tok, !.namespace = u.rest, !.by = AtsignWithAt(r)]
    <3>1. u.rest # <<>>
      BY <1>7, <2>3
    <3>. HIDE DEF k, a
    <3>. QED BY <1>1, <1>2, <1>3, <2>4, <3>1 DEF ReadKey
  <2>6. [k EXCEPT !.key = x, !.namespace = n, !.by = b] = NameKey(c, p, w, x, n, b)
    <3>. HIDE DEF e
    <3>1. [k EXCEPT !.key = x] = NameKey(c, p, w, x, e, e)
      BY DEF NameKey
    <3>2. [NameKey(c, p, w, x, e, e) EXCEPT !.namespace = n] = NameKey(c, p, w, x, n, e)
      BY DEF NameKey
    <3>3. [NameKey(c, p, w, x, n, e) EXCEPT !.by = b] = NameKey(c, p, w, x, n, b)
      BY DEF NameKey
    <3>. HIDE DEF k
    <3>4. [k EXCEPT !.key = x, !.namespace = n, !.by = b]
            = [[[k EXCEPT !.key = x] EXCEPT !.namespace = n] EXCEPT !.by = b]
      OBVIOUS
    <3>. QED BY <3>1, <3>2, <3>3, <3>4
  <2>7. u.tok = x /\ u.rest = n
    BY <2>3
  <2>8. ReadName(t, k) = NameKey(c, p, w, x, n, b)
    <3>. HIDE DEF k, a, u
    <3>. QED BY <1>3, <1>4, <2>5, <2>6, <2>7
  <2>. QED BY <2>8
<1>. QED BY <1>6, <1>7

\* Joining, as an operator of its own.
Cat(s, t) == s \o t

\* Texts are joined in any order.
LEMMA Concatenated ==
    ASSUME NEW S
    PROVE  /\ \A s, t, u \in Seq(S) : Cat(Cat(s, t), u) = Cat(s, Cat(t, u))
           /\ \A s, t \in Seq(S) : Cat(s, t) \in Seq(S)
BY ConcatAssociative, ConcatProperties DEF Cat

\* Five texts joined one after the other.
LEMMA Regrouped ==
    ASSUME NEW A, NEW C, NEW S, NEW x, NEW N, NEW b,
           C \in Seq(A), S \in Seq(A), x \in Seq(A), N \in Seq(A), b \in Seq(A)
    PROVE  Cat(Cat(Cat(Cat(C, S), x), N), b) = Cat(C, Cat(S, Cat(Cat(x, N), b)))
<1>1. /\ \A s, t, u \in Seq(A) : Cat(Cat(s, t), u) = Cat(s, Cat(t, u))
      /\ \A s, t \in Seq(A) : Cat(s, t) \in Seq(A)
  BY Concatenated
<1>2. Cat(C, S) \in Seq(A) /\ Cat(x, N) \in Seq(A) /\ Cat(Cat(x, N), b) \in Seq(A)
  BY <1>1
<1>3. Cat(Cat(Cat(C, S), x), N) = Cat(Cat(C, S), Cat(x, N))
  BY <1>1, <1>2
<1>4. Cat(Cat(Cat(C, S), Cat(x, N)), b) = Cat(Cat(C, S), Cat(Cat(x, N), b))
  BY <1>1, <1>2
<1>5. Cat(Cat(C, S), Cat(Cat(x, N), b)) = Cat(C, Cat(S, Cat(Cat(x, N), b)))
  BY <1>1, <1>2
<1>. QED BY <1>3, <1>4, <1>5

\* What a token t begins, read as a scope and a name.
ScopeReads(p, w, x, n, b, t) ==
    /\ t.tok # <<>>
    /\ p => t.tok[1] = "public"
    /\ ~p /\ w # <<>> => t.tok[1] = "@"
    /\ ~p /\ w = <<>> => t.tok[1] = x[1]
    /\ \A c : ReadScope(t, NameKey(c, FALSE, <<>>, <<>>, <<>>, <<>>)) = NameKey(c, p, w, x, n, b)

\* A scope and a name are read as these.
LEMMA ScopeReadBack ==
    ASSUME NEW p \in BOOLEAN, NEW w \in Seq(TokenPieces), NEW x, NEW n, NEW b,
           NameParts(x, n, b), Readable(p, w, x, b),
           NEW t, t = Token(ScopeText(p, w) \o NameText(x, n, b), ":")
    PROVE  /\ ScopeText(p, w) \o NameText(x, n, b) \in Seq(NamePieces)
           /\ ScopeReads(p, w, x, n, b, t)
<1>. SUFFICES ASSUME NEW c
              PROVE  /\ ScopeText(p, w) \o NameText(x, n, b) \in Seq(NamePieces)
                     /\ t.tok # <<>>
                     /\ p => t.tok[1] = "public"
                     /\ ~p /\ w # <<>> => t.tok[1] = "@"
                     /\ ~p /\ w = <<>> => t.tok[1] = x[1]
                     /\ ReadScope(t, NameKey(c, FALSE, <<>>, <<>>, <<>>, <<>>)) = NameKey(c, p, w, x, n, b)
  BY DEF ScopeReads
<1>. DEFINE e == <<>>
            none == FALSE
            all == TRUE
            k == NameKey(c, none, e, e, e, e)
            d == ":"
            body == NameText(x, n, b)
            text == ScopeText(p, w) \o body
            u == Token(t.rest, d)
<1>0. /\ Len(b) > 1 /\ b[2] # "@"
      /\ w # <<>> => ~p /\ w[1] = "@"
      /\ ~p /\ w = <<>> => x[1] # "public"
  BY Zenon DEF Readable
<1>00. text = ScopeText(p, w) \o body /\ t = Token(text, d)
  OBVIOUS
<1>1. body \in Seq(TokenPieces) /\ body # <<>> /\ body[1] = x[1] /\ x[1] # "@"
  BY <1>0, NameTextFacts
<1>2. d \in NamePieces /\ TokenPieces = NamePieces \ {d}
  BY DEF NamePieces, TokenPieces
<1>3. body \in Seq(NamePieces \ {d}) /\ body \in Seq(NamePieces)
  <2>. HIDE DEF body, d
  <2>. QED BY <1>1, <1>2
<1>4. Token(body, d) = [tok |-> body, rest |-> <<>>]
  <2>. HIDE DEF body, d
  <2>. QED BY <1>1, <1>3, TokenWhole
<1>5. ASSUME NEW a \in Seq(TokenPieces), a # <<>>
      PROVE  /\ (a \o <<d>>) \o body = a \o (<<d>> \o body)
             /\ (a \o <<d>>) \o body \in Seq(NamePieces)
             /\ Token((a \o <<d>>) \o body, d) = [tok |-> a, rest |-> body]
  <2>. DEFINE m == <<d>>
  <2>1. a \in Seq(NamePieces \ {d}) /\ a \in Seq(NamePieces) /\ m \in Seq(NamePieces)
    <3>. HIDE DEF d
    <3>. QED BY <1>2, <1>5
  <2>. HIDE DEF body
  <2>2. (a \o m) \o body = a \o (m \o body)
    <3>. HIDE DEF m
    <3>1. Cat(Cat(a, m), body) = Cat(a, Cat(m, body))
      BY <1>3, <2>1, Concatenated
    <3>. QED BY <3>1 DEF Cat
  <2>3. (a \o m) \o body \in Seq(NamePieces)
    <3>. HIDE DEF m
    <3>. QED BY <1>3, <2>1, ConcatProperties
  <2>4. Token(a \o (m \o body), d) = [tok |-> a, rest |-> body]
    <3>. HIDE DEF d
    <3>. QED BY <1>2, <1>3, <1>5, <2>1, TokenReads
  <2>. QED BY <2>2, <2>3, <2>4
<1>6. CASE p
  <2>. DEFINE a == <<"public">>
  <2>1. a \in Seq(TokenPieces) /\ a # <<>> /\ a[1] = "public" /\ w = <<>> /\ p = TRUE
    BY <1>0, <1>6 DEF TokenPieces, NamePieces
  <2>2. ScopeText(p, w) = <<"public", ":">> /\ <<"public", ":">> = a \o <<d>>
    BY <1>6 DEF ScopeText
  <2>3. text = (a \o <<d>>) \o body
    BY <1>00, <2>2
  <2>4. text \in Seq(NamePieces) /\ t = [tok |-> a, rest |-> body]
    <3>. HIDE DEF a, body, d
    <3>. QED BY <1>00, <1>5, <2>1, <2>3
  <2>5. t.tok = a /\ t.rest = body
    <3>. HIDE DEF a, body
    <3>. QED BY <2>4
  <2>6. u.tok = body
    <3>. HIDE DEF a, body
    <3>. QED BY <1>4, <2>5
  <2>7. StartsWith(t.tok, "public")
    <3>. HIDE DEF a, body
    <3>. QED BY <2>1, <2>5 DEF StartsWith
  <2>8. ReadScope(t, k) = ReadName(u, [k EXCEPT !.public = all])
    <3>. HIDE DEF k, body
    <3>. QED BY <2>7 DEF ReadScope
  <2>9. [k EXCEPT !.public = all] = NameKey(c, all, e, e, e, e)
    <3>. HIDE DEF none, all, e
    <3>. QED BY DEF NameKey
  <2>10. ReadName(u, NameKey(c, all, e, e, e, e)) = NameKey(c, all, w, x, n, b)
    <3>1. ReadName(u, NameKey(c, all, w, e, e, e)) = NameKey(c, all, w, x, n, b)
      <4>. HIDE DEF u, all
      <4>. QED BY <2>6, <1>0, NameReadBack
    <3>. QED BY <2>1, <3>1
  <2>11. ReadScope(t, k) = NameKey(c, p, w, x, n, b)
    <3>. HIDE DEF u, k, e
    <3>. QED BY <2>1, <2>8, <2>9, <2>10
  <2>12. t.tok # <<>> /\ t.tok[1] = "public"
    <3>. HIDE DEF a
    <3>. QED BY <1>6, <2>1, <2>5
  <2>. QED BY <1>6, <2>4, <2>11, <2>12
<1>7. CASE ~p /\ w # <<>>
  <2>1. w[1] = "@" /\ p = FALSE
    BY <1>0, <1>7
  <2>2. ScopeText(p, w) = w \o <<d>>
    BY <1>7 DEF ScopeText
  <2>3. text = (w \o <<d>>) \o body
    BY <1>00, <2>2
  <2>4. text \in Seq(NamePieces) /\ t = [tok |-> w, rest |-> body]
    <3>. HIDE DEF body, d
    <3>. QED BY <1>00, <1>5, <1>7, <2>3
  <2>5. t.tok = w /\ t.rest = body
    <3>. HIDE DEF body
    <3>. QED BY <2>4
  <2>6. u.tok = body
    <3>. HIDE DEF body
    <3>. QED BY <1>4, <2>5
  <2>7. ~StartsWith(t.tok, "public") /\ StartsWith(t.tok, "@")
    <3>. HIDE DEF body
    <3>. QED BY <1>7, <2>1, <2>5 DEF StartsWith
  <2>8. ReadScope(t, k) = ReadName(u, [k EXCEPT !.with = w])
    <3>. HIDE DEF k, body
    <3>. QED BY <2>5, <2>7 DEF ReadScope
  <2>9. [k EXCEPT !.with = w] = NameKey(c, none, w, e, e, e)
    <3>. HIDE DEF none, all, e
    <3>. QED BY DEF NameKey
  <2>10. ReadName(u, NameKey(c, none, w, e, e, e)) = NameKey(c, none, w, x, n, b)
    <3>. HIDE DEF u, none
    <3>. QED BY <2>6, <1>0, NameReadBack
  <2>11. ReadScope(t, k) = NameKey(c, p, w, x, n, b)
    <3>. HIDE DEF u, k, e
    <3>. QED BY <2>1, <2>8, <2>9, <2>10
  <2>12. t.tok # <<>> /\ t.tok[1] = "@"
    <3>. QED BY <1>7, <2>1, <2>5
  <2>. QED BY <1>7, <2>4, <2>11, <2>12
<1>8. CASE ~p /\ w = <<>>
  <2>1. x[1] # "public" /\ p = FALSE
    BY <1>0, <1>8
  <2>2. ScopeText(p, w) = <<>>
    BY <1>8 DEF ScopeText
  <2>3. text = body
    <3>. HIDE DEF body
    <3>. QED BY <1>00, <1>1, <2>2, ConcatEmptySeq
  <2>4. text \in Seq(NamePieces) /\ t.tok = body
    <3>. HIDE DEF body, d
    <3>. QED BY <1>00, <1>3, <1>4, <2>3
  <2>5. ~StartsWith(t.tok, "public") /\ ~StartsWith(t.tok, "@")
    <3>. HIDE DEF body
    <3>. QED BY <1>1, <2>1, <2>4 DEF StartsWith
  <2>6. ReadScope(t, k) = ReadName(t, k)
    <3>. HIDE DEF k, body
    <3>. QED BY <2>5 DEF ReadScope
  <2>7. ReadName(t, NameKey(c, none, e, e, e, e)) = NameKey(c, none, w, x, n, b)
    <3>1. ReadName(t, NameKey(c, none, w, e, e, e)) = NameKey(c, none, w, x, n, b)
      <4>. HIDE DEF none
      <4>. QED BY <2>4, <1>0, NameReadBack
    <3>. QED BY <1>8, <3>1
  <2>8. ReadScope(t, k) = NameKey(c, p, w, x, n, b)
    <3>. HIDE DEF e
    <3>. QED BY <2>1, <2>6, <2>7
  <2>9. t.tok # <<>> /\ t.tok[1] = x[1]
    <3>. HIDE DEF body
    <3>. QED BY <1>1, <1>8, <2>4
  <2>. QED BY <1>8, <2>4, <2>8, <2>9
<1>. QED BY <1>6, <1>7, <1>8

\* "cached:" or nothing in front.
CachedText(c) == IF c THEN <<"cached", ":">> ELSE <<>>

\* The text of a record's parts.
PrintedText(c, p, w, x, n, b) == CachedText(c) \o (ScopeText(p, w) \o NameText(x, n, b))

\* The text of a readable record is read as that record.
LEMMA ReadBack ==
    ASSUME NEW c \in BOOLEAN, NEW p \in BOOLEAN, NEW w \in Seq(TokenPieces), NEW x, NEW n, NEW b,
           NameParts(x, n, b), Readable(p, w, x, b), ~c /\ ~p /\ w = <<>> => x[1] # "cached"
    PROVE  AtkeyFromString(PrintedText(c, p, w, x, n, b)) = NameKey(c, p, w, x, n, b)
<1>. DEFINE d == ":"
            text == ScopeText(p, w) \o NameText(x, n, b)
            t == Token(text, d)
            full == CachedText(c) \o text
            first == Token(full, d)
<1>0. text \in Seq(NamePieces) /\ ScopeReads(p, w, x, n, b, t)
  <2>1. t = Token(ScopeText(p, w) \o NameText(x, n, b), ":")
    OBVIOUS
  <2>. HIDE DEF t
  <2>. QED BY <2>1, ScopeReadBack
<1>1. /\ text \in Seq(NamePieces) /\ t.tok # <<>>
      /\ p => t.tok[1] = "public"
      /\ ~p /\ w # <<>> => t.tok[1] = "@"
      /\ ~p /\ w = <<>> => t.tok[1] = x[1]
  <2>. HIDE DEF t
  <2>. QED BY <1>0 DEF ScopeReads
<1>2. ASSUME NEW y
      PROVE  ReadScope(t, NameKey(y, FALSE, <<>>, <<>>, <<>>, <<>>)) = NameKey(y, p, w, x, n, b)
  <2>. HIDE DEF t
  <2>. QED BY <1>0 DEF ScopeReads
<1>3. AtkeyFromString(full) = ReadCached(first)
  BY DEF AtkeyFromString
<1>6. PrintedText(c, p, w, x, n, b) = full
  BY DEF PrintedText
<1>4. CASE c
  <2>. DEFINE a == <<"cached">>
              m == <<d>>
  <2>1. /\ d \in NamePieces /\ a \in Seq(NamePieces \ {d}) /\ a \in Seq(NamePieces) /\ m \in Seq(NamePieces)
        /\ a # <<>> /\ a[1] = "cached"
    BY DEF NamePieces
  <2>2. CachedText(c) = a \o m
    BY <1>4 DEF CachedText
  <2>3. full = a \o (m \o text)
    <3>1. (a \o m) \o text = a \o (m \o text)
      <4>. HIDE DEF a, m, text
      <4>1. Cat(Cat(a, m), text) = Cat(a, Cat(m, text))
        BY <1>1, <2>1, Concatenated
      <4>. QED BY <4>1 DEF Cat
    <3>. HIDE DEF a, m, text
    <3>. QED BY <2>2, <3>1
  <2>4. first = [tok |-> a, rest |-> text]
    <3>. HIDE DEF a, text, d
    <3>1. Token(a \o (<<d>> \o text), d) = [tok |-> a, rest |-> text]
      BY <1>1, <2>1, TokenReads
    <3>. HIDE DEF full
    <3>. QED BY <2>3, <3>1
  <2>5. first.tok = a /\ first.rest = text
    <3>. HIDE DEF a, text, first
    <3>. QED BY <2>4
  <2>6. StartsWith(first.tok, "cached")
    <3>. HIDE DEF a, text, first
    <3>. QED BY <2>1, <2>5 DEF StartsWith
  <2>7. [NoAtkey EXCEPT !.ret = 0, !.cached = TRUE] = NameKey(TRUE, FALSE, <<>>, <<>>, <<>>, <<>>)
    BY CachedNameYet
  <2>8. ReadCached(first) = ReadScope(t, NameKey(TRUE, FALSE, <<>>, <<>>, <<>>, <<>>))
    <3>. HIDE DEF a, text, first
    <3>. QED BY <2>5, <2>6, <2>7 DEF ReadCached
  <2>9. c = TRUE
    BY <1>4
  <2>. HIDE DEF t, first, full
  <2>10. AtkeyFromString(full) = NameKey(c, p, w, x, n, b)
    BY <1>2, <1>3, <2>8, <2>9
  <2>. QED BY <1>6, <2>10
<1>5. CASE ~c
  <2>1. full = text
    <3>1. CachedText(c) = <<>>
      BY <1>5 DEF CachedText
    <3>. HIDE DEF text
    <3>. QED BY <1>1, <3>1, ConcatEmptySeq
  <2>2. ~StartsWith(t.tok, "cached")
    <3>1. t.tok[1] # "cached"
      <4>. HIDE DEF t
      <4>. QED BY <1>1, <1>5 DEF Readable
    <3>. HIDE DEF t
    <3>. QED BY <3>1 DEF StartsWith
  <2>3. ReadCached(t) = ReadScope(t, NameKey(FALSE, FALSE, <<>>, <<>>, <<>>, <<>>))
    <3>. HIDE DEF t
    <3>. QED BY <2>2, NoNameYet DEF ReadCached
  <2>4. c = FALSE
    BY <1>5
  <2>5. first = t
    BY <2>1
  <2>. HIDE DEF t, first, full
  <2>6. AtkeyFromString(full) = NameKey(c, p, w, x, n, b)
    BY <1>2, <1>3, <2>3, <2>4, <2>5
  <2>. QED BY <1>6, <2>6
<1>. QED BY <1>4, <1>5

\* The atSign to_string prints in front of the key: only of a key shared with another.
PrintedWith(p, w, b) == IF ~p /\ w # <<>> /\ w # b THEN w ELSE <<>>

\* What to_string prints, and that atclient_atkey_strlen counts it.
LEMMA NamePrinted ==
    ASSUME NEW c \in BOOLEAN, NEW p \in BOOLEAN, NEW w \in Seq(TokenPieces), NEW x, NEW n, NEW b,
           NameParts(x, n, b)
    PROVE  /\ AtkeyToString(NameKey(c, p, w, x, n, b)) = PrintedText(c, p, PrintedWith(p, w, b), x, n, b)
           /\ Len(AtkeyToString(NameKey(c, p, w, x, n, b))) = AtkeyStrlen(NameKey(c, p, w, x, n, b))
           /\ IsShared(NameKey(c, p, w, x, n, b)) <=> PrintedWith(p, w, b) # <<>>
<1>. DEFINE k == NameKey(c, p, w, x, n, b)
            v == PrintedWith(p, w, b)
            C == CachedText(c)
            S == ScopeText(p, v)
            N == NamespaceText(n)
            A == NamePieces
<1>0. k.public = p /\ k.with = w /\ k.by = b
  BY NameKeyFields
<1>1. IsShared(k) <=> (~p /\ w # <<>> /\ w # b)
  <2>. HIDE DEF k
  <2>. QED BY <1>0 DEF IsShared
<1>2. IsShared(k) <=> v # <<>>
  BY <1>1 DEF PrintedWith
<1>3. IsShared(k) => v = w /\ ~p
  BY <1>1 DEF PrintedWith
<1>4. /\ k.cached = c /\ k.public = p /\ k.with = w /\ k.key = x /\ k.namespace = n /\ k.by = b
  BY NameKeyFields
<1>. HIDE DEF k, v
<1>5. (IF k.cached THEN <<"cached", ":">> ELSE <<>>) = C
  BY <1>4 DEF CachedText
<1>6. (IF k.public THEN <<"public", ":">> ELSE IF IsShared(k) THEN k.with \o <<":">> ELSE <<>>) = S
  <2>1. CASE p
    BY <1>4, <2>1 DEF ScopeText
  <2>2. CASE ~p /\ IsShared(k)
    BY <1>2, <1>3, <1>4, <2>2 DEF ScopeText
  <2>3. CASE ~p /\ ~IsShared(k)
    BY <1>2, <1>4, <2>3 DEF ScopeText
  <2>. QED BY <2>1, <2>2, <2>3
<1>7. (IF k.namespace # <<>> THEN <<".">> \o k.namespace ELSE <<>>) = N
  BY <1>4 DEF NamespaceText
<1>8. /\ C \in Seq(A) /\ Len(C) = (IF c THEN 2 ELSE 0)
  <2>1. CASE c
    BY <2>1 DEF CachedText, NamePieces
  <2>2. CASE ~c
    BY <2>2 DEF CachedText
  <2>. QED BY <2>1, <2>2
<1>9. w \in Seq(A) /\ Len(w) \in Nat
  BY DEF TokenPieces
<1>10. /\ S \in Seq(A) /\ Len(S) = (IF p THEN 2 ELSE 0) + (IF IsShared(k) THEN Len(w) + 1 ELSE 0)
  <2>1. CASE p
    <3>1. S = <<"public", ":">> /\ ~IsShared(k)
      BY <1>3, <2>1 DEF ScopeText
    <3>2. <<"public", ":">> \in Seq(A) /\ Len(<<"public", ":">>) = 2
      BY DEF NamePieces
    <3>. HIDE DEF S
    <3>. QED BY <2>1, <3>1, <3>2
  <2>2. CASE ~p /\ IsShared(k)
    <3>. DEFINE m == <<":">>
    <3>1. S = w \o m
      BY <1>2, <1>3, <2>2 DEF ScopeText
    <3>2. m \in Seq(A) /\ Len(m) = 1
      BY DEF NamePieces
    <3>. HIDE DEF S, m
    <3>3. w \o m \in Seq(A) /\ Len(w \o m) = Len(w) + Len(m)
      BY <1>9, <3>2, Joined
    <3>. QED BY <1>9, <2>2, <3>1, <3>2, <3>3
  <2>3. CASE ~p /\ ~IsShared(k)
    <3>1. S = <<>>
      BY <1>2, <2>3 DEF ScopeText
    <3>. QED BY <2>3, <3>1
  <2>. QED BY <2>1, <2>2, <2>3
<1>11. x \in Seq(A) /\ n \in Seq(A) /\ b \in Seq(A) /\ Len(x) \in Nat /\ Len(n) \in Nat /\ Len(b) \in Nat
  BY DEF NameParts, TokenPieces
<1>12. N \in Seq(A) /\ Len(N) = (IF n # <<>> THEN 1 + Len(n) ELSE 0)
  <2>1. CASE n # <<>>
    <3>. DEFINE m == <<".">>
    <3>1. N = m \o n
      BY <2>1 DEF NamespaceText
    <3>2. m \in Seq(A) /\ Len(m) = 1
      BY DEF NamePieces
    <3>. HIDE DEF N, m
    <3>3. m \o n \in Seq(A) /\ Len(m \o n) = Len(m) + Len(n)
      BY <1>11, <3>2, Joined
    <3>. QED BY <2>1, <3>1, <3>2, <3>3
  <2>2. CASE n = <<>>
    <3>1. N = <<>>
      BY <2>2 DEF NamespaceText
    <3>2. N \in Seq(A) /\ Len(N) = 0
      BY <3>1, EmptySeq
    <3>. HIDE DEF N
    <3>. QED BY <2>2, <3>2
  <2>. QED BY <2>1, <2>2
<1>13. AtkeyToString(k) = (((C \o S) \o x) \o N) \o b
  <2>1. AtkeyToString(k) =
          ((((IF k.cached THEN <<"cached", ":">> ELSE <<>>)
             \o (IF k.public THEN <<"public", ":">> ELSE IF IsShared(k) THEN k.with \o <<":">> ELSE <<>>))
             \o k.key)
             \o (IF k.namespace # <<>> THEN <<".">> \o k.namespace ELSE <<>>))
             \o k.by
    BY DEF AtkeyToString
  <2>. HIDE DEF C, S, N
  <2>. QED BY <1>4, <1>5, <1>6, <1>7, <2>1
<1>14. NameText(x, n, b) = (x \o N) \o b
  BY DEF NameText
<1>. HIDE DEF C, S, N, A
<1>15. (((C \o S) \o x) \o N) \o b = C \o (S \o ((x \o N) \o b))
  <2>1. Cat(Cat(Cat(Cat(C, S), x), N), b) = Cat(C, Cat(S, Cat(Cat(x, N), b)))
    BY <1>8, <1>10, <1>11, <1>12, Regrouped
  <2>. QED BY <2>1 DEF Cat
<1>16. Len((((C \o S) \o x) \o N) \o b) = Len(C) + Len(S) + Len(x) + Len(N) + Len(b)
  <2>1. C \o S \in Seq(A) /\ Len(C \o S) = Len(C) + Len(S)
    BY <1>8, <1>10, ConcatProperties
  <2>2. (C \o S) \o x \in Seq(A) /\ Len((C \o S) \o x) = Len(C \o S) + Len(x)
    BY <1>11, <2>1, ConcatProperties
  <2>3. ((C \o S) \o x) \o N \in Seq(A) /\ Len(((C \o S) \o x) \o N) = Len((C \o S) \o x) + Len(N)
    BY <1>12, <2>2, ConcatProperties
  <2>4. Len((((C \o S) \o x) \o N) \o b) = Len(((C \o S) \o x) \o N) + Len(b)
    BY <1>11, <2>3, ConcatProperties
  <2>. QED BY <2>1, <2>2, <2>3, <2>4
<1>17. AtkeyStrlen(k) = (IF c THEN 2 ELSE 0) + (IF p THEN 2 ELSE 0)
          + (IF IsShared(k) THEN Len(w) + 1 ELSE 0)
          + Len(x) + (IF n # <<>> THEN 1 + Len(n) ELSE 0) + Len(b)
  BY <1>4 DEF AtkeyStrlen
<1>18. Len(AtkeyToString(k)) = AtkeyStrlen(k)
  <2>. DEFINE lc == IF c THEN 2 ELSE 0
              lp == IF p THEN 2 ELSE 0
              lw == IF IsShared(k) THEN Len(w) + 1 ELSE 0
              ln == IF n # <<>> THEN 1 + Len(n) ELSE 0
              lx == Len(x)
              lb == Len(b)
  <2>1. lc \in Nat /\ lp \in Nat /\ lw \in Nat /\ ln \in Nat /\ lx \in Nat /\ lb \in Nat
    BY <1>9, <1>11
  <2>2. AtkeyStrlen(k) = lc + lp + lw + lx + ln + lb
    BY <1>17
  <2>3. Len(AtkeyToString(k)) = lc + (lp + lw) + lx + ln + lb
    <3>1. Len(AtkeyToString(k)) = Len(C) + Len(S) + Len(x) + Len(N) + Len(b)
      BY <1>13, <1>16
    <3>2. Len(C) = lc /\ Len(S) = lp + lw /\ Len(N) = ln
      BY <1>8, <1>10, <1>12
    <3>. HIDE DEF lc, lp, lw, ln
    <3>. QED BY <3>1, <3>2
  <2>. HIDE DEF lc, lp, lw, ln, lx, lb
  <2>. QED BY <2>1, <2>2, <2>3
<1>19. AtkeyToString(k) = PrintedText(c, p, v, x, n, b)
  <2>1. AtkeyToString(k) = C \o (S \o NameText(x, n, b))
    BY <1>13, <1>14, <1>15
  <2>. QED BY <2>1 DEF PrintedText, C, S
<1>. QED BY <1>2, <1>18, <1>19 DEF k, v

\* A record the parser gave is printed into its length, and read back unless it is one of the odd ones.
LEMMA RecordPrints ==
    ASSUME NEW c \in BOOLEAN, NEW p \in BOOLEAN, NEW w \in Seq(TokenPieces), NEW x, NEW n, NEW b,
           NameParts(x, n, b), w # <<>> => w[1] = "@" /\ ~p
    PROVE  PrintsAs(NameKey(c, p, w, x, n, b))
<1>. DEFINE k == NameKey(c, p, w, x, n, b)
            v == PrintedWith(p, w, b)
            k2 == NameKey(c, p, v, x, n, b)
            text == PrintedText(c, p, v, x, n, b)
<1>1. AtkeyToString(k) = text /\ Len(AtkeyToString(k)) = AtkeyStrlen(k) /\ (IsShared(k) <=> v # <<>>)
  BY NamePrinted
<1>2. v \in Seq(TokenPieces) /\ PrintedWith(p, v, b) = v /\ (v # <<>> => v = w)
  <2>1. v = w \/ v = <<>>
    BY DEF PrintedWith
  <2>2. CASE v = <<>>
    BY <2>2, EmptySeq DEF PrintedWith
  <2>3. CASE v # <<>>
    BY <2>1, <2>3 DEF PrintedWith
  <2>. QED BY <2>2, <2>3
<1>. HIDE DEF v
<1>3. AtkeyToString(k2) = text
  <2>1. AtkeyToString(k2) = PrintedText(c, p, PrintedWith(p, v, b), x, n, b)
    BY <1>2, NamePrinted
  <2>. QED BY <1>2, <2>1
<1>4. k.cached = c /\ k.public = p /\ k.key = x /\ k.by = b
  BY NameKeyFields
<1>5. k2.ret = 0
  BY NameKeyFields
<1>6. Len(b) \in Nat /\ Len(b) > 0
  BY DEF NameParts
<1>7. ASSUME ~Misread(k)
      PROVE  AtkeyFromString(text) = k2
  <2>1. Len(k.by) # 1 /\ k.by[2] # "@"
    BY <1>7 DEF Misread
  <2>2. Len(b) > 1 /\ b[2] # "@"
    <3>1. Len(b) # 1 /\ b[2] # "@"
      <4>. HIDE DEF k
      <4>. QED BY <1>4, <2>1
    <3>2. Len(b) > 1
      <4>. DEFINE l == Len(b)
      <4>1. l \in Nat /\ l > 0 /\ l # 1
        BY <1>6, <3>1
      <4>. HIDE DEF l
      <4>2. l > 1
        BY <4>1
      <4>. QED BY <4>2 DEF l
    <3>. QED BY <3>1, <3>2
  <2>3. ~p /\ v = <<>> => x[1] # "public" /\ (c \/ x[1] # "cached")
    <3>1. PlainSelfKey(k) => k.key[1] # "public" /\ (k.cached \/ k.key[1] # "cached")
      BY <1>7 DEF Misread
    <3>. HIDE DEF k
    <3>2. ~p /\ v = <<>> => PlainSelfKey(k)
      BY <1>1, <1>4 DEF PlainSelfKey
    <3>. QED BY <1>4, <3>1, <3>2
  <2>4. Readable(p, v, x, b)
    BY <1>2, <2>2, <2>3 DEF Readable
  <2>5. ~c /\ ~p /\ v = <<>> => x[1] # "cached"
    BY <2>3
  <2>. HIDE DEF k
  <2>. QED BY <1>2, <2>4, <2>5, ReadBack
<1>. HIDE DEF k, k2, text
<1>8. PrintsAs(k)
  BY <1>1, <1>3, <1>5, <1>7 DEF PrintsAs
<1>. QED BY <1>8 DEF k

\* The words a name is made of.
LEMMA WordPieces ==
    /\ "@" \notin Words /\ ":" \notin Words /\ "." \notin Words
    /\ Words \subseteq (TokenPieces \ {"@"}) \ {"."}
BY NameSteps DEF NamePieces, TokenPieces

\* A well formed name is read, and printed as it was.
LEMMA WellFormedReadBack ==
    ASSUME NEW s, WellFormed(s)
    PROVE  AtkeyFromString(s).ret = 0 /\ AtkeyToString(AtkeyFromString(s)) = s
<1>1. PICK cached \in {<<>>, <<"cached", ":">>}, key, by \in Words :
      \E scope \in {<<>>, <<"public", ":">>} \cup {<<"@", w, ":">> : w \in Words \ {by}},
         namespace \in {<<>>} \cup {<<".", w>> : w \in Words} :
          /\ s = cached \o scope \o <<key>> \o namespace \o <<"@", by>>
          /\ scope = <<>> => key \notin {"cached", "public"}
  BY DEF WellFormed
<1>2. PICK scope \in {<<>>, <<"public", ":">>} \cup {<<"@", w, ":">> : w \in Words \ {by}},
           namespace \in {<<>>} \cup {<<".", w>> : w \in Words} :
          /\ s = cached \o scope \o <<key>> \o namespace \o <<"@", by>>
          /\ scope = <<>> => key \notin {"cached", "public"}
  BY <1>1
<1>. DEFINE c == cached # <<>>
            p == scope = <<"public", ":">>
            b == <<"@", by>>
            x == <<key>>
            T == TokenPieces \ {"@"}
<1>3. c \in BOOLEAN /\ cached = CachedText(c)
  BY DEF CachedText
<1>4. p \in BOOLEAN
  OBVIOUS
<1>5. PICK w \in Seq(TokenPieces) :
        /\ scope = ScopeText(p, w)
        /\ w # <<>> => w[1] = "@" /\ ~p /\ w # b
        /\ ~p /\ w = <<>> => scope = <<>>
  <2>1. CASE scope = <<>>
    <3>1. scope = ScopeText(p, <<>>) /\ ~p
      BY <2>1 DEF ScopeText
    <3>. QED BY <2>1, <3>1, EmptySeq
  <2>2. CASE scope = <<"public", ":">>
    <3>1. scope = ScopeText(p, <<>>) /\ p
      BY <2>2 DEF ScopeText
    <3>. QED BY <2>2, <3>1, EmptySeq
  <2>3. CASE scope \in {<<"@", w, ":">> : w \in Words \ {by}}
    <3>1. PICK v \in Words \ {by} : scope = <<"@", v, ":">>
      BY <2>3
    <3>. DEFINE w == <<"@", v>>
    <3>2. w \in Seq(TokenPieces)
      BY Delimiters, WordPieces
    <3>3. w # <<>> /\ w[1] = "@" /\ w # b
      OBVIOUS
    <3>4. ~p
      BY <3>1
    <3>5. scope = w \o <<":">>
      BY <3>1
    <3>6. scope = ScopeText(p, w)
      BY <3>3, <3>4, <3>5 DEF ScopeText
    <3>. HIDE DEF w, p
    <3>. QED BY <3>2, <3>3, <3>4, <3>6
  <2>. QED BY <1>2, <2>1, <2>2, <2>3
<1>6. PICK n \in Seq(T) : namespace = NamespaceText(n)
  <2>1. CASE namespace = <<>>
    <3>1. namespace = NamespaceText(<<>>)
      BY <2>1 DEF NamespaceText
    <3>. QED BY <3>1, EmptySeq
  <2>2. CASE namespace \in {<<".", v>> : v \in Words}
    <3>1. PICK v \in Words : namespace = <<".", v>>
      BY <2>2
    <3>. DEFINE n == <<v>>
    <3>2. n \in Seq(T) /\ n # <<>>
      BY WordPieces
    <3>3. namespace = <<".">> \o n
      BY <3>1
    <3>4. namespace = NamespaceText(n)
      BY <3>2, <3>3 DEF NamespaceText
    <3>. HIDE DEF n
    <3>. QED BY <3>2, <3>4
  <2>. QED BY <1>2, <2>1, <2>2
<1>7. NameParts(x, n, b)
  <2>1. x \in Seq(T) /\ x \in Seq(T \ {"."}) /\ x # <<>> /\ Len(x) = 1
    BY WordPieces
  <2>2. b \in Seq(TokenPieces) /\ Len(b) = 2 /\ b[1] = "@"
    BY Delimiters, WordPieces
  <2>3. \A i \in 1..(Len(x) - 1) : x[i] # "."
    <3>. HIDE DEF x
    <3>. QED BY <2>1
  <2>. HIDE DEF x, b
  <2>. QED BY <2>1, <2>2, <2>3 DEF NameParts
<1>8. Len(b) > 1 /\ b[2] = by /\ by # "@" /\ x[1] = key
  BY WordPieces
<1>9. ~p /\ w = <<>> => x[1] # "public" /\ x[1] # "cached"
  <2>. HIDE DEF p, x
  <2>. QED BY <1>2, <1>5, <1>8
<1>10. Readable(p, w, x, b)
  <2>. HIDE DEF p, x, b
  <2>. QED BY <1>5, <1>8, <1>9 DEF Readable
<1>11. PrintedWith(p, w, b) = w
  <2>. HIDE DEF p, b
  <2>. QED BY <1>5 DEF PrintedWith
<1>12. s = cached \o (scope \o ((x \o namespace) \o b))
  <2>. DEFINE A == NamePieces
  <2>1. cached \in Seq(A)
    <3>1. <<"cached", ":">> \in Seq(A)
      BY DEF NamePieces
    <3>. HIDE DEF A
    <3>. QED BY <3>1, EmptySeq
  <2>2. /\ x \in Seq(A) /\ b \in Seq(A) /\ n \in Seq(A) /\ w \in Seq(A)
        /\ <<".">> \in Seq(A) /\ <<":">> \in Seq(A) /\ <<"public", ":">> \in Seq(A)
    BY DEF NamePieces, TokenPieces
  <2>3. scope \in Seq(A)
    <3>. HIDE DEF A, p
    <3>. QED BY <1>5, <2>2, EmptySeq, ConcatProperties DEF ScopeText
  <2>4. namespace \in Seq(A)
    <3>. HIDE DEF A
    <3>. QED BY <1>6, <2>2, EmptySeq, ConcatProperties DEF NamespaceText
  <2>. HIDE DEF A, x, b
  <2>5. s = (((cached \o scope) \o x) \o namespace) \o b
    BY <1>2 DEF x, b
  <2>6. Cat(Cat(Cat(Cat(cached, scope), x), namespace), b)
          = Cat(cached, Cat(scope, Cat(Cat(x, namespace), b)))
    BY <2>1, <2>2, <2>3, <2>4, Regrouped
  <2>. QED BY <2>5, <2>6 DEF Cat
<1>13. s = PrintedText(c, p, w, x, n, b)
  <2>. HIDE DEF c, p, x, b
  <2>. QED BY <1>3, <1>5, <1>6, <1>12 DEF NameText, PrintedText
<1>. DEFINE k == NameKey(c, p, w, x, n, b)
<1>14. AtkeyFromString(s) = k
  <2>1. ~c /\ ~p /\ w = <<>> => x[1] # "cached"
    BY <1>9
  <2>. HIDE DEF c, p, x, b
  <2>. QED BY <1>3, <1>4, <1>7, <1>10, <1>13, <2>1, ReadBack
<1>15. AtkeyToString(k) = s /\ k.ret = 0
  <2>. HIDE DEF c, p, x, b
  <2>1. AtkeyToString(k) = PrintedText(c, p, PrintedWith(p, w, b), x, n, b)
    BY <1>3, <1>4, <1>7, NamePrinted
  <2>2. k.ret = 0
    BY NameKeyFields
  <2>. HIDE DEF k
  <2>. QED BY <1>11, <1>13, <2>1, <2>2
<1>. HIDE DEF k
<1>. QED BY <1>14, <1>15

\* Every name of the pieces comes back as KeyTextRoundTrip says.
LEMMA NameComesBack ==
    ASSUME name \in Seq(NamePieces)
    PROVE  KeyTextRoundTrip
<1>. DEFINE k == AtkeyFromString(name)
<1>1. k.ret = 0 => PrintsAs(k)
  <2>1. PICK c \in BOOLEAN : Scoped(k, c)
    BY NameParsed
  <2>. HIDE DEF k
  <2>2. ASSUME k.ret = 0
        PROVE  PrintsAs(k)
    <3>1. PICK p \in BOOLEAN, w \in Seq(TokenPieces) : \E x, n, b :
              /\ NameParts(x, n, b)
              /\ w # <<>> => w[1] = "@" /\ ~p
              /\ k = NameKey(c, p, w, x, n, b)
      BY <2>1, <2>2 DEF Scoped
    <3>2. PICK x, n, b :
              /\ NameParts(x, n, b)
              /\ w # <<>> => w[1] = "@" /\ ~p
              /\ k = NameKey(c, p, w, x, n, b)
      BY <3>1
    <3>3. PrintsAs(NameKey(c, p, w, x, n, b))
      BY <3>2, RecordPrints
    <3>. QED BY <3>2, <3>3
  <2>. QED BY <2>2
<1>2. WellFormed(name) => k.ret = 0 /\ AtkeyToString(k) = name
  BY WellFormedReadBack
<1>. QED BY <1>1, <1>2 DEF KeyTextRoundTrip

\* A name grows by pieces only.
LEMMA NameStep ==
    ASSUME name \in Seq(NamePieces), NameNext
    PROVE  name' \in Seq(NamePieces)
<1>1. PICK s \in Steps : NameGrows(s)
  BY DEF NameNext
<1>2. s \in Seq(NamePieces)
  BY NameSteps
<1>. QED BY <1>1, <1>2, ConcatProperties DEF NameGrows
=============================================================================
