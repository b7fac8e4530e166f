---------------------------- MODULE WireText_proofs ----------------------------
(***************************************************************************)
(* Proofs about the texts, for any alphabet, any length and any order of   *)
(* their pieces: both readers of an atServer's line take it apart at the   *)
(* same places, the address of an atServer is read or refused, an atKey is *)
(* printed as it was read, the metadata of a command fills its buffer and  *)
(* no more, a stored value is decrypted with the IV it is under, and an    *)
(* answer of RPC finds its request.                                        *)
(***************************************************************************)
EXTENDS WireText, AtkeyText_proofs, FiniteSetTheorems

-----------------------------------------------------------------------------
(* Lemmas about searches in a sequence                                     *)

\* A non-empty set of numbers up to n has a greatest element.
LEMMA GreatestOf ==
    ASSUME NEW n \in Nat, NEW S \in SUBSET (1..n), S # {}
    PROVE  Max(S) \in S /\ \A y \in S : y <= Max(S)
<1>. DEFINE T == {n - i : i \in S}
<1>1. T \in SUBSET Nat /\ T # {}
  <2>1. \A i \in S : n - i \in Nat
    OBVIOUS
  <2>2. PICK i \in S : TRUE
    OBVIOUS
  <2>3. n - i \in T
    BY <2>2
  <2>. QED BY <2>1, <2>3
<1>2. PICK x \in S : \A y \in S : n - x <= n - y
  <2>1. \E m \in T : \A k \in T : m <= k
    <3>. HIDE DEF T
    <3>. QED BY <1>1, LeastOf
  <2>. QED BY <2>1
<1>3. x \in 1..n /\ \A y \in S : y \in 1..n /\ x >= y
  BY <1>2
<1>4. Max(S) \in S /\ \A y \in S : Max(S) >= y
  BY <1>3 DEF Max
<1>. QED BY <1>4

\* First finds the first c from the second element on, or gives 0.
LEMMA FirstFinds ==
    ASSUME NEW A, NEW s \in Seq(A), NEW c
    PROVE  LET k == First(s, 2, c)
           IN  \/ k = 0 /\ \A i \in 2..Len(s) : s[i] # c
               \/ k \in 2..Len(s) /\ s[k] = c /\ \A i \in 2..(k - 1) : s[i] # c
<1>. DEFINE I == {i \in 2..Len(s) : s[i] = c}
<1>1. First(s, 2, c) = IF I # {} THEN Min(I) ELSE 0
  BY DEF First, SelectInSubSeq
<1>2. I \in SUBSET Nat
  OBVIOUS
<1>3. I # {} => Min(I) \in I /\ \A y \in I : Min(I) <= y
  BY <1>2, LeastOf
<1>. QED BY <1>1, <1>3

\* LastBefore finds the last c before an index, or gives 0.
LEMMA LastFinds ==
    ASSUME NEW s, NEW to \in Nat, NEW c
    PROVE  LET k == LastBefore(s, to, c)
           IN  \/ k = 0 /\ \A i \in 1..(to - 1) : s[i] # c
               \/ k \in 1..(to - 1) /\ s[k] = c /\ \A i \in (k + 1)..(to - 1) : s[i] # c
<1>. DEFINE I == {i \in 1..(to - 1) : s[i] = c}
<1>1. LastBefore(s, to, c) = IF I # {} THEN Max(I) ELSE 0
  BY DEF LastBefore, SelectLastInSubSeq
<1>2. I \in SUBSET (1..to)
  OBVIOUS
<1>3. I # {} => Max(I) \in I /\ \A y \in I : y <= Max(I)
  BY <1>2, GreatestOf
<1>. QED BY <1>1, <1>3

\* What follows an index does not change what is found before it.
LEMMA LastSame ==
    ASSUME NEW s, NEW t, NEW to \in Nat, NEW c, \A i \in 1..(to - 1) : s[i] = t[i]
    PROVE  LastBefore(s, to, c) = LastBefore(t, to, c)
<1>1. {i \in 1..(to - 1) : s[i] = c} = {i \in 1..(to - 1) : t[i] = c}
  OBVIOUS
<1>. QED BY <1>1 DEF LastBefore, SelectLastInSubSeq

\* A sequence that goes on without another c has its first c where its beginning has it.
LEMMA FirstSame ==
    ASSUME NEW A, NEW s \in Seq(A), NEW n \in 0..Len(s), NEW c,
           \A i \in (n + 1)..Len(s) : s[i] # c
    PROVE  First(SubSeq(s, 1, n), 2, c) = First(s, 2, c)
<1>. DEFINE t == SubSeq(s, 1, n)
<1>1. Len(t) = n /\ \A i \in 1..n : t[i] = s[i]
  BY SubSeqProperties
<1>2. {i \in 2..Len(t) : t[i] = c} = {i \in 2..Len(s) : s[i] = c}
  BY <1>1
<1>. QED BY <1>2 DEF First, SelectInSubSeq

-----------------------------------------------------------------------------
(* Lemmas about recursion over the numbers up to N                         *)

\* What holds at 0 and passes from each number to the next holds up to N.
LEMMA UpTo ==
    ASSUME NEW N \in Nat, NEW P \in SUBSET (0..N), 0 \in P,
           \A n \in 1..N : n - 1 \in P => n \in P
    PROVE  \A n \in 0..N : n \in P
<1>. SUFFICES ASSUME NEW k \in 0..N, k \notin P
              PROVE  FALSE
  OBVIOUS
<1>. DEFINE T == {n \in 0..N : n \notin P}
            m == Min(T)
<1>1. m \in T /\ \A n \in T : m <= n
  <2>1. T \in SUBSET Nat /\ T # {}
    OBVIOUS
  <2>. HIDE DEF T
  <2>. QED BY <2>1, LeastOf
<1>. HIDE DEF m
<1>2. m \in 1..N
  BY <1>1
<1>3. m - 1 \in P
  BY <1>1, <1>2
<1>. QED BY <1>1, <1>2, <1>3

\* The step of a recursion over the numbers up to N, and what it defines.
StepsIn(N, S) == [1..N -> [S -> S]]
Solves(g, N, b, step) == g[0] = b /\ \A n \in 1..N : g[n] = step[n][g[n - 1]]

\* A recursion over the numbers up to N has a solution.
LEMMA Recursion ==
    ASSUME NEW N \in Nat, NEW S, NEW b \in S, NEW step \in StepsIn(N, S)
    PROVE  \E g : g \in [0..N -> S] /\ Solves(g, N, b, step)
<1>. DEFINE P == {k \in 0..N : \E g \in [0..k -> S] : Solves(g, k, b, step)}
<1>0. \A k \in 1..N : \A x \in S : step[k][x] \in S
  BY DEF StepsIn
<1>1. 0 \in P
  <2>. DEFINE g == [n \in 0..0 |-> b]
  <2>1. g \in [0..0 -> S] /\ g[0] = b
    OBVIOUS
  <2>. HIDE DEF g
  <2>2. Solves(g, 0, b, step)
    BY <2>1 DEF Solves
  <2>. QED BY <2>1, <2>2
<1>2. ASSUME NEW k \in 1..N, k - 1 \in P
      PROVE  k \in P
  <2>1. PICK g \in [0..(k - 1) -> S] : Solves(g, k - 1, b, step)
    BY <1>2
  <2>. DEFINE h == [n \in 0..k |-> IF n = k THEN step[k][g[k - 1]] ELSE g[n]]
  <2>2. k - 1 \in 0..(k - 1) /\ g[k - 1] \in S
    OBVIOUS
  <2>3. step[k][g[k - 1]] \in S
    BY <1>0, <2>2
  <2>4. h \in [0..k -> S]
    BY <2>3
  <2>5. h[0] = b
    BY <2>1 DEF Solves
  <2>6. ASSUME NEW n \in 1..k
        PROVE  h[n] = step[n][h[n - 1]]
    <3>1. h[n - 1] = g[n - 1]
      OBVIOUS
    <3>2. CASE n = k
      <4>1. h[n] = step[k][g[k - 1]]
        BY <3>2
      <4>. HIDE DEF h
      <4>. QED BY <3>1, <3>2, <4>1
    <3>3. CASE n # k
      <4>1. n \in 1..(k - 1) /\ h[n] = g[n]
        BY <3>3
      <4>. QED BY <2>1, <3>1, <4>1 DEF Solves
    <3>. QED BY <3>2, <3>3
  <2>7. Solves(h, k, b, step)
    BY <2>5, <2>6 DEF Solves
  <2>8. k \in 0..N
    OBVIOUS
  <2>. HIDE DEF h
  <2>. QED BY <2>4, <2>7, <2>8
<1>3. N \in P
  <2>1. P \in SUBSET (0..N) /\ N \in 0..N
    OBVIOUS
  <2>. HIDE DEF P
  <2>. QED BY <1>1, <1>2, <2>1, UpTo
<1>. QED BY <1>3

\* A function stays in a set in which each of its values follows from the one before.
LEMMA StaysIn ==
    ASSUME NEW N \in Nat, NEW S, NEW f, f = [n \in 0..N |-> f[n]],
           f[0] \in S, \A n \in 1..N : f[n - 1] \in S => f[n] \in S
    PROVE  f \in [0..N -> S]
<1>. DEFINE P == {n \in 0..N : f[n] \in S}
<1>1. 0 \in P /\ P \in SUBSET (0..N)
  OBVIOUS
<1>2. \A n \in 1..N : n - 1 \in P => n \in P
  OBVIOUS
<1>3. \A n \in 0..N : n \in P
  <2>. HIDE DEF P
  <2>. QED BY <1>1, <1>2, UpTo
<1>4. \A n \in 0..N : f[n] \in S
  BY <1>3
<1>. QED BY <1>4

-----------------------------------------------------------------------------
(* The two readers of a line                                               *)

LinePieces == Pieces \cup {"\r", "\n"}

\* what the atDirectory's answer is made of
AnswerPieces == Pieces \cup Digits \cup {"\r", "\n", " ", "+"}

\* What is cut off a line in the end is its end.
LEMMA ChoppedFacts ==
    ASSUME NEW A, NEW s \in Seq(A), Terminated(s)
    PROVE  \E k \in 0..(Len(s) - 1) :
              /\ Chopped(s) = SubSeq(s, 1, k)
              /\ \A i \in (k + 1)..Len(s) : s[i] \in {"\r", "\n"}
<1>1. Len(s) \in Nat /\ Len(s) > 0 /\ s[Len(s)] = "\n"
  BY EmptySeq DEF Terminated, Last
<1>. DEFINE returned == Len(s) > 1 /\ s[Len(s) - 1] = "\r"
<1>2. CASE returned
  <2>1. Chopped(s) = SubSeq(s, 1, Len(s) - 2)
    BY <1>2 DEF Chopped
  <2>2. Len(s) - 2 \in 0..(Len(s) - 1)
    BY <1>1, <1>2
  <2>3. \A i \in (Len(s) - 2 + 1)..Len(s) : i = Len(s) - 1 \/ i = Len(s)
    BY <1>1
  <2>. QED BY <1>1, <1>2, <2>1, <2>2, <2>3
<1>3. CASE ~returned
  <2>1. Chopped(s) = SubSeq(s, 1, Len(s) - 1)
    BY <1>3 DEF Chopped
  <2>2. Len(s) - 1 \in 0..(Len(s) - 1)
    BY <1>1
  <2>3. \A i \in (Len(s) - 1 + 1)..Len(s) : i = Len(s)
    BY <1>1
  <2>. QED BY <1>1, <2>1, <2>2, <2>3
<1>. QED BY <1>2, <1>3

\* The two readers of a line, however long it is, take it apart at the same places.
LEMMA ReadersAgree ==
    ASSUME line \in Seq(LinePieces)
    PROVE  PromptsAgree
<1>. SUFFICES ASSUME Terminated(line)
              PROVE  PromptsAgree
  BY DEF PromptsAgree
<1>. DEFINE n == Len(line)
            text == Chopped(line)
            colon == First(line, 2, ":")
            back == LastBefore(line, colon, "@")
            prompt == IF line[1] = "@" THEN back ELSE 0
            null == Begins(line, <<"@", "null">>)
            m == MessageParse(line)
            past == PastAtPrompt(line)
<1>1. n \in Nat /\ n > 0
  BY EmptySeq DEF Terminated
<1>2. PICK k \in 0..(n - 1) : /\ text = SubSeq(line, 1, k)
                             /\ \A i \in (k + 1)..n : line[i] \in {"\r", "\n"}
  BY ChoppedFacts
<1>3. Len(text) = k /\ \A i \in 1..k : text[i] = line[i]
  <2>1. \A i \in 1..k : 1 + i - 1 = i
    BY <1>1
  <2>. QED BY <1>1, <1>2, <2>1, SubSeqProperties
<1>4. text = <<>> <=> k = 0
  BY <1>1, <1>2, <1>3, EmptySeq, SubSeqProperties
<1>5. First(text, 2, ":") = colon
  <2>1. \A i \in (k + 1)..n : line[i] # ":"
    BY <1>2
  <2>. QED BY <1>1, <1>2, <2>1, FirstSame
<1>6. \/ colon = 0
      \/ colon \in 2..k /\ line[colon] = ":"
  BY <1>1, <1>2, FirstFinds
<1>7. colon # 0 => LastBefore(text, colon, "@") = back
  <2>1. colon # 0 => colon \in Nat /\ \A i \in 1..(colon - 1) : text[i] = line[i]
    BY <1>1, <1>3, <1>6
  <2>. QED BY <2>1, LastSame
<1>8. colon # 0 =>
         \/ back = 0 /\ \A i \in 1..(colon - 1) : line[i] # "@"
         \/ /\ back \in 1..(colon - 1) /\ line[back] = "@"
            /\ \A i \in (back + 1)..(colon - 1) : line[i] # "@"
  BY <1>1, <1>6, LastFinds
<1>9. m = IF \/ colon = 0 \/ k = 0
            \/ prompt > PartLenMax \/ colon - prompt > PartLenMax
          THEN EmptyMessage
          ELSE [prompt |-> prompt, token |-> colon - prompt, text |-> text]
  <2>1. k # 0 => text[1] = line[1]
    BY <1>1, <1>3
  <2>. HIDE DEF text, colon, back, null, past
  <2>. QED BY <1>4, <1>5, <1>7, <2>1 DEF MessageParse, text, colon
<1>10. past = IF line[1] # "@" THEN 0 ELSE IF null THEN 1 ELSE IF colon = 0 THEN -1 ELSE back
  BY DEF PastAtPrompt
<1>11. past = -1 => m = EmptyMessage
  BY <1>6, <1>8, <1>9, <1>10
<1>12. ASSUME m # EmptyMessage
       PROVE  /\ m.token > 0 /\ m.text[m.prompt + m.token] = ":"
              /\ m.prompt > 0 => m.text[m.prompt] = "@"
              /\ \A i \in (m.prompt + 1) .. (m.prompt + m.token - 1) :
                     m.text[i] # "@" \/ m.prompt = 0
              /\ Begins(line, m.text)
              /\ ~null => past = m.prompt
  <2>1. /\ m.prompt = prompt /\ m.token = colon - prompt /\ m.text = text
        /\ colon \in 2..k /\ line[colon] = ":"
    BY <1>6, <1>9, <1>12
  <2>2. /\ prompt \in 0..(colon - 1)
        /\ prompt > 0 => line[prompt] = "@"
        /\ prompt > 0 => \A i \in (prompt + 1)..(colon - 1) : line[i] # "@"
    BY <1>8, <2>1
  <2>3. Begins(line, text)
    <3>1. SubSeq(text, 1, k) = SubSeq(line, 1, k)
      BY <1>1, <1>2, <1>3, SubSeqProperties, SubSeqFull
    <3>. QED BY <1>1, <1>3, <3>1 DEF Begins, IsPrefix
  <2>4. prompt + (colon - prompt) = colon /\ colon - prompt > 0
    BY <2>1, <2>2
  <2>5. text[colon] = ":"
    BY <1>3, <2>1
  <2>6. prompt > 0 => text[prompt] = "@"
    <3>1. prompt > 0 => prompt \in 1..k
      BY <2>1, <2>2
    <3>. QED BY <1>3, <2>2, <3>1
  <2>7. prompt > 0 => \A i \in (prompt + 1)..(colon - 1) : text[i] # "@"
    <3>1. \A i \in (prompt + 1)..(colon - 1) : i \in 1..k
      BY <2>1, <2>2
    <3>. QED BY <1>3, <2>2, <3>1
  <2>8. ~null => past = prompt
    BY <1>10, <2>1
  <2>. HIDE DEF m, prompt, text, colon, null, past
  <2>. QED BY <2>1, <2>2, <2>3, <2>4, <2>5, <2>6, <2>7, <2>8
<1>13. ASSUME m = EmptyMessage, n <= PartLenMax, line[1] = "@", n > 1
       PROVE  past = -1 \/ null
  <2>1. k # 0
    <3>1. line[1] \notin {"\r", "\n"}
      BY <1>13
    <3>. QED BY <1>1, <1>2, <3>1
  <2>2. ASSUME colon # 0
        PROVE  FALSE
    <3>1. prompt \in 0..(colon - 1) /\ colon \in 2..k
      BY <1>6, <1>8, <2>2
    <3>2. ~(prompt > PartLenMax) /\ ~(colon - prompt > PartLenMax)
      BY <1>1, <1>13, <3>1, LineBounds
    <3>3. m.text = text
      BY <1>9, <2>1, <2>2, <3>2
    <3>. QED BY <1>4, <1>13, <2>1, <3>3 DEF EmptyMessage
  <2>. QED BY <1>10, <1>13, <2>2
<1>. HIDE DEF m, past
<1>. QED BY <1>11, <1>12, <1>13 DEF PromptsAgree, m, past

-----------------------------------------------------------------------------
(* The address the atDirectory answers                                     *)

\* A number of digits is a number.
LEMMA NumberNat ==
    ASSUME NEW s \in Seq(Digits)
    PROVE  Number(s) \in Nat
<1>. DEFINE N == Len(s)
            next(n, x) == IF x > PortMax THEN x ELSE x * DigitWeight[s[n]] + DigitValue[s[n]]
            step == [n \in 1..N |-> [x \in Nat |-> next(n, x)]]
            Eq(f) == f = [n \in 0..N |-> IF n = 0 THEN 0 ELSE next(n, f[n - 1])]
            number == CHOOSE f : Eq(f)
<1>1. N \in Nat /\ \A n \in 1..N : s[n] \in Digits
  OBVIOUS
<1>2. \A n \in 1..N : \A x \in Nat : next(n, x) \in Nat
  <2>1. \A n \in 1..N : DigitWeight[s[n]] \in Nat /\ DigitValue[s[n]] \in Nat
    BY <1>1, DigitKinds
  <2>2. \A a, b \in Nat : a * b \in Nat
    OBVIOUS
  <2>3. \A a, b, c \in Nat : a * b + c \in Nat
    BY <2>2
  <2>. QED BY <2>1, <2>3
<1>. HIDE DEF next, N
<1>3. \A n \in 1..N : \A x \in Nat : step[n][x] = next(n, x)
  OBVIOUS
<1>4. PICK g : g \in [0..N -> Nat] /\ g[0] = 0 /\ \A n \in 1..N : g[n] = step[n][g[n - 1]]
  <2>. DEFINE T == Nat
              zero == 0
  <2>1. zero \in T /\ step \in StepsIn(N, T)
    BY <1>2 DEF StepsIn
  <2>. HIDE DEF step
  <2>2. \E g : g \in [0..N -> T] /\ Solves(g, N, zero, step)
    <3>. HIDE DEF T, zero
    <3>. QED BY <1>1, <2>1, Recursion
  <2>. QED BY <2>2 DEF Solves
<1>. HIDE DEF step
<1>5. \A n \in 1..N : g[n] = next(n, g[n - 1])
  <2>. TAKE n \in 1..N
  <2>1. g[n - 1] \in Nat
    BY <1>1, <1>4
  <2>. QED BY <1>3, <1>4, <2>1
<1>6. Eq(g)
  BY <1>1, <1>4, <1>5
<1>7. Eq(number)
  <2>. HIDE DEF Eq
  <2>. QED BY <1>6
<1>8. Number(s) = number[N]
  BY DEF Number, next, N
<1>. HIDE DEF number
<1>9. number[N] \in Nat
  <2>. DEFINE T == Nat
  <2>1. number = [n \in 0..N |-> number[n]] /\ number[0] = 0
    BY <1>1, <1>7
  <2>2. \A n \in 1..N : number[n] = next(n, number[n - 1])
    BY <1>1, <1>7
  <2>3. number[0] \in T /\ \A n \in 1..N : number[n - 1] \in T => number[n] \in T
    <3>1. number[0] \in T
      BY <2>1
    <3>2. ASSUME NEW n \in 1..N, number[n - 1] \in T
          PROVE  number[n] \in T
      <4>1. next(n, number[n - 1]) \in Nat
        BY <1>2, <3>2
      <4>. QED BY <2>2, <4>1
    <3>. QED BY <3>1, <3>2
  <2>4. number \in [0..N -> T]
    <3>. HIDE DEF T
    <3>. QED BY <1>1, <2>1, <2>3, StaysIn
  <2>. QED BY <1>1, <2>4
<1>. QED BY <1>8, <1>9

\* What is left of a port's text lies behind white space and at most one plus, and before the line's end.
LEMMA PortTextIs ==
    ASSUME NEW A, NEW t \in Seq(A), PortText(t) # <<>>
    PROVE  \E i, j \in 1..Len(t) :
              /\ i <= j /\ PortText(t) = SubSeq(t, i, j)
              /\ \A k \in 1..i - 1 : IsWhite(t[k]) \/ (t[k] = "+" /\ k = i - 1)
              /\ \A k \in j + 1..Len(t) : IsLineEnd(t[k])
<1>. DEFINE W == {k \in 1..Len(t) : ~IsWhite(t[k])}
            I == {k \in 1..Len(t) : ~IsLineEnd(t[k])}
            begin == SelectInSeq(t, LAMBDA c : ~IsWhite(c))
            end == SelectLastInSeq(t, LAMBDA c : ~IsLineEnd(c))
            i == IF t[begin] = "+" THEN begin + 1 ELSE begin
<1>1. begin = IF W # {} THEN Min(W) ELSE 0
  BY DEF SelectInSeq
<1>2. end = IF I # {} THEN Max(I) ELSE 0
  BY DEF SelectLastInSeq
<1>3. PortText(t) = IF begin = 0 THEN <<>> ELSE SubSeq(t, i, end)
  BY DEF PortText
<1>. HIDE DEF begin, end
<1>4. W # {} /\ W \subseteq I
  BY <1>1, <1>3 DEF IsWhite
<1>5. Min(W) \in W /\ \A y \in W : Min(W) <= y
  <2>1. W \in SUBSET Nat
    OBVIOUS
  <2>. HIDE DEF W
  <2>. QED BY <1>4, <2>1, LeastOf
<1>6. Max(I) \in I /\ \A y \in I : y <= Max(I)
  <2>1. I \in SUBSET (1..Len(t)) /\ Len(t) \in Nat /\ I # {}
    BY <1>4
  <2>. HIDE DEF I
  <2>. QED BY <2>1, GreatestOf
<1>7. begin \in W /\ end \in I /\ (\A y \in W : begin <= y) /\ \A y \in I : y <= end
  BY <1>1, <1>2, <1>4, <1>5, <1>6
<1>8. begin \in 1..Len(t) /\ end \in 1..Len(t) /\ begin <= end /\ i \in 1..Len(t) + 1
  BY <1>4, <1>7
<1>9. PortText(t) = SubSeq(t, i, end)
  BY <1>3, <1>8
<1>10. i <= end
  <2>1. ASSUME i > end
        PROVE  SubSeq(t, i, end) = <<>>
    BY <1>8, <2>1
  <2>. QED BY <1>8, <1>9, <2>1
<1>11. \A k \in 1..i - 1 : IsWhite(t[k]) \/ (t[k] = "+" /\ k = i - 1)
  <2>. SUFFICES ASSUME NEW k \in 1..i - 1, ~IsWhite(t[k])
                PROVE  t[k] = "+" /\ k = i - 1
    OBVIOUS
  <2>1. k \in W /\ begin <= k
    BY <1>7, <1>8
  <2>. QED BY <1>8, <2>1
<1>12. \A k \in end + 1..Len(t) : IsLineEnd(t[k])
  BY <1>7, <1>8
<1>13. i \in 1..Len(t)
  BY <1>8, <1>10
<1>. HIDE DEF i
<1>. QED BY <1>8, <1>9, <1>10, <1>11, <1>12, <1>13

\* An address that is looked up is the one that is named by what came of the atDirectory's
\* line, however long it is and wherever it was cut.
LEMMA AddressIsNamed ==
    ASSUME NEW A, answer \in Seq(A)
    PROVE  AddressOrError
<1>. DEFINE named == WithoutAt(answer)
            r == Lookup(answer)
            n == Len(named)
            colon == First(named, 2, ":")
            rest == From(named, colon + 1)
            digits == PortText(rest)
            port == Number(digits)
            host == SubSeq(named, 1, colon - 1)
            Names(c, p) ==
               \E i, j \in c + 1 .. n :
                  /\ \A k \in c + 1 .. i - 1 : IsWhite(named[k]) \/ (named[k] = "+" /\ k = i - 1)
                  /\ \A k \in i .. j : named[k] \in Digits
                  /\ \A k \in j + 1 .. n : IsLineEnd(named[k])
                  /\ Number(SubSeq(named, i, j)) = p
<1>. SUFFICES ASSUME answer # <<>>, r.ret = 0
              PROVE  IF r.host = <<>> THEN named = <<"null">>
                     ELSE /\ Begins(named, r.host) /\ named[Len(r.host) + 1] = ":"
                          /\ r.port \in 1 .. PortMax
                          /\ Names(Len(r.host) + 1, r.port)
  BY DEF AddressOrError
<1>. HIDE DEF Names
<1>0. CASE named = <<"null">>
  BY <1>0 DEF Lookup, NoAddress
<1>. SUFFICES ASSUME named # <<"null">>
              PROVE  /\ r.host # <<>> /\ Begins(named, r.host) /\ named[Len(r.host) + 1] = ":"
                     /\ r.port \in 1 .. PortMax /\ Names(Len(r.host) + 1, r.port)
  BY <1>0
<1>1. named \in Seq(A) /\ n \in Nat
  BY DEF WithoutAt
<1>2. r = ParseHostPort(named)
  BY DEF Lookup
<1>. HIDE DEF named, r
<1>3. r = IF \/ colon = 0
             \/ digits = <<>> \/ \E i \in DOMAIN digits : digits[i] \notin Digits
             \/ port < 1 \/ port > PortMax
          THEN NoAddress ELSE [ret |-> 0, host |-> host, port |-> port]
  BY <1>2 DEF ParseHostPort
<1>4. NoAddress.ret # 0
  BY DEF NoAddress
<1>. HIDE DEF colon, rest, digits, port, host, n
<1>5. /\ colon # 0 /\ digits # <<>> /\ ~(port < 1) /\ ~(port > PortMax)
      /\ \A i \in DOMAIN digits : digits[i] \in Digits
      /\ r.host = host /\ r.port = port
  BY <1>3, <1>4
<1>6. colon \in 2..n /\ named[colon] = ":"
  BY <1>1, <1>5, FirstFinds DEF colon, n
<1>7. host \in Seq(A) /\ Len(host) = colon - 1 /\ \A i \in 1..colon - 1 : host[i] = named[i]
  BY <1>1, <1>6 DEF host, n
<1>8. host # <<>> /\ Len(host) + 1 = colon
  BY <1>6, <1>7
<1>9. Begins(named, host)
  <2>1. Len(host) = colon - 1 /\ Len(host) <= Len(named)
    BY <1>1, <1>6, <1>7 DEF n
  <2>2. SubSeq(host, 1, Len(host)) = host
    <3>1. SubSeq(host, 1, Len(host)) = host
      BY <1>7, SubSeqFull
    <3>. QED BY <3>1
  <2>3. SubSeq(named, 1, Len(host)) = host
    BY <2>1 DEF host
  <2>. QED BY <2>1, <2>2, <2>3 DEF Begins, IsPrefix
<1>10. rest \in Seq(A) /\ Len(rest) = n - colon /\ \A k \in 1..n - colon : rest[k] = named[colon + k]
  <2>1. rest = SubSeq(named, colon + 1, n)
    BY DEF rest, From, n
  <2>. QED BY <1>1, <1>6, <2>1 DEF n
<1>11. PICK i, j \in 1..Len(rest) :
         /\ i <= j /\ digits = SubSeq(rest, i, j)
         /\ \A k \in 1..i - 1 : IsWhite(rest[k]) \/ (rest[k] = "+" /\ k = i - 1)
         /\ \A k \in j + 1..Len(rest) : IsLineEnd(rest[k])
  BY <1>5, <1>10, PortTextIs DEF digits
<1>12. digits \in Seq(Digits) /\ \A k \in i..j : rest[k] \in Digits
  <2>1. /\ digits \in Seq(A) /\ Len(digits) = j - i + 1 
        /\ \A k \in 1..j - i + 1 : digits[k] = rest[i + k - 1]
    BY <1>10, <1>11
  <2>2. \A k \in 1..j - i + 1 : digits[k] \in Digits
    BY <1>5, <2>1
  <2>3. ASSUME NEW k \in i..j
        PROVE  rest[k] \in Digits
    <3>1. k - i + 1 \in 1..j - i + 1 /\ i + (k - i + 1) - 1 = k
      BY <1>11
    <3>. QED BY <2>1, <2>2, <3>1
  <2>4. digits \in Seq(Digits)
    BY <2>1, <2>2
  <2>. QED BY <2>3, <2>4
<1>13. port \in 1..PortMax
  <2>1. port \in Nat
    BY <1>12, NumberNat DEF port
  <2>. QED BY <1>5, <2>1, LineBounds
<1>14. PICK a, b : a = colon + i /\ b = colon + j
  OBVIOUS
<1>15. a \in colon + 1..n /\ b \in colon + 1..n /\ a <= b /\ colon \in Nat
  BY <1>1, <1>6, <1>10, <1>11, <1>14
<1>16. ASSUME NEW k \in colon + 1..n
       PROVE  /\ k - colon \in 1..Len(rest) /\ named[k] = rest[k - colon]
              /\ k < a => k - colon \in 1..i - 1
              /\ k \in a..b => k - colon \in i..j
              /\ k > b => k - colon \in j + 1..Len(rest)
              /\ k - colon = i - 1 => k = a - 1
  <2>1. k - colon \in 1..n - colon /\ colon + (k - colon) = k
    BY <1>1, <1>6
  <2>2. named[k] = rest[k - colon] /\ k - colon \in 1..Len(rest)
    BY <1>10, <2>1
  <2>. QED BY <1>1, <1>6, <1>10, <1>11, <1>14, <2>2
<1>17. ASSUME NEW k \in colon + 1..a - 1
       PROVE  IsWhite(named[k]) \/ (named[k] = "+" /\ k = a - 1)
  <2>1. k \in colon + 1..n /\ k < a
    BY <1>1, <1>15
  <2>. QED BY <1>11, <1>16, <2>1
<1>18. \A k \in a..b : named[k] \in Digits
  <2>1. \A k \in a..b : k \in colon + 1..n
    BY <1>1, <1>15
  <2>. QED BY <1>12, <1>16, <2>1
<1>19. \A k \in b + 1..n : IsLineEnd(named[k])
  <2>1. \A k \in b + 1..n : k \in colon + 1..n /\ k > b
    BY <1>1, <1>15
  <2>. QED BY <1>11, <1>16, <2>1
<1>20. SubSeq(named, a, b) = digits
  <2>. DEFINE s == SubSeq(named, a, b)
              t == SubSeq(rest, i, j)
  <2>1. s \in Seq(A) /\ Len(s) = j - i + 1 /\ \A k \in 1..j - i + 1 : s[k] = named[a + k - 1]
    BY <1>1, <1>6, <1>11, <1>14, <1>15 DEF n
  <2>2. t \in Seq(A) /\ Len(t) = j - i + 1 /\ \A k \in 1..j - i + 1 : t[k] = rest[i + k - 1]
    BY <1>10, <1>11
  <2>3. ASSUME NEW k \in 1..j - i + 1
        PROVE  named[a + k - 1] = rest[i + k - 1]
    <3>1. i + k - 1 \in 1..n - colon /\ colon + (i + k - 1) = a + k - 1
      BY <1>1, <1>6, <1>10, <1>11, <1>14
    <3>. QED BY <1>10, <3>1
  <2>. HIDE DEF s, t
  <2>4. s = t
    BY <2>1, <2>2, <2>3
  <2>. QED BY <1>11, <2>4 DEF s, t
<1>21. Names(colon, port)
  <2>1. Number(SubSeq(named, a, b)) = port
    BY <1>20 DEF port
  <2>. QED BY <1>15, <1>17, <1>18, <1>19, <2>1 DEF Names
<1>. QED BY <1>5, <1>6, <1>8, <1>9, <1>13, <1>21

-----------------------------------------------------------------------------
(* The values                                                              *)

\* A stored value is under the IV its metadata names, or under zeroes without a name.
StoredInv ==
    /\ DOMAIN ivNonce = Atkeys
    /\ \A t \in DOMAIN stored :
          \/ stored[t].under \in Ivs /\ stored[t].says = stored[t].under
          \/ stored[t].under = ZEROES /\ stored[t].says \in {NONE, NULLTEXT}

ValuesInv == StoredInv /\ ValuesComeBack

\* No operation breaks that, whichever atkey structure it is called with.
LEMMA ValuesStep ==
    ASSUME ValuesInv, ValuesNext
    PROVE  ValuesInv'
<1>1. ASSUME NEW t, NEW under, NEW says, Store(t, under, says),
             \/ under \in Ivs /\ says = under
             \/ under = ZEROES /\ says \in {NONE, NULLTEXT},
             DOMAIN ivNonce' = Atkeys
      PROVE  StoredInv'
  <2>1. /\ DOMAIN stored' = DOMAIN stored \cup {t}
        /\ stored'[t] = [under |-> under, says |-> says]
        /\ \A u \in DOMAIN stored \ {t} : stored'[u] = stored[u]
    BY <1>1 DEF Store
  <2>. QED BY <1>1, <2>1 DEF ValuesInv, StoredInv
<1>2. ASSUME NEW t \in Kinds, NEW k \in Atkeys, Put(t, k)
      PROVE  ValuesInv'
  <2>1. PICK iv \in Ivs : /\ ivNonce' = [ivNonce EXCEPT ![k] = iv]
                          /\ Store(t, iv, iv) \/ UNCHANGED stored
                          /\ UNCHANGED got
    BY <1>2 DEF Put, Generated
  <2>2. DOMAIN ivNonce' = Atkeys
    BY <2>1 DEF ValuesInv, StoredInv
  <2>3. StoredInv'
    BY <1>1, <2>1, <2>2 DEF ValuesInv, StoredInv
  <2>. QED BY <2>1, <2>3 DEF ValuesInv, ValuesComeBack
<1>3. ASSUME NEW t \in Kinds, LegacyPut(t)
      PROVE  ValuesInv'
  <2>1. PICK says \in {NONE, NULLTEXT} : Store(t, ZEROES, says)
    BY <1>3 DEF LegacyPut
  <2>2. UNCHANGED <<ivNonce, got>>
    BY <1>3 DEF LegacyPut
  <2>3. StoredInv'
    BY <1>1, <2>1, <2>2 DEF ValuesInv, StoredInv
  <2>. QED BY <2>2, <2>3 DEF ValuesInv, ValuesComeBack
<1>4. ASSUME NEW t \in Kinds, NEW k \in Atkeys, NEW store \in BOOLEAN, Get(t, k, store)
      PROVE  ValuesInv'
  <2>1. StoredInv'
    BY <1>4 DEF Get, ValuesInv, StoredInv
  <2>. DEFINE v == stored[t]
              g == [of    |-> v,
                    fresh |-> ivNonce[k] = NONE,
                    right |-> IvOf(Consulted(t, k)) = v.under]
  <2>2. g.right \/ (v.under = ZEROES /\ (v.says = NULLTEXT \/ ~g.fresh))
    <3>1. CASE v.under \in Ivs /\ v.says = v.under
      <4>1. v.says # NONE /\ v.says # NULLTEXT
        BY <3>1, IvsAreIvs
      <4>2. Consulted(t, k) = v.under
        BY <3>1, <4>1 DEF Consulted, Read
      <4>. QED BY <3>1, <4>1, <4>2 DEF IvOf
    <3>2. CASE v.under = ZEROES /\ v.says = NONE /\ g.fresh
      <4>1. Consulted(t, k) = NONE
        BY <3>2 DEF Consulted, Read
      <4>. QED BY <3>2, <4>1 DEF IvOf
    <3>. QED BY <1>4, <3>1, <3>2 DEF Get, ValuesInv, StoredInv
  <2>3. got' = {g} \/ got' = got
    BY <1>4 DEF Get
  <2>4. ValuesComeBack'
    BY <2>2, <2>3 DEF ValuesInv, ValuesComeBack
  <2>. QED BY <2>1, <2>4 DEF ValuesInv
<1>5. ASSUME NEW k \in Atkeys, Renew(k)
      PROVE  ValuesInv'
  BY <1>5 DEF Renew, ValuesInv, StoredInv, ValuesComeBack
<1>. QED BY <1>2, <1>3, <1>4, <1>5 DEF ValuesNext

-----------------------------------------------------------------------------
(* The keys of a request and its answers                                   *)

MessageKinds == Answers \cup {"request"}
Spelling == {"@", "to", ":", ".", "__rpcs", "base", "from"} \cup MessageKinds
Letters == Spelling \cup UNION {{d[i] : i \in 1..Len(d)} : d \in Domains}
KeyPieces == {Word(w) : w \in Letters} \cup {IdText(id) : id \in Nat}

\* The pieces of a key are told apart.
LEMMA PieceFacts ==
    /\ \A w \in Spelling : w \in Letters
    /\ \A d \in Domains : \A i \in 1..Len(d) : d[i] \in Letters
    /\ \A w \in Letters : Word(w) \in KeyPieces
    /\ \A id \in Nat : IdText(id) \in KeyPieces
    /\ \A v, w \in Letters : Word(v) = Word(w) => v = w
    /\ \A w, id : Word(w) # IdText(id)
<1>1. \A w \in Spelling : w \in Letters
  BY DEF Letters
<1>2. \A d \in Domains : \A i \in 1..Len(d) : d[i] \in Letters
  BY DEF Letters
<1>3. \A w \in Letters : Word(w) \in KeyPieces
  BY DEF KeyPieces
<1>4. \A id \in Nat : IdText(id) \in KeyPieces
  BY DEF KeyPieces
<1>5. \A v, w \in Letters : Word(v) = Word(w) => v = w
  BY DEF Word
<1>6. \A w, id : Word(w) # IdText(id)
  BY DEF Word, IdText
<1>. QED BY <1>1, <1>2, <1>3, <1>4, <1>5, <1>6

\* The words every key has are pieces, and __rpcs is none of the others.
LEMMA WordFacts ==
    /\ \A w \in Spelling : Word(w) \in KeyPieces
    /\ \A w \in Letters \ {"__rpcs"} : Word(w) # Word("__rpcs")
    /\ Dot = Word(".") /\ Dot \in KeyPieces
BY PieceFacts DEF Spelling, Dot

\* What follows the id: the domain, and behind it the word __rpcs, once.
LEMMA SuffixFacts ==
    ASSUME NEW d \in Domains, NEW aware \in BOOLEAN
    PROVE  LET s == Suffix(d, aware)
               n == Len(d)
           IN  /\ s \in Seq(KeyPieces)
               /\ n \in Nat
               /\ Len(s) = n + (IF aware THEN 5 ELSE 3)
               /\ \A i \in 1..n : s[i] = Word(d[i]) /\ s[i] # Word("__rpcs")
               /\ s[n + 1] = Dot /\ s[n + 2] = Word("__rpcs")
               /\ \A i \in (n + 3)..Len(s) : s[i] # Word("__rpcs")
<1>. DEFINE n == Len(d)
            c == Chars(d)
            m == <<Dot, Word("__rpcs")>>
            b == IF aware THEN <<Dot, Word("base")>> ELSE <<>>
            e == <<Word("@")>>
            s == Suffix(d, aware)
<1>1. n \in Nat /\ d \in Seq(STRING) /\ \A i \in 1..n : d[i] \in Letters \ {"__rpcs"}
  BY PieceFacts, DomainNames
<1>2. c \in Seq(KeyPieces) /\ Len(c) = n /\ \A i \in 1..n : c[i] = Word(d[i])
  <2>1. \A i \in 1..n : Word(d[i]) \in KeyPieces
    BY <1>1, PieceFacts
  <2>2. c = [i \in 1..n |-> Word(d[i])]
    BY <1>1 DEF Chars
  <2>. QED BY <1>1, <2>1, <2>2
<1>3. /\ m \in Seq(KeyPieces) /\ Len(m) = 2 /\ m[1] = Dot /\ m[2] = Word("__rpcs")
      /\ e \in Seq(KeyPieces) /\ Len(e) = 1 /\ e[1] = Word("@")
  <2>1. Dot \in KeyPieces /\ Word("__rpcs") \in KeyPieces /\ Word("@") \in KeyPieces
    BY WordFacts DEF Spelling
  <2>. QED BY <2>1
<1>4. /\ b \in Seq(KeyPieces) /\ Len(b) \in Nat /\ Len(b) = (IF aware THEN 2 ELSE 0)
      /\ aware => b[1] = Dot /\ b[2] = Word("base")
  <2>1. Dot \in KeyPieces /\ Word("base") \in KeyPieces
    BY WordFacts DEF Spelling
  <2>. QED BY <2>1, EmptySeq
<1>5. s = ((c \o m) \o b) \o e
  BY DEF Suffix
<1>. HIDE DEF n, c, m, b, e, s
<1>6. /\ c \o m \in Seq(KeyPieces) /\ Len(c \o m) = n + 2
      /\ \A i \in 1..n : (c \o m)[i] = c[i]
      /\ (c \o m)[n + 1] = m[1] /\ (c \o m)[n + 2] = m[2]
  <2>1. /\ c \o m \in Seq(KeyPieces) /\ Len(c \o m) = Len(c) + Len(m)
        /\ \A i \in 1..Len(c) : (c \o m)[i] = c[i]
        /\ \A i \in 1..Len(m) : (c \o m)[Len(c) + i] = m[i]
    <3>1. c \in Seq(KeyPieces) /\ m \in Seq(KeyPieces)
      BY <1>2, <1>3
    <3>. QED BY <3>1, Joined
  <2>. QED BY <1>1, <1>2, <1>3, <2>1
<1>7. /\ (c \o m) \o b \in Seq(KeyPieces) /\ Len((c \o m) \o b) = n + 2 + Len(b)
      /\ \A i \in 1..(n + 2) : ((c \o m) \o b)[i] = (c \o m)[i]
      /\ \A i \in 1..Len(b) : ((c \o m) \o b)[n + 2 + i] = b[i]
  <2>. DEFINE x == c \o m
  <2>1. x \in Seq(KeyPieces) /\ Len(x) = n + 2
    BY <1>6
  <2>. HIDE DEF x
  <2>2. /\ x \o b \in Seq(KeyPieces) /\ Len(x \o b) = Len(x) + Len(b)
        /\ \A i \in 1..Len(x) : (x \o b)[i] = x[i]
        /\ \A i \in 1..Len(b) : (x \o b)[Len(x) + i] = b[i]
    <3>1. x \in Seq(KeyPieces) /\ b \in Seq(KeyPieces)
      BY <1>4, <2>1
    <3>. QED BY <3>1, Joined
  <2>3. /\ x \o b \in Seq(KeyPieces) /\ Len(x \o b) = n + 2 + Len(b)
        /\ \A i \in 1..(n + 2) : (x \o b)[i] = x[i]
        /\ \A i \in 1..Len(b) : (x \o b)[n + 2 + i] = b[i]
    BY <1>1, <1>4, <2>1, <2>2
  <2>. QED BY <2>3 DEF x
<1>8. /\ s \in Seq(KeyPieces) /\ Len(s) = n + 2 + Len(b) + 1
      /\ \A i \in 1..(n + 2 + Len(b)) : s[i] = ((c \o m) \o b)[i]
      /\ s[n + 2 + Len(b) + 1] = e[1]
  <2>. DEFINE x == (c \o m) \o b
  <2>1. x \in Seq(KeyPieces) /\ Len(x) = n + 2 + Len(b) /\ s = x \o e
    BY <1>5, <1>7
  <2>. HIDE DEF x
  <2>2. /\ x \o e \in Seq(KeyPieces) /\ Len(x \o e) = Len(x) + Len(e)
        /\ \A i \in 1..Len(x) : (x \o e)[i] = x[i]
        /\ \A i \in 1..Len(e) : (x \o e)[Len(x) + i] = e[i]
    <3>1. x \in Seq(KeyPieces) /\ e \in Seq(KeyPieces)
      BY <1>3, <2>1
    <3>. QED BY <3>1, Joined
  <2>3. /\ Len(s) = n + 2 + Len(b) + 1
        /\ \A i \in 1..(n + 2 + Len(b)) : s[i] = x[i]
        /\ s[n + 2 + Len(b) + 1] = e[1]
    BY <1>1, <1>3, <1>4, <2>1, <2>2
  <2>. QED BY <2>1, <2>2, <2>3 DEF x
<1>9. \A i \in 1..n : s[i] = Word(d[i]) /\ s[i] # Word("__rpcs")
  BY <1>1, <1>2, <1>4, <1>6, <1>7, <1>8, WordFacts
<1>10. s[n + 1] = Dot /\ s[n + 2] = Word("__rpcs")
  <2>1. /\ n + 1 \in 1..(n + 2) /\ n + 2 \in 1..(n + 2)
        /\ n + 1 \in 1..(n + 2 + Len(b)) /\ n + 2 \in 1..(n + 2 + Len(b))
    BY <1>1, <1>4
  <2>2. s[n + 1] = (c \o m)[n + 1] /\ s[n + 2] = (c \o m)[n + 2]
    BY <1>7, <1>8, <2>1
  <2>. QED BY <1>3, <1>6, <2>2
<1>11. \A i \in (n + 3)..Len(s) : s[i] \in {Dot, Word("base"), Word("@")}
  <2>1. CASE aware
    <3>1. \A i \in (n + 3)..(n + 5) : i = n + 3 \/ i = n + 4 \/ i = n + 5
      BY <1>1
    <3>2. Len(b) = 2 /\ Len(s) = n + 5 /\ s[n + 5] = e[1]
      BY <1>1, <1>4, <1>8, <2>1
    <3>3. /\ n + 2 + 1 \in 1..(n + 2 + Len(b)) /\ n + 2 + 2 \in 1..(n + 2 + Len(b))
          /\ 1 \in 1..Len(b) /\ 2 \in 1..Len(b) /\ n + 2 + 1 = n + 3 /\ n + 2 + 2 = n + 4
      BY <1>1, <3>2
    <3>4. s[n + 3] = b[1] /\ s[n + 4] = b[2]
      BY <1>7, <1>8, <3>3
    <3>. QED BY <1>3, <1>4, <2>1, <3>1, <3>2, <3>4
  <2>2. CASE ~aware
    <3>1. \A i \in (n + 3)..(n + 3) : i = n + 3
      BY <1>1
    <3>2. Len(s) = n + 3 /\ s[n + 3] = e[1]
      BY <1>1, <1>4, <1>7, <1>8, <2>2
    <3>. QED BY <1>3, <3>1, <3>2
  <2>. QED BY <2>1, <2>2
<1>12. \A i \in (n + 3)..Len(s) : s[i] # Word("__rpcs")
  <2>1. Dot # Word("__rpcs") /\ Word("base") # Word("__rpcs") /\ Word("@") # Word("__rpcs")
    BY PieceFacts, WordFacts DEF Spelling
  <2>. QED BY <1>11, <2>1
<1>13. Len(s) = n + (IF aware THEN 5 ELSE 3)
  BY <1>1, <1>4, <1>8
<1>. QED BY <1>1, <1>8, <1>9, <1>10, <1>12, <1>13 DEF n, s

\* A key is its kind and its id, each between dots, in front of that.
LEMMA KeyFacts ==
    ASSUME NEW kind \in MessageKinds, NEW id \in Nat, NEW d \in Domains, NEW aware \in BOOLEAN
    PROVE  LET k == Key(kind, id, d, aware)
               s == Suffix(d, aware)
               n == Len(d)
           IN  /\ k \in Seq(KeyPieces)
               /\ Len(k) = Len(s) + 8
               /\ k[1] = Word("@") /\ k[2] = Word("to") /\ k[3] = Word(":")
               /\ k[4] = Word(kind) /\ k[5] = Dot /\ k[6] = IdText(id) /\ k[7] = Dot
               /\ \A i \in 1..Len(s) : k[i + 7] = s[i]
               /\ \A i \in 1..Len(k) : k[i] = Word("__rpcs") => i = n + 9
<1>. DEFINE k == Key(kind, id, d, aware)
            s == Suffix(d, aware)
            n == Len(d)
            h == <<Word("@"), Word("to"), Word(":"), Word(kind), Dot, IdText(id), Dot>>
            e == <<Word("from")>>
<1>1. /\ s \in Seq(KeyPieces) /\ n \in Nat /\ Len(s) \in Nat /\ Len(s) >= n + 3
      /\ \A i \in 1..Len(s) : s[i] = Word("__rpcs") => i = n + 2
  <2>1. /\ s \in Seq(KeyPieces) /\ n \in Nat /\ Len(s) = n + (IF aware THEN 5 ELSE 3)
        /\ \A i \in 1..n : s[i] # Word("__rpcs")
        /\ s[n + 1] = Dot
        /\ \A i \in (n + 3)..Len(s) : s[i] # Word("__rpcs")
    BY SuffixFacts
  <2>2. Dot # Word("__rpcs")
    BY PieceFacts, WordFacts DEF Spelling
  <2>. HIDE DEF s
  <2>. QED BY <2>1, <2>2
<1>2. /\ h \in Seq(KeyPieces) /\ Len(h) = 7
      /\ h[1] = Word("@") /\ h[2] = Word("to") /\ h[3] = Word(":")
      /\ h[4] = Word(kind) /\ h[5] = Dot /\ h[6] = IdText(id) /\ h[7] = Dot
  <2>2. /\ Word("@") \in KeyPieces /\ Word("to") \in KeyPieces /\ Word(":") \in KeyPieces
        /\ Word(kind) \in KeyPieces /\ Dot \in KeyPieces /\ IdText(id) \in KeyPieces
    BY PieceFacts, WordFacts DEF Spelling
  <2>. QED BY <2>2
<1>3. e \in Seq(KeyPieces) /\ Len(e) = 1 /\ e[1] = Word("from")
  <2>1. Word("from") \in KeyPieces
    BY WordFacts DEF Spelling
  <2>. QED BY <2>1
<1>4. k = (h \o s) \o e
  BY DEF Key
<1>. HIDE DEF k, s, n, h, e
<1>5. /\ h \o s \in Seq(KeyPieces) /\ Len(h \o s) = 7 + Len(s)
      /\ \A i \in 1..7 : (h \o s)[i] = h[i]
      /\ \A i \in 1..Len(s) : (h \o s)[7 + i] = s[i]
  <2>1. /\ h \o s \in Seq(KeyPieces) /\ Len(h \o s) = Len(h) + Len(s)
        /\ \A i \in 1..Len(h) : (h \o s)[i] = h[i]
        /\ \A i \in 1..Len(s) : (h \o s)[Len(h) + i] = s[i]
    <3>1. h \in Seq(KeyPieces) /\ s \in Seq(KeyPieces)
      BY <1>1, <1>2
    <3>. QED BY <3>1, Joined
  <2>. QED BY <1>2, <2>1
<1>6. /\ k \in Seq(KeyPieces) /\ Len(k) = 8 + Len(s)
      /\ \A i \in 1..(7 + Len(s)) : k[i] = (h \o s)[i]
      /\ k[8 + Len(s)] = Word("from")
  <2>. DEFINE x == h \o s
  <2>1. x \in Seq(KeyPieces) /\ Len(x) = 7 + Len(s) /\ k = x \o e
    BY <1>4, <1>5
  <2>. HIDE DEF x
  <2>2. /\ x \o e \in Seq(KeyPieces) /\ Len(x \o e) = Len(x) + Len(e)
        /\ \A i \in 1..Len(x) : (x \o e)[i] = x[i]
        /\ \A i \in 1..Len(e) : (x \o e)[Len(x) + i] = e[i]
    <3>1. x \in Seq(KeyPieces) /\ e \in Seq(KeyPieces)
      BY <1>3, <2>1
    <3>. QED BY <3>1, Joined
  <2>3. /\ Len(k) = 8 + Len(s)
        /\ \A i \in 1..(7 + Len(s)) : k[i] = x[i]
        /\ k[8 + Len(s)] = Word("from")
    <3>1. 7 + Len(s) + 1 = 8 + Len(s)
      BY <1>1
    <3>. QED BY <1>1, <1>3, <2>1, <2>2, <3>1
  <2>. QED BY <2>1, <2>2, <2>3 DEF x
<1>7. /\ k[1] = Word("@") /\ k[2] = Word("to") /\ k[3] = Word(":")
      /\ k[4] = Word(kind) /\ k[5] = Dot /\ k[6] = IdText(id) /\ k[7] = Dot
  <2>1. \A i \in 1..7 : i \in 1..(7 + Len(s))
    BY <1>1
  <2>2. \A i \in 1..7 : k[i] = h[i]
    BY <1>5, <1>6, <2>1
  <2>. QED BY <1>2, <2>2
<1>8. \A i \in 1..Len(s) : k[i + 7] = s[i]
  <2>1. \A i \in 1..Len(s) : 7 + i \in 1..(7 + Len(s)) /\ 7 + i = i + 7
    BY <1>1
  <2>. QED BY <1>5, <1>6, <2>1
<1>9. ASSUME NEW i \in 1..Len(k), k[i] = Word("__rpcs")
      PROVE  i = n + 9
  <2>1. CASE i \in 1..7
    <3>1. k[i] \in {Word("@"), Word("to"), Word(":"), Word(kind), Dot, IdText(id)}
      BY <1>7, <2>1
    <3>2. \A w \in {"@", "to", ":", ".", kind} : Word(w) # Word("__rpcs")
      BY PieceFacts, WordFacts DEF Spelling, MessageKinds, Answers
    <3>3. \A x \in {Word("@"), Word("to"), Word(":"), Word(kind), Dot, IdText(id)} : x # Word("__rpcs")
      BY <3>2, PieceFacts, WordFacts
    <3>. QED BY <1>9, <3>1, <3>3
  <2>2. CASE i \in 8..(7 + Len(s))
    <3>1. i - 7 \in 1..Len(s) /\ k[i] = s[i - 7]
      <4>1. i - 7 \in 1..Len(s) /\ i = (i - 7) + 7
        BY <1>1, <2>2
      <4>. QED BY <1>8, <4>1
    <3>. QED BY <1>1, <1>9, <2>2, <3>1
  <2>3. CASE i = 8 + Len(s)
    <3>1. k[i] = Word("from")
      BY <1>6, <2>3
    <3>2. Word("from") # Word("__rpcs")
      BY PieceFacts, WordFacts DEF Spelling
    <3>. QED BY <1>9, <3>1, <3>2
  <2>4. i \in 1..7 \/ i \in 8..(7 + Len(s)) \/ i = 8 + Len(s)
    <3>1. i \in 1..(8 + Len(s)) /\ Len(s) \in Nat
      BY <1>1, <1>6
    <3>. QED BY <3>1
  <2>. QED BY <2>1, <2>2, <2>3, <2>4
<1>. QED BY <1>1, <1>6, <1>7, <1>8, <1>9 DEF k, s, n

\* A key is in the namespace of the domain it was made for.
LEMMA OwnNamespace ==
    ASSUME NEW kind \in MessageKinds, NEW id \in Nat, NEW d \in Domains, NEW aware \in BOOLEAN
    PROVE  InNamespace(Key(kind, id, d, aware), d)
<1>. DEFINE k == Key(kind, id, d, aware)
            s == Suffix(d, aware)
            t == SubSeq(k, 8, 7 + Len(s))
<1>1. s \in Seq(KeyPieces) /\ Len(s) \in Nat
  BY SuffixFacts
<1>2. k \in Seq(KeyPieces) /\ Len(k) = Len(s) + 8 /\ \A i \in 1..Len(s) : k[i + 7] = s[i]
  BY KeyFacts
<1>. HIDE DEF k, s
<1>3. Len(t) = Len(s) /\ t \in Seq(KeyPieces) /\ \A i \in 1..Len(s) : t[i] = k[i + 7]
  <2>1. /\ t \in Seq(KeyPieces) /\ Len(t) = IF 8 <= 7 + Len(s) THEN (7 + Len(s)) - 8 + 1 ELSE 0
        /\ \A i \in 1..((7 + Len(s)) - 8 + 1) : t[i] = k[8 + i - 1]
    BY <1>1, <1>2, SubSeqProperties
  <2>2. (7 + Len(s)) - 8 + 1 = Len(s) /\ \A i \in 1..Len(s) : 8 + i - 1 = i + 7
    BY <1>1
  <2>. QED BY <1>1, <2>1, <2>2
<1>4. t = s
  BY <1>1, <1>2, <1>3
<1>5. 7 \in 0..(Len(k) - Len(s))
  BY <1>1, <1>2
<1>6. Holds(k, s)
  BY <1>4, <1>5 DEF Holds
<1>7. aware = TRUE \/ aware = FALSE
  OBVIOUS
<1>. QED BY <1>6, <1>7 DEF InNamespace, k, s

\* It is in that of another domain only if the name of the one ends with the other's.
LEMMA OtherNamespace ==
    ASSUME NEW kind \in MessageKinds, NEW id \in Nat, NEW d \in Domains, NEW aware \in BOOLEAN,
           NEW e \in Domains, InNamespace(Key(kind, id, d, aware), e)
    PROVE  IsSuffix(e, d)
<1>. DEFINE k == Key(kind, id, d, aware)
            n == Len(d)
            m == Len(e)
<1>1. n \in Nat /\ m \in Nat /\ d \in Seq(STRING) /\ e \in Seq(STRING)
  BY DomainNames
<1>2. PICK other \in BOOLEAN : Holds(k, Suffix(e, other))
  BY DEF InNamespace
<1>. DEFINE s == Suffix(d, aware)
            t == Suffix(e, other)
<1>3. /\ k \in Seq(KeyPieces) /\ Len(k) \in Nat
      /\ k[6] = IdText(id) /\ k[7] = Dot
      /\ \A i \in 1..n : k[i + 7] = Word(d[i])
      /\ \A i \in 1..Len(k) : k[i] = Word("__rpcs") => i = n + 9
  <2>1. /\ s \in Seq(KeyPieces) /\ Len(s) \in Nat /\ Len(s) >= n
        /\ \A i \in 1..n : s[i] = Word(d[i])
    <3>1. /\ s \in Seq(KeyPieces) /\ Len(s) = n + (IF aware THEN 5 ELSE 3)
          /\ \A i \in 1..n : s[i] = Word(d[i])
      BY SuffixFacts
    <3>. HIDE DEF s, n
    <3>. QED BY <1>1, <3>1
  <2>2. /\ k \in Seq(KeyPieces) /\ Len(k) \in Nat
        /\ k[6] = IdText(id) /\ k[7] = Dot
        /\ \A i \in 1..Len(s) : k[i + 7] = s[i]
        /\ \A i \in 1..Len(k) : k[i] = Word("__rpcs") => i = n + 9
    BY KeyFacts
  <2>. HIDE DEF k, s, n
  <2>3. \A i \in 1..n : i \in 1..Len(s)
    BY <1>1, <2>1
  <2>4. \A i \in 1..n : k[i + 7] = Word(d[i])
    BY <2>1, <2>2, <2>3
  <2>. QED BY <2>2, <2>4
<1>4. /\ t \in Seq(KeyPieces) /\ Len(t) \in Nat /\ Len(t) >= m + 2
      /\ \A i \in 1..m : t[i] = Word(e[i])
      /\ t[m + 2] = Word("__rpcs")
  <2>1. /\ t \in Seq(KeyPieces) /\ Len(t) = m + (IF other THEN 5 ELSE 3)
        /\ \A i \in 1..m : t[i] = Word(e[i])
        /\ t[m + 2] = Word("__rpcs")
    BY SuffixFacts
  <2>. HIDE DEF t, m
  <2>. QED BY <1>1, <2>1
<1>. HIDE DEF k, n, m, s, t
<1>5. PICK i \in 0..(Len(k) - Len(t)) : SubSeq(k, i + 1, i + Len(t)) = t
  BY <1>2 DEF Holds, t
<1>6. \A j \in 1..Len(t) : k[i + j] = t[j]
  <2>. DEFINE u == SubSeq(k, i + 1, i + Len(t))
  <2>1. i \in Nat /\ i + 1 \in 1..(Len(k) + 1) /\ i + Len(t) \in i..Len(k)
    BY <1>3, <1>4
  <2>2. \A j \in 1..(i + Len(t) - (i + 1) + 1) : u[j] = k[i + 1 + j - 1]
    BY <1>3, <2>1, SubSeqProperties
  <2>3. i + Len(t) - (i + 1) + 1 = Len(t) /\ \A j \in 1..Len(t) : i + 1 + j - 1 = i + j
    BY <1>4, <2>1
  <2>. QED BY <1>5, <2>2, <2>3
<1>7. i = n + 7 - m
  <2>1. k[i + (m + 2)] = Word("__rpcs")
    BY <1>1, <1>4, <1>6
  <2>2. i + (m + 2) \in 1..Len(k)
    BY <1>1, <1>3, <1>4
  <2>3. i + (m + 2) = n + 9
    BY <1>3, <2>1, <2>2
  <2>. QED BY <1>1, <1>3, <2>3
<1>8. \A j \in 1..m : k[n + 7 - m + j] = Word(e[j]) /\ n + 7 - m + j >= 1
  BY <1>1, <1>3, <1>4, <1>6, <1>7
<1>9. m <= n
  <2>1. ASSUME m = n + 1
        PROVE  FALSE
    <3>1. n + 7 - m + 1 = 7 /\ 1 \in 1..m
      BY <1>1, <2>1
    <3>2. Word(e[1]) = Word(".")
      BY <1>3, <1>8, <3>1 DEF Dot
    <3>3. e[1] \in Letters /\ "." \in Letters
      BY <3>1, PieceFacts DEF Spelling, m
    <3>4. e[1] = "."
      BY <3>2, <3>3, PieceFacts
    <3>5. e # <<>>
      BY <2>1, <1>1, EmptySeq DEF m
    <3>. QED BY <3>4, <3>5, DomainNames
  <2>2. ASSUME m > n + 1
        PROVE  FALSE
    <3>1. m - n - 1 \in 1..m /\ n + 7 - m + (m - n - 1) = 6
      BY <1>1, <2>2
    <3>2. Word(e[m - n - 1]) = IdText(id)
      BY <1>3, <1>8, <3>1
    <3>. QED BY <3>2, PieceFacts
  <2>. QED BY <1>1, <2>1, <2>2
<1>10. \A j \in 1..m : e[j] = d[n - m + j]
  <2>. SUFFICES ASSUME NEW j \in 1..m
                PROVE  e[j] = d[n - m + j]
    OBVIOUS
  <2>1. n - m + j \in 1..n /\ n - m + j + 7 = n + 7 - m + j
    BY <1>1, <1>9
  <2>2. Word(e[j]) = Word(d[n - m + j])
    BY <1>3, <1>8, <2>1
  <2>3. e[j] \in Letters /\ d[n - m + j] \in Letters
    BY <2>1, PieceFacts DEF n, m
  <2>. QED BY <2>2, <2>3, PieceFacts
<1>11. /\ Reverse(e) \in Seq(STRING) /\ Reverse(d) \in Seq(STRING)
       /\ Len(Reverse(e)) = m /\ Len(Reverse(d)) = n
       /\ \A j \in 1..m : Reverse(e)[j] = e[m - j + 1]
       /\ \A j \in 1..n : Reverse(d)[j] = d[n - j + 1]
  BY <1>1 DEF Reverse, n, m
<1>12. \A j \in 1..m : Reverse(e)[j] = Reverse(d)[j]
  <2>. SUFFICES ASSUME NEW j \in 1..m
                PROVE  Reverse(e)[j] = Reverse(d)[j]
    OBVIOUS
  <2>1. m - j + 1 \in 1..m /\ n - m + (m - j + 1) = n - j + 1 /\ j \in 1..n
    BY <1>1, <1>9
  <2>2. Reverse(e)[j] = e[m - j + 1] /\ Reverse(d)[j] = d[n - j + 1]
    BY <1>11, <2>1
  <2>3. e[m - j + 1] = d[n - m + (m - j + 1)]
    BY <1>10, <2>1
  <2>. QED BY <2>1, <2>2, <2>3
<1>13. SubSeq(Reverse(e), 1, m) = SubSeq(Reverse(d), 1, m)
  BY <1>1, <1>9, <1>11, <1>12
<1>. QED BY <1>1, <1>9, <1>11, <1>13 DEF IsSuffix, IsPrefix

\* What a search gives, when it is known where the first match is.
LEMMA FoundAt ==
    ASSUME NEW I \in SUBSET Nat, NEW k \in I, \A i \in I : k <= i
    PROVE  (IF I # {} THEN Min(I) ELSE 0) = k
<1>1. I # {}
  OBVIOUS
<1>2. Min(I) \in I /\ Min(I) <= k
  BY <1>1, LeastOf
<1>3. Min(I) \in Nat /\ k \in Nat /\ k <= Min(I)
  BY <1>2
<1>. QED BY <1>1, <1>2, <1>3

\* What is behind the ":" begins with the kind and the id, and both are read from there.
LEMMA ParseFacts ==
    ASSUME NEW kind \in MessageKinds, NEW id \in Nat, NEW d \in Domains, NEW aware \in BOOLEAN
    PROVE  LET k == Key(kind, id, d, aware)
           IN  /\ IsPrefix(<<Word(kind), Dot>>, Body(k))
               /\ \A kinds, span : kind \in kinds =>
                     ParseKey(k, kinds, span) = [ret |-> 0, id |-> IdRead(id, span), kind |-> kind]
               /\ k[6][2] = id
<1>. DEFINE k == Key(kind, id, d, aware)
            body == Body(k)
            z == Len(body)
<1>1. /\ k \in Seq(KeyPieces) /\ Len(k) \in Nat /\ Len(k) >= 8
      /\ k[1] = Word("@") /\ k[2] = Word("to") /\ k[3] = Word(":")
      /\ k[4] = Word(kind) /\ k[5] = Dot /\ k[6] = IdText(id) /\ k[7] = Dot
  <2>. DEFINE s == Suffix(d, aware)
  <2>1. Len(s) \in Nat
    BY SuffixFacts
  <2>2. /\ k \in Seq(KeyPieces) /\ Len(k) = Len(s) + 8
        /\ k[1] = Word("@") /\ k[2] = Word("to") /\ k[3] = Word(":")
        /\ k[4] = Word(kind) /\ k[5] = Dot /\ k[6] = IdText(id) /\ k[7] = Dot
    BY KeyFacts
  <2>. HIDE DEF s, k
  <2>. QED BY <2>1, <2>2
<1>2. Word("@") # Word(":") /\ Word("to") # Word(":") /\ Word(kind) # Dot /\ IdText(id) # Dot
  <2>1. kind \in Letters /\ "." \in Letters /\ "@" \in Letters /\ "to" \in Letters /\ ":" \in Letters
    BY PieceFacts DEF Spelling
  <2>2. kind # "."
    BY DEF MessageKinds, Answers
  <2>. QED BY <2>1, <2>2, PieceFacts DEF Dot
<1>. HIDE DEF k
<1>3. SelectInSeq(k, LAMBDA c : c = Word(":")) = 3
  <2>1. 3 \in 1..Len(k) /\ \A i \in 1..(3 - 1) : i = 1 \/ i = 2
    BY <1>1
  <2>2. \A i \in 1..(3 - 1) : k[i] # Word(":")
    BY <1>1, <1>2, <2>1
  <2>. DEFINE I == {i \in 1..Len(k) : k[i] = Word(":")}
  <2>3. I \in SUBSET Nat /\ 3 \in I /\ \A i \in I : 3 <= i
    BY <1>1, <2>1, <2>2
  <2>4. SelectInSeq(k, LAMBDA c : c = Word(":")) = IF I # {} THEN Min(I) ELSE 0
    BY DEF SelectInSeq
  <2>. HIDE DEF I
  <2>5. (IF I # {} THEN Min(I) ELSE 0) = 3
    BY <2>3, FoundAt
  <2>. QED BY <2>4, <2>5
<1>4. body = SubSeq(k, 4, Len(k))
  <2>. DEFINE colon == SelectInSeq(k, LAMBDA c : c = Word(":"))
  <2>1. body = SubSeq(k, colon + 1, Len(k))
    BY DEF Body
  <2>2. colon + 1 = 4
    BY <1>3
  <2>. HIDE DEF colon
  <2>. QED BY <2>1, <2>2
<1>5. /\ z \in Nat /\ z >= 4
      /\ body[1] = Word(kind) /\ body[2] = Dot /\ body[3] = IdText(id) /\ body[4] = Dot
      /\ body \in Seq(KeyPieces)
  <2>1. /\ body \in Seq(KeyPieces)
        /\ z = IF 4 <= Len(k) THEN Len(k) - 4 + 1 ELSE 0
        /\ \A i \in 1..(Len(k) - 4 + 1) : body[i] = k[4 + i - 1]
    BY <1>1, <1>4, SubSeqProperties
  <2>2. 1 \in 1..(Len(k) - 4 + 1) /\ 2 \in 1..(Len(k) - 4 + 1)
        /\ 3 \in 1..(Len(k) - 4 + 1) /\ 4 \in 1..(Len(k) - 4 + 1)
    BY <1>1
  <2>3. body[1] = k[4] /\ body[2] = k[5] /\ body[3] = k[6] /\ body[4] = k[7]
    BY <2>1, <2>2
  <2>. QED BY <1>1, <2>1, <2>3
<1>. HIDE DEF body, z
<1>6. SelectInSeq(body, LAMBDA c : c = Dot) = 2
  <2>1. 2 \in 1..z /\ \A i \in 1..(2 - 1) : i = 1
    BY <1>5
  <2>2. \A i \in 1..(2 - 1) : body[i] # Dot
    BY <1>2, <1>5, <2>1
  <2>. DEFINE I == {i \in 1..z : body[i] = Dot}
  <2>3. I \in SUBSET Nat /\ 2 \in I /\ \A i \in I : 2 <= i
    BY <1>5, <2>1, <2>2
  <2>4. SelectInSeq(body, LAMBDA c : c = Dot) = IF I # {} THEN Min(I) ELSE 0
    BY DEF SelectInSeq, z
  <2>. HIDE DEF I
  <2>5. (IF I # {} THEN Min(I) ELSE 0) = 2
    BY <2>3, FoundAt
  <2>. QED BY <2>4, <2>5
<1>7. SelectInSubSeq(body, 3, z, LAMBDA c : c = Dot) = 4
  <2>1. 4 \in 3..z /\ \A i \in 3..(4 - 1) : i = 3
    BY <1>5
  <2>2. \A i \in 3..(4 - 1) : body[i] # Dot
    BY <1>2, <1>5, <2>1
  <2>. DEFINE I == {i \in 3..z : body[i] = Dot}
  <2>3. I \in SUBSET Nat /\ 4 \in I /\ \A i \in I : 4 <= i
    BY <1>5, <2>1, <2>2
  <2>4. SelectInSubSeq(body, 3, z, LAMBDA c : c = Dot) = IF I # {} THEN Min(I) ELSE 0
    BY DEF SelectInSubSeq
  <2>. HIDE DEF I
  <2>5. (IF I # {} THEN Min(I) ELSE 0) = 4
    BY <2>3, FoundAt
  <2>. QED BY <2>4, <2>5
<1>8. /\ body[1][2] = kind /\ body[3][1] = "id" /\ body[3][2] = id /\ k[6][2] = id
  BY <1>1, <1>5 DEF Word, IdText
<1>9. ASSUME NEW kinds, NEW span, kind \in kinds
      PROVE  ParseKey(k, kinds, span) = [ret |-> 0, id |-> IdRead(id, span), kind |-> kind]
  <2>1. SelectInSubSeq(body, 2 + 1, Len(body), LAMBDA c : c = Dot) = 4
    BY <1>7 DEF z
  <2>. QED BY <1>6, <1>8, <1>9, <2>1 DEF ParseKey, body
<1>10. IsPrefix(<<Word(kind), Dot>>, body)
  <2>. DEFINE p == <<Word(kind), Dot>>
  <2>1. Len(p) = 2 /\ p[1] = body[1] /\ p[2] = body[2]
    BY <1>5
  <2>2. p \in Seq(KeyPieces)
    <3>1. Word(kind) \in KeyPieces /\ Dot \in KeyPieces
      BY PieceFacts, WordFacts DEF Spelling
    <3>. QED BY <3>1
  <2>. HIDE DEF p
  <2>3. SubSeq(p, 1, 2) = SubSeq(body, 1, 2)
    <3>1. \A i \in 1..2 : p[i] = body[i]
      BY <2>1
    <3>. QED BY <1>5, <2>1, <2>2, <3>1 DEF z
  <2>4. 2 <= Len(body)
    BY <1>5 DEF z
  <2>5. IsPrefix(p, body)
    BY <2>1, <2>3, <2>4 DEF IsPrefix
  <2>. QED BY <2>5 DEF p
<1>. QED BY <1>8, <1>9, <1>10 DEF k, body

\* Of the kinds it may be, a key is read as the one it has, with its id.
LEMMA KeyIsRead ==
    ASSUME NEW kind \in MessageKinds, NEW id \in Nat, NEW d \in Domains, NEW aware \in BOOLEAN,
           NEW kinds, kind \in kinds, NEW span
    PROVE  ParseKey(Key(kind, id, d, aware), kinds, span)
             = [ret |-> 0, id |-> IdRead(id, span), kind |-> kind]
<1>. DEFINE P(x, y) == ParseKey(Key(kind, id, d, aware), x, y)
                         = [ret |-> 0, id |-> IdRead(id, y), kind |-> kind]
<1>1. \A x, y : kind \in x => P(x, y)
  BY Zenon, ParseFacts
<1>2. P(kinds, span)
  <2>. HIDE DEF P
  <2>. QED BY Zenon, <1>1
<1>. QED BY <1>2

\* An id of 32 bits is read as it is, wherever an unsigned long holds it.
LEMMA ShortIds ==
    ASSUME NEW id \in Nat, NEW span \in LongSpans
    PROVE  /\ IdRead(id, span) \in Nat
           /\ id < IdSpan => IdRead(id, span) = id
<1>1. span \in Nat /\ IdSpan \in Nat \ {0} /\ IdSpan <= span
  BY RpcNumbers
<1>. QED BY <1>1 DEF IdRead

-----------------------------------------------------------------------------
(* A request and its answers                                               *)

\* The keys of a request and of its answers, and how the id of the one became the other's.
RequestInv == request # Nothing =>
    \E from \in {"device", "peer"}, id \in Ids, d \in Domains, aware \in BOOLEAN :
        /\ request = [from |-> from, id |-> id, domain |-> d, key |-> Key("request", id, d, aware)]
        /\ from = "device" => id < IdSpan

ResponseInv == response # Nothing =>
    /\ request # Nothing
    /\ \E kind \in Answers, id \in Nat, d \in Domains, aware \in BOOLEAN, span \in LongSpans :
          /\ response = [kind |-> kind, span |-> span, key |-> Key(kind, id, d, aware)]
          /\ d = request.domain \/ IsSuffix(d, request.domain)
          /\ request.from = "device" => id = request.id /\ d = request.domain
          /\ request.id < IdSpan => id = request.id

RpcInv == RequestInv /\ ResponseInv

\* Asking and answering keep it.
LEMMA RpcStep ==
    ASSUME RpcInv, RpcNext
    PROVE  RpcInv'
<1>1. ASSUME NEW id \in Ids, NEW d \in Domains, DeviceAsks(id, d)
      PROVE  RpcInv'
  <2>1. RequestInv'
    BY <1>1 DEF DeviceAsks, RequestInv
  <2>2. ResponseInv'
    BY <1>1 DEF DeviceAsks, RpcInv, ResponseInv
  <2>. QED BY <2>1, <2>2 DEF RpcInv
<1>2. ASSUME NEW id \in Ids, NEW d \in Domains, NEW aware \in BOOLEAN, PeerAsks(id, d, aware)
      PROVE  RpcInv'
  <2>1. RequestInv'
    BY <1>2 DEF PeerAsks, RequestInv
  <2>2. ResponseInv'
    BY <1>2 DEF PeerAsks, RpcInv, ResponseInv
  <2>. QED BY <2>1, <2>2 DEF RpcInv
<1>3. ASSUME NEW kind \in Answers, NEW d \in Domains, NEW span \in LongSpans,
             DeviceAnswers(kind, d, span)
      PROVE  RpcInv'
  <2>1. request # Nothing /\ request.from = "peer" /\ UNCHANGED request
    BY <1>3 DEF DeviceAnswers
  <2>2. PICK from \in {"device", "peer"}, id \in Ids, e \in Domains, aware \in BOOLEAN :
           request = [from |-> from, id |-> id, domain |-> e, key |-> Key("request", id, e, aware)]
    BY <2>1 DEF RpcInv, RequestInv
  <2>3. id \in Nat /\ "request" \in MessageKinds
    BY RpcNumbers DEF MessageKinds
  <2>4. ParseRequest(request.key, span).id = IdRead(id, span)
    <3>1. ParseKey(Key("request", id, e, aware), {"request"}, span)
            = [ret |-> 0, id |-> IdRead(id, span), kind |-> "request"]
      <4>1. "request" \in {"request"}
        OBVIOUS
      <4>. QED BY <2>3, <4>1, KeyIsRead
    <3>2. request.key = Key("request", id, e, aware)
      BY <2>2
    <3>. QED BY <3>1, <3>2 DEF ParseRequest
  <2>5. IsSuffix(d, e)
    BY <1>3, <2>2, <2>3, OtherNamespace DEF DeviceAnswers, IsRequestKey
  <2>6. response' = [kind |-> kind, span |-> span, key |-> Key(kind, IdRead(id, span), d, TRUE)]
    BY <1>3, <2>4 DEF DeviceAnswers
  <2>7. IdRead(id, span) \in Nat /\ (id < IdSpan => IdRead(id, span) = id)
    BY <2>3, ShortIds
  <2>8. /\ d = request'.domain \/ IsSuffix(d, request'.domain)
        /\ request'.from # "device"
        /\ request'.id < IdSpan => IdRead(id, span) = request'.id
    BY <2>1, <2>2, <2>5, <2>7
  <2>9. ResponseInv'
    BY <2>1, <2>6, <2>7, <2>8 DEF ResponseInv
  <2>. QED BY <2>1, <2>9 DEF RpcInv, RequestInv
<1>4. ASSUME NEW kind \in Answers, NEW aware \in BOOLEAN, PeerAnswers(kind, aware)
      PROVE  RpcInv'
  <2>1. request # Nothing /\ request.from = "device" /\ UNCHANGED request
    BY <1>4 DEF PeerAnswers
  <2>2. request.id \in Nat /\ request.domain \in Domains
    BY <2>1, RpcNumbers DEF RpcInv, RequestInv
  <2>3. PICK span \in LongSpans :
           response' = [kind |-> kind, span |-> span,
                        key |-> Key(kind, request.id, request.domain, aware)]
    BY <1>4 DEF PeerAnswers
  <2>4. ResponseInv'
    BY <2>1, <2>2, <2>3 DEF ResponseInv
  <2>. QED BY <2>1, <2>4 DEF RpcInv, RequestInv
<1>. QED BY <1>1, <1>2, <1>3, <1>4 DEF RpcNext

\* An answer names the id and the domain of its request, or the exceptions apply.
LEMMA AnswersFind == RpcInv => AnswersFindTheirRequest
<1>. SUFFICES ASSUME RpcInv, request # Nothing, response # Nothing
              PROVE  AnswersFindTheirRequest
  BY DEF AnswersFindTheirRequest
<1>1. PICK kind \in Answers, id \in Nat, d \in Domains, aware \in BOOLEAN, span \in LongSpans :
         /\ response = [kind |-> kind, span |-> span, key |-> Key(kind, id, d, aware)]
         /\ d = request.domain \/ IsSuffix(d, request.domain)
         /\ request.from = "device" => id = request.id /\ d = request.domain
         /\ request.id < IdSpan => id = request.id
  BY DEF RpcInv, ResponseInv
<1>2. request.domain \in Domains /\ request.id \in Nat /\ request.from \in {"device", "peer"}
  BY RpcNumbers DEF RpcInv, RequestInv
<1>. DEFINE k == Key(kind, id, d, aware)
            asked == request.domain
<1>3. response.key = k /\ response.span = span /\ response.kind = kind /\ kind \in MessageKinds
  BY <1>1 DEF MessageKinds
<1>4. /\ ParseResponseKey(k, span) = [ret |-> 0, id |-> IdRead(id, span), kind |-> kind]
      /\ IsPrefix(<<Word(kind), Dot>>, Body(k)) /\ k[6][2] = id
  <2>1. ParseKey(k, Answers, span) = [ret |-> 0, id |-> IdRead(id, span), kind |-> kind]
    BY <1>3, KeyIsRead
  <2>2. IsPrefix(<<Word(kind), Dot>>, Body(k)) /\ k[6][2] = id
    BY <1>3, ParseFacts
  <2>. QED BY <2>1, <2>2 DEF ParseResponseKey
<1>5. d # asked => EndsWithAnother(asked)
  BY <1>1 DEF EndsWithAnother
<1>6. IsResponseKey(k, d)
  BY <1>3, <1>4, OwnNamespace DEF IsResponseKey
<1>7. ASSUME ~EndsWithAnother(asked), NEW e \in Domains \ {asked}
      PROVE  ~IsResponseKey(k, e)
  <2>1. d = asked
    BY <1>5, <1>7
  <2>2. InNamespace(k, e) => IsSuffix(e, asked)
    BY <1>3, <2>1, OtherNamespace
  <2>. QED BY <1>7, <2>2 DEF EndsWithAnother, IsResponseKey
<1>8. request.id < IdSpan => IdRead(id, span) = request.id /\ id = request.id
  BY <1>1, <1>2, ShortIds
<1>. DEFINE read == ParseResponseKey(response.key, response.span)
            told == IF request.from = "peer" THEN response.key[6][2] ELSE read.id
<1>9. read.ret = 0 /\ read.kind = kind /\ read.id = IdRead(id, span)
  BY <1>3, <1>4
<1>10. request.id < IdSpan => told = request.id
  BY <1>3, <1>4, <1>8, <1>9
<1>11. IsResponseKey(response.key, asked) \/ EndsWithAnother(asked)
  BY <1>3, <1>5, <1>6
<1>12. ~EndsWithAnother(asked) => \A e \in Domains \ {asked} : ~IsResponseKey(response.key, e)
  BY <1>3, <1>7
<1>. HIDE DEF read, told, k, asked
<1>. QED BY <1>3, <1>9, <1>10, <1>11, <1>12 DEF AnswersFindTheirRequest, read, told, asked

-----------------------------------------------------------------------------
(* The metadata of a command                                               *)

\* What a field's value is.
ValueFits(f, v) ==
    /\ f \in NumberFields => v \in Int
    /\ f \in FlagFields => v \in {0, 1}
    /\ f \in TextFields => v \in Nat

\* Fields of the metadata, each with a value of its kind.
Fits(m) == \A f \in DOMAIN m : f \in FieldNames /\ ValueFits(f, m[f])

\* The characters counted for the n-th field: none if it is not set.
Counted(m, n) == IF FieldOrder[n] \in DOMAIN m THEN FieldStrlen(FieldOrder[n], m[FieldOrder[n]]) ELSE 0

\* What is counted for a number.
LEMMA NumberLength ==
    ASSUME NEW v \in Int
    PROVE  DigitCount(v) \in Nat /\ Int64Strlen(v) \in Nat /\ Len(Decimal(v)) = Int64Strlen(v)
<1>1. DigitCount(v) \in Nat
  <2>. DEFINE I == {i \in 0 .. MaxPower : 10^i <= Magnitude(v)}
  <2>1. IsFiniteSet(0 .. MaxPower)
    BY TextBounds, FS_Interval
  <2>2. IsFiniteSet(I)
    BY <2>1, FS_Subset
  <2>3. Cardinality(I) \in Nat
    <3>. HIDE DEF I
    <3>. QED BY <2>2, FS_CardinalityType
  <2>. QED BY <2>3 DEF DigitCount
<1>2. Int64Strlen(v) \in Nat
  BY <1>1 DEF Int64Strlen
<1>3. Len(Decimal(v)) = Int64Strlen(v)
  BY <1>1, <1>2 DEF Decimal, Int64Strlen
<1>. QED BY <1>1, <1>2, <1>3

\* Every field takes as many characters as are counted for it, and none is the terminator.
LEMMA PrintedFacts ==
    ASSUME NEW f \in FieldNames, NEW v, ValueFits(f, v)
    PROVE  LET n == FieldStrlen(f, v)
               p == Printed(f, v)
           IN  /\ n \in Nat /\ n > 0
               /\ p = [i \in 1..n |-> p[i]] /\ Len(p) = n
               /\ \A i \in 1..n : p[i] # <<NUL>>
<1>. DEFINE body == CASE f \in NumberFields -> Decimal(v)
                      [] f \in FlagFields -> <<<<"flag", v>>>>
                      [] f \in TextFields -> [i \in 1 .. v |-> <<"char", f>>]
            k == CASE f \in NumberFields -> Int64Strlen(v)
                   [] f \in FlagFields -> 1
                   [] f \in TextFields -> v
            head == <<<<":", f>>>>
            S == {body[i] : i \in 1..k} \cup {<<":", f>>}
<1>1. \/ f \in NumberFields /\ body = Decimal(v) /\ k = Int64Strlen(v) /\ v \in Int
      \/ f \in FlagFields /\ body = <<<<"flag", v>>>> /\ k = 1
      \/ f \in TextFields /\ body = [i \in 1 .. v |-> <<"char", f>>] /\ k = v /\ v \in Nat
  BY FieldKinds DEF FieldNames, ValueFits
<1>2. k \in Nat /\ body = [i \in 1..k |-> body[i]] /\ \A i \in 1..k : body[i] # <<NUL>>
  <2>1. CASE f \in NumberFields /\ body = Decimal(v) /\ k = Int64Strlen(v) /\ v \in Int
    <3>1. Decimal(v) = [i \in 1..Int64Strlen(v) |-> Decimal(v)[i]]
      BY <2>1, NumberLength DEF Decimal, Int64Strlen
    <3>2. ASSUME NEW i \in 1..Int64Strlen(v)
          PROVE  Decimal(v)[i] # <<NUL>>
      <4>1. \/ Decimal(v)[i] = <<"-">>
            \/ \E d : Decimal(v)[i] = <<"digit", d>>
        BY <2>1, NumberLength DEF Decimal, Int64Strlen
      <4>. QED BY <4>1 DEF NUL
    <3>. HIDE DEF body, k
    <3>. QED BY <2>1, <3>1, <3>2, NumberLength
  <2>2. CASE f \in FlagFields /\ body = <<<<"flag", v>>>> /\ k = 1
    <3>. HIDE DEF body, k
    <3>. QED BY <2>2 DEF NUL
  <2>3. CASE f \in TextFields /\ body = [i \in 1 .. v |-> <<"char", f>>] /\ k = v /\ v \in Nat
    <3>. HIDE DEF body, k
    <3>. QED BY <2>3 DEF NUL
  <2>. QED BY <1>1, <2>1, <2>2, <2>3
<1>. HIDE DEF body, k
<1>3. head \in Seq(S) /\ Len(head) = 1 /\ head[1] = <<":", f>>
  OBVIOUS
<1>4. body \in Seq(S) /\ Len(body) = k
  BY <1>2
<1>5. FieldStrlen(f, v) = 1 + k /\ Printed(f, v) = head \o body
  BY DEF FieldStrlen, Printed, k, body
<1>. HIDE DEF head, S
<1>6. /\ head \o body \in Seq(S) /\ Len(head \o body) = 1 + k
      /\ (head \o body)[1] = <<":", f>>
      /\ \A i \in 1..k : (head \o body)[1 + i] = body[i]
  <2>1. head \in Seq(S) /\ body \in Seq(S)
    BY <1>3, <1>4
  <2>2. /\ head \o body \in Seq(S) /\ Len(head \o body) = Len(head) + Len(body)
        /\ \A i \in 1..Len(head) : (head \o body)[i] = head[i]
        /\ \A i \in 1..Len(body) : (head \o body)[Len(head) + i] = body[i]
    BY <2>1, Joined
  <2>. QED BY <1>2, <1>3, <1>4, <2>2
<1>7. ASSUME NEW i \in 1..(1 + k)
      PROVE  (head \o body)[i] # <<NUL>>
  <2>1. CASE i = 1
    BY <1>6, <2>1 DEF NUL
  <2>2. CASE i # 1
    <3>1. i - 1 \in 1..k /\ 1 + (i - 1) = i
      BY <1>2, <2>2
    <3>. QED BY <1>2, <1>6, <3>1
  <2>. QED BY <2>1, <2>2
<1>8. head \o body = [i \in 1..(1 + k) |-> (head \o body)[i]]
  BY <1>2, <1>6
<1>. DEFINE p == head \o body
            n == 1 + k
<1>9. n \in Nat /\ n > 0 /\ p = [i \in 1..n |-> p[i]] /\ Len(p) = n /\ \A i \in 1..n : p[i] # <<NUL>>
  <2>1. n \in Nat /\ n > 0
    BY <1>2
  <2>2. Len(p) = n
    BY <1>6
  <2>3. p = [i \in 1..n |-> p[i]]
    BY <1>8
  <2>4. \A i \in 1..n : p[i] # <<NUL>>
    BY <1>7
  <2>. HIDE DEF n, p
  <2>. QED BY <2>1, <2>2, <2>3, <2>4
<1>10. FieldStrlen(f, v) = n /\ Printed(f, v) = p
  BY <1>5
<1>. HIDE DEF n, p
<1>. QED BY <1>9, <1>10

\* So what is counted of a metadata's fields are numbers.
LEMMA CountedNat ==
    ASSUME NEW m, Fits(m), NEW n \in 1..FieldCount
    PROVE  Counted(m, n) \in Nat
BY PrintedFacts DEF Fits, Counted

\* What is counted up to a field is what is counted before it and for it.
LEMMA LengthSolves ==
    ASSUME NEW m, Fits(m)
    PROVE  LET len == LengthUpTo(m)
           IN  /\ len \in [0 .. FieldCount -> Nat]
               /\ len[0] = 0
               /\ \A n \in 1 .. FieldCount : len[n] = len[n - 1] + Counted(m, n)
<1>. DEFINE step == [n \in 1..FieldCount |-> [k \in Nat |-> k + Counted(m, n)]]
            Eq(f) == f = [n \in 0 .. FieldCount |-> IF n = 0 THEN 0 ELSE f[n - 1] + Counted(m, n)]
            len == LengthUpTo(m)
<1>1. FieldCount \in Nat
  BY FieldKinds DEF FieldCount
<1>2. \A n \in 1..FieldCount : Counted(m, n) \in Nat
  BY CountedNat
<1>3. step \in [1..FieldCount -> [Nat -> Nat]]
  BY <1>2
<1>4. \A n \in 1..FieldCount : \A k \in Nat : step[n][k] = k + Counted(m, n)
  OBVIOUS
<1>. HIDE DEF step
<1>5. PICK g \in [0..FieldCount -> Nat] : g[0] = 0 /\ \A n \in 1..FieldCount : g[n] = step[n][g[n - 1]]
  <2>. DEFINE T == Nat
              zero == 0
  <2>1. zero \in T /\ step \in StepsIn(FieldCount, T)
    BY <1>3 DEF StepsIn
  <2>2. \E g : g \in [0..FieldCount -> T] /\ Solves(g, FieldCount, zero, step)
    <3>. HIDE DEF T, zero
    <3>. QED BY <1>1, <2>1, Recursion
  <2>. QED BY <2>2 DEF Solves
<1>6. \A n \in 1..FieldCount : g[n] = g[n - 1] + Counted(m, n)
  <2>. TAKE n \in 1..FieldCount
  <2>1. g[n - 1] \in Nat
    BY <1>1
  <2>. QED BY <1>4, <1>5, <2>1
<1>7. Eq(g)
  BY <1>1, <1>5, <1>6
<1>8. len = CHOOSE f : Eq(f)
  BY DEF LengthUpTo, Counted
<1>9. Eq(len)
  <2>. HIDE DEF Eq, len
  <2>. QED BY <1>7, <1>8
<1>. HIDE DEF len
<1>10. len = [n \in 0..FieldCount |-> len[n]] /\ len[0] = 0
  BY <1>1, <1>9
<1>11. \A n \in 1..FieldCount : len[n] = len[n - 1] + Counted(m, n)
  BY <1>1, <1>9
<1>12. \A n \in 1..FieldCount : len[n - 1] \in Nat => len[n] \in Nat
  BY <1>2, <1>11
<1>13. len \in [0..FieldCount -> Nat]
  <2>. DEFINE T == Nat
  <2>1. len[0] \in T /\ \A n \in 1..FieldCount : len[n - 1] \in T => len[n] \in T
    BY <1>10, <1>12
  <2>2. len \in [0..FieldCount -> T]
    <3>. HIDE DEF T
    <3>. QED BY <1>1, <1>10, <2>1, StaysIn
  <2>. QED BY <2>2
<1>. QED BY <1>10, <1>11, <1>13 DEF len

\* What is counted up to a field is no more than what is counted.
LEMMA LengthGrows ==
    ASSUME NEW m, Fits(m), NEW n \in 0..FieldCount
    PROVE  LengthUpTo(m)[n] <= ProtocolStrlen(m)
<1>. DEFINE len == LengthUpTo(m)
            N == FieldCount
            P == {k \in 0..N : len[N - k] <= len[N]}
<1>1. /\ N \in Nat
      /\ \A k \in 0..N : len[k] \in Nat
      /\ \A k \in 1..N : len[k] = len[k - 1] + Counted(m, k) /\ Counted(m, k) \in Nat
  <2>1. N \in Nat
    BY FieldKinds DEF FieldCount
  <2>. QED BY <2>1, LengthSolves, CountedNat
<1>. HIDE DEF len
<1>2. 0 \in P
  BY <1>1
<1>3. ASSUME NEW k \in 1..N, k - 1 \in P
      PROVE  k \in P
  <2>1. N - k + 1 \in 1..N /\ (N - k + 1) - 1 = N - k /\ N - (k - 1) = N - k + 1 /\ N - k \in 0..N /\ N \in 0..N
    BY <1>1
  <2>2. len[N - k + 1] = len[N - k] + Counted(m, N - k + 1) /\ Counted(m, N - k + 1) \in Nat
    BY <1>1, <2>1
  <2>3. len[N - k] \in Nat /\ len[N - k + 1] \in Nat /\ len[N] \in Nat
    BY <1>1, <2>1
  <2>4. len[N - k + 1] <= len[N]
    BY <1>3, <2>1
  <2>5. len[N - k] <= len[N]
    BY <2>2, <2>3, <2>4
  <2>. QED BY <1>1, <2>5
<1>4. \A k \in 0..N : k \in P
  <2>1. P \in SUBSET (0..N)
    OBVIOUS
  <2>. HIDE DEF P
  <2>. QED BY <1>1, <1>2, <1>3, <2>1, UpTo
<1>5. N - n \in 0..N /\ N - (N - n) = n
  BY <1>1
<1>. QED BY <1>4, <1>5 DEF ProtocolStrlen, len

\* What is flattened comes one sequence after another.
LEMMA Flattened ==
    ASSUME NEW C, NEW ss \in Seq(Seq(C))
    PROVE  \E flat : /\ flat \in [0..Len(ss) -> Seq(C)]
                     /\ flat[0] = <<>>
                     /\ \A n \in 1..Len(ss) : flat[n] = flat[n - 1] \o ss[n]
                     /\ FlattenSeq(ss) = flat[Len(ss)]
<1>. DEFINE N == Len(ss)
            T == Seq(C)
            none == <<>>
            step == [n \in 1..N |-> [t \in T |-> t \o ss[n]]]
<1>1. N \in Nat /\ \A n \in 1..N : ss[n] \in T
  OBVIOUS
<1>2. none \in T /\ \A n \in 1..N : \A t \in T : t \o ss[n] \in T
  BY <1>1
<1>3. step \in StepsIn(N, T)
  <2>. HIDE DEF T, N
  <2>. QED BY <1>2 DEF StepsIn
<1>4. \A n \in 1..N : \A t \in T : step[n][t] = t \o ss[n]
  OBVIOUS
<1>5. PICK flat : flat \in [0..N -> T] /\ Solves(flat, N, none, step)
  <2>. HIDE DEF T, N, none, step
  <2>. QED BY <1>1, <1>2, <1>3, Recursion
<1>6. flat[0] = none /\ \A n \in 1..N : flat[n] = flat[n - 1] \o ss[n]
  <2>. HIDE DEF N, T, none, step
  <2>1. flat[0] = none /\ \A n \in 1..N : flat[n] = step[n][flat[n - 1]]
    BY <1>5 DEF Solves
  <2>2. ASSUME NEW n \in 1..N
        PROVE  flat[n] = flat[n - 1] \o ss[n]
    <3>1. n - 1 \in 0..N
      BY <1>1
    <3>2. flat[n - 1] \in T
      BY <1>5, <3>1
    <3>3. step[n][flat[n - 1]] = flat[n - 1] \o ss[n]
      BY <1>4, <3>2
    <3>. QED BY <2>1, <3>3
  <2>. QED BY <2>1, <2>2
<1>. DEFINE Eq(f) == f = [i \in 1..N |-> IF i = 1 THEN ss[i] ELSE f[i - 1] \o ss[i]]
            F == CHOOSE f : Eq(f)
<1>7. FlattenSeq(ss) = IF N = 0 THEN ss ELSE F[N]
  BY DEF FlattenSeq
<1>. HIDE DEF F
<1>8. FlattenSeq(ss) = flat[N]
  <2>1. CASE N = 0
    <3>1. ss = <<>>
      BY <2>1, EmptySeq
    <3>2. FlattenSeq(ss) = ss
      BY <1>7, <2>1
    <3>. QED BY <1>6, <2>1, <3>1, <3>2
  <2>2. CASE N # 0
    <3>. DEFINE G == [i \in 1..N |-> flat[i]]
    <3>1. FlattenSeq(ss) = F[N]
      BY <1>7, <2>2
    <3>2. flat[1] = ss[1]
      <4>1. 1 \in 1..N /\ 1 - 1 = 0
        BY <1>1, <2>2
      <4>2. flat[1] = flat[0] \o ss[1] /\ flat[0] = <<>> /\ ss[1] \in Seq(C)
        BY <1>1, <1>6, <4>1
      <4>. QED BY <4>2
    <3>3. Eq(G)
      <4>. HIDE DEF N, T, none
      <4>1. \A i \in 1..N : i # 1 => i - 1 \in 1..N
        BY <1>1
      <4>2. \A i \in 1..N : flat[i] = IF i = 1 THEN ss[i] ELSE G[i - 1] \o ss[i]
        <5>. TAKE i \in 1..N
        <5>1. CASE i = 1
          BY <1>1, <1>6, <3>2, <5>1
        <5>2. CASE i # 1
          <6>1. G[i - 1] = flat[i - 1]
            BY <4>1, <5>2
          <6>2. flat[i] = flat[i - 1] \o ss[i]
            BY <1>6
          <6>. HIDE DEF G
          <6>. QED BY <5>2, <6>1, <6>2
        <5>. QED BY <5>1, <5>2
      <4>. QED BY <4>2
    <3>4. Eq(F)
      <4>. HIDE DEF Eq
      <4>. QED BY <3>3 DEF F
    <3>. DEFINE P == {n \in 0..N : n = 0 \/ F[n] = flat[n]}
    <3>5. 0 \in P /\ P \in SUBSET (0..N)
      BY <1>1
    <3>6. ASSUME NEW n \in 1..N, n - 1 \in P
          PROVE  n \in P
      <4>1. F[n] = IF n = 1 THEN ss[n] ELSE F[n - 1] \o ss[n]
        BY <3>4
      <4>2. n # 1 => F[n - 1] = flat[n - 1]
        BY <3>6
      <4>3. F[n] = flat[n]
        <5>. HIDE DEF N, T, none, P
        <5>1. flat[n] = flat[n - 1] \o ss[n]
          BY <1>6
        <5>2. CASE n = 1
          BY <3>2, <4>1, <5>1, <5>2
        <5>3. CASE n # 1
          BY <4>1, <4>2, <5>1, <5>3
        <5>. QED BY <5>2, <5>3
      <4>. QED BY <1>1, <4>3
    <3>7. \A n \in 0..N : n \in P
      <4>. HIDE DEF P, N
      <4>. QED BY <1>1, <3>5, <3>6, UpTo
    <3>8. F[N] = flat[N]
      BY <1>1, <2>2, <3>7
    <3>. QED BY <3>1, <3>8
  <2>. QED BY <2>1, <2>2
<1>. QED BY <1>5, <1>6, <1>8

\* What the fields look like, one after another, and what they are made of.
Parts(m) == [i \in 1 .. FieldCount |->
                IF FieldOrder[i] \in DOMAIN m THEN Printed(FieldOrder[i], m[FieldOrder[i]]) ELSE <<>>]
Characters(m) == UNION {{Parts(m)[n][i] : i \in 1..Counted(m, n)} : n \in 1..FieldCount}

\* The parts are as long as counted, and none has the terminator in it.
LEMMA PartsFacts ==
    ASSUME NEW m, Fits(m)
    PROVE  /\ FieldCount \in Nat
           /\ Parts(m) \in Seq(Seq(Characters(m))) /\ Len(Parts(m)) = FieldCount
           /\ \A n \in 1..FieldCount : /\ Len(Parts(m)[n]) = Counted(m, n)
                                       /\ Parts(m)[n] \in Seq(Characters(m))
           /\ <<NUL>> \notin Characters(m)
<1>. DEFINE ps == Parts(m)
            C == Characters(m)
<1>1. FieldCount \in Nat /\ \A n \in 1..FieldCount : FieldOrder[n] \in FieldNames
  BY FieldKinds DEF FieldCount
<1>2. ASSUME NEW n \in 1..FieldCount
      PROVE  /\ Len(ps[n]) = Counted(m, n) /\ ps[n] \in Seq(C)
             /\ \A i \in 1..Counted(m, n) : ps[n][i] # <<NUL>>
  <2>1. \A i \in 1..Counted(m, n) : ps[n][i] \in C
    BY DEF Characters
  <2>2. CASE FieldOrder[n] \in DOMAIN m
    <3>. DEFINE f == FieldOrder[n]
                p == Printed(f, m[f])
                k == FieldStrlen(f, m[f])
    <3>1. ps[n] = p /\ Counted(m, n) = k
      BY <2>2 DEF Parts, Counted
    <3>2. k \in Nat /\ p = [i \in 1..k |-> p[i]] /\ Len(p) = k /\ \A i \in 1..k : p[i] # <<NUL>>
      BY <1>1, <2>2, PrintedFacts DEF Fits
    <3>3. \A i \in 1..k : p[i] \in C
      BY <2>1, <3>1
    <3>. HIDE DEF p, k, C, ps
    <3>4. p \in Seq(C)
      BY <3>2, <3>3
    <3>. QED BY <3>1, <3>2, <3>4
  <2>3. CASE FieldOrder[n] \notin DOMAIN m
    <3>1. ps[n] = <<>> /\ Counted(m, n) = 0
      BY <2>3 DEF Parts, Counted
    <3>. HIDE DEF C, ps
    <3>. QED BY <3>1
  <2>. QED BY <2>2, <2>3
<1>3. ps = [n \in 1..FieldCount |-> ps[n]]
  BY DEF Parts
<1>4. <<NUL>> \notin C
  BY <1>2 DEF Characters
<1>5. ps \in Seq(Seq(C)) /\ Len(ps) = FieldCount
  <2>. DEFINE T == Seq(C)
  <2>1. \A n \in 1..FieldCount : ps[n] \in T
    BY <1>2
  <2>2. ps \in Seq(T) /\ Len(ps) = FieldCount
    <3>. HIDE DEF ps, T
    <3>. QED BY <1>1, <1>3, <2>1
  <2>. QED BY <2>2
<1>. QED BY <1>1, <1>2, <1>4, <1>5

\* the text up to a field: as long as counted, the one before it and the field behind it
Unrolled(m, flat) ==
    LET len == LengthUpTo(m)
    IN  /\ FlattenSeq(Parts(m)) = flat[FieldCount]
        /\ \A n \in 0..FieldCount :
              /\ len[n] \in Nat /\ len[n] <= ProtocolStrlen(m)
              /\ flat[n] \in Seq(Characters(m)) /\ Len(flat[n]) = len[n]
        /\ len[0] = 0
        /\ \A n \in 1..FieldCount :
              /\ len[n] = len[n - 1] + Counted(m, n)
              /\ \A i \in 1..len[n - 1] : flat[n][i] = flat[n - 1][i]
              /\ \A i \in 1..Counted(m, n) : flat[n][len[n - 1] + i] = Parts(m)[n][i]

\* The flattened parts are such a text, up to the last field.
LEMMA TextUpTo ==
    ASSUME NEW m, Fits(m)
    PROVE  \E flat : Unrolled(m, flat)
<1>. DEFINE len == LengthUpTo(m)
            ps == Parts(m)
            C == Characters(m)
            N == FieldCount
<1>1. /\ N \in Nat /\ ps \in Seq(Seq(C)) /\ Len(ps) = N
      /\ \A n \in 1..N : Len(ps[n]) = Counted(m, n) /\ ps[n] \in Seq(C)
  BY PartsFacts
<1>2. /\ \A n \in 0..N : len[n] \in Nat /\ len[n] <= ProtocolStrlen(m)
      /\ len[0] = 0
      /\ \A n \in 1..N : len[n] = len[n - 1] + Counted(m, n)
  BY LengthSolves, LengthGrows
<1>. HIDE DEF len, ps, C, N
<1>3. PICK flat : /\ flat \in [0..N -> Seq(C)]
                  /\ flat[0] = <<>>
                  /\ \A n \in 1..N : flat[n] = flat[n - 1] \o ps[n]
                  /\ FlattenSeq(ps) = flat[N]
  <2>1. ps \in Seq(Seq(C))
    BY <1>1
  <2>2. \E flat : /\ flat \in [0..Len(ps) -> Seq(C)]
                  /\ flat[0] = <<>>
                  /\ \A n \in 1..Len(ps) : flat[n] = flat[n - 1] \o ps[n]
                  /\ FlattenSeq(ps) = flat[Len(ps)]
    BY <2>1, Flattened
  <2>. QED BY <1>1, <2>2
<1>4. ASSUME NEW n \in 1..N
      PROVE  /\ Len(flat[n]) = Len(flat[n - 1]) + Counted(m, n)
             /\ \A i \in 1..Len(flat[n - 1]) : flat[n][i] = flat[n - 1][i]
             /\ \A i \in 1..Counted(m, n) : flat[n][Len(flat[n - 1]) + i] = ps[n][i]
  <2>. DEFINE a == flat[n - 1]
              b == ps[n]
  <2>1. a \in Seq(C) /\ b \in Seq(C) /\ flat[n] = a \o b /\ Len(b) = Counted(m, n)
    <3>1. n - 1 \in 0..N
      BY <1>1
    <3>. QED BY <1>1, <1>3, <3>1
  <2>2. /\ Len(a \o b) = Len(a) + Len(b)
        /\ \A i \in 1..Len(a) : (a \o b)[i] = a[i]
        /\ \A i \in 1..Len(b) : (a \o b)[Len(a) + i] = b[i]
    <3>. HIDE DEF a, b
    <3>1. a \in Seq(C) /\ b \in Seq(C)
      BY <2>1
    <3>. QED BY <3>1, Joined
  <2>. HIDE DEF a, b
  <2>3. /\ Len(flat[n]) = Len(a) + Counted(m, n)
        /\ \A i \in 1..Len(a) : flat[n][i] = a[i]
        /\ \A i \in 1..Counted(m, n) : flat[n][Len(a) + i] = b[i]
    BY <2>1, <2>2
  <2>. QED BY <2>3 DEF a, b
<1>. DEFINE P == {n \in 0..N : Len(flat[n]) = len[n]}
<1>5. \A n \in 0..N : n \in P
  <2>1. P \in SUBSET (0..N) /\ 0 \in P
    BY <1>1, <1>2, <1>3
  <2>2. \A n \in 1..N : n - 1 \in P => n \in P
    BY <1>1, <1>2, <1>4
  <2>. HIDE DEF P
  <2>. QED BY <1>1, <2>1, <2>2, UpTo
<1>6. \A n \in 0..N : Len(flat[n]) = len[n]
  BY <1>5
<1>7. \A n \in 1..N : n - 1 \in 0..N
  BY <1>1
<1>8. \A n \in 1..N : /\ \A i \in 1..len[n - 1] : flat[n][i] = flat[n - 1][i]
                      /\ \A i \in 1..Counted(m, n) : flat[n][len[n - 1] + i] = ps[n][i]
  BY <1>4, <1>6, <1>7
<1>9. \A n \in 0..N : flat[n] \in Seq(C)
  BY <1>3
<1>10. Unrolled(m, flat)
  BY <1>2, <1>3, <1>6, <1>8, <1>9 DEF Unrolled, len, ps, C, N
<1>. QED BY <1>10

\* A number a long holds is printed as it is.
LEMMA LongIsItself ==
    ASSUME NEW f, NEW v, f \in NumberFields => v \in -LongHalf .. LongHalf - 1
    PROVE  FieldAsLong(f, v) = v
<1>1. CASE f \in NumberFields
  <2>. DEFINE d == 2 * LongHalf
              x == v + LongHalf
  <2>1. d \in Nat \ {0} /\ x \in 0 .. d - 1 /\ v = x - LongHalf
    BY <1>1, TextBounds
  <2>2. \A k \in Nat \ {0} : \A y \in 0 .. k - 1 : y % k = y
    OBVIOUS
  <2>3. x % d = x
    <3>. HIDE DEF d, x
    <3>. QED BY <2>1, <2>2
  <2>4. AsLong(v) = x - LongHalf
    BY <2>3 DEF AsLong
  <2>. QED BY <1>1, <2>1, <2>4 DEF FieldAsLong
<1>2. CASE f \notin NumberFields
  BY <1>2 DEF FieldAsLong
<1>. QED BY <1>1, <1>2

\* What is printed of a field into the buffer and how far it moves the position.
After(m, n, before) ==
    LET f == FieldOrder[n]
    IN  IF f \notin DOMAIN m THEN before
        ELSE [buf |-> Sprintf(before.buf, before.pos, Printed(f, FieldAsLong(f, m[f]))),
              pos |-> before.pos + FieldStrlen(f, m[f])]

\* The buffer after some fields: their text, and terminators behind it.
Laid(m, flat, n) ==
    [buf |-> [i \in 1 .. ProtocolStrlen(m) + 1 |->
                 IF i <= LengthUpTo(m)[n] THEN flat[n][i] ELSE <<NUL>>],
     pos |-> LengthUpTo(m)[n]]

\* Each field goes where the one before it ended, over terminators and inside the buffer.
LEMMA FieldLaid ==
    ASSUME NEW m, Fits(m), FitsLong(m), NEW flat, Unrolled(m, flat), NEW n \in 1..FieldCount
    PROVE  After(m, n, Laid(m, flat, n - 1)) = Laid(m, flat, n)
<1>. DEFINE len == LengthUpTo(m)
            E == ProtocolStrlen(m)
            N == FieldCount
            f == FieldOrder[n]
            p == Parts(m)[n]
            c == Counted(m, n)
            old == len[n - 1]
            new == len[n]
            before == [i \in 1 .. E + 1 |-> IF i <= old THEN flat[n - 1][i] ELSE <<NUL>>]
            after == [i \in 1 .. E + 1 |-> IF i <= new THEN flat[n][i] ELSE <<NUL>>]
<1>1. /\ old \in Nat /\ c \in Nat /\ new = old + c /\ new <= E /\ E \in Nat
      /\ Len(p) = c
      /\ \A i \in 1..old : flat[n][i] = flat[n - 1][i]
      /\ \A i \in 1..c : flat[n][old + i] = p[i]
  <2>1. N \in Nat /\ N \in 0..N /\ n \in 0..N /\ n - 1 \in 0..N
    BY PartsFacts
  <2>2. c \in Nat /\ Len(p) = c
    BY CountedNat, PartsFacts
  <2>3. E \in Nat
    BY <2>1 DEF Unrolled, ProtocolStrlen
  <2>. QED BY <2>1, <2>2, <2>3 DEF Unrolled
<1>2. CASE f \notin DOMAIN m
  <2>1. c = 0
    BY <1>2 DEF Counted
  <2>2. new = old
    BY <1>1, <2>1
  <2>3. after = before
    <3>. HIDE DEF old, new
    <3>. QED BY <1>1, <2>2
  <2>4. After(m, n, Laid(m, flat, n - 1)) = Laid(m, flat, n - 1)
    BY <1>2 DEF After
  <2>. QED BY <2>2, <2>3, <2>4 DEF Laid
<1>3. CASE f \in DOMAIN m
  <2>1. p = Printed(f, m[f]) /\ c = FieldStrlen(f, m[f])
    BY <1>3 DEF Parts, Counted
  <2>2. FieldAsLong(f, m[f]) = m[f]
    BY <1>3, LongIsItself DEF FitsLong
  <2>3. Sprintf(before, old, p) = after
    <3>1. Len(before) = E + 1
      BY <1>1
    <3>. HIDE DEF E, old, new, p, c
    <3>. DEFINE end == old + Len(p) + 1
    <3>2. end = new + 1 /\ ~(end > Len(before))
      BY <1>1, <3>1
    <3>3. Sprintf(before, old, p)
            = [i \in 1 .. E + 1 |->
                 IF i \in old + 1 .. end THEN (IF i = end THEN <<NUL>> ELSE p[i - old]) ELSE before[i]]
      BY <3>1, <3>2 DEF Sprintf
    <3>4. ASSUME NEW i \in 1 .. E + 1
          PROVE  (IF i \in old + 1 .. end THEN (IF i = end THEN <<NUL>> ELSE p[i - old]) ELSE before[i])
                    = (IF i <= new THEN flat[n][i] ELSE <<NUL>>)
      <4>1. CASE i <= old
        BY <1>1, <3>2, <4>1
      <4>2. CASE i > old /\ i <= new
        <5>1. i - old \in 1..c /\ old + (i - old) = i
          BY <1>1, <4>2
        <5>2. flat[n][i] = p[i - old]
          BY <1>1, <5>1
        <5>. HIDE DEF before
        <5>. QED BY <1>1, <3>2, <4>2, <5>2
      <4>3. CASE i > new
        <5>1. before[i] = <<NUL>>
          BY <1>1, <4>3
        <5>. HIDE DEF before
        <5>. QED BY <1>1, <3>2, <4>3, <5>1
      <4>. QED BY <1>1, <4>1, <4>2, <4>3
    <3>. HIDE DEF before, end
    <3>. QED BY <3>3, <3>4
  <2>4. After(m, n, [buf |-> before, pos |-> old])
          = [buf |-> Sprintf(before, old, p), pos |-> old + c]
    <3>. HIDE DEF before, old, p, c
    <3>. QED BY <1>3, <2>1, <2>2 DEF After
  <2>5. Laid(m, flat, n - 1) = [buf |-> before, pos |-> old]
    BY DEF Laid
  <2>6. Laid(m, flat, n) = [buf |-> after, pos |-> new]
    BY DEF Laid
  <2>. HIDE DEF before, after, old, new, c, p
  <2>. QED BY <1>1, <2>3, <2>4, <2>5, <2>6
<1>. QED BY <1>2, <1>3

\* So in the end the buffer holds the text.
LEMMA BufferHolds ==
    ASSUME NEW m, Fits(m), FitsLong(m), NEW flat, Unrolled(m, flat)
    PROVE  PrintedUpTo(m, ProtocolStrlen(m) + 1)[FieldCount] = Laid(m, flat, FieldCount)
<1>. DEFINE N == FieldCount
            size == ProtocolStrlen(m) + 1
            start == [buf |-> [i \in 1 .. size |-> <<NUL>>], pos |-> 0]
            Eq(f) == f = [n \in 0 .. N |-> IF n = 0 THEN start ELSE After(m, n, f[n - 1])]
            pr == PrintedUpTo(m, size)
            g == [n \in 0 .. N |-> Laid(m, flat, n)]
<1>1. N \in Nat
  BY PartsFacts
<1>2. Laid(m, flat, 0) = start
  <2>1. LengthUpTo(m)[0] = 0 /\ ProtocolStrlen(m) \in Nat
    BY <1>1 DEF Unrolled, ProtocolStrlen
  <2>2. \A i \in 1 .. size : ~(i <= 0)
    BY <2>1
  <2>. QED BY <2>1, <2>2 DEF Laid
<1>3. \A n \in 1..N : Laid(m, flat, n) = After(m, n, Laid(m, flat, n - 1))
  BY FieldLaid
<1>. HIDE DEF start
<1>4. Eq(g)
  <2>1. ASSUME NEW n \in 0..N
        PROVE  Laid(m, flat, n) = IF n = 0 THEN start ELSE After(m, n, g[n - 1])
    <3>1. CASE n = 0
      BY <1>2, <3>1
    <3>2. CASE n # 0
      <4>1. n \in 1..N /\ n - 1 \in 0..N
        BY <1>1, <3>2
      <4>2. g[n - 1] = Laid(m, flat, n - 1)
        BY <4>1
      <4>. HIDE DEF g
      <4>. QED BY <1>3, <3>2, <4>1, <4>2
    <3>. QED BY <3>1, <3>2
  <2>. QED BY <2>1
<1>5. pr = CHOOSE f : Eq(f)
  BY DEF PrintedUpTo, After, start
<1>6. Eq(pr)
  <2>. HIDE DEF Eq, pr
  <2>. QED BY <1>4, <1>5
<1>. HIDE DEF pr, g
<1>. DEFINE P == {n \in 0..N : pr[n] = Laid(m, flat, n)}
<1>7. 0 \in P /\ P \in SUBSET (0..N)
  BY <1>1, <1>2, <1>6
<1>8. ASSUME NEW n \in 1..N, n - 1 \in P
      PROVE  n \in P
  <2>1. n \in 0..N /\ n # 0 /\ pr[n - 1] = Laid(m, flat, n - 1)
    BY <1>1, <1>8
  <2>2. pr[n] = After(m, n, pr[n - 1])
    BY <1>6, <2>1
  <2>. QED BY <1>3, <2>1, <2>2
<1>9. \A n \in 0..N : n \in P
  <2>. HIDE DEF P
  <2>. QED BY <1>1, <1>7, <1>8, UpTo
<1>10. N \in 0..N
  BY <1>1
<1>. QED BY <1>9, <1>10 DEF pr

\* What is counted is what is printed, whatever fields are set.
LEMMA MetadataPrinted ==
    ASSUME Fits(metadata)
    PROVE  MetadataWhole
<1>. SUFFICES ASSUME FitsLong(metadata)
              PROVE  MetadataWhole
  BY DEF MetadataWhole
<1>1. PICK flat : Unrolled(metadata, flat)
  BY TextUpTo
<1>. DEFINE N == FieldCount
            E == ProtocolStrlen(metadata)
            text == flat[N]
            full == PrintedUpTo(metadata, E + 1)[N]
            buf == [i \in 1 .. E + 1 |-> IF i <= E THEN text[i] ELSE <<NUL>>]
            C == Characters(metadata)
            I == {i \in 1..Len(buf) : buf[i] = <<NUL>>}
            r == ToProtocolStr(metadata)
<1>2. /\ E \in Nat /\ text \in Seq(C) /\ Len(text) = E /\ <<NUL>> \notin C
      /\ FlattenSeq(Parts(metadata)) = text
  <2>1. N \in 0..N
    BY PartsFacts
  <2>. QED BY <1>1, <2>1, PartsFacts DEF Unrolled, ProtocolStrlen
<1>3. full.buf = buf
  <2>1. full = Laid(metadata, flat, N)
    BY <1>1, BufferHolds
  <2>2. LengthUpTo(metadata)[N] = E
    BY DEF ProtocolStrlen
  <2>. HIDE DEF full
  <2>. QED BY <2>1, <2>2 DEF Laid
<1>. HIDE DEF text, C, E
<1>4. Len(buf) = E + 1
  BY <1>2
<1>5. I = {E + 1}
  <2>1. \A i \in 1..E : buf[i] # <<NUL>>
    <3>. TAKE i \in 1..E
    <3>1. text[i] \in C
      BY <1>2
    <3>2. text[i] # <<NUL>>
      BY <1>2, <3>1
    <3>3. buf[i] = text[i]
      BY <1>2
    <3>. HIDE DEF buf
    <3>. QED BY <3>2, <3>3
  <2>2. buf[E + 1] = <<NUL>>
    BY <1>2
  <2>. HIDE DEF buf
  <2>. QED BY <1>2, <1>4, <2>1, <2>2
<1>6. SelectInSeq(buf, LAMBDA c : c = <<NUL>>) = E + 1
  <2>1. SelectInSeq(buf, LAMBDA c : c = <<NUL>>) = IF I # {} THEN Min(I) ELSE 0
    BY DEF SelectInSeq
  <2>. HIDE DEF I
  <2>2. I \in SUBSET Nat /\ I # {}
    BY <1>2, <1>5
  <2>3. Min(I) \in I
    BY <2>2, LeastOf
  <2>. QED BY <1>5, <2>1, <2>2, <2>3
<1>7. SubSeq(buf, 1, E) = text
  <2>1. \A i \in 1..E : buf[i] = text[i]
    BY <1>2
  <2>. HIDE DEF buf
  <2>2. SubSeq(buf, 1, E) = [i \in 1..E |-> buf[i]]
    BY <1>2, <1>4
  <2>3. text = [i \in 1..E |-> text[i]]
    BY <1>2
  <2>. QED BY <2>1, <2>2, <2>3
<1>. DEFINE length == SelectInSeq(full.buf, LAMBDA c : c = <<NUL>>) - 1
<1>8. length = E
  <2>1. SelectInSeq(full.buf, LAMBDA c : c = <<NUL>>) = SelectInSeq(buf, LAMBDA c : c = <<NUL>>)
    <3>. HIDE DEF full, buf
    <3>. QED BY <1>3
  <2>. QED BY <1>2, <1>6, <2>1
<1>9. r = [ret |-> IF length = E THEN 0 ELSE 1, text |-> SubSeq(full.buf, 1, length),
           overrun |-> Len(full.buf) > E + 1]
  BY DEF ToProtocolStr, E
<1>. HIDE DEF length, full, buf
<1>10. r.ret = 0 /\ r.text = text /\ ~r.overrun
  <2>1. r.ret = 0
    <3>. HIDE DEF r
    <3>. QED BY <1>8, <1>9
  <2>2. r.text = text
    <3>1. SubSeq(full.buf, 1, length) = SubSeq(buf, 1, E)
      BY <1>3, <1>8
    <3>2. r.text = SubSeq(full.buf, 1, length)
      <4>. HIDE DEF r
      <4>. QED BY <1>9
    <3>. HIDE DEF r
    <3>. QED BY <1>7, <3>1, <3>2
  <2>3. ~r.overrun
    <3>1. ~(Len(full.buf) > E + 1)
      BY <1>2, <1>3, <1>4
    <3>. HIDE DEF r
    <3>. QED BY <1>9, <3>1
  <2>. QED BY <2>1, <2>2, <2>3
<1>11. text = FlattenSeq([i \in 1 .. FieldCount |->
                            IF FieldOrder[i] \in DOMAIN metadata
                            THEN Printed(FieldOrder[i], metadata[FieldOrder[i]]) ELSE <<>>])
  BY <1>2 DEF Parts
<1>. QED BY <1>10, <1>11 DEF MetadataWhole, r

\* A field is only ever set to a value of its kind.
LEMMA MetadataStep ==
    ASSUME Fits(metadata), MetadataNext
    PROVE  Fits(metadata)'
<1>1. PICK f \in FieldNames : \E v \in ValuesOf(f) : SetField(f, v)
  BY DEF MetadataNext
<1>2. PICK v \in ValuesOf(f) : SetField(f, v)
  BY <1>1
<1>3. ValueFits(f, v)
  <2>1. /\ f \in NumberFields => v \in FieldNumbers
        /\ f \in FlagFields => v \in {0, 1}
        /\ f \in TextFields => v \in 0 .. MaxTextLen
    BY <1>2, FieldKinds DEF ValuesOf
  <2>2. f \in NumberFields => v \in Int
    BY <2>1, TextBounds
  <2>3. f \in TextFields => v \in Nat
    BY <2>1, TextBounds
  <2>. QED BY <2>1, <2>2, <2>3 DEF ValueFits
<1>4. /\ DOMAIN metadata' = DOMAIN metadata \cup {f}
      /\ \A g \in DOMAIN metadata' : metadata'[g] = IF g = f THEN v ELSE metadata[g]
  BY <1>2 DEF SetField
<1>. QED BY <1>1, <1>3, <1>4 DEF Fits

-----------------------------------------------------------------------------
(* The texts together                                                      *)

TextInv ==
    /\ line \in Seq(LinePieces)
    /\ answer \in Seq(AnswerPieces)
    /\ name \in Seq(NamePieces)
    /\ Fits(metadata)
    /\ ValuesInv
    /\ RpcInv

\* Each text keeps its invariant, while it grows and while another one does.
LEMMA TextsKept == TextSpec => []TextInv
<1>1. TextInit => TextInv
  <2>. SUFFICES ASSUME TextInit
                PROVE  TextInv
    OBVIOUS
  <2>1. line \in Seq(LinePieces) /\ answer \in Seq(AnswerPieces) /\ name \in Seq(NamePieces)
    BY EmptySeq DEF TextInit, LineInit, NameInit
  <2>2. Fits(metadata)
    BY DEF TextInit, MetadataInit, Fits
  <2>3. ValuesInv
    BY DEF TextInit, ValuesInit, ValuesInv, StoredInv, ValuesComeBack
  <2>4. RpcInv
    BY DEF TextInit, RpcInit, RpcInv, RequestInv, ResponseInv
  <2>. QED BY <2>1, <2>2, <2>3, <2>4 DEF TextInv
<1>2. TextInv /\ [TextNext]_textVars => TextInv'
  <2>. SUFFICES ASSUME TextInv, [TextNext]_textVars
                PROVE  TextInv'
    OBVIOUS
  <2>1. ASSUME UNCHANGED lineVars
        PROVE  line' \in Seq(LinePieces) /\ answer' \in Seq(AnswerPieces)
    BY <2>1 DEF lineVars, TextInv
  <2>2. ASSUME UNCHANGED nameVars
        PROVE  name' \in Seq(NamePieces)
    BY <2>2 DEF nameVars, TextInv
  <2>3. ASSUME UNCHANGED metadata
        PROVE  Fits(metadata)'
    BY <2>3 DEF Fits, TextInv
  <2>4. ASSUME UNCHANGED valueVars
        PROVE  ValuesInv'
    BY <2>4 DEF valueVars, TextInv, ValuesInv, StoredInv, ValuesComeBack
  <2>5. ASSUME UNCHANGED rpcVars
        PROVE  RpcInv'
    BY <2>5 DEF rpcVars, TextInv, RpcInv, RequestInv, ResponseInv
  <2>6. ASSUME ServerNext
        PROVE  line' \in Seq(LinePieces) /\ answer' \in Seq(AnswerPieces)
    BY <2>6, AppendProperties DEF ServerNext, ServerSends, LinePieces, TextInv
  <2>7. ASSUME DirectoryNext
        PROVE  line' \in Seq(LinePieces) /\ answer' \in Seq(AnswerPieces)
    <3>1. PICK c \in AnswerPieces : DirectorySends(c)
      BY <2>7 DEF DirectoryNext, AnswerPieces
    <3>2. answer' = Append(answer, c) /\ line' = line
      BY <3>1 DEF DirectorySends
    <3>. QED BY <3>2, AppendProperties DEF TextInv
  <2>8. CASE UNCHANGED textVars
    BY <2>1, <2>2, <2>3, <2>4, <2>5, <2>8 DEF textVars, TextInv
  <2>9. CASE TextNext
    BY <2>1, <2>2, <2>3, <2>4, <2>5, <2>6, <2>7, <2>9, NameStep, MetadataStep, ValuesStep, RpcStep
       DEF TextNext, TextInv
  <2>. QED BY <2>8, <2>9
<1>. QED BY <1>1, <1>2, PTL DEF TextSpec

\* The answer to a command and the message of a monitor are the same line taken apart at the
\* same places, however long the line is and whatever it is made of.
THEOREM PromptsAlwaysAgree == TextSpec => []PromptsAgree
<1>1. TextInv => PromptsAgree
  BY ReadersAgree DEF TextInv
<1>. QED BY <1>1, TextsKept, PTL

\* A get gives back what was stored, whatever was put, read and renewed before, with any
\* number of atkey structures.
THEOREM ValuesAlwaysComeBack == TextSpec => []ValuesComeBack
<1>1. TextInv => ValuesComeBack
  BY DEF TextInv, ValuesInv
<1>. QED BY <1>1, TextsKept, PTL

\* An answer finds the request it is for, in its own domain and with its own id, for any
\* domains, ids and widths of an unsigned long.
THEOREM AnswersAlwaysFind == TextSpec => []AnswersFindTheirRequest
<1>1. TextInv => AnswersFindTheirRequest
  BY AnswersFind DEF TextInv
<1>. QED BY <1>1, TextsKept, PTL

\* Whatever of an answer has come when the read ends, whole or cut at the timeout: an address
\* is split at its first ":", its port is all the digits behind it, with white space and one
\* plus in front of them at most, and no more than a port can be, or the answer is refused.
\* A success without a host is of the text null alone.
THEOREM AddressesAlwaysNamed == TextSpec => []AddressOrError
<1>1. TextInv => AddressOrError
  BY AddressIsNamed DEF TextInv
<1>. QED BY <1>1, TextsKept, PTL

\* The text of an atKey is printed as it was read, and what is printed is read as the same
\* record and fills what is allocated for it, however long the name is and whatever it is made of.
THEOREM NamesAlwaysComeBack == TextSpec => []KeyTextRoundTrip
<1>1. TextInv => KeyTextRoundTrip
  BY NameComesBack DEF TextInv
<1>. QED BY <1>1, TextsKept, PTL

\* The metadata of a command is printed whole into the buffer that was counted for it, for any
\* fields in any order, texts of any length and numbers of a long of any width.
THEOREM MetadataAlwaysWhole == TextSpec => []MetadataWhole
<1>1. TextInv => MetadataWhole
  BY MetadataPrinted DEF TextInv
<1>. QED BY <1>1, TextsKept, PTL
=============================================================================
