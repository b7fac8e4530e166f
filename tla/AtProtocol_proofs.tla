-------------------------- MODULE AtProtocol_proofs --------------------------
(***************************************************************************)
(* Proofs about AtProtocol, for every bound on the commands of a           *)
(* connection: type correctness, that an authentication is accepted only   *)
(* on a session the server authenticated, and that it implements Exchange, *)
(* with a send given its own answer or none.                               *)
(***************************************************************************)
EXTENDS AtProtocol, SequenceTheorems, WellFoundedInduction, TLAPS

-----------------------------------------------------------------------------
(* Lemmas about searching a sequence                                       *)

\* A nonempty set of naturals has a least element, and Min is it.
LEMMA MinLemma ==
    ASSUME NEW S \in SUBSET Nat, S # {}
    PROVE  /\ Min(S) \in S
           /\ \A y \in S : Min(S) <= y
<1> DEFINE R == OpToRel(<, Nat)
<1>1. IsWellFoundedOn(R, Nat)
  BY NatLessThanWellFounded
<1>2. R = {ss \in Nat \X Nat : ss[1] < ss[2]}
  BY Zenon DEF OpToRel
<1>a. \A x, y \in Nat : <<y, x>> \in R <=> y < x
  BY <1>2
<1> HIDE DEF R
<1>3. \E x \in S : \A y \in S : ~(<<y, x>> \in R)
  BY <1>1, WFMin
<1>4. PICK x \in S : \A y \in S : ~(<<y, x>> \in R)
  BY <1>3
<1>5. ASSUME NEW y \in S PROVE x <= y
  <2>1. x \in Nat /\ y \in Nat
    OBVIOUS
  <2>2. ~(y < x)
    BY <1>a, <1>4, <2>1
  <2> QED  BY <2>1, <2>2
<1> QED  BY <1>5 DEF Min

\* SelectInSeq points at a head, or at nothing.
LEMMA SelectHead ==
    ASSUME NEW s, Len(s) \in Nat
    PROVE  LET k == SelectInSeq(s, IsHead)
           IN  /\ k \in 0..Len(s)
               /\ k # 0 => IsHead(s[k])
<1> DEFINE I == {i \in 1..Len(s) : IsHead(s[i])}
<1>1. SelectInSeq(s, IsHead) = IF I # {} THEN Min(I) ELSE 0
  BY DEF SelectInSeq
<1>2. I \in SUBSET Nat
  OBVIOUS
<1>3. I # {} => Min(I) \in I
  BY <1>2, MinLemma
<1> QED  BY <1>1, <1>3

\* The same of the token that ends a read until '\n'.
LEMMA SelectEnd ==
    ASSUME NEW s, Len(s) \in Nat
    PROVE  LET k == SelectInSeq(s, EndsRead)
           IN  /\ k \in 0..Len(s)
               /\ k # 0 => EndsRead(s[k])
<1> DEFINE I == {i \in 1..Len(s) : EndsRead(s[i])}
<1>1. SelectInSeq(s, EndsRead) = IF I # {} THEN Min(I) ELSE 0
  BY DEF SelectInSeq
<1>2. I \in SUBSET Nat
  OBVIOUS
<1>3. I # {} => Min(I) \in I
  BY <1>2, MinLemma
<1> QED  BY <1>1, <1>3

\* The same of the token that ends a read until '@'.
LEMMA SelectAt ==
    ASSUME NEW s, Len(s) \in Nat
    PROVE  LET k == SelectInSeq(s, EndsWithAt)
           IN  /\ k \in 0..Len(s)
               /\ k # 0 => EndsWithAt(s[k])
<1> DEFINE I == {i \in 1..Len(s) : EndsWithAt(s[i])}
<1>1. SelectInSeq(s, EndsWithAt) = IF I # {} THEN Min(I) ELSE 0
  BY DEF SelectInSeq
<1>2. I \in SUBSET Nat
  OBVIOUS
<1>3. I # {} => Min(I) \in I
  BY <1>2, MinLemma
<1> QED  BY <1>1, <1>3

-----------------------------------------------------------------------------
(* Lemmas about reading                                                    *)

\* What is taken from a stream of tokens of T, and what is left, are tokens of T.
LEMMA TakenRest ==
    ASSUME NEW T, NEW s \in Seq(T), NEW k \in 0..Len(s)
    PROVE  /\ Taken(s, k) \in Seq(T)
           /\ Len(Taken(s, k)) = k
           /\ Rest(s, k) \in Seq(T)
<1>1. Len(s) \in Nat /\ \A i \in 1..Len(s) : s[i] \in T
  OBVIOUS
<1>2. /\ SubSeq(s, 1, k) \in Seq(T)
      /\ Len(SubSeq(s, 1, k)) = k
  BY <1>1, SubSeqProperties
<1>3. SubSeq(s, k + 1, Len(s)) \in Seq(T)
  BY <1>1, SubSeqProperties
<1> QED  BY <1>2, <1>3 DEF Taken, Rest

\* A read until '\n' takes no more than there is.
LEMMA LineReadsLemma ==
    ASSUME NEW T, NEW s \in Seq(T), NEW k \in LineReads(s)
    PROVE  k \in 0..Len(s)
<1>1. Len(s) \in Nat
  OBVIOUS
<1>2. SelectInSeq(s, EndsRead) \in 0..Len(s)
  BY <1>1, SelectEnd
<1> QED  BY <1>1, <1>2 DEF LineReads

\* Neither does a read until '@'.
LEMMA PromptReadsLemma ==
    ASSUME NEW T, NEW s \in Seq(T), NEW k \in PromptReads(s)
    PROVE  k \in 0..Len(s)
<1>1. Len(s) \in Nat
  OBVIOUS
<1>2. SelectInSeq(s, EndsWithAt) \in 0..Len(s)
  BY <1>1, SelectAt
<1> QED  BY <1>1, <1>2 DEF PromptReads

\* Stripping the prompt off a line that has an answer leaves tokens of the line.
LEMMA StripLemma ==
    ASSUME NEW T, NEW line \in Seq(T), Parsable(line)
    PROVE  StripPrompt(line) \in Seq(T)
<1>1. Len(line) \in Nat /\ \A i \in 1..Len(line) : line[i] \in T
  OBVIOUS
<1>2. CASE line[1].t = "at"
  <2> DEFINE h == SelectInSeq(line, IsHead)
  <2>0. h \in 0..Len(line)
    BY <1>1, SelectHead
  <2>1. h \in 1..Len(line)
    BY <1>1, <1>2, <2>0 DEF Parsable
  <2> HIDE DEF h
  <2>2. SubSeq(line, h, Len(line)) \in Seq(T)
    BY <1>1, <2>1, SubSeqProperties
  <2> QED  BY <1>2, <2>2 DEF StripPrompt, h
<1>3. CASE line[1].t # "at"
  BY <1>3 DEF StripPrompt
<1> QED  BY <1>2, <1>3

\* What a send leaves in recv are tokens it read.
LEMMA OutcomeLemma ==
    ASSUME NEW T, inbox \in Seq(T), NEW o \in SendResults
    PROVE  o \in [k : 0..Len(inbox), ret : {"ok", "failed"}, got : Seq(T),
                  why : {"whole", "cut", "timeout", "unparsed"}]
<1>1. PICK k \in LineReads(inbox) : o \in LineResults(Taken(inbox, k))
  BY DEF SendResults
<1>2. k \in 0..Len(inbox)
  BY LineReadsLemma
<1> DEFINE line == Taken(inbox, k)
<1>3. line \in Seq(T) /\ Len(line) = k
  BY <1>2, TakenRest
<1>4. <<>> \in Seq(T)
  OBVIOUS
<1>5. Len(inbox) \in Nat
  OBVIOUS
<1> HIDE DEF line
<1>6. CASE line = <<>>
  <2>1. o = [k |-> 0, ret |-> "failed", got |-> <<>>, why |-> "timeout"]
    BY <1>1, <1>6 DEF LineResults, line
  <2> QED  BY <1>4, <1>5, <2>1
<1>7. CASE line # <<>>
  <2> DEFINE why == IF IsTail(Last(line)) THEN "whole" ELSE "cut"
  <2>1. why \in {"whole", "cut"}
    OBVIOUS
  <2> HIDE DEF why
  <2>2. \/ o = [k |-> Len(line), ret |-> "failed", got |-> <<>>, why |-> why]
        \/ /\ Parsable(line)
           /\ \E g \in Copied(line) : o = [k |-> Len(line), ret |-> "ok", got |-> g, why |-> why]
        \/ o = [k |-> Len(line), ret |-> "failed", got |-> <<>>, why |-> "unparsed"]
    BY <1>1, <1>7 DEF LineResults, line, why
  <2>3. Parsable(line) => Copied(line) \subseteq Seq(T)
    BY <1>3, <1>4, StripLemma DEF Copied
  <2>4. PICK g \in Seq(T), r \in {"ok", "failed"}, w \in {"whole", "cut", "unparsed"} :
            o = [k |-> Len(line), ret |-> r, got |-> g, why |-> w]
    BY <1>4, <2>1, <2>2, <2>3
  <2> QED  BY <1>2, <1>3, <2>4
<1> QED  BY <1>6, <1>7

-----------------------------------------------------------------------------
(* Sessions: the inductive invariant                                       *)

\* A success on its way to the client is one the server granted on this connection.
Believable == {x \in Tokens : x.v = "success" => authed}

\* AcceptedMeansAuthed needs to know what travels, and that an authentication in
\* progress is one on a started connection.
Truthful == inbox \in Seq(Believable) /\ wire \in Seq(Believable)

Authenticating == phase \in {"start", "from", "prompt", "sign", "auth"}

IInv == TypeOK /\ Truthful /\ (Authenticating => started)

\* The invariant holds initially.
THEOREM InitIInv == Init => IInv
<1> SUFFICES ASSUME Init PROVE IInv
  OBVIOUS
<1>1. \A S : <<>> \in Seq(S)
  OBVIOUS
<1>2. TypeOK
  <2>1. /\ requests \in Seq(Requests)
        /\ wire \in Seq(Tokens) /\ inbox \in Seq(Tokens) /\ recv \in Seq(Tokens)
    BY <1>1 DEF Init
  <2>2. sent \in 0..MaxSent /\ answered \in 0..MaxSent
    BY MaxSentAssumption DEF Init
  <2>3. authed \in BOOLEAN /\ atsignSet \in BOOLEAN /\ started \in BOOLEAN
    BY Zenon DEF Init
  <2>4. last \in [call : {"auth", "op"}, ret : {"ok", "failed"}]
    BY DEF Init
  <2> QED  BY <2>1, <2>2, <2>3, <2>4 DEF Init, TypeOK
<1>3. Truthful
  BY <1>1 DEF Init, Truthful
<1> QED  BY <1>2, <1>3 DEF Init, IInv, Authenticating

\* What a token can be.
LEMMA TokenLemma ==
    /\ \A x \in Tokens : x.n \in 0..MaxSent /\ x.v \in Results \cup {"none"}
    /\ At \in Believable /\ Name \in Believable
    /\ \A n \in 1..MaxSent, v \in Results :
            (v = "success" => authed) => HeadOf(n, v) \in Believable /\ TailOf(n) \in Believable
<1>1. ASSUME NEW x \in Tokens PROVE x.n \in 0..MaxSent /\ x.v \in Results \cup {"none"}
  BY MaxSentAssumption DEF Tokens, At, Name, HeadOf, TailOf
<1>2. At \in Believable /\ Name \in Believable
  BY DEF Tokens, Believable, At, Name
<1>3. ASSUME NEW n \in 1..MaxSent, NEW v \in Results, v = "success" => authed
      PROVE  HeadOf(n, v) \in Believable /\ TailOf(n) \in Believable
  <2>1. HeadOf(n, v) \in Tokens /\ TailOf(n) \in Tokens
    BY DEF Tokens
  <2> QED  BY <1>3, <2>1 DEF Believable, HeadOf, TailOf
<1> QED  BY <1>1, <1>2, <1>3

\* Reading an answer keeps the types and reads only what is believable.
LEMMA ReceiveStep ==
    ASSUME IInv, NEW o \in SendResults, Receive(o), UNCHANGED authed
    PROVE  /\ inbox' \in Seq(Believable)' /\ inbox' \in Seq(Tokens)
           /\ recv' \in Seq(Tokens)
           /\ o.got \in Seq(Believable)
           /\ broken' \subseteq {"timeout", "cut", "unparsed", "unread"}
           /\ answered' \in 0..MaxSent
<1>1. Believable' = Believable /\ Believable \subseteq Tokens
  BY DEF Believable
<1>2. inbox \in Seq(Believable)
  BY DEF IInv, Truthful
<1>3. o \in [k : 0..Len(inbox), ret : {"ok", "failed"}, got : Seq(Believable),
             why : {"whole", "cut", "timeout", "unparsed"}]
  BY <1>2, OutcomeLemma
<1>4. o.k \in 0..Len(inbox) /\ o.got \in Seq(Believable)
  BY <1>3
<1>5. Rest(inbox, o.k) \in Seq(Believable)
  BY <1>2, <1>4, TakenRest
<1>6. \A s \in Seq(Believable) : s \in Seq(Tokens)
  BY <1>1, SeqMonotonic
<1>7. broken' \subseteq {"timeout", "cut", "unparsed", "unread"}
  BY <1>3 DEF Receive, Shortfall, IInv, TypeOK
<1>8. answered' \in 0..MaxSent
  <2> DEFINE h == SelectInSeq(o.got, IsHead)
  <2>0. Len(o.got) \in Nat
    BY <1>4
  <2>1. h \in 0..Len(o.got)
    BY <2>0, SelectHead
  <2>2. answered' = IF h = 0 THEN answered ELSE o.got[h].n
    BY DEF Receive, Answered
  <2> HIDE DEF h
  <2>3. CASE h = 0
    BY <2>2, <2>3 DEF IInv, TypeOK
  <2>4. CASE h # 0
    <3>1. h \in 1..Len(o.got)
      BY <2>0, <2>1, <2>4
    <3>2. o.got[h] \in Tokens
      BY <1>1, <1>4, <3>1
    <3> QED  BY <2>2, <2>4, <3>2, TokenLemma
  <2> QED  BY <2>3, <2>4
<1> QED  BY <1>1, <1>4, <1>5, <1>6, <1>7, <1>8 DEF Receive

\* A command written is one the server can execute.
LEMMA WriteStep ==
    ASSUME TypeOK, CanWrite, NEW cmd \in {"from", "pkam", "cram", "op"}, NEW good \in BOOLEAN,
           Write(cmd, good)
    PROVE  /\ requests' \in Seq(Requests)
           /\ sent' \in 0..MaxSent
           /\ recv' \in Seq(Tokens)
<1>1. sent + 1 \in 1..MaxSent
  BY MaxSentAssumption DEF TypeOK, CanWrite
<1>2. [cmd |-> cmd, n |-> sent + 1, good |-> good] \in Requests
  BY <1>1 DEF Requests
<1> QED  BY <1>1, <1>2, AppendProperties DEF TypeOK, Write

-----------------------------------------------------------------------------
(* Sessions: one lemma per action                                          *)

\* The authentications preserve the invariant up to writing the proof.
LEMMA AuthGivesUpStep == ASSUME IInv, AuthGivesUp PROVE IInv'
BY DEF IInv, TypeOK, Truthful, Authenticating, AuthGivesUp, Return, serverVars, contextVars,
       Believable

\* A new session starts from nothing.
LEMMA NewSessionStep ==
    ASSUME IInv, NewSession,
           /\ link' \in {"none", "up", "closed"}
           /\ started' \in BOOLEAN /\ atsignSet' = atsignSet
           /\ phase' \in {"idle", "start"} /\ (phase' = "start" => started')
           /\ mode' \in {"pkam", "cram"}
           /\ last' \in [call : {"auth", "op"}, ret : {"ok", "failed"}]
    PROVE  IInv'
<1>1. \A S : <<>> \in Seq(S)
  OBVIOUS
<1>2. TypeOK'
  <2>1. /\ requests' \in Seq(Requests)
        /\ wire' \in Seq(Tokens) /\ inbox' \in Seq(Tokens) /\ recv' \in Seq(Tokens)
    BY <1>1 DEF NewSession, SessionInbox
  <2>2. sent' \in 0..MaxSent /\ answered' \in 0..MaxSent
    BY MaxSentAssumption DEF NewSession
  <2>3. authed' \in BOOLEAN
    BY Zenon DEF NewSession
  <2>4. atsignSet' \in BOOLEAN
    BY DEF IInv, TypeOK
  <2> QED  BY <2>1, <2>2, <2>3, <2>4 DEF NewSession, TypeOK
<1>3. Truthful'
  BY <1>1 DEF Truthful, NewSession, SessionInbox
<1> QED  BY <1>2, <1>3 DEF IInv, Authenticating

\* Whether the connection could be made or not.
LEMMA ConnectStep ==
    ASSUME IInv, (\E m \in {"pkam", "cram"} : AuthConnects(m)) \/ AuthConnectFails
    PROVE  IInv'
<1>1. ASSUME NEW m \in {"pkam", "cram"}, AuthConnects(m) PROVE IInv'
  BY <1>1, NewSessionStep DEF AuthConnects, IInv, TypeOK
<1>2. ASSUME AuthConnectFails PROVE IInv'
  BY <1>2, NewSessionStep DEF AuthConnectFails, IInv, TypeOK, Return
<1> QED  BY <1>1, <1>2

\* Writing from: preserves the invariant.
LEMMA SendFromStep == ASSUME IInv, SendFrom PROVE IInv'
<1>1. /\ requests' \in Seq(Requests)
      /\ sent' \in 0..MaxSent
      /\ recv' \in Seq(Tokens)
      /\ phase' \in {"idle", "from"}
      /\ last' \in [call : {"auth", "op"}, ret : {"ok", "failed"}]
  <2>1. CASE CanWrite /\ Write("from", TRUE) /\ phase' = "from" /\ UNCHANGED last
    BY <2>1, WriteStep DEF IInv, TypeOK
  <2>2. CASE WriteFails /\ Return("auth", "failed") /\ UNCHANGED <<requests, sent>>
    BY <2>2 DEF IInv, TypeOK, WriteFails, Return
  <2>3. CASE Return("auth", "ok") /\ UNCHANGED <<requests, sent, recv>>
    BY <2>3 DEF IInv, TypeOK, Return
  <2> QED  BY <2>1, <2>2, <2>3 DEF SendFrom
<1> QED  BY <1>1 DEF IInv, TypeOK, Truthful, Believable, Authenticating, SendFrom, contextVars

\* So does writing the proof.
LEMMA SendProofStep == ASSUME IInv, SendProof PROVE IInv'
<1>1. /\ requests' \in Seq(Requests)
      /\ sent' \in 0..MaxSent
      /\ recv' \in Seq(Tokens)
      /\ phase' \in {"idle", "auth"}
      /\ last' \in [call : {"auth", "op"}, ret : {"ok", "failed"}]
  <2>1. CASE CanWrite /\ Write(mode, recv = AnswerTo(1, "challenge")) /\ phase' = "auth"
                      /\ UNCHANGED last
    <3>1. mode \in {"from", "pkam", "cram", "op"}
      BY DEF IInv, TypeOK
    <3> QED  BY <2>1, <3>1, WriteStep DEF IInv, TypeOK
  <2>2. CASE WriteFails /\ Return("auth", "failed") /\ UNCHANGED <<requests, sent>>
    BY <2>2 DEF IInv, TypeOK, WriteFails, Return
  <2>3. CASE Return("auth", "ok") /\ UNCHANGED <<requests, sent, recv>>
    BY <2>3 DEF IInv, TypeOK, Return
  <2>4. CASE Return("auth", "failed") /\ UNCHANGED <<requests, sent, recv>>
    BY <2>4 DEF IInv, TypeOK, Return
  <2> QED  BY <2>1, <2>2, <2>3, <2>4 DEF SendProof
<1> QED  BY <1>1 DEF IInv, TypeOK, Truthful, Believable, Authenticating, SendProof, contextVars

\* Reading the answer to from: preserves the invariant.
LEMMA FromAnswerStep == ASSUME IInv, FromAnswer PROVE IInv'
<1>1. PICK o \in SendResults :
        /\ Receive(o)
        /\ \/ /\ o.ret = "failed"
              /\ Return("auth", "failed")
           \/ /\ o.ret = "ok"
              /\ phase' = IF mode = "pkam" THEN "prompt" ELSE "sign"
              /\ UNCHANGED last
  BY DEF FromAnswer
<1>2. UNCHANGED authed
  BY DEF FromAnswer, serverVars
<1>3. /\ inbox' \in Seq(Believable)' /\ inbox' \in Seq(Tokens)
      /\ recv' \in Seq(Tokens)
      /\ broken' \subseteq {"timeout", "cut", "unparsed", "unread"}
      /\ answered' \in 0..MaxSent
  BY <1>1, <1>2, ReceiveStep
<1>4. /\ phase' \in {"idle", "prompt", "sign"}
      /\ last' \in [call : {"auth", "op"}, ret : {"ok", "failed"}]
  BY <1>1 DEF Return, IInv, TypeOK
<1>5. started' = started /\ phase \in {"from"}
  BY DEF FromAnswer, contextVars
<1> QED  BY <1>3, <1>4, <1>5 DEF IInv, TypeOK, Truthful, Believable, Authenticating, FromAnswer,
                                 serverVars, contextVars

\* So does reading the prompt after it.
LEMMA ReadPromptStep == ASSUME IInv, ReadPrompt PROVE IInv'
<1>1. PICK k \in PromptReads(inbox) : inbox' = Rest(inbox, k)
  BY DEF ReadPrompt
<1>2. inbox \in Seq(Believable) /\ inbox \in Seq(Tokens)
  BY DEF IInv, TypeOK, Truthful
<1>3. k \in 0..Len(inbox)
  BY <1>2, PromptReadsLemma
<1>4. inbox' \in Seq(Believable) /\ inbox' \in Seq(Tokens)
  BY <1>1, <1>2, <1>3, TakenRest
<1>5. CASE inbox = <<>>
  <2>1. Return("auth", "failed") /\ broken' = broken \cup {"timeout"}
    BY <1>5 DEF ReadPrompt
  <2>2. phase' = "idle" /\ last' \in [call : {"auth", "op"}, ret : {"ok", "failed"}]
    BY <2>1 DEF Return
  <2>3. broken' \subseteq {"timeout", "cut", "unparsed", "unread"}
    BY <2>1 DEF IInv, TypeOK
  <2> QED  BY <1>4, <2>2, <2>3 DEF IInv, TypeOK, Truthful, Believable, Authenticating, ReadPrompt,
                                   serverVars, contextVars
<1>6. CASE inbox # <<>>
  <2>1. phase' = "sign" /\ UNCHANGED <<last, broken>>
    BY <1>6 DEF ReadPrompt
  <2>2. started
    BY DEF IInv, Authenticating, ReadPrompt
  <2> QED  BY <1>4, <2>1, <2>2 DEF IInv, TypeOK, Truthful, Believable, Authenticating, ReadPrompt,
                                   serverVars, contextVars
<1> QED  BY <1>5, <1>6

\* Accepting or refusing the answer to the proof preserves the invariant.
LEMMA AuthAnswerStep == ASSUME IInv, AuthAnswer PROVE IInv'
<1>1. PICK o \in SendResults :
        /\ Receive(o)
        /\ \E r \in {"ok", "failed"} : Return("auth", r)
        /\ atsignSet' \in BOOLEAN
  BY DEF AuthAnswer, IInv, TypeOK
<1>2. UNCHANGED authed
  BY DEF AuthAnswer, serverVars
<1>3. /\ inbox' \in Seq(Believable)' /\ inbox' \in Seq(Tokens)
      /\ recv' \in Seq(Tokens)
      /\ broken' \subseteq {"timeout", "cut", "unparsed", "unread"}
      /\ answered' \in 0..MaxSent
  BY <1>1, <1>2, ReceiveStep
<1>4. /\ phase' = "idle"
      /\ last' \in [call : {"auth", "op"}, ret : {"ok", "failed"}]
  BY <1>1 DEF Return
<1> QED  BY <1>1, <1>3, <1>4 DEF IInv, TypeOK, Truthful, Believable, Authenticating, AuthAnswer,
                                 serverVars

\* Writing a command that expects one answer preserves the invariant.
LEMMA SendStep == ASSUME IInv, SendOp \/ IsConnected \/ SendUnread PROVE IInv'
<1>1. /\ requests' \in Seq(Requests)
      /\ sent' \in 0..MaxSent
      /\ recv' \in Seq(Tokens)
  BY WriteStep DEF SendOp, IsConnected, SendUnread, BeginOp, IInv
<1>2. phase' \in {"idle", "op"}
  BY DEF SendOp, IsConnected, SendUnread, Return
<1>3. last' \in [call : {"auth", "op"}, ret : {"ok", "failed"}]
  <2>1. CASE SendOp \/ IsConnected
    BY <2>1 DEF SendOp, IsConnected, IInv, TypeOK
  <2>2. CASE SendUnread
    BY <2>2 DEF SendUnread, Return
  <2> QED  BY <2>1, <2>2
<1>4. broken' \subseteq {"timeout", "cut", "unparsed", "unread"}
  <2>1. broken' = broken \/ broken' = broken \cup {"unread"}
    BY DEF SendOp, IsConnected, SendUnread
  <2> QED  BY <2>1 DEF IInv, TypeOK
<1>5. UNCHANGED <<link, wire, authed, contextVars, inbox, mode, answered>>
  BY DEF SendOp, IsConnected, SendUnread
<1> QED  BY <1>1, <1>2, <1>3, <1>4, <1>5 DEF IInv, TypeOK, Truthful, Believable, Authenticating,
                                             contextVars

\* So does failing to.
LEMMA OpFailsStep == ASSUME IInv, OpFails PROVE IInv'
BY DEF IInv, TypeOK, Truthful, Believable, Authenticating, OpFails, Return, serverVars, contextVars

\* So does reading its answer.
LEMMA OpAnswerStep == ASSUME IInv, OpAnswer PROVE IInv'
<1>1. PICK o \in SendResults, ret \in {"ok", "failed"} : Receive(o) /\ Return("op", ret)
  BY DEF OpAnswer
<1>2. UNCHANGED authed
  BY DEF OpAnswer, serverVars
<1>3. /\ inbox' \in Seq(Believable)' /\ inbox' \in Seq(Tokens)
      /\ recv' \in Seq(Tokens)
      /\ broken' \subseteq {"timeout", "cut", "unparsed", "unread"}
      /\ answered' \in 0..MaxSent
  BY <1>1, <1>2, ReceiveStep
<1>4. /\ phase' = "idle"
      /\ last' \in [call : {"auth", "op"}, ret : {"ok", "failed"}]
  BY <1>1 DEF Return
<1> QED  BY <1>3, <1>4 DEF IInv, TypeOK, Truthful, Believable, Authenticating, OpAnswer,
                           serverVars, contextVars

\* Disconnecting, and losing the connection, preserve the invariant.
LEMMA LossStep == ASSUME IInv, Disconnect \/ PeerCloses PROVE IInv'
<1>1. \A S : <<>> \in Seq(S)
  OBVIOUS
<1>2. CASE Disconnect
  BY <1>1, <1>2 DEF IInv, TypeOK, Truthful, Believable, Authenticating, Disconnect, contextVars
<1>3. CASE PeerCloses
  BY <1>1, <1>3 DEF IInv, TypeOK, Truthful, Believable, Authenticating, PeerCloses, contextVars
<1> QED  BY <1>2, <1>3

\* Delivery moves a token from one stream to the other.
LEMMA DeliverStep == ASSUME IInv, Deliver PROVE IInv'
<1>1. ASSUME NEW T, wire \in Seq(T), inbox \in Seq(T)
      PROVE  wire' \in Seq(T) /\ inbox' \in Seq(T)
  <2>1. Head(wire) \in T /\ Tail(wire) \in Seq(T)
    BY <1>1, HeadTailProperties DEF Deliver
  <2> QED  BY <1>1, <2>1, AppendProperties DEF Deliver
<1>2. /\ wire' \in Seq(Tokens) /\ inbox' \in Seq(Tokens)
      /\ wire' \in Seq(Believable) /\ inbox' \in Seq(Believable)
  BY <1>1 DEF IInv, TypeOK, Truthful
<1> QED  BY <1>2 DEF IInv, TypeOK, Truthful, Believable, Authenticating, Deliver, contextVars

\* The server writes a success only when it authenticates the session.
LEMMA ServeStep == ASSUME IInv, Serve PROVE IInv'
<1> DEFINE r == Head(requests)
<1>1. r \in Requests /\ Tail(requests) \in Seq(Requests)
  BY HeadTailProperties DEF IInv, TypeOK, Serve
<1> HIDE DEF r
<1>2. PICK v \in Outcomes(r) :
        /\ authed' = (authed \/ v = "success")
        /\ wire' = wire \o AnswerTo(r.n, v) \o (IF authed' THEN <<At, Name>> ELSE <<At>>)
  BY DEF Serve, r
<1>3. v \in Results
  BY <1>1, <1>2 DEF Outcomes, Results, Requests
<1>4. authed' \in BOOLEAN /\ (authed => authed') /\ (v = "success" => authed')
  <2>1. authed \in BOOLEAN
    BY DEF IInv, TypeOK
  <2> QED  BY <1>2, <2>1, Zenon
<1>5. /\ Believable \subseteq Believable'
      /\ Believable' \subseteq Tokens
      /\ At \in Believable' /\ Name \in Believable'
  <2>1. At \in Believable /\ Name \in Believable
    BY TokenLemma
  <2> QED  BY <1>4, <2>1 DEF Believable
<1>6. HeadOf(r.n, v) \in Believable' /\ TailOf(r.n) \in Believable'
  <2>1. HeadOf(r.n, v) \in Tokens /\ TailOf(r.n) \in Tokens
    BY <1>1, <1>3 DEF Tokens, Requests
  <2> QED  BY <1>4, <2>1 DEF Believable, HeadOf, TailOf
<1>7. \A s \in Seq(Believable) : s \in Seq(Believable')
  BY <1>5, SeqMonotonic
<1>8. \A s \in Seq(Believable') : s \in Seq(Tokens)
  BY <1>5, SeqMonotonic
<1>9. /\ AnswerTo(r.n, v) \in Seq(Believable')
      /\ (IF authed' THEN <<At, Name>> ELSE <<At>>) \in Seq(Believable')
  BY <1>5, <1>6 DEF AnswerTo
<1>10. wire \in Seq(Believable') /\ inbox \in Seq(Believable')
  BY <1>7 DEF IInv, Truthful
<1>11. wire' \in Seq(Believable')
  BY <1>2, <1>9, <1>10, ConcatProperties
<1>12. wire' \in Seq(Tokens)
  BY <1>8, <1>11
<1>13. UNCHANGED <<link, inbox, sent, phase, mode, recv, last, broken, answered, atsignSet,
                   started>>
  BY DEF Serve, contextVars
<1>14. requests' \in Seq(Requests)
  BY <1>1 DEF Serve, r
<1>15. TypeOK'
  BY <1>4, <1>12, <1>13, <1>14 DEF IInv, TypeOK
<1> QED  BY <1>10, <1>11, <1>13, <1>15 DEF IInv, Truthful, Authenticating

-----------------------------------------------------------------------------
(* Sessions: the theorems                                                  *)

\* Every step preserves the invariant.
LEMMA NextStep == ASSUME IInv, [Next]_vars PROVE IInv'
<1>1. ASSUME Next PROVE IInv'
  BY <1>1, AuthGivesUpStep, ConnectStep, SendFromStep, FromAnswerStep, ReadPromptStep,
     SendProofStep, AuthAnswerStep, SendStep, OpFailsStep, OpAnswerStep, LossStep, DeliverStep,
     ServeStep DEF Next, InCall
<1>2. ASSUME UNCHANGED vars PROVE IInv'
  BY <1>2 DEF vars, IInv, TypeOK, Truthful, Believable, Authenticating
<1> QED  BY <1>1, <1>2

\* The inductive invariant holds in every reachable state.
THEOREM IInvHolds == Spec => []IInv
<1>1. IInv /\ [Next]_vars => IInv'
  BY NextStep
<1> QED  BY InitIInv, <1>1, PTL DEF Spec

\* Every variable keeps its type, whatever arrives and whenever.
THEOREM TypeCorrect == Spec => []TypeOK
BY IInvHolds, PTL DEF IInv

\* No authentication is accepted on a session the server did not authenticate.
THEOREM AuthenticationIsSound == Spec => AcceptedMeansAuthed
<1>1. ASSUME IInv, AuthAnswer, last'.ret = "ok" PROVE authed /\ started
  <2>1. PICK o \in SendResults : Receive(o) /\ o.ret = "ok" /\ Accepts(o.got)
    BY <1>1 DEF AuthAnswer, Return
  <2>2. o.got \in Seq(Believable)
    BY <1>1, <2>1, ReceiveStep DEF AuthAnswer, serverVars
  <2>3. o.got[1] \in Believable /\ o.got[1].v = "success"
    BY <2>1, <2>2 DEF Accepts
  <2>4. authed
    BY <2>3 DEF Believable
  <2>5. started
    BY <1>1 DEF AuthAnswer, IInv, Authenticating
  <2> QED  BY <2>4, <2>5
<1>2. IInv /\ [Next]_vars => [AuthAnswer /\ last'.ret = "ok" => authed /\ started]_vars
  BY <1>1
<1> QED  BY IInvHolds, <1>2, PTL DEF Spec, AcceptedMeansAuthed

-----------------------------------------------------------------------------
(* Commands and answers: the inductive invariant                           *)

\* what is received and what is under way
Stream == inbox \o wire

Executed == sent - Len(requests)

\* the commands that wait are the last ones written
Queued ==
    /\ Len(requests) <= sent
    /\ \A i \in DOMAIN requests : requests[i].n = Executed + i

\* answers follow their commands, in their order; none that was given comes again
Travelling(s) ==
    /\ answered <= Executed
    /\ \A i \in DOMAIN s : IsHead(s[i]) => answered < s[i].n /\ s[i].n <= Executed
    /\ \A i, j \in DOMAIN s : i < j /\ IsHead(s[i]) /\ IsHead(s[j]) => s[i].n < s[j].n

Awaiting == phase \in {"from", "auth", "op"}

\* prompts and answers, no part of one without the part before it
Intact(s) == \A i \in DOMAIN s :
    /\ IsHead(s[i]) => s[i].n = sent /\ (i + 1 \in DOMAIN s => s[i + 1] = TailOf(sent))
    /\ IsTail(s[i]) => i - 1 \in DOMAIN s /\ IsHead(s[i - 1])
    /\ s[i] = Name => authed /\ i - 1 \in DOMAIN s /\ s[i - 1] = At

NoAnswers(s) == \A i \in DOMAIN s : ~IsHead(s[i])

\* As long as nothing broke the only answer there may be is the one the call waits for.
Settled ==
    broken = {} =>
        /\ Intact(Stream)
        /\ requests = <<>> \/ (Awaiting /\ Len(requests) = 1)
        /\ requests # <<>> \/ ~Awaiting => NoAnswers(Stream)
        /\ Awaiting => answered < sent

\* a session is not authenticated before its first proof
Fresh ==
    phase \in {"start", "from", "prompt"} =>
        ~authed /\ \A i \in DOMAIN requests : requests[i].cmd = "from"

EInv == Queued /\ Travelling(Stream) /\ Settled /\ Fresh /\ Paired

-----------------------------------------------------------------------------
(* Commands and answers: what a search finds                               *)

\* SelectInSeq points at the first head.
LEMMA FirstHead ==
    ASSUME NEW s, Len(s) \in Nat
    PROVE  LET k == SelectInSeq(s, IsHead)
           IN  /\ k = 0 => \A i \in 1..Len(s) : ~IsHead(s[i])
               /\ \A i \in 1..Len(s) : IsHead(s[i]) => k <= i /\ k # 0
<1> DEFINE I == {i \in 1..Len(s) : IsHead(s[i])}
<1>1. SelectInSeq(s, IsHead) = IF I # {} THEN Min(I) ELSE 0
  BY DEF SelectInSeq
<1>2. I \in SUBSET Nat /\ 0 \notin I
  OBVIOUS
<1>3. I # {} => Min(I) \in I /\ \A i \in I : Min(I) <= i
  BY <1>2, MinLemma
<1> QED  BY <1>1, <1>2, <1>3

-----------------------------------------------------------------------------
(* Commands and answers: lemmas about the stream                           *)

\* Two sequences of tokens, one behind the other.
LEMMA StreamFacts ==
    ASSUME NEW a \in Seq(Tokens), NEW b \in Seq(Tokens)
    PROVE  /\ a \o b \in Seq(Tokens) /\ DOMAIN (a \o b) = 1..(Len(a) + Len(b))
           /\ Len(a \o b) = Len(a) + Len(b) /\ Len(a) \in Nat /\ Len(b) \in Nat
           /\ \A i \in 1..Len(a) : (a \o b)[i] = a[i]
           /\ \A i \in 1..Len(b) : (a \o b)[Len(a) + i] = b[i]
<1>1. /\ a \o b \in Seq(Tokens) /\ Len(a \o b) = Len(a) + Len(b)
      /\ \A i \in 1..(Len(a) + Len(b)) :
            (a \o b)[i] = IF i <= Len(a) THEN a[i] ELSE b[i - Len(a)]
  BY ConcatProperties
<1>2. Len(a) \in Nat /\ Len(b) \in Nat /\ DOMAIN (a \o b) = 1..Len(a \o b)
  BY <1>1, LenProperties
<1>3. ASSUME NEW i \in 1..Len(a) PROVE (a \o b)[i] = a[i]
  <2>1. i \in 1..(Len(a) + Len(b)) /\ i <= Len(a)
    BY <1>2
  <2> QED  BY <1>1, <2>1
<1>4. ASSUME NEW i \in 1..Len(b) PROVE (a \o b)[Len(a) + i] = b[i]
  <2>1. Len(a) + i \in 1..(Len(a) + Len(b)) /\ ~(Len(a) + i <= Len(a)) /\ Len(a) + i - Len(a) = i
    BY <1>2
  <2> QED  BY <1>1, <2>1
<1> QED  BY <1>1, <1>2, <1>3, <1>4

\* It does not matter which end of three sequences is joined first.
LEMMA Associative ==
    ASSUME NEW a \in Seq(Tokens), NEW b \in Seq(Tokens), NEW c \in Seq(Tokens)
    PROVE  (a \o b) \o c = a \o (b \o c)
BY ConcatAssociative

\* Where the received tokens and those under way are in the stream.
LEMMA StreamTypes ==
    ASSUME TypeOK
    PROVE  /\ inbox \in Seq(Tokens) /\ wire \in Seq(Tokens) /\ Stream \in Seq(Tokens)
           /\ Len(inbox) \in Nat /\ Len(wire) \in Nat
           /\ Len(Stream) = Len(inbox) + Len(wire) /\ DOMAIN Stream = 1..Len(Stream)
           /\ \A i \in 1..Len(inbox) : Stream[i] = inbox[i]
           /\ \A i \in 1..Len(wire) : Stream[Len(inbox) + i] = wire[i]
BY StreamFacts DEF Stream, TypeOK

\* The numbers there are.
LEMMA Numbers ==
    ASSUME TypeOK
    PROVE  /\ sent \in Nat /\ answered \in Nat /\ Len(requests) \in Nat /\ Executed \in Int
           /\ DOMAIN requests = 1..Len(requests)
           /\ \A i \in DOMAIN Stream : Stream[i] \in Tokens /\ Stream[i].n \in Nat
<1>1. sent \in Nat /\ answered \in Nat
  BY MaxSentAssumption DEF TypeOK
<1>2. Len(requests) \in Nat /\ DOMAIN requests = 1..Len(requests)
  BY LenProperties DEF TypeOK
<1>3. \A i \in DOMAIN Stream : Stream[i] \in Tokens
  BY StreamTypes, ElementOfSeq
<1>4. \A x \in Tokens : x.n \in Nat
  BY TokenLemma, MaxSentAssumption
<1> QED  BY <1>1, <1>2, <1>3, <1>4 DEF Executed

\* What each kind of token is.
LEMMA Kinds ==
    ASSUME NEW x \in Tokens
    PROVE  /\ x.t \in {"at", "name", "head", "tail"}
           /\ x.t = "at" => x = At
           /\ x.t = "name" => x = Name
           /\ IsHead(x) => x.v \in Results /\ x = HeadOf(x.n, x.v)
           /\ IsTail(x) => x = TailOf(x.n)
BY DEF Tokens, At, Name, HeadOf, TailOf, IsHead, IsTail

\* t is what is left of s when k tokens were taken and some at the end were lost
Within(t, s, k) == Len(t) + k <= Len(s) /\ \A i \in 1..Len(t) : t[i] = s[i + k]

\* Answers that are left are still in order.
LEMMA TravellingWithin ==
    ASSUME NEW s \in Seq(Tokens), NEW t \in Seq(Tokens), NEW k \in Nat, Within(t, s, k),
           Travelling(s)
    PROVE  Travelling(t)
<1>1. Len(t) \in Nat /\ Len(s) \in Nat /\ DOMAIN s = 1..Len(s) /\ DOMAIN t = 1..Len(t)
  BY LenProperties
<1>2. \A i \in DOMAIN t : i + k \in DOMAIN s /\ t[i] = s[i + k]
  BY <1>1 DEF Within
<1>3. \A i, j \in DOMAIN t : i < j => i + k < j + k
  BY <1>1
<1> QED  BY <1>2, <1>3 DEF Travelling

\* Nothing else is there when there is no answer, whatever is taken.
LEMMA NoAnswersWithin ==
    ASSUME NEW s \in Seq(Tokens), NEW t \in Seq(Tokens), NEW k \in Nat, Within(t, s, k),
           NoAnswers(s)
    PROVE  NoAnswers(t)
<1>1. Len(t) \in Nat /\ Len(s) \in Nat /\ DOMAIN s = 1..Len(s) /\ DOMAIN t = 1..Len(t)
  BY LenProperties
<1>2. \A i \in DOMAIN t : i + k \in DOMAIN s /\ t[i] = s[i + k]
  BY <1>1 DEF Within
<1> QED  BY <1>2 DEF NoAnswers

\* A cut in front of a token that is not a tail or a name leaves what follows intact.
LEMMA IntactWithin ==
    ASSUME NEW s \in Seq(Tokens), NEW t \in Seq(Tokens), NEW k \in Nat, Within(t, s, k),
           Intact(s), Len(t) > 0 => ~IsTail(t[1]) /\ t[1] # Name
    PROVE  Intact(t)
<1>1. Len(t) \in Nat /\ Len(s) \in Nat /\ DOMAIN s = 1..Len(s) /\ DOMAIN t = 1..Len(t)
  BY LenProperties
<1>2. \A i \in DOMAIN t : i + k \in DOMAIN s /\ t[i] = s[i + k]
  BY <1>1 DEF Within
<1>3. ASSUME NEW i \in DOMAIN t
      PROVE  /\ IsHead(t[i]) => t[i].n = sent /\ (i + 1 \in DOMAIN t => t[i + 1] = TailOf(sent))
             /\ IsTail(t[i]) => i - 1 \in DOMAIN t /\ IsHead(t[i - 1])
             /\ t[i] = Name => authed /\ i - 1 \in DOMAIN t /\ t[i - 1] = At
  <2>1. i + k \in DOMAIN s /\ t[i] = s[i + k] /\ (i + k) + 1 = (i + 1) + k /\ (i + k) - 1 = (i - 1) + k
    BY <1>1, <1>2
  <2>2. i + 1 \in DOMAIN t => (i + k) + 1 \in DOMAIN s /\ t[i + 1] = s[(i + k) + 1]
    BY <1>2, <2>1
  <2>3. i = 1 \/ i - 1 \in DOMAIN t
    BY <1>1
  <2>4. i - 1 \in DOMAIN t => t[i - 1] = s[(i + k) - 1]
    BY <1>2, <2>1
  <2>5. i = 1 => ~IsTail(t[i]) /\ t[i] # Name
    BY <1>1
  <2> QED  BY <2>1, <2>2, <2>3, <2>4, <2>5 DEF Intact
<1> QED  BY <1>3 DEF Intact

\* What a read leaves of the stream.
LEMMA StreamRest ==
    ASSUME TypeOK, TypeOK', NEW k \in 0..Len(inbox), inbox' = Rest(inbox, k), wire' = wire
    PROVE  Within(Stream', Stream, k) /\ Len(inbox') = Len(inbox) - k
<1>0. inbox \in Seq(Tokens) /\ wire \in Seq(Tokens) /\ inbox' \in Seq(Tokens)
  BY DEF TypeOK
<1>1. /\ Len(inbox) \in Nat /\ Len(wire) \in Nat /\ Len(inbox') \in Nat
      /\ Len(Stream) = Len(inbox) + Len(wire) /\ Len(Stream') = Len(inbox') + Len(wire)
  BY <1>0, StreamFacts DEF Stream
<1>2. /\ \A i \in 1..Len(inbox) : Stream[i] = inbox[i]
      /\ \A i \in 1..Len(wire) : Stream[Len(inbox) + i] = wire[i]
      /\ \A i \in 1..Len(inbox') : Stream'[i] = inbox'[i]
      /\ \A i \in 1..Len(wire) : Stream'[Len(inbox') + i] = wire[i]
  BY <1>0, StreamFacts DEF Stream
<1>3. Len(inbox') = Len(inbox) - k /\ \A i \in 1..Len(inbox') : inbox'[i] = inbox[i + k]
  <2>1. inbox' = SubSeq(inbox, k + 1, Len(inbox))
    BY DEF Rest
  <2>2. /\ Len(SubSeq(inbox, k + 1, Len(inbox))) = Len(inbox) - k
        /\ \A i \in 1..(Len(inbox) - k) : SubSeq(inbox, k + 1, Len(inbox))[i] = inbox[i + k]
    BY <1>0, <1>1, SubSeqProperties
  <2> QED  BY <2>1, <2>2
<1>4. ASSUME NEW i \in 1..Len(Stream') PROVE Stream'[i] = Stream[i + k]
  <2>1. CASE i \in 1..Len(inbox')
    <3>1. i + k \in 1..Len(inbox)
      BY <1>1, <1>3, <2>1
    <3> QED  BY <1>2, <1>3, <2>1, <3>1
  <2>2. CASE i \notin 1..Len(inbox')
    <3> DEFINE j == i - Len(inbox')
    <3>1. j \in 1..Len(wire) /\ i = Len(inbox') + j /\ i + k = Len(inbox) + j
      BY <1>1, <1>3, <2>2
    <3> HIDE DEF j
    <3>2. Stream'[Len(inbox') + j] = wire[j] /\ Stream[Len(inbox) + j] = wire[j]
      BY <1>2, <3>1
    <3> QED  BY <3>1, <3>2
  <2> QED  BY <2>1, <2>2
<1>5. Len(Stream') + k <= Len(Stream)
  BY <1>1, <1>3
<1> QED  BY <1>3, <1>4, <1>5 DEF Within

\* What is lost is lost at the end.
LEMMA StreamCut ==
    ASSUME TypeOK, wire' = <<>>, inbox' = inbox
    PROVE  Within(Stream', Stream, 0)
<1>1. Stream' = inbox
  BY ConcatEmptySeq DEF Stream, TypeOK
<1> QED  BY <1>1, StreamTypes DEF Within

\* Delivery changes nothing of it.
LEMMA StreamDelivered ==
    ASSUME TypeOK, TypeOK', Deliver
    PROVE  Stream' = Stream
<1>1. /\ inbox \in Seq(Tokens) /\ wire \in Seq(Tokens) /\ wire # <<>>
      /\ inbox' = Append(inbox, Head(wire)) /\ wire' = Tail(wire)
  BY DEF Deliver, TypeOK
<1>2. wire = <<Head(wire)>> \o Tail(wire) /\ Head(wire) \in Tokens /\ Tail(wire) \in Seq(Tokens)
  BY <1>1, HeadTailProperties, SeqDef
<1>3. Append(inbox, Head(wire)) = inbox \o <<Head(wire)>>
  BY <1>1, <1>2, AppendIsConcat
<1>4. (inbox \o <<Head(wire)>>) \o Tail(wire) = inbox \o (<<Head(wire)>> \o Tail(wire))
  BY <1>1, <1>2, Associative
<1> QED  BY <1>1, <1>2, <1>3, <1>4 DEF Stream

-----------------------------------------------------------------------------
(* What a send is given                                                    *)

\* Which line the read took, and what was made of it.
LEMMA SendRead ==
    ASSUME TypeOK, NEW o \in SendResults
    PROVE  /\ o.k \in 0..Len(inbox)
           /\ LET line == Taken(inbox, o.k)
              IN  /\ line \in Seq(Tokens) /\ Len(line) = o.k
                  /\ \A i \in 1..o.k : line[i] = inbox[i]
                  /\ o.got # <<>> => Parsable(line) /\ o.got = StripPrompt(line) /\ line # <<>>
                  /\ o.why \notin {"timeout", "cut", "unparsed"} =>
                        o.why = "whole" /\ line # <<>> /\ IsTail(line[o.k])
<1>1. inbox \in Seq(Tokens) /\ Len(inbox) \in Nat
  BY StreamTypes
<1>2. PICK k \in LineReads(inbox) : o \in LineResults(Taken(inbox, k))
  BY DEF SendResults
<1>3. k \in 0..Len(inbox)
  BY <1>1, LineReadsLemma
<1> DEFINE line == Taken(inbox, k)
<1>4. line \in Seq(Tokens) /\ Len(line) = k /\ \A i \in 1..k : line[i] = inbox[i]
  <2>1. line \in Seq(Tokens) /\ Len(line) = k
    BY <1>1, <1>3, TakenRest
  <2>2. \A i \in 1..k : SubSeq(inbox, 1, k)[i] = inbox[i]
    BY <1>1, <1>3, SubSeqProperties
  <2> QED  BY <2>1, <2>2 DEF Taken
<1> HIDE DEF line
<1>5. CASE line = <<>>
  <2>1. o = [k |-> 0, ret |-> "failed", got |-> <<>>, why |-> "timeout"]
    BY <1>2, <1>5 DEF LineResults, line
  <2>2. k = 0
    BY <1>4, <1>5
  <2> QED  BY <1>3, <1>4, <2>1, <2>2 DEF line
<1>6. CASE line # <<>>
  <2> DEFINE why == IF IsTail(Last(line)) THEN "whole" ELSE "cut"
  <2>1. why = "whole" => IsTail(line[k])
    BY <1>4 DEF Last
  <2>2. why \in {"whole", "cut"}
    OBVIOUS
  <2> HIDE DEF why
  <2>3. \/ o = [k |-> Len(line), ret |-> "failed", got |-> <<>>, why |-> why]
        \/ /\ Parsable(line)
           /\ \E g \in Copied(line) : o = [k |-> Len(line), ret |-> "ok", got |-> g, why |-> why]
        \/ o = [k |-> Len(line), ret |-> "failed", got |-> <<>>, why |-> "unparsed"]
    BY <1>2, <1>6 DEF LineResults, line, why
  <2>4. \A g \in Copied(line) : g = <<>> \/ g = StripPrompt(line)
    BY DEF Copied
  <2>5. /\ o.k = k /\ o.why \in {why, "unparsed"}
        /\ o.got = <<>> \/ (Parsable(line) /\ o.got = StripPrompt(line))
    BY <1>4, <2>3, <2>4
  <2> QED  BY <1>3, <1>4, <1>6, <2>1, <2>2, <2>5 DEF line
<1> QED  BY <1>5, <1>6

\* The line without its prompt begins at its first head, or is the line.
LEMMA Stripped ==
    ASSUME NEW line \in Seq(Tokens), line # <<>>, Parsable(line)
    PROVE  \E d \in 0..(Len(line) - 1) :
              /\ StripPrompt(line) \in Seq(Tokens) /\ Len(StripPrompt(line)) = Len(line) - d
              /\ \A i \in 1..(Len(line) - d) : StripPrompt(line)[i] = line[i + d]
              /\ line[1].t = "at" =>
                    IsHead(line[d + 1]) /\ \A i \in 1..Len(line) : IsHead(line[i]) => d + 1 <= i
              /\ line[1].t # "at" => d = 0
<1>1. Len(line) \in Nat /\ Len(line) # 0
  BY EmptySeq
<1>2. CASE line[1].t = "at"
  <2> DEFINE h == SelectInSeq(line, IsHead)
  <2>1. h \in 1..Len(line) /\ IsHead(line[h]) /\ \A i \in 1..Len(line) : IsHead(line[i]) => h <= i
    <3>1. h \in 0..Len(line) /\ (h # 0 => IsHead(line[h]))
      BY <1>1, SelectHead
    <3>2. \A i \in 1..Len(line) : IsHead(line[i]) => h <= i
      BY <1>1, FirstHead
    <3>3. h # 0
      BY <1>2 DEF Parsable
    <3> HIDE DEF h
    <3> QED  BY <1>1, <3>1, <3>2, <3>3
  <2>2. StripPrompt(line) = SubSeq(line, h, Len(line))
    BY <1>2 DEF StripPrompt
  <2> HIDE DEF h
  <2>3. /\ SubSeq(line, h, Len(line)) \in Seq(Tokens)
        /\ Len(SubSeq(line, h, Len(line))) = Len(line) - h + 1
        /\ \A i \in 1..(Len(line) - h + 1) : SubSeq(line, h, Len(line))[i] = line[h + i - 1]
    BY <1>1, <2>1, SubSeqProperties
  <2>4. /\ h - 1 \in 0..(Len(line) - 1) /\ (h - 1) + 1 = h
        /\ Len(line) - h + 1 = Len(line) - (h - 1)
        /\ \A i \in 1..(Len(line) - (h - 1)) : h + i - 1 = i + (h - 1)
    BY <1>1, <2>1
  <2>5. /\ StripPrompt(line) \in Seq(Tokens) /\ Len(StripPrompt(line)) = Len(line) - (h - 1)
        /\ \A i \in 1..(Len(line) - (h - 1)) : StripPrompt(line)[i] = line[i + (h - 1)]
        /\ IsHead(line[(h - 1) + 1])
        /\ \A i \in 1..Len(line) : IsHead(line[i]) => (h - 1) + 1 <= i
    BY <2>1, <2>2, <2>3, <2>4
  <2> QED  BY <1>2, <2>4, <2>5
<1>3. CASE line[1].t # "at"
  <2>1. StripPrompt(line) = line /\ 0 \in 0..(Len(line) - 1)
    BY <1>1, <1>3 DEF StripPrompt
  <2> QED  BY <1>1, <1>3, <2>1
<1> QED  BY <1>2, <1>3

\* The command whose answer a caller is given is that of a head the read took.
LEMMA AnsweredHead ==
    ASSUME TypeOK, NEW o \in SendResults
    PROVE  \/ Answered(o.got) = answered
           \/ \E h \in 1..o.k : IsHead(inbox[h]) /\ Answered(o.got) = inbox[h].n
<1> DEFINE line == Taken(inbox, o.k)
<1>1. /\ o.k \in 0..Len(inbox) /\ line \in Seq(Tokens) /\ Len(line) = o.k
      /\ \A i \in 1..o.k : line[i] = inbox[i]
      /\ o.got # <<>> => Parsable(line) /\ o.got = StripPrompt(line) /\ line # <<>>
  BY SendRead
<1>2. Len(inbox) \in Nat
  BY StreamTypes
<1> HIDE DEF line
<1>3. CASE o.got = <<>>
  <2>1. SelectInSeq(o.got, IsHead) = 0
    <3>1. Len(o.got) = 0 /\ Len(o.got) \in Nat
      BY <1>3
    <3>2. SelectInSeq(o.got, IsHead) \in 0..Len(o.got)
      BY <3>1, SelectHead
    <3> QED  BY <3>1, <3>2
  <2> QED  BY <2>1 DEF Answered
<1>4. CASE o.got # <<>>
  <2>1. PICK d \in 0..(Len(line) - 1) :
            /\ o.got \in Seq(Tokens) /\ Len(o.got) = Len(line) - d
            /\ \A i \in 1..(Len(line) - d) : o.got[i] = line[i + d]
    <3>1. Parsable(line) /\ o.got = StripPrompt(line) /\ line # <<>> /\ line \in Seq(Tokens)
      BY <1>1, <1>4
    <3>2. \E d \in 0..(Len(line) - 1) :
              /\ StripPrompt(line) \in Seq(Tokens) /\ Len(StripPrompt(line)) = Len(line) - d
              /\ \A i \in 1..(Len(line) - d) : StripPrompt(line)[i] = line[i + d]
      BY <3>1, Stripped
    <3> QED  BY <3>1, <3>2
  <2> DEFINE g == SelectInSeq(o.got, IsHead)
  <2>2. Answered(o.got) = IF g = 0 THEN answered ELSE o.got[g].n
    BY DEF Answered
  <2>3. g \in 0..Len(o.got) /\ (g # 0 => IsHead(o.got[g]))
    <3>1. Len(o.got) \in Nat
      BY <2>1
    <3> QED  BY <3>1, SelectHead
  <2> HIDE DEF g
  <2>4. CASE g # 0
    <3>1. g \in 1..(Len(line) - d) /\ g + d \in 1..o.k
      BY <1>1, <1>2, <2>1, <2>3, <2>4
    <3>2. o.got[g] = inbox[g + d]
      BY <1>1, <2>1, <3>1
    <3> QED  BY <2>2, <2>3, <2>4, <3>1, <3>2
  <2> QED  BY <2>2, <2>4
<1> QED  BY <1>3, <1>4

\* The order of the answers outlasts a read.
LEMMA ReceiveTravelling ==
    ASSUME TypeOK, TypeOK', Travelling(Stream), NEW o \in SendResults, Receive(o),
           UNCHANGED <<wire, sent, requests>>
    PROVE  /\ Travelling(Stream)'
           /\ answered' = answered \/ answered' \in (answered + 1)..Executed
           /\ Within(Stream', Stream, o.k)
<1>1. o.k \in 0..Len(inbox) /\ Len(inbox) \in Nat
  BY SendRead, StreamTypes
<1>2. Within(Stream', Stream, o.k)
  BY <1>1, StreamRest DEF Receive
<1>3. /\ Stream \in Seq(Tokens) /\ Len(Stream) \in Nat /\ DOMAIN Stream = 1..Len(Stream)
      /\ Len(Stream) >= Len(inbox)
      /\ \A i \in 1..Len(inbox) : Stream[i] = inbox[i]
  BY StreamTypes
<1>4. Stream' \in Seq(Tokens)
  BY StreamFacts DEF TypeOK, Stream
<1>5. Len(Stream') \in Nat /\ DOMAIN Stream' = 1..Len(Stream')
  BY <1>4, LenProperties
<1>6. \A i \in DOMAIN Stream' : i + o.k \in DOMAIN Stream /\ Stream'[i] = Stream[i + o.k]
  BY <1>1, <1>2, <1>3, <1>5 DEF Within
<1>7. /\ answered \in Nat /\ Executed \in Int /\ Executed' = Executed /\ answered <= Executed
      /\ \A i \in DOMAIN Stream : Stream[i].n \in Nat
  BY Numbers DEF Executed, Travelling
<1>8. answered' = Answered(o.got)
  BY DEF Receive
<1>9. CASE answered' = answered
  <2>1. Travelling(Stream')
    BY <1>1, <1>2, <1>3, <1>4, TravellingWithin
  <2> QED  BY <1>2, <1>7, <1>9, <2>1 DEF Travelling
<1>10. CASE \E h \in 1..o.k : IsHead(inbox[h]) /\ answered' = inbox[h].n
  <2>1. PICK h \in 1..o.k : IsHead(inbox[h]) /\ answered' = inbox[h].n
    BY <1>10
  <2>2. h \in 1..Len(inbox) /\ h \in DOMAIN Stream /\ Stream[h] = inbox[h]
    BY <1>1, <1>3
  <2>3. answered < answered' /\ answered' <= Executed /\ answered' \in Nat
    BY <1>7, <2>1, <2>2 DEF Travelling
  <2>4. ASSUME NEW i \in DOMAIN Stream', IsHead(Stream'[i])
        PROVE  answered' < Stream'[i].n /\ Stream'[i].n <= Executed
    <3>1. h < i + o.k
      BY <1>1, <1>5
    <3> QED  BY <1>6, <2>1, <2>2, <2>4, <3>1 DEF Travelling
  <2>5. \A i, j \in DOMAIN Stream' :
            i < j /\ IsHead(Stream'[i]) /\ IsHead(Stream'[j]) => Stream'[i].n < Stream'[j].n
    <3>1. \A i, j \in DOMAIN Stream' : i < j => i + o.k < j + o.k
      BY <1>1, <1>5
    <3> QED  BY <1>6, <3>1 DEF Travelling
  <2>6. answered' \in (answered + 1)..Executed
    BY <1>7, <2>3
  <2> QED  BY <1>2, <1>7, <2>3, <2>4, <2>5, <2>6 DEF Travelling
<1> QED  BY <1>8, <1>9, <1>10, AnsweredHead

\* A whole line read while nothing is broken is the answer to the command just sent.
LEMMA WholeRead ==
    ASSUME TypeOK, EInv, broken = {}, Awaiting, NEW o \in SendResults,
           o.why \notin {"timeout", "cut", "unparsed"}
    PROVE  /\ o.k > 1 /\ o.k \in DOMAIN Stream /\ requests = <<>>
           /\ IsHead(Stream[o.k - 1]) /\ IsTail(Stream[o.k])
           /\ \/ o.got = <<>>
              \/ Answered(o.got) = sent /\ \E v \in Results : o.got = AnswerTo(sent, v)
<1> DEFINE line == Taken(inbox, o.k)
           k == o.k
<1>1. /\ k \in 0..Len(inbox) /\ line \in Seq(Tokens) /\ Len(line) = k
      /\ \A i \in 1..k : line[i] = inbox[i]
      /\ o.got # <<>> => Parsable(line) /\ o.got = StripPrompt(line)
      /\ line # <<>> /\ IsTail(line[k])
  BY SendRead
<1>2. /\ Stream \in Seq(Tokens) /\ Len(Stream) \in Nat /\ DOMAIN Stream = 1..Len(Stream)
      /\ Len(inbox) \in Nat /\ Len(Stream) >= Len(inbox)
      /\ \A i \in 1..Len(inbox) : Stream[i] = inbox[i]
  BY StreamTypes
<1>3. k \in 1..Len(inbox)
  <2>1. Len(line) # 0
    BY <1>1, EmptySeq
  <2> QED  BY <1>1, <1>2, <2>1
<1> HIDE DEF line, k
<1>4. \A i \in 1..k : i \in DOMAIN Stream /\ line[i] = Stream[i]
  BY <1>1, <1>2, <1>3
<1>5. Intact(Stream) /\ (requests # <<>> => NoAnswers(Stream)) /\ Travelling(Stream)
  BY DEF EInv, Settled
<1>6. k - 1 \in DOMAIN Stream /\ IsHead(Stream[k - 1]) /\ IsTail(Stream[k])
  BY <1>1, <1>3, <1>4, <1>5 DEF Intact
<1>7. requests = <<>> /\ k > 1
  BY <1>2, <1>3, <1>5, <1>6 DEF NoAnswers
<1>8. Stream[k - 1] = HeadOf(sent, Stream[k - 1].v) /\ Stream[k - 1].v \in Results
      /\ Stream[k] = TailOf(sent)
  <2>1. Stream[k - 1] \in Tokens /\ Stream[k - 1].n = sent
    BY <1>5, <1>6, Numbers DEF Intact
  <2>2. (k - 1) + 1 = k /\ k \in DOMAIN Stream
    BY <1>2, <1>3
  <2> QED  BY <1>5, <1>6, <2>1, <2>2, Kinds DEF Intact
<1>9. CASE o.got # <<>>
  <2>1. PICK d \in 0..(Len(line) - 1) :
            /\ o.got \in Seq(Tokens) /\ Len(o.got) = Len(line) - d
            /\ \A i \in 1..(Len(line) - d) : o.got[i] = line[i + d]
            /\ line[1].t = "at" =>
                  IsHead(line[d + 1]) /\ \A i \in 1..Len(line) : IsHead(line[i]) => d + 1 <= i
            /\ line[1].t # "at" => d = 0
    <3>1. Parsable(line) /\ o.got = StripPrompt(line) /\ line # <<>> /\ line \in Seq(Tokens)
      BY <1>1, <1>9
    <3> HIDE <1>1
    <3> QED  BY <3>1, Stripped
  <2>2. IsHead(line[d + 1])
    <3>1. 1 \in 1..k /\ line[1] \in Tokens /\ line[1] = Stream[1] /\ 1 - 1 \notin DOMAIN Stream
      BY <1>1, <1>2, <1>3, <1>4
    <3>2. line[1].t # "name" /\ line[1].t # "tail"
      BY <1>4, <1>5, <3>1, Kinds DEF Intact, IsTail
    <3>3. line[1].t # "at" => IsHead(line[1])
      BY <3>1, <3>2, Kinds DEF IsHead
    <3> QED  BY <2>1, <3>3
  <2>3. d + 1 = k - 1
    <3>1. d + 1 \in 1..k /\ Len(line) = k
      BY <1>1, <1>3, <2>1
    <3>2. IsHead(Stream[d + 1]) /\ d + 1 \in DOMAIN Stream
      BY <1>4, <2>2, <3>1
    <3>3. Stream[d + 1].n = sent /\ Stream[k - 1].n = sent /\ sent \in Nat
      BY <1>5, <1>6, <3>2, Numbers DEF Intact
    <3>4. ~(d + 1 < k - 1) /\ ~(k - 1 < d + 1)
      BY <1>5, <1>6, <3>2, <3>3 DEF Travelling
    <3> QED  BY <1>2, <1>3, <3>1, <3>4
  <2>4. Len(o.got) = 2 /\ o.got[1] = Stream[k - 1] /\ o.got[2] = Stream[k]
    <3>1. Len(line) - d = 2 /\ 1 + d = k - 1 /\ 2 + d = k
      BY <1>1, <1>3, <2>1, <2>3
    <3>2. o.got[1] = line[1 + d] /\ o.got[2] = line[2 + d]
      BY <2>1, <3>1
    <3>3. k - 1 \in 1..k /\ k \in 1..k
      BY <1>3, <1>7
    <3> QED  BY <1>4, <2>1, <3>1, <3>2, <3>3
  <2>5. o.got = AnswerTo(sent, Stream[k - 1].v)
    <3>1. o.got = <<o.got[1], o.got[2]>>
      BY <2>1, <2>4
    <3> QED  BY <1>8, <2>4, <3>1 DEF AnswerTo
  <2>6. Answered(o.got) = sent
    <3> DEFINE h == SelectInSeq(o.got, IsHead)
    <3>1. h <= 1 /\ h # 0 /\ h \in 0..2
      <4>1. Len(o.got) = 2 /\ Len(o.got) \in Nat /\ 1 \in 1..Len(o.got) /\ IsHead(o.got[1])
        BY <1>6, <2>4
      <4>2. h \in 0..Len(o.got)
        BY <4>1, SelectHead
      <4>3. h <= 1 /\ h # 0
        BY <4>1, FirstHead
      <4> HIDE DEF h
      <4> QED  BY <4>1, <4>2, <4>3
    <3>2. Answered(o.got) = IF h = 0 THEN answered ELSE o.got[h].n
      BY DEF Answered
    <3> HIDE DEF h
    <3>3. h = 1
      BY <3>1
    <3>4. Stream[k - 1].n = sent
      BY <1>5, <1>6 DEF Intact
    <3> QED  BY <2>4, <3>2, <3>3, <3>4
  <2> QED  BY <1>4, <1>3, <1>6, <1>7, <1>8, <2>5, <2>6 DEF k
<1>10. CASE o.got = <<>>
  BY <1>4, <1>3, <1>6, <1>7, <1>10 DEF k
<1> QED  BY <1>9, <1>10

-----------------------------------------------------------------------------
(* The steps of Exchange                                                   *)

ExchangeStep == E!Next \/ UNCHANGED E!vars

\* A step that leaves the five of them alone is a stutter of Exchange.
LEMMA Stutters ==
    ASSUME UNCHANGED <<sent, requests, answered, broken>>
    PROVE  ExchangeStep
<1>1. UNCHANGED E!vars
  BY DEF E!vars
<1> QED  BY <1>1 DEF ExchangeStep

\* A connection is opened anew.
LEMMA Renews ==
    ASSUME NewSession
    PROVE  ExchangeStep
<1>1. (broken' # {}) = FALSE
  BY DEF NewSession
<1>2. sent' - Len(requests') = 0
  <2>1. Len(<<>>) = 0
    OBVIOUS
  <2>2. sent' = 0 /\ Len(requests') = 0
    BY <2>1 DEF NewSession
  <2> QED  BY <2>2
<1>3. E!NewSession
  BY <1>1, <1>2 DEF NewSession, E!NewSession
<1> QED  BY <1>3 DEF ExchangeStep, E!Next

\* A read that is not the whole answer, now or earlier, may give any answer that is due.
LEMMA Taints ==
    ASSUME broken' # {}, UNCHANGED <<sent, requests>>,
           answered' = answered \/ answered' \in (answered + 1)..Executed
    PROVE  ExchangeStep
<1>1. (broken' # {}) = TRUE
  OBVIOUS
<1>2. CASE answered' = answered
  <2>1. E!GiveUpEmpty
    BY <1>1, <1>2 DEF E!GiveUpEmpty
  <2> QED  BY <2>1 DEF ExchangeStep, E!Next
<1>3. CASE answered' \in (answered + 1)..Executed
  <2>1. E!GiveUp
    BY <1>1, <1>3 DEF E!GiveUp, Executed
  <2> QED  BY <2>1 DEF ExchangeStep, E!Next
<1> QED  BY <1>2, <1>3

\* The answer to the command that was sent last, before anything broke.
LEMMA Answers ==
    ASSUME TypeOK, broken = {}, broken' = {}, requests = <<>>, UNCHANGED <<sent, requests>>,
           answered < sent, answered' = sent
    PROVE  ExchangeStep
<1>1. (broken # {}) = FALSE /\ (broken' # {}) = (broken # {})
  OBVIOUS
<1>2. sent \in Nat /\ Len(requests) = 0
  BY Numbers
<1>3. E!Answer
  BY <1>1, <1>2 DEF E!Answer
<1> QED  BY <1>3 DEF ExchangeStep, E!Next

\* A command is written.
LEMMA Issues ==
    ASSUME TypeOK, NEW cmd, NEW good, Write(cmd, good), answered' = answered,
           broken' = broken \/ broken' # {}
    PROVE  ExchangeStep
<1>1. (broken' # {}) = (broken # {}) \/ (broken' # {}) = TRUE
  OBVIOUS
<1>2. requests \in Seq(Requests) /\ sent \in Nat /\ Len(requests) \in Nat
  BY Numbers DEF TypeOK
<1>3. Len(Append(requests, [cmd |-> cmd, n |-> sent + 1, good |-> good])) = Len(requests) + 1
  BY <1>2
<1>4. sent' = sent + 1 /\ sent' - Len(requests') = sent - Len(requests)
  BY <1>2, <1>3 DEF Write
<1>5. E!Issue
  BY <1>1, <1>4 DEF E!Issue
<1> QED  BY <1>5 DEF ExchangeStep, E!Next

\* The server takes the next command.
LEMMA Executes ==
    ASSUME TypeOK, requests # <<>>, requests' = Tail(requests),
           UNCHANGED <<sent, answered, broken>>
    PROVE  ExchangeStep
<1>1. requests \in Seq(Requests) /\ sent \in Nat /\ Len(requests) \in Nat /\ Len(requests) # 0
  BY Numbers, EmptySeq DEF TypeOK
<1>2. Len(requests') = Len(requests) - 1
  BY <1>1, HeadTailProperties
<1>3. E!Execute
  BY <1>1, <1>2 DEF E!Execute
<1> QED  BY <1>3 DEF ExchangeStep, E!Next

-----------------------------------------------------------------------------
(* Commands and answers: one lemma per kind of step                        *)

\* A call that returns without having written
LEMMA Returns ==
    ASSUME EInv, UNCHANGED <<requests, wire, inbox, authed, sent, answered, broken>>,
           ~Awaiting, phase' = "idle", recv' \in {recv, <<>>}
    PROVE  EInv' /\ ExchangeStep
<1>1. Stream' = Stream /\ Executed' = Executed
  BY DEF Stream, Executed
<1>2. Queued' /\ Travelling(Stream)' /\ Settled' /\ Fresh' /\ Paired'
  BY <1>1 DEF EInv, Queued, Travelling, Settled, Intact, NoAnswers, Fresh, Paired, Awaiting
<1> QED  BY <1>2, Stutters DEF EInv

\* A command is written; if its answer is not to be read something breaks.
LEMMA Writes ==
    ASSUME TypeOK, EInv, NEW cmd, NEW good, Write(cmd, good),
           UNCHANGED <<wire, inbox, authed, answered>>, ~Awaiting,
           \/ broken' = broken /\ phase' \in {"from", "auth", "op"}
           \/ broken' # {} /\ phase' = "idle",
           phase' = "from" => phase = "start" /\ cmd = "from"
    PROVE  EInv' /\ ExchangeStep
<1> DEFINE r == [cmd |-> cmd, n |-> sent + 1, good |-> good]
<1>1. /\ sent \in Nat /\ answered \in Nat /\ Len(requests) \in Nat
      /\ requests' = Append(requests, r) /\ sent' = sent + 1 /\ recv' = <<>>
      /\ Stream' = Stream /\ answered <= Executed /\ Len(requests) <= sent
  BY Numbers DEF Write, Stream, EInv, Travelling, Queued
<1>2. /\ Len(requests') = Len(requests) + 1 /\ DOMAIN requests' = 1..(Len(requests) + 1)
      /\ \A i \in 1..Len(requests) : requests'[i] = requests[i]
      /\ requests'[Len(requests) + 1] = r
  <2>1. requests \in Seq({requests[i] : i \in DOMAIN requests} \cup {r})
    BY DEF TypeOK
  <2> QED  BY <1>1, <2>1, AppendProperties, LenProperties
<1>3. Executed' = Executed /\ answered < sent'
  BY <1>1, <1>2 DEF Executed
<1>4. Queued'
  <2>1. ASSUME NEW i \in DOMAIN requests' PROVE requests'[i].n = Executed + i
    <3>1. CASE i \in 1..Len(requests)
      BY <1>2, <3>1, Numbers DEF EInv, Queued
    <3>2. CASE i = Len(requests) + 1
      BY <1>1, <1>2, <3>2 DEF Executed
    <3> QED  BY <1>1, <1>2, <3>1, <3>2
  <2> QED  BY <1>1, <1>2, <1>3, <2>1 DEF Queued
<1>5. Travelling(Stream)'
  BY <1>1, <1>3 DEF EInv, Travelling
<1>6. Settled'
  <2> SUFFICES ASSUME broken' = {} PROVE Settled'
    BY DEF Settled
  <2>1. broken = {} /\ Awaiting'
    BY DEF Awaiting
  <2>2. requests = <<>> /\ NoAnswers(Stream) /\ Intact(Stream)
    BY <2>1 DEF EInv, Settled
  <2>3. Len(requests') = 1
    <3>1. Len(requests) = 0
      BY <2>2
    <3> QED  BY <1>2, <3>1
  <2>4. Intact(Stream)' /\ NoAnswers(Stream)'
    BY <1>1, <2>2 DEF Intact, NoAnswers
  <2> QED  BY <1>3, <2>1, <2>3, <2>4 DEF Settled
<1>7. Fresh'
  <2> SUFFICES ASSUME phase' = "from" PROVE Fresh'
    BY DEF Fresh
  <2>1. ~authed /\ \A i \in DOMAIN requests : requests[i].cmd = "from"
    BY DEF EInv, Fresh
  <2>2. ASSUME NEW i \in DOMAIN requests' PROVE requests'[i].cmd = "from"
    BY <1>1, <1>2, <2>1, <2>2, Numbers
  <2> QED  BY <2>1, <2>2 DEF Fresh
<1>8. Paired'
  BY <1>1 DEF Paired
<1> QED  BY <1>4, <1>5, <1>6, <1>7, <1>8, Issues DEF EInv

\* A send reads its answer.
LEMMA Receives ==
    ASSUME TypeOK, TypeOK', EInv, NEW o \in SendResults, Receive(o),
           UNCHANGED <<requests, wire, authed, sent>>, Awaiting,
           phase' \in {"idle", "prompt", "sign"}, phase' = "prompt" => phase = "from"
    PROVE  EInv' /\ ExchangeStep
<1>1. /\ Travelling(Stream)'
      /\ answered' = answered \/ answered' \in (answered + 1)..Executed
      /\ Within(Stream', Stream, o.k)
  BY ReceiveTravelling DEF EInv
<1>2. Queued'
  BY DEF EInv, Queued, Executed
<1>3. Fresh'
  BY DEF EInv, Fresh
<1>4. CASE broken' # {}
  BY <1>1, <1>2, <1>3, <1>4, Taints DEF EInv, Settled, Paired
<1>5. CASE broken' = {}
  <2>1. broken = {} /\ o.why \notin {"timeout", "cut", "unparsed"}
    BY <1>5 DEF Receive, Shortfall
  <2>2. /\ o.k > 1 /\ o.k \in DOMAIN Stream /\ requests = <<>>
        /\ IsHead(Stream[o.k - 1]) /\ IsTail(Stream[o.k])
        /\ \/ o.got = <<>>
           \/ Answered(o.got) = sent /\ \E v \in Results : o.got = AnswerTo(sent, v)
    BY <2>1, WholeRead
  <2>3. /\ Stream \in Seq(Tokens) /\ Stream' \in Seq(Tokens)
        /\ DOMAIN Stream = 1..Len(Stream) /\ DOMAIN Stream' = 1..Len(Stream')
        /\ Len(Stream) \in Nat /\ Len(Stream') \in Nat /\ sent \in Nat
    <3>1. Stream' \in Seq(Tokens)
      BY StreamFacts DEF TypeOK, Stream
    <3> QED  BY <3>1, StreamTypes, Numbers, LenProperties
  <2>4. Intact(Stream) /\ Travelling(Stream) /\ answered < sent
    BY <2>1 DEF EInv, Settled
  <2>5. \A i \in DOMAIN Stream' : i + o.k \in DOMAIN Stream /\ Stream'[i] = Stream[i + o.k]
    BY <1>1, <2>2, <2>3 DEF Within
  <2>6. NoAnswers(Stream')
    <3>1. ASSUME NEW i \in DOMAIN Stream', IsHead(Stream'[i]) PROVE FALSE
      <4>1. o.k - 1 \in DOMAIN Stream /\ o.k - 1 < i + o.k
        BY <2>2, <2>3
      <4>2. Stream[o.k - 1].n = sent /\ Stream[i + o.k].n = sent
        BY <2>2, <2>4, <2>5, <3>1, <4>1 DEF Intact
      <4>3. Stream[o.k - 1].n < Stream[i + o.k].n
        BY <2>2, <2>4, <2>5, <3>1, <4>1 DEF Travelling
      <4> QED  BY <2>3, <4>2, <4>3
    <3> QED  BY <3>1 DEF NoAnswers
  <2>7. Intact(Stream')
    <3>1. ASSUME Len(Stream') > 0 PROVE ~IsTail(Stream'[1]) /\ Stream'[1] # Name
      <4>1. 1 \in DOMAIN Stream' /\ (1 + o.k) - 1 = o.k
        BY <2>2, <2>3, <3>1
      <4>2. 1 + o.k \in DOMAIN Stream /\ Stream'[1] = Stream[1 + o.k]
        BY <2>5, <4>1
      <4>3. ~IsHead(Stream[o.k]) /\ Stream[o.k] # At
        BY <2>2 DEF IsHead, IsTail, At
      <4> QED  BY <2>4, <4>1, <4>2, <4>3 DEF Intact
    <3>2. o.k \in Nat
      BY <2>2, <2>3
    <3> QED  BY <1>1, <2>3, <2>4, <3>1, <3>2, IntactWithin
  <2>8. Settled'
    BY <2>2, <2>6, <2>7 DEF Settled, Awaiting, Intact, NoAnswers
  <2>9. recv' = o.got /\ answered' = Answered(o.got)
    BY DEF Receive
  <2>10. Paired'
    BY <2>2, <2>9 DEF Paired
  <2>11. ExchangeStep
    <3>1. CASE answered' = sent
      BY <1>5, <2>1, <2>2, <2>4, <3>1, Answers
    <3>2. CASE o.got = <<>>
      <4>1. Answered(<<>>) = answered
        <5>1. Len(<<>>) = 0 /\ Len(<<>>) \in Nat
          OBVIOUS
        <5>2. SelectInSeq(<<>>, IsHead) \in 0..Len(<<>>)
          BY <5>1, SelectHead
        <5>3. SelectInSeq(<<>>, IsHead) = 0
          BY <5>1, <5>2
        <5> QED  BY <5>3 DEF Answered
      <4> QED  BY <1>5, <2>1, <2>9, <3>2, <4>1, Stutters
    <3> QED  BY <2>2, <2>9, <3>1, <3>2
  <2> QED  BY <1>1, <1>2, <1>3, <2>8, <2>10, <2>11 DEF EInv
<1> QED  BY <1>4, <1>5

\* The end of the stream is lost, or nothing of it.
LEMMA Loses ==
    ASSUME TypeOK, TypeOK', EInv, Within(Stream', Stream, 0),
           UNCHANGED <<requests, authed, sent, answered, broken, phase, recv>>
    PROVE  EInv' /\ ExchangeStep
<1>1. /\ Stream \in Seq(Tokens) /\ Stream' \in Seq(Tokens)
      /\ DOMAIN Stream = 1..Len(Stream) /\ DOMAIN Stream' = 1..Len(Stream')
      /\ Len(Stream) \in Nat /\ Len(Stream') \in Nat
  <2>1. Stream' \in Seq(Tokens)
    BY StreamFacts DEF TypeOK, Stream
  <2> QED  BY <2>1, StreamTypes, LenProperties
<1>2. Travelling(Stream')
  BY <1>1, TravellingWithin DEF EInv
<1>3. NoAnswers(Stream) => NoAnswers(Stream')
  BY <1>1, NoAnswersWithin
<1>4. ASSUME Intact(Stream) PROVE Intact(Stream')
  <2>1. ASSUME Len(Stream') > 0 PROVE ~IsTail(Stream'[1]) /\ Stream'[1] # Name
    <3>1. 1 \in DOMAIN Stream' /\ 1 \in DOMAIN Stream /\ Stream'[1] = Stream[1]
          /\ 1 - 1 \notin DOMAIN Stream
      BY <1>1, <2>1 DEF Within
    <3> QED  BY <1>4, <3>1 DEF Intact
  <2> QED  BY <1>1, <1>4, <2>1, IntactWithin
<1>5. Executed' = Executed
  BY DEF Executed
<1>6. Queued' /\ Travelling(Stream)' /\ Fresh' /\ Paired'
  BY <1>2, <1>5 DEF EInv, Queued, Travelling, Fresh, Paired
<1>7. Settled'
  BY <1>3, <1>4 DEF EInv, Settled, Awaiting, Intact, NoAnswers
<1> QED  BY <1>6, <1>7, Stutters DEF EInv

\* The prompt after the challenge is read, or what there is of it.
LEMMA ReadsPrompt ==
    ASSUME TypeOK, TypeOK', EInv, ReadPrompt
    PROVE  EInv' /\ ExchangeStep
<1>1. PICK k \in PromptReads(inbox) : inbox' = Rest(inbox, k)
  BY DEF ReadPrompt
<1>2. /\ UNCHANGED <<requests, wire, authed, sent, recv, answered>>
      /\ phase = "prompt" /\ phase' \in {"idle", "sign"}
      /\ broken' = broken \/ broken' # {}
  BY DEF ReadPrompt, serverVars, Return
<1>3. k \in 0..Len(inbox) /\ Len(inbox) \in Nat
  BY PromptReadsLemma, StreamTypes
<1>4. k \in Nat /\ Within(Stream', Stream, k)
  BY <1>1, <1>2, <1>3, StreamRest
<1>5. /\ Stream \in Seq(Tokens) /\ Stream' \in Seq(Tokens)
      /\ DOMAIN Stream = 1..Len(Stream) /\ DOMAIN Stream' = 1..Len(Stream')
      /\ Len(Stream) \in Nat /\ Len(Stream') \in Nat
  <2>1. Stream' \in Seq(Tokens)
    BY StreamFacts DEF TypeOK, Stream
  <2> QED  BY <2>1, StreamTypes, LenProperties
<1>6. Travelling(Stream') /\ Executed' = Executed
  BY <1>2, <1>4, <1>5, TravellingWithin DEF EInv, Executed
<1>7. Queued' /\ Travelling(Stream)' /\ Fresh'
  BY <1>2, <1>6 DEF EInv, Queued, Travelling, Fresh
<1>8. Paired'
  BY <1>2 DEF EInv, Paired
<1>9. Settled'
  <2> SUFFICES ASSUME broken' = {} PROVE Settled'
    BY DEF Settled
  <2>1. /\ Intact(Stream) /\ NoAnswers(Stream) /\ requests = <<>> /\ ~authed
    BY <1>2 DEF EInv, Settled, Awaiting, Fresh
  <2>2. NoAnswers(Stream')
    BY <1>4, <1>5, <2>1, NoAnswersWithin
  <2>3. ASSUME Len(Stream') > 0 PROVE ~IsTail(Stream'[1]) /\ Stream'[1] # Name
    <3>1. 1 + k \in DOMAIN Stream /\ Stream'[1] = Stream[1 + k]
      BY <1>4, <1>5, <2>3 DEF Within
    <3> QED  BY <2>1, <3>1 DEF Intact, NoAnswers
  <2>4. Intact(Stream')
    BY <1>4, <1>5, <2>1, <2>3, IntactWithin
  <2> QED  BY <1>2, <2>1, <2>2, <2>4 DEF Settled, Awaiting, Intact, NoAnswers
<1>10. ExchangeStep
  BY <1>2, Stutters, Taints
<1> QED  BY <1>7, <1>8, <1>9, <1>10 DEF EInv

\* A new connection begins with nothing.
LEMMA Begins ==
    ASSUME NewSession, phase' \in {"idle", "start"}
    PROVE  EInv' /\ ExchangeStep
<1>1. /\ requests' = <<>> /\ Stream' = <<>> /\ authed' = FALSE /\ sent' = 0 /\ recv' = <<>>
      /\ answered' = 0
  BY DEF NewSession, SessionInbox, Stream
<1>2. Len(<<>>) = 0 /\ DOMAIN <<>> = {}
  OBVIOUS
<1>3. Executed' = 0 /\ DOMAIN Stream' = {} /\ DOMAIN requests' = {} /\ Len(requests') = 0
  <2>1. DOMAIN Stream' = {} /\ DOMAIN requests' = {} /\ Len(requests') = 0
    BY <1>1, <1>2
  <2>2. sent' = 0
    BY <1>1
  <2> QED  BY <2>1, <2>2 DEF Executed
<1>4. Queued'
  BY <1>1, <1>3 DEF Queued
<1>5. Travelling(Stream)'
  BY <1>1, <1>3 DEF Travelling
<1>6. Settled'
  BY <1>1, <1>3 DEF Settled, Intact, NoAnswers, Awaiting
<1>7. Fresh' /\ Paired'
  BY <1>1, <1>3 DEF Fresh, Paired
<1> QED  BY <1>4, <1>5, <1>6, <1>7, Renews DEF EInv

\* What the server writes behind the stream.
LEMMA ServedStream ==
    ASSUME TypeOK, TypeOK', NEW r \in Requests, NEW v \in Results, NEW a,
           inbox' = inbox,
           wire' = wire \o AnswerTo(r.n, v) \o (IF a THEN <<At, Name>> ELSE <<At>>)
    PROVE  LET N == Len(Stream)
           IN  /\ Len(Stream') = N + (IF a THEN 4 ELSE 3)
               /\ \A i \in 1..N : Stream'[i] = Stream[i]
               /\ Stream'[N + 1] = HeadOf(r.n, v) /\ Stream'[N + 2] = TailOf(r.n)
               /\ Stream'[N + 3] = At /\ (a => Stream'[N + 4] = Name)
<1> DEFINE A == AnswerTo(r.n, v)
           P == IF a THEN <<At, Name>> ELSE <<At>>
           T == A \o P
<1>1. A \in Seq(Tokens) /\ P \in Seq(Tokens)
  <2>1. HeadOf(r.n, v) \in Tokens /\ TailOf(r.n) \in Tokens /\ At \in Tokens /\ Name \in Tokens
    BY DEF Tokens, Requests
  <2> QED  BY <2>1 DEF AnswerTo
<1>2. Len(A) = 2 /\ A[1] = HeadOf(r.n, v) /\ A[2] = TailOf(r.n)
  BY DEF AnswerTo
<1>3. Len(P) = (IF a THEN 2 ELSE 1) /\ P[1] = At /\ (a => P[2] = Name)
  OBVIOUS
<1> HIDE DEF A, P
<1>4. /\ T \in Seq(Tokens) /\ Len(T) = 2 + (IF a THEN 2 ELSE 1)
      /\ T[1] = HeadOf(r.n, v) /\ T[2] = TailOf(r.n) /\ T[3] = At /\ (a => T[4] = Name)
  <2>1. /\ T \in Seq(Tokens) /\ Len(T) = Len(A) + Len(P)
        /\ \A i \in 1..Len(A) : T[i] = A[i]
        /\ \A i \in 1..Len(P) : T[Len(A) + i] = P[i]
    BY <1>1, StreamFacts
  <2>2. T[1] = A[1] /\ T[2] = A[2] /\ T[2 + 1] = P[1] /\ (a => T[2 + 2] = P[2])
    BY <1>2, <1>3, <2>1
  <2> QED  BY <1>2, <1>3, <2>1, <2>2
<1>5. inbox \in Seq(Tokens) /\ wire \in Seq(Tokens) /\ Stream \in Seq(Tokens) /\ Len(Stream) \in Nat
  BY StreamTypes
<1>6. Stream' = Stream \o T
  <2>1. wire' = (wire \o A) \o P
    BY DEF A, P
  <2>2. (wire \o A) \o P = wire \o (A \o P)
    BY <1>1, <1>5, Associative
  <2>3. inbox \o (wire \o T) = (inbox \o wire) \o T
    BY <1>4, <1>5, Associative
  <2> QED  BY <2>1, <2>2, <2>3 DEF Stream, T
<1> HIDE DEF T
<1>7. /\ Len(Stream \o T) = Len(Stream) + Len(T)
      /\ \A i \in 1..Len(Stream) : (Stream \o T)[i] = Stream[i]
      /\ \A i \in 1..Len(T) : (Stream \o T)[Len(Stream) + i] = T[i]
  BY <1>4, <1>5, StreamFacts
<1> DEFINE N == Len(Stream)
           S == Stream \o T
<1>8. N \in Nat /\ Len(S) = N + Len(T) /\ \A i \in 1..Len(T) : S[N + i] = T[i]
  BY <1>5, <1>7
<1> HIDE DEF N, S
<1>9. S[N + 1] = T[1] /\ S[N + 2] = T[2] /\ S[N + 3] = T[3] /\ (a => S[N + 4] = T[4])
  BY <1>4, <1>8
<1> QED  BY <1>4, <1>6, <1>7, <1>8, <1>9 DEF N, S

\* The server executes the command that has waited longest and answers it.
LEMMA Serves ==
    ASSUME TypeOK, TypeOK', EInv, Serve
    PROVE  EInv' /\ ExchangeStep
<1> DEFINE r == Head(requests)
           N == Len(Stream)
           M == Len(requests)
<1>1. /\ requests \in Seq(Requests) /\ requests # <<>> /\ requests' = Tail(requests)
      /\ UNCHANGED <<inbox, sent, phase, recv, broken, answered>>
  BY DEF Serve, TypeOK
<1>2. /\ r \in Requests /\ r = requests[1] /\ M \in Nat /\ M # 0 /\ Len(requests') = M - 1
      /\ DOMAIN requests = 1..M /\ DOMAIN requests' = 1..(M - 1)
      /\ \A i \in 1..(M - 1) : requests'[i] = requests[i + 1]
  <2>1. M # 0
    BY <1>1, EmptySeq
  <2> QED  BY <1>1, <2>1, HeadTailProperties, LenProperties
<1>3. /\ sent \in Nat /\ answered \in Nat /\ Executed \in Int
      /\ \A i \in DOMAIN Stream : Stream[i] \in Tokens /\ Stream[i].n \in Nat
      /\ N \in Nat /\ DOMAIN Stream = 1..N
  BY Numbers, StreamTypes
<1>4. Executed' = Executed + 1 /\ r.n = Executed + 1 /\ M <= sent /\ Executed = sent - M
  <2>1. 1 \in DOMAIN requests /\ M <= sent /\ requests[1].n = Executed + 1
    BY <1>2 DEF EInv, Queued
  <2> QED  BY <1>1, <1>2, <1>3, <2>1 DEF Executed
<1>5. PICK v \in Outcomes(r) :
        /\ authed' = (authed \/ v = "success")
        /\ wire' = wire \o AnswerTo(r.n, v) \o (IF authed' THEN <<At, Name>> ELSE <<At>>)
  BY DEF Serve
<1>6. v \in Results /\ (r.cmd = "from" => v # "success")
  BY <1>2, <1>5 DEF Outcomes, Results, Requests
<1>7. /\ Len(Stream') = N + (IF authed' THEN 4 ELSE 3)
      /\ \A i \in 1..N : Stream'[i] = Stream[i]
      /\ Stream'[N + 1] = HeadOf(r.n, v) /\ Stream'[N + 2] = TailOf(r.n)
      /\ Stream'[N + 3] = At /\ (authed' => Stream'[N + 4] = Name)
  BY <1>1, <1>2, <1>5, <1>6, ServedStream
<1>8. DOMAIN Stream' = 1..Len(Stream')
  <2>1. Stream' \in Seq(Tokens)
    BY StreamFacts DEF TypeOK, Stream
  <2> QED  BY <2>1, LenProperties
<1> HIDE DEF r, N, M
<1>9. \A i \in DOMAIN Stream' :
        \/ i \in 1..N /\ Stream'[i] = Stream[i]
        \/ i = N + 1 /\ Stream'[i] = HeadOf(r.n, v)
        \/ i = N + 2 /\ Stream'[i] = TailOf(r.n)
        \/ i = N + 3 /\ Stream'[i] = At
        \/ i = N + 4 /\ Stream'[i] = Name /\ authed'
  BY <1>3, <1>7, <1>8
<1>10. /\ IsHead(HeadOf(r.n, v)) /\ HeadOf(r.n, v).n = r.n /\ HeadOf(r.n, v) # Name
       /\ IsTail(TailOf(r.n)) /\ ~IsHead(TailOf(r.n)) /\ ~IsHead(At) /\ ~IsHead(Name)
       /\ ~IsTail(At) /\ ~IsTail(Name) /\ ~IsTail(HeadOf(r.n, v))
       /\ TailOf(r.n) # Name /\ At # Name
  BY DEF HeadOf, TailOf, At, Name, IsHead, IsTail
<1>11. \A i \in DOMAIN Stream' : IsHead(Stream'[i]) =>
        \/ i \in 1..N /\ Stream'[i] = Stream[i]
        \/ i = N + 1 /\ Stream'[i].n = r.n
  BY <1>9, <1>10
<1>12. Queued'
  <2>1. ASSUME NEW i \in DOMAIN requests' PROVE requests'[i].n = Executed' + i
    <3>1. i + 1 \in DOMAIN requests /\ requests'[i] = requests[i + 1]
      BY <1>2
    <3>2. requests[i + 1].n = Executed + (i + 1)
      BY <3>1 DEF EInv, Queued
    <3> QED  BY <1>2, <1>3, <1>4, <3>1, <3>2
  <2> QED  BY <1>1, <1>2, <1>3, <1>4, <2>1 DEF Queued
<1>13. Travelling(Stream)'
  <2>1. ASSUME NEW i \in DOMAIN Stream', IsHead(Stream'[i])
        PROVE  answered < Stream'[i].n /\ Stream'[i].n <= Executed'
    BY <1>3, <1>4, <1>11, <2>1 DEF EInv, Travelling
  <2>2. ASSUME NEW i \in DOMAIN Stream', NEW j \in DOMAIN Stream', i < j,
               IsHead(Stream'[i]), IsHead(Stream'[j])
        PROVE  Stream'[i].n < Stream'[j].n
    <3>1. CASE j \in 1..N
      <4>1. i \in 1..N
        BY <1>8, <1>3, <2>2, <3>1
      <4>2. Stream'[i] = Stream[i] /\ Stream'[j] = Stream[j]
        BY <1>7, <3>1, <4>1
      <4> QED  BY <1>3, <2>2, <3>1, <4>1, <4>2 DEF EInv, Travelling
    <3>2. CASE j = N + 1
      <4>1. i \in 1..N /\ Stream'[i] = Stream[i] /\ Stream'[j].n = r.n
        BY <1>3, <1>11, <2>2, <3>2
      <4>2. Stream[i].n <= Executed
        BY <1>3, <2>2, <4>1 DEF EInv, Travelling
      <4> QED  BY <1>3, <1>4, <4>1, <4>2
    <3> QED  BY <1>11, <2>2, <3>1, <3>2
  <2>3. answered' <= Executed'
    BY <1>1, <1>3, <1>4 DEF EInv, Travelling
  <2> QED  BY <1>1, <2>1, <2>2, <2>3 DEF Travelling
<1>14. Settled'
  <2> SUFFICES ASSUME broken' = {} PROVE Settled'
    BY DEF Settled
  <2>1. /\ Intact(Stream) /\ NoAnswers(Stream) /\ Awaiting /\ M = 1 /\ answered < sent
    BY <1>1 DEF EInv, Settled, M
  <2>2. r.n = sent /\ requests' = <<>>
    <3>1. r.n = sent
      BY <1>3, <1>4, <2>1
    <3>2. Len(requests') = 0 /\ requests' \in Seq(Requests)
      BY <1>2, <2>1 DEF TypeOK
    <3> QED  BY <3>1, <3>2, EmptySeq
  <2>3. authed => authed'
    BY <1>5
  <2>4. ASSUME NEW i \in DOMAIN Stream'
        PROVE  /\ IsHead(Stream'[i]) =>
                    Stream'[i].n = sent /\ (i + 1 \in DOMAIN Stream' => Stream'[i + 1] = TailOf(sent))
               /\ IsTail(Stream'[i]) => i - 1 \in DOMAIN Stream' /\ IsHead(Stream'[i - 1])
               /\ Stream'[i] = Name => authed' /\ i - 1 \in DOMAIN Stream' /\ Stream'[i - 1] = At
    <3>1. CASE i \in 1..N
      <4>1. Stream'[i] = Stream[i] /\ i \in DOMAIN Stream
        BY <1>3, <1>7, <3>1
      <4>2. ~IsHead(Stream[i]) /\ ~IsTail(Stream[i])
        BY <2>1, <4>1 DEF NoAnswers, Intact
      <4>3. i - 1 \in 1..N => i - 1 \in DOMAIN Stream' /\ Stream'[i - 1] = Stream[i - 1]
        BY <1>3, <1>7, <1>8
      <4> QED  BY <1>3, <2>1, <2>3, <4>1, <4>2, <4>3 DEF Intact
    <3>2. CASE i = N + 1
      BY <1>3, <1>7, <1>10, <2>2, <3>2
    <3>3. CASE i = N + 2
      <4>1. i - 1 = N + 1 /\ N + 1 \in DOMAIN Stream'
        BY <1>3, <1>7, <1>8, <3>3
      <4> QED  BY <1>7, <1>10, <3>3, <4>1
    <3>4. CASE i = N + 3
      BY <1>7, <1>10, <3>4
    <3>5. CASE i = N + 4 /\ authed'
      <4>1. i - 1 = N + 3 /\ N + 3 \in DOMAIN Stream'
        BY <1>3, <1>7, <1>8, <3>5
      <4> QED  BY <1>7, <1>10, <3>5, <4>1
    <3> QED  BY <1>9, <3>1, <3>2, <3>3, <3>4, <3>5
  <2>5. Intact(Stream)'
    BY <1>1, <2>4 DEF Intact
  <2> QED  BY <1>1, <2>1, <2>2, <2>5 DEF Settled, Awaiting
<1>15. Fresh'
  <2> SUFFICES ASSUME phase \in {"start", "from", "prompt"} PROVE Fresh'
    BY <1>1 DEF Fresh
  <2>1. ~authed /\ \A i \in DOMAIN requests : requests[i].cmd = "from"
    BY DEF EInv, Fresh
  <2>2. r.cmd = "from"
    BY <1>2, <2>1
  <2>3. ~authed'
    BY <1>5, <1>6, <2>1, <2>2
  <2>4. \A i \in DOMAIN requests' : requests'[i].cmd = "from"
    BY <1>2, <2>1
  <2> QED  BY <2>3, <2>4 DEF Fresh
<1>16. Paired'
  BY <1>1 DEF EInv, Paired
<1>17. ExchangeStep
  BY <1>1, Executes
<1> QED  BY <1>12, <1>13, <1>14, <1>15, <1>16, <1>17 DEF EInv

-----------------------------------------------------------------------------
(* Commands and answers: the theorems                                      *)

\* A context begins with the invariant, and where Exchange begins.
LEMMA InitEInv == Init => EInv /\ E!Init
<1> SUFFICES ASSUME Init PROVE EInv /\ E!Init
  OBVIOUS
<1>1. Len(<<>>) = 0 /\ DOMAIN <<>> = {}
  OBVIOUS
<1>2. Stream = <<>> /\ requests = <<>> /\ sent = 0 /\ recv = <<>> /\ answered = 0 /\ broken = {}
      /\ phase = "idle" /\ Len(requests) = 0
  BY <1>1 DEF Init, Stream
<1>3. Executed = 0 /\ DOMAIN Stream = {} /\ DOMAIN requests = {}
  <2>1. DOMAIN Stream = {} /\ DOMAIN requests = {}
    BY <1>1, <1>2
  <2>2. sent = 0 /\ Len(requests) = 0
    BY <1>2
  <2> QED  BY <2>1, <2>2 DEF Executed
<1>4. EInv
  BY <1>2, <1>3 DEF EInv, Queued, Travelling, Settled, Intact, NoAnswers, Awaiting, Fresh, Paired
<1>5. (broken # {}) = FALSE
  BY <1>2
<1>6. sent = 0 /\ Executed = 0 /\ answered = 0
  BY <1>2, <1>3
<1> QED  BY <1>4, <1>5, <1>6 DEF E!Init, Executed

\* Every step of a context keeps the invariant and is one of Exchange or a stutter.
LEMMA EStep ==
    ASSUME IInv, IInv', EInv, [Next]_vars
    PROVE  EInv' /\ ExchangeStep
<1>1. TypeOK /\ TypeOK'
  BY DEF IInv
<1>2. CASE AuthGivesUp \/ OpFails
  BY <1>2, Returns DEF AuthGivesUp, OpFails, Return, serverVars, Awaiting
<1>3. CASE (\E m \in {"pkam", "cram"} : AuthConnects(m)) \/ AuthConnectFails
  BY <1>3, Begins DEF AuthConnects, AuthConnectFails, Return
<1>4. CASE SendFrom
  <2>1. phase = "start" /\ ~Awaiting /\ UNCHANGED <<wire, inbox, authed, answered, broken>>
    BY <1>4 DEF SendFrom, Awaiting
  <2>2. CASE Write("from", TRUE) /\ phase' = "from"
    BY <1>1, <2>1, <2>2, Writes
  <2>3. CASE phase' = "idle" /\ UNCHANGED <<requests, sent>> /\ recv' \in {recv, <<>>}
    BY <2>1, <2>3, Returns
  <2> QED  BY <1>4, <2>2, <2>3 DEF SendFrom, WriteFails, Return
<1>5. CASE SendProof
  <2>1. phase = "sign" /\ ~Awaiting /\ UNCHANGED <<wire, inbox, authed, answered, broken>>
    BY <1>5 DEF SendProof, Awaiting
  <2>2. CASE Write(mode, recv = AnswerTo(1, "challenge")) /\ phase' = "auth"
    BY <1>1, <2>1, <2>2, Writes
  <2>3. CASE phase' = "idle" /\ UNCHANGED <<requests, sent>> /\ recv' \in {recv, <<>>}
    BY <2>1, <2>3, Returns
  <2> QED  BY <1>5, <2>2, <2>3 DEF SendProof, WriteFails, Return
<1>6. CASE SendOp \/ IsConnected \/ SendUnread
  <2>1. /\ phase = "idle" /\ ~Awaiting /\ UNCHANGED <<wire, inbox, authed, answered>>
        /\ Write("op", TRUE)
        /\ \/ broken' = broken /\ phase' = "op"
           \/ broken' # {} /\ phase' = "idle"
    BY <1>6 DEF SendOp, IsConnected, SendUnread, BeginOp, Return, Awaiting
  <2> QED  BY <1>1, <2>1, Writes
<1>7. CASE FromAnswer \/ AuthAnswer \/ OpAnswer
  <2>1. /\ UNCHANGED <<requests, wire, authed, sent>> /\ Awaiting
        /\ \E o \in SendResults : Receive(o)
        /\ phase' \in {"idle", "prompt", "sign"} /\ (phase' = "prompt" => phase = "from")
    BY <1>7 DEF FromAnswer, AuthAnswer, OpAnswer, Return, serverVars, Awaiting
  <2> QED  BY <1>1, <2>1, Receives
<1>8. CASE ReadPrompt
  BY <1>1, <1>8, ReadsPrompt
<1>9. CASE Disconnect
  <2>1. /\ wire' = <<>> /\ inbox' = <<>>
        /\ UNCHANGED <<requests, authed, sent, answered, broken, phase, recv>>
    BY <1>9 DEF Disconnect
  <2>2. Stream' = <<>>
    BY <2>1 DEF Stream
  <2>3. Within(Stream', Stream, 0)
    BY <1>1, <2>2, StreamTypes DEF Within
  <2> QED  BY <1>1, <2>1, <2>3, Loses
<1>10. CASE PeerCloses
  BY <1>1, <1>10, StreamCut, Loses DEF PeerCloses
<1>11. CASE Deliver
  <2>1. Within(Stream', Stream, 0)
    BY <1>1, <1>11, StreamDelivered, StreamTypes DEF Within
  <2> QED  BY <1>1, <1>11, <2>1, Loses DEF Deliver
<1>12. CASE Serve
  BY <1>1, <1>12, Serves
<1>13. CASE UNCHANGED vars
  <2>1. Stream' = Stream
    BY <1>13 DEF vars, Stream
  <2>2. Within(Stream', Stream, 0)
    BY <1>1, <2>1, StreamTypes DEF Within
  <2> QED  BY <1>1, <1>13, <2>2, Loses DEF vars
<1> QED  BY <1>2, <1>3, <1>4, <1>5, <1>6, <1>7, <1>8, <1>9, <1>10, <1>11, <1>12, <1>13
         DEF Next, InCall

\* The invariant holds always.
LEMMA EInvHolds == Spec => [](IInv /\ EInv)
<1>1. IInv /\ IInv' /\ EInv /\ [Next]_vars => EInv'
  BY EStep
<1> QED  BY IInvHolds, InitEInv, <1>1, PTL DEF Spec

\* atclient_connection_send gives its caller the answer to the command it sent, whole
\* and without the prompt, or nothing, as long as no read ended before its line did.
THEOREM AnswersArePaired == Spec => []Paired
BY EInvHolds, PTL DEF EInv

\* Whatever is late, cut, lost or left unread, a connection keeps what Exchange promises.
THEOREM ExchangeIsKept == Spec => ImplementsExchange
<1>1. Init => E!Init
  BY InitEInv
<1>2. IInv /\ IInv' /\ EInv /\ [Next]_vars => [E!Next]_(E!vars)
  BY EStep DEF ExchangeStep
<1> QED  BY EInvHolds, <1>1, <1>2, PTL DEF Spec, ImplementsExchange, E!Spec
=============================================================================
