-------------------------- MODULE FieldStores_proofs --------------------------
(***************************************************************************)
(* Proofs about FieldStores, for any fields, structures and heaps.         *)
(*                                                                         *)
(* Every function the structures have is made of a few changes to the      *)
(* memory.  Each of them keeps StoreInv and has one effect on what the     *)
(* bits show.  Every step of FieldStores is then one of three: a call that *)
(* is complete in itself, the start of a call that sets several fields, or *)
(* one field of such a call.  The theorems follow from these three.        *)
(***************************************************************************)
EXTENDS FieldStores, TLAPS

-----------------------------------------------------------------------------
(* The invariant of the memory                                             *)

Memory(m) ==
    /\ m = [on |-> m.on, at |-> m.at, heap |-> m.heap]
    /\ m.on \subseteq Slots
    /\ DOMAIN m.at = Slots
    /\ DOMAIN m.heap \subseteq Blocks

\* texts that the JSON may give as null
Nullable == Notifications \X NotificationTexts

\* a text's pointer may dangle, but not while its bit is set
TextOK(m, s) ==
    /\ m.at[s] \in DOMAIN m.heap \cup {NULL}
    /\ s \in m.on =>
          \/ s \in Nullable /\ m.at[s] = NULL
          \/ m.at[s] \in DOMAIN m.heap /\ \E t \in Texts : m.heap[m.at[s]] = <<s, t>>

ValueOK(m, s) == m.at[s] \in Int \cup {NULL} /\ (s \in m.on => m.at[s] \in Int)

\* a block in use is the text of an initialized field, or of one that is known to lose it
BlockOK(m, b) ==
    \/ m.heap[b] = Unused
    \/ \E s \in TextSlots, t \in Texts :
          m.heap[b] = <<s, t>> /\ (s \in LeakySlots \/ (s \in m.on /\ m.at[s] = b))

StoreInv(m) ==
    /\ Memory(m)
    /\ \A s \in TextSlots : TextOK(m, s)
    /\ \A s \in ValueSlots : ValueOK(m, s)
    /\ \A b \in DOMAIN m.heap : BlockOK(m, b)

-----------------------------------------------------------------------------
(* What a change does to what the bits show                                *)

Kept(m, n, s) == (s \in n.on <=> s \in m.on) /\ (s \in m.on => Value(n, s) = Value(m, s))

\* the fields of S are missing, the others are as they were
Dropped(m, n, S) == \A s \in Slots : IF s \in S THEN s \notin n.on ELSE Kept(m, n, s)

\* the field s holds v, the others are as they were
Filled(m, n, s, v) ==
    s \in n.on /\ Value(n, s) = v /\ \A r \in Slots \ {s} : Kept(m, n, r)

\* the bits of S are gone; what they owned is freed, unless it is known to be lost
Released(m, n, S) ==
    /\ n = [on |-> n.on, at |-> n.at, heap |-> n.heap]
    /\ n.on = m.on \ S
    /\ DOMAIN n.at = DOMAIN m.at
    /\ \A s \in Slots : n.at[s] = m.at[s] \/ (s \in S /\ n.at[s] = NULL)
    /\ DOMAIN n.heap = DOMAIN m.heap
    /\ \A b \in DOMAIN m.heap :
          \/ n.heap[b] = m.heap[b] /\ \A s \in S \cap m.on : m.at[s] = b => s \in LeakySlots
          \/ n.heap[b] = Unused /\ \E s \in S \cap m.on : m.at[s] = b

-----------------------------------------------------------------------------
(* The calls that set several fields                                       *)

AtkeyCalls == Types \cup {"clone", "json"}
Calls == AtkeyCalls \cup {"notification", "rsa", "populate", "file"}

\* the structures a call is about, and the slots of its fields
OwnersFor(how) ==
    IF how \in AtkeyCalls THEN Atkeys
    ELSE IF how = "notification" THEN Notifications
    ELSE IF how = "file" THEN KeyFiles
    ELSE KeySets

\* what the document of a call may hold for a field
Fits(how, f) ==
    IF how \in Types \cup {"clone"} THEN IF f \in MetadataValues THEN Int ELSE Texts
    ELSE IF how = "json" THEN IF f \in MetadataTexts THEN Texts \cup {NULL} ELSE Int \cup {NULL}
    ELSE IF how = "notification"
         THEN IF f \in NotificationTexts THEN Texts \cup {NULL, WrongType} ELSE Int \cup {WrongType}
    ELSE IF how = "populate" THEN Texts
    ELSE Texts \cup {NULL}

CreateFields(how) ==
    {CreateOrder(how)[i] : i \in 1..Len(CreateOrder(how))} \cap (NameTexts \cup PlaceFlags)

CallTyped(c) ==
    /\ c = [how |-> c.how, to |-> c.to, todo |-> c.todo, doc |-> c.doc]
    /\ c.how \in Calls
    /\ c.to \in OwnersFor(c.how)
    /\ c.todo \subseteq DOMAIN c.doc
    /\ \A f \in DOMAIN c.doc : <<c.to, f>> \in Slots /\ c.doc[f] \in Fits(c.how, f)
    /\ c.how \in Types =>
          /\ DOMAIN c.doc \in {CreateFields(c.how), CreateFields(c.how) \ {"namespace_str"}}
          /\ "is_public" \in DOMAIN c.doc => c.doc["is_public"] = 1
    /\ c.how = "populate" =>
          /\ Base64Texts \subseteq DOMAIN c.doc
          /\ \A f, g \in DOMAIN c.doc : c.doc[f] = c.doc[g]

\* the fields the call is done with hold what they are to hold
DoneWith ==
    \A f \in DOMAIN call.doc \ call.todo :
       <<call.to, f>> \in mem.on /\ Value(mem, <<call.to, f>>) = Meant(f)

CallInv == call = Idle \/ (CallTyped(call) /\ DoneWith)

IInv ==
    /\ used \in Families
    /\ StoreInv(mem)
    /\ DOMAIN mem.heap = HeapOf[used]
    /\ CallInv

-----------------------------------------------------------------------------
(* The structures                                                          *)

\* No C object is in two of the sets of structures.
LEMMA Distinct ==
    /\ Atkeys \cap Notifications = {} /\ Atkeys \cap Params = {} /\ Atkeys \cap Requests = {}
    /\ Atkeys \cap KeySets = {} /\ Atkeys \cap KeyFiles = {}
    /\ Notifications \cap Params = {} /\ Notifications \cap Requests = {}
    /\ Notifications \cap KeySets = {} /\ Notifications \cap KeyFiles = {}
    /\ Params \cap Requests = {} /\ Params \cap KeySets = {} /\ Params \cap KeyFiles = {}
    /\ Requests \cap KeySets = {} /\ Requests \cap KeyFiles = {}
    /\ KeySets \cap KeyFiles = {}
<1>. DEFINE kinds == <<Atkeys, Notifications, Params, Requests, KeySets, KeyFiles>>
<1>1. \A i, j \in 1..6 : i # j => kinds[i] \cap kinds[j] = {}
  BY StructuresAreDistinct
<1>2. kinds[1] = Atkeys /\ kinds[2] = Notifications /\ kinds[3] = Params
  OBVIOUS
<1>3. kinds[4] = Requests /\ kinds[5] = KeySets /\ kinds[6] = KeyFiles
  OBVIOUS
<1>. HIDE DEF kinds
<1>4. /\ kinds[1] \cap kinds[2] = {} /\ kinds[1] \cap kinds[3] = {} /\ kinds[1] \cap kinds[4] = {}
      /\ kinds[1] \cap kinds[5] = {} /\ kinds[1] \cap kinds[6] = {}
      /\ kinds[2] \cap kinds[3] = {} /\ kinds[2] \cap kinds[4] = {} /\ kinds[2] \cap kinds[5] = {}
      /\ kinds[2] \cap kinds[6] = {}
      /\ kinds[3] \cap kinds[4] = {} /\ kinds[3] \cap kinds[5] = {} /\ kinds[3] \cap kinds[6] = {}
      /\ kinds[4] \cap kinds[5] = {} /\ kinds[4] \cap kinds[6] = {}
      /\ kinds[5] \cap kinds[6] = {}
  BY <1>1
<1>. QED BY <1>2, <1>3, <1>4

-----------------------------------------------------------------------------
(* The slots                                                               *)

\* No slot is both a text and a value, and the slots of either special kind are texts.
LEMMA Kinds ==
    /\ TextSlots \cap ValueSlots = {}
    /\ LeakySlots \subseteq TextSlots
    /\ Nullable \subseteq TextSlots
    /\ Slots = TextSlots \cup ValueSlots
<1>. DEFINE AT == Atkeys \X (NameTexts \cup MetadataTexts)
            NT == Notifications \X (NotificationTexts \cup {"decrypted_value"})
            PT == Params \X ParamTexts
            OT == TextOptions \cup HostOptions
            AV == Atkeys \X MetadataValues
            NV == Notifications \X NotificationValues
            PV == Params \X ParamValues
            OV == FlagOptions \cup PortOptions
<1>1. /\ AT \cap AV = {} /\ NT \cap NV = {} /\ PT \cap PV = {}
  BY AtkeyKinds, NotificationKinds, ParamKinds DEF NotificationValues
<1>2. OT \cap OV = {}
  BY DEF TextOptions, HostOptions, FlagOptions, PortOptions, PutSharedTexts, GetSharedTexts,
         HostTexts, CacheFlags, Ports
<1>3. \A s \in OT \cup OV : \E o \in Requests : \E f : s = <<o, f>>
  BY DEF TextOptions, HostOptions, FlagOptions, PortOptions, PutSharedTexts, GetSharedTexts,
         HostTexts, CacheFlags, Ports, Requests
<1>4. TextSlots = AT \cup NT \cup PT \cup OT \cup KeySlots \cup FileSlots
  BY DEF TextSlots
<1>5. ValueSlots = AV \cup NV \cup PV \cup OV
  BY DEF ValueSlots
<1>6. \A s \in KeySlots : \E o \in KeySets : \E f : s = <<o, f>>
  BY DEF KeySlots
<1>7. \A s \in FileSlots : \E o \in KeyFiles : \E f : s = <<o, f>>
  BY DEF FileSlots
<1>8. TextSlots \cap ValueSlots = {}
  <2>1. AT \cap NV = {} /\ AT \cap PV = {} /\ AT \cap OV = {}
    BY Distinct, <1>3
  <2>2. NT \cap AV = {} /\ NT \cap PV = {} /\ NT \cap OV = {}
    BY Distinct, <1>3
  <2>3. PT \cap AV = {} /\ PT \cap NV = {} /\ PT \cap OV = {}
    BY Distinct, <1>3
  <2>4. OT \cap AV = {} /\ OT \cap NV = {} /\ OT \cap PV = {}
    BY Distinct, <1>3
  <2>5. KeySlots \cap (AV \cup NV \cup PV \cup OV) = {}
    BY Distinct, <1>3, <1>6
  <2>6. FileSlots \cap (AV \cup NV \cup PV \cup OV) = {}
    BY Distinct, <1>3, <1>7
  <2>. HIDE DEF AT, NT, PT, OT, AV, NV, PV, OV
  <2>. QED BY <1>1, <1>2, <1>4, <1>5, <2>1, <2>2, <2>3, <2>4, <2>5, <2>6
<1>9. LeakySlots \subseteq TextSlots
  BY ParamKinds, <1>4 DEF LeakySlots
<1>10. Nullable \subseteq TextSlots
  BY <1>4 DEF Nullable
<1>. QED BY <1>8, <1>9, <1>10 DEF Slots

-----------------------------------------------------------------------------
(* The changes to the memory                                               *)

Record(m) == m = [on |-> m.on, at |-> m.at, heap |-> m.heap]

\* Freeing the fields of S: what their bits say is owned is unused, the rest is as it was.
LEMMA FreedIs ==
    ASSUME NEW m, NEW S, Record(m)
    PROVE  LET n == Freed(m, S)
           IN  /\ Record(n) /\ n.on = m.on /\ n.at = m.at /\ DOMAIN n.heap = DOMAIN m.heap
               /\ \A b \in DOMAIN m.heap :
                     IF \E s \in S \cap m.on : m.at[s] = b
                     THEN n.heap[b] = Unused ELSE n.heap[b] = m.heap[b]
<1>. DEFINE owned == {m.at[s] : s \in S \cap m.on}
            h == [b \in DOMAIN m.heap |-> IF b \in owned THEN Unused ELSE m.heap[b]]
<1>1. Freed(m, S) = [on |-> m.on, at |-> m.at, heap |-> h]
  BY DEF Freed, Record
<1>2. \A b \in DOMAIN m.heap : b \in owned <=> \E s \in S \cap m.on : m.at[s] = b
  OBVIOUS
<1>. HIDE DEF owned
<1>. QED BY <1>1, <1>2 DEF Record

\* The pointers of S become NULL, and nothing else changes.
LEMMA NulledIs ==
    ASSUME NEW m, NEW S, Record(m)
    PROVE  LET n == Nulled(m, S)
           IN  /\ Record(n) /\ n.on = m.on /\ n.heap = m.heap /\ DOMAIN n.at = DOMAIN m.at
               /\ \A s \in DOMAIN m.at : n.at[s] = IF s \in S THEN NULL ELSE m.at[s]
<1>. DEFINE a == [s \in DOMAIN m.at |-> IF s \in S THEN NULL ELSE m.at[s]]
<1>1. Nulled(m, S) = [on |-> m.on, at |-> a, heap |-> m.heap]
  BY DEF Nulled, Record
<1>. QED BY <1>1 DEF Record

\* The bits of S are set, and nothing else changes.
LEMMA MarkedIs ==
    ASSUME NEW m, NEW S, Record(m)
    PROVE  LET n == Marked(m, S)
           IN  Record(n) /\ n.on = m.on \cup S /\ n.at = m.at /\ n.heap = m.heap
<1>1. Marked(m, S) = [on |-> m.on \cup S, at |-> m.at, heap |-> m.heap]
  BY DEF Marked, Record
<1>. QED BY <1>1 DEF Record

\* The bits of S are cleared, and nothing else changes.
LEMMA UnmarkedIs ==
    ASSUME NEW m, NEW S, Record(m)
    PROVE  LET n == Unmarked(m, S)
           IN  Record(n) /\ n.on = m.on \ S /\ n.at = m.at /\ n.heap = m.heap
<1>1. Unmarked(m, S) = [on |-> m.on \ S, at |-> m.at, heap |-> m.heap]
  BY DEF Unmarked, Record
<1>. QED BY <1>1 DEF Record

\* The slot s leads to the block b, b holds t for s, and nothing else changes.
LEMMA PointedIs ==
    ASSUME NEW m, NEW s, NEW b, NEW t, Record(m), s \in DOMAIN m.at, b \in DOMAIN m.heap
    PROVE  LET n == Pointed(m, s, b, t)
           IN  /\ Record(n) /\ n.on = m.on
               /\ DOMAIN n.at = DOMAIN m.at /\ DOMAIN n.heap = DOMAIN m.heap
               /\ n.at[s] = b /\ \A r \in DOMAIN m.at \ {s} : n.at[r] = m.at[r]
               /\ n.heap[b] = <<s, t>>
               /\ \A c \in DOMAIN m.heap \ {b} : n.heap[c] = m.heap[c]
<1>. DEFINE a == [m.at EXCEPT ![s] = b]
            h == [m.heap EXCEPT ![b] = <<s, t>>]
            half == [m EXCEPT !.at[s] = b]
<1>1. half = [on |-> m.on, at |-> a, heap |-> m.heap]
  BY DEF Record
<1>2. Pointed(m, s, b, t) = [half EXCEPT !.heap[b] = <<s, t>>]
  BY DEF Pointed, Record
<1>3. Pointed(m, s, b, t) = [on |-> m.on, at |-> a, heap |-> h]
  <2>. HIDE DEF half, a
  <2>. QED BY <1>1, <1>2
<1>. QED BY <1>3 DEF Record

\* The slot s is v, and nothing else changes.
LEMMA PlacedIs ==
    ASSUME NEW m, NEW s, NEW v, Record(m), s \in DOMAIN m.at
    PROVE  LET n == Placed(m, s, v)
           IN  /\ Record(n) /\ n.on = m.on /\ n.heap = m.heap /\ DOMAIN n.at = DOMAIN m.at
               /\ n.at[s] = v /\ \A r \in DOMAIN m.at \ {s} : n.at[r] = m.at[r]
<1>. DEFINE a == [m.at EXCEPT ![s] = v]
<1>1. Placed(m, s, v) = [on |-> m.on, at |-> a, heap |-> m.heap]
  BY DEF Placed, Record
<1>. QED BY <1>1 DEF Record

-----------------------------------------------------------------------------
(* What a user sees of a slot                                              *)

\* A block that holds a text is not an unused one.
LEMMA PairIsUsed == \A s, t : <<s, t>> # Unused
BY DEF Unused

\* A text is seen as what its block holds.
LEMMA TextValue ==
    ASSUME NEW m, Memory(m), NEW s, NEW t, m.at[s] \in DOMAIN m.heap, m.heap[m.at[s]] = <<s, t>>
    PROVE  Value(m, s) = t
BY DEF Memory, Value

\* A number is seen as itself.
LEMMA NumberValue ==
    ASSUME NEW m, NEW s, m.at[s] \in Int
    PROVE  Value(m, s) = m.at[s]
BY BlocksAreNoValues DEF Value

\* NULL is seen as NULL.
LEMMA NullValue ==
    ASSUME NEW m, NEW s, m.at[s] = NULL
    PROVE  Value(m, s) = NULL
BY BlocksAreNoValues DEF Value

\* An initialized text that cannot be null leads to a block that holds it.
LEMMA HeldText ==
    ASSUME NEW m, StoreInv(m), NEW s \in TextSlots \ Nullable, s \in m.on
    PROVE  m.at[s] \in DOMAIN m.heap /\ m.heap[m.at[s]] = <<s, Value(m, s)>> /\ Value(m, s) \in Texts
BY TextValue DEF StoreInv, TextOK

\* An initialized number or flag is a number, and is seen as it.
LEMMA HeldNumber ==
    ASSUME NEW m, StoreInv(m), NEW s \in ValueSlots, s \in m.on
    PROVE  m.at[s] \in Int /\ Value(m, s) = m.at[s]
BY NumberValue DEF StoreInv, ValueOK

\* a slot whose pointer and block stay is seen as it was
LEMMA Same ==
    ASSUME NEW m, NEW n, NEW s \in Slots, StoreInv(m), s \in m.on, n.at[s] = m.at[s],
           m.at[s] \in DOMAIN m.heap => n.heap[m.at[s]] = m.heap[m.at[s]]
    PROVE  Value(n, s) = Value(m, s)
<1>1. m.at[s] \in DOMAIN m.heap \/ m.at[s] = NULL \/ m.at[s] \in Int
  BY Kinds DEF StoreInv, TextOK, ValueOK
<1>2. m.at[s] \in Blocks => m.at[s] \in DOMAIN m.heap
  BY <1>1, BlocksAreNoValues
<1>. QED BY <1>2 DEF Value

-----------------------------------------------------------------------------
(* Releasing fields                                                        *)

\* Releasing fields, in any of the ways the unset functions do it, takes nothing from the other
\* fields and makes no block less spare: no block has two owners.
LEMMA Release ==
    ASSUME NEW m, NEW n, NEW S, StoreInv(m), Released(m, n, S)
    PROVE  StoreInv(n) /\ Dropped(m, n, S) /\ Spare(m) \subseteq Spare(n)
<1>1. Memory(n)
  BY DEF StoreInv, Memory, Released
<1>2. \A s \in TextSlots : s \in m.on /\ m.at[s] \in DOMAIN m.heap =>
         \E t \in Texts : m.heap[m.at[s]] = <<s, t>>
  BY BlocksAreNoValues DEF StoreInv, Memory, TextOK
<1>3. \A s \in ValueSlots : s \in m.on => m.at[s] \notin DOMAIN m.heap
  BY BlocksAreNoValues DEF StoreInv, Memory, ValueOK
\* the block of a slot that stays belongs to no other
<1>4. ASSUME NEW s \in m.on \ S, m.at[s] \in DOMAIN m.heap
      PROVE  n.heap[m.at[s]] = m.heap[m.at[s]]
  <2>1. PICK t \in Texts : m.heap[m.at[s]] = <<s, t>>
    BY <1>2, <1>3, <1>4, Kinds DEF StoreInv, Memory
  <2>2. ASSUME NEW r \in S \cap m.on, m.at[r] = m.at[s]
        PROVE  FALSE
    <3>1. PICK u \in Texts : m.heap[m.at[r]] = <<r, u>>
      BY <1>2, <1>3, <1>4, <2>2, Kinds DEF StoreInv, Memory
    <3>. QED BY <2>1, <2>2, <3>1
  <2>. QED BY <1>4, <2>2 DEF Released
<1>5. ASSUME NEW s \in TextSlots
      PROVE  TextOK(n, s)
  <2>1. n.at[s] \in DOMAIN n.heap \cup {NULL}
    BY Kinds DEF StoreInv, TextOK, Released
  <2>2. CASE s \in n.on
    <3>1. s \in m.on \ S /\ n.at[s] = m.at[s]
      BY <2>2, Kinds DEF Released
    <3>2. TextOK(m, s)
      BY DEF StoreInv
    <3>. QED BY <1>4, <2>1, <3>1, <3>2 DEF TextOK, Released
  <2>. QED BY <2>1, <2>2 DEF TextOK
<1>6. ASSUME NEW s \in ValueSlots
      PROVE  ValueOK(n, s)
  BY Kinds DEF StoreInv, ValueOK, Released
<1>7. ASSUME NEW b \in DOMAIN n.heap
      PROVE  BlockOK(n, b)
  <2>1. CASE n.heap[b] = Unused
    BY <2>1 DEF BlockOK
  <2>2. CASE n.heap[b] # Unused
    <3>1. n.heap[b] = m.heap[b] /\ \A s \in S \cap m.on : m.at[s] = b => s \in LeakySlots
      BY <2>2 DEF Released
    <3>2. BlockOK(m, b)
      BY DEF StoreInv, Released
    <3>3. PICK s \in TextSlots, t \in Texts :
             m.heap[b] = <<s, t>> /\ (s \in LeakySlots \/ (s \in m.on /\ m.at[s] = b))
      BY <2>2, <3>1, <3>2 DEF BlockOK
    <3>4. s \in LeakySlots \/ (s \in n.on /\ n.at[s] = b)
      BY <3>1, <3>3, Kinds DEF Released
    <3>. QED BY <3>1, <3>3, <3>4 DEF BlockOK
  <2>. QED BY <2>1, <2>2
<1>8. Dropped(m, n, S)
  <2>1. ASSUME NEW s \in Slots \ S
        PROVE  Kept(m, n, s)
    <3>1. s \in n.on <=> s \in m.on
      BY DEF Released
    <3>2. CASE s \in m.on
      BY <1>4, <2>1, <3>1, <3>2, Same DEF Kept, Released
    <3>. QED BY <3>1, <3>2 DEF Kept
  <2>. QED BY <2>1 DEF Dropped, Released
<1>9. Spare(m) \subseteq Spare(n)
  BY DEF Spare, Released
<1>. QED BY <1>1, <1>5, <1>6, <1>7, <1>8, <1>9 DEF StoreInv

-----------------------------------------------------------------------------
(* Changes after one another                                               *)

\* Two releases after each other.
LEMMA DropDrop ==
    ASSUME NEW m, NEW n, NEW p, NEW S, NEW T, Dropped(m, n, S), Dropped(n, p, T)
    PROVE  Dropped(m, p, S \cup T)
BY DEF Dropped, Kept

\* A field released and then set is a field set.
LEMMA DropFill ==
    ASSUME NEW m, NEW n, NEW p, NEW s, NEW v, Dropped(m, n, {s}), Filled(n, p, s, v)
    PROVE  Filled(m, p, s, v)
BY DEF Dropped, Filled, Kept

\* A change that no one sees, after a release.
LEMMA DropNone ==
    ASSUME NEW m, NEW n, NEW p, NEW S, Dropped(m, n, S), Dropped(n, p, {})
    PROVE  Dropped(m, p, S)
BY DEF Dropped, Kept

-----------------------------------------------------------------------------
(* Filling a field                                                         *)

\* a text goes into a spare block, whether its bit is then set or not
LEMMA Point ==
    ASSUME NEW m, StoreInv(m), NEW s \in TextSlots, s \notin m.on, NEW b \in Spare(m),
           NEW t \in Texts, NEW n, Record(n), DOMAIN n.at = DOMAIN m.at,
           DOMAIN n.heap = DOMAIN m.heap,
           n.at[s] = b, \A r \in DOMAIN m.at \ {s} : n.at[r] = m.at[r],
           n.heap[b] = <<s, t>>, \A c \in DOMAIN m.heap \ {b} : n.heap[c] = m.heap[c],
           n.on = m.on \cup {s} \/ (n.on = m.on /\ s \in LeakySlots)
    PROVE  /\ StoreInv(n)
           /\ n.on = m.on \cup {s} => Filled(m, n, s, t)
           /\ n.on = m.on => Dropped(m, n, {})
<1>1. Memory(n)
  BY Kinds DEF StoreInv, Memory, Record
<1>2. b \in DOMAIN m.heap /\ m.heap[b] = Unused
  BY DEF Spare
<1>3. \A r \in m.on : m.at[r] # b
  <2>1. SUFFICES ASSUME NEW r \in m.on, m.at[r] = b
                 PROVE  FALSE
    OBVIOUS
  <2>2. CASE r \in TextSlots
    BY <1>2, <2>1, <2>2, PairIsUsed, BlocksAreNoValues DEF StoreInv, TextOK, Memory
  <2>3. CASE r \in ValueSlots
    BY <1>2, <2>1, <2>3, BlocksAreNoValues DEF StoreInv, ValueOK, Memory
  <2>. QED BY <2>2, <2>3, Kinds DEF StoreInv, Memory
<1>4. \A r \in m.on : r # s /\ n.at[r] = m.at[r]
  BY DEF StoreInv, Memory
<1>5. \A r \in m.on : n.at[r] \in DOMAIN m.heap => n.heap[n.at[r]] = m.heap[m.at[r]]
  BY <1>3, <1>4
<1>6. ASSUME NEW r \in TextSlots
      PROVE  TextOK(n, r)
  <2>1. CASE r = s
    BY <1>2, <2>1 DEF TextOK
  <2>2. CASE r # s
    <3>1. TextOK(m, r) /\ n.at[r] = m.at[r]
      BY <2>2, Kinds DEF StoreInv, Memory
    <3>2. r \in n.on => r \in m.on
      BY <2>2
    <3>. QED BY <1>5, <3>1, <3>2 DEF TextOK
  <2>. QED BY <2>1, <2>2
<1>7. ASSUME NEW r \in ValueSlots
      PROVE  ValueOK(n, r)
  BY Kinds DEF StoreInv, Memory, ValueOK
<1>8. ASSUME NEW c \in DOMAIN n.heap
      PROVE  BlockOK(n, c)
  <2>1. CASE c = b
    BY <2>1 DEF BlockOK
  <2>2. CASE c # b
    <3>1. BlockOK(m, c) /\ n.heap[c] = m.heap[c]
      BY <2>2 DEF StoreInv
    <3>. QED BY <1>4, <3>1 DEF BlockOK
  <2>. QED BY <2>1, <2>2
<1>9. \A r \in m.on : Value(n, r) = Value(m, r)
  BY <1>4, <1>5, Same DEF StoreInv, Memory
<1>10. Value(n, s) = t
  BY <1>1, <1>2, TextValue
<1>11. n.on = m.on \cup {s} => Filled(m, n, s, t)
  BY <1>9, <1>10 DEF Filled, Kept
<1>12. n.on = m.on => Dropped(m, n, {})
  BY <1>9 DEF Dropped, Kept
<1>. QED BY <1>1, <1>6, <1>7, <1>8, <1>11, <1>12 DEF StoreInv

\* set a text: a new block, and the bit
LEMMA PointMark ==
    ASSUME NEW m, StoreInv(m), NEW s \in TextSlots, s \notin m.on, NEW b \in Spare(m),
           NEW t \in Texts
    PROVE  LET n == Marked(Pointed(m, s, b, t), {s})
           IN  StoreInv(n) /\ Filled(m, n, s, t) /\ DOMAIN n.heap = DOMAIN m.heap
<1>. DEFINE p == Pointed(m, s, b, t)
            n == Marked(p, {s})
<1>1. Record(m) /\ s \in DOMAIN m.at /\ b \in DOMAIN m.heap
  BY Kinds DEF StoreInv, Memory, Record, Spare
<1>2. /\ Record(p) /\ p.on = m.on
      /\ DOMAIN p.at = DOMAIN m.at /\ DOMAIN p.heap = DOMAIN m.heap
      /\ p.at[s] = b /\ \A r \in DOMAIN m.at \ {s} : p.at[r] = m.at[r]
      /\ p.heap[b] = <<s, t>>
      /\ \A c \in DOMAIN m.heap \ {b} : p.heap[c] = m.heap[c]
  BY <1>1, PointedIs
<1>. HIDE DEF p
<1>3. Record(n) /\ n.on = m.on \cup {s} /\ n.at = p.at /\ n.heap = p.heap
  BY <1>2, MarkedIs
<1>. HIDE DEF n
<1>4. StoreInv(n) /\ Filled(m, n, s, t) /\ DOMAIN n.heap = DOMAIN m.heap
  BY <1>2, <1>3, Point
<1>. QED BY <1>4 DEF n, p

\* a block that no bit will free
LEMMA PointOnly ==
    ASSUME NEW m, StoreInv(m), NEW s \in LeakySlots, s \notin m.on, NEW b \in Spare(m),
           NEW t \in Texts
    PROVE  LET n == Pointed(m, s, b, t)
           IN  StoreInv(n) /\ Dropped(m, n, {}) /\ DOMAIN n.heap = DOMAIN m.heap
<1>. DEFINE n == Pointed(m, s, b, t)
<1>1. Record(m) /\ s \in DOMAIN m.at /\ b \in DOMAIN m.heap /\ s \in TextSlots
  BY Kinds DEF StoreInv, Memory, Record, Spare
<1>2. /\ Record(n) /\ n.on = m.on
      /\ DOMAIN n.at = DOMAIN m.at /\ DOMAIN n.heap = DOMAIN m.heap
      /\ n.at[s] = b /\ \A r \in DOMAIN m.at \ {s} : n.at[r] = m.at[r]
      /\ n.heap[b] = <<s, t>>
      /\ \A c \in DOMAIN m.heap \ {b} : n.heap[c] = m.heap[c]
  BY <1>1, PointedIs
<1>. HIDE DEF n
<1>3. StoreInv(n) /\ Dropped(m, n, {}) /\ DOMAIN n.heap = DOMAIN m.heap
  BY <1>1, <1>2, Point
<1>. QED BY <1>3 DEF n

\* set a number or a flag
LEMMA PlaceMark ==
    ASSUME NEW m, StoreInv(m), NEW s \in ValueSlots, NEW v \in Int
    PROVE  LET n == Marked(Placed(m, s, v), {s})
           IN  StoreInv(n) /\ Filled(m, n, s, v) /\ DOMAIN n.heap = DOMAIN m.heap
<1>. DEFINE p == Placed(m, s, v)
            n == Marked(p, {s})
<1>1. Record(m) /\ s \in DOMAIN m.at /\ s \notin TextSlots
  BY Kinds DEF StoreInv, Memory, Record
<1>2. /\ Record(p) /\ p.on = m.on /\ p.heap = m.heap /\ DOMAIN p.at = DOMAIN m.at
      /\ p.at[s] = v /\ \A r \in DOMAIN m.at \ {s} : p.at[r] = m.at[r]
  BY <1>1, PlacedIs
<1>. HIDE DEF p
<1>3. Record(n) /\ n.on = m.on \cup {s} /\ n.at = p.at /\ n.heap = p.heap
  BY <1>2, MarkedIs
<1>. HIDE DEF n
<1>4. Memory(n)
  BY <1>1, <1>2, <1>3 DEF StoreInv, Memory, Record
<1>5. \A r \in Slots \ {s} : (r \in n.on <=> r \in m.on) /\ n.at[r] = m.at[r]
  BY <1>2, <1>3 DEF StoreInv, Memory
<1>6. \A r \in TextSlots : TextOK(n, r)
  BY <1>1, <1>2, <1>3, <1>5, Kinds DEF StoreInv, TextOK
<1>7. \A r \in ValueSlots : ValueOK(n, r)
  BY <1>2, <1>3, <1>5, Kinds DEF StoreInv, ValueOK
<1>8. \A b \in DOMAIN n.heap : BlockOK(n, b)
  BY <1>1, <1>2, <1>3, <1>5, Kinds DEF StoreInv, BlockOK
<1>9. \A r \in Slots \ {s} : Kept(m, n, r)
  BY <1>2, <1>3, <1>5, Same DEF Kept
<1>10. Value(n, s) = v
  BY <1>2, <1>3, NumberValue
<1>11. StoreInv(n) /\ Filled(m, n, s, v) /\ DOMAIN n.heap = DOMAIN m.heap
  BY <1>2, <1>3, <1>4, <1>6, <1>7, <1>8, <1>9, <1>10 DEF StoreInv, Filled
<1>. QED BY <1>11 DEF n, p

\* a pointer that no bit makes anyone follow
LEMMA PlaceOnly ==
    ASSUME NEW m, StoreInv(m), NEW s \in TextSlots, s \notin m.on,
           NEW p \in DOMAIN m.heap \cup {NULL}
    PROVE  LET n == Placed(m, s, p)
           IN  StoreInv(n) /\ Dropped(m, n, {}) /\ DOMAIN n.heap = DOMAIN m.heap
<1>. DEFINE n == Placed(m, s, p)
<1>1. Record(m) /\ s \in DOMAIN m.at
  BY Kinds DEF StoreInv, Memory, Record
<1>2. /\ Record(n) /\ n.on = m.on /\ n.heap = m.heap /\ DOMAIN n.at = DOMAIN m.at
      /\ n.at[s] = p /\ \A r \in DOMAIN m.at \ {s} : n.at[r] = m.at[r]
  BY <1>1, PlacedIs
<1>. HIDE DEF n
<1>3. Memory(n)
  BY <1>1, <1>2 DEF StoreInv, Memory, Record
<1>4. \A r \in Slots \ {s} : n.at[r] = m.at[r]
  BY <1>2 DEF StoreInv, Memory
<1>5. \A r \in TextSlots : TextOK(n, r)
  BY <1>1, <1>2, <1>4, Kinds DEF StoreInv, TextOK
<1>6. \A r \in ValueSlots : ValueOK(n, r)
  BY <1>1, <1>2, <1>4, Kinds DEF StoreInv, ValueOK
<1>7. \A b \in DOMAIN n.heap : BlockOK(n, b)
  BY <1>2, <1>4, Kinds DEF StoreInv, BlockOK
<1>8. Dropped(m, n, {})
  BY <1>2, <1>4, Same DEF Dropped, Kept
<1>9. StoreInv(n) /\ Dropped(m, n, {}) /\ DOMAIN n.heap = DOMAIN m.heap
  BY <1>2, <1>3, <1>5, <1>6, <1>7, <1>8 DEF StoreInv
<1>. QED BY <1>9 DEF n

\* an initialized field that is NULL
LEMMA MarkNull ==
    ASSUME NEW m, StoreInv(m), NEW s \in Nullable, m.at[s] = NULL, s \notin m.on
    PROVE  LET n == Marked(m, {s})
           IN  StoreInv(n) /\ Filled(m, n, s, NULL) /\ DOMAIN n.heap = DOMAIN m.heap
<1>. DEFINE n == Marked(m, {s})
<1>1. Record(m) /\ s \in TextSlots
  BY Kinds DEF StoreInv, Memory, Record
<1>2. Record(n) /\ n.on = m.on \cup {s} /\ n.at = m.at /\ n.heap = m.heap
  BY <1>1, MarkedIs
<1>. HIDE DEF n
<1>3. Memory(n)
  BY <1>1, <1>2, Kinds DEF StoreInv, Memory, Record
<1>4. \A r \in TextSlots : TextOK(n, r)
  BY <1>2 DEF StoreInv, TextOK
<1>5. \A r \in ValueSlots : ValueOK(n, r)
  BY <1>1, <1>2, Kinds DEF StoreInv, ValueOK
<1>6. \A b \in DOMAIN n.heap : BlockOK(n, b)
  BY <1>2 DEF StoreInv, BlockOK
<1>7. Filled(m, n, s, NULL)
  BY <1>2, Same, NullValue DEF Filled, Kept
<1>8. StoreInv(n) /\ Filled(m, n, s, NULL) /\ DOMAIN n.heap = DOMAIN m.heap
  BY <1>2, <1>3, <1>4, <1>5, <1>6, <1>7 DEF StoreInv
<1>. QED BY <1>8 DEF n

-----------------------------------------------------------------------------
(* The ways to unset a field                                               *)

\* Free, NULL and clear the bit: what nearly every unset function does.
LEMMA UnsetReleases ==
    ASSUME NEW m, StoreInv(m), NEW S
    PROVE  Released(m, Unset(m, S), S)
<1>. DEFINE x == Freed(m, S)
            y == Nulled(x, S)
            z == Unmarked(y, S)
<1>1. Record(m)
  BY DEF StoreInv, Memory, Record
<1>2. /\ Record(x) /\ x.on = m.on /\ x.at = m.at /\ DOMAIN x.heap = DOMAIN m.heap
      /\ \A b \in DOMAIN m.heap :
            IF \E s \in S \cap m.on : m.at[s] = b
            THEN x.heap[b] = Unused ELSE x.heap[b] = m.heap[b]
  BY <1>1, FreedIs
<1>. HIDE DEF x
<1>3. /\ Record(y) /\ y.on = x.on /\ y.heap = x.heap /\ DOMAIN y.at = DOMAIN x.at
      /\ \A s \in DOMAIN x.at : y.at[s] = IF s \in S THEN NULL ELSE x.at[s]
  BY <1>2, NulledIs
<1>. HIDE DEF y
<1>4. Record(z) /\ z.on = y.on \ S /\ z.at = y.at /\ z.heap = y.heap
  BY <1>3, UnmarkedIs
<1>. HIDE DEF z
<1>5. Released(m, z, S)
  BY <1>2, <1>3, <1>4 DEF Released, Record, StoreInv, Memory
<1>. QED BY <1>5 DEF z, y, x, Unset

\* the pointer stays
LEMMA FreeReleases ==
    ASSUME NEW m, StoreInv(m), NEW S
    PROVE  Released(m, Unmarked(Freed(m, S), S), S)
<1>. DEFINE x == Freed(m, S)
            z == Unmarked(x, S)
<1>1. Record(m)
  BY DEF StoreInv, Memory, Record
<1>2. /\ Record(x) /\ x.on = m.on /\ x.at = m.at /\ DOMAIN x.heap = DOMAIN m.heap
      /\ \A b \in DOMAIN m.heap :
            IF \E s \in S \cap m.on : m.at[s] = b
            THEN x.heap[b] = Unused ELSE x.heap[b] = m.heap[b]
  BY <1>1, FreedIs
<1>. HIDE DEF x
<1>3. Record(z) /\ z.on = x.on \ S /\ z.at = x.at /\ z.heap = x.heap
  BY <1>2, UnmarkedIs
<1>. HIDE DEF z
<1>4. Released(m, z, S)
  BY <1>2, <1>3 DEF Released, Record, StoreInv, Memory
<1>. QED BY <1>4 DEF z, x

\* nothing is freed: a value, or a text that is lost
LEMMA ForgetReleases ==
    ASSUME NEW m, StoreInv(m), NEW s \in ValueSlots \cup LeakySlots
    PROVE  Released(m, Unmarked(Nulled(m, {s}), {s}), {s})
<1>. DEFINE y == Nulled(m, {s})
            z == Unmarked(y, {s})
<1>1. Record(m)
  BY DEF StoreInv, Memory, Record
<1>2. /\ Record(y) /\ y.on = m.on /\ y.heap = m.heap /\ DOMAIN y.at = DOMAIN m.at
      /\ \A r \in DOMAIN m.at : y.at[r] = IF r \in {s} THEN NULL ELSE m.at[r]
  BY <1>1, NulledIs
<1>. HIDE DEF y
<1>3. Record(z) /\ z.on = y.on \ {s} /\ z.at = y.at /\ z.heap = y.heap
  BY <1>2, UnmarkedIs
<1>. HIDE DEF z
<1>4. \A b \in DOMAIN m.heap : s \in m.on /\ m.at[s] = b => s \in LeakySlots
  BY BlocksAreNoValues DEF StoreInv, Memory, ValueOK
<1>5. Released(m, z, {s})
  BY <1>2, <1>3, <1>4 DEF Released, Record, StoreInv, Memory
<1>. QED BY <1>5 DEF z, y

\* a field that is not set, and one that malloc's NULL is stored in
LEMMA OffReleases ==
    ASSUME NEW m, StoreInv(m), NEW s, s \notin m.on
    PROVE  Released(m, m, {s}) /\ Released(m, Nulled(m, {s}), {s})
<1>. DEFINE y == Nulled(m, {s})
<1>1. Record(m)
  BY DEF StoreInv, Memory, Record
<1>2. /\ Record(y) /\ y.on = m.on /\ y.heap = m.heap /\ DOMAIN y.at = DOMAIN m.at
      /\ \A r \in DOMAIN m.at : y.at[r] = IF r \in {s} THEN NULL ELSE m.at[r]
  BY <1>1, NulledIs
<1>. HIDE DEF y
<1>3. Released(m, m, {s}) /\ Released(m, y, {s})
  BY <1>1, <1>2 DEF Released, Record, StoreInv, Memory
<1>. QED BY <1>3 DEF y

-----------------------------------------------------------------------------
(* The outcomes of setting a field that was released                       *)

\* n is what becomes of m when s is set to v, and when the malloc for it fails
Sets(m, n, s, v) == StoreInv(n) /\ Filled(m, n, s, v) /\ DOMAIN n.heap = DOMAIN m.heap

Drops(m, n, S) == StoreInv(n) /\ Dropped(m, n, S) /\ DOMAIN n.heap = DOMAIN m.heap

\* A release, seen through the bits.
LEMMA ReleaseDrops ==
    ASSUME NEW m, StoreInv(m), NEW n, NEW S, Released(m, n, S)
    PROVE  Drops(m, n, S)
BY Release DEF Drops, Released

\* A text set after whatever released its field; the block may be taken before or after that.
LEMMA RefillText ==
    ASSUME NEW m, StoreInv(m), NEW s \in TextSlots, NEW u, Released(m, u, {s}),
           NEW t \in Texts, NEW b \in Spare(m) \cup Spare(u)
    PROVE  Sets(m, Marked(Pointed(u, s, b, t), {s}), s, t)
<1>. DEFINE n == Marked(Pointed(u, s, b, t), {s})
<1>1. StoreInv(u) /\ Dropped(m, u, {s}) /\ b \in Spare(u)
  BY Release
<1>2. s \notin u.on /\ DOMAIN u.heap = DOMAIN m.heap
  BY DEF Released
<1>3. StoreInv(n) /\ Filled(u, n, s, t) /\ DOMAIN n.heap = DOMAIN u.heap
  BY <1>1, <1>2, PointMark
<1>. HIDE DEF n
<1>4. Filled(m, n, s, t)
  BY <1>1, <1>3, DropFill
<1>5. Sets(m, n, s, t)
  BY <1>2, <1>3, <1>4 DEF Sets
<1>. QED BY <1>5 DEF n

\* A number or flag set after its field was released.
LEMMA RefillValue ==
    ASSUME NEW m, StoreInv(m), NEW s \in ValueSlots, NEW u, Released(m, u, {s}), NEW v \in Int
    PROVE  Sets(m, Marked(Placed(u, s, v), {s}), s, v)
<1>. DEFINE n == Marked(Placed(u, s, v), {s})
<1>1. StoreInv(u) /\ Dropped(m, u, {s})
  BY Release
<1>2. DOMAIN u.heap = DOMAIN m.heap
  BY DEF Released
<1>3. StoreInv(n) /\ Filled(u, n, s, v) /\ DOMAIN n.heap = DOMAIN u.heap
  BY <1>1, PlaceMark
<1>. HIDE DEF n
<1>4. Filled(m, n, s, v)
  BY <1>1, <1>3, DropFill
<1>5. Sets(m, n, s, v)
  BY <1>2, <1>3, <1>4 DEF Sets
<1>. QED BY <1>5 DEF n

\* A number or flag set over the one that is there.
LEMMA SetInPlace ==
    ASSUME NEW m, StoreInv(m), NEW s \in ValueSlots, NEW v \in Int
    PROVE  Sets(m, Marked(Placed(m, s, v), {s}), s, v)
BY PlaceMark DEF Sets

\* a text for which no bit is set
LEMMA RefillLost ==
    ASSUME NEW m, StoreInv(m), NEW s \in LeakySlots, NEW u, Released(m, u, {s}),
           NEW t \in Texts, NEW b \in Spare(u)
    PROVE  Drops(m, Pointed(u, s, b, t), {s})
<1>. DEFINE n == Pointed(u, s, b, t)
<1>1. StoreInv(u) /\ Dropped(m, u, {s})
  BY Release
<1>2. s \notin u.on /\ DOMAIN u.heap = DOMAIN m.heap
  BY DEF Released
<1>3. StoreInv(n) /\ Dropped(u, n, {}) /\ DOMAIN n.heap = DOMAIN u.heap
  BY <1>1, <1>2, PointOnly
<1>. HIDE DEF n
<1>4. Dropped(m, n, {s})
  BY <1>1, <1>3, DropNone
<1>5. Drops(m, n, {s})
  BY <1>2, <1>3, <1>4 DEF Drops
<1>. QED BY <1>5 DEF n

\* The functions that free a structure release one set of fields after another.
LEMMA DropsTwice ==
    ASSUME NEW m, NEW n, NEW p, NEW S, NEW T, Drops(m, n, S), Drops(n, p, T)
    PROVE  Drops(m, p, S \cup T)
BY DropDrop DEF Drops

\* What nearly every unset function does, seen through the bits.
LEMMA UnsetDrops ==
    ASSUME NEW m, StoreInv(m), NEW S
    PROVE  Drops(m, Unset(m, S), S)
BY UnsetReleases, ReleaseDrops

-----------------------------------------------------------------------------
(* The steps                                                               *)

Shown == Texts \cup Int \cup {NULL}

\* a call that is one step: a field is set or unset, or a structure is freed
Whole ==
    /\ call = Idle /\ call' = Idle
    /\ \/ mem' = mem
       \/ \E s \in Slots, v \in Shown : Sets(mem, mem', s, v)
       \/ \E s \in Slots : Drops(mem, mem', {s})
       \/ \E P \in Structures : Drops(mem, mem', P)

\* the start of a call that sets several
Starting ==
    /\ call = Idle /\ mem' = mem
    /\ call' = Idle \/ (CallTyped(call') /\ call'.todo = DOMAIN call'.doc)

\* one of its fields
Ongoing(f) ==
    /\ f \in call.todo
    /\ \/ Sets(mem, mem', <<call.to, f>>, Meant(f)) /\ Continue(f)
       \/ Drops(mem, mem', {<<call.to, f>>}) /\ call' = Idle
       \/ mem' = mem /\ call' = Idle /\ call.how \notin Types

Step == Whole \/ Starting \/ \E f \in call.todo : Ongoing(f)

\* While fields are left, the call is one that was begun and kept its promise so far.
LEMMA UnderWay ==
    ASSUME IInv, NEW f \in call.todo
    PROVE  /\ CallTyped(call) /\ DoneWith
           /\ f \in DOMAIN call.doc
           /\ <<call.to, f>> \in Slots
           /\ call.doc[f] \in Fits(call.how, f)
<1>1. call # Idle
  BY DEF Idle
<1>2. CallTyped(call) /\ DoneWith
  BY <1>1 DEF IInv, CallInv
<1>. QED BY <1>2 DEF CallTyped

\* the start of a call, in the words of the library
LEMMA Begins ==
    ASSUME NEW how, NEW o, NEW doc, Begin(how, o, doc),
           NoCall, mem' = mem,
           CallTyped([how |-> how, to |-> o, todo |-> DOMAIN doc, doc |-> doc])
    PROVE  Starting
BY DEF Begin, Starting, NoCall

\* one field of a call, in the words of the library
LEMMA OneField ==
    ASSUME IInv, NEW f \in call.todo, NEW outcomes, NEW failed, OneOf(f, outcomes, failed),
           \A n \in outcomes : Sets(mem, n, <<call.to, f>>, Meant(f)),
           (failed = mem /\ call.how \notin Types) \/ Drops(mem, failed, {<<call.to, f>>})
    PROVE  Ongoing(f)
BY DEF OneOf, Ongoing, Abort

\* One number or flag of a call, which cannot fail.
LEMMA OneValue ==
    ASSUME IInv, NEW f \in call.todo, Sets(mem, mem', <<call.to, f>>, Meant(f)), Continue(f)
    PROVE  Ongoing(f)
BY DEF Ongoing

\* A function that sets one field: one of the outcomes of its malloc, or what is left when that fails.
LEMMA OneSet ==
    ASSUME NoCall, NEW s \in Slots, NEW v \in Shown, NEW outcomes, NEW failed,
           Either(outcomes, failed),
           \A n \in outcomes : Sets(mem, n, s, v) \/ Drops(mem, n, {s}),
           failed = mem \/ Drops(mem, failed, {s})
    PROVE  Whole
BY DEF Either, Whole, NoCall

\* A setter that unsets the field before it calls the function that sets it.
LEMMA DropThenSet ==
    ASSUME NEW m, NEW n, NEW p, NEW s, NEW v, Drops(m, n, {s}), Sets(n, p, s, v)
    PROVE  Sets(m, p, s, v)
BY DropFill DEF Drops, Sets

-----------------------------------------------------------------------------
(* What a call means to set                                                *)

\* A create, a clone and the calls on keys set what they were given.
LEMMA MeantAsGiven ==
    ASSUME NEW f, call.how \in Types \cup {"clone", "rsa", "populate", "file"}
    PROVE  Meant(f) = call.doc[f]
BY DEF Meant, Types

\* Parsing an atkey's JSON sets null to the text "null" or 0 and cuts a number to an int.
LEMMA MeantByJson ==
    ASSUME NEW f, call.how = "json"
    PROVE  /\ f \in MetadataTexts => Meant(f) = GivenText(f)
           /\ f \notin MetadataTexts => Meant(f) = GivenNumber(f)
BY DEF Meant, GivenText, GivenNumber

\* Parsing a notification's JSON cuts its number to an int.
LEMMA MeantByNotification ==
    ASSUME NEW f, call.how = "notification", call.doc[f] # WrongType
    PROVE  Meant(f) = IF f \in NotificationNumbers
                      THEN IF call.doc[f] > EpochMax THEN EpochMax ELSE call.doc[f]
                      ELSE call.doc[f]
BY DEF Meant

-----------------------------------------------------------------------------
(* The slots of each kind of structure                                     *)

\* A slot is a field of a structure of its kind.
LEMMA Owners ==
    ASSUME NEW s \in Slots
    PROVE  \/ s \in AtkeySlots /\ s[1] \in Atkeys
           \/ s \in NotificationSlots /\ s[1] \in Notifications
           \/ s \in ParamSlots /\ s[1] \in Params
           \/ s \in OptionSlots /\ s[1] \in Requests
           \/ s \in KeySlots /\ s[1] \in KeySets
           \/ s \in FileSlots /\ s[1] \in KeyFiles
<1>1. CASE s \in (Atkeys \X (NameTexts \cup MetadataTexts)) \cup (Atkeys \X MetadataValues)
  BY <1>1 DEF AtkeySlots, MetadataFields
<1>2. CASE s \in (Notifications \X (NotificationTexts \cup {"decrypted_value"}))
                    \cup (Notifications \X NotificationValues)
  BY <1>2 DEF NotificationSlots, NotificationFieldNames
<1>3. CASE s \in (Params \X ParamTexts) \cup (Params \X ParamValues)
  BY <1>3 DEF ParamSlots
<1>4. CASE s \in TextOptions \cup HostOptions \cup FlagOptions \cup PortOptions
  BY <1>4 DEF OptionSlots, TextOptions, HostOptions, FlagOptions, PortOptions, Requests
<1>5. CASE s \in KeySlots
  BY <1>5 DEF KeySlots
<1>6. CASE s \in FileSlots
  BY <1>6 DEF FileSlots
<1>. QED BY <1>1, <1>2, <1>3, <1>4, <1>5, <1>6, Kinds DEF TextSlots, ValueSlots

\* The slots of an atkey.
LEMMA AtkeyParts ==
    ASSUME NEW o \in Atkeys
    PROVE  /\ \A f \in NameTexts \cup MetadataTexts : <<o, f>> \in TextSlots \ Nullable
           /\ \A f \in MetadataValues : <<o, f>> \in ValueSlots
           /\ ({o} \X NameTexts) \cup ({o} \X MetadataFields) \in Structures
<1>1. \A f \in NameTexts \cup MetadataTexts : <<o, f>> \in TextSlots \ Nullable
  BY Distinct DEF TextSlots, Nullable
<1>2. \A f \in MetadataValues : <<o, f>> \in ValueSlots
  BY DEF ValueSlots
<1>3. ({o} \X NameTexts) \cup ({o} \X MetadataFields) = {s \in Slots : s[1] = o}
  <2>1. \A s \in ({o} \X NameTexts) \cup ({o} \X MetadataFields) : s \in Slots /\ s[1] = o
    BY <1>1, <1>2, Kinds DEF MetadataFields
  <2>2. ASSUME NEW s \in Slots, s[1] = o
        PROVE  s \in ({o} \X NameTexts) \cup ({o} \X MetadataFields)
    <3>1. s \in AtkeySlots
      BY <2>2, Owners, Distinct
    <3>. QED BY <2>2, <3>1 DEF AtkeySlots
  <2>. QED BY <2>1, <2>2
<1>. QED BY <1>1, <1>2, <1>3 DEF Structures

-----------------------------------------------------------------------------
(* Atkeys                                                                  *)

\* Every unset function of an atkey releases its field and no other; that of enc_key_name leaves
\* a pointer behind, to a field that is not initialized.
LEMMA AtkeyReleases ==
    ASSUME NEW m, StoreInv(m), NEW o \in Atkeys, NEW f
    PROVE  /\ f \in MetadataValues => Released(m, UnsetValue(m, o, f), {<<o, f>>})
           /\ Released(m, UnsetServerText(m, o, f), {<<o, f>>})
           /\ Released(m, UnsetKeyText(m, o, f), {<<o, f>>})
           /\ Released(m, UnsetName(m, o, f), {<<o, f>>})
<1>1. f \in MetadataValues => Released(m, UnsetValue(m, o, f), {<<o, f>>})
  BY AtkeyParts, ForgetReleases DEF UnsetValue, MetadataMark
<1>2. Released(m, Unset(m, {<<o, f>>}), {<<o, f>>})
  BY UnsetReleases
<1>3. UnsetServerText(m, o, f) = Unset(m, {<<o, f>>})
  BY DEF UnsetServerText, MetadataMark, Unset
<1>4. Released(m, Unmarked(Freed(m, {<<o, f>>}), {<<o, f>>}), {<<o, f>>})
  BY FreeReleases
<1>5. UnsetKeyText(m, o, f) \in
         {Unset(m, {<<o, f>>}), Unmarked(Freed(m, {<<o, f>>}), {<<o, f>>})}
  BY DEF UnsetKeyText, MetadataMark, Unset
<1>6. Released(m, UnsetName(m, o, f), {<<o, f>>})
  BY <1>2, OffReleases DEF UnsetName
<1>. QED BY <1>1, <1>2, <1>3, <1>4, <1>5, <1>6

\* Every set function of an atkey gives the field its value, whichever block malloc returns.
LEMMA AtkeySets ==
    ASSUME NEW m, StoreInv(m), NEW o \in Atkeys, NEW f
    PROVE  /\ \A v \in Int : f \in MetadataValues =>
                 /\ Sets(m, SetValue(m, o, f, v), <<o, f>>, v)
                 /\ Sets(m, SetValue(UnsetValue(m, o, f), o, f, v), <<o, f>>, v)
           /\ \A t \in Texts : f \in MetadataTexts =>
                 /\ \A n \in SetServerText(m, o, f, t) : Sets(m, n, <<o, f>>, t)
                 /\ \A n \in SetKeyText(m, o, f, t) : Sets(m, n, <<o, f>>, t)
           /\ \A t \in Texts : f \in NameTexts =>
                 \A n \in SetName(m, o, f, t) : Sets(m, n, <<o, f>>, t)
<1>. DEFINE s == <<o, f>>
<1>1. ASSUME NEW v \in Int, f \in MetadataValues
      PROVE  /\ Sets(m, SetValue(m, o, f, v), s, v)
             /\ Sets(m, SetValue(UnsetValue(m, o, f), o, f, v), s, v)
  <2>1. s \in ValueSlots
    BY <1>1, AtkeyParts
  <2>2. Released(m, UnsetValue(m, o, f), {s})
    BY <1>1, AtkeyReleases
  <2>. QED BY <2>1, <2>2, SetInPlace, RefillValue DEF SetValue, MetadataMark
<1>2. ASSUME NEW t \in Texts, f \in NameTexts \cup MetadataTexts
      PROVE  /\ \A n \in SetServerText(m, o, f, t) : Sets(m, n, s, t)
             /\ \A n \in SetKeyText(m, o, f, t) : Sets(m, n, s, t)
             /\ \A n \in SetName(m, o, f, t) : Sets(m, n, s, t)
  <2>1. s \in TextSlots
    BY <1>2, AtkeyParts
  <2>2. ASSUME NEW u, Released(m, u, {s}), NEW b \in Spare(m) \cup Spare(u)
        PROVE  Sets(m, Marked(Pointed(u, s, b, t), {s}), s, t)
    BY <2>1, <2>2, RefillText
  <2>3. \A n \in SetServerText(m, o, f, t) : Sets(m, n, s, t)
    BY <2>2, AtkeyReleases DEF SetServerText, MetadataMark
  <2>4. \A n \in SetKeyText(m, o, f, t) : Sets(m, n, s, t)
    BY <2>2, AtkeyReleases DEF SetKeyText, MetadataMark
  <2>5. \A n \in SetName(m, o, f, t) : Sets(m, n, s, t)
    BY <2>2, AtkeyReleases DEF SetName
  <2>. QED BY <2>3, <2>4, <2>5
<1>. QED BY <1>1, <1>2

\* What is left of a name or a text when its malloc fails.
LEMMA AtkeyDrops ==
    ASSUME NEW m, StoreInv(m), NEW o \in Atkeys, NEW f
    PROVE  Drops(m, UnsetKeyText(m, o, f), {<<o, f>>}) /\ Drops(m, UnsetName(m, o, f), {<<o, f>>})
BY AtkeyReleases, ReleaseDrops

\* the calls that are one step
LEMMA AtkeyWhole ==
    ASSUME IInv, NEW o \in Atkeys
    PROVE  /\ \A f \in MetadataValues : \A v \in ValuesOf(f) : SetMetadataValue(o, f, v) => Whole
           /\ \A f \in KeyTexts, t \in Texts : SetMetadataText(o, f, t) => Whole
           /\ \A f \in NameTexts, t \in Texts : AtkeySetName(o, f, t) => Whole
           /\ \A f \in NameTexts : AtkeyUnsetName(o, f) => Whole
           /\ AtkeyFree(o) => Whole
<1>1. StoreInv(mem)
  BY DEF IInv
<1>2. ASSUME NEW f \in MetadataValues, NEW v \in ValuesOf(f), SetMetadataValue(o, f, v)
      PROVE  Whole
  <2>1. v \in Int
    BY BoundsAreNumbers DEF ValuesOf
  <2>2. Sets(mem, mem', <<o, f>>, v)
    BY <1>1, <1>2, <2>1, AtkeySets DEF SetMetadataValue
  <2>3. <<o, f>> \in Slots
    BY AtkeyParts, Kinds
  <2>. QED BY <1>2, <2>1, <2>2, <2>3 DEF SetMetadataValue, Whole, NoCall, Shown
<1>3. ASSUME NEW f \in KeyTexts, NEW t \in Texts, SetMetadataText(o, f, t)
      PROVE  Whole
  <2>. DEFINE unset == IF MetadataHas(mem, o, f) THEN UnsetKeyText(mem, o, f) ELSE mem
              s == <<o, f>>
  <2>1. NoCall /\ Either(SetKeyText(unset, o, f, t), unset)
    BY <1>3 DEF SetMetadataText
  <2>2. f \in MetadataTexts /\ s \in Slots
    BY AtkeyParts, Kinds DEF MetadataTexts
  <2>3. unset = mem \/ Drops(mem, unset, {s})
    BY <1>1, AtkeyDrops
  <2>. HIDE DEF unset
  <2>4. StoreInv(unset)
    BY <1>1, <2>3 DEF Drops
  <2>5. \A n \in SetKeyText(unset, o, f, t) : Sets(unset, n, s, t)
    BY <2>2, <2>4, AtkeySets
  <2>6. \A n \in SetKeyText(unset, o, f, t) : Sets(mem, n, s, t)
    BY <2>3, <2>5, DropThenSet
  <2>. QED BY <2>1, <2>2, <2>3, <2>6, OneSet DEF Shown
<1>4. ASSUME NEW f \in NameTexts, NEW t \in Texts, AtkeySetName(o, f, t)
      PROVE  Whole
  <2>1. <<o, f>> \in Slots
    BY AtkeyParts, Kinds
  <2>2. \A n \in SetName(mem, o, f, t) : Sets(mem, n, <<o, f>>, t)
    BY <1>1, AtkeySets
  <2>3. Drops(mem, UnsetName(mem, o, f), {<<o, f>>})
    BY <1>1, AtkeyDrops
  <2>. QED BY <1>4, <2>1, <2>2, <2>3, OneSet DEF AtkeySetName, Shown
<1>5. ASSUME NEW f \in NameTexts, AtkeyUnsetName(o, f)
      PROVE  Whole
  <2>1. <<o, f>> \in Slots
    BY AtkeyParts, Kinds
  <2>. QED BY <1>1, <1>5, <2>1, AtkeyDrops DEF AtkeyUnsetName, Whole, NoCall
<1>6. ASSUME AtkeyFree(o)
      PROVE  Whole
  <2>. DEFINE u == Unset(mem, {o} \X NameTexts)
              n == Unset(u, {o} \X MetadataFields)
  <2>1. Drops(mem, u, {o} \X NameTexts)
    BY <1>1, UnsetDrops
  <2>2. Drops(u, n, {o} \X MetadataFields)
    BY <2>1, UnsetDrops DEF Drops
  <2>3. mem' = n /\ call = Idle /\ call' = Idle
    BY <1>6 DEF AtkeyFree, MetadataFreed, NoCall
  <2>. HIDE DEF u, n
  <2>4. Drops(mem, n, ({o} \X NameTexts) \cup ({o} \X MetadataFields))
    BY <2>1, <2>2, DropsTwice
  <2>. QED BY <2>3, <2>4, AtkeyParts DEF Whole
<1>. QED BY <1>2, <1>3, <1>4, <1>5, <1>6

\* The fields each create function sets.
LEMMA CreateFieldsAre ==
    /\ CreateFields("public") = {"is_public", "key", "shared_by", "namespace_str"} \cap (NameTexts \cup PlaceFlags)
    /\ CreateFields("self") = {"key", "namespace_str", "shared_by"} \cap (NameTexts \cup PlaceFlags)
    /\ CreateFields("shared") = {"shared_with", "key", "namespace_str", "shared_by"} \cap (NameTexts \cup PlaceFlags)
    /\ CreateFields("reserved") = {"key"} \cap (NameTexts \cup PlaceFlags)
<1>1. /\ CreateOrder("public") = <<"is_public", "key", "shared_by", "namespace_str">>
      /\ CreateOrder("self") = <<"key", "namespace_str", "shared_by">>
      /\ CreateOrder("shared") = <<"shared_with", "key", "namespace_str", "shared_by">>
      /\ CreateOrder("reserved") = <<"key">>
  BY DEF CreateOrder
<1>2. \A a, b, c, d : {<<a, b, c, d>>[i] : i \in 1..Len(<<a, b, c, d>>)} = {a, b, c, d}
  <2>. TAKE a, b, c, d
  <2>1. 1..Len(<<a, b, c, d>>) = {1, 2, 3, 4}
    OBVIOUS
  <2>. QED BY <2>1
<1>3. \A a, b, c : {<<a, b, c>>[i] : i \in 1..Len(<<a, b, c>>)} = {a, b, c}
  <2>. TAKE a, b, c
  <2>1. 1..Len(<<a, b, c>>) = {1, 2, 3}
    OBVIOUS
  <2>. QED BY <2>1
<1>4. \A a : {<<a>>[i] : i \in 1..Len(<<a>>)} = {a}
  OBVIOUS
<1>. DEFINE All(order) == {order[i] : i \in 1..Len(order)}
<1>5. \A how : CreateFields(how) = All(CreateOrder(how)) \cap (NameTexts \cup PlaceFlags)
  BY DEF CreateFields
<1>6. /\ All(<<"is_public", "key", "shared_by", "namespace_str">>) = {"is_public", "key", "shared_by", "namespace_str"}
      /\ All(<<"key", "namespace_str", "shared_by">>) = {"key", "namespace_str", "shared_by"}
      /\ All(<<"shared_with", "key", "namespace_str", "shared_by">>) = {"shared_with", "key", "namespace_str", "shared_by"}
      /\ All(<<"key">>) = {"key"}
  BY <1>2, <1>3, <1>4
<1>. HIDE DEF All
<1>. QED BY <1>1, <1>5, <1>6

\* what a create function sets: the names and, for a public key, the flag
LEMMA CreateFieldsKinds ==
    ASSUME NEW type \in Types, NEW f \in CreateFields(type)
    PROVE  /\ f = "is_public" => f \in MetadataValues
           /\ f # "is_public" => f \in NameTexts /\ f \notin MetadataValues
<1>1. f \in {"is_public", "key", "shared_by", "namespace_str", "shared_with"} \cap (NameTexts \cup PlaceFlags)
  BY CreateFieldsAre DEF Types
<1>2. f \in {"key", "namespace_str"} => f \notin MetadataFields
  BY AtkeyKinds
<1>. QED BY <1>1, <1>2, AtkeyKinds DEF MetadataFields, MetadataValues

\* the calls that set several begin as they should
LEMMA AtkeyStarts ==
    ASSUME IInv, NEW o \in Atkeys
    PROVE  /\ \A type \in Types, t, u \in Texts : Create(o, type, t, u) => Starting
           /\ \A p \in Atkeys : Clone(p, o) => Starting
           /\ FromJson(o) => Starting
<1>1. ASSUME NEW type \in Types, NEW t \in Texts, NEW u \in Texts, Create(o, type, t, u)
      PROVE  Starting
  <2>. DEFINE fields == CreateFields(type)
              doc == [f \in fields |-> CASE f = "is_public" -> 1
                                         [] f = "shared_with" -> u
                                         [] f \notin {"is_public", "shared_with"} -> t]
              given(S) == [f \in S |-> doc[f]]
  <2>1. /\ NoCall /\ mem' = mem
        /\ \E S \in {fields, fields \ {"namespace_str"}} : Begin(type, o, given(S))
    BY <1>1 DEF Create, CreateFields
  <2>2. PICK S \in {fields, fields \ {"namespace_str"}} : Begin(type, o, given(S))
    BY <2>1
  <2>. DEFINE c == [how |-> type, to |-> o, todo |-> DOMAIN given(S), doc |-> given(S)]
  <2>3. ASSUME NEW f \in S
        PROVE  <<o, f>> \in Slots /\ given(S)[f] \in Fits(type, f)
    <3>1. f \in fields
      BY <2>2
    <3>2. given(S)[f] = IF f = "is_public" THEN 1 ELSE IF f = "shared_with" THEN u ELSE t
      BY <3>1
    <3>3. /\ f = "is_public" => f \in MetadataValues
          /\ f # "is_public" => f \in NameTexts /\ f \notin MetadataValues
      BY <3>1, CreateFieldsKinds
    <3>4. <<o, f>> \in Slots
      BY <3>3, AtkeyParts, Kinds
    <3>. HIDE DEF fields, doc, given
    <3>. QED BY <3>2, <3>3, <3>4 DEF Fits
  <2>4. DOMAIN given(S) = S
    OBVIOUS
  <2>5. "is_public" \in S => given(S)["is_public"] = 1
    BY <2>2
  <2>6. type \in Calls /\ OwnersFor(type) = Atkeys /\ type # "populate"
    BY DEF Calls, OwnersFor, AtkeyCalls, Types
  <2>. HIDE DEF fields, given
  <2>7. c.how = type /\ c.to = o /\ c.todo = S /\ c.doc = given(S)
    BY <2>4
  <2>8. c = [how |-> c.how, to |-> c.to, todo |-> c.todo, doc |-> c.doc]
    OBVIOUS
  <2>9. S \in {CreateFields(type), CreateFields(type) \ {"namespace_str"}}
    BY <2>2 DEF fields
  <2>. HIDE DEF c
  <2>10. CallTyped(c)
    BY <2>3, <2>4, <2>5, <2>6, <2>7, <2>8, <2>9 DEF CallTyped
  <2>. QED BY <2>1, <2>2, <2>10, Begins DEF c
<1>2. ASSUME NEW p \in Atkeys, Clone(p, o)
      PROVE  Starting
  <2>. DEFINE held == {f \in NameTexts \cup MetadataFields : <<p, f>> \in mem.on}
              doc == [f \in held |-> Value(mem, <<p, f>>)]
              c == [how |-> "clone", to |-> o, todo |-> DOMAIN doc, doc |-> doc]
  <2>1. NoCall /\ mem' = mem /\ Begin("clone", o, doc)
    BY <1>2 DEF Clone
  <2>2. ASSUME NEW f \in held
        PROVE  <<o, f>> \in Slots /\ doc[f] \in Fits("clone", f)
    <3>1. doc[f] = Value(mem, <<p, f>>) /\ <<p, f>> \in mem.on
      OBVIOUS
    <3>2. f \in NameTexts \cup MetadataTexts \/ f \in MetadataValues
      BY DEF MetadataFields
    <3>3. f \in NameTexts \cup MetadataTexts => f \notin MetadataValues /\ Value(mem, <<p, f>>) \in Texts
      BY <3>1, AtkeyKinds, AtkeyParts, HeldText DEF IInv
    <3>4. f \in MetadataValues => Value(mem, <<p, f>>) \in Int
      BY <3>1, AtkeyParts, HeldNumber DEF IInv
    <3>. QED BY <3>1, <3>2, <3>3, <3>4, AtkeyParts, Kinds DEF Fits
  <2>3. /\ "clone" \in Calls /\ OwnersFor("clone") = Atkeys /\ "clone" \notin Types
    BY DEF Calls, OwnersFor, AtkeyCalls, Types
  <2>4. DOMAIN doc = held
    OBVIOUS
  <2>. HIDE DEF doc, held
  <2>5. CallTyped(c)
    BY <2>2, <2>3, <2>4 DEF CallTyped
  <2>. QED BY <2>1, <2>5, Begins
<1>3. ASSUME FromJson(o)
      PROVE  Starting
  <2>1. /\ NoCall /\ mem' = mem
        /\ \E doc \in ServerDocs \cup {ToJson(mem, p) : p \in Atkeys} : Begin("json", o, doc)
    BY <1>3 DEF FromJson
  <2>2. PICK doc \in ServerDocs \cup {ToJson(mem, p) : p \in Atkeys} : Begin("json", o, doc)
    BY <2>1
  <2>. DEFINE c == [how |-> "json", to |-> o, todo |-> DOMAIN doc, doc |-> doc]
  <2>3. ASSUME NEW f \in DOMAIN doc
        PROVE  f \in ParsedFields /\ doc[f] \in Fits("json", f)
    <3>1. CASE doc \in ServerDocs
      <4>1. \A g : ValuesOf(g) \subseteq Int
        BY BoundsAreNumbers DEF ValuesOf
      <4>2. CASE \E g \in MetadataTexts : doc \in [{g} -> Texts \cup {NULL}]
        BY <4>2 DEF Fits, ParsedFields, Types
      <4>3. CASE \E g \in Numbers \cup Flags : doc \in [{g} -> ValuesOf(g) \cup {NULL}]
        <5>1. f \in Numbers \cup Flags /\ doc[f] \in Int \cup {NULL}
          BY <4>1, <4>3
        <5>2. f \notin MetadataTexts
          BY <5>1, AtkeyKinds DEF MetadataValues
        <5>. QED BY <5>1, <5>2 DEF Fits, ParsedFields, Types
      <4>. QED BY <3>1, <4>2, <4>3 DEF ServerDocs
    <3>2. CASE \E p \in Atkeys : doc = ToJson(mem, p)
      <4>1. PICK p \in Atkeys : doc = ToJson(mem, p)
        BY <3>2
      <4>2. f \in ParsedFields /\ <<p, f>> \in mem.on /\ doc[f] = Value(mem, <<p, f>>)
        BY <4>1 DEF ToJson
      <4>3. f \in MetadataTexts => Value(mem, <<p, f>>) \in Texts
        BY <4>2, AtkeyParts, HeldText DEF IInv
      <4>4. f \notin MetadataTexts => Value(mem, <<p, f>>) \in Int
        BY <4>2, AtkeyParts, HeldNumber DEF IInv, ParsedFields, MetadataValues
      <4>. QED BY <4>2, <4>3, <4>4 DEF Fits, Types
    <3>. QED BY <2>2, <3>1, <3>2
  <2>4. \A f \in ParsedFields : <<o, f>> \in Slots
    BY AtkeyParts, Kinds DEF ParsedFields, MetadataValues
  <2>5. /\ "json" \in Calls /\ OwnersFor("json") = Atkeys /\ "json" \notin Types
    BY DEF Calls, OwnersFor, AtkeyCalls, Types
  <2>6. CallTyped(c)
    BY <2>3, <2>4, <2>5 DEF CallTyped
  <2>. QED BY <2>1, <2>2, <2>6, Begins
<1>. QED BY <1>1, <1>2, <1>3

\* the fields of a call on an atkey, one at a time
LEMMA AtkeyCallSteps ==
    ASSUME IInv, NEW f
    PROVE  /\ f \in PlaceFlags /\ CreateFlag(f) => Ongoing(f) /\ f \in call.todo
           /\ f \in NameTexts /\ (CreateName(f) \/ CloneName(f)) => Ongoing(f) /\ f \in call.todo
           /\ f \in ServerTexts /\ (CloneServerText(f) \/ ParseServerText(f)) => Ongoing(f) /\ f \in call.todo
           /\ f \in MetadataValues /\ CloneValue(f) => Ongoing(f) /\ f \in call.todo
           /\ f \in Numbers \cup Flags /\ ParseValue(f) => Ongoing(f) /\ f \in call.todo
           /\ f \in KeyTexts /\ (CloneKeyText(f) \/ ParseKeyText(f)) => Ongoing(f) /\ f \in call.todo
<1>. DEFINE o == call.to
            v == call.doc[f]
<1>1. StoreInv(mem)
  BY DEF IInv
<1>2. CreateFlag(f) \/ CreateName(f) => call.how \in Types /\ f \in call.todo
  BY DEF CreateFlag, CreateName, InTurn
<1>3. CloneName(f) \/ CloneServerText(f) \/ CloneValue(f) \/ CloneKeyText(f) =>
         call.how = "clone" /\ f \in call.todo
  BY DEF CloneName, CloneServerText, CloneValue, CloneKeyText, Cloning, InTurn
<1>4. ParseServerText(f) \/ ParseValue(f) \/ ParseKeyText(f) => call.how = "json" /\ f \in call.todo
  BY DEF ParseServerText, ParseValue, ParseKeyText, Parsing, InTurn
<1>5. ASSUME f \in call.todo, call.how \in AtkeyCalls
      PROVE  o \in Atkeys /\ v \in Fits(call.how, f)
  BY <1>5, UnderWay DEF CallTyped, OwnersFor
<1>6. ASSUME f \in call.todo, call.how \in Types \cup {"clone"}
      PROVE  /\ o \in Atkeys /\ Meant(f) = v
             /\ f \in MetadataValues => v \in Int
             /\ f \notin MetadataValues => v \in Texts
  BY <1>5, <1>6, MeantAsGiven DEF Fits, AtkeyCalls
<1>7. ASSUME f \in call.todo, call.how = "json"
      PROVE  /\ o \in Atkeys
             /\ f \in MetadataTexts => Meant(f) = GivenText(f) /\ GivenText(f) \in Texts
             /\ f \notin MetadataTexts => Meant(f) = GivenNumber(f) /\ GivenNumber(f) \in Int
  <2>1. o \in Atkeys
    BY <1>5, <1>7 DEF AtkeyCalls
  <2>2. f \in MetadataTexts => v \in Texts \cup {NULL}
    BY <1>5, <1>7 DEF AtkeyCalls, Fits, Types
  <2>3. f \notin MetadataTexts => v \in Int \cup {NULL}
    BY <1>5, <1>7 DEF AtkeyCalls, Fits, Types
  <2>4. f \in MetadataTexts => GivenText(f) \in Texts
    BY <2>2, NullTextIsText DEF GivenText
  <2>5. f \notin MetadataTexts => GivenNumber(f) \in Int
    BY <2>3, BoundsAreNumbers DEF GivenNumber
  <2>. QED BY <1>7, <2>1, <2>4, <2>5, MeantByJson
<1>8. ASSUME f \in PlaceFlags, CreateFlag(f)
      PROVE  Ongoing(f) /\ f \in call.todo
  <2>1. mem' = SetValue(UnsetValue(mem, o, f), o, f, v) /\ Continue(f)
    BY <1>8 DEF CreateFlag
  <2>2. f \in MetadataValues
    BY <1>8 DEF MetadataValues
  <2>3. Sets(mem, mem', <<o, f>>, Meant(f))
    BY <1>1, <1>2, <1>6, <1>8, <2>1, <2>2, AtkeySets
  <2>. QED BY <1>2, <1>8, <2>1, <2>3, OneValue
<1>9. ASSUME f \in NameTexts, CreateName(f) \/ CloneName(f)
      PROVE  Ongoing(f) /\ f \in call.todo
  <2>1. OneOf(f, SetName(mem, o, f, v), UnsetName(mem, o, f))
    BY <1>9 DEF CreateName, CloneName
  <2>2. f \in call.todo /\ o \in Atkeys /\ Meant(f) = v /\ v \in Texts
    BY <1>2, <1>3, <1>6, <1>9, AtkeyKinds
  <2>3. \A n \in SetName(mem, o, f, v) : Sets(mem, n, <<o, f>>, v)
    BY <1>1, <1>9, <2>2, AtkeySets
  <2>4. Drops(mem, UnsetName(mem, o, f), {<<o, f>>})
    BY <1>1, <2>2, AtkeyDrops
  <2>. HIDE DEF v
  <2>. QED BY <2>1, <2>2, <2>3, <2>4, OneField
<1>10. ASSUME f \in ServerTexts, CloneServerText(f) \/ ParseServerText(f)
       PROVE  Ongoing(f) /\ f \in call.todo
  <2>1. f \in MetadataTexts /\ f \notin MetadataValues /\ f \in call.todo
    BY <1>3, <1>4, <1>10, AtkeyKinds DEF MetadataTexts
  <2>2. PICK t \in Texts : OneOf(f, SetServerText(mem, o, f, t), mem) /\ Meant(f) = t
    BY <1>3, <1>4, <1>6, <1>7, <1>10, <2>1 DEF CloneServerText, ParseServerText
  <2>3. \A n \in SetServerText(mem, o, f, t) : Sets(mem, n, <<o, f>>, t)
    BY <1>1, <1>3, <1>4, <1>6, <1>7, <1>10, <2>1, AtkeySets
  <2>4. call.how \notin Types
    BY <1>3, <1>4, <1>10 DEF Types
  <2>. QED BY <2>1, <2>2, <2>3, <2>4, OneField
<1>11. ASSUME f \in KeyTexts, CloneKeyText(f) \/ ParseKeyText(f)
       PROVE  Ongoing(f) /\ f \in call.todo
  <2>1. f \in MetadataTexts /\ f \notin MetadataValues /\ f \in call.todo
    BY <1>3, <1>4, <1>11, AtkeyKinds DEF MetadataTexts
  <2>2. PICK t \in Texts : OneOf(f, SetKeyText(mem, o, f, t), mem) /\ Meant(f) = t
    BY <1>3, <1>4, <1>6, <1>7, <1>11, <2>1 DEF CloneKeyText, ParseKeyText
  <2>3. \A n \in SetKeyText(mem, o, f, t) : Sets(mem, n, <<o, f>>, t)
    BY <1>1, <1>3, <1>4, <1>6, <1>7, <1>11, <2>1, AtkeySets
  <2>4. call.how \notin Types
    BY <1>3, <1>4, <1>11 DEF Types
  <2>. QED BY <2>1, <2>2, <2>3, <2>4, OneField
<1>12. ASSUME f \in MetadataValues, CloneValue(f) \/ (f \in Numbers \cup Flags /\ ParseValue(f))
       PROVE  Ongoing(f) /\ f \in call.todo
  <2>1. f \notin MetadataTexts /\ f \in call.todo
    BY <1>3, <1>4, <1>12, AtkeyKinds
  <2>2. PICK w \in Int : mem' = SetValue(mem, o, f, w) /\ Continue(f) /\ Meant(f) = w
    BY <1>3, <1>4, <1>6, <1>7, <1>12, <2>1 DEF CloneValue, ParseValue
  <2>3. Sets(mem, mem', <<o, f>>, w)
    BY <1>1, <1>3, <1>4, <1>6, <1>7, <1>12, <2>2, AtkeySets
  <2>. QED BY <2>1, <2>2, <2>3, OneValue
<1>13. Numbers \cup Flags \subseteq MetadataValues
  BY DEF MetadataValues
<1>. QED BY <1>8, <1>9, <1>10, <1>11, <1>12, <1>13

\* Every step on atkeys is one of the three.
LEMMA AtkeyStep ==
    ASSUME IInv, AtkeyNext
    PROVE  Step
<1>1. ASSUME NEW o \in Atkeys,
             \/ \E f \in MetadataValues : \E v \in ValuesOf(f) : SetMetadataValue(o, f, v)
             \/ \E f \in KeyTexts, t \in Texts : SetMetadataText(o, f, t)
             \/ \E f \in NameTexts, t \in Texts : AtkeySetName(o, f, t)
             \/ \E f \in NameTexts : AtkeyUnsetName(o, f)
             \/ AtkeyFree(o)
      PROVE  Step
  BY <1>1, AtkeyWhole DEF Step
<1>2. ASSUME NEW o \in Atkeys,
             \/ \E type \in Types, t, u \in Texts : Create(o, type, t, u)
             \/ \E p \in Atkeys : Clone(p, o)
             \/ FromJson(o)
      PROVE  Step
  BY <1>2, AtkeyStarts DEF Step
<1>3. ASSUME \/ \E f \in PlaceFlags : CreateFlag(f)
             \/ \E f \in NameTexts : CreateName(f) \/ CloneName(f)
             \/ \E f \in ServerTexts : CloneServerText(f) \/ ParseServerText(f)
             \/ \E f \in MetadataValues : CloneValue(f)
             \/ \E f \in Numbers \cup Flags : ParseValue(f)
             \/ \E f \in KeyTexts : CloneKeyText(f) \/ ParseKeyText(f)
      PROVE  Step
  BY <1>3, AtkeyCallSteps DEF Step
<1>. QED BY <1>1, <1>2, <1>3 DEF AtkeyNext

-----------------------------------------------------------------------------
(* Notifications                                                           *)

\* The slots of a notification.
LEMMA NotificationParts ==
    ASSUME NEW o \in Notifications
    PROVE  /\ \A f \in NotificationTexts : <<o, f>> \in Nullable /\ <<o, f>> \in TextSlots
           /\ <<o, "decrypted_value">> \in LeakySlots /\ <<o, "decrypted_value">> \in TextSlots
           /\ \A f \in NotificationValues : <<o, f>> \in ValueSlots
           /\ {o} \X NotificationFieldNames \in Structures
<1>1. \A f \in NotificationTexts : <<o, f>> \in Nullable /\ <<o, f>> \in TextSlots
  BY Kinds DEF Nullable
<1>2. <<o, "decrypted_value">> \in LeakySlots /\ <<o, "decrypted_value">> \in TextSlots
  BY Kinds DEF LeakySlots
<1>3. \A f \in NotificationValues : <<o, f>> \in ValueSlots
  BY DEF ValueSlots
<1>4. {o} \X NotificationFieldNames = {s \in Slots : s[1] = o}
  <2>1. \A s \in {o} \X NotificationFieldNames : s \in Slots /\ s[1] = o
    BY <1>1, <1>2, <1>3, Kinds DEF NotificationFieldNames
  <2>2. ASSUME NEW s \in Slots, s[1] = o
        PROVE  s \in {o} \X NotificationFieldNames
    <3>1. s \in NotificationSlots
      BY <2>2, Owners, Distinct
    <3>. QED BY <2>2, <3>1 DEF NotificationSlots
  <2>. QED BY <2>1, <2>2
<1>. QED BY <1>1, <1>2, <1>3, <1>4 DEF Structures

\* Every unset function of a notification releases its field and no other; decrypted_value is
\* freed or lost as is_encrypted says.
LEMMA NotificationReleases ==
    ASSUME NEW m, StoreInv(m), NEW o \in Notifications, NEW f \in NotificationFieldNames
    PROVE  /\ Released(m, UnsetNotificationField(m, o, f), {<<o, f>>})
           /\ Released(m, IfHeld(m, o, f), {<<o, f>>})
<1>. DEFINE s == <<o, f>>
<1>1. CASE f = "decrypted_value"
  <2>1. UnsetDecryptedValue(m, o) \in {Unset(m, {s}), Unmarked(Nulled(m, {s}), {s})}
    BY <1>1 DEF UnsetDecryptedValue, NotificationMark, Unset
  <2>2. Released(m, Unset(m, {s}), {s}) /\ Released(m, Unmarked(Nulled(m, {s}), {s}), {s})
    BY <1>1, NotificationParts, UnsetReleases, ForgetReleases
  <2>3. UnsetNotificationField(m, o, f) = UnsetDecryptedValue(m, o)
    BY <1>1, NotificationKinds DEF UnsetNotificationField, NotificationValues
  <2>4. Released(m, UnsetNotificationField(m, o, f), {s})
    BY <2>1, <2>2, <2>3
  <2>. QED BY <2>4, OffReleases DEF IfHeld, NotificationHas
<1>2. CASE f \in NotificationTexts
  <2>1. UnsetNotificationField(m, o, f) = Unset(m, {s})
    BY <1>2, NotificationKinds
    DEF UnsetNotificationField, UnsetNotificationText, NotificationMark, Unset
  <2>2. Released(m, UnsetNotificationField(m, o, f), {s})
    BY <2>1, UnsetReleases
  <2>. QED BY <2>2, OffReleases DEF IfHeld, NotificationHas
<1>3. CASE f \in NotificationValues
  <2>1. UnsetNotificationField(m, o, f) = Unmarked(Nulled(m, {s}), {s})
    BY <1>3, NotificationKinds
    DEF UnsetNotificationField, UnsetNotificationValue, NotificationMark, NotificationValues
  <2>2. Released(m, UnsetNotificationField(m, o, f), {s})
    BY <1>3, <2>1, NotificationParts, ForgetReleases
  <2>. QED BY <2>2, OffReleases DEF IfHeld, NotificationHas
<1>. QED BY <1>1, <1>2, <1>3 DEF NotificationFieldNames

\* Every set function of a notification gives the field its value.
LEMMA NotificationSets ==
    ASSUME NEW m, StoreInv(m), NEW o \in Notifications, NEW f \in NotificationFieldNames
    PROVE  /\ \A v \in Int : f \in NotificationValues =>
                 Sets(m, SetNotificationValue(m, o, f, v), <<o, f>>, v)
           /\ \A t \in Texts : f \notin NotificationValues =>
                 \A n \in SetNotificationText(m, o, f, t) : Sets(m, n, <<o, f>>, t)
           /\ Drops(m, IfHeld(m, o, f), {<<o, f>>})
<1>. DEFINE s == <<o, f>>
<1>1. Released(m, IfHeld(m, o, f), {s})
  BY NotificationReleases
<1>2. ASSUME NEW v \in Int, f \in NotificationValues
      PROVE  Sets(m, SetNotificationValue(m, o, f, v), s, v)
  BY <1>1, <1>2, NotificationParts, RefillValue DEF SetNotificationValue, NotificationMark
<1>3. ASSUME NEW t \in Texts, f \notin NotificationValues
      PROVE  \A n \in SetNotificationText(m, o, f, t) : Sets(m, n, s, t)
  <2>1. s \in TextSlots
    BY <1>3, NotificationParts DEF NotificationFieldNames
  <2>. QED BY <1>1, <2>1, RefillText DEF SetNotificationText, NotificationMark
<1>. QED BY <1>1, <1>2, <1>3, ReleaseDrops

\* The calls on a notification that are one step; decrypted_value that is taken for value is no
\* one's to free, for its bit is not set.
LEMMA NotificationWhole ==
    ASSUME IInv, NEW o \in Notifications
    PROVE  /\ \A f \in NotificationTexts, t \in Texts : NotificationSetText(o, f, t) => Whole
           /\ \A t \in Texts : SetDecryptedValue(o, t) => Whole
           /\ \A f \in NotificationNumbers, v \in 0..EpochMax : NotificationSetValue(o, f, v) => Whole
           /\ \A v \in {0, 1} : NotificationSetValue(o, "is_encrypted", v) => Whole
           /\ \A f \in NotificationFieldNames : NotificationUnset(o, f) => Whole
           /\ DecryptPlain(o) => Whole
           /\ NotificationFree(o) => Whole
<1>1. StoreInv(mem)
  BY DEF IInv
<1>2. \A f \in NotificationFieldNames : <<o, f>> \in Slots
  BY NotificationParts, Kinds DEF NotificationFieldNames
<1>3. ASSUME NEW f \in NotificationTexts \cup {"decrypted_value"}, NEW t \in Texts,
             NoCall /\ Either(SetNotificationText(mem, o, f, t), IfHeld(mem, o, f))
      PROVE  Whole
  <2>1. f \in NotificationFieldNames /\ f \notin NotificationValues
    BY NotificationKinds DEF NotificationFieldNames, NotificationValues
  <2>2. \A n \in SetNotificationText(mem, o, f, t) : Sets(mem, n, <<o, f>>, t)
    BY <1>1, <2>1, NotificationSets
  <2>3. Drops(mem, IfHeld(mem, o, f), {<<o, f>>})
    BY <1>1, <2>1, NotificationSets
  <2>. QED BY <1>2, <1>3, <2>1, <2>2, <2>3, OneSet DEF Shown
<1>4. ASSUME NEW f \in NotificationValues, NEW v \in Int, NotificationSetValue(o, f, v)
      PROVE  Whole
  <2>1. f \in NotificationFieldNames
    BY DEF NotificationFieldNames
  <2>2. Sets(mem, mem', <<o, f>>, v)
    BY <1>1, <1>4, <2>1, NotificationSets DEF NotificationSetValue
  <2>. QED BY <1>2, <1>4, <2>1, <2>2 DEF NotificationSetValue, Whole, NoCall, Shown
<1>5. ASSUME NEW f \in NotificationFieldNames, NotificationUnset(o, f)
      PROVE  Whole
  <2>1. Drops(mem, mem', {<<o, f>>})
    BY <1>1, <1>5, NotificationReleases, ReleaseDrops DEF NotificationUnset
  <2>. QED BY <1>2, <1>5, <2>1 DEF NotificationUnset, Whole, NoCall
<1>6. ASSUME DecryptPlain(o)
      PROVE  Whole
  <2>. DEFINE s == <<o, "decrypted_value">>
              r == <<o, "value">>
  <2>1. /\ mem' = Placed(mem, s, mem.at[r])
        /\ r \in mem.on /\ s \notin mem.on
        /\ call = Idle /\ call' = Idle
    BY <1>6 DEF DecryptPlain, NotificationHas, NoCall
  <2>2. s \in TextSlots /\ s \in Slots
    BY NotificationParts, Kinds
  <2>3. r \in TextSlots
    BY NotificationKinds, NotificationParts
  <2>4. mem.at[r] \in DOMAIN mem.heap \cup {NULL}
    BY <1>1, <2>3 DEF StoreInv, TextOK
  <2>5. Drops(mem, mem', {})
    BY <1>1, <2>1, <2>2, <2>4, PlaceOnly DEF Drops
  <2>6. Drops(mem, mem', {s})
    BY <2>1, <2>2, <2>5 DEF Drops, Dropped, Kept
  <2>. QED BY <2>1, <2>2, <2>6 DEF Whole
<1>7. ASSUME NotificationFree(o)
      PROVE  Whole
  <2>. DEFINE u == UnsetDecryptedValue(mem, o)
              R == {o} \X (NotificationFieldNames \ {"decrypted_value"})
              n == Unset(u, R)
  <2>1. u = UnsetNotificationField(mem, o, "decrypted_value")
    BY NotificationKinds DEF UnsetNotificationField, NotificationValues
  <2>2. Drops(mem, u, {<<o, "decrypted_value">>})
    BY <1>1, <2>1, NotificationReleases, ReleaseDrops DEF NotificationFieldNames
  <2>3. Drops(u, n, R)
    BY <2>2, UnsetDrops DEF Drops
  <2>4. mem' = n /\ call = Idle /\ call' = Idle
    BY <1>7 DEF NotificationFree, NotificationFreed, NoCall
  <2>5. {<<o, "decrypted_value">>} \cup R = {o} \X NotificationFieldNames
    BY DEF NotificationFieldNames
  <2>. HIDE DEF u, n, R
  <2>6. Drops(mem, n, {o} \X NotificationFieldNames)
    BY <2>2, <2>3, <2>5, DropsTwice
  <2>. QED BY <2>4, <2>6, NotificationParts DEF Whole
<1>8. NotificationNumbers \subseteq NotificationValues /\ "is_encrypted" \in NotificationValues
  BY DEF NotificationValues
<1>9. 0..EpochMax \subseteq Int
  BY EpochMaxIsNumber
<1>10. \A f \in NotificationTexts, t \in Texts : NotificationSetText(o, f, t) => Whole
  BY <1>3 DEF NotificationSetText
<1>11. \A t \in Texts : SetDecryptedValue(o, t) => Whole
  BY <1>3 DEF SetDecryptedValue
<1>. QED BY <1>4, <1>5, <1>6, <1>7, <1>8, <1>9, <1>10, <1>11

\* Parsing a notification begins as it should.
LEMMA NotificationStarts ==
    ASSUME IInv, NEW o \in Notifications, NotificationFromJson(o)
    PROVE  Starting
<1>1. NoCall /\ mem' = mem /\ \E doc \in NotificationDocs : Begin("notification", o, doc)
  BY DEF NotificationFromJson
<1>2. PICK doc \in NotificationDocs : Begin("notification", o, doc)
  BY <1>1
<1>. DEFINE c == [how |-> "notification", to |-> o, todo |-> DOMAIN doc, doc |-> doc]
<1>3. ASSUME NEW f \in DOMAIN doc
      PROVE  f \in NotificationTexts \cup NotificationValues /\ doc[f] \in Fits("notification", f)
  <2>1. CASE \E S \in SUBSET NotificationTexts : doc \in [S -> Texts \cup {NULL, WrongType}]
    BY <2>1 DEF Fits, Types
  <2>2. CASE \E g \in NotificationNumbers : doc \in [{g} -> (0..EpochMax + 1) \cup {WrongType}]
    <3>1. f \in NotificationNumbers /\ doc[f] \in Int \cup {WrongType}
      BY <2>2, EpochMaxIsNumber
    <3>. QED BY <3>1, NotificationKinds DEF Fits, Types, NotificationValues
  <2>3. CASE doc \in [{"is_encrypted"} -> {0, 1, WrongType}]
    BY <2>3, NotificationKinds DEF Fits, Types, NotificationValues
  <2>. QED BY <2>1, <2>2, <2>3 DEF NotificationDocs
<1>4. \A f \in NotificationTexts \cup NotificationValues : <<o, f>> \in Slots
  BY NotificationParts, Kinds
<1>5. /\ "notification" \in Calls /\ OwnersFor("notification") = Notifications
      /\ "notification" \notin Types
  BY DEF Calls, OwnersFor, AtkeyCalls, Types
<1>6. CallTyped(c)
  BY <1>3, <1>4, <1>5 DEF CallTyped
<1>. QED BY <1>1, <1>2, <1>6, Begins

\* The fields of a notification's JSON, one at a time: null is an initialized NULL, a wrong type
\* ends the call.
LEMMA NotificationCallSteps ==
    ASSUME IInv, NEW f
    PROVE  /\ ReadWrongType(f) => Ongoing(f) /\ f \in call.todo
           /\ f \in NotificationTexts /\ (ReadNotificationText(f) \/ ReadNotificationNull(f)) =>
                 Ongoing(f) /\ f \in call.todo
           /\ f \in NotificationNumbers /\ ReadNotificationNumber(f) => Ongoing(f) /\ f \in call.todo
           /\ f = "is_encrypted" /\ ReadNotificationFlag(f) => Ongoing(f) /\ f \in call.todo
<1>. DEFINE o == call.to
            v == call.doc[f]
<1>1. StoreInv(mem)
  BY DEF IInv
<1>2. ReadWrongType(f) \/ ReadNotificationText(f) \/ ReadNotificationNull(f)
         \/ ReadNotificationNumber(f) \/ ReadNotificationFlag(f) =>
      call.how = "notification" /\ f \in call.todo
  BY DEF ReadWrongType, ReadNotificationText, ReadNotificationNull, ReadNotificationNumber,
         ReadNotificationFlag, Reading, InTurn
<1>3. ASSUME f \in call.todo, call.how = "notification"
      PROVE  /\ o \in Notifications
             /\ f \in NotificationTexts => v \in Texts \cup {NULL, WrongType}
             /\ f \notin NotificationTexts => v \in Int \cup {WrongType}
  <2>1. /\ "notification" \notin Types \cup {"clone", "json"}
        /\ OwnersFor("notification") = Notifications
    BY DEF OwnersFor, AtkeyCalls, Types
  <2>. QED BY <1>3, <2>1, UnderWay DEF CallTyped, Fits
<1>4. f \in NotificationTexts => f \notin NotificationValues /\ f \in NotificationFieldNames
  BY NotificationKinds DEF NotificationFieldNames
<1>5. ReadWrongType(f) => Ongoing(f) /\ f \in call.todo
  BY <1>2 DEF ReadWrongType, Ongoing, Abort, Types
<1>6. ASSUME f \in NotificationTexts, ReadNotificationText(f)
      PROVE  Ongoing(f) /\ f \in call.todo
  <2>1. v \in Texts /\ OneOf(f, SetNotificationText(mem, o, f, v), IfHeld(mem, o, f))
    BY <1>6 DEF ReadNotificationText
  <2>2. f \in call.todo /\ o \in Notifications
    BY <1>2, <1>3, <1>6
  <2>3. Meant(f) = v
    <3>1. f \notin NotificationNumbers
      BY <1>4, <1>6 DEF NotificationValues
    <3>. QED BY <1>2, <1>6, <3>1 DEF Meant
  <2>4. \A n \in SetNotificationText(mem, o, f, v) : Sets(mem, n, <<o, f>>, v)
    BY <1>1, <1>4, <1>6, <2>1, <2>2, NotificationSets
  <2>5. Drops(mem, IfHeld(mem, o, f), {<<o, f>>})
    BY <1>1, <1>4, <1>6, <2>2, NotificationSets
  <2>. HIDE DEF v
  <2>. QED BY <2>1, <2>2, <2>3, <2>4, <2>5, OneField
<1>7. ASSUME f \in NotificationTexts, ReadNotificationNull(f)
      PROVE  Ongoing(f) /\ f \in call.todo
  <2>. DEFINE s == <<o, f>>
              u == Unset(mem, {s})
              n == Marked(u, {s})
  <2>1. v = NULL /\ Continue(f) /\ f \in call.todo /\ o \in Notifications
    BY <1>2, <1>3, <1>7 DEF ReadNotificationNull
  <2>2. mem' = n
    BY <1>7 DEF ReadNotificationNull, UnsetNotificationText, NotificationMark, Unset
  <2>3. s \in Nullable /\ s \in Slots
    BY <1>7, <2>1, NotificationParts, Kinds
  <2>4. Drops(mem, u, {s}) /\ s \notin u.on
    BY <1>1, UnsetDrops, UnsetReleases DEF Released
  <2>5. u.at[s] = NULL
    <3>. DEFINE x == Freed(mem, {s})
                y == Nulled(x, {s})
    <3>1. Record(mem) /\ s \in DOMAIN mem.at
      BY <1>1, <2>3 DEF StoreInv, Memory, Record
    <3>2. Record(x) /\ x.at = mem.at
      BY <3>1, FreedIs
    <3>. HIDE DEF x
    <3>3. Record(y) /\ y.at[s] = NULL
      BY <3>1, <3>2, NulledIs
    <3>. HIDE DEF y
    <3>4. Unmarked(y, {s}).at = y.at
      BY <3>3, UnmarkedIs
    <3>5. u = Unmarked(y, {s})
      BY DEF u, Unset, x, y
    <3>. QED BY <3>3, <3>4, <3>5
  <2>. HIDE DEF u
  <2>6. Sets(u, n, s, NULL)
    BY <2>3, <2>4, <2>5, MarkNull DEF Sets, Drops
  <2>. HIDE DEF n
  <2>7. Sets(mem, n, s, NULL)
    BY <2>4, <2>6, DropThenSet
  <2>8. Meant(f) = NULL
    <3>1. f \notin NotificationNumbers
      BY <1>4, <1>7 DEF NotificationValues
    <3>. QED BY <1>2, <1>7, <2>1, <3>1 DEF Meant
  <2>. QED BY <2>1, <2>2, <2>7, <2>8, OneValue
<1>8. ASSUME f \in NotificationValues,
             \/ f \in NotificationNumbers /\ ReadNotificationNumber(f)
             \/ f = "is_encrypted" /\ ReadNotificationFlag(f)
      PROVE  Ongoing(f) /\ f \in call.todo
  <2>1. /\ call.how = "notification" /\ f \in call.todo /\ o \in Notifications
        /\ v # WrongType /\ v \in Int /\ Continue(f)
    BY <1>2, <1>3, <1>8, NotificationKinds DEF ReadNotificationNumber, ReadNotificationFlag
  <2>2. PICK w \in Int : mem' = SetNotificationValue(mem, o, f, w) /\ Meant(f) = w
    <3>1. CASE f \in NotificationNumbers
      <4>1. f # "is_encrypted"
        BY <3>1, NotificationKinds
      <4>2. mem' = SetNotificationValue(mem, o, f, IF v > EpochMax THEN EpochMax ELSE v)
        BY <1>8, <4>1 DEF ReadNotificationNumber
      <4>. QED BY <2>1, <3>1, <4>2, EpochMaxIsNumber, MeantByNotification
    <3>2. CASE f \notin NotificationNumbers
      <4>1. mem' = SetNotificationValue(mem, o, f, v)
        BY <1>8, <3>2 DEF ReadNotificationFlag
      <4>. QED BY <2>1, <3>2, <4>1, MeantByNotification
    <3>. QED BY <3>1, <3>2
  <2>3. Sets(mem, mem', <<o, f>>, w)
    BY <1>1, <1>8, <2>1, <2>2, NotificationSets DEF NotificationFieldNames
  <2>. QED BY <2>1, <2>2, <2>3, OneValue
<1>. QED BY <1>5, <1>6, <1>7, <1>8 DEF NotificationValues

\* Every step on notifications is one of the three.
LEMMA NotificationStep ==
    ASSUME IInv, NotificationNext
    PROVE  Step
<1>1. ASSUME NEW n \in Notifications,
             \/ \E f \in NotificationTexts, t \in Texts : NotificationSetText(n, f, t)
             \/ \E t \in Texts : SetDecryptedValue(n, t)
             \/ \E f \in NotificationNumbers, v \in 0..EpochMax : NotificationSetValue(n, f, v)
             \/ \E v \in {0, 1} : NotificationSetValue(n, "is_encrypted", v)
             \/ \E f \in NotificationFieldNames : NotificationUnset(n, f)
             \/ DecryptPlain(n)
             \/ NotificationFree(n)
      PROVE  Step
  BY <1>1, NotificationWhole DEF Step
<1>2. ASSUME NEW n \in Notifications, NotificationFromJson(n)
      PROVE  Step
  BY <1>2, NotificationStarts DEF Step
<1>3. ASSUME \/ \E f \in NotificationTexts \cup NotificationValues : ReadWrongType(f)
             \/ \E f \in NotificationTexts : ReadNotificationText(f) \/ ReadNotificationNull(f)
             \/ \E f \in NotificationNumbers : ReadNotificationNumber(f)
             \/ ReadNotificationFlag("is_encrypted")
      PROVE  Step
  BY <1>3, NotificationCallSteps DEF Step
<1>. QED BY <1>1, <1>2, <1>3 DEF NotificationNext

-----------------------------------------------------------------------------
(* Notify parameters                                                       *)

\* The slots of notify parameters.
LEMMA ParamParts ==
    ASSUME NEW p \in Params
    PROVE  /\ \A f \in ParamTexts : <<p, f>> \in TextSlots
           /\ <<p, "id">> \in LeakySlots /\ <<p, "atkey">> \in LeakySlots
           /\ \A f \in ParamValues : <<p, f>> \in ValueSlots
           /\ {p} \X (ParamTexts \cup ParamValues) \in Structures
<1>1. \A f \in ParamTexts : <<p, f>> \in TextSlots
  BY DEF TextSlots
<1>2. <<p, "id">> \in LeakySlots /\ <<p, "atkey">> \in LeakySlots
  BY DEF LeakySlots
<1>3. \A f \in ParamValues : <<p, f>> \in ValueSlots
  BY DEF ValueSlots
<1>4. {p} \X (ParamTexts \cup ParamValues) = {s \in Slots : s[1] = p}
  <2>1. \A s \in {p} \X (ParamTexts \cup ParamValues) : s \in Slots /\ s[1] = p
    BY <1>1, <1>3, Kinds
  <2>2. ASSUME NEW s \in Slots, s[1] = p
        PROVE  s \in {p} \X (ParamTexts \cup ParamValues)
    <3>1. s \in ParamSlots
      BY <2>2, Owners, Distinct
    <3>. QED BY <2>2, <3>1 DEF ParamSlots
  <2>. QED BY <2>1, <2>2
<1>. QED BY <1>1, <1>2, <1>3, <1>4 DEF Structures

\* Unsetting a notify parameter releases it, and so does a setter whose malloc failed.
LEMMA ParamReleases ==
    ASSUME NEW m, StoreInv(m), NEW p \in Params, NEW f \in ParamTexts \cup ParamValues
    PROVE  /\ Released(m, UnsetParam(m, p, f), {<<p, f>>})
           /\ Released(m, IfParamHeld(m, p, f), {<<p, f>>})
           /\ Drops(m, MallocFailed(m, p, f), {<<p, f>>})
<1>. DEFINE s == <<p, f>>
            u == IfParamHeld(m, p, f)
            n == Nulled(u, {s})
<1>1. Released(m, UnsetParam(m, p, f), {s})
  <2>1. CASE f \in ParamTexts
    BY <2>1, UnsetReleases DEF UnsetParam, ParamMark, Unset
  <2>2. CASE f \in ParamValues
    <3>1. f \notin ParamTexts
      BY <2>2, ParamKinds
    <3>. QED BY <2>2, <3>1, ParamParts, ForgetReleases DEF UnsetParam, ParamMark
  <2>. QED BY <2>1, <2>2
<1>2. Released(m, u, {s})
  BY <1>1, OffReleases DEF IfParamHeld, ParamHas
<1>. HIDE DEF u
<1>3. Drops(m, u, {s}) /\ s \notin u.on
  BY <1>2, ReleaseDrops DEF Released
<1>4. Drops(u, n, {s})
  BY <1>3, OffReleases, ReleaseDrops DEF Drops
<1>. HIDE DEF n
<1>5. Drops(m, n, {s} \cup {s})
  BY <1>3, <1>4, DropsTwice
<1>. QED BY <1>1, <1>2, <1>5 DEF n, u, MallocFailed

\* Every step on notify parameters is a call of its own.  The text that set_id stores without its
\* bit, and the atkey whose clone failed, are not seen.
LEMMA ParamStep ==
    ASSUME IInv, ParamNext
    PROVE  Step
<1>1. StoreInv(mem)
  BY DEF IInv
<1>2. PICK p \in Params :
         \/ \E t \in Texts : ParamSetId(p, t) \/ ParamSetAtkey(p, t)
         \/ \E f \in ParamTexts \ {"id", "atkey"}, t \in Texts : ParamSetText(p, f, t)
         \/ \E f \in ParamValues, v \in 0..ParamMax : ParamSetValue(p, f, v)
         \/ \E f \in ParamTexts \cup ParamValues : ParamUnset(p, f)
         \/ ParamsFree(p)
  BY DEF ParamNext
<1>3. \A f \in ParamTexts \cup ParamValues : <<p, f>> \in Slots
  BY ParamParts, Kinds
<1>4. "id" \in ParamTexts /\ "atkey" \in ParamTexts
  BY ParamKinds
\* setting a text, with and without its bit
<1>5. ASSUME NEW f \in ParamTexts, NEW t \in Texts, NEW u, Released(mem, u, {<<p, f>>}),
             NEW b \in Spare(u)
      PROVE  Sets(mem, ParamMark(Pointed(u, <<p, f>>, b, t), p, f, TRUE), <<p, f>>, t)
  BY <1>1, <1>5, ParamParts, RefillText DEF ParamMark
<1>6. ASSUME NEW f \in {"id", "atkey"}, NEW t \in Texts, NEW u, Released(mem, u, {<<p, f>>}),
             NEW b \in Spare(u)
      PROVE  Drops(mem, Pointed(u, <<p, f>>, b, t), {<<p, f>>})
  BY <1>1, <1>6, ParamParts, RefillLost
<1>7. \A f \in ParamTexts : Released(mem, IfParamHeld(mem, p, f), {<<p, f>>})
  BY <1>1, ParamReleases
<1>8. \A f \in ParamTexts : Drops(mem, MallocFailed(mem, p, f), {<<p, f>>})
  BY <1>1, ParamReleases
<1>9. ASSUME NEW t \in Texts, ParamSetId(p, t)
      PROVE  Whole
  <2>1. \A n \in SetParamId(mem, p, t) : Drops(mem, n, {<<p, "id">>})
    BY <1>4, <1>6, <1>7 DEF SetParamId
  <2>. QED BY <1>3, <1>4, <1>8, <1>9, <2>1, OneSet DEF ParamSetId, Shown
<1>10. ASSUME NEW t \in Texts, ParamSetAtkey(p, t)
       PROVE  Whole
  <2>. DEFINE s == <<p, "atkey">>
              u == IfParamHeld(mem, p, "atkey")
  <2>1. \A b \in Spare(u) : Drops(mem, Pointed(u, s, b, t), {s})
    BY <1>4, <1>6, <1>7
  <2>2. \A b \in Spare(u) : Sets(mem, ParamMark(Pointed(u, s, b, t), p, "atkey", TRUE), s, t)
    BY <1>4, <1>5, <1>7
  <2>3. \A n \in SetParamAtkey(mem, p, t) : Sets(mem, n, s, t) \/ Drops(mem, n, {s})
    BY <2>1, <2>2 DEF SetParamAtkey
  <2>. QED BY <1>3, <1>4, <1>8, <1>10, <2>3, OneSet DEF ParamSetAtkey, Shown
<1>11. ASSUME NEW f \in ParamTexts, NEW t \in Texts, ParamSetText(p, f, t)
       PROVE  Whole
  <2>1. \A n \in SetParamText(mem, p, f, t) : Sets(mem, n, <<p, f>>, t)
    BY <1>5, <1>7 DEF SetParamText
  <2>. QED BY <1>3, <1>8, <1>11, <2>1, OneSet DEF ParamSetText, Shown
<1>12. ASSUME NEW f \in ParamValues, NEW v \in 0..ParamMax, ParamSetValue(p, f, v)
       PROVE  Whole
  <2>1. v \in Int
    BY ParamMaxIsNumber
  <2>2. Sets(mem, mem', <<p, f>>, v)
    BY <1>1, <1>12, <2>1, ParamParts, SetInPlace DEF ParamSetValue, SetParamValue, ParamMark
  <2>. QED BY <1>3, <1>12, <2>1, <2>2 DEF ParamSetValue, Whole, NoCall, Shown
<1>13. ASSUME NEW f \in ParamTexts \cup ParamValues, ParamUnset(p, f)
       PROVE  Whole
  <2>1. Drops(mem, mem', {<<p, f>>})
    BY <1>1, <1>13, ParamReleases, ReleaseDrops DEF ParamUnset
  <2>. QED BY <1>3, <1>13, <2>1 DEF ParamUnset, Whole, NoCall
<1>14. ASSUME ParamsFree(p)
       PROVE  Whole
  <2>1. Drops(mem, mem', {p} \X (ParamTexts \cup ParamValues))
    BY <1>1, <1>14, UnsetDrops DEF ParamsFree
  <2>. QED BY <1>14, <2>1, ParamParts DEF ParamsFree, Whole, NoCall
<1>. QED BY <1>2, <1>9, <1>10, <1>11, <1>12, <1>13, <1>14 DEF Step

-----------------------------------------------------------------------------
(* Request options                                                         *)

\* The slots of request options.
LEMMA OptionKinds ==
    /\ TextOptions \cup HostOptions \subseteq TextSlots
    /\ FlagOptions \cup PortOptions \subseteq ValueSlots
    /\ OptionSlots \subseteq Slots
BY DEF TextSlots, ValueSlots, Slots, OptionSlots

\* The options of one request are freed together.
LEMMA OptionParts ==
    ASSUME NEW o \in Requests
    PROVE  OptionsOf(o) \in Structures
<1>1. OptionsOf(o) = {s \in Slots : s[1] = o}
  <2>1. \A s \in OptionsOf(o) : s \in Slots /\ s[1] = o
    BY OptionKinds DEF OptionsOf
  <2>2. ASSUME NEW s \in Slots, s[1] = o
        PROVE  s \in OptionsOf(o)
    BY <2>2, Owners, Distinct DEF OptionsOf
  <2>. QED BY <2>1, <2>2 DEF OptionsOf
<1>. QED BY <1>1 DEF Structures

\* what the functions of all requests come to
LEMMA OptionWhole ==
    ASSUME IInv
    PROVE  /\ \A s \in TextOptions \cup HostOptions, t \in Texts :
                 /\ NoCall /\ Either(SetOptionText(mem, s, t), IfOptionHeld(mem, s)) => Whole
                 /\ NoCall /\ Either(SetHost(mem, s, t), mem) => Whole
           /\ \A s \in OptionSlots : Done(UnsetOption(mem, s)) => Whole
           /\ \A s \in FlagOptions \cup PortOptions, v \in {0, 1} :
                 /\ Done(SetOptionFlag(mem, s, v)) => Whole
                 /\ Done(Marked(Placed(mem, s, v), {s})) => Whole
           /\ \A o \in Requests : Done(Unset(mem, OptionsOf(o))) => Whole
<1>1. StoreInv(mem)
  BY DEF IInv
<1>2. ASSUME NEW s
      PROVE  /\ Released(mem, UnsetOption(mem, s), {s})
             /\ Released(mem, IfOptionHeld(mem, s), {s})
             /\ Released(mem, UnsetHost(mem, s), {s})
  <2>1. UnsetOption(mem, s) = Unset(mem, {s}) /\ UnsetHost(mem, s) = Unset(mem, {s})
    BY DEF UnsetOption, UnsetHost, Unset
  <2>. QED BY <1>1, <2>1, UnsetReleases, OffReleases DEF IfOptionHeld
<1>3. ASSUME NEW s \in TextOptions \cup HostOptions, NEW t \in Texts,
             NoCall /\ Either(SetOptionText(mem, s, t), IfOptionHeld(mem, s))
      PROVE  Whole
  <2>1. s \in TextSlots /\ s \in Slots
    BY OptionKinds, Kinds
  <2>2. \A n \in SetOptionText(mem, s, t) : Sets(mem, n, s, t)
    BY <1>1, <1>2, <2>1, RefillText DEF SetOptionText
  <2>3. Drops(mem, IfOptionHeld(mem, s), {s})
    BY <1>1, <1>2, ReleaseDrops
  <2>. QED BY <1>3, <2>1, <2>2, <2>3, OneSet DEF Shown
<1>4. ASSUME NEW s \in TextOptions \cup HostOptions, NEW t \in Texts,
             NoCall /\ Either(SetHost(mem, s, t), mem)
      PROVE  Whole
  <2>1. s \in TextSlots /\ s \in Slots
    BY OptionKinds, Kinds
  <2>2. \A n \in SetHost(mem, s, t) : Sets(mem, n, s, t)
    BY <1>1, <1>2, <2>1, RefillText DEF SetHost
  <2>. QED BY <1>4, <2>1, <2>2, OneSet DEF Shown
<1>5. ASSUME NEW s \in OptionSlots, Done(UnsetOption(mem, s))
      PROVE  Whole
  <2>1. Drops(mem, mem', {s}) /\ s \in Slots
    BY <1>1, <1>2, <1>5, ReleaseDrops, OptionKinds DEF Done
  <2>. QED BY <1>5, <2>1 DEF Done, Whole, NoCall
<1>6. ASSUME NEW s \in FlagOptions \cup PortOptions, NEW v \in {0, 1},
             Done(SetOptionFlag(mem, s, v)) \/ Done(Marked(Placed(mem, s, v), {s}))
      PROVE  Whole
  <2>1. s \in ValueSlots /\ s \in Slots
    BY OptionKinds, Kinds
  <2>2. Sets(mem, mem', s, v)
    BY <1>1, <1>2, <1>6, <2>1, RefillValue, SetInPlace DEF Done, SetOptionFlag
  <2>. QED BY <1>6, <2>1, <2>2 DEF Done, Whole, NoCall, Shown
<1>7. ASSUME NEW o \in Requests, Done(Unset(mem, OptionsOf(o)))
      PROVE  Whole
  <2>1. Drops(mem, mem', OptionsOf(o))
    BY <1>1, <1>7, UnsetDrops DEF Done
  <2>. QED BY <1>7, <2>1, OptionParts DEF Done, Whole, NoCall
<1>. QED BY <1>3, <1>4, <1>5, <1>6, <1>7

\* Every step on request options is a call of its own.
LEMMA OptionStep ==
    ASSUME IInv, NEW o \in Requests, OptionNext(o)
    PROVE  Step
<1>. USE OptionWhole DEF OptionSlots, Requests
<1>1. ASSUME NEW f \in PutSharedTexts,
             (\E t \in Texts : PutSharedSet(f, t)) \/ PutSharedUnset(f)
      PROVE  Whole
  <2>1. <<PutShared, f>> \in TextOptions
    BY DEF TextOptions
  <2>. QED BY <1>1, <2>1 DEF PutSharedSet, PutSharedUnset
<1>2. ASSUME (\E v \in {0, 1} : GetSelfSet(v)) \/ GetSelfUnset
      PROVE  Whole
  <2>1. <<GetSelf, "store_atkey_metadata">> \in FlagOptions
    BY DEF FlagOptions
  <2>. QED BY <1>2, <2>1 DEF GetSelfSet, GetSelfUnset
<1>3. ASSUME NEW f \in GetSharedTexts,
             (\E t \in Texts : GetSharedSet(f, t)) \/ GetSharedUnset(f)
      PROVE  Whole
  <2>1. <<GetShared, f>> \in TextOptions
    BY DEF TextOptions
  <2>. QED BY <1>3, <2>1 DEF GetSharedSet, GetSharedUnset
<1>4. ASSUME NEW f \in CacheFlags,
             \/ \E v \in {0, 1} : GetSharedSetFlag(f, v) \/ GetPublicSet(f, v)
             \/ GetSharedUnsetFlag(f) \/ GetPublicUnset(f)
      PROVE  Whole
  <2>1. <<GetShared, f>> \in FlagOptions /\ <<GetPublic, f>> \in FlagOptions
    BY DEF FlagOptions
  <2>. QED BY <1>4, <2>1 DEF GetSharedSetFlag, GetPublicSet, GetSharedUnsetFlag, GetPublicUnset
<1>5. ASSUME (\E v \in {0, 1} : DeleteSet(v)) \/ DeleteUnset
      PROVE  Whole
  <2>1. <<Delete, "skip_shared_by_check">> \in FlagOptions
    BY DEF FlagOptions
  <2>. QED BY <1>5, <2>1 DEF DeleteSet, DeleteUnset
<1>6. ASSUME (\E t \in Texts : GetAtkeysSetRegex(t)) \/ GetAtkeysUnsetRegex
      PROVE  Whole
  <2>1. <<GetAtkeys, "regex">> \in TextOptions
    BY DEF TextOptions
  <2>. QED BY <1>6, <2>1 DEF GetAtkeysSetRegex, GetAtkeysUnsetRegex
<1>7. ASSUME (\E v \in {0, 1} : GetAtkeysSetHidden(v)) \/ GetAtkeysUnsetHidden
      PROVE  Whole
  <2>1. <<GetAtkeys, "show_hidden">> \in FlagOptions
    BY DEF FlagOptions
  <2>. QED BY <1>7, <2>1 DEF GetAtkeysSetHidden, GetAtkeysUnsetHidden
<1>8. ASSUME NEW f \in HostTexts, (\E t \in Texts : AuthenticateSetHost(f, t)) \/ AuthenticateUnset(f)
      PROVE  Whole
  <2>1. <<Authenticate, f>> \in HostOptions
    BY DEF HostOptions
  <2>. QED BY <1>8, <2>1 DEF AuthenticateSetHost, AuthenticateUnset, UnsetHost, UnsetOption
<1>9. ASSUME NEW f \in Ports, (\E v \in {0, 1} : AuthenticateSetPort(f, v)) \/ AuthenticateUnset(f)
      PROVE  Whole
  <2>1. <<Authenticate, f>> \in PortOptions
    BY DEF PortOptions
  <2>. QED BY <1>9, <2>1 DEF AuthenticateSetPort, AuthenticateUnset, UnsetHost, UnsetOption
<1>10. PutSharedFree \/ GetSharedFree \/ GetPublicFree \/ GetAtkeysFree \/ AuthenticateFree => Whole
  BY DEF PutSharedFree, GetSharedFree, GetPublicFree, GetAtkeysFree, AuthenticateFree
<1>11. Whole
  BY <1>1, <1>2, <1>3, <1>4, <1>5, <1>6, <1>7, <1>8, <1>9, <1>10 DEF OptionNext
<1>. QED BY <1>11 DEF Step

-----------------------------------------------------------------------------
(* atKeys                                                                  *)

\* The slots of atKeys.
LEMMA KeyParts ==
    ASSUME NEW k \in KeySets
    PROVE  /\ \A f \in Base64Texts \cup OptionalTexts \cup RsaNumbers : <<k, f>> \in TextSlots \ Nullable
           /\ \A f \in Base64Texts : {k} \X NumbersOf(f) \in Structures
           /\ ({k} \X RsaNumbers) \cup ({k} \X (Base64Texts \cup OptionalTexts)) \in Structures
<1>. DEFINE all == ({k} \X RsaNumbers) \cup ({k} \X (Base64Texts \cup OptionalTexts))
<1>1. \A f \in Base64Texts \cup OptionalTexts \cup RsaNumbers : <<k, f>> \in TextSlots \ Nullable
  BY Distinct DEF TextSlots, KeySlots, Nullable
<1>2. \A f \in Base64Texts : {k} \X NumbersOf(f) \in Structures
  BY DEF Structures
<1>3. all = {s \in Slots : s[1] = k}
  <2>1. \A s \in all : s \in Slots /\ s[1] = k
    BY <1>1, Kinds
  <2>2. ASSUME NEW s \in Slots, s[1] = k
        PROVE  s \in all
    <3>1. s \in KeySlots
      BY <2>2, Owners, Distinct
    <3>. QED BY <2>2, <3>1 DEF KeySlots
  <2>. QED BY <2>1, <2>2
<1>4. all \in Structures
  BY <1>3 DEF Structures
<1>. QED BY <1>1, <1>2, <1>4

\* Setting a base64 text or an RSA number, and what is left when its malloc fails.
LEMMA KeySettings ==
    ASSUME NEW m, StoreInv(m), NEW k \in KeySets,
           NEW f \in Base64Texts \cup OptionalTexts \cup RsaNumbers
    PROVE  /\ \A t \in Texts : \A n \in SetRsa(m, k, f, t) : Sets(m, n, <<k, f>>, t)
           /\ Drops(m, IfRsaHeld(m, k, f), {<<k, f>>})
           /\ \A t \in Texts : \A n \in SetBase64(m, k, f, t) : Sets(m, n, <<k, f>>, t)
           /\ Drops(m, IfBase64Held(m, k, f), {<<k, f>>})
<1>1. UnsetRsa(m, k, f) = Unset(m, {<<k, f>>}) /\ UnsetBase64(m, k, f) = Unset(m, {<<k, f>>})
  BY DEF UnsetRsa, UnsetBase64, KeyMark, Unset
<1>2. /\ Released(m, IfRsaHeld(m, k, f), {<<k, f>>})
      /\ Released(m, IfBase64Held(m, k, f), {<<k, f>>})
  BY <1>1, UnsetReleases, OffReleases DEF IfRsaHeld, IfBase64Held, RsaHas, KeyHas
<1>3. <<k, f>> \in TextSlots
  BY KeyParts
<1>4. \A t \in Texts : \A n \in SetRsa(m, k, f, t) : Sets(m, n, <<k, f>>, t)
  BY <1>2, <1>3, RefillText DEF SetRsa
<1>5. \A t \in Texts : \A n \in SetBase64(m, k, f, t) : Sets(m, n, <<k, f>>, t)
  BY <1>2, <1>3, RefillText DEF SetBase64, KeyMark
<1>. QED BY <1>2, <1>4, <1>5, ReleaseDrops

\* Populating and cloning keys begin as they should: a number the source has not is NULL.
LEMMA KeyStarts ==
    ASSUME IInv, NEW k \in KeySets
    PROVE  /\ \A f \in Base64Texts, t \in Texts : RsaPopulate(k, f, t) => Starting
           /\ \A f \in Base64Texts, j \in KeySets : RsaClone(j, k, f) => Starting
           /\ \A t \in Texts : PopulateFromFile(k, t) => Starting
<1>1. /\ {"rsa", "populate"} \subseteq Calls
      /\ OwnersFor("rsa") = KeySets /\ OwnersFor("populate") = KeySets
      /\ "rsa" \notin Types /\ "populate" \notin Types
  BY DEF Calls, OwnersFor, AtkeyCalls, Types
<1>2. \A f : NumbersOf(f) \subseteq RsaNumbers
  BY DEF NumbersOf
<1>3. \A f \in Base64Texts \cup OptionalTexts \cup RsaNumbers : <<k, f>> \in Slots
  BY KeyParts, Kinds
<1>4. \A f : Fits("rsa", f) = Texts \cup {NULL} /\ Fits("populate", f) = Texts
  BY DEF Fits, Types
<1>5. ASSUME NEW doc, DOMAIN doc \subseteq RsaNumbers,
             \A g \in DOMAIN doc : doc[g] \in Texts \cup {NULL},
             NoCall, mem' = mem, Begin("rsa", k, doc)
      PROVE  Starting
  <2>. DEFINE c == [how |-> "rsa", to |-> k, todo |-> DOMAIN doc, doc |-> doc]
  <2>1. CallTyped(c)
    BY <1>1, <1>3, <1>4, <1>5 DEF CallTyped
  <2>. QED BY <1>5, <2>1, Begins
<1>6. ASSUME NEW f \in Base64Texts, NEW t \in Texts, RsaPopulate(k, f, t)
      PROVE  Starting
  <2>. DEFINE doc == [g \in NumbersOf(f) |-> t]
  <2>1. NoCall /\ mem' = mem /\ Begin("rsa", k, doc)
    BY <1>6 DEF RsaPopulate
  <2>2. DOMAIN doc \subseteq RsaNumbers /\ \A g \in DOMAIN doc : doc[g] \in Texts \cup {NULL}
    BY <1>2
  <2>. HIDE DEF doc
  <2>. QED BY <1>5, <2>1, <2>2
<1>7. ASSUME NEW f \in Base64Texts, NEW j \in KeySets, RsaClone(j, k, f)
      PROVE  Starting
  <2>. DEFINE doc == [g \in NumbersOf(f) |->
                        IF RsaHas(mem, j, g) THEN Value(mem, <<j, g>>) ELSE NULL]
  <2>1. NoCall /\ mem' = mem /\ Begin("rsa", k, doc)
    BY <1>7 DEF RsaClone
  <2>2. \A g \in RsaNumbers : RsaHas(mem, j, g) => Value(mem, <<j, g>>) \in Texts
    BY KeyParts, HeldText DEF IInv, RsaHas
  <2>3. DOMAIN doc \subseteq RsaNumbers /\ \A g \in DOMAIN doc : doc[g] \in Texts \cup {NULL}
    BY <1>2, <2>2
  <2>. HIDE DEF doc
  <2>. QED BY <1>5, <2>1, <2>3
<1>8. ASSUME NEW t \in Texts, PopulateFromFile(k, t)
      PROVE  Starting
  <2>. DEFINE doc(optional) == [f \in Base64Texts \cup RsaNumbers \cup optional |-> t]
  <2>1. /\ NoCall /\ mem' = mem
        /\ \E optional \in {{}, OptionalTexts} : Begin("populate", k, doc(optional))
    BY <1>8 DEF PopulateFromFile
  <2>2. PICK optional \in {{}, OptionalTexts} : Begin("populate", k, doc(optional))
    BY <2>1
  <2>. DEFINE d == doc(optional)
              c == [how |-> "populate", to |-> k, todo |-> DOMAIN d, doc |-> d]
  <2>3. /\ Base64Texts \subseteq DOMAIN d
        /\ \A f \in DOMAIN d : f \in Base64Texts \cup OptionalTexts \cup RsaNumbers /\ d[f] = t
    BY <2>2
  <2>. HIDE DEF d, doc
  <2>4. CallTyped(c)
    BY <1>1, <1>3, <1>4, <2>3 DEF CallTyped
  <2>. QED BY <2>1, <2>2, <2>4, Begins DEF d
<1>. QED BY <1>6, <1>7, <1>8

\* when it is a number's turn, the texts are set
LEMMA TextsComeFirst ==
    ASSUME NEW f \in RsaNumbers, InTurn(Base64Order \o RsaOrder \o OptionalOrder, f)
    PROVE  Base64Texts \cap call.todo = {}
<1>. DEFINE order == Base64Order \o RsaOrder \o OptionalOrder
            front == Base64Order \o RsaOrder
<1>1. /\ Base64Order \in Seq(Base64Texts) /\ RsaOrder \in Seq(RsaNumbers)
      /\ OptionalOrder \in Seq(OptionalTexts)
      /\ \A g \in Base64Texts : \E i \in DOMAIN Base64Order : Base64Order[i] = g
      /\ RsaNumbers \cap Base64Texts = {}
  BY KeyOrders
<1>. DEFINE n == Len(Base64Order)
<1>2. n \in Nat /\ DOMAIN Base64Order = 1..n /\ \A i \in 1..n : Base64Order[i] \in Base64Texts
  BY <1>1
<1>3. /\ Len(front) = n + Len(RsaOrder) /\ Len(RsaOrder) \in Nat
      /\ \A i \in 1..n : front[i] = Base64Order[i]
      /\ front \in Seq(Base64Texts \cup RsaNumbers)
  BY <1>1
<1>4. /\ Len(order) = Len(front) + Len(OptionalOrder) /\ Len(OptionalOrder) \in Nat
      /\ \A i \in 1..Len(front) : order[i] = front[i]
      /\ DOMAIN order = 1..Len(order)
  BY <1>1, <1>3
<1>. HIDE DEF order, front, n
<1>5. \A i \in 1..n : i \in DOMAIN order /\ order[i] = Base64Order[i]
  BY <1>2, <1>3, <1>4
<1>6. PICK i \in DOMAIN order : order[i] = f /\ \A j \in 1..(i - 1) : order[j] \notin call.todo
  BY DEF InTurn, order
<1>7. i > n
  BY <1>1, <1>2, <1>4, <1>5, <1>6
<1>8. ASSUME NEW g \in Base64Texts
      PROVE  g \notin call.todo
  <2>1. PICK j \in 1..n : Base64Order[j] = g
    BY <1>1, <1>2
  <2>2. j \in 1..(i - 1) /\ order[j] = g
    BY <1>2, <1>4, <1>5, <1>6, <1>7, <2>1
  <2>. QED BY <1>6, <2>2
<1>. QED BY <1>8

\* The fields of a call on atKeys, one at a time.  A number is parsed from a text that the same call
\* has set: that it is the text of the file needs DoneWith.
LEMMA KeyCallSteps ==
    ASSUME IInv, NEW f \in Base64Texts \cup OptionalTexts \cup RsaNumbers
    PROVE  /\ RsaStep(f) => Ongoing(f) /\ f \in call.todo
           /\ PopulateFails(f) => Ongoing(f) /\ f \in call.todo
           /\ PopulateText(f) => Ongoing(f) /\ f \in call.todo
           /\ f \in RsaNumbers /\ PopulateRsa(f) => Ongoing(f) /\ f \in call.todo
<1>. DEFINE k == call.to
            v == call.doc[f]
<1>1. StoreInv(mem)
  BY DEF IInv
<1>2. RsaStep(f) => call.how = "rsa" /\ f \in call.todo
  BY DEF RsaStep, InTurn
<1>3. PopulateFails(f) \/ PopulateText(f) \/ PopulateRsa(f) =>
         call.how = "populate" /\ f \in call.todo
  BY DEF PopulateFails, PopulateText, PopulateRsa, Populating, InTurn
<1>4. ASSUME f \in call.todo, call.how \in {"rsa", "populate"}
      PROVE  /\ k \in KeySets /\ Meant(f) = v
             /\ v \in Texts \cup {NULL} /\ (call.how = "populate" => v \in Texts)
  <2>1. /\ OwnersFor("rsa") = KeySets /\ OwnersFor("populate") = KeySets
        /\ Fits("rsa", f) = Texts \cup {NULL} /\ Fits("populate", f) = Texts
    BY DEF OwnersFor, AtkeyCalls, Types, Fits
  <2>2. k \in KeySets /\ v \in Texts \cup {NULL} /\ (call.how = "populate" => v \in Texts)
    BY <1>4, <2>1, UnderWay DEF CallTyped
  <2>. QED BY <1>4, <2>2, MeantAsGiven
<1>5. ASSUME RsaStep(f)
      PROVE  Ongoing(f) /\ f \in call.todo
  <2>1. CASE v = NULL /\ Abort /\ mem' = mem
    BY <1>2, <1>5, <2>1 DEF Ongoing, Abort, Types
  <2>2. CASE v # NULL /\ OneOf(f, SetRsa(mem, k, f, v), IfRsaHeld(mem, k, f))
    <3>1. k \in KeySets /\ Meant(f) = v /\ v \in Texts /\ f \in call.todo
      BY <1>2, <1>4, <1>5, <2>2
    <3>2. \A n \in SetRsa(mem, k, f, v) : Sets(mem, n, <<k, f>>, v)
      BY <1>1, <3>1, KeySettings
    <3>3. Drops(mem, IfRsaHeld(mem, k, f), {<<k, f>>})
      BY <1>1, <3>1, KeySettings
    <3>. HIDE DEF v
    <3>. QED BY <2>2, <3>1, <3>2, <3>3, OneField
  <2>. QED BY <1>5, <2>1, <2>2 DEF RsaStep
<1>6. ASSUME PopulateFails(f)
      PROVE  Ongoing(f) /\ f \in call.todo
  BY <1>3, <1>6 DEF PopulateFails, Ongoing, Abort, Types
<1>7. ASSUME PopulateText(f)
      PROVE  Ongoing(f) /\ f \in call.todo
  <2>1. OneOf(f, SetBase64(mem, k, f, v), IfBase64Held(mem, k, f))
    BY <1>7 DEF PopulateText
  <2>2. k \in KeySets /\ Meant(f) = v /\ v \in Texts /\ f \in call.todo
    BY <1>3, <1>4, <1>7
  <2>3. \A n \in SetBase64(mem, k, f, v) : Sets(mem, n, <<k, f>>, v)
    BY <1>1, <2>2, KeySettings
  <2>4. Drops(mem, IfBase64Held(mem, k, f), {<<k, f>>})
    BY <1>1, <2>2, KeySettings
  <2>. HIDE DEF v
  <2>. QED BY <2>1, <2>2, <2>3, <2>4, OneField
<1>8. ASSUME f \in RsaNumbers, PopulateRsa(f)
      PROVE  Ongoing(f) /\ f \in call.todo
  <2>. DEFINE t == ParsedText(f)
  <2>1. OneOf(f, SetRsa(mem, k, f, t), IfRsaHeld(mem, k, f))
    BY <1>8 DEF PopulateRsa
  <2>2. k \in KeySets /\ Meant(f) = v /\ v \in Texts /\ f \in call.todo /\ call.how = "populate"
    BY <1>3, <1>4, <1>8
  <2>3. t = v
    <3>1. RsaSource[f] \in Base64Texts
      BY <1>8, RsaSourceIsText
    <3>2. Base64Texts \cap call.todo = {}
      BY <1>8, TextsComeFirst DEF PopulateRsa, Populating
    <3>3. CallTyped(call) /\ DoneWith /\ f \in DOMAIN call.doc
      BY <2>2, UnderWay
    <3>4. RsaSource[f] \in DOMAIN call.doc \ call.todo /\ call.doc[RsaSource[f]] = v
      BY <2>2, <3>1, <3>2, <3>3 DEF CallTyped
    <3>5. Value(mem, <<k, RsaSource[f]>>) = Meant(RsaSource[f])
      BY <3>3, <3>4 DEF DoneWith
    <3>. QED BY <2>2, <3>4, <3>5, MeantAsGiven DEF ParsedText
  <2>4. \A n \in SetRsa(mem, k, f, v) : Sets(mem, n, <<k, f>>, v)
    BY <1>1, <2>2, KeySettings
  <2>5. Drops(mem, IfRsaHeld(mem, k, f), {<<k, f>>})
    BY <1>1, <2>2, KeySettings
  <2>. HIDE DEF v, t
  <2>. QED BY <2>1, <2>2, <2>3, <2>4, <2>5, OneField
<1>. QED BY <1>5, <1>6, <1>7, <1>8

\* Every step on atKeys is one of the three.
LEMMA KeyStep ==
    ASSUME IInv, KeyNext
    PROVE  Step
<1>1. StoreInv(mem)
  BY DEF IInv
<1>2. ASSUME NEW k \in KeySets, NEW f \in Base64Texts, RsaFree(k, f)
      PROVE  Whole
  <2>1. Drops(mem, mem', {k} \X NumbersOf(f))
    BY <1>1, <1>2, UnsetDrops DEF RsaFree
  <2>. QED BY <1>2, <2>1, KeyParts DEF RsaFree, Whole, NoCall
<1>3. ASSUME NEW k \in KeySets, NEW f \in Base64Texts \cup OptionalTexts, NEW t \in Texts,
             AtkeysSet(k, f, t)
      PROVE  Whole
  <2>1. <<k, f>> \in Slots
    BY KeyParts, Kinds
  <2>2. \A n \in SetBase64(mem, k, f, t) : Sets(mem, n, <<k, f>>, t)
    BY <1>1, KeySettings
  <2>3. Drops(mem, IfBase64Held(mem, k, f), {<<k, f>>})
    BY <1>1, KeySettings
  <2>. QED BY <1>3, <2>1, <2>2, <2>3, OneSet DEF AtkeysSet, Shown
<1>4. ASSUME NEW k \in KeySets, AtkeysFree(k)
      PROVE  Whole
  <2>. DEFINE R == {k} \X RsaNumbers
              T == {k} \X (Base64Texts \cup OptionalTexts)
              u == Unset(mem, R)
              n == Unset(u, T)
  <2>1. Drops(mem, u, R)
    BY <1>1, UnsetDrops
  <2>2. Drops(u, n, T)
    BY <2>1, UnsetDrops DEF Drops
  <2>3. mem' = n /\ call = Idle /\ call' = Idle
    BY <1>4 DEF AtkeysFree, NoCall
  <2>4. R \cup T \in Structures
    BY KeyParts
  <2>. HIDE DEF u, n, R, T
  <2>5. Drops(mem, n, R \cup T)
    BY <2>1, <2>2, DropsTwice
  <2>. QED BY <2>3, <2>4, <2>5 DEF Whole
<1>5. ASSUME NEW k \in KeySets,
             \/ \E f \in Base64Texts, t \in Texts : RsaPopulate(k, f, t)
             \/ \E f \in Base64Texts, j \in KeySets : RsaClone(j, k, f)
             \/ \E t \in Texts : PopulateFromFile(k, t)
      PROVE  Starting
  BY <1>5, KeyStarts
<1>6. ASSUME \/ \E f \in RsaNumbers : RsaStep(f) \/ PopulateRsa(f)
             \/ \E f \in Base64Texts \cup OptionalTexts : PopulateText(f)
             \/ \E f \in Base64Texts \cup OptionalTexts \cup RsaNumbers : PopulateFails(f)
      PROVE  Step
  BY <1>6, KeyCallSteps DEF Step
<1>. QED BY <1>2, <1>3, <1>4, <1>5, <1>6 DEF KeyNext, Step

-----------------------------------------------------------------------------
(* The keys file                                                           *)

\* The slots of a keys file's structure.
LEMMA FileParts ==
    ASSUME NEW k \in KeyFiles
    PROVE  /\ \A f \in FileTexts \cup FileOptional : <<k, f>> \in TextSlots /\ <<k, f>> \in Slots
           /\ {k} \X (FileTexts \cup FileOptional) \in Structures
<1>1. \A f \in FileTexts \cup FileOptional : <<k, f>> \in TextSlots /\ <<k, f>> \in Slots
  BY Kinds DEF TextSlots, FileSlots
<1>2. {k} \X (FileTexts \cup FileOptional) = {s \in Slots : s[1] = k}
  <2>1. \A s \in {k} \X (FileTexts \cup FileOptional) : s \in Slots /\ s[1] = k
    BY <1>1
  <2>2. ASSUME NEW s \in Slots, s[1] = k
        PROVE  s \in {k} \X (FileTexts \cup FileOptional)
    <3>1. s \in FileSlots
      BY <2>2, Owners, Distinct
    <3>. QED BY <2>2, <3>1 DEF FileSlots
  <2>. QED BY <2>1, <2>2
<1>. QED BY <1>1, <1>2 DEF Structures

\* Setting a text of a keys file's structure, and what is left when its malloc fails.
LEMMA FileSets ==
    ASSUME NEW m, StoreInv(m), NEW k \in KeyFiles, NEW f \in FileTexts \cup FileOptional
    PROVE  /\ \A t \in Texts : \A n \in SetFileText(m, k, f, t) : Sets(m, n, <<k, f>>, t)
           /\ Drops(m, IfFileTextHeld(m, k, f), {<<k, f>>})
<1>1. UnsetFileText(m, k, f) = Unset(m, {<<k, f>>})
  BY DEF UnsetFileText, FileMark, Unset
<1>2. Released(m, IfFileTextHeld(m, k, f), {<<k, f>>})
  BY <1>1, UnsetReleases, OffReleases DEF IfFileTextHeld, FileHas
<1>3. \A t \in Texts : \A n \in SetFileText(m, k, f, t) : Sets(m, n, <<k, f>>, t)
  BY <1>2, FileParts, RefillText DEF SetFileText, FileMark
<1>. QED BY <1>2, <1>3, ReleaseDrops

\* Reading a keys file begins as it should.
LEMMA KeyFileStarts ==
    ASSUME NEW k \in KeyFiles, KeyFileFromString(k)
    PROVE  Starting
<1>1. NoCall /\ mem' = mem
  BY DEF KeyFileFromString
<1>2. PICK optional \in SUBSET FileOptional :
         \E doc \in [FileTexts \cup optional -> Texts \cup {NULL}] : Begin("file", k, doc)
  BY DEF KeyFileFromString
<1>3. PICK doc \in [FileTexts \cup optional -> Texts \cup {NULL}] : Begin("file", k, doc)
  BY <1>2
<1>. DEFINE c == [how |-> "file", to |-> k, todo |-> DOMAIN doc, doc |-> doc]
<1>4. /\ "file" \in Calls /\ OwnersFor("file") = KeyFiles /\ "file" \notin Types
      /\ \A f : Fits("file", f) = Texts \cup {NULL}
  BY DEF Calls, OwnersFor, AtkeyCalls, Types, Fits
<1>5. \A f \in DOMAIN doc : <<k, f>> \in Slots /\ doc[f] \in Texts \cup {NULL}
  BY <1>3, FileParts
<1>6. CallTyped(c)
  BY <1>4, <1>5 DEF CallTyped
<1>. QED BY <1>1, <1>3, <1>6, Begins

\* The texts of a keys file, one at a time: a mandatory one that is missing ends the call.
LEMMA KeyFileCallStep ==
    ASSUME IInv, NEW f \in FileTexts \cup FileOptional, KeyFileStep(f)
    PROVE  Ongoing(f) /\ f \in call.todo
<1>. DEFINE k == call.to
            v == call.doc[f]
<1>1. StoreInv(mem)
  BY DEF IInv
<1>2. call.how = "file" /\ f \in call.todo
  BY DEF KeyFileStep, InTurn
<1>3. k \in KeyFiles /\ v \in Texts \cup {NULL}
  <2>1. OwnersFor("file") = KeyFiles /\ Fits("file", f) = Texts \cup {NULL}
    BY DEF OwnersFor, AtkeyCalls, Types, Fits
  <2>. QED BY <1>2, <2>1, UnderWay DEF CallTyped
<1>4. Meant(f) = v
  BY <1>2, MeantAsGiven
<1>5. CASE v = NULL /\ Abort /\ mem' = mem
  BY <1>2, <1>5 DEF Ongoing, Abort, Types
<1>6. CASE v # NULL /\ OneOf(f, SetFileText(mem, k, f, v), IfFileTextHeld(mem, k, f))
  <2>1. v \in Texts
    BY <1>3, <1>6
  <2>2. \A n \in SetFileText(mem, k, f, v) : Sets(mem, n, <<k, f>>, v)
    BY <1>1, <1>3, <2>1, FileSets
  <2>3. Drops(mem, IfFileTextHeld(mem, k, f), {<<k, f>>})
    BY <1>1, <1>3, FileSets
  <2>. HIDE DEF v
  <2>. QED BY <1>2, <1>4, <1>6, <2>2, <2>3, OneField
<1>. QED BY <1>5, <1>6 DEF KeyFileStep

\* Every step on a keys file's structure is one of the three.
LEMMA FileStep ==
    ASSUME IInv, KeyFileNext
    PROVE  Step
<1>1. StoreInv(mem)
  BY DEF IInv
<1>2. ASSUME NEW k \in KeyFiles, NEW f \in FileTexts \cup FileOptional, NEW t \in Texts,
             KeyFileSet(k, f, t)
      PROVE  Whole
  <2>1. \A n \in SetFileText(mem, k, f, t) : Sets(mem, n, <<k, f>>, t)
    BY <1>1, FileSets
  <2>2. Drops(mem, IfFileTextHeld(mem, k, f), {<<k, f>>})
    BY <1>1, FileSets
  <2>3. <<k, f>> \in Slots
    BY FileParts
  <2>. QED BY <1>2, <2>1, <2>2, <2>3, OneSet DEF KeyFileSet, Shown
<1>3. ASSUME NEW k \in KeyFiles, KeyFileFree(k)
      PROVE  Whole
  <2>1. Drops(mem, mem', {k} \X (FileTexts \cup FileOptional))
    BY <1>1, <1>3, UnsetDrops DEF KeyFileFree
  <2>. QED BY <1>3, <2>1, FileParts DEF KeyFileFree, Whole, NoCall
<1>. QED BY <1>2, <1>3, KeyFileStarts, KeyFileCallStep DEF KeyFileNext, Step

-----------------------------------------------------------------------------
(* Every step, and what it keeps                                           *)

\* Every step of FieldStores is a whole call, the start of one, or one field of one.
LEMMA NextStep ==
    ASSUME IInv, Next
    PROVE  Step /\ used' = used
BY AtkeyStep, NotificationStep, ParamStep, OptionStep, KeyStep, FileStep DEF Next

\* the fields a call has set stay set while it sets the others
LEMMA StaysDone ==
    ASSUME IInv, NEW f \in call.todo, Sets(mem, mem', <<call.to, f>>, Meant(f)),
           NEW g \in DOMAIN call.doc, g = f \/ g \notin call.todo
    PROVE  <<call.to, g>> \in mem'.on /\ Value(mem', <<call.to, g>>) = Meant(g)
<1>1. CASE g = f
  BY <1>1 DEF Sets, Filled
<1>2. CASE g # f
  <2>1. <<call.to, g>> \in mem.on /\ Value(mem, <<call.to, g>>) = Meant(g)
    BY <1>2, UnderWay DEF DoneWith
  <2>2. <<call.to, g>> \in Slots \ {<<call.to, f>>}
    BY <1>2, UnderWay DEF CallTyped
  <2>3. Kept(mem, mem', <<call.to, g>>)
    BY <2>2 DEF Sets, Filled
  <2>. QED BY <2>1, <2>3 DEF Kept
<1>. QED BY <1>1, <1>2

\* The memory stays sound.
LEMMA StepKeepsStore ==
    ASSUME IInv, Step
    PROVE  StoreInv(mem') /\ DOMAIN mem'.heap = DOMAIN mem.heap
BY DEF IInv, Step, Whole, Starting, Ongoing, Sets, Drops

\* The call stays one that was begun, and done with what it has set.
LEMMA StepKeepsCall ==
    ASSUME IInv, Step
    PROVE  CallInv'
<1>1. CASE Whole
  BY <1>1 DEF Whole, CallInv, Idle
<1>2. CASE Starting
  <2>1. CASE call' = Idle
    BY <2>1 DEF CallInv, Idle
  <2>2. CASE CallTyped(call') /\ call'.todo = DOMAIN call'.doc
    <3>1. DoneWith'
      BY <2>2 DEF DoneWith
    <3>2. CallTyped(call)'
      BY <2>2 DEF CallTyped
    <3>. QED BY <3>1, <3>2 DEF CallInv
  <2>. QED BY <1>2, <2>1, <2>2 DEF Starting
<1>3. ASSUME NEW f \in call.todo, Ongoing(f)
      PROVE  CallInv'
  <2>1. CASE call' = Idle
    BY <2>1 DEF CallInv, Idle
  <2>2. CASE call' # Idle
    <3>1. Sets(mem, mem', <<call.to, f>>, Meant(f)) /\ Continue(f)
      BY <1>3, <2>2 DEF Ongoing
    <3>2. call' = [call EXCEPT !.todo = call.todo \ {f}]
      BY <2>2, <3>1 DEF Continue
    <3>3. CallTyped(call)
      BY UnderWay
    <3>4. call = [how |-> call.how, to |-> call.to, todo |-> call.todo, doc |-> call.doc]
      BY <3>3 DEF CallTyped
    <3>5. call' = [how |-> call.how, to |-> call.to, todo |-> call.todo \ {f}, doc |-> call.doc]
      BY <3>2, <3>4
    <3>6. /\ call'.how = call.how /\ call'.to = call.to /\ call'.doc = call.doc
          /\ call'.todo = call.todo \ {f}
      BY <3>5
    <3>7. CallTyped(call)'
      BY <3>3, <3>5, <3>6 DEF CallTyped
    <3>8. \A g : Meant(g)' = Meant(g)
      BY <3>6 DEF Meant
    <3>9. DoneWith'
      <4>1. \A g \in DOMAIN call.doc \ (call.todo \ {f}) :
               <<call.to, g>> \in mem'.on /\ Value(mem', <<call.to, g>>) = Meant(g)
        BY <3>1, StaysDone
      <4>. QED BY <3>6, <3>8, <4>1 DEF DoneWith
    <3>. QED BY <3>7, <3>9 DEF CallInv
  <2>. QED BY <2>1, <2>2
<1>. QED BY <1>1, <1>2, <1>3 DEF Step

\* memset to 0 makes empty structures.
LEMMA InitInv ==
    ASSUME Init
    PROVE  IInv
<1>1. mem = [on |-> {}, at |-> [s \in Slots |-> NULL], heap |-> [b \in HeapOf[used] |-> Unused]]
  BY DEF Init
<1>2. HeapOf[used] \subseteq Blocks /\ used \in Families
  BY HeapOfType DEF Init
<1>3. mem.on = {} /\ DOMAIN mem.heap = HeapOf[used] /\ DOMAIN mem.at = Slots
  BY <1>1
<1>4. Memory(mem)
  BY <1>1, <1>2, <1>3 DEF Memory
<1>5. \A s \in Slots : mem.at[s] = NULL
  BY <1>1
<1>6. \A s \in TextSlots : TextOK(mem, s)
  BY <1>3, <1>5, Kinds DEF TextOK
<1>7. \A s \in ValueSlots : ValueOK(mem, s)
  BY <1>3, <1>5, Kinds DEF ValueOK
<1>8. \A b \in DOMAIN mem.heap : BlockOK(mem, b)
  BY <1>1 DEF BlockOK
<1>. QED BY <1>2, <1>3, <1>4, <1>6, <1>7, <1>8 DEF IInv, StoreInv, CallInv, Init

\* Every step keeps the invariant.
LEMMA NextInv ==
    ASSUME IInv, [Next]_vars
    PROVE  IInv'
<1>1. CASE Next
  <2>1. Step /\ used' = used
    BY <1>1, NextStep
  <2>2. StoreInv(mem)' /\ (DOMAIN mem.heap = HeapOf[used])'
    <3>1. StoreInv(mem') /\ DOMAIN mem'.heap = DOMAIN mem.heap
      BY <2>1, StepKeepsStore
    <3>. QED BY <2>1, <3>1 DEF IInv, StoreInv, Memory, TextOK, ValueOK, BlockOK
  <2>. QED BY <2>1, <2>2, StepKeepsCall DEF IInv
<1>2. CASE UNCHANGED vars
  BY <1>2 DEF vars, IInv, CallInv, DoneWith, CallTyped, Meant, StoreInv, Memory, TextOK, ValueOK,
              BlockOK, Value
<1>. QED BY <1>1, <1>2

\* The invariant holds.
LEMMA Invariant == Spec => []IInv
<1>1. Init => IInv
  BY InitInv
<1>2. IInv /\ [Next]_vars => IInv'
  BY NextInv
<1>. QED BY <1>1, <1>2, PTL DEF Spec

-----------------------------------------------------------------------------
(* The invariants                                                          *)

\* The state keeps its types, for any fields, structures and heap: null never reaches a number.
THEOREM TypeCorrect == Spec => []TypeOK
<1>1. ASSUME IInv
      PROVE  TypeOK
  <2>1. \A s \in ValueSlots : ValueOK(mem, s)
    BY <1>1 DEF IInv, StoreInv
  <2>2. \A s \in TextSlots : mem.at[s] \in HeapOf[used] \cup {NULL}
    BY <1>1 DEF IInv, StoreInv, TextOK
  <2>3. \A b \in HeapOf[used] : mem.heap[b] = Unused \/ mem.heap[b] \in TextSlots \X Texts
    BY <1>1 DEF IInv, StoreInv, BlockOK
  <2>. QED BY <1>1, <2>1, <2>2, <2>3 DEF IInv, StoreInv, Memory, ValueOK, TypeOK
<1>. QED BY <1>1, Invariant, PTL

\* Whatever is set, unset, cloned, parsed or freed, with any malloc failing, the pointer of an
\* initialized text is NULL or leads to a block allocated for that very field.
THEOREM StoresAreSound == Spec => []Sound
<1>1. ASSUME IInv
      PROVE  Sound
  <2>1. ASSUME NEW s \in mem.on, mem.at[s] \in Blocks
        PROVE  \E t \in Texts : mem.heap[mem.at[s]] = <<s, t>>
    <3>1. s \in TextSlots \/ s \in ValueSlots
      BY <1>1, Kinds DEF IInv, StoreInv, Memory
    <3>2. mem.at[s] # NULL /\ mem.at[s] \notin Int
      BY <2>1, BlocksAreNoValues
    <3>3. s \in TextSlots /\ TextOK(mem, s)
      BY <1>1, <3>1, <3>2 DEF IInv, StoreInv, ValueOK
    <3>. QED BY <3>2, <3>3 DEF TextOK
  <2>. QED BY <2>1 DEF Sound, Owned
<1>. QED BY <1>1, Invariant, PTL

\* A block that nothing will free was lost by set_id or set_atkey of the notify parameters or is a
\* decrypted_value that was not marked as encrypted; no other function loses one.
THEOREM LeaksKnown == Spec => []LeaksAreKnown
<1>1. ASSUME IInv
      PROVE  LeaksAreKnown
  <2>1. ASSUME NEW b \in Lost(mem)
        PROVE  mem.heap[b][1] \in LeakySlots
    <3>1. b \in DOMAIN mem.heap /\ mem.heap[b] # Unused /\ \A s \in mem.on : mem.at[s] # b
      BY <2>1 DEF Lost
    <3>2. BlockOK(mem, b)
      BY <1>1, <3>1 DEF IInv, StoreInv
    <3>. QED BY <3>1, <3>2 DEF BlockOK
  <2>. QED BY <2>1 DEF LeaksAreKnown
<1>. QED BY <1>1, Invariant, PTL

-----------------------------------------------------------------------------
(* The structures are maps                                                 *)

\* A field that is set is a Put of the map.
LEMMA SetsPuts ==
    ASSUME NEW s \in Slots, NEW v \in Shown, Sets(mem, mem', s, v)
    PROVE  Map!Put(s)
<1>1. /\ View = [r \in Slots |-> IF r \in mem.on THEN Value(mem, r) ELSE Missing]
      /\ View' = [r \in Slots |-> IF r \in mem'.on THEN Value(mem', r) ELSE Missing]
  BY DEF View, Value
<1>2. View'[s] = v
  BY <1>1 DEF Sets, Filled
<1>3. \A r \in Slots \ {s} : View'[r] = View[r]
  BY <1>1 DEF Sets, Filled, Kept
<1>4. View' = [View EXCEPT ![s] = View'[s]]
  <2>. DEFINE w == [View EXCEPT ![s] = View'[s]]
  <2>1. DOMAIN w = Slots /\ \A r \in Slots : w[r] = View'[r]
    BY <1>1, <1>3
  <2>2. w = [r \in Slots |-> w[r]] /\ View' = [r \in Slots |-> View'[r]]
    BY <1>1
  <2>. HIDE DEF w
  <2>3. w = View'
    BY <2>1, <2>2
  <2>. QED BY <2>3 DEF w
<1>. QED BY <1>2, <1>4 DEF Map!Put, Shown

\* Fields that are released are a Drop of the map.
LEMMA DropsDrop ==
    ASSUME NEW S, Drops(mem, mem', S)
    PROVE  Map!Drop(S)
<1>1. /\ View = [r \in Slots |-> IF r \in mem.on THEN Value(mem, r) ELSE Missing]
      /\ View' = [r \in Slots |-> IF r \in mem'.on THEN Value(mem', r) ELSE Missing]
  BY DEF View, Value
<1>2. \A r \in Slots : View'[r] = IF r \in S THEN Missing ELSE View[r]
  BY <1>1 DEF Drops, Dropped, Kept
<1>3. View' = [r \in Slots |-> IF r \in S THEN Missing ELSE View[r]]
  BY <1>1, <1>2
<1>. QED BY <1>3 DEF Map!Drop

\* what a call means to set is something a field can hold
LEMMA MeansSomething ==
    ASSUME IInv, NEW f \in call.todo, Sets(mem, mem', <<call.to, f>>, Meant(f))
    PROVE  Meant(f) \in Shown
<1>. DEFINE s == <<call.to, f>>
<1>1. StoreInv(mem') /\ s \in mem'.on /\ Value(mem', s) = Meant(f) /\ s \in Slots
  BY UnderWay DEF Sets, Filled
<1>2. CASE s \in TextSlots
  <2>1. TextOK(mem', s) /\ Memory(mem')
    BY <1>1, <1>2 DEF StoreInv
  <2>2. CASE mem'.at[s] = NULL
    BY <1>1, <2>2, NullValue DEF Shown
  <2>3. CASE \E t \in Texts : mem'.at[s] \in DOMAIN mem'.heap /\ mem'.heap[mem'.at[s]] = <<s, t>>
    BY <1>1, <2>1, <2>3, TextValue DEF Shown
  <2>. QED BY <1>1, <2>1, <2>2, <2>3 DEF TextOK
<1>3. CASE s \in ValueSlots
  BY <1>1, <1>3, HeldNumber DEF Shown
<1>. QED BY <1>1, <1>2, <1>3, Kinds

\* Seen through their bits the structures implement OptionalMap: a call changes the field it
\* names, or frees its structure, and disturbs no other.
THEOREM StoresAreMaps == Spec => FieldsAreMaps
<1>1. Init => Map!Init
  <2>1. SUFFICES ASSUME Init
                 PROVE  Map!Init
    OBVIOUS
  <2>2. mem = [on |-> {}, at |-> [s \in Slots |-> NULL], heap |-> [b \in HeapOf[used] |-> Unused]]
    BY <2>1 DEF Init
  <2>3. mem.on = {}
    BY <2>2
  <2>. QED BY <2>3 DEF Map!Init, View
<1>2. IInv /\ [Next]_vars => [Map!Next]_View
  <2>1. SUFFICES ASSUME IInv, [Next]_vars
                 PROVE  Map!Next \/ View' = View
    BY DEF Map!Next
  <2>2. CASE mem' = mem
    BY <2>2 DEF View, Value
  <2>3. CASE Next /\ mem' # mem
    <3>1. \/ Whole
          \/ \E f \in call.todo : Ongoing(f)
      BY <2>1, <2>3, NextStep DEF Step, Starting
    <3>2. \/ \E s \in Slots, v \in Shown : Sets(mem, mem', s, v)
          \/ \E s \in Slots : Drops(mem, mem', {s})
          \/ \E P \in Structures : Drops(mem, mem', P)
      BY <2>1, <2>3, <3>1, UnderWay, MeansSomething DEF Whole, Ongoing
    <3>. QED BY <3>2, SetsPuts, DropsDrop DEF Map!Next
  <2>4. CASE UNCHANGED vars
    BY <2>2, <2>4 DEF vars
  <2>. QED BY <2>1, <2>2, <2>3, <2>4
<1>. QED BY <1>1, <1>2, Invariant, PTL DEF Spec, FieldsAreMaps, Map!Spec

-----------------------------------------------------------------------------
(* What a call leaves when it has come to its end                          *)

\* A call that ends with its last field set has set all of them.
LEMMA Completed ==
    ASSUME IInv, Next, call.todo # {}, call' = Idle,
           call.how \in Types \/ mem' # mem,
           \A f \in call.todo : <<call.to, f>> \in mem'.on
    PROVE  \A g \in DOMAIN call.doc :
              <<call.to, g>> \in mem'.on /\ Value(mem', <<call.to, g>>) = Meant(g)
<1>1. PICK f \in call.todo : Ongoing(f)
  BY NextStep DEF Step, Whole, Starting, Idle
<1>2. Sets(mem, mem', <<call.to, f>>, Meant(f)) /\ Continue(f)
  BY <1>1, UnderWay DEF Ongoing, Drops, Dropped
<1>3. call.todo = {f}
  <2>1. SUFFICES ASSUME call.todo # {f}
                 PROVE  FALSE
    OBVIOUS
  <2>2. CallTyped(call)
    BY UnderWay
  <2>3. call = [how |-> call.how, to |-> call.to, todo |-> call.todo, doc |-> call.doc]
    BY <2>2 DEF CallTyped
  <2>4. call' = [call EXCEPT !.todo = call.todo \ {f}]
    BY <1>2, <2>1 DEF Continue
  <2>5. call'.how = call.how
    BY <2>3, <2>4
  <2>6. call'.how = "idle" /\ "idle" \notin Calls
    BY DEF Idle, Calls, AtkeyCalls, Types
  <2>. QED BY <2>2, <2>5, <2>6 DEF CallTyped
<1>. QED BY <1>2, <1>3, StaysDone

\* A call that sets several fields and is not cut short leaves each with its own value.
THEOREM CallsDeliver == Spec => Delivered
<1>1. ASSUME IInv, Next, NEW last \in call.todo, call.todo = {last}, call' = Idle, mem' # mem,
             <<call.to, last>> \in mem'.on
      PROVE  \A f \in DOMAIN call.doc :
                <<call.to, f>> \in mem'.on /\ Value(mem', <<call.to, f>>) = Meant(f)
  BY <1>1, Completed
<1>. DEFINE A == \A last \in call.todo :
                    /\ call.todo = {last} /\ call' = Idle /\ mem' # mem
                    /\ <<call.to, last>> \in mem'.on /\ Value(mem', <<call.to, last>>) = Meant(last)
                    => \A f \in DOMAIN call.doc :
                          <<call.to, f>> \in mem'.on /\ Value(mem', <<call.to, f>>) = Meant(f)
<1>2. IInv /\ [Next]_vars => [A]_vars
  BY <1>1
<1>. QED BY <1>2, Invariant, PTL DEF Spec, Delivered

\* A key created in an empty structure is of the kind asked for, or a self key when it is shared
\* with its own atSign.
THEOREM CreatesAsAsked == Spec => CreatedAsAsked
<1>. DEFINE o == call.to
            A == call.how \in Types /\ call' = Idle /\ Held(mem', o) = DOMAIN call.doc
                 => AtkeyType(mem', o) =
                       IF call.how = "shared" /\ call.doc["shared_by"] = call.doc["shared_with"]
                       THEN "self" ELSE call.how
<1>1. ASSUME IInv, Next, call.how \in Types, call' = Idle, Held(mem', o) = DOMAIN call.doc
      PROVE  AtkeyType(mem', o) =
                IF call.how = "shared" /\ call.doc["shared_by"] = call.doc["shared_with"]
                THEN "self" ELSE call.how
  <2>1. CallTyped(call)
    BY <1>1 DEF IInv, CallInv, Idle, Types
  <2>2. call.todo # {}
    <3>1. \E f \in call.todo : Ongoing(f)
      BY <1>1, NextStep DEF Step, Whole, Starting, Idle, Types
    <3>. QED BY <3>1
  <2>3. o \in Atkeys /\ StoreInv(mem')
    BY <1>1, <2>1, NextStep, StepKeepsStore DEF CallTyped, OwnersFor, AtkeyCalls
  <2>4. \A g : <<o, g>> \in mem'.on <=> g \in DOMAIN call.doc
    <3>1. \A g : g \in Held(mem', o) <=> \E s \in mem'.on : s[1] = o /\ s[2] = g
      BY DEF Held
    <3>2. \A s \in mem'.on : s[1] = o => s = <<o, s[2]>>
      <4>1. \A s \in mem'.on : s[1] = o => s \in AtkeySlots
        BY <2>3, Owners, Distinct DEF StoreInv, Memory
      <4>. QED BY <4>1 DEF AtkeySlots
    <3>. QED BY <1>1, <3>1, <3>2
  <2>5. \A g \in DOMAIN call.doc : Value(mem', <<o, g>>) = call.doc[g]
    <3>1. \A g \in DOMAIN call.doc : Value(mem', <<o, g>>) = Meant(g)
      BY <1>1, <2>1, <2>2, <2>4, Completed DEF CallTyped
    <3>. QED BY <1>1, <3>1, MeantAsGiven
  <2>6. /\ DOMAIN call.doc \in {CreateFields(call.how), CreateFields(call.how) \ {"namespace_str"}}
        /\ "is_public" \in DOMAIN call.doc => call.doc["is_public"] = 1
    BY <1>1, <2>1 DEF CallTyped
  <2>7. "is_public" \in DOMAIN call.doc => mem'.at[<<o, "is_public">>] = 1
    <3>1. "is_public" \in MetadataValues
      BY AtkeyKinds DEF MetadataValues
    <3>. QED BY <2>3, <2>4, <2>5, <2>6, <3>1, AtkeyParts, HeldNumber
  <2>. DEFINE by == AtkeyHas(mem', o, "shared_by")
              with == AtkeyHas(mem', o, "shared_with")
              public == MetadataHas(mem', o, "is_public") /\ mem'.at[<<o, "is_public">>] = 1
              same == by /\ with /\ Value(mem', <<o, "shared_by">>) = Value(mem', <<o, "shared_with">>)
  <2>8. /\ by <=> "shared_by" \in DOMAIN call.doc
        /\ with <=> "shared_with" \in DOMAIN call.doc
        /\ public <=> "is_public" \in DOMAIN call.doc
        /\ same <=> (by /\ with /\ call.doc["shared_by"] = call.doc["shared_with"])
    BY <2>4, <2>5, <2>7 DEF AtkeyHas, MetadataHas
  <2>9. AtkeyType(mem', o) =
           CASE ~with /\ by /\ public -> "public"
             [] same \/ (~with /\ by /\ ~public) -> "self"
             [] with /\ by /\ ~same -> "shared"
             [] with /\ ~by -> "unknown"
             [] ~with /\ ~by -> "reserved"
    BY DEF AtkeyType
  <2>10. AtkeyType(mem', o) =
           IF ~with /\ by /\ public THEN "public"
           ELSE IF same \/ (~with /\ by /\ ~public) THEN "self"
           ELSE IF with /\ by /\ ~same THEN "shared"
           ELSE IF with /\ ~by THEN "unknown"
           ELSE "reserved"
    <3>. HIDE DEF by, with, public, same
    <3>. QED BY <2>8, <2>9
  <2>11. /\ call.how = "public" => by /\ ~with /\ public
         /\ call.how = "self" => by /\ ~with /\ ~public
         /\ call.how = "shared" => by /\ with
         /\ call.how = "reserved" => ~by /\ ~with
    <3>. HIDE DEF by, with, public, same
    <3>. QED BY <2>6, <2>8, AtkeyKinds, CreateFieldsAre
  <2>. HIDE DEF by, with, public, same
  <2>. QED BY <1>1, <2>8, <2>10, <2>11 DEF Types
<1>2. IInv /\ [Next]_vars => [A]_vars
  BY <1>1
<1>. QED BY <1>2, Invariant, PTL DEF Spec, CreatedAsAsked
=============================================================================
