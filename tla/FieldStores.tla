----------------------------- MODULE FieldStores -----------------------------
(***************************************************************************)
(* The library's structures of optional fields over one heap.  A behaviour *)
(* uses one family of structures, which bounds the states to look at: the  *)
(* families share nothing but the heap, and a block lost or freed twice by *)
(* one of them is lost or freed twice whatever the others do.              *)
(***************************************************************************)
EXTENDS AtkeyFields, NotificationFields, NotifyParamFields, OptionFields, KeyFields,
        KeyFileFields

CONSTANTS
    Missing,    \* what a field that is not initialized holds, to its user
    HeapOf      \* the blocks of the heap, for each family of structures

VARIABLE used       \* the family in use

vars == <<mem, call, used>>

Families == {"atkeys", "notifications", "params", "keys", "files"} \cup Requests

ASSUME HeapOfType == HeapOf \in [Families -> SUBSET Blocks]

\* a C object is of one type
ASSUME StructuresAreDistinct ==
    LET kinds == <<Atkeys, Notifications, Params, Requests, KeySets, KeyFiles>>
    IN  \A i, j \in 1..6 : i # j => kinds[i] \cap kinds[j] = {}

TextSlots ==
    (Atkeys \X (NameTexts \cup MetadataTexts))
        \cup (Notifications \X (NotificationTexts \cup {"decrypted_value"}))
        \cup (Params \X ParamTexts)
        \cup TextOptions \cup HostOptions
        \cup KeySlots \cup FileSlots
ValueSlots ==
    (Atkeys \X MetadataValues) \cup (Notifications \X NotificationValues)
        \cup (Params \X ParamValues) \cup FlagOptions \cup PortOptions
Slots == TextSlots \cup ValueSlots

\* the init functions: memset to 0
Init ==
    /\ used \in Families
    /\ mem = [on |-> {}, at |-> [s \in Slots |-> NULL], heap |-> [b \in HeapOf[used] |-> Unused]]
    /\ call = Idle

Next ==
    /\ \/ used = "atkeys" /\ AtkeyNext
       \/ used = "notifications" /\ NotificationNext
       \/ used = "params" /\ ParamNext
       \/ used = "keys" /\ KeyNext
       \/ used = "files" /\ KeyFileNext
       \/ used \in Requests /\ OptionNext(used)
    /\ UNCHANGED used

Spec == Init /\ [][Next]_vars

-----------------------------------------------------------------------------
\* The bits are of slots, a pointer is to a block, an initialized number is a
\* number: null in the server's JSON never reaches a number.
TypeOK ==
    /\ mem.on \subseteq Slots
    /\ DOMAIN mem.at = Slots
    /\ \A s \in TextSlots : mem.at[s] \in HeapOf[used] \cup {NULL}
    /\ \A s \in ValueSlots : mem.at[s] \in Int \cup {NULL}
    /\ \A s \in ValueSlots \cap mem.on : mem.at[s] \in Int
    /\ DOMAIN mem.heap = HeapOf[used]
    /\ \A b \in HeapOf[used] : mem.heap[b] = Unused \/ mem.heap[b] \in TextSlots \X Texts

\* Whatever is set, unset, cloned, parsed or freed in any order, with any malloc
\* failing: the pointer of an initialized text is NULL or leads to a block that was
\* allocated for that very field.  So no two fields share a block, and no free of
\* one, however often called, takes the text of another.
Sound == \A s \in mem.on : Owned(mem, s)

\* A block that nothing will free was lost by one of three functions:
\* set_id of the notify parameters, which forgets the bit; set_atkey of the notify
\* parameters when the clone fails; and decrypted_value of a notification that was
\* not, or is no longer, marked as encrypted when it was replaced or freed.
LeakySlots ==
    (Params \X {"id", "atkey"}) \cup (Notifications \X {"decrypted_value"})

LeaksAreKnown == \A b \in Lost(mem) : mem.heap[b][1] \in LeakySlots

-----------------------------------------------------------------------------
\* Seen through the bits, the structures are maps: a call changes the one field it
\* names, or frees the whole structure; no call disturbs another field or structure,
\* and a failed malloc leaves the field as it was or missing.
View == [s \in Slots |-> IF s \in mem.on THEN Value(mem, s) ELSE Missing]

Structures ==
    {{s \in Slots : s[1] = o} : o \in Atkeys \cup Notifications \cup Params \cup Requests \cup KeySets \cup KeyFiles}
        \cup {{k} \X NumbersOf(f) : k \in KeySets, f \in Base64Texts}

Map == INSTANCE OptionalMap WITH
    Slots <- Slots, Parts <- Structures, Values <- Texts \cup Int \cup {NULL}, Missing <- Missing, map <- View

FieldsAreMaps == Map!Spec

\* the fields of a structure that are there
Held(m, o) == {s[2] : s \in {r \in m.on : r[1] = o}}

\* what a field is to hold when the call in hand has set it
Meant(f) ==
    LET given == call.doc[f]
    IN  CASE call.how = "json" /\ f \in MetadataTexts /\ given = NULL -> NullText
          [] call.how = "json" /\ f \notin MetadataTexts /\ given = NULL -> 0
          [] call.how = "json" /\ f \notin MetadataTexts /\ given # NULL -> IF given > IntMax THEN IntMax ELSE given
          [] call.how = "notification" /\ f \in NotificationNumbers /\ given # WrongType ->
                IF given > EpochMax THEN EpochMax ELSE given
          [] OTHER -> given

\* A call that sets several fields and is not cut short has set them all, each to its
\* own value: what it sets later does not undo what it set before.
Delivered ==
    [][ \A last \in call.todo :
          /\ call.todo = {last} /\ call' = Idle /\ mem' # mem
          /\ <<call.to, last>> \in mem'.on /\ Value(mem', <<call.to, last>>) = Meant(last)
          => \A f \in DOMAIN call.doc :
                <<call.to, f>> \in mem'.on /\ Value(mem', <<call.to, f>>) = Meant(f)
      ]_vars

\* A key created in an empty structure is of the kind that was asked for, unless it is
\* shared with its own atSign: then it is a self key.
CreatedAsAsked ==
    [][ call.how \in Types /\ call' = Idle /\ Held(mem', call.to) = DOMAIN call.doc
        => AtkeyType(mem', call.to) =
              IF call.how = "shared" /\ call.doc["shared_by"] = call.doc["shared_with"]
              THEN "self" ELSE call.how
      ]_vars
=============================================================================
