----------------------------- MODULE AtkeyFields -----------------------------
(***************************************************************************)
(* atclient_atkey and the atclient_atkey_metadata embedded in it: the keys *)
(* an application builds, clones, fills from the atServer's JSON and       *)
(* sends.  The fields fall into the groups below; the functions of a group *)
(* are alike, one for each field.                                          *)
(***************************************************************************)
EXTENDS Fields

CONSTANTS
    Atkeys,         \* the atkey structures
    NameTexts,      \* key, namespace_str, shared_by, shared_with
    ServerTexts,    \* created_by ... updated_at: texts only the server sets
    KeyTexts,       \* data_signature ... ske_enc_algo: texts the application may set
    Numbers,        \* version, ttl, ttb, ttr
    Flags,          \* ccd, is_binary, is_encrypted, held as 0 and 1
    PlaceFlags,     \* is_public, is_cached: never read back from JSON
    NameOrder, MetadataOrder,   \* the order in which the fields are cloned and parsed
    NullText,       \* the text "null"
    IntMax, NumberMax           \* the largest int, and the largest number looked at

ASSUME NullTextIsText == NullText \in Texts
ASSUME BoundsAreNumbers == IntMax \in Nat /\ NumberMax \in Nat

MetadataTexts == ServerTexts \cup KeyTexts
MetadataValues == Numbers \cup Flags \cup PlaceFlags
MetadataFields == MetadataTexts \cup MetadataValues
AtkeySlots == Atkeys \X (NameTexts \cup MetadataFields)

\* no field is both a text and a value; the fields that CreateOrder names are what they are in C
ASSUME AtkeyKinds ==
    /\ (NameTexts \cup MetadataTexts) \cap MetadataValues = {}
    /\ {"shared_by", "shared_with"} \subseteq NameTexts
    /\ "is_public" \in PlaceFlags
    /\ {"key", "namespace_str"} \cap MetadataFields = {}

\* what a number or a flag may be set to
ValuesOf(f) == IF f \in Numbers THEN 0..NumberMax ELSE {0, 1}

-----------------------------------------------------------------------------
(* Metadata: the functions of one field                                    *)

MetadataHas(m, o, f) == <<o, f>> \in m.on

MetadataMark(m, o, f, bit) ==
    IF bit THEN Marked(m, {<<o, f>>}) ELSE Unmarked(m, {<<o, f>>})

UnsetServerText(m, o, f) ==
    MetadataMark(Nulled(Freed(m, {<<o, f>>}), {<<o, f>>}), o, f, FALSE)

UnsetValue(m, o, f) == MetadataMark(Nulled(m, {<<o, f>>}), o, f, FALSE)

\* Wrong on purpose: the bit stays
UnsetKeyTextMarked(m, o, f) == Freed(m, {<<o, f>>})

\* enc_key_name is freed but its pointer stays
UnsetKeyText(m, o, f) ==
    LET freed == Freed(m, {<<o, f>>})
    IN  MetadataMark(IF f = "enc_key_name" THEN freed ELSE Nulled(freed, {<<o, f>>}), o, f, FALSE)

\* the new text is allocated before the old one is unset: a failed malloc changes nothing
SetServerText(m, o, f, t) ==
    {MetadataMark(Pointed(UnsetServerText(m, o, f), <<o, f>>, b, t), o, f, TRUE) : b \in Spare(m)}

SetValue(m, o, f, v) == MetadataMark(Placed(m, <<o, f>>, v), o, f, TRUE)

SetKeyText(m, o, f, t) ==
    {MetadataMark(Pointed(UnsetKeyText(m, o, f), <<o, f>>, b, t), o, f, TRUE) : b \in Spare(m)}

-----------------------------------------------------------------------------
(* Metadata: the public setters, which unset what is there before they     *)
(* call the functions above                                                *)

SetMetadataValue(o, f, v) ==
    /\ NoCall
    /\ mem' = SetValue(UnsetValue(mem, o, f), o, f, v)
    /\ UNCHANGED call

SetMetadataText(o, f, t) ==
    LET unset == IF MetadataHas(mem, o, f) THEN UnsetKeyText(mem, o, f) ELSE mem
    IN  NoCall /\ Either(SetKeyText(unset, o, f, t), unset)

\* Wrong on purpose: the server's texts are forgotten, not freed
MetadataForgotten(m, o) ==
    Unmarked(Nulled(Freed(m, {o} \X KeyTexts), {o} \X MetadataFields), {o} \X MetadataFields)

\* every unset function, then memset
MetadataFreed(m, o) == Unset(m, {o} \X MetadataFields)

-----------------------------------------------------------------------------
(* The names                                                               *)

UnsetName(m, o, f) == IF <<o, f>> \in m.on THEN Unset(m, {<<o, f>>}) ELSE m

SetName(m, o, f, t) ==
    LET unset == UnsetName(m, o, f)
    IN  {Marked(Pointed(unset, <<o, f>>, b, t), {<<o, f>>}) : b \in Spare(unset)}

AtkeySetName(o, f, t) == NoCall /\ Either(SetName(mem, o, f, t), UnsetName(mem, o, f))

AtkeyUnsetName(o, f) == NoCall /\ mem' = UnsetName(mem, o, f) /\ UNCHANGED call

AtkeyFree(o) ==
    /\ NoCall
    /\ mem' = MetadataFreed(Unset(mem, {o} \X NameTexts), o)
    /\ UNCHANGED call

AtkeyHas(m, o, f) == <<o, f>> \in m.on

\* what kind of key the fields say it is
AtkeyType(m, o) ==
    LET by == AtkeyHas(m, o, "shared_by")
        with == AtkeyHas(m, o, "shared_with")
        public == MetadataHas(m, o, "is_public") /\ m.at[<<o, "is_public">>] = 1
        same == by /\ with /\ Value(m, <<o, "shared_by">>) = Value(m, <<o, "shared_with">>)
    IN  CASE ~with /\ by /\ public -> "public"
          [] same \/ (~with /\ by /\ ~public) -> "self"
          [] with /\ by /\ ~same -> "shared"
          [] with /\ ~by -> "unknown"
          [] ~with /\ ~by -> "reserved"

\* Wrong on purpose: a public key is not marked as public
CreateOrderUnmarked(type) ==
    CASE type = "public" -> <<"key", "shared_by", "namespace_str">>
      [] type = "self" -> <<"key", "namespace_str", "shared_by">>
      [] type = "shared" -> <<"shared_with", "key", "namespace_str", "shared_by">>
      [] type = "reserved" -> <<"key">>

\* the fields each create function sets, in its order
CreateOrder(type) ==
    CASE type = "public" -> <<"is_public", "key", "shared_by", "namespace_str">>
      [] type = "self" -> <<"key", "namespace_str", "shared_by">>
      [] type = "shared" -> <<"shared_with", "key", "namespace_str", "shared_by">>
      [] type = "reserved" -> <<"key">>

Types == {"public", "self", "shared", "reserved"}

\* key and shared_by are t, shared_with is u; the namespace is optional
Create(o, type, t, u) ==
    LET order == CreateOrder(type)
        fields == {order[i] : i \in 1..Len(order)} \cap (NameTexts \cup PlaceFlags)
        doc == [f \in fields |-> CASE f = "is_public" -> 1
                                   [] f = "shared_with" -> u
                                   [] f \notin {"is_public", "shared_with"} -> t]
    IN  /\ NoCall
        /\ \E given \in {fields, fields \ {"namespace_str"}} :
              Begin(type, o, [f \in given |-> doc[f]])
        /\ UNCHANGED mem

CreateFlag(f) ==
    /\ call.how \in Types /\ InTurn(CreateOrder(call.how), f)
    /\ mem' = SetValue(UnsetValue(mem, call.to, f), call.to, f, call.doc[f])
    /\ Continue(f)

CreateName(f) ==
    /\ call.how \in Types /\ InTurn(CreateOrder(call.how), f)
    /\ OneOf(f, SetName(mem, call.to, f, call.doc[f]), UnsetName(mem, call.to, f))

-----------------------------------------------------------------------------
(* Clone: what is initialized in the source is set in the destination, the *)
(* rest of the destination stays.  The names go first.                     *)

Clone(from, to) ==
    LET held == {f \in NameTexts \cup MetadataFields : <<from, f>> \in mem.on}
    IN  /\ NoCall
        /\ from # to
        /\ Begin("clone", to, [f \in held |-> Value(mem, <<from, f>>)])
        /\ UNCHANGED mem

Cloning(f) == call.how = "clone" /\ InTurn(NameOrder \o MetadataOrder, f)

CloneName(f) ==
    /\ Cloning(f)
    /\ OneOf(f, SetName(mem, call.to, f, call.doc[f]), UnsetName(mem, call.to, f))

CloneServerText(f) ==
    Cloning(f) /\ OneOf(f, SetServerText(mem, call.to, f, call.doc[f]), mem)

CloneValue(f) ==
    Cloning(f) /\ mem' = SetValue(mem, call.to, f, call.doc[f]) /\ Continue(f)

CloneKeyText(f) ==
    Cloning(f) /\ OneOf(f, SetKeyText(mem, call.to, f, call.doc[f]), mem)

-----------------------------------------------------------------------------
(* JSON.  A field that the document has not stays as it is; null is the    *)
(* text "null" or 0; numbers are 64 bits wide but are read as cJSON's int. *)

ParsedFields == MetadataTexts \cup Numbers \cup Flags

\* to_json_str: the document made of the initialized fields that are read back
ToJson(m, o) ==
    [f \in {g \in ParsedFields : <<o, g>> \in m.on} |-> Value(m, <<o, f>>)]

\* what the server may send; documents of several fields are those of ToJson
ServerDocs ==
    (UNION {[{f} -> Texts \cup {NULL}] : f \in MetadataTexts})
        \cup (UNION {[{f} -> ValuesOf(f) \cup {NULL}] : f \in Numbers \cup Flags})

FromJson(o) ==
    /\ NoCall
    /\ \E doc \in ServerDocs \cup {ToJson(mem, p) : p \in Atkeys} :
          Begin("json", o, doc)
    /\ UNCHANGED mem

Parsing(f) == call.how = "json" /\ InTurn(MetadataOrder, f)

GivenText(f) == IF call.doc[f] = NULL THEN NullText ELSE call.doc[f]

ParseServerText(f) ==
    Parsing(f) /\ OneOf(f, SetServerText(mem, call.to, f, GivenText(f)), mem)

\* Wrong on purpose: null is not told from a number
GivenNumberAsIs(f) == call.doc[f]

\* cJSON's valueint: a number that no int holds becomes the largest int
GivenNumber(f) ==
    IF call.doc[f] = NULL THEN 0 ELSE IF call.doc[f] > IntMax THEN IntMax ELSE call.doc[f]

ParseValue(f) ==
    Parsing(f) /\ mem' = SetValue(mem, call.to, f, GivenNumber(f)) /\ Continue(f)

ParseKeyText(f) ==
    Parsing(f) /\ OneOf(f, SetKeyText(mem, call.to, f, GivenText(f)), mem)

-----------------------------------------------------------------------------
AtkeyNext ==
    \/ \E o \in Atkeys :
          \/ \E f \in MetadataValues : \E v \in ValuesOf(f) : SetMetadataValue(o, f, v)
          \/ \E f \in KeyTexts, t \in Texts : SetMetadataText(o, f, t)
          \/ \E f \in NameTexts, t \in Texts : AtkeySetName(o, f, t)
          \/ \E f \in NameTexts : AtkeyUnsetName(o, f)
          \/ AtkeyFree(o)
          \/ \E type \in Types, t, u \in Texts : Create(o, type, t, u)
          \/ \E p \in Atkeys : Clone(p, o)
          \/ FromJson(o)
    \/ \E f \in PlaceFlags : CreateFlag(f)
    \/ \E f \in NameTexts : CreateName(f) \/ CloneName(f)
    \/ \E f \in ServerTexts : CloneServerText(f) \/ ParseServerText(f)
    \/ \E f \in MetadataValues : CloneValue(f)
    \/ \E f \in Numbers \cup Flags : ParseValue(f)
    \/ \E f \in KeyTexts : CloneKeyText(f) \/ ParseKeyText(f)
=============================================================================
