----------------------------- MODULE MetadataText -----------------------------
(***************************************************************************)
(* The metadata of an atKey as the fragment of a command,                  *)
(* atclient_atkey_metadata_to_protocol_str: a buffer of the length that    *)
(* atclient_atkey_metadata_protocol_strlen adds up, in which each field is *)
(* printed where the counted lengths say.  Numbers are int64_t, counted as *)
(* such and printed as long, which is narrower on some targets.  A label   *)
(* and the text of a flag are one character to both, and both know the     *)
(* digits of a number by DigitCount: what can differ here is which fields  *)
(* are counted and printed, the sign and the width.                        *)
(***************************************************************************)
EXTENDS Integers, Sequences, SequencesExt, FiniteSets

CONSTANTS
    NumberFields, FlagFields, TextFields,   \* the kinds of the fields
    FieldOrder,             \* all of them, in the order they are printed
    FieldNumbers,           \* numbers a field may have
    MaxTextLen,             \* bound: characters of a text
    LongHalf,               \* a long is in -LongHalf .. LongHalf - 1
    MaxPower,               \* bound: the numbers are less than 10^(MaxPower + 1)
    MaxFields               \* bound: fields set

FieldNames == NumberFields \cup FlagFields \cup TextFields
FieldCount == Len(FieldOrder)   \* there are seventeen

ASSUME TextBounds == /\ MaxTextLen \in Nat /\ MaxFields \in Nat /\ MaxPower \in Nat
                     /\ LongHalf \in Nat \ {0} /\ FieldNumbers \subseteq Int

ASSUME FieldKinds ==
    /\ NumberFields \cap FlagFields = {}
    /\ (NumberFields \cup FlagFields) \cap TextFields = {}
    /\ FieldOrder \in Seq(FieldNames)

VARIABLE metadata           \* the value of every field that is set

NUL == "NUL"

Magnitude(n) == IF n < 0 THEN -n ELSE n

DigitCount(n) == IF n = 0 THEN 1 ELSE Cardinality({i \in 0 .. MaxPower : 10^i <= Magnitude(n)})

\* Wrong on purpose: the minus sign is not counted
Int64StrlenUnsigned(n) == DigitCount(n)

\* atclient_string_utils_int64_strlen
Int64Strlen(n) == (IF n < 0 THEN 1 ELSE 0) + DigitCount(n)

AsLong(n) == ((n + LongHalf) % (2 * LongHalf)) - LongHalf

\* the characters of "%ld"
Decimal(n) ==
    LET digits == DigitCount(n)
        sign == IF n < 0 THEN 1 ELSE 0
    IN  [i \in 1 .. sign + digits |->
            IF i <= sign THEN <<"-">> ELSE <<"digit", (Magnitude(n) \div 10^(digits + sign - i)) % 10>>]

\* a field's name and its colons, and each of the flags' values, are one character
FieldStrlen(f, v) == 1 + (CASE f \in NumberFields -> Int64Strlen(v)
                            [] f \in FlagFields -> 1
                            [] f \in TextFields -> v)

Printed(f, v) == <<<<":", f>>>> \o (CASE f \in NumberFields -> Decimal(v)
                                     [] f \in FlagFields -> <<<<"flag", v>>>>
                                     [] f \in TextFields -> [i \in 1 .. v |-> <<"char", f>>])

FieldAsLong(f, v) == IF f \in NumberFields THEN AsLong(v) ELSE v

\* the length after each of the fields has been looked at
LengthUpTo(m) ==
    LET len[n \in 0 .. FieldCount] ==
            IF n = 0 THEN 0
            ELSE len[n - 1] + (IF FieldOrder[n] \in DOMAIN m
                               THEN FieldStrlen(FieldOrder[n], m[FieldOrder[n]]) ELSE 0)
    IN  len

ProtocolStrlen(m) == LengthUpTo(m)[FieldCount]

\* sprintf at pos: the characters and a terminator over what is there
Sprintf(buf, pos, chars) ==
    LET end == pos + Len(chars) + 1
    IN  [i \in 1 .. (IF end > Len(buf) THEN end ELSE Len(buf)) |->
            IF i \in pos + 1 .. end THEN (IF i = end THEN <<NUL>> ELSE chars[i - pos]) ELSE buf[i]]

\* the buffer of size characters and the position in it, after each of the fields
PrintedUpTo(m, size) ==
    LET printed[n \in 0 .. FieldCount] ==
            IF n = 0 THEN [buf |-> [i \in 1 .. size |-> <<NUL>>], pos |-> 0]
            ELSE LET before == printed[n - 1]
                     f == FieldOrder[n]
                 IN  IF f \notin DOMAIN m THEN before
                     ELSE [buf |-> Sprintf(before.buf, before.pos, Printed(f, FieldAsLong(f, m[f]))),
                           pos |-> before.pos + FieldStrlen(f, m[f])]
    IN  printed

ToProtocolStr(m) ==
    LET expected == ProtocolStrlen(m)
        full == PrintedUpTo(m, expected + 1)[FieldCount]
        length == SelectInSeq(full.buf, LAMBDA c : c = <<NUL>>) - 1
    IN  [ret     |-> IF length = expected THEN 0 ELSE 1,
         text    |-> SubSeq(full.buf, 1, length),
         overrun |-> Len(full.buf) > expected + 1]

-----------------------------------------------------------------------------
MetadataInit == metadata = [f \in {} |-> 0]

ValuesOf(f) == CASE f \in NumberFields -> FieldNumbers
                 [] f \in FlagFields -> {0, 1}
                 [] f \in TextFields -> 0 .. MaxTextLen

SetField(f, v) ==
    /\ Cardinality(DOMAIN metadata \cup {f}) <= MaxFields
    /\ metadata' = [g \in DOMAIN metadata \cup {f} |-> IF g = f THEN v ELSE metadata[g]]

MetadataNext == \E f \in FieldNames : \E v \in ValuesOf(f) : SetField(f, v)

-----------------------------------------------------------------------------
FitsLong(m) == \A f \in DOMAIN m \cap NumberFields : m[f] \in -LongHalf .. LongHalf - 1

\* Whatever fields are set, the length counted before and the text printed
\* after it, in two functions of seventeen cases each, are of each other: the
\* printing succeeds, stays inside the buffer, and every field is there, whole
\* and in order.  The exception is a number that no long of the target holds:
\* a time to live past 24 days is printed as another number where a long has 32
\* bits (atclient_metadata.c:629), and the length compared in the end tells
\* only if it differs in digits.
MetadataWhole ==
    FitsLong(metadata) =>
        LET r == ToProtocolStr(metadata)
        IN  /\ r.ret = 0 /\ ~r.overrun
            /\ r.text = FlattenSeq([i \in 1 .. FieldCount |->
                            IF FieldOrder[i] \in DOMAIN metadata
                            THEN Printed(FieldOrder[i], metadata[FieldOrder[i]]) ELSE <<>>])
=============================================================================
