------------------------------ MODULE KeyFields ------------------------------
(***************************************************************************)
(* atclient_atkeys: the keys of an atSign, each as base64 text and, for    *)
(* the RSA keys, as the numbers parsed from it; and atchops_rsa_key, which *)
(* holds those numbers.  Populating from a keys file sets all the texts,   *)
(* then all the numbers, and stops at the first failure with what it had   *)
(* set before that in place.                                               *)
(***************************************************************************)
EXTENDS Fields

CONSTANTS
    KeySets,        \* the atkeys structures
    Base64Texts,    \* self_encryption_key_base64, pkam_public_key_base64 ...
    OptionalTexts,  \* apkam_symmetric_key_base64, enrollment_id: both in the file or unused
    RsaNumbers,     \* n, e, d, p, q of each RSA key
    RsaSource,      \* the base64 text each number is parsed from
    Base64Order, OptionalOrder, RsaOrder

ASSUME RsaSourceIsText == RsaSource \in [RsaNumbers -> Base64Texts]

\* the orders are of these fields, and all the base64 texts come before the numbers
ASSUME KeyOrders ==
    /\ RsaNumbers \cap Base64Texts = {}
    /\ Base64Order \in Seq(Base64Texts) /\ RsaOrder \in Seq(RsaNumbers)
    /\ OptionalOrder \in Seq(OptionalTexts)
    /\ \A f \in Base64Texts : \E i \in DOMAIN Base64Order : Base64Order[i] = f

KeySlots == KeySets \X (Base64Texts \cup OptionalTexts \cup RsaNumbers)

-----------------------------------------------------------------------------
(* RSA numbers                                                             *)

RsaHas(m, k, f) == <<k, f>> \in m.on

UnsetRsa(m, k, f) == Unmarked(Nulled(Freed(m, {<<k, f>>}), {<<k, f>>}), {<<k, f>>})

IfRsaHeld(m, k, f) == IF RsaHas(m, k, f) THEN UnsetRsa(m, k, f) ELSE m

SetRsa(m, k, f, t) ==
    LET unset == IfRsaHeld(m, k, f)
    IN  {Marked(Pointed(unset, <<k, f>>, b, t), {<<k, f>>}) : b \in Spare(unset)}

\* the numbers of the key whose base64 text is the field f
NumbersOf(f) == {g \in RsaNumbers : RsaSource[g] = f}

IsPopulated(m, k, f) == \A g \in NumbersOf(f) : RsaHas(m, k, g)

\* one number after the other: populate a key from a base64 text, generate, set_ne, set_nedpq
RsaPopulate(k, f, t) ==
    /\ NoCall
    /\ Begin("rsa", k, [g \in NumbersOf(f) |-> t])
    /\ UNCHANGED mem

\* a number that the source has not makes the clone fail there
RsaClone(j, k, f) ==
    /\ NoCall
    /\ j # k
    /\ Begin("rsa", k,
             [g \in NumbersOf(f) |-> IF RsaHas(mem, j, g) THEN Value(mem, <<j, g>>) ELSE NULL])
    /\ UNCHANGED mem

RsaStep(f) ==
    /\ call.how = "rsa" /\ InTurn(RsaOrder, f)
    /\ \/ call.doc[f] = NULL /\ Abort /\ UNCHANGED mem
       \/ /\ call.doc[f] # NULL
          /\ OneOf(f, SetRsa(mem, call.to, f, call.doc[f]), IfRsaHeld(mem, call.to, f))

RsaFree(k, f) ==
    NoCall /\ mem' = Unset(mem, {k} \X NumbersOf(f)) /\ UNCHANGED call

-----------------------------------------------------------------------------
(* Base64 texts                                                            *)

KeyHas(m, k, f) == <<k, f>> \in m.on

KeyMark(m, k, f, bit) == IF bit THEN Marked(m, {<<k, f>>}) ELSE Unmarked(m, {<<k, f>>})

UnsetBase64(m, k, f) == KeyMark(Nulled(Freed(m, {<<k, f>>}), {<<k, f>>}), k, f, FALSE)

IfBase64Held(m, k, f) == IF KeyHas(m, k, f) THEN UnsetBase64(m, k, f) ELSE m

SetBase64(m, k, f, t) ==
    LET unset == IfBase64Held(m, k, f)
    IN  {KeyMark(Pointed(unset, <<k, f>>, b, t), k, f, TRUE) : b \in Spare(unset)}

AtkeysSet(k, f, t) == NoCall /\ Either(SetBase64(mem, k, f, t), IfBase64Held(mem, k, f))

AtkeysFree(k) ==
    /\ NoCall
    /\ mem' = Unset(Unset(mem, {k} \X RsaNumbers), {k} \X (Base64Texts \cup OptionalTexts))
    /\ UNCHANGED call

\* the keys in a file are one set, t; the optional ones are taken when both are there
PopulateFromFile(k, t) ==
    /\ NoCall
    /\ \E optional \in {{}, OptionalTexts} :
          Begin("populate", k,
                [f \in Base64Texts \cup RsaNumbers \cup optional |-> t])
    /\ UNCHANGED mem

Populating(f) ==
    call.how = "populate" /\ InTurn(Base64Order \o RsaOrder \o OptionalOrder, f)

\* the text does not decode or decrypt, or does not parse
PopulateFails(f) == Populating(f) /\ Abort /\ UNCHANGED mem

PopulateText(f) ==
    /\ Populating(f)
    /\ OneOf(f, SetBase64(mem, call.to, f, call.doc[f]), IfBase64Held(mem, call.to, f))

\* the text a number is parsed from is read back from the structure
ParsedText(f) == Value(mem, <<call.to, RsaSource[f]>>)

PopulateRsa(f) ==
    /\ Populating(f)
    /\ OneOf(f, SetRsa(mem, call.to, f, ParsedText(f)), IfRsaHeld(mem, call.to, f))

-----------------------------------------------------------------------------
KeyNext ==
    \/ \E k \in KeySets :
          \/ \E f \in Base64Texts, t \in Texts : RsaPopulate(k, f, t)
          \/ \E f \in Base64Texts, j \in KeySets : RsaClone(j, k, f)
          \/ \E f \in Base64Texts : RsaFree(k, f)
          \/ \E f \in Base64Texts \cup OptionalTexts, t \in Texts : AtkeysSet(k, f, t)
          \/ \E t \in Texts : PopulateFromFile(k, t)
          \/ AtkeysFree(k)
    \/ \E f \in RsaNumbers : RsaStep(f) \/ PopulateRsa(f)
    \/ \E f \in Base64Texts \cup OptionalTexts : PopulateText(f)
    \/ \E f \in Base64Texts \cup OptionalTexts \cup RsaNumbers : PopulateFails(f)
=============================================================================
