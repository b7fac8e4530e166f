---------------------------- MODULE MCFieldStores ----------------------------
(* FieldStores with one or two fields of each group.                         *)
EXTENDS FieldStores, FiniteSets, TLC

CONSTANTS a1, a2, k1, k2, f1, n1, p1, t1, t2, b1, b2, b3, b4

SomeNames == {"shared_by", "shared_with"}
SomeNameOrder == <<"shared_by", "shared_with">>
SomeMetadataOrder == <<"created_by", "ttl", "is_public", "enc_key_name">>
SomeNotificationTexts == {"value"}
SomeNotificationOrder == <<"value", "epoch_millis", "is_encrypted">>
SomeParamTexts == {"id", "atkey", "value"}
SomeBase64 == <<"pkam_public_key_base64">>
SomeRsa == <<"n", "e">>
SomeSource ==
    [n |-> SomeBase64[1], e |-> SomeBase64[1]]
ElementsOf(s) == {s[i] : i \in 1..Len(s)}
SomeBase64Texts == ElementsOf(SomeBase64)
SomeRsaNumbers == ElementsOf(SomeRsa)
SomeOptional == <<"enrollment_id">>
SomeOptionalTexts == ElementsOf(SomeOptional)

SomeFileOrder == <<"aes_pkam_public_key_str", "self_encryption_key_str", "enrollment_id_str">>

SmallHeap == {b1, b2, b3}
Heaps == [f \in Families |-> IF f = "keys" THEN Blocks ELSE SmallHeap]

\* calls on atkeys begin with at most two of their fields initialized
Few == used = "atkeys" /\ call = Idle => Cardinality(mem.on) <= 2

Symmetry ==
    Permutations(SmallHeap) \cup Permutations(Atkeys) \cup Permutations(KeySets)
=============================================================================
