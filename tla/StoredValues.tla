----------------------------- MODULE StoredValues -----------------------------
(***************************************************************************)
(* The values this atSign stores, for itself or for another, and the IV    *)
(* each is encrypted under.  A put names the IV in the metadata of the     *)
(* caller's atkey, which the update command carries; a get has to find it  *)
(* again in the metadata the atServer answers, and reads that into the     *)
(* caller's atkey (self keys) or into one of its own (shared keys).        *)
(* Programs from before IVs name none and encrypt under zeroes.            *)
(* The values themselves are left out: under AES-CTR any IV decrypts, and  *)
(* the right one is the one the value was encrypted under.                 *)
(***************************************************************************)
CONSTANTS
    Kinds,      \* "self", "shared": one key of each
    Atkeys,     \* the application's atkey structures
    Ivs         \* the IVs that are generated

VARIABLES
    stored,     \* the values at the atServer: what each is under, what its metadata says
    ivNonce,    \* the iv_nonce of each atkey's metadata
    got         \* what the gets that returned 0 gave: the last one

valueVars == <<stored, ivNonce, got>>

NONE == "none"              \* not there
ZEROES == "zeroes"          \* the legacy IV
NULLTEXT == "null"          \* the text null, from a JSON null
GARBAGE == "garbage"        \* what base64 makes of it, and the stack behind it

\* an IV is 24 characters of base64
ASSUME IvsAreIvs == Ivs \cap {NONE, ZEROES, NULLTEXT, GARBAGE} = {}

ValuesInit ==
    /\ stored = [t \in {} |-> NONE]
    /\ ivNonce = [k \in Atkeys |-> NONE]
    /\ got = {}

\* atchops_iv_generate never gives the same one twice
Generated == Ivs \ ({ivNonce[k] : k \in Atkeys} \cup {stored[t].under : t \in DOMAIN stored})

Store(t, under, says) ==
    stored' = [u \in DOMAIN stored \cup {t} |->
                  IF u = t THEN [under |-> under, says |-> says] ELSE stored[u]]

\* Wrong on purpose: the command is built before the IV is in the metadata
PutStale(t, k) ==
    \E iv \in Generated :
        /\ ivNonce' = [ivNonce EXCEPT ![k] = iv]
        /\ \/ Store(t, iv, ivNonce[k])
           \/ UNCHANGED stored
        /\ UNCHANGED got

\* the atkey has the new IV even when the command fails or gets lost
Put(t, k) ==
    \E iv \in Generated :
        /\ ivNonce' = [ivNonce EXCEPT ![k] = iv]
        /\ \/ Store(t, iv, iv)
           \/ UNCHANGED stored
        /\ UNCHANGED got

\* a program without IVs; the atServer may leave the field out or send a null
LegacyPut(t) ==
    /\ \E says \in {NONE, NULLTEXT} : Store(t, ZEROES, says)
    /\ UNCHANGED <<ivNonce, got>>

\* atclient_atkey_metadata_from_json_str, over metadata that says m
Read(m, says) == IF says = NONE THEN m ELSE says

IvOf(m) == CASE m = NONE -> ZEROES [] m = NULLTEXT -> GARBAGE [] OTHER -> m

\* what the IV is taken from
Consulted(t, k) == Read(IF t = "self" THEN ivNonce[k] ELSE NONE, stored[t].says)

\* an allocation may fail after the metadata was read
Get(t, k, store) ==
    /\ t \in DOMAIN stored
    /\ \/ got' = {[of    |-> stored[t],
                   fresh |-> ivNonce[k] = NONE,
                   right |-> IvOf(Consulted(t, k)) = stored[t].under]}
       \/ UNCHANGED got
    /\ ivNonce' = IF t = "self" \/ store THEN [ivNonce EXCEPT ![k] = Read(@, stored[t].says)] ELSE ivNonce
    /\ UNCHANGED stored

\* atclient_atkey_free and init; a put that could not store its IV leaves the same
Renew(k) == ivNonce' = [ivNonce EXCEPT ![k] = NONE] /\ UNCHANGED <<stored, got>>

ValuesNext ==
    \/ \E t \in Kinds, k \in Atkeys :
          \/ Put(t, k)
          \/ \E store \in BOOLEAN : Get(t, k, store)
    \/ \E t \in Kinds : LegacyPut(t)
    \/ \E k \in Atkeys : Renew(k)

-----------------------------------------------------------------------------
\* A get that returns 0 gives back what was stored: always if this library
\* stored it, whichever atkey structure is used and whatever was read into it
\* or failed on it before; and if a program without IVs did, when the structure
\* is a fresh one.  The exceptions the code has are a JSON null, which is kept as the
\* text "null" and decoded as an IV (atclient_metadata.c:2682), and a self key
\* read with a structure that still names the IV of an earlier put or get
\* (atclient_atclient_get_self_key.c:124).
ValuesComeBack ==
    \A g \in got :
        \/ g.right
        \/ g.of.under = ZEROES /\ (g.of.says = NULLTEXT \/ ~g.fresh)
=============================================================================
