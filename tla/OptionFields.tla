----------------------------- MODULE OptionFields -----------------------------
(***************************************************************************)
(* The options of a request: what a caller of a CRUD function or of the    *)
(* authentication adds to it.  Those of the CRUD functions have bits.      *)
(* Those of the authentication have none: a host that is not NULL is to be *)
(* freed, and a bit here stands for that.                                  *)
(*                                                                         *)
(* The bit of put_shared's iv is in byte 1 of an array of one byte.  That  *)
(* is the padding at the structure's end, which the init function clears   *)
(* and nothing else uses, and so it is a bit like the others here; a       *)
(* compiler may make something else of it.                                 *)
(***************************************************************************)
EXTENDS Fields

CONSTANTS
    PutShared, GetSelf, GetShared, GetPublic, Delete, GetAtkeys, Authenticate
                    \* the options of one request each; put_self and put_public have none

ASSUME OptionsAreDistinct ==
    \A i, j \in 1..7 :
        LET all == <<PutShared, GetSelf, GetShared, GetPublic, Delete, GetAtkeys, Authenticate>>
        IN  all[i] = all[j] => i = j

PutSharedTexts == {"shared_encryption_key", "iv"}
GetSharedTexts == {"shared_encryption_key", "iv"}
CacheFlags == {"bypass_cache", "store_atkey_metadata"}
HostTexts == {"atdirectory_host", "atserver_host"}
Ports == {"atdirectory_port", "atserver_port"}

TextOptions ==
    ({PutShared} \X PutSharedTexts) \cup ({GetShared} \X GetSharedTexts)
        \cup {<<GetAtkeys, "regex">>}
FlagOptions ==
    {<<GetSelf, "store_atkey_metadata">>} \cup ({GetShared, GetPublic} \X CacheFlags)
        \cup {<<Delete, "skip_shared_by_check">>, <<GetAtkeys, "show_hidden">>}
HostOptions == {Authenticate} \X HostTexts
PortOptions == {Authenticate} \X Ports
OptionSlots == TextOptions \cup FlagOptions \cup HostOptions \cup PortOptions

OptionsOf(o) == {s \in OptionSlots : s[1] = o}

\* what all the set and unset functions with bits do
UnsetOption(m, s) == Unmarked(Nulled(Freed(m, {s}), {s}), {s})

\* Wrong on purpose: all the options are freed to set one
IfOptionHeldAll(m, s) == Unset(m, OptionsOf(s[1]))

IfOptionHeld(m, s) == IF s \in m.on THEN UnsetOption(m, s) ELSE m

SetOptionText(m, s, t) ==
    LET unset == IfOptionHeld(m, s)
    IN  {Marked(Pointed(unset, s, b, t), {s}) : b \in Spare(unset)}

SetOptionFlag(m, s, v) == Marked(Placed(IfOptionHeld(m, s), s, v), {s})

Done(m) == NoCall /\ mem' = m /\ UNCHANGED call

-----------------------------------------------------------------------------
(* One operator for each request's options                                 *)

PutSharedSet(f, t) ==
    LET s == <<PutShared, f>>
    IN  NoCall /\ Either(SetOptionText(mem, s, t), IfOptionHeld(mem, s))
PutSharedUnset(f) == Done(UnsetOption(mem, <<PutShared, f>>))
PutSharedFree == Done(Unset(mem, OptionsOf(PutShared)))

GetSelfSet(v) == Done(SetOptionFlag(mem, <<GetSelf, "store_atkey_metadata">>, v))
GetSelfUnset == Done(UnsetOption(mem, <<GetSelf, "store_atkey_metadata">>))

GetSharedSet(f, t) ==
    LET s == <<GetShared, f>>
    IN  NoCall /\ Either(SetOptionText(mem, s, t), IfOptionHeld(mem, s))
GetSharedUnset(f) == Done(UnsetOption(mem, <<GetShared, f>>))
GetSharedSetFlag(f, v) == Done(SetOptionFlag(mem, <<GetShared, f>>, v))
GetSharedUnsetFlag(f) == Done(UnsetOption(mem, <<GetShared, f>>))
GetSharedFree == Done(Unset(mem, OptionsOf(GetShared)))

GetPublicSet(f, v) == Done(SetOptionFlag(mem, <<GetPublic, f>>, v))
GetPublicUnset(f) == Done(UnsetOption(mem, <<GetPublic, f>>))
GetPublicFree == Done(Unset(mem, OptionsOf(GetPublic)))

DeleteSet(v) == Done(SetOptionFlag(mem, <<Delete, "skip_shared_by_check">>, v))
DeleteUnset == Done(UnsetOption(mem, <<Delete, "skip_shared_by_check">>))

GetAtkeysSetRegex(t) ==
    LET s == <<GetAtkeys, "regex">>
    IN  NoCall /\ Either(SetOptionText(mem, s, t), IfOptionHeld(mem, s))
GetAtkeysUnsetRegex == Done(UnsetOption(mem, <<GetAtkeys, "regex">>))
GetAtkeysSetHidden(v) == Done(SetOptionFlag(mem, <<GetAtkeys, "show_hidden">>, v))
GetAtkeysUnsetHidden == Done(UnsetOption(mem, <<GetAtkeys, "show_hidden">>))
GetAtkeysFree == Done(Unset(mem, OptionsOf(GetAtkeys)))

-----------------------------------------------------------------------------
(* Authentication: the new host is allocated before the old one is freed   *)

UnsetHost(m, s) == Unmarked(Nulled(Freed(m, {s}), {s}), {s})

SetHost(m, s, t) == {Marked(Pointed(UnsetHost(m, s), s, b, t), {s}) : b \in Spare(m)}

AuthenticateSetHost(f, t) == NoCall /\ Either(SetHost(mem, <<Authenticate, f>>, t), mem)
AuthenticateUnset(f) == Done(UnsetHost(mem, <<Authenticate, f>>))
AuthenticateSetPort(f, v) == Done(Marked(Placed(mem, <<Authenticate, f>>, v), {<<Authenticate, f>>}))
AuthenticateFree == Done(Unset(mem, OptionsOf(Authenticate)))

-----------------------------------------------------------------------------
Requests == {PutShared, GetSelf, GetShared, GetPublic, Delete, GetAtkeys, Authenticate}

\* the calls on the options of the request o
OptionNext(o) ==
    \/ /\ o = PutShared
       /\ \/ \E f \in PutSharedTexts : (\E t \in Texts : PutSharedSet(f, t)) \/ PutSharedUnset(f)
          \/ PutSharedFree
    \/ o = GetSelf /\ ((\E v \in {0, 1} : GetSelfSet(v)) \/ GetSelfUnset)
    \/ /\ o = GetShared
       /\ \/ \E f \in GetSharedTexts : (\E t \in Texts : GetSharedSet(f, t)) \/ GetSharedUnset(f)
          \/ \E f \in CacheFlags :
                (\E v \in {0, 1} : GetSharedSetFlag(f, v)) \/ GetSharedUnsetFlag(f)
          \/ GetSharedFree
    \/ /\ o = GetPublic
       /\ \/ \E f \in CacheFlags : (\E v \in {0, 1} : GetPublicSet(f, v)) \/ GetPublicUnset(f)
          \/ GetPublicFree
    \/ o = Delete /\ ((\E v \in {0, 1} : DeleteSet(v)) \/ DeleteUnset)
    \/ /\ o = GetAtkeys
       /\ \/ (\E t \in Texts : GetAtkeysSetRegex(t)) \/ GetAtkeysUnsetRegex
          \/ (\E v \in {0, 1} : GetAtkeysSetHidden(v)) \/ GetAtkeysUnsetHidden
          \/ GetAtkeysFree
    \/ /\ o = Authenticate
       /\ \/ \E f \in HostTexts, t \in Texts : AuthenticateSetHost(f, t)
          \/ \E f \in Ports, v \in {0, 1} : AuthenticateSetPort(f, v)
          \/ \E f \in HostTexts \cup Ports : AuthenticateUnset(f)
          \/ AuthenticateFree
=============================================================================
