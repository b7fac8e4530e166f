-------------------------- MODULE NotifyParamFields --------------------------
(***************************************************************************)
(* atclient_notify_params: what an application says about a notification   *)
(* it sends.  The atkey is a clone the parameters own; here it is one      *)
(* block, and cloning it is one allocation more that may fail.             *)
(***************************************************************************)
EXTENDS Fields

CONSTANTS
    Params,         \* the parameter structures
    ParamTexts,     \* id, atkey, value, notifier, shared_encryption_key
    ParamValues,    \* should_encrypt, operation ... notification_expiry
    ParamMax        \* the largest value looked at

ASSUME ParamMaxIsNumber == ParamMax \in Nat

ASSUME ParamKinds == ParamTexts \cap ParamValues = {} /\ {"id", "atkey"} \subseteq ParamTexts

ParamSlots == Params \X (ParamTexts \cup ParamValues)

ParamHas(m, p, f) == <<p, f>> \in m.on

ParamMark(m, p, f, bit) == IF bit THEN Marked(m, {<<p, f>>}) ELSE Unmarked(m, {<<p, f>>})

\* a value that is unset takes its default, which no one reads as one that was set
UnsetParam(m, p, f) ==
    IF f \in ParamTexts
    THEN ParamMark(Nulled(Freed(m, {<<p, f>>}), {<<p, f>>}), p, f, FALSE)
    ELSE ParamMark(Nulled(m, {<<p, f>>}), p, f, FALSE)

IfParamHeld(m, p, f) == IF ParamHas(m, p, f) THEN UnsetParam(m, p, f) ELSE m

\* set_id never sets the bit
SetParamId(m, p, t) ==
    LET unset == IfParamHeld(m, p, "id")
    IN  {Pointed(unset, <<p, "id">>, b, t) : b \in Spare(unset)}

\* the block for the atkey is kept, and its bit not set, when the clone into it fails
SetParamAtkey(m, p, t) ==
    LET unset == IfParamHeld(m, p, "atkey")
        failed == {Pointed(unset, <<p, "atkey">>, b, t) : b \in Spare(unset)}
    IN  failed \cup {ParamMark(c, p, "atkey", TRUE) : c \in failed}

SetParamText(m, p, f, t) ==
    LET unset == IfParamHeld(m, p, f)
    IN  {ParamMark(Pointed(unset, <<p, f>>, b, t), p, f, TRUE) : b \in Spare(unset)}

SetParamValue(m, p, f, v) == ParamMark(Placed(m, <<p, f>>, v), p, f, TRUE)

-----------------------------------------------------------------------------
\* malloc's NULL is stored in the field
MallocFailed(m, p, f) == Nulled(IfParamHeld(m, p, f), {<<p, f>>})

ParamSetId(p, t) == NoCall /\ Either(SetParamId(mem, p, t), MallocFailed(mem, p, "id"))

ParamSetAtkey(p, t) == NoCall /\ Either(SetParamAtkey(mem, p, t), MallocFailed(mem, p, "atkey"))

ParamSetText(p, f, t) == NoCall /\ Either(SetParamText(mem, p, f, t), MallocFailed(mem, p, f))

ParamSetValue(p, f, v) == NoCall /\ mem' = SetParamValue(mem, p, f, v) /\ UNCHANGED call

ParamUnset(p, f) == NoCall /\ mem' = UnsetParam(mem, p, f) /\ UNCHANGED call

\* every unset function, then memset
ParamsFree(p) ==
    /\ NoCall
    /\ mem' = Unset(mem, {p} \X (ParamTexts \cup ParamValues))
    /\ UNCHANGED call

ParamNext ==
    \E p \in Params :
       \/ \E t \in Texts : ParamSetId(p, t) \/ ParamSetAtkey(p, t)
       \/ \E f \in ParamTexts \ {"id", "atkey"}, t \in Texts : ParamSetText(p, f, t)
       \/ \E f \in ParamValues, v \in 0..ParamMax : ParamSetValue(p, f, v)
       \/ \E f \in ParamTexts \cup ParamValues : ParamUnset(p, f)
       \/ ParamsFree(p)
=============================================================================
