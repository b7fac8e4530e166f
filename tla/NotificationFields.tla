-------------------------- MODULE NotificationFields --------------------------
(***************************************************************************)
(* atclient_atnotification: what the monitor fills from the JSON of one    *)
(* notification and decrypts.  A field that is null in the JSON is         *)
(* initialized and NULL.  decrypted_value belongs to the notification only *)
(* when is_encrypted says so.                                              *)
(***************************************************************************)
EXTENDS Fields

CONSTANTS
    Notifications,      \* the notification structures
    NotificationTexts,  \* id, from, ... ske_enc_algo: the texts but decrypted_value
    NotificationNumbers,\* epoch_millis
    NotificationOrder,  \* the order in which the JSON is read
    EpochMax,           \* the largest int: the JSON's number is read as one
    WrongType           \* a JSON value that is neither null nor of the type expected

ASSUME EpochMaxIsNumber == EpochMax \in Nat

NotificationValues == NotificationNumbers \cup {"is_encrypted"}
NotificationFieldNames == NotificationTexts \cup NotificationValues \cup {"decrypted_value"}
NotificationSlots == Notifications \X NotificationFieldNames

ASSUME NotificationKinds ==
    /\ NotificationTexts \cap NotificationValues = {}
    /\ "decrypted_value" \notin NotificationTexts \cup NotificationNumbers
    /\ "is_encrypted" \notin NotificationNumbers /\ "value" \in NotificationTexts

NotificationHas(m, n, f) == <<n, f>> \in m.on

NotificationMark(m, n, f, bit) ==
    IF bit THEN Marked(m, {<<n, f>>}) ELSE Unmarked(m, {<<n, f>>})

UnsetNotificationText(m, n, f) ==
    NotificationMark(Nulled(Freed(m, {<<n, f>>}), {<<n, f>>}), n, f, FALSE)

UnsetNotificationValue(m, n, f) == NotificationMark(Nulled(m, {<<n, f>>}), n, f, FALSE)

IsEncrypted(m, n) == NotificationHas(m, n, "is_encrypted") /\ m.at[<<n, "is_encrypted">>] = 1

\* the decrypted value is taken for the value itself unless is_encrypted is set
UnsetDecryptedValue(m, n) ==
    LET s == <<n, "decrypted_value">>
    IN  NotificationMark(Nulled(IF IsEncrypted(m, n) THEN Freed(m, {s}) ELSE m, {s}),
                         n, "decrypted_value", FALSE)

UnsetNotificationField(m, n, f) ==
    CASE f = "decrypted_value" -> UnsetDecryptedValue(m, n)
      [] f \in NotificationTexts -> UnsetNotificationText(m, n, f)
      [] f \in NotificationValues -> UnsetNotificationValue(m, n, f)

IfHeld(m, n, f) == IF NotificationHas(m, n, f) THEN UnsetNotificationField(m, n, f) ELSE m

SetNotificationText(m, n, f, t) ==
    LET unset == IfHeld(m, n, f)
    IN  {NotificationMark(Pointed(unset, <<n, f>>, b, t), n, f, TRUE) : b \in Spare(unset)}

SetNotificationValue(m, n, f, v) ==
    NotificationMark(Placed(IfHeld(m, n, f), <<n, f>>, v), n, f, TRUE)

-----------------------------------------------------------------------------
NotificationSetText(n, f, t) ==
    NoCall /\ Either(SetNotificationText(mem, n, f, t), IfHeld(mem, n, f))

SetDecryptedValue(n, t) ==
    /\ NoCall
    /\ Either(SetNotificationText(mem, n, "decrypted_value", t), IfHeld(mem, n, "decrypted_value"))

NotificationSetValue(n, f, v) ==
    NoCall /\ mem' = SetNotificationValue(mem, n, f, v) /\ UNCHANGED call

NotificationUnset(n, f) ==
    NoCall /\ mem' = UnsetNotificationField(mem, n, f) /\ UNCHANGED call

\* the monitor on a notification it has just read that is not encrypted:
\* decrypted_value is value itself, and its bit is not set
DecryptPlain(n) ==
    /\ NoCall
    /\ NotificationHas(mem, n, "is_encrypted") /\ ~IsEncrypted(mem, n)
    /\ NotificationHas(mem, n, "value") /\ ~NotificationHas(mem, n, "decrypted_value")
    /\ mem' = Placed(mem, <<n, "decrypted_value">>, mem.at[<<n, "value">>])
    /\ UNCHANGED call

\* Wrong on purpose: is_encrypted is unset before decrypted_value, which depends on it
NotificationFreedInOrder(m, n) ==
    UnsetDecryptedValue(
        Unset(m, {n} \X (NotificationFieldNames \ {"decrypted_value"})), n)

\* decrypted_value goes while is_encrypted is still there
NotificationFreed(m, n) ==
    Unset(UnsetDecryptedValue(m, n), {n} \X (NotificationFieldNames \ {"decrypted_value"}))

NotificationFree(n) == NoCall /\ mem' = NotificationFreed(mem, n) /\ UNCHANGED call

-----------------------------------------------------------------------------
(* JSON: null is kept as an initialized NULL; a field of another type than *)
(* expected ends the call, with the fields before it set.                  *)

NotificationDocs ==
    (UNION {[S -> Texts \cup {NULL, WrongType}] : S \in SUBSET NotificationTexts})
        \cup (UNION {[{f} -> (0..EpochMax + 1) \cup {WrongType}] : f \in NotificationNumbers})
        \cup [{"is_encrypted"} -> {0, 1, WrongType}]

NotificationFromJson(n) ==
    /\ NoCall
    /\ \E doc \in NotificationDocs : Begin("notification", n, doc)
    /\ UNCHANGED mem

Reading(f) == call.how = "notification" /\ InTurn(NotificationOrder, f)

ReadWrongType(f) ==
    Reading(f) /\ call.doc[f] = WrongType /\ Abort /\ UNCHANGED mem

ReadNotificationText(f) ==
    /\ Reading(f)
    /\ call.doc[f] \in Texts
    /\ OneOf(f, SetNotificationText(mem, call.to, f, call.doc[f]), IfHeld(mem, call.to, f))

ReadNotificationNull(f) ==
    /\ Reading(f)
    /\ call.doc[f] = NULL
    /\ mem' = NotificationMark(UnsetNotificationText(mem, call.to, f), call.to, f, TRUE)
    /\ Continue(f)

ReadNotificationNumber(f) ==
    /\ Reading(f)
    /\ call.doc[f] # WrongType
    /\ mem' = SetNotificationValue(mem, call.to, f,
                                   IF call.doc[f] > EpochMax THEN EpochMax ELSE call.doc[f])
    /\ Continue(f)

ReadNotificationFlag(f) ==
    /\ Reading(f)
    /\ call.doc[f] # WrongType
    /\ mem' = SetNotificationValue(mem, call.to, f, call.doc[f])
    /\ Continue(f)

-----------------------------------------------------------------------------
NotificationNext ==
    \/ \E n \in Notifications :
          \/ \E f \in NotificationTexts, t \in Texts : NotificationSetText(n, f, t)
          \/ \E t \in Texts : SetDecryptedValue(n, t)
          \/ \E f \in NotificationNumbers, v \in 0..EpochMax : NotificationSetValue(n, f, v)
          \/ \E v \in {0, 1} : NotificationSetValue(n, "is_encrypted", v)
          \/ \E f \in NotificationFieldNames : NotificationUnset(n, f)
          \/ DecryptPlain(n)
          \/ NotificationFree(n)
          \/ NotificationFromJson(n)
    \/ \E f \in NotificationTexts \cup NotificationValues : ReadWrongType(f)
    \/ \E f \in NotificationTexts : ReadNotificationText(f) \/ ReadNotificationNull(f)
    \/ \E f \in NotificationNumbers : ReadNotificationNumber(f)
    \/ ReadNotificationFlag("is_encrypted")
=============================================================================
