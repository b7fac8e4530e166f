---------------------------- MODULE KeyFileFields ----------------------------
(***************************************************************************)
(* atclient_atkeys_file: the texts of a keys file, as they are in its JSON *)
(* or as they will be.  Reading the JSON stops at the first mandatory      *)
(* field that is not there; what was read before it stays.                 *)
(***************************************************************************)
EXTENDS Fields

CONSTANTS
    KeyFiles,       \* the atkeys_file structures
    FileTexts,      \* aes_pkam_public_key_str ... self_encryption_key_str
    FileOptional,   \* apkam_symmetric_key_str, enrollment_id_str
    FileOrder       \* all of them, in the order they are read

FileSlots == KeyFiles \X (FileTexts \cup FileOptional)

FileHas(m, k, f) == <<k, f>> \in m.on

FileMark(m, k, f, bit) == IF bit THEN Marked(m, {<<k, f>>}) ELSE Unmarked(m, {<<k, f>>})

UnsetFileText(m, k, f) == FileMark(Nulled(Freed(m, {<<k, f>>}), {<<k, f>>}), k, f, FALSE)

IfFileTextHeld(m, k, f) == IF FileHas(m, k, f) THEN UnsetFileText(m, k, f) ELSE m

SetFileText(m, k, f, t) ==
    LET unset == IfFileTextHeld(m, k, f)
    IN  {FileMark(Pointed(unset, <<k, f>>, b, t), k, f, TRUE) : b \in Spare(unset)}

KeyFileSet(k, f, t) ==
    NoCall /\ Either(SetFileText(mem, k, f, t), IfFileTextHeld(mem, k, f))

KeyFileFree(k) == NoCall /\ mem' = Unset(mem, {k} \X (FileTexts \cup FileOptional)) /\ UNCHANGED call

\* any mandatory field may be missing, of the optional ones only those there are read
KeyFileFromString(k) ==
    /\ NoCall
    /\ \E optional \in SUBSET FileOptional :
       \E doc \in [FileTexts \cup optional -> Texts \cup {NULL}] :
          /\ \A f \in optional : doc[f] # NULL
          /\ Begin("file", k, doc)
    /\ UNCHANGED mem

KeyFileStep(f) ==
    /\ call.how = "file" /\ InTurn(FileOrder, f)
    /\ \/ call.doc[f] = NULL /\ Abort /\ UNCHANGED mem
       \/ /\ call.doc[f] # NULL
          /\ OneOf(f, SetFileText(mem, call.to, f, call.doc[f]), IfFileTextHeld(mem, call.to, f))

KeyFileNext ==
    \/ \E k \in KeyFiles :
          \/ \E f \in FileTexts \cup FileOptional, t \in Texts : KeyFileSet(k, f, t)
          \/ KeyFileFromString(k)
          \/ KeyFileFree(k)
    \/ \E f \in FileTexts \cup FileOptional : KeyFileStep(f)
=============================================================================
