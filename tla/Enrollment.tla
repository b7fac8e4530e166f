------------------------------ MODULE Enrollment ------------------------------
(***************************************************************************)
(* Onboarding and enrollment: how an atSign gets its first keys and how    *)
(* another device gets keys of its own.  Each is a command of many steps,  *)
(* several of them calls to the atServer, and ends with a keys file; after *)
(* any step the device may be switched off, and of any call the answer may *)
(* be lost although the atServer has done what was asked.                  *)
(*                                                                         *)
(* Keys are known by the run that generated them.  The atServer, the owner *)
(* who approves requests and the operator who runs the commands and clears *)
(* away keys files are external.                                           *)
(***************************************************************************)
EXTENDS Naturals, FiniteSets, Sequences

CONSTANTS
    First, Second,  \* the device that onboards the atSign, the one that enrolls
    MaxRuns,        \* bound: runs that generate keys
    MaxTries        \* the polls for an approval, 50 in the code

ASSUME BoundsAreNumbers == MaxRuns \in Nat /\ MaxTries \in Nat \ {0}
ASSUME DevicesDiffer == First # Second

Devices == {First, Second}
Runs == 1..MaxRuns
None == 0   \* no run

VARIABLES
    cram,       \* whether the CRAM secret is still on the atServer
    status,     \* of the enrollment of each run
    legacy,     \* the run whose APKAM key the atServer takes without an enrollment id
    public,     \* the run whose public encryption key is on the atServer
    under,      \* the run under whose public key an enrollment's symmetric key was sent
    stored,     \* the run whose keys the owner left for an enrollment
    pc, keys, auth, tries, ret, file,   \* of each device
    hurt,       \* history: what happened to the file without the command's notice
    runs        \* runs that generated keys so far

serverVars == <<cram, status, legacy, public, under, stored>>
deviceVars == <<pc, keys, auth, tries, ret, file, hurt>>
vars == <<serverVars, deviceVars, runs>>

-----------------------------------------------------------------------------
(* Keys and the keys file                                                  *)

NoKeys == [pkam |-> None, public |-> None, private |-> None, self |-> None, symmetric |-> None,
           id |-> None]

\* read in this order, the last two only if they are there
Mandatory == <<"pkamPublic", "pkamPrivate", "encryptPublic", "encryptPrivate", "self">>
FileFields == {Mandatory[i] : i \in DOMAIN Mandatory} \cup {"symmetric", "id"}

NoFile == [state |-> "none", has |-> {}, keys |-> NoKeys]
CutFile == [NoFile EXCEPT !.state = "cut"]

\* the optional fields that are not set are not written
FieldsOf(k) == FileFields \ ((IF k.symmetric = None THEN {"symmetric"} ELSE {}) \cup
                             (IF k.id = None THEN {"id"} ELSE {}))

\* what reading a file comes to: a JSON object that is cut off is none, and of the
\* mandatory fields only the first is missed; the others' texts are used as they are
Reading(f) ==
    IF f.state # "whole" \/ Mandatory[1] \notin f.has THEN "refused"
    ELSE IF \E i \in DOMAIN Mandatory : Mandatory[i] \notin f.has THEN "crash" ELSE "ok"

\* the enrollment id is taken only together with a symmetric key
Loaded(f) ==
    IF {"symmetric", "id"} \subseteq f.has THEN f.keys
    ELSE [f.keys EXCEPT !.symmetric = None, !.id = None]

\* the atServer's answer to a pkam: with these keys
Accepts(k) == IF k.id = None THEN legacy = k.pkam /\ k.pkam # None
              ELSE status[k.id] = "approved" /\ k.pkam = k.id

-----------------------------------------------------------------------------
(* Steps of a device                                                       *)

Goto(d, p) == pc' = [pc EXCEPT ![d] = p]

\* the command returns: everything it held is freed, and the connection closed
End(d, r) ==
    /\ Goto(d, "idle") /\ ret' = [ret EXCEPT ![d] = r]
    /\ keys' = [keys EXCEPT ![d] = NoKeys] /\ auth' = [auth EXCEPT ![d] = "none"]
    /\ tries' = [tries EXCEPT ![d] = 0]

\* any step may fail: a call, its answer, an allocation, an operation on keys
Fails(d) ==
    /\ pc[d] # "idle"
    /\ End(d, "failed")
    /\ UNCHANGED <<serverVars, file, hurt, runs>>

\* the device is switched off
Crash(d) ==
    /\ pc[d] # "idle"
    /\ End(d, "crashed")
    /\ UNCHANGED <<serverVars, file, hurt, runs>>

\* a call the atServer obeyed, whose answer came or not
Answered(d, next) ==
    \/ Goto(d, next) /\ UNCHANGED <<keys, auth, tries, ret>>
    \/ End(d, "failed")

\* Wrong on purpose: a keys file that is there is not looked for
StartOver(d, first) ==
    /\ pc[d] = "idle" /\ Goto(d, first)
    /\ ret' = [ret EXCEPT ![d] = "running"]
    /\ UNCHANGED <<serverVars, keys, auth, tries, file, hurt, runs>>

\* atauth_send_enroll_request, of a request the atServer took: its answer came, could
\* be parsed and had the id the keys are to have, or did not
Enrolled(d, k, next) ==
    \/ Goto(d, next) /\ keys' = [keys EXCEPT ![d] = k] /\ UNCHANGED <<auth, tries, ret>>
    \/ End(d, "failed")

\* a keys file that is there already is not overwritten
Start(d, first) ==
    /\ pc[d] = "idle"
    /\ IF file[d].state # "none"
       THEN ret' = [ret EXCEPT ![d] = "refused"] /\ UNCHANGED pc
       ELSE ret' = [ret EXCEPT ![d] = "running"] /\ Goto(d, first)
    /\ UNCHANGED <<serverVars, keys, auth, tries, file, hurt, runs>>

-----------------------------------------------------------------------------
(* Onboarding                                                              *)

\* an allocation that fails lets an authentication return 0 without it
CramAuthenticate ==
    /\ pc[First] = "cram"
    /\ \/ cram /\ auth' = [auth EXCEPT ![First] = "cram"]
       \/ UNCHANGED auth
    /\ Goto(First, "request")
    /\ UNCHANGED <<serverVars, keys, tries, ret, file, hurt, runs>>

GeneratedFirst(r) == [pkam |-> r, public |-> r, private |-> r, self |-> r, symmetric |-> None,
                      id |-> r]

\* Wrong on purpose: the keys are used and not written
RequestFirstUnwritten ==
    /\ pc[First] = "request" /\ auth[First] = "cram" /\ runs < MaxRuns
    /\ runs' = runs + 1 /\ status' = [status EXCEPT ![runs + 1] = "approved"]
    /\ legacy' = runs + 1
    /\ Goto(First, "pkam") /\ keys' = [keys EXCEPT ![First] = GeneratedFirst(runs + 1)]
    /\ UNCHANGED <<cram, public, under, stored, auth, tries, ret, file, hurt>>

\* generate keys, send the request; one of a CRAM connection is approved at once
RequestFirst ==
    /\ pc[First] = "request" /\ auth[First] = "cram" /\ runs < MaxRuns
    /\ LET r == runs + 1
       IN  /\ runs' = r
           /\ status' = [status EXCEPT ![r] = "approved"] /\ legacy' = r
           /\ Enrolled(First, GeneratedFirst(r), "open")
    /\ UNCHANGED <<cram, public, under, stored, file, hurt>>

\* disconnect, and authenticate with the keys
PkamAuthenticate ==
    /\ pc[First] = "pkam"
    /\ \/ Accepts(keys[First]) /\ auth' = [auth EXCEPT ![First] = "pkam"]
       \/ auth' = [auth EXCEPT ![First] = "none"]
    /\ Goto(First, "put")
    /\ UNCHANGED <<serverVars, keys, tries, ret, file, hurt, runs>>

\* Wrong on purpose: a public key that was not stored does not stop the onboarding
PutPublicKeyIgnored ==
    /\ pc[First] = "put" /\ Goto(First, "delete")
    /\ UNCHANGED <<serverVars, keys, auth, tries, ret, file, hurt, runs>>

PutPublicKey ==
    /\ pc[First] = "put" /\ auth[First] = "pkam"
    /\ public' = keys[First].public
    /\ Answered(First, "delete")
    /\ UNCHANGED <<cram, status, legacy, under, stored, file, hurt, runs>>

DeleteCramSecret ==
    /\ pc[First] = "delete" /\ auth[First] = "pkam"
    /\ cram' = FALSE
    /\ End(First, "ok") \/ End(First, "failed")
    /\ UNCHANGED <<status, legacy, public, under, stored, file, hurt, runs>>

-----------------------------------------------------------------------------
(* Enrollment                                                              *)

\* the atSign's public encryption key
LookUp ==
    /\ pc[Second] = "lookup" /\ public # None
    /\ keys' = [keys EXCEPT ![Second].public = public]
    /\ Goto(Second, "request")
    /\ UNCHANGED <<serverVars, auth, tries, ret, file, hurt, runs>>

\* the symmetric key is sent encrypted with the public key
GeneratedApkam(k, r) == [k EXCEPT !.pkam = r, !.symmetric = r, !.id = r]

\* generate keys, the symmetric one encrypted for the owner, and send the request
RequestApkam ==
    /\ pc[Second] = "request" /\ runs < MaxRuns
    /\ LET r == runs + 1
       IN  /\ runs' = r
           /\ status' = [status EXCEPT ![r] = "pending"]
           /\ under' = [under EXCEPT ![r] = keys[Second].public]
           /\ Enrolled(Second, GeneratedApkam(keys[Second], r), "wait")
    /\ UNCHANGED <<cram, legacy, public, stored, file, hurt>>

\* Wrong on purpose: an enrollment is polled for ever
AgainForEver ==
    /\ tries' = [tries EXCEPT ![Second] = (@ + 1) % MaxTries]
    /\ UNCHANGED <<pc, keys, auth, ret>>

\* Wrong on purpose: one try too many
AgainOnceMore ==
    IF tries[Second] = MaxTries THEN End(Second, "failed")
    ELSE /\ tries' = [tries EXCEPT ![Second] = @ + 1]
         /\ UNCHANGED <<pc, keys, auth, ret>>

\* pending, or no answer: another try
Again ==
    IF tries[Second] + 1 = MaxTries THEN End(Second, "failed")
    ELSE /\ tries' = [tries EXCEPT ![Second] = @ + 1]
         /\ UNCHANGED <<pc, keys, auth, ret>>

\* A poll is a whole authentication; one whose allocation fails returns 0 without it.
\* That the request is denied, or some other error answered, is a case of Fails.
WaitForEnrollment ==
    /\ pc[Second] = "wait"
    /\ \/ /\ Accepts(keys[Second]) /\ auth' = [auth EXCEPT ![Second] = "pkam"]
          /\ Goto(Second, "private") /\ UNCHANGED <<keys, tries, ret>>
       \/ Goto(Second, "private") /\ UNCHANGED <<keys, auth, tries, ret>>
       \/ Again
    /\ UNCHANGED <<serverVars, file, hurt, runs>>

\* the owner left the private key and the self key encrypted with the symmetric key
Left == stored[keys[Second].id]

Fetch(k, next) ==
    /\ auth[Second] = "pkam"
    /\ keys' = [keys EXCEPT ![Second] = k]
    /\ Goto(Second, next)
    /\ UNCHANGED <<serverVars, auth, tries, ret, file, hurt, runs>>

FetchPrivateKey == pc[Second] = "private" /\ Fetch([keys[Second] EXCEPT !.private = Left], "self")

\* Wrong on purpose: enrollment goes on although the self key could not be fetched
FetchSelfKeyIgnored ==
    /\ pc[Second] = "self" /\ Goto(Second, "open")
    /\ UNCHANGED <<serverVars, keys, auth, tries, ret, file, hurt, runs>>

FetchSelfKey == pc[Second] = "self" /\ Fetch([keys[Second] EXCEPT !.self = Left], "open")

-----------------------------------------------------------------------------
(* Writing the keys file                                                   *)

\* the file is created, and is empty
Open(d) ==
    /\ pc[d] = "open"
    /\ file' = [file EXCEPT ![d] = CutFile] /\ hurt' = [hurt EXCEPT ![d] = {}]
    /\ Goto(d, "write")
    /\ UNCHANGED <<serverVars, keys, auth, tries, ret, runs>>

\* onboarding goes on with the keys, enrollment is complete
Written(d, f) ==
    /\ file' = [file EXCEPT ![d] = f]
    /\ IF d = First THEN Goto(d, "pkam") /\ UNCHANGED <<keys, auth, tries, ret>>
       ELSE End(d, "ok")

File(k, has) == [state |-> "whole", has |-> has, keys |-> k]

Write(d) ==
    /\ pc[d] = "write"
    /\ Written(d, File(keys[d], FieldsOf(keys[d])))
    /\ UNCHANGED <<serverVars, hurt, runs>>

\* anything but nothing written is success, and closing the file is not checked
WriteShort(d) ==
    /\ pc[d] = "write"
    /\ Written(d, CutFile) /\ hurt' = [hurt EXCEPT ![d] = @ \cup {"cut"}]
    /\ UNCHANGED <<serverVars, runs>>

\* no memory for a field's JSON: the field is left out; bound: of one
WriteWithout(d) ==
    /\ pc[d] = "write"
    /\ \E x \in FieldsOf(keys[d]) : Written(d, File(keys[d], FieldsOf(keys[d]) \ {x}))
    /\ hurt' = [hurt EXCEPT ![d] = @ \cup {"dropped"}]
    /\ UNCHANGED <<serverVars, runs>>

-----------------------------------------------------------------------------
(* The owner and the operator                                              *)

\* with the keys of the first device, which must be able to open the symmetric key
Approve(r) ==
    /\ status[r] = "pending"
    /\ Reading(file[First]) = "ok" /\ file[First].keys.private = under[r]
    /\ status' = [status EXCEPT ![r] = "approved"]
    /\ stored' = [stored EXCEPT ![r] = under[r]]
    /\ UNCHANGED <<cram, legacy, public, under, deviceVars, runs>>

Deny(r) ==
    /\ status[r] = "pending"
    /\ status' = [status EXCEPT ![r] = "denied"]
    /\ UNCHANGED <<cram, legacy, public, under, stored, deviceVars, runs>>

\* a file that is in the way is cleared away, if the command did not succeed
Remove(d) ==
    /\ pc[d] = "idle" /\ file[d].state # "none" /\ ret[d] # "ok"
    /\ file' = [file EXCEPT ![d] = NoFile]
    /\ hurt' = [hurt EXCEPT ![d] = @ \cup {"removed"}]
    /\ UNCHANGED <<serverVars, pc, keys, auth, tries, ret, runs>>

-----------------------------------------------------------------------------
Init ==
    /\ cram = TRUE /\ status = [r \in Runs |-> "none"] /\ legacy = None /\ public = None
    /\ under = [r \in Runs |-> None] /\ stored = [r \in Runs |-> None]
    /\ pc = [d \in Devices |-> "idle"] /\ keys = [d \in Devices |-> NoKeys]
    /\ auth = [d \in Devices |-> "none"] /\ tries = [d \in Devices |-> 0]
    /\ ret = [d \in Devices |-> "none"] /\ file = [d \in Devices |-> NoFile]
    /\ hurt = [d \in Devices |-> {}] /\ runs = 0

Onboard == CramAuthenticate \/ RequestFirst \/ PkamAuthenticate \/ PutPublicKey \/ DeleteCramSecret

Enroll == LookUp \/ RequestApkam \/ WaitForEnrollment \/ FetchPrivateKey \/ FetchSelfKey

WriteFile(d) == Open(d) \/ Write(d) \/ WriteShort(d) \/ WriteWithout(d)

Device(d) ==
    \/ d = First /\ Onboard
    \/ d = Second /\ Enroll
    \/ WriteFile(d) \/ Fails(d)

Next ==
    \/ Start(First, "cram") \/ Start(Second, "lookup")
    \/ \E d \in Devices : Device(d) \/ Crash(d) \/ Remove(d)
    \/ \E r \in Runs : Approve(r) \/ Deny(r)

\* a command that runs takes its steps: every call ends, at the read's timeout if not before
Spec == Init /\ [][Next]_vars /\ \A d \in Devices : WF_vars(Device(d))

-----------------------------------------------------------------------------
RunOrNone == Runs \cup {None}
KeySets == [pkam : RunOrNone, public : RunOrNone, private : RunOrNone, self : RunOrNone,
            symmetric : RunOrNone, id : RunOrNone]
Files == [state : {"none", "cut", "whole"}, has : SUBSET FileFields, keys : KeySets]
Steps == {"idle", "cram", "request", "open", "write", "pkam", "put", "delete",
          "lookup", "wait", "private", "self"}
Results == {"none", "running", "ok", "failed", "crashed", "refused"}

TypeOK ==
    /\ cram \in BOOLEAN /\ status \in [Runs -> {"none", "pending", "approved", "denied"}]
    /\ legacy \in RunOrNone /\ public \in RunOrNone
    /\ under \in [Runs -> RunOrNone] /\ stored \in [Runs -> RunOrNone]
    /\ pc \in [Devices -> Steps] /\ ret \in [Devices -> Results]
    /\ auth \in [Devices -> {"none", "cram", "pkam"}] /\ tries \in [Devices -> 0..(MaxTries - 1)]
    /\ hurt \in [Devices -> SUBSET {"cut", "dropped", "removed"}] /\ runs \in RunOrNone
    /\ keys \in [Devices -> KeySets] /\ file \in [Devices -> Files]

\* read back by a later program the file yields keys that fit together and that the
\* atServer takes
Works(d) ==
    LET k == Loaded(file[d])
    IN  Reading(file[d]) = "ok" /\ Accepts(k) /\ k.public = k.private /\ k.private = k.self

\* However a command ended, and whatever was lost on the way: the atSign can be reached
\* with its CRAM secret or with the keys in the file, if nothing befell the file.
NoLockout == cram \/ Works(First) \/ hurt[First] # {}

\* A keys file whose writing came to its end works from then on, also when the command
\* failed after it or was cut off, and when other commands ran since.
KeptKeysWork ==
    \A d \in Devices : file[d].state = "whole" /\ "dropped" \notin hurt[d] => Works(d)

\* A command that returned 0 did all it was for.  The onboarding's public key is the one
\* the others find, and its CRAM secret is gone.
OkMeansDone ==
    /\ \A d \in Devices : ret[d] = "ok" /\ hurt[d] = {} => Works(d)
    /\ ret[First] = "ok" => ~cram /\ public # None
    /\ ret[First] = "ok" /\ hurt[First] = {} => public = file[First].keys.public

\* The file is looked for when the command starts, and opened for writing many calls
\* later: what a command wrote to its end no command touches again.
NeverOverwritten ==
    [][\A d \in Devices : file[d].state = "whole" => file'[d] \in {file[d], NoFile}]_vars

\* Every command ends: the polls for an approval that never comes are counted.
CommandsEnd == \A d \in Devices : pc[d] # "idle" ~> pc[d] = "idle"
=============================================================================
