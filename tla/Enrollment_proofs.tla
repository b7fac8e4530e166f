-------------------------- MODULE Enrollment_proofs --------------------------
(***************************************************************************)
(* The safety properties of Enrollment, for every number of runs and of    *)
(* polls.  The inductive invariant follows the keys of each device from    *)
(* the run that generated them into the file: the first device's are those *)
(* the atServer takes without an enrollment id, the second's those of an   *)
(* enrollment whose answer the owner left under the key it was sent with.  *)
(***************************************************************************)
EXTENDS Enrollment, TLAPS

FirstSteps == {"idle", "cram", "request", "open", "write", "pkam", "put", "delete"}
SecondSteps == {"idle", "lookup", "request", "wait", "private", "self", "open", "write"}

\* a run that is still to come has left nothing; what was left is under the key it was sent with
ServerInv ==
    /\ \A r \in Runs : r > runs => status[r] = "none" /\ under[r] = None /\ stored[r] = None
    /\ \A r \in Runs : status[r] = "approved" => stored[r] = under[r]

\* the first device: its keys, its file, the CRAM secret, a result of 0
FirstKeys ==
    /\ pc[First] \in FirstSteps
    /\ pc[First] \in {"open", "write", "pkam", "put", "delete"} =>
           legacy # None /\ keys[First] = GeneratedFirst(legacy)
    /\ pc[First] = "delete" => public = legacy

FirstFile ==
    /\ pc[First] \in {"cram", "request", "open"} => file[First].state = "none"
    /\ pc[First] = "write" => file[First].state # "whole"
    /\ pc[First] \in {"pkam", "put", "delete"} /\ hurt[First] = {} => file[First].state = "whole"
    /\ file[First].state = "whole" =>
           /\ legacy # None /\ file[First].keys = GeneratedFirst(legacy)
           /\ "dropped" \in hurt[First] \/ file[First].has = FieldsOf(GeneratedFirst(legacy))

FirstCram ==
    ~cram => /\ pc[First] \in {"idle", "cram", "request"} /\ auth[First] # "cram"
             /\ file[First].state = "whole" \/ hurt[First] # {}

FirstDone ==
    ret[First] = "ok" =>
        /\ pc[First] = "idle" /\ ~cram /\ public # None
        /\ hurt[First] = {} => file[First].state = "whole" /\ public = legacy

\* the second device: its request, what it fetched, its file, a result of 0
SecondKeys ==
    /\ pc[Second] \in SecondSteps
    /\ pc[Second] \in {"wait", "private", "self", "open", "write"} =>
           /\ keys[Second].id \in Runs /\ status[keys[Second].id] # "none"
           /\ keys[Second].pkam = keys[Second].id /\ keys[Second].symmetric = keys[Second].id
           /\ under[keys[Second].id] = keys[Second].public
    /\ auth[Second] = "pkam" =>
           /\ pc[Second] \in {"private", "self", "open", "write"}
           /\ status[keys[Second].id] = "approved"
    /\ pc[Second] \in {"self", "open", "write"} =>
           auth[Second] = "pkam" /\ keys[Second].private = keys[Second].public
    /\ pc[Second] \in {"open", "write"} => keys[Second].self = keys[Second].public

SecondFile ==
    /\ pc[Second] \in SecondSteps \ {"idle", "write"} => file[Second].state = "none"
    /\ pc[Second] = "write" => file[Second].state # "whole"
    /\ file[Second].state = "whole" =>
           LET k == file[Second].keys
           IN  /\ k.id \in Runs /\ status[k.id] = "approved"
               /\ k.pkam = k.id /\ k.symmetric = k.id /\ k.private = k.public /\ k.self = k.public
               /\ "dropped" \in hurt[Second] \/ file[Second].has = FileFields

SecondDone ==
    ret[Second] = "ok" =>
        pc[Second] = "idle" /\ (hurt[Second] = {} => file[Second].state = "whole")

FirstInv == FirstKeys /\ FirstFile /\ FirstCram /\ FirstDone
SecondInv == SecondKeys /\ SecondFile /\ SecondDone

IInv == TypeOK /\ ServerInv /\ FirstInv /\ SecondInv

-----------------------------------------------------------------------------
LEMMA DeviceFacts == First \in Devices /\ Second \in Devices /\ First # Second
  BY DevicesDiffer DEF Devices

LEMMA FieldFacts ==
    /\ FileFields = {"pkamPublic", "pkamPrivate", "encryptPublic", "encryptPrivate", "self", "symmetric", "id"}
    /\ \A i \in DOMAIN Mandatory : Mandatory[i] \in FileFields \ {"symmetric", "id"}
    /\ 1 \in DOMAIN Mandatory
  <1>1. DOMAIN Mandatory = 1..5
    BY DEF Mandatory
  <1>2. DOMAIN Mandatory = {1, 2, 3, 4, 5}
    BY <1>1
  <1>3. {Mandatory[i] : i \in DOMAIN Mandatory}
            = {"pkamPublic", "pkamPrivate", "encryptPublic", "encryptPrivate", "self"}
    BY <1>2 DEF Mandatory
  <1>4. QED
    BY <1>2, <1>3 DEF FileFields

LEMMA NoKeysType == NoKeys \in KeySets
  BY DEF NoKeys, KeySets, RunOrNone

LEMMA FirstKeysType == ASSUME NEW r \in Runs PROVE GeneratedFirst(r) \in KeySets
  BY DEF GeneratedFirst, KeySets, RunOrNone

LEMMA FileTypes == NoFile \in Files /\ CutFile \in Files
  BY NoKeysType DEF NoFile, CutFile, Files

LEMMA EndType ==
    ASSUME TypeOK, NEW d \in Devices, NEW r \in Results, End(d, r)
    PROVE  /\ pc' \in [Devices -> Steps] /\ ret' \in [Devices -> Results]
           /\ keys' \in [Devices -> KeySets] /\ auth' \in [Devices -> {"none", "cram", "pkam"}]
           /\ tries' \in [Devices -> 0 .. (MaxTries - 1)]
  BY NoKeysType, BoundsAreNumbers DEF TypeOK, End, Goto, Steps

LEMMA InitIInv == Init => IInv
  <1> SUFFICES ASSUME Init PROVE IInv
    OBVIOUS
  <1> USE DeviceFacts DEF Init
  <1>1. TypeOK
    BY NoKeysType, FileTypes, BoundsAreNumbers DEF TypeOK, Steps, Results, RunOrNone, None
  <1>2. ServerInv
    BY DEF ServerInv, None
  <1>3. FirstKeys /\ FirstFile /\ FirstCram /\ FirstDone
    BY DEF FirstKeys, FirstFile, FirstCram, FirstDone, FirstSteps, NoFile
  <1>4. SecondKeys /\ SecondFile /\ SecondDone
    BY DEF SecondKeys, SecondFile, SecondDone, SecondSteps, NoFile
  <1>5. QED
    BY <1>1, <1>2, <1>3, <1>4 DEF IInv, FirstInv, SecondInv
-----------------------------------------------------------------------------
\* FRAMES: a step of one device leaves the other's part of the invariant alone

Same(d) ==
    /\ pc'[d] = pc[d] /\ keys'[d] = keys[d] /\ auth'[d] = auth[d]
    /\ ret'[d] = ret[d] /\ file'[d] = file[d] /\ hurt'[d] = hurt[d]

\* what the atServer knows of an enrollment it keeps, and it does not revoke
EnrollmentsKept ==
    \A r \in Runs : status[r] # "none" =>
        /\ status'[r] # "none" /\ under'[r] = under[r]
        /\ status[r] = "approved" => status'[r] = "approved"

LEMMA FirstFrame ==
    ASSUME FirstInv, Same(First), UNCHANGED <<cram, legacy, public>>
    PROVE  FirstInv'
  BY DEF FirstInv, FirstKeys, FirstFile, FirstCram, FirstDone, Same

LEMMA SecondFrame ==
    ASSUME TypeOK, SecondInv, Same(Second), EnrollmentsKept
    PROVE  SecondInv'
  <1>1. SecondKeys'
    BY DEF SecondInv, SecondKeys, Same, EnrollmentsKept
  <1>2. SecondFile'
    BY DEF SecondInv, SecondFile, Same, EnrollmentsKept
  <1>3. SecondDone'
    BY DEF SecondInv, SecondDone, Same
  <1>4. QED
    BY <1>1, <1>2, <1>3 DEF SecondInv

LEMMA ServerFrame == ASSUME UNCHANGED <<status, under, stored, runs>> PROVE EnrollmentsKept /\ (ServerInv => ServerInv')
  BY DEF EnrollmentsKept, ServerInv

LEMMA EndFrame ==
    ASSUME TypeOK, NEW d \in Devices, NEW r, End(d, r)
    PROVE  /\ pc'[d] = "idle" /\ ret'[d] = r /\ keys'[d] = NoKeys /\ auth'[d] = "none"
           /\ \A e \in Devices \ {d} : /\ pc'[e] = pc[e] /\ ret'[e] = ret[e]
                                       /\ keys'[e] = keys[e] /\ auth'[e] = auth[e]
  BY DEF TypeOK, End, Goto

-----------------------------------------------------------------------------
\* STEPS of the first device

LEMMA StartFirstStep == ASSUME IInv, Start(First, "cram") PROVE IInv'
  <1> USE DeviceFacts DEF Start, Goto
  <1>1. TypeOK'
    BY DEF IInv, TypeOK, Steps, Results, serverVars
  <1>2. ServerInv' /\ EnrollmentsKept
    BY ServerFrame DEF IInv, serverVars
  <1>3. SecondInv'
    BY SecondFrame, <1>2 DEF IInv, Same, TypeOK
  <1>4. FirstInv'
    BY DEF IInv, FirstInv, FirstKeys, FirstFile, FirstCram, FirstDone, TypeOK, FirstSteps, serverVars
  <1>5. QED
    BY <1>1, <1>2, <1>3, <1>4 DEF IInv

LEMMA CramAuthenticateStep == ASSUME IInv, CramAuthenticate PROVE IInv'
  <1> USE DeviceFacts DEF CramAuthenticate, Goto
  <1>1. TypeOK'
    BY DEF IInv, TypeOK, Steps, serverVars
  <1>2. ServerInv' /\ EnrollmentsKept
    BY ServerFrame DEF IInv, serverVars
  <1>3. SecondInv'
    BY SecondFrame, <1>2 DEF IInv, Same, TypeOK
  <1>4. FirstInv'
    BY DEF IInv, FirstInv, FirstKeys, FirstFile, FirstCram, FirstDone, TypeOK, FirstSteps, serverVars
  <1>5. QED
    BY <1>1, <1>2, <1>3, <1>4 DEF IInv

LEMMA NextRun ==
    ASSUME TypeOK, runs < MaxRuns
    PROVE  /\ runs + 1 \in Runs /\ runs + 1 # None /\ runs + 1 \in RunOrNone /\ runs + 1 > runs
           /\ \A r \in Runs : r > runs + 1 => r > runs
  BY BoundsAreNumbers DEF TypeOK, Runs, RunOrNone, None

LEMMA RequestFirstStep == ASSUME IInv, RequestFirst PROVE IInv'
  <1> USE DeviceFacts
  <1> DEFINE r == runs + 1
  <1>1. r \in Runs /\ r # None /\ r \in RunOrNone /\ r > runs /\ \A q \in Runs : q > r => q > runs
    BY NextRun DEF IInv, RequestFirst
  <1>2. /\ status' = [status EXCEPT ![r] = "approved"] /\ legacy' = r /\ runs' = r
        /\ UNCHANGED <<cram, public, under, stored, file, hurt>>
        /\ Enrolled(First, GeneratedFirst(r), "open")
    BY DEF RequestFirst
  <1>3. status[r] = "none" /\ under[r] = None /\ stored[r] = None
    BY <1>1 DEF IInv, ServerInv
  <1>4. ServerInv'
    BY <1>1, <1>2, <1>3 DEF IInv, ServerInv, TypeOK
  <1>5. EnrollmentsKept
    BY <1>1, <1>2, <1>3 DEF IInv, TypeOK, EnrollmentsKept
  <1>6. cram /\ pc[First] = "request" /\ file[First].state = "none"
    BY DEF IInv, FirstInv, FirstCram, FirstFile, RequestFirst
  <1>7. CASE End(First, "failed")
    <2>1. TypeOK'
      BY <1>1, <1>2, <1>7, EndType DEF IInv, TypeOK, Results
    <2>2. Same(Second)
      BY <1>2, <1>7, EndFrame DEF IInv, Same
    <2>3. FirstInv'
      BY <1>2, <1>6, <1>7, EndFrame
         DEF IInv, FirstInv, FirstKeys, FirstFile, FirstCram, FirstDone, FirstSteps
    <2>4. QED
      BY <2>1, <2>2, <2>3, <1>4, <1>5, SecondFrame DEF IInv
  <1>8. CASE /\ Goto(First, "open") /\ keys' = [keys EXCEPT ![First] = GeneratedFirst(r)]
             /\ UNCHANGED <<auth, tries, ret>>
    <2>1. TypeOK'
      BY <1>1, <1>2, <1>8, FirstKeysType DEF IInv, TypeOK, Steps, Goto
    <2>2. Same(Second)
      BY <1>2, <1>8 DEF IInv, Same, Goto, TypeOK
    <2>3. FirstInv'
      BY <1>1, <1>2, <1>6, <1>8
         DEF IInv, FirstInv, FirstKeys, FirstFile, FirstCram, FirstDone, FirstSteps, Goto, TypeOK
    <2>4. QED
      BY <2>1, <2>2, <2>3, <1>4, <1>5, SecondFrame DEF IInv
  <1>9. QED
    BY <1>2, <1>7, <1>8 DEF Enrolled

LEMMA PkamAuthenticateStep == ASSUME IInv, PkamAuthenticate PROVE IInv'
  <1> USE DeviceFacts DEF PkamAuthenticate, Goto
  <1>1. TypeOK'
    BY DEF IInv, TypeOK, Steps, serverVars
  <1>2. ServerInv' /\ EnrollmentsKept
    BY ServerFrame DEF IInv, serverVars
  <1>3. SecondInv'
    BY SecondFrame, <1>2 DEF IInv, Same, TypeOK
  <1>4. FirstInv'
    BY DEF IInv, FirstInv, FirstKeys, FirstFile, FirstCram, FirstDone, TypeOK, FirstSteps, serverVars
  <1>5. QED
    BY <1>1, <1>2, <1>3, <1>4 DEF IInv

LEMMA PutPublicKeyStep == ASSUME IInv, PutPublicKey PROVE IInv'
  <1> USE DeviceFacts
  <1>1. /\ pc[First] = "put" /\ legacy # None /\ keys[First] = GeneratedFirst(legacy)
        /\ public' = legacy /\ legacy \in RunOrNone
    BY DEF IInv, PutPublicKey, FirstInv, FirstKeys, GeneratedFirst, TypeOK
  <1>2. ServerInv' /\ EnrollmentsKept
    BY ServerFrame DEF IInv, PutPublicKey
  <1>3. CASE Goto(First, "delete") /\ UNCHANGED <<keys, auth, tries, ret>>
    <2>1. TypeOK'
      BY <1>1, <1>3 DEF IInv, TypeOK, Steps, Goto, PutPublicKey
    <2>2. Same(Second)
      BY <1>3 DEF IInv, Same, Goto, TypeOK, PutPublicKey
    <2>3. FirstInv'
      BY <1>1, <1>3
         DEF IInv, FirstInv, FirstKeys, FirstFile, FirstCram, FirstDone, FirstSteps, Goto, TypeOK, PutPublicKey
    <2>4. QED
      BY <2>1, <2>2, <2>3, <1>2, SecondFrame DEF IInv
  <1>4. CASE End(First, "failed")
    <2>1. TypeOK'
      BY <1>1, <1>4, EndType DEF IInv, TypeOK, Results, PutPublicKey
    <2>2. Same(Second)
      BY <1>4, EndFrame DEF IInv, Same, PutPublicKey
    <2>3. FirstInv'
      BY <1>1, <1>4, EndFrame
         DEF IInv, FirstInv, FirstKeys, FirstFile, FirstCram, FirstDone, FirstSteps, PutPublicKey
    <2>4. QED
      BY <2>1, <2>2, <2>3, <1>2, SecondFrame DEF IInv
  <1>5. QED
    BY <1>3, <1>4 DEF PutPublicKey, Answered

LEMMA DeleteCramSecretStep == ASSUME IInv, DeleteCramSecret PROVE IInv'
  <1> USE DeviceFacts
  <1>1. PICK r \in {"ok", "failed"} : End(First, r)
    BY DEF DeleteCramSecret
  <1>2. /\ pc[First] = "delete" /\ legacy # None /\ public = legacy
        /\ hurt[First] = {} => file[First].state = "whole"
    BY DEF IInv, DeleteCramSecret, FirstInv, FirstKeys, FirstFile
  <1>3. TypeOK'
    BY <1>1, EndType DEF IInv, TypeOK, Results, DeleteCramSecret
  <1>4. ServerInv' /\ EnrollmentsKept
    BY ServerFrame DEF IInv, DeleteCramSecret
  <1>5. Same(Second)
    BY <1>1, EndFrame DEF IInv, Same, DeleteCramSecret
  <1>6. FirstInv'
    BY <1>1, <1>2, EndFrame
       DEF IInv, FirstInv, FirstKeys, FirstFile, FirstCram, FirstDone, FirstSteps, DeleteCramSecret
  <1>7. QED
    BY <1>3, <1>4, <1>5, <1>6, SecondFrame DEF IInv

-----------------------------------------------------------------------------
\* STEPS of the second device

LEMMA StartSecondStep == ASSUME IInv, Start(Second, "lookup") PROVE IInv'
  <1> USE DeviceFacts DEF Start, Goto
  <1>1. TypeOK'
    BY DEF IInv, TypeOK, Steps, Results, serverVars
  <1>2. ServerInv'
    BY ServerFrame DEF IInv, serverVars
  <1>3. FirstInv'
    BY FirstFrame DEF IInv, Same, TypeOK, serverVars
  <1>4. SecondInv'
    BY DEF IInv, SecondInv, SecondKeys, SecondFile, SecondDone, TypeOK, SecondSteps, serverVars
  <1>5. QED
    BY <1>1, <1>2, <1>3, <1>4 DEF IInv

LEMMA LookUpStep == ASSUME IInv, LookUp PROVE IInv'
  <1> USE DeviceFacts DEF LookUp, Goto
  <1>1. TypeOK'
    BY DEF IInv, TypeOK, Steps, KeySets, serverVars
  <1>2. ServerInv'
    BY ServerFrame DEF IInv, serverVars
  <1>3. FirstInv'
    BY FirstFrame DEF IInv, Same, TypeOK, serverVars
  <1>4. SecondInv'
    BY DEF IInv, SecondInv, SecondKeys, SecondFile, SecondDone, TypeOK, SecondSteps, serverVars
  <1>5. QED
    BY <1>1, <1>2, <1>3, <1>4 DEF IInv

LEMMA RequestApkamStep == ASSUME IInv, RequestApkam PROVE IInv'
  <1> USE DeviceFacts
  <1> DEFINE r == runs + 1
             k == GeneratedApkam(keys[Second], r)
  <1>1. r \in Runs /\ r # None /\ r \in RunOrNone /\ r > runs /\ \A q \in Runs : q > r => q > runs
    BY NextRun DEF IInv, RequestApkam
  <1>2. /\ pc[Second] = "request" /\ status' = [status EXCEPT ![r] = "pending"]
        /\ under' = [under EXCEPT ![r] = keys[Second].public] /\ runs' = r
        /\ UNCHANGED <<cram, legacy, public, stored, file, hurt>>
        /\ Enrolled(Second, k, "wait")
    BY DEF RequestApkam
  <1>3. status[r] = "none" /\ under[r] = None /\ stored[r] = None
    BY <1>1 DEF IInv, ServerInv
  <1>4. keys[Second] \in KeySets
    BY DEF IInv, TypeOK
  <1>5. k \in KeySets /\ k.pkam = r /\ k.symmetric = r /\ k.id = r /\ k.public = keys[Second].public
    BY <1>1, <1>4 DEF GeneratedApkam, KeySets
  <1>6. ServerInv'
    BY <1>1, <1>2, <1>3 DEF IInv, ServerInv, TypeOK
  <1>7. EnrollmentsKept
    BY <1>1, <1>2, <1>3 DEF IInv, TypeOK, EnrollmentsKept
  <1>8. status' \in [Runs -> {"none", "pending", "approved", "denied"}] /\ under' \in [Runs -> RunOrNone]
    BY <1>1, <1>2, <1>4 DEF IInv, TypeOK, KeySets
  <1>9. auth[Second] # "pkam" /\ ret[Second] # "ok" /\ file[Second].state = "none"
    BY <1>2 DEF IInv, SecondInv, SecondKeys, SecondFile, SecondDone, SecondSteps
  <1>10. CASE End(Second, "failed")
    <2>1. TypeOK'
      BY <1>1, <1>2, <1>8, <1>10, EndType DEF IInv, TypeOK, Results
    <2>2. FirstInv'
      BY <1>2, <1>10, EndFrame, FirstFrame DEF IInv, Same
    <2>3. SecondInv'
      BY <1>2, <1>7, <1>9, <1>10, EndFrame
         DEF IInv, SecondInv, SecondKeys, SecondFile, SecondDone, SecondSteps
    <2>4. QED
      BY <2>1, <2>2, <2>3, <1>6 DEF IInv
  <1>11. CASE Goto(Second, "wait") /\ keys' = [keys EXCEPT ![Second] = k] /\ UNCHANGED <<auth, tries, ret>>
    <2>1. TypeOK'
      BY <1>1, <1>2, <1>5, <1>8, <1>11 DEF IInv, TypeOK, Steps, Goto
    <2>2. FirstInv'
      BY <1>2, <1>11, FirstFrame DEF IInv, Same, Goto, TypeOK
    <2>3. keys'[Second] = k /\ pc'[Second] = "wait" /\ status'[r] = "pending" /\ under'[r] = keys[Second].public
      BY <1>1, <1>2, <1>11 DEF IInv, TypeOK, Goto
    <2>4. SecondKeys'
      BY <1>1, <1>5, <1>9, <1>11, <2>3 DEF SecondKeys, SecondSteps
    <2>5. SecondFile' /\ SecondDone'
      BY <1>2, <1>9, <1>11, <2>3 DEF SecondFile, SecondDone, SecondSteps
    <2>6. QED
      BY <2>1, <2>2, <2>4, <2>5, <1>6 DEF IInv, SecondInv
  <1>12. QED
    BY <1>2, <1>10, <1>11 DEF Enrolled

LEMMA WaitStep == ASSUME IInv, WaitForEnrollment PROVE IInv'
  <1> USE DeviceFacts
  <1>1. pc[Second] = "wait" /\ UNCHANGED <<cram, status, legacy, public, under, stored, file, hurt, runs>>
    BY DEF WaitForEnrollment, serverVars
  <1>2. ServerInv' /\ EnrollmentsKept
    BY <1>1, ServerFrame DEF IInv
  <1>3. /\ keys[Second].id \in Runs /\ status[keys[Second].id] # "none"
        /\ auth[Second] # "pkam" /\ ret[Second] # "ok" /\ file[Second].state = "none"
    BY <1>1 DEF IInv, SecondInv, SecondKeys, SecondFile, SecondDone, SecondSteps
  <1>4. CASE Accepts(keys[Second]) /\ auth' = [auth EXCEPT ![Second] = "pkam"]
             /\ Goto(Second, "private") /\ UNCHANGED <<keys, tries, ret>>
    <2>1. TypeOK'
      BY <1>1, <1>4 DEF IInv, TypeOK, Steps, Goto
    <2>2. FirstInv'
      BY <1>1, <1>4, FirstFrame DEF IInv, Same, Goto, TypeOK
    <2>3. status[keys[Second].id] = "approved"
      BY <1>3, <1>4, BoundsAreNumbers DEF Accepts, None, Runs
    <2>4. SecondInv'
      BY <1>1, <1>3, <1>4, <2>3
         DEF IInv, SecondInv, SecondKeys, SecondFile, SecondDone, SecondSteps, Goto, TypeOK
    <2>5. QED
      BY <2>1, <2>2, <2>4, <1>2 DEF IInv
  <1>5. CASE Goto(Second, "private") /\ UNCHANGED <<keys, auth, tries, ret>>
    <2>1. TypeOK'
      BY <1>1, <1>5 DEF IInv, TypeOK, Steps, Goto
    <2>2. FirstInv'
      BY <1>1, <1>5, FirstFrame DEF IInv, Same, Goto, TypeOK
    <2>3. SecondInv'
      BY <1>1, <1>3, <1>5 DEF IInv, SecondInv, SecondKeys, SecondFile, SecondDone, SecondSteps, Goto, TypeOK
    <2>4. QED
      BY <2>1, <2>2, <2>3, <1>2 DEF IInv
  <1>6. CASE tries[Second] + 1 # MaxTries /\ tries' = [tries EXCEPT ![Second] = @ + 1]
             /\ UNCHANGED <<pc, keys, auth, ret>>
    <2>1. tries[Second] + 1 \in 0 .. (MaxTries - 1)
      BY <1>6, BoundsAreNumbers DEF IInv, TypeOK
    <2>2. TypeOK'
      BY <1>1, <1>6, <2>1 DEF IInv, TypeOK
    <2>3. FirstInv' /\ SecondInv'
      BY <1>1, <1>2, <1>6, FirstFrame, SecondFrame DEF IInv, Same
    <2>4. QED
      BY <2>2, <2>3, <1>2 DEF IInv
  <1>7. CASE End(Second, "failed")
    <2>1. TypeOK'
      BY <1>1, <1>7, EndType DEF IInv, TypeOK, Results
    <2>2. FirstInv'
      BY <1>1, <1>7, EndFrame, FirstFrame DEF IInv, Same
    <2>3. SecondInv'
      BY <1>1, <1>3, <1>7, EndFrame DEF IInv, SecondInv, SecondKeys, SecondFile, SecondDone, SecondSteps
    <2>4. QED
      BY <2>1, <2>2, <2>3, <1>2 DEF IInv
  <1>8. QED
    BY <1>4, <1>5, <1>6, <1>7 DEF WaitForEnrollment, Again

LEMMA FetchType ==
    ASSUME TypeOK, NEW k \in KeySets, NEW p \in Steps, Fetch(k, p)
    PROVE  TypeOK'
  BY DeviceFacts DEF TypeOK, Fetch, Goto, serverVars

LEMMA FetchPrivateKeyStep == ASSUME IInv, FetchPrivateKey PROVE IInv'
  <1> USE DeviceFacts
  <1> DEFINE k == [keys[Second] EXCEPT !.private = Left]
  <1>1. /\ pc[Second] = "private" /\ auth[Second] = "pkam" /\ Fetch(k, "self")
        /\ UNCHANGED <<cram, status, legacy, public, under, stored, auth, ret, file, hurt, runs>>
    BY DEF FetchPrivateKey, Fetch, serverVars
  <1>2. /\ keys[Second].id \in Runs /\ status[keys[Second].id] = "approved"
        /\ keys[Second].pkam = keys[Second].id /\ keys[Second].symmetric = keys[Second].id
        /\ under[keys[Second].id] = keys[Second].public
        /\ file[Second].state = "none" /\ ret[Second] # "ok"
    BY <1>1 DEF IInv, SecondInv, SecondKeys, SecondFile, SecondDone, SecondSteps
  <1>3. Left = keys[Second].public /\ Left \in RunOrNone /\ keys[Second] \in KeySets
    BY <1>2 DEF Left, IInv, ServerInv, TypeOK
  <1>4. /\ k \in KeySets /\ k.private = k.public
        /\ k.id = keys[Second].id /\ k.pkam = k.id /\ k.symmetric = k.id /\ k.public = keys[Second].public
    BY <1>2, <1>3 DEF KeySets
  <1>5. TypeOK'
    BY <1>1, <1>4, FetchType DEF IInv, Steps
  <1>6. ServerInv'
    BY <1>1, ServerFrame DEF IInv
  <1>7. FirstInv'
    BY <1>1, FirstFrame DEF IInv, Same, Fetch, Goto, TypeOK
  <1>8. keys'[Second] = k /\ pc'[Second] = "self"
    BY <1>1 DEF IInv, TypeOK, Fetch, Goto
  <1>9. SecondKeys'
    BY <1>1, <1>2, <1>4, <1>8 DEF SecondKeys, SecondSteps
  <1>10. SecondFile' /\ SecondDone'
    BY <1>1, <1>2, <1>8 DEF SecondFile, SecondDone, SecondSteps
  <1>11. QED
    BY <1>5, <1>6, <1>7, <1>9, <1>10 DEF IInv, SecondInv

LEMMA FetchSelfKeyStep == ASSUME IInv, FetchSelfKey PROVE IInv'
  <1> USE DeviceFacts
  <1> DEFINE k == [keys[Second] EXCEPT !.self = Left]
  <1>1. /\ pc[Second] = "self" /\ auth[Second] = "pkam" /\ Fetch(k, "open")
        /\ UNCHANGED <<cram, status, legacy, public, under, stored, auth, ret, file, hurt, runs>>
    BY DEF FetchSelfKey, Fetch, serverVars
  <1>2. /\ keys[Second].id \in Runs /\ status[keys[Second].id] = "approved"
        /\ keys[Second].pkam = keys[Second].id /\ keys[Second].symmetric = keys[Second].id
        /\ keys[Second].private = keys[Second].public
        /\ under[keys[Second].id] = keys[Second].public
        /\ file[Second].state = "none" /\ ret[Second] # "ok"
    BY <1>1 DEF IInv, SecondInv, SecondKeys, SecondFile, SecondDone, SecondSteps
  <1>3. Left = keys[Second].public /\ Left \in RunOrNone /\ keys[Second] \in KeySets
    BY <1>2 DEF Left, IInv, ServerInv, TypeOK
  <1>4. /\ k \in KeySets /\ k.self = k.public /\ k.private = k.public
        /\ k.id = keys[Second].id /\ k.pkam = k.id /\ k.symmetric = k.id /\ k.public = keys[Second].public
    BY <1>2, <1>3 DEF KeySets
  <1>5. TypeOK'
    BY <1>1, <1>4, FetchType DEF IInv, Steps
  <1>6. ServerInv'
    BY <1>1, ServerFrame DEF IInv
  <1>7. FirstInv'
    BY <1>1, FirstFrame DEF IInv, Same, Fetch, Goto, TypeOK
  <1>8. keys'[Second] = k /\ pc'[Second] = "open"
    BY <1>1 DEF IInv, TypeOK, Fetch, Goto
  <1>9. SecondKeys'
    BY <1>1, <1>2, <1>4, <1>8 DEF SecondKeys, SecondSteps
  <1>10. SecondFile' /\ SecondDone'
    BY <1>1, <1>2, <1>8 DEF SecondFile, SecondDone, SecondSteps
  <1>11. QED
    BY <1>5, <1>6, <1>7, <1>9, <1>10 DEF IInv, SecondInv

-----------------------------------------------------------------------------
\* STEPS of both: the end of a command, the keys file

LEMMA EndStep ==
    ASSUME IInv, NEW d \in Devices, NEW r \in {"failed", "crashed"}, End(d, r),
           UNCHANGED <<serverVars, file, hurt, runs>>, pc[d] # "idle"
    PROVE  IInv'
  <1> USE DeviceFacts
  <1>1. TypeOK'
    BY EndType DEF IInv, TypeOK, Results, serverVars
  <1>2. ServerInv' /\ EnrollmentsKept
    BY ServerFrame DEF IInv, serverVars
  <1>3. CASE d = First
    <2>1. SecondInv'
      BY <1>2, <1>3, EndFrame, SecondFrame DEF IInv, Same
    <2>2. FirstInv'
      BY <1>3, EndFrame DEF IInv, FirstInv, FirstKeys, FirstFile, FirstCram, FirstDone, FirstSteps, serverVars
    <2>3. QED
      BY <2>1, <2>2, <1>1, <1>2 DEF IInv
  <1>4. CASE d = Second
    <2>1. FirstInv'
      BY <1>4, EndFrame, FirstFrame DEF IInv, Same, serverVars
    <2>2. SecondInv'
      BY <1>4, EndFrame DEF IInv, SecondInv, SecondKeys, SecondFile, SecondDone, SecondSteps, serverVars
    <2>3. QED
      BY <2>1, <2>2, <1>1, <1>2 DEF IInv
  <1>5. QED
    BY <1>3, <1>4 DEF Devices

LEMMA OpenStep == ASSUME IInv, NEW d \in Devices, Open(d) PROVE IInv'
  <1> USE DeviceFacts DEF Open, Goto
  <1>1. TypeOK'
    BY FileTypes DEF IInv, TypeOK, Steps, serverVars
  <1>2. ServerInv' /\ EnrollmentsKept
    BY ServerFrame DEF IInv, serverVars
  <1>3. /\ file'[d].state = "cut" /\ pc'[d] = "write"
        /\ \A e \in Devices \ {d} : Same(e)
    BY DEF IInv, TypeOK, Same, CutFile, NoFile
  <1>4. CASE d = First
    <2>1. FirstInv'
      BY <1>3, <1>4 DEF IInv, FirstInv, FirstKeys, FirstFile, FirstCram, FirstDone, FirstSteps, serverVars
    <2>2. QED
      BY <2>1, <1>1, <1>2, <1>3, <1>4, SecondFrame DEF IInv
  <1>5. CASE d = Second
    <2>1. SecondInv'
      BY <1>3, <1>5 DEF IInv, SecondInv, SecondKeys, SecondFile, SecondDone, SecondSteps, serverVars
    <2>2. QED
      BY <2>1, <1>1, <1>2, <1>3, <1>5, FirstFrame DEF IInv, serverVars
  <1>6. QED
    BY <1>4, <1>5 DEF Devices

LEMMA WrittenStep ==
    ASSUME IInv, NEW d \in Devices, NEW f \in Files, NEW h \in SUBSET {"cut", "dropped", "removed"},
           pc[d] = "write", Written(d, f), hurt' = [hurt EXCEPT ![d] = h], UNCHANGED <<serverVars, runs>>,
           f.state # "whole" => h # {},
           f.state = "whole" => f.keys = keys[d] /\ ("dropped" \in h \/ f.has = FieldsOf(keys[d]))
    PROVE  IInv'
  <1> USE DeviceFacts
  <1>1. file' \in [Devices -> Files] /\ hurt' \in [Devices -> SUBSET {"cut", "dropped", "removed"}]
    BY DEF IInv, TypeOK, Written
  <1>2. ServerInv' /\ EnrollmentsKept
    BY ServerFrame DEF IInv, serverVars
  <1>3. /\ file'[d] = f /\ hurt'[d] = h
        /\ \A e \in Devices \ {d} : file'[e] = file[e] /\ hurt'[e] = hurt[e]
    BY DEF IInv, TypeOK, Written
  <1>4. CASE d = First
    <2>1. Goto(First, "pkam") /\ UNCHANGED <<keys, auth, tries, ret>>
      BY <1>4 DEF Written
    <2>2. TypeOK'
      BY <1>1, <2>1 DEF IInv, TypeOK, Steps, Goto, serverVars
    <2>3. pc'[First] = "pkam" /\ Same(Second)
      BY <1>3, <1>4, <2>1 DEF IInv, TypeOK, Goto, Same
    <2>4. FirstKeys'
      BY <1>4, <2>1, <2>3 DEF IInv, FirstInv, FirstKeys, FirstSteps, serverVars
    <2>5. FirstFile'
      BY <1>3, <1>4, <2>1, <2>3 DEF IInv, FirstInv, FirstKeys, FirstFile, serverVars
    <2>6. FirstCram' /\ FirstDone'
      BY <1>4, <2>1, <2>3 DEF IInv, FirstInv, FirstCram, FirstDone, serverVars
    <2>7. QED
      BY <2>2, <2>3, <2>4, <2>5, <2>6, <1>2, SecondFrame DEF IInv, FirstInv
  <1>5. CASE d = Second
    <2>1. End(Second, "ok")
      BY <1>5 DEF Written
    <2>2. TypeOK'
      BY <1>1, <2>1, EndType DEF IInv, TypeOK, Results, serverVars
    <2>3. FirstInv'
      BY <1>3, <1>5, <2>1, EndFrame, FirstFrame DEF IInv, Same, serverVars
    <2>4. /\ keys[Second].id \in Runs /\ status[keys[Second].id] = "approved"
          /\ keys[Second].pkam = keys[Second].id /\ keys[Second].symmetric = keys[Second].id
          /\ keys[Second].private = keys[Second].public /\ keys[Second].self = keys[Second].public
      BY <1>5 DEF IInv, SecondInv, SecondKeys
    <2>5. FieldsOf(keys[Second]) = FileFields
      BY <2>4, BoundsAreNumbers DEF FieldsOf, None, Runs
    <2>6. pc'[Second] = "idle" /\ auth'[Second] = "none" /\ UNCHANGED status
      BY <2>1, EndFrame DEF IInv, serverVars
    <2>7. SecondKeys'
      BY <2>6 DEF SecondKeys, SecondSteps
    <2>8. SecondFile'
      BY <1>3, <1>5, <2>4, <2>5, <2>6 DEF SecondFile, SecondSteps
    <2>9. SecondDone'
      BY <1>3, <1>5, <2>6 DEF SecondDone
    <2>10. QED
      BY <2>2, <2>3, <2>7, <2>8, <2>9, <1>2 DEF IInv, SecondInv
  <1>6. QED
    BY <1>4, <1>5 DEF Devices

LEMMA WriteFileStep == ASSUME IInv, NEW d \in Devices, WriteFile(d) PROVE IInv'
  <1>1. keys[d] \in KeySets /\ hurt[d] \in SUBSET {"cut", "dropped", "removed"}
    BY DEF IInv, TypeOK
  <1>2. CASE Open(d)
    BY <1>2, OpenStep
  <1>3. CASE Write(d)
    <2> DEFINE f == File(keys[d], FieldsOf(keys[d]))
    <2>1. f \in Files /\ f.state = "whole" /\ f.keys = keys[d] /\ f.has = FieldsOf(keys[d])
      BY <1>1 DEF File, Files, FieldsOf
    <2>2. hurt' = [hurt EXCEPT ![d] = hurt[d]]
      BY <1>3 DEF Write, IInv, TypeOK
    <2> HIDE DEF f
    <2>3. pc[d] = "write" /\ Written(d, f) /\ UNCHANGED <<serverVars, runs>>
      BY <1>3 DEF Write, f
    <2>4. QED
      BY <1>1, <2>1, <2>2, <2>3, WrittenStep
  <1>4. CASE WriteShort(d)
    <2>1. CutFile.state = "cut" /\ CutFile \in Files
      BY FileTypes DEF CutFile, NoFile
    <2>2. /\ pc[d] = "write" /\ Written(d, CutFile) /\ UNCHANGED <<serverVars, runs>>
          /\ hurt' = [hurt EXCEPT ![d] = hurt[d] \cup {"cut"}]
      BY <1>4 DEF WriteShort
    <2>3. hurt[d] \cup {"cut"} \in SUBSET {"cut", "dropped", "removed"} /\ hurt[d] \cup {"cut"} # {}
      BY <1>1
    <2>4. QED
      BY <2>1, <2>2, <2>3, WrittenStep
  <1>5. CASE WriteWithout(d)
    <2>1. PICK x \in FieldsOf(keys[d]) : Written(d, File(keys[d], FieldsOf(keys[d]) \ {x}))
      BY <1>5 DEF WriteWithout
    <2> DEFINE f == File(keys[d], FieldsOf(keys[d]) \ {x})
    <2>2. f \in Files /\ f.state = "whole" /\ f.keys = keys[d]
      BY <1>1 DEF File, Files, FieldsOf
    <2>3. /\ pc[d] = "write" /\ Written(d, f) /\ UNCHANGED <<serverVars, runs>>
          /\ hurt' = [hurt EXCEPT ![d] = hurt[d] \cup {"dropped"}]
      BY <1>5, <2>1 DEF WriteWithout
    <2>4. /\ hurt[d] \cup {"dropped"} \in SUBSET {"cut", "dropped", "removed"}
          /\ "dropped" \in hurt[d] \cup {"dropped"} /\ hurt[d] \cup {"dropped"} # {}
      BY <1>1
    <2> HIDE DEF f
    <2>5. QED
      BY <2>2, <2>3, <2>4, WrittenStep
  <1>6. QED
    BY <1>2, <1>3, <1>4, <1>5 DEF WriteFile

LEMMA RemoveStep == ASSUME IInv, NEW d \in Devices, Remove(d) PROVE IInv'
  <1> USE DeviceFacts DEF Remove
  <1>1. TypeOK'
    BY FileTypes DEF IInv, TypeOK, serverVars
  <1>2. ServerInv' /\ EnrollmentsKept
    BY ServerFrame DEF IInv, serverVars
  <1>3. /\ file'[d].state = "none" /\ hurt'[d] # {}
        /\ \A e \in Devices \ {d} : Same(e)
    BY DEF IInv, TypeOK, Same, NoFile
  <1>4. CASE d = First
    <2>1. FirstInv'
      BY <1>3, <1>4 DEF IInv, FirstInv, FirstKeys, FirstFile, FirstCram, FirstDone, serverVars
    <2>2. QED
      BY <2>1, <1>1, <1>2, <1>3, <1>4, SecondFrame DEF IInv
  <1>5. CASE d = Second
    <2>1. SecondInv'
      BY <1>3, <1>5 DEF IInv, SecondInv, SecondKeys, SecondFile, SecondDone, serverVars
    <2>2. QED
      BY <2>1, <1>1, <1>2, <1>3, <1>5, FirstFrame DEF IInv, serverVars
  <1>6. QED
    BY <1>4, <1>5 DEF Devices

-----------------------------------------------------------------------------
\* STEPS of the owner

LEMMA ApproveStep == ASSUME IInv, NEW r \in Runs, Approve(r) PROVE IInv'
  <1> USE DeviceFacts DEF Approve, deviceVars
  <1>1. TypeOK'
    BY DEF IInv, TypeOK
  <1>2. ServerInv'
    BY DEF IInv, ServerInv, TypeOK
  <1>3. EnrollmentsKept
    BY DEF IInv, EnrollmentsKept, TypeOK
  <1>4. FirstInv' /\ SecondInv'
    BY <1>3, FirstFrame, SecondFrame DEF IInv, Same
  <1>5. QED
    BY <1>1, <1>2, <1>4 DEF IInv

LEMMA DenyStep == ASSUME IInv, NEW r \in Runs, Deny(r) PROVE IInv'
  <1> USE DeviceFacts DEF Deny, deviceVars
  <1>1. TypeOK'
    BY DEF IInv, TypeOK
  <1>2. ServerInv'
    BY DEF IInv, ServerInv, TypeOK
  <1>3. EnrollmentsKept
    BY DEF IInv, EnrollmentsKept, TypeOK
  <1>4. FirstInv' /\ SecondInv'
    BY <1>3, FirstFrame, SecondFrame DEF IInv, Same
  <1>5. QED
    BY <1>1, <1>2, <1>4 DEF IInv

-----------------------------------------------------------------------------
\* THE INVARIANT

LEMMA DeviceStep == ASSUME IInv, NEW d \in Devices, Device(d) PROVE IInv'
  <1>1. CASE d = First /\ Onboard
    BY <1>1, CramAuthenticateStep, RequestFirstStep, PkamAuthenticateStep, PutPublicKeyStep,
       DeleteCramSecretStep DEF Onboard
  <1>2. CASE d = Second /\ Enroll
    BY <1>2, LookUpStep, RequestApkamStep, WaitStep, FetchPrivateKeyStep, FetchSelfKeyStep DEF Enroll
  <1>3. CASE WriteFile(d)
    BY <1>3, WriteFileStep
  <1>4. CASE Fails(d)
    BY <1>4, EndStep DEF Fails
  <1>5. QED
    BY <1>1, <1>2, <1>3, <1>4 DEF Device

LEMMA NextStep == IInv /\ [Next]_vars => IInv'
  <1> SUFFICES ASSUME IInv, [Next]_vars PROVE IInv'
    OBVIOUS
  <1>1. CASE Start(First, "cram") \/ Start(Second, "lookup")
    BY <1>1, StartFirstStep, StartSecondStep
  <1>2. CASE \E d \in Devices : Device(d) \/ Crash(d) \/ Remove(d)
    BY <1>2, DeviceStep, EndStep, RemoveStep DEF Crash
  <1>3. CASE \E r \in Runs : Approve(r) \/ Deny(r)
    BY <1>3, ApproveStep, DenyStep
  <1>4. CASE UNCHANGED vars
    <2>1. UNCHANGED <<cram, status, legacy, public, under, stored>>
          /\ UNCHANGED <<pc, keys, auth, tries, ret, file, hurt, runs>>
      BY <1>4 DEF vars, serverVars, deviceVars
    <2>2. TypeOK' /\ ServerInv' /\ EnrollmentsKept
      BY <2>1, ServerFrame DEF IInv, TypeOK
    <2>3. FirstInv' /\ SecondInv'
      BY <2>1, <2>2, FirstFrame, SecondFrame DEF IInv, Same
    <2>4. QED
      BY <2>2, <2>3 DEF IInv
  <1>5. QED
    BY <1>1, <1>2, <1>3, <1>4 DEF Next

\* What was generated together stays together, from the run to the file, in every state.
THEOREM Invariant == Spec => []IInv
  BY InitIInv, NextStep, PTL DEF Spec

\* Every variable keeps its type: no step of either command, of the owner or of the
\* operator writes anything else.
THEOREM TypeCorrect == Spec => []TypeOK
  <1>1. IInv => TypeOK
    BY DEF IInv
  <1>2. QED
    BY <1>1, Invariant, PTL

-----------------------------------------------------------------------------
\* A file whose fields are all there is read without a fault, with all it holds.
LEMMA WholeFile ==
    ASSUME NEW f \in Files, f.state = "whole", f.has = FieldsOf(f.keys)
    PROVE  Reading(f) = "ok"
  BY FieldFacts DEF Reading, FieldsOf

LEMMA FirstWorks ==
    ASSUME IInv, file[First].state = "whole", "dropped" \notin hurt[First]
    PROVE  Works(First)
  <1> DEFINE f == file[First]
  <1>1. f \in Files /\ legacy # None /\ f.keys = GeneratedFirst(legacy) /\ f.has = FieldsOf(f.keys)
    BY DeviceFacts DEF IInv, TypeOK, FirstInv, FirstFile
  <1>2. Reading(f) = "ok"
    BY <1>1, WholeFile
  <1>3. "symmetric" \notin f.has
    BY <1>1 DEF FieldsOf, GeneratedFirst
  <1>4. Loaded(f) = [GeneratedFirst(legacy) EXCEPT !.symmetric = None, !.id = None]
    BY <1>1, <1>3 DEF Loaded
  <1>5. Accepts(Loaded(f))
    BY <1>1, <1>4 DEF Accepts, GeneratedFirst
  <1>6. Loaded(f).public = legacy /\ Loaded(f).private = legacy /\ Loaded(f).self = legacy
    BY <1>4 DEF GeneratedFirst
  <1>7. QED
    BY <1>2, <1>5, <1>6 DEF Works

LEMMA SecondWorks ==
    ASSUME IInv, file[Second].state = "whole", "dropped" \notin hurt[Second]
    PROVE  Works(Second)
  <1> DEFINE f == file[Second]
  <1>1. /\ f \in Files /\ f.has = FileFields
        /\ f.keys.id \in Runs /\ status[f.keys.id] = "approved" /\ f.keys.pkam = f.keys.id
        /\ f.keys.symmetric = f.keys.id /\ f.keys.private = f.keys.public /\ f.keys.self = f.keys.public
    BY DeviceFacts DEF IInv, TypeOK, SecondInv, SecondFile
  <1>2. f.keys.id # None /\ f.keys.symmetric # None
    BY <1>1, BoundsAreNumbers DEF None, Runs
  <1>3. Reading(f) = "ok"
    BY <1>1, <1>2, WholeFile DEF FieldsOf
  <1>4. Loaded(f) = f.keys
    BY <1>1, FieldFacts DEF Loaded
  <1>5. QED
    BY <1>1, <1>2, <1>3, <1>4 DEF Works, Accepts

LEMMA WholeWorks ==
    ASSUME IInv, NEW d \in Devices, file[d].state = "whole", "dropped" \notin hurt[d]
    PROVE  Works(d)
  BY FirstWorks, SecondWorks DEF Devices

\* However an onboarding ended, the atSign can still be reached, unless something befell
\* the file behind the command's back: for every number of runs and every interleaving
\* with an enrollment.
THEOREM NeverLockedOut == Spec => []NoLockout
  <1>1. IInv => NoLockout
    BY WholeWorks, DeviceFacts DEF IInv, FirstInv, FirstCram, NoLockout
  <1>2. QED
    BY <1>1, Invariant, PTL

\* A keys file that was written to its end works in every later state.
THEOREM FilesWork == Spec => []KeptKeysWork
  <1>1. IInv => KeptKeysWork
    BY WholeWorks DEF KeptKeysWork
  <1>2. QED
    BY <1>1, Invariant, PTL

\* A result of 0 of either command means what it says.
THEOREM ResultsHold == Spec => []OkMeansDone
  <1>1. ASSUME IInv PROVE OkMeansDone
    <2>1. ASSUME NEW d \in Devices, ret[d] = "ok", hurt[d] = {} PROVE Works(d)
      <3>1. file[d].state = "whole"
        BY <1>1, <2>1 DEF IInv, FirstInv, FirstDone, SecondInv, SecondDone, Devices
      <3>2. QED
        BY <1>1, <2>1, <3>1, WholeWorks
    <2>2. ret[First] = "ok" => ~cram /\ public # None
      BY <1>1 DEF IInv, FirstInv, FirstDone
    <2>3. ret[First] = "ok" /\ hurt[First] = {} => public = file[First].keys.public
      BY <1>1 DEF IInv, FirstInv, FirstDone, FirstFile, GeneratedFirst
    <2>4. QED
      BY <2>1, <2>2, <2>3 DEF OkMeansDone
  <1>2. QED
    BY <1>1, Invariant, PTL

LEMMA WholeStays ==
    ASSUME IInv, [Next]_vars, NEW d \in Devices, file[d].state = "whole"
    PROVE  file'[d] \in {file[d], NoFile}
  <1> USE DeviceFacts
  <1>1. pc[d] # "open" /\ pc[d] # "write"
    BY DEF IInv, FirstInv, FirstFile, SecondInv, SecondFile, SecondSteps, Devices
  <1>2. file \in [Devices -> Files]
    BY DEF IInv, TypeOK
  <1>3. CASE UNCHANGED file
    BY <1>3
  <1>4. CASE \E e \in Devices : WriteFile(e)
    <2>1. PICK e \in Devices : WriteFile(e)
      BY <1>4
    <2>2. e # d
      BY <1>1, <2>1 DEF WriteFile, Open, Write, WriteShort, WriteWithout
    <2>3. QED
      BY <1>2, <2>1, <2>2 DEF WriteFile, Open, Write, WriteShort, WriteWithout, Written
  <1>5. CASE \E e \in Devices : Remove(e)
    BY <1>2, <1>5 DEF Remove
  <1>6. QED
    BY <1>3, <1>4, <1>5
       DEF Next, Start, Device, Fails, Crash, Approve, Deny, Onboard, CramAuthenticate, RequestFirst,
           PkamAuthenticate, PutPublicKey, DeleteCramSecret, Enroll, LookUp, RequestApkam,
           WaitForEnrollment, FetchPrivateKey, FetchSelfKey, Fetch, vars, deviceVars

\* No command opens or writes over a file that is whole, although it looked for one only
\* when it started.
THEOREM FilesKept == Spec => NeverOverwritten
  <1>1. IInv /\ [Next]_vars => [\A d \in Devices : file[d].state = "whole" => file'[d] \in {file[d], NoFile}]_vars
    BY WholeStays
  <1>2. QED
    BY <1>1, Invariant, PTL DEF Spec, NeverOverwritten
=============================================================================
