------------------------------ MODULE MCWireText ------------------------------
(* WireText over small alphabets; numbers of two digits, a long of five bits. *)
EXTENDS WireText

MCDigitValue == [d \in Digits |-> CASE d = "0" -> 0 [] d = "5" -> 5 [] d = "6" -> 6 [] d = "6553" -> 6553]
MCDigitWeight == [d \in Digits |-> IF d = "6553" THEN 10000 ELSE 10]

MCSteps == {<<"cached", ":">>, <<"public", ":">>, <<"@", "a", ":">>,
            <<"public">>, <<"a">>, <<".", "a">>, <<".">>, <<"@">>, <<"@", "b">>, <<":">>}

MCFieldOrder == <<"ttl", "ttb", "ttr", "ccd", "isBinary", "isEncrypted",
                  "dataSignature", "sharedKeyStatus", "sharedKeyEnc", "hash", "algo", "encoding",
                  "encKeyName", "encAlgo", "ivNonce", "skeEncKeyName", "skeEncAlgo">>

MCFieldNumbers == {-17, -1, 0, 9, 10, 15, 16, 47, 100}

MCDomains == {<<"d">>, <<"x", "d">>, <<"y">>}
=============================================================================
