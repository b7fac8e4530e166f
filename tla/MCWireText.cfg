CONSTANTS
    Pieces = {"@", ":", "null", "x"}
    MaxLine = 6
    Digits = {"0", "5", "6", "6553"}
    DigitValue <- MCDigitValue
    DigitWeight <- MCDigitWeight
    MaxAnswer = 5
    PartLenMax = 4
    PortMax = 65535
    Steps <- MCSteps
    MaxSteps = 5
    Words = {"a", "b", "public"}
    NumberFields = {"ttl", "ttb", "ttr"}
    FlagFields = {"ccd", "isBinary", "isEncrypted"}
    TextFields = {"dataSignature", "sharedKeyStatus", "sharedKeyEnc", "hash", "algo", "encoding",
                  "encKeyName", "encAlgo", "ivNonce", "skeEncKeyName", "skeEncAlgo"}
    FieldOrder <- MCFieldOrder
    FieldNumbers <- MCFieldNumbers
    MaxTextLen = 1
    LongHalf = 16
    MaxPower = 3
    MaxFields = 3
    Kinds = {"self", "shared"}
    Atkeys = {k1, k2}
    Ivs = {i1, i2, i3, i4, i5}
    Domains <- MCDomains
    Ids = {0, 1, 3, 4, 5}
    IdSpan = 4
    LongSpans = {4, 16}
SPECIFICATION TextSpec
INVARIANTS
    PromptsAgree
    AddressOrError
    KeyTextRoundTrip
    MetadataWhole
    ValuesComeBack
    AnswersFindTheirRequest
\* a text is complete at its bound
CHECK_DEADLOCK FALSE
