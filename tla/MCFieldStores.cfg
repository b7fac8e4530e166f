CONSTANTS
    a1 = a1
    a2 = a2
    k1 = k1
    k2 = k2
    f1 = f1
    n1 = n1
    p1 = p1
    t1 = t1
    t2 = t2
    b1 = b1
    b2 = b2
    b3 = b3
    b4 = b4
    Blocks = {b1, b2, b3, b4}
    HeapOf <- Heaps
    Texts = {t1, t2}
    NULL = NULL
    Missing = Missing
    WrongType = WrongType
    NullText = t2
    Atkeys = {a1, a2}
    NameTexts <- SomeNames
    NameOrder <- SomeNameOrder
    ServerTexts = {"created_by"}
    KeyTexts = {"enc_key_name"}
    Numbers = {"ttl"}
    Flags = {}
    PlaceFlags = {"is_public"}
    MetadataOrder <- SomeMetadataOrder
    IntMax = 0
    NumberMax = 1
    Notifications = {n1}
    NotificationTexts <- SomeNotificationTexts
    NotificationNumbers = {"epoch_millis"}
    NotificationOrder <- SomeNotificationOrder
    EpochMax = 1
    Params = {p1}
    ParamTexts <- SomeParamTexts
    ParamValues = {"should_encrypt", "latest_n"}
    ParamMax = 1
    PutShared = PutShared
    GetSelf = GetSelf
    GetShared = GetShared
    GetPublic = GetPublic
    Delete = Delete
    GetAtkeys = GetAtkeys
    Authenticate = Authenticate
    KeySets = {k1, k2}
    Base64Texts <- SomeBase64Texts
    OptionalTexts <- SomeOptionalTexts
    RsaNumbers <- SomeRsaNumbers
    RsaSource <- SomeSource
    Base64Order <- SomeBase64
    OptionalOrder <- SomeOptional
    RsaOrder <- SomeRsa
    KeyFiles = {f1}
    FileTexts = {"aes_pkam_public_key_str", "self_encryption_key_str"}
    FileOptional = {"enrollment_id_str"}
    FileOrder <- SomeFileOrder
SPECIFICATION Spec
CONSTRAINT Few
SYMMETRY Symmetry
INVARIANTS
    TypeOK
    Sound
    LeaksAreKnown
PROPERTIES
    FieldsAreMaps
    Delivered
    CreatedAsAsked
