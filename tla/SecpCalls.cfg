SPECIFICATION CallsSpec
CONSTANTS
    Q = 79
    MaxMag = 32
    MulMag = 8
    CURVE_B = 7
    Beta = 23
    Order = 67
    GX = 1
    GY = 18
    Top = 128
    Secrets = {0, 1, 5, 67, 72}
    Tweaks = {0, 1, 66, 67}
    Encodings <- MCEncodings
    Others = {1, 5}
    MaxKeyCalls = 4
    Signers = {1, 5, 72}
    Msgs = {0, 3, 72}
    NonceFns <- MCNonceFns
    NonceData <- MCNonceData
    Draw <- MCDraw
    MaxNonces = 3
    MaxSigCalls = 3
    HashValues = {1, 2, 5, 7, 78, 79, 100}
    ParsedX = {1, 2, 78, 79}
    CommitKeys <- MCCommitKeys
    Blinds = {0, 1, 66, 67}
    Values = {0, 1, 2}
    MaxItems = 2
    Base = 32
    ScalarBytes = 2
    NScalar = 1021
    SizeT = 2
    IntTag = 2
    SeqTag = 12
    DerInts <- MCDerInts
    EditBytes = {0, 1, 2, 3, 16, 17, 31}
    MaxEdits = 1
    Slots = {1, 2}
    Blocks = {1, 2, 3, 4, 5, 6}
    Seeds = {1}
    MaxBlindings = 1
    W = 8
    MaxExp = 2
    Amounts = {0, 1, 10, 16, 63, 64, 126, 127, 128, 129, 253, 255}
    Minimums = {0, 1, 9, 63, 64, 126, 127, 255}
    Precisions = {0, 1, 4, 5, 6, 8}
    HeaderEdits = {1, 32, 64, 255}
    Body <- MCBody
    PW = 6
    PMaxExp = 1
    N = 510007
    FieldP = 510031
    GenLog = 123457
    NoSuchX <- MCNoSuchX
    Sha <- MCSha
    Rng <- MCRng
    PBlinds = {400000, 510008}
    PValues = {0, 5, 27, 40, 63}
    PMinimums = {0, 5}
    PPrecisions = {0, 3, 6}
    PNonces = {11, 12}
    PMessages <- MCMessages
    PExtras <- MCExtras
INVARIANTS
    KeyPairKept
    SignaturesVerify
    RecoveryRight
    DerExact
    ContextsOwnTables
    ObjectsHoldPoints
    TalliesBalance
    RangesHold
    ProofsRewindable
    EditedRefused
