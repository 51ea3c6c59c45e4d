SPECIFICATION ArithmeticSpec
CONSTANTS
    Limb10 = 4
    Base10 = 5
    Top10 = 4
    Word10 = 8
    C0 = 3
    C1 = 1
    MaxMag10 = 4
    MulMag10 = 2
    Base5 = 6
    Top5 = 5
    Word5 = 9
    C = 1
    MaxMag5 = 3
    MulMag5 = 1
    Loads10 <- MCLoads10
    Loads5 <- MCLoads5
    Factors = {2, 3}
    MaxCalls = 6
    SLimb = 4
    SBits = 3
    SNC = 93
    SLambda = 3180
    SLattice <- MCScalarLattice
    Numbers <- MCNumbers
    Window = 3
    MaxScalarCalls = 3
    Block = 8
    Digest = 4
    WordBits = 8
    IV <- MCIV
    Transform <- MCTransform
    Sizes = {1, 3, 7, 8, 9, 17}
    KeySizes = {1, 8, 9}
    MaxBytes = 41
    DrawSizes = {1, 4, 9}
    MaxDraws = 3
    Q = 223
    MaxMag = 32
    MulMag = 8
    CURVE_B = 5
    Beta = 39
    Order = 229
    GX = 3
    GY = 60
    Lambda = 94
    Scales = {1, 7}
    MaxPointCalls = 4
    Limb = 2
    Bits = 4
    NC = 27
    Lattice <- MCLattice
    WINDOW_A = 3
    WINDOW_G = 4
    GenBits = 2
    NumsLog = 100
    Scalars = {0, 1, 114, 115, 228}
    ConstScalars <- MCConstScalars
    Logs = {1, 94, 228}
    MaxMults = 1
INVARIANTS
    FieldCorrect
    ScalarCorrect
    SplitIsShort
    RecodingsAddUp
    ChainsRaise
    HashesStandard
    PointsObeyGroupLaw
    MultiplesRight
    GenBlindingCancels
