\* Limbs of four bits, scales that overflow after a few steps, and limits small
\* enough for every path to be taken with values TLC can check.
CONSTANTS
    LimbBits = 4
    Base = 16
    HalfBase = 4
    MaxLimbs = 30
    KaratsubaEntry = 4
    KaratsubaLeaf = 4
    InverseEntry = 3
    FactorialEntry = 8
    FactorialLeaf = 3
    Witnesses <- AllWitnesses
    MinScale <- LowestScale
    MaxScale = 12
    MaxPower = 6
    SmallPower = 1
    ChunkedPower = 2
    ScientificThreshold = 4
    LimbWidth = 4
    PrefixEntry = 5
    PrefixGuard = 2
    AutoChars = 6
    GuardDigits = 3
\* A ring of eight slots, which wraps, and edges that are halved twice at most, with
\* room for anchors inside the shortest of them.
    PointLimit = 8
    MaxDepth = 2
    Spacing = 16
    Channels = 2
\* Searches that exhaust either allowance, on brackets that can be halved or
\* quartered to the end, and scans that exhaust theirs in front of a search.
    Values <- SmallValues
    Tolerance = 1
    WidthTolerance = 128
    MaxIterations = 2
    MaxEvaluations = 7
    Segments = 2
    MaxRoots = 2
    MaxTotal = 10
    Step = 128
    Width = 512
    Room <- Quarters
SPECIFICATION NumericsSpec
INVARIANTS
    IntegersExact
    DecimalsRounded
    TextsRounded
    SeriesAgrees
    RootsBracketed
PROPERTIES
    CurveIsRefined
