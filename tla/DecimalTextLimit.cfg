\* The constants of Arithmetic.cfg, and calls that format a decimal.
CONSTANTS
    LimbBits = 4
    Base = 16
    HalfBase = 4
    MaxLimbs = 30
    KaratsubaEntry = 4
    KaratsubaLeaf = 4
    InverseEntry = 3
    FactorialEntry = 8
    FactorialLeaf = 3
    Witnesses <- AllWitnesses
    MinScale <- LowestScale
    MaxScale = 12
    MaxPower = 6
    SmallPower = 1
    ChunkedPower = 2
    ScientificThreshold = 4
    LimbWidth = 4
    PrefixEntry = 5
    PrefixGuard = 2
    AutoChars = 6
    GuardDigits = 3
SPECIFICATION TextsSpec
INVARIANTS
    OutputIsBounded
