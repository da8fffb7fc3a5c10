CONSTANTS
    Letters <- AllLetters
    MaxDepth = 6
    MaxArguments = 3
    Units <- SomeUnits
    MinScale <- LowestScale
    MaxScale = 12
    MaxPower = 6
    SmallPower = 1
    ChunkedPower = 2
    GuardDigits = 1
    DefaultDigits = 1
    ExactExponent = 3
    FactorialLimit = 6
    MaxRootDegree = 4
    MaxPlaces = 3
    ModulusGuard = 1
    DivisionGuard = 1
    Widest = 150
SPECIFICATION ExpressionsSpec
INVARIANTS
    IndependentOfPrecision
CHECK_DEADLOCK FALSE
