CONSTANTS
    null = null
    MAX = 9
    MAX_POWER = 9
    Unbounded = 1000
    Guess = 3
    ExtraPlaces = 3
    MaxRounds = 12
    NumberDigits = 4
    Defaults <- MCDefaults
    Options <- MCOptions
    Operands <- MCOperands
    Texts <- MCTexts
    Exponents <- MCExponents
    Places <- MCPlaces
    Bases <- MCBases
    MaxDigits = 2
    MaxExp = 1
SPECIFICATION Spec
INVARIANTS TypeOK ArithmeticExact QuotientRounded RootRounded TextRoundTrip ShownRounded FractionClosest BasesRounded
PROPERTIES SettingsOnlyByConfig
CHECK_DEADLOCK FALSE
