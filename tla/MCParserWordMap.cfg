CONSTANTS
    NoOfWords = 5
    LastPid = 11
    Text <- MCText
    Low <- MCLow
    Numeric = {"0.5"}
    Decimal = {"0.5"}
    Opening <- MCOpening
    NonAscii = {"nonascii1", "nonascii2"}
    Stem <- MCStem
SPECIFICATION MCSpec
INVARIANTS
    OneToOne
    Accounted
    DecimalLosesRest
    NoMissedMatch
    FaithfulAlignment
    NonAsciiRecovered
CHECK_DEADLOCK FALSE
