CONSTANTS
    NoOfWords = 5
    LastPid = 11
    Text <- MCText
    Low <- MCLow
    Numeric = {"0.5"}
    Decimal = {"0.5"}
    Opening <- MCOpening
    NonAscii = {"nonascii1", "nonascii2"}
    Stem <- MCStem
SPECIFICATION MCSpec
INVARIANT RestRecovered
CHECK_DEADLOCK FALSE
