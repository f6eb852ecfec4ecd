CONSTANTS
    Sent <- MCSent
    Texts <- MCTexts
    MaxSlots = 5
    Name <- MCSent
    Line <- Nat
    Separator = 0
SPECIFICATION Spec
INVARIANTS AllPlaced OverrunOnlyLong BlocksByPosition OwnBlock NeverEarlier LossShifts
PROPERTY ImplementsDivision
CHECK_DEADLOCK FALSE
