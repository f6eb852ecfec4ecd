CONSTANTS
    Word <- MCWord
    Meaning <- MCMeaning
    Sen <- MCSen
    Chunk <- MCChunk
    Wsd <- MCWsd
    Db <- MCDb
    Dom <- MCDom
    Phrasal <- MCPhrasal
    Typed <- MCTyped
SPECIFICATION Spec
INVARIANTS
    DoubleOnlyByOverlap
    RivalsSettledFirst
    DecidedAreReleased
PROPERTIES
    ImplementsStage
CHECK_DEADLOCK FALSE
