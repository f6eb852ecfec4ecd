CONSTANTS
    Word <- MCWord
    Form <- MCForm
    Low <- MCLow
    Possessive <- MCPossessive
    Strip <- MCStrip
    Numeric <- MCNumeric
    Plural <- MCPlural
    Singular <- MCSingular
    Default <- MCDefault
    Glossary <- MCGlossary
    Mixed <- MCMixed
    ProperNoun <- MCProperNoun
    Translit <- MCTranslit
    The = "the"
SPECIFICATION MCSpec
INVARIANT EveryWordDecided
CHECK_DEADLOCK FALSE
