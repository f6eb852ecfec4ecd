CONSTANTS
    Word <- MCWord
    Meaning <- MCMeaning
    Sen = {}
    Chunk <- MCChunk
    Wsd <- MCWsd
    Db <- MCDb
    Dom <- MCDom
    Phrasal <- MCPhrasal
    Typed = {}
    Form <- MCForm
    The = "run"
    Low <- MCLow
    Possessive <- MCPossessive
    Strip <- MCStrip
    Numeric = {"12"}
    Plural = {}
    Singular <- MCSingular
    Default <- MCDefault
    Glossary = {}
    Mixed = {}
    ProperNoun = {}
    Translit = {}
SPECIFICATION MCSpec
INVARIANTS
    OneOwnMeaning
    NoneForgotten
PROPERTIES
    Terminates
CHECK_DEADLOCK FALSE
