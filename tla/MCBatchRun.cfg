SPECIFICATION MCFairSpec
CONSTANTS
    r1 = r1
    r2 = r2
    n1 = n1
    n2 = n2
    physics = physics
    agriculture = agriculture
    chemistry = chemistry
    Runs = {r1, r2}
    Names = {n1, n2}
    Domains = {physics, agriculture, chemistry}
    Available = {physics, agriculture}
    General = general
    None = none
    MaxSentences = 2
INVARIANTS OwnDictionary ForeignOnlyByRivals OwnTranslations EachTranslated
PROPERTIES Finishes DictionarySpec
CHECK_DEADLOCK FALSE
