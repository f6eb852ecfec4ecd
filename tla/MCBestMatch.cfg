SPECIFICATION FairSpec
CONSTANTS
    p = p
    q = q
    r = r
    s = s
    Vocabulary = {p, q, r, s}
    FoundSets <- MCFoundSets
    DomainSets <- MCDomainSets
INVARIANT NoneLost
INVARIANT OwnMeanings
INVARIANT ProvisionalOnlyToLonger
PROPERTY Terminates
CHECK_DEADLOCK FALSE
