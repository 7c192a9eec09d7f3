SPECIFICATION Spec
CONSTANTS
    Texts = {t1, t2, t3, t4}
    Ingestions = {p1, p2, p3}
    NoInducer = {p3}
    Nobody = Nobody
    MaxCandidates = 2
    MaxRetrieved = 2
    MaxUses = 1
INVARIANT EveryRetrievalCounts
