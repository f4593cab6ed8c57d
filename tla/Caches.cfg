SPECIFICATION FairSpec

CONSTANTS
    Callers = {c1, c2}
    Domains = {"d1"}
    CatalogTtl = 2
    DomainTtl = 1
    Mixes = {{"model-catalog"}, {"brand-domain/check"}}
    MaxTime = 3

INVARIANTS
    TypeOK
    AnswersAreFresh
    

PROPERTIES
    CallsEnd

\* the model's clock stops at its bound
CHECK_DEADLOCK FALSE
