SPECIFICATION Spec

CONSTANTS
    prefixed = prefixed
    plain = plain
    short = short
    long = long
    other = other
    brief = brief
    PrefixedModels = {prefixed}
    PlainModels = {plain}
    Texts = {short, long, other}
    UnfitTexts = {brief}
    MaxSeedQueryCount = 3
    Caps <- Small
    Calls <- SomeCalls
    Plans <- SomePlans
    Triggers <- SomeTriggers
    Watches <- WatchesOfPrograms
    Drafts <- SomeDrafts
    Reports <- SomeReports
    Comparisons <- SomeComparisons

INVARIANT TargetModelIsCalled

\* a question is answered once
CHECK_DEADLOCK FALSE
