SPECIFICATION FairSpec
CONSTANTS
    Ops = {1, 2}
    Outgoing = {1}
    Workers = 1
    Delays = {1}
    MaxNews = 2
    MaxTails = 1
INVARIANTS
    NothingForgotten
    NeverSleepsOverWork
    AttemptsAreCounted
PROPERTIES
    ChangesAreRead
    RetriesHappen
