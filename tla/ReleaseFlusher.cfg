\* One group, counts up to three, two Home lifetimes.
SPECIFICATION FairSpec
CONSTANTS
    g1 = g1
    Groups <- OneGroup
    MaxSeq = 3
    MaxRuns = 2
    NoGroup = NoGroup
INVARIANTS
    TicketsHonest
    NoStrandedTicket
    NoLateFlush
    FlushMeansReported
PROPERTIES
    ImplementsReleaseQueue
    TicketsFinish
