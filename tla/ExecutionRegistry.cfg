\* Two dispatches; two sinks, two groups, two barriers and two snapshots; a
\* Drain, two Close calls and a WaitPending.
SPECIFICATION MCSpec
CONSTANTS
    MaxDispatches = 2
    MaxBarrier = 2
    MaxFreezes = 2
    Groups = {g1, g2}
    Unaccounted = Unaccounted
    Sinks = {s1, s2}
    NoSink = NoSink
    Drainers = {d1}
    Closers = {c1, c2}
    Waiters = {w1}
INVARIANTS
    NoEarlyRelease
    ReleasesDelivered
    BarrierSettled
    NoLostWakeup
    DrainReachesEveryResource
    DrainedMeansIdle
    ClosedMeansResourcesClosed
PROPERTIES
    DrainTerminates
