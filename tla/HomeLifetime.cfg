\* Two dispatches over two client lifetimes, one group.
SPECIFICATION Spec
CONSTANTS
    MaxDispatches = 2
    MaxLives = 2
    Groups = {g1}
    Unaccounted = Unaccounted
    Flusher = Flusher
    NoSink = NoSink
    Subscriber = Subscriber
CHECK_DEADLOCK FALSE
INVARIANTS
    TakeoverKeepsSlots
    HomeFreesAfterClose
    CleanShutdownReportsAll
    ExitCancelsEverything
