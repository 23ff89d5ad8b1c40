CONSTANTS
    Fds = {0, 1, 2}
    Objects = {o1, o2}
    Senders = {s1, s2}
    MaxCommands = 2
    MaxMoves = 2
SPECIFICATION Spec
CONSTRAINT Bounded
INVARIANTS
    EventsToTheirOwner
    WatchesWhatWasAsked
    OneSignal
    EntryInPlace
PROPERTY CommandsProcessed
