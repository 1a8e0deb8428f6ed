\* Objects of one and of two segments, two of them with the same last component,
\* and two commands.
SPECIFICATION FairSpec
CONSTANTS
    o1 = o1
    o2 = o2
    o3 = o3
    f1 = f1
    f2 = f2
    Object = {o1, o2, o3}
    File = {f1, f2}
    LastName <- LastName3
    LastSegment <- LastSegment3
    Own = Own
    NoFile = NoFile
    Broken = Broken
    Directory = Directory
    Events = Events
    MaxCommands = 2
INVARIANTS
    TypeOK
    BacklogIsCommands
    ProgressIsRight
    FetchedFilesStay
    PublishedIsOwnOrFetched
PROPERTIES
    CommandsAreExecuted
    EventsKeepRunning
    ShutsDown
CHECK_DEADLOCK FALSE
