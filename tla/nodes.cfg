\* The terminal prints the nodes while the main thread processes events.
SPECIFICATION Spec
CONSTANTS
    o1 = o1
    o2 = o2
    o3 = o3
    f1 = f1
    f2 = f2
    Object = {o1, o2, o3}
    File = {f1, f2}
    LastName <- LastName3
    LastSegment <- LastSegment3
    Own = Own
    NoFile = NoFile
    Broken = Broken
    Directory = Directory
    Events = Events
    MaxCommands = 0
INVARIANT
    NodesAreReadWhole
CHECK_DEADLOCK FALSE
