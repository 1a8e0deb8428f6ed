\* Interface filtering on: the protocol that was not filtered goes.
SPECIFICATION FairSpec
CONSTANTS
    Name = {a}
    Iface = {if1}
    MaxCopy = 2
    MaxFaces = 2
    Protocols <- Both
    FilterInterface = TRUE
    Faults = {}
PROPERTY
    PresentInstancesGetAFace
