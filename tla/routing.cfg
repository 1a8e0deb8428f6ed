\* Interface filtering off and nothing fails: an instance on two interfaces,
\* over both protocols.
SPECIFICATION FairSpec
CONSTANTS
    Name = {a}
    Iface = {if1, if2}
    MaxCopy = 1
    MaxFaces = 2
    Protocols <- Both
    FilterInterface = FALSE
    Faults = {}
PROPERTIES
    ListedObjectsKeepTheirFace
    PresentObjectsGetAFace
