\* Interface filtering on: an instance that comes and goes over both protocols, every fault.
SPECIFICATION Spec
CONSTANTS
    Name = {a}
    Iface = {if1}
    MaxCopy = 2
    MaxFaces = 2
    Protocols <- Both
    FilterInterface = TRUE
    Faults <- AllFaults
INVARIANTS
    TypeOK
    KnownInstancesAreListed
    FacesAreKnown
PROPERTY
    ListedObjectsKeepTheirFace
