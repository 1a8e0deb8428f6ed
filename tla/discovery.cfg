\* A browse request that sees a service and the object's own name, each on
\* two interfaces, while a resolve request holds an object it has listed.
SPECIFICATION Spec
CONSTANTS
    Ref = {r1, r2}
    NoRef = NoRef
    Fd <- Fd2
    Name = {self, a}
    Uuid = self
    Iface = {if1, if2}
    MaxId = 1
    MaxCopy = 2
    Reentrant = {}
    Faults = {"throw"}
SYMMETRY RefSymmetry
INVARIANT
    DiscoveredCounts
PROPERTY
    ImplementsServiceBrowser
