\* Three handles: the registration, browse and resolve requests in any
\* combination, callbacks that cancel any request, every fault.
SPECIFICATION Spec
CONSTANTS
    Ref = {r1, r2, r3}
    NoRef = NoRef
    Fd <- Fd3
    Name = {self, a}
    Uuid = self
    Iface = {if1}
    MaxId = 2
    MaxCopy = 1
    Reentrant = {"cancelOther"}
    Faults = {"throw", "processError", "selectError"}
SYMMETRY RefSymmetry
INVARIANTS
    TypeOK
    HandlesMatchRequests
    RunLoopWatchesHandles
PROPERTY
    LiveRequestsKeepTheirHandles
