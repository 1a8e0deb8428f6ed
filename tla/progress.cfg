\* The thread keeps running, through errors and exceptions; callbacks cancel
\* only their own request.
SPECIFICATION FairSpec
CONSTANTS
    Ref = {r1, r2}
    NoRef = NoRef
    Fd <- Fd2
    Name = {self, a}
    Uuid = self
    Iface = {if1}
    MaxId = 2
    MaxCopy = 1
    Reentrant = {}
    Faults = {"throw", "processError", "selectError"}
INVARIANTS
    IteratorIsValid
    NeverBlocks
PROPERTIES
    RepliesAreRead
    RunReturns
