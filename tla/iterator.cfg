\* A callback cancels a request other than its own.
SPECIFICATION Spec
CONSTANTS
    Ref = {r1, r2}
    NoRef = NoRef
    Fd <- Fd2
    Name = {self, a}
    Uuid = self
    Iface = {if1}
    MaxId = 2
    MaxCopy = 1
    Reentrant = {"cancelOther"}
    Faults = {}
SYMMETRY RefSymmetry
INVARIANT
    LoopIsDefined
