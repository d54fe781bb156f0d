CONSTANTS
    Calls = {c1, c2, c3}
    Capacity = 2
    Window = 2
SPECIFICATION FairSpec
INVARIANTS
    WindowBound
    ErrNeverGranted
    NoLostWaiter
    NoLostWakeup
    WorkConserving
PROPERTIES
    ServedInOrder
    EveryWaitReturns
    ImplementsFairGate
