SPECIFICATION FairSpec
CONSTANTS
    Values = {a, b}
    Zero = zero
    Running = running
    Capacity = 2
    CounterMod = 6
    MaxBatch = 3
INVARIANTS RingInv NoTornRead
PROPERTIES IsFifoQueue ElementsLeave
CHECK_DEADLOCK TRUE
