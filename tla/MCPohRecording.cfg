SPECIFICATION Spec
CHECK_DEADLOCK FALSE
CONSTANTS
    Senders = {s1, s2}
    Banks = 2
    Capacity = 2
    TicksPerSlot = 2
    HashesPerTick = 6
    HashesPerBatch = 2
INVARIANTS
    
    NothingInFlight
    IndexesFollowOrder
PROPERTY
    ServiceResponds
