SPECIFICATION FairSpec
CONSTANTS
    Capacity = 2
    MaxMessages = 4
INVARIANT EntriesAreReleased
PROPERTIES
    DeliversInOrder
    CancelEnds
    ProducerAdvances
