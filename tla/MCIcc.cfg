CONSTANTS
    r1 = r1
    r2 = r2
    Record <- MCRecord
    Torn = Torn
    Slots = 3
    SeqMod = 2
    MaxAccepted = 5
    Fields = 2
    Payload = {0, 1, 2}
    NoSignal = 7
    MaxChanges = 3
SPECIFICATION MCSpec
INVARIANTS
    TypesOK
    InOrderExactlyOnce
    RingHoldsUnpublished
    OnlyStateDisturbed
PROPERTIES
    DeadOnlyFromBoot
    RefinesQueue
    EverythingArrives
