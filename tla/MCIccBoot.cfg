CONSTANTS
    r1 = r1
    r2 = r2
    Record <- MCRecord
    Torn = Torn
    Slots = 3
    SeqMod = 3
    MaxAccepted = 2
    Fields = 2
    Payload = {0, 1, 2}
    NoSignal = 7
    MaxChanges = 0
SPECIFICATION MCSpec
INVARIANT BootSyncSeesZero
