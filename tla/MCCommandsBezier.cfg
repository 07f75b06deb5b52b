SPECIFICATION MCSpec
CONSTANTS
    k1 = k1
    k2 = k2
    k3 = k3
    m1 = m1
    left1 = left1
    right1 = right1
    Explored = {"motion"}
    Keys <- MCKeys
    Modifiers <- MCModifiers
    KeySlots = 2
    ReleaseSlots = 3
    Buttons <- MCButtons
    Counts = {1, 2}
    Delays = {0, 2}
    Programs <- MCBackwards
    Half = 4
    MaxLag = 1
    One = 16
    StepMax = 3
    ClockHalf = 3
    LoopLag = 1
    TxBytes = 2
    CatchBytes = 2
    TellBytes = 1
    ReplyBytes = 1
    CatchMax = 1
    Durations = {0, 3}
    Bitmaps = {0, 1}
    Moves = {1}
    MaxRequests = 3
    MaxNotices = 2
    Rates = {1, 2}
    DefaultRate = 0
    DeferDelay = 2
    TfTimeout = 2
    FerrumIdle = 2
    LineMax = 2
    Lengths = {2, 4}
    RxMax = 2
    MaxMessages = 2
    HalfTop = 32
    Minus = Minus
    Plus = Plus
    Junk = Junk
    TextMax = 4
PROPERTY LandsOnEndpoint
