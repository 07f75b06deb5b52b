CONSTANTS
    Explored = {"mouse"}
    Layouts = {TRUE}
    FrameCap = 2
    FieldMax = 3
    WheelMax = 1
    AccumCap = 4
    Button = {"left"}
    Delta <- MCDelta
    Scroll <- MCScroll
    MaxRecords = 2
    MaxReports = 1
    MaxResets = 0
    a = a
    b = b
    ctrl = ctrl
    Keys <- MCKeys
    Modifiers <- MCModifiers
    KeySlots = 1
    MaxKbRecords = 0
    MaxKbReports = 0
    MaxKbResets = 0
SPECIFICATION MCSpec
INVARIANT ReleasesReachPC
