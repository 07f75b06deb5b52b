CONSTANTS
    Explored = {"mouse", "clicks", "keyboard"}
    Layouts = {TRUE, FALSE}
    FrameCap = 2
    FieldMax = 3
    WheelMax = 1
    AccumCap = 4
    Button = {"left"}
    Delta <- MCDelta
    Scroll <- MCScroll
    MaxRecords = 2
    MaxReports = 1
    MaxResets = 1
    a = a
    b = b
    ctrl = ctrl
    Keys <- MCKeys
    Modifiers <- MCModifiers
    KeySlots = 1
    MaxKbRecords = 2
    MaxKbReports = 2
    MaxKbResets = 1
SPECIFICATION MCSpec
INVARIANTS
    TypesOK
    InjectionConserved
    NothingSticks
PROPERTIES
    AllDelivered
