SPECIFICATION Spec
CONSTANTS
    NoShortcut = NoShortcut
    ActiveElementInput <- isActiveElementInput
    TextElement <- TakesText
    SystemTheme = "Light"
    Focusable <- Elements
    KeyEvent <- Keys
    Trace <- ThreeTraces
    MaxPicks = 2
    MaxKeys = 2
    MaxOther = 1
    MaxEvents = 4
INVARIANTS TypeOK DocumentFollows DialogAgrees ChartAgrees TracesReversed NothingStolen
CHECK_DEADLOCK FALSE
