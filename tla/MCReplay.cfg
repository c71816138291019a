SPECIFICATION Spec
CONSTANTS
    None = None
    Widgets <- MCWidgets
    Values <- MCValues
    Pages <- MCPages
    PageOf <- MCPageOf
    Objects <- MCObjects
    MaxEdits = 3
    MaxItems = 3
    MaxFlight = 1
INVARIANTS TypeOK InSync OwnLayout
PROPERTIES ReplaysExactly
CHECK_DEADLOCK FALSE
