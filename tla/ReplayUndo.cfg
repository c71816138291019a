SPECIFICATION Spec
CONSTANTS
    None = None
    Widgets <- MCWidgets
    Values <- MCValues
    Pages <- MCPages
    PageOf <- MCPageOf
    Objects <- MCObjects
    MaxEdits = 3
    MaxItems = 3
    MaxFlight = 1
PROPERTIES UndoReverts
CHECK_DEADLOCK FALSE
