SPECIFICATION Spec
CONSTANTS
    Actions <- MCActions
    Names <- MCNames
    Name <- MCName
    Pages <- MCPages
    PageOf <- MCPageOf
    OnLoad <- MCOnLoad
    Reads <- MCReads
    Confirms <- MCConfirms
    MaxAsked = 2
INVARIANTS TypeOK ResponseIsShown LoadingExplained
PROPERTIES SentWithResponses LoadFinishes
CHECK_DEADLOCK FALSE
