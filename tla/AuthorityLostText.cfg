CONSTANTS
    Guest = {g1}
    Click = {}
    MaxGuests = 1
    HistoryLimit = 2
    ForceSnapshot = 99
    Text <- Texts
    MaxPages = 1
    MaxTrouble = 1
SPECIFICATION Spec
INVARIANTS
    DuplicatesAreDuplicates
CHECK_DEADLOCK FALSE
