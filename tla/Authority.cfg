CONSTANTS
    Guest = {g1, g2}
    Click = {c1}
    MaxGuests = 2
    HistoryLimit = 2
    ForceSnapshot = 99
    Text <- OneText
    MaxPages = 2
    MaxTrouble = 1
SPECIFICATION Spec
INVARIANTS
    TypeOK
    NothingSeenBeforeSaved
    ReplicasMatchLog
    BindingsAgree
    QuietGuestsAgree
PROPERTIES
    ImplementsPartyLog
CHECK_DEADLOCK FALSE
