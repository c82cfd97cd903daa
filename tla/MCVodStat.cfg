SPECIFICATION Spec
CONSTANTS
    Lines <- MCLines
    Number <- MCNumber
    Machines <- MCMachines
    Hours <- MCHours
    LastHour <- MCLastHour
    MaxLines = 3
INVARIANTS
    StatsAreOfTheLog
    PlaytimeReaches
    ToolsAgree
CHECK_DEADLOCK FALSE
