CONSTANTS
    Ids <- MCIds
    AtStart <- MCStart
    Zones <- MCZones
    Home = "UTC"
    NoZone = "null"
    Offered <- MCOffered
    RawCrons <- MCRaw
    PickDays <- MCDays
    PickHours <- MCHours
    PickMinutes <- MCMinutes
    MaxClicks = 2
    MaxDialogs = 2
    MaxToggles = 1
SPECIFICATION Spec
INVARIANTS SchedulePagesTypeOK ListCurrent PickerTellsTruth
PROPERTIES UntouchedKept
CHECK_DEADLOCK FALSE
