CONSTANTS
    Null = Null
\* Three days of four hours, overlapping checks of one person.
    Person = {jo}
    Application = {app1, app2}
    CheckRequest = {c1, c2}
    DayHours = 4
    MaxHour = 11
SPECIFICATION CacheSpec
INVARIANT
    ServedWithinADay
CHECK_DEADLOCK FALSE
