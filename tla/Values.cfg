SPECIFICATION Spec
CONSTANTS
    Sorts = {"calendar", "duration", "sum", "texts", "numbers"}
    None = none
    NULL = NULL
    Refused = Refused
INVARIANTS CalendarIsValid DatesAreReadBack DurationsAreReadBack TextsAreKept NumbersAreKept
PROPERTY SumsAreExact
CHECK_DEADLOCK FALSE
