SPECIFICATION Spec
CONSTANTS
    Sorts = {"sum"}
    None = none
    NULL = NULL
    Refused = Refused
PROPERTY HoursStayNear
CHECK_DEADLOCK FALSE
