SPECIFICATION Spec
CONSTANTS
    Thread = {t1, t2}
    Slot = {x}
    Text = {empty, a}
    EmptyText = empty
    NoText = none
INVARIANT AllocatedOnce
