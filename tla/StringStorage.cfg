SPECIFICATION Spec
CONSTANTS
    Thread = {t1, t2}
    Slot = {x, y}
    Text = {empty, a, b}
    EmptyText = empty
    NoText = none
INVARIANTS TypeOK IndexIsPlace EqualityIsTextual
PROPERTIES TextsAreImmutable IndexIsForever StoreYieldsIndex
