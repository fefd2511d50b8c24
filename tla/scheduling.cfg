\* Every endpoint, one request at a time and with two that overlap.
SPECIFICATION Spec
CONSTANTS
    Request = {r1, r2}
    Class = {c1, c2}
    Teacher = {t1, t2}
    NoTeacher = none
    Slot = {k1, k2, k3}
    Day = {"MON"}
    Minute = {0, 1, 2}
    Loads <- MCLoads
    Ops = {"create", "update", "remove", "teacher", "state"}
SYMMETRY Symmetry
INVARIANTS
    TypeOK
    NoClassOverlap
    NoDoubleBooking
PROPERTIES
    FrozenUnlessActive
