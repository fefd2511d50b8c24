\* Two overlapping requests on any endpoint, three students and up to two seats.
SPECIFICATION OverlapSpec
CONSTANTS
    Request = {r1, r2}
    Student = {s1, s2, s3}
    Class = {c1}
    MaxCapacity = 2
    EndDate = {1}
    MaxDay = 0
    Slot = {k1}
    Ops = {"enroll", "setStatus", "unenroll", "updateClass", "removeClass", "schedule"}
SYMMETRY Symmetry
INVARIANTS
    OverbookingBounded
PROPERTIES
    SettledIsFinal
    ClosedStaysClosed
    OverbookedByOverlap
