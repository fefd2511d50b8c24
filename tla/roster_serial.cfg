\* One request at a time, every endpoint, two students and one or two seats.
SPECIFICATION Spec
CONSTANTS
    Request = {r1}
    Student = {s1, s2}
    Class = {c1}
    MaxCapacity = 2
    EndDate = {1, 2}
    MaxDay = 1
    Slot = {k1}
    Ops = {"enroll", "setStatus", "unenroll", "updateClass", "removeClass", "schedule", "student"}
INVARIANTS
    TypeOK
    CapacityRespected
    CancelledClassEmpty
    SerialInv
PROPERTIES
    FinalStatusKept
    CancellationKept
