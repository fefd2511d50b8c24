\* Two requests, overlapping or one at a time.
SPECIFICATION Spec
CONSTANTS
    Request = {r1, r2}
    Branch = {b1, b2, b3}
    Course = {k1}
    Teacher = {t1}
    Student = {u1}
    Class = {c1, c2}
    Code = {x1, x2}
    MaxDay = 1
    NoItem = none
    NoTeacher = noTeacher
    NewClass = newClass
    b1 = b1
    b2 = b2
    b3 = b3
    k1 = k1
    t1 = t1
    x1 = x1
    Starts <- MCStarts
INVARIANTS
    TypeOK
    InUseIsActive
    BranchCodesBounded
PROPERTIES
    RetiredStaysOut
SYMMETRY Symmetry
