\* Two overlapping seeds, requests that create a teacher, one user.
SPECIFICATION AuthSpec
CONSTANTS
    Seeder = {s1, s2}
    Request = {r1}
    Org = {o1}
    Account = {u1}
    NoRole = noRole
    NoCode = noCode
SYMMETRY Symmetry
INVARIANTS
    SeedCovers
