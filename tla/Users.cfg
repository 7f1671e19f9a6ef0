SPECIFICATION UsersSpec
CONSTANTS
    People = {a1, a2, a3}
    Changes = {r1, r2}
SYMMETRY Symmetry
INVARIANTS
    SuperAdminRemains
CHECK_DEADLOCK FALSE
