SPECIFICATION Spec
CONSTANTS
    Account = {a1, a2}
    Seed = a1
    Token = {t1, t2}
    Request = {r1, r2}
    Patch <- SomePatches
INVARIANTS
    TypeOK
    NewPasswordEndsSessions
PROPERTIES
    CountedAdminIsNotLast
    DeactivationEndsSessions
SYMMETRY Symmetry
