SPECIFICATION Spec
CONSTANTS
    Account = {a1, a2}
    Seed = a1
    Token = {t1}
    Request = {r1, r2}
    Patch <- SomePatches
SYMMETRY Symmetry
INVARIANT AlwaysAnAdmin
