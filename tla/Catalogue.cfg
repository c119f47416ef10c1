SPECIFICATION Spec
CONSTANTS
    Lookup = {l1, l2}
    Field = {f1, f2}
    Choice = {c1}
    Property = {p1}
    Label = {A, B}
    Request = {r1, r2}
    None = None
    Seed = l1
    SeedLabel = A
    MaxLog = 3
SYMMETRY Symmetry
INVARIANTS
    TypeOK
    ValuesAreSound
PROPERTIES
    ChangesAreTold
