SPECIFICATION Spec
CONSTANTS
    Obj = {o1, o2}
    Tag = {t1, t2}
    NULL = NULL
    InitialCapacity = 1
    MaxCapacity = 4
    MaxGen = 1
SYMMETRY Symmetry
INVARIANTS
    TypeOK
    FreeListExact
    ResolveExact
PROPERTIES
    ImplementsHandleSpec
