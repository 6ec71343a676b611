SPECIFICATION Spec
CONSTANTS
    Handle = {h1, h2, h3}
    Alloc = {a1, a2}
    NoAlloc = NoAlloc
    Size = 2
INVARIANTS NoDanglingHandle CountIsHolders TakerIsAlone ReleasedWithLastHandle
SYMMETRY Symmetry
CONSTRAINT Bounded
CHECK_DEADLOCK FALSE
