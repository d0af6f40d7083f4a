SPECIFICATION Spec
SYMMETRY Symmetry
CONSTANTS
    Item = {i1, i2}
    Req = {r1, r2, r3}
    MaxOpen = 3
    MaxNote = 2
INVARIANTS
    TypeOK
    NotesAreShown
