SPECIFICATION Spec
SYMMETRY Symmetry
VIEW Seen
CONSTANTS
    Thread = {t1, t2}
    Item = {i1, i2}
    PhotoId = {p1, p2}
    Nothing = none
    MaxPart = 2
    Given <- FirstOfEach
INVARIANTS
    TypeOK
    PrimaryIsShown
    PhotosHaveFiles
