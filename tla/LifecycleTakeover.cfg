\* Two instances, one after the other or at the same time.
SPECIFICATION Spec
CONSTANTS
    Inst = {p1, p2}
    None = None
SYMMETRY Symmetry
PROPERTY LiveFileKept
