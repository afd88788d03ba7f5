\* Two calls at once on a network that loses nothing.
SPECIFICATION Spec
CONSTANTS
    Token = {t1, t2, t3}
    NoToken = NoToken
    Call = {c1, c2}
    MaxStray = 1
SYMMETRY Symmetry
INVARIANTS EndedMeansEnded
