CONSTANTS
    x = x
    Offsets = {0, 16}
    Names = {x}
    Sp = 100
    PointerSize = 8
    Stack <- MCStack
    MaxChildren = 2
SPECIFICATION Spec
INVARIANT FramesNeverPanics
