SPECIFICATION Spec
CONSTANTS
    Q = 7
    Even = {1, 2, 4}
INVARIANT CompletedSettles
