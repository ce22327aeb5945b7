SPECIFICATION Spec
CONSTANTS
    Value = {1, 2}
    MaxLength = 3
    MAX_VALUES = 3
    Worker = {w1, w2, w3}
    None = None
INVARIANTS
    IndexIsOfAValue
