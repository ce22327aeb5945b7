SPECIFICATION Spec
CONSTANTS
    STRING_LIMIT = 4
    Char = {a, b}
    NUL = NUL
    Process = {p1}
    None = None
PROPERTIES
    ImplementsEditing
