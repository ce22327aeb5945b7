SPECIFICATION AllSpec
CONSTANTS
    Programs = {"floppyDir"}
    Value = {1, 2}
    MaxLength = 4
    FirstCap = 1
    MAX_VALUES = 4
    Thread = {w1, w2, w3}
    None = None
    Pid = {1, 2, 3}
    Client = {c1, c2}
    STRING_LIMIT = 3
    Char = {a, b}
    SharedChar = {a}
    Editor = {p1, p2}
    NUL = NUL
    NULL = NULL
    NaN = NaN
    workers = 3
    ITERATIONS = 3
    MaxLines = 3
    MaxAdds = 5
INVARIANTS
    NewReportIsExpected
