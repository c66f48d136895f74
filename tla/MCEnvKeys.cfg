SPECIFICATION Spec
CONSTANTS
    Script = {s1, s2}
    Saver = {q1, q2}
    Rotation = {r1, r2}
    Reader = {d1}
    FirstKey = FirstKey
    FirstText = FirstText
    NoScript = NoScript
    NoText = NoText
    MaxRestarts = 1
SYMMETRY Alike
INVARIANTS
    RowsSound
    ReadersHeed
CHECK_DEADLOCK FALSE
