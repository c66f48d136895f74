SPECIFICATION Spec
CONSTANTS
    Tab = {t1, t2}
    User = {a, b}
    NoUser = NoUser
    Change = {"delete"}
    Invited = {"viewer"}
    MaxTokens = 2
    MaxOpen = 2
SYMMETRY Alike
INVARIANTS
    SignedInTogether
CHECK_DEADLOCK FALSE
