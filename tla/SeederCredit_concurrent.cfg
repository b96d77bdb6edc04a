SPECIFICATION Spec
CONSTANTS
    Req = {r1, r2}
    Serial = FALSE
    MaxBytes = 4
    MaxCrashes = 0
SYMMETRY Slots
INVARIANT NoOverCredit
