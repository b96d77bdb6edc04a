SPECIFICATION Spec
CONSTANTS
    Req = {r1, r2}
    Serial = TRUE
    MaxBytes = 4
    MaxCrashes = 1
SYMMETRY Slots
INVARIANT TypeOK
INVARIANT CreditWithinTransfer
