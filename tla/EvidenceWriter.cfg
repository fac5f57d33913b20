CONSTANTS
    a = a
    b = b
    big = big
    fin = fin
    Appends = {a, big}
    Large = {big}
    Finalizes = {fin}
    MaxCrashes = 2
    MayFail = TRUE
SPECIFICATION Spec
INVARIANTS ChainSound AppendedOnce ManifestHolds
PROPERTIES RecordsStay CallsEnd
CHECK_DEADLOCK FALSE
