SPECIFICATION Spec
CONSTANTS
    BitsPerByte = 3
    PerRequestMaxCoil = 4
    PerRequestMaxRegister = 5
    UintMod = 4096
    WireMod = 1024
    LengthMod = 64
    Setups <- MCSetups
    IdMod = 4
INVARIANTS
    TypeOK
    ReportsWhatIsHeld
    EveryVariableAnswered
    CleanWhenFree
    StoredIsRequested
PROPERTY AcceptedIsDone
CHECK_DEADLOCK FALSE
