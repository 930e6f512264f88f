SPECIFICATION Spec
CONSTANTS
    Configs <- DeviceOnly
    Nets <- OneNet
    OwnInLan = TRUE
    MaxEdits = 1
    MaxCopies = 2
INVARIANTS
    CoreExempt
