SPECIFICATION Spec
CONSTANTS
    Menus = {m1, m2}
    Ports = {p1, p2}
    DefaultPorts = {p1}
    OldPorts = {p2}
    MaxWan = 1
    MaxCommon = 1
    Devices = {d1}
    Topics = {"wan", "common", "hosts", "flags", "ss", "ts", "lan"}
    Legacy = {"sss_cipher"}
    LegacyGw = {"fw_wan_ports"}
    MaxAnswers = 3
INVARIANTS
    TypeOK
    ListsBounded
    CipherHasItsPassword
SYMMETRY Symmetry
CHECK_DEADLOCK FALSE
