SPECIFICATION Spec
CONSTANTS
    Menus = {menu}
    Bots = {bot}
    Topics = {"mode", "ipv6", "tg", "syno", "ssh"}
    SshPorts = {"p10022", "p2000"}
    DefaultPort = "p10022"
    MaxOps = 3
    None = "none"
INVARIANTS
    TypeOK
    CoupledKeys
    SshAsShown
    PureHolds
CONSTRAINT Followed
CHECK_DEADLOCK FALSE
