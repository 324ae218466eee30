\* Every command, two calls of the manager and one fault.
CONSTANTS
    Nil = Nil
    MaxTries = 2
    AckTimerInit = 1
    ReinitKeepAlive = 4
    ResourceWaitDelay = 2
    MaxCall = 2
    MaxFault = 1
    Faults = {"loss", "negotiation", "filter"}
    SeqNumMax = 4
    Commands = {"PRE", "ASSOC", "DEASSOC"}
    MaxProfile = 1
SPECIFICATION Spec
INVARIANTS
    TypeOK
    FilterHasVsi
    ProfileLostOnlyByRace
    KeptAlive
    AckIsUnambiguous
