\* Associations with a profile that changes, one fault, and fairness.
CONSTANTS
    Nil = Nil
    MaxTries = 1
    AckTimerInit = 1
    ReinitKeepAlive = 4
    ResourceWaitDelay = 2
    MaxCall = 2
    MaxFault = 1
    Faults = {"loss", "negotiation", "filter"}
    SeqNumMax = 3
    Commands = {"ASSOC"}
    MaxProfile = 2
SPECIFICATION FairSpec
PROPERTIES
    AssociationConverges
    ReleaseConverges
