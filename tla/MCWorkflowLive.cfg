\* Every workflow ends although requests are lost and the process crashes.
CONSTANTS
    None = None
    Workflows <- OneFlow
    Actions <- OneFlowActions
    FlowOf <- MCFlowOf
    Before <- Chain
    RollbackOf <- MCRollbackOf
    UndoOf <- MCUndoOf
    Skipped = {}
    Async = {"b"}
    Retry = {}
    Feedback <- SuccessOfB
    Limit <- NoLimit
    Senders <- OneSender
    SenderOf <- MCSenderOf
    Replies <- FinishOrRollback
    Calls <- CreateOnly
    Answers <- Progress
    Lossy = TRUE
    MaxRepeat = 1
    Copies <- TwoCopies
    MaxInbox = 6
    MaxCalls = 1
    MaxCrashes = 1
SPECIFICATION FairSpec
PROPERTIES
    EveryWorkflowEnds
