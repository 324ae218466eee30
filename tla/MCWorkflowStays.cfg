\* The engine and a sender end the last two actions at the same time.
CONSTANTS
    None = None
    Workflows <- OneFlow
    Actions <- OneFlowActions
    FlowOf <- MCFlowOf
    Before <- Parallel
    RollbackOf <- MCRollbackOf
    UndoOf <- MCUndoOf
    Skipped = {}
    Async = {}
    Retry = {}
    Feedback <- SuccessOfB
    Limit <- NoLimit
    Senders <- OneSender
    SenderOf <- MCSenderOf
    Replies <- FinishOrRollback
    Calls <- CreateOnly
    Answers <- Done
    Lossy = FALSE
    MaxRepeat = 1
    Copies <- OneCopy
    MaxInbox = 2
    MaxCalls = 1
    MaxCrashes = 0
SPECIFICATION Spec
INVARIANTS
    FinishedIsClosed
