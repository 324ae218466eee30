\* Pause, resume, lock, unlock, delete and rollback by two threads that may give up, one crash.
CONSTANTS
    None = None
    Workflows <- BothFlows
    Actions <- BothFlowActions
    FlowOf <- MCFlowOf
    Before <- Chain
    RollbackOf <- MCRollbackOf
    UndoOf <- MCUndoOf
    Skipped <- MCSkipped
    Async = {}
    Retry = {}
    Feedback = {}
    Limit <- NoLimit
    Senders <- TwoSenders
    SenderOf <- MCSenderOf
    Replies <- FinishOrRollback
    Calls <- AllCalls
    Answers <- Done
    Lossy = FALSE
    MaxRepeat = 1
    Copies <- OneCopy
    MaxInbox = 2
    MaxCalls = 2
    MaxCrashes = 1
SPECIFICATION Spec
INVARIANTS
    PausedIsQuiet
    ReadyIsWoken
PROPERTIES
    LockedKept
    ImplementsSaga
