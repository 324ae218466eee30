\* Two actions with a prepared rollback; repeated feedback, one crash.
CONSTANTS
    None = None
    Workflows <- BothFlows
    Actions <- BothFlowActions
    FlowOf <- MCFlowOf
    Before <- Chain
    RollbackOf <- MCRollbackOf
    UndoOf <- MCUndoOf
    Skipped <- MCSkipped
    Async = {}
    Retry = {"b"}
    Feedback <- UndoFeedback
    Limit <- LimitA
    Senders <- OneSender
    SenderOf <- MCSenderOf
    Replies <- UndoReplies
    Calls <- SkipWork
    Answers <- Outcome
    Lossy = FALSE
    MaxRepeat = 2
    Copies <- TwoOfFailures
    MaxInbox = 1
    MaxCalls = 1
    MaxCrashes = 1
SPECIFICATION Spec
INVARIANTS
    TypeOK
    UndoArmed
    UndoAlone
    NothingVanishes
    ClosedIsFinished
PROPERTIES
    OutcomeStands
