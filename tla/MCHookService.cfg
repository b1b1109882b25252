SPECIFICATION Spec
CONSTANTS
    hook = hook
    other = other
    Clients <- BothClients
    Invocations <- Pairs
    Builds = {"b1"}
    Backlog = 1
    MaxEpochs = 2
INVARIANTS
    AnswersAreTrue
    OutboundCallsAreRuled
PROPERTIES
    RepliesAreFlushed
    AlwaysExits
CHECK_DEADLOCK FALSE
