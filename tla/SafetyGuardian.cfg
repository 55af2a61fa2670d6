SPECIFICATION Spec
CONSTANTS
    f1 = f1  f2 = f2
    Handlers = {"h"}
    HandlersFail = TRUE
    Callers = {"a", "b"}
    Forms = {f1, f2}
    TripleOf <- ApartTripleOf
    Proposals <- MCProposals
    Window = 2
    Latency = 0
    CallsFail = TRUE
INVARIANTS RejectedOrdersClaimNothing KillSwitchBlocks
 
