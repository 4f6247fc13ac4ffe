\* Two disputes at once, updates of the escrow program, a rotation, a crash and
\* RPC errors; the voter lists every account the program asks for.
SPECIFICATION FairSpec
CONSTANTS
    x = x
    y = y
    d1 = d1
    d2 = d2
    Agents = {x, y}
    Disputes = {d1, d2}
    AgentOf <- MCAgentOf
    CounterpartyOf <- MCCounterpartyOf
    Keys = {k1, k2}
    Escrow = escrow
    Attempts = 2
    ListsRegistry = TRUE
    Verdicts = {"AgentFaulted"}
    MaxTroubles = 2
INVARIANTS
    TypeOK
    VerdictsWrittenOnce
    QueueHoldsUnfinished
PROPERTIES
    HandlersEnd
CHECK_DEADLOCK FALSE
