\* One dispute, nothing goes wrong; the instruction as voter.ts builds it.
SPECIFICATION FairSpec
CONSTANTS
    x = x
    y = y
    d1 = d1
    d2 = d2
    Agents = {x, y}
    Disputes = {d1}
    AgentOf <- MCAgentOf
    CounterpartyOf <- MCCounterpartyOf
    Keys = {k1, k2}
    Escrow = escrow
    Attempts = 2
    ListsRegistry = FALSE
    Verdicts = {"AgentFaulted", "Mutual"}
    MaxTroubles = 0
PROPERTY
    DisputesAreWritten
CHECK_DEADLOCK FALSE
