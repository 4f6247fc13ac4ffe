\* refund on a timed pact that expired.
SPECIFICATION Spec
CONSTANTS
    alice = alice
    bob = bob
    carol = carol
    aw = aw
    bw = bw
    cw = cw
    ProtocolAuthority = authority
    NoOne = no_one
    NoTerms = no_terms
    EscrowIds = {e1}
    Agents <- MCAgents
    Wallets <- MCWallets
    AuthorityOf <- MCAuthorityOf
    Terms <- TimedTerms
    Splits <- NoSplits
    SECS_PER_DAY = 4
    MAX_DECAY_DAYS = 10
    DECAY_TABLE <- GenDecayTable
    DISPUTE_WINDOW_SECS = 2
    ESCALATION_GRACE_SECS = 2
    MIN_DISPUTE_DEADLINE = 1
    MAX_DISPUTE_DEADLINE = 3
    U64_MAX = 20000000
    InitialTokens = 9000
    Newcomers = {}
    MaxStart = 1
    MaxCreations = 1
    MaxAdminSteps = 1
    MaxStray = 0
PROPERTY
    TimedPactsRelease
CHECK_DEADLOCK FALSE
