\* One timed pact and the keeper of the repository, whose SDK lacks the methods it calls: does an expired pact leave Locked?
SPECIFICATION ClientsSpec
CONSTANTS
    alice = alice
    bob = bob
    carol = carol
    aw = aw
    bw = bw
    cw = cw
    e1 = e1
    ProtocolAuthority = authority
    NoOne = no_one
    NoTerms = no_terms
    EscrowIds = {e1}
    Agents <- MCAgents
    Wallets <- MCWallets
    AuthorityOf <- MCAuthorityOf
    Terms <- TimedTerms
    Splits <- NoSplits
    SECS_PER_DAY = 4
    MAX_DECAY_DAYS = 10
    DECAY_TABLE <- GenDecayTable
    DISPUTE_WINDOW_SECS = 1
    ESCALATION_GRACE_SECS = 1
    MIN_DISPUTE_DEADLINE = 1
    MAX_DISPUTE_DEADLINE = 3
    U64_MAX = 6000000
    InitialTokens = 2203
    Newcomers = {}
    MaxStart = 1
    MaxCreations = 1
    MaxAdminSteps = 0
    MaxStray = 0
    MaxCandidatesPerPoll = 1
    SdkHasCrank = FALSE
    MAX_ATTEMPTS = 2
    MAX_TRIES = 2
    MaxAdrift = 1
    CallIds = {c1}
    Requests <- TimedRequests
PROPERTY
    ExpiredLeaveLocked
CHECK_DEADLOCK FALSE
