\* Two escrows in turn under one id, the first one's dispute record left behind or not, fair cranks and claimants.
SPECIFICATION FairSpec
CONSTANTS
    alice = alice
    bob = bob
    carol = carol
    aw = aw
    bw = bw
    cw = cw
    ProtocolAuthority = authority
    NoOne = no_one
    NoTerms = no_terms
    EscrowIds = {e1}
    Agents <- MCAgents
    Wallets <- MCWallets
    AuthorityOf <- MCAuthorityOf
    Terms <- ReuseTerms
    Splits <- MCSplits
    SECS_PER_DAY = 4
    MAX_DECAY_DAYS = 10
    DECAY_TABLE <- GenDecayTable
    DISPUTE_WINDOW_SECS = 2
    ESCALATION_GRACE_SECS = 2
    MIN_DISPUTE_DEADLINE = 1
    MAX_DISPUTE_DEADLINE = 3
    U64_MAX = 20000000
    InitialTokens = 9000
    Newcomers = {}
    MaxStart = 3
    MaxCreations = 2
    MaxAdminSteps = 1
    MaxStray = 0
INVARIANTS
    DisputeIsFresh
    ScoresAreEarned
PROPERTIES
    CommittedSettles
CHECK_DEADLOCK FALSE
