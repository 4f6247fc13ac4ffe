\* One escrow from creation to closure, every instruction, every wallet status.
SPECIFICATION Spec
CONSTANTS
    alice = alice
    bob = bob
    carol = carol
    aw = aw
    bw = bw
    cw = cw
    ProtocolAuthority = authority
    NoOne = no_one
    NoTerms = no_terms
    EscrowIds = {e1}
    Agents <- MCAgents
    Wallets <- MCWallets
    AuthorityOf <- MCAuthorityOf
    Terms <- LifecycleTerms
    Splits <- MCSplits
    SECS_PER_DAY = 4
    MAX_DECAY_DAYS = 10
    DECAY_TABLE <- GenDecayTable
    DISPUTE_WINDOW_SECS = 2
    ESCALATION_GRACE_SECS = 2
    MIN_DISPUTE_DEADLINE = 1
    MAX_DISPUTE_DEADLINE = 3
    U64_MAX = 20000000
    InitialTokens = 9000
    Newcomers = {bob}
    MaxStart = 1
    MaxCreations = 1
    MaxAdminSteps = 2
    MaxStray = 1
INVARIANTS
    TypeOK
    VaultAccounted
    CommittedPayable
    DisputeIsFresh
PROPERTIES
    SettlementCountedOnce
    SettlementShares
    ClaimWaitsForWindow
    FallbackRefundWaits
    FreezeSparesTheUnlisted
    FollowsStatusGraph
    KeepsPromise
CHECK_DEADLOCK FALSE
