\* One upgrade-authority test, one failed call.
SPECIFICATION Spec
CONSTANTS
    admin = admin
    oracle = oracle
    new_oracle = new_oracle
    deployer = deployer
    vault = vault
    alice = alice
    bob = bob
    tmp1 = tmp1
    tmp2 = tmp2
    tmp3 = tmp3
    tmp4 = tmp4
    escrow = escrow
    old_escrow = old_escrow
    k1 = k1
    k2 = k2
    Pubkeys <- MCPubkeys
    Agents <- MCAgents
    Keys <- MCKeys
    NoKey = no_key
    INITIAL_AUTHORITY = admin
    REPUTATION_ORACLE_AUTHORITY = oracle
    EscrowPrograms <- MCEscrowPrograms
    VAULTPACT_ESCROW_PROGRAM = escrow
    DEPLOYER = deployer
    Scripts <- OneTest
    MaxStarted = 1
    MaxFaults = 1
    MaxAdminSteps = 0
INVARIANT
    AlwaysRestores
CHECK_DEADLOCK FALSE
