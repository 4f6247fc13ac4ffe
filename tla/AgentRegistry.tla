----------------------------- MODULE AgentRegistry -----------------------------
(***************************************************************************)
(* The registry half of the vaultpact program: the AttestationRegistry     *)
(* singleton with its two authorities, its migration from the 49-byte to   *)
(* the 81-byte layout, and the agent wallets, whose address is the         *)
(* secp256r1 key they are registered under.                                *)
(*                                                                         *)
(* A secp256r1 signature over a challenge is the consent of the key's      *)
(* holder: an action below that needs one happens when the holder agrees.  *)
(* Fields of a wallet that no instruction reads (nonce, registered_at,     *)
(* key_version, deregister_deadline, bumps) are left out.                  *)
(***************************************************************************)
EXTENDS Integers, FiniteSets

CONSTANTS
    Pubkeys,                      \* ed25519 keys: authorities, operators, agents
    Agents,                       \* those that register wallets
    Keys,                         \* secp256r1 keys
    NoKey,                        \* Pubkey::default(): nobody signs for it
    INITIAL_AUTHORITY,            \* compiled into the program
    REPUTATION_ORACLE_AUTHORITY,  \* compiled into the program
    EscrowPrograms,               \* executable accounts: what may be named as the escrow program
    VAULTPACT_ESCROW_PROGRAM      \* the one VAULTPACT_ESCROW_AUTHORITY is a PDA of

ASSUME RegistryAssumption ==
    /\ NoKey \notin Pubkeys
    /\ Agents \cup {INITIAL_AUTHORITY, REPUTATION_ORACLE_AUTHORITY} \subseteq Pubkeys
    /\ IsFiniteSet(Keys)

VARIABLES
    registry,     \* AttestationRegistry; layout tells 49 bytes from 81
    wallets       \* the AgentWallet of each secp256r1 key

registryVars == <<registry, wallets>>

AgentStatus == {"Active", "Frozen", "Blacklisted", "DeregisterPending"}

(* holds_rent: its lamports are the minimum balance of 81 bytes.           *)
Registry == [layout : {"None", "Legacy", "Current"}, authority : Pubkeys \cup {NoKey},
             agent_count : Nat, oracle_authority : Pubkeys \cup {NoKey},
             holds_rent : BOOLEAN]

AgentWallet == [status : AgentStatus \cup {"Absent"}, authority : Pubkeys \cup {NoKey}]

NoRegistry == [layout |-> "None", authority |-> NoKey, agent_count |-> 0,
               oracle_authority |-> NoKey, holds_rent |-> FALSE]
NoWallet   == [status |-> "Absent", authority |-> NoKey]
NewWallet(a) == [status |-> "Active", authority |-> a]

Registered == {k \in Keys : wallets[k].status # "Absent"}

--------------------------------------------------------------------------------
(* No registry yet, or one of the old layout with the agents that          *)
(* registered before oracle_authority was added; it was created with the   *)
(* rent of 49 bytes, and somebody may have sent it lamports since.         *)
RegistryInit ==
    /\ wallets \in [Keys -> {NoWallet} \cup {NewWallet(a) : a \in Agents}]
    /\ \/ registry = NoRegistry /\ Registered = {}
       \/ \E holds_rent \in BOOLEAN :
             registry = [layout |-> "Legacy", authority |-> INITIAL_AUTHORITY,
                         agent_count |-> Cardinality(Registered),
                         oracle_authority |-> NoKey, holds_rent |-> holds_rent]

(* initialize_registry: `init` fails when the account exists, and the      *)
(* escrow authority derived from the escrow program that is named has to   *)
(* be the compiled-in one: no two programs have a PDA in common.           *)
InitializeRegistry(a, escrow_program) ==
    /\ registry.layout = "None"
    /\ a = INITIAL_AUTHORITY
    /\ escrow_program = VAULTPACT_ESCROW_PROGRAM
    /\ registry' = [layout |-> "Current", authority |-> a, agent_count |-> 0,
                    oracle_authority |-> REPUTATION_ORACLE_AUTHORITY,
                    holds_rent |-> TRUE]
    /\ UNCHANGED wallets

(* Variant: no double-migration guard.                                     *)
MigrateAnySize(a) ==
    /\ registry.layout # "None"
    /\ a = INITIAL_AUTHORITY /\ registry.holds_rent
    /\ registry' = [registry EXCEPT !.layout = "Current",
                                    !.oracle_authority = REPUTATION_ORACLE_AUTHORITY]
    /\ UNCHANGED wallets

(* migrate_attestation_registry: 49 bytes become 81, the oracle authority  *)
(* is the compiled-in one, everything else is where it was.  A registry    *)
(* short of the rent is to be topped up from the authority's lamports; the *)
(* instruction takes them itself, not by a transfer of the system program, *)
(* which owns that account, and the runtime fails a transaction in which a *)
(* program spends from an account it does not own.                         *)
MigrateAttestationRegistry(a) ==
    /\ registry.layout = "Legacy"
    /\ a = INITIAL_AUTHORITY
    /\ registry.holds_rent
    /\ registry' = [registry EXCEPT !.layout = "Current",
                                    !.oracle_authority = REPUTATION_ORACLE_AUTHORITY]
    /\ UNCHANGED wallets

(* Instructions that name the registry as a typed account fail on the      *)
(* 49-byte layout, which does not deserialize.                             *)
RegistryReads == registry.layout = "Current"

(* set_protocol_authority: gated by the compiled-in key, whatever          *)
(* registry.authority has become.                                          *)
SetProtocolAuthority(a, new_authority) ==
    /\ RegistryReads
    /\ a = INITIAL_AUTHORITY
    /\ new_authority # NoKey
    /\ registry' = [registry EXCEPT !.authority = new_authority]
    /\ UNCHANGED wallets

MaySetOracle(a) == RegistryReads /\ a = registry.authority

(* set_oracle_authority: by the authority the registry holds.              *)
SetOracleAuthority(a, new_oracle) ==
    /\ MaySetOracle(a)
    /\ new_oracle # NoKey
    /\ registry' = [registry EXCEPT !.oracle_authority = new_oracle]
    /\ UNCHANGED wallets

(* register_agent_wallet: the payer becomes the authority of the wallet at *)
(* this key; `init` fails when the key has one.                            *)
RegisterAgentWallet(a, k) ==
    /\ RegistryReads
    /\ k \notin Registered
    /\ wallets' = [wallets EXCEPT ![k] = NewWallet(a)]
    /\ registry' = [registry EXCEPT !.agent_count = @ + 1]

(* set_agent_status does not name the registry: it works in any layout.    *)
SetAgentStatus(a, k, new_status) ==
    /\ a = INITIAL_AUTHORITY
    /\ k \in Registered
    /\ wallets' = [wallets EXCEPT ![k].status = new_status]
    /\ UNCHANGED registry

(* Variant: a frozen agent may leave.                                      *)
CloseUnlessBlacklisted(k) ==
    /\ RegistryReads
    /\ wallets[k].status \in {"Active", "Frozen", "DeregisterPending"}
    /\ registry.agent_count > 0
    /\ wallets' = [wallets EXCEPT ![k] = NoWallet]
    /\ registry' = [registry EXCEPT !.agent_count = @ - 1]

(* close_agent_wallet: by its authority and its key, once the admin has    *)
(* set DeregisterPending.                                                  *)
CloseAgentWallet(k) ==
    /\ RegistryReads
    /\ wallets[k].status = "DeregisterPending"
    /\ registry.agent_count > 0
    /\ wallets' = [wallets EXCEPT ![k] = NoWallet]
    /\ registry' = [registry EXCEPT !.agent_count = @ - 1]

(* Variant: the new wallet is opened as if it were a new agent.            *)
RotateAsRegistration(k, new) ==
    /\ RegistryReads
    /\ wallets[k].status = "Active"
    /\ new \notin Registered
    /\ wallets' = [wallets EXCEPT ![k] = NoWallet, ![new] = NewWallet(wallets[k].authority)]
    /\ registry' = [registry EXCEPT !.agent_count = @ + 1]

(* rotate_agent_key: close the wallet of the old key and open one at the   *)
(* new key for the same authority.  The registry is not named.             *)
RotateAgentKey(k, new) ==
    /\ wallets[k].status = "Active"
    /\ new # k
    /\ new \notin Registered
    /\ wallets' = [wallets EXCEPT ![k] = NoWallet, ![new] = NewWallet(wallets[k].authority)]
    /\ UNCHANGED registry

--------------------------------------------------------------------------------
RegistryTypeOK ==
    /\ registry \in Registry
    /\ wallets \in [Keys -> AgentWallet]

(* The number the registry keeps is the number of wallets there are,       *)
(* through registrations, closures, rotations and the migration.           *)
CountMatches == registry.agent_count = Cardinality(Registered)

(* A frozen or blacklisted agent cannot shed the verdict: neither closing  *)
(* nor rotating its key takes the wallet away; only the admin lifts it.    *)
VerdictSticks ==
    [][\A k \in Keys :
         wallets[k].status \in {"Frozen", "Blacklisted"} =>
             k \in Registered' /\ wallets'[k].authority = wallets[k].authority]_registryVars
================================================================================
