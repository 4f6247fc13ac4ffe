---------------------------- MODULE OperatorScripts ----------------------------
(***************************************************************************)
(* The programs that operate the registry and the escrow program's upgrade *)
(* authority: the scripts under holdfast/scripts and the SDK's             *)
(* registerAgentWallet.  Each reads an account, decides, sends one         *)
(* transaction, waits for it and reads again, while the others run: what   *)
(* it read may be stale when its transaction lands.                        *)
(***************************************************************************)
EXTENDS AgentRegistry

CONSTANTS
    Scripts,         \* runs of a script: records, see ScriptRecord
    DEPLOYER,        \* the key that deployed the escrow program
    MaxStarted,      \* bound: how many of them are started
    MaxFaults,       \* bound: RPC errors and killed processes
    MaxAdminSteps    \* bound: the admin's own instructions

Kinds == {"RotateOracle", "TestOracle", "TransferUpgrade", "TestUpgrade",
          "Migrate", "MainnetMigrate", "Register"}
Tests == {"TestOracle", "TestUpgrade"}

(* signer is the keypair it was started with; target the key it installs   *)
(* (an ephemeral one in a test); key the secp256r1 key it registers.       *)
ScriptRecord == [id : Nat, kind : Kinds, signer : Pubkeys, target : Pubkeys, key : Keys]

(* Ephemeral keys are generated by the run that uses them: nobody else     *)
(* signs with one or is told to install it.                                *)
ASSUME ScriptsAssumption ==
    /\ Scripts \subseteq ScriptRecord
    /\ DEPLOYER \in Pubkeys
    /\ MaxStarted \in Nat /\ MaxFaults \in Nat /\ MaxAdminSteps \in Nat
    /\ \A s \in Scripts : s.kind \in Tests =>
         /\ s.target \notin {DEPLOYER, REPUTATION_ORACLE_AUTHORITY}
         /\ \A t \in Scripts : s.target # t.signer /\ (t # s => s.target # t.target)

VARIABLES
    upgrade_authority,   \* in the escrow program's ProgramData account
    script,              \* per run: where it is and what it first read
    faults, admin_steps  \* bounded counters

program   == <<registry, wallets, upgrade_authority>>
vars      == <<program, script, faults, admin_steps>>

Running == {"start", "send", "verify", "restore", "recheck", "again"}
Adrift  == {"send adrift", "restore adrift"}    \* over, its transaction is not

Seen == [slot : Pubkeys \cup {NoKey}, authority : Pubkeys \cup {NoKey}, agent_count : Nat]
NothingSeen == [slot |-> NoKey, authority |-> NoKey, agent_count |-> 0]

Init ==
    /\ RegistryInit
    /\ upgrade_authority = DEPLOYER
    /\ script = [s \in Scripts |-> [pc |-> "start", seen |-> NothingSeen]]
    /\ faults = 0 /\ admin_steps = 0

At(s, pc)   == script[s].pc = pc
Goto(s, pc) == script' = [script EXCEPT ![s].pc = pc]

--------------------------------------------------------------------------------
(* The account field a rotation or transfer is about, and who may set it.  *)
OnOracle(s) == s.kind \in {"RotateOracle", "TestOracle"}
Slot(s)     == IF OnOracle(s) THEN registry.oracle_authority ELSE upgrade_authority

(* The loader's SetAuthority: the current authority signs, the new one     *)
(* need not.                                                               *)
LoaderSetAuthority(a, new) ==
    /\ a = upgrade_authority
    /\ upgrade_authority' = new
    /\ UNCHANGED registryVars

Change(s, a, new) ==
    \/ OnOracle(s) /\ SetOracleAuthority(a, new) /\ UNCHANGED upgrade_authority
    \/ ~OnOracle(s) /\ LoaderSetAuthority(a, new)

MayChange(s, a) ==
    IF OnOracle(s) THEN MaySetOracle(a) ELSE a = upgrade_authority

--------------------------------------------------------------------------------
(* Where each script goes after its first read: "Passed" is exit 0 without *)
(* a transaction, "Failed" a throw or exit 1.                              *)

(* set-oracle-authority: a signer that is not the authority only gets a    *)
(* warning, and the transaction is sent all the same.                      *)
RotateOracleChecks(s) ==
    CASE ~RegistryReads                        -> "Failed"
      [] registry.oracle_authority = s.target  -> "Passed"
      [] OTHER                                 -> "send"

(* test-oracle-rotation-devnet                                             *)
TestOracleChecks(s) ==
    IF RegistryReads /\ s.signer = registry.authority THEN "send" ELSE "Failed"

(* transfer-escrow-upgrade-authority                                       *)
TransferChecks(s) ==
    CASE upgrade_authority = s.target -> "Passed"
      [] upgrade_authority = s.signer -> "send"
      [] OTHER                        -> "Failed"

(* Variant: the signing key is not compared with the current authority.    *)
TestUpgradeChecksNothing(s) == "send"

(* test-escrow-upgrade-authority-devnet                                    *)
TestUpgradeChecks(s) ==
    IF upgrade_authority = s.signer THEN "send" ELSE "Failed"

(* execute-attestation-registry-migration: nothing to do at 81 bytes.      *)
MigrateChecks(s) ==
    CASE registry.layout = "None"    -> "Failed"
      [] registry.layout = "Current" -> "Passed"
      [] OTHER                       -> "send"

(* mainnet-migrate --dry-run: prints the instruction for the multisig,     *)
(* whatever its warnings; a missing or migrated registry is exit 0.        *)
MainnetMigrateChecks(s) ==
    IF registry.layout = "Legacy" THEN "send" ELSE "Passed"

(* registerAgentWallet: a wallet that exists, whoever's it is, is returned *)
(* without a transaction.                                                  *)
RegisterChecks(s) ==
    IF s.key \in Registered THEN "Passed" ELSE "send"

Checks(s) ==
    CASE s.kind = "RotateOracle"    -> RotateOracleChecks(s)
      [] s.kind = "TestOracle"      -> TestOracleChecks(s)
      [] s.kind = "TransferUpgrade" -> TransferChecks(s)
      [] s.kind = "TestUpgrade"     -> TestUpgradeChecks(s)
      [] s.kind = "Migrate"         -> MigrateChecks(s)
      [] s.kind = "MainnetMigrate"  -> MainnetMigrateChecks(s)
      [] s.kind = "Register"        -> RegisterChecks(s)

(* Variant: the account is not read before the first transaction.          *)
BeginUnread(s) ==
    /\ At(s, "start")
    /\ Cardinality({t \in Scripts : ~At(t, "start")}) < MaxStarted
    /\ Goto(s, Checks(s))
    /\ UNCHANGED <<program, faults, admin_steps>>

Begin(s) ==
    /\ At(s, "start")
    /\ Cardinality({t \in Scripts : ~At(t, "start")}) < MaxStarted
    /\ script' = [script EXCEPT ![s] =
                    [pc   |-> Checks(s),
                     seen |-> [slot |-> Slot(s), authority |-> registry.authority,
                               agent_count |-> registry.agent_count]]]
    /\ UNCHANGED <<program, faults, admin_steps>>

--------------------------------------------------------------------------------
(* The one transaction a script is there to send.                          *)
Accepted(s) ==
    CASE s.kind = "Register" -> RegistryReads /\ s.key \notin Registered
      [] s.kind \in {"Migrate", "MainnetMigrate"} ->
           /\ registry.layout = "Legacy" /\ registry.holds_rent
           /\ s.signer = INITIAL_AUTHORITY
      [] OTHER -> MayChange(s, s.signer)

Effect(s) ==
    \/ /\ s.kind = "Register"
       /\ RegisterAgentWallet(s.signer, s.key) /\ UNCHANGED upgrade_authority
    \/ /\ s.kind \in {"Migrate", "MainnetMigrate"}
       /\ MigrateAttestationRegistry(s.signer) /\ UNCHANGED upgrade_authority
    \/ /\ s.kind \notin {"Register", "Migrate", "MainnetMigrate"}
       /\ Change(s, s.signer, s.target)

(* It lands, or the program refuses it and the call throws.                *)
Attempt(s, landed, refused) ==
    \/ Effect(s) /\ Goto(s, landed)
    \/ ~Accepted(s) /\ Goto(s, refused) /\ UNCHANGED program

Send(s) ==
    /\ At(s, "send")
    /\ Attempt(s, IF s.kind = "Register" THEN "Passed" ELSE "verify", "Failed")
    /\ UNCHANGED <<faults, admin_steps>>

(* A rotation or transfer reads its field back; a test goes on to restore. *)
VerifyChange(s) ==
    /\ At(s, "verify")
    /\ s.kind \in {"RotateOracle", "TransferUpgrade"} \cup Tests
    /\ Goto(s, CASE Slot(s) # s.target -> "Failed"
                 [] s.kind \in Tests   -> "restore"
                 [] OTHER              -> "Passed")
    /\ UNCHANGED <<program, faults, admin_steps>>

(* The devnet migration compares with what it read before.                 *)
VerifyMigration(s) ==
    /\ At(s, "verify")
    /\ s.kind = "Migrate"
    /\ Goto(s, IF /\ registry.layout = "Current"
                  /\ registry.authority = script[s].seen.authority
                  /\ registry.agent_count = script[s].seen.agent_count
                  /\ registry.oracle_authority = REPUTATION_ORACLE_AUTHORITY
               THEN "again" ELSE "Failed")
    /\ UNCHANGED <<program, faults, admin_steps>>

(* The mainnet one (--verify) with what it expects; it has no snapshot.    *)
VerifyMainnet(s) ==
    /\ At(s, "verify")
    /\ s.kind = "MainnetMigrate"
    /\ Goto(s, IF /\ registry.layout = "Current"
                  /\ registry.authority = INITIAL_AUTHORITY
                  /\ registry.oracle_authority = REPUTATION_ORACLE_AUTHORITY
               THEN "Passed" ELSE "Failed")
    /\ UNCHANGED <<program, faults, admin_steps>>

(* The devnet migration is sent again and has to be refused.               *)
MigrateAgain(s) ==
    /\ At(s, "again")
    /\ Attempt(s, "Failed", "Passed")
    /\ UNCHANGED <<faults, admin_steps>>

(* The oracle test restores with the key it was started with, the upgrade  *)
(* test with the ephemeral key, which is in its memory only.               *)
Restorer(s) == IF s.kind = "TestOracle" THEN s.signer ELSE s.target

Restore(s) ==
    /\ At(s, "restore")
    /\ \/ Change(s, Restorer(s), script[s].seen.slot) /\ Goto(s, "recheck")
       \/ ~MayChange(s, Restorer(s)) /\ Goto(s, "Failed") /\ UNCHANGED program
    /\ UNCHANGED <<faults, admin_steps>>

Recheck(s) ==
    /\ At(s, "recheck")
    /\ Goto(s, IF Slot(s) = script[s].seen.slot THEN "Passed" ELSE "Failed")
    /\ UNCHANGED <<program, faults, admin_steps>>

(* An RPC call throws or the process is killed: no script catches it.  A  *)
(* transaction that was on its way lands later, or never.                  *)
Break(s) ==
    /\ faults < MaxFaults
    /\ script[s].pc \in Running
    /\ Goto(s, CASE At(s, "send")    -> "send adrift"
                 [] At(s, "restore") -> "restore adrift"
                 [] OTHER            -> "Failed")
    /\ faults' = faults + 1
    /\ UNCHANGED <<program, admin_steps>>

LateLanding(s) ==
    /\ script[s].pc \in Adrift
    /\ \/ UNCHANGED program
       \/ At(s, "send adrift") /\ Effect(s)
       \/ At(s, "restore adrift") /\ Change(s, Restorer(s), script[s].seen.slot)
    /\ Goto(s, "Failed")
    /\ UNCHANGED <<faults, admin_steps>>

--------------------------------------------------------------------------------
ScriptStep(s) ==
    \/ Begin(s)
    \/ Send(s)
    \/ VerifyChange(s)
    \/ VerifyMigration(s)
    \/ VerifyMainnet(s)
    \/ MigrateAgain(s)
    \/ Restore(s)
    \/ Recheck(s)
    \/ Break(s)
    \/ LateLanding(s)

(* The admin's instructions that no script sends, and init-registry.       *)
Admin ==
    \/ /\ \E p \in EscrowPrograms : InitializeRegistry(INITIAL_AUTHORITY, p)
       /\ UNCHANGED admin_steps
    \/ /\ admin_steps < MaxAdminSteps
       /\ admin_steps' = admin_steps + 1
       /\ \/ \E a \in Pubkeys : SetProtocolAuthority(INITIAL_AUTHORITY, a)
          \/ \E k \in Keys, status \in AgentStatus :
                SetAgentStatus(INITIAL_AUTHORITY, k, status)

Agent == \E k \in Keys : CloseAgentWallet(k) \/ \E new \in Keys : RotateAgentKey(k, new)

Next ==
    \/ \E s \in Scripts : ScriptStep(s)
    \/ Admin /\ UNCHANGED <<upgrade_authority, script, faults>>
    \/ Agent /\ UNCHANGED <<upgrade_authority, script, faults, admin_steps>>

Spec == Init /\ [][Next]_vars

--------------------------------------------------------------------------------
TypeOK ==
    /\ RegistryTypeOK
    /\ upgrade_authority \in Pubkeys
    /\ script \in [Scripts -> [pc : Running \cup Adrift \cup {"Passed", "Failed"}, seen : Seen]]
    /\ faults \in Nat /\ admin_steps \in Nat

(* Another oracle test started while the key of s was in the registry,     *)
(* took it for the original and has sent it back there.                    *)
PutBackByAnother(s) ==
    \E t \in Scripts \ {s} :
        /\ s.kind = "TestOracle" /\ t.kind = "TestOracle"
        /\ script[t].seen.slot = s.target
        /\ script[t].pc \in {"recheck", "Passed", "Failed"}

(* The ephemeral key of a test that reports PASS is not in the account the *)
(* test was about, whatever else was rotated, transferred, migrated or     *)
(* tested meanwhile: never after an upgrade test, which starts only from   *)
(* its own signer's authority, and after an oracle test, which starts from *)
(* any oracle key, only if an overlapping oracle test has put it back.     *)
PassLeavesNoTestKey ==
    \A s \in Scripts :
        s.kind \in Tests /\ At(s, "Passed") => Slot(s) # s.target \/ PutBackByAnother(s)

(* Once the registry is migrated the oracle authority moves only by a      *)
(* rotation: no migration, first or second, and no re-initialisation puts  *)
(* the compiled-in key back over it.                                       *)
OracleChangesAreRotations ==
    [][registry.layout = "Current" /\ registry'.oracle_authority # registry.oracle_authority =>
         \E s \in Scripts : OnOracle(s) /\ script'[s] # script[s]]_vars

(* test-escrow-upgrade-authority-devnet.ts:28 says of itself: "Always      *)
(* restores the original authority on success or failure."                 *)
AlwaysRestores ==
    \A s \in Scripts : s.kind = "TestUpgrade" /\ script[s].pc \in {"Passed", "Failed"} =>
        upgrade_authority # s.target
================================================================================
