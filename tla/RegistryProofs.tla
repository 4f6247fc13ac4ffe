---------------------------- MODULE RegistryProofs ----------------------------
(***************************************************************************)
(* Theorems of the registry and the scripts that operate it, for any keys  *)
(* and agents, any scripts that meet ScriptsAssumption, started in any     *)
(* number, with any number of faults and admin steps.                      *)
(***************************************************************************)
EXTENDS OperatorScripts, FiniteSetTheorems, TLAPS

(* Nobody registers before there is a registry.                            *)
NobodyUnregistered == registry.layout = "None" => Registered = {}

(* Where a test is while its ephemeral key is installed: it has yet to     *)
(* restore, or it failed, or another has put the key back.                 *)
Installed == {"verify", "restore", "restore adrift", "Failed"}

TestKeyWhere ==
    \A s \in Scripts :
        s.kind \in Tests /\ Slot(s) = s.target =>
            script[s].pc \in Installed \/ PutBackByAnother(s)

(* No oracle test finds the key of another before that has sent it.        *)
Unsent == {"start", "send", "send adrift"}

KeySeenOnceSent ==
    \A s, t \in Scripts :
        /\ s.kind = "TestOracle" /\ t.kind = "TestOracle"
        /\ script[t].seen.slot = s.target
        => script[s].pc \notin Unsent

(* What a running test will restore is not an ephemeral key of its own,    *)
(* and for the upgrade authority it is the key the test was started with.  *)
Going == {"send", "send adrift", "verify", "restore", "restore adrift", "recheck"}

SeenIsOriginal ==
    \A s \in Scripts :
        s.kind \in Tests /\ script[s].pc \in Going =>
            /\ script[s].seen.slot # s.target
            /\ s.kind = "TestUpgrade" => script[s].seen.slot = s.signer

OnlyTestsRestore ==
    \A s \in Scripts :
        script[s].pc \in {"restore", "restore adrift"} => s.kind \in Tests

RInv ==
    /\ TypeOK
    /\ CountMatches
    /\ NobodyUnregistered
    /\ TestKeyWhere
    /\ KeySeenOnceSent
    /\ SeenIsOriginal
    /\ OnlyTestsRestore

--------------------------------------------------------------------------------
PCs == Running \cup Adrift \cup {"Passed", "Failed"}
Run == [pc : PCs, seen : Seen]

LEMMA Types ==
    TypeOK <=> /\ RegistryTypeOK /\ upgrade_authority \in Pubkeys
               /\ script \in [Scripts -> Run] /\ faults \in Nat /\ admin_steps \in Nat
    BY DEF TypeOK, Run, PCs

LEMMA RegistryTypes ==
    RegistryTypeOK <=>
        /\ registry \in Registry
        /\ wallets \in [Keys -> AgentWallet]
    BY DEF RegistryTypeOK

LEMMA ScriptTyped ==
    ASSUME NEW s \in Scripts
    PROVE  /\ s.kind \in Kinds /\ s.key \in Keys
           /\ s.signer \in Pubkeys /\ s.target \in Pubkeys
    BY ScriptsAssumption DEF ScriptRecord

LEMMA ConstantTypes ==
    /\ INITIAL_AUTHORITY \in Pubkeys /\ REPUTATION_ORACLE_AUTHORITY \in Pubkeys
    /\ Agents \subseteq Pubkeys /\ NoKey \notin Pubkeys
    /\ DEPLOYER \in Pubkeys
    BY RegistryAssumption, ScriptsAssumption

(* A first read ends a script or lets it send.                             *)
LEMMA ChecksTyped ==
    ASSUME NEW s \in Scripts
    PROVE  Checks(s) \in {"Passed", "Failed", "send"}
<1>1. /\ RotateOracleChecks(s) \in {"Passed", "Failed", "send"}
      /\ TestOracleChecks(s) \in {"Passed", "Failed", "send"}
      /\ TransferChecks(s) \in {"Passed", "Failed", "send"}
      /\ TestUpgradeChecks(s) \in {"Passed", "Failed", "send"}
      /\ MigrateChecks(s) \in {"Passed", "Failed", "send"}
      /\ MainnetMigrateChecks(s) \in {"Passed", "Failed", "send"}
      /\ RegisterChecks(s) \in {"Passed", "Failed", "send"}
    BY DEF RotateOracleChecks, TestOracleChecks, TransferChecks, TestUpgradeChecks,
           MigrateChecks, MainnetMigrateChecks, RegisterChecks
<1>2. s.kind \in Kinds
    BY ScriptTyped
<1> QED
    BY <1>1, <1>2 DEF Checks, Kinds

LEMMA SlotTyped ==
    ASSUME TypeOK, NEW s \in Scripts
    PROVE  Slot(s) \in Pubkeys \cup {NoKey}
    BY DEF TypeOK, RegistryTypeOK, Registry, Slot

LEMMA GotoTyped ==
    ASSUME script \in [Scripts -> Run], NEW s \in Scripts, NEW pc \in PCs, Goto(s, pc)
    PROVE  /\ script' \in [Scripts -> Run]
           /\ script'[s].pc = pc /\ script'[s].seen = script[s].seen
           /\ \A t \in Scripts \ {s} : script'[t] = script[t]
    BY DEF Goto, Run

--------------------------------------------------------------------------------
(* The instructions of the registry program, whoever sends them.           *)
RegistryStep ==
    \/ (\E p \in EscrowPrograms : InitializeRegistry(INITIAL_AUTHORITY, p))
    \/ MigrateAttestationRegistry(INITIAL_AUTHORITY)
    \/ \E a \in Pubkeys : SetProtocolAuthority(INITIAL_AUTHORITY, a)
    \/ \E a \in Pubkeys, new \in Pubkeys \cup {NoKey} : SetOracleAuthority(a, new)
    \/ \E a \in Pubkeys, k \in Keys : RegisterAgentWallet(a, k)
    \/ \E k \in Keys, status \in AgentStatus : SetAgentStatus(INITIAL_AUTHORITY, k, status)
    \/ \E k \in Keys : CloseAgentWallet(k)
    \/ \E k \in Keys, new \in Keys : RotateAgentKey(k, new)

(* A script touches the program by what it is there to send or, if it is a *)
(* test, by what it restores, and goes on to a known place.                *)
Sends(s, pc) ==
    /\ Effect(s)
    /\ script[s].pc \in {"send", "send adrift", "again"} /\ pc \in {"verify", "Passed", "Failed"}
    /\ script[s].pc = "again" => pc = "Failed"
    /\ s.kind # "Register" => pc # "Passed"

Restores(s, pc) ==
    /\ Change(s, Restorer(s), script[s].seen.slot)
    /\ script[s].pc \in {"restore", "restore adrift"} /\ pc \in {"recheck", "Failed"}

Onward(s, pc) ==
    /\ pc # script[s].pc /\ script[s].pc \notin {"Passed", "Failed"}
    /\ pc \in Going => script[s].pc \in Going
    /\ pc = "restore" => s.kind \in Tests
    /\ pc = "restore adrift" => script[s].pc = "restore"
    /\ script[s].pc = "verify" /\ s.kind \in Tests => pc \in {"restore", "Failed"}
    /\ script[s].pc = "restore" => pc \in {"recheck", "restore adrift", "Failed"}
    /\ script[s].pc = "restore adrift" => pc = "Failed"
    /\ script[s].pc = "recheck" => pc \in {"Passed", "Failed"}
    /\ pc \in {"send", "send adrift"} => script[s].pc = "send"
    /\ pc # "start"

Moves(s, pc) ==
    /\ Goto(s, pc) /\ Onward(s, pc)
    /\ (UNCHANGED program /\ pc # "recheck") \/ Sends(s, pc) \/ Restores(s, pc)

LEMMA BreakCounted ==
    ASSUME TypeOK, NEW s \in Scripts, Break(s)
    PROVE  faults' \in Nat /\ admin_steps' \in Nat
<1>1. faults' = faults + 1 /\ admin_steps' = admin_steps
    BY DEF Break
<1> QED
    BY <1>1 DEF TypeOK

LEMMA ScriptSteps ==
    ASSUME TypeOK, NEW s \in Scripts, ScriptStep(s)
    PROVE  /\ Begin(s) \/ \E pc \in PCs : Moves(s, pc)
           /\ faults' \in Nat /\ admin_steps' \in Nat
<1> USE DEF PCs, Running, Adrift, At, Going
<1>0. faults \in Nat /\ admin_steps \in Nat /\ script[s].pc \in PCs
    BY Types DEF Run
<1>1. CASE Begin(s)
    BY <1>0, <1>1 DEF Begin
<1>2. CASE Send(s)
  <2> DEFINE landed == IF s.kind = "Register" THEN "Passed" ELSE "verify"
  <2>1. /\ script[s].pc = "send" /\ faults' = faults /\ admin_steps' = admin_steps
        /\ \/ Effect(s) /\ Goto(s, landed)
           \/ Goto(s, "Failed") /\ UNCHANGED program
      BY <1>2 DEF Send, Attempt
  <2>2. landed \in PCs /\ landed \in {"verify", "Passed"}
        /\ (s.kind # "Register" => landed # "Passed")
      OBVIOUS
  <2> HIDE DEF landed
  <2>3. Moves(s, landed) \/ Moves(s, "Failed")
      BY <2>1, <2>2 DEF Moves, Onward, Sends
  <2> QED
      BY <1>0, <2>1, <2>2, <2>3
<1>3. CASE VerifyChange(s) \/ VerifyMigration(s) \/ VerifyMainnet(s) \/ Recheck(s)
  <2>1. PICK pc \in {"Failed", "restore", "Passed", "again"} :
            /\ Goto(s, pc)
            /\ script[s].pc \in {"verify", "recheck"}
            /\ pc = "restore" => s.kind \in Tests /\ script[s].pc = "verify"
            /\ s.kind \in Tests /\ script[s].pc = "verify" => pc \in {"restore", "Failed"}
            /\ script[s].pc = "recheck" => pc \in {"Passed", "Failed"}
      BY <1>3 DEF Tests, VerifyChange, VerifyMigration, VerifyMainnet, Recheck
  <2>2. UNCHANGED program /\ faults' = faults /\ admin_steps' = admin_steps
      BY <1>3 DEF VerifyChange, VerifyMigration, VerifyMainnet, Recheck
  <2>3. Moves(s, pc)
      BY <2>1, <2>2 DEF Moves, Onward
  <2> QED
      BY <1>0, <2>2, <2>3
<1>4. CASE MigrateAgain(s)
  <2>1. /\ script[s].pc = "again" /\ faults' = faults /\ admin_steps' = admin_steps
        /\ \/ Effect(s) /\ Goto(s, "Failed")
           \/ Goto(s, "Passed") /\ UNCHANGED program
      BY <1>4 DEF MigrateAgain, Attempt
  <2>2. Moves(s, "Failed") \/ Moves(s, "Passed")
      BY <2>1 DEF Moves, Onward, Sends
  <2> QED
      BY <1>0, <2>1, <2>2
<1>5. CASE Restore(s)
  <2>1. /\ script[s].pc = "restore" /\ faults' = faults /\ admin_steps' = admin_steps
        /\ \/ Change(s, Restorer(s), script[s].seen.slot) /\ Goto(s, "recheck")
           \/ Goto(s, "Failed") /\ UNCHANGED program
      BY <1>5 DEF Restore
  <2>2. Moves(s, "recheck") \/ Moves(s, "Failed")
      BY <2>1 DEF Moves, Onward, Restores
  <2> QED
      BY <1>0, <2>1, <2>2
<1>6. CASE Break(s)
  <2>1. PICK pc \in {"send adrift", "restore adrift", "Failed"} :
            /\ script' = [script EXCEPT ![s].pc = pc]
            /\ pc = "send adrift" => script[s].pc = "send"
            /\ pc = "restore adrift" => script[s].pc = "restore"
      BY <1>6 DEF Break, Goto
  <2>2. /\ UNCHANGED program /\ script[s].pc \in Running
        /\ faults' = faults + 1 /\ admin_steps' = admin_steps
      BY <1>6 DEF Break
  <2>3. Moves(s, pc)
      BY <2>1, <2>2 DEF Moves, Onward, Goto
  <2>4. pc \in PCs
      BY <2>1
  <2>5. \E p \in PCs : Moves(s, p)
      BY <2>3, <2>4
  <2> QED
      BY <1>6, <2>5, BreakCounted
<1>7. CASE LateLanding(s)
  <2>1. /\ Goto(s, "Failed") /\ script[s].pc \in Adrift
        /\ faults' = faults /\ admin_steps' = admin_steps
        /\ \/ UNCHANGED program
           \/ script[s].pc = "send adrift" /\ Effect(s)
           \/ script[s].pc = "restore adrift" /\ Change(s, Restorer(s), script[s].seen.slot)
      BY <1>7 DEF LateLanding
  <2>2. Moves(s, "Failed")
      BY <2>1 DEF Moves, Onward, Sends, Restores
  <2> QED
      BY <1>0, <2>1, <2>2
<1> QED
    BY <1>1, <1>2, <1>3, <1>4, <1>5, <1>6, <1>7 DEF ScriptStep

(* The registry moves by the program's instructions only.                  *)
LEMMA EffectIsInstruction ==
    ASSUME NEW s \in Scripts, Effect(s)
    PROVE  RegistryStep \/ UNCHANGED registryVars
<1> USE ScriptTyped
<1>1. CASE s.kind = "Register"
    BY <1>1 DEF Effect, RegistryStep
<1>2. CASE s.kind \in {"Migrate", "MainnetMigrate"}
  <2>1. MigrateAttestationRegistry(s.signer)
      BY <1>2 DEF Effect
  <2>2. s.signer = INITIAL_AUTHORITY
      BY <2>1 DEF MigrateAttestationRegistry
  <2> QED
      BY <2>1, <2>2 DEF RegistryStep
<1>3. CASE s.kind \notin {"Register", "Migrate", "MainnetMigrate"}
  <2>1. Change(s, s.signer, s.target)
      BY <1>3 DEF Effect
  <2>2. SetOracleAuthority(s.signer, s.target) \/ UNCHANGED registryVars
      BY <2>1 DEF Change, LoaderSetAuthority
  <2> QED
      BY <2>2 DEF RegistryStep
<1> QED
    BY <1>1, <1>2, <1>3

LEMMA RestoreIsInstruction ==
    ASSUME TypeOK, NEW s \in Scripts, Change(s, Restorer(s), script[s].seen.slot)
    PROVE  RegistryStep \/ UNCHANGED registryVars
<1>1. Restorer(s) \in Pubkeys
    BY ScriptTyped DEF Restorer
<1>2. script[s].seen.slot \in Pubkeys \cup {NoKey}
    BY Types DEF Run, Seen
<1>3. SetOracleAuthority(Restorer(s), script[s].seen.slot) \/ UNCHANGED registryVars
    BY DEF Change, LoaderSetAuthority
<1> QED
    BY <1>1, <1>2, <1>3 DEF RegistryStep

LEMMA RegistrySteps ==
    ASSUME TypeOK, [Next]_vars
    PROVE  RegistryStep \/ UNCHANGED registryVars
<1>1. CASE \E s \in Scripts : ScriptStep(s)
  <2>1. PICK s \in Scripts : ScriptStep(s)
      BY <1>1
  <2>2. CASE Begin(s)
      BY <2>2 DEF Begin, program, registryVars
  <2>3. CASE Effect(s)
      BY <2>3, EffectIsInstruction
  <2>4. CASE Change(s, Restorer(s), script[s].seen.slot)
      BY <2>4, RestoreIsInstruction
  <2>5. CASE UNCHANGED program
      BY <2>5 DEF program, registryVars
  <2> QED
      BY <2>1, <2>2, <2>3, <2>4, <2>5, ScriptSteps DEF Moves, Sends, Restores
<1>2. CASE Admin
    BY <1>2 DEF Admin, RegistryStep
<1>3. CASE Agent
    BY <1>3 DEF Agent, RegistryStep
<1>4. CASE UNCHANGED vars
    BY <1>4 DEF vars, program, registryVars
<1> QED
    BY <1>1, <1>2, <1>3, <1>4 DEF Next

--------------------------------------------------------------------------------
(* What an instruction does to the registry and the wallets.               *)
LEMMA InstructionTyped ==
    ASSUME RegistryTypeOK, RegistryStep
    PROVE  RegistryTypeOK'
<1> USE RegistryTypes, ConstantTypes DEF Registry
<1>0. /\ registry \in Registry /\ wallets \in [Keys -> AgentWallet]
      /\ \A a \in Pubkeys : NewWallet(a) \in AgentWallet
      /\ NoWallet \in AgentWallet
    BY DEF NewWallet, NoWallet, AgentWallet, AgentStatus
<1>1. CASE \E p \in EscrowPrograms : InitializeRegistry(INITIAL_AUTHORITY, p)
    BY <1>0, <1>1 DEF InitializeRegistry, RegistryTypeOK
<1>2. CASE MigrateAttestationRegistry(INITIAL_AUTHORITY)
    BY <1>0, <1>2 DEF MigrateAttestationRegistry, RegistryTypeOK
<1>3. ASSUME NEW a \in Pubkeys, SetProtocolAuthority(INITIAL_AUTHORITY, a)
      PROVE  RegistryTypeOK'
    BY <1>0, <1>3 DEF SetProtocolAuthority, RegistryTypeOK
<1>4. ASSUME NEW a \in Pubkeys, NEW new \in Pubkeys \cup {NoKey}, SetOracleAuthority(a, new)
      PROVE  RegistryTypeOK'
    BY <1>0, <1>4 DEF SetOracleAuthority, RegistryTypeOK
<1>5. ASSUME NEW a \in Pubkeys, NEW k \in Keys, RegisterAgentWallet(a, k)
      PROVE  RegistryTypeOK'
    BY <1>0, <1>5 DEF RegisterAgentWallet, RegistryTypeOK
<1>6. ASSUME NEW k \in Keys, NEW status \in AgentStatus,
             SetAgentStatus(INITIAL_AUTHORITY, k, status)
      PROVE  RegistryTypeOK'
    BY <1>0, <1>6 DEF SetAgentStatus, RegistryTypeOK, AgentWallet
<1>7. ASSUME NEW k \in Keys, CloseAgentWallet(k)
      PROVE  RegistryTypeOK'
    BY <1>0, <1>7 DEF CloseAgentWallet, RegistryTypeOK
<1>8. ASSUME NEW k \in Keys, NEW new \in Keys, RotateAgentKey(k, new)
      PROVE  RegistryTypeOK'
  <2>1. wallets[k].authority \in Pubkeys \cup {NoKey}
      BY <1>0 DEF AgentWallet
  <2>2. NewWallet(wallets[k].authority) \in AgentWallet
      BY <2>1 DEF NewWallet, AgentWallet, AgentStatus
  <2> QED
      BY <1>0, <1>8, <2>2 DEF RotateAgentKey, RegistryTypeOK
<1> QED
    BY <1>1, <1>2, <1>3, <1>4, <1>5, <1>6, <1>7, <1>8 DEF RegistryStep

(* The ways in which the keys that have a wallet change.                   *)
LEMMA WalletsMove ==
    ASSUME RegistryTypeOK, RegistryStep
    PROVE  \/ Registered' = Registered /\ registry'.agent_count = registry.agent_count
           \/ /\ registry.layout = "None" /\ Registered' = Registered
              /\ registry'.agent_count = 0
           \/ \E k \in Keys \ Registered :
                /\ Registered' = Registered \cup {k}
                /\ registry'.agent_count = registry.agent_count + 1
           \/ \E k \in Registered :
                /\ Registered' = Registered \ {k}
                /\ registry'.agent_count = registry.agent_count - 1
           \/ \E k \in Registered, new \in Keys \ Registered :
                /\ Registered' = (Registered \ {k}) \cup {new}
                /\ registry'.agent_count = registry.agent_count
<1> USE RegistryTypes DEF Registered
<1>0. /\ registry \in Registry /\ wallets \in [Keys -> AgentWallet]
      /\ \A a : NewWallet(a).status = "Active"
      /\ NoWallet.status = "Absent"
    BY DEF NewWallet, NoWallet
<1>1. CASE \E p \in EscrowPrograms : InitializeRegistry(INITIAL_AUTHORITY, p)
    BY <1>0, <1>1 DEF InitializeRegistry
<1>2. CASE \/ MigrateAttestationRegistry(INITIAL_AUTHORITY)
           \/ \E a \in Pubkeys : SetProtocolAuthority(INITIAL_AUTHORITY, a)
           \/ \E a \in Pubkeys, new \in Pubkeys \cup {NoKey} : SetOracleAuthority(a, new)
    BY <1>0, <1>2 DEF MigrateAttestationRegistry, SetProtocolAuthority, SetOracleAuthority,
                      Registry
<1>3. ASSUME NEW a \in Pubkeys, NEW k \in Keys, RegisterAgentWallet(a, k)
      PROVE  /\ k \in Keys \ Registered /\ Registered' = Registered \cup {k}
             /\ registry'.agent_count = registry.agent_count + 1
    BY <1>0, <1>3 DEF RegisterAgentWallet, Registry
<1>4. ASSUME NEW k \in Keys, NEW status \in AgentStatus,
             SetAgentStatus(INITIAL_AUTHORITY, k, status)
      PROVE  Registered' = Registered /\ registry' = registry
    BY <1>0, <1>4 DEF SetAgentStatus, AgentStatus, AgentWallet
<1>5. ASSUME NEW k \in Keys, CloseAgentWallet(k)
      PROVE  /\ k \in Registered /\ Registered' = Registered \ {k}
             /\ registry'.agent_count = registry.agent_count - 1
    BY <1>0, <1>5 DEF CloseAgentWallet, Registry
<1>6. ASSUME NEW k \in Keys, NEW new \in Keys, RotateAgentKey(k, new)
      PROVE  /\ k \in Registered /\ new \in Keys \ Registered
             /\ Registered' = (Registered \ {k}) \cup {new} /\ registry' = registry
    BY <1>0, <1>6 DEF RotateAgentKey
<1> HIDE DEF Registered
<1> QED
    BY <1>1, <1>2, <1>3, <1>4, <1>5, <1>6 DEF RegistryStep

LEMMA CountFollows ==
    ASSUME RegistryTypeOK, CountMatches, NobodyUnregistered, RegistryStep
    PROVE  CountMatches' /\ NobodyUnregistered'
<1>1. IsFiniteSet(Registered) /\ registry.agent_count = Cardinality(Registered)
      /\ Cardinality(Registered) \in Nat
    BY RegistryAssumption, FS_Subset, FS_CardinalityType DEF Registered, CountMatches
<1>2. ASSUME NEW k \in Keys \ Registered
      PROVE  Cardinality(Registered \cup {k}) = Cardinality(Registered) + 1
    BY <1>1, FS_AddElement
<1>3. ASSUME NEW k \in Registered
      PROVE  /\ IsFiniteSet(Registered \ {k})
             /\ Cardinality(Registered \ {k}) = Cardinality(Registered) - 1
    BY <1>1, FS_RemoveElement
<1>4. ASSUME NEW k \in Registered, NEW new \in Keys \ Registered
      PROVE  Cardinality((Registered \ {k}) \cup {new}) = Cardinality(Registered)
  <2>1. Cardinality((Registered \ {k}) \cup {new}) = Cardinality(Registered \ {k}) + 1
      BY <1>3, FS_AddElement
  <2> QED
      BY <1>1, <1>3, <2>1
<1>5. registry.layout = "None" => Cardinality(Registered) = 0
    BY FS_EmptySet DEF NobodyUnregistered
<1>6. CountMatches'
    BY <1>1, <1>2, <1>3, <1>4, <1>5, WalletsMove DEF CountMatches
<1>7. registry'.layout = "None" => registry.layout = "None" /\ Registered' = Registered
  <2>0. registry \in Registry /\ wallets \in [Keys -> AgentWallet]
      BY RegistryTypes
  <2>1. CASE \E p \in EscrowPrograms : InitializeRegistry(INITIAL_AUTHORITY, p)
      BY <2>1 DEF InitializeRegistry
  <2>2. CASE \/ MigrateAttestationRegistry(INITIAL_AUTHORITY)
             \/ \E a \in Pubkeys : SetProtocolAuthority(INITIAL_AUTHORITY, a)
             \/ \E a \in Pubkeys, new \in Pubkeys \cup {NoKey} : SetOracleAuthority(a, new)
             \/ \E a \in Pubkeys, k \in Keys : RegisterAgentWallet(a, k)
             \/ \E k \in Keys : CloseAgentWallet(k)
      BY <2>0, <2>2 DEF MigrateAttestationRegistry, SetProtocolAuthority, SetOracleAuthority,
                  RegisterAgentWallet, CloseAgentWallet, RegistryReads, MaySetOracle, Registry
  <2>3. CASE \/ \E k \in Keys, status \in AgentStatus :
                   SetAgentStatus(INITIAL_AUTHORITY, k, status)
             \/ \E k \in Keys, new \in Keys : RotateAgentKey(k, new)
    <3>1. Registered # {} /\ registry' = registry
        BY <2>0, <2>3 DEF SetAgentStatus, RotateAgentKey, Registered
    <3> QED
        BY <3>1 DEF NobodyUnregistered
  <2> QED
      BY <2>1, <2>2, <2>3 DEF RegistryStep
<1>8. NobodyUnregistered'
    BY <1>7 DEF NobodyUnregistered
<1> QED
    BY <1>6, <1>8

LEMMA VerdictHolds ==
    ASSUME RegistryTypeOK, RegistryStep, NEW k \in Keys,
           wallets[k].status \in {"Frozen", "Blacklisted"}
    PROVE  k \in Registered' /\ wallets'[k].authority = wallets[k].authority
<1> USE RegistryTypes DEF Registered
<1>0. wallets \in [Keys -> AgentWallet]
    OBVIOUS
<1>1. CASE wallets' = wallets
    BY <1>0, <1>1
<1>2. ASSUME NEW a \in Pubkeys, NEW j \in Keys, RegisterAgentWallet(a, j)
      PROVE  wallets'[k] = wallets[k]
    BY <1>0, <1>2 DEF RegisterAgentWallet
<1>3. ASSUME NEW j \in Keys, NEW status \in AgentStatus,
             SetAgentStatus(INITIAL_AUTHORITY, j, status)
      PROVE  k \in Registered' /\ wallets'[k].authority = wallets[k].authority
    BY <1>0, <1>3 DEF SetAgentStatus, AgentStatus, AgentWallet
<1>4. ASSUME NEW j \in Keys, CloseAgentWallet(j)
      PROVE  wallets'[k] = wallets[k]
    BY <1>0, <1>4 DEF CloseAgentWallet
<1>5. ASSUME NEW j \in Keys, NEW new \in Keys, RotateAgentKey(j, new)
      PROVE  wallets'[k] = wallets[k]
    BY <1>0, <1>5 DEF RotateAgentKey
<1>6. CASE \/ (\E p \in EscrowPrograms : InitializeRegistry(INITIAL_AUTHORITY, p))
           \/ MigrateAttestationRegistry(INITIAL_AUTHORITY)
           \/ \E a \in Pubkeys : SetProtocolAuthority(INITIAL_AUTHORITY, a)
           \/ \E a \in Pubkeys, new \in Pubkeys \cup {NoKey} : SetOracleAuthority(a, new)
  <2>1. wallets' = wallets
      BY <1>6 DEF InitializeRegistry, MigrateAttestationRegistry, SetProtocolAuthority,
                  SetOracleAuthority
  <2> QED
      BY <1>1, <2>1
<1> QED
    BY <1>0, <1>2, <1>3, <1>4, <1>5, <1>6 DEF RegistryStep

--------------------------------------------------------------------------------
(* The scripts' own state keeps its type.                                  *)
LEMMA SlotsTyped ==
    ASSUME TypeOK, SeenIsOriginal, OnlyTestsRestore, NEW s \in Scripts, ScriptStep(s)
    PROVE  upgrade_authority' \in Pubkeys /\ script' \in [Scripts -> Run]
<1> USE ScriptTyped, Types
<1>1. CASE Begin(s)
  <2>1. [slot |-> Slot(s), authority |-> registry.authority,
         agent_count |-> registry.agent_count] \in Seen
      BY SlotTyped DEF Seen, TypeOK, RegistryTypeOK, Registry
  <2>2. Checks(s) \in PCs
      BY ChecksTyped DEF PCs, Running
  <2>3. [pc |-> Checks(s), seen |-> [slot |-> Slot(s), authority |-> registry.authority,
                                     agent_count |-> registry.agent_count]] \in Run
      BY <2>1, <2>2 DEF Run
  <2> QED
      BY <1>1, <2>3 DEF Begin, program
<1>2. CASE \E pc \in PCs : Moves(s, pc)
  <2>1. PICK pc \in PCs : Moves(s, pc)
      BY <1>2
  <2>2. script' \in [Scripts -> Run]
      BY <2>1, GotoTyped DEF Moves
  <2>3. CASE UNCHANGED program
      BY <2>2, <2>3 DEF program
  <2>4. CASE Effect(s)
      BY <2>2, <2>4 DEF Effect, Change, LoaderSetAuthority
  <2>5. CASE Restores(s, pc)
    <3>1. CASE OnOracle(s)
        BY <2>2, <2>5, <3>1 DEF Restores, Change
    <3>2. CASE ~OnOracle(s)
      <4>1. s.kind = "TestUpgrade"
          BY <2>5, <3>2 DEF Restores, OnlyTestsRestore, OnOracle, Tests
      <4>2. script[s].seen.slot \in Pubkeys
          BY <2>5, <4>1 DEF Restores, SeenIsOriginal, Going, Tests
      <4> QED
          BY <2>2, <2>5, <3>2, <4>2 DEF Restores, Change, LoaderSetAuthority
    <3> QED
        BY <3>1, <3>2
  <2> QED
      BY <2>1, <2>3, <2>4, <2>5 DEF Moves, Onward, Sends
<1> QED
    BY <1>1, <1>2, ScriptSteps

LEMMA NextTyped ==
    ASSUME TypeOK, SeenIsOriginal, OnlyTestsRestore, [Next]_vars
    PROVE  TypeOK'
<1> USE Types
<1>1. RegistryTypeOK'
  <2>1. CASE RegistryStep
      BY <2>1, InstructionTyped
  <2>2. CASE UNCHANGED registryVars
      BY <2>2 DEF registryVars, RegistryTypeOK, Registered
  <2> QED
      BY <2>1, <2>2, RegistrySteps
<1>2. CASE \E s \in Scripts : ScriptStep(s)
    BY <1>1, <1>2, SlotsTyped, ScriptSteps DEF TypeOK, Run, PCs
<1>3. CASE Admin /\ UNCHANGED <<upgrade_authority, script, faults>>
    BY <1>1, <1>3 DEF Admin, TypeOK
<1>4. CASE Agent /\ UNCHANGED <<upgrade_authority, script, faults, admin_steps>>
    BY <1>1, <1>4 DEF TypeOK
<1>5. CASE UNCHANGED vars
    BY <1>1, <1>5 DEF TypeOK, vars, program
<1> QED
    BY <1>2, <1>3, <1>4, <1>5 DEF Next

(* What a run may find in, or put into, the field a test is about.         *)
LEMMA TestKeysAreOwn ==
    ASSUME NEW s \in Scripts, s.kind \in Tests
    PROVE  /\ s.target \in Pubkeys
           /\ s.target # DEPLOYER /\ s.target # REPUTATION_ORACLE_AUTHORITY
           /\ \A t \in Scripts : s.target # t.signer /\ (t # s => s.target # t.target)
    BY ScriptsAssumption, ScriptTyped

(* What a step of t leaves of another's having put a key back.             *)
LEMMA StaysPutBack ==
    ASSUME NEW s \in Scripts, NEW t \in Scripts, PutBackByAnother(s),
           \A u \in Scripts \ {t} : script'[u] = script[u],
           script[t].pc \in {"recheck", "Passed", "Failed"} =>
             /\ script'[t].pc \in {"recheck", "Passed", "Failed"}
             /\ script'[t].seen = script[t].seen
    PROVE  PutBackByAnother(s)'
<1>1. PICK u \in Scripts \ {s} :
          /\ s.kind = "TestOracle" /\ u.kind = "TestOracle"
          /\ script[u].seen.slot = s.target
          /\ script[u].pc \in {"recheck", "Passed", "Failed"}
    BY DEF PutBackByAnother
<1>2. /\ script'[u].seen.slot = s.target
      /\ script'[u].pc \in {"recheck", "Passed", "Failed"}
    BY <1>1
<1> QED
    BY <1>1, <1>2 DEF PutBackByAnother

(* A step of one script keeps the ephemeral keys of the tests where they   *)
(* may be.                                                                 *)
LEMMA BeginKeeps ==
    ASSUME RInv, NEW t \in Scripts, Begin(t)
    PROVE  TestKeyWhere' /\ KeySeenOnceSent' /\ SeenIsOriginal' /\ OnlyTestsRestore'
<1>0. TestKeyWhere /\ KeySeenOnceSent
    BY DEF RInv
<1>1. /\ script \in [Scripts -> Run] /\ UNCHANGED program
      /\ script[t].pc = "start" /\ script'[t].pc = Checks(t)
      /\ script'[t].seen.slot = Slot(t)
      /\ \A s \in Scripts \ {t} : script'[s] = script[s]
    BY Types DEF RInv, Begin, At
<1>2. \A s \in Scripts : Slot(s)' = Slot(s)
    BY <1>1 DEF Slot, program
<1>3. Checks(t) \in {"Passed", "Failed", "send"}
    BY ChecksTyped
<1>4. ASSUME NEW s \in Scripts, s.kind \in Tests, Slot(s) = s.target
      PROVE  script[s].pc \notin Unsent
  <2>1. CASE script[s].pc \in Installed
      BY <2>1 DEF Installed, Unsent
  <2>2. CASE PutBackByAnother(s)
      BY <1>0, <2>2 DEF PutBackByAnother, KeySeenOnceSent
  <2> QED
      BY <1>0, <1>4, <2>1, <2>2 DEF TestKeyWhere
<1>5. t.kind \in Tests => Slot(t) # t.target
    BY <1>1, <1>4 DEF Unsent
<1>6. t.kind = "TestUpgrade" /\ Checks(t) = "send" => Slot(t) = t.signer
    BY DEF Checks, TestUpgradeChecks, Slot, OnOracle
<1>7. TestKeyWhere'
  <2>1. ASSUME NEW s \in Scripts, s.kind \in Tests, Slot(s)' = s.target
        PROVE  script'[s].pc \in Installed \/ PutBackByAnother(s)'
    <3>1. s # t /\ (script[s].pc \in Installed \/ PutBackByAnother(s))
        BY <1>0, <1>2, <1>5, <2>1 DEF TestKeyWhere
    <3>2. PutBackByAnother(s) => PutBackByAnother(s)'
        BY <1>1, StaysPutBack
    <3> QED
        BY <1>1, <3>1, <3>2
  <2>2. \A s \in Scripts : s.kind \in Tests /\ Slot(s)' = s.target =>
            script'[s].pc \in Installed \/ PutBackByAnother(s)'
      BY <2>1
  <2> QED
      BY <2>2 DEF TestKeyWhere
<1>8. KeySeenOnceSent'
  <2>1. ASSUME NEW s \in Scripts, NEW u \in Scripts,
               s.kind = "TestOracle", u.kind = "TestOracle",
               script'[u].seen.slot = s.target
        PROVE  script'[s].pc \notin Unsent
    <3>1. CASE u = t
      <4>1. Slot(s) = s.target /\ s # t
          BY <1>1, <1>5, <2>1, <3>1 DEF Slot, OnOracle, Tests
      <4> QED
          BY <1>1, <1>4, <2>1, <4>1 DEF Tests
    <3>2. CASE u # t
      <4>1. script[s].pc \notin Unsent
          BY <1>0, <1>1, <2>1, <3>2 DEF KeySeenOnceSent
      <4> QED
          BY <1>1, <4>1 DEF Unsent
    <3> QED
        BY <3>1, <3>2
  <2> QED
      BY <2>1 DEF KeySeenOnceSent
<1>9. SeenIsOriginal'
    BY <1>1, <1>3, <1>5, <1>6 DEF RInv, SeenIsOriginal, Going
<1>10. OnlyTestsRestore'
    BY <1>1, <1>3 DEF RInv, OnlyTestsRestore
<1> QED
    BY <1>7, <1>8, <1>9, <1>10

(* A change of the field by t, and by t only, if it is not to an ephemeral *)
(* key of another.                                                         *)
LEMMA SendChanges ==
    ASSUME TypeOK, NEW t \in Scripts, Effect(t), NEW s \in Scripts, s.kind \in Tests
    PROVE  \/ Slot(s)' = Slot(s)
           \/ t # s /\ Slot(s)' # s.target
           \/ t = s /\ Slot(s)' = s.target
<1> USE TestKeysAreOwn
<1>0. registry \in Registry
    BY DEF TypeOK, RegistryTypeOK
<1>1. CASE t.kind = "Register"
    BY <1>0, <1>1 DEF Effect, RegisterAgentWallet, Slot, OnOracle, Registry
<1>2. CASE t.kind \in {"Migrate", "MainnetMigrate"}
    BY <1>0, <1>2 DEF Effect, MigrateAttestationRegistry, Slot, OnOracle, Registry, Tests
<1>3. CASE t.kind \notin {"Register", "Migrate", "MainnetMigrate"}
    BY <1>0, <1>3 DEF Effect, Change, SetOracleAuthority, LoaderSetAuthority, registryVars,
                Slot, OnOracle, Registry
<1> QED
    BY <1>1, <1>2, <1>3

LEMMA RestoreChanges ==
    ASSUME TypeOK, SeenIsOriginal, OnlyTestsRestore, NEW t \in Scripts, NEW pc \in PCs,
           Restores(t, pc), NEW s \in Scripts, s.kind \in Tests
    PROVE  \/ Slot(s)' = Slot(s) \/ Slot(s)' # s.target
           \/ /\ s # t /\ s.kind = "TestOracle" /\ t.kind = "TestOracle"
              /\ script[t].seen.slot = s.target
<1> USE TestKeysAreOwn
<1>0. registry \in Registry
    BY DEF TypeOK, RegistryTypeOK
<1>1. t.kind \in Tests /\ script[t].pc \in Going
    BY DEF Restores, OnlyTestsRestore, Going
<1>2. CASE t.kind = "TestOracle"
    BY <1>0, <1>1, <1>2 DEF Restores, Change, SetOracleAuthority, registryVars, Slot, OnOracle, Registry,
                      SeenIsOriginal, Tests
<1>3. CASE t.kind = "TestUpgrade"
  <2>1. script[t].seen.slot = t.signer
      BY <1>1, <1>3 DEF SeenIsOriginal
  <2> QED
      BY <1>3, <2>1 DEF Restores, Change, LoaderSetAuthority, registryVars, Slot, OnOracle, Registry
<1> QED
    BY <1>1, <1>2, <1>3 DEF Tests

LEMMA MoveKeeps ==
    ASSUME RInv, NEW t \in Scripts, NEW pc \in PCs, Moves(t, pc)
    PROVE  TestKeyWhere' /\ KeySeenOnceSent' /\ SeenIsOriginal' /\ OnlyTestsRestore'
<1>0. TypeOK /\ TestKeyWhere /\ KeySeenOnceSent /\ SeenIsOriginal /\ OnlyTestsRestore
    BY DEF RInv
<1>1. /\ Goto(t, pc) /\ Onward(t, pc)
      /\ (UNCHANGED program /\ pc # "recheck") \/ Sends(t, pc) \/ Restores(t, pc)
    BY DEF Moves
<1>2. /\ script'[t].pc = pc /\ script'[t].seen = script[t].seen
      /\ \A s \in Scripts \ {t} : script'[s] = script[s]
    BY <1>0, <1>1, Types, GotoTyped
<1>3. SeenIsOriginal'
    BY <1>0, <1>1, <1>2 DEF SeenIsOriginal, Onward
<1>4. OnlyTestsRestore'
    BY <1>0, <1>1, <1>2 DEF OnlyTestsRestore, Onward
<1>5. KeySeenOnceSent'
  <2>1. pc \in Unsent => script[t].pc \in Unsent
      BY <1>1 DEF Onward, Unsent
  <2>2. \A u \in Scripts : script'[u].seen = script[u].seen
      BY <1>2
  <2>3. \A s \in Scripts : script'[s].pc \in Unsent => script[s].pc \in Unsent
      BY <1>2, <2>1
  <2> QED
      BY <1>0, <2>2, <2>3 DEF KeySeenOnceSent
<1>6. \A s \in Scripts : PutBackByAnother(s) => PutBackByAnother(s)'
  <2>1. script[t].pc \in {"recheck", "Passed", "Failed"} =>
            pc \in {"recheck", "Passed", "Failed"}
      BY <1>1 DEF Onward
  <2> QED
      BY <1>2, <2>1, StaysPutBack
<1>7. ASSUME NEW s \in Scripts, s.kind \in Tests, Slot(s)' = s.target
      PROVE  script'[s].pc \in Installed \/ PutBackByAnother(s)'
  <2> USE DEF Installed
  <2>1. Slot(s) = s.target => script[s].pc \in Installed \/ PutBackByAnother(s)
      BY <1>0, <1>7 DEF TestKeyWhere
  <2>2. CASE PutBackByAnother(s)
      BY <1>6, <2>2
  <2>3. CASE UNCHANGED program /\ pc # "recheck" /\ ~PutBackByAnother(s)
    <3>1. Slot(s)' = Slot(s)
        BY <2>3 DEF program, Slot
    <3> QED
        BY <1>1, <1>2, <1>7, <2>1, <2>3, <3>1 DEF Onward
  <2>4. CASE Sends(t, pc) /\ ~PutBackByAnother(s)
    <3>1. \/ Slot(s)' = Slot(s)
          \/ t # s /\ Slot(s)' # s.target
          \/ t = s /\ Slot(s)' = s.target
        BY <1>0, <1>7, <2>4, SendChanges DEF Sends
    <3>2. t = s => pc \in {"verify", "Failed"}
        BY <1>7, <2>4 DEF Sends, Tests
    <3> QED
        BY <1>2, <1>7, <2>1, <2>4, <3>1, <3>2
  <2>5. CASE Restores(t, pc) /\ ~PutBackByAnother(s)
    <3>1. \/ Slot(s)' = Slot(s) \/ Slot(s)' # s.target
          \/ /\ s # t /\ s.kind = "TestOracle" /\ t.kind = "TestOracle"
             /\ script[t].seen.slot = s.target
        BY <1>0, <1>7, <2>5, RestoreChanges
    <3>2. CASE t # s /\ Slot(s)' = Slot(s)
        BY <1>2, <1>7, <2>1, <2>5, <3>2
    <3>3. CASE t # s /\ Slot(s)' # Slot(s)
      <4>1. /\ s.kind = "TestOracle" /\ t.kind = "TestOracle"
            /\ script'[t].seen.slot = s.target /\ script'[t].pc \in {"recheck", "Failed"}
          BY <1>2, <1>7, <2>5, <3>1, <3>3 DEF Restores
      <4> QED
          BY <3>3, <4>1 DEF PutBackByAnother
    <3>4. CASE t = s
      <4>1. script[s].seen.slot # s.target /\ Slot(s)' = script[s].seen.slot
          BY <1>0, <1>7, <2>5, <3>4
             DEF Restores, Change, SetOracleAuthority, LoaderSetAuthority, Slot, OnOracle,
                 SeenIsOriginal, Going, TypeOK, RegistryTypeOK, Registry
      <4> QED
          BY <1>7, <4>1
    <3> QED
        BY <3>2, <3>3, <3>4
  <2> QED
      BY <1>1, <2>2, <2>3, <2>4, <2>5
<1>8. TestKeyWhere'
  <2>1. \A s \in Scripts : s.kind \in Tests /\ Slot(s)' = s.target =>
            script'[s].pc \in Installed \/ PutBackByAnother(s)'
      BY <1>7
  <2> QED
      BY <2>1 DEF TestKeyWhere
<1> QED
    BY <1>3, <1>4, <1>5, <1>8

(* The admin and the agents install no ephemeral key.                      *)
LEMMA OthersKeep ==
    ASSUME RInv, [Next]_vars, UNCHANGED <<upgrade_authority, script>>,
           \/ registry'.oracle_authority = registry.oracle_authority
           \/ registry'.oracle_authority = REPUTATION_ORACLE_AUTHORITY
    PROVE  TestKeyWhere' /\ KeySeenOnceSent' /\ SeenIsOriginal' /\ OnlyTestsRestore'
<1>0. TestKeyWhere /\ KeySeenOnceSent /\ SeenIsOriginal /\ OnlyTestsRestore
    BY DEF RInv
<1>1. ASSUME NEW s \in Scripts, s.kind \in Tests
      PROVE  Slot(s)' = Slot(s) \/ Slot(s)' # s.target
    BY <1>1, TestKeysAreOwn DEF Slot
<1>2. \A s \in Scripts : s.kind \in Tests => Slot(s)' = Slot(s) \/ Slot(s)' # s.target
    BY <1>1
<1>3. \A s \in Scripts : PutBackByAnother(s) => PutBackByAnother(s)'
    BY DEF PutBackByAnother
<1>4. TestKeyWhere'
    BY <1>0, <1>2, <1>3 DEF TestKeyWhere
<1> QED
    BY <1>0, <1>4 DEF KeySeenOnceSent, SeenIsOriginal, OnlyTestsRestore

LEMMA KeysStep ==
    ASSUME RInv, [Next]_vars
    PROVE  TestKeyWhere' /\ KeySeenOnceSent' /\ SeenIsOriginal' /\ OnlyTestsRestore'
<1>0. TypeOK /\ registry \in Registry
    BY DEF RInv, TypeOK, RegistryTypeOK
<1>1. CASE \E s \in Scripts : ScriptStep(s)
    BY <1>0, <1>1, ScriptSteps, BeginKeeps, MoveKeeps
<1>2. CASE Admin /\ UNCHANGED <<upgrade_authority, script, faults>>
  <2>1. \/ registry'.oracle_authority = registry.oracle_authority
        \/ registry'.oracle_authority = REPUTATION_ORACLE_AUTHORITY
      BY <1>0, <1>2 DEF Admin, InitializeRegistry, SetProtocolAuthority, SetAgentStatus, Registry
  <2> QED
      BY <1>2, <2>1, OthersKeep
<1>3. CASE Agent /\ UNCHANGED <<upgrade_authority, script, faults, admin_steps>>
  <2>1. registry'.oracle_authority = registry.oracle_authority
      BY <1>0, <1>3 DEF Agent, CloseAgentWallet, RotateAgentKey, Registry
  <2> QED
      BY <1>3, <2>1, OthersKeep
<1>4. CASE UNCHANGED vars
    BY <1>4, OthersKeep DEF vars, program
<1> QED
    BY <1>1, <1>2, <1>3, <1>4 DEF Next

--------------------------------------------------------------------------------
LEMMA InitHolds == Init => RInv
<1> SUFFICES ASSUME Init PROVE RInv
    OBVIOUS
<1> USE ConstantTypes DEF Init
<1>1. /\ NoRegistry \in Registry /\ NoWallet \in AgentWallet
      /\ \A a \in Pubkeys : NewWallet(a) \in AgentWallet
      /\ NothingSeen \in Seen
    BY DEF NoRegistry, NoWallet, NewWallet, Registry, AgentWallet, AgentStatus, NothingSeen, Seen
<1>2. wallets \in [Keys -> AgentWallet]
    BY <1>1 DEF RegistryInit
<1>3. IsFiniteSet(Registered) /\ Cardinality(Registered) \in Nat /\ Cardinality({}) = 0
    BY RegistryAssumption, FS_Subset, FS_CardinalityType, FS_EmptySet DEF Registered
<1>4. /\ registry \in Registry /\ registry.oracle_authority = NoKey
      /\ registry.agent_count = Cardinality(Registered)
      /\ registry.layout = "None" => Registered = {}
  <2>1. CASE registry = NoRegistry /\ Registered = {}
      BY <1>1, <1>3, <2>1 DEF NoRegistry
  <2>2. ASSUME NEW b \in BOOLEAN,
               registry = [layout |-> "Legacy", authority |-> INITIAL_AUTHORITY,
                           agent_count |-> Cardinality(Registered),
                           oracle_authority |-> NoKey, holds_rent |-> b]
        PROVE  /\ registry \in Registry /\ registry.oracle_authority = NoKey
               /\ registry.agent_count = Cardinality(Registered)
               /\ registry.layout = "None" => Registered = {}
      BY <1>3, <2>2 DEF Registry
  <2> QED
      BY <2>1, <2>2 DEF RegistryInit
<1>5. script \in [Scripts -> Run]
      /\ \A s \in Scripts : script[s].pc = "start" /\ script[s].seen.slot = NoKey
    BY <1>1 DEF Run, PCs, Running, NothingSeen
<1>6. TypeOK
    BY <1>2, <1>4, <1>5, Types, RegistryTypes
<1>7. ASSUME NEW s \in Scripts, s.kind \in Tests
      PROVE  Slot(s) # s.target
    BY <1>4, <1>7, TestKeysAreOwn DEF Slot
<1>8. TestKeyWhere /\ SeenIsOriginal /\ OnlyTestsRestore
    BY <1>5, <1>7 DEF TestKeyWhere, SeenIsOriginal, OnlyTestsRestore, Going
<1>9. KeySeenOnceSent
    BY <1>5, TestKeysAreOwn DEF KeySeenOnceSent, Tests
<1> QED
    BY <1>4, <1>6, <1>8, <1>9 DEF RInv, CountMatches, NobodyUnregistered

LEMMA StepHolds ==
    ASSUME RInv, [Next]_vars
    PROVE  RInv'
<1>1. /\ TypeOK /\ RegistryTypeOK /\ CountMatches /\ NobodyUnregistered
      /\ SeenIsOriginal /\ OnlyTestsRestore
    BY DEF RInv, TypeOK
<1>2. TypeOK'
    BY <1>1, NextTyped
<1>3. CountMatches' /\ NobodyUnregistered'
  <2>1. CASE RegistryStep
      BY <1>1, <2>1, CountFollows
  <2>2. CASE UNCHANGED registryVars
      BY <1>1, <2>2 DEF registryVars, CountMatches, NobodyUnregistered, Registered
  <2> QED
      BY <1>1, <2>1, <2>2, RegistrySteps
<1> QED
    BY <1>2, <1>3, KeysStep DEF RInv

LEMMA RInvHolds == Spec => []RInv
<1>1. RInv /\ [Next]_vars => RInv'
    BY StepHolds
<1> QED
    BY InitHolds, <1>1, PTL DEF Spec

(* The registry, the wallets, the upgrade authority and the scripts keep   *)
(* their types: no instruction or script writes a field with a value its   *)
(* account does not hold.                                                  *)
THEOREM OperatorTypeCorrect == Spec => []TypeOK
<1>1. RInv => TypeOK
    BY DEF RInv
<1> QED
    BY RInvHolds, <1>1, PTL

(* registry.agent_count is the number of agent wallets there are           *)
(* (register_agent_wallet, close_agent_wallet, rotate_agent_key and        *)
(* migrate_attestation_registry, in any order).                            *)
THEOREM AgentsAreCounted == Spec => []CountMatches
<1>1. RInv => CountMatches
    BY DEF RInv
<1> QED
    BY RInvHolds, <1>1, PTL

(* A frozen or blacklisted agent's wallet stays, under the same authority, *)
(* until the admin changes its status: close_agent_wallet and              *)
(* rotate_agent_key do not let it go.                                      *)
THEOREM VerdictsStick == Spec => VerdictSticks
<1>1. RInv /\ [Next]_vars =>
        [\A k \in Keys :
           wallets[k].status \in {"Frozen", "Blacklisted"} =>
             k \in Registered' /\ wallets'[k].authority = wallets[k].authority]_registryVars
  <2> SUFFICES ASSUME RInv, [Next]_vars, ~UNCHANGED registryVars
               PROVE  \A k \in Keys :
                        wallets[k].status \in {"Frozen", "Blacklisted"} =>
                          k \in Registered' /\ wallets'[k].authority = wallets[k].authority
      OBVIOUS
  <2>1. TypeOK /\ RegistryTypeOK
      BY DEF RInv, TypeOK
  <2>2. RegistryStep
      BY <2>1, RegistrySteps
  <2> QED
      BY <2>1, <2>2, VerdictHolds
<1> QED
    BY RInvHolds, <1>1, PTL DEF Spec, VerdictSticks

(* The ephemeral key of a test that ended in PASS is not in the account    *)
(* the test was about, whatever other scripts, faults and admin steps ran  *)
(* meanwhile, but for an oracle test whose key an overlapping oracle test  *)
(* read as the original and has put back (test-oracle-rotation-devnet and  *)
(* test-escrow-upgrade-authority-devnet).                                  *)
THEOREM NoTestKeyAfterPass == Spec => []PassLeavesNoTestKey
<1>1. RInv => PassLeavesNoTestKey
    BY DEF RInv, TestKeyWhere, Installed, PassLeavesNoTestKey, At
<1> QED
    BY RInvHolds, <1>1, PTL

LEMMA RotationSteps ==
    ASSUME RInv, [Next]_vars, registry.layout = "Current",
           registry'.oracle_authority # registry.oracle_authority
    PROVE  \E s \in Scripts : OnOracle(s) /\ script'[s] # script[s]
<1>0. TypeOK /\ registry \in Registry /\ script \in [Scripts -> Run]
    BY Types DEF RInv, RegistryTypeOK
<1>1. CASE \E s \in Scripts : ScriptStep(s)
  <2>1. PICK s \in Scripts : ScriptStep(s)
      BY <1>1
  <2>2. ~Begin(s)
      BY DEF Begin, program
  <2>3. PICK pc \in PCs : Moves(s, pc)
      BY <1>0, <2>1, <2>2, ScriptSteps
  <2>4. script'[s].pc = pc /\ pc # script[s].pc
      BY <1>0, <2>3, GotoTyped DEF Moves, Onward
  <2>5. Sends(s, pc) => OnOracle(s)
      BY <1>0 DEF Sends, Effect, RegisterAgentWallet, MigrateAttestationRegistry, Change,
                  LoaderSetAuthority, registryVars, Registry
  <2>6. Restores(s, pc) => OnOracle(s)
      BY DEF Restores, Change, LoaderSetAuthority, registryVars
  <2>7. OnOracle(s)
      BY <2>3, <2>5, <2>6 DEF Moves, program
  <2> QED
      BY <2>4, <2>7
<1>2. CASE Admin \/ Agent
    BY <1>0, <1>2 DEF Admin, InitializeRegistry, SetProtocolAuthority, SetAgentStatus,
               Agent, CloseAgentWallet, RotateAgentKey, Registry
<1>3. CASE UNCHANGED vars
    BY <1>3 DEF vars, program
<1> QED
    BY <1>1, <1>2, <1>3 DEF Next

(* Once the registry has its 81 bytes, only a script that rotates the      *)
(* oracle key, or tests that it can, moves the oracle authority: neither a *)
(* migration nor initialize_registry resets it.                            *)
THEOREM OracleRotates == Spec => OracleChangesAreRotations
<1>1. RInv /\ [Next]_vars =>
        [registry.layout = "Current" /\ registry'.oracle_authority # registry.oracle_authority =>
           \E s \in Scripts : OnOracle(s) /\ script'[s] # script[s]]_vars
    BY RotationSteps
<1> QED
    BY RInvHolds, <1>1, PTL DEF Spec, OracleChangesAreRotations

===============================================================================
