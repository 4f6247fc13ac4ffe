------------------------------ MODULE MCOperators ------------------------------
(***************************************************************************)
(* The scripts of one deployment, started in any order and at any time:    *)
(* an oracle rotation and two oracle tests, both migrations, two upgrade   *)
(* tests and a transfer of the upgrade authority to the vault, and two     *)
(* registrations that share a key.                                         *)
(***************************************************************************)
EXTENDS OperatorScripts

CONSTANTS admin, oracle, new_oracle, deployer, vault, alice, bob,
          tmp1, tmp2, tmp3, tmp4, \* ephemeral keys
          escrow, old_escrow,     \* deployments of the escrow program
          k1, k2

MCPubkeys == {admin, oracle, new_oracle, deployer, vault, alice, bob, tmp1, tmp2, tmp3, tmp4}
MCAgents  == {alice, bob}
MCKeys    == {k1, k2}
MCEscrowPrograms == {escrow, old_escrow}

Run(id, kind, signer, target, key) ==
    [id |-> id, kind |-> kind, signer |-> signer, target |-> target, key |-> key]

RegistryScripts ==
    {Run(1, "RotateOracle", admin, new_oracle, k1), Run(2, "TestOracle", admin, tmp1, k1),
     Run(3, "Migrate", admin, admin, k1), Run(4, "MainnetMigrate", admin, admin, k1),
     Run(5, "Register", alice, alice, k1), Run(6, "Register", bob, bob, k1),
     Run(10, "TestOracle", admin, tmp4, k1)}

UpgradeScripts ==
    {Run(7, "TestUpgrade", deployer, tmp2, k1), Run(8, "TestUpgrade", deployer, tmp3, k1),
     Run(9, "TransferUpgrade", deployer, vault, k1)}

AllScripts == RegistryScripts \cup UpgradeScripts
OneTest    == {Run(7, "TestUpgrade", deployer, tmp2, k1)}
================================================================================
