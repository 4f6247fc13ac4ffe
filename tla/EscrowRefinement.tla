--------------------------- MODULE EscrowRefinement ----------------------------
(***************************************************************************)
(* The escrow program implements EscrowPromise.  A pact's phase is read    *)
(* off the escrow's status, what is held is what the vault owes (never     *)
(* what strangers sent to it), and the treasury is the protocol            *)
(* authority's token account.                                              *)
(***************************************************************************)
EXTENDS Escrow

PhaseOf(status) ==
    CASE status = "Absent"               -> "none"
      [] status \in {"Pending", "Funded"} -> "open"
      [] status \in Committed            -> "committed"
      [] status \in Settled              -> "settled"

PartiesOf(e) == IF Status(e) = "Absent" THEN {} ELSE Parties(e)

PhaseMap   == [e \in EscrowIds |-> PhaseOf(Status(e))]
PartiesMap == [e \in EscrowIds |-> PartiesOf(e)]
HeldMap    == [e \in EscrowIds |-> Liability(e)]

Promise == INSTANCE EscrowPromise WITH
    Pacts    <- EscrowIds,
    People   <- Agents,
    Treasury <- ProtocolAuthority,
    phase    <- PhaseMap,
    parties  <- PartiesMap,
    held     <- HeldMap,
    purse    <- tok

(* Every step of the program is a step the promise allows, or none at all: *)
(* through any interleaving of instructions on several escrows the money   *)
(* of a pact goes in while it is open, does not move while it is locked,   *)
(* released or disputed, and leaves in one settlement to its own parties.  *)
KeepsPromise == Promise!PSpec
================================================================================
