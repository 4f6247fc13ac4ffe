------------------------------- MODULE MCClients -------------------------------
(***************************************************************************)
(* One escrow id of alice and bob, and one call of the SDK or the wizard.  *)
(* A pact takes all the tokens either has, and a split of it overflows: a  *)
(* second pact under the id can be created after any first one, but funded *)
(* and staked only if the first one gave both their money back.            *)
(***************************************************************************)
EXTENDS Clients

CONSTANTS alice, bob, carol, aw, bw, cw, e1

MCAgents      == {alice, bob, carol}
MCWallets     == {aw, bw, cw}
MCAuthorityOf == [w \in MCWallets |->
                    CASE w = aw -> alice [] w = bw -> bob [] w = cw -> carol]

Milestone ==
    [initiator |-> alice, beneficiary |-> bob, arbiter |-> carol,
     escrow_amount |-> 1203, initiator_stake |-> 1000, beneficiary_stake |-> 2203,
     lock_secs |-> 1, dispute_deadline_secs |-> 1,
     auto_release_on_expiry |-> FALSE, slash_loser_stake |-> TRUE,
     initiator_gate |-> NoThreshold, beneficiary_gate |-> NoThreshold]

Timed == [Milestone EXCEPT !.auto_release_on_expiry = TRUE]

(* Gated above the score everyone starts with: refused before it is sent.  *)
Demanding == [Milestone EXCEPT !.initiator_gate.score = 5001]

MCTerms == {Milestone, Demanding}
TimedTerms == {Timed}
NoSplits == {}

Ask(op, signer) ==
    [op |-> op, signer |-> signer, id |-> e1, terms |-> Milestone, arbiter |-> "with wallet",
     threshold |-> FALSE, wrapped |-> FALSE]

ByPlugin(op, signer) == [Ask(op, signer) EXCEPT !.wrapped = TRUE]

(* Those that act on a pact, and may come to act on a later one than meant. *)
Acting ==
    {[Ask("createPact", alice) EXCEPT !.threshold = TRUE],
     ByPlugin("depositEscrow", alice), Ask("stakeBeneficiary", bob), Ask("lockEscrow", alice),
     Ask("releasePact", alice), ByPlugin("openDispute", bob), Ask("handleSubmit", alice)}

(* Those refused: by the SDK before they are sent, or by the program always. *)
Refused ==
    {[Ask("createPact", alice) EXCEPT !.terms = Demanding, !.threshold = TRUE],
     [Ask("createPact", alice) EXCEPT !.arbiter = "named"],
     [Ask("lockEscrow", alice) EXCEPT !.arbiter = "named"],
     Ask("claimReleased", bob)}

MCRequests == Acting \cup Refused

TimedRequests == {[Ask("createPact", alice) EXCEPT !.terms = Timed]}
================================================================================
