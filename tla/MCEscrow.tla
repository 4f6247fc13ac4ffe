------------------------------- MODULE MCEscrow -------------------------------
(***************************************************************************)
(* Instances of Escrow for TLC: three agents with one wallet each (carol   *)
(* arbitrates), tick-sized windows, and the sets of terms the runs use.    *)
(***************************************************************************)
EXTENDS EscrowClaims, EscrowRefinement

CONSTANTS alice, bob, carol,        \* agents
          aw, bw, cw                \* wallets

MCAgents      == {alice, bob, carol}
MCWallets     == {aw, bw, cw}
MCAuthorityOf == [w \in MCWallets |->
                    CASE w = aw -> alice [] w = bw -> bob [] w = cw -> carol]

NoGate     == [score |-> 0, tier |-> 0, pacts |-> 0]
NeutralGate == [score |-> 5000, tier |-> 0, pacts |-> 0]

(* A milestone pact: a refund on expiry, stakes returned to their owners.  *)
Milestone ==
    [initiator |-> alice, beneficiary |-> bob, arbiter |-> carol,
     escrow_amount |-> 1203, initiator_stake |-> 1000, beneficiary_stake |-> 1001,
     lock_secs |-> 2, dispute_deadline_secs |-> 2,
     auto_release_on_expiry |-> FALSE, slash_loser_stake |-> FALSE,
     initiator_gate |-> NoGate, beneficiary_gate |-> NoGate]

(* A timed pact that slashes the loser of a dispute.                       *)
Timed == [Milestone EXCEPT !.auto_release_on_expiry = TRUE, !.slash_loser_stake = TRUE,
                           !.lock_secs = 1, !.dispute_deadline_secs = 1]

(* No stakes, and a gate that agents fail once they were penalised.        *)
Gated == [Milestone EXCEPT !.initiator_stake = 0, !.beneficiary_stake = 0,
                           !.initiator_gate = NeutralGate, !.beneficiary_gate = NeutralGate,
                           !.lock_secs = 1, !.dispute_deadline_secs = 1]

(* More than U64_MAX / 5000 tokens, so an even split does not compute.     *)
Whale == [Timed EXCEPT !.escrow_amount = 6000]

(* Terms initialize_escrow must refuse: parties that coincide, no time to  *)
(* lock, slashing with nothing at stake, a deadline out of range.          *)
Refused ==
    {[Timed EXCEPT !.beneficiary = alice], [Timed EXCEPT !.arbiter = bob],
     [Timed EXCEPT !.lock_secs = 0], [Timed EXCEPT !.initiator_stake = 0],
     [Timed EXCEPT !.dispute_deadline_secs = 0], [Timed EXCEPT !.escrow_amount = 0],
     [Timed EXCEPT !.beneficiary_stake = 999]}

LifecycleTerms == {Milestone, Timed, Whale} \cup Refused
TimedTerms     == {Timed}
ReuseTerms     == {Gated, Whale}

MCSplits == {3333, 10001}
NoSplits == {}
================================================================================
