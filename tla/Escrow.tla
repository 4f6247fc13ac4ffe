-------------------------------- MODULE Escrow --------------------------------
(***************************************************************************)
(* The vaultpact-escrow program: an initiator and a beneficiary lock a     *)
(* payment and two stakes in a vault, and the vault is emptied by exactly  *)
(* one of a claim, a refund, a cancellation, an arbiter's decision or a    *)
(* protocol freeze.  One action per instruction; an instruction is atomic  *)
(* (a Solana transaction), so the interleavings are those of transactions. *)
(*                                                                         *)
(* What an action can see is accounts: the escrow with its pact record,    *)
(* the dispute record (a PDA of its own, with a lifetime of its own), the  *)
(* vault's token balance, the agents' wallets and reputation accounts.     *)
(* Timestamps that no instruction reads (created_at, locked_at,            *)
(* resolved_at, cancelled_at of an escrow; resolved_at of a dispute) and   *)
(* evidence, URIs and hashes are left out.                                 *)
(***************************************************************************)
EXTENDS ReputationAccount, FiniteSets

CONSTANTS
    EscrowIds,              \* the escrow_id seeds in use
    Agents,                 \* ed25519 authorities that take part in pacts
    ProtocolAuthority,      \* registry.authority: freezes pacts, owns the treasury
    NoOne,
    Wallets,                \* AgentWallet PDAs (one per secp256r1 key)
    AuthorityOf,            \* the authority each wallet is registered under
    Terms,                  \* the parameters initialize_escrow is called with
    NoTerms,
    Splits,                 \* the beneficiary_bps arbiters ask for
    DISPUTE_WINDOW_SECS,    \* 7 days after a release
    ESCALATION_GRACE_SECS,  \* 7 days after an escalation
    MIN_DISPUTE_DEADLINE,   \* 1 hour
    MAX_DISPUTE_DEADLINE,   \* 10 years
    U64_MAX,
    InitialTokens,          \* what each agent holds at the start
    Newcomers,              \* agents with no reputation account at the start
    MaxStart,               \* bound: the last instant an escrow is created
    MaxCreations,           \* bound: calls of initialize_escrow
    MaxAdminSteps,          \* bound: calls that change or close a wallet
    MaxStray                \* bound: tokens sent to a vault from outside

Gates == [score : Nat, tier : Nat, pacts : Nat]

TermsRecords ==
    [initiator : Agents, beneficiary : Agents, arbiter : Agents,
     escrow_amount : Nat, initiator_stake : Nat, beneficiary_stake : Nat,
     lock_secs : Int, dispute_deadline_secs : Int,
     auto_release_on_expiry : BOOLEAN, slash_loser_stake : BOOLEAN,
     initiator_gate : Gates, beneficiary_gate : Gates]

ASSUME EscrowAssumption ==
    /\ ProtocolAuthority \notin Agents
    /\ NoOne \notin Agents \cup {ProtocolAuthority}
    /\ AuthorityOf \in [Wallets -> Agents]
    /\ Terms \subseteq TermsRecords
    /\ NoTerms \notin Terms
    /\ Splits \subseteq Nat
    /\ DISPUTE_WINDOW_SECS \in Nat \ {0}
    /\ ESCALATION_GRACE_SECS \in Nat \ {0}
    /\ MIN_DISPUTE_DEADLINE \in Nat \ {0}
    /\ MAX_DISPUTE_DEADLINE \in Nat
    /\ U64_MAX \in Nat
    /\ InitialTokens \in Nat
    /\ Newcomers \subseteq Agents
    /\ {MaxStart, MaxCreations, MaxAdminSteps, MaxStray} \subseteq Nat

VARIABLES
    now,         \* Clock::unix_timestamp; starts at 1, for 0 means "unset"
    escrow,      \* EscrowAccount and PactRecord, created and closed together
    dispute,     \* DisputeRecord
    vault,       \* token balance of the escrow's vault
    stray,       \* how much of it came from outside the program (a ghost)
    tok,         \* token balance of every agent and of the treasury
    wallet,      \* AgentWallet.status
    rep,         \* ReputationAccount
    creations,   \* initialize_escrow calls so far (bounded)
    admin_steps  \* wallet status changes and closures so far (bounded)

vars == <<now, escrow, dispute, vault, stray, tok, wallet, rep, creations, admin_steps>>

--------------------------------------------------------------------------------
MINIMUM_STAKE    == 1000
PROTOCOL_FEE_BPS == 25
BPS_DENOMINATOR  == 10000

FULFILLED_SCORE_DELTA        == 50
AUTO_REFUND_UNRESOLVED_DELTA == -10
REFUND_ESCALATED_DELTA       == -25
REFUND_UNRESOLVED_DELTA      == -10
CANCEL_PENDING_DELTA         == -10
MUTUAL_CANCEL_SCORE_DELTA    == 0
DISPUTE_LOSER_DELTA          == -100
DISPUTE_WINNER_DELTA         == 25
DISPUTE_SPLIT_DELTA          == -25

(* Absent is the PDA that does not exist; the program's Closed status is   *)
(* never written, close_escrow deletes the account.                        *)
EscrowStatus ==
    {"Absent", "Pending", "Funded", "Locked", "Released", "Disputed",
     "Refunded", "Claimed", "MutuallyCancelled"}

Committed == {"Locked", "Released", "Disputed"}
Held      == {"Funded"} \cup Committed
Settled   == {"Refunded", "Claimed", "MutuallyCancelled"}

EscrowAccount ==
    [status : EscrowStatus, terms : Terms \cup {NoTerms}, time_lock_expires_at : Nat,
     released_at : Nat, dispute_window_ends_at : Nat, beneficiary_staked : BOOLEAN]

AbsentEscrow ==
    [status |-> "Absent", terms |-> NoTerms, time_lock_expires_at |-> 0,
     released_at |-> 0, dispute_window_ends_at |-> 0, beneficiary_staked |-> FALSE]

NoDecision           == [kind |-> "None", beneficiary_bps |-> 0]
ReleaseToBeneficiary == [kind |-> "ReleaseToBeneficiary", beneficiary_bps |-> 0]
RefundToInitiator    == [kind |-> "RefundToInitiator", beneficiary_bps |-> 0]
SplitFunds(bps)      == [kind |-> "SplitFunds", beneficiary_bps |-> bps]

ArbiterDecision ==
    {NoDecision, ReleaseToBeneficiary, RefundToInitiator}
        \cup {SplitFunds(bps) : bps \in Splits \cup {5000}}

DisputeRecord ==
    [created_at : Nat, raised_by : Agents \cup {ProtocolAuthority, NoOne},
     arbiter_decision : ArbiterDecision, resolution_deadline : Nat,
     escalated_at : Nat, escalation_deadline : Nat]

(* A freshly allocated, zeroed record: created_at = 0 is how the program   *)
(* itself tells that no dispute was there.                                 *)
NoDispute ==
    [created_at |-> 0, raised_by |-> NoOne, arbiter_decision |-> NoDecision,
     resolution_deadline |-> 0, escalated_at |-> 0, escalation_deadline |-> 0]

WalletStatus == {"Absent", "Active", "Frozen", "Blacklisted", "DeregisterPending"}

Holders == Agents \cup {ProtocolAuthority}

Status(e)  == escrow[e].status
Pact(e)    == escrow[e].terms
Parties(e) == {Pact(e).initiator, Pact(e).beneficiary}

--------------------------------------------------------------------------------
(* Account constraints the instructions share.  A wallet account is        *)
(* accepted when it exists and is registered under the right authority.    *)
WalletsOf(a)         == {w \in Wallets : AuthorityOf[w] = a /\ wallet[w] # "Absent"}
ShowsActive(a)       == \E w \in WalletsOf(a) : wallet[w] = "Active"
ShowsUnlisted(a)     == \E w \in WalletsOf(a) : wallet[w] # "Blacklisted"
ShowsBlacklisted(a)  == \E w \in WalletsOf(a) : wallet[w] = "Blacklisted"
HaveReputations(e)   == \A a \in Parties(e) : rep[a].exists

FitsU64(x) == x <= U64_MAX

ValidInitParams(t) ==
    /\ t.initiator # t.beneficiary /\ t.initiator # t.arbiter /\ t.beneficiary # t.arbiter
    /\ t.escrow_amount > 0
    /\ t.lock_secs > 0
    /\ t.dispute_deadline_secs \in MIN_DISPUTE_DEADLINE..MAX_DISPUTE_DEADLINE
    /\ t.slash_loser_stake => t.initiator_stake > 0 /\ t.beneficiary_stake > 0
    /\ t.initiator_stake > 0 => t.initiator_stake >= MINIMUM_STAKE
    /\ t.beneficiary_stake > 0 => t.beneficiary_stake >= MINIMUM_STAKE

--------------------------------------------------------------------------------
(* Payouts.  Each is [beneficiary, initiator, fee] in tokens.              *)

(* Variant: the basis points are taken for tenths of a per cent.           *)
ClaimFeePerMille(amount) == (amount * PROTOCOL_FEE_BPS) \div 1000

ClaimFee(amount) == (amount * PROTOCOL_FEE_BPS) \div BPS_DENOMINATOR

(* Variant: the fee is withheld from the beneficiary, not transferred.     *)
ClaimPayoutsKeepingFee(t) ==
    [beneficiary |-> t.escrow_amount - ClaimFee(t.escrow_amount) + t.beneficiary_stake,
     initiator   |-> t.initiator_stake,
     fee         |-> 0]

ClaimPayouts(t) ==
    [beneficiary |-> t.escrow_amount - ClaimFee(t.escrow_amount) + t.beneficiary_stake,
     initiator   |-> t.initiator_stake,
     fee         |-> ClaimFee(t.escrow_amount)]

(* refund, auto_release and mutual_cancel_escrow share this rule, which    *)
(* returns the beneficiary's stake whether or not beneficiary_staked.      *)
RefundPayouts(t) ==
    [beneficiary |-> t.beneficiary_stake,
     initiator   |-> t.escrow_amount + t.initiator_stake,
     fee         |-> 0]

CancelPayouts(t, staked) ==
    [RefundPayouts(t) EXCEPT !.beneficiary = IF staked THEN @ ELSE 0]

SplitShare(amount, bps) == (amount * bps) \div BPS_DENOMINATOR

(* The multiplication is done in u64 and checked, so a split of more than  *)
(* U64_MAX / bps tokens is refused; so is a share above the amount.        *)
SplitComputable(t, bps) ==
    /\ bps <= BPS_DENOMINATOR
    /\ FitsU64(t.escrow_amount * bps)
    /\ SplitShare(t.escrow_amount, bps) <= t.escrow_amount

(* Variant: the pact's slash_loser_stake is not looked at.                 *)
SlashedAlways(t, staked_amount, decision) ==
    IF decision = ReleaseToBeneficiary THEN t.initiator_stake ELSE staked_amount

(* What the winner of a dispute gets of the loser's stake.                 *)
Slashed(t, staked_amount, decision) ==
    IF ~t.slash_loser_stake THEN 0
    ELSE IF decision = ReleaseToBeneficiary THEN t.initiator_stake ELSE staked_amount

(* staked_amount is the beneficiary's stake if it was paid in, else 0.     *)
DisputePayouts(t, staked_amount, decision) ==
    LET slashed == Slashed(t, staked_amount, decision)
        share   == SplitShare(t.escrow_amount, decision.beneficiary_bps)
    IN  IF decision = ReleaseToBeneficiary
        THEN [beneficiary |-> t.escrow_amount + staked_amount + slashed,
              initiator   |-> t.initiator_stake - slashed, fee |-> 0]
        ELSE IF decision = RefundToInitiator
        THEN [beneficiary |-> staked_amount - slashed,
              initiator   |-> t.escrow_amount + t.initiator_stake + slashed, fee |-> 0]
        ELSE [beneficiary |-> share + staked_amount,
              initiator   |-> t.escrow_amount - share + t.initiator_stake, fee |-> 0]

DisputeDeltas(decision) ==
    IF decision = ReleaseToBeneficiary
    THEN [initiator |-> DISPUTE_LOSER_DELTA, beneficiary |-> DISPUTE_WINNER_DELTA]
    ELSE IF decision = RefundToInitiator
    THEN [initiator |-> DISPUTE_WINNER_DELTA, beneficiary |-> DISPUTE_LOSER_DELTA]
    ELSE [initiator |-> DISPUTE_SPLIT_DELTA, beneficiary |-> DISPUTE_SPLIT_DELTA]

EffectiveStake(e) == IF escrow[e].beneficiary_staked THEN Pact(e).beneficiary_stake ELSE 0

(* The token transfers of a settlement: each fails, and the transaction    *)
(* with it, if the vault does not hold enough.                             *)
PayOut(e, pay) ==
    /\ FitsU64(pay.beneficiary) /\ FitsU64(pay.initiator)
    /\ pay.fee + pay.beneficiary + pay.initiator <= vault[e]
    /\ vault' = [vault EXCEPT ![e] = @ - (pay.fee + pay.beneficiary + pay.initiator)]
    /\ tok' = [h \in Holders |->
                 tok[h] + (IF h = Pact(e).beneficiary THEN pay.beneficiary ELSE 0)
                        + (IF h = Pact(e).initiator   THEN pay.initiator   ELSE 0)
                        + (IF h = ProtocolAuthority   THEN pay.fee         ELSE 0)]

(* The two update_reputation CPIs of a settlement; the nonce passed is the *)
(* one just read, plus one, so the reputation program always accepts it.   *)
ScoreBoth(e, outcome, initiator_delta, beneficiary_delta) ==
    /\ HaveReputations(e)
    /\ rep' = [a \in Agents |->
                 IF a = Pact(e).initiator
                 THEN UpdateReputation(rep[a], outcome, initiator_delta, now)
                 ELSE IF a = Pact(e).beneficiary
                 THEN UpdateReputation(rep[a], outcome, beneficiary_delta, now)
                 ELSE rep[a]]

SetStatus(e, status) == escrow' = [escrow EXCEPT ![e].status = status]

bounds == <<creations, admin_steps>>

--------------------------------------------------------------------------------
Init ==
    /\ now = 1
    /\ escrow  = [e \in EscrowIds |-> AbsentEscrow]
    /\ dispute = [e \in EscrowIds |-> NoDispute]
    /\ vault   = [e \in EscrowIds |-> 0]
    /\ stray   = [e \in EscrowIds |-> 0]
    /\ tok     = [h \in Holders |-> IF h \in Agents THEN InitialTokens ELSE 0]
    /\ wallet  = [w \in Wallets |-> "Active"]
    /\ rep     = [a \in Agents |-> IF a \in Newcomers THEN NoReputation
                                   ELSE FreshReputation(now)]
    /\ creations = 0
    /\ admin_steps = 0

--------------------------------------------------------------------------------
(* initialize_escrow: allocates the escrow, the pact record and the vault. *)
(* Only the initiator's reputation gate is checked here.                   *)
InitializeEscrow(e, t) ==
    /\ now <= MaxStart /\ creations < MaxCreations
    /\ Status(e) = "Absent"
    /\ ValidInitParams(t)
    /\ ShowsActive(t.initiator) /\ ShowsActive(t.beneficiary) /\ ShowsActive(t.arbiter)
    /\ MeetsGate(rep[t.initiator], t.initiator_gate, now)
    /\ escrow' = [escrow EXCEPT ![e] = [AbsentEscrow EXCEPT
                    !.status = "Pending", !.terms = t,
                    !.time_lock_expires_at = now + t.lock_secs]]
    /\ creations' = creations + 1
    /\ UNCHANGED <<now, dispute, vault, stray, tok, wallet, rep, admin_steps>>

(* deposit_funds: no gate on time, wallet or reputation.                   *)
DepositFunds(e) ==
    LET t == Pact(e)
        deposit_amount == t.escrow_amount + t.initiator_stake
    IN  /\ Status(e) = "Pending"
        /\ FitsU64(deposit_amount)
        /\ tok[t.initiator] >= deposit_amount /\ FitsU64(vault[e] + deposit_amount)
        /\ SetStatus(e, "Funded")
        /\ tok' = [tok EXCEPT ![t.initiator] = @ - deposit_amount]
        /\ vault' = [vault EXCEPT ![e] = @ + deposit_amount]
        /\ UNCHANGED <<now, dispute, stray, wallet, rep, bounds>>

(* stake_beneficiary: a zero stake is "paid" too, the flag is set anyway.  *)
StakeBeneficiary(e) ==
    LET t == Pact(e)
    IN  /\ Status(e) = "Funded"
        /\ ~escrow[e].beneficiary_staked
        /\ ShowsActive(t.beneficiary)
        /\ MeetsGate(rep[t.beneficiary], t.beneficiary_gate, now)
        /\ tok[t.beneficiary] >= t.beneficiary_stake
        /\ FitsU64(vault[e] + t.beneficiary_stake)
        /\ escrow' = [escrow EXCEPT ![e].beneficiary_staked = TRUE]
        /\ tok' = [tok EXCEPT ![t.beneficiary] = @ - t.beneficiary_stake]
        /\ vault' = [vault EXCEPT ![e] = @ + t.beneficiary_stake]
        /\ UNCHANGED <<now, dispute, stray, wallet, rep, bounds>>

(* lock_escrow: signed by both parties; re-checks every wallet and both    *)
(* gates, and that the vault holds exactly what the terms say.             *)
LockEscrow(e) ==
    LET t == Pact(e)
    IN  /\ Status(e) = "Funded"
        /\ escrow[e].beneficiary_staked
        /\ ShowsActive(t.initiator) /\ ShowsActive(t.beneficiary) /\ ShowsActive(t.arbiter)
        /\ MeetsGate(rep[t.initiator], t.initiator_gate, now)
        /\ MeetsGate(rep[t.beneficiary], t.beneficiary_gate, now)
        /\ FitsU64(t.escrow_amount + t.initiator_stake + t.beneficiary_stake)
        /\ vault[e] = t.escrow_amount + t.initiator_stake + t.beneficiary_stake
        /\ escrow[e].time_lock_expires_at > now
        /\ SetStatus(e, "Locked")
        /\ UNCHANGED <<now, dispute, vault, stray, tok, wallet, rep, bounds>>

(* Variant: the window is counted from the time lock, not from the release. *)
ReleaseWindowFromExpiry(e) ==
    escrow' = [escrow EXCEPT ![e] = [@ EXCEPT
                 !.status = "Released", !.released_at = now,
                 !.dispute_window_ends_at = escrow[e].time_lock_expires_at + DISPUTE_WINDOW_SECS]]

(* What release_escrow and the timed branch of auto_release write.         *)
Release(e) ==
    escrow' = [escrow EXCEPT ![e] = [@ EXCEPT
                 !.status = "Released", !.released_at = now,
                 !.dispute_window_ends_at = now + DISPUTE_WINDOW_SECS]]

(* Variant: releasing again is harmless, so only the window starts over.   *)
ReleaseAgain(e) ==
    /\ Status(e) \in {"Locked", "Released"}
    /\ ShowsUnlisted(Pact(e).initiator)
    /\ Release(e)
    /\ UNCHANGED <<now, dispute, vault, stray, tok, wallet, rep, bounds>>

(* release_escrow: the initiator accepts the work, at any time.            *)
ReleaseEscrow(e) ==
    /\ Status(e) = "Locked"
    /\ ShowsUnlisted(Pact(e).initiator)
    /\ Release(e)
    /\ UNCHANGED <<now, dispute, vault, stray, tok, wallet, rep, bounds>>

(* Variant: the beneficiary's wallet has to be active, not just unlisted.  *)
ClaimNeedsActive(e) ==
    /\ Status(e) = "Released"
    /\ ShowsActive(Pact(e).beneficiary)
    /\ now > escrow[e].dispute_window_ends_at
    /\ SetStatus(e, "Claimed")
    /\ PayOut(e, ClaimPayouts(Pact(e)))
    /\ ScoreBoth(e, "Fulfilled", FULFILLED_SCORE_DELTA, FULFILLED_SCORE_DELTA)
    /\ UNCHANGED <<now, dispute, stray, wallet, bounds>>

(* claim_released: the beneficiary collects after the dispute window.      *)
ClaimReleased(e) ==
    /\ Status(e) = "Released"
    /\ ShowsUnlisted(Pact(e).beneficiary)
    /\ now > escrow[e].dispute_window_ends_at
    /\ SetStatus(e, "Claimed")
    /\ PayOut(e, ClaimPayouts(Pact(e)))
    /\ ScoreBoth(e, "Fulfilled", FULFILLED_SCORE_DELTA, FULFILLED_SCORE_DELTA)
    /\ UNCHANGED <<now, dispute, stray, wallet, bounds>>

(* Variant: only timed pacts are released; any other is rejected.          *)
AutoReleaseTimedOnly(e) ==
    /\ Status(e) = "Locked"
    /\ now > escrow[e].time_lock_expires_at
    /\ HaveReputations(e)
    /\ Pact(e).auto_release_on_expiry
    /\ Release(e)
    /\ UNCHANGED <<now, dispute, vault, stray, tok, wallet, rep, bounds>>

(* auto_release: cranked by anyone once the time lock has expired.  A      *)
(* timed pact is released, any other is refunded.                          *)
AutoRelease(e) ==
    /\ Status(e) = "Locked"
    /\ now > escrow[e].time_lock_expires_at
    /\ HaveReputations(e)
    /\ \/ /\ Pact(e).auto_release_on_expiry
          /\ Release(e)
          /\ UNCHANGED <<vault, tok, rep>>
       \/ /\ ~Pact(e).auto_release_on_expiry
          /\ SetStatus(e, "Refunded")
          /\ PayOut(e, RefundPayouts(Pact(e)))
          /\ ScoreBoth(e, "Cancelled", AUTO_REFUND_UNRESOLVED_DELTA,
                       AUTO_REFUND_UNRESOLVED_DELTA)
    /\ UNCHANGED <<now, dispute, stray, wallet, bounds>>

(* Variant: a record left by an earlier escrow is taken over (Anchor's     *)
(* init_if_needed in place of init).                                       *)
RaiseOverOldRecord(e, raiser) ==
    /\ Status(e) \in {"Locked", "Released"}
    /\ raiser \in Parties(e)
    /\ Status(e) = "Released" => now < escrow[e].dispute_window_ends_at
    /\ SetStatus(e, "Disputed")
    /\ dispute' = [dispute EXCEPT ![e] = [@ EXCEPT
                     !.created_at = now, !.raised_by = raiser,
                     !.arbiter_decision = NoDecision,
                     !.resolution_deadline = now + Pact(e).dispute_deadline_secs]]
    /\ UNCHANGED <<now, vault, stray, tok, wallet, rep, bounds>>

(* raise_dispute: the record's PDA must not exist yet.                     *)
RaiseDispute(e, raiser) ==
    /\ Status(e) \in {"Locked", "Released"}
    /\ raiser \in Parties(e)
    /\ Status(e) = "Released" => now < escrow[e].dispute_window_ends_at
    /\ dispute[e] = NoDispute
    /\ SetStatus(e, "Disputed")
    /\ dispute' = [dispute EXCEPT ![e] = [NoDispute EXCEPT
                     !.created_at = now, !.raised_by = raiser,
                     !.resolution_deadline = now + Pact(e).dispute_deadline_secs]]
    /\ UNCHANGED <<now, vault, stray, tok, wallet, rep, bounds>>

(* Variant: a party may escalate before the arbiter's deadline.            *)
EscalateAnyTime(e, escalator) ==
    /\ Status(e) = "Disputed"
    /\ escalator \in Parties(e)
    /\ dispute[e].created_at > 0
    /\ dispute[e].escalated_at = 0
    /\ dispute' = [dispute EXCEPT ![e] = [@ EXCEPT
                     !.escalated_at = now,
                     !.escalation_deadline = now + ESCALATION_GRACE_SECS]]
    /\ UNCHANGED <<now, escrow, vault, stray, tok, wallet, rep, bounds>>

(* escalate_dispute: once, by a party, after the arbiter's deadline.       *)
EscalateDispute(e, escalator) ==
    /\ Status(e) = "Disputed"
    /\ escalator \in Parties(e)
    /\ dispute[e].created_at > 0
    /\ now > dispute[e].resolution_deadline
    /\ dispute[e].escalated_at = 0
    /\ dispute' = [dispute EXCEPT ![e] = [@ EXCEPT
                     !.escalated_at = now,
                     !.escalation_deadline = now + ESCALATION_GRACE_SECS]]
    /\ UNCHANGED <<now, escrow, vault, stray, tok, wallet, rep, bounds>>

(* What an arbiter's decision and a protocol freeze have in common: the    *)
(* escrow ends, the decision is written into the dispute record, the vault *)
(* is paid out by it and both parties' reputations record a dispute.       *)
ApplyDecision(e, decision) ==
    /\ decision.kind = "SplitFunds" => SplitComputable(Pact(e), decision.beneficiary_bps)
    /\ SetStatus(e, IF decision = RefundToInitiator THEN "Refunded" ELSE "Claimed")
    /\ PayOut(e, DisputePayouts(Pact(e), EffectiveStake(e), decision))
    /\ ScoreBoth(e, "Disputed", DisputeDeltas(decision).initiator,
                 DisputeDeltas(decision).beneficiary)

(* resolve_dispute: the arbiter decides, before or after any deadline.     *)
ResolveDispute(e, decision) ==
    /\ Status(e) = "Disputed"
    /\ dispute[e].created_at > 0
    /\ ShowsUnlisted(Pact(e).arbiter)
    /\ decision # NoDecision
    /\ ApplyDecision(e, decision)
    /\ dispute' = [dispute EXCEPT ![e].arbiter_decision = decision]
    /\ UNCHANGED <<now, stray, wallet, bounds>>

(* Variant: an escalation_deadline of 0 passes for one that has expired.   *)
RefundUnescalated(e) ==
    /\ Status(e) = "Disputed"
    /\ now > dispute[e].escalation_deadline
    /\ ScoreBoth(e, "Disputed", REFUND_ESCALATED_DELTA, 0)
    /\ SetStatus(e, "Refunded")
    /\ PayOut(e, RefundPayouts(Pact(e)))
    /\ UNCHANGED <<now, dispute, stray, wallet, bounds>>

(* refund: cranked by anyone, on a locked pact past its time lock or on a  *)
(* dispute whose escalation grace period ran out without a decision.       *)
Refund(e) ==
    /\ \/ /\ Status(e) = "Locked"
          /\ now > escrow[e].time_lock_expires_at
          /\ ScoreBoth(e, "Cancelled", REFUND_UNRESOLVED_DELTA, REFUND_UNRESOLVED_DELTA)
       \/ /\ Status(e) = "Disputed"
          /\ dispute[e].escalated_at > 0
          /\ now > dispute[e].escalation_deadline
          /\ IF dispute[e].raised_by = Pact(e).initiator
             THEN ScoreBoth(e, "Disputed", REFUND_ESCALATED_DELTA, 0)
             ELSE ScoreBoth(e, "Disputed", 0, REFUND_ESCALATED_DELTA)
    /\ SetStatus(e, "Refunded")
    /\ PayOut(e, RefundPayouts(Pact(e)))
    /\ UNCHANGED <<now, dispute, stray, wallet, bounds>>

(* close_escrow: the initiator recovers the rent of a finished (or never   *)
(* funded) escrow.  The dispute record is an optional account: a caller    *)
(* that leaves it out leaves it allocated.                                 *)
CloseEscrow(e, with_record) ==
    /\ Status(e) \in Settled \cup {"Pending"}
    /\ vault[e] = 0
    /\ with_record => dispute[e].created_at > 0
    /\ escrow' = [escrow EXCEPT ![e] = AbsentEscrow]
    /\ dispute' = [dispute EXCEPT ![e] = IF with_record THEN NoDispute ELSE @]
    /\ UNCHANGED <<now, vault, stray, tok, wallet, rep, bounds>>

(* Variant: the party that is flagged is the one that gets the money.      *)
FreezeFavoursTheFlagged(e, flagged) ==
    IF Pact(e).initiator \in flagged
    THEN IF Pact(e).beneficiary \in flagged THEN SplitFunds(5000) ELSE RefundToInitiator
    ELSE ReleaseToBeneficiary

(* Variant: the even split is written as a percentage.                     *)
FreezeSplitsPercent(e, flagged) ==
    IF Pact(e).initiator \in flagged
    THEN IF Pact(e).beneficiary \in flagged THEN SplitFunds(50) ELSE ReleaseToBeneficiary
    ELSE RefundToInitiator

FreezeDecision(e, flagged) ==
    IF Pact(e).initiator \in flagged
    THEN IF Pact(e).beneficiary \in flagged THEN SplitFunds(5000) ELSE ReleaseToBeneficiary
    ELSE RefundToInitiator

(* protocol_freeze_pact: the protocol authority presents a blacklisted     *)
(* wallet of one party, or one of each, and settles on the spot.  The      *)
(* dispute record is created if it is not there; one that is there, live   *)
(* or left by an earlier escrow of the same id, keeps all but its decision. *)
ProtocolFreezePact(e, flagged) ==
    LET decision == FreezeDecision(e, flagged)
    IN  /\ Status(e) \in Held
        /\ flagged \in (SUBSET Parties(e)) \ {{}}
        /\ \A a \in flagged : ShowsBlacklisted(a)
        /\ ApplyDecision(e, decision)
        /\ dispute' = [dispute EXCEPT ![e] =
                         IF @.created_at = 0
                         THEN [NoDispute EXCEPT !.created_at = now,
                                                !.raised_by = ProtocolAuthority,
                                                !.resolution_deadline = now,
                                                !.arbiter_decision = decision]
                         ELSE [@ EXCEPT !.arbiter_decision = decision]]
        /\ UNCHANGED <<now, stray, wallet, bounds>>

(* Variant: a released pact can still be cancelled.                        *)
MutualCancelAfterRelease(e) ==
    /\ Status(e) \in {"Locked", "Released"}
    /\ ShowsUnlisted(Pact(e).initiator) /\ ShowsUnlisted(Pact(e).beneficiary)
    /\ SetStatus(e, "MutuallyCancelled")
    /\ PayOut(e, RefundPayouts(Pact(e)))
    /\ ScoreBoth(e, "Cancelled", MUTUAL_CANCEL_SCORE_DELTA, MUTUAL_CANCEL_SCORE_DELTA)
    /\ UNCHANGED <<now, dispute, stray, wallet, bounds>>

(* mutual_cancel_escrow: signed by both parties of a locked pact.  The     *)
(* dispute record, optional here too, has to be left out.                  *)
MutualCancelEscrow(e) ==
    /\ Status(e) = "Locked"
    /\ ShowsUnlisted(Pact(e).initiator) /\ ShowsUnlisted(Pact(e).beneficiary)
    /\ SetStatus(e, "MutuallyCancelled")
    /\ PayOut(e, RefundPayouts(Pact(e)))
    /\ ScoreBoth(e, "Cancelled", MUTUAL_CANCEL_SCORE_DELTA, MUTUAL_CANCEL_SCORE_DELTA)
    /\ UNCHANGED <<now, dispute, stray, wallet, bounds>>

(* cancel_pending_escrow: the initiator takes back a funded pact that was  *)
(* not locked in time.  Both reputation accounts are needed for it.        *)
CancelPendingEscrow(e) ==
    /\ Status(e) = "Funded"
    /\ now > escrow[e].time_lock_expires_at
    /\ SetStatus(e, "Refunded")
    /\ PayOut(e, CancelPayouts(Pact(e), escrow[e].beneficiary_staked))
    /\ ScoreBoth(e, "Cancelled", CANCEL_PENDING_DELTA, CANCEL_PENDING_DELTA)
    /\ UNCHANGED <<now, dispute, stray, wallet, bounds>>

--------------------------------------------------------------------------------
(* The surroundings: the clock, the token program, the registry program.   *)

(* The last instant at which a deadline of the escrow, as it stands, still *)
(* tells two instants apart.                                               *)
NextDeadline(e) ==
    CASE Status(e) \in {"Pending", "Funded", "Locked"} -> escrow[e].time_lock_expires_at
      [] Status(e) = "Released" -> escrow[e].dispute_window_ends_at
      [] Status(e) = "Disputed" ->
           IF dispute[e].escalated_at = 0 THEN dispute[e].resolution_deadline
           ELSE dispute[e].escalation_deadline
      [] OTHER -> 0

(* Bound: the clock runs until MaxStart and, past it, only while a recorded *)
(* deadline has yet to pass.                                               *)
Tick ==
    /\ now < MaxStart \/ \E e \in EscrowIds : now <= NextDeadline(e)
    /\ now' = now + 1
    /\ UNCHANGED <<escrow, dispute, vault, stray, tok, wallet, rep, bounds>>

(* Anyone can send tokens to a vault, which is an ordinary token account.  *)
Donate(e, a) ==
    /\ Status(e) # "Absent"
    /\ stray[e] < MaxStray /\ tok[a] > 0 /\ FitsU64(vault[e] + 1)
    /\ tok' = [tok EXCEPT ![a] = @ - 1]
    /\ vault' = [vault EXCEPT ![e] = @ + 1]
    /\ stray' = [stray EXCEPT ![e] = @ + 1]
    /\ UNCHANGED <<now, escrow, dispute, wallet, rep, bounds>>

(* set_agent_status: the admin moves a wallet from any status to any.      *)
SetAgentStatus(w, status) ==
    /\ admin_steps < MaxAdminSteps
    /\ wallet[w] # "Absent"
    /\ status \in WalletStatus \ {"Absent", wallet[w]}
    /\ wallet' = [wallet EXCEPT ![w] = status]
    /\ admin_steps' = admin_steps + 1
    /\ UNCHANGED <<now, escrow, dispute, vault, stray, tok, rep, creations>>

CloseAgentWallet(w) ==
    /\ admin_steps < MaxAdminSteps
    /\ wallet[w] = "DeregisterPending"
    /\ wallet' = [wallet EXCEPT ![w] = "Absent"]
    /\ admin_steps' = admin_steps + 1
    /\ UNCHANGED <<now, escrow, dispute, vault, stray, tok, rep, creations>>

RegisterAgentWallet(w) ==
    /\ wallet[w] = "Absent"
    /\ wallet' = [wallet EXCEPT ![w] = "Active"]
    /\ UNCHANGED <<now, escrow, dispute, vault, stray, tok, rep, bounds>>

InitReputation(a) ==
    /\ ~rep[a].exists
    /\ rep' = [rep EXCEPT ![a] = FreshReputation(now)]
    /\ UNCHANGED <<now, escrow, dispute, vault, stray, tok, wallet, bounds>>

--------------------------------------------------------------------------------
EscrowStep(e) ==
    \/ \E t \in Terms : InitializeEscrow(e, t)
    \/ DepositFunds(e)
    \/ StakeBeneficiary(e)
    \/ LockEscrow(e)
    \/ ReleaseEscrow(e)
    \/ ClaimReleased(e)
    \/ AutoRelease(e)
    \/ \E a \in Agents : RaiseDispute(e, a)
    \/ \E a \in Agents : EscalateDispute(e, a)
    \/ \E decision \in ArbiterDecision : ResolveDispute(e, decision)
    \/ Refund(e)
    \/ \E with_record \in BOOLEAN : CloseEscrow(e, with_record)
    \/ \E flagged \in SUBSET Agents : ProtocolFreezePact(e, flagged)
    \/ MutualCancelEscrow(e)
    \/ CancelPendingEscrow(e)
    \/ \E a \in Agents : Donate(e, a)

Next ==
    \/ \E e \in EscrowIds : EscrowStep(e)
    \/ Tick
    \/ \E w \in Wallets, status \in WalletStatus : SetAgentStatus(w, status)
    \/ \E w \in Wallets : CloseAgentWallet(w) \/ RegisterAgentWallet(w)
    \/ \E a \in Agents : InitReputation(a)

Spec == Init /\ [][Next]_vars

(* Fairness: the clock; someone who cranks expired pacts, which anyone may *)
(* and the party that gets the money will (not the keeper: see Keeper);    *)
(* and whoever is owed money and can collect it by a transaction of their  *)
(* own.                                                                    *)
Claimant(e) ==
    \/ ClaimReleased(e)
    \/ \E a \in Agents : EscalateDispute(e, a)
    \/ Status(e) = "Released" /\ \E w \in Wallets :
           AuthorityOf[w] = Pact(e).beneficiary /\ RegisterAgentWallet(w)

Fairness ==
    /\ WF_vars(Tick)
    /\ \A e \in EscrowIds :
         /\ WF_vars(AutoRelease(e) \/ Refund(e))
         /\ WF_vars(Claimant(e))
         /\ WF_vars(\E flagged \in SUBSET Agents : ProtocolFreezePact(e, flagged))

FairSpec == Spec /\ Fairness

--------------------------------------------------------------------------------
TypeOK ==
    /\ now \in Nat \ {0}
    /\ escrow \in [EscrowIds -> EscrowAccount]
    /\ \A e \in EscrowIds : Status(e) # "Absent" => Pact(e) \in Terms
    /\ dispute \in [EscrowIds -> DisputeRecord]
    /\ vault \in [EscrowIds -> Nat]
    /\ stray \in [EscrowIds -> Nat]
    /\ tok \in [Holders -> Nat]
    /\ wallet \in [Wallets -> WalletStatus]
    /\ rep \in [Agents -> ReputationAccount]
    /\ creations \in Nat
    /\ admin_steps \in Nat

(* What the vault owes to the two parties.                                 *)
Liability(e) ==
    IF Status(e) \in Held
    THEN Pact(e).escrow_amount + Pact(e).initiator_stake + EffectiveStake(e)
    ELSE 0

(* The vault always holds exactly what the parties are owed plus what      *)
(* strangers sent: no payout path takes too much or leaves a remainder,    *)
(* whichever status it starts from and whether or not it looks at          *)
(* beneficiary_staked.                                                     *)
VaultAccounted == \A e \in EscrowIds : vault[e] = Liability(e) + stray[e]

(* Once locked, a pact can be paid out by every path: the beneficiary's    *)
(* stake is in (refund, auto_release, claim_released and                   *)
(* mutual_cancel_escrow pay it back unchecked) and both reputation         *)
(* accounts every settlement must write exist.                             *)
CommittedPayable ==
    \A e \in EscrowIds : Status(e) \in Committed =>
        escrow[e].beneficiary_staked /\ HaveReputations(e)

(* The record a disputed escrow is judged by belongs to this dispute, not  *)
(* to an earlier escrow of the same id: raised by a party after the last   *)
(* release, undecided, with deadlines computed from this pact's terms.     *)
DisputeIsFresh ==
    \A e \in EscrowIds : Status(e) = "Disputed" =>
        LET d == dispute[e]
        IN  /\ d.raised_by \in Parties(e)
            /\ d.created_at \in 1..now /\ d.created_at >= escrow[e].released_at
            /\ d.arbiter_decision = NoDecision
            /\ d.resolution_deadline = d.created_at + Pact(e).dispute_deadline_secs
            /\ \/ d.escalated_at = 0
               \/ /\ d.escalated_at \in d.resolution_deadline + 1..now
                  /\ d.escalation_deadline = d.escalated_at + ESCALATION_GRACE_SECS

(* What an agent's score is away from neutral its pacts account for, decay *)
(* and clamping included: at best fulfilled or won, at worst unresolved or *)
(* lost.  Idling takes a score towards neutral and never past it.          *)
ScoresAreEarned ==
    \A a \in Agents : rep[a].exists =>
        LET disputed == rep[a].dispute_count
            others   == rep[a].total_pacts - disputed
        IN  /\ rep[a].score <= NEUTRAL_SCORE + others * FULFILLED_SCORE_DELTA
                                 + disputed * DISPUTE_WINNER_DELTA
            /\ rep[a].score >= NEUTRAL_SCORE + others * REFUND_UNRESOLVED_DELTA
                                 + disputed * DISPUTE_LOSER_DELTA

--------------------------------------------------------------------------------
Settles(e) == Status(e) \in Held /\ escrow'[e].status \notin Held
Gain(h)    == tok'[h] - tok[h]

(* A step that settles e and that reputations record as a dispute (an      *)
(* arbiter's decision, a fallback refund, a protocol freeze).              *)
CountsAsDispute(e) ==
    LET b == Pact(e).beneficiary
    IN  Settles(e) /\ rep'[b].dispute_count > rep[b].dispute_count

(* Each pact that ends is counted once in the history of each of its two   *)
(* parties, and nothing else moves anyone's count.                         *)
SettlementCountedOnce ==
    [][\A a \in Agents :
         rep'[a].total_pacts - rep[a].total_pacts
           = Cardinality({e \in EscrowIds : Settles(e) /\ a \in Parties(e)})]_vars

(* A settlement hands out all that was owed and nothing else; a party gets *)
(* less than its own stake only if the pact slashes and the decision went  *)
(* against it; the protocol earns only on a claim.                         *)
SettlementShares ==
    [][\A e \in EscrowIds : Settles(e) =>
         LET t == Pact(e)
             i == t.initiator
             b == t.beneficiary
             decision == dispute'[e].arbiter_decision
         IN  /\ Gain(i) + Gain(b) + Gain(ProtocolAuthority) = Liability(e)
             /\ Gain(b) < EffectiveStake(e) =>
                    t.slash_loser_stake /\ decision = RefundToInitiator
             /\ Gain(i) < t.initiator_stake =>
                    t.slash_loser_stake /\ decision = ReleaseToBeneficiary
             /\ Gain(ProtocolAuthority) > 0 =>
                    Status(e) = "Released" /\ ~CountsAsDispute(e)]_vars

(* A beneficiary is paid without a decision only after the whole dispute   *)
(* window has passed since the release, whether the initiator released the *)
(* pact or a crank at its expiry did.                                      *)
ClaimWaitsForWindow ==
    [][\A e \in EscrowIds :
         Settles(e) /\ escrow'[e].status = "Claimed" /\ ~CountsAsDispute(e) =>
             now > escrow[e].released_at + DISPUTE_WINDOW_SECS]_vars

(* A dispute the arbiter ignored falls back to a refund only after the     *)
(* arbiter's whole deadline, an escalation and the whole grace period.     *)
FallbackRefundWaits ==
    [][\A e \in EscrowIds :
         Settles(e) /\ Status(e) = "Disputed"
           /\ dispute'[e].arbiter_decision = NoDecision =>
             now > dispute[e].created_at + Pact(e).dispute_deadline_secs
                     + ESCALATION_GRACE_SECS]_vars

(* Outside a dispute, a freeze never costs a party that has no blacklisted *)
(* wallet anything: such a party comes out with all it put in and, for the *)
(* beneficiary, the payment.                                               *)
FreezeSparesTheUnlisted ==
    [][\A e \in EscrowIds :
         CountsAsDispute(e) /\ Status(e) # "Disputed" =>
             \A a \in Parties(e) : ~ShowsBlacklisted(a) =>
                 Gain(a) >= Pact(e).escrow_amount +
                     (IF a = Pact(e).initiator THEN Pact(e).initiator_stake
                      ELSE EffectiveStake(e))]_vars

StatusGraph ==
    {<<"Absent", "Pending">>, <<"Pending", "Funded">>, <<"Pending", "Absent">>,
     <<"Funded", "Locked">>, <<"Locked", "Released">>, <<"Locked", "Disputed">>,
     <<"Released", "Disputed">>, <<"Locked", "MutuallyCancelled">>,
     <<"Refunded", "Absent">>, <<"Claimed", "Absent">>, <<"MutuallyCancelled", "Absent">>}
        \cup (Held \X {"Refunded", "Claimed"})

(* Settled pacts stay settled: no instruction brings one back, and a vault *)
(* is only ever deleted from Pending or after its one settlement.          *)
FollowsStatusGraph ==
    [][\A e \in EscrowIds :
         escrow'[e].status # Status(e) =>
             <<Status(e), escrow'[e].status>> \in StatusGraph]_vars

(* Every locked pact is settled in the end, if someone keeps cranking, the *)
(* parties collect what they are owed and the authority acts on the        *)
(* wallets it has blacklisted.                                             *)
CommittedSettles ==
    \A e \in EscrowIds : Status(e) \in Committed ~> Status(e) \notin Committed
================================================================================
