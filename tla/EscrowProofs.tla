----------------------------- MODULE EscrowProofs ------------------------------
(***************************************************************************)
(* Theorems of the escrow program, for any number of escrows, any agents,  *)
(* terms, splits, windows and bounds.                                      *)
(***************************************************************************)
EXTENDS Escrow, TLAPS

Payouts == [beneficiary : Nat, initiator : Nat, fee : Nat]
Total(pay) == pay.fee + pay.beneficiary + pay.initiator

(* The inductive invariant.  VaultAccounted is not inductive alone: the    *)
(* payouts that return the beneficiary's stake unchecked are covered only  *)
(* because a committed pact is staked, and a deposit accounts for all that *)
(* is owed only because nothing is staked before it.                       *)
PactsAreValid ==
    \A e \in EscrowIds : Status(e) # "Absent" => ValidInitParams(Pact(e))

NothingStakedEarly ==
    \A e \in EscrowIds : Status(e) \in {"Absent", "Pending"} => ~escrow[e].beneficiary_staked

IInv ==
    /\ TypeOK
    /\ PactsAreValid
    /\ NothingStakedEarly
    /\ VaultAccounted
    /\ CommittedPayable

--------------------------------------------------------------------------------
(* Lemmas about the operators the model is built from.                     *)

(* The parts of a pact's terms are what TermsRecords says.                 *)
LEMMA TermsTyped ==
    ASSUME NEW t \in Terms
    PROVE  /\ t \in TermsRecords
           /\ t.initiator \in Agents /\ t.beneficiary \in Agents
           /\ t.escrow_amount \in Nat /\ t.initiator_stake \in Nat
           /\ t.beneficiary_stake \in Nat
           /\ t.lock_secs \in Int /\ t.dispute_deadline_secs \in Int
           /\ t.auto_release_on_expiry \in BOOLEAN /\ t.slash_loser_stake \in BOOLEAN
    BY EscrowAssumption DEF TermsRecords, Gates

(* A split never hands out a negative share, nor more than there is.       *)
LEMMA SplitShareBounds ==
    ASSUME NEW t \in Terms, NEW bps \in Nat, SplitComputable(t, bps)
    PROVE  SplitShare(t.escrow_amount, bps) \in 0..t.escrow_amount
<1> DEFINE product == t.escrow_amount * bps
<1>1. t.escrow_amount \in Nat
    BY TermsTyped
<1>2. product \in Nat
    BY <1>1
<1>3. product \div BPS_DENOMINATOR \in Nat
    <2> HIDE DEF product
    <2> QED BY SMT, <1>2 DEF BPS_DENOMINATOR
<1>4. SplitShare(t.escrow_amount, bps) <= t.escrow_amount
    BY DEF SplitComputable
<1> QED
    BY <1>1, <1>3, <1>4 DEF SplitShare

(* The claim's payouts are amounts, and together all that is owed.         *)
LEMMA ClaimPayoutsTotal ==
    ASSUME NEW t \in Terms
    PROVE  /\ ClaimPayouts(t) \in Payouts
           /\ Total(ClaimPayouts(t)) = t.escrow_amount + t.initiator_stake + t.beneficiary_stake
<1>1. t.escrow_amount \in Nat /\ t.initiator_stake \in Nat /\ t.beneficiary_stake \in Nat
    BY TermsTyped
<1>2. ClaimFee(t.escrow_amount) \in 0..t.escrow_amount
    BY SMT, <1>1 DEF ClaimFee, PROTOCOL_FEE_BPS, BPS_DENOMINATOR
<1> QED
    BY <1>1, <1>2 DEF ClaimPayouts, Payouts, Total

(* So are a refund's, provided the beneficiary's stake is in ...           *)
LEMMA RefundPayoutsTotal ==
    ASSUME NEW t \in Terms
    PROVE  /\ RefundPayouts(t) \in Payouts
           /\ Total(RefundPayouts(t)) = t.escrow_amount + t.initiator_stake + t.beneficiary_stake
    BY TermsTyped DEF RefundPayouts, Payouts, Total

(* ... a cancellation's, whether it is in or not ...                       *)
LEMMA CancelPayoutsTotal ==
    ASSUME NEW t \in Terms, NEW staked \in BOOLEAN
    PROVE  /\ CancelPayouts(t, staked) \in Payouts
           /\ Total(CancelPayouts(t, staked)) =
                t.escrow_amount + t.initiator_stake + (IF staked THEN t.beneficiary_stake ELSE 0)
    BY TermsTyped DEF CancelPayouts, RefundPayouts, Payouts, Total

(* ... and those of every decision of an arbiter or of a freeze.           *)
LEMMA DisputePayoutsTotal ==
    ASSUME NEW t \in Terms, NEW staked_amount \in Nat,
           NEW decision \in ArbiterDecision \ {NoDecision},
           decision.kind = "SplitFunds" => SplitComputable(t, decision.beneficiary_bps)
    PROVE  /\ DisputePayouts(t, staked_amount, decision) \in Payouts
           /\ Total(DisputePayouts(t, staked_amount, decision)) =
                t.escrow_amount + t.initiator_stake + staked_amount
<1> USE DEF Payouts, Total
<1>1. t.escrow_amount \in Nat /\ t.initiator_stake \in Nat /\ t.slash_loser_stake \in BOOLEAN
    BY TermsTyped
<1>2. CASE decision = ReleaseToBeneficiary
    BY <1>1, <1>2 DEF DisputePayouts, Slashed
<1>3. CASE decision = RefundToInitiator
    <2>1. decision # ReleaseToBeneficiary
        BY <1>3 DEF RefundToInitiator, ReleaseToBeneficiary
    <2> QED
        BY <1>1, <1>3, <2>1 DEF DisputePayouts, Slashed
<1>4. CASE decision # ReleaseToBeneficiary /\ decision # RefundToInitiator
    <2>1. PICK bps \in Splits \cup {5000} : decision = SplitFunds(bps)
        BY <1>4 DEF ArbiterDecision
    <2>2. decision.kind = "SplitFunds" /\ decision.beneficiary_bps = bps /\ bps \in Nat
        BY <2>1, EscrowAssumption DEF SplitFunds
    <2>3. SplitShare(t.escrow_amount, bps) \in 0..t.escrow_amount
        BY <2>2, SplitShareBounds
    <2>4. DisputePayouts(t, staked_amount, decision) =
            [beneficiary |-> SplitShare(t.escrow_amount, bps) + staked_amount,
             initiator   |-> t.escrow_amount - SplitShare(t.escrow_amount, bps)
                               + t.initiator_stake,
             fee         |-> 0]
        BY <1>4, <2>2 DEF DisputePayouts
    <2> QED
        BY <1>1, <2>3, <2>4
<1> QED
    BY <1>2, <1>3, <1>4

(* A million divides what is no more than d millions at most d times, and  *)
(* the truncating division gives a number and its negative the same        *)
(* quotient, up to the sign.                                               *)
LEMMA PrecisionQuotient ==
    ASSUME NEW x \in Nat, NEW d \in Nat, x <= d * DECAY_PRECISION
    PROVE  /\ x \div DECAY_PRECISION \in 0..d
           /\ TruncatingDiv(x, DECAY_PRECISION) = x \div DECAY_PRECISION
           /\ TruncatingDiv(-x, DECAY_PRECISION) = -(x \div DECAY_PRECISION)
<1>1. x \div DECAY_PRECISION \in 0..d
    BY SMT DEF DECAY_PRECISION
<1>2. TruncatingDiv(x, DECAY_PRECISION) = x \div DECAY_PRECISION
    BY SMT DEF TruncatingDiv
<1>3. TruncatingDiv(-x, DECAY_PRECISION) = -(x \div DECAY_PRECISION)
    BY SMT DEF TruncatingDiv, DECAY_PRECISION
<1> QED
    BY <1>1, <1>2, <1>3

LEMMA PrecisionPositive == DECAY_PRECISION \in Nat
    BY SMT DEF DECAY_PRECISION

(* Weighting a distance by a table entry and dividing with truncation      *)
(* neither enlarges it nor changes its sign, and treats both signs alike.  *)
LEMMA WeightedDistance ==
    ASSUME NEW d \in Nat, NEW m \in 0..DECAY_PRECISION
    PROVE  /\ d * m \in Nat /\ (-d) * m = -(d * m)
           /\ TruncatingDiv(d * m, DECAY_PRECISION) \in 0..d
           /\ TruncatingDiv((-d) * m, DECAY_PRECISION)
                 = -TruncatingDiv(d * m, DECAY_PRECISION)
<1>1. DECAY_PRECISION \in Nat /\ m \in Nat /\ m <= DECAY_PRECISION
    BY SMT, PrecisionPositive
<1>2. d * m \in Nat /\ (-d) * m = -(d * m) /\ d * m <= d * DECAY_PRECISION
    BY SMT, <1>1
<1> DEFINE product == d * m
<1>3. product \in Nat /\ product <= d * DECAY_PRECISION
    BY <1>2
<1> HIDE DEF product
<1>4. /\ TruncatingDiv(product, DECAY_PRECISION) \in 0..d
      /\ TruncatingDiv(-product, DECAY_PRECISION) = -TruncatingDiv(product, DECAY_PRECISION)
    BY <1>3, PrecisionQuotient
<1> QED
    BY <1>2, <1>4 DEF product

LEMMA DecayedDistance ==
    ASSUME NEW d \in Int, NEW m \in 0..DECAY_PRECISION
    PROVE  LET q == TruncatingDiv(d * m, DECAY_PRECISION)
           IN  /\ q \in Int
               /\ d >= 0 => q \in 0..d
               /\ d <= 0 => q \in d..0
               /\ TruncatingDiv((-d) * m, DECAY_PRECISION) = -q
<1> DEFINE q == TruncatingDiv(d * m, DECAY_PRECISION)
           opposite == TruncatingDiv((-d) * m, DECAY_PRECISION)
<1>1. CASE d >= 0
    <2>1. d \in Nat
        BY <1>1
    <2>2. q \in 0..d /\ opposite = -q
        BY <2>1, WeightedDistance
    <2> HIDE DEF q, opposite
    <2>3. q \in Int /\ (d <= 0 => q \in d..0)
        BY SMT, <1>1, <2>2
    <2> QED
        BY <2>2, <2>3 DEF q, opposite
<1>2. CASE d < 0
    <2> DEFINE c == -d
    <2>1. c \in Nat /\ d = -c /\ d <= 0 /\ ~(d >= 0)
        BY <1>2
    <2>2. /\ TruncatingDiv(c * m, DECAY_PRECISION) \in 0..c
          /\ TruncatingDiv((-c) * m, DECAY_PRECISION)
                = -TruncatingDiv(c * m, DECAY_PRECISION)
        <3> HIDE DEF c
        <3> QED BY <2>1, WeightedDistance
    <2>3. opposite \in 0..c /\ q = -opposite
        BY Zenon, <2>1, <2>2
    <2> HIDE DEF q, opposite, c
    <2>4. q \in Int /\ q \in d..0 /\ opposite = -q
        BY SMT, <2>1, <2>3
    <2> QED
        BY <2>1, <2>4 DEF q, opposite
<1> QED
    BY <1>1, <1>2

(* The days that index the table stay in it, whatever the two clocks say.  *)
LEMMA DecayFactor ==
    ASSUME NEW cursor \in Nat, NEW t \in Nat
    PROVE  DECAY_TABLE[DaysInactive(cursor, t)] \in 0..DECAY_PRECISION
<1>1. DaysInactive(cursor, t) \in 0..MAX_DECAY_DAYS
    BY ReputationAssumption DEF DaysInactive
<1> QED
    BY <1>1, ReputationAssumption

(* apply_decay, for every score, pair of timestamps and table of factors:  *)
(* an idle score moves towards neutral and never past it, and scores at    *)
(* the same distance above and below move alike (the division truncates).  *)
THEOREM DecayTowardsNeutral ==
    ASSUME NEW score \in 0..MAX_SCORE, NEW cursor \in Nat, NEW t \in Nat
    PROVE  LET decayed == ApplyDecay(score, cursor, t)
           IN  /\ decayed \in 0..MAX_SCORE
               /\ score >= NEUTRAL_SCORE => decayed \in NEUTRAL_SCORE..score
               /\ score <= NEUTRAL_SCORE => decayed \in score..NEUTRAL_SCORE
               /\ ApplyDecay(MAX_SCORE - score, cursor, t) = MAX_SCORE - decayed
<1> DEFINE days == DaysInactive(cursor, t)
           m == DECAY_TABLE[days]
           d == score - NEUTRAL_SCORE
           q == TruncatingDiv(d * m, DECAY_PRECISION)
           opposite == TruncatingDiv((-d) * m, DECAY_PRECISION)
<1>1. score \in Int /\ 0 <= score /\ score <= 10000 /\ d \in Int /\ d = score - 5000
    BY SMT DEF MAX_SCORE, NEUTRAL_SCORE
<1>2. m \in 0..DECAY_PRECISION
    BY DecayFactor
<1>3. (MAX_SCORE - score) - NEUTRAL_SCORE = -d
    BY SMT, <1>1 DEF MAX_SCORE, NEUTRAL_SCORE
<1>4. /\ ApplyDecay(score, cursor, t)
            = IF days = 0 THEN score ELSE Clamp(NEUTRAL_SCORE + q)
      /\ ApplyDecay(MAX_SCORE - score, cursor, t)
            = IF days = 0 THEN MAX_SCORE - score ELSE Clamp(NEUTRAL_SCORE + opposite)
    BY <1>3 DEF ApplyDecay
<1> HIDE DEF days, m, d
<1>5. /\ q \in Int /\ opposite = -q
      /\ d >= 0 => q \in 0..d
      /\ d <= 0 => q \in d..0
    <2>1. d \in Int
        BY <1>1
    <2> QED
        BY Zenon, <2>1, <1>2, DecayedDistance
<1> HIDE DEF q, opposite
<1>6. Clamp(NEUTRAL_SCORE + q) = 5000 + q /\ Clamp(NEUTRAL_SCORE + opposite) = 5000 - q
    BY SMT, <1>1, <1>5 DEF Clamp, MAX_SCORE, NEUTRAL_SCORE
<1> DEFINE decayed == ApplyDecay(score, cursor, t)
           mirrored == ApplyDecay(MAX_SCORE - score, cursor, t)
<1>7. /\ decayed = IF days = 0 THEN score ELSE 5000 + q
      /\ mirrored = IF days = 0 THEN 10000 - score ELSE 5000 - q
    BY <1>4, <1>6 DEF MAX_SCORE
<1> HIDE DEF decayed, mirrored
<1>8. /\ decayed \in Int /\ 0 <= decayed /\ decayed <= 10000
      /\ score >= 5000 => 5000 <= decayed /\ decayed <= score
      /\ score <= 5000 => score <= decayed /\ decayed <= 5000
      /\ mirrored = 10000 - decayed
    <2>1. CASE days = 0
        BY SMT, <1>1, <1>7, <2>1
    <2>2. CASE days # 0 /\ d >= 0
        <3>1. decayed = 5000 + q /\ mirrored = 5000 - q /\ q \in 0..d
            BY <1>5, <1>7, <2>2
        <3> QED
            BY SMT, <1>1, <2>2, <3>1
    <2>3. CASE days # 0 /\ d <= 0
        <3>1. decayed = 5000 + q /\ mirrored = 5000 - q /\ q \in d..0
            BY <1>5, <1>7, <2>3
        <3> QED
            BY SMT, <1>1, <2>3, <3>1
    <2> QED
        BY <1>1, <2>1, <2>2, <2>3
<1>9. /\ decayed \in 0..MAX_SCORE
      /\ score >= NEUTRAL_SCORE => decayed \in NEUTRAL_SCORE..score
      /\ score <= NEUTRAL_SCORE => decayed \in score..NEUTRAL_SCORE
      /\ mirrored = MAX_SCORE - decayed
    BY SMT, <1>1, <1>8 DEF MAX_SCORE, NEUTRAL_SCORE
<1> QED
    BY Zenon, <1>9 DEF decayed, mirrored

LEMMA ClampTyped ==
    ASSUME NEW x \in Int
    PROVE  Clamp(x) \in 0..MAX_SCORE
<1>1. MAX_SCORE \in Nat
    BY SMT DEF MAX_SCORE
<1> QED
    BY SMT, <1>1 DEF Clamp

LEMMA InitialScores == 0 \in 0..MAX_SCORE /\ NEUTRAL_SCORE \in 0..MAX_SCORE
    BY SMT DEF MAX_SCORE, NEUTRAL_SCORE

LEMMA UpdateReputationTyped ==
    ASSUME NEW r \in ReputationAccount, NEW outcome, NEW delta \in Int, NEW t \in Nat
    PROVE  /\ UpdateReputation(r, outcome, delta, t) \in ReputationAccount
           /\ UpdateReputation(r, outcome, delta, t).exists = r.exists
<1> DEFINE decayed == ApplyDecay(r.score, r.decay_cursor, t)
<1>1. decayed \in 0..MAX_SCORE
    BY DecayTowardsNeutral DEF ReputationAccount
<1>2. Clamp(decayed + delta) \in 0..MAX_SCORE
    <2> HIDE DEF decayed
    <2>1. decayed + delta \in Int
        BY SMT, <1>1 DEF MAX_SCORE
    <2> QED
        BY <2>1, ClampTyped
<1> HIDE DEF decayed
<1> DEFINE score  == Clamp(decayed + delta)
           pacts  == r.total_pacts + 1
           losses == IF outcome = "Disputed" THEN r.dispute_count + 1 ELSE r.dispute_count
           nonce  == r.nonce + 1
<1>3. score \in 0..MAX_SCORE /\ pacts \in Nat /\ losses \in Nat /\ nonce \in Nat
    BY <1>2 DEF ReputationAccount
<1>4. UpdateReputation(r, outcome, delta, t) =
        [r EXCEPT !.score = score, !.decay_cursor = t, !.total_pacts = pacts,
                  !.dispute_count = losses, !.nonce = nonce]
    BY DEF UpdateReputation, decayed
<1> HIDE DEF score, pacts, losses, nonce
<1>5. [r EXCEPT !.score = score, !.decay_cursor = t, !.total_pacts = pacts,
                !.dispute_count = losses, !.nonce = nonce] \in ReputationAccount
    BY Zenon, <1>3 DEF ReputationAccount
<1>6. [r EXCEPT !.score = score, !.decay_cursor = t, !.total_pacts = pacts,
                !.dispute_count = losses, !.nonce = nonce].exists = r.exists
    BY DEF ReputationAccount
<1> QED
    BY <1>4, <1>5, <1>6

--------------------------------------------------------------------------------
(* What the instructions write into an escrow or a dispute record is one.  *)
LEMMA StatusTyped ==
    ASSUME NEW r \in EscrowAccount, NEW status \in EscrowStatus
    PROVE  /\ [r EXCEPT !.status = status] \in EscrowAccount
           /\ [r EXCEPT !.status = status].status = status
           /\ [r EXCEPT !.status = status].terms = r.terms
           /\ [r EXCEPT !.status = status].beneficiary_staked = r.beneficiary_staked
    BY DEF EscrowAccount

LEMMA AbsentTyped == AbsentEscrow \in EscrowAccount
    BY DEF AbsentEscrow, EscrowAccount, EscrowStatus

LEMMA CreatedTyped ==
    ASSUME NEW t \in Terms, NEW expires \in Nat
    PROVE  /\ [AbsentEscrow EXCEPT !.status = "Pending", !.terms = t,
                                   !.time_lock_expires_at = expires] \in EscrowAccount
           /\ [AbsentEscrow EXCEPT !.status = "Pending", !.terms = t,
                                   !.time_lock_expires_at = expires].status = "Pending"
           /\ [AbsentEscrow EXCEPT !.status = "Pending", !.terms = t,
                                   !.time_lock_expires_at = expires].terms = t
           /\ [AbsentEscrow EXCEPT !.status = "Pending", !.terms = t,
                                   !.time_lock_expires_at = expires].beneficiary_staked = FALSE
<1> DEFINE r == [AbsentEscrow EXCEPT !.status = "Pending", !.terms = t,
                                     !.time_lock_expires_at = expires]
<1>1. AbsentEscrow \in EscrowAccount /\ ~AbsentEscrow.beneficiary_staked
    BY AbsentTyped DEF AbsentEscrow
<1>2. r \in EscrowAccount
    <2>1. "Pending" \in EscrowStatus /\ t \in Terms \cup {NoTerms}
        BY DEF EscrowStatus
    <2> QED
        BY Zenon, <1>1, <2>1 DEF EscrowAccount
<1>3. r.status = "Pending" /\ r.terms = t /\ r.beneficiary_staked = FALSE
    BY <1>1 DEF EscrowAccount
<1> QED
    BY <1>2, <1>3

LEMMA StakedTyped ==
    ASSUME NEW r \in EscrowAccount
    PROVE  /\ [r EXCEPT !.beneficiary_staked = TRUE] \in EscrowAccount
           /\ [r EXCEPT !.beneficiary_staked = TRUE].status = r.status
           /\ [r EXCEPT !.beneficiary_staked = TRUE].terms = r.terms
           /\ [r EXCEPT !.beneficiary_staked = TRUE].beneficiary_staked = TRUE
    BY DEF EscrowAccount

LEMMA ReleasedTyped ==
    ASSUME NEW r \in EscrowAccount, NEW released_at \in Nat, NEW ends_at \in Nat
    PROVE  /\ [r EXCEPT !.status = "Released", !.released_at = released_at,
                        !.dispute_window_ends_at = ends_at] \in EscrowAccount
           /\ [r EXCEPT !.status = "Released", !.released_at = released_at,
                        !.dispute_window_ends_at = ends_at].status = "Released"
           /\ [r EXCEPT !.status = "Released", !.released_at = released_at,
                        !.dispute_window_ends_at = ends_at].terms = r.terms
           /\ [r EXCEPT !.status = "Released", !.released_at = released_at,
                        !.dispute_window_ends_at = ends_at].beneficiary_staked
                = r.beneficiary_staked
<1>1. "Released" \in EscrowStatus
    BY DEF EscrowStatus
<1>2. [r EXCEPT !.status = "Released", !.released_at = released_at,
                !.dispute_window_ends_at = ends_at] \in EscrowAccount
    BY Zenon, <1>1 DEF EscrowAccount
<1> QED
    BY <1>2 DEF EscrowAccount

LEMMA NoDisputeTyped == NoDispute \in DisputeRecord
    BY DEF NoDispute, DisputeRecord, ArbiterDecision

LEMMA RaisedTyped ==
    ASSUME NEW created_at \in Nat, NEW raiser \in Agents \cup {ProtocolAuthority},
           NEW deadline \in Nat
    PROVE  [NoDispute EXCEPT !.created_at = created_at, !.raised_by = raiser,
                             !.resolution_deadline = deadline] \in DisputeRecord
<1>1. raiser \in Agents \cup {ProtocolAuthority, NoOne}
    OBVIOUS
<1> QED
    BY Zenon, <1>1, NoDisputeTyped DEF DisputeRecord

LEMMA FrozenTyped ==
    ASSUME NEW created_at \in Nat, NEW decision \in ArbiterDecision
    PROVE  [NoDispute EXCEPT !.created_at = created_at, !.raised_by = ProtocolAuthority,
                             !.resolution_deadline = created_at,
                             !.arbiter_decision = decision] \in DisputeRecord
<1>1. ProtocolAuthority \in Agents \cup {ProtocolAuthority, NoOne}
    OBVIOUS
<1> QED
    BY Zenon, <1>1, NoDisputeTyped DEF DisputeRecord

LEMMA EscalatedTyped ==
    ASSUME NEW d \in DisputeRecord, NEW at \in Nat, NEW deadline \in Nat
    PROVE  [d EXCEPT !.escalated_at = at, !.escalation_deadline = deadline] \in DisputeRecord
    BY Zenon DEF DisputeRecord

LEMMA DecidedTyped ==
    ASSUME NEW d \in DisputeRecord, NEW decision \in ArbiterDecision
    PROVE  [d EXCEPT !.arbiter_decision = decision] \in DisputeRecord
    BY DEF DisputeRecord

--------------------------------------------------------------------------------
(* The invariant across a step that rewrites one escrow.                   *)

(* What a vault owes under the escrow account r.                           *)
Owed(r) ==
    IF r.status \in Held
    THEN r.terms.escrow_amount + r.terms.initiator_stake
           + (IF r.beneficiary_staked THEN r.terms.beneficiary_stake ELSE 0)
    ELSE 0

(* An account is sound when the invariant holds of it, given reputations.  *)
Sound(r, reputation) ==
    /\ r \in EscrowAccount
    /\ r.status # "Absent" => r.terms \in Terms /\ ValidInitParams(r.terms)
    /\ r.status \in {"Absent", "Pending"} => ~r.beneficiary_staked
    /\ r.status \in Committed =>
         /\ r.beneficiary_staked
         /\ reputation[r.terms.initiator].exists
         /\ reputation[r.terms.beneficiary].exists

LEMMA OwedIsLiability ==
    /\ \A e \in EscrowIds : Liability(e) = Owed(escrow[e])
    /\ \A e \in EscrowIds : Liability(e)' = Owed(escrow'[e])
    BY DEF Liability, Owed, Status, Pact, EffectiveStake

(* The invariant is the soundness of every account, and the vaults' books. *)
LEMMA SoundAccounts ==
    /\ (/\ \A e \in EscrowIds : Status(e) # "Absent" => Pact(e) \in Terms
        /\ escrow \in [EscrowIds -> EscrowAccount]
        /\ PactsAreValid /\ NothingStakedEarly /\ CommittedPayable)
         <=> (/\ \A e \in EscrowIds : Sound(escrow[e], rep)
              /\ escrow \in [EscrowIds -> EscrowAccount])
    BY DEF Sound, PactsAreValid, NothingStakedEarly, CommittedPayable, Status, Pact,
           HaveReputations, Parties

LEMMA EscrowStepSound ==
    ASSUME IInv, NEW e \in EscrowIds, NEW r, Sound(r, rep'),
           escrow' = [escrow EXCEPT ![e] = r],
           \A a \in Agents : rep[a].exists => rep'[a].exists,
           vault' \in [EscrowIds -> Nat], stray' \in [EscrowIds -> Nat],
           vault'[e] = Owed(r) + stray'[e],
           \A f \in EscrowIds \ {e} : vault'[f] = vault[f] /\ stray'[f] = stray[f]
    PROVE  /\ escrow' \in [EscrowIds -> EscrowAccount]
           /\ (\A f \in EscrowIds : Status(f) # "Absent" => Pact(f) \in Terms)'
           /\ PactsAreValid' /\ NothingStakedEarly' /\ VaultAccounted' /\ CommittedPayable'
<1>1. /\ escrow \in [EscrowIds -> EscrowAccount]
      /\ \A f \in EscrowIds : Sound(escrow[f], rep)
    BY SoundAccounts DEF IInv, TypeOK
<1>2. /\ escrow' \in [EscrowIds -> EscrowAccount]
      /\ escrow'[e] = r
      /\ \A f \in EscrowIds \ {e} : escrow'[f] = escrow[f]
    BY <1>1 DEF Sound
<1>3. \A f \in EscrowIds : Sound(escrow'[f], rep')
    <2> SUFFICES ASSUME NEW f \in EscrowIds, f # e
                 PROVE  Sound(escrow'[f], rep')
        BY <1>2
    <2>1. Sound(escrow[f], rep) /\ escrow'[f] = escrow[f]
        BY <1>1, <1>2
    <2>2. escrow[f].status \in Committed => escrow[f].status # "Absent"
        BY DEF Committed
    <2>3. escrow[f].status \in Committed =>
            escrow[f].terms.initiator \in Agents /\ escrow[f].terms.beneficiary \in Agents
        BY <2>1, <2>2, TermsTyped DEF Sound
    <2> QED
        BY <2>1, <2>3 DEF Sound
<1>4. VaultAccounted'
    <2> SUFFICES ASSUME NEW f \in EscrowIds
                 PROVE  vault'[f] = Owed(escrow'[f]) + stray'[f]
        BY OwedIsLiability DEF VaultAccounted
    <2>1. CASE f = e
        BY <2>1, <1>2
    <2>2. CASE f # e
        <3>1. vault[f] = Owed(escrow[f]) + stray[f]
            BY OwedIsLiability DEF IInv, VaultAccounted
        <3> QED
            BY <3>1, <2>2, <1>2
    <2> QED
        BY <2>1, <2>2
<1> QED
    BY <1>2, <1>3, <1>4
       DEF Sound, PactsAreValid, NothingStakedEarly, CommittedPayable, Status, Pact,
           HaveReputations, Parties

(* The transfers of a payout leave amounts everywhere.                     *)
LEMMA PayOutTyped ==
    ASSUME TypeOK, NEW e \in EscrowIds, NEW pay \in Payouts,
           PayOut(e, pay)
    PROVE  /\ vault' \in [EscrowIds -> Nat]
           /\ vault'[e] = vault[e] - Total(pay)
           /\ \A f \in EscrowIds \ {e} : vault'[f] = vault[f]
           /\ tok' \in [Holders -> Nat]
<1>1. /\ vault \in [EscrowIds -> Nat]
      /\ tok \in [Holders -> Nat]
      /\ pay.fee \in Nat /\ pay.beneficiary \in Nat /\ pay.initiator \in Nat
    BY DEF TypeOK, Payouts
<1>2. vault[e] - Total(pay) \in Nat
    BY <1>1 DEF PayOut, Total
<1>3. vault' = [vault EXCEPT ![e] = vault[e] - Total(pay)]
    BY DEF PayOut, Total
<1>4. tok' \in [Holders -> Nat]
    BY <1>1 DEF PayOut
<1> QED
    BY <1>1, <1>2, <1>3, <1>4

(* Scoring both parties keeps reputation accounts, and their existence.    *)
LEMMA ScoreBothTyped ==
    ASSUME TypeOK, NEW e \in EscrowIds,
           NEW outcome, NEW initiator_delta \in Int, NEW beneficiary_delta \in Int,
           ScoreBoth(e, outcome, initiator_delta, beneficiary_delta)
    PROVE  /\ rep' \in [Agents -> ReputationAccount]
           /\ \A a \in Agents : rep'[a].exists = rep[a].exists
<1>1. rep \in [Agents -> ReputationAccount] /\ now \in Nat
    BY DEF TypeOK
<1>2. \A a \in Agents :
        /\ rep'[a] \in ReputationAccount
        /\ rep'[a].exists = rep[a].exists
    <2> SUFFICES ASSUME NEW a \in Agents
                 PROVE  /\ rep'[a] \in ReputationAccount
                        /\ rep'[a].exists = rep[a].exists
        OBVIOUS
    <2>1. rep[a] \in ReputationAccount
        BY <1>1
    <2>2. \A delta \in Int :
            /\ UpdateReputation(rep[a], outcome, delta, now) \in ReputationAccount
            /\ UpdateReputation(rep[a], outcome, delta, now).exists = rep[a].exists
        BY <1>1, <2>1, UpdateReputationTyped
    <2> QED
        BY <2>1, <2>2 DEF ScoreBoth
<1>3. rep' = [a \in Agents |-> rep'[a]]
    BY DEF ScoreBoth
<1> QED
    BY <1>2, <1>3

(* Every settlement, whatever the instruction, keeps the invariant: it     *)
(* pays out exactly what is owed and ends in a status that owes nothing.   *)
LEMMA SettlementKeepsInv ==
    ASSUME IInv, NEW e \in EscrowIds, Status(e) \in Held,
           NEW status \in Settled, SetStatus(e, status),
           NEW pay \in Payouts, Total(pay) = Liability(e), PayOut(e, pay),
           NEW outcome, NEW initiator_delta \in Int, NEW beneficiary_delta \in Int,
           ScoreBoth(e, outcome, initiator_delta, beneficiary_delta),
           dispute' \in [EscrowIds -> DisputeRecord],
           UNCHANGED <<now, stray, wallet, bounds>>
    PROVE  IInv'
<1> DEFINE r == [escrow[e] EXCEPT !.status = status]
<1>1. TypeOK /\ VaultAccounted /\ Status(e) # "Absent"
    BY DEF IInv, Held, Committed
<1>2. escrow[e] \in EscrowAccount /\ status \in EscrowStatus
      /\ status \notin Held /\ status \notin {"Absent", "Pending"} \cup Committed
    BY <1>1 DEF TypeOK, Settled, EscrowStatus, Held, Committed
<1>3. /\ r \in EscrowAccount /\ r.status = status /\ r.terms = escrow[e].terms
    BY <1>2, StatusTyped
<1>4. escrow' = [escrow EXCEPT ![e] = r]
    BY DEF SetStatus
<1> HIDE DEF r
<1>5. Sound(r, rep')
    BY <1>1, <1>2, <1>3 DEF Sound, IInv, TypeOK, PactsAreValid, Status, Pact
<1>6. /\ vault' \in [EscrowIds -> Nat] /\ vault'[e] = vault[e] - Total(pay)
      /\ \A f \in EscrowIds \ {e} : vault'[f] = vault[f]
      /\ tok' \in [Holders -> Nat]
    BY <1>1, PayOutTyped
<1>7. /\ rep' \in [Agents -> ReputationAccount]
      /\ \A a \in Agents : rep'[a].exists = rep[a].exists
    BY <1>1, ScoreBothTyped
<1>8. stray' = stray /\ stray \in [EscrowIds -> Nat] /\ vault \in [EscrowIds -> Nat]
    BY <1>1 DEF TypeOK
<1>9. vault'[e] = Owed(r) + stray'[e]
    <2>1. vault[e] = Total(pay) + stray[e]
        BY <1>1 DEF VaultAccounted
    <2>2. Owed(r) = 0
        BY <1>2, <1>3 DEF Owed
    <2>3. Total(pay) \in Nat
        BY DEF Payouts, Total
    <2> QED
        BY <1>6, <1>8, <2>1, <2>2, <2>3
<1>10. /\ escrow' \in [EscrowIds -> EscrowAccount]
       /\ (\A f \in EscrowIds : Status(f) # "Absent" => Pact(f) \in Terms)'
       /\ PactsAreValid' /\ NothingStakedEarly' /\ VaultAccounted' /\ CommittedPayable'
    BY <1>4, <1>5, <1>6, <1>7, <1>8, <1>9, EscrowStepSound
<1> QED
    BY <1>1, <1>6, <1>7, <1>8, <1>10 DEF IInv, TypeOK, bounds

--------------------------------------------------------------------------------
(* Each instruction keeps the invariant.                                   *)

LEMMA InitializeKeepsInv ==
    ASSUME IInv, NEW e \in EscrowIds, NEW t \in Terms, InitializeEscrow(e, t)
    PROVE  IInv'
<1> DEFINE expires == now + t.lock_secs
           r == [AbsentEscrow EXCEPT !.status = "Pending", !.terms = t,
                                     !.time_lock_expires_at = expires]
<1>1. TypeOK /\ VaultAccounted /\ Status(e) = "Absent" /\ ValidInitParams(t)
    BY DEF IInv, InitializeEscrow
<1>2. expires \in Nat
    BY <1>1, TermsTyped DEF TypeOK, ValidInitParams
<1>3. escrow' = [escrow EXCEPT ![e] = r]
    BY DEF InitializeEscrow
<1> HIDE DEF expires
<1>4. /\ r \in EscrowAccount /\ r.status = "Pending" /\ r.terms = t
      /\ r.beneficiary_staked = FALSE
    BY <1>2, CreatedTyped
<1> HIDE DEF r
<1>5. Sound(r, rep')
    BY <1>1, <1>4 DEF Sound, Committed
<1>6. UNCHANGED <<now, dispute, vault, stray, tok, wallet, rep, admin_steps>>
      /\ creations' = creations + 1
    BY DEF InitializeEscrow
<1>7. vault'[e] = Owed(r) + stray'[e]
    BY <1>1, <1>4, <1>6 DEF Owed, Held, Committed, VaultAccounted, Liability, TypeOK
<1>8. /\ escrow' \in [EscrowIds -> EscrowAccount]
      /\ (\A f \in EscrowIds : Status(f) # "Absent" => Pact(f) \in Terms)'
      /\ PactsAreValid' /\ NothingStakedEarly' /\ VaultAccounted' /\ CommittedPayable'
    BY <1>1, <1>3, <1>5, <1>6, <1>7, EscrowStepSound DEF TypeOK
<1> QED
    BY <1>1, <1>6, <1>8 DEF IInv, TypeOK

LEMMA DepositKeepsInv ==
    ASSUME IInv, NEW e \in EscrowIds, DepositFunds(e)
    PROVE  IInv'
<1> DEFINE r == [escrow[e] EXCEPT !.status = "Funded"]
           deposit_amount == Pact(e).escrow_amount + Pact(e).initiator_stake
           payer == Pact(e).initiator
<1>1. TypeOK /\ VaultAccounted /\ Status(e) = "Pending" /\ Sound(escrow[e], rep)
    BY SoundAccounts DEF IInv, DepositFunds, TypeOK
<1>2. Pact(e) \in Terms /\ ~escrow[e].beneficiary_staked
    BY <1>1 DEF Sound, Status, Pact
<1>3. /\ deposit_amount \in Nat /\ payer \in Holders
      /\ tok[payer] >= deposit_amount
    BY <1>2, TermsTyped DEF DepositFunds, Holders
<1>4. /\ r \in EscrowAccount /\ r.status = "Funded" /\ r.terms = Pact(e)
      /\ ~r.beneficiary_staked
    <2>1. escrow[e] \in EscrowAccount
        BY <1>1 DEF Sound
    <2>2. "Funded" \in EscrowStatus
        BY DEF EscrowStatus
    <2> QED
        BY <1>2, <2>1, <2>2, StatusTyped DEF Pact
<1>5. escrow' = [escrow EXCEPT ![e] = r]
    BY DEF DepositFunds, SetStatus
<1>6. /\ vault' = [vault EXCEPT ![e] = vault[e] + deposit_amount]
      /\ tok' = [tok EXCEPT ![payer] = tok[payer] - deposit_amount]
      /\ UNCHANGED <<now, dispute, stray, wallet, rep, bounds>>
    BY DEF DepositFunds
<1>7. Sound(r, rep')
    BY <1>1, <1>2, <1>4 DEF Sound, Status, Pact, Committed
<1>8. vault[e] = stray[e] /\ vault[e] \in Nat /\ stray[e] \in Nat
    BY <1>1 DEF VaultAccounted, Liability, Held, Committed, TypeOK
<1>9. Owed(r) = deposit_amount
    BY <1>2, <1>4, TermsTyped DEF Owed, Held
<1> HIDE DEF r, deposit_amount, payer
<1>10. /\ vault' \in [EscrowIds -> Nat] /\ vault'[e] = Owed(r) + stray'[e]
       /\ \A f \in EscrowIds \ {e} : vault'[f] = vault[f] /\ stray'[f] = stray[f]
       /\ stray' \in [EscrowIds -> Nat] /\ tok' \in [Holders -> Nat]
    BY <1>1, <1>3, <1>6, <1>8, <1>9 DEF TypeOK
<1>11. /\ escrow' \in [EscrowIds -> EscrowAccount]
       /\ (\A f \in EscrowIds : Status(f) # "Absent" => Pact(f) \in Terms)'
       /\ PactsAreValid' /\ NothingStakedEarly' /\ VaultAccounted' /\ CommittedPayable'
    BY <1>5, <1>6, <1>7, <1>10, EscrowStepSound
<1> QED
    BY <1>1, <1>6, <1>10, <1>11 DEF IInv, TypeOK, bounds

LEMMA StakeKeepsInv ==
    ASSUME IInv, NEW e \in EscrowIds, StakeBeneficiary(e)
    PROVE  IInv'
<1> DEFINE r == [escrow[e] EXCEPT !.beneficiary_staked = TRUE]
           stake == Pact(e).beneficiary_stake
           payer == Pact(e).beneficiary
<1>1. TypeOK /\ VaultAccounted /\ Status(e) = "Funded" /\ Sound(escrow[e], rep)
    BY SoundAccounts DEF IInv, StakeBeneficiary, TypeOK
<1>2. Pact(e) \in Terms /\ ~escrow[e].beneficiary_staked
    BY <1>1 DEF Sound, Status, Pact, StakeBeneficiary
<1>3. stake \in Nat /\ payer \in Holders /\ tok[payer] >= stake
    BY <1>2, TermsTyped DEF StakeBeneficiary, Holders
<1>4. /\ r \in EscrowAccount /\ r.status = "Funded" /\ r.terms = Pact(e)
      /\ r.beneficiary_staked
    BY <1>1, StakedTyped DEF Sound, Status, Pact
<1>5. escrow' = [escrow EXCEPT ![e] = r]
    BY DEF StakeBeneficiary
<1>6. /\ vault' = [vault EXCEPT ![e] = vault[e] + stake]
      /\ tok' = [tok EXCEPT ![payer] = tok[payer] - stake]
      /\ UNCHANGED <<now, dispute, stray, wallet, rep, bounds>>
    BY DEF StakeBeneficiary
<1>7. Sound(r, rep')
    BY <1>1, <1>2, <1>4 DEF Sound, Status, Pact, Committed
<1>8. /\ vault[e] = Pact(e).escrow_amount + Pact(e).initiator_stake + stray[e]
      /\ vault[e] \in Nat /\ stray[e] \in Nat
    BY <1>1, <1>2, TermsTyped DEF VaultAccounted, Liability, EffectiveStake, Held, TypeOK
<1>9. Owed(r) = Pact(e).escrow_amount + Pact(e).initiator_stake + stake
    BY <1>2, <1>4, TermsTyped DEF Owed, Held
<1>10. Pact(e).escrow_amount \in Nat /\ Pact(e).initiator_stake \in Nat
    BY <1>2, TermsTyped
<1> HIDE DEF r, stake, payer
<1>11. /\ vault' \in [EscrowIds -> Nat] /\ vault'[e] = Owed(r) + stray'[e]
       /\ \A f \in EscrowIds \ {e} : vault'[f] = vault[f] /\ stray'[f] = stray[f]
       /\ stray' \in [EscrowIds -> Nat] /\ tok' \in [Holders -> Nat]
    BY <1>1, <1>3, <1>6, <1>8, <1>9, <1>10 DEF TypeOK
<1>12. /\ escrow' \in [EscrowIds -> EscrowAccount]
       /\ (\A f \in EscrowIds : Status(f) # "Absent" => Pact(f) \in Terms)'
       /\ PactsAreValid' /\ NothingStakedEarly' /\ VaultAccounted' /\ CommittedPayable'
    BY <1>5, <1>6, <1>7, <1>11, EscrowStepSound
<1> QED
    BY <1>1, <1>6, <1>11, <1>12 DEF IInv, TypeOK, bounds

(* A move from one held status to a committed one, with no money moved:    *)
(* what lock_escrow, the two releases and raise_dispute do.                *)
LEMMA CommitmentKeepsInv ==
    ASSUME IInv, NEW e \in EscrowIds, Status(e) \in Held,
           escrow[e].beneficiary_staked, HaveReputations(e),
           NEW r \in EscrowAccount, r.status \in Committed,
           r.terms = escrow[e].terms, r.beneficiary_staked = escrow[e].beneficiary_staked,
           escrow' = [escrow EXCEPT ![e] = r],
           dispute' \in [EscrowIds -> DisputeRecord],
           UNCHANGED <<now, vault, stray, tok, wallet, rep, bounds>>
    PROVE  IInv'
<1>1. TypeOK /\ VaultAccounted /\ Sound(escrow[e], rep) /\ Status(e) # "Absent"
    BY SoundAccounts DEF IInv, TypeOK, Held, Committed
<1>2. r.status \notin {"Absent", "Pending"} /\ r.status \in Held
    BY DEF Held, Committed
<1>3. Sound(r, rep')
    BY <1>1, <1>2 DEF Sound, Status, Pact, HaveReputations, Parties
<1>4. Owed(r) = Owed(escrow[e])
    BY <1>2 DEF Owed, Status
<1>5. vault'[e] = Owed(r) + stray'[e]
    BY <1>1, <1>4, OwedIsLiability DEF VaultAccounted
<1>6. /\ escrow' \in [EscrowIds -> EscrowAccount]
      /\ (\A f \in EscrowIds : Status(f) # "Absent" => Pact(f) \in Terms)'
      /\ PactsAreValid' /\ NothingStakedEarly' /\ VaultAccounted' /\ CommittedPayable'
    BY <1>1, <1>3, <1>5, EscrowStepSound DEF TypeOK
<1> QED
    BY <1>1, <1>6 DEF IInv, TypeOK, bounds

LEMMA LockKeepsInv ==
    ASSUME IInv, NEW e \in EscrowIds, LockEscrow(e)
    PROVE  IInv'
<1> DEFINE r == [escrow[e] EXCEPT !.status = "Locked"]
<1>1. TypeOK /\ Status(e) \in Held /\ escrow[e].beneficiary_staked
    BY DEF IInv, LockEscrow, Held
<1>2. HaveReputations(e)
    BY DEF LockEscrow, MeetsGate, HaveReputations, Parties
<1>3. /\ r \in EscrowAccount /\ r.status = "Locked" /\ r.terms = escrow[e].terms
      /\ r.beneficiary_staked = escrow[e].beneficiary_staked
    <2>1. escrow[e] \in EscrowAccount
        BY <1>1 DEF TypeOK
    <2>2. "Locked" \in EscrowStatus
        BY DEF EscrowStatus
    <2> QED
        BY <2>1, <2>2, StatusTyped
<1>4. escrow' = [escrow EXCEPT ![e] = r]
    BY DEF LockEscrow, SetStatus
<1> HIDE DEF r
<1>5. UNCHANGED <<now, dispute, vault, stray, tok, wallet, rep, bounds>>
    BY DEF LockEscrow
<1>6. dispute' \in [EscrowIds -> DisputeRecord] /\ r.status \in Committed
    BY <1>1, <1>3, <1>5 DEF TypeOK, Committed
<1> QED
    BY <1>1, <1>2, <1>3, <1>4, <1>5, <1>6, CommitmentKeepsInv

(* What release_escrow and the timed branch of auto_release have in common.*)
LEMMA ReleaseKeepsInv ==
    ASSUME IInv, NEW e \in EscrowIds, Status(e) = "Locked", Release(e),
           UNCHANGED <<now, dispute, vault, stray, tok, wallet, rep, bounds>>
    PROVE  IInv'
<1> DEFINE ends_at == now + DISPUTE_WINDOW_SECS
           account == escrow[e]
           r == [account EXCEPT !.status = "Released", !.released_at = now,
                                !.dispute_window_ends_at = ends_at]
<1>1. TypeOK /\ Status(e) \in Held /\ escrow[e].beneficiary_staked /\ HaveReputations(e)
    BY DEF IInv, Held, Committed, CommittedPayable
<1>2. ends_at \in Nat /\ now \in Nat /\ account \in EscrowAccount
    BY <1>1, EscrowAssumption DEF TypeOK
<1>3. escrow' = [escrow EXCEPT ![e] = r]
    BY DEF Release
<1> HIDE DEF ends_at, account
<1>4. /\ r \in EscrowAccount /\ r.status = "Released" /\ r.terms = account.terms
      /\ r.beneficiary_staked = account.beneficiary_staked
    BY <1>2, ReleasedTyped, ZenonT(40)
<1> HIDE DEF r
<1> USE DEF account
<1>5. dispute' \in [EscrowIds -> DisputeRecord] /\ r.status \in Committed
    BY <1>1, <1>4 DEF TypeOK, Committed
<1> QED
    BY <1>1, <1>3, <1>4, <1>5, CommitmentKeepsInv

LEMMA RaiseKeepsInv ==
    ASSUME IInv, NEW e \in EscrowIds, NEW raiser \in Agents, RaiseDispute(e, raiser)
    PROVE  IInv'
<1> DEFINE deadline == now + Pact(e).dispute_deadline_secs
           r == [escrow[e] EXCEPT !.status = "Disputed"]
           d == [NoDispute EXCEPT !.created_at = now, !.raised_by = raiser,
                                  !.resolution_deadline = deadline]
<1>1. /\ TypeOK /\ PactsAreValid /\ Status(e) \in Held /\ Status(e) # "Absent"
      /\ escrow[e].beneficiary_staked /\ HaveReputations(e)
    BY DEF IInv, Held, Committed, CommittedPayable, RaiseDispute
<1>2. deadline \in Nat /\ now \in Nat
    BY <1>1, TermsTyped, EscrowAssumption DEF TypeOK, PactsAreValid, ValidInitParams
<1>3. escrow' = [escrow EXCEPT ![e] = r] /\ dispute' = [dispute EXCEPT ![e] = d]
    BY DEF RaiseDispute, SetStatus
<1> HIDE DEF deadline
<1>4. d \in DisputeRecord
    BY <1>2, RaisedTyped
<1>5. /\ r \in EscrowAccount /\ r.status = "Disputed" /\ r.terms = escrow[e].terms
      /\ r.beneficiary_staked = escrow[e].beneficiary_staked
    <2>1. escrow[e] \in EscrowAccount
        BY <1>1 DEF TypeOK
    <2>2. "Disputed" \in EscrowStatus
        BY DEF EscrowStatus
    <2> QED
        BY <2>1, <2>2, StatusTyped
<1> HIDE DEF r, d
<1>6. dispute' \in [EscrowIds -> DisputeRecord] /\ r.status \in Committed
    BY <1>1, <1>3, <1>4, <1>5 DEF TypeOK, Committed
<1>7. UNCHANGED <<now, vault, stray, tok, wallet, rep, bounds>>
    BY DEF RaiseDispute
<1> QED
    BY <1>1, <1>3, <1>5, <1>6, <1>7, CommitmentKeepsInv

(* A step that leaves every escrow and every vault alone.                  *)
LEMMA OutsideKeepsInv ==
    ASSUME IInv, UNCHANGED <<escrow, vault, stray>>,
           \A a \in Agents : rep[a].exists => rep'[a].exists, TypeOK'
    PROVE  IInv'
<1>1. \A e \in EscrowIds : Status(e) \in Committed => Parties(e) \subseteq Agents
    BY TermsTyped DEF IInv, TypeOK, Committed, Parties
<1>2. PactsAreValid' /\ NothingStakedEarly' /\ VaultAccounted'
    BY DEF IInv, PactsAreValid, NothingStakedEarly, VaultAccounted, Liability,
           EffectiveStake, Status, Pact
<1>3. CommittedPayable'
    BY <1>1 DEF IInv, CommittedPayable, HaveReputations, Parties, Status, Pact
<1> QED
    BY <1>2, <1>3 DEF IInv

LEMMA EscalateKeepsInv ==
    ASSUME IInv, NEW e \in EscrowIds, NEW escalator \in Agents, EscalateDispute(e, escalator)
    PROVE  IInv'
<1> DEFINE deadline == now + ESCALATION_GRACE_SECS
           d == [dispute[e] EXCEPT !.escalated_at = now, !.escalation_deadline = deadline]
<1>1. TypeOK /\ UNCHANGED <<now, escrow, vault, stray, tok, wallet, rep, bounds>>
    BY DEF IInv, EscalateDispute
<1>2. deadline \in Nat /\ now \in Nat /\ dispute[e] \in DisputeRecord
    BY <1>1, EscrowAssumption DEF TypeOK
<1>3. dispute' = [dispute EXCEPT ![e] = d]
    BY DEF EscalateDispute
<1> HIDE DEF deadline
<1>4. d \in DisputeRecord
    BY <1>2, EscalatedTyped
<1> HIDE DEF d
<1>5. dispute' \in [EscrowIds -> DisputeRecord]
    BY <1>1, <1>3, <1>4 DEF TypeOK
<1> QED
    BY <1>1, <1>5, OutsideKeepsInv DEF TypeOK, bounds, Status, Pact

LEMMA CloseKeepsInv ==
    ASSUME IInv, NEW e \in EscrowIds, NEW with_record \in BOOLEAN, CloseEscrow(e, with_record)
    PROVE  IInv'
<1>1. /\ TypeOK /\ VaultAccounted /\ Status(e) \in Settled \cup {"Pending"}
      /\ vault[e] = 0
    BY DEF IInv, CloseEscrow
<1>2. /\ escrow' = [escrow EXCEPT ![e] = AbsentEscrow]
      /\ UNCHANGED <<now, vault, stray, tok, wallet, rep, bounds>>
    BY DEF CloseEscrow
<1>3. dispute' \in [EscrowIds -> DisputeRecord]
    BY <1>1, NoDisputeTyped DEF CloseEscrow, TypeOK
<1>4. Sound(AbsentEscrow, rep') /\ Owed(AbsentEscrow) = 0
    BY AbsentTyped DEF Sound, AbsentEscrow, Owed, Held, Committed
<1>5. vault'[e] = Owed(AbsentEscrow) + stray'[e]
    BY <1>1, <1>2, <1>4 DEF VaultAccounted, Liability, Settled, Held, Committed, TypeOK
<1>6. /\ escrow' \in [EscrowIds -> EscrowAccount]
      /\ (\A f \in EscrowIds : Status(f) # "Absent" => Pact(f) \in Terms)'
      /\ PactsAreValid' /\ NothingStakedEarly' /\ VaultAccounted' /\ CommittedPayable'
    BY <1>1, <1>2, <1>4, <1>5, EscrowStepSound DEF TypeOK
<1> QED
    BY <1>1, <1>2, <1>3, <1>6 DEF IInv, TypeOK, bounds

LEMMA DonateKeepsInv ==
    ASSUME IInv, NEW e \in EscrowIds, NEW a \in Agents, Donate(e, a)
    PROVE  IInv'
<1>1. TypeOK /\ VaultAccounted
    BY DEF IInv
<1>2. /\ vault' = [vault EXCEPT ![e] = vault[e] + 1]
      /\ stray' = [stray EXCEPT ![e] = stray[e] + 1]
      /\ tok' = [tok EXCEPT ![a] = tok[a] - 1] /\ tok[a] > 0
      /\ UNCHANGED <<now, escrow, dispute, wallet, rep, bounds>>
    BY DEF Donate
<1>3. TypeOK'
    BY <1>1, <1>2 DEF TypeOK, bounds, Status, Pact, Holders
<1>4. VaultAccounted'
    <2> SUFFICES ASSUME NEW f \in EscrowIds
                 PROVE  vault'[f] = Liability(f) + stray'[f]
        BY <1>2, OwedIsLiability DEF VaultAccounted
    <2>1. vault[f] = Liability(f) + stray[f] /\ vault[f] \in Nat /\ stray[f] \in Nat
        BY <1>1 DEF VaultAccounted, TypeOK
    <2>2. Liability(f) \in Nat
        BY <1>1, TermsTyped DEF Liability, EffectiveStake, TypeOK, Held, Committed
    <2> QED
        BY <1>1, <1>2, <2>1, <2>2 DEF TypeOK
<1> QED
    BY <1>2, <1>3, <1>4
       DEF IInv, PactsAreValid, NothingStakedEarly, CommittedPayable, HaveReputations,
           Parties, Status, Pact

LEMMA ClaimKeepsInv ==
    ASSUME IInv, NEW e \in EscrowIds, ClaimReleased(e)
    PROVE  IInv'
<1>1. /\ Status(e) \in Held /\ Pact(e) \in Terms /\ escrow[e].beneficiary_staked
      /\ dispute \in [EscrowIds -> DisputeRecord]
    BY DEF ClaimReleased, IInv, TypeOK, CommittedPayable, Held, Committed
<1>2. /\ ClaimPayouts(Pact(e)) \in Payouts
      /\ Total(ClaimPayouts(Pact(e))) = Liability(e)
    BY <1>1, ClaimPayoutsTotal DEF Liability, EffectiveStake
<1>3. "Claimed" \in Settled /\ FULFILLED_SCORE_DELTA \in Int
    BY DEF Settled, FULFILLED_SCORE_DELTA
<1>4. /\ SetStatus(e, "Claimed") /\ PayOut(e, ClaimPayouts(Pact(e)))
      /\ ScoreBoth(e, "Fulfilled", FULFILLED_SCORE_DELTA, FULFILLED_SCORE_DELTA)
      /\ UNCHANGED <<now, dispute, stray, wallet, bounds>>
    BY DEF ClaimReleased
<1> QED
    BY <1>1, <1>2, <1>3, <1>4, SettlementKeepsInv

(* The three instructions that return a committed pact to where it came    *)
(* from: refund, the untimed branch of auto_release, mutual_cancel_escrow. *)
LEMMA ReturnKeepsInv ==
    ASSUME IInv, NEW e \in EscrowIds, Status(e) \in Committed,
           NEW status \in Settled, SetStatus(e, status), PayOut(e, RefundPayouts(Pact(e))),
           NEW outcome, NEW initiator_delta \in Int, NEW beneficiary_delta \in Int,
           ScoreBoth(e, outcome, initiator_delta, beneficiary_delta),
           UNCHANGED <<now, dispute, stray, wallet, bounds>>
    PROVE  IInv'
<1>1. /\ Status(e) \in Held /\ Pact(e) \in Terms /\ escrow[e].beneficiary_staked
      /\ dispute \in [EscrowIds -> DisputeRecord]
    BY DEF IInv, TypeOK, CommittedPayable, Held, Committed
<1>2. /\ RefundPayouts(Pact(e)) \in Payouts
      /\ Total(RefundPayouts(Pact(e))) = Liability(e)
    BY <1>1, RefundPayoutsTotal DEF Liability, EffectiveStake
<1> QED
    BY <1>1, <1>2, SettlementKeepsInv

LEMMA AutoReleaseKeepsInv ==
    ASSUME IInv, NEW e \in EscrowIds, AutoRelease(e)
    PROVE  IInv'
<1>1. Status(e) = "Locked" /\ UNCHANGED <<now, dispute, stray, wallet, bounds>>
    BY DEF AutoRelease
<1>2. CASE Release(e) /\ UNCHANGED <<vault, tok, rep>>
    BY <1>1, <1>2, ReleaseKeepsInv
<1>3. CASE /\ SetStatus(e, "Refunded") /\ PayOut(e, RefundPayouts(Pact(e)))
           /\ ScoreBoth(e, "Cancelled", AUTO_REFUND_UNRESOLVED_DELTA,
                        AUTO_REFUND_UNRESOLVED_DELTA)
    <2>1. /\ Status(e) \in Committed /\ "Refunded" \in Settled
          /\ AUTO_REFUND_UNRESOLVED_DELTA \in Int
        BY <1>1 DEF Committed, Settled, AUTO_REFUND_UNRESOLVED_DELTA
    <2> QED
        BY <1>1, <1>3, <2>1, ReturnKeepsInv
<1> QED
    BY <1>2, <1>3 DEF AutoRelease

LEMMA RefundKeepsInv ==
    ASSUME IInv, NEW e \in EscrowIds, Refund(e)
    PROVE  IInv'
<1>1. /\ Status(e) \in Committed /\ "Refunded" \in Settled
      /\ REFUND_UNRESOLVED_DELTA \in Int /\ REFUND_ESCALATED_DELTA \in Int
    BY DEF Refund, Committed, Settled, REFUND_UNRESOLVED_DELTA, REFUND_ESCALATED_DELTA
<1>2. /\ SetStatus(e, "Refunded") /\ PayOut(e, RefundPayouts(Pact(e)))
      /\ UNCHANGED <<now, dispute, stray, wallet, bounds>>
    BY DEF Refund
<1>3. PICK outcome \in {"Cancelled", "Disputed"}, di \in Int, db \in Int :
        ScoreBoth(e, outcome, di, db)
    BY <1>1 DEF Refund
<1> QED
    BY <1>1, <1>2, <1>3, ReturnKeepsInv

LEMMA MutualCancelKeepsInv ==
    ASSUME IInv, NEW e \in EscrowIds, MutualCancelEscrow(e)
    PROVE  IInv'
<1>1. /\ Status(e) \in Committed /\ "MutuallyCancelled" \in Settled
      /\ MUTUAL_CANCEL_SCORE_DELTA \in Int
    BY DEF MutualCancelEscrow, Committed, Settled, MUTUAL_CANCEL_SCORE_DELTA
<1>2. /\ SetStatus(e, "MutuallyCancelled") /\ PayOut(e, RefundPayouts(Pact(e)))
      /\ ScoreBoth(e, "Cancelled", MUTUAL_CANCEL_SCORE_DELTA, MUTUAL_CANCEL_SCORE_DELTA)
      /\ UNCHANGED <<now, dispute, stray, wallet, bounds>>
    BY DEF MutualCancelEscrow
<1> QED
    BY <1>1, <1>2, ReturnKeepsInv

LEMMA CancelPendingKeepsInv ==
    ASSUME IInv, NEW e \in EscrowIds, CancelPendingEscrow(e)
    PROVE  IInv'
<1> DEFINE pay == CancelPayouts(Pact(e), escrow[e].beneficiary_staked)
<1>1. /\ Status(e) \in Held /\ Pact(e) \in Terms /\ escrow[e].beneficiary_staked \in BOOLEAN
      /\ dispute \in [EscrowIds -> DisputeRecord]
    BY DEF CancelPendingEscrow, IInv, TypeOK, Held, EscrowAccount
<1>2. pay \in Payouts /\ Total(pay) = Liability(e)
    BY <1>1, CancelPayoutsTotal DEF Liability, EffectiveStake
<1>3. "Refunded" \in Settled /\ CANCEL_PENDING_DELTA \in Int
    BY DEF Settled, CANCEL_PENDING_DELTA
<1>4. /\ SetStatus(e, "Refunded") /\ PayOut(e, pay)
      /\ ScoreBoth(e, "Cancelled", CANCEL_PENDING_DELTA, CANCEL_PENDING_DELTA)
      /\ UNCHANGED <<now, dispute, stray, wallet, bounds>>
    BY DEF CancelPendingEscrow
<1> HIDE DEF pay
<1> QED
    BY <1>1, <1>2, <1>3, <1>4, SettlementKeepsInv

(* An arbiter's decision or a freeze, from whatever held status.           *)
LEMMA DecisionKeepsInv ==
    ASSUME IInv, NEW e \in EscrowIds, Status(e) \in Held,
           NEW decision \in ArbiterDecision \ {NoDecision}, ApplyDecision(e, decision),
           dispute' \in [EscrowIds -> DisputeRecord],
           UNCHANGED <<now, stray, wallet, bounds>>
    PROVE  IInv'
<1> DEFINE pay == DisputePayouts(Pact(e), EffectiveStake(e), decision)
           status == IF decision = RefundToInitiator THEN "Refunded" ELSE "Claimed"
           di == DisputeDeltas(decision).initiator
           db == DisputeDeltas(decision).beneficiary
<1>1. Pact(e) \in Terms /\ EffectiveStake(e) \in Nat
    BY TermsTyped DEF IInv, TypeOK, Held, Committed, EffectiveStake
<1>2. decision.kind = "SplitFunds" => SplitComputable(Pact(e), decision.beneficiary_bps)
    BY DEF ApplyDecision
<1>3. pay \in Payouts /\ Total(pay) = Liability(e)
    BY <1>1, <1>2, DisputePayoutsTotal DEF Liability
<1>4. status \in Settled /\ di \in Int /\ db \in Int
    BY DEF Settled, DisputeDeltas, DISPUTE_LOSER_DELTA, DISPUTE_WINNER_DELTA,
           DISPUTE_SPLIT_DELTA
<1>5. SetStatus(e, status) /\ PayOut(e, pay) /\ ScoreBoth(e, "Disputed", di, db)
    BY DEF ApplyDecision
<1> HIDE DEF pay, status, di, db
<1> QED
    BY <1>3, <1>4, <1>5, SettlementKeepsInv

LEMMA ResolveKeepsInv ==
    ASSUME IInv, NEW e \in EscrowIds, NEW decision \in ArbiterDecision,
           ResolveDispute(e, decision)
    PROVE  IInv'
<1> DEFINE d == [dispute[e] EXCEPT !.arbiter_decision = decision]
<1>1. /\ Status(e) \in Held /\ decision # NoDecision /\ ApplyDecision(e, decision)
      /\ UNCHANGED <<now, stray, wallet, bounds>>
    BY DEF ResolveDispute, Held, Committed
<1>2. dispute' = [dispute EXCEPT ![e] = d]
    BY DEF ResolveDispute
<1>3. d \in DisputeRecord
    BY DecidedTyped DEF IInv, TypeOK
<1> HIDE DEF d
<1>4. dispute' \in [EscrowIds -> DisputeRecord]
    BY <1>2, <1>3 DEF IInv, TypeOK
<1> QED
    BY <1>1, <1>4, DecisionKeepsInv

LEMMA FreezeKeepsInv ==
    ASSUME IInv, NEW e \in EscrowIds, NEW flagged \in SUBSET Agents,
           ProtocolFreezePact(e, flagged)
    PROVE  IInv'
<1> DEFINE decision == FreezeDecision(e, flagged)
           made == [NoDispute EXCEPT !.created_at = now, !.raised_by = ProtocolAuthority,
                                     !.resolution_deadline = now,
                                     !.arbiter_decision = decision]
           kept == [dispute[e] EXCEPT !.arbiter_decision = decision]
           d == IF dispute[e].created_at = 0 THEN made ELSE kept
<1>1. /\ Status(e) \in Held /\ ApplyDecision(e, decision)
      /\ UNCHANGED <<now, stray, wallet, bounds>>
    BY DEF ProtocolFreezePact
<1>2. decision \in ArbiterDecision \ {NoDecision}
    BY DEF FreezeDecision, ArbiterDecision, SplitFunds, ReleaseToBeneficiary,
           RefundToInitiator, NoDecision
<1>3. dispute' = [dispute EXCEPT ![e] = d]
    BY DEF ProtocolFreezePact
<1> HIDE DEF decision
<1>4. made \in DisputeRecord
    BY <1>2, FrozenTyped DEF IInv, TypeOK
<1>5. kept \in DisputeRecord
    BY <1>2, DecidedTyped DEF IInv, TypeOK
<1> HIDE DEF made, kept
<1>6. dispute' \in [EscrowIds -> DisputeRecord]
    BY <1>3, <1>4, <1>5 DEF IInv, TypeOK
<1> QED
    BY <1>1, <1>2, <1>6, DecisionKeepsInv

(* The clock and the registry and reputation programs.                     *)
LEMMA SurroundingsKeepInv ==
    ASSUME IInv,
           \/ Tick
           \/ \E w \in Wallets, status \in WalletStatus : SetAgentStatus(w, status)
           \/ \E w \in Wallets : CloseAgentWallet(w) \/ RegisterAgentWallet(w)
           \/ \E a \in Agents : InitReputation(a)
    PROVE  IInv'
<1>1. TypeOK
    BY DEF IInv
<1>2. CASE Tick
    <2>1. now' = now + 1 /\ UNCHANGED <<escrow, dispute, vault, stray, tok, wallet, rep, bounds>>
        BY <1>2 DEF Tick
    <2>2. TypeOK'
        BY <1>1, <2>1 DEF TypeOK, bounds, Status, Pact
    <2> QED
        BY <2>1, <2>2, OutsideKeepsInv
<1>3. CASE \E w \in Wallets, status \in WalletStatus : SetAgentStatus(w, status)
    <2>1. PICK w \in Wallets, status \in WalletStatus : SetAgentStatus(w, status)
        BY <1>3
    <2>2. /\ wallet' = [wallet EXCEPT ![w] = status] /\ admin_steps' = admin_steps + 1
          /\ UNCHANGED <<now, escrow, dispute, vault, stray, tok, rep, creations>>
        BY <2>1 DEF SetAgentStatus
    <2>3. TypeOK'
        BY <1>1, <2>2 DEF TypeOK, Status, Pact
    <2> QED
        BY <2>2, <2>3, OutsideKeepsInv
<1>4. CASE \E w \in Wallets : CloseAgentWallet(w) \/ RegisterAgentWallet(w)
    <2>1. PICK w \in Wallets : CloseAgentWallet(w) \/ RegisterAgentWallet(w)
        BY <1>4
    <2>2. /\ wallet' \in [Wallets -> WalletStatus] /\ admin_steps' \in Nat
          /\ UNCHANGED <<now, escrow, dispute, vault, stray, tok, rep, creations>>
        BY <1>1, <2>1
           DEF TypeOK, CloseAgentWallet, RegisterAgentWallet, bounds, WalletStatus
    <2>3. TypeOK'
        BY <1>1, <2>2 DEF TypeOK, Status, Pact
    <2> QED
        BY <2>2, <2>3, OutsideKeepsInv
<1>5. CASE \E a \in Agents : InitReputation(a)
    <2>1. PICK a \in Agents : InitReputation(a)
        BY <1>5
    <2>2. FreshReputation(now) \in ReputationAccount /\ FreshReputation(now).exists
        BY <1>1, InitialScores DEF TypeOK, FreshReputation, ReputationAccount
    <2>3. /\ rep' = [rep EXCEPT ![a] = FreshReputation(now)]
          /\ UNCHANGED <<now, escrow, dispute, vault, stray, tok, wallet, bounds>>
        BY <2>1 DEF InitReputation
    <2>4. TypeOK' /\ \A x \in Agents : rep[x].exists => rep'[x].exists
        BY <1>1, <2>2, <2>3 DEF TypeOK, bounds, Status, Pact
    <2> QED
        BY <2>3, <2>4, OutsideKeepsInv
<1> QED
    BY <1>2, <1>3, <1>4, <1>5

--------------------------------------------------------------------------------
LEMMA InitImpliesInv == Init => IInv
<1> SUFFICES ASSUME Init PROVE IInv
    OBVIOUS
<1>1. /\ AbsentEscrow \in EscrowAccount /\ NoDispute \in DisputeRecord
      /\ AbsentEscrow.status = "Absent" /\ AbsentEscrow.beneficiary_staked = FALSE
    BY AbsentTyped, NoDisputeTyped DEF AbsentEscrow
<1>2. NoReputation \in ReputationAccount /\ FreshReputation(now) \in ReputationAccount
    BY InitialScores DEF Init, NoReputation, FreshReputation, ReputationAccount
<1>3. \A e \in EscrowIds : escrow[e] = AbsentEscrow
    BY DEF Init
<1>4. TypeOK
    BY <1>1, <1>2, <1>3, EscrowAssumption DEF Init, TypeOK, WalletStatus, Status
<1>5. PactsAreValid /\ NothingStakedEarly /\ CommittedPayable
    BY <1>1, <1>3 DEF PactsAreValid, NothingStakedEarly, CommittedPayable, Status, Committed
<1>6. VaultAccounted
    BY <1>1, <1>3 DEF Init, VaultAccounted, Liability, Status, Held, Committed
<1> QED
    BY <1>4, <1>5, <1>6 DEF IInv

(* IInv is inductive: the case split is the next-state relation's.         *)
LEMMA NextKeepsInv == IInv /\ [Next]_vars => IInv'
<1> SUFFICES ASSUME IInv, [Next]_vars PROVE IInv'
    OBVIOUS
<1>1. CASE UNCHANGED vars
    <2>1. UNCHANGED <<escrow, vault, stray, rep>>
        BY <1>1 DEF vars
    <2>2. TypeOK'
        BY <1>1 DEF vars, IInv, TypeOK, Status, Pact
    <2> QED
        BY <2>1, <2>2, OutsideKeepsInv
<1>2. ASSUME NEW e \in EscrowIds, EscrowStep(e) PROVE IInv'
    <2>1. CASE \E t \in Terms : InitializeEscrow(e, t)
        BY <2>1, InitializeKeepsInv
    <2>2. CASE DepositFunds(e)
        BY <2>2, DepositKeepsInv
    <2>3. CASE StakeBeneficiary(e)
        BY <2>3, StakeKeepsInv
    <2>4. CASE LockEscrow(e)
        BY <2>4, LockKeepsInv
    <2>5. CASE ReleaseEscrow(e)
        BY <2>5, ReleaseKeepsInv DEF ReleaseEscrow
    <2>6. CASE ClaimReleased(e)
        BY <2>6, ClaimKeepsInv
    <2>7. CASE AutoRelease(e)
        BY <2>7, AutoReleaseKeepsInv
    <2>8. CASE \E a \in Agents : RaiseDispute(e, a)
        BY <2>8, RaiseKeepsInv
    <2>9. CASE \E a \in Agents : EscalateDispute(e, a)
        BY <2>9, EscalateKeepsInv
    <2>10. CASE \E decision \in ArbiterDecision : ResolveDispute(e, decision)
        BY <2>10, ResolveKeepsInv
    <2>11. CASE Refund(e)
        BY <2>11, RefundKeepsInv
    <2>12. CASE \E with_record \in BOOLEAN : CloseEscrow(e, with_record)
        BY <2>12, CloseKeepsInv
    <2>13. CASE \E flagged \in SUBSET Agents : ProtocolFreezePact(e, flagged)
        BY <2>13, FreezeKeepsInv
    <2>14. CASE MutualCancelEscrow(e)
        BY <2>14, MutualCancelKeepsInv
    <2>15. CASE CancelPendingEscrow(e)
        BY <2>15, CancelPendingKeepsInv
    <2>16. CASE \E a \in Agents : Donate(e, a)
        BY <2>16, DonateKeepsInv
    <2> QED
        BY <1>2, <2>1, <2>2, <2>3, <2>4, <2>5, <2>6, <2>7, <2>8, <2>9, <2>10, <2>11,
           <2>12, <2>13, <2>14, <2>15, <2>16 DEF EscrowStep
<1> QED
    BY <1>1, <1>2, SurroundingsKeepInv DEF Next

LEMMA InvariantHolds == Spec => []IInv
    BY InitImpliesInv, NextKeepsInv, PTL DEF Spec

(* Every account of the program has the shape its structs declare, and no  *)
(* balance goes below zero, whichever instructions are called and when.    *)
THEOREM TypeCorrect == Spec => []TypeOK
<1>1. IInv => TypeOK
    BY DEF IInv
<1> QED
    BY <1>1, InvariantHolds, PTL

(* However instructions on any number of escrows interleave, each vault    *)
(* holds exactly what its parties are owed plus what strangers sent: every *)
(* payout of every settlement empties the liability, none takes more.      *)
THEOREM VaultsAreAccounted == Spec => []VaultAccounted
<1>1. IInv => VaultAccounted
    BY DEF IInv
<1> QED
    BY <1>1, InvariantHolds, PTL

(* A pact that was locked can be paid out by every settlement: the         *)
(* beneficiary's stake is in, both reputation accounts exist.              *)
THEOREM CommittedArePayable == Spec => []CommittedPayable
<1>1. IInv => CommittedPayable
    BY DEF IInv
<1> QED
    BY <1>1, InvariantHolds, PTL
================================================================================
