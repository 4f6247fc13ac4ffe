--------------------------- MODULE ReputationAccount ---------------------------
(***************************************************************************)
(* The arithmetic of vaultpact's ReputationAccount: what init_reputation   *)
(* creates, what update_reputation makes of an account and what            *)
(* validate_reputation_for_pact asks of one.  Pure operators: the modules  *)
(* that hold accounts as state (the escrow program that updates them by    *)
(* CPI, the reputation program itself) extend this one.                    *)
(*                                                                         *)
(* A score is an integer in 0..10000 that drifts towards 5000 by one per   *)
(* cent a day; the drift is applied lazily, when the account is written or *)
(* gated on, from decay_cursor to the present.                             *)
(***************************************************************************)
EXTENDS Integers

CONSTANTS
    SECS_PER_DAY,       \* 86_400 in the program; a few ticks in a checked model
    MAX_DECAY_DAYS,     \* 365 in the program: the decay table ends there
    DECAY_TABLE         \* GenDecayTable below; the proofs use only its range

DECAY_PRECISION == 1000000

ASSUME ReputationAssumption ==
    /\ SECS_PER_DAY \in Nat \ {0}
    /\ MAX_DECAY_DAYS \in Nat \ {0}
    /\ DECAY_TABLE \in [0..MAX_DECAY_DAYS -> 0..DECAY_PRECISION]

NEUTRAL_SCORE   == 5000
MAX_SCORE       == 10000

(* Verification tiers are ordered Unverified < Attested < Hardline.  No     *)
(* instruction writes any tier but the Unverified init_reputation sets.    *)
Unverified == 0

--------------------------------------------------------------------------------
(* gen_decay_table: 0.99^n in fixed point, each entry truncated.           *)
GenDecayTable[n \in 0..MAX_DECAY_DAYS] ==
    IF n = 0 THEN DECAY_PRECISION ELSE (GenDecayTable[n - 1] * 99) \div 100

Clamp(x) == IF x < 0 THEN 0 ELSE IF x > MAX_SCORE THEN MAX_SCORE ELSE x

(* Rust's i64 division truncates towards zero, TLA+'s \div rounds down:    *)
(* they differ on a negative dividend, that is on a score below neutral.   *)
TruncatingDiv(a, b) == IF a >= 0 THEN a \div b ELSE -((-a) \div b)

DaysInactive(cursor, t) ==
    LET days == (IF t > cursor THEN t - cursor ELSE 0) \div SECS_PER_DAY
    IN  IF days > MAX_DECAY_DAYS THEN MAX_DECAY_DAYS ELSE days

(* Variant: the distance to neutral without its sign.                      *)
ApplyDecayUnsigned(score, cursor, t) ==
    LET days     == DaysInactive(cursor, t)
        distance == IF score < NEUTRAL_SCORE THEN NEUTRAL_SCORE - score
                                             ELSE score - NEUTRAL_SCORE
    IN  IF days = 0 THEN score
        ELSE Clamp(NEUTRAL_SCORE +
                   TruncatingDiv(distance * DECAY_TABLE[days], DECAY_PRECISION))

ApplyDecay(score, cursor, t) ==
    LET days == DaysInactive(cursor, t)
    IN  IF days = 0 THEN score
        ELSE Clamp(NEUTRAL_SCORE +
                   TruncatingDiv((score - NEUTRAL_SCORE) * DECAY_TABLE[days],
                                 DECAY_PRECISION))

--------------------------------------------------------------------------------
(* An account; NoReputation stands for the PDA nobody has initialised yet. *)
ReputationAccount ==
    [exists : BOOLEAN, score : 0..MAX_SCORE, total_pacts : Nat, dispute_count : Nat,
     decay_cursor : Nat, nonce : Nat]

NoReputation ==
    [exists |-> FALSE, score |-> 0, total_pacts |-> 0, dispute_count |-> 0,
     decay_cursor |-> 0, nonce |-> 0]

FreshReputation(t) ==
    [exists |-> TRUE, score |-> NEUTRAL_SCORE, total_pacts |-> 0,
     dispute_count |-> 0, decay_cursor |-> t, nonce |-> 0]

(* Variant: only a fulfilled pact is counted.                              *)
UpdateReputationIfFulfilled(r, outcome, delta, t) ==
    [r EXCEPT !.score         = Clamp(ApplyDecay(r.score, r.decay_cursor, t) + delta),
              !.decay_cursor  = t,
              !.total_pacts   = IF outcome = "Fulfilled" THEN @ + 1 ELSE @,
              !.dispute_count = IF outcome = "Disputed" THEN @ + 1 ELSE @,
              !.nonce         = @ + 1]

(* update_reputation after its authority and nonce checks: decay first,    *)
(* then the signed delta, then the counters.                               *)
UpdateReputation(r, outcome, delta, t) ==
    [r EXCEPT !.score         = Clamp(ApplyDecay(r.score, r.decay_cursor, t) + delta),
              !.decay_cursor  = t,
              !.total_pacts   = @ + 1,
              !.dispute_count = IF outcome = "Disputed" THEN @ + 1 ELSE @,
              !.nonce         = @ + 1]

(* Variant: an account nobody initialised passes for an empty one.         *)
MeetsGateUninitialised(r, gate, t) ==
    /\ ApplyDecay(r.score, r.decay_cursor, t) >= gate.score
    /\ Unverified >= gate.tier
    /\ r.total_pacts >= gate.pacts

(* A gate is what a pact demands of a party: [score, tier, pacts].         *)
MeetsGate(r, gate, t) ==
    /\ r.exists
    /\ ApplyDecay(r.score, r.decay_cursor, t) >= gate.score
    /\ Unverified >= gate.tier
    /\ r.total_pacts >= gate.pacts
================================================================================
