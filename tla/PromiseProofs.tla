----------------------------- MODULE PromiseProofs -----------------------------
(***************************************************************************)
(* The escrow program implements EscrowPromise, for any number of escrows, *)
(* any agents, terms, splits, windows and bounds: each instruction maps to *)
(* one action of the promise, or to a step that changes nothing in it.     *)
(***************************************************************************)
EXTENDS EscrowProofs, EscrowRefinement

PartiesIn(r) ==
    IF r.status = "Absent" THEN {} ELSE {r.terms.initiator, r.terms.beneficiary}

Step == [Promise!PNext]_(Promise!pvars)

--------------------------------------------------------------------------------
(* The mapping is read off the escrow accounts alone.                      *)
LEMMA MappedAccounts ==
    /\ PhaseMap   = [e \in EscrowIds |-> PhaseOf(escrow[e].status)]
    /\ PhaseMap'  = [e \in EscrowIds |-> PhaseOf(escrow'[e].status)]
    /\ PartiesMap  = [e \in EscrowIds |-> PartiesIn(escrow[e])]
    /\ PartiesMap' = [e \in EscrowIds |-> PartiesIn(escrow'[e])]
    /\ HeldMap    = [e \in EscrowIds |-> Owed(escrow[e])]
    /\ HeldMap'   = [e \in EscrowIds |-> Owed(escrow'[e])]
<1>1. ASSUME NEW e \in EscrowIds
      PROVE  /\ PartiesOf(e) = PartiesIn(escrow[e])
             /\ PartiesOf(e)' = PartiesIn(escrow'[e])
    BY DEF PartiesOf, PartiesIn, Parties, Status, Pact
<1> QED
    BY <1>1, OwedIsLiability DEF PhaseMap, PartiesMap, HeldMap, Status

(* An instruction on one escrow changes the mapping there only.            *)
LEMMA OneAccount ==
    ASSUME TypeOK, NEW e \in EscrowIds, NEW r, escrow' = [escrow EXCEPT ![e] = r]
    PROVE  /\ PhaseMap'   = [PhaseMap   EXCEPT ![e] = PhaseOf(r.status)]
           /\ PartiesMap' = [PartiesMap EXCEPT ![e] = PartiesIn(r)]
           /\ HeldMap'    = [HeldMap    EXCEPT ![e] = Owed(r)]
           /\ PhaseMap[e] = PhaseOf(escrow[e].status)
           /\ PartiesMap[e] = PartiesIn(escrow[e])
           /\ HeldMap[e] = Owed(escrow[e])
<1>1. escrow'[e] = r /\ \A f \in EscrowIds \ {e} : escrow'[f] = escrow[f]
    BY DEF TypeOK
<1>2. \A f \in EscrowIds :
        PhaseOf(escrow'[f].status) = IF f = e THEN PhaseOf(r.status) ELSE PhaseMap[f]
    BY <1>1, MappedAccounts
<1>3. \A f \in EscrowIds :
        PartiesIn(escrow'[f]) = IF f = e THEN PartiesIn(r) ELSE PartiesMap[f]
    BY <1>1, MappedAccounts
<1>4. \A f \in EscrowIds : Owed(escrow'[f]) = IF f = e THEN Owed(r) ELSE HeldMap[f]
    BY <1>1, MappedAccounts
<1>5. /\ PhaseMap[e] = PhaseOf(escrow[e].status)
      /\ PartiesMap[e] = PartiesIn(escrow[e]) /\ HeldMap[e] = Owed(escrow[e])
    BY MappedAccounts
<1>6. PhaseMap' = [PhaseMap EXCEPT ![e] = PhaseOf(r.status)]
    BY <1>2, MappedAccounts
<1>7. PartiesMap' = [PartiesMap EXCEPT ![e] = PartiesIn(r)]
    BY <1>3, MappedAccounts
<1>8. HeldMap' = [HeldMap EXCEPT ![e] = Owed(r)]
    BY <1>4, MappedAccounts
<1> QED
    BY <1>5, <1>6, <1>7, <1>8

LEMMA Phases ==
    /\ PhaseOf("Absent") = "none"
    /\ PhaseOf("Pending") = "open" /\ PhaseOf("Funded") = "open"
    /\ \A status \in Committed : PhaseOf(status) = "committed"
    /\ \A status \in Settled : PhaseOf(status) = "settled"
BY DEF PhaseOf, Committed, Settled

LEMMA SameAccounts ==
    ASSUME escrow' = escrow
    PROVE  UNCHANGED <<PhaseMap, PartiesMap, HeldMap>>
BY MappedAccounts

(* What a pact's terms say of money and people, once it exists.            *)
LEMMA ExistingPact ==
    ASSUME IInv, NEW e \in EscrowIds, Status(e) # "Absent"
    PROVE  /\ Pact(e) \in Terms
           /\ Pact(e).initiator \in Agents /\ Pact(e).beneficiary \in Agents
           /\ Pact(e).initiator # Pact(e).beneficiary
           /\ Pact(e).escrow_amount \in Nat \ {0}
           /\ Pact(e).initiator_stake \in Nat /\ Pact(e).beneficiary_stake \in Nat
           /\ PartiesIn(escrow[e]) = {Pact(e).initiator, Pact(e).beneficiary}
<1>1. Pact(e) \in Terms /\ ValidInitParams(Pact(e))
    BY DEF IInv, TypeOK, PactsAreValid
<1> QED
    BY <1>1, TermsTyped DEF ValidInitParams, PartiesIn, Status, Pact

LEMMA PursesTyped == IInv => tok \in [Holders -> Nat] /\ Promise!Owners = Holders
BY DEF IInv, TypeOK, Promise!Owners, Holders

--------------------------------------------------------------------------------
LEMMA InitializeIsOpen ==
    ASSUME IInv, NEW e \in EscrowIds, NEW t \in Terms, InitializeEscrow(e, t)
    PROVE  Promise!Open(e)
<1> DEFINE r == [AbsentEscrow EXCEPT !.status = "Pending", !.terms = t,
                                     !.time_lock_expires_at = now + t.lock_secs]
<1>1. /\ escrow' = [escrow EXCEPT ![e] = r] /\ Status(e) = "Absent" /\ tok' = tok
      /\ ValidInitParams(t)
    BY DEF InitializeEscrow
<1>2. r.status = "Pending" /\ r.terms = t
    BY DEF AbsentEscrow
<1> HIDE DEF r
<1>3. /\ PhaseMap' = [PhaseMap EXCEPT ![e] = "open"] /\ PhaseMap[e] = "none"
      /\ PartiesMap' = [PartiesMap EXCEPT ![e] = {t.initiator, t.beneficiary}]
      /\ HeldMap' = [HeldMap EXCEPT ![e] = 0] /\ HeldMap[e] = 0
    <2>1. /\ PhaseMap'   = [PhaseMap   EXCEPT ![e] = PhaseOf(r.status)]
          /\ PartiesMap' = [PartiesMap EXCEPT ![e] = PartiesIn(r)]
          /\ HeldMap'    = [HeldMap    EXCEPT ![e] = Owed(r)]
          /\ PhaseMap[e] = PhaseOf("Absent") /\ HeldMap[e] = Owed(escrow[e])
        BY <1>1, OneAccount DEF IInv, Status
    <2>2. Owed(r) = 0 /\ Owed(escrow[e]) = 0
        BY <1>1, <1>2 DEF Owed, Held, Committed, Status
    <2>3. PartiesIn(r) = {t.initiator, t.beneficiary}
        BY <1>2 DEF PartiesIn
    <2> QED
        BY <1>2, <2>1, <2>2, <2>3, Phases
<1>4. HeldMap' = HeldMap
    BY <1>3 DEF HeldMap
<1>5. t.initiator \in Agents /\ t.beneficiary \in Agents /\ t.initiator # t.beneficiary
    BY <1>1, TermsTyped DEF ValidInitParams
<1> QED
    BY <1>1, <1>3, <1>4, <1>5 DEF Promise!Open

(* A deposit and a stake: the payer's loss is the vault's gain.            *)
LEMMA PaymentIsContribute ==
    ASSUME IInv, NEW e \in EscrowIds, Status(e) \in {"Pending", "Funded"},
           NEW r, escrow' = [escrow EXCEPT ![e] = r],
           r.status \in {"Pending", "Funded"}, r.terms = Pact(e),
           NEW amount \in Nat, Owed(r) = Owed(escrow[e]) + amount,
           NEW payer \in {Pact(e).initiator, Pact(e).beneficiary},
           tok[payer] >= amount, tok' = [tok EXCEPT ![payer] = tok[payer] - amount]
    PROVE  Promise!Contribute(e)
<1>1. TypeOK /\ Status(e) # "Absent"
    BY DEF IInv
<1>2. /\ PhaseMap' = [PhaseMap EXCEPT ![e] = "open"] /\ PhaseMap[e] = "open"
      /\ PartiesMap' = [PartiesMap EXCEPT ![e] = PartiesIn(escrow[e])]
      /\ PartiesMap[e] = PartiesIn(escrow[e])
      /\ HeldMap' = [HeldMap EXCEPT ![e] = HeldMap[e] + amount]
    <2>1. /\ PhaseMap'   = [PhaseMap   EXCEPT ![e] = PhaseOf(r.status)]
          /\ PartiesMap' = [PartiesMap EXCEPT ![e] = PartiesIn(r)]
          /\ HeldMap'    = [HeldMap    EXCEPT ![e] = Owed(r)]
          /\ PhaseMap[e] = PhaseOf(escrow[e].status)
          /\ PartiesMap[e] = PartiesIn(escrow[e]) /\ HeldMap[e] = Owed(escrow[e])
        BY <1>1, OneAccount
    <2>2. PartiesIn(r) = PartiesIn(escrow[e])
        BY <1>1 DEF PartiesIn, Status, Pact
    <2>3. PhaseOf(r.status) = "open" /\ PhaseOf(escrow[e].status) = "open"
        BY Phases DEF Status
    <2> QED
        BY <2>1, <2>2, <2>3
<1>3. UNCHANGED <<PhaseMap, PartiesMap>>
    BY <1>2 DEF PhaseMap, PartiesMap
<1>4. payer \in Agents /\ payer \in PartiesMap[e]
    BY <1>1, <1>2, ExistingPact
<1>5. /\ tok \in [Holders -> Nat] /\ payer \in Holders
      /\ tok'[payer] = tok[payer] - amount
      /\ \A h \in Holders \ {payer} : tok'[h] = tok[h]
    BY <1>4, PursesTyped DEF Holders
<1>6. /\ Promise!Gained(payer) = 0 - amount /\ Promise!Gained(payer) <= 0
      /\ tok'[payer] >= 0
      /\ \A h \in Promise!Owners \ {payer} : Promise!Gained(h) = 0
    BY <1>5, PursesTyped DEF Promise!Gained
<1>7. HeldMap[e] \in Nat
    <2>1. HeldMap[e] = Owed(escrow[e])
        BY MappedAccounts
    <2> QED
        BY <1>1, <2>1, ExistingPact DEF Owed, Status, Pact
<1>8. HeldMap' = [HeldMap EXCEPT ![e] = HeldMap[e] - Promise!Gained(payer)]
    <2>1. HeldMap[e] - Promise!Gained(payer) = HeldMap[e] + amount
        BY <1>6, <1>7
    <2> QED
        BY <1>2, <2>1, Zenon
<1> QED
    BY <1>2, <1>3, <1>4, <1>6, <1>8, Zenon DEF Promise!Contribute

LEMMA DepositIsContribute ==
    ASSUME IInv, NEW e \in EscrowIds, DepositFunds(e)
    PROVE  Promise!Contribute(e)
<1> DEFINE r == [escrow[e] EXCEPT !.status = "Funded"]
           amount == Pact(e).escrow_amount + Pact(e).initiator_stake
           payer == Pact(e).initiator
<1>1. Status(e) = "Pending" /\ ~escrow[e].beneficiary_staked /\ Status(e) # "Absent"
    BY DEF DepositFunds, IInv, NothingStakedEarly
<1>2. /\ escrow' = [escrow EXCEPT ![e] = r] /\ tok[payer] >= amount
      /\ tok' = [tok EXCEPT ![payer] = tok[payer] - amount]
    BY DEF DepositFunds, SetStatus
<1>3. /\ r.status = "Funded" /\ r.terms = Pact(e) /\ ~r.beneficiary_staked
    BY <1>1, StatusTyped DEF IInv, TypeOK, EscrowStatus, Pact
<1>4. amount \in Nat
    BY <1>1, ExistingPact
<1>5. Owed(r) = Owed(escrow[e]) + amount
    BY <1>1, <1>3, <1>4, ExistingPact DEF Owed, Held, Committed, Status
<1> HIDE DEF r, amount, payer
<1>6. payer \in {Pact(e).initiator, Pact(e).beneficiary}
    BY DEF payer
<1> QED
    BY <1>1, <1>2, <1>3, <1>4, <1>5, <1>6, PaymentIsContribute

LEMMA StakeIsContribute ==
    ASSUME IInv, NEW e \in EscrowIds, StakeBeneficiary(e)
    PROVE  Promise!Contribute(e)
<1> DEFINE r == [escrow[e] EXCEPT !.beneficiary_staked = TRUE]
           amount == Pact(e).beneficiary_stake
           payer == Pact(e).beneficiary
<1>1. Status(e) = "Funded" /\ ~escrow[e].beneficiary_staked /\ Status(e) # "Absent"
    BY DEF StakeBeneficiary
<1>2. /\ escrow' = [escrow EXCEPT ![e] = r] /\ tok[payer] >= amount
      /\ tok' = [tok EXCEPT ![payer] = tok[payer] - amount]
    BY DEF StakeBeneficiary
<1>3. /\ r.status = "Funded" /\ r.terms = Pact(e) /\ r.beneficiary_staked
    BY <1>1, StakedTyped DEF IInv, TypeOK, Status, Pact
<1>4. amount \in Nat
    BY <1>1, ExistingPact
<1>5. Owed(r) = Owed(escrow[e]) + amount
    BY <1>1, <1>3, <1>4, ExistingPact DEF Owed, Held, Status, Pact
<1> HIDE DEF r, amount, payer
<1>6. payer \in {Pact(e).initiator, Pact(e).beneficiary}
    BY DEF payer
<1> QED
    BY <1>1, <1>2, <1>3, <1>4, <1>5, <1>6, PaymentIsContribute

LEMMA LockIsCommit ==
    ASSUME IInv, NEW e \in EscrowIds, LockEscrow(e)
    PROVE  Promise!Commit(e)
<1> DEFINE r == [escrow[e] EXCEPT !.status = "Locked"]
<1>1. /\ Status(e) = "Funded" /\ Status(e) # "Absent" /\ tok' = tok
      /\ escrow' = [escrow EXCEPT ![e] = r]
    BY DEF LockEscrow, SetStatus
<1>2. /\ r.status = "Locked" /\ r.terms = escrow[e].terms
      /\ r.beneficiary_staked = escrow[e].beneficiary_staked
    BY StatusTyped DEF IInv, TypeOK, EscrowStatus
<1> HIDE DEF r
<1>3. PartiesIn(r) = PartiesIn(escrow[e]) /\ Owed(r) = Owed(escrow[e])
    BY <1>1, <1>2 DEF PartiesIn, Owed, Held, Committed, Status
<1>4. /\ PhaseMap' = [PhaseMap EXCEPT ![e] = "committed"] /\ PhaseMap[e] = "open"
      /\ PartiesMap' = PartiesMap /\ HeldMap' = HeldMap /\ HeldMap[e] = Owed(escrow[e])
    <2>1. /\ PhaseMap'   = [PhaseMap   EXCEPT ![e] = PhaseOf(r.status)]
          /\ PartiesMap' = [PartiesMap EXCEPT ![e] = PartiesIn(r)]
          /\ HeldMap'    = [HeldMap    EXCEPT ![e] = Owed(r)]
          /\ PhaseMap[e] = PhaseOf(escrow[e].status)
          /\ PartiesMap[e] = PartiesIn(escrow[e]) /\ HeldMap[e] = Owed(escrow[e])
        BY <1>1, OneAccount DEF IInv
    <2>2. PartiesMap' = PartiesMap /\ HeldMap' = HeldMap
        BY <1>3, <2>1 DEF PartiesMap, HeldMap
    <2>3. PhaseOf(r.status) = "committed" /\ PhaseOf(escrow[e].status) = "open"
        BY <1>1, <1>2, Phases DEF Committed, Status
    <2> QED
        BY <2>1, <2>2, <2>3
<1>5. Owed(escrow[e]) > 0
    BY <1>1, ExistingPact DEF Owed, Held, Status, Pact
<1> QED
    BY <1>1, <1>4, <1>5 DEF Promise!Commit

(* Released, disputed: nothing the promise speaks of has changed.          *)
LEMMA CommittedStaysCommitted ==
    ASSUME IInv, NEW e \in EscrowIds, Status(e) \in Committed,
           NEW r, escrow' = [escrow EXCEPT ![e] = r], r.status \in Committed,
           r.terms = escrow[e].terms, r.beneficiary_staked = escrow[e].beneficiary_staked
    PROVE  UNCHANGED <<PhaseMap, PartiesMap, HeldMap>>
<1>1. PartiesIn(r) = PartiesIn(escrow[e]) /\ Owed(r) = Owed(escrow[e])
    BY DEF PartiesIn, Owed, Held, Committed, Status
<1>2. PhaseOf(r.status) = PhaseOf(escrow[e].status)
    BY Phases DEF Status
<1>3. /\ PhaseMap'   = [PhaseMap   EXCEPT ![e] = PhaseOf(r.status)]
      /\ PartiesMap' = [PartiesMap EXCEPT ![e] = PartiesIn(r)]
      /\ HeldMap'    = [HeldMap    EXCEPT ![e] = Owed(r)]
      /\ PhaseMap[e] = PhaseOf(escrow[e].status)
      /\ PartiesMap[e] = PartiesIn(escrow[e]) /\ HeldMap[e] = Owed(escrow[e])
    BY OneAccount DEF IInv
<1>4. PhaseMap' = PhaseMap
    BY <1>2, <1>3 DEF PhaseMap
<1>5. PartiesMap' = PartiesMap
    BY <1>1, <1>3 DEF PartiesMap
<1>6. HeldMap' = HeldMap
    BY <1>1, <1>3 DEF HeldMap
<1> QED
    BY <1>4, <1>5, <1>6

(* A settlement: all that is held goes to the two parties and, from a      *)
(* committed pact, at most a quarter of one per cent to the treasury.      *)
LEMMA SettlementIsSettle ==
    ASSUME IInv, NEW e \in EscrowIds, Status(e) \in Held,
           NEW status \in Settled, SetStatus(e, status),
           NEW pay \in Payouts, Total(pay) = Liability(e), PayOut(e, pay),
           400 * pay.fee <= Liability(e), Status(e) = "Funded" => pay.fee = 0
    PROVE  Promise!Settle(e)
<1> DEFINE r == [escrow[e] EXCEPT !.status = status]
           i == Pact(e).initiator
           b == Pact(e).beneficiary
<1>1. Status(e) # "Absent" /\ TypeOK
    BY DEF Held, Committed, IInv
<1>2. /\ i \in Agents /\ b \in Agents /\ i # b
      /\ Pact(e).escrow_amount \in Nat \ {0}
      /\ PartiesIn(escrow[e]) = {i, b}
      /\ Owed(escrow[e]) > 0
    <2>1. /\ i \in Agents /\ b \in Agents /\ i # b
          /\ Pact(e).escrow_amount \in Nat \ {0}
          /\ Pact(e).initiator_stake \in Nat /\ Pact(e).beneficiary_stake \in Nat
          /\ PartiesIn(escrow[e]) = {i, b}
        BY <1>1, ExistingPact
    <2>2. Owed(escrow[e]) > 0
        BY <2>1 DEF Owed, Status, Pact
    <2> QED
        BY <2>1, <2>2
<1>3. escrow' = [escrow EXCEPT ![e] = r]
    BY DEF SetStatus
<1>4. r.status = status /\ r.terms = escrow[e].terms
    BY <1>1, StatusTyped DEF TypeOK, EscrowStatus, Settled
<1> HIDE DEF r
<1>5. /\ PhaseMap' = [PhaseMap EXCEPT ![e] = "settled"]
      /\ PartiesMap' = PartiesMap /\ PartiesMap[e] = {i, b}
      /\ HeldMap' = [HeldMap EXCEPT ![e] = 0] /\ HeldMap[e] = Liability(e)
      /\ PhaseMap[e] \in {"open", "committed"}
      /\ PhaseMap[e] = "open" => Status(e) = "Funded"
    <2>1. /\ PhaseMap'   = [PhaseMap   EXCEPT ![e] = PhaseOf(r.status)]
          /\ PartiesMap' = [PartiesMap EXCEPT ![e] = PartiesIn(r)]
          /\ HeldMap'    = [HeldMap    EXCEPT ![e] = Owed(r)]
          /\ PhaseMap[e] = PhaseOf(escrow[e].status)
          /\ PartiesMap[e] = PartiesIn(escrow[e]) /\ HeldMap[e] = Owed(escrow[e])
        BY <1>1, <1>3, OneAccount
    <2>2. PartiesIn(r) = PartiesMap[e]
        BY <1>1, <1>4, <2>1 DEF PartiesIn, Status, Settled
    <2>3. PartiesMap' = PartiesMap
        BY <2>1, <2>2 DEF PartiesMap
    <2>4. Owed(r) = 0
        BY <1>4 DEF Owed, Held, Committed, Settled
    <2>5. PhaseOf(r.status) = "settled"
        BY <1>4, Phases
    <2>6. /\ PhaseOf(escrow[e].status) \in {"open", "committed"}
          /\ PhaseOf(escrow[e].status) = "open" => Status(e) = "Funded"
        BY Phases DEF Held, Status
    <2> QED
        BY <1>2, <2>1, <2>3, <2>4, <2>5, <2>6, OwedIsLiability
<1>6. /\ tok \in [Holders -> Nat]
      /\ pay.fee \in Nat /\ pay.beneficiary \in Nat /\ pay.initiator \in Nat
      /\ i \in Holders /\ b \in Holders /\ ProtocolAuthority \in Holders
      /\ i # ProtocolAuthority /\ b # ProtocolAuthority
    BY <1>1, <1>2, EscrowAssumption DEF TypeOK, Payouts, Holders
<1>7. /\ Promise!Gained(i) = pay.initiator /\ Promise!Gained(b) = pay.beneficiary
      /\ Promise!Gained(ProtocolAuthority) = pay.fee
      /\ \A h \in Holders \ {i, b, ProtocolAuthority} : Promise!Gained(h) = 0
    BY <1>2, <1>6 DEF PayOut, Promise!Gained
<1>8. pay.initiator + pay.beneficiary + pay.fee = Liability(e)
    BY <1>6 DEF Total
<1>9. HeldMap[e] > 0
    BY <1>2, <1>5, OwedIsLiability
<1> HIDE DEF i, b
<1>10. \E x, y \in PartiesMap[e] :
         /\ x # y
         /\ \A h \in {x, y, ProtocolAuthority} : Promise!Gained(h) >= 0
         /\ \A h \in Promise!Owners \ {x, y, ProtocolAuthority} : Promise!Gained(h) = 0
         /\ Promise!Gained(x) + Promise!Gained(y) + Promise!Gained(ProtocolAuthority) = HeldMap[e]
    <2>1. i \in PartiesMap[e] /\ b \in PartiesMap[e] /\ i # b
        BY <1>2, <1>5
    <2>2. \A h \in {i, b, ProtocolAuthority} : Promise!Gained(h) >= 0
        BY <1>6, <1>7
    <2>3. \A h \in Promise!Owners \ {i, b, ProtocolAuthority} : Promise!Gained(h) = 0
        BY <1>7, PursesTyped
    <2>4. Promise!Gained(i) + Promise!Gained(b) + Promise!Gained(ProtocolAuthority) = HeldMap[e]
        BY <1>5, <1>7, <1>8
    <2> QED
        BY <2>1, <2>2, <2>3, <2>4, Zenon
<1>11. /\ 400 * Promise!Gained(ProtocolAuthority) <= HeldMap[e]
       /\ PhaseMap[e] = "open" => Promise!Gained(ProtocolAuthority) = 0
    BY <1>5, <1>7
<1> QED
    BY <1>5, <1>9, <1>10, <1>11 DEF Promise!Settle

LEMMA ClaimFeeShare ==
    ASSUME NEW amount \in Nat
    PROVE  400 * ClaimFee(amount) <= amount
<1> DEFINE product == amount * PROTOCOL_FEE_BPS
           q == product \div BPS_DENOMINATOR
<1>1. product = 25 * amount /\ product \in Nat /\ BPS_DENOMINATOR = 10000
    BY DEF PROTOCOL_FEE_BPS, BPS_DENOMINATOR
<1>2. q \in Nat /\ 10000 * q <= product
    <2> HIDE DEF product
    <2> QED
        BY SMT, <1>1
<1>3. ClaimFee(amount) = q
    BY DEF ClaimFee
<1> HIDE DEF q, product
<1> QED
    BY <1>1, <1>2, <1>3

(* A settlement from which the treasury gets nothing.                      *)
LEMMA FreeSettlement ==
    ASSUME IInv, NEW e \in EscrowIds, Status(e) \in Held,
           NEW status \in Settled, SetStatus(e, status),
           NEW pay \in Payouts, Total(pay) = Liability(e), pay.fee = 0, PayOut(e, pay)
    PROVE  Promise!Settle(e)
<1>1. 400 * pay.fee <= Liability(e)
    BY DEF Payouts, Total
<1> QED
    BY <1>1, SettlementIsSettle

LEMMA ClaimIsSettle ==
    ASSUME IInv, NEW e \in EscrowIds, ClaimReleased(e)
    PROVE  Promise!Settle(e)
<1> DEFINE pay == ClaimPayouts(Pact(e))
<1>1. /\ Status(e) \in Held /\ Status(e) # "Absent" /\ Status(e) # "Funded"
      /\ escrow[e].beneficiary_staked
    BY DEF ClaimReleased, IInv, CommittedPayable, Held, Committed
<1>2. /\ Pact(e) \in Terms /\ Pact(e).escrow_amount \in Nat
      /\ Pact(e).initiator_stake \in Nat /\ Pact(e).beneficiary_stake \in Nat
    BY <1>1, ExistingPact
<1>3. pay \in Payouts /\ Total(pay) = Liability(e)
    BY <1>1, <1>2, ClaimPayoutsTotal DEF Liability, EffectiveStake
<1>4. pay.fee = ClaimFee(Pact(e).escrow_amount)
    BY DEF ClaimPayouts
<1>5. Liability(e) >= Pact(e).escrow_amount
    BY <1>1, <1>2 DEF Liability, EffectiveStake
<1>6. "Claimed" \in Settled /\ SetStatus(e, "Claimed") /\ PayOut(e, pay)
    BY DEF ClaimReleased, Settled
<1> HIDE DEF pay
<1>7. 400 * pay.fee <= Liability(e)
    <2>1. 400 * pay.fee <= Pact(e).escrow_amount
        BY <1>2, <1>4, ClaimFeeShare
    <2>2. pay.fee \in Nat /\ Liability(e) \in Nat
        BY <1>3 DEF Payouts, Total
    <2> QED
        BY <1>2, <1>5, <2>1, <2>2
<1> QED
    BY <1>1, <1>3, <1>6, <1>7, SettlementIsSettle

LEMMA ReturnIsSettle ==
    ASSUME IInv, NEW e \in EscrowIds, Status(e) \in Committed,
           NEW status \in Settled, SetStatus(e, status), PayOut(e, RefundPayouts(Pact(e)))
    PROVE  Promise!Settle(e)
<1>1. /\ Status(e) \in Held /\ Pact(e) \in Terms /\ escrow[e].beneficiary_staked
    BY DEF IInv, TypeOK, CommittedPayable, Held, Committed
<1>2. /\ RefundPayouts(Pact(e)) \in Payouts
      /\ Total(RefundPayouts(Pact(e))) = Liability(e)
    BY <1>1, RefundPayoutsTotal DEF Liability, EffectiveStake
<1>3. RefundPayouts(Pact(e)).fee = 0
    BY DEF RefundPayouts
<1> QED
    BY <1>1, <1>2, <1>3, FreeSettlement

LEMMA DecisionIsSettle ==
    ASSUME IInv, NEW e \in EscrowIds, Status(e) \in Held,
           NEW decision \in ArbiterDecision \ {NoDecision}, ApplyDecision(e, decision)
    PROVE  Promise!Settle(e)
<1> DEFINE pay == DisputePayouts(Pact(e), EffectiveStake(e), decision)
           status == IF decision = RefundToInitiator THEN "Refunded" ELSE "Claimed"
<1>1. Pact(e) \in Terms /\ EffectiveStake(e) \in Nat
    BY TermsTyped DEF IInv, TypeOK, Held, Committed, EffectiveStake
<1>2. decision.kind = "SplitFunds" => SplitComputable(Pact(e), decision.beneficiary_bps)
    BY DEF ApplyDecision
<1>3. pay \in Payouts /\ Total(pay) = Liability(e)
    BY <1>1, <1>2, DisputePayoutsTotal DEF Liability
<1>4. pay.fee = 0
    BY DEF DisputePayouts
<1>5. status \in Settled /\ SetStatus(e, status) /\ PayOut(e, pay)
    BY DEF Settled, ApplyDecision
<1> HIDE DEF pay, status
<1> QED
    BY <1>3, <1>4, <1>5, FreeSettlement

LEMMA CancelPendingIsSettle ==
    ASSUME IInv, NEW e \in EscrowIds, CancelPendingEscrow(e)
    PROVE  Promise!Settle(e)
<1> DEFINE pay == CancelPayouts(Pact(e), escrow[e].beneficiary_staked)
<1>1. /\ Status(e) \in Held /\ Pact(e) \in Terms /\ escrow[e].beneficiary_staked \in BOOLEAN
    BY DEF CancelPendingEscrow, IInv, TypeOK, Held, EscrowAccount
<1>2. pay \in Payouts /\ Total(pay) = Liability(e)
    BY <1>1, CancelPayoutsTotal DEF Liability, EffectiveStake
<1>3. pay.fee = 0
    BY DEF CancelPayouts, RefundPayouts
<1>4. "Refunded" \in Settled /\ SetStatus(e, "Refunded") /\ PayOut(e, pay)
    BY DEF CancelPendingEscrow, Settled
<1> HIDE DEF pay
<1> QED
    BY <1>1, <1>2, <1>3, <1>4, FreeSettlement

LEMMA CloseIsForget ==
    ASSUME IInv, NEW e \in EscrowIds, NEW with_record \in BOOLEAN,
           CloseEscrow(e, with_record)
    PROVE  Promise!Forget(e)
<1>1. /\ Status(e) \in Settled \cup {"Pending"} /\ tok' = tok
      /\ escrow' = [escrow EXCEPT ![e] = AbsentEscrow]
    BY DEF CloseEscrow
<1>2. AbsentEscrow.status = "Absent"
    BY DEF AbsentEscrow
<1>3. Owed(AbsentEscrow) = 0 /\ Owed(escrow[e]) = 0 /\ PartiesIn(AbsentEscrow) = {}
    BY <1>1, <1>2 DEF Owed, PartiesIn, Held, Committed, Settled, Status
<1>4. PhaseOf(escrow[e].status) \in {"open", "settled"} /\ PhaseOf("Absent") = "none"
    BY <1>1, Phases DEF Status
<1>5. /\ PhaseMap'   = [PhaseMap   EXCEPT ![e] = PhaseOf(AbsentEscrow.status)]
      /\ PartiesMap' = [PartiesMap EXCEPT ![e] = PartiesIn(AbsentEscrow)]
      /\ HeldMap'    = [HeldMap    EXCEPT ![e] = Owed(AbsentEscrow)]
      /\ PhaseMap[e] = PhaseOf(escrow[e].status)
      /\ PartiesMap[e] = PartiesIn(escrow[e]) /\ HeldMap[e] = Owed(escrow[e])
    BY <1>1, OneAccount DEF IInv
<1>6. HeldMap' = HeldMap
    BY <1>3, <1>5 DEF HeldMap
<1> QED
    BY <1>1, <1>2, <1>3, <1>4, <1>5, <1>6 DEF Promise!Forget

(* A token sent to a vault from outside is money spent elsewhere: what the *)
(* parties are owed does not change.                                       *)
LEMMA DonationIsSpend ==
    ASSUME IInv, NEW e \in EscrowIds, NEW a \in Agents, Donate(e, a)
    PROVE  Promise!Spend
<1>1. escrow' = escrow /\ tok[a] > 0 /\ tok' = [tok EXCEPT ![a] = tok[a] - 1]
    BY DEF Donate
<1>2. tok \in [Holders -> Nat] /\ a \in Holders /\ Promise!Owners = Holders
    BY PursesTyped DEF Holders
<1>3. /\ Promise!Gained(a) < 0 /\ tok'[a] >= 0
      /\ \A h \in Promise!Owners \ {a} : Promise!Gained(h) = 0
    BY <1>1, <1>2 DEF Promise!Gained
<1> QED
    BY <1>1, <1>3, SameAccounts DEF Promise!Spend

--------------------------------------------------------------------------------
LEMMA EscrowStepIsPromised ==
    ASSUME IInv, NEW e \in EscrowIds, EscrowStep(e)
    PROVE  Step
<1> USE DEF Step, Promise!PNext
<1>1. CASE \E t \in Terms : InitializeEscrow(e, t)
    BY <1>1, InitializeIsOpen
<1>2. CASE DepositFunds(e)
    BY <1>2, DepositIsContribute
<1>3. CASE StakeBeneficiary(e)
    BY <1>3, StakeIsContribute
<1>4. CASE LockEscrow(e)
    BY <1>4, LockIsCommit
<1>5. ASSUME Status(e) = "Locked", Release(e), tok' = tok PROVE Step
    <2> DEFINE r == [escrow[e] EXCEPT !.status = "Released", !.released_at = now,
                            !.dispute_window_ends_at = now + DISPUTE_WINDOW_SECS]
    <2>1. escrow' = [escrow EXCEPT ![e] = r]
        BY <1>5 DEF Release
    <2>2. /\ r.status = "Released" /\ r.terms = escrow[e].terms
          /\ r.beneficiary_staked = escrow[e].beneficiary_staked
        BY DEF IInv, TypeOK, EscrowAccount
    <2> HIDE DEF r
    <2>3. Status(e) \in Committed /\ r.status \in Committed
        BY <1>5, <2>2 DEF Committed
    <2> QED
        BY <1>5, <2>1, <2>2, <2>3, CommittedStaysCommitted DEF Promise!pvars
<1>6. CASE ReleaseEscrow(e)
    BY <1>5, <1>6 DEF ReleaseEscrow
<1>7. CASE ClaimReleased(e)
    BY <1>7, ClaimIsSettle
<1>8. CASE AutoRelease(e)
    <2>1. CASE Release(e) /\ UNCHANGED <<vault, tok, rep>>
        BY <1>5, <1>8, <2>1 DEF AutoRelease
    <2>2. CASE SetStatus(e, "Refunded") /\ PayOut(e, RefundPayouts(Pact(e)))
        BY <1>8, <2>2, ReturnIsSettle DEF AutoRelease, Committed, Settled
    <2> QED
        BY <1>8, <2>1, <2>2 DEF AutoRelease
<1>9. CASE \E a \in Agents : RaiseDispute(e, a)
    <2> DEFINE r == [escrow[e] EXCEPT !.status = "Disputed"]
    <2>1. Status(e) \in Committed /\ tok' = tok /\ escrow' = [escrow EXCEPT ![e] = r]
        BY <1>9 DEF RaiseDispute, SetStatus, Committed
    <2>2. /\ r.status = "Disputed" /\ r.terms = escrow[e].terms
          /\ r.beneficiary_staked = escrow[e].beneficiary_staked
        BY StatusTyped DEF IInv, TypeOK, EscrowStatus
    <2> HIDE DEF r
    <2>3. r.status \in Committed
        BY <2>2 DEF Committed
    <2> QED
        BY <2>1, <2>2, <2>3, CommittedStaysCommitted DEF Promise!pvars
<1>10. CASE \E a \in Agents : EscalateDispute(e, a)
    BY <1>10, SameAccounts DEF EscalateDispute, Promise!pvars
<1>11. CASE \E decision \in ArbiterDecision : ResolveDispute(e, decision)
    BY <1>11, DecisionIsSettle DEF ResolveDispute, Held, Committed
<1>12. CASE Refund(e)
    BY <1>12, ReturnIsSettle DEF Refund, Committed, Settled
<1>13. CASE \E with_record \in BOOLEAN : CloseEscrow(e, with_record)
    BY <1>13, CloseIsForget
<1>14. CASE \E flagged \in SUBSET Agents : ProtocolFreezePact(e, flagged)
    <2>1. PICK flagged \in SUBSET Agents : ProtocolFreezePact(e, flagged)
        BY <1>14
    <2> DEFINE decision == FreezeDecision(e, flagged)
    <2>2. Status(e) \in Held /\ ApplyDecision(e, decision)
        BY <2>1 DEF ProtocolFreezePact
    <2>3. decision \in ArbiterDecision \ {NoDecision}
        BY DEF FreezeDecision, ArbiterDecision, SplitFunds, ReleaseToBeneficiary,
               RefundToInitiator, NoDecision
    <2> HIDE DEF decision
    <2> QED
        BY <2>2, <2>3, DecisionIsSettle
<1>15. CASE MutualCancelEscrow(e)
    BY <1>15, ReturnIsSettle DEF MutualCancelEscrow, Committed, Settled
<1>16. CASE CancelPendingEscrow(e)
    BY <1>16, CancelPendingIsSettle
<1>17. CASE \E a \in Agents : Donate(e, a)
    BY <1>17, DonationIsSpend
<1> QED
    BY <1>1, <1>2, <1>3, <1>4, <1>6, <1>7, <1>8, <1>9, <1>10, <1>11, <1>12, <1>13,
       <1>14, <1>15, <1>16, <1>17 DEF EscrowStep

(* The fifteen instructions, on any number of escrows and in any order,    *)
(* implement the promise: the money of a pact goes in while it is open,    *)
(* does not move while it is committed, and leaves once, all of it, to its *)
(* two parties and, by at most a quarter of one per cent, the treasury.    *)
THEOREM PromiseIsKept == Spec => KeepsPromise
<1>1. Init => Promise!PInit
    <2> SUFFICES ASSUME Init PROVE Promise!PInit
        OBVIOUS
    <2>1. \A e \in EscrowIds : escrow[e].status = "Absent"
        BY DEF Init, AbsentEscrow
    <2>2. /\ PhaseMap = [e \in EscrowIds |-> "none"]
          /\ PartiesMap = [e \in EscrowIds |-> {}]
          /\ HeldMap = [e \in EscrowIds |-> 0]
        BY <2>1, MappedAccounts, Phases DEF PartiesIn, Owed, Held, Committed
    <2>3. tok \in [Holders -> Nat] /\ tok[ProtocolAuthority] = 0
        BY EscrowAssumption DEF Init, Holders
    <2> QED
        BY <2>2, <2>3 DEF Promise!PInit, Promise!Owners, Holders
<1>2. IInv /\ [Next]_vars => Step
    <2> SUFFICES ASSUME IInv, [Next]_vars PROVE Step
        OBVIOUS
    <2>1. CASE \E e \in EscrowIds : EscrowStep(e)
        BY <2>1, EscrowStepIsPromised
    <2>2. ASSUME UNCHANGED <<escrow, tok>> PROVE Step
        BY <2>2, SameAccounts DEF Step, Promise!pvars
    <2>3. CASE UNCHANGED vars
        BY <2>2, <2>3 DEF vars
    <2>4. CASE Tick
        BY <2>2, <2>4 DEF Tick
    <2>5. CASE \E w \in Wallets, status \in WalletStatus : SetAgentStatus(w, status)
        BY <2>2, <2>5 DEF SetAgentStatus
    <2>6. CASE \E w \in Wallets : CloseAgentWallet(w) \/ RegisterAgentWallet(w)
        BY <2>2, <2>6 DEF CloseAgentWallet, RegisterAgentWallet
    <2>7. CASE \E a \in Agents : InitReputation(a)
        BY <2>2, <2>7 DEF InitReputation
    <2> QED
        BY <2>1, <2>3, <2>4, <2>5, <2>6, <2>7 DEF Next
<1> QED
    BY <1>1, <1>2, InvariantHolds, PTL DEF Spec, KeepsPromise, Promise!PSpec, Step
================================================================================
