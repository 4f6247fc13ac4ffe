----------------------------- MODULE DisputeProofs -----------------------------
(***************************************************************************)
(* Who may end a pact, when, and who gets what: the record a dispute is    *)
(* judged by is never one of an earlier escrow with the same id, the       *)
(* windows are kept, no settled pact comes back, and each party gets its   *)
(* share, for any number of escrows, any agents, terms, windows and bounds. *)
(***************************************************************************)
EXTENDS EscrowProofs, FiniteSetTheorems

(* What DisputeIsFresh says of one escrow account r, one record d and the  *)
(* time t, and the fact it leans on: no release lies in the future.        *)
Fresh(r, d, t) ==
    r.status = "Disputed" =>
        /\ d.raised_by \in {r.terms.initiator, r.terms.beneficiary}
        /\ d.created_at \in 1..t /\ d.created_at >= r.released_at
        /\ d.arbiter_decision = NoDecision
        /\ d.resolution_deadline = d.created_at + r.terms.dispute_deadline_secs
        /\ \/ d.escalated_at = 0
           \/ /\ d.escalated_at \in d.resolution_deadline + 1..t
              /\ d.escalation_deadline = d.escalated_at + ESCALATION_GRACE_SECS

ReleasesArePast == \A e \in EscrowIds : escrow[e].released_at <= now

DInv == IInv /\ ReleasesArePast /\ DisputeIsFresh

--------------------------------------------------------------------------------
LEMMA FreshRecords ==
    /\ DisputeIsFresh  <=> \A e \in EscrowIds : Fresh(escrow[e], dispute[e], now)
    /\ DisputeIsFresh' <=> \A e \in EscrowIds : Fresh(escrow'[e], dispute'[e], now')
    BY DEF DisputeIsFresh, Fresh, Status, Pact, Parties

(* A step on one escrow that keeps the clock need only be looked at there. *)
LEMMA EscrowStepFresh ==
    ASSUME DInv, IInv', NEW e \in EscrowIds, now' = now,
           \A f \in EscrowIds \ {e} : escrow'[f] = escrow[f] /\ dispute'[f] = dispute[f],
           escrow'[e].released_at <= now,
           Fresh(escrow'[e], dispute'[e], now)
    PROVE  DInv'
<1>1. ReleasesArePast'
    BY DEF DInv, ReleasesArePast
<1>2. \A f \in EscrowIds : Fresh(escrow[f], dispute[f], now)
    BY FreshRecords DEF DInv
<1>3. \A f \in EscrowIds : Fresh(escrow'[f], dispute'[f], now')
    BY <1>2
<1> QED
    BY <1>1, <1>3, FreshRecords DEF DInv

(* An escrow that moves to a status other than Disputed needs no record,   *)
(* whatever becomes of the one that is there.                              *)
LEMMA LeavingKeepsFresh ==
    ASSUME DInv, IInv', NEW e \in EscrowIds, NEW status \in EscrowStatus \ {"Disputed"},
           SetStatus(e, status), now' = now,
           \A f \in EscrowIds \ {e} : dispute'[f] = dispute[f]
    PROVE  DInv'
<1>1. escrow \in [EscrowIds -> EscrowAccount]
    BY DEF DInv, IInv, TypeOK
<1>2. /\ escrow'[e].status = status /\ escrow'[e].released_at = escrow[e].released_at
      /\ \A f \in EscrowIds \ {e} : escrow'[f] = escrow[f]
    BY <1>1 DEF SetStatus, EscrowAccount
<1> QED
    BY <1>2, EscrowStepFresh DEF Fresh, DInv, ReleasesArePast

(* A release happens now, and its escrow is not disputed.                  *)
LEMMA ReleaseKeepsFresh ==
    ASSUME DInv, IInv', NEW e \in EscrowIds, Release(e), UNCHANGED <<now, dispute>>
    PROVE  DInv'
<1>1. escrow \in [EscrowIds -> EscrowAccount] /\ now \in Nat
    BY DEF DInv, IInv, TypeOK
<1>2. /\ escrow'[e].status = "Released" /\ escrow'[e].released_at = now
      /\ \A f \in EscrowIds \ {e} : escrow'[f] = escrow[f]
    BY <1>1 DEF Release, EscrowAccount
<1> QED
    BY <1>1, <1>2, EscrowStepFresh DEF Fresh

LEMMA InitializeKeepsFresh ==
    ASSUME DInv, IInv', NEW e \in EscrowIds, NEW t \in Terms, InitializeEscrow(e, t)
    PROVE  DInv'
<1>1. escrow \in [EscrowIds -> EscrowAccount] /\ now \in Nat
    BY DEF DInv, IInv, TypeOK
<1>2. /\ escrow'[e].status = "Pending" /\ escrow'[e].released_at = 0
      /\ \A f \in EscrowIds \ {e} : escrow'[f] = escrow[f]
      /\ UNCHANGED <<now, dispute>>
    BY <1>1 DEF InitializeEscrow, AbsentEscrow
<1> QED
    BY <1>1, <1>2, EscrowStepFresh DEF Fresh

LEMMA StakeKeepsFresh ==
    ASSUME DInv, IInv', NEW e \in EscrowIds, StakeBeneficiary(e)
    PROVE  DInv'
<1>1. escrow \in [EscrowIds -> EscrowAccount]
    BY DEF DInv, IInv, TypeOK
<1>2. /\ escrow'[e].status = "Funded" /\ escrow'[e].released_at = escrow[e].released_at
      /\ \A f \in EscrowIds \ {e} : escrow'[f] = escrow[f]
      /\ UNCHANGED <<now, dispute>>
    BY <1>1 DEF StakeBeneficiary, EscrowAccount, Status
<1> QED
    BY <1>2, EscrowStepFresh DEF Fresh, DInv, ReleasesArePast

LEMMA CloseKeepsFresh ==
    ASSUME DInv, IInv', NEW e \in EscrowIds, NEW with_record \in BOOLEAN,
           CloseEscrow(e, with_record)
    PROVE  DInv'
<1>1. /\ escrow \in [EscrowIds -> EscrowAccount] /\ dispute \in [EscrowIds -> DisputeRecord]
      /\ now \in Nat
    BY DEF DInv, IInv, TypeOK
<1>2. /\ escrow'[e].status = "Absent" /\ escrow'[e].released_at = 0 /\ now' = now
      /\ \A f \in EscrowIds \ {e} : escrow'[f] = escrow[f] /\ dispute'[f] = dispute[f]
    BY <1>1 DEF CloseEscrow, AbsentEscrow
<1> QED
    BY <1>1, <1>2, EscrowStepFresh DEF Fresh

(* A new record is written in full: the PDA held nothing before.           *)
LEMMA RaiseKeepsFresh ==
    ASSUME DInv, IInv', NEW e \in EscrowIds, NEW raiser \in Agents, RaiseDispute(e, raiser)
    PROVE  DInv'
<1> DEFINE deadline == now + Pact(e).dispute_deadline_secs
<1>1. /\ escrow \in [EscrowIds -> EscrowAccount] /\ dispute \in [EscrowIds -> DisputeRecord]
      /\ now \in Nat \ {0} /\ escrow[e].released_at <= now
    BY DEF DInv, IInv, TypeOK, ReleasesArePast
<1>2. /\ escrow'[e].status = "Disputed" /\ escrow'[e].terms = escrow[e].terms
      /\ escrow'[e].released_at = escrow[e].released_at
      /\ \A f \in EscrowIds \ {e} : escrow'[f] = escrow[f]
    BY <1>1 DEF RaiseDispute, SetStatus, EscrowAccount
<1>3. /\ dispute' = [dispute EXCEPT ![e] = [NoDispute EXCEPT
                       !.created_at = now, !.raised_by = raiser,
                       !.resolution_deadline = deadline]]
      /\ raiser \in {escrow[e].terms.initiator, escrow[e].terms.beneficiary}
      /\ now' = now
    BY DEF RaiseDispute, Parties, Pact
<1> HIDE DEF deadline
<1>4. /\ dispute'[e].created_at = now /\ dispute'[e].raised_by = raiser
      /\ dispute'[e].resolution_deadline = deadline
      /\ dispute'[e].arbiter_decision = NoDecision /\ dispute'[e].escalated_at = 0
      /\ \A f \in EscrowIds \ {e} : dispute'[f] = dispute[f]
    BY <1>1, <1>3 DEF NoDispute
<1>5. Fresh(escrow'[e], dispute'[e], now)
    BY <1>1, <1>2, <1>3, <1>4 DEF Fresh, deadline, Pact
<1> QED
    BY <1>1, <1>2, <1>3, <1>4, <1>5, EscrowStepFresh

(* An escalation comes after the arbiter's deadline, and happens now.      *)
LEMMA EscalateKeepsFresh ==
    ASSUME DInv, IInv', NEW e \in EscrowIds, NEW escalator \in Agents,
           EscalateDispute(e, escalator)
    PROVE  DInv'
<1> DEFINE grace_end == now + ESCALATION_GRACE_SECS
           d == dispute[e]
<1>1. /\ dispute \in [EscrowIds -> DisputeRecord] /\ now \in Nat \ {0}
      /\ escrow[e].released_at <= now
    BY DEF DInv, IInv, TypeOK, ReleasesArePast
<1>2. /\ dispute' = [dispute EXCEPT ![e] = [d EXCEPT
                       !.escalated_at = now, !.escalation_deadline = grace_end]]
      /\ UNCHANGED <<now, escrow>> /\ now > d.resolution_deadline
    BY DEF EscalateDispute
<1>3. d \in DisputeRecord /\ Fresh(escrow[e], d, now) /\ d.resolution_deadline \in Nat
    BY <1>1, FreshRecords DEF DInv, DisputeRecord
<1> HIDE DEF grace_end, d
<1>4. /\ dispute'[e] = [d EXCEPT !.escalated_at = now, !.escalation_deadline = grace_end]
      /\ \A f \in EscrowIds \ {e} : dispute'[f] = dispute[f]
    BY <1>1, <1>2
<1>5. /\ dispute'[e].escalated_at = now /\ dispute'[e].escalation_deadline = grace_end
      /\ dispute'[e].raised_by = d.raised_by /\ dispute'[e].created_at = d.created_at
      /\ dispute'[e].arbiter_decision = d.arbiter_decision
      /\ dispute'[e].resolution_deadline = d.resolution_deadline
    BY SMT, <1>3, <1>4 DEF DisputeRecord
<1>6. Fresh(escrow[e], dispute'[e], now)
    BY <1>1, <1>2, <1>3, <1>5 DEF Fresh, grace_end
<1> QED
    BY <1>1, <1>2, <1>4, <1>6, EscrowStepFresh

(* Time that passes takes no fact of the past away.                        *)
LEMMA OutsideKeepsFresh ==
    ASSUME DInv, IInv', UNCHANGED <<escrow, dispute>>, now' \in {now, now + 1}
    PROVE  DInv'
<1>1. /\ now \in Nat \ {0} /\ dispute \in [EscrowIds -> DisputeRecord]
      /\ escrow \in [EscrowIds -> EscrowAccount]
    BY DEF DInv, IInv, TypeOK
<1>2. ReleasesArePast'
    BY <1>1 DEF DInv, ReleasesArePast, EscrowAccount
<1>3. \A e \in EscrowIds : Fresh(escrow[e], dispute[e], now')
    <2> SUFFICES ASSUME NEW e \in EscrowIds
                 PROVE  Fresh(escrow[e], dispute[e], now')
        OBVIOUS
    <2>1. Fresh(escrow[e], dispute[e], now) /\ dispute[e].resolution_deadline \in Nat
        BY <1>1, FreshRecords DEF DInv, DisputeRecord
    <2> QED
        BY <1>1, <2>1 DEF Fresh
<1> QED
    BY <1>2, <1>3, FreshRecords DEF DInv

--------------------------------------------------------------------------------
LEMMA InitIsFresh == Init => DInv
<1> SUFFICES ASSUME Init PROVE DInv
    OBVIOUS
<1>1. \A e \in EscrowIds : escrow[e].status = "Absent" /\ escrow[e].released_at <= now
    BY DEF Init, AbsentEscrow
<1> QED
    BY <1>1, InitImpliesInv DEF DInv, ReleasesArePast, DisputeIsFresh, Status

LEMMA NextKeepsFresh == DInv /\ [Next]_vars => DInv'
<1> SUFFICES ASSUME DInv, [Next]_vars PROVE DInv'
    OBVIOUS
<1>1. IInv'
    BY NextKeepsInv DEF DInv
<1>2. CASE UNCHANGED vars
    BY <1>1, <1>2, OutsideKeepsFresh DEF vars
<1>3. ASSUME NEW e \in EscrowIds, EscrowStep(e) PROVE DInv'
    <2>1. CASE \E t \in Terms : InitializeEscrow(e, t)
        BY <1>1, <2>1, InitializeKeepsFresh
    <2>2. CASE DepositFunds(e)
        BY <1>1, <2>2, LeavingKeepsFresh DEF DepositFunds, EscrowStatus
    <2>3. CASE StakeBeneficiary(e)
        BY <1>1, <2>3, StakeKeepsFresh
    <2>4. CASE LockEscrow(e)
        BY <1>1, <2>4, LeavingKeepsFresh DEF LockEscrow, EscrowStatus
    <2>5. CASE ReleaseEscrow(e)
        BY <1>1, <2>5, ReleaseKeepsFresh DEF ReleaseEscrow
    <2>6. CASE ClaimReleased(e)
        BY <1>1, <2>6, LeavingKeepsFresh DEF ClaimReleased, EscrowStatus
    <2>7. CASE AutoRelease(e)
        BY <1>1, <2>7, ReleaseKeepsFresh, LeavingKeepsFresh DEF AutoRelease, EscrowStatus
    <2>8. CASE \E a \in Agents : RaiseDispute(e, a)
        BY <1>1, <2>8, RaiseKeepsFresh
    <2>9. CASE \E a \in Agents : EscalateDispute(e, a)
        BY <1>1, <2>9, EscalateKeepsFresh
    <2>10. CASE \E decision \in ArbiterDecision : ResolveDispute(e, decision)
        <3>1. PICK decision \in ArbiterDecision : ResolveDispute(e, decision)
            BY <2>10
        <3>2. SetStatus(e, "Refunded") \/ SetStatus(e, "Claimed")
            BY <3>1 DEF ResolveDispute, ApplyDecision
        <3>3. now' = now /\ \A f \in EscrowIds \ {e} : dispute'[f] = dispute[f]
            BY <3>1 DEF ResolveDispute, DInv, IInv, TypeOK
        <3> QED
            BY <1>1, <3>2, <3>3, LeavingKeepsFresh DEF EscrowStatus
    <2>11. CASE Refund(e)
        BY <1>1, <2>11, LeavingKeepsFresh DEF Refund, EscrowStatus
    <2>12. CASE \E with_record \in BOOLEAN : CloseEscrow(e, with_record)
        BY <1>1, <2>12, CloseKeepsFresh
    <2>13. CASE \E flagged \in SUBSET Agents : ProtocolFreezePact(e, flagged)
        <3>1. PICK flagged \in SUBSET Agents : ProtocolFreezePact(e, flagged)
            BY <2>13
        <3>2. SetStatus(e, "Refunded") \/ SetStatus(e, "Claimed")
            BY <3>1 DEF ProtocolFreezePact, ApplyDecision
        <3>3. now' = now /\ \A f \in EscrowIds \ {e} : dispute'[f] = dispute[f]
            BY <3>1 DEF ProtocolFreezePact, DInv, IInv, TypeOK
        <3> QED
            BY <1>1, <3>2, <3>3, LeavingKeepsFresh DEF EscrowStatus
    <2>14. CASE MutualCancelEscrow(e)
        BY <1>1, <2>14, LeavingKeepsFresh DEF MutualCancelEscrow, EscrowStatus
    <2>15. CASE CancelPendingEscrow(e)
        BY <1>1, <2>15, LeavingKeepsFresh DEF CancelPendingEscrow, EscrowStatus
    <2>16. CASE \E a \in Agents : Donate(e, a)
        BY <1>1, <2>16, OutsideKeepsFresh DEF Donate
    <2> QED
        BY <1>3, <2>1, <2>2, <2>3, <2>4, <2>5, <2>6, <2>7, <2>8, <2>9, <2>10, <2>11,
           <2>12, <2>13, <2>14, <2>15, <2>16 DEF EscrowStep
<1>4. CASE Tick
    BY <1>1, <1>4, OutsideKeepsFresh DEF Tick
<1>5. CASE \/ \E w \in Wallets, status \in WalletStatus : SetAgentStatus(w, status)
           \/ \E w \in Wallets : CloseAgentWallet(w) \/ RegisterAgentWallet(w)
           \/ \E a \in Agents : InitReputation(a)
    BY <1>1, <1>5, OutsideKeepsFresh
       DEF SetAgentStatus, CloseAgentWallet, RegisterAgentWallet, InitReputation
<1> QED
    BY <1>2, <1>3, <1>4, <1>5 DEF Next

(* A disputed escrow is judged by a record of its own: raised by one of    *)
(* its parties since its release, undecided, with the deadlines its terms  *)
(* give, even when an earlier escrow of the same id left a record behind.  *)
THEOREM DisputesAreFresh == Spec => []DisputeIsFresh
<1>1. DInv => DisputeIsFresh
    BY DEF DInv
<1> QED
    BY <1>1, InitIsFresh, NextKeepsFresh, PTL DEF Spec

--------------------------------------------------------------------------------
(* What one instruction does to the status of its escrow.                  *)
LEMMA SetStatusMoves ==
    ASSUME IInv, NEW e \in EscrowIds, NEW status \in EscrowStatus, SetStatus(e, status)
    PROVE  /\ escrow'[e].status = status
           /\ \A f \in EscrowIds \ {e} : escrow'[f] = escrow[f]
BY DEF IInv, TypeOK, SetStatus, EscrowAccount

LEMMA StatusMoves ==
    ASSUME IInv, NEW e \in EscrowIds, EscrowStep(e)
    PROVE  /\ \A f \in EscrowIds \ {e} : escrow'[f] = escrow[f]
           /\ \/ /\ escrow'[e].status = escrow[e].status
                 /\ escrow'[e].released_at = escrow[e].released_at
                 /\ escrow'[e].dispute_window_ends_at = escrow[e].dispute_window_ends_at
              \/ Status(e) = "Locked" /\ Release(e) /\ now' = now
              \/ /\ <<Status(e), escrow'[e].status>> \in StatusGraph
                 /\ escrow'[e].status # "Released"
<1> USE DEF StatusGraph, Held, Committed, Settled
<1>0. /\ escrow \in [EscrowIds -> EscrowAccount]
      /\ {"Funded", "Locked", "Disputed", "Refunded", "Claimed", "MutuallyCancelled"}
            \subseteq EscrowStatus
    BY DEF IInv, TypeOK, EscrowStatus
<1>1. CASE \E t \in Terms : InitializeEscrow(e, t)
    BY <1>0, <1>1 DEF InitializeEscrow, AbsentEscrow, EscrowAccount
<1>2. CASE DepositFunds(e)
    BY <1>0, <1>2, SetStatusMoves DEF DepositFunds
<1>3. CASE StakeBeneficiary(e)
    BY <1>0, <1>3 DEF StakeBeneficiary, EscrowAccount
<1>4. CASE LockEscrow(e)
    BY <1>0, <1>4, SetStatusMoves DEF LockEscrow
<1>5. ASSUME Release(e) PROVE \A f \in EscrowIds \ {e} : escrow'[f] = escrow[f]
    BY <1>0, <1>5 DEF Release
<1>6. CASE ReleaseEscrow(e)
    BY <1>5, <1>6 DEF ReleaseEscrow
<1>7. CASE ClaimReleased(e)
    BY <1>0, <1>7, SetStatusMoves DEF ClaimReleased
<1>8. CASE AutoRelease(e)
    BY <1>0, <1>5, <1>8, SetStatusMoves DEF AutoRelease
<1>9. CASE \E a \in Agents : RaiseDispute(e, a)
    BY <1>0, <1>9, SetStatusMoves DEF RaiseDispute
<1>10. CASE \E a \in Agents : EscalateDispute(e, a)
    BY <1>10 DEF EscalateDispute
<1>11. CASE \E decision \in ArbiterDecision : ResolveDispute(e, decision)
    BY <1>0, <1>11, SetStatusMoves DEF ResolveDispute, ApplyDecision
<1>12. CASE Refund(e)
    BY <1>0, <1>12, SetStatusMoves DEF Refund
<1>13. CASE \E with_record \in BOOLEAN : CloseEscrow(e, with_record)
    BY <1>0, <1>13 DEF CloseEscrow, AbsentEscrow
<1>14. CASE \E flagged \in SUBSET Agents : ProtocolFreezePact(e, flagged)
    BY <1>0, <1>14, SetStatusMoves DEF ProtocolFreezePact, ApplyDecision
<1>15. CASE MutualCancelEscrow(e)
    BY <1>0, <1>15, SetStatusMoves DEF MutualCancelEscrow
<1>16. CASE CancelPendingEscrow(e)
    BY <1>0, <1>16, SetStatusMoves DEF CancelPendingEscrow
<1>17. CASE \E a \in Agents : Donate(e, a)
    BY <1>17 DEF Donate
<1> QED
    BY <1>1, <1>2, <1>3, <1>4, <1>6, <1>7, <1>8, <1>9, <1>10, <1>11, <1>12, <1>13,
       <1>14, <1>15, <1>16, <1>17 DEF EscrowStep

(* The other steps leave every escrow account alone.                       *)
LEMMA OutsideMovesNothing ==
    ASSUME [Next]_vars, \A e \in EscrowIds : ~EscrowStep(e)
    PROVE  escrow' = escrow
BY DEF Next, vars, Tick, SetAgentStatus, CloseAgentWallet, RegisterAgentWallet,
       InitReputation

(* Through any interleaving of instructions, an escrow only moves along    *)
(* the edges of the documented graph: none settles twice, and no settled   *)
(* or disputed pact goes back to an earlier status.                        *)
THEOREM StatusesFollowGraph == Spec => FollowsStatusGraph
<1> DEFINE Along == \A e \in EscrowIds :
               escrow'[e].status # Status(e) =>
                   <<Status(e), escrow'[e].status>> \in StatusGraph
<1>1. IInv /\ [Next]_vars => Along
    <2> SUFFICES ASSUME IInv, [Next]_vars, NEW e \in EscrowIds,
                        escrow'[e].status # Status(e)
                 PROVE  <<Status(e), escrow'[e].status>> \in StatusGraph
        OBVIOUS
    <2>1. PICK f \in EscrowIds : EscrowStep(f)
        BY OutsideMovesNothing DEF Status
    <2>2. f = e
        BY <2>1, StatusMoves DEF Status
    <2>3. Release(e) => escrow'[e].status = "Released"
        BY DEF Release, IInv, TypeOK, EscrowAccount
    <2> QED
        BY <2>1, <2>2, <2>3, StatusMoves DEF Status, StatusGraph
<1> QED
    BY <1>1, InvariantHolds, PTL DEF Spec, FollowsStatusGraph

--------------------------------------------------------------------------------
(* A freeze that takes this decision: it flags a party, and every party it *)
(* flags shows a blacklisted wallet.                                       *)
Freezes(e, decision) ==
    \E flagged \in SUBSET Agents :
        /\ ProtocolFreezePact(e, flagged)
        /\ decision = FreezeDecision(e, flagged)

(* How a pact can end: claimed, returned, cancelled, or by a decision of   *)
(* the arbiter or of a freeze, which goes on the dispute record.           *)
LEMMA SettlingActions ==
    ASSUME IInv, [Next]_vars, NEW e \in EscrowIds, Settles(e)
    PROVE  \/ ClaimReleased(e)
           \/ Refund(e)
           \/ AutoRelease(e) /\ ~Release(e)
           \/ MutualCancelEscrow(e)
           \/ CancelPendingEscrow(e)
           \/ \E decision \in ArbiterDecision \ {NoDecision} :
                /\ ApplyDecision(e, decision) /\ dispute'[e].arbiter_decision = decision
                /\ Status(e) = "Disputed" \/ Freezes(e, decision)
<1>1. PICK f \in EscrowIds : EscrowStep(f)
    BY OutsideMovesNothing DEF Settles, Status
<1>2. f = e
    BY <1>1, StatusMoves DEF Settles, Status
<1>3. Status(e) \in Held /\ escrow'[e].status \notin Held
    BY DEF Settles
<1>4. CASE AutoRelease(e) \/ MutualCancelEscrow(e) \/ CancelPendingEscrow(e)
    <2>1. Release(e) => escrow'[e].status = "Released"
        BY DEF Release, IInv, TypeOK, EscrowAccount
    <2>2. ~Release(e)
        BY <1>3, <2>1 DEF Held, Committed
    <2> QED
        BY <1>4, <2>2
<1>5. CASE \E decision \in ArbiterDecision : ResolveDispute(e, decision)
    <2>1. PICK decision \in ArbiterDecision : ResolveDispute(e, decision)
        BY <1>5
    <2>2. dispute'[e].arbiter_decision = decision
        BY <2>1 DEF ResolveDispute, IInv, TypeOK, DisputeRecord
    <2> QED
        BY <2>1, <2>2 DEF ResolveDispute
<1>6. CASE \E flagged \in SUBSET Agents : ProtocolFreezePact(e, flagged)
    <2>1. PICK flagged \in SUBSET Agents : ProtocolFreezePact(e, flagged)
        BY <1>6
    <2> DEFINE decision == FreezeDecision(e, flagged)
    <2>2. decision \in ArbiterDecision \ {NoDecision}
        BY DEF FreezeDecision, ArbiterDecision, SplitFunds, ReleaseToBeneficiary,
               RefundToInitiator, NoDecision
    <2>3. /\ ApplyDecision(e, decision)
          /\ dispute' = [dispute EXCEPT ![e] =
                           IF dispute[e].created_at = 0
                           THEN [NoDispute EXCEPT !.created_at = now,
                                                  !.raised_by = ProtocolAuthority,
                                                  !.resolution_deadline = now,
                                                  !.arbiter_decision = decision]
                           ELSE [dispute[e] EXCEPT !.arbiter_decision = decision]]
        BY <2>1 DEF ProtocolFreezePact
    <2> HIDE DEF decision
    <2>4. dispute'[e].arbiter_decision = decision
        BY <2>3 DEF IInv, TypeOK, DisputeRecord, NoDispute
    <2>5. Freezes(e, decision)
        BY <2>1 DEF Freezes, decision
    <2> QED
        BY <2>2, <2>3, <2>4, <2>5
<1>7. CASE ClaimReleased(e) \/ Refund(e)
    BY <1>7
<1>8. Status(e) # "Absent" /\ Status(e) \notin Settled \cup {"Pending"}
    BY <1>3 DEF Held, Committed, Settled
<1>9. ~ \E t \in Terms : InitializeEscrow(e, t)
    BY <1>8 DEF InitializeEscrow
<1>10. ~DepositFunds(e) /\ ~ \E with_record \in BOOLEAN : CloseEscrow(e, with_record)
    BY <1>8 DEF DepositFunds, CloseEscrow
<1>11. ~StakeBeneficiary(e) /\ ~LockEscrow(e)
    BY <1>3, SetStatusMoves
       DEF StakeBeneficiary, LockEscrow, IInv, TypeOK, EscrowAccount, Status, Held,
           Committed, EscrowStatus
<1>12. Release(e) => escrow'[e].status = "Released"
    BY DEF Release, IInv, TypeOK, EscrowAccount
<1>13. ~ReleaseEscrow(e)
    BY <1>3, <1>12 DEF ReleaseEscrow, Held, Committed
<1>14. ASSUME NEW a \in Agents, RaiseDispute(e, a)
       PROVE  FALSE
    BY <1>3, <1>14, SetStatusMoves
       DEF RaiseDispute, IInv, TypeOK, EscrowAccount, Held, Committed, EscrowStatus
<1>15. ~ (\E a \in Agents : EscalateDispute(e, a)) /\ ~ \E a \in Agents : Donate(e, a)
    BY <1>3 DEF EscalateDispute, Donate, Status
<1> QED
    BY <1>1, <1>2, <1>4, <1>5, <1>6, <1>7, <1>9, <1>10, <1>11, <1>13, <1>14, <1>15
       DEF EscrowStep

LEMMA SettlingSteps ==
    ASSUME IInv, [Next]_vars, NEW e \in EscrowIds, Settles(e)
    PROVE  \/ /\ escrow'[e].status # "Claimed" /\ Status(e) # "Disputed"
           \/ ClaimReleased(e)
           \/ Refund(e)
           \/ \E decision \in ArbiterDecision \ {NoDecision} :
                ApplyDecision(e, decision) /\ dispute'[e].arbiter_decision = decision
<1>1. CASE \/ AutoRelease(e) /\ ~Release(e)
           \/ MutualCancelEscrow(e)
           \/ CancelPendingEscrow(e)
    <2>1. SetStatus(e, "Refunded") \/ SetStatus(e, "MutuallyCancelled")
        BY <1>1 DEF AutoRelease, MutualCancelEscrow, CancelPendingEscrow
    <2>2. escrow'[e].status # "Claimed"
        BY <2>1, SetStatusMoves DEF EscrowStatus
    <2> QED
        BY <1>1, <2>2 DEF AutoRelease, MutualCancelEscrow, CancelPendingEscrow
<1> QED
    BY <1>1, SettlingActions

LEMMA DecisionsCount ==
    ASSUME IInv, NEW e \in EscrowIds, NEW decision, ApplyDecision(e, decision), Settles(e)
    PROVE  CountsAsDispute(e)
<1> DEFINE b == Pact(e).beneficiary
           delta == DisputeDeltas(decision).beneficiary
<1>1. /\ b \in Agents /\ Pact(e).initiator # b /\ rep \in [Agents -> ReputationAccount]
    <2>1. Status(e) # "Absent"
        BY DEF Settles, Held, Committed
    <2> QED
        BY <2>1, TermsTyped DEF IInv, TypeOK, PactsAreValid, ValidInitParams
<1>2. rep'[b] = UpdateReputation(rep[b], "Disputed", delta, now)
    BY <1>1 DEF ApplyDecision, ScoreBoth
<1> HIDE DEF b, delta
<1>3. rep[b] \in ReputationAccount
    BY <1>1
<1>4. rep'[b].dispute_count = rep[b].dispute_count + 1
    BY <1>2, <1>3 DEF UpdateReputation, ReputationAccount
<1> QED
    BY <1>3, <1>4 DEF CountsAsDispute, ReputationAccount, b

(* A dispute nobody decided is refunded only after the arbiter's whole     *)
(* deadline, an escalation and the whole grace period, whatever the terms. *)
THEOREM FallbackRefundsWait == Spec => FallbackRefundWaits
<1> DEFINE Waits == \A e \in EscrowIds :
               Settles(e) /\ Status(e) = "Disputed"
                 /\ dispute'[e].arbiter_decision = NoDecision =>
                   now > dispute[e].created_at + Pact(e).dispute_deadline_secs
                           + ESCALATION_GRACE_SECS
<1>1. DInv /\ [Next]_vars => Waits
    <2> SUFFICES ASSUME DInv, [Next]_vars, NEW e \in EscrowIds, Settles(e),
                        Status(e) = "Disputed",
                        dispute'[e].arbiter_decision = NoDecision
                 PROVE  now > dispute[e].created_at + Pact(e).dispute_deadline_secs
                                + ESCALATION_GRACE_SECS
        OBVIOUS
    <2>1. Refund(e)
        BY SettlingSteps DEF DInv, ClaimReleased
    <2>2. dispute[e].escalated_at > 0 /\ now > dispute[e].escalation_deadline
        BY <2>1 DEF Refund
    <2>3. /\ dispute[e].created_at \in Nat /\ dispute[e].escalated_at \in Nat
          /\ Pact(e).dispute_deadline_secs \in Int
          /\ now \in Nat /\ ESCALATION_GRACE_SECS \in Nat
        BY TermsTyped, EscrowAssumption DEF DInv, IInv, TypeOK, DisputeRecord
    <2>4. /\ dispute[e].resolution_deadline
                = dispute[e].created_at + Pact(e).dispute_deadline_secs
          /\ dispute[e].escalated_at \in dispute[e].resolution_deadline + 1..now
          /\ dispute[e].escalation_deadline = dispute[e].escalated_at + ESCALATION_GRACE_SECS
        BY <2>2, <2>3 DEF DInv, DisputeIsFresh
    <2> QED
        BY <2>2, <2>3, <2>4
<1> QED
    BY <1>1, InitIsFresh, NextKeepsFresh, PTL DEF Spec, FallbackRefundWaits

--------------------------------------------------------------------------------
(* The window that is stored is the one that follows the release.          *)
WindowsFollow ==
    \A e \in EscrowIds : Status(e) = "Released" =>
        escrow[e].dispute_window_ends_at = escrow[e].released_at + DISPUTE_WINDOW_SECS

LEMMA NextKeepsWindows ==
    IInv /\ WindowsFollow /\ [Next]_vars => WindowsFollow'
<1> SUFFICES ASSUME IInv, WindowsFollow, [Next]_vars, NEW e \in EscrowIds,
                    escrow'[e].status = "Released"
             PROVE  escrow'[e].dispute_window_ends_at
                        = escrow'[e].released_at + DISPUTE_WINDOW_SECS
    BY DEF WindowsFollow, Status
<1>1. CASE escrow'[e].status = escrow[e].status
           /\ escrow'[e].released_at = escrow[e].released_at
           /\ escrow'[e].dispute_window_ends_at = escrow[e].dispute_window_ends_at
    BY <1>1 DEF WindowsFollow, Status
<1>2. CASE Release(e)
    BY <1>2 DEF Release, IInv, TypeOK, EscrowAccount
<1>3. CASE \A f \in EscrowIds : ~EscrowStep(f)
    BY <1>1, <1>3, OutsideMovesNothing
<1>4. ASSUME NEW f \in EscrowIds, EscrowStep(f)
      PROVE  escrow'[e].dispute_window_ends_at
                = escrow'[e].released_at + DISPUTE_WINDOW_SECS
    <2>1. CASE f = e
        BY <1>1, <1>2, <1>4, <2>1, StatusMoves
    <2>2. CASE f # e
        BY <1>1, <1>4, <2>2, StatusMoves
    <2> QED
        BY <2>1, <2>2
<1> QED
    BY <1>3, <1>4

(* Without a decision the beneficiary is paid only when the whole dispute  *)
(* window has passed since the release, whatever the window's length and   *)
(* whoever released the pact.                                              *)
THEOREM ClaimsWaitForWindow == Spec => ClaimWaitsForWindow
<1> DEFINE Waits == \A e \in EscrowIds :
               Settles(e) /\ escrow'[e].status = "Claimed" /\ ~CountsAsDispute(e) =>
                   now > escrow[e].released_at + DISPUTE_WINDOW_SECS
<1>1. Init => WindowsFollow
    BY DEF Init, WindowsFollow, Status, AbsentEscrow
<1>2. IInv /\ WindowsFollow /\ [Next]_vars => Waits
    <2> SUFFICES ASSUME IInv, WindowsFollow, [Next]_vars, NEW e \in EscrowIds, Settles(e),
                        escrow'[e].status = "Claimed", ~CountsAsDispute(e)
                 PROVE  now > escrow[e].released_at + DISPUTE_WINDOW_SECS
        OBVIOUS
    <2>1. ~Refund(e)
        BY SetStatusMoves DEF Refund, EscrowStatus
    <2>2. ClaimReleased(e)
        BY <2>1, SettlingSteps, DecisionsCount
    <2> QED
        BY <2>2 DEF ClaimReleased, WindowsFollow
<1> QED
    BY <1>1, <1>2, InvariantHolds, NextKeepsWindows, PTL DEF Spec, ClaimWaitsForWindow

--------------------------------------------------------------------------------
(* The deltas update_reputation is called with: a dispute costs its loser  *)
(* most, any other outcome gains most when the pact was fulfilled.         *)
Deserved(outcome, delta) ==
    IF outcome = "Disputed" THEN delta \in DISPUTE_LOSER_DELTA..DISPUTE_WINNER_DELTA
                            ELSE delta \in REFUND_UNRESOLVED_DELTA..FULFILLED_SCORE_DELTA

(* Scored(e): one call of update_reputation for each party of e.           *)
Scored(e) ==
    /\ HaveReputations(e)
    /\ \E outcome, initiator_delta, beneficiary_delta :
          /\ ScoreBoth(e, outcome, initiator_delta, beneficiary_delta)
          /\ Deserved(outcome, initiator_delta) /\ Deserved(outcome, beneficiary_delta)

LEMMA DeltasAreDeserved ==
    /\ Deserved("Fulfilled", FULFILLED_SCORE_DELTA)
    /\ Deserved("Cancelled", AUTO_REFUND_UNRESOLVED_DELTA)
    /\ Deserved("Cancelled", REFUND_UNRESOLVED_DELTA)
    /\ Deserved("Cancelled", CANCEL_PENDING_DELTA)
    /\ Deserved("Cancelled", MUTUAL_CANCEL_SCORE_DELTA)
    /\ Deserved("Disputed", REFUND_ESCALATED_DELTA) /\ Deserved("Disputed", 0)
    /\ \A decision : /\ Deserved("Disputed", DisputeDeltas(decision).initiator)
                     /\ Deserved("Disputed", DisputeDeltas(decision).beneficiary)
BY DEF Deserved, FULFILLED_SCORE_DELTA, AUTO_REFUND_UNRESOLVED_DELTA,
       REFUND_UNRESOLVED_DELTA, CANCEL_PENDING_DELTA, MUTUAL_CANCEL_SCORE_DELTA,
       REFUND_ESCALATED_DELTA, DISPUTE_LOSER_DELTA, DISPUTE_WINNER_DELTA,
       DISPUTE_SPLIT_DELTA, DisputeDeltas

(* What an instruction on one escrow does to the reputations: nothing, or  *)
(* it settles the escrow and scores both of its parties.                   *)
LEMMA SettlementsScore ==
    ASSUME IInv, NEW e \in EscrowIds, EscrowStep(e)
    PROVE  \/ rep' = rep /\ ~Settles(e)
           \/ Settles(e) /\ Scored(e)
<1> USE DEF Settles, Held, Committed
<1>0. /\ escrow \in [EscrowIds -> EscrowAccount]
      /\ {"Funded", "Locked", "Disputed", "Refunded", "Claimed", "MutuallyCancelled"}
            \subseteq EscrowStatus
    BY DEF IInv, TypeOK, EscrowStatus
<1>1. ASSUME NEW outcome, NEW di, NEW db, ScoreBoth(e, outcome, di, db),
             Deserved(outcome, di), Deserved(outcome, db)
      PROVE  Scored(e)
    BY <1>1 DEF Scored, ScoreBoth
<1>2. ASSUME Release(e) PROVE escrow'[e].status = "Released"
    BY <1>0, <1>2 DEF Release, EscrowAccount
<1>3. CASE \E t \in Terms : InitializeEscrow(e, t)
    BY <1>3 DEF InitializeEscrow
<1>4. CASE DepositFunds(e)
    BY <1>4 DEF DepositFunds
<1>5. CASE StakeBeneficiary(e)
    BY <1>0, <1>5 DEF StakeBeneficiary, EscrowAccount, Status
<1>6. CASE LockEscrow(e)
    BY <1>0, <1>6, SetStatusMoves DEF LockEscrow
<1>7. CASE ReleaseEscrow(e)
    BY <1>2, <1>7 DEF ReleaseEscrow
<1>8. CASE ClaimReleased(e)
    BY <1>0, <1>1, <1>8, SetStatusMoves, DeltasAreDeserved DEF ClaimReleased
<1>9. CASE AutoRelease(e)
    BY <1>0, <1>1, <1>2, <1>9, SetStatusMoves, DeltasAreDeserved DEF AutoRelease
<1>10. CASE \E a \in Agents : RaiseDispute(e, a)
    BY <1>0, <1>10, SetStatusMoves DEF RaiseDispute
<1>11. CASE \E a \in Agents : EscalateDispute(e, a)
    BY <1>11 DEF EscalateDispute, Status
<1>12. ASSUME NEW decision, ApplyDecision(e, decision), Status(e) \in Held
       PROVE  Settles(e) /\ Scored(e)
    BY <1>0, <1>1, <1>12, SetStatusMoves, DeltasAreDeserved DEF ApplyDecision
<1>13. CASE \E decision \in ArbiterDecision : ResolveDispute(e, decision)
    BY <1>12, <1>13 DEF ResolveDispute
<1>14. CASE Refund(e)
    BY <1>0, <1>1, <1>14, SetStatusMoves, DeltasAreDeserved DEF Refund
<1>15. CASE \E with_record \in BOOLEAN : CloseEscrow(e, with_record)
    BY <1>15 DEF CloseEscrow, Settled
<1>16. CASE \E flagged \in SUBSET Agents : ProtocolFreezePact(e, flagged)
    BY <1>12, <1>16 DEF ProtocolFreezePact
<1>17. CASE MutualCancelEscrow(e)
    BY <1>0, <1>1, <1>17, SetStatusMoves, DeltasAreDeserved DEF MutualCancelEscrow
<1>18. CASE CancelPendingEscrow(e)
    BY <1>0, <1>1, <1>18, SetStatusMoves, DeltasAreDeserved DEF CancelPendingEscrow
<1>19. CASE \E a \in Agents : Donate(e, a)
    BY <1>19 DEF Donate, Status
<1> QED
    BY <1>3, <1>4, <1>5, <1>6, <1>7, <1>8, <1>9, <1>10, <1>11, <1>13, <1>14, <1>15,
       <1>16, <1>17, <1>18, <1>19 DEF EscrowStep

(* An account nobody initialised counts nothing.                           *)
NoneCountsNothing ==
    \A a \in Agents : ~rep[a].exists => rep[a].total_pacts = 0

LEMMA UpdateCounts ==
    ASSUME NEW r \in ReputationAccount, NEW outcome, NEW delta, NEW t
    PROVE  /\ UpdateReputation(r, outcome, delta, t).total_pacts = r.total_pacts + 1
           /\ UpdateReputation(r, outcome, delta, t).exists = r.exists
BY DEF UpdateReputation, ReputationAccount

LEMMA ScoringCounts ==
    ASSUME IInv, NEW e \in EscrowIds, Scored(e), NEW a \in Agents
    PROVE  /\ rep'[a].exists = rep[a].exists
           /\ a \in Parties(e) => rep[a].exists
           /\ rep'[a].total_pacts = rep[a].total_pacts + (IF a \in Parties(e) THEN 1 ELSE 0)
<1>1. PICK outcome, di, db : ScoreBoth(e, outcome, di, db)
    BY DEF Scored
<1>2. rep[a] \in ReputationAccount
    BY DEF IInv, TypeOK
<1>3. rep'[a] = IF a = Pact(e).initiator THEN UpdateReputation(rep[a], outcome, di, now)
                ELSE IF a = Pact(e).beneficiary
                     THEN UpdateReputation(rep[a], outcome, db, now) ELSE rep[a]
    BY <1>1 DEF ScoreBoth
<1>4. rep[a].total_pacts \in Nat
    BY <1>2 DEF ReputationAccount
<1>5. a \in Parties(e) <=> a = Pact(e).initiator \/ a = Pact(e).beneficiary
    BY DEF Parties
<1> QED
    BY <1>2, <1>3, <1>4, <1>5, UpdateCounts DEF Scored, HaveReputations

(* Only one escrow can settle in a step, so the set that is counted has at *)
(* most one element.                                                       *)
LEMMA CountOfOne ==
    ASSUME NEW e \in EscrowIds, NEW a, \A f \in EscrowIds \ {e} : ~Settles(f)
    PROVE  Cardinality({f \in EscrowIds : Settles(f) /\ a \in Parties(f)})
              = IF Settles(e) /\ a \in Parties(e) THEN 1 ELSE 0
<1>1. CASE Settles(e) /\ a \in Parties(e)
    <2>1. {f \in EscrowIds : Settles(f) /\ a \in Parties(f)} = {e}
        BY <1>1
    <2> QED
        BY <1>1, <2>1, FS_Singleton
<1>2. CASE ~(Settles(e) /\ a \in Parties(e))
    <2>1. {f \in EscrowIds : Settles(f) /\ a \in Parties(f)} = {}
        BY <1>2
    <2> QED
        BY <1>2, <2>1, FS_EmptySet
<1> QED
    BY <1>1, <1>2

LEMMA NextCounts ==
    ASSUME IInv, NoneCountsNothing, [Next]_vars, NEW a \in Agents
    PROVE  /\ rep'[a].total_pacts - rep[a].total_pacts
                = Cardinality({e \in EscrowIds : Settles(e) /\ a \in Parties(e)})
           /\ ~rep'[a].exists => rep'[a].total_pacts = 0
<1> DEFINE count == Cardinality({e \in EscrowIds : Settles(e) /\ a \in Parties(e)})
<1>1. rep[a].total_pacts \in Nat /\ (~rep[a].exists => rep[a].total_pacts = 0)
    BY DEF IInv, TypeOK, ReputationAccount, NoneCountsNothing
<1>2. CASE \A e \in EscrowIds : ~EscrowStep(e)
    <2>1. \A e \in EscrowIds : ~Settles(e)
        BY <1>2, OutsideMovesNothing DEF Settles, Status
    <2>2. count = 0
        <3>1. {e \in EscrowIds : Settles(e) /\ a \in Parties(e)} = {}
            BY <2>1
        <3> QED
            BY <3>1, FS_EmptySet
    <2>3. \/ rep'[a] = rep[a]
          \/ ~rep[a].exists /\ rep'[a] = FreshReputation(now)
        <3>1. rep' = rep \/ \E b \in Agents : InitReputation(b)
            BY <1>2 DEF Next, vars, Tick, SetAgentStatus, CloseAgentWallet,
                        RegisterAgentWallet
        <3> QED
            BY <3>1 DEF InitReputation, IInv, TypeOK
    <2> QED
        BY <1>1, <2>2, <2>3 DEF FreshReputation
<1>3. ASSUME NEW e \in EscrowIds, EscrowStep(e)
      PROVE  /\ rep'[a].total_pacts - rep[a].total_pacts = count
             /\ ~rep'[a].exists => rep'[a].total_pacts = 0
    <2>1. \A f \in EscrowIds \ {e} : ~Settles(f)
        BY <1>3, StatusMoves DEF Settles, Status
    <2>2. count = IF Settles(e) /\ a \in Parties(e) THEN 1 ELSE 0
        BY <2>1, CountOfOne
    <2> HIDE DEF count
    <2>3. CASE rep' = rep /\ ~Settles(e)
        BY <1>1, <2>2, <2>3
    <2>4. CASE Settles(e) /\ Scored(e)
        BY <1>1, <2>2, <2>4, ScoringCounts
    <2> QED
        BY <1>3, <2>3, <2>4, SettlementsScore
<1> QED
    BY <1>2, <1>3

(* Each pact that ends is counted once by each of its two parties, and     *)
(* nothing else moves anyone's count, for any number of escrows that share *)
(* their parties, settled in any order.                                    *)
THEOREM SettlementsCountOnce == Spec => SettlementCountedOnce
<1> DEFINE Counted == \A a \in Agents :
               rep'[a].total_pacts - rep[a].total_pacts
                 = Cardinality({e \in EscrowIds : Settles(e) /\ a \in Parties(e)})
<1>1. Init => NoneCountsNothing
    BY DEF Init, NoneCountsNothing, NoReputation, FreshReputation
<1>2. IInv /\ NoneCountsNothing /\ [Next]_vars => NoneCountsNothing' /\ Counted
    BY NextCounts DEF NoneCountsNothing
<1> QED
    BY <1>1, <1>2, InvariantHolds, PTL DEF Spec, SettlementCountedOnce

--------------------------------------------------------------------------------
(* What ScoresAreEarned says of one account; that disputes are among the   *)
(* pacts counted makes both bounds include neutral.                        *)
Highest(pacts, disputes) ==
    NEUTRAL_SCORE + (pacts - disputes) * FULFILLED_SCORE_DELTA
                  + disputes * DISPUTE_WINNER_DELTA

Lowest(pacts, disputes) ==
    NEUTRAL_SCORE + (pacts - disputes) * REFUND_UNRESOLVED_DELTA
                  + disputes * DISPUTE_LOSER_DELTA

Earned(r) ==
    /\ r.dispute_count <= r.total_pacts
    /\ r.exists => /\ r.score <= Highest(r.total_pacts, r.dispute_count)
                   /\ r.score >= Lowest(r.total_pacts, r.dispute_count)

(* One more pact moves both bounds by as much as its delta can move a      *)
(* score, and neutral lies between them from the start.                    *)
LEMMA BoundsMove ==
    ASSUME NEW pacts \in Nat, NEW disputes \in Nat, disputes <= pacts
    PROVE  /\ Lowest(pacts, disputes) \in Int /\ Highest(pacts, disputes) \in Int
           /\ Lowest(pacts, disputes) <= NEUTRAL_SCORE /\ NEUTRAL_SCORE <= Highest(pacts, disputes)
           /\ Lowest(pacts + 1, disputes) = Lowest(pacts, disputes) + REFUND_UNRESOLVED_DELTA
           /\ Highest(pacts + 1, disputes) = Highest(pacts, disputes) + FULFILLED_SCORE_DELTA
           /\ Lowest(pacts + 1, disputes + 1) = Lowest(pacts, disputes) + DISPUTE_LOSER_DELTA
           /\ Highest(pacts + 1, disputes + 1) = Highest(pacts, disputes) + DISPUTE_WINNER_DELTA
BY SMT DEF Lowest, Highest, NEUTRAL_SCORE, FULFILLED_SCORE_DELTA, DISPUTE_WINNER_DELTA,
           REFUND_UNRESOLVED_DELTA, DISPUTE_LOSER_DELTA

LEMMA UpdateKeepsEarned ==
    ASSUME NEW r \in ReputationAccount, r.exists, Earned(r), NEW outcome, NEW delta,
           Deserved(outcome, delta), NEW t \in Nat
    PROVE  Earned(UpdateReputation(r, outcome, delta, t))
<1> DEFINE n == r.total_pacts
           k == r.dispute_count
           m == IF outcome = "Disputed" THEN k + 1 ELSE k
           decayed == ApplyDecay(r.score, r.decay_cursor, t)
           score == Clamp(decayed + delta)
           low == Lowest(n, k)
           high == Highest(n, k)
           updated == UpdateReputation(r, outcome, delta, t)
<1>1. /\ n \in Nat /\ k \in Nat /\ k <= n /\ r.score \in 0..MAX_SCORE
      /\ r.score <= high /\ r.score >= low
    BY DEF ReputationAccount, Earned
<1>2. /\ decayed \in 0..MAX_SCORE
      /\ r.score >= NEUTRAL_SCORE => decayed \in NEUTRAL_SCORE..r.score
      /\ r.score <= NEUTRAL_SCORE => decayed \in r.score..NEUTRAL_SCORE
    BY DecayTowardsNeutral DEF ReputationAccount
<1>3. /\ updated.score = score /\ updated.total_pacts = n + 1 /\ updated.dispute_count = m
      /\ updated.exists
    BY DEF UpdateReputation, ReputationAccount
<1>4. /\ low \in Int /\ high \in Int /\ low <= NEUTRAL_SCORE /\ NEUTRAL_SCORE <= high
      /\ Lowest(n + 1, k) = low + REFUND_UNRESOLVED_DELTA
      /\ Highest(n + 1, k) = high + FULFILLED_SCORE_DELTA
      /\ Lowest(n + 1, k + 1) = low + DISPUTE_LOSER_DELTA
      /\ Highest(n + 1, k + 1) = high + DISPUTE_WINNER_DELTA
    <2> HIDE DEF n, k
    <2> QED BY Zenon, <1>1, BoundsMove
<1> DEFINE s == r.score
<1>5. decayed \in Int /\ low <= decayed /\ decayed <= high
    <2>1. /\ s \in 0..MAX_SCORE /\ decayed \in 0..MAX_SCORE
          /\ s <= high /\ s >= low /\ low <= NEUTRAL_SCORE /\ NEUTRAL_SCORE <= high
          /\ s >= NEUTRAL_SCORE => decayed \in NEUTRAL_SCORE..s
          /\ s <= NEUTRAL_SCORE => decayed \in s..NEUTRAL_SCORE
          /\ low \in Int /\ high \in Int
        BY Zenon, <1>1, <1>2, <1>4
    <2> HIDE DEF s, decayed, low, high
    <2>2. s \in Int /\ decayed \in Int
        BY SMT, <2>1 DEF MAX_SCORE
    <2>3. CASE s >= NEUTRAL_SCORE
        BY SMT, <2>1, <2>2, <2>3 DEF NEUTRAL_SCORE
    <2>4. CASE s <= NEUTRAL_SCORE
        BY SMT, <2>1, <2>2, <2>4 DEF NEUTRAL_SCORE
    <2> QED
        BY SMT, <2>2, <2>3, <2>4 DEF NEUTRAL_SCORE
<1> HIDE DEF n, k, decayed, low, high, updated
<1>6. CASE outcome = "Disputed"
    <2>1. delta \in Int /\ -100 <= delta /\ delta <= 25
        BY <1>6 DEF Deserved, DISPUTE_LOSER_DELTA, DISPUTE_WINNER_DELTA
    <2>2. score <= high + DISPUTE_WINNER_DELTA /\ score >= low + DISPUTE_LOSER_DELTA
        BY SMT, <1>4, <1>5, <2>1
           DEF Clamp, MAX_SCORE, NEUTRAL_SCORE, DISPUTE_WINNER_DELTA, DISPUTE_LOSER_DELTA
    <2>3. m = k + 1 /\ k + 1 <= n + 1
        BY <1>1, <1>6
    <2> QED
        BY <1>3, <1>4, <2>2, <2>3 DEF Earned, updated
<1>7. CASE outcome # "Disputed"
    <2>1. delta \in Int /\ -10 <= delta /\ delta <= 50
        BY <1>7 DEF Deserved, REFUND_UNRESOLVED_DELTA, FULFILLED_SCORE_DELTA
    <2>2. score <= high + FULFILLED_SCORE_DELTA /\ score >= low + REFUND_UNRESOLVED_DELTA
        BY SMT, <1>4, <1>5, <2>1
           DEF Clamp, MAX_SCORE, NEUTRAL_SCORE, FULFILLED_SCORE_DELTA, REFUND_UNRESOLVED_DELTA
    <2>3. m = k /\ k <= n + 1
        BY <1>1, <1>7
    <2> QED
        BY <1>3, <1>4, <2>2, <2>3 DEF Earned, updated
<1> QED
    BY <1>6, <1>7

EarnedInv == \A a \in Agents : Earned(rep[a])

LEMMA InitialsAreEarned == ASSUME NEW t PROVE Earned(NoReputation) /\ Earned(FreshReputation(t))
BY SMT DEF Earned, NoReputation, FreshReputation, Highest, Lowest, FULFILLED_SCORE_DELTA,
           DISPUTE_WINNER_DELTA, REFUND_UNRESOLVED_DELTA, DISPUTE_LOSER_DELTA, NEUTRAL_SCORE

LEMMA NextKeepsEarned == ASSUME IInv, EarnedInv, [Next]_vars PROVE EarnedInv'
<1>1. rep \in [Agents -> ReputationAccount] /\ now \in Nat
    BY DEF IInv, TypeOK
<1>2. CASE \A e \in EscrowIds : ~EscrowStep(e)
    <2>1. rep' = rep \/ \E b \in Agents : InitReputation(b)
        BY <1>2 DEF Next, vars, Tick, SetAgentStatus, CloseAgentWallet, RegisterAgentWallet
    <2>2. \A a \in Agents : rep'[a] = rep[a] \/ rep'[a] = FreshReputation(now)
        BY <1>1, <2>1 DEF InitReputation
    <2> QED
        BY <2>2, InitialsAreEarned DEF EarnedInv
<1>3. ASSUME NEW e \in EscrowIds, EscrowStep(e) PROVE EarnedInv'
    <2>1. CASE rep' = rep
        BY <2>1 DEF EarnedInv
    <2>2. CASE Scored(e)
        <3>1. PICK outcome, di, db :
                /\ ScoreBoth(e, outcome, di, db)
                /\ Deserved(outcome, di) /\ Deserved(outcome, db)
            BY <2>2 DEF Scored
        <3> SUFFICES ASSUME NEW a \in Agents PROVE Earned(rep'[a])
            BY DEF EarnedInv
        <3>2. rep[a] \in ReputationAccount /\ Earned(rep[a])
            BY <1>1 DEF EarnedInv
        <3>3. CASE a \notin {Pact(e).initiator, Pact(e).beneficiary}
            BY <3>1, <3>2, <3>3 DEF ScoreBoth
        <3>4. CASE a \in {Pact(e).initiator, Pact(e).beneficiary}
            <4>1. rep[a].exists
                BY <2>2, <3>4 DEF Scored, HaveReputations, Parties
            <4>2. \/ rep'[a] = UpdateReputation(rep[a], outcome, di, now)
                  \/ rep'[a] = UpdateReputation(rep[a], outcome, db, now)
                BY <3>1, <3>4 DEF ScoreBoth
            <4>3. /\ Earned(UpdateReputation(rep[a], outcome, di, now))
                  /\ Earned(UpdateReputation(rep[a], outcome, db, now))
                BY <1>1, <3>1, <3>2, <4>1, UpdateKeepsEarned
            <4> QED
                BY <4>2, <4>3
        <3> QED
            BY <3>3, <3>4
    <2> QED
        BY <1>3, <2>1, <2>2, SettlementsScore
<1> QED
    BY <1>2, <1>3

(* However many pacts an agent has with whomever, in any order and with    *)
(* any time between them: its score is accounted for by their outcomes.    *)
THEOREM ScoresEarned == Spec => []ScoresAreEarned
<1>1. Init => EarnedInv
    BY InitialsAreEarned DEF Init, EarnedInv
<1>2. EarnedInv => ScoresAreEarned
    BY DEF EarnedInv, Earned, Highest, Lowest, ScoresAreEarned
<1> QED
    BY <1>1, <1>2, InvariantHolds, NextKeepsEarned, PTL DEF Spec

--------------------------------------------------------------------------------
(* Who gets what: the two parties and the treasury are three accounts, so  *)
(* each gains exactly its part of a payout.                                *)
LEMMA PartiesDiffer ==
    ASSUME IInv, NEW e \in EscrowIds, Status(e) # "Absent"
    PROVE  /\ Pact(e) \in Terms
           /\ Pact(e).initiator \in Agents /\ Pact(e).beneficiary \in Agents
           /\ Pact(e).initiator # Pact(e).beneficiary
           /\ ProtocolAuthority \notin Agents
    BY TermsTyped, EscrowAssumption DEF IInv, TypeOK, PactsAreValid, ValidInitParams

LEMMA PaidOut ==
    ASSUME IInv, NEW e \in EscrowIds, Status(e) # "Absent", NEW pay \in Payouts, PayOut(e, pay)
    PROVE  /\ Gain(Pact(e).initiator) = pay.initiator
           /\ Gain(Pact(e).beneficiary) = pay.beneficiary
           /\ Gain(ProtocolAuthority) = pay.fee
<1> DEFINE i == Pact(e).initiator
           b == Pact(e).beneficiary
<1>1. i \in Agents /\ b \in Agents /\ i # b /\ ProtocolAuthority \notin Agents
    BY PartiesDiffer
<1>2. tok' = [h \in Holders |->
                tok[h] + (IF h = b THEN pay.beneficiary ELSE 0)
                       + (IF h = i THEN pay.initiator ELSE 0)
                       + (IF h = ProtocolAuthority THEN pay.fee ELSE 0)]
    BY DEF PayOut
<1>3. /\ pay.beneficiary \in Nat /\ pay.initiator \in Nat /\ pay.fee \in Nat
      /\ tok \in [Holders -> Nat]
    BY DEF Payouts, IInv, TypeOK
<1> HIDE DEF i, b
<1>4. \A h \in {i, b, ProtocolAuthority} : h \in Holders /\ tok[h] \in Nat
    BY <1>1, <1>3 DEF Holders
<1>5. tok'[i] - tok[i] = pay.initiator /\ tok'[b] - tok[b] = pay.beneficiary
    BY <1>1, <1>2, <1>3, <1>4
<1>6. tok'[ProtocolAuthority] - tok[ProtocolAuthority] = pay.fee
    BY <1>1, <1>2, <1>3, <1>4
<1> QED
    BY <1>5, <1>6 DEF Gain, i, b

(* An outcome other than Disputed leaves the dispute counts alone.         *)
LEMMA CancellationsDoNotCount ==
    ASSUME IInv, NEW e \in EscrowIds, Status(e) # "Absent",
           NEW outcome \in {"Fulfilled", "Cancelled"}, NEW di, NEW db,
           ScoreBoth(e, outcome, di, db)
    PROVE  ~CountsAsDispute(e)
<1> DEFINE b == Pact(e).beneficiary
<1>1. b \in Agents /\ Pact(e).initiator # b /\ rep \in [Agents -> ReputationAccount]
    BY PartiesDiffer DEF IInv, TypeOK
<1>2. rep'[b] = UpdateReputation(rep[b], outcome, db, now)
    BY <1>1 DEF ScoreBoth
<1> HIDE DEF b
<1>3. rep[b] \in ReputationAccount
    BY <1>1
<1>4. rep'[b].dispute_count = rep[b].dispute_count
    BY <1>2, <1>3 DEF UpdateReputation, ReputationAccount
<1> QED
    BY <1>3, <1>4 DEF CountsAsDispute, ReputationAccount, b

(* What is paid by a decision, of a pact's terms and what is staked.       *)
LEMMA DecisionShares ==
    ASSUME NEW t \in Terms, NEW staked_amount \in Nat,
           NEW decision \in ArbiterDecision \ {NoDecision},
           decision.kind = "SplitFunds" => SplitComputable(t, decision.beneficiary_bps)
    PROVE  LET pay == DisputePayouts(t, staked_amount, decision)
           IN  /\ pay.fee = 0
               /\ pay.beneficiary < staked_amount =>
                      t.slash_loser_stake /\ decision = RefundToInitiator
               /\ pay.initiator < t.initiator_stake =>
                      t.slash_loser_stake /\ decision = ReleaseToBeneficiary
               /\ decision = ReleaseToBeneficiary =>
                      pay.beneficiary >= t.escrow_amount + staked_amount
               /\ decision = RefundToInitiator =>
                      pay.initiator >= t.escrow_amount + t.initiator_stake
<1>1. t.escrow_amount \in Nat /\ t.initiator_stake \in Nat /\ t.slash_loser_stake \in BOOLEAN
    BY TermsTyped
<1>2. RefundToInitiator # ReleaseToBeneficiary
    BY DEF RefundToInitiator, ReleaseToBeneficiary
<1>3. CASE decision = ReleaseToBeneficiary
    BY <1>1, <1>2, <1>3 DEF DisputePayouts, Slashed
<1>4. CASE decision = RefundToInitiator
    BY <1>1, <1>2, <1>4 DEF DisputePayouts, Slashed
<1>5. CASE decision # ReleaseToBeneficiary /\ decision # RefundToInitiator
    <2>1. PICK bps \in Splits \cup {5000} : decision = SplitFunds(bps)
        BY <1>5 DEF ArbiterDecision
    <2>2. decision.kind = "SplitFunds" /\ decision.beneficiary_bps = bps /\ bps \in Nat
        BY <2>1, EscrowAssumption DEF SplitFunds
    <2>3. SplitShare(t.escrow_amount, bps) \in 0..t.escrow_amount
        BY <2>2, SplitShareBounds
    <2>4. DisputePayouts(t, staked_amount, decision) =
            [beneficiary |-> SplitShare(t.escrow_amount, bps) + staked_amount,
             initiator   |-> t.escrow_amount - SplitShare(t.escrow_amount, bps)
                               + t.initiator_stake,
             fee         |-> 0]
        BY <1>5, <2>2 DEF DisputePayouts
    <2> QED
        BY <1>1, <1>5, <2>3, <2>4
<1> QED
    BY <1>3, <1>4, <1>5

(* The shares of a settlement, as SettlementShares states them of one      *)
(* escrow and one decision.                                                *)
SharesOf(e, decision) ==
    LET t == Pact(e)
    IN  /\ Gain(t.initiator) + Gain(t.beneficiary) + Gain(ProtocolAuthority) = Liability(e)
        /\ Gain(t.beneficiary) < EffectiveStake(e) =>
               t.slash_loser_stake /\ decision = RefundToInitiator
        /\ Gain(t.initiator) < t.initiator_stake =>
               t.slash_loser_stake /\ decision = ReleaseToBeneficiary
        /\ Gain(ProtocolAuthority) > 0 =>
               Status(e) = "Released" /\ ~CountsAsDispute(e)

LEMMA StakesTyped ==
    ASSUME IInv, NEW e \in EscrowIds, Status(e) # "Absent"
    PROVE  /\ Pact(e).escrow_amount \in Nat /\ Pact(e).initiator_stake \in Nat
           /\ Pact(e).beneficiary_stake \in Nat /\ EffectiveStake(e) \in Nat
           /\ escrow[e].beneficiary_staked \in BOOLEAN
           /\ Status(e) \in Committed => EffectiveStake(e) = Pact(e).beneficiary_stake
<1>1. /\ Pact(e).escrow_amount \in Nat /\ Pact(e).initiator_stake \in Nat
      /\ Pact(e).beneficiary_stake \in Nat
    BY PartiesDiffer, TermsTyped
<1>2. escrow[e].beneficiary_staked \in BOOLEAN
    BY DEF IInv, TypeOK, EscrowAccount
<1> QED
    BY <1>1, <1>2 DEF EffectiveStake, IInv, CommittedPayable

LEMMA DecisionPays ==
    ASSUME IInv, NEW e \in EscrowIds, Status(e) \in Held,
           NEW decision \in ArbiterDecision \ {NoDecision}, ApplyDecision(e, decision)
    PROVE  /\ SharesOf(e, decision)
           /\ decision = ReleaseToBeneficiary =>
                  Gain(Pact(e).beneficiary) >= Pact(e).escrow_amount + EffectiveStake(e)
           /\ decision = RefundToInitiator =>
                  Gain(Pact(e).initiator) >= Pact(e).escrow_amount + Pact(e).initiator_stake
<1> DEFINE pay == DisputePayouts(Pact(e), EffectiveStake(e), decision)
<1>1. Status(e) # "Absent"
    BY DEF Held, Committed
<1>2. /\ Pact(e) \in Terms /\ EffectiveStake(e) \in Nat
      /\ Pact(e).escrow_amount \in Nat /\ Pact(e).initiator_stake \in Nat
    BY <1>1, PartiesDiffer, StakesTyped
<1>3. decision.kind = "SplitFunds" => SplitComputable(Pact(e), decision.beneficiary_bps)
    BY DEF ApplyDecision
<1>4. /\ pay \in Payouts
      /\ Total(pay) = Pact(e).escrow_amount + Pact(e).initiator_stake + EffectiveStake(e)
    BY <1>2, <1>3, DisputePayoutsTotal
<1>5. /\ pay.fee = 0
      /\ pay.beneficiary < EffectiveStake(e) =>
             Pact(e).slash_loser_stake /\ decision = RefundToInitiator
      /\ pay.initiator < Pact(e).initiator_stake =>
             Pact(e).slash_loser_stake /\ decision = ReleaseToBeneficiary
      /\ decision = ReleaseToBeneficiary =>
             pay.beneficiary >= Pact(e).escrow_amount + EffectiveStake(e)
      /\ decision = RefundToInitiator =>
             pay.initiator >= Pact(e).escrow_amount + Pact(e).initiator_stake
    BY <1>2, <1>3, DecisionShares
<1>6. PayOut(e, pay)
    BY DEF ApplyDecision
<1> HIDE DEF pay
<1>7. /\ Gain(Pact(e).initiator) = pay.initiator
      /\ Gain(Pact(e).beneficiary) = pay.beneficiary
      /\ Gain(ProtocolAuthority) = pay.fee
    BY <1>1, <1>4, <1>6, PaidOut
<1>8. Liability(e) = pay.fee + pay.beneficiary + pay.initiator
    BY <1>4 DEF Liability, Total
<1>9. pay.beneficiary \in Nat /\ pay.initiator \in Nat
    BY <1>4 DEF Payouts
<1> QED
    BY <1>5, <1>7, <1>8, <1>9 DEF SharesOf

(* Every other settlement gives back both stakes.                          *)
LEMMA ReturnPays ==
    ASSUME IInv, NEW e \in EscrowIds, Status(e) \in Held, NEW pay \in Payouts,
           PayOut(e, pay), NEW decision,
           Total(pay) = Pact(e).escrow_amount + Pact(e).initiator_stake + EffectiveStake(e),
           pay.beneficiary >= EffectiveStake(e), pay.initiator >= Pact(e).initiator_stake,
           pay.fee > 0 => Status(e) = "Released" /\ ~CountsAsDispute(e)
    PROVE  SharesOf(e, decision)
<1>1. Status(e) # "Absent"
    BY DEF Held, Committed
<1>2. /\ Gain(Pact(e).initiator) = pay.initiator
      /\ Gain(Pact(e).beneficiary) = pay.beneficiary
      /\ Gain(ProtocolAuthority) = pay.fee
    BY <1>1, PaidOut
<1>3. Liability(e) = pay.fee + pay.beneficiary + pay.initiator
    BY DEF Liability, Total
<1>4. /\ pay.beneficiary \in Nat /\ pay.initiator \in Nat
      /\ EffectiveStake(e) \in Nat /\ Pact(e).initiator_stake \in Nat
    BY <1>1, StakesTyped DEF Payouts
<1>5. ~(Gain(Pact(e).beneficiary) < EffectiveStake(e))
    BY <1>2, <1>4
<1>6. ~(Gain(Pact(e).initiator) < Pact(e).initiator_stake)
    BY <1>2, <1>4
<1>7. /\ Gain(Pact(e).initiator) + Gain(Pact(e).beneficiary) + Gain(ProtocolAuthority)
            = Liability(e)
      /\ Gain(ProtocolAuthority) > 0 => Status(e) = "Released" /\ ~CountsAsDispute(e)
    BY <1>2, <1>3, <1>4 DEF Payouts
<1> QED
    BY <1>5, <1>6, <1>7 DEF SharesOf

(* The three rules that return a pact's money, for its own terms.          *)
LEMMA ReturnShares ==
    ASSUME NEW t \in Terms, NEW staked \in BOOLEAN
    PROVE  /\ RefundPayouts(t).fee = 0 /\ RefundPayouts(t).beneficiary = t.beneficiary_stake
           /\ RefundPayouts(t).initiator >= t.initiator_stake
           /\ CancelPayouts(t, staked).fee = 0
           /\ CancelPayouts(t, staked).beneficiary
                = IF staked THEN t.beneficiary_stake ELSE 0
           /\ CancelPayouts(t, staked).initiator >= t.initiator_stake
           /\ ClaimPayouts(t).beneficiary >= t.beneficiary_stake
           /\ ClaimPayouts(t).initiator = t.initiator_stake
<1>1. t.escrow_amount \in Nat /\ t.initiator_stake \in Nat /\ t.beneficiary_stake \in Nat
    BY TermsTyped
<1>2. ClaimFee(t.escrow_amount) \in 0..t.escrow_amount
    BY SMT, <1>1 DEF ClaimFee, PROTOCOL_FEE_BPS, BPS_DENOMINATOR
<1> QED
    BY <1>1, <1>2 DEF RefundPayouts, CancelPayouts, ClaimPayouts

LEMMA SettlingPays ==
    ASSUME IInv, [Next]_vars, NEW e \in EscrowIds, Settles(e)
    PROVE  SharesOf(e, dispute'[e].arbiter_decision)
<1> DEFINE recorded == dispute'[e].arbiter_decision
<1>1. Status(e) \in Held /\ Status(e) # "Absent"
    BY DEF Settles, Held, Committed
<1>2. /\ Pact(e) \in Terms /\ EffectiveStake(e) \in Nat
      /\ Pact(e).escrow_amount \in Nat /\ Pact(e).initiator_stake \in Nat
      /\ escrow[e].beneficiary_staked \in BOOLEAN
      /\ Status(e) \in Committed => EffectiveStake(e) = Pact(e).beneficiary_stake
    BY <1>1, PartiesDiffer, StakesTyped
<1>3. CASE ClaimReleased(e)
    <2>1. /\ PayOut(e, ClaimPayouts(Pact(e))) /\ Status(e) = "Released"
          /\ ScoreBoth(e, "Fulfilled", FULFILLED_SCORE_DELTA, FULFILLED_SCORE_DELTA)
        BY <1>3 DEF ClaimReleased
    <2>2. ~CountsAsDispute(e)
        BY <1>1, <2>1, CancellationsDoNotCount
    <2>3. EffectiveStake(e) = Pact(e).beneficiary_stake
        BY <1>2, <2>1 DEF Committed
    <2> DEFINE pay == ClaimPayouts(Pact(e))
    <2>4. /\ pay \in Payouts /\ pay.beneficiary >= Pact(e).beneficiary_stake
          /\ pay.initiator >= Pact(e).initiator_stake
          /\ Total(pay) = Pact(e).escrow_amount + Pact(e).initiator_stake
                            + Pact(e).beneficiary_stake
        BY <1>2, ClaimPayoutsTotal, ReturnShares
    <2> HIDE DEF pay
    <2>5. PayOut(e, pay)
        BY <2>1 DEF pay
    <2> QED
        BY <1>1, <2>1, <2>2, <2>3, <2>4, <2>5, ReturnPays
<1>4. CASE Refund(e) \/ (AutoRelease(e) /\ ~Release(e)) \/ MutualCancelEscrow(e)
    <2>1. PayOut(e, RefundPayouts(Pact(e))) /\ Status(e) \in Committed
        BY <1>4 DEF Refund, AutoRelease, MutualCancelEscrow, Committed
    <2>2. EffectiveStake(e) = Pact(e).beneficiary_stake
        BY <1>2, <2>1
    <2> DEFINE pay == RefundPayouts(Pact(e))
    <2>3. /\ pay \in Payouts /\ pay.fee = 0 /\ pay.beneficiary = Pact(e).beneficiary_stake
          /\ pay.initiator >= Pact(e).initiator_stake
          /\ Total(pay) = Pact(e).escrow_amount + Pact(e).initiator_stake
                            + Pact(e).beneficiary_stake
        BY <1>2, RefundPayoutsTotal, ReturnShares
    <2> HIDE DEF pay
    <2>4. PayOut(e, pay)
        BY <2>1 DEF pay
    <2>5. pay.beneficiary >= EffectiveStake(e) /\ ~(pay.fee > 0)
        BY <1>2, <2>2, <2>3
    <2> QED
        BY <1>1, <2>2, <2>3, <2>4, <2>5, ReturnPays
<1>5. CASE CancelPendingEscrow(e)
    <2> DEFINE staked == escrow[e].beneficiary_staked
               pay == CancelPayouts(Pact(e), staked)
    <2>1. PayOut(e, pay)
        BY <1>5 DEF CancelPendingEscrow
    <2>2. /\ pay \in Payouts /\ pay.fee = 0
          /\ pay.beneficiary = IF staked THEN Pact(e).beneficiary_stake ELSE 0
          /\ pay.initiator >= Pact(e).initiator_stake
          /\ Total(pay) = Pact(e).escrow_amount + Pact(e).initiator_stake
                            + (IF staked THEN Pact(e).beneficiary_stake ELSE 0)
        BY <1>2, CancelPayoutsTotal, ReturnShares
    <2>3. EffectiveStake(e) = IF staked THEN Pact(e).beneficiary_stake ELSE 0
        BY DEF EffectiveStake
    <2> HIDE DEF pay, staked
    <2>4. pay.beneficiary >= EffectiveStake(e) /\ ~(pay.fee > 0)
        BY <1>2, <2>2, <2>3
    <2> QED
        BY <1>1, <2>1, <2>2, <2>3, <2>4, ReturnPays
<1>6. CASE \E decision \in ArbiterDecision \ {NoDecision} :
             ApplyDecision(e, decision) /\ recorded = decision
    BY <1>1, <1>6, DecisionPays
<1> QED
    BY <1>3, <1>4, <1>5, <1>6, SettlingActions

(* A settlement hands out all that was owed and nothing else, a party is   *)
(* out of its own stake only when the pact slashes and the decision went   *)
(* against it, and the protocol earns only on a claim, for any amounts,    *)
(* stakes and splits.                                                      *)
THEOREM SettlementsShare == Spec => SettlementShares
<1> DEFINE Shared == \A e \in EscrowIds : Settles(e) =>
         LET t == Pact(e)
             i == t.initiator
             b == t.beneficiary
             decision == dispute'[e].arbiter_decision
         IN  /\ Gain(i) + Gain(b) + Gain(ProtocolAuthority) = Liability(e)
             /\ Gain(b) < EffectiveStake(e) =>
                    t.slash_loser_stake /\ decision = RefundToInitiator
             /\ Gain(i) < t.initiator_stake =>
                    t.slash_loser_stake /\ decision = ReleaseToBeneficiary
             /\ Gain(ProtocolAuthority) > 0 =>
                    Status(e) = "Released" /\ ~CountsAsDispute(e)
<1>1. IInv /\ [Next]_vars => Shared
    BY SettlingPays DEF SharesOf
<1> QED
    BY <1>1, InvariantHolds, PTL DEF Spec, SettlementShares

(* Outside a dispute, only a freeze is recorded as one.                    *)
LEMMA OnlyFreezesCount ==
    ASSUME IInv, [Next]_vars, NEW e \in EscrowIds, CountsAsDispute(e), Status(e) # "Disputed"
    PROVE  \E decision \in ArbiterDecision \ {NoDecision} : Freezes(e, decision)
<1>1. Settles(e) /\ Status(e) # "Absent"
    BY DEF CountsAsDispute, Settles, Held, Committed
<1>2. ~ClaimReleased(e) /\ ~MutualCancelEscrow(e) /\ ~CancelPendingEscrow(e)
    BY <1>1, CancellationsDoNotCount
       DEF ClaimReleased, MutualCancelEscrow, CancelPendingEscrow
<1>3. ~Refund(e) /\ ~(AutoRelease(e) /\ ~Release(e))
    BY <1>1, CancellationsDoNotCount DEF Refund, AutoRelease
<1> QED
    BY <1>1, <1>2, <1>3, SettlingActions

(* Outside a dispute, a freeze never costs a party without a blacklisted   *)
(* wallet anything: it gets its stake back, and the payment.               *)
THEOREM FreezesSpareTheUnlisted == Spec => FreezeSparesTheUnlisted
<1> DEFINE Spared == \A e \in EscrowIds :
         CountsAsDispute(e) /\ Status(e) # "Disputed" =>
             \A a \in Parties(e) : ~ShowsBlacklisted(a) =>
                 Gain(a) >= Pact(e).escrow_amount +
                     (IF a = Pact(e).initiator THEN Pact(e).initiator_stake
                      ELSE EffectiveStake(e))
<1>1. IInv /\ [Next]_vars => Spared
    <2> SUFFICES ASSUME IInv, [Next]_vars, NEW e \in EscrowIds, CountsAsDispute(e),
                        Status(e) # "Disputed", NEW a \in Parties(e), ~ShowsBlacklisted(a)
                 PROVE  Gain(a) >= Pact(e).escrow_amount +
                            (IF a = Pact(e).initiator THEN Pact(e).initiator_stake
                             ELSE EffectiveStake(e))
        OBVIOUS
    <2>1. PICK decision \in ArbiterDecision \ {NoDecision} : Freezes(e, decision)
        BY OnlyFreezesCount
    <2>2. PICK flagged \in SUBSET Agents :
              ProtocolFreezePact(e, flagged) /\ decision = FreezeDecision(e, flagged)
        BY <2>1 DEF Freezes
    <2>3. /\ Status(e) \in Held /\ ApplyDecision(e, decision)
          /\ flagged # {} /\ flagged \subseteq Parties(e) /\ a \notin flagged
        BY <2>2 DEF ProtocolFreezePact
    <2>4. CASE a = Pact(e).initiator
        <3>1. decision = RefundToInitiator
            BY <2>2, <2>3, <2>4 DEF FreezeDecision
        <3> QED
            BY <2>3, <2>4, <3>1, DecisionPays
    <2>5. CASE a # Pact(e).initiator
        <3>1. a = Pact(e).beneficiary /\ Pact(e).initiator \in flagged
            BY <2>3, <2>5 DEF Parties
        <3>2. decision = ReleaseToBeneficiary
            BY <2>2, <2>3, <3>1 DEF FreezeDecision
        <3> QED
            BY <2>3, <2>5, <3>1, <3>2, DecisionPays
    <2> QED
        BY <2>4, <2>5
<1> QED
    BY <1>1, InvariantHolds, PTL DEF Spec, FreezeSparesTheUnlisted
================================================================================
