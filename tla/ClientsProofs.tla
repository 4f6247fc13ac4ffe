----------------------------- MODULE ClientsProofs -----------------------------
(***************************************************************************)
(* Theorems of the composition, for any number of escrows, calls and       *)
(* requests, any retry limits and bounds: the SDK's calls and the keeper   *)
(* do nothing the escrow program's specification does not allow, what a    *)
(* call asked for happens to a pact at most once however often it is       *)
(* resent, and what it reported as done stays done.                        *)
(***************************************************************************)
EXTENDS Clients, DisputeProofs

--------------------------------------------------------------------------------
(* Every step of a client is an instruction of the program or none at all. *)
LEMMA RequestsTyped ==
    ASSUME NEW q \in Requests
    PROVE  /\ q.id \in EscrowIds /\ q.signer \in Agents /\ q.terms \in Terms
           /\ q.op \in Ops /\ q.wrapped \in BOOLEAN
    BY SdkAssumption DEF Request

LEMMA ProgramIsAStep ==
    ASSUME NEW q \in Requests, Program(q)
    PROVE  EscrowStep(q.id) /\ Next
<1>1. EscrowStep(q.id)
    BY RequestsTyped DEF Program, createPact, handleSubmit, depositEscrow, stakeBeneficiary,
       lockEscrow, releasePact, openDispute, EscrowStep
<1> QED
    BY <1>1, RequestsTyped DEF Next

LEMMA KeeperSteps ==
    ASSUME KeeperStep
    PROVE  UNCHANGED vars \/ \E e \in EscrowIds : AutoRelease(e)
    BY DEF KeeperStep, Poll, CrankLands, CrankFails

LEMMA SdkSteps ==
    ASSUME NEW c \in CallIds, SdkStep(c)
    PROVE  UNCHANGED <<vars, pacts>> \/ (Program(Req(c)) /\ CountPacts)
    BY Zenon DEF SdkStep, Execute, LandLate

CallsTyped ==
    /\ calls \in [CallIds -> Call]
    /\ pacts \in [EscrowIds -> Nat]

LEMMA StutterCounts ==
    ASSUME CallsTyped, UNCHANGED <<escrow, pacts>>
    PROVE  CountPacts
    BY DEF CallsTyped, CountPacts, Status

(* The pact counters follow the program, whoever moves it.                 *)
LEMMA ClientsMove ==
    ASSUME IInv, CallsTyped, [ClientsNext]_allVars
    PROVE  [Next]_vars /\ CountPacts
<1>1. CASE Next /\ CountPacts /\ UNCHANGED <<calls, keeper>>
    BY <1>1
<1>2. CASE \E c \in CallIds : SdkStep(c)
    <2> PICK c \in CallIds : SdkStep(c)
        BY <1>2
    <2>1. PICK q \in Requests : q = Req(c)
        BY DEF CallsTyped, Call, Req
    <2>2. UNCHANGED <<vars, pacts>> \/ (Program(q) /\ CountPacts)
        BY <2>1, SdkSteps
    <2> QED
        BY <2>2, ProgramIsAStep, StutterCounts DEF vars
<1>3. CASE KeeperStep /\ UNCHANGED <<calls, pacts>>
    <2>1. CASE UNCHANGED vars
        BY <1>3, <2>1, StutterCounts DEF vars
    <2>2. ASSUME NEW e \in EscrowIds, AutoRelease(e) PROVE Next /\ CountPacts
        <3>1. EscrowStep(e)
            BY <2>2 DEF EscrowStep
        <3>2. \A f \in EscrowIds \ {e} : escrow'[f] = escrow[f]
            BY <3>1, StatusMoves
        <3>3. Status(e) # "Absent"
            BY <2>2 DEF AutoRelease
        <3>4. \A f \in EscrowIds : ~(Status(f) = "Absent" /\ escrow'[f].status # "Absent")
            BY <3>2, <3>3 DEF Status
        <3>5. CountPacts
            BY <1>3, <3>4 DEF CountPacts, CallsTyped
        <3> QED
            BY <3>1, <3>5 DEF Next
    <2> QED
        BY <1>3, <2>1, <2>2, KeeperSteps
<1>4. CASE UNCHANGED allVars
    BY <1>4, StutterCounts DEF allVars, vars
<1> QED
    BY <1>1, <1>2, <1>3, <1>4 DEF ClientsNext

--------------------------------------------------------------------------------
(* What Achieved says of one escrow account r and one dispute record d.    *)
Past(op, r, d) ==
    CASE op = "depositEscrow"    -> r.status # "Pending"
      [] op = "stakeBeneficiary" -> r.beneficiary_staked
      [] op = "lockEscrow"       -> r.status \notin {"Pending", "Funded"}
      [] op = "releasePact"      -> r.status \notin {"Pending", "Funded", "Locked"}
      [] op = "openDispute"      -> d.created_at > 0
      [] op = "createPact"       -> TRUE
      [] OTHER                   -> FALSE

LEMMA AchievedIsPast ==
    ASSUME NEW op, NEW e \in EscrowIds
    PROVE  Achieved(op, e) <=> Past(op, escrow[e], dispute[e])
    BY DEF Achieved, Past, Status

(* A stake that was paid in and a record that was raised are there until   *)
(* the escrow account is closed.                                           *)
LEMMA FlagsLast ==
    ASSUME IInv, NEW e \in EscrowIds, EscrowStep(e), escrow[e].status # "Absent",
           escrow'[e].status # "Absent"
    PROVE  /\ escrow[e].beneficiary_staked => escrow'[e].beneficiary_staked
           /\ dispute[e].created_at > 0 => dispute'[e].created_at > 0
<1>0. /\ escrow \in [EscrowIds -> EscrowAccount] /\ dispute \in [EscrowIds -> DisputeRecord]
      /\ now \in Nat \ {0}
    BY DEF IInv, TypeOK
<1>1. ASSUME NEW status, SetStatus(e, status)
      PROVE  escrow'[e].beneficiary_staked = escrow[e].beneficiary_staked
    BY <1>0, <1>1 DEF SetStatus, EscrowAccount
<1>2. ASSUME Release(e) PROVE escrow'[e].beneficiary_staked = escrow[e].beneficiary_staked
    BY <1>0, <1>2 DEF Release, EscrowAccount
<1>3. CASE \E t \in Terms : InitializeEscrow(e, t)
    BY <1>3 DEF InitializeEscrow, Status
<1>4. CASE \/ DepositFunds(e) \/ LockEscrow(e) \/ ClaimReleased(e)
           \/ Refund(e) \/ MutualCancelEscrow(e) \/ CancelPendingEscrow(e)
    BY <1>1, <1>4 DEF DepositFunds, LockEscrow, ClaimReleased, Refund, MutualCancelEscrow,
       CancelPendingEscrow
<1>5. CASE StakeBeneficiary(e)
    BY <1>0, <1>5 DEF StakeBeneficiary, EscrowAccount
<1>6. CASE ReleaseEscrow(e) \/ AutoRelease(e)
    BY <1>1, <1>2, <1>6 DEF ReleaseEscrow, AutoRelease
<1>7. CASE \E a \in Agents : RaiseDispute(e, a)
    <2>1. dispute[e] = NoDispute
        BY <1>7 DEF RaiseDispute
    <2>2. escrow'[e].beneficiary_staked = escrow[e].beneficiary_staked
        BY <1>1, <1>7 DEF RaiseDispute
    <2> QED
        BY <2>1, <2>2 DEF NoDispute
<1>8. CASE \E a \in Agents : EscalateDispute(e, a)
    BY <1>0, <1>8 DEF EscalateDispute, DisputeRecord
<1>9. CASE \E decision \in ArbiterDecision : ResolveDispute(e, decision)
    <2>1. escrow'[e].beneficiary_staked = escrow[e].beneficiary_staked
        BY <1>1, <1>9 DEF ResolveDispute, ApplyDecision
    <2> QED
        BY <1>0, <1>9, <2>1 DEF ResolveDispute, DisputeRecord
<1>10. CASE \E with_record \in BOOLEAN : CloseEscrow(e, with_record)
    BY <1>0, <1>10 DEF CloseEscrow, AbsentEscrow
<1>11. CASE \E flagged \in SUBSET Agents : ProtocolFreezePact(e, flagged)
    <2>1. escrow'[e].beneficiary_staked = escrow[e].beneficiary_staked
        BY <1>1, <1>11 DEF ProtocolFreezePact, ApplyDecision
    <2>2. PICK decision : dispute' = [dispute EXCEPT ![e] =
                             IF @.created_at = 0
                             THEN [NoDispute EXCEPT !.created_at = now,
                                                    !.raised_by = ProtocolAuthority,
                                                    !.resolution_deadline = now,
                                                    !.arbiter_decision = decision]
                             ELSE [@ EXCEPT !.arbiter_decision = decision]]
        BY <1>11 DEF ProtocolFreezePact
    <2> QED
        BY <1>0, <2>1, <2>2 DEF DisputeRecord
<1>12. CASE \E a \in Agents : Donate(e, a)
    BY <1>12 DEF Donate
<1> QED
    BY <1>3, <1>4, <1>5, <1>6, <1>7, <1>8, <1>9, <1>10, <1>11, <1>12 DEF EscrowStep

(* A step on another escrow leaves the records of this one alone.          *)
LEMMA RecordsApart ==
    ASSUME IInv, NEW e \in EscrowIds, NEW f \in EscrowIds \ {e}, EscrowStep(f)
    PROVE  escrow'[e] = escrow[e] /\ dispute'[e] = dispute[e]
<1>1. escrow'[e] = escrow[e]
    BY StatusMoves
<1>2. dispute'[e] = dispute[e]
    BY DEF IInv, TypeOK, EscrowStep, InitializeEscrow, DepositFunds, StakeBeneficiary,
       LockEscrow, ReleaseEscrow, ClaimReleased, AutoRelease, RaiseDispute, EscalateDispute,
       ResolveDispute, Refund, CloseEscrow, ProtocolFreezePact, MutualCancelEscrow,
       CancelPendingEscrow, Donate
<1> QED
    BY <1>1, <1>2

LEMMA OutsideKeepsRecords ==
    ASSUME [Next]_vars, \A e \in EscrowIds : ~EscrowStep(e)
    PROVE  escrow' = escrow /\ dispute' = dispute
    BY DEF Next, vars, Tick, SetAgentStatus, CloseAgentWallet, RegisterAgentWallet,
       InitReputation

(* What an operation has brought a pact to, no step takes back but the one *)
(* that closes the pact.                                                   *)
LEMMA AchievementsLast ==
    ASSUME IInv, [Next]_vars, NEW e \in EscrowIds, NEW op,
           escrow[e].status # "Absent", escrow'[e].status # "Absent",
           Past(op, escrow[e], dispute[e])
    PROVE  Past(op, escrow'[e], dispute'[e])
<1>1. CASE escrow'[e] = escrow[e] /\ dispute'[e] = dispute[e]
    BY <1>1
<1>2. CASE EscrowStep(e)
    <2>1. \/ escrow'[e].status = escrow[e].status
          \/ escrow[e].status = "Locked" /\ escrow'[e].status = "Released"
          \/ <<escrow[e].status, escrow'[e].status>> \in StatusGraph
        <3>1. Release(e) => escrow'[e].status = "Released"
            BY DEF Release, IInv, TypeOK, EscrowAccount
        <3> QED
            BY <1>2, <3>1, StatusMoves DEF Status
    <2>2. \/ escrow'[e].status = escrow[e].status
          \/ escrow'[e].status \notin {"Pending", "Funded", "Locked"}
          \/ escrow[e].status = "Pending"
          \/ escrow[e].status = "Funded" /\ escrow'[e].status = "Locked"
        BY <2>1 DEF StatusGraph, Held, Committed
    <2>3. escrow[e].status = "Pending" /\ escrow'[e].status # "Pending"
             => escrow'[e].status = "Funded"
        BY <2>1 DEF StatusGraph, Held, Committed
    <2> QED
        BY <1>2, <2>2, <2>3, FlagsLast DEF Past
<1>3. CASE \E f \in EscrowIds \ {e} : EscrowStep(f)
    BY <1>1, <1>3, RecordsApart
<1> QED
    BY <1>1, <1>2, <1>3, OutsideKeepsRecords

--------------------------------------------------------------------------------
(* The effects of a call of operation op on an id, when the account there  *)
(* is r, the dispute record d, and n pacts have had the id: each was on a  *)
(* pact of its own, and the last of them, if that is still there, is past  *)
(* the operation.                                                          *)
EffectsOK(op, effects, r, d, n) ==
    /\ effects \in Seq(Nat)
    /\ \A i, k \in 1..Len(effects) : effects[i] = effects[k] => i = k
    /\ \A k \in 1..Len(effects) :
         /\ effects[k] <= n
         /\ effects[k] = n => \/ r.status = "Absent" \/ op = "handleSubmit"
                              \/ Past(op, r, d)

LEMMA CountsGrow ==
    ASSUME CallsTyped, CountPacts, NEW e \in EscrowIds
    PROVE  /\ pacts[e] \in Nat
           /\ pacts'[e] = IF escrow[e].status = "Absent" /\ escrow'[e].status # "Absent"
                          THEN pacts[e] + 1 ELSE pacts[e]
    BY DEF CallsTyped, CountPacts, Status

LEMMA WorldKeepsEffects ==
    ASSUME IInv, CallsTyped, [Next]_vars, CountPacts, NEW e \in EscrowIds, NEW op, NEW effects,
           EffectsOK(op, effects, escrow[e], dispute[e], pacts[e])
    PROVE  EffectsOK(op, effects, escrow'[e], dispute'[e], pacts'[e])
<1> SUFFICES ASSUME NEW k \in 1..Len(effects)
             PROVE  /\ effects[k] <= pacts'[e]
                    /\ effects[k] = pacts'[e] =>
                         \/ escrow'[e].status = "Absent" \/ op = "handleSubmit"
                         \/ Past(op, escrow'[e], dispute'[e])
    BY DEF EffectsOK
<1>1. /\ effects[k] \in Nat /\ effects[k] <= pacts[e]
      /\ effects[k] = pacts[e] => \/ escrow[e].status = "Absent" \/ op = "handleSubmit"
                                  \/ Past(op, escrow[e], dispute[e])
    BY DEF EffectsOK
<1>2. CASE escrow[e].status = "Absent" /\ escrow'[e].status # "Absent"
    BY <1>1, <1>2, CountsGrow
<1>3. CASE escrow'[e].status = "Absent"
    BY <1>1, <1>3, CountsGrow
<1>4. CASE escrow[e].status # "Absent" /\ escrow'[e].status # "Absent"
    BY <1>1, <1>4, CountsGrow, AchievementsLast
<1> QED
    BY <1>2, <1>3, <1>4

(* An instruction a call asked for brings its pact to where the operation  *)
(* leads, from where it was not; a creation starts a new pact.             *)
LEMMA ProgramAchieves ==
    ASSUME IInv, NEW q \in Requests, Program(q)
    PROVE  /\ \/ /\ escrow[q.id].status = "Absent" /\ escrow'[q.id].status # "Absent"
                 /\ q.op \in Creating
              \/ /\ escrow[q.id].status # "Absent" /\ q.op \notin Creating
                 /\ ~Past(q.op, escrow[q.id], dispute[q.id])
           /\ q.op = "handleSubmit" \/ Past(q.op, escrow'[q.id], dispute'[q.id])
<1> DEFINE e == q.id
<1>0. /\ e \in EscrowIds /\ escrow \in [EscrowIds -> EscrowAccount]
      /\ dispute \in [EscrowIds -> DisputeRecord] /\ now \in Nat \ {0}
    BY RequestsTyped DEF IInv, TypeOK
<1>1. CASE createPact(q) \/ handleSubmit(q)
    <2>1. escrow[e].status = "Absent" /\ escrow'[e].status = "Pending"
        <3>1. escrow[e].status = "Absent" /\ InitializeEscrow(e, q.terms)
            BY <1>1 DEF createPact, handleSubmit, InitializeEscrow, Status
        <3>2. \E expires : escrow' = [escrow EXCEPT ![e] = [AbsentEscrow EXCEPT
                    !.status = "Pending", !.terms = q.terms,
                    !.time_lock_expires_at = expires]]
            BY <3>1 DEF InitializeEscrow
        <3> QED
            BY <1>0, <3>1, <3>2 DEF AbsentEscrow
    <2>2. q.op \in {"createPact", "handleSubmit"}
        BY <1>1 DEF createPact, handleSubmit
    <2> QED
        BY <2>1, <2>2 DEF Creating, Past
<1>2. CASE depositEscrow(q)
    <2>1. escrow'[e].status = "Funded" /\ escrow[e].status = "Pending"
        BY <1>0, <1>2, SetStatusMoves
           DEF depositEscrow, DepositFunds, SetStatus, Status, EscrowStatus, EscrowAccount
    <2> QED
        BY <1>2, <2>1 DEF depositEscrow, Creating, Past
<1>3. CASE stakeBeneficiary(q)
    <2>1. /\ escrow[e].status = "Funded" /\ ~escrow[e].beneficiary_staked
          /\ escrow'[e].beneficiary_staked
        BY <1>0, <1>3 DEF stakeBeneficiary, StakeBeneficiary, Status, EscrowAccount
    <2> QED
        BY <1>3, <2>1 DEF stakeBeneficiary, Creating, Past
<1>4. CASE lockEscrow(q)
    <2>1. escrow[e].status = "Funded" /\ escrow'[e].status = "Locked"
        BY <1>0, <1>4 DEF lockEscrow, LockEscrow, SetStatus, Status, EscrowAccount
    <2> QED
        BY <1>4, <2>1 DEF lockEscrow, Creating, Past
<1>5. CASE releasePact(q)
    <2>1. escrow[e].status = "Locked" /\ escrow'[e].status = "Released"
        BY <1>0, <1>5 DEF releasePact, ReleaseEscrow, Release, Status, EscrowAccount
    <2> QED
        BY <1>5, <2>1 DEF releasePact, Creating, Past
<1>6. CASE openDispute(q)
    <2>1. /\ escrow[e].status # "Absent" /\ dispute[e].created_at = 0
          /\ dispute'[e].created_at = now
        BY <1>0, <1>6 DEF openDispute, RaiseDispute, Status, NoDispute
    <2> QED
        BY <1>0, <1>6, <2>1 DEF openDispute, Creating, Past
<1> QED
    BY <1>1, <1>2, <1>3, <1>4, <1>5, <1>6 DEF Program

LEMMA ProgramAddsEffect ==
    ASSUME IInv, CallsTyped, CountPacts, NEW q \in Requests, Program(q), NEW effects,
           EffectsOK(q.op, effects, escrow[q.id], dispute[q.id], pacts[q.id])
    PROVE  EffectsOK(q.op, Append(effects, pacts'[q.id]),
                     escrow'[q.id], dispute'[q.id], pacts'[q.id])
<1> DEFINE e == q.id
           more == Append(effects, pacts'[e])
<1>0. e \in EscrowIds /\ [Next]_vars
    BY RequestsTyped, ProgramIsAStep
<1>1. EffectsOK(q.op, effects, escrow'[e], dispute'[e], pacts'[e])
    <2> HIDE DEF e
    <2> QED
        BY Zenon, <1>0, WorldKeepsEffects DEF e
<1>2. effects \in Seq(Nat) /\ pacts'[e] \in Nat /\ pacts[e] \in Nat
    BY <1>0, CountsGrow DEF EffectsOK
<1>3. \A k \in 1..Len(effects) : effects[k] \in Nat /\ effects[k] < pacts'[e]
    <2> SUFFICES ASSUME NEW k \in 1..Len(effects)
                 PROVE  effects[k] \in Nat /\ effects[k] < pacts'[e]
        OBVIOUS
    <2>1. /\ effects[k] \in Nat /\ effects[k] <= pacts[e]
          /\ effects[k] = pacts[e] => \/ escrow[e].status = "Absent" \/ q.op = "handleSubmit"
                                      \/ Past(q.op, escrow[e], dispute[e])
        BY DEF EffectsOK
    <2>2. CASE escrow[e].status = "Absent" /\ escrow'[e].status # "Absent"
        <3>1. pacts'[e] = pacts[e] + 1
            BY <1>0, <2>2, CountsGrow
        <3> QED
            BY <1>2, <2>1, <3>1
    <2>3. CASE /\ escrow[e].status # "Absent" /\ q.op \notin Creating
               /\ ~Past(q.op, escrow[e], dispute[e])
        <3>1. pacts'[e] = pacts[e]
            BY <1>0, <2>3, CountsGrow
        <3>2. effects[k] # pacts[e]
            BY <2>1, <2>3 DEF Creating
        <3> QED
            BY <1>2, <2>1, <3>1, <3>2
    <2> QED
        BY <2>2, <2>3, ProgramAchieves
<1>4. /\ more \in Seq(Nat) /\ Len(more) = Len(effects) + 1
      /\ more[Len(effects) + 1] = pacts'[e]
      /\ \A k \in 1..Len(effects) : more[k] = effects[k]
    BY <1>2
<1>5. q.op = "handleSubmit" \/ Past(q.op, escrow'[e], dispute'[e])
    BY ProgramAchieves
<1>6. \A i, k \in 1..Len(effects) : effects[i] = effects[k] => i = k
    BY DEF EffectsOK
<1> DEFINE n == Len(effects)
<1>n. n \in Nat
    BY <1>2
<1> HIDE DEF more, e, n
<1>7. \A i, k \in 1..Len(more) : more[i] = more[k] => i = k
    <2> SUFFICES ASSUME NEW i \in 1..n + 1, NEW k \in 1..n + 1, more[i] = more[k]
                 PROVE  i = k
        BY <1>4 DEF n
    <2>1. \A j \in 1..n : more[j] # more[n + 1]
        BY <1>2, <1>3, <1>4 DEF n
    <2>2. CASE i = n + 1 \/ k = n + 1
        BY <1>n, <2>1, <2>2
    <2>3. CASE i # n + 1 /\ k # n + 1
        <3>1. i \in 1..n /\ k \in 1..n
            BY <1>n, <2>3
        <3> QED
            BY <1>4, <1>6, <3>1 DEF n
    <2> QED
        BY <2>2, <2>3
<1>8. \A k \in 1..Len(more) : more[k] <= pacts'[e]
    <2> SUFFICES ASSUME NEW k \in 1..n + 1 PROVE more[k] <= pacts'[e]
        BY <1>4 DEF n
    <2>1. k \in 1..n \/ k = n + 1
        BY <1>n
    <2> QED
        BY <1>2, <1>3, <1>4, <2>1 DEF n
<1>9. \A k \in 1..Len(more) : more[k] = pacts'[e] =>
         q.op = "handleSubmit" \/ Past(q.op, escrow'[e], dispute'[e])
    BY <1>5
<1>10. EffectsOK(q.op, more, escrow'[e], dispute'[e], pacts'[e])
    BY <1>4, <1>7, <1>8, <1>9 DEF EffectsOK
<1> QED
    BY <1>10 DEF more, e

--------------------------------------------------------------------------------
(* Where a call stands and what it has to show for it: it sends while it   *)
(* has attempts left, and neither waits for the created account nor        *)
(* returns a signature before an attempt took effect.                      *)
CallOK(call) ==
    /\ call \in Call
    /\ call.phase \in {"unused", "reading"} => call.attempts = 0
    /\ call.phase = "unused" =>
         /\ call.effects = <<>> /\ call.sent = "none" /\ call.adrift = 0
         /\ call.outcome = "none"
    /\ call.phase = "sending" => call.attempts < MAX_ATTEMPTS
    /\ call.sent = "landed" \/ call.phase = "rereading" => call.effects # <<>>
    /\ call.outcome = "ok" /\ call.request.op # "handleSubmit" => call.effects # <<>>

(* The inductive invariant of the composition, on top of the program's.    *)
CallsInv ==
    /\ CallsTyped
    /\ keeper \subseteq EscrowIds
    /\ \A c \in CallIds :
         /\ CallOK(calls[c])
         /\ EffectsOK(Req(c).op, calls[c].effects,
                      escrow[Req(c).id], dispute[Req(c).id], pacts[Req(c).id])

LEMMA CallTyped ==
    ASSUME NEW call \in Call
    PROVE  /\ call.request \in Requests /\ call.request.id \in EscrowIds
           /\ call.tries \in 1..MAX_TRIES /\ call.attempts \in 0..MAX_ATTEMPTS
           /\ call.adrift \in 0..MaxAdrift /\ call.effects \in Seq(Nat)
           /\ MAX_TRIES \in Nat \ {0} /\ MAX_ATTEMPTS \in Nat \ {0} /\ MaxAdrift \in Nat \ {0}
    BY RequestsTyped, SdkAssumption DEF Call

(* Whoever moves, the calls that do not are still all right.               *)
LEMMA OthersKept ==
    ASSUME IInv, CallsInv, [Next]_vars, CountPacts, NEW c \in CallIds, calls'[c] = calls[c]
    PROVE  /\ CallOK(calls'[c])
           /\ EffectsOK(Req(c)'.op, calls'[c].effects,
                        escrow'[Req(c)'.id], dispute'[Req(c)'.id], pacts'[Req(c)'.id])
<1>1. PICK q, effects : q = calls[c].request /\ effects = calls[c].effects
    OBVIOUS
<1>2. CallsTyped /\ q \in Requests /\ q.id \in EscrowIds
    BY <1>1, CallTyped DEF CallsInv, CallOK
<1>3. EffectsOK(q.op, effects, escrow[q.id], dispute[q.id], pacts[q.id])
    BY <1>1 DEF CallsInv, Req
<1>4. EffectsOK(q.op, effects, escrow'[q.id], dispute'[q.id], pacts'[q.id])
    BY <1>2, <1>3, WorldKeepsEffects
<1> QED
    BY <1>1, <1>4 DEF CallsInv, Req

LEMMA OneCallMoves ==
    ASSUME IInv, CallsInv, [Next]_vars, CountPacts, UNCHANGED keeper,
           NEW c \in CallIds, NEW call, calls' = [calls EXCEPT ![c] = call], CallOK(call),
           EffectsOK(call.request.op, call.effects, escrow'[call.request.id],
                     dispute'[call.request.id], pacts'[call.request.id])
    PROVE  CallsInv'
<1>1. /\ calls \in [CallIds -> Call] /\ calls' \in [CallIds -> Call]
      /\ calls'[c] = call /\ \A d \in CallIds \ {c} : calls'[d] = calls[d]
    BY DEF CallsInv, CallsTyped, CallOK
<1>2. pacts' \in [EscrowIds -> Nat]
    BY DEF CountPacts, CallsInv, CallsTyped
<1>3. \A d \in CallIds :
         /\ CallOK(calls'[d])
         /\ EffectsOK(Req(d)'.op, calls'[d].effects,
                      escrow'[Req(d)'.id], dispute'[Req(d)'.id], pacts'[Req(d)'.id])
    <2> SUFFICES ASSUME NEW d \in CallIds
                 PROVE  /\ CallOK(calls'[d])
                        /\ EffectsOK(Req(d)'.op, calls'[d].effects,
                              escrow'[Req(d)'.id], dispute'[Req(d)'.id], pacts'[Req(d)'.id])
        OBVIOUS
    <2>1. CASE d = c
        BY <1>1, <2>1 DEF Req
    <2>2. CASE d # c
        BY <1>1, <2>2, OthersKept
    <2> QED
        BY <2>1, <2>2
<1> QED
    BY <1>1, <1>2, <1>3 DEF CallsInv, CallsTyped

(* A step of a call's own touches neither the program nor its effects.     *)
LEMMA OwnStepKeepsCalls ==
    ASSUME IInv, CallsInv, UNCHANGED <<vars, pacts, keeper>>,
           NEW c \in CallIds, NEW call, calls' = [calls EXCEPT ![c] = call], CallOK(call),
           call.effects = calls[c].effects,
           call.request = calls[c].request \/ call.effects = <<>>
    PROVE  CallsInv'
<1>1. UNCHANGED <<escrow, dispute, pacts, keeper>> /\ [Next]_vars
    BY DEF vars
<1>2. CountPacts
    BY <1>1, StutterCounts DEF CallsInv
<1>3. CASE call.request = calls[c].request
    BY <1>1, <1>2, <1>3, OneCallMoves DEF CallsInv, Req
<1>4. CASE call.effects = <<>>
    <2>1. \A op, r, d, n : EffectsOK(op, <<>>, r, d, n)
        BY DEF EffectsOK
    <2>2. EffectsOK(call.request.op, call.effects, escrow'[call.request.id],
                    dispute'[call.request.id], pacts'[call.request.id])
        BY Zenon, <1>4, <2>1
    <2> QED
        BY <1>1, <1>2, <2>2, OneCallMoves
<1> QED
    BY <1>3, <1>4

LEMMA BeginKeepsCalls ==
    ASSUME IInv, CallsInv, UNCHANGED <<vars, pacts, keeper>>,
           NEW c \in CallIds, NEW q \in Requests, Begin(c, q)
    PROVE  CallsInv'
<1> DEFINE call == [calls[c] EXCEPT !.phase = "reading", !.request = q]
<1>1. calls \in [CallIds -> Call] /\ calls[c] \in Call /\ CallOK(calls[c])
    BY DEF CallsInv, CallsTyped
<1>2. calls[c].phase = "unused" /\ calls' = [calls EXCEPT ![c] = call]
    BY <1>1 DEF Begin, InPhase, Call
<1>3. CallOK(call) /\ call.effects = <<>> /\ calls[c].effects = <<>>
    BY <1>1, <1>2 DEF CallOK, Call
<1> QED
    BY <1>2, <1>3, OwnStepKeepsCalls

(* What each of a call's own steps makes of it.                            *)
LEMMA ReturnsOK ==
    ASSUME NEW call, CallOK(call), NEW outcome \in Outcomes, call.phase # "unused",
           outcome = "ok" /\ call.request.op # "handleSubmit" => call.effects # <<>>
    PROVE  CallOK([call EXCEPT !.phase = "returned", !.outcome = outcome])
    BY DEF CallOK, Call

LEMMA ReturnKeepsCalls ==
    ASSUME IInv, CallsInv, UNCHANGED <<vars, pacts, keeper>>,
           NEW c \in CallIds, calls[c].phase # "unused", NEW outcome \in Outcomes,
           Return(c, outcome),
           outcome = "ok" /\ Req(c).op # "handleSubmit" => calls[c].effects # <<>>
    PROVE  CallsInv'
<1> DEFINE call == [calls[c] EXCEPT !.phase = "returned", !.outcome = outcome]
<1>1. calls \in [CallIds -> Call] /\ calls[c] \in Call /\ CallOK(calls[c])
    BY DEF CallsInv, CallsTyped
<1>2. calls' = [calls EXCEPT ![c] = call]
    BY <1>1 DEF Return, Call
<1>3. CallOK(call)
    BY <1>1, ReturnsOK DEF Req
<1>4. call.effects = calls[c].effects /\ call.request = calls[c].request
    BY <1>1 DEF Call
<1> HIDE DEF call
<1> QED
    BY <1>2, <1>3, <1>4, OwnStepKeepsCalls

LEMMA ReadKeepsCalls ==
    ASSUME IInv, CallsInv, UNCHANGED <<vars, pacts, keeper>>, NEW c \in CallIds, Read(c)
    PROVE  CallsInv'
<1> DEFINE call == [calls[c] EXCEPT !.phase = "sending"]
<1>1. calls \in [CallIds -> Call] /\ calls[c] \in Call /\ CallOK(calls[c])
    BY DEF CallsInv, CallsTyped
<1>2. calls[c].phase = "reading"
    BY DEF Read, InPhase
<1>3. CASE LocalRefusal(Req(c)) = "none"
    <2>1. calls' = [calls EXCEPT ![c] = call]
        BY <1>1, <1>3 DEF Read
    <2>2. CallOK(call)
        <3>1. calls[c].attempts = 0 /\ 0 < MAX_ATTEMPTS
            BY <1>1, <1>2, CallTyped DEF CallOK
        <3> QED
            BY <1>1, <1>2, <3>1 DEF CallOK, Call
    <2>3. call.effects = calls[c].effects /\ call.request = calls[c].request
        BY <1>1 DEF Call
    <2> HIDE DEF call
    <2> QED
        BY <2>1, <2>2, <2>3, OwnStepKeepsCalls
<1>4. CASE LocalRefusal(Req(c)) # "none"
    <2>1. PICK outcome \in Outcomes \ {"ok"} : Return(c, outcome)
        <3>1. LocalRefusal(Req(c)) \in Outcomes \ {"ok"}
            BY DEF LocalRefusal, Outcomes
        <3> QED
            BY <1>4, <3>1 DEF Read
    <2> QED
        BY <1>2, <2>1, ReturnKeepsCalls
<1> QED
    BY <1>3, <1>4

LEMMA SendKeepsCalls ==
    ASSUME IInv, CallsInv, UNCHANGED <<vars, pacts, keeper>>, NEW c \in CallIds, Send(c)
    PROVE  CallsInv'
<1> DEFINE call == [calls[c] EXCEPT !.phase = "confirming", !.sent = "in_flight",
                                    !.attempts = calls[c].attempts + 1]
<1>1. calls \in [CallIds -> Call] /\ calls[c] \in Call /\ CallOK(calls[c])
    BY DEF CallsInv, CallsTyped
<1>2. calls[c].phase = "sending" /\ calls' = [calls EXCEPT ![c] = call]
    BY <1>1 DEF Send, InPhase, Call
<1>3. calls[c].attempts + 1 \in 0..MAX_ATTEMPTS
    BY <1>1, <1>2, CallTyped DEF CallOK
<1>4. CallOK(call)
    BY <1>1, <1>2, <1>3 DEF CallOK, Call
<1>5. call.effects = calls[c].effects /\ call.request = calls[c].request
    BY <1>1 DEF Call
<1> HIDE DEF call
<1> QED
    BY <1>2, <1>4, <1>5, OwnStepKeepsCalls

LEMMA ConfirmedKeepsCalls ==
    ASSUME IInv, CallsInv, UNCHANGED <<vars, pacts, keeper>>, NEW c \in CallIds, Confirmed(c)
    PROVE  CallsInv'
<1> DEFINE call == [calls[c] EXCEPT !.phase = "rereading"]
<1>1. calls \in [CallIds -> Call] /\ calls[c] \in Call /\ CallOK(calls[c])
    BY DEF CallsInv, CallsTyped
<1>2. calls[c].phase = "confirming" /\ calls[c].effects # <<>>
    BY <1>1 DEF Confirmed, InPhase, CallOK
<1>3. CASE Req(c).op = "createPact"
    <2>1. calls' = [calls EXCEPT ![c] = call]
        BY <1>1, <1>3 DEF Confirmed
    <2>2. CallOK(call)
        BY <1>1, <1>2 DEF CallOK, Call
    <2>3. call.effects = calls[c].effects /\ call.request = calls[c].request
        BY <1>1 DEF Call
    <2> HIDE DEF call
    <2> QED
        BY <2>1, <2>2, <2>3, OwnStepKeepsCalls
<1>4. CASE Req(c).op # "createPact"
    <2>1. Return(c, "ok") /\ "ok" \in Outcomes
        BY <1>4 DEF Confirmed, Outcomes
    <2> QED
        BY <1>2, <2>1, ReturnKeepsCalls
<1> QED
    BY <1>3, <1>4

LEMMA RejectedKeepsCalls ==
    ASSUME IInv, CallsInv, UNCHANGED <<vars, pacts, keeper>>, NEW c \in CallIds, Rejected(c)
    PROVE  CallsInv'
<1>1. calls[c].phase = "confirming"
    BY DEF Rejected, InPhase
<1>2. PICK outcome \in Outcomes : /\ Return(c, outcome)
                                  /\ outcome = "ok" => Req(c).op = "handleSubmit"
    BY DEF Rejected, Outcomes
<1> QED
    BY <1>1, <1>2, ReturnKeepsCalls

LEMMA RereadKeepsCalls ==
    ASSUME IInv, CallsInv, UNCHANGED <<vars, pacts, keeper>>, NEW c \in CallIds, Reread(c)
    PROVE  CallsInv'
<1>1. calls[c].phase = "rereading" /\ calls[c].effects # <<>>
    BY DEF Reread, InPhase, CallsInv, CallOK
<1>2. PICK outcome \in Outcomes : Return(c, outcome)
    BY DEF Reread, Outcomes
<1> QED
    BY <1>1, <1>2, ReturnKeepsCalls

LEMMA ReportedLostKeepsCalls ==
    ASSUME IInv, CallsInv, UNCHANGED <<vars, pacts, keeper>>, NEW c \in CallIds,
           NEW retryable \in BOOLEAN, ReportedLost(c, retryable)
    PROVE  CallsInv'
<1> DEFINE again == retryable /\ Again(c)
           call == [calls[c] EXCEPT !.phase = IF again THEN "sending" ELSE "returned",
                                    !.outcome = IF again THEN "none" ELSE "failed",
                                    !.sent = "none", !.adrift = Adrift(c)]
<1>1. calls \in [CallIds -> Call] /\ calls[c] \in Call /\ CallOK(calls[c])
    BY DEF CallsInv, CallsTyped
<1>2. calls[c].phase = "confirming" /\ calls' = [calls EXCEPT ![c] = call]
    BY <1>1 DEF ReportedLost, InPhase, Call
<1>3. Adrift(c) \in 0..MaxAdrift
    BY <1>1, CallTyped DEF Adrift
<1>4. again => calls[c].attempts < MAX_ATTEMPTS
    BY DEF Again
<1> HIDE DEF again
<1>5. CallOK(call)
    BY <1>1, <1>2, <1>3, <1>4 DEF CallOK, Call, Outcomes
<1>6. call.effects = calls[c].effects /\ call.request = calls[c].request
    BY <1>1 DEF Call
<1> HIDE DEF call
<1> QED
    BY <1>2, <1>5, <1>6, OwnStepKeepsCalls

LEMMA RpcFailsKeepsCalls ==
    ASSUME IInv, CallsInv, UNCHANGED <<vars, pacts, keeper>>, NEW c \in CallIds,
           NEW transient \in BOOLEAN, RpcFails(c, transient)
    PROVE  CallsInv'
<1> DEFINE call == [calls[c] EXCEPT !.phase = "reading", !.attempts = 0,
                                    !.tries = calls[c].tries + 1]
<1>1. calls \in [CallIds -> Call] /\ calls[c] \in Call /\ CallOK(calls[c])
    BY DEF CallsInv, CallsTyped
<1>2. calls[c].phase \in {"reading", "sending", "rereading"}
    BY DEF RpcFails
<1>3. CASE transient /\ Req(c).wrapped /\ calls[c].tries < MAX_TRIES
    <2>1. calls' = [calls EXCEPT ![c] = call]
        BY <1>1, <1>3 DEF RpcFails, Call
    <2>2. calls[c].tries + 1 \in 1..MAX_TRIES /\ 0 \in 0..MAX_ATTEMPTS
        BY <1>1, <1>3, CallTyped
    <2>3. CallOK(call)
        BY <1>1, <1>2, <2>2 DEF CallOK, Call
    <2>4. call.effects = calls[c].effects /\ call.request = calls[c].request
        BY <1>1 DEF Call
    <2> HIDE DEF call
    <2> QED
        BY <2>1, <2>3, <2>4, OwnStepKeepsCalls
<1>4. CASE ~(transient /\ Req(c).wrapped /\ calls[c].tries < MAX_TRIES)
    <2>1. Return(c, "failed") /\ "failed" \in Outcomes
        BY <1>4 DEF RpcFails, Outcomes
    <2> QED
        BY <1>2, <2>1, ReturnKeepsCalls
<1> QED
    BY <1>3, <1>4

(* The network's steps: the program executes an attempt, or refuses it.    *)
LEMMA LandingKeepsCalls ==
    ASSUME IInv, CallsInv, CountPacts, UNCHANGED keeper, NEW c \in CallIds, Program(Req(c)),
           NEW call, CallOK(call), calls' = [calls EXCEPT ![c] = call],
           call.request = Req(c),
           call.effects = Append(calls[c].effects, pacts'[Req(c).id])
    PROVE  CallsInv'
<1>1. PICK q, effects : q = Req(c) /\ effects = calls[c].effects
    OBVIOUS
<1>2. CallsTyped /\ q \in Requests
    BY <1>1, CallTyped DEF CallsInv, CallOK, Req
<1>3. EffectsOK(q.op, effects, escrow[q.id], dispute[q.id], pacts[q.id])
    BY <1>1 DEF CallsInv
<1>4. Program(q)
    BY <1>1
<1>5. EffectsOK(q.op, Append(effects, pacts'[q.id]),
                escrow'[q.id], dispute'[q.id], pacts'[q.id])
    BY <1>2, <1>3, <1>4, ProgramAddsEffect
<1>6. [Next]_vars
    BY <1>2, <1>4, ProgramIsAStep
<1>7. EffectsOK(call.request.op, call.effects, escrow'[call.request.id],
                dispute'[call.request.id], pacts'[call.request.id])
    BY <1>1, <1>5
<1> QED
    BY <1>6, <1>7, OneCallMoves

LEMMA AppendNotEmpty ==
    ASSUME NEW effects \in Seq(Nat), NEW n \in Nat
    PROVE  Append(effects, n) \in Seq(Nat) /\ Append(effects, n) # <<>>
<1>1. Append(effects, n) \in Seq(Nat) /\ Len(Append(effects, n)) = Len(effects) + 1
    OBVIOUS
<1>2. Len(effects) \in Nat /\ Len(<<>>) = 0
    OBVIOUS
<1>3. Len(Append(effects, n)) # Len(<<>>)
    BY <1>1, <1>2
<1> QED
    BY <1>1, <1>3

LEMMA ExecuteKeepsCalls ==
    ASSUME IInv, CallsInv, UNCHANGED keeper, NEW c \in CallIds, Execute(c)
    PROVE  CallsInv'
<1>1. calls \in [CallIds -> Call] /\ calls[c] \in Call /\ CallOK(calls[c])
    BY DEF CallsInv, CallsTyped
<1>2. CASE /\ Program(Req(c)) /\ CountPacts
           /\ calls' = [calls EXCEPT ![c].sent = "landed",
                                     ![c].effects = Append(@, pacts'[Req(c).id])]
    <2> DEFINE more == Append(calls[c].effects, pacts'[Req(c).id])
               call == [calls[c] EXCEPT !.sent = "landed", !.effects = more]
    <2>1. more \in Seq(Nat) /\ more # <<>>
        <3>1. calls[c].effects \in Seq(Nat) /\ Req(c).id \in EscrowIds
            BY <1>1, CallTyped DEF Req
        <3>2. pacts'[Req(c).id] \in Nat
            BY <1>2, <3>1 DEF CountPacts, CallsInv, CallsTyped
        <3> QED
            BY <3>1, <3>2, AppendNotEmpty
    <2> HIDE DEF more
    <2>2. calls' = [calls EXCEPT ![c] = call]
        BY <1>1, <1>2 DEF Call, more
    <2>3. calls[c].phase # "unused"
        BY <1>1 DEF Execute, CallOK
    <2>4. CallOK(call)
        BY <1>1, <2>1, <2>3 DEF CallOK, Call
    <2>5. call.effects = more /\ call.request = Req(c)
        BY <1>1 DEF Call, Req
    <2> HIDE DEF call
    <2> QED
        BY <1>2, <2>2, <2>4, <2>5, LandingKeepsCalls DEF more
<1>3. CASE /\ calls' = [calls EXCEPT ![c].sent = "refused"]
           /\ UNCHANGED <<vars, pacts>>
    <2> DEFINE call == [calls[c] EXCEPT !.sent = "refused"]
    <2>1. calls' = [calls EXCEPT ![c] = call]
        BY <1>3
    <2>2. calls[c].phase # "unused"
        BY <1>1 DEF Execute, CallOK
    <2>3. CallOK(call)
        BY <1>1, <2>2 DEF CallOK, Call
    <2>4. call.effects = calls[c].effects /\ call.request = calls[c].request
        BY <1>1 DEF Call
    <2> HIDE DEF call
    <2> QED
        BY <1>3, <2>1, <2>3, <2>4, OwnStepKeepsCalls
<1> QED
    BY <1>2, <1>3 DEF Execute

LEMMA LandLateKeepsCalls ==
    ASSUME IInv, CallsInv, UNCHANGED keeper, NEW c \in CallIds, LandLate(c)
    PROVE  CallsInv'
<1> DEFINE more == Append(calls[c].effects, pacts'[Req(c).id])
           call == [calls[c] EXCEPT !.adrift = calls[c].adrift - 1, !.effects = more]
<1>1. calls \in [CallIds -> Call] /\ calls[c] \in Call /\ CallOK(calls[c])
    BY DEF CallsInv, CallsTyped
<1>2. more \in Seq(Nat) /\ more # <<>>
    <2>1. calls[c].effects \in Seq(Nat) /\ Req(c).id \in EscrowIds
        BY <1>1, CallTyped DEF Req
    <2>2. pacts'[Req(c).id] \in Nat
        BY <2>1 DEF LandLate, CountPacts, CallsInv, CallsTyped
    <2> QED
        BY <2>1, <2>2, AppendNotEmpty
<1> HIDE DEF more
<1>3. calls' = [calls EXCEPT ![c] = call]
    BY <1>1 DEF LandLate, Call, more
<1>4. calls[c].adrift - 1 \in 0..MaxAdrift
    BY <1>1, CallTyped DEF LandLate
<1>5. calls[c].phase # "unused"
    BY <1>1 DEF LandLate, CallOK
<1>6. CallOK(call)
    BY <1>1, <1>2, <1>4, <1>5 DEF CallOK, Call
<1>7. call.effects = more /\ call.request = Req(c)
    BY <1>1 DEF Call, Req
<1> HIDE DEF call
<1> QED
    BY <1>3, <1>6, <1>7, LandingKeepsCalls DEF LandLate, more

LEMMA DropKeepsCalls ==
    ASSUME IInv, CallsInv, UNCHANGED <<vars, pacts, keeper>>, NEW c \in CallIds, Drop(c)
    PROVE  CallsInv'
<1> DEFINE call == [calls[c] EXCEPT !.adrift = calls[c].adrift - 1]
<1>1. calls \in [CallIds -> Call] /\ calls[c] \in Call /\ CallOK(calls[c])
    BY DEF CallsInv, CallsTyped
<1>2. calls' = [calls EXCEPT ![c] = call]
    BY <1>1 DEF Drop, Call
<1>3. calls[c].adrift - 1 \in 0..MaxAdrift
    BY <1>1, CallTyped DEF Drop
<1>4. calls[c].phase # "unused"
    BY <1>1 DEF Drop, CallOK
<1>5. CallOK(call)
    BY <1>1, <1>3, <1>4 DEF CallOK, Call
<1>6. call.effects = calls[c].effects /\ call.request = calls[c].request
    BY <1>1 DEF Call
<1> HIDE DEF call
<1> QED
    BY <1>2, <1>5, <1>6, OwnStepKeepsCalls

LEMMA SdkStepKeepsCalls ==
    ASSUME IInv, CallsInv, UNCHANGED keeper, NEW c \in CallIds, SdkStep(c)
    PROVE  CallsInv'
<1>1. CASE (\E q \in Requests : Begin(c, q)) /\ UNCHANGED <<vars, pacts>>
    BY <1>1, BeginKeepsCalls
<1>2. CASE Proceed(c) /\ UNCHANGED <<vars, pacts>>
    <2>1. CASE Read(c)
        BY <1>2, <2>1, ReadKeepsCalls
    <2>2. CASE Send(c)
        BY <1>2, <2>2, SendKeepsCalls
    <2>3. CASE Confirmed(c)
        BY <1>2, <2>3, ConfirmedKeepsCalls
    <2>4. CASE Rejected(c)
        BY <1>2, <2>4, RejectedKeepsCalls
    <2>5. CASE Reread(c)
        BY <1>2, <2>5, RereadKeepsCalls
    <2>6. CASE \E retryable \in BOOLEAN : ReportedLost(c, retryable)
        BY <1>2, <2>6, ReportedLostKeepsCalls
    <2>7. CASE \E transient \in BOOLEAN : RpcFails(c, transient)
        BY <1>2, <2>7, RpcFailsKeepsCalls
    <2> QED
        BY <1>2, <2>1, <2>2, <2>3, <2>4, <2>5, <2>6, <2>7 DEF Proceed
<1>3. CASE Execute(c)
    BY <1>3, ExecuteKeepsCalls
<1>4. CASE LandLate(c)
    BY <1>4, LandLateKeepsCalls
<1>5. CASE Drop(c) /\ UNCHANGED <<vars, pacts>>
    BY <1>5, DropKeepsCalls
<1> QED
    BY Zenon, <1>1, <1>2, <1>3, <1>4, <1>5 DEF SdkStep

LEMMA ClientsInitIsRight == ClientsInit => CallsInv
<1> SUFFICES ASSUME ClientsInit PROVE CallsInv
    OBVIOUS
<1>1. Unused.request \in Requests
    BY SdkAssumption DEF Unused
<1>2. CallOK(Unused)
    <2>1. 1 \in 1..MAX_TRIES /\ 0 \in 0..MAX_ATTEMPTS /\ 0 \in 0..MaxAdrift
        BY SdkAssumption
    <2>2. <<>> \in Seq(Nat)
        OBVIOUS
    <2>3. Unused \in Call
        BY <1>1, <2>1, <2>2 DEF Unused, Call, Outcomes
    <2> QED
        BY <2>3 DEF CallOK, Unused
<1>3. CallsTyped
    BY <1>2 DEF ClientsInit, SdkInit, CallsTyped, CallOK
<1>4. \A op, r, d, n : EffectsOK(op, <<>>, r, d, n)
    BY DEF EffectsOK
<1>5. \A c \in CallIds : calls[c] = Unused /\ calls[c].effects = <<>>
    BY DEF ClientsInit, SdkInit, Unused
<1> QED
    BY <1>2, <1>3, <1>4, <1>5 DEF CallsInv, ClientsInit, KeeperInit, Req

LEMMA ClientsNextKeepsInv == IInv /\ CallsInv /\ [ClientsNext]_allVars => CallsInv'
<1> SUFFICES ASSUME IInv, CallsInv, [ClientsNext]_allVars PROVE CallsInv'
    OBVIOUS
<1>1. [Next]_vars /\ CountPacts
    BY ClientsMove DEF CallsInv
<1>2. CASE \E c \in CallIds : SdkStep(c) /\ UNCHANGED keeper
    BY <1>2, SdkStepKeepsCalls
<1>3. CASE UNCHANGED calls
    <2>1. \A c \in CallIds :
             /\ CallOK(calls'[c])
             /\ EffectsOK(Req(c)'.op, calls'[c].effects,
                          escrow'[Req(c)'.id], dispute'[Req(c)'.id], pacts'[Req(c)'.id])
        BY <1>1, <1>3, OthersKept
    <2>2. pacts' \in [EscrowIds -> Nat]
        BY <1>1 DEF CountPacts, CallsInv, CallsTyped
    <2>3. keeper' \subseteq EscrowIds
        <3>1. (\E c \in CallIds : SdkStep(c) /\ UNCHANGED keeper) => UNCHANGED keeper
            OBVIOUS
        <3>2. KeeperStep => keeper' \subseteq EscrowIds
            BY DEF KeeperStep, Poll, Listings, CrankLands, CrankFails, CallsInv
        <3> QED
            BY <3>1, <3>2 DEF ClientsNext, allVars, CallsInv
    <2> QED
        BY <1>3, <2>1, <2>2, <2>3 DEF CallsInv, CallsTyped
<1> QED
    BY <1>2, <1>3 DEF ClientsNext, allVars

--------------------------------------------------------------------------------
(* Whatever the SDK's calls, their lost and repeated transactions and the  *)
(* keeper do to the accounts is a behaviour of the escrow program: every   *)
(* theorem about Escrow's Spec holds of the composition too.               *)
THEOREM ClientsRefineEscrow == ClientsSpec => Spec
<1>1. ClientsInit => Init /\ IInv /\ CallsInv
    BY InitImpliesInv, ClientsInitIsRight DEF ClientsInit
<1>2. IInv /\ CallsInv /\ [ClientsNext]_allVars => [Next]_vars /\ IInv' /\ CallsInv'
    BY ClientsMove, NextKeepsInv, ClientsNextKeepsInv DEF CallsInv
<1> QED
    BY <1>1, <1>2, PTL DEF ClientsSpec, Spec

LEMMA ClientsInvHolds == ClientsSpec => [](IInv /\ CallsInv)
<1>1. ClientsInit => IInv /\ CallsInv
    BY InitImpliesInv, ClientsInitIsRight DEF ClientsInit
<1>2. IInv /\ CallsInv /\ [ClientsNext]_allVars => IInv' /\ CallsInv'
    BY ClientsMove, NextKeepsInv, ClientsNextKeepsInv DEF CallsInv
<1> QED
    BY <1>1, <1>2, PTL DEF ClientsSpec

(* Calls, counters and the keeper's list keep their shape; in particular a *)
(* call never sends more attempts, nor starts more tries, than it may.     *)
THEOREM ClientsTypeCorrect == ClientsSpec => []ClientsTypeOK
<1>1. IInv /\ CallsInv => ClientsTypeOK
    BY DEF IInv, CallsInv, CallsTyped, ClientsTypeOK
<1> QED
    BY <1>1, ClientsInvHolds, PTL

(* sendAndConfirmWithRetry and withRetry are safe to use on the escrow     *)
(* program: whatever is resent, lost or late, no call acts on a pact twice. *)
THEOREM RetriesTakeEffectAtMostOnce == ClientsSpec => []RetriesTakeEffectOnce
<1>1. CallsInv => RetriesTakeEffectOnce
    BY DEF CallsInv, EffectsOK, RetriesTakeEffectOnce
<1> QED
    BY <1>1, ClientsInvHolds, PTL

(* A signature the SDK returned stands for an effect that no later step    *)
(* undoes, short of the pact being closed.                                 *)
THEOREM SuccessesStayTrue == ClientsSpec => []SuccessStaysTrue
<1>1. CallsInv => SuccessStaysTrue
    <2> SUFFICES ASSUME CallsInv, NEW c \in CallIds, calls[c].outcome = "ok",
                        Req(c).op # "handleSubmit"
                 PROVE  /\ calls[c].effects # <<>>
                        /\ \A k \in DOMAIN calls[c].effects :
                             \/ calls[c].effects[k] < pacts[Req(c).id]
                             \/ Status(Req(c).id) = "Absent"
                             \/ Achieved(Req(c).op, Req(c).id)
        BY DEF SuccessStaysTrue
    <2>1. calls[c].effects # <<>>
        BY DEF CallsInv, CallOK, Req
    <2>2. PICK q, effects : q = Req(c) /\ effects = calls[c].effects
        OBVIOUS
    <2>3. /\ q.id \in EscrowIds /\ pacts[q.id] \in Nat /\ effects \in Seq(Nat)
          /\ EffectsOK(q.op, effects, escrow[q.id], dispute[q.id], pacts[q.id])
        <3>1. calls[c] \in Call
            BY DEF CallsInv, CallOK
        <3>2. q.id \in EscrowIds /\ effects \in Seq(Nat)
            BY <2>2, <3>1, CallTyped DEF Req
        <3> QED
            BY <2>2, <3>2 DEF CallsInv, CallsTyped
    <2>4. ASSUME NEW k \in 1..Len(effects)
          PROVE  \/ effects[k] < pacts[q.id]
                 \/ Status(q.id) = "Absent"
                 \/ Achieved(q.op, q.id)
        <3>1. /\ effects[k] \in Nat /\ effects[k] <= pacts[q.id]
              /\ effects[k] = pacts[q.id] =>
                   escrow[q.id].status = "Absent" \/ Past(q.op, escrow[q.id], dispute[q.id])
            BY <2>2, <2>3 DEF EffectsOK
        <3>2. Achieved(q.op, q.id) <=> Past(q.op, escrow[q.id], dispute[q.id])
            BY <2>3, AchievedIsPast
        <3> QED
            BY <2>3, <3>1, <3>2 DEF Status
    <2>5. \A k \in DOMAIN effects :
             \/ effects[k] < pacts[q.id]
             \/ Status(q.id) = "Absent"
             \/ Achieved(q.op, q.id)
        <3>1. DOMAIN effects = 1..Len(effects)
            BY <2>3
        <3> QED
            BY Zenon, <3>1, <2>4
    <2> QED
        BY Zenon, <2>1, <2>2, <2>5
<1> QED
    BY <1>1, ClientsInvHolds, PTL
================================================================================
