------------------------------- MODULE SdkCalls -------------------------------
(***************************************************************************)
(* Calls of the TypeScript SDK's EscrowModule (and of the dashboard's      *)
(* create-pact wizard, which builds the same transaction by hand): read an *)
(* account over RPC, build a transaction from it, then send it, wait and   *)
(* retry as sendAndConfirmWithRetry does.  The ElizaOS plugin's actions    *)
(* repeat a whole call, in withRetry, when an RPC request of it throws.  A *)
(* transaction that lands is the Escrow action; between any two steps of a *)
(* call the rest of the world may take Escrow actions of its own.          *)
(*                                                                         *)
(* Every attempt carries a new blockhash, so it is a new transaction: an   *)
(* attempt given up for lost may still land, before or after its retry.    *)
(***************************************************************************)
EXTENDS Escrow, Sequences

CONSTANTS
    CallIds,        \* calls an application makes; they may overlap
    Requests,       \* what it may ask for
    MAX_ATTEMPTS,   \* sendAndConfirmWithRetry: 3 by default
    MAX_TRIES,      \* withRetry: 3 by default
    MaxAdrift       \* bound: attempts given up for lost that may yet land

VARIABLES
    calls,
    pacts   \* how many pacts each escrow_id has had so far (a ghost)

(* The writes of the SDK's EscrowModule, and the wizard's handleSubmit.    *)
Ops == {"createPact", "depositEscrow", "stakeBeneficiary", "lockEscrow", "releasePact",
        "openDispute", "claimReleased", "cancelPact", "cancelAndClose",
        "cancelPendingEscrow", "handleSubmit"}

Creating == {"createPact", "handleSubmit"}

NoThreshold == [score |-> 0, tier |-> 0, pacts |-> 0]

(* arbiter: which of the optional parameters arbiter and arbiterWallet are *)
(* given; threshold: reputationThreshold is given, whatever is in it;      *)
(* wrapped: called through the plugin.  The plugin's CREATE_PACT, which    *)
(* takes a new id for every try, is left out.                              *)
Request ==
    [op : Ops, signer : Agents, id : EscrowIds, terms : Terms,
     arbiter : {"none", "named", "with wallet"}, threshold : BOOLEAN, wrapped : BOOLEAN]

ASSUME SdkAssumption ==
    /\ Requests \subseteq Request
    /\ \A q \in Requests : q.wrapped =>
           q.op \in {"depositEscrow", "releasePact", "openDispute"}
    /\ \A q \in Requests : q.op = "createPact" /\ ~q.threshold =>
           q.terms.initiator_gate = NoThreshold
    /\ Requests # {}
    /\ {MAX_ATTEMPTS, MAX_TRIES, MaxAdrift} \subseteq Nat \ {0}

Outcomes == {"none", "ok", "failed", "not_found", "window_open", "below_threshold",
             "arbiter_wallet_required", "unregistered"}

(* sent is the fate of the attempt the call is waiting for; adrift counts  *)
(* the earlier attempts that may still land; effects (a ghost) lists, for  *)
(* the attempts that did, which pact of its id each took effect on.        *)
Call ==
    [phase : {"unused", "reading", "sending", "confirming", "rereading", "returned"},
     request : Requests, tries : 1..MAX_TRIES, attempts : 0..MAX_ATTEMPTS,
     sent : {"none", "in_flight", "landed", "refused"},
     adrift : 0..MaxAdrift, effects : Seq(Nat), outcome : Outcomes]

Unused ==
    [phase |-> "unused", request |-> CHOOSE q \in Requests : TRUE,
     tries |-> 1, attempts |-> 0, sent |-> "none", adrift |-> 0, effects |-> <<>>,
     outcome |-> "none"]

Req(c)     == calls[c].request
InPhase(c, phase) == calls[c].phase = phase

Return(c, outcome) ==
    calls' = [calls EXCEPT ![c].phase = "returned", ![c].outcome = outcome]

CountPacts ==
    pacts' = [e \in EscrowIds |->
                IF Status(e) = "Absent" /\ escrow'[e].status # "Absent"
                THEN pacts[e] + 1 ELSE pacts[e]]

--------------------------------------------------------------------------------
(* The program checks who signs; the SDK does not.                         *)
SignsAs(q, role) == Status(q.id) # "Absent" /\ q.signer = Pact(q.id)[role]

(* The instruction each method sends, executed by the program.  With no    *)
(* arbiter the SDK and the wizard name the default key with the            *)
(* initiator's own wallet, which initialize_escrow refuses; the older      *)
(* layouts createPact falls back on are refused as well.                   *)
createPact(q) ==
    /\ q.op = "createPact" /\ q.arbiter = "with wallet" /\ q.terms.initiator = q.signer
    /\ InitializeEscrow(q.id, q.terms)

handleSubmit(q) ==
    /\ q.op = "handleSubmit" /\ q.arbiter # "none" /\ q.terms.initiator = q.signer
    /\ InitializeEscrow(q.id, q.terms)

depositEscrow(q) ==
    q.op = "depositEscrow" /\ SignsAs(q, "initiator") /\ DepositFunds(q.id)

stakeBeneficiary(q) ==
    q.op = "stakeBeneficiary" /\ SignsAs(q, "beneficiary") /\ StakeBeneficiary(q.id)

lockEscrow(q) == q.op = "lockEscrow" /\ SignsAs(q, "initiator") /\ LockEscrow(q.id)

releasePact(q) == q.op = "releasePact" /\ SignsAs(q, "initiator") /\ ReleaseEscrow(q.id)

openDispute(q) ==
    q.op = "openDispute" /\ Status(q.id) # "Absent" /\ RaiseDispute(q.id, q.signer)

(* The other four list fewer accounts than their instruction takes         *)
(* (claimReleased 11 of 13, cancelPact and cancelAndClose 10 of 15,        *)
(* cancelPendingEscrow 10 of 11): the program refuses them in every state. *)
AlwaysRefused == {"claimReleased", "cancelPact", "cancelAndClose", "cancelPendingEscrow"}

Program(q) ==
    /\ q.op \notin AlwaysRefused
    /\ \/ createPact(q) \/ handleSubmit(q) \/ depositEscrow(q) \/ stakeBeneficiary(q)
       \/ lockEscrow(q) \/ releasePact(q) \/ openDispute(q)

Refuses(q) == ~ENABLED Program(q)

(* ReputationModule.meetsRequirements: the stored score, without the decay *)
(* the program's own check applies to it; an agent without an account      *)
(* meets no requirements, not even empty ones.                             *)
MeetsRequirements(r, gate) ==
    /\ r.exists
    /\ r.score >= gate.score /\ Unverified >= gate.tier /\ r.total_pacts >= gate.pacts

BelowThreshold(q) ==
    /\ q.op = "createPact" /\ q.threshold
    /\ ~MeetsRequirements(rep[q.signer], q.terms.initiator_gate)

(* The wizard asks for the registration state of the wallets, an arbiter's *)
(* only if there is one.                                                   *)
Unregistered(q) ==
    /\ q.op = "handleSubmit"
    /\ \E a \in {q.signer, q.terms.beneficiary}
                  \cup (IF q.arbiter = "none" THEN {} ELSE {q.terms.arbiter}) :
          WalletsOf(a) = {}

(* Every method but createPact looks its account up first.                 *)
NotFound(q) == q.op \notin Creating /\ Status(q.id) = "Absent"

WindowOpen(q) ==
    /\ q.op = "claimReleased" /\ ~NotFound(q)
    /\ now <= escrow[q.id].dispute_window_ends_at

(* createPact wants the wallet of the arbiter it is given, lockEscrow that *)
(* of the arbiter it finds in the account, which is never the default key. *)
NoArbiterWallet(q) ==
    \/ q.op = "createPact" /\ q.arbiter = "named"
    \/ q.op = "lockEscrow" /\ ~NotFound(q) /\ q.arbiter # "with wallet"

(* What a call checks on its parameters and on what it has read, before it *)
(* sends; createPact compares the reputation first.                        *)
LocalRefusal(q) ==
    CASE BelowThreshold(q)  -> "below_threshold"
      [] Unregistered(q)    -> "unregistered"
      [] NotFound(q)        -> "not_found"
      [] WindowOpen(q)      -> "window_open"
      [] ~BelowThreshold(q) /\ NoArbiterWallet(q) -> "arbiter_wallet_required"
      [] OTHER              -> "none"

--------------------------------------------------------------------------------
SdkInit ==
    /\ calls = [c \in CallIds |-> Unused]
    /\ pacts = [e \in EscrowIds |-> 0]

Begin(c, q) ==
    /\ InPhase(c, "unused")
    /\ calls' = [calls EXCEPT ![c].phase = "reading", ![c].request = q]

(* getAccountInfo (createPact: meetsRequirements; the wizard: the registry *)
(* state of the wallets) and the checks on its result.                     *)
Read(c) ==
    /\ InPhase(c, "reading")
    /\ IF LocalRefusal(Req(c)) = "none"
       THEN calls' = [calls EXCEPT ![c].phase = "sending"]
       ELSE Return(c, LocalRefusal(Req(c)))

(* A fresh blockhash, a fresh signature, one more attempt.                 *)
Send(c) ==
    /\ InPhase(c, "sending")
    /\ calls' = [calls EXCEPT ![c].phase = "confirming", ![c].sent = "in_flight",
                              ![c].attempts = @ + 1]

(* Variant: the confirmation's error is not looked at.                     *)
ConfirmedAnyhow(c) ==
    /\ InPhase(c, "confirming") /\ calls[c].sent \in {"landed", "refused"}
    /\ IF Req(c).op = "createPact"
       THEN calls' = [calls EXCEPT ![c].phase = "rereading"]
       ELSE Return(c, "ok")

(* sendAndConfirmTransaction returns: the attempt landed.                  *)
Confirmed(c) ==
    /\ InPhase(c, "confirming") /\ calls[c].sent = "landed"
    /\ IF Req(c).op = "createPact"
       THEN calls' = [calls EXCEPT ![c].phase = "rereading"]
       ELSE Return(c, "ok")

(* The program refused it: an error that is not retried.  The wizard takes *)
(* the result of confirmTransaction without looking at its err.            *)
Rejected(c) ==
    /\ InPhase(c, "confirming") /\ calls[c].sent = "refused"
    /\ Return(c, IF Req(c).op = "handleSubmit" THEN "ok" ELSE "failed")

(* The attempts that may still land once the present one is given up.      *)
Adrift(c) ==
    IF calls[c].sent = "in_flight" /\ calls[c].adrift < MaxAdrift
    THEN calls[c].adrift + 1 ELSE calls[c].adrift

(* Variant: one attempt too many.                                          *)
AgainOnceMore(c) == Req(c).op # "handleSubmit" /\ calls[c].attempts <= MAX_ATTEMPTS

Again(c) == Req(c).op # "handleSubmit" /\ calls[c].attempts < MAX_ATTEMPTS

(* TransactionExpiredBlockheightExceeded or an HTTP 429, whatever became   *)
(* of the attempt: the SDK tries again, up to MAX_ATTEMPTS times; it sees  *)
(* any other error, and the wizard sees all of them, as a failure.         *)
ReportedLost(c, retryable) ==
    /\ InPhase(c, "confirming")
    /\ calls' =
         [calls EXCEPT ![c].phase = IF retryable /\ Again(c) THEN "sending" ELSE "returned",
                       ![c].outcome = IF retryable /\ Again(c) THEN "none" ELSE "failed",
                       ![c].sent = "none", ![c].adrift = Adrift(c)]

(* createPact reads the account it has created before it returns it.       *)
Reread(c) ==
    /\ InPhase(c, "rereading")
    /\ Return(c, IF Status(Req(c).id) = "Absent" THEN "not_found" ELSE "ok")

(* Variant: withRetry does not count its tries.                            *)
RpcFailsUncounted(c, transient) ==
    /\ calls[c].phase \in {"reading", "sending", "rereading"}
    /\ IF transient /\ Req(c).wrapped
       THEN calls' = [calls EXCEPT ![c].phase = "reading", ![c].attempts = 0]
       ELSE Return(c, "failed")

(* An RPC request outside the retry loop's try block throws: the read, the *)
(* fetch of a blockhash (whatever attempts were made before it) or the     *)
(* read of the created account.  Only a transient error is tried again.    *)
RpcFails(c, transient) ==
    /\ calls[c].phase \in {"reading", "sending", "rereading"}
    /\ IF transient /\ Req(c).wrapped /\ calls[c].tries < MAX_TRIES
       THEN calls' = [calls EXCEPT ![c].phase = "reading", ![c].attempts = 0,
                                   ![c].tries = @ + 1]
       ELSE Return(c, "failed")

(* The network: an attempt the call waits for is executed ...              *)
Execute(c) ==
    /\ calls[c].sent = "in_flight"
    /\ \/ /\ Program(Req(c)) /\ CountPacts
          /\ calls' = [calls EXCEPT ![c].sent = "landed",
                                    ![c].effects = Append(@, pacts'[Req(c).id])]
       \/ /\ Refuses(Req(c))
          /\ calls' = [calls EXCEPT ![c].sent = "refused"]
          /\ UNCHANGED <<vars, pacts>>

(* ... one that was given up lands after all ...                           *)
LandLate(c) ==
    /\ calls[c].adrift > 0
    /\ Program(Req(c)) /\ CountPacts
    /\ calls' = [calls EXCEPT ![c].adrift = @ - 1,
                              ![c].effects = Append(@, pacts'[Req(c).id])]

(* ... or is refused, or never executed before its blockhash expires.      *)
Drop(c) ==
    /\ calls[c].adrift > 0
    /\ calls' = [calls EXCEPT ![c].adrift = @ - 1]

(* The call's own steps; all but Begin are due once the call has started.  *)
Proceed(c) ==
    \/ Read(c) \/ Send(c) \/ Confirmed(c) \/ Rejected(c) \/ Reread(c)
    \/ \E retryable \in BOOLEAN : ReportedLost(c, retryable)
    \/ \E transient \in BOOLEAN : RpcFails(c, transient)

SdkStep(c) ==
    \/ (\E q \in Requests : Begin(c, q)) /\ UNCHANGED <<vars, pacts>>
    \/ Proceed(c) /\ UNCHANGED <<vars, pacts>>
    \/ Execute(c)
    \/ LandLate(c)
    \/ Drop(c) /\ UNCHANGED <<vars, pacts>>
================================================================================
