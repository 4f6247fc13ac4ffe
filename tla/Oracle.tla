--------------------------------- MODULE Oracle ---------------------------------
(***************************************************************************)
(* The reputation oracle: a daemon that hears of settled disputes from the *)
(* logs of the escrow program and writes one update_reputation per party,  *)
(* in two transactions, one after the other.                               *)
(*                                                                         *)
(* The program takes an update only from the registry's oracle_authority   *)
(* (or from the escrow program, by CPI) and only with the account's nonce  *)
(* plus one.  The oracle reads the nonce, signs, sends and confirms across *)
(* awaits: other disputes' handlers, the escrow program's own updates, a   *)
(* rotation of the authority and a crash of the daemon come in between.    *)
(* A send is retried with the same nonce and a fresh blockhash, so each    *)
(* attempt is a transaction of its own and all of them may be executed.    *)
(***************************************************************************)
EXTENDS Integers, Sequences, FiniteSets

CONSTANTS
    Agents, Disputes,
    AgentOf, CounterpartyOf,    \* the parties a dispute's log line names
    Keys,                       \* keys that may be the oracle authority
    Escrow,                     \* the writer of the escrow program's updates
    Attempts,                   \* 4: the first and RETRY_DELAYS_MS
    ListsRegistry,              \* does the voter's instruction list the
                                \* attestation registry?  FALSE in voter.ts
    Verdicts,                   \* those disputes are settled with
    MaxTroubles                 \* bound: updates of the escrow program, RPC
                                \* errors, rotations and crashes, in all

ASSUME OracleAssumption ==
    /\ AgentOf \in [Disputes -> Agents]
    /\ CounterpartyOf \in [Disputes -> Agents]
    /\ \A d \in Disputes : AgentOf[d] # CounterpartyOf[d]
    /\ Escrow \notin Disputes
    /\ Attempts \in Nat \ {0}
    /\ ListsRegistry \in BOOLEAN
    /\ Verdicts \subseteq {"AgentFaulted", "CounterpartyFaulted", "Mutual"}
    /\ MaxTroubles \in Nat

VARIABLES
    verdict,            \* the verdict a dispute was settled with, or "none"
    written,            \* per agent, who wrote each nonce and with which delta
    oracle_authority,   \* of the attestation registry
    key,                \* the daemon's keypair
    up,
    told,               \* settled disputes whose log line is on its way
    pending,            \* PendingQueue
    handlers,           \* onDispute calls under way
    txs,                \* transactions sent, [dispute, part, attempt, nonce,
                        \* signer, status]
    crashed,            \* the daemon has crashed before
    troubles            \* what MaxTroubles bounds

chainVars  == <<verdict, written, oracle_authority>>
daemonVars == <<key, up, told, pending, handlers>>
bounds == <<crashed, troubles>>
vars == <<chainVars, daemonVars, txs, bounds>>

--------------------------------------------------------------------------------
Party(d, part) == IF part = 1 THEN AgentOf[d] ELSE CounterpartyOf[d]

(* evaluateDispute: the first update is the agent's, the second the        *)
(* counterparty's.                                                         *)
Delta(outcome, part) ==
    IF outcome = "Mutual" THEN 0
    ELSE IF (outcome = "AgentFaulted") = (part = 1) THEN -400 ELSE 20

(* A handler: the update it is at, the call it awaits, the nonce encoded   *)
(* in the instruction and the attempts of the call so far.                 *)
Idle == [at |-> "idle", part |-> 0, nonce |-> 0, sent |-> 0, attempt |-> 0]

Handlers == [at : {"idle", "read", "send", "confirm"}, part : 0..2, nonce : Nat,
             sent : 0..Attempts, attempt : 0..Attempts]

Reading(part) == [Idle EXCEPT !.at = "read", !.part = part]

Transactions ==
    [dispute : Disputes, part : 1..2, attempt : 1..Attempts, nonce : Nat,
     signer : Keys, status : {"sent", "done", "failed"}]

Init ==
    /\ verdict = [d \in Disputes |-> "none"]
    /\ written = [a \in Agents |-> <<>>]
    /\ oracle_authority \in Keys
    /\ key = oracle_authority
    /\ up = TRUE
    /\ told = {}
    /\ pending = {}
    /\ handlers = [d \in Disputes |-> Idle]
    /\ txs = {}
    /\ crashed = FALSE
    /\ troubles = 0

Trouble ==
    /\ troubles < MaxTroubles
    /\ troubles' = troubles + 1

--------------------------------------------------------------------------------
(* The chain.                                                              *)

(* The log line of a settled dispute (external: no program of the          *)
(* repository logs it); a daemon that is up hears of it.                   *)
Settle(d, outcome) ==
    /\ verdict[d] = "none"
    /\ verdict' = [verdict EXCEPT ![d] = outcome]
    /\ told' = IF up THEN told \cup {d} ELSE told
    /\ UNCHANGED <<written, oracle_authority, key, up, pending, handlers, txs, bounds>>

(* The escrow program's CPI, which reads the nonce as it writes.           *)
EscrowUpdate(a) ==
    /\ Trouble
    /\ written' = [written EXCEPT ![a] = Append(@, [by |-> Escrow, delta |-> 0])]
    /\ UNCHANGED <<verdict, oracle_authority, daemonVars, txs, crashed>>

(* set_oracle_authority, signed by the protocol authority.                 *)
SetOracleAuthority(new_oracle) ==
    /\ Trouble
    /\ oracle_authority' = new_oracle
    /\ UNCHANGED <<verdict, written, daemonVars, txs, crashed>>

(* update_reputation on an oracle's transaction: all accounts are there,   *)
(* the signer is the authority and the nonce is the next.                  *)
Accepted(tx) ==
    /\ ListsRegistry
    /\ tx.signer = oracle_authority
    /\ tx.nonce = Len(written[Party(tx.dispute, tx.part)]) + 1

(* A transaction that was sent is executed; one that never is expires.     *)
Execute(tx) ==
    /\ tx.status = "sent"
    /\ txs' = (txs \ {tx}) \cup
              {[tx EXCEPT !.status = IF Accepted(tx) THEN "done" ELSE "failed"]}
    /\ written' = IF Accepted(tx)
                  THEN [written EXCEPT ![Party(tx.dispute, tx.part)] =
                          Append(@, [by    |-> tx.dispute,
                                     delta |-> Delta(verdict[tx.dispute], tx.part)])]
                  ELSE written
    /\ UNCHANGED <<verdict, oracle_authority, daemonVars, bounds>>

--------------------------------------------------------------------------------
(* The daemon.                                                             *)

(* handleLogs parses the line and onDispute queues the dispute.            *)
OnDispute(d) ==
    /\ up /\ d \in told
    /\ told' = told \ {d}
    /\ pending' = pending \cup {d}
    /\ handlers' = [handlers EXCEPT ![d] = Reading(1)]
    /\ UNCHANGED <<chainVars, key, up, txs, bounds>>

FetchNonce(d) ==
    /\ handlers[d].at = "read"
    /\ handlers' = [handlers EXCEPT
         ![d].at      = "send",
         ![d].nonce   = Len(written[Party(d, handlers[d].part)]) + 1,
         ![d].attempt = 1]
    /\ UNCHANGED <<chainVars, key, up, told, pending, txs, bounds>>

RpcError == Trouble /\ UNCHANGED crashed

(* The read is not retried: the error ends the handler, and the dispute    *)
(* stays in the queue.                                                     *)
FetchNonceFails(d) ==
    /\ handlers[d].at = "read"
    /\ RpcError
    /\ handlers' = [handlers EXCEPT ![d] = Idle]
    /\ UNCHANGED <<chainVars, key, up, told, pending, txs>>

Transaction(d) ==
    [dispute |-> d, part |-> handlers[d].part, attempt |-> handlers[d].attempt,
     nonce |-> handlers[d].nonce, signer |-> key, status |-> "sent"]

(* Variant: the attempts are not counted.                                  *)
RetryForever(call) == call

(* Variant: one attempt more than there are.                               *)
RetryOnceMore(call) ==
    IF call.attempt > Attempts THEN Idle ELSE [call EXCEPT !.attempt = @ + 1]

(* withRetry, when a call has failed.                                      *)
Retry(call) ==
    IF call.attempt = Attempts THEN Idle ELSE [call EXCEPT !.attempt = @ + 1]

(* Variant: the nonce is read again before each attempt.                   *)
SendFreshNonce(d) ==
    /\ handlers[d].at = "send"
    /\ LET tx == [Transaction(d) EXCEPT !.nonce = Len(written[Party(d, handlers[d].part)]) + 1]
       IN  Accepted(tx) /\ txs' = txs \cup {tx}
    /\ \/ /\ handlers' = [handlers EXCEPT ![d].at = "confirm",
                            ![d].sent = handlers[d].attempt, ![d].attempt = 1]
          /\ UNCHANGED bounds
       \/ RpcError /\ handlers' = [handlers EXCEPT ![d] = Retry(@)]
    /\ UNCHANGED <<chainVars, key, up, told, pending>>

(* sendTransaction simulates the transaction first.  What passes is sent,  *)
(* whether the answer comes back or is lost to an error.                   *)
Send(d) ==
    /\ handlers[d].at = "send"
    /\ Accepted(Transaction(d))
    /\ txs' = txs \cup {Transaction(d)}
    /\ \/ /\ handlers' = [handlers EXCEPT ![d].at = "confirm",
                            ![d].sent = handlers[d].attempt, ![d].attempt = 1]
          /\ UNCHANGED bounds
       \/ RpcError /\ handlers' = [handlers EXCEPT ![d] = Retry(@)]
    /\ UNCHANGED <<chainVars, key, up, told, pending>>

(* The simulation fails, or the call does before anything is sent.         *)
SendFails(d) ==
    /\ handlers[d].at = "send"
    /\ \/ ~Accepted(Transaction(d)) /\ UNCHANGED bounds
       \/ RpcError
    /\ handlers' = [handlers EXCEPT ![d] = Retry(@)]
    /\ UNCHANGED <<chainVars, key, up, told, pending, txs>>

Sent(d) ==
    CHOOSE tx \in txs : /\ tx.dispute = d /\ tx.part = handlers[d].part
                        /\ tx.attempt = handlers[d].sent

(* Variant: the dispute is struck off when its first update is confirmed.  *)
ConfirmEither(d) ==
    /\ handlers[d].at = "confirm"
    /\ Sent(d).status # "sent"
    /\ IF handlers[d].part = 1
       THEN handlers' = [handlers EXCEPT ![d] = Reading(2)]
       ELSE handlers' = [handlers EXCEPT ![d] = Idle]
    /\ pending' = pending \ {d}
    /\ UNCHANGED <<chainVars, key, up, told, txs, bounds>>

(* confirmTransaction answers once the transaction was executed, also when *)
(* it failed: the error in the answer is not looked at.  Then the second   *)
(* update, or the dispute leaves the queue.                                *)
Confirm(d) ==
    /\ handlers[d].at = "confirm"
    /\ Sent(d).status # "sent"
    /\ IF handlers[d].part = 1
       THEN /\ handlers' = [handlers EXCEPT ![d] = Reading(2)]
            /\ UNCHANGED pending
       ELSE /\ handlers' = [handlers EXCEPT ![d] = Idle]
            /\ pending' = pending \ {d}
    /\ UNCHANGED <<chainVars, key, up, told, txs, bounds>>

(* It times out on a transaction not executed for a minute, or the call    *)
(* fails.                                                                  *)
ConfirmFails(d) ==
    /\ handlers[d].at = "confirm"
    /\ RpcError
    /\ handlers' = [handlers EXCEPT ![d] = Retry(@)]
    /\ UNCHANGED <<chainVars, key, up, told, pending, txs>>

(* The queue and the handlers live in memory, and the log subscription of  *)
(* the next run starts from then.                                          *)
Crash ==
    /\ up
    /\ Trouble
    /\ crashed' = TRUE
    /\ up' = FALSE
    /\ told' = {}
    /\ pending' = {}
    /\ handlers' = [d \in Disputes |-> Idle]
    /\ UNCHANGED <<chainVars, key, txs>>

(* Started by hand, with the keypair of the configuration.                 *)
Start(k) ==
    /\ ~up
    /\ up' = TRUE
    /\ key' = k
    /\ UNCHANGED <<chainVars, told, pending, handlers, txs, bounds>>

--------------------------------------------------------------------------------
Handler(d) ==
    \/ FetchNonce(d) \/ FetchNonceFails(d)
    \/ Send(d) \/ SendFails(d)
    \/ Confirm(d) \/ ConfirmFails(d)

Next ==
    \/ \E d \in Disputes, outcome \in Verdicts : Settle(d, outcome)
    \/ \E a \in Agents : EscrowUpdate(a)
    \/ \E k \in Keys : SetOracleAuthority(k)
    \/ \E tx \in txs : Execute(tx)
    \/ \E d \in Disputes : OnDispute(d)
    \/ \E d \in Disputes : Handler(d)
    \/ Crash
    \/ \E k \in Keys : Start(k)

Spec == Init /\ [][Next]_vars

(* Fairness: a handler that was started runs on (each RPC call returns or  *)
(* fails), and what the network accepted is executed in the end.           *)
Fairness ==
    /\ \A d \in Disputes :
         /\ WF_vars(OnDispute(d))
         /\ WF_vars(Handler(d))
    /\ WF_vars(\E tx \in txs : Execute(tx))

FairSpec == Spec /\ Fairness

--------------------------------------------------------------------------------
(* The shape of the state; a handler that confirms has a transaction to    *)
(* ask about.                                                              *)
TypeOK ==
    /\ verdict \in [Disputes -> Verdicts \cup {"none"}]
    /\ written \in [Agents -> Seq([by : Disputes \cup {Escrow}, delta : {-400, 0, 20}])]
    /\ oracle_authority \in Keys /\ key \in Keys
    /\ up \in BOOLEAN
    /\ told \subseteq Disputes /\ pending \subseteq Disputes
    /\ handlers \in [Disputes -> Handlers]
    /\ txs \subseteq Transactions
    /\ \A d \in Disputes :
         handlers[d].at = "confirm" =>
            \E tx \in txs : /\ tx.dispute = d /\ tx.part = handlers[d].part
                            /\ tx.attempt = handlers[d].sent

(* A verdict reaches an account at most once, however often its            *)
(* transaction was sent, and only a party's, as the faulted one or not:    *)
(* the nonce encoded before the retries (voter.ts:55) against              *)
(* update_reputation's check.                                              *)
VerdictsWrittenOnce ==
    \A a \in Agents : \A i \in DOMAIN written[a] :
        LET d == written[a][i].by
        IN  d \in Disputes =>
              /\ \E part \in 1..2 :
                   /\ a = Party(d, part)
                   /\ written[a][i].delta < 0 <=>
                        verdict[d] = <<"AgentFaulted", "CounterpartyFaulted">>[part]
              /\ \A k \in DOMAIN written[a] : written[a][k].by = d => k = i

(* Of the parties of a dispute the counterparty is never written first,    *)
(* and a dispute the daemon took up and has not lost in a crash is in its  *)
(* queue until a transaction for each party was executed (index.ts:46-56): *)
(* a failed or half-done dispute is one the deadline warning can find.     *)
Executed(d, part) ==
    \E tx \in txs : tx.dispute = d /\ tx.part = part /\ tx.status # "sent"

QueueHoldsUnfinished ==
    \A d \in Disputes :
        /\ (\E tx \in txs : tx.dispute = d /\ tx.part = 2) => Executed(d, 1)
        /\ (~crashed /\ verdict[d] # "none" /\ d \notin told /\ d \notin pending)
              => Executed(d, 1) /\ Executed(d, 2)

(* A handler ends, whatever the network does: the attempts are bounded, so *)
(* the lines of a notification after this one are reached.                 *)
HandlersEnd == \A d \in Disputes : handlers[d].at # "idle" ~> handlers[d].at = "idle"

(* What oracle-flow.test.ts:2-5 tests for: the pipeline from the log line  *)
(* of a settled dispute through to an update of both parties.              *)
WritesBoth(d) ==
    \A part \in 1..2 : \E i \in DOMAIN written[Party(d, part)] :
        written[Party(d, part)][i].by = d

DisputesAreWritten == \A d \in Disputes : d \in pending ~> WritesBoth(d)
================================================================================
