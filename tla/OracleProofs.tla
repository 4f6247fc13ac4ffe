------------------------------ MODULE OracleProofs ------------------------------
(***************************************************************************)
(* What the oracle's retries cannot do, for any number of agents, disputes *)
(* and attempts, and with any number of crashes, rotations and RPC errors. *)
(*                                                                         *)
(* The argument: a dispute's handler starts once (its log line is taken    *)
(* once) and reads one nonce per party, so all the transactions of one     *)
(* dispute for one party carry the same nonce; an entry of an account sits *)
(* at the index its transaction's nonce names; so two entries of one       *)
(* dispute in one account are one.                                         *)
(***************************************************************************)
EXTENDS Oracle, TLAPS

(* A handler under way is at an update, and has an attempt.                *)
HandlersValid ==
    \A d \in Disputes :
        /\ handlers[d].at # "idle" => handlers[d].part \in 1..2
        /\ handlers[d].at \in {"send", "confirm"} => handlers[d].attempt \in 1..Attempts

(* A dispute not settled, or whose log line is on its way, has no handler  *)
(* yet and no transactions.                                                *)
NotStarted ==
    \A d \in Disputes :
        /\ verdict[d] = "none" => d \notin told
        /\ verdict[d] = "none" \/ d \in told =>
             handlers[d].at = "idle" /\ \A tx \in txs : tx.dispute # d

(* The transactions sent are of the updates the handler has come to, and   *)
(* those of its present update carry the nonce it holds.                   *)
HandlersAgree ==
    \A d \in Disputes : \A tx \in txs :
        tx.dispute = d /\ handlers[d].at # "idle" =>
            /\ tx.part <= handlers[d].part
            /\ tx.part = handlers[d].part => /\ handlers[d].at # "read"
                                             /\ tx.nonce = handlers[d].nonce

OneNonce ==
    \A t, u \in txs : t.dispute = u.dispute /\ t.part = u.part => t.nonce = u.nonce

(* An entry of a dispute comes from a transaction whose nonce is its index.*)
From(tx, a, i) ==
    /\ tx.dispute = written[a][i].by
    /\ a = Party(tx.dispute, tx.part)
    /\ tx.nonce = i
    /\ written[a][i].delta = Delta(verdict[tx.dispute], tx.part)

Sourced ==
    \A a \in Agents : \A i \in DOMAIN written[a] :
        written[a][i].by \in Disputes => \E tx \in txs : From(tx, a, i)

IInv == TypeOK /\ HandlersValid /\ NotStarted /\ HandlersAgree /\ OneNonce /\ Sourced

--------------------------------------------------------------------------------
Entry == [by : Disputes \cup {Escrow}, delta : {-400, 0, 20}]

LEMMA DeltaType == \A outcome, part : Delta(outcome, part) \in {-400, 0, 20}
  BY DEF Delta

LEMMA PartyType == \A d \in Disputes, part \in 1..2 : Party(d, part) \in Agents
  BY OracleAssumption DEF Party

LEMMA IdleType == Idle \in Handlers
  BY OracleAssumption DEF Idle, Handlers

(* What a failed call leaves of a handler.                                 *)
LEMMA RetryKeeps ==
  ASSUME NEW call \in Handlers, call.attempt \in 1..Attempts
  PROVE  /\ Retry(call) \in Handlers
         /\ Retry(call).at # "idle" =>
              /\ Retry(call).at = call.at /\ Retry(call).part = call.part
              /\ Retry(call).nonce = call.nonce /\ Retry(call).sent = call.sent
              /\ Retry(call).attempt \in 1..Attempts
  BY OracleAssumption, IdleType DEF Retry, Idle, Handlers

LEMMA TransactionType ==
  ASSUME TypeOK, HandlersValid, NEW d \in Disputes, handlers[d].at = "send"
  PROVE  Transaction(d) \in Transactions
  BY DEF TypeOK, HandlersValid, Handlers, Transaction, Transactions

LEMMA AppendType ==
  ASSUME TypeOK, NEW a \in Agents, NEW entry \in Entry
  PROVE  Append(written[a], entry) \in Seq(Entry)
<1>1. written \in [Agents -> Seq(Entry)]
  BY Zenon DEF TypeOK, Entry
<1> QED
  BY <1>1

(* Where each step of a handler leaves it; the other handlers stay.        *)
OthersStay(d) == \A c \in Disputes \ {d} : handlers'[c] = handlers[c]

LEMMA ReadingType ==
  ASSUME NEW part \in 1..2
  PROVE  /\ Reading(part) \in Handlers
         /\ Reading(part).at = "read" /\ Reading(part).part = part
<1>1. "read" \in {"idle", "read", "send", "confirm"} /\ part \in 0..2
  OBVIOUS
<1>2. \A h \in Handlers : /\ [h EXCEPT !.at = "read", !.part = part] \in Handlers
                          /\ [h EXCEPT !.at = "read", !.part = part].at = "read"
                          /\ [h EXCEPT !.at = "read", !.part = part].part = part
  BY Zenon, <1>1 DEF Handlers
<1> QED
  BY <1>2, IdleType DEF Reading

LEMMA FetchNonceMoves ==
  ASSUME TypeOK, HandlersValid, NEW d \in Disputes, FetchNonce(d)
  PROVE  /\ handlers' \in [Disputes -> Handlers] /\ OthersStay(d)
         /\ handlers'[d].at = "send" /\ handlers'[d].attempt = 1
         /\ handlers'[d].part = handlers[d].part /\ handlers[d].part \in 1..2
<1> DEFINE nonce == Len(written[Party(d, handlers[d].part)]) + 1
<1>1. handlers \in [Disputes -> Handlers] /\ handlers[d] \in Handlers
  BY DEF TypeOK
<1>2. handlers[d].part \in 1..2
  BY DEF FetchNonce, HandlersValid
<1>3. nonce \in Nat
  <2>1. written[Party(d, handlers[d].part)] \in Seq(Entry)
    BY <1>2, PartyType DEF TypeOK, Entry
  <2> QED
    BY <2>1
<1>4. handlers' = [handlers EXCEPT ![d].at = "send", ![d].nonce = nonce, ![d].attempt = 1]
  BY DEF FetchNonce
<1> HIDE DEF nonce
<1>5. handlers'[d] = [handlers[d] EXCEPT !.at = "send", !.nonce = nonce, !.attempt = 1]
  BY SMT, <1>1, <1>4
<1>6. 1 \in 0..Attempts
  BY OracleAssumption
<1> DEFINE h     == handlers[d]
           moved == [h EXCEPT !.at = "send", !.nonce = nonce, !.attempt = 1]
<1>7. /\ moved \in Handlers /\ moved.at = "send"
      /\ moved.part = h.part /\ moved.attempt = 1
  <2> HIDE DEF h
  <2>1. h \in Handlers
    BY <1>1 DEF h
  <2> QED
    BY Zenon, <1>3, <1>6, <2>1 DEF Handlers
<1> HIDE DEF moved
<1>8. /\ handlers'[d] \in Handlers /\ handlers'[d].at = "send"
      /\ handlers'[d].part = handlers[d].part /\ handlers'[d].attempt = 1
  BY <1>5, <1>7 DEF moved
<1>9. handlers' \in [Disputes -> Handlers] /\ OthersStay(d)
  BY SMT, <1>1, <1>4, <1>8 DEF OthersStay
<1> QED
  BY <1>2, <1>8, <1>9

(* A call that is repeated is the call it was.                             *)
Holds(d) ==
    handlers'[d].at # "idle" =>
        /\ handlers'[d].at \in {"send", "confirm"}
        /\ handlers'[d].part = handlers[d].part
        /\ handlers'[d].nonce = handlers[d].nonce
        /\ handlers'[d].attempt \in 1..Attempts

LEMMA RetryMoves ==
  ASSUME TypeOK, HandlersValid, NEW d \in Disputes,
         handlers[d].at \in {"send", "confirm"},
         handlers' = [handlers EXCEPT ![d] = Retry(@)]
  PROVE  /\ handlers' \in [Disputes -> Handlers] /\ OthersStay(d) /\ Holds(d)
         /\ handlers'[d].at = "confirm" =>
              handlers[d].at = "confirm" /\ handlers'[d].sent = handlers[d].sent
<1>1. /\ handlers \in [Disputes -> Handlers] /\ handlers[d] \in Handlers
      /\ handlers[d].attempt \in 1..Attempts
  BY DEF TypeOK, HandlersValid
<1>2. handlers'[d] = Retry(handlers[d])
  BY <1>1
<1> QED
  BY <1>1, <1>2, RetryKeeps DEF OthersStay, Holds

LEMMA SendMoves ==
  ASSUME TypeOK, HandlersValid, NEW d \in Disputes, Send(d)
  PROVE  /\ handlers' \in [Disputes -> Handlers] /\ OthersStay(d) /\ Holds(d)
         /\ handlers'[d].at = "confirm" => handlers'[d].sent = handlers[d].attempt
<1> DEFINE attempt == handlers[d].attempt
<1>1. /\ handlers \in [Disputes -> Handlers] /\ handlers[d] \in Handlers
      /\ attempt \in 1..Attempts /\ handlers[d].at = "send"
  BY DEF TypeOK, HandlersValid, Send
<1>2. CASE handlers' = [handlers EXCEPT ![d].at = "confirm", ![d].sent = attempt,
                                         ![d].attempt = 1]
  <2> HIDE DEF attempt
  <2>1. handlers'[d] = [handlers[d] EXCEPT !.at = "confirm", !.sent = attempt, !.attempt = 1]
    BY SMT, <1>1, <1>2
  <2>2. 1 \in 1..Attempts /\ 1 \in 0..Attempts /\ attempt \in 0..Attempts
    BY <1>1, OracleAssumption
  <2> DEFINE h     == handlers[d]
             moved == [h EXCEPT !.at = "confirm", !.sent = attempt, !.attempt = 1]
  <2>3. /\ moved \in Handlers /\ moved.at = "confirm"
        /\ moved.part = h.part /\ moved.nonce = h.nonce
        /\ moved.sent = attempt /\ moved.attempt = 1
    <3> HIDE DEF h
    <3>1. h \in Handlers
      BY <1>1 DEF h
    <3> QED
      BY Zenon, <2>2, <3>1 DEF Handlers
  <2> HIDE DEF moved
  <2>4. /\ handlers'[d] \in Handlers /\ Holds(d) /\ handlers'[d].sent = attempt
    BY <2>1, <2>2, <2>3 DEF Holds, moved
  <2>5. handlers' \in [Disputes -> Handlers] /\ OthersStay(d)
    BY SMT, <1>1, <1>2, <2>4 DEF OthersStay
  <2> QED
    BY <2>4, <2>5 DEF attempt
<1>3. CASE handlers' = [handlers EXCEPT ![d] = Retry(@)]
  BY <1>1, <1>3, RetryMoves
<1> QED
  BY <1>2, <1>3 DEF Send

LEMMA FailMoves ==
  ASSUME TypeOK, HandlersValid, NEW d \in Disputes, SendFails(d) \/ ConfirmFails(d)
  PROVE  /\ handlers' \in [Disputes -> Handlers] /\ OthersStay(d) /\ Holds(d)
         /\ handlers'[d].at = "confirm" =>
              handlers[d].at = "confirm" /\ handlers'[d].sent = handlers[d].sent
  BY RetryMoves DEF SendFails, ConfirmFails

LEMMA ConfirmMoves ==
  ASSUME TypeOK, HandlersValid, NEW d \in Disputes, Confirm(d)
  PROVE  /\ handlers' \in [Disputes -> Handlers] /\ OthersStay(d)
         /\ handlers'[d].at # "idle" =>
              /\ handlers[d].part = 1
              /\ handlers'[d].at = "read" /\ handlers'[d].part = 2
  BY ReadingType, IdleType DEF TypeOK, Confirm, OthersStay, Idle

LEMMA OnDisputeMoves ==
  ASSUME TypeOK, NEW d \in Disputes, OnDispute(d)
  PROVE  /\ handlers' \in [Disputes -> Handlers] /\ OthersStay(d)
         /\ handlers'[d].at = "read" /\ handlers'[d].part = 1
  BY ReadingType DEF TypeOK, OnDispute, OthersStay

--------------------------------------------------------------------------------
(* The shape of the state is kept.                                         *)
LEMMA TypeStep ==
  ASSUME TypeOK, HandlersValid, NotStarted, [Next]_vars
  PROVE  TypeOK'
<1>1. ASSUME NEW d \in Disputes, NEW outcome \in Verdicts, Settle(d, outcome)
      PROVE  TypeOK'
  BY <1>1 DEF TypeOK, Settle
<1>2. ASSUME NEW a \in Agents, EscrowUpdate(a)
      PROVE  TypeOK'
  <2>1. [by |-> Escrow, delta |-> 0] \in Entry
    BY DEF Entry
  <2>2. Append(written[a], [by |-> Escrow, delta |-> 0]) \in Seq(Entry)
    BY <2>1, AppendType
  <2> QED
    BY <1>2, <2>2 DEF TypeOK, EscrowUpdate, daemonVars, Entry
<1>3. ASSUME NEW k \in Keys, SetOracleAuthority(k)
      PROVE  TypeOK'
  BY <1>3 DEF TypeOK, SetOracleAuthority, daemonVars
<1>4. ASSUME NEW tx \in txs, Execute(tx)
      PROVE  TypeOK'
  <2> DEFINE new == [tx EXCEPT !.status = IF Accepted(tx) THEN "done" ELSE "failed"]
             entry == [by |-> tx.dispute, delta |-> Delta(verdict[tx.dispute], tx.part)]
  <2>1. tx \in Transactions
    BY DEF TypeOK
  <2>2. /\ new \in Transactions
        /\ new.dispute = tx.dispute /\ new.part = tx.part /\ new.attempt = tx.attempt
    BY <2>1 DEF Transactions
  <2>3. txs' = (txs \ {tx}) \cup {new}
    BY <1>4 DEF Execute
  <2>4. entry \in Entry
    BY <2>1, DeltaType DEF Transactions, Entry
  <2>5. written' \in [Agents -> Seq(Entry)]
    <3>1. Party(tx.dispute, tx.part) \in Agents
      BY <2>1, PartyType DEF Transactions
    <3>2. Append(written[Party(tx.dispute, tx.part)], entry) \in Seq(Entry)
      BY <2>4, <3>1, AppendType
    <3> HIDE DEF entry
    <3> QED
      BY <1>4, <3>1, <3>2 DEF TypeOK, Execute, Entry, entry
  <2>6. txs' \subseteq Transactions
    BY <2>2, <2>3 DEF TypeOK
  <2>7. \A d \in Disputes : handlers[d].at = "confirm" =>
          \E t \in txs' : t.dispute = d /\ t.part = handlers[d].part
                           /\ t.attempt = handlers[d].sent
    <3> HIDE DEF new
    <3> QED
      BY <2>2, <2>3 DEF TypeOK
  <2> QED
    BY <1>4, <2>5, <2>6, <2>7 DEF TypeOK, Execute, daemonVars, bounds, Entry
<1>5. ASSUME NEW d \in Disputes, OnDispute(d)
      PROVE  TypeOK'
  <2>1. /\ handlers' \in [Disputes -> Handlers] /\ OthersStay(d)
        /\ handlers'[d].at # "confirm"
    BY <1>5, OnDisputeMoves DEF Holds
  <2>2. /\ UNCHANGED <<verdict, written, oracle_authority, key, up, txs>>
        /\ told' \subseteq told /\ pending' = pending \cup {d}
    BY <1>5 DEF OnDispute, chainVars, bounds
  <2>3. \A c \in Disputes : handlers'[c].at = "confirm" =>
          \E tx \in txs' : /\ tx.dispute = c /\ tx.part = handlers'[c].part
                            /\ tx.attempt = handlers'[c].sent
    BY <2>1, <2>2 DEF TypeOK, OthersStay
  <2> QED
    BY <2>1, <2>2, <2>3 DEF TypeOK
<1>6. ASSUME NEW d \in Disputes, FetchNonce(d)
      PROVE  TypeOK'
  <2>1. /\ handlers' \in [Disputes -> Handlers] /\ OthersStay(d)
        /\ handlers'[d].at # "confirm"
    BY <1>6, FetchNonceMoves DEF Holds
  <2>2. \A c \in Disputes : handlers'[c].at = "confirm" =>
          /\ handlers[c].at = "confirm" /\ handlers'[c].sent = handlers[c].sent
          /\ handlers'[c].part = handlers[c].part
    BY <2>1 DEF OthersStay
  <2>3. /\ UNCHANGED <<verdict, written, oracle_authority, key, up, told, txs>>
        /\ pending' \subseteq pending
    BY <1>6 DEF FetchNonce, chainVars, bounds
  <2>4. \A c \in Disputes : handlers'[c].at = "confirm" =>
          \E tx \in txs' : /\ tx.dispute = c /\ tx.part = handlers'[c].part
                            /\ tx.attempt = handlers'[c].sent
    BY <2>2, <2>3 DEF TypeOK
  <2> QED
    BY <2>1, <2>3, <2>4 DEF TypeOK
<1>7. ASSUME NEW d \in Disputes, FetchNonceFails(d)
      PROVE  TypeOK'
  BY <1>7, IdleType DEF TypeOK, FetchNonceFails, chainVars, Idle
<1>8. ASSUME NEW d \in Disputes, Send(d)
      PROVE  TypeOK'
  <2>1. Transaction(d) \in Transactions
    BY <1>8, TransactionType DEF Send
  <2>2. /\ Transaction(d).dispute = d /\ Transaction(d).part = handlers[d].part
        /\ Transaction(d).attempt = handlers[d].attempt
    BY DEF Transaction
  <2>3. txs' = txs \cup {Transaction(d)}
    BY <1>8 DEF Send
  <2>4. \A c \in Disputes : handlers'[c].at = "confirm" =>
          \E t \in txs' : t.dispute = c /\ t.part = handlers'[c].part
                           /\ t.attempt = handlers'[c].sent
    <3>1. ASSUME NEW c \in Disputes, handlers'[c].at = "confirm"
          PROVE  \E t \in txs' : t.dispute = c /\ t.part = handlers'[c].part
                                  /\ t.attempt = handlers'[c].sent
      <4>1. CASE c = d
        BY <1>8, <2>2, <2>3, <3>1, <4>1, SendMoves DEF Holds
      <4>2. CASE c # d
        <5>1. handlers'[c] = handlers[c]
          BY <1>8, <4>2, SendMoves DEF OthersStay
        <5> QED
          BY <2>3, <3>1, <5>1 DEF TypeOK
      <4> QED
        BY <4>1, <4>2
    <3> QED
      BY <3>1
  <2>5. handlers' \in [Disputes -> Handlers]
    BY <1>8, SendMoves
  <2> QED
    BY <1>8, <2>1, <2>3, <2>4, <2>5 DEF TypeOK, Send, chainVars
<1>9. ASSUME NEW d \in Disputes, SendFails(d) \/ ConfirmFails(d)
      PROVE  TypeOK'
  <2>1. /\ handlers' \in [Disputes -> Handlers] /\ OthersStay(d)
        /\ handlers'[d].at = "confirm" =>
             /\ handlers[d].at = "confirm" /\ handlers'[d].sent = handlers[d].sent
             /\ handlers'[d].part = handlers[d].part
    BY <1>9, FailMoves DEF Holds
  <2>2. \A c \in Disputes : handlers'[c].at = "confirm" =>
          /\ handlers[c].at = "confirm" /\ handlers'[c].sent = handlers[c].sent
          /\ handlers'[c].part = handlers[c].part
    BY <2>1 DEF OthersStay
  <2>3. /\ UNCHANGED <<verdict, written, oracle_authority, key, up, told, txs>>
        /\ pending' \subseteq pending
    BY <1>9 DEF SendFails, ConfirmFails, chainVars
  <2>4. \A c \in Disputes : handlers'[c].at = "confirm" =>
          \E tx \in txs' : /\ tx.dispute = c /\ tx.part = handlers'[c].part
                            /\ tx.attempt = handlers'[c].sent
    BY <2>2, <2>3 DEF TypeOK
  <2> QED
    BY <2>1, <2>3, <2>4 DEF TypeOK
<1>10. ASSUME NEW d \in Disputes, Confirm(d)
       PROVE  TypeOK'
  <2>1. /\ handlers' \in [Disputes -> Handlers] /\ OthersStay(d)
        /\ handlers'[d].at # "confirm"
    BY <1>10, ConfirmMoves DEF Holds
  <2>2. \A c \in Disputes : handlers'[c].at = "confirm" =>
          /\ handlers[c].at = "confirm" /\ handlers'[c].sent = handlers[c].sent
          /\ handlers'[c].part = handlers[c].part
    BY <2>1 DEF OthersStay
  <2>3. /\ UNCHANGED <<verdict, written, oracle_authority, key, up, told, txs>>
        /\ pending' \subseteq pending
    BY <1>10 DEF Confirm, chainVars, bounds
  <2>4. \A c \in Disputes : handlers'[c].at = "confirm" =>
          \E tx \in txs' : /\ tx.dispute = c /\ tx.part = handlers'[c].part
                            /\ tx.attempt = handlers'[c].sent
    BY <2>2, <2>3 DEF TypeOK
  <2> QED
    BY <2>1, <2>3, <2>4 DEF TypeOK
<1>11. ASSUME Crash
       PROVE  TypeOK'
  BY <1>11, IdleType DEF TypeOK, Crash, chainVars, Idle
<1>12. ASSUME NEW k \in Keys, Start(k)
       PROVE  TypeOK'
  BY <1>12 DEF TypeOK, Start, chainVars, bounds
<1>13. CASE UNCHANGED vars
  BY <1>13 DEF TypeOK, vars, chainVars, daemonVars, bounds
<1> QED
  BY <1>1, <1>2, <1>3, <1>4, <1>5, <1>6, <1>7, <1>8, <1>9, <1>10, <1>11, <1>12, <1>13
     DEF Next, Handler

--------------------------------------------------------------------------------
(* The inductive step.  Three lemmas for what several actions leave alone. *)
LEMMA HandlersAlone ==
  ASSUME HandlersValid, HandlersAgree, OneNonce, UNCHANGED <<handlers, txs>>
  PROVE  HandlersValid' /\ HandlersAgree' /\ OneNonce'
  BY DEF HandlersValid, HandlersAgree, OneNonce

LEMMA SourcesAlone ==
  ASSUME Sourced, UNCHANGED <<verdict, written>>, txs \subseteq txs'
  PROVE  Sourced'
<1> SUFFICES ASSUME NEW a \in Agents, NEW i \in DOMAIN written[a],
                    written[a][i].by \in Disputes
             PROVE  \E tx \in txs' : From(tx, a, i)'
  BY DEF Sourced
<1>1. PICK tx \in txs : From(tx, a, i)
  BY DEF Sourced
<1> QED
  BY <1>1 DEF From, Party

(* A handler that moved on, where no transaction was sent.                 *)
LEMMA HandlerMoved ==
  ASSUME HandlersValid, HandlersAgree, NotStarted, OneNonce, NEW d \in Disputes,
         UNCHANGED <<verdict, told, txs>>, OthersStay(d),
         handlers[d].at # "idle", Holds(d)
  PROVE  HandlersValid' /\ HandlersAgree' /\ NotStarted' /\ OneNonce'
<1>1. handlers'[d].at # "idle" => handlers'[d].part \in 1..2
  BY DEF Holds, HandlersValid
<1>2. HandlersValid'
  BY <1>1 DEF OthersStay, Holds, HandlersValid
<1>3. HandlersAgree'
  BY DEF OthersStay, Holds, HandlersAgree
<1>4. NotStarted'
  BY DEF OthersStay, NotStarted
<1> QED
  BY <1>2, <1>3, <1>4 DEF OneNonce

LEMMA SettleStep ==
  ASSUME IInv, NEW d \in Disputes, NEW outcome \in Verdicts, Settle(d, outcome)
  PROVE  NotStarted' /\ Sourced'
<1>1. /\ verdict' = [verdict EXCEPT ![d] = outcome] /\ verdict \in [Disputes -> Verdicts \cup {"none"}]
      /\ verdict[d] = "none" /\ outcome # "none"
      /\ told' \subseteq told \cup {d} /\ UNCHANGED <<written, handlers, txs>>
  BY OracleAssumption DEF Settle, IInv, TypeOK
<1>2. \A tx \in txs : tx.dispute # d
  BY <1>1 DEF IInv, NotStarted
<1>3. NotStarted'
  BY <1>1 DEF IInv, NotStarted
<1>4. ASSUME NEW a \in Agents, NEW i \in DOMAIN written[a], written[a][i].by \in Disputes
      PROVE  \E tx \in txs' : From(tx, a, i)'
  <2>1. PICK tx \in txs : From(tx, a, i)
    BY <1>4 DEF IInv, Sourced
  <2>2. tx.dispute # d /\ tx.dispute \in Disputes
    BY <1>2 DEF IInv, TypeOK, Transactions
  <2>3. verdict'[tx.dispute] = verdict[tx.dispute]
    BY <1>1, <2>2
  <2> QED
    BY <1>1, <2>1, <2>3 DEF From, Party
<1> QED
  BY <1>1, <1>3, <1>4 DEF Sourced

LEMMA EscrowUpdateStep ==
  ASSUME IInv, NEW a \in Agents, EscrowUpdate(a)
  PROVE  Sourced'
<1> DEFINE entry == [by |-> Escrow, delta |-> 0]
<1>1. /\ written' = [written EXCEPT ![a] = Append(written[a], entry)]
      /\ UNCHANGED <<verdict, txs>>
  BY DEF EscrowUpdate, daemonVars
<1>2. entry.by \notin Disputes
  BY OracleAssumption
<1> HIDE DEF entry
<1>3. written \in [Agents -> Seq(Entry)]
  BY DEF IInv, TypeOK, Entry
<1>4. ASSUME NEW b \in Agents, NEW i \in DOMAIN written'[b], written'[b][i].by \in Disputes
      PROVE  \E tx \in txs' : From(tx, b, i)'
  <2>1. i \in DOMAIN written[b] /\ written'[b][i] = written[b][i]
    <3>1. CASE b = a
      BY <1>1, <1>2, <1>3, <1>4, <3>1
    <3>2. CASE b # a
      BY <1>1, <1>3, <1>4, <3>2
    <3> QED
      BY <3>1, <3>2
  <2>2. PICK tx \in txs : From(tx, b, i)
    BY <1>4, <2>1 DEF IInv, Sourced
  <2> QED
    BY <1>1, <2>1, <2>2 DEF From, Party
<1> QED
  BY <1>4 DEF Sourced

(* An executed transaction keeps what identifies it, and if it is accepted *)
(* its entry is at the index of its nonce.                                 *)
LEMMA ExecuteStep ==
  ASSUME IInv, NEW tx \in txs, Execute(tx)
  PROVE  HandlersValid' /\ NotStarted' /\ HandlersAgree' /\ OneNonce' /\ Sourced'
<1> DEFINE new   == [tx EXCEPT !.status = IF Accepted(tx) THEN "done" ELSE "failed"]
           party == Party(tx.dispute, tx.part)
           entry == [by |-> tx.dispute, delta |-> Delta(verdict[tx.dispute], tx.part)]
<1>1. tx \in Transactions
  BY DEF IInv, TypeOK
<1>2. new.dispute = tx.dispute /\ new.part = tx.part /\ new.nonce = tx.nonce
  BY <1>1 DEF Transactions
<1>3. txs' = (txs \ {tx}) \cup {new} /\ UNCHANGED <<verdict, told, handlers>>
  BY DEF Execute, daemonVars
<1> HIDE DEF new
<1>4. HandlersValid'
  BY <1>3 DEF IInv, HandlersValid
<1>5. NotStarted'
  BY <1>2, <1>3 DEF IInv, NotStarted
<1>6. HandlersAgree'
  BY <1>2, <1>3 DEF IInv, HandlersAgree
<1>7. OneNonce'
  BY <1>2, <1>3 DEF IInv, OneNonce
<1>8. written \in [Agents -> Seq(Entry)] /\ party \in Agents
  BY <1>1, PartyType DEF IInv, TypeOK, Entry, Transactions
<1>9. ASSUME NEW b \in Agents, NEW i \in DOMAIN written[b], written[b][i].by \in Disputes
      PROVE  \E t \in txs' : /\ t.dispute = written[b][i].by /\ b = Party(t.dispute, t.part)
                              /\ t.nonce = i
                              /\ written[b][i].delta = Delta(verdict[t.dispute], t.part)
  BY <1>2, <1>3, <1>9 DEF IInv, Sourced, From
<1>10. CASE Accepted(tx)
  <2>1. written' = [written EXCEPT ![party] = Append(written[party], entry)]
    BY <1>10 DEF Execute
  <2>2. tx.nonce = Len(written[party]) + 1
    BY <1>10 DEF Accepted
  <2>3. entry.by = tx.dispute /\ entry.delta = Delta(verdict[tx.dispute], tx.part)
    OBVIOUS
  <2> HIDE DEF entry, party
  <2>4. ASSUME NEW b \in Agents, NEW i \in DOMAIN written'[b], written'[b][i].by \in Disputes
        PROVE  \E t \in txs' : From(t, b, i)'
    <3>1. CASE i \in DOMAIN written[b]
      <4>1. written'[b][i] = written[b][i]
        <5>1. CASE b = party
          BY <1>8, <2>1, <3>1, <5>1
        <5>2. CASE b # party
          BY <1>8, <2>1, <5>2
        <5> QED
          BY <5>1, <5>2
      <4>2. PICK t \in txs' : /\ t.dispute = written[b][i].by /\ b = Party(t.dispute, t.part)
                              /\ t.nonce = i
                              /\ written[b][i].delta = Delta(verdict[t.dispute], t.part)
        BY <1>9, <2>4, <3>1, <4>1
      <4> QED
        BY <1>3, <4>1, <4>2 DEF From, Party
    <3>2. CASE i \notin DOMAIN written[b]
      <4>1. b = party
        BY <1>8, <2>1, <2>4, <3>2
      <4>2. i = Len(written[party]) + 1 /\ written'[b][i] = entry
        BY <1>8, <2>1, <2>4, <3>2, <4>1
      <4> QED
        BY <1>2, <1>3, <2>2, <2>3, <4>1, <4>2 DEF From, Party, party
    <3> QED
      BY <3>1, <3>2
  <2> QED
    BY <1>4, <1>5, <1>6, <1>7, <2>4 DEF Sourced
<1>11. CASE ~Accepted(tx)
  <2>1. written' = written
    BY <1>11 DEF Execute
  <2>2. Sourced'
    BY <1>3, <1>9, <2>1 DEF Sourced, From, Party
  <2> QED
    BY <1>4, <1>5, <1>6, <1>7, <2>2
<1> QED
  BY <1>10, <1>11

(* A log line starts the only handler its dispute ever has: there are no   *)
(* transactions for it to disagree with.                                   *)
LEMMA OnDisputeStep ==
  ASSUME IInv, NEW d \in Disputes, OnDispute(d)
  PROVE  HandlersValid' /\ NotStarted' /\ HandlersAgree' /\ OneNonce'
<1>1. /\ OthersStay(d) /\ handlers'[d].at = "read" /\ handlers'[d].part = 1
      /\ d \in told /\ told' = told \ {d} /\ UNCHANGED <<verdict, txs>>
  BY OnDisputeMoves DEF OnDispute, IInv, chainVars
<1>2. \A tx \in txs : tx.dispute # d
  BY <1>1 DEF IInv, NotStarted
<1>3. HandlersValid'
  BY <1>1 DEF OthersStay, IInv, HandlersValid
<1>4. NotStarted'
  BY <1>1 DEF OthersStay, IInv, NotStarted
<1>5. HandlersAgree'
  BY <1>1, <1>2 DEF OthersStay, IInv, HandlersAgree
<1> QED
  BY <1>1, <1>3, <1>4, <1>5 DEF IInv, OneNonce

(* The nonce is read while no transaction of this update exists.           *)
LEMMA FetchNonceStep ==
  ASSUME IInv, NEW d \in Disputes, FetchNonce(d)
  PROVE  HandlersValid' /\ NotStarted' /\ HandlersAgree' /\ OneNonce'
<1>1. /\ OthersStay(d) /\ handlers[d].at = "read"
      /\ handlers'[d].at = "send" /\ handlers'[d].attempt = 1
      /\ handlers'[d].part = handlers[d].part /\ handlers[d].part \in 1..2
      /\ UNCHANGED <<verdict, told, txs>>
  BY FetchNonceMoves DEF FetchNonce, IInv, chainVars
<1>2. \A tx \in txs : tx.dispute = d => tx.part <= handlers[d].part /\ tx.part # handlers[d].part
  BY <1>1 DEF IInv, HandlersAgree
<1>3. HandlersValid'
  BY <1>1, OracleAssumption DEF OthersStay, IInv, HandlersValid
<1>4. NotStarted'
  BY <1>1 DEF OthersStay, IInv, NotStarted
<1>5. HandlersAgree'
  BY <1>1, <1>2 DEF OthersStay, IInv, HandlersAgree
<1> QED
  BY <1>1, <1>3, <1>4, <1>5 DEF IInv, OneNonce

LEMMA FetchNonceFailsStep ==
  ASSUME IInv, NEW d \in Disputes, FetchNonceFails(d)
  PROVE  HandlersValid' /\ NotStarted' /\ HandlersAgree' /\ OneNonce'
<1>1. /\ handlers[d].at # "idle" /\ handlers'[d].at = "idle" /\ OthersStay(d)
      /\ UNCHANGED <<verdict, told, txs>>
  BY DEF FetchNonceFails, IInv, TypeOK, chainVars, OthersStay, Idle
<1> QED
  BY <1>1, HandlerMoved DEF IInv, Holds

LEMMA FailStep ==
  ASSUME IInv, NEW d \in Disputes, SendFails(d) \/ ConfirmFails(d)
  PROVE  HandlersValid' /\ NotStarted' /\ HandlersAgree' /\ OneNonce'
<1>1. /\ handlers[d].at # "idle" /\ OthersStay(d) /\ Holds(d)
      /\ UNCHANGED <<verdict, told, txs>>
  BY FailMoves DEF SendFails, ConfirmFails, IInv, chainVars
<1> QED
  BY <1>1, HandlerMoved DEF IInv

(* What is sent carries the nonce the handler holds, as what was sent of   *)
(* the same update before.                                                 *)
LEMMA SendStep ==
  ASSUME IInv, NEW d \in Disputes, Send(d)
  PROVE  HandlersValid' /\ NotStarted' /\ HandlersAgree' /\ OneNonce'
<1>1. /\ OthersStay(d) /\ Holds(d) /\ handlers[d].at = "send"
      /\ txs' = txs \cup {Transaction(d)} /\ UNCHANGED <<verdict, told>>
  BY SendMoves DEF Send, IInv, chainVars
<1>2. /\ Transaction(d).dispute = d /\ Transaction(d).part = handlers[d].part
      /\ Transaction(d).nonce = handlers[d].nonce
  BY DEF Transaction
<1>3. handlers[d].part \in 1..2 /\ verdict[d] # "none" /\ d \notin told
  BY <1>1 DEF IInv, HandlersValid, NotStarted
<1>4. HandlersValid'
  BY <1>1, <1>3 DEF OthersStay, Holds, IInv, HandlersValid
<1>5. NotStarted'
  BY <1>1, <1>2, <1>3 DEF OthersStay, IInv, NotStarted
<1>6. ASSUME NEW c \in Disputes, NEW tx \in txs', tx.dispute = c, handlers'[c].at # "idle"
      PROVE  /\ tx.part <= handlers'[c].part
             /\ tx.part = handlers'[c].part =>
                  handlers'[c].at # "read" /\ tx.nonce = handlers'[c].nonce
  <2>1. CASE c = d
    BY <1>1, <1>2, <1>3, <1>6, <2>1 DEF Holds, IInv, HandlersAgree
  <2>2. CASE c # d
    BY <1>1, <1>2, <1>6, <2>2 DEF OthersStay, IInv, HandlersAgree
  <2> QED
    BY <2>1, <2>2
<1>7. OneNonce'
  <2>1. \A tx \in txs : tx.dispute = d /\ tx.part = handlers[d].part => tx.nonce = handlers[d].nonce
    BY <1>1 DEF IInv, HandlersAgree
  <2> QED
    BY <1>1, <1>2, <2>1 DEF IInv, OneNonce
<1> QED
  BY <1>4, <1>5, <1>6, <1>7 DEF HandlersAgree

(* The second update is come to when no transaction of it can exist.       *)
LEMMA ConfirmStep ==
  ASSUME IInv, NEW d \in Disputes, Confirm(d)
  PROVE  HandlersValid' /\ NotStarted' /\ HandlersAgree' /\ OneNonce'
<1>1. /\ OthersStay(d) /\ handlers[d].at = "confirm" /\ UNCHANGED <<verdict, told, txs>>
      /\ handlers'[d].at # "idle" =>
           handlers[d].part = 1 /\ handlers'[d].at = "read" /\ handlers'[d].part = 2
  BY ConfirmMoves DEF Confirm, IInv, chainVars
<1>2. HandlersValid'
  BY <1>1 DEF OthersStay, IInv, HandlersValid
<1>3. NotStarted'
  BY <1>1 DEF OthersStay, IInv, NotStarted
<1>4. ASSUME NEW c \in Disputes, NEW tx \in txs, tx.dispute = c, handlers'[c].at # "idle"
      PROVE  /\ tx.part <= handlers'[c].part
             /\ tx.part = handlers'[c].part =>
                  handlers'[c].at # "read" /\ tx.nonce = handlers'[c].nonce
  <2>1. CASE c = d
    <3>1. tx.part <= 1 /\ tx.part \in 1..2
      BY <1>1, <1>4, <2>1 DEF IInv, HandlersAgree, TypeOK, Transactions
    <3> QED
      BY <1>1, <1>4, <2>1, <3>1
  <2>2. CASE c # d
    BY <1>1, <1>4, <2>2 DEF OthersStay, IInv, HandlersAgree
  <2> QED
    BY <2>1, <2>2
<1> QED
  BY <1>1, <1>2, <1>3, <1>4 DEF HandlersAgree, IInv, OneNonce

LEMMA CrashStep ==
  ASSUME IInv, Crash
  PROVE  HandlersValid' /\ NotStarted' /\ HandlersAgree' /\ OneNonce'
<1>1. /\ \A d \in Disputes : handlers'[d].at = "idle"
      /\ told' = {} /\ UNCHANGED <<verdict, txs>>
  BY DEF Crash, chainVars, Idle
<1> QED
  BY <1>1 DEF IInv, HandlersValid, NotStarted, HandlersAgree, OneNonce

--------------------------------------------------------------------------------
LEMMA InvInit == Init => IInv
<1> SUFFICES ASSUME Init PROVE IInv
  OBVIOUS
<1>1. TypeOK
  BY IdleType, OracleAssumption DEF Init, TypeOK, Idle
<1>2. HandlersValid /\ NotStarted /\ HandlersAgree /\ OneNonce
  BY DEF Init, HandlersValid, NotStarted, HandlersAgree, OneNonce, Idle
<1>3. Sourced
  BY DEF Init, Sourced
<1> QED
  BY <1>1, <1>2, <1>3 DEF IInv

LEMMA InvStep ==
  ASSUME IInv, [Next]_vars
  PROVE  IInv'
<1>1. TypeOK'
  BY TypeStep DEF IInv
<1>2. ASSUME NEW d \in Disputes, NEW outcome \in Verdicts, Settle(d, outcome)
      PROVE  IInv'
  BY <1>1, <1>2, SettleStep, HandlersAlone DEF Settle, IInv
<1>3. ASSUME NEW a \in Agents, EscrowUpdate(a)
      PROVE  IInv'
  BY <1>1, <1>3, EscrowUpdateStep, HandlersAlone
     DEF EscrowUpdate, daemonVars, IInv, NotStarted
<1>4. ASSUME NEW k \in Keys, SetOracleAuthority(k)
      PROVE  IInv'
  BY <1>1, <1>4, SourcesAlone, HandlersAlone
     DEF SetOracleAuthority, daemonVars, IInv, NotStarted
<1>5. ASSUME NEW tx \in txs, Execute(tx)
      PROVE  IInv'
  BY <1>1, <1>5, ExecuteStep DEF IInv
<1>6. ASSUME NEW d \in Disputes, OnDispute(d)
      PROVE  IInv'
  BY <1>1, <1>6, OnDisputeStep, SourcesAlone DEF OnDispute, chainVars, IInv
<1>7. ASSUME NEW d \in Disputes, FetchNonce(d)
      PROVE  IInv'
  BY <1>1, <1>7, FetchNonceStep, SourcesAlone DEF FetchNonce, chainVars, IInv
<1>8. ASSUME NEW d \in Disputes, FetchNonceFails(d)
      PROVE  IInv'
  BY <1>1, <1>8, FetchNonceFailsStep, SourcesAlone DEF FetchNonceFails, chainVars, IInv
<1>9. ASSUME NEW d \in Disputes, Send(d)
      PROVE  IInv'
  BY <1>1, <1>9, SendStep, SourcesAlone DEF Send, chainVars, IInv
<1>10. ASSUME NEW d \in Disputes, SendFails(d) \/ ConfirmFails(d)
       PROVE  IInv'
  BY <1>1, <1>10, FailStep, SourcesAlone DEF SendFails, ConfirmFails, chainVars, IInv
<1>11. ASSUME NEW d \in Disputes, Confirm(d)
       PROVE  IInv'
  BY <1>1, <1>11, ConfirmStep, SourcesAlone DEF Confirm, chainVars, IInv
<1>12. CASE Crash
  BY <1>1, <1>12, CrashStep, SourcesAlone DEF Crash, chainVars, IInv
<1>13. ASSUME NEW k \in Keys, Start(k)
       PROVE  IInv'
  BY <1>1, <1>13, SourcesAlone, HandlersAlone DEF Start, chainVars, IInv, NotStarted
<1>14. CASE UNCHANGED vars
  BY <1>1, <1>14, SourcesAlone, HandlersAlone
     DEF vars, chainVars, daemonVars, IInv, NotStarted
<1> QED
  BY <1>2, <1>3, <1>4, <1>5, <1>6, <1>7, <1>8, <1>9, <1>10, <1>11, <1>12, <1>13, <1>14
     DEF Next, Handler

(* The state of the chain, the daemon and the network keeps its shape: a   *)
(* handler that waits for a confirmation has a transaction to ask about.   *)
THEOREM OracleTypeCorrect == Spec => []TypeOK
<1>1. IInv => TypeOK
  BY DEF IInv
<1> QED
  BY InvInit, InvStep, <1>1, PTL DEF Spec

(* A verdict is written into an account at most once, and only as what it  *)
(* says of that party, whatever is retried, rotated, or crashes.           *)
THEOREM WrittenOnce == Spec => []VerdictsWrittenOnce
<1>1. IInv => VerdictsWrittenOnce
  <2> SUFFICES ASSUME IInv, NEW a \in Agents, NEW i \in DOMAIN written[a],
                      written[a][i].by \in Disputes
               PROVE  LET d == written[a][i].by
                      IN  /\ \E part \in 1..2 :
                               /\ a = Party(d, part)
                               /\ written[a][i].delta < 0 <=>
                                    verdict[d] = <<"AgentFaulted", "CounterpartyFaulted">>[part]
                          /\ \A k \in DOMAIN written[a] : written[a][k].by = d => k = i
    BY DEF VerdictsWrittenOnce
  <2> DEFINE d == written[a][i].by
  <2>1. PICK tx \in txs : From(tx, a, i)
    BY DEF IInv, Sourced
  <2>2. tx.part \in 1..2 /\ tx.dispute = d
    BY <2>1 DEF IInv, TypeOK, Transactions, From
  <2>3. verdict[d] \in {"AgentFaulted", "CounterpartyFaulted", "Mutual"}
    <3>1. verdict[d] \in Verdicts \cup {"none"} /\ verdict[d] # "none"
      BY <2>2 DEF IInv, TypeOK, NotStarted
    <3> QED
      BY <3>1, OracleAssumption
  <2>4. a = Party(d, tx.part) /\ written[a][i].delta = Delta(verdict[d], tx.part)
    BY <2>1, <2>2 DEF From
  <2>5. written[a][i].delta < 0 <=>
          verdict[d] = <<"AgentFaulted", "CounterpartyFaulted">>[tx.part]
    BY <2>2, <2>3, <2>4 DEF Delta
  <2>6. ASSUME NEW k \in DOMAIN written[a], written[a][k].by = d
        PROVE  k = i
    <3>1. PICK t \in txs : From(t, a, k)
      BY <2>6 DEF IInv, Sourced
    <3>2. t.dispute = tx.dispute /\ t.part \in 1..2 /\ Party(d, t.part) = Party(d, tx.part)
      BY <2>2, <2>4, <2>6, <3>1 DEF From, IInv, TypeOK, Transactions
    <3>3. t.part = tx.part
      BY <2>2, <3>2, OracleAssumption DEF Party
    <3> QED
      BY <2>1, <3>1, <3>2, <3>3 DEF From, IInv, OneNonce
  <2> QED
    BY <2>2, <2>4, <2>5, <2>6
<1> QED
  BY InvInit, InvStep, <1>1, PTL DEF Spec

--------------------------------------------------------------------------------
(* The queue.  The second update is come to, and the dispute struck off,   *)
(* at the confirmation of an executed transaction; only a crash empties    *)
(* the queue otherwise.                                                    *)
FirstBeforeSecond ==
    /\ \A tx \in txs : tx.part = 2 => Executed(tx.dispute, 1)
    /\ \A d \in Disputes :
         handlers[d].at # "idle" /\ handlers[d].part = 2 => Executed(d, 1)

Remembered ==
    \A d \in Disputes :
        ~crashed /\ verdict[d] # "none" /\ d \notin told /\ d \notin pending
            => Executed(d, 1) /\ Executed(d, 2)

QInv == FirstBeforeSecond /\ Remembered /\ (up \/ crashed)

LEMMA ExecutedStays ==
  ASSUME IInv, [Next]_vars, NEW d \in Disputes, NEW part \in 1..2, Executed(d, part)
  PROVE  Executed(d, part)'
<1>1. CASE txs \subseteq txs'
  BY <1>1 DEF Executed
<1>2. CASE \E tx \in txs : Execute(tx)
  BY <1>2 DEF Execute, Executed
<1> QED
  BY <1>1, <1>2 DEF Next, Handler, Settle, EscrowUpdate, SetOracleAuthority, OnDispute,
     FetchNonce, FetchNonceFails, Send, SendFails, Confirm, ConfirmFails, Crash, Start,
     vars, chainVars, daemonVars, bounds

LEMMA ConfirmedIsExecuted ==
  ASSUME IInv, NEW d \in Disputes, Confirm(d)
  PROVE  Executed(d, handlers[d].part)
<1>1. /\ Sent(d) \in txs /\ Sent(d).dispute = d /\ Sent(d).part = handlers[d].part
  BY DEF Confirm, IInv, TypeOK, Sent
<1> QED
  BY <1>1 DEF Confirm, Executed

LEMMA FirstBeforeSecondStep ==
  ASSUME IInv, FirstBeforeSecond, [Next]_vars
  PROVE  FirstBeforeSecond'
<1> DEFINE Grow == \A tx \in txs' : tx.part = 2 => \/ Executed(tx.dispute, 1)
                                                  \/ \E t \in txs : t.part = 2 /\ t.dispute = tx.dispute
           Come == \A d \in Disputes :
                      handlers'[d].at # "idle" /\ handlers'[d].part = 2 =>
                         \/ Executed(d, 1)
                         \/ handlers[d].at # "idle" /\ handlers[d].part = 2
<1>1. ASSUME Grow, Come
      PROVE  FirstBeforeSecond'
  <2>1. \A tx \in txs' : tx.dispute \in Disputes
    BY TypeStep DEF IInv, TypeOK, Transactions
  <2>2. \A d \in Disputes : Executed(d, 1) => Executed(d, 1)'
    BY ExecutedStays
  <2> QED
    BY <1>1, <2>1, <2>2 DEF FirstBeforeSecond
<1>2. ASSUME UNCHANGED <<txs, handlers>>
      PROVE  Grow /\ Come
  BY <1>2
<1>3. ASSUME NEW tx \in txs, Execute(tx)
      PROVE  Grow /\ Come
  <2> DEFINE new == [tx EXCEPT !.status = IF Accepted(tx) THEN "done" ELSE "failed"]
  <2>1. new.dispute = tx.dispute /\ new.part = tx.part
    BY DEF IInv, TypeOK, Transactions
  <2>2. txs' = (txs \ {tx}) \cup {new} /\ handlers' = handlers
    BY <1>3 DEF Execute, daemonVars
  <2> HIDE DEF new
  <2> QED
    BY <2>1, <2>2
<1>4. ASSUME NEW d \in Disputes, OthersStay(d), txs' = txs,
             handlers'[d].at # "idle" /\ handlers'[d].part = 2 =>
                \/ Executed(d, 1)
                \/ handlers[d].at # "idle" /\ handlers[d].part = 2
      PROVE  Grow /\ Come
  BY <1>4 DEF OthersStay
<1>5. ASSUME NEW d \in Disputes, OnDispute(d)
      PROVE  Grow /\ Come
  <2>1. OthersStay(d) /\ handlers'[d].part = 1 /\ txs' = txs
    BY <1>5, OnDisputeMoves DEF OnDispute, IInv
  <2> QED
    BY <1>4, <2>1
<1>6. ASSUME NEW d \in Disputes, FetchNonce(d)
      PROVE  Grow /\ Come
  BY <1>4, <1>6, FetchNonceMoves DEF FetchNonce, IInv
<1>7. ASSUME NEW d \in Disputes, FetchNonceFails(d)
      PROVE  Grow /\ Come
  <2>1. OthersStay(d) /\ handlers'[d].at = "idle" /\ txs' = txs
    BY <1>7 DEF FetchNonceFails, IInv, TypeOK, OthersStay, Idle
  <2> QED
    BY <1>4, <2>1
<1>8. ASSUME NEW d \in Disputes, Send(d)
      PROVE  Grow /\ Come
  <2>1. /\ OthersStay(d) /\ Holds(d) /\ handlers[d].at = "send"
        /\ txs' = txs \cup {Transaction(d)}
    BY <1>8, SendMoves DEF Send, IInv
  <2>2. Transaction(d).dispute = d /\ Transaction(d).part = handlers[d].part
    BY DEF Transaction
  <2>3. handlers[d].part = 2 => Executed(d, 1)
    BY <2>1 DEF FirstBeforeSecond
  <2> QED
    BY <2>1, <2>2, <2>3 DEF OthersStay, Holds
<1>9. ASSUME NEW d \in Disputes, SendFails(d) \/ ConfirmFails(d)
      PROVE  Grow /\ Come
  <2>1. /\ OthersStay(d) /\ Holds(d) /\ txs' = txs /\ handlers[d].at # "idle"
    BY <1>9, FailMoves DEF SendFails, ConfirmFails, IInv
  <2> QED
    BY <1>4, <2>1 DEF Holds
<1>10. ASSUME NEW d \in Disputes, Confirm(d)
       PROVE  Grow /\ Come
  <2>1. /\ OthersStay(d) /\ txs' = txs
        /\ handlers'[d].at # "idle" => handlers[d].part = 1
    BY <1>10, ConfirmMoves DEF Confirm, IInv
  <2>2. Executed(d, handlers[d].part)
    BY <1>10, ConfirmedIsExecuted
  <2> QED
    BY <1>4, <2>1, <2>2
<1>11. ASSUME Crash
       PROVE  Grow /\ Come
  BY <1>11 DEF Crash, Idle
<1> HIDE DEF Grow, Come
<1> QED
  BY <1>1, <1>2, <1>3, <1>5, <1>6, <1>7, <1>8, <1>9, <1>10, <1>11
     DEF Next, Handler, Settle, EscrowUpdate, SetOracleAuthority, Start,
         vars, chainVars, daemonVars, bounds

LEMMA RememberedStep ==
  ASSUME IInv, QInv, [Next]_vars
  PROVE  Remembered' /\ (up \/ crashed)'
<1>1. ASSUME \A d \in Disputes :
               ~crashed' /\ verdict'[d] # "none" /\ d \notin told' /\ d \notin pending' =>
                  \/ ~crashed /\ verdict[d] # "none" /\ d \notin told /\ d \notin pending
                  \/ Executed(d, 1) /\ Executed(d, 2)
      PROVE  Remembered'
  <2>1. \A d \in Disputes : /\ Executed(d, 1) => Executed(d, 1)'
                            /\ Executed(d, 2) => Executed(d, 2)'
    BY ExecutedStays
  <2> QED
    BY <1>1, <2>1 DEF QInv, Remembered
<1>2. ASSUME NEW d \in Disputes, NEW outcome \in Verdicts, Settle(d, outcome)
      PROVE  Remembered' /\ (up \/ crashed)'
  BY <1>1, <1>2 DEF Settle, QInv, IInv, TypeOK, bounds
<1>3. ASSUME NEW d \in Disputes, OnDispute(d)
      PROVE  Remembered' /\ (up \/ crashed)'
  BY <1>1, <1>3 DEF OnDispute, QInv, chainVars, bounds
<1>4. ASSUME NEW d \in Disputes, Confirm(d)
      PROVE  Remembered' /\ (up \/ crashed)'
  <2>1. Executed(d, handlers[d].part) /\ handlers[d].part \in 1..2
    BY <1>4, ConfirmedIsExecuted DEF Confirm, IInv, HandlersValid
  <2>2. handlers[d].part = 2 => Executed(d, 1)
    BY <1>4 DEF Confirm, QInv, FirstBeforeSecond
  <2>3. /\ UNCHANGED <<verdict, told, up, crashed>>
        /\ pending' = pending \/ (handlers[d].part # 1 /\ pending' = pending \ {d})
    BY <1>4 DEF Confirm, chainVars, bounds
  <2> QED
    BY <1>1, <2>1, <2>2, <2>3 DEF QInv
<1>5. CASE Crash
  BY <1>1, <1>5 DEF Crash
<1>6. ASSUME NEW k \in Keys, Start(k)
      PROVE  Remembered' /\ (up \/ crashed)'
  BY <1>1, <1>6 DEF Start, chainVars, bounds
<1>7. CASE UNCHANGED <<verdict, told, pending, up, crashed>>
  BY <1>1, <1>7 DEF QInv
<1>8. ASSUME NEW tx \in txs, Execute(tx)
      PROVE  UNCHANGED <<verdict, told, pending, up, crashed>>
  BY <1>8 DEF Execute, daemonVars, bounds
<1>9. ASSUME NEW d \in Disputes,
             \/ FetchNonce(d) \/ FetchNonceFails(d)
             \/ Send(d) \/ SendFails(d) \/ ConfirmFails(d)
      PROVE  UNCHANGED <<verdict, told, pending, up, crashed>>
  BY <1>9 DEF FetchNonce, FetchNonceFails, Send, SendFails, ConfirmFails, RpcError,
              Trouble, chainVars, bounds
<1>10. ASSUME NEW a \in Agents, EscrowUpdate(a)
       PROVE  UNCHANGED <<verdict, told, pending, up, crashed>>
  BY <1>10 DEF EscrowUpdate, daemonVars
<1>11. ASSUME NEW k \in Keys, SetOracleAuthority(k)
       PROVE  UNCHANGED <<verdict, told, pending, up, crashed>>
  BY <1>11 DEF SetOracleAuthority, daemonVars
<1>12. CASE UNCHANGED vars
  BY <1>7, <1>12 DEF vars, chainVars, daemonVars, bounds
<1> QED
  BY <1>2, <1>3, <1>4, <1>5, <1>6, <1>7, <1>8, <1>9, <1>10, <1>11, <1>12
     DEF Next, Handler

(* A dispute the daemon took up and has not lost in a crash is in its      *)
(* queue until a transaction for each party was executed, the agent's      *)
(* first.                                                                  *)
THEOREM UnfinishedAreQueued == Spec => []QueueHoldsUnfinished
<1>1. Init => QInv
  BY DEF Init, QInv, FirstBeforeSecond, Remembered, Idle
<1>2. ASSUME IInv, QInv, [Next]_vars
      PROVE  QInv'
  BY <1>2, FirstBeforeSecondStep, RememberedStep DEF QInv
<1>3. IInv /\ QInv => QueueHoldsUnfinished
  BY DEF QInv, FirstBeforeSecond, Remembered, QueueHoldsUnfinished
<1> QED
  BY InvInit, InvStep, <1>1, <1>2, <1>3, PTL DEF Spec
================================================================================
