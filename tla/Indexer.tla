-------------------------------- MODULE Indexer --------------------------------
(***************************************************************************)
(* The indexer service: a subscriber per program that copies events from   *)
(* transaction logs into the store, by two paths that run at once.         *)
(*   - A websocket notification starts a handler for its transaction.      *)
(*   - pollBackfill lists recent signatures, newest first, and processes   *)
(*     them in turn; it runs at start-up (from the last signature that was *)
(*     indexed) and every thirty seconds (over the latest signatures).     *)
(* Every RPC call is an await: other handlers run, transactions are        *)
(* confirmed and the process may die between a call and what follows it.   *)
(*                                                                         *)
(* The two subscribers share the process and the code of the store but no  *)
(* row; program says which of them a behaviour follows.  They differ in    *)
(* where the data of an event comes from (ring entries of the reputation   *)
(* account, read when the event is handled; the transaction itself) and in *)
(* how much of a back-fill an RPC error abandons.                          *)
(*                                                                         *)
(* A signature is the place of its transaction in the chain; one           *)
(* transaction per slot.                                                   *)
(***************************************************************************)
EXTENDS ReputationHistory, EventStore

CONSTANTS
    Agents,             \* agents with a ReputationAccount
    Legacy,             \* those whose account has another schema_version
    Updated,            \* agents one transaction may update, in order: one
                        \* for an oracle's, both parties for a settlement's
    Escrows,
    Party,              \* an account of an instruction that is not its escrow
    Jobs,               \* back-fills that may be running at once
    PollLimit,          \* 20 signatures per periodic poll
    FirstLimit,         \* 50 on the first start
    CatchUpLimit,       \* 1000 on a restart
    Prior,              \* updates of each account before the first transaction
                        \* of the chain
    MaxTx,              \* bound: transactions
    MaxCrashes          \* bound: crashes of the process

ASSUME IndexerAssumption ==
    /\ Legacy \subseteq Agents
    /\ Updated \subseteq Seq(Agents) \ {<<>>}
    /\ \A agents \in Updated : \A i, k \in DOMAIN agents : agents[i] = agents[k] => i = k
    /\ Party \notin Escrows
    /\ {PollLimit, FirstLimit, CatchUpLimit} \subseteq Nat \ {0}
    /\ {Prior, MaxTx, MaxCrashes} \subseteq Nat

VARIABLES
    program,    \* "reputation" or "escrow"
    chain,      \* the transactions, [ok, lines]
    history,    \* the history ring of every agent
    up,         \* the process is running
    crashes,
    ws,         \* signatures the websocket has yet to deliver
    handlers,   \* handleLogs calls under way, one per signature at most
    jobs,       \* pollBackfill calls under way
    rows        \* the event table

vars == <<program, chain, history, up, crashes, ws, handlers, jobs, rows>>

--------------------------------------------------------------------------------
(* Logs.  A line of a reputation transaction is [subject, mark]: an agent  *)
(* and the nonce of its update.  Of an escrow transaction it is the        *)
(* instruction that logged it: an escrow and a kind.                       *)

(* Variant: every instruction lists its escrow second.                     *)
EscrowAccountIndexOne(kind) == 1

(* LOG_PATTERNS: mutual_cancel and lock list both parties first.           *)
EscrowAccountIndex(kind) ==
    IF kind \in {"locked", "mutually_cancelled"} THEN 2 ELSE 1

(* The line cancel_pending_escrow logs matches no pattern.                 *)
Parsed(mark) == program = "escrow" => mark # "cancelled_pending"

(* The account an instruction of the program has at an index: its escrow   *)
(* follows one signer, as in deposit_funds, or two, as in lock_escrow and  *)
(* mutual_cancel_escrow.                                                   *)
AccountAt(instruction, idx) ==
    IF idx = (IF instruction.mark \in {"locked", "mutually_cancelled"} THEN 2 ELSE 1)
    THEN instruction.subject ELSE Party

EscrowTransactions ==
    {<<[subject |-> e, mark |-> kind]>> :
        e \in Escrows, kind \in {"funded", "locked", "cancelled_pending"}}
    \cup {<<[subject |-> e, mark |-> "mutually_cancelled"],
            [subject |-> e, mark |-> "closed"]>> : e \in Escrows}

(* The update_reputation calls of one transaction, one agent each: what    *)
(* each leaves in the history is its agent's next nonce.                   *)
Updates(agents) == [i \in DOMAIN agents |->
                      [subject |-> agents[i], mark |-> history[agents[i]].nonce + 1]]

(* processTx stores the parsed lines of an escrow transaction in turn; the *)
(* accounts are those of its first escrow instruction, for every line.     *)
EscrowRow(sig, line) ==
    [subject |-> AccountAt(chain[sig].lines[1], EscrowAccountIndex(line.mark)),
     mark |-> line.mark, sig |-> sig, entry |-> 0]

StoreEscrowEvents(sig) ==
    LET after[i \in 0..Len(chain[sig].lines)] ==
          IF i = 0 THEN rows
          ELSE IF Parsed(chain[sig].lines[i].mark)
          THEN InsertOrIgnore(program, after[i - 1], EscrowRow(sig, chain[sig].lines[i]))
          ELSE after[i - 1]
    IN  after[Len(chain[sig].lines)]

ReputationRow(sig, line, entry) ==
    [subject |-> line.subject, mark |-> line.mark, sig |-> sig, entry |-> entry]

--------------------------------------------------------------------------------
(* A call under way: what it awaits, the signatures still to process (the   *)
(* first is the one it is at) and the line of that transaction.            *)
Idle == [at |-> "idle", limit |-> 0, until |-> 0, todo |-> <<>>, line |-> 0]

Calls == [at : {"idle", "list", "fetch", "read"}, limit : Nat, until : Nat,
          todo : Seq(1..MaxTx), line : Nat]

Handling(sig, at) == [Idle EXCEPT !.at = at, !.todo = <<sig>>, !.line = 1]

Listing(limit, until) == [Idle EXCEPT !.at = "list", !.limit = limit, !.until = until]

Processing(sigs) ==
    IF sigs = <<>> THEN Idle
    ELSE [Idle EXCEPT !.at = "fetch", !.todo = sigs, !.line = 1]

(* On to the next signature, to the next line of this one.                 *)
NextSignature(call) == Processing(Tail(call.todo))

NextLine(call) ==
    IF call.line >= Len(chain[Head(call.todo)].lines) THEN NextSignature(call)
    ELSE [call EXCEPT !.line = @ + 1]

LineOf(call) == chain[Head(call.todo)].lines[call.line]

After[k \in 0..Prior] == IF k = 0 THEN EmptyHistory ELSE RecordUpdate(After[k - 1])

Init ==
    /\ program \in {"reputation", "escrow"}
    /\ chain = <<>>
    /\ history = [a \in Agents |-> After[Prior]]
    /\ up = FALSE
    /\ crashes = 0
    /\ ws = {}
    /\ handlers = [sig \in 1..MaxTx |-> Idle]
    /\ jobs = [j \in Jobs |-> Idle]
    /\ rows = <<>>

--------------------------------------------------------------------------------
(* The chain (external): a transaction is confirmed, or fails after its    *)
(* lines were logged; a running indexer is notified of either.             *)
Confirm(lines, ok) ==
    /\ Len(chain) < MaxTx
    /\ chain' = Append(chain, [ok |-> ok, lines |-> lines])
    /\ ws' = IF up THEN ws \cup {Len(chain) + 1} ELSE ws
    /\ UNCHANGED <<program, up, crashes, handlers, jobs, rows>>

ConfirmUpdates(agents, ok) ==
    /\ program = "reputation"
    /\ Confirm(Updates(agents), ok)
    /\ history' = [a \in Agents |->
                     IF ok /\ \E i \in DOMAIN agents : agents[i] = a
                     THEN RecordUpdate(history[a]) ELSE history[a]]

ConfirmInstructions(lines, ok) ==
    /\ program = "escrow"
    /\ Confirm(lines, ok)
    /\ UNCHANGED history

--------------------------------------------------------------------------------
(* start(): subscribe, then catch up from the last indexed signature.      *)
Start ==
    /\ ~up
    /\ up' = TRUE
    /\ LET last == LastIndexedSignature(rows)
       IN  \E j \in Jobs :
             jobs' = [jobs EXCEPT ![j] =
                        Listing(IF last # 0 THEN CatchUpLimit ELSE FirstLimit, last)]
    /\ UNCHANGED <<program, chain, history, crashes, ws, handlers, rows>>

(* The process dies: what is under way is lost, the store is not.          *)
Crash ==
    /\ up /\ crashes < MaxCrashes
    /\ up' = FALSE
    /\ crashes' = crashes + 1
    /\ ws' = {}
    /\ handlers' = [sig \in 1..MaxTx |-> Idle]
    /\ jobs' = [j \in Jobs |-> Idle]
    /\ UNCHANGED <<program, chain, history, rows>>

(* Variant: the timer's poll starts from the last indexed signature too.   *)
StartPollFromLast(j) ==
    /\ up /\ jobs[j].at = "idle"
    /\ jobs' = [jobs EXCEPT ![j] = Listing(PollLimit, LastIndexedSignature(rows))]
    /\ UNCHANGED <<program, chain, history, up, crashes, ws, handlers, rows>>

(* The thirty-second timer, which does not wait for an earlier poll.       *)
StartPoll(j) ==
    /\ up /\ jobs[j].at = "idle"
    /\ jobs' = [jobs EXCEPT ![j] = Listing(PollLimit, 0)]
    /\ UNCHANGED <<program, chain, history, up, crashes, ws, handlers, rows>>

(* Variant: the failed transactions are processed too.                     *)
DeliverFailed(sig, prefixed) ==
    /\ sig \in ws
    /\ ws' = ws \ {sig}
    /\ handlers' = [handlers EXCEPT ![sig] =
         IF prefixed /\ program = "reputation" THEN Idle
         ELSE IF program = "reputation" THEN Handling(sig, "read")
         ELSE IF \E l \in 1..Len(chain[sig].lines) : Parsed(chain[sig].lines[l].mark)
         THEN Handling(sig, "fetch") ELSE Idle]
    /\ UNCHANGED <<program, chain, history, up, crashes, jobs, rows>>

(* onLogs calls handleLogs, once per notification that arrives.  The       *)
(* reputation subscriber matches lines as they come, so it sees nothing in *)
(* those that carry the "Program log: " prefix; the escrow one strips it.  *)
Deliver(sig, prefixed) ==
    /\ sig \in ws
    /\ ws' = ws \ {sig}
    /\ handlers' = [handlers EXCEPT ![sig] =
         IF ~chain[sig].ok \/ (prefixed /\ program = "reputation") THEN Idle
         ELSE IF program = "reputation" THEN Handling(sig, "read")
         ELSE IF \E l \in 1..Len(chain[sig].lines) : Parsed(chain[sig].lines[l].mark)
         THEN Handling(sig, "fetch") ELSE Idle]
    /\ UNCHANGED <<program, chain, history, up, crashes, jobs, rows>>

--------------------------------------------------------------------------------
(* Variant: until is listed too.                                           *)
SignaturesWithUntil(limit, until) ==
    LET n == Least(limit, Len(chain) - until + 1)
    IN  [i \in 1..n |-> Len(chain) - i + 1]

(* getSignaturesForAddress: newest first, after until, at most limit.      *)
Signatures(limit, until) ==
    LET n == Least(limit, Len(chain) - until)
    IN  [i \in 1..n |-> Len(chain) - i + 1]

List(j) ==
    /\ jobs[j].at = "list"
    /\ jobs' = [jobs EXCEPT ![j] = Processing(Signatures(@.limit, @.until))]
    /\ UNCHANGED <<program, chain, history, up, crashes, ws, handlers, rows>>

ListFails(j) ==
    /\ jobs[j].at = "list"
    /\ jobs' = [jobs EXCEPT ![j] = Idle]
    /\ UNCHANGED <<program, chain, history, up, crashes, ws, handlers, rows>>

(* A transaction that failed is passed over without being fetched.         *)
SkipFailed(j) ==
    /\ jobs[j].at = "fetch" /\ ~chain[Head(jobs[j].todo)].ok
    /\ jobs' = [jobs EXCEPT ![j] = NextSignature(@)]
    /\ UNCHANGED <<program, chain, history, up, crashes, ws, handlers, rows>>

(* getParsedTransaction answers.  The escrow subscriber stores its events  *)
(* there and then; the reputation subscriber reads an account per line.    *)
AfterFetch(call) ==
    IF program = "escrow" THEN NextSignature(call) ELSE [call EXCEPT !.at = "read"]

StoredByFetch(call) ==
    IF program = "escrow" THEN StoreEscrowEvents(Head(call.todo)) ELSE rows

Fetch(j) ==
    /\ jobs[j].at = "fetch" /\ chain[Head(jobs[j].todo)].ok
    /\ rows' = StoredByFetch(jobs[j])
    /\ jobs' = [jobs EXCEPT ![j] = AfterFetch(@)]
    /\ UNCHANGED <<program, chain, history, up, crashes, ws, handlers>>

(* It answers null, or throws: the escrow subscriber catches the error per *)
(* transaction, the reputation subscriber gives up the whole back-fill.    *)
FetchFails(j, throws) ==
    /\ jobs[j].at = "fetch" /\ chain[Head(jobs[j].todo)].ok
    /\ jobs' = [jobs EXCEPT ![j] =
                  IF throws /\ program = "reputation" THEN Idle ELSE NextSignature(@)]
    /\ UNCHANGED <<program, chain, history, up, crashes, ws, handlers, rows>>

(* getAccountInfo answers, and the code runs on to its next await: the row *)
(* is stored with the ring entry it found.  An account of another schema   *)
(* drops the line; an account that is missing, or an error, leaves the     *)
(* fallback values.                                                        *)
StoreLine(call, answered, entry) ==
    rows' = IF answered /\ LineOf(call).subject \in Legacy THEN rows
            ELSE InsertOrIgnore(program, rows,
                    ReputationRow(Head(call.todo), LineOf(call),
                                  IF answered THEN entry ELSE 0))

ReadAccount(j, answered) ==
    /\ jobs[j].at = "read"
    /\ LET line == LineOf(jobs[j])
       IN  StoreLine(jobs[j], answered, EntryByNonce(history[line.subject], line.mark))
    /\ jobs' = [jobs EXCEPT ![j] = NextLine(@)]
    /\ UNCHANGED <<program, chain, history, up, crashes, ws, handlers>>

--------------------------------------------------------------------------------
(* The same calls awaited by a websocket handler, which takes the newest   *)
(* entry of the ring and whose errors concern its transaction only.        *)
HandlerFetch(sig) ==
    /\ handlers[sig].at = "fetch"
    /\ rows' = StoredByFetch(handlers[sig])
    /\ handlers' = [handlers EXCEPT ![sig] = Idle]
    /\ UNCHANGED <<program, chain, history, up, crashes, ws, jobs>>

HandlerFetchFails(sig) ==
    /\ handlers[sig].at = "fetch"
    /\ handlers' = [handlers EXCEPT ![sig] = Idle]
    /\ UNCHANGED <<program, chain, history, up, crashes, ws, jobs, rows>>

HandlerRead(sig, answered) ==
    /\ handlers[sig].at = "read"
    /\ LET line == LineOf(handlers[sig])
       IN  StoreLine(handlers[sig], answered, LatestEntry(history[line.subject]))
    /\ handlers' = [handlers EXCEPT ![sig] = NextLine(@)]
    /\ UNCHANGED <<program, chain, history, up, crashes, ws, jobs>>

--------------------------------------------------------------------------------
HandlerStep(sig) ==
    \/ \E prefixed \in BOOLEAN : Deliver(sig, prefixed)
    \/ HandlerFetch(sig) \/ HandlerFetchFails(sig)
    \/ \E answered \in BOOLEAN : HandlerRead(sig, answered)

JobStep(j) ==
    \/ StartPoll(j) \/ List(j) \/ ListFails(j)
    \/ SkipFailed(j) \/ Fetch(j)
    \/ \E throws \in BOOLEAN : FetchFails(j, throws)
    \/ \E answered \in BOOLEAN : ReadAccount(j, answered)

Next ==
    \/ \E agents \in Updated, ok \in BOOLEAN : ConfirmUpdates(agents, ok)
    \/ \E lines \in EscrowTransactions, ok \in BOOLEAN : ConfirmInstructions(lines, ok)
    \/ Start
    \/ Crash
    \/ \E sig \in 1..MaxTx : HandlerStep(sig)
    \/ \E j \in Jobs : JobStep(j)

Spec == Init /\ [][Next]_vars
--------------------------------------------------------------------------------
(* Fairness.  The process is restarted when it dies, its timer fires, and  *)
(* every RPC call ends, in an answer or an error; a call that is made over *)
(* and over (each poll makes it again) is answered some time.  Nothing is  *)
(* asked of the websocket.                                                 *)
Fairness ==
    /\ WF_vars(Start)
    /\ \A j \in Jobs :
         /\ WF_vars(JobStep(j))
         /\ SF_vars(List(j))
         /\ \A sig \in 1..MaxTx :
              /\ SF_vars(Fetch(j) /\ Head(jobs[j].todo) = sig)
              /\ SF_vars(ReadAccount(j, TRUE) /\ Head(jobs[j].todo) = sig)

FairSpec == Spec /\ Fairness
================================================================================
