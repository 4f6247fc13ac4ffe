--------------------------- MODULE IndexerProperties ---------------------------
(* What the indexer and the pages read from its store are held to.         *)
EXTENDS Indexer

(* The shape of the state: a call is at one of its awaits, with signatures *)
(* of the chain before it; rows name signatures of the chain.              *)
TypeOK ==
    /\ program \in {"reputation", "escrow"}
    /\ Len(chain) <= MaxTx
    /\ history \in [Agents -> History]
    /\ up \in BOOLEAN /\ crashes \in 0..MaxCrashes
    /\ ws \subseteq DOMAIN chain
    /\ handlers \in [1..MaxTx -> Calls]
    /\ jobs \in [Jobs -> Calls]
    /\ \A id \in DOMAIN rows : rows[id].sig \in DOMAIN chain

(* However often and by however many paths an event is seen (websocket,    *)
(* start-up back-fill, overlapping polls, again after a crash), the store  *)
(* has one row for it: subscriber.ts, escrow-subscriber.ts, store.ts.      *)
OneRowPerEvent ==
    \A i, k \in DOMAIN rows : Clash(program, rows[i], rows[k]) => i = k

(* A row tells of its own transaction: one that succeeded, logged an event *)
(* of that kind (that nonce), and, when it holds a single instruction, for *)
(* that escrow (that agent).  processTx takes the accounts of the first    *)
(* instruction, so nothing is said of the others of a longer transaction.  *)
RightSubject ==
    \A id \in DOMAIN rows :
        LET tx == chain[rows[id].sig]
        IN  /\ tx.ok
            /\ \E l \in DOMAIN tx.lines :
                 /\ tx.lines[l].mark = rows[id].mark
                 /\ program = "reputation" \/ Len(tx.lines) = 1
                       => tx.lines[l].subject = rows[id].subject

(* The score delta and the pact id of a row come from its own update or    *)
(* from a later one (they are read when the event is handled, and the ring *)
(* moves on), never from an earlier update: extractLatestRingEntry,        *)
(* extractRingEntryByNonce.                                                *)
EntryIsNotOlder ==
    program = "reputation" =>
        \A id \in DOMAIN rows :
            rows[id].entry # 0 =>
                rows[id].entry \in rows[id].mark..history[rows[id].subject].nonce

(* What the SDK reads from an account when the indexer does not answer is  *)
(* the last updates, all that the ring has room for, oldest first.         *)
HistoryInOrder == \A a \in Agents : HoldsTheLastUpdates(history[a])

(* What a reader gets who asks for the page below a row id and follows the *)
(* cursors from page to page.                                              *)
Collected(table, subjects, requested) ==
    LET below[before \in 1..Len(table) + 1] ==
            LET page == Page(table, subjects, requested, before)
            IN  page.ids \cup (IF page.hasMore THEN below[PageCursor(page)] ELSE {})
    IN  below

(* A reader who follows the cursors sees every row that was there when the *)
(* first page was taken, each once, whatever was inserted since: getHistory*)
(* and getEscrowEvents for a subject, getProtocolEvents for all.           *)
PagesAreComplete ==
    \A k \in DOMAIN rows, requested \in 0..MAX_LIMIT + 1 :
        \A subjects \in {{rows[id].subject} : id \in 1..k} \cup
                       {{rows[id].subject : id \in DOMAIN rows}} :
            LET first == Page(SubSeq(rows, 1, k), subjects, requested, NoCursor)
                rest  == IF first.hasMore
                         THEN Collected(rows, subjects, requested)[PageCursor(first)] ELSE {}
            IN  /\ first.ids \cup rest = Matching(rows, subjects, k + 1)
                /\ first.ids \cap rest = {}

--------------------------------------------------------------------------------
(* The events of the chain, and those the store has a row for.             *)
EventOf(sig, line) ==
    <<sig, line.mark, IF program = "escrow" THEN "" ELSE line.subject>>

EventsOf(sig) ==
    {EventOf(sig, chain[sig].lines[l]) :
        l \in {l \in DOMAIN chain[sig].lines : Parsed(chain[sig].lines[l].mark)}}

CommittedEvents == UNION {EventsOf(sig) : sig \in {s \in DOMAIN chain : chain[s].ok}}

IndexedEvents == {EventOf(rows[id].sig, rows[id]) : id \in DOMAIN rows}

Index == INSTANCE EventIndex WITH committed <- CommittedEvents, indexed <- IndexedEvents

(* The indexer is an index of the chain's events: it holds only events of  *)
(* transactions that succeeded and forgets none, crashes included.         *)
KeepsIndex == Index!ESpec

(* Events of a transaction that the store lacks (those of an account of    *)
(* another schema version are never stored).                               *)
Missing(sig) ==
    {event \in CommittedEvents \ IndexedEvents : event[1] = sig /\ event[3] \notin Legacy}

(* What the websocket dropped, what an RPC error or a crash interrupted is *)
(* indexed in the end, as long as it is among the latest PollLimit         *)
(* signatures: the thirty-second poll of subscriber.ts:102 is the          *)
(* "fallback for dropped WebSocket events" its comment promises.           *)
RecentIndexed ==
    \A sig \in 1..MaxTx :
        sig \in DOMAIN chain ~> (Missing(sig) = {} \/ Len(chain) - sig >= PollLimit)
================================================================================
