------------------------------ MODULE EventStore ------------------------------
(***************************************************************************)
(* The indexer's SQLite store and the pages its HTTP server reads from it. *)
(* A table is the sequence of its rows in the order of insertion: the row  *)
(* id is the place in the sequence (ids grow and rows are never deleted).  *)
(* Both event tables, reputation_events and escrow_events, are alike: what *)
(* differs is the key under which a second row is ignored.                 *)
(*                                                                         *)
(* A row is [subject, mark, sig, entry]: the agent and its nonce, or the   *)
(* escrow and the kind of event; the signature; and the ring entry its     *)
(* score delta and pact id were taken from (0 for the fallback values).    *)
(***************************************************************************)
EXTENDS Integers, Sequences, FiniteSets

CONSTANTS
    MAX_LIMIT,          \* 200
    DEFAULT_LIMIT       \* 50

ASSUME StoreAssumption ==
    /\ MAX_LIMIT \in Nat \ {0}
    /\ DEFAULT_LIMIT \in 1..MAX_LIMIT

(* UNIQUE(agent, nonce), UNIQUE(escrow, signature, kind)                   *)
Clash(program, r, s) ==
    /\ r.subject = s.subject /\ r.mark = s.mark
    /\ program = "escrow" => r.sig = s.sig

(* Variant: a plain INSERT on a table without the unique key.              *)
InsertAlways(program, table, row) == Append(table, row)

(* upsertEvent, upsertEscrowEvent: INSERT OR IGNORE.                       *)
InsertOrIgnore(program, table, row) ==
    IF \E id \in DOMAIN table : Clash(program, table[id], row)
    THEN table ELSE Append(table, row)

(* getLastIndexedSignature: ORDER BY slot DESC, id DESC; 0 for none.       *)
LastIndexedSignature(table) ==
    IF table = <<>> THEN 0
    ELSE CHOOSE sig \in {table[i].sig : i \in DOMAIN table} :
            \A i \in DOMAIN table : table[i].sig <= sig

--------------------------------------------------------------------------------
(* parseInt, the default and the clamp of every paged route.               *)
PageLimit(requested) ==
    IF requested < 1 THEN DEFAULT_LIMIT
    ELSE IF requested > MAX_LIMIT THEN MAX_LIMIT ELSE requested

(* The cursor of a first page; row ids start at 1.                         *)
NoCursor == 0

(* The rows a page is drawn from: those of the subject (of all subjects    *)
(* for getProtocolEvents), below the cursor when there is one.             *)
Matching(table, subjects, before) ==
    {id \in DOMAIN table :
        /\ table[id].subject \in subjects
        /\ before = NoCursor \/ id < before}

(* ORDER BY id DESC LIMIT n                                                *)
Newest(ids, n) == {id \in ids : Cardinality({j \in ids : j > id}) < n}

(* Variant: a full page is taken for the last one.                         *)
PageWithoutMore(table, subjects, requested, before) ==
    LET ids == Newest(Matching(table, subjects, before), PageLimit(requested))
    IN  [ids |-> ids, hasMore |-> Cardinality(ids) > PageLimit(requested)]

(* getHistory, getEscrowEvents, getProtocolEvents: hasMore says that the   *)
(* page is full; the cursor is then the id of its oldest row.              *)
Page(table, subjects, requested, before) ==
    LET ids == Newest(Matching(table, subjects, before), PageLimit(requested))
    IN  [ids |-> ids, hasMore |-> Cardinality(ids) = PageLimit(requested)]

PageCursor(page) == CHOOSE id \in page.ids : \A j \in page.ids : id <= j
================================================================================
