----------------------------- MODULE IndexerProofs -----------------------------
(***************************************************************************)
(* Theorems of the indexer, for any number of agents, escrows,             *)
(* transactions, back-fills and crashes, any ring length and any limits:   *)
(* its rows are those of events that happened, one each, with the data of  *)
(* their own update or a later one, they are never lost, and readers miss  *)
(* none of them.                                                           *)
(*                                                                         *)
(* The first part is about update_reputation's ring: what it holds and     *)
(* what each of its three readers finds in it.  The program, the indexer   *)
(* and the SDK each do modular arithmetic of their own; the lemmas below   *)
(* are what makes them agree.                                              *)
(*                                                                         *)
(* Induction over the naturals is taken from the well-foundedness of <:    *)
(* a non-empty set of naturals has a least element.                        *)
(***************************************************************************)
EXTENDS IndexerProperties, WellFoundedInduction, FiniteSetTheorems, TLAPS

LEMMA SmallestElement ==
    ASSUME NEW S, S \subseteq Nat, S # {}
    PROVE  \E x \in S : \A y \in S : x <= y
<1> DEFINE Below == {ss \in Nat \X Nat : ss[1] < ss[2]}
<1>1. IsWellFoundedOn(Below, Nat)
    BY NatLessThanWellFounded DEF OpToRel
<1> HIDE DEF Below
<1>2. PICK x \in S : \A y \in S : <<y, x>> \notin Below
    BY Zenon, <1>1, WFMin
<1>3. ASSUME NEW y \in S PROVE x <= y
    <2>1. x \in Nat /\ y \in Nat /\ <<y, x>> \notin Below
        BY <1>2
    <2>2. y < x => <<y, x>> \in Below
        BY <2>1 DEF Below
    <2> QED
        BY <2>1, <2>2
<1> QED
    BY <1>3

LEMMA SetInduction ==
    ASSUME NEW S, 0 \in S, \A n \in Nat : n \in S => n + 1 \in S
    PROVE  Nat \subseteq S
<1> SUFFICES ASSUME NEW m \in Nat, m \notin S PROVE FALSE
    OBVIOUS
<1> DEFINE Outside == {n \in Nat : n \notin S}
<1>1. Outside \subseteq Nat /\ Outside # {}
    OBVIOUS
<1>2. PICK x \in Outside : \A y \in Outside : x <= y
    BY <1>1, SmallestElement, Zenon
<1>3. x \in Nat /\ x \notin S /\ x # 0
    OBVIOUS
<1>4. x - 1 \in Nat /\ x - 1 \in S
    BY <1>2, <1>3
<1> QED
    BY <1>3, <1>4

--------------------------------------------------------------------------------
(* Arithmetic modulo the length of the ring.                               *)
LEMMA Distribution ==
    ASSUME NEW a \in Int, NEW b \in Int
    PROVE  /\ RING * a \in Int /\ RING * b \in Int
           /\ RING * (a + b) = RING * a + RING * b
           /\ RING * (a - b) = RING * a - RING * b
    BY RingAssumption

LEMMA Multiple ==
    ASSUME NEW k \in Int, k >= 1
    PROVE  RING * k >= RING
    BY RingAssumption

LEMMA Division ==
    ASSUME NEW x \in Int
    PROVE  x % RING \in 0..RING - 1 /\ \E q \in Int : x = RING * q + (x % RING)
<1>1. x = RING * (x \div RING) + (x % RING) /\ x \div RING \in Int /\ x % RING \in 0..RING - 1
    BY RingAssumption
<1> QED
    BY <1>1

(* The remainder is the only one.                                          *)
LEMMA Residue ==
    ASSUME NEW q \in Int, NEW r \in 0..RING - 1, NEW x \in Int, x = RING * q + r
    PROVE  x % RING = r
<1> DEFINE m == x % RING
<1>1. PICK p \in Int : x = RING * p + m
    BY Division
<1>2. m \in 0..RING - 1
    BY Division
<1> HIDE DEF m
<1>3. RING * (p - q) = r - m /\ RING * (q - p) = m - r
    <2> DEFINE rp == RING * p
               rq == RING * q
               u == RING * (p - q)
               v == RING * (q - p)
    <2>1. /\ u = rp - rq /\ v = rq - rp /\ rp \in Int /\ rq \in Int
          /\ x = rp + m /\ x = rq + r /\ m \in Int /\ r \in Int
        BY <1>1, <1>2, RingAssumption, Distribution
    <2> HIDE DEF rp, rq, u, v
    <2>2. u = r - m /\ v = m - r
        BY <2>1
    <2> QED
        BY <2>2 DEF u, v
<1>4. ~(p - q >= 1) /\ ~(q - p >= 1)
    BY <1>2, <1>3, Multiple, RingAssumption
<1>5. p = q
    BY <1>4
<1>6. m = r
    <2> DEFINE rp == RING * p
    <2>1. x = rp + m /\ x = rp + r /\ rp \in Int /\ m \in Int /\ r \in Int
        BY <1>1, <1>2, <1>5, Distribution, RingAssumption
    <2> HIDE DEF rp
    <2> QED
        BY <2>1
<1> QED
    BY <1>6 DEF m

(* Going round the ring once more changes nothing.                         *)
LEMMA Round ==
    ASSUME NEW x \in Int
    PROVE  (x + RING) % RING = x % RING
<1> DEFINE m == x % RING
<1>1. PICK q \in Int : x = RING * q + m
    BY Division
<1>2. m \in 0..RING - 1
    BY Division
<1> HIDE DEF m
<1>3. x + RING = RING * (q + 1) + m
    <2> DEFINE rq == RING * q
               u == RING * (q + 1)
    <2>1. u = rq + RING /\ x = rq + m /\ rq \in Int /\ m \in Int /\ RING \in Int
        BY <1>1, <1>2, Distribution, RingAssumption
    <2> HIDE DEF rq, u
    <2>2. x + RING = u + m
        BY <2>1
    <2> QED
        BY <2>2 DEF u
<1>4. q + 1 \in Int /\ x + RING \in Int
    BY RingAssumption
<1> QED
    BY <1>2, <1>3, <1>4, Residue DEF m

(* An offset may be taken from the remainder.                              *)
LEMMA Offset ==
    ASSUME NEW x \in Int, NEW k \in Int
    PROVE  ((x % RING) + k) % RING = (x + k) % RING
<1> DEFINE h == x % RING
           y == h + k
           m == y % RING
<1>1. PICK q \in Int : x = RING * q + h
    BY Division
<1>2. h \in 0..RING - 1 /\ h \in Int /\ y \in Int
    BY Division, RingAssumption
<1>3. PICK p \in Int : y = RING * p + m
    BY <1>2, Division
<1>4. m \in 0..RING - 1 /\ m \in Int
    <2> HIDE DEF y
    <2>1. y % RING \in 0..RING - 1
        BY Zenon, <1>2, Division
    <2> QED
        BY <2>1, RingAssumption
<1>5. x + k = RING * (q + p) + m
    <2> DEFINE rq == RING * q
               rp == RING * p
               u == RING * (q + p)
    <2>1. u = rq + rp /\ x = rq + h /\ h + k = rp + m
        BY <1>1, <1>3, Distribution
    <2>2. rq \in Int /\ rp \in Int
        BY Distribution
    <2> HIDE DEF rq, rp, u, h, m
    <2>3. x + k = u + m
        BY <1>2, <1>4, <2>1, <2>2
    <2> QED
        BY <2>3 DEF u
<1> HIDE DEF m
<1>6. (x + k) % RING = m
    BY <1>4, <1>5, Residue
<1> QED
    BY <1>6 DEF m, y, h

(* Fewer than RING steps apart, two places differ.                         *)
LEMMA Distinct ==
    ASSUME NEW x \in Int, NEW y \in Int, x < y, y < x + RING
    PROVE  x % RING # y % RING
<1> SUFFICES ASSUME x % RING = y % RING PROVE FALSE
    OBVIOUS
<1> DEFINE m == x % RING
<1>1. PICK q \in Int : x = RING * q + m
    BY Division
<1>2. PICK p \in Int : y = RING * p + m
    BY Division
<1>3. m \in Int
    BY Division, RingAssumption
<1> HIDE DEF m
<1>4. RING * (p - q) = y - x /\ RING * (q - p) = x - y
    <2> DEFINE rp == RING * p
               rq == RING * q
               u == RING * (p - q)
               v == RING * (q - p)
    <2>1. u = rp - rq /\ v = rq - rp /\ x = rq + m /\ y = rp + m /\ rp \in Int /\ rq \in Int
        BY <1>1, <1>2, Distribution
    <2> HIDE DEF rp, rq, u, v
    <2>2. u = y - x /\ v = x - y
        BY <1>3, <2>1
    <2> QED
        BY <2>2 DEF u, v
<1>5. ~(p - q >= 1) /\ ~(q - p >= 1)
    BY <1>4, Multiple, RingAssumption
<1>6. RING * (p - q) = 0
    BY <1>5, RingAssumption
<1> QED
    BY <1>4, <1>6

--------------------------------------------------------------------------------
(* The ring after nonce updates: the head is where the next one goes, the  *)
(* last RING updates are all there, and the slot of an update holds that   *)
(* one or a later one, never an earlier one.                               *)
RingInv(h) ==
    /\ h \in History
    /\ h.head = h.nonce % RING
    /\ h.len = Least(h.nonce, RING)
    /\ \A n \in 1..h.nonce :
         /\ h.slot[(n - 1) % RING] \in n..h.nonce
         /\ n > h.nonce - RING => h.slot[(n - 1) % RING] = n

LEMMA EmptyRing == RingInv(EmptyHistory)
<1>1. EmptyHistory \in History
    BY RingAssumption DEF EmptyHistory, History
<1>2. 0 % RING = 0
    <2>1. 0 = RING * 0 + 0 /\ 0 \in 0..RING - 1
        BY RingAssumption
    <2> QED
        BY <2>1, Residue
<1> QED
    BY <1>1, <1>2, RingAssumption DEF RingInv, EmptyHistory, Least

LEMMA RecordKeepsRing ==
    ASSUME NEW h, RingInv(h)
    PROVE  RingInv(RecordUpdate(h)) /\ RecordUpdate(h).nonce = h.nonce + 1
<1> DEFINE g == RecordUpdate(h)
           N == h.nonce
<1>1. /\ h \in History /\ N \in Nat /\ h.head \in 0..RING - 1 /\ h.len \in 0..RING
      /\ h.slot \in [0..RING - 1 -> Nat] /\ RING \in Nat \ {0}
    BY RingAssumption DEF RingInv, History
<1>2. /\ g.nonce = N + 1 /\ g.head = (h.head + 1) % RING
      /\ g.len = (IF h.len < RING THEN h.len + 1 ELSE h.len)
      /\ g.slot = [h.slot EXCEPT ![h.head] = N + 1]
    BY SMT, <1>1 DEF RecordUpdate, History
<1>3. g.head = (N + 1) % RING
    <2> HIDE DEF g, N
    <2>1. ((N % RING) + 1) % RING = (N + 1) % RING
        <3>1. N \in Int /\ 1 \in Int
            BY <1>1
        <3> QED
            BY Zenon, <3>1, Offset
    <2>2. h.head = N % RING
        BY DEF RingInv, N
    <2> QED
        BY <1>2, <2>1, <2>2
<1>4. g.len = Least(g.nonce, RING)
    <2> HIDE DEF g
    <2>1. h.len = IF N < RING THEN N ELSE RING
        BY DEF RingInv, Least
    <2> QED
        BY <1>1, <1>2, <2>1 DEF Least
<1>5. g \in History
    <2> DEFINE head == (h.head + 1) % RING
               len == IF h.len < RING THEN h.len + 1 ELSE h.len
               slot == [h.slot EXCEPT ![h.head] = N + 1]
    <2>1. h.head + 1 \in Int
        BY <1>1
    <2>2. head \in 0..RING - 1
        BY <2>1, Division
    <2>3. N + 1 \in Nat /\ len \in 0..RING /\ slot \in [0..RING - 1 -> Nat]
        BY <1>1
    <2>4. g = [h EXCEPT !.nonce = N + 1, !.slot = slot, !.head = head, !.len = len]
        BY <1>1 DEF RecordUpdate, History
    <2> HIDE DEF head, len, slot, g, N
    <2> QED
        BY Zenon, <1>1, <2>2, <2>3, <2>4 DEF History
<1> HIDE DEF g
<1>6. ASSUME NEW n \in 1..g.nonce
      PROVE  /\ g.slot[(n - 1) % RING] \in n..g.nonce
             /\ n > g.nonce - RING => g.slot[(n - 1) % RING] = n
    <2> DEFINE place == (n - 1) % RING
    <2>1. n \in Int /\ n - 1 \in Int /\ place \in 0..RING - 1
        BY Division
    <2>2. CASE n = N + 1
        <3>1. n - 1 = N
            BY <1>1, <2>2
        <3>2. place = h.head
            BY <3>1 DEF RingInv
        <3>3. g.nonce = N + 1 /\ N \in Nat /\ g.slot[h.head] = N + 1
            BY <1>1, <1>2
        <3> HIDE DEF N
        <3>4. g.slot[place] = n /\ n \in n..g.nonce
            BY <2>2, <3>2, <3>3
        <3> QED
            BY <3>4
    <2>3. CASE n # N + 1
        <3>1. n \in 1..N
            <4>1. g.nonce = N + 1 /\ N \in Nat
                BY <1>1, <1>2
            <4> HIDE DEF N, place
            <4> QED
                BY <2>3, <4>1
        <3>2. h.slot[place] \in n..N /\ (n > N - RING => h.slot[place] = n)
            BY <3>1 DEF RingInv
        <3>3. n > g.nonce - RING => place # h.head
            <4>1. SUFFICES ASSUME n > g.nonce - RING PROVE place # N % RING
                BY DEF RingInv
            <4>2. n - 1 < N /\ N < (n - 1) + RING
                <5>1. g.nonce = N + 1 /\ N \in Nat /\ RING \in Nat
                    BY <1>1, <1>2
                <5> HIDE DEF N, place
                <5> QED
                    BY <3>1, <4>1, <5>1
            <4>3. N \in Int /\ n - 1 \in Int
                BY <1>1, <2>1
            <4> HIDE DEF N
            <4> QED
                BY <4>2, <4>3, Distinct
        <3> HIDE DEF place
        <3>4. g.slot[place] = IF place = h.head THEN N + 1 ELSE h.slot[place]
            BY <1>1, <1>2, <2>1
        <3>5. g.nonce = N + 1 /\ N \in Nat /\ n \in Nat
            BY <1>1, <1>2, <3>1
        <3> HIDE DEF place, N
        <3>6. /\ g.slot[place] \in n..g.nonce
              /\ n > g.nonce - RING => g.slot[place] = n
            BY <1>1, <3>1, <3>2, <3>3, <3>4, <3>5
        <3> QED
            BY <3>6 DEF place
    <2> QED
        BY <2>2, <2>3
<1> QED
    BY <1>2, <1>3, <1>4, <1>5, <1>6 DEF RingInv, g

--------------------------------------------------------------------------------
(* extractLatestRingEntry finds the last update.                           *)
LEMMA LatestIsLast ==
    ASSUME NEW h, RingInv(h)
    PROVE  LatestEntry(h) = h.nonce
<1>1. /\ h.nonce \in Nat /\ h.head \in Int /\ RING \in Nat \ {0} /\ h.nonce \in Int
      /\ h.len = Least(h.nonce, RING) /\ h.head = h.nonce % RING
    BY RingAssumption DEF RingInv, History
<1>2. CASE h.nonce = 0
    BY <1>1, <1>2 DEF LatestEntry, Least
<1>3. CASE h.nonce # 0
    <2>1. h.len # 0 /\ h.nonce \in 1..h.nonce /\ h.nonce > h.nonce - RING
        BY <1>1, <1>3 DEF Least
    <2>2. (h.head - 1 + RING) % RING = (h.head - 1) % RING
        <3>1. h.head - 1 \in Int
            BY <1>1
        <3> QED
            BY Zenon, <3>1, Round
    <2>3. (h.head - 1) % RING = (h.nonce - 1) % RING
        <3>1. ((h.nonce % RING) + (-1)) % RING = (h.nonce + (-1)) % RING
            BY <1>1, Offset
        <3>2. (h.nonce % RING) + (-1) = h.head - 1 /\ h.nonce + (-1) = h.nonce - 1
            BY <1>1
        <3> QED
            BY <3>1, <3>2
    <2>4. h.slot[(h.nonce - 1) % RING] = h.nonce
        BY <2>1 DEF RingInv
    <2> QED
        BY <2>1, <2>2, <2>3, <2>4 DEF LatestEntry
<1> QED
    BY <1>2, <1>3

(* extractRingEntryByNonce finds the update asked for or a later one.      *)
LEMMA ByNonceIsNotOlder ==
    ASSUME NEW h, RingInv(h), NEW n \in 1..h.nonce
    PROVE  EntryByNonce(h, n) \in n..h.nonce
<1>1. h.nonce \in Nat /\ h.len = Least(h.nonce, RING) /\ RING \in Nat \ {0}
    BY RingAssumption DEF RingInv, History
<1>2. h.len # 0
    BY <1>1 DEF Least
<1> QED
    BY <1>2 DEF EntryByNonce, RingInv

(* The SDK's deserialize lists the last updates from the oldest on.        *)
LEMMA RingHoldsTheLast ==
    ASSUME NEW h, RingInv(h)
    PROVE  HoldsTheLastUpdates(h)
<1> DEFINE N == h.nonce
           L == h.len
<1>1. /\ N \in Nat /\ L = Least(N, RING) /\ RING \in Nat \ {0}
      /\ h.head = N % RING /\ L \in 0..RING /\ L <= N /\ N \in Int /\ L \in Int
    BY RingAssumption DEF RingInv, History, Least
<1>2. ASSUME NEW i \in 1..L
      PROVE  h.slot[(h.head - L + (i - 1) + RING) % RING] = N - L + i
    <2> DEFINE n == N - L + i
               k == (i - 1) - L
    <2>1. n \in 1..N /\ n > N - RING /\ k \in Int /\ i \in Int
        BY <1>1
    <2>2. h.slot[(n - 1) % RING] = n
        BY <2>1 DEF RingInv
    <2>3. h.head \in Int
        BY RingAssumption DEF RingInv, History
    <2>4. h.head - L + (i - 1) + RING = (h.head + k) + RING /\ h.head + k \in Int
        BY <1>1, <2>1, <2>3
    <2>5. ((h.head + k) + RING) % RING = (h.head + k) % RING
        BY <2>4, Round
    <2>6. (h.head + k) % RING = (N + k) % RING
        <3> HIDE DEF N, k
        <3> QED
            BY <1>1, <2>1, Offset
    <2>7. N + k = n - 1
        BY <1>1, <2>1
    <2> QED
        BY <2>2, <2>4, <2>5, <2>6, <2>7
<1>3. OldestFirst(h) = [i \in 1..L |-> N - L + i]
    BY <1>2 DEF OldestFirst
<1> QED
    BY <1>1, <1>3 DEF HoldsTheLastUpdates

--------------------------------------------------------------------------------
Kinds == {"funded", "locked", "cancelled_pending", "mutually_cancelled", "closed"}
Line  == [subject : Agents \cup Escrows, mark : Nat \cup Kinds]
Tx    == [ok : BOOLEAN, lines : Seq(Line)]
Row   == [subject : Agents \cup Escrows \cup {Party}, mark : Nat \cup Kinds,
          sig : Nat, entry : Nat]

(* A reputation transaction that succeeded tells of updates that happened. *)
TxOK(tx, hist) ==
    /\ tx.lines # <<>>
    /\ program = "reputation" /\ tx.ok =>
         \A l \in 1..Len(tx.lines) :
             /\ tx.lines[l].subject \in Agents
             /\ tx.lines[l].mark \in 1..hist[tx.lines[l].subject].nonce

ChainOK(txs, hist) ==
    /\ txs \in Seq(Tx) /\ Len(txs) <= MaxTx
    /\ \A s \in 1..Len(txs) : TxOK(txs[s], hist)

(* A call works through signatures of the chain.  It reads an account only *)
(* for a reputation transaction that succeeded.                            *)
CallOK(call, txs) ==
    /\ call \in Calls
    /\ call.until <= Len(txs)
    /\ \A i \in 1..Len(call.todo) : call.todo[i] \in 1..Len(txs)
    /\ call.at \in {"fetch", "read"} =>
         /\ call.todo # <<>>
         /\ call.line \in 1..Len(txs[Head(call.todo)].lines)
    /\ call.at = "read" => program = "reputation" /\ txs[Head(call.todo)].ok

(* A handler has one transaction, one that succeeded, and fetches it only  *)
(* if it is of the escrow program.                                         *)
HandlerOK(call, txs) ==
    /\ CallOK(call, txs)
    /\ call.at \in {"fetch", "read"} => Len(call.todo) = 1
    /\ call.at = "fetch" => program = "escrow" /\ txs[Head(call.todo)].ok

(* A row is that of a line of its transaction.                             *)
RowOK(r, txs, hist) ==
    /\ r \in Row /\ r.sig \in 1..Len(txs) /\ txs[r.sig].ok /\ Parsed(r.mark)
    /\ \E l \in 1..Len(txs[r.sig].lines) :
         /\ txs[r.sig].lines[l].mark = r.mark
         /\ program = "reputation" \/ Len(txs[r.sig].lines) = 1 =>
              txs[r.sig].lines[l].subject = r.subject
    /\ program = "reputation" /\ r.entry # 0 =>
         r.entry \in r.mark..hist[r.subject].nonce

NoClash(table) ==
    \A i, k \in 1..Len(table) : Clash(program, table[i], table[k]) => i = k

TableOK(table, txs, hist) ==
    /\ table \in Seq(Row)
    /\ \A id \in 1..Len(table) : RowOK(table[id], txs, hist)
    /\ NoClash(table)

(* The inductive invariant.                                                *)
IInv ==
    /\ program \in {"reputation", "escrow"} /\ up \in BOOLEAN /\ crashes \in 0..MaxCrashes
    /\ history \in [Agents -> History] /\ \A a \in Agents : RingInv(history[a])
    /\ ChainOK(chain, history)
    /\ ws \subseteq 1..Len(chain)
    /\ handlers \in [1..MaxTx -> Calls] /\ \A s \in 1..MaxTx : HandlerOK(handlers[s], chain)
    /\ jobs \in [Jobs -> Calls] /\ \A j \in Jobs : CallOK(jobs[j], chain)
    /\ TableOK(rows, chain, history)

(* A table that grew: the rows it had are where they were.                 *)
Grown(table, later) ==
    /\ Len(table) <= Len(later)
    /\ \A id \in 1..Len(table) : later[id] = table[id]

LEMMA GrownTwice ==
    ASSUME NEW a \in Seq(Row), NEW b \in Seq(Row), NEW c \in Seq(Row),
           Grown(a, b), Grown(b, c)
    PROVE  Grown(a, c)
<1>1. Len(a) \in Nat /\ Len(b) \in Nat /\ Len(c) \in Nat
    OBVIOUS
<1> QED
    BY <1>1 DEF Grown

--------------------------------------------------------------------------------
(* INSERT OR IGNORE.                                                       *)
LEMMA InsertKeepsTable ==
    ASSUME NEW txs, NEW hist, NEW table, TableOK(table, txs, hist),
           NEW row, RowOK(row, txs, hist)
    PROVE  /\ TableOK(InsertOrIgnore(program, table, row), txs, hist)
           /\ Grown(table, InsertOrIgnore(program, table, row))
<1>1. table \in Seq(Row) /\ row \in Row /\ Len(table) \in Nat
    BY DEF TableOK, RowOK
<1>2. CASE \E id \in DOMAIN table : Clash(program, table[id], row)
    BY <1>1, <1>2 DEF InsertOrIgnore, Grown
<1>3. CASE \A id \in DOMAIN table : ~Clash(program, table[id], row)
    <2> DEFINE later == Append(table, row)
    <2>1. InsertOrIgnore(program, table, row) = later
        BY <1>3 DEF InsertOrIgnore
    <2>2. /\ later \in Seq(Row) /\ Len(later) = Len(table) + 1
          /\ \A id \in 1..Len(table) : later[id] = table[id]
          /\ later[Len(table) + 1] = row
        BY <1>1
    <2> HIDE DEF later
    <2>3. \A id \in 1..Len(later) : RowOK(later[id], txs, hist)
        BY <1>1, <2>2 DEF TableOK
    <2>4. NoClash(later)
        <3> SUFFICES ASSUME NEW i \in 1..Len(later), NEW k \in 1..Len(later),
                            Clash(program, later[i], later[k])
                     PROVE  i = k
            BY DEF NoClash
        <3>1. \A id \in 1..Len(table) :
                ~Clash(program, table[id], row) /\ ~Clash(program, row, table[id])
            BY <1>1, <1>3 DEF Clash
        <3>2. \A x, y \in 1..Len(table) : Clash(program, table[x], table[y]) => x = y
            BY DEF TableOK, NoClash
        <3> QED
            BY <1>1, <2>2, <3>1, <3>2
    <2> QED
        BY <1>1, <2>1, <2>2, <2>3, <2>4 DEF TableOK, Grown
<1> QED
    BY <1>2, <1>3

(* The row of a line of an escrow transaction.                             *)
LEMMA EscrowRowOK ==
    ASSUME IInv, program = "escrow", NEW sig \in 1..Len(chain), chain[sig].ok,
           NEW l \in 1..Len(chain[sig].lines), Parsed(chain[sig].lines[l].mark)
    PROVE  RowOK(EscrowRow(sig, chain[sig].lines[l]), chain, history)
<1> DEFINE lines == chain[sig].lines
           r == EscrowRow(sig, lines[l])
<1>1. lines \in Seq(Line) /\ Len(lines) \in Nat /\ Len(chain) \in Nat
    <2>1. chain \in Seq(Tx)
        BY DEF IInv, ChainOK
    <2>2. chain[sig] \in Tx /\ Len(chain) \in Nat
        BY <2>1
    <2> QED
        BY <2>2 DEF Tx
<1>2. lines[1] \in Line /\ lines[l] \in Line
    BY <1>1
<1> HIDE DEF lines
<1>3. /\ r.mark = lines[l].mark /\ r.sig = sig /\ r.entry = 0
      /\ r.subject = AccountAt(lines[1], EscrowAccountIndex(lines[l].mark))
      /\ r = [subject |-> r.subject, mark |-> r.mark, sig |-> r.sig, entry |-> r.entry]
    BY DEF EscrowRow, lines
<1>4. r.subject \in Agents \cup Escrows \cup {Party}
    BY <1>2, <1>3 DEF AccountAt, Line
<1>5. r.mark \in Nat \cup Kinds /\ r.sig \in Nat /\ r.entry \in Nat
    BY <1>1, <1>2, <1>3 DEF Line
<1> HIDE DEF r
<1>6. r \in Row
    BY Zenon, <1>3, <1>4, <1>5 DEF Row
<1>7. Len(lines) = 1 => lines[l].subject = r.subject
    BY <1>1, <1>3 DEF AccountAt, EscrowAccountIndex, lines
<1> QED
    BY <1>3, <1>6, <1>7 DEF RowOK, r, lines

(* processTx: the loop over the lines, by induction on their number.       *)
LEMMA StoreEscrowKeepsTable ==
    ASSUME IInv, program = "escrow", NEW sig \in 1..Len(chain), chain[sig].ok
    PROVE  /\ TableOK(StoreEscrowEvents(sig), chain, history)
           /\ Grown(rows, StoreEscrowEvents(sig))
<1> DEFINE lines == chain[sig].lines
           N == Len(lines)
           Step(i, t) == IF Parsed(lines[i].mark)
                         THEN InsertOrIgnore(program, t, EscrowRow(sig, lines[i]))
                         ELSE t
           Storing(f, n) == f = [i \in 0..n |-> IF i = 0 THEN rows ELSE Step(i, f[i - 1])]
<1>1. N \in Nat
    BY DEF IInv, ChainOK, Tx
<1>2. \E f : Storing(f, N)
    <2> DEFINE S == {n \in Nat : \E f : Storing(f, n)}
    <2> HIDE DEF Step
    <2>1. 0 \in S
        <3>1. Storing([i \in 0..0 |-> rows], 0)
            OBVIOUS
        <3> QED
            BY <3>1
    <2>2. ASSUME NEW n \in Nat, n \in S PROVE n + 1 \in S
        <3>1. PICK f : Storing(f, n)
            BY <2>2
        <3> DEFINE g == [i \in 0..n + 1 |-> IF i <= n THEN f[i] ELSE Step(n + 1, f[n])]
        <3>2. \A i \in 0..n + 1 : g[i] = IF i = 0 THEN rows ELSE Step(i, g[i - 1])
            <4> SUFFICES ASSUME NEW i \in 0..n + 1
                         PROVE  g[i] = IF i = 0 THEN rows ELSE Step(i, g[i - 1])
                OBVIOUS
            <4>1. CASE i = n + 1
                BY <4>1
            <4>2. CASE i # n + 1
                <5>1. i \in 0..n /\ g[i] = f[i] /\ (i # 0 => g[i - 1] = f[i - 1])
                    BY <4>2
                <5>2. f[i] = IF i = 0 THEN rows ELSE Step(i, f[i - 1])
                    BY <3>1, <5>1
                <5> QED
                    BY <5>1, <5>2
            <4> QED
                BY <4>1, <4>2
        <3>3. g = [i \in 0..n + 1 |-> IF i = 0 THEN rows ELSE Step(i, g[i - 1])]
            BY <3>2
        <3>4. Storing(g, n + 1)
            BY <3>3
        <3> HIDE DEF g, Storing
        <3> QED
            BY <3>4
    <2> HIDE DEF S
    <2>3. Nat \subseteq S
        BY <2>1, <2>2, SetInduction
    <2> QED
        BY <1>1, <2>3 DEF S
<1> DEFINE after == CHOOSE f : Storing(f, N)
<1>3. Storing(after, N)
    <2> HIDE DEF Storing
    <2> QED
        BY <1>2
<1>4. StoreEscrowEvents(sig) = after[N]
    BY DEF StoreEscrowEvents
<1> HIDE DEF after
<1>5. /\ after[0] = rows
      /\ \A i \in 1..N : after[i] = Step(i, after[i - 1])
    <2> HIDE DEF Step, N
    <2>1. \A i \in 0..N : after[i] = IF i = 0 THEN rows ELSE Step(i, after[i - 1])
        BY <1>3
    <2>2. N \in Nat
        BY <1>1 DEF N
    <2> HIDE DEF Storing
    <2>3. 0 \in 0..N
        BY <2>2
    <2>4. after[0] = rows
        BY <2>1, <2>3
    <2>5. ASSUME NEW i \in 1..N PROVE i \in 0..N /\ i # 0
        BY <2>2
    <2> QED
        BY <2>1, <2>4, <2>5
<1> HIDE DEF Storing, Step, N
<1> DEFINE Good == {n \in Nat : n <= N => /\ TableOK(after[n], chain, history)
                                          /\ Grown(rows, after[n])}
<1>6. 0 \in Good
    BY <1>5 DEF IInv, Grown, TableOK
<1>7. ASSUME NEW n \in Nat, n \in Good PROVE n + 1 \in Good
    <2> SUFFICES ASSUME n + 1 <= N
                 PROVE  TableOK(after[n + 1], chain, history) /\ Grown(rows, after[n + 1])
        OBVIOUS
    <2>1. /\ TableOK(after[n], chain, history) /\ Grown(rows, after[n])
          /\ n + 1 \in 1..N /\ after[n + 1] = Step(n + 1, after[n])
        BY <1>1, <1>5, <1>7
    <2>2. CASE ~Parsed(lines[n + 1].mark)
        BY <2>1, <2>2 DEF Step
    <2>3. CASE Parsed(lines[n + 1].mark)
        <3>1. RowOK(EscrowRow(sig, lines[n + 1]), chain, history)
            BY <2>1, <2>3, EscrowRowOK DEF N
        <3>2. after[n + 1] = InsertOrIgnore(program, after[n], EscrowRow(sig, lines[n + 1]))
            BY <2>1, <2>3 DEF Step
        <3>3. /\ TableOK(after[n + 1], chain, history)
              /\ Grown(after[n], after[n + 1])
            BY <2>1, <3>1, <3>2, InsertKeepsTable
        <3>4. rows \in Seq(Row) /\ after[n] \in Seq(Row) /\ after[n + 1] \in Seq(Row)
            BY <2>1, <3>3 DEF IInv, TableOK
        <3>5. Grown(rows, after[n + 1])
            BY <2>1, <3>3, <3>4, GrownTwice
        <3> QED
            BY <3>3, <3>5
    <2> QED
        BY <2>2, <2>3
<1> HIDE DEF Good
<1>8. Nat \subseteq Good
    BY <1>6, <1>7, SetInduction
<1> QED
    BY <1>1, <1>4, <1>8 DEF Good

--------------------------------------------------------------------------------
(* The calls under way.                                                    *)
LEMMA IdleOK ==
    ASSUME NEW txs \in Seq(Tx)
    PROVE  CallOK(Idle, txs) /\ HandlerOK(Idle, txs)
<1>1. Idle \in Calls /\ Idle.at = "idle" /\ Idle.until = 0 /\ Idle.todo = <<>>
    <2>1. <<>> \in Seq(1..MaxTx)
        OBVIOUS
    <2> QED
        BY <2>1 DEF Idle, Calls
<1>2. Len(txs) \in Nat
    OBVIOUS
<1> QED
    BY <1>1, <1>2 DEF CallOK, HandlerOK

LEMMA ListingOK ==
    ASSUME NEW txs \in Seq(Tx), NEW limit \in Nat, NEW until \in 0..Len(txs)
    PROVE  CallOK(Listing(limit, until), txs)
<1> DEFINE call == Listing(limit, until)
<1>1. <<>> \in Seq(1..MaxTx) /\ Len(txs) \in Nat
    OBVIOUS
<1>2. /\ call \in Calls /\ call.at = "list" /\ call.until = until /\ call.todo = <<>>
    <2>1. until \in Nat
        BY <1>1
    <2>2. Idle \in Calls /\ Idle.todo = <<>>
        BY <1>1 DEF Idle, Calls
    <2>3. call \in Calls /\ call.todo = Idle.todo
        BY Zenon, <2>1, <2>2 DEF Listing, Calls
    <2>4. call.at = "list" /\ call.until = until
        BY Zenon, <2>1, <2>2 DEF Listing, Calls
    <2> QED
        BY <2>2, <2>3, <2>4
<1> HIDE DEF call
<1> QED
    BY <1>1, <1>2 DEF CallOK, call

(* A call that is about to fetch or to read, at the signature it is at.    *)
LEMMA ProcessingOK ==
    ASSUME NEW txs \in Seq(Tx), Len(txs) <= MaxTx,
           \A s \in 1..Len(txs) : txs[s].lines # <<>>,
           NEW todo \in Seq(1..Len(txs))
    PROVE  CallOK(Processing(todo), txs)
<1> DEFINE call == Processing(todo)
<1>1. CASE todo = <<>>
    BY <1>1, IdleOK DEF Processing
<1>2. CASE todo # <<>>
    <2>1. Len(txs) \in Nat /\ MaxTx \in Nat
        BY IndexerAssumption
    <2>2. todo \in Seq(1..MaxTx) /\ Head(todo) \in 1..Len(txs)
          /\ \A i \in 1..Len(todo) : todo[i] \in 1..Len(txs)
        BY <1>2, <2>1
    <2>3. /\ call.at = "fetch" /\ call.until = 0 /\ call.todo = todo /\ call.line = 1
          /\ call \in Calls
        BY <1>2, <2>2 DEF Processing, Idle, Calls
    <2>4. 1 \in 1..Len(txs[Head(todo)].lines)
        <3>1. txs[Head(todo)] \in Tx /\ txs[Head(todo)].lines # <<>>
            BY <2>2
        <3>2. txs[Head(todo)].lines \in Seq(Line)
            BY <3>1 DEF Tx
        <3> QED
            BY <3>1, <3>2
    <2> HIDE DEF call
    <2> QED
        BY <1>2, <2>1, <2>2, <2>3, <2>4 DEF CallOK, call
<1> QED
    BY <1>1, <1>2

(* The chain of the invariant, in the form the lemmas above take it.       *)
LEMMA ChainFacts ==
    ASSUME IInv
    PROVE  /\ chain \in Seq(Tx) /\ Len(chain) \in Nat /\ Len(chain) <= MaxTx /\ MaxTx \in Nat
           /\ \A s \in 1..Len(chain) :
                /\ chain[s] \in Tx /\ chain[s].lines # <<>>
                /\ chain[s].lines \in Seq(Line) /\ Len(chain[s].lines) \in Nat \ {0}
<1>1. chain \in Seq(Tx) /\ Len(chain) <= MaxTx /\ MaxTx \in Nat
      /\ \A s \in 1..Len(chain) : chain[s].lines # <<>>
    BY IndexerAssumption DEF IInv, ChainOK, TxOK
<1>2. ASSUME NEW s \in 1..Len(chain)
      PROVE  chain[s] \in Tx /\ chain[s].lines \in Seq(Line) /\ Len(chain[s].lines) \in Nat \ {0}
    <2>1. chain[s] \in Tx /\ chain[s].lines # <<>>
        BY <1>1
    <2>2. chain[s].lines \in Seq(Line)
        BY <2>1 DEF Tx
    <2> QED
        BY <2>1, <2>2
<1> QED
    BY <1>1, <1>2

LEMMA NextSignatureOK ==
    ASSUME IInv, NEW call, CallOK(call, chain), call.todo # <<>>
    PROVE  CallOK(NextSignature(call), chain)
<1>1. call.todo \in Seq(1..MaxTx) /\ \A i \in 1..Len(call.todo) : call.todo[i] \in 1..Len(chain)
    BY DEF CallOK, Calls
<1>2. Tail(call.todo) \in Seq(1..Len(chain))
    <2> DEFINE todo == call.todo
    <2> HIDE DEF todo
    <2>1. todo \in Seq(1..Len(chain))
        BY <1>1 DEF todo
    <2>2. todo # <<>>
        BY DEF todo
    <2>3. Tail(todo) \in Seq(1..Len(chain))
        BY <2>1, <2>2
    <2> QED
        BY <2>3 DEF todo
<1> QED
    BY <1>2, ChainFacts, ProcessingOK DEF NextSignature

LEMMA NextLineOK ==
    ASSUME IInv, NEW call, CallOK(call, chain), call.at = "read"
    PROVE  CallOK(NextLine(call), chain)
<1> DEFINE lines == chain[Head(call.todo)].lines
<1>1. /\ call \in Calls /\ call.todo # <<>> /\ call.line \in 1..Len(lines)
      /\ call.line \in Nat
    BY DEF CallOK, Calls
<1>2. CASE call.line >= Len(lines)
    BY <1>1, <1>2, NextSignatureOK DEF NextLine
<1>3. CASE ~(call.line >= Len(lines))
    <2> DEFINE next == [call EXCEPT !.line = call.line + 1]
    <2>1. NextLine(call) = next
        BY <1>3 DEF NextLine
    <2>2. /\ next \in Calls /\ next.at = call.at /\ next.until = call.until
          /\ next.todo = call.todo /\ next.line = call.line + 1
        BY <1>1 DEF Calls
    <2>3. Len(lines) \in Nat /\ call.line + 1 \in 1..Len(lines)
        <3>1. Head(call.todo) \in 1..Len(chain)
            <4>1. call.todo \in Seq(1..MaxTx) /\ call.todo # <<>>
                  /\ \A i \in 1..Len(call.todo) : call.todo[i] \in 1..Len(chain)
                BY <1>1 DEF CallOK, Calls
            <4> QED
                BY <4>1
        <3>2. Len(lines) \in Nat
            BY <3>1, ChainFacts
        <3> HIDE DEF lines
        <3> QED
            BY <1>1, <1>3, <3>2
    <2> HIDE DEF next
    <2> QED
        BY <1>1, <2>1, <2>2, <2>3 DEF CallOK
<1> QED
    BY <1>2, <1>3

(* The signature a call is at.                                             *)
LEMMA AtSignature ==
    ASSUME NEW call, CallOK(call, chain), call.at \in {"fetch", "read"}
    PROVE  /\ call.todo # <<>> /\ Head(call.todo) \in 1..Len(chain)
           /\ call.line \in 1..Len(chain[Head(call.todo)].lines)
<1>1. /\ call.todo \in Seq(1..MaxTx) /\ call.todo # <<>>
      /\ \A i \in 1..Len(call.todo) : call.todo[i] \in 1..Len(chain)
      /\ call.line \in 1..Len(chain[Head(call.todo)].lines)
    BY DEF CallOK, Calls
<1> QED
    BY <1>1

(* One call of a back-fill, or of a handler, moved.                        *)
LEMMA OneJob ==
    ASSUME IInv, NEW j \in Jobs, NEW call, CallOK(call, chain),
           jobs' = [jobs EXCEPT ![j] = call]
    PROVE  jobs' \in [Jobs -> Calls] /\ \A k \in Jobs : CallOK(jobs'[k], chain)
    BY DEF IInv, CallOK

LEMMA OneHandler ==
    ASSUME IInv, NEW sig \in 1..MaxTx, NEW call, HandlerOK(call, chain),
           handlers' = [handlers EXCEPT ![sig] = call]
    PROVE  handlers' \in [1..MaxTx -> Calls] /\ \A s \in 1..MaxTx : HandlerOK(handlers'[s], chain)
    BY DEF IInv, HandlerOK, CallOK

--------------------------------------------------------------------------------
(* Steps that leave the chain alone: what they have to keep.               *)
LEMMA ServiceStep ==
    ASSUME IInv, UNCHANGED <<program, chain, history>>,
           up' \in BOOLEAN, crashes' \in 0..MaxCrashes, ws' \subseteq 1..Len(chain),
           handlers' \in [1..MaxTx -> Calls], \A s \in 1..MaxTx : HandlerOK(handlers'[s], chain),
           jobs' \in [Jobs -> Calls], \A j \in Jobs : CallOK(jobs'[j], chain),
           TableOK(rows', chain, history)
    PROVE  IInv'
<1>1. ChainOK(chain, history)'
    BY DEF IInv, ChainOK, TxOK
<1>2. \A s \in 1..MaxTx : HandlerOK(handlers[s], chain)'
    BY DEF HandlerOK, CallOK
<1>3. \A j \in Jobs : CallOK(jobs[j], chain)'
    BY DEF CallOK
<1>4. TableOK(rows, chain, history)'
    <2>1. rows' \in Seq(Row) /\ NoClash(rows)'
        BY DEF TableOK, NoClash
    <2>2. \A id \in 1..Len(rows') : RowOK(rows'[id], chain, history)
        BY DEF TableOK
    <2>3. (\A id \in 1..Len(rows) : RowOK(rows[id], chain, history))'
        BY <2>2 DEF RowOK, Parsed
    <2> QED
        BY <2>1, <2>3 DEF TableOK
<1> QED
    BY <1>1, <1>2, <1>3, <1>4 DEF IInv

(* The row of the line a reading call is at.                               *)
LEMMA StoreLineKeepsTable ==
    ASSUME IInv, NEW call, CallOK(call, chain), call.at = "read", NEW answered \in BOOLEAN,
           NEW entry \in LineOf(call).mark..history[LineOf(call).subject].nonce,
           StoreLine(call, answered, entry)
    PROVE  TableOK(rows', chain, history) /\ Grown(rows, rows')
<1> DEFINE sig == Head(call.todo)
           line == LineOf(call)
           r == ReputationRow(sig, line, IF answered THEN entry ELSE 0)
<1>1. /\ program = "reputation" /\ sig \in 1..Len(chain) /\ chain[sig].ok
      /\ call.line \in 1..Len(chain[sig].lines)
    BY AtSignature DEF CallOK
<1>2. line = chain[sig].lines[call.line]
    BY DEF LineOf
<1>3. /\ line.subject \in Agents /\ line.mark \in 1..history[line.subject].nonce
    BY <1>1, <1>2 DEF IInv, ChainOK, TxOK
<1>4. history[line.subject].nonce \in Nat /\ sig \in Nat
    BY <1>1, <1>3, ChainFacts DEF IInv, History
<1> HIDE DEF line, sig
<1>5. /\ r.subject = line.subject /\ r.mark = line.mark /\ r.sig = sig
      /\ r.entry = (IF answered THEN entry ELSE 0)
      /\ r = [subject |-> r.subject, mark |-> r.mark, sig |-> r.sig, entry |-> r.entry]
    BY DEF ReputationRow
<1> HIDE DEF r
<1>6. r.entry \in Nat /\ (r.entry # 0 => r.entry \in r.mark..history[r.subject].nonce)
    BY <1>3, <1>4, <1>5 DEF line
<1>7. r \in Row
    <2>1. r.subject \in Agents \cup Escrows \cup {Party} /\ r.mark \in Nat \cup Kinds /\ r.sig \in Nat
        BY <1>3, <1>4, <1>5
    <2> QED
        BY Zenon, <1>5, <1>6, <2>1 DEF Row
<1>8. RowOK(r, chain, history)
    BY <1>1, <1>2, <1>5, <1>6, <1>7 DEF RowOK, Parsed
<1>9. rows' = rows \/ rows' = InsertOrIgnore(program, rows, r)
    BY DEF StoreLine, r, line, sig
<1>10. TableOK(rows, chain, history) /\ Grown(rows, rows)
    BY DEF IInv, TableOK, Grown
<1> QED
    BY <1>8, <1>9, <1>10, InsertKeepsTable

LEMMA LastSignatureOfChain ==
    ASSUME IInv
    PROVE  LastIndexedSignature(rows) \in 0..Len(chain)
<1>1. /\ rows \in Seq(Row) /\ Len(rows) \in Nat /\ Len(chain) \in Nat
      /\ \A id \in 1..Len(rows) : rows[id].sig \in 1..Len(chain)
    BY ChainFacts DEF IInv, TableOK, RowOK
<1>2. CASE rows = <<>>
    BY <1>1, <1>2 DEF LastIndexedSignature
<1>3. CASE rows # <<>>
    <2> DEFINE sigs == {rows[i].sig : i \in DOMAIN rows}
               Behind == {n \in Nat : \E sig \in sigs : n = Len(chain) - sig}
    <2>1. sigs \subseteq 1..Len(chain) /\ sigs # {}
        BY <1>1, <1>3
    <2>2. Behind \subseteq Nat /\ Behind # {}
        <3>1. PICK sig \in sigs : sig \in 1..Len(chain)
            BY <2>1
        <3>2. Len(chain) - sig \in Nat
            BY <1>1, <3>1
        <3> HIDE DEF sigs
        <3> QED
            BY <3>2
    <2>3. PICK n \in Behind : \A m \in Behind : n <= m
        <3> HIDE DEF Behind
        <3> QED
            BY Zenon, <2>2, SmallestElement
    <2>4. PICK last \in sigs : n = Len(chain) - last
        BY <2>3
    <2> HIDE DEF sigs
    <2>5. \A sig \in sigs : sig <= last
        <3> SUFFICES ASSUME NEW sig \in sigs PROVE sig <= last
            OBVIOUS
        <3>1. sig \in 1..Len(chain) /\ last \in 1..Len(chain)
            BY <2>1
        <3>2. Len(chain) - sig \in Behind
            BY <1>1, <3>1
        <3>3. Len(chain) - last <= Len(chain) - sig
            BY <2>3, <2>4, <3>2
        <3> QED
            BY <1>1, <3>1, <3>3
    <2>6. \E sig \in sigs : \A i \in DOMAIN rows : rows[i].sig <= sig
        BY <2>5 DEF sigs
    <2>7. LastIndexedSignature(rows) \in sigs
        BY <1>3, <2>6 DEF LastIndexedSignature, sigs
    <2> QED
        BY <1>1, <2>1, <2>7
<1> QED
    BY <1>2, <1>3

(* getSignaturesForAddress returns signatures of the chain.                *)
LEMMA SignaturesOfChain ==
    ASSUME IInv, NEW limit \in Nat, NEW until \in 0..Len(chain)
    PROVE  Signatures(limit, until) \in Seq(1..Len(chain))
<1> DEFINE n == Least(limit, Len(chain) - until)
<1>1. Len(chain) \in Nat /\ n \in 0..(Len(chain) - until) /\ n \in Nat
    BY ChainFacts DEF Least
<1>2. \A i \in 1..n : Len(chain) - i + 1 \in 1..Len(chain)
    BY <1>1
<1> HIDE DEF n
<1>3. [i \in 1..n |-> Len(chain) - i + 1] \in Seq(1..Len(chain))
    BY <1>1, <1>2
<1> QED
    BY <1>3 DEF Signatures, n

--------------------------------------------------------------------------------
(* What a step of the service does to the table: nothing, or it grows.     *)
TableGrows == TableOK(rows', chain, history) /\ Grown(rows, rows')

LEMMA SameTable == IInv /\ rows' = rows => TableGrows
    BY DEF IInv, TableOK, Grown, TableGrows

LEMMA LifeKeepsInv ==
    ASSUME IInv, Start \/ Crash
    PROVE  IInv' /\ TableGrows /\ UNCHANGED <<program, chain>>
<1>1. TableGrows
    BY SameTable DEF Start, Crash
<1>2. CASE Start
    <2>1. PICK j \in Jobs, limit \in Nat, until \in 0..Len(chain) :
            jobs' = [jobs EXCEPT ![j] = Listing(limit, until)]
        BY <1>2, LastSignatureOfChain, IndexerAssumption DEF Start
    <2>2. jobs' \in [Jobs -> Calls] /\ \A k \in Jobs : CallOK(jobs'[k], chain)
        BY <2>1, ChainFacts, ListingOK, OneJob
    <2>3. /\ UNCHANGED <<program, chain, history, crashes, ws, handlers, rows>> /\ up' \in BOOLEAN
        BY <1>2 DEF Start
    <2>4. /\ crashes' \in 0..MaxCrashes /\ ws' \subseteq 1..Len(chain)
          /\ handlers' \in [1..MaxTx -> Calls] /\ \A s \in 1..MaxTx : HandlerOK(handlers'[s], chain)
        BY <2>3 DEF IInv
    <2> QED
        BY <1>1, <2>2, <2>3, <2>4, ServiceStep DEF TableGrows
<1>3. CASE Crash
    <2>1. /\ UNCHANGED <<program, chain, history, rows>> /\ up' \in BOOLEAN /\ ws' = {}
          /\ handlers' = [sig \in 1..MaxTx |-> Idle] /\ jobs' = [j \in Jobs |-> Idle]
        BY <1>3 DEF Crash
    <2>2. crashes' \in 0..MaxCrashes
        BY <1>3, IndexerAssumption DEF Crash, IInv
    <2>3. CallOK(Idle, chain) /\ HandlerOK(Idle, chain) /\ Idle \in Calls
        BY ChainFacts, IdleOK DEF CallOK
    <2>4. /\ handlers' \in [1..MaxTx -> Calls] /\ \A s \in 1..MaxTx : HandlerOK(handlers'[s], chain)
          /\ jobs' \in [Jobs -> Calls] /\ \A k \in Jobs : CallOK(jobs'[k], chain)
        BY <2>1, <2>3
    <2> QED
        BY <1>1, <2>1, <2>2, <2>4, ServiceStep DEF TableGrows
<1> QED
    BY <1>2, <1>3

(* A step of a back-fill.                                                  *)
LEMMA JobMoves ==
    ASSUME IInv, NEW j \in Jobs, NEW call, CallOK(call, chain),
           jobs' = [jobs EXCEPT ![j] = call], TableGrows,
           UNCHANGED <<program, chain, history, up, crashes, ws, handlers>>
    PROVE  IInv' /\ TableGrows /\ UNCHANGED <<program, chain>>
<1>1. jobs' \in [Jobs -> Calls] /\ \A k \in Jobs : CallOK(jobs'[k], chain)
    BY OneJob
<1>2. /\ up' \in BOOLEAN /\ crashes' \in 0..MaxCrashes /\ ws' \subseteq 1..Len(chain)
      /\ handlers' \in [1..MaxTx -> Calls] /\ \A s \in 1..MaxTx : HandlerOK(handlers'[s], chain)
    BY DEF IInv
<1> QED
    BY <1>1, <1>2, ServiceStep DEF TableGrows

LEMMA JobStepKeepsInv ==
    ASSUME IInv, NEW j \in Jobs, JobStep(j)
    PROVE  IInv' /\ TableGrows /\ UNCHANGED <<program, chain>>
<1> DEFINE call == jobs[j]
<1>1. CallOK(call, chain) /\ jobs \in [Jobs -> Calls]
    BY DEF IInv
<1>2. call.at \in {"fetch", "read"} => call.todo # <<>> /\ Head(call.todo) \in 1..Len(chain)
    BY <1>1, AtSignature
<1>3. CASE StartPoll(j)
    <2>1. PollLimit \in Nat /\ 0 \in 0..Len(chain)
        BY ChainFacts, IndexerAssumption
    <2>2. CallOK(Listing(PollLimit, 0), chain)
        BY <2>1, ChainFacts, ListingOK
    <2> QED
        BY <1>3, <2>2, SameTable, JobMoves DEF StartPoll
<1>4. CASE List(j)
    <2>1. call.limit \in Nat /\ call.until \in 0..Len(chain)
        BY <1>1, ChainFacts DEF CallOK, Calls
    <2>2. CallOK(Processing(Signatures(call.limit, call.until)), chain)
        BY <2>1, ChainFacts, SignaturesOfChain, ProcessingOK
    <2> QED
        BY <1>1, <1>4, <2>2, SameTable, JobMoves DEF List
<1>5. CASE ListFails(j)
    BY <1>5, ChainFacts, IdleOK, SameTable, JobMoves DEF ListFails
<1>6. CASE SkipFailed(j)
    <2>1. CallOK(NextSignature(call), chain)
        BY <1>1, <1>2, <1>6, NextSignatureOK DEF SkipFailed
    <2> QED
        BY <1>6, <2>1, SameTable, JobMoves DEF SkipFailed
<1>7. CASE Fetch(j)
    <2>1. /\ call.at = "fetch" /\ chain[Head(call.todo)].ok /\ rows' = StoredByFetch(call)
          /\ jobs' = [jobs EXCEPT ![j] = AfterFetch(call)]
          /\ UNCHANGED <<program, chain, history, up, crashes, ws, handlers>>
        BY <1>7 DEF Fetch
    <2>2. TableGrows
        BY <1>2, <2>1, SameTable, StoreEscrowKeepsTable DEF StoredByFetch, TableGrows
    <2>3. CASE program = "escrow"
        BY <1>1, <1>2, <2>1, <2>2, <2>3, NextSignatureOK, JobMoves DEF AfterFetch
    <2>4. CASE program # "escrow"
        <3> DEFINE next == [call EXCEPT !.at = "read"]
        <3>1. AfterFetch(call) = next /\ program = "reputation"
            BY <2>4 DEF AfterFetch, IInv
        <3>2. /\ next \in Calls /\ next.at = "read" /\ next.until = call.until
              /\ next.todo = call.todo /\ next.line = call.line
            BY <1>1 DEF Calls
        <3> HIDE DEF next
        <3>3. CallOK(next, chain)
            BY <1>1, <1>2, <2>1, <3>1, <3>2 DEF CallOK
        <3> QED
            BY <2>1, <2>2, <3>1, <3>3, JobMoves
    <2> QED
        BY <2>3, <2>4
<1>8. CASE \E throws \in BOOLEAN : FetchFails(j, throws)
    <2>1. call.at = "fetch" => CallOK(NextSignature(call), chain)
        BY <1>1, <1>2, NextSignatureOK
    <2>2. CallOK(Idle, chain)
        BY ChainFacts, IdleOK
    <2> QED
        BY <1>8, <2>1, <2>2, SameTable, JobMoves DEF FetchFails
<1>9. CASE \E answered \in BOOLEAN : ReadAccount(j, answered)
    <2>1. PICK answered \in BOOLEAN : ReadAccount(j, answered)
        BY <1>9
    <2> DEFINE line == LineOf(call)
               entry == EntryByNonce(history[line.subject], line.mark)
    <2>2. /\ call.at = "read" /\ StoreLine(call, answered, entry)
          /\ jobs' = [jobs EXCEPT ![j] = NextLine(call)]
          /\ UNCHANGED <<program, chain, history, up, crashes, ws, handlers>>
        BY <2>1 DEF ReadAccount
    <2>3. line.subject \in Agents /\ line.mark \in 1..history[line.subject].nonce
        BY <1>1, <2>2, AtSignature DEF LineOf, CallOK, IInv, ChainOK, TxOK
    <2>4. entry \in line.mark..history[line.subject].nonce
        BY <2>3, ByNonceIsNotOlder DEF IInv
    <2>5. TableGrows
        BY <1>1, <2>2, <2>4, StoreLineKeepsTable DEF TableGrows
    <2>6. CallOK(NextLine(call), chain)
        BY <1>1, <2>2, NextLineOK
    <2> QED
        BY <2>2, <2>5, <2>6, JobMoves
<1> QED
    BY <1>3, <1>4, <1>5, <1>6, <1>7, <1>8, <1>9 DEF JobStep

(* A step of a websocket handler.                                          *)
LEMMA HandlerMoves ==
    ASSUME IInv, NEW sig \in 1..MaxTx, NEW call, HandlerOK(call, chain),
           handlers' = [handlers EXCEPT ![sig] = call], TableGrows, ws' \subseteq ws,
           UNCHANGED <<program, chain, history, up, crashes, jobs>>
    PROVE  IInv' /\ TableGrows /\ UNCHANGED <<program, chain>>
<1>1. /\ handlers' \in [1..MaxTx -> Calls]
      /\ \A s \in 1..MaxTx : HandlerOK(handlers'[s], chain)
    BY OneHandler
<1>2. /\ up' \in BOOLEAN /\ crashes' \in 0..MaxCrashes /\ ws' \subseteq 1..Len(chain)
      /\ jobs' \in [Jobs -> Calls] /\ \A j \in Jobs : CallOK(jobs'[j], chain)
    BY DEF IInv
<1> QED
    BY <1>1, <1>2, ServiceStep DEF TableGrows

LEMMA HandlingOK ==
    ASSUME IInv, NEW sig \in 1..Len(chain), chain[sig].ok, NEW at \in {"fetch", "read"},
           at = IF program = "escrow" THEN "fetch" ELSE "read"
    PROVE  HandlerOK(Handling(sig, at), chain)
<1> DEFINE call == Handling(sig, at)
           todo == <<sig>>
<1>1. sig \in 1..MaxTx /\ Len(chain[sig].lines) \in Nat \ {0} /\ Len(chain) \in Nat
    BY ChainFacts
<1>2. /\ todo \in Seq(1..MaxTx) /\ Len(todo) = 1 /\ Head(todo) = sig /\ todo # <<>>
      /\ \A i \in 1..Len(todo) : todo[i] \in 1..Len(chain)
    BY <1>1
<1>3. Idle \in Calls /\ Idle.until = 0
    BY ChainFacts, IdleOK DEF CallOK, Idle
<1>4. /\ call \in Calls /\ call.at = at /\ call.until = 0 /\ call.todo = todo /\ call.line = 1
    <2>1. at \in {"idle", "list", "fetch", "read"} /\ 1 \in Nat
        OBVIOUS
    <2> HIDE DEF todo
    <2> QED
        BY Zenon, <1>2, <1>3, <2>1 DEF Handling, Calls, todo
<1> HIDE DEF call, todo
<1>5. program \in {"reputation", "escrow"} /\ 1 \in 1..Len(chain[sig].lines)
    BY <1>1 DEF IInv
<1> QED
    BY <1>1, <1>2, <1>4, <1>5 DEF HandlerOK, CallOK, call

LEMMA HandlerStepKeepsInv ==
    ASSUME IInv, NEW sig \in 1..MaxTx, HandlerStep(sig)
    PROVE  IInv' /\ TableGrows /\ UNCHANGED <<program, chain>>
<1> DEFINE call == handlers[sig]
<1>1. HandlerOK(call, chain) /\ CallOK(call, chain) /\ HandlerOK(Idle, chain)
    BY ChainFacts, IdleOK DEF IInv, HandlerOK
<1>2. call.at \in {"fetch", "read"} => call.todo # <<>> /\ Head(call.todo) \in 1..Len(chain)
    BY <1>1, AtSignature
<1>3. CASE \E prefixed \in BOOLEAN : Deliver(sig, prefixed)
    <2>1. PICK prefixed \in BOOLEAN : Deliver(sig, prefixed)
        BY <1>3
    <2>2. sig \in 1..Len(chain) /\ program \in {"reputation", "escrow"}
        BY <2>1 DEF Deliver, IInv
    <2>3. \/ handlers' = [handlers EXCEPT ![sig] = Idle]
          \/ /\ chain[sig].ok
             /\ \/ program = "reputation" /\ handlers' = [handlers EXCEPT ![sig] = Handling(sig, "read")]
                \/ program = "escrow" /\ handlers' = [handlers EXCEPT ![sig] = Handling(sig, "fetch")]
        BY <2>1, <2>2 DEF Deliver
    <2>4. /\ ws' \subseteq ws /\ rows' = rows
          /\ UNCHANGED <<program, chain, history, up, crashes, jobs>>
        BY <2>1 DEF Deliver
    <2>5. PICK next : HandlerOK(next, chain) /\ handlers' = [handlers EXCEPT ![sig] = next]
        BY <1>1, <2>2, <2>3, HandlingOK
    <2> QED
        BY <2>4, <2>5, SameTable, HandlerMoves
<1>4. CASE HandlerFetch(sig)
    <2>1. /\ call.at = "fetch" /\ rows' = StoredByFetch(call)
          /\ handlers' = [handlers EXCEPT ![sig] = Idle]
          /\ UNCHANGED <<program, chain, history, up, crashes, ws, jobs>>
        BY <1>4 DEF HandlerFetch
    <2>2. TableGrows
        BY <1>1, <1>2, <2>1, StoreEscrowKeepsTable DEF StoredByFetch, TableGrows, HandlerOK
    <2> QED
        BY <1>1, <2>1, <2>2, HandlerMoves
<1>5. CASE HandlerFetchFails(sig)
    BY <1>1, <1>5, SameTable, HandlerMoves DEF HandlerFetchFails
<1>6. CASE \E answered \in BOOLEAN : HandlerRead(sig, answered)
    <2>1. PICK answered \in BOOLEAN : HandlerRead(sig, answered)
        BY <1>6
    <2> DEFINE line == LineOf(call)
               entry == LatestEntry(history[line.subject])
    <2>2. /\ call.at = "read" /\ StoreLine(call, answered, entry)
          /\ handlers' = [handlers EXCEPT ![sig] = NextLine(call)]
          /\ UNCHANGED <<program, chain, history, up, crashes, ws, jobs>>
        BY <2>1 DEF HandlerRead
    <2>3. line.subject \in Agents /\ line.mark \in 1..history[line.subject].nonce
        BY <1>1, <2>2, AtSignature DEF LineOf, CallOK, IInv, ChainOK, TxOK
    <2>4. entry \in line.mark..history[line.subject].nonce
        <3>1. entry = history[line.subject].nonce /\ history[line.subject].nonce \in Nat
            BY <2>3, LatestIsLast DEF IInv, History
        <3> HIDE DEF entry, line
        <3> QED
            BY <2>3, <3>1
    <2>5. TableGrows
        BY <1>1, <2>2, <2>4, StoreLineKeepsTable DEF TableGrows
    <2>6. HandlerOK(NextLine(call), chain)
        <3>1. CallOK(NextLine(call), chain)
            BY <1>1, <2>2, NextLineOK
        <3>2. NextLine(call) = Idle \/ NextLine(call) = [call EXCEPT !.line = call.line + 1]
            <4>1. call.todo \in Seq(1..MaxTx) /\ Len(call.todo) = 1
                BY <1>1, <2>2 DEF HandlerOK, CallOK, Calls
            <4>2. Tail(call.todo) = <<>>
                <5> DEFINE todo == call.todo
                <5> HIDE DEF todo
                <5>1. todo \in Seq(1..MaxTx) /\ Len(todo) = 1
                    BY <4>1 DEF todo
                <5>2. Tail(todo) \in Seq(1..MaxTx) /\ Len(Tail(todo)) = 0
                    BY <5>1
                <5>3. ASSUME NEW s \in Seq(1..MaxTx), Len(s) = 0 PROVE s = <<>>
                    BY <5>3
                <5>4. Tail(todo) = <<>>
                    BY <5>2, <5>3, Zenon
                <5> QED
                    BY <5>4 DEF todo
            <4> QED
                BY <4>2 DEF NextLine, NextSignature, Processing
        <3>3. call \in Calls
            BY <1>1 DEF CallOK
        <3>4. ASSUME NextLine(call) = [call EXCEPT !.line = call.line + 1]
              PROVE  NextLine(call).at = "read" /\ NextLine(call).todo = call.todo
            BY <2>2, <3>3, <3>4 DEF Calls
        <3> QED
            BY <1>1, <2>2, <3>1, <3>2, <3>4 DEF HandlerOK
    <2> QED
        BY <2>2, <2>5, <2>6, HandlerMoves
<1> QED
    BY <1>3, <1>4, <1>5, <1>6 DEF HandlerStep

--------------------------------------------------------------------------------
(* A transaction is confirmed: the chain is longer, nonces have grown.     *)
LEMMA LongerChain ==
    ASSUME IInv, NEW tx \in Tx, Len(chain) < MaxTx, chain' = Append(chain, tx),
           history' \in [Agents -> History], \A a \in Agents : RingInv(history'[a]),
           \A a \in Agents : history[a].nonce <= history'[a].nonce,
           TxOK(tx, history'),
           ws' \in {ws, ws \cup {Len(chain) + 1}},
           UNCHANGED <<program, up, crashes, handlers, jobs, rows>>
    PROVE  IInv'
<1>1. /\ chain' \in Seq(Tx) /\ Len(chain') = Len(chain) + 1 /\ Len(chain) \in Nat
      /\ \A s \in 1..Len(chain) : chain'[s] = chain[s] /\ chain'[Len(chain) + 1] = tx
    BY ChainFacts
<1>2. \A a \in Agents : history[a].nonce \in Nat /\ history'[a].nonce \in Nat
    BY DEF IInv, History
<1>3. ChainOK(chain, history)'
    <2>1. \A s \in 1..Len(chain) : TxOK(chain[s], history')
        <3> SUFFICES ASSUME NEW s \in 1..Len(chain), program = "reputation", chain[s].ok,
                            NEW l \in 1..Len(chain[s].lines)
                     PROVE  /\ chain[s].lines[l].subject \in Agents
                            /\ chain[s].lines[l].mark
                                 \in 1..history'[chain[s].lines[l].subject].nonce
            BY ChainFacts DEF TxOK
        <3>1. /\ chain[s].lines[l].subject \in Agents
              /\ chain[s].lines[l].mark \in 1..history[chain[s].lines[l].subject].nonce
            BY DEF IInv, ChainOK, TxOK
        <3> QED
            BY <1>2, <3>1
    <2>2. \A s \in 1..Len(chain') : TxOK(chain'[s], history')
        BY <1>1, <2>1
    <2>3. (\A s \in 1..Len(chain) : TxOK(chain[s], history))'
        BY <2>2 DEF TxOK
    <2> QED
        BY <1>1, <2>3, IndexerAssumption DEF ChainOK
<1>4. ASSUME NEW call, CallOK(call, chain)
      PROVE  CallOK(call, chain')
    <2>1. call.at \in {"fetch", "read"} => Head(call.todo) \in 1..Len(chain)
        BY <1>4, AtSignature
    <2> QED
        BY <1>1, <1>4, <2>1 DEF CallOK, Calls
<1>5. ASSUME NEW call, HandlerOK(call, chain)
      PROVE  HandlerOK(call, chain')
    <2>1. CallOK(call, chain) /\ CallOK(call, chain')
        BY <1>4, <1>5 DEF HandlerOK
    <2>2. call.at \in {"fetch", "read"} => Head(call.todo) \in 1..Len(chain)
        BY <2>1, AtSignature
    <2> QED
        BY <1>1, <1>5, <2>1, <2>2 DEF HandlerOK
<1>6. (\A s \in 1..MaxTx : HandlerOK(handlers[s], chain))'
    <2>1. \A s \in 1..MaxTx : HandlerOK(handlers[s], chain')
        BY <1>5 DEF IInv
    <2> QED
        BY <2>1 DEF HandlerOK, CallOK
<1>7. (\A j \in Jobs : CallOK(jobs[j], chain))'
    <2>1. \A j \in Jobs : CallOK(jobs[j], chain')
        BY <1>4 DEF IInv
    <2> QED
        BY <2>1 DEF CallOK
<1>8. TableOK(rows, chain, history)'
    <2>1. ASSUME NEW r, RowOK(r, chain, history)
          PROVE  RowOK(r, chain', history')
        <3>1. /\ r.sig \in 1..Len(chain) /\ r \in Row /\ chain'[r.sig] = chain[r.sig]
              /\ r.sig \in 1..Len(chain')
            BY <1>1, <2>1 DEF RowOK
        <3>2. program = "reputation" => r.subject \in Agents
            BY <2>1, <3>1 DEF RowOK, IInv, ChainOK, TxOK
        <3>3. program = "reputation" /\ r.entry # 0 => r.entry \in r.mark..history'[r.subject].nonce
            <4> SUFFICES ASSUME program = "reputation", r.entry # 0
                         PROVE  r.entry \in r.mark..history'[r.subject].nonce
                OBVIOUS
            <4>1. r.entry \in r.mark..history[r.subject].nonce
                BY <2>1 DEF RowOK
            <4>2. /\ history[r.subject].nonce \in Nat /\ history'[r.subject].nonce \in Nat
                  /\ history[r.subject].nonce <= history'[r.subject].nonce
                BY <1>2, <3>2
            <4>3. r.mark \in Int
                <5>1. \E l \in 1..Len(chain[r.sig].lines) : chain[r.sig].lines[l].mark = r.mark
                    BY <2>1 DEF RowOK
                <5> QED
                    BY <2>1, <3>1, <5>1 DEF RowOK, IInv, ChainOK, TxOK
            <4> QED
                BY <4>1, <4>2, <4>3
        <3> QED
            BY <2>1, <3>1, <3>3 DEF RowOK
    <2>2. \A id \in 1..Len(rows) : RowOK(rows[id], chain', history')
        BY <2>1 DEF IInv, TableOK
    <2>3. (\A id \in 1..Len(rows) : RowOK(rows[id], chain, history))'
        BY <2>2 DEF RowOK, Parsed
    <2> QED
        BY <2>3 DEF IInv, TableOK, NoClash
<1>9. ws' \subseteq 1..Len(chain')
    BY <1>1 DEF IInv
<1> QED
    BY <1>3, <1>6, <1>7, <1>8, <1>9 DEF IInv

LEMMA ConfirmKeepsInv ==
    ASSUME IInv, NEW ok \in BOOLEAN,
           \/ \E agents \in Updated : ConfirmUpdates(agents, ok)
           \/ \E lines \in EscrowTransactions : ConfirmInstructions(lines, ok)
    PROVE  IInv' /\ UNCHANGED <<program, rows>> /\ \E tx \in Tx : chain' = Append(chain, tx)
<1>1. CASE \E agents \in Updated : ConfirmUpdates(agents, ok)
    <2>1. PICK agents \in Updated : ConfirmUpdates(agents, ok)
        BY <1>1
    <2> DEFINE lines == Updates(agents)
               tx == [ok |-> ok, lines |-> lines]
    <2>2. /\ agents \in Seq(Agents) /\ agents # <<>> /\ Len(agents) \in Nat \ {0}
          /\ \A i \in 1..Len(agents) : agents[i] \in Agents
        <3>1. agents \in Seq(Agents) /\ agents # <<>>
            BY IndexerAssumption
        <3> QED
            BY <3>1
    <2>3. /\ program = "reputation" /\ Len(chain) < MaxTx /\ chain' = Append(chain, tx)
          /\ ws' \in {ws, ws \cup {Len(chain) + 1}}
          /\ UNCHANGED <<program, up, crashes, handlers, jobs, rows>>
          /\ history' = [a \in Agents |-> IF ok /\ \E i \in DOMAIN agents : agents[i] = a
                                         THEN RecordUpdate(history[a]) ELSE history[a]]
        BY <2>1 DEF ConfirmUpdates, Confirm
    <2>4. \A a \in Agents : /\ history[a].nonce \in Nat /\ RingInv(RecordUpdate(history[a]))
                            /\ RecordUpdate(history[a]).nonce = history[a].nonce + 1
        BY RecordKeepsRing DEF IInv, History
    <2>5. \A a \in Agents : RingInv(history'[a]) /\ history[a].nonce <= history'[a].nonce
        BY <2>3, <2>4 DEF IInv
    <2>6. history' \in [Agents -> History]
        BY <2>3, <2>5 DEF RingInv
    <2>7. /\ lines = [i \in 1..Len(agents) |->
                        [subject |-> agents[i], mark |-> history[agents[i]].nonce + 1]]
          /\ DOMAIN agents = 1..Len(agents)
        BY <2>2 DEF Updates
    <2>8. lines \in Seq(Line) /\ lines # <<>> /\ Len(lines) = Len(agents)
        <3>1. \A i \in 1..Len(agents) : lines[i] \in Line
            BY <2>2, <2>4, <2>7 DEF Line
        <3> QED
            BY <2>2, <2>7, <3>1
    <2> HIDE DEF lines
    <2>9. tx \in Tx /\ tx.lines = lines /\ tx.ok = ok
        BY <2>8 DEF Tx
    <2> HIDE DEF tx
    <2>10. TxOK(tx, history')
        <3> SUFFICES ASSUME ok, NEW l \in 1..Len(lines)
                     PROVE  /\ lines[l].subject \in Agents
                            /\ lines[l].mark \in 1..history'[lines[l].subject].nonce
            BY <2>8, <2>9 DEF TxOK
        <3>1. l \in 1..Len(agents) /\ agents[l] \in Agents
            BY <2>2, <2>8
        <3>2. lines[l].subject = agents[l] /\ lines[l].mark = history[agents[l]].nonce + 1
            BY <2>7, <3>1
        <3>3. history'[agents[l]].nonce = history[agents[l]].nonce + 1
            BY <2>3, <2>4, <2>7, <3>1
        <3> QED
            BY <2>4, <3>1, <3>2, <3>3
    <2> QED
        BY <2>3, <2>5, <2>6, <2>9, <2>10, LongerChain
<1>2. CASE \E lines \in EscrowTransactions : ConfirmInstructions(lines, ok)
    <2>1. PICK lines \in EscrowTransactions : ConfirmInstructions(lines, ok)
        BY <1>2
    <2> DEFINE tx == [ok |-> ok, lines |-> lines]
    <2>2. lines \in Seq(Line) /\ lines # <<>>
        <3>1. CASE \E e \in Escrows, kind \in {"funded", "locked", "cancelled_pending"} :
                     lines = <<[subject |-> e, mark |-> kind]>>
            <4>1. PICK e \in Escrows, kind \in {"funded", "locked", "cancelled_pending"} :
                         lines = <<[subject |-> e, mark |-> kind]>>
                BY <3>1
            <4>2. [subject |-> e, mark |-> kind] \in Line
                BY DEF Line, Kinds
            <4> QED
                BY <4>1, <4>2
        <3>2. CASE \E e \in Escrows :
                     lines = <<[subject |-> e, mark |-> "mutually_cancelled"],
                               [subject |-> e, mark |-> "closed"]>>
            <4>1. PICK e \in Escrows :
                         lines = <<[subject |-> e, mark |-> "mutually_cancelled"],
                                   [subject |-> e, mark |-> "closed"]>>
                BY <3>2
            <4>2. /\ [subject |-> e, mark |-> "mutually_cancelled"] \in Line
                  /\ [subject |-> e, mark |-> "closed"] \in Line
                BY DEF Line, Kinds
            <4> QED
                BY <4>1, <4>2
        <3> QED
            BY <3>1, <3>2 DEF EscrowTransactions
    <2>3. /\ program = "escrow" /\ Len(chain) < MaxTx /\ chain' = Append(chain, tx)
          /\ ws' \in {ws, ws \cup {Len(chain) + 1}} /\ history' = history
          /\ UNCHANGED <<program, up, crashes, handlers, jobs, rows>>
        BY <2>1 DEF ConfirmInstructions, Confirm
    <2>4. tx \in Tx /\ tx.lines = lines
        BY <2>2 DEF Tx
    <2> HIDE DEF tx
    <2>5. TxOK(tx, history')
        BY <2>2, <2>3, <2>4 DEF TxOK
    <2>6. \A a \in Agents : history[a].nonce <= history'[a].nonce
        BY <2>3 DEF IInv, History
    <2> QED
        BY <2>3, <2>4, <2>5, <2>6, LongerChain DEF IInv
<1> QED
    BY <1>1, <1>2

(* What a step does: the chain is longer and the table as it was, or the   *)
(* chain as it was and the table the same or longer.                       *)
LEMMA StepKeepsInv ==
    ASSUME IInv, [Next]_vars
    PROVE  /\ IInv' /\ program' = program
           /\ \/ rows' = rows /\ \E tx \in Tx : chain' = Append(chain, tx)
              \/ chain' = chain /\ TableGrows
<1>1. CASE UNCHANGED vars
    <2>1. TableGrows
        BY <1>1, SameTable DEF vars
    <2>2. IInv'
        BY <1>1, <2>1, ServiceStep DEF vars, IInv, TableGrows
    <2> QED
        BY <1>1, <2>1, <2>2 DEF vars
<1>2. CASE Start \/ Crash
    BY <1>2, LifeKeepsInv
<1>3. CASE \E sig \in 1..MaxTx : HandlerStep(sig)
    BY <1>3, HandlerStepKeepsInv
<1>4. CASE \E j \in Jobs : JobStep(j)
    BY <1>4, JobStepKeepsInv
<1>5. CASE \/ \E agents \in Updated, ok \in BOOLEAN : ConfirmUpdates(agents, ok)
           \/ \E lines \in EscrowTransactions, ok \in BOOLEAN : ConfirmInstructions(lines, ok)
    BY <1>5, ConfirmKeepsInv
<1> QED
    BY <1>1, <1>2, <1>3, <1>4, <1>5 DEF Next

--------------------------------------------------------------------------------
(* The rings the chain starts with, by induction on the number of updates. *)
LEMMA PriorRings == RingInv(After[Prior]) /\ After[Prior].nonce = Prior
<1> DEFINE Recording(f, n) ==
               f = [k \in 0..n |-> IF k = 0 THEN EmptyHistory ELSE RecordUpdate(f[k - 1])]
<1>1. Prior \in Nat
    BY IndexerAssumption
<1>2. \E f : Recording(f, Prior)
    <2> DEFINE S == {n \in Nat : \E f : Recording(f, n)}
    <2>1. 0 \in S
        <3>1. Recording([k \in 0..0 |-> EmptyHistory], 0)
            OBVIOUS
        <3> QED
            BY <3>1
    <2>2. ASSUME NEW n \in Nat, n \in S PROVE n + 1 \in S
        <3>1. PICK f : Recording(f, n)
            BY <2>2
        <3> DEFINE g == [k \in 0..n + 1 |-> IF k <= n THEN f[k] ELSE RecordUpdate(f[n])]
        <3>2. \A k \in 0..n + 1 : g[k] = IF k = 0 THEN EmptyHistory ELSE RecordUpdate(g[k - 1])
            <4> SUFFICES ASSUME NEW k \in 0..n + 1
                         PROVE  g[k] = IF k = 0 THEN EmptyHistory ELSE RecordUpdate(g[k - 1])
                OBVIOUS
            <4>1. CASE k = n + 1
                BY <4>1
            <4>2. CASE k # n + 1
                <5>1. k \in 0..n /\ g[k] = f[k] /\ (k # 0 => g[k - 1] = f[k - 1])
                    BY <4>2
                <5>2. f[k] = IF k = 0 THEN EmptyHistory ELSE RecordUpdate(f[k - 1])
                    BY <3>1, <5>1
                <5> QED
                    BY <5>1, <5>2
            <4> QED
                BY <4>1, <4>2
        <3>3. g = [k \in 0..n + 1 |-> IF k = 0 THEN EmptyHistory ELSE RecordUpdate(g[k - 1])]
            BY <3>2
        <3>4. Recording(g, n + 1)
            BY <3>3
        <3> HIDE DEF g, Recording
        <3> QED
            BY <3>4
    <2> HIDE DEF S
    <2>3. Nat \subseteq S
        BY <2>1, <2>2, SetInduction
    <2> QED
        BY <1>1, <2>3 DEF S
<1>3. Recording(After, Prior)
    <2> DEFINE f == CHOOSE f : Recording(f, Prior)
    <2>1. After = f
        BY DEF After
    <2>2. Recording(f, Prior)
        <3> HIDE DEF Recording
        <3> QED
            BY <1>2
    <2> HIDE DEF f
    <2> QED
        BY <2>1, <2>2
<1>4. /\ After[0] = EmptyHistory
      /\ \A k \in 1..Prior : After[k] = RecordUpdate(After[k - 1])
    BY <1>1, <1>3
<1> HIDE DEF Recording
<1> DEFINE Good == {n \in Nat : n <= Prior => RingInv(After[n]) /\ After[n].nonce = n}
<1>5. 0 \in Good
    BY <1>4, EmptyRing DEF EmptyHistory
<1>6. ASSUME NEW n \in Nat, n \in Good PROVE n + 1 \in Good
    <2> SUFFICES ASSUME n + 1 <= Prior
                 PROVE  RingInv(After[n + 1]) /\ After[n + 1].nonce = n + 1
        OBVIOUS
    <2>1. RingInv(After[n]) /\ After[n].nonce = n /\ After[n + 1] = RecordUpdate(After[n])
        BY <1>1, <1>4, <1>6
    <2> QED
        BY <2>1, RecordKeepsRing
<1> HIDE DEF Good
<1>7. Nat \subseteq Good
    BY <1>5, <1>6, SetInduction
<1> QED
    BY <1>1, <1>7 DEF Good

LEMMA InitImpliesInv == Init => IInv
<1> SUFFICES ASSUME Init PROVE IInv
    OBVIOUS
<1>1. history \in [Agents -> History] /\ \A a \in Agents : RingInv(history[a])
    BY PriorRings DEF Init, RingInv
<1>2. /\ chain = <<>> /\ chain \in Seq(Tx) /\ Len(chain) = 0
      /\ rows = <<>> /\ rows \in Seq(Row) /\ Len(rows) = 0
    BY DEF Init
<1>3. ChainOK(chain, history) /\ TableOK(rows, chain, history)
    BY <1>2, IndexerAssumption DEF ChainOK, TableOK, NoClash
<1>4. CallOK(Idle, chain) /\ HandlerOK(Idle, chain) /\ Idle \in Calls
    BY <1>2, IdleOK DEF CallOK
<1>5. crashes \in 0..MaxCrashes
    BY IndexerAssumption DEF Init
<1> QED
    BY <1>1, <1>2, <1>3, <1>4, <1>5 DEF Init, IInv

LEMMA InvariantHolds == Spec => []IInv
<1>1. IInv /\ [Next]_vars => IInv'
    BY StepKeepsInv
<1> QED
    BY InitImpliesInv, <1>1, PTL DEF Spec

--------------------------------------------------------------------------------
(* The indexer's state keeps its shape, whatever crashes and overlaps.     *)
THEOREM IndexerTypeCorrect == Spec => []TypeOK
<1>1. IInv => TypeOK
    <2> SUFFICES ASSUME IInv PROVE TypeOK
        OBVIOUS
    <2>1. DOMAIN chain = 1..Len(chain)
        BY ChainFacts DEF IInv
    <2>2. ASSUME NEW id \in DOMAIN rows PROVE rows[id].sig \in DOMAIN chain
        <3>1. RowOK(rows[id], chain, history)
            BY DEF IInv, TableOK
        <3> QED
            BY <3>1, <2>1 DEF RowOK
    <2>3. Len(chain) <= MaxTx
        BY DEF IInv, ChainOK
    <2>4. /\ program \in {"reputation", "escrow"} /\ up \in BOOLEAN /\ crashes \in 0..MaxCrashes
          /\ history \in [Agents -> History] /\ ws \subseteq 1..Len(chain)
          /\ handlers \in [1..MaxTx -> Calls] /\ jobs \in [Jobs -> Calls]
        BY DEF IInv
    <2> QED
        BY <2>1, <2>2, <2>3, <2>4, Zenon DEF TypeOK
<1> QED
    BY <1>1, InvariantHolds, PTL

(* Whatever two paths see of an event, however often and with whatever     *)
(* crashes between, the store has one row for it, for both programs.       *)
THEOREM IndexedOnce == Spec => []OneRowPerEvent
<1>1. IInv => OneRowPerEvent
    BY DEF IInv, TableOK, NoClash, OneRowPerEvent
<1> QED
    BY <1>1, InvariantHolds, PTL

(* A row tells of a transaction that succeeded and logged its event.       *)
THEOREM RowsHaveTheRightSubject == Spec => []RightSubject
<1>1. IInv => RightSubject
    <2> SUFFICES ASSUME IInv, NEW id \in DOMAIN rows
                 PROVE  /\ chain[rows[id].sig].ok
                        /\ \E l \in DOMAIN chain[rows[id].sig].lines :
                             /\ chain[rows[id].sig].lines[l].mark = rows[id].mark
                             /\ program = "reputation" \/ Len(chain[rows[id].sig].lines) = 1 =>
                                  chain[rows[id].sig].lines[l].subject = rows[id].subject
        BY DEF RightSubject
    <2>1. RowOK(rows[id], chain, history)
        BY DEF IInv, TableOK
    <2>2. DOMAIN chain[rows[id].sig].lines = 1..Len(chain[rows[id].sig].lines)
        BY <2>1, ChainFacts DEF RowOK
    <2> QED
        BY <2>1, <2>2 DEF RowOK
<1> QED
    BY <1>1, InvariantHolds, PTL

(* Whichever reader fills in a row, and however late, it takes the score   *)
(* delta of that update or of a later one, for a ring of any length.       *)
THEOREM EntriesAreNotOlder == Spec => []EntryIsNotOlder
<1>1. IInv => EntryIsNotOlder
    BY DEF IInv, TableOK, RowOK, EntryIsNotOlder
<1> QED
    BY <1>1, InvariantHolds, PTL

(* The SDK reads the last updates, all that a ring of any length has room  *)
(* for, oldest first, after any number of updates.                         *)
THEOREM HistoriesAreInOrder == Spec => []HistoryInOrder
<1>1. IInv => HistoryInOrder
    BY RingHoldsTheLast DEF IInv, HistoryInOrder
<1> QED
    BY <1>1, InvariantHolds, PTL

--------------------------------------------------------------------------------
(* The rows only grow and the chain only grows; every row is an event of   *)
(* the chain: so the events of the chain and those with a row follow the   *)
(* promise of an index.                                                    *)
LEMMA EventsOfChain ==
    ASSUME NEW event
    PROVE  event \in CommittedEvents <=>
             \E s \in DOMAIN chain : \E l \in DOMAIN chain[s].lines :
                 /\ chain[s].ok /\ Parsed(chain[s].lines[l].mark)
                 /\ event = EventOf(s, chain[s].lines[l])
BY DEF CommittedEvents, EventsOf

LEMMA RowsAreCommitted == IInv => IndexedEvents \subseteq CommittedEvents
<1> SUFFICES ASSUME IInv, NEW id \in DOMAIN rows
             PROVE  EventOf(rows[id].sig, rows[id]) \in CommittedEvents
    BY DEF IndexedEvents
<1> DEFINE sig == rows[id].sig
<1>1. RowOK(rows[id], chain, history)
    BY DEF IInv, TableOK
<1>2. /\ sig \in DOMAIN chain /\ chain[sig].ok /\ Parsed(rows[id].mark)
      /\ DOMAIN chain[sig].lines = 1..Len(chain[sig].lines)
    BY <1>1, ChainFacts DEF RowOK, IInv
<1>3. PICK l \in DOMAIN chain[sig].lines :
             /\ chain[sig].lines[l].mark = rows[id].mark
             /\ program = "reputation" \/ Len(chain[sig].lines) = 1 =>
                  chain[sig].lines[l].subject = rows[id].subject
    BY <1>1, <1>2 DEF RowOK
<1>4. EventOf(sig, chain[sig].lines[l]) = EventOf(sig, rows[id])
    BY <1>3 DEF EventOf, IInv
<1> QED
    BY <1>2, <1>3, <1>4, EventsOfChain

LEMMA ConfirmedIsCommit ==
    ASSUME IInv, program' = program, rows' = rows,
           NEW tx, tx \in Tx, chain' = Append(chain, tx)
    PROVE  [Index!ENext]_(Index!evars)
<1>1. /\ chain \in Seq(Tx) /\ Len(chain) \in Nat /\ DOMAIN chain = 1..Len(chain)
      /\ DOMAIN chain' = 1..Len(chain) + 1
      /\ \A s \in 1..Len(chain) : chain'[s] = chain[s]
    BY ChainFacts
<1>2. IndexedEvents' = IndexedEvents
    BY DEF IndexedEvents, EventOf
<1>3. CommittedEvents \subseteq CommittedEvents'
    <2> SUFFICES ASSUME NEW s \in DOMAIN chain, NEW l \in DOMAIN chain[s].lines,
                        chain[s].ok, Parsed(chain[s].lines[l].mark)
                 PROVE  EventOf(s, chain[s].lines[l]) \in CommittedEvents'
        BY EventsOfChain
    <2>1. s \in DOMAIN chain' /\ chain'[s] = chain[s]
        BY <1>1
    <2>2. EventOf(s, chain[s].lines[l]) = EventOf(s, chain[s].lines[l])'
        BY <2>1 DEF EventOf
    <2>3. EventOf(s, chain[s].lines[l])' \in EventsOf(s)'
        BY <2>1 DEF EventsOf, Parsed
    <2> QED
        BY <2>1, <2>2, <2>3 DEF CommittedEvents
<1> QED
    BY <1>2, <1>3 DEF Index!ENext, Index!Commit, Index!evars

LEMMA GrownIsIndex ==
    ASSUME IInv, IndexedEvents' \subseteq CommittedEvents',
           program' = program, chain' = chain, TableGrows
    PROVE  [Index!ENext]_(Index!evars)
<1>1. CommittedEvents' = CommittedEvents
    <2>1. ASSUME NEW sig PROVE EventsOf(sig)' = EventsOf(sig)
        <3>1. ASSUME NEW mark PROVE Parsed(mark)' <=> Parsed(mark)
            BY DEF Parsed
        <3>2. ASSUME NEW line PROVE EventOf(sig, line)' = EventOf(sig, line)
            BY DEF EventOf
        <3> QED
            BY <3>1, <3>2, Zenon DEF EventsOf
    <2> QED
        BY <2>1, Zenon DEF CommittedEvents
<1>2. IndexedEvents \subseteq IndexedEvents'
    <2> SUFFICES ASSUME NEW id \in DOMAIN rows
                 PROVE  EventOf(rows[id].sig, rows[id]) \in IndexedEvents'
        BY DEF IndexedEvents
    <2>1. rows \in Seq(Row) /\ rows' \in Seq(Row) /\ Grown(rows, rows')
        BY DEF IInv, TableOK, TableGrows
    <2>2. id \in DOMAIN rows' /\ rows'[id] = rows[id]
        BY <2>1 DEF Grown
    <2>3. EventOf(rows[id].sig, rows[id]) = EventOf(rows[id].sig, rows[id])'
        BY <2>2 DEF EventOf
    <2> QED
        BY <2>2, <2>3 DEF IndexedEvents
<1> QED
    BY <1>1, <1>2 DEF Index!ENext, Index!Index, Index!evars

(* The indexer, with its crashes, lost notifications and overlapping polls,*)
(* implements the promise of an index: it holds events of transactions     *)
(* that succeeded, and what it once held it holds for ever.                *)
THEOREM IndexIsKept == Spec => KeepsIndex
<1>1. Init => Index!EInit
    BY DEF Init, Index!EInit, CommittedEvents, IndexedEvents
<1>2. IInv /\ [Next]_vars /\ (IndexedEvents \subseteq CommittedEvents)'
        => [Index!ENext]_(Index!evars)
    BY StepKeepsInv, ConfirmedIsCommit, GrownIsIndex
<1> QED
    BY <1>1, <1>2, RowsAreCommitted, InvariantHolds, PTL DEF Spec, KeepsIndex, Index!ESpec

--------------------------------------------------------------------------------
(* Pages.  The newest n of a set of row ids, whatever the set.             *)
LEMMA LargestElement ==
    ASSUME NEW m \in Nat, NEW S \in SUBSET (1..m), S # {}
    PROVE  \E x \in S : \A y \in S : y <= x
<1> DEFINE Gaps == {m - y : y \in S}
<1>1. \A y \in S : y \in Int /\ m - y \in Nat
    OBVIOUS
<1>2. Gaps \subseteq Nat /\ Gaps # {}
    BY <1>1
<1>3. PICK gap \in Gaps : \A other \in Gaps : gap <= other
    BY <1>2, SmallestElement, Zenon
<1>4. PICK x \in S : gap = m - x
    BY <1>3
<1>5. ASSUME NEW y \in S PROVE y <= x
    <2>1. m - x <= m - y
        BY <1>3, <1>4
    <2> QED
        BY <1>1, <2>1
<1> QED
    BY <1>5

(* They are the ids above some place, and they are all there are when they *)
(* are fewer than asked for.                                               *)
LEMMA NewestIds ==
    ASSUME NEW m \in Nat, NEW ids \in SUBSET (1..m), NEW n \in Nat \ {0}
    PROVE  /\ Newest(ids, n) \subseteq ids
           /\ Cardinality(Newest(ids, n)) \in 0..n
           /\ Cardinality(Newest(ids, n)) # n => Newest(ids, n) = ids
           /\ Cardinality(Newest(ids, n)) = n => Newest(ids, n) # {}
           /\ \A id \in Newest(ids, n), j \in ids : id <= j => j \in Newest(ids, n)
<1> DEFINE Above(id) == {j \in ids : j > id}
           newest == Newest(ids, n)
<1>0. ids \subseteq Nat /\ \A id \in ids : id \in Nat
    OBVIOUS
<1>1. IsFiniteSet(ids)
    <2>1. IsFiniteSet(1..m)
        BY FS_Interval
    <2> QED
        BY <2>1, FS_Subset
<1>2. \A T \in SUBSET ids : IsFiniteSet(T) /\ Cardinality(T) \in Nat
    BY <1>1, FS_Subset, FS_CardinalityType
<1>3. \A S, T \in SUBSET ids : S \subseteq T => Cardinality(S) <= Cardinality(T)
    BY <1>2, FS_Subset
<1>4. \A id : id \in newest <=> id \in ids /\ Cardinality(Above(id)) < n
    BY DEF Newest
<1>5. newest \subseteq ids
    BY <1>4
<1>6. ASSUME NEW id \in newest, NEW j \in ids, id <= j PROVE j \in newest
    <2>1. Above(j) \subseteq Above(id)
        <3>1. id \in Nat /\ j \in Nat
            BY <1>0, <1>5, <1>6
        <3>2. \A i \in ids : i > j => i > id
            BY <1>0, <1>6, <3>1
        <3> QED
            BY <3>2
    <2>2. Cardinality(Above(j)) <= Cardinality(Above(id))
        BY <1>3, <2>1
    <2>3. Cardinality(Above(j)) \in Nat /\ Cardinality(Above(id)) \in Nat
        BY <1>2
    <2>4. Cardinality(Above(id)) < n
        BY <1>4
    <2> HIDE DEF Above
    <2>5. Cardinality(Above(j)) < n
        BY <2>2, <2>3, <2>4
    <2> QED
        BY <1>4, <2>5
<1>7. Cardinality(newest) <= n
    <2>1. CASE newest = {}
        BY <2>1, FS_EmptySet
    <2>2. CASE newest # {}
        <3>1. newest \subseteq Nat
            <4> HIDE DEF newest
            <4> QED
                BY <1>0, <1>5
        <3> HIDE DEF newest
        <3>2. PICK low \in newest : \A j \in newest : low <= j
            BY <2>2, <3>1, SmallestElement, Zenon
        <3>3. newest \subseteq Above(low) \cup {low}
            <4>1. \A j \in newest : j \in ids /\ j \in Int /\ low \in Int
                BY <1>5
            <4> QED
                BY <3>2, <4>1
        <3>4. IsFiniteSet(Above(low)) /\ Cardinality(Above(low)) \in Nat
            BY <1>2
        <3>5. Cardinality(Above(low)) < n
            BY <1>4, <3>2
        <3> HIDE DEF Above
        <3>6. /\ IsFiniteSet(Above(low) \cup {low})
              /\ Cardinality(Above(low) \cup {low}) <= Cardinality(Above(low)) + 1
            <4>1. /\ IsFiniteSet(Above(low) \cup {low})
                  /\ \/ Cardinality(Above(low) \cup {low}) = Cardinality(Above(low))
                     \/ Cardinality(Above(low) \cup {low}) = Cardinality(Above(low)) + 1
                BY Zenon, <3>4, FS_AddElement
            <4> QED
                BY <3>4, <4>1
        <3>7. Cardinality(newest) <= Cardinality(Above(low) \cup {low})
            BY <3>3, <3>6, FS_Subset
        <3>8. /\ Cardinality(newest) \in Nat
              /\ Cardinality(Above(low) \cup {low}) \in Nat
            BY <1>2, <1>5, <3>6, FS_CardinalityType
        <3> QED
            BY <3>4, <3>5, <3>6, <3>7, <3>8
    <2> QED
        BY <2>1, <2>2
<1>8. Cardinality(newest) \in Nat
    BY <1>2, <1>5
<1>9. ASSUME newest # ids PROVE Cardinality(newest) = n
    <2> DEFINE others == {id \in ids : id \notin newest}
    <2>1. others # {} /\ others \in SUBSET (1..m)
        BY <1>5, <1>9
    <2> HIDE DEF others, newest
    <2>2. PICK top \in others : \A j \in others : j <= top
        BY <2>1, LargestElement
    <2>3. top \in ids /\ top \notin newest
        BY <2>2 DEF others
    <2>4. Above(top) \subseteq newest
        <3>1. \A j \in ids : j > top => j \notin others
            <4>1. top \in Nat
                BY <1>0, <2>3
            <4> QED
                BY <1>0, <2>2, <4>1
        <3> QED
            BY <3>1 DEF others
    <2>5. Cardinality(Above(top)) <= Cardinality(newest) /\ Cardinality(Above(top)) \in Nat
        BY <1>2, <1>3, <1>5, <2>4
    <2>6. ~(Cardinality(Above(top)) < n)
        BY <1>4, <2>3
    <2> HIDE DEF Above
    <2> QED
        BY <1>7, <1>8, <2>5, <2>6
<1>10. Cardinality(newest) = n => newest # {}
    BY FS_EmptySet
<1> QED
    BY <1>5, <1>6, <1>7, <1>8, <1>9, <1>10

(* A page, and what is left below its cursor.                              *)
LEMMA PageSplits ==
    ASSUME NEW table, NEW m \in Nat, DOMAIN table = 1..m, NEW subjects,
           NEW requested \in Nat, NEW before \in Nat
    PROVE  LET page   == Page(table, subjects, requested, before)
               all    == Matching(table, subjects, before)
               cursor == PageCursor(page)
           IN  /\ ~page.hasMore => page.ids = all
               /\ page.hasMore =>
                    /\ cursor \in all
                    /\ page.ids \cup Matching(table, subjects, cursor) = all
                    /\ page.ids \cap Matching(table, subjects, cursor) = {}
<1> DEFINE page   == Page(table, subjects, requested, before)
           all    == Matching(table, subjects, before)
           n      == PageLimit(requested)
           cursor == PageCursor(page)
<1>1. n \in Nat \ {0}
    BY StoreAssumption DEF PageLimit
<1>2. all \in SUBSET (1..m)
    BY DEF Matching
<1>3. page.ids = Newest(all, n) /\ (page.hasMore <=> Cardinality(Newest(all, n)) = n)
    BY DEF Page
<1>4. /\ page.ids \subseteq all
      /\ ~page.hasMore => page.ids = all
      /\ page.hasMore => page.ids # {}
      /\ \A id \in page.ids, j \in all : id <= j => j \in page.ids
    <2> HIDE DEF n, all, page
    <2>1. /\ Newest(all, n) \subseteq all
          /\ Cardinality(Newest(all, n)) # n => Newest(all, n) = all
          /\ Cardinality(Newest(all, n)) = n => Newest(all, n) # {}
          /\ \A id \in Newest(all, n), j \in all : id <= j => j \in Newest(all, n)
        BY Zenon, <1>1, <1>2, NewestIds
    <2> QED
        BY <1>3, <2>1
<1>5. ASSUME page.hasMore
      PROVE  /\ cursor \in all
             /\ page.ids \cup Matching(table, subjects, cursor) = all
             /\ page.ids \cap Matching(table, subjects, cursor) = {}
    <2>1. page.ids \subseteq Nat /\ page.ids # {}
        BY <1>2, <1>4, <1>5
    <2>2. \E id \in page.ids : \A j \in page.ids : id <= j
        <3> HIDE DEF page
        <3> QED
            BY <2>1, SmallestElement, Zenon
    <2>3. cursor \in page.ids /\ \A j \in page.ids : cursor <= j
        <3> HIDE DEF page
        <3> QED
            BY <2>2 DEF PageCursor
    <2>4. cursor \in all /\ cursor \in 1..m
        BY <1>2, <1>4, <2>3
    <2> HIDE DEF cursor, page
    <2>5. Matching(table, subjects, cursor) = {id \in all : id < cursor}
        BY <2>4 DEF Matching, NoCursor
    <2>6. page.ids = {id \in all : cursor <= id}
        BY <1>4, <2>3
    <2>7. \A id \in all : id \in Int
        BY <1>2
    <2>8. cursor \in Int /\ \A id \in all : cursor <= id <=> ~(id < cursor)
        BY <2>4, <2>7
    <2> HIDE DEF all
    <2>9. /\ page.ids \cup {id \in all : id < cursor} = all
          /\ page.ids \cap {id \in all : id < cursor} = {}
        BY <2>6, <2>8
    <2> QED
        BY <2>4, <2>5, <2>9
<1> QED
    BY <1>4, <1>5

(* Following the cursors collects all that is below, by induction on the   *)
(* cursor: each page's is smaller than the one it was asked for with.      *)
LEMMA CollectedIsAll ==
    ASSUME NEW table, NEW m \in Nat, DOMAIN table = 1..m, Len(table) = m, NEW subjects,
           NEW requested \in Nat, NEW before \in 1..m + 1
    PROVE  Collected(table, subjects, requested)[before] = Matching(table, subjects, before)
<1> DEFINE page(b) == Page(table, subjects, requested, b)
           all(b)  == Matching(table, subjects, b)
           Next1(f, b) == page(b).ids \cup (IF page(b).hasMore THEN f[PageCursor(page(b))] ELSE {})
           Collecting(f) == f = [b \in 1..m + 1 |-> Next1(f, b)]
           g == [b \in 1..m + 1 |-> all(b)]
<1>1. \A b \in 1..m + 1 :
         /\ ~page(b).hasMore => page(b).ids = all(b)
         /\ page(b).hasMore =>
              /\ PageCursor(page(b)) \in all(b)
              /\ page(b).ids \cup all(PageCursor(page(b))) = all(b)
    <2> SUFFICES ASSUME NEW b \in 1..m + 1
                 PROVE  /\ ~page(b).hasMore => page(b).ids = all(b)
                        /\ page(b).hasMore =>
                             /\ PageCursor(page(b)) \in all(b)
                             /\ page(b).ids \cup all(PageCursor(page(b))) = all(b)
        BY Zenon
    <2>1. b \in Nat
        OBVIOUS
    <2> DEFINE p == Page(table, subjects, requested, b)
               ids == Matching(table, subjects, b)
    <2>2. /\ ~p.hasMore => p.ids = ids
          /\ p.hasMore =>
               /\ PageCursor(p) \in ids
               /\ p.ids \cup Matching(table, subjects, PageCursor(p)) = ids
               /\ p.ids \cap Matching(table, subjects, PageCursor(p)) = {}
        BY Zenon, <2>1, PageSplits
    <2> QED
        BY Zenon, <2>2
<1>2. \A b \in 1..m + 1 : all(b) \subseteq {id \in 1..m : id < b}
    BY DEF Matching, NoCursor
<1>3. Collecting(g)
    <2> SUFFICES ASSUME NEW b \in 1..m + 1 PROVE all(b) = Next1(g, b)
        BY Zenon DEF g
    <2>1. CASE ~page(b).hasMore
        BY <1>1, <2>1
    <2>2. CASE page(b).hasMore
        <3>1. PageCursor(page(b)) \in 1..m + 1
            BY <1>1, <1>2, <2>2
        <3>2. g[PageCursor(page(b))] = all(PageCursor(page(b)))
            BY <3>1
        <3> QED
            BY <1>1, <2>2, <3>2
    <2> QED
        BY <2>1, <2>2
<1>4. Collecting(Collected(table, subjects, requested))
    <2> DEFINE f == CHOOSE f : Collecting(f)
    <2>1. Collected(table, subjects, requested) = f
        BY DEF Collected
    <2>2. Collecting(f)
        <3> HIDE DEF Collecting, g
        <3> QED
            BY <1>3
    <2> HIDE DEF f, Collecting
    <2> QED
        BY <2>1, <2>2
<1> DEFINE f == Collected(table, subjects, requested)
<1> HIDE DEF f, g
<1>5. \A b \in 1..m + 1 : f[b] = Next1(f, b)
    BY <1>4 DEF f
<1> DEFINE Wrong == {b \in 1..m + 1 : f[b] # all(b)}
<1>6. Wrong = {}
    <2> SUFFICES ASSUME Wrong # {} PROVE FALSE
        OBVIOUS
    <2>1. Wrong \subseteq Nat
        OBVIOUS
    <2> HIDE DEF Wrong
    <2>2. PICK b \in Wrong : \A c \in Wrong : b <= c
        BY <2>1, SmallestElement, Zenon
    <2>3. b \in 1..m + 1 /\ f[b] # all(b)
        BY <2>2 DEF Wrong
    <2>4. page(b).hasMore /\ f[PageCursor(page(b))] # all(PageCursor(page(b)))
        <3>1. f[b] = Next1(f, b)
            BY <1>5, <2>3
        <3>2. /\ ~page(b).hasMore => page(b).ids = all(b)
              /\ page(b).hasMore => page(b).ids \cup all(PageCursor(page(b))) = all(b)
            BY <1>1, <2>3
        <3> HIDE DEF page, all
        <3> QED
            BY <2>3, <3>1, <3>2
    <2>5. PageCursor(page(b)) \in 1..m /\ PageCursor(page(b)) < b
        BY <1>1, <1>2, <2>3, <2>4
    <2>6. PageCursor(page(b)) \in Wrong
        BY <2>4, <2>5 DEF Wrong
    <2> HIDE DEF page
    <2> QED
        BY <2>2, <2>3, <2>5, <2>6
<1> QED
    BY <1>6 DEF f

(* Whoever follows the cursors sees every row that was there when the first *)
(* page was taken, each once, whatever is inserted between two pages, for  *)
(* any table, page size and cursor.                                        *)
THEOREM ReadersMissNothing == Spec => []PagesAreComplete
<1>1. IInv => PagesAreComplete
    <2> SUFFICES ASSUME rows \in Seq(Row), NEW k \in DOMAIN rows,
                        NEW requested \in 0..MAX_LIMIT + 1, NEW subjects
                 PROVE  LET first == Page(SubSeq(rows, 1, k), subjects, requested, NoCursor)
                            rest  == IF first.hasMore
                                     THEN Collected(rows, subjects, requested)[PageCursor(first)]
                                     ELSE {}
                        IN  /\ first.ids \cup rest = Matching(rows, subjects, k + 1)
                            /\ first.ids \cap rest = {}
        BY Zenon DEF IInv, TableOK, PagesAreComplete
    <2> DEFINE first == Page(rows, subjects, requested, k + 1)
               all   == Matching(rows, subjects, k + 1)
    <2>1. Len(rows) \in Nat /\ DOMAIN rows = 1..Len(rows) /\ k \in 1..Len(rows)
        OBVIOUS
    <2>2. Matching(SubSeq(rows, 1, k), subjects, NoCursor) = all
        <3>1. DOMAIN SubSeq(rows, 1, k) = 1..k /\ \A i \in 1..k : SubSeq(rows, 1, k)[i] = rows[i]
            BY <2>1
        <3> QED
            BY <2>1, <3>1 DEF Matching, NoCursor
    <2>3. Page(SubSeq(rows, 1, k), subjects, requested, NoCursor) = first
        BY <2>2 DEF Page
    <2>4. requested \in Nat
        BY StoreAssumption
    <2>9. k + 1 \in Nat
        BY <2>1
    <2>5. /\ ~first.hasMore => first.ids = all
          /\ first.hasMore =>
               /\ PageCursor(first) \in all
               /\ first.ids \cup Matching(rows, subjects, PageCursor(first)) = all
               /\ first.ids \cap Matching(rows, subjects, PageCursor(first)) = {}
        BY Zenon, <2>1, <2>4, <2>9, PageSplits
    <2>6. all \subseteq 1..Len(rows)
        BY <2>1 DEF Matching
    <2> HIDE DEF first, all
    <2>7. CASE first.hasMore
        <3>1. PageCursor(first) \in 1..Len(rows) + 1
            <4>1. PageCursor(first) \in all
                BY Zenon, <2>5, <2>7
            <4>2. PageCursor(first) \in 1..Len(rows)
                BY Zenon, <2>6, <4>1
            <4> QED
                BY <2>1, <4>2
        <3>2. Collected(rows, subjects, requested)[PageCursor(first)]
                = Matching(rows, subjects, PageCursor(first))
            BY <2>1, <2>4, <3>1, CollectedIsAll
        <3> QED
            BY <2>3, <2>5, <2>7, <3>2 DEF all
    <2>8. CASE ~first.hasMore
        BY <2>3, <2>5, <2>8 DEF all
    <2> QED
        BY <2>7, <2>8
<1> QED
    BY <1>1, InvariantHolds, PTL
================================================================================
