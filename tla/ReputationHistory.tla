--------------------------- MODULE ReputationHistory ---------------------------
(***************************************************************************)
(* The history ring of a ReputationAccount: update_reputation writes one   *)
(* entry per update, and three readers find entries in it by arithmetic of *)
(* their own: the indexer's websocket handler (the newest), its back-fill  *)
(* (by nonce) and the SDK (all of them, oldest first).                     *)
(*                                                                         *)
(* An entry is identified with the nonce of the update that wrote it; its  *)
(* outcome, delta, time and pact prefix come with it.  0 is a slot never   *)
(* written.                                                                *)
(***************************************************************************)
EXTENDS Integers, Sequences

CONSTANT RING               \* 20 entries in the program

ASSUME RingAssumption == RING \in Nat \ {0}

History ==
    [nonce : Nat, head : 0..RING - 1, len : 0..RING, slot : [0..RING - 1 -> Nat]]

EmptyHistory ==
    [nonce |-> 0, head |-> 0, len |-> 0, slot |-> [i \in 0..RING - 1 |-> 0]]

(* Variant: the length stops one short of the ring.                        *)
RecordShort(h) ==
    [h EXCEPT !.nonce       = @ + 1,
              !.slot[h.head] = h.nonce + 1,
              !.head        = (@ + 1) % RING,
              !.len         = IF @ < RING - 1 THEN @ + 1 ELSE @]

(* What update_reputation does to the nonce and to the ring.               *)
RecordUpdate(h) ==
    [h EXCEPT !.nonce       = @ + 1,
              !.slot[h.head] = h.nonce + 1,
              !.head        = (@ + 1) % RING,
              !.len         = IF @ < RING THEN @ + 1 ELSE @]

(* Variant: the slot at the head, which is the next to be overwritten.     *)
HeadEntry(h) == IF h.len = 0 THEN 0 ELSE h.slot[h.head]

(* extractLatestRingEntry                                                  *)
LatestEntry(h) == IF h.len = 0 THEN 0 ELSE h.slot[(h.head - 1 + RING) % RING]

(* extractRingEntryByNonce: write n went to slot n - 1, until it wraps.    *)
EntryByNonce(h, n) == IF h.len = 0 THEN 0 ELSE h.slot[(n - 1) % RING]

(* The SDK's deserialize: the entries from the oldest to the newest.       *)
OldestFirst(h) ==
    [i \in 1..h.len |-> h.slot[(h.head - h.len + (i - 1) + RING) % RING]]

Least(a, b) == IF a < b THEN a ELSE b

(* The ring holds the last updates, all of them and in order.              *)
HoldsTheLastUpdates(h) ==
    /\ h.len = Least(h.nonce, RING)
    /\ OldestFirst(h) = [i \in 1..h.len |-> h.nonce - h.len + i]
================================================================================
