----------------------------- MODULE EscrowPromise -----------------------------
(***************************************************************************)
(* What the escrow program promises the two parties of a pact, without     *)
(* saying how: their money goes in while the pact is open, stays put once  *)
(* it is committed, and comes out again all at once, to the two of them    *)
(* and nobody else but the treasury, whose share is at most a quarter of   *)
(* one per cent of it and only out of a committed pact.                    *)
(***************************************************************************)
EXTENDS Integers

CONSTANTS
    Pacts,
    People,
    Treasury    \* not one of the people

VARIABLES
    phase,      \* per pact: "none", "open", "committed" or "settled"
    parties,    \* per pact: the two people it is between ({} without a pact)
    held,       \* per pact: what the two of them are owed
    purse       \* what each of the people and the treasury own

pvars == <<phase, parties, held, purse>>

Owners    == People \cup {Treasury}
Gained(h) == purse'[h] - purse[h]

PInit ==
    /\ phase   = [p \in Pacts |-> "none"]
    /\ parties = [p \in Pacts |-> {}]
    /\ held    = [p \in Pacts |-> 0]
    /\ purse \in [Owners -> Nat]
    /\ purse[Treasury] = 0

--------------------------------------------------------------------------------
Open(p) ==
    /\ phase[p] = "none"
    /\ phase' = [phase EXCEPT ![p] = "open"]
    /\ \E a, b \in People : a # b /\ parties' = [parties EXCEPT ![p] = {a, b}]
    /\ UNCHANGED <<held, purse>>

(* What one of the parties pays, the pact holds.                           *)
Contribute(p) ==
    /\ phase[p] = "open"
    /\ \E a \in parties[p] :
         /\ Gained(a) <= 0 /\ purse'[a] >= 0
         /\ \A h \in Owners \ {a} : Gained(h) = 0
         /\ held' = [held EXCEPT ![p] = @ - Gained(a)]
    /\ UNCHANGED <<phase, parties>>

Commit(p) ==
    /\ phase[p] = "open" /\ held[p] > 0
    /\ phase' = [phase EXCEPT ![p] = "committed"]
    /\ UNCHANGED <<parties, held, purse>>

Settle(p) ==
    /\ held[p] > 0
    /\ phase[p] \in {"open", "committed"}
    /\ phase' = [phase EXCEPT ![p] = "settled"]
    /\ held' = [held EXCEPT ![p] = 0]
    /\ \E a, b \in parties[p] :
         /\ a # b
         /\ \A h \in {a, b, Treasury} : Gained(h) >= 0
         /\ \A h \in Owners \ {a, b, Treasury} : Gained(h) = 0
         /\ Gained(a) + Gained(b) + Gained(Treasury) = held[p]
    /\ 400 * Gained(Treasury) <= held[p]
    /\ phase[p] = "open" => Gained(Treasury) = 0
    /\ UNCHANGED parties

(* A pact that holds nothing can be forgotten.                             *)
Forget(p) ==
    /\ held[p] = 0
    /\ phase[p] \in {"open", "settled"}
    /\ phase' = [phase EXCEPT ![p] = "none"]
    /\ parties' = [parties EXCEPT ![p] = {}]
    /\ UNCHANGED <<held, purse>>

(* People may spend money elsewhere.                                       *)
Spend ==
    /\ \E a \in People :
         /\ Gained(a) < 0 /\ purse'[a] >= 0
         /\ \A h \in Owners \ {a} : Gained(h) = 0
    /\ UNCHANGED <<phase, parties, held>>

PNext ==
    \/ \E p \in Pacts :
         Open(p) \/ Contribute(p) \/ Commit(p) \/ Settle(p) \/ Forget(p)
    \/ Spend

PSpec == PInit /\ [][PNext]_pvars
================================================================================
