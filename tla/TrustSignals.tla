------------------------------ MODULE TrustSignals ------------------------------
(***************************************************************************)
(* The oracle's ATOM Engine bridge: a timer that builds a trust signal,    *)
(* numbers it from a counter in memory, reads the slot, sends and waits.   *)
(* Ticks of the timer overlap; a failed submission is logged and its       *)
(* number is not used again.  The bridge program is external.              *)
(***************************************************************************)
EXTENDS Integers, Sequences

CONSTANTS MaxSignals, MaxStarts    \* bounds: signals built, processes started

VARIABLES
    running,      \* the oracle process is up
    sequence,     \* AtomEngineSubmitter.sequence
    submissions,  \* submitTrustSignal calls under way: number and phase
    published,    \* the numbers of the transactions that landed, in order
    starts, built \* bounded counters

vars == <<running, sequence, submissions, published, starts, built>>

FIRST_SEQUENCE == 255

Init ==
    /\ running = TRUE /\ sequence = FIRST_SEQUENCE
    /\ submissions = {} /\ published = <<>>
    /\ starts = 1 /\ built = 0

(* The interval fires: buildStubSignal takes the next number.              *)
Emit ==
    /\ running /\ built < MaxSignals
    /\ sequence' = sequence + 1
    /\ submissions' = submissions \cup {[id |-> built, number |-> sequence', phase |-> "getSlot"]}
    /\ built' = built + 1
    /\ UNCHANGED <<running, published, starts>>

Ended(s) == submissions' = submissions \ {s}

(* getSlot answers; the transaction is built and sent.                     *)
ReadSlot(s) ==
    /\ s.phase = "getSlot"
    /\ submissions' = (submissions \ {s}) \cup {[s EXCEPT !.phase = "sendTransaction"]}
    /\ UNCHANGED <<running, sequence, published, starts, built>>

Land(s) ==
    /\ s.phase = "sendTransaction"
    /\ Ended(s) /\ published' = Append(published, s.number)
    /\ UNCHANGED <<running, sequence, starts, built>>

(* getSlot or sendTransaction throws, or the transaction expires.          *)
Fail(s) ==
    /\ Ended(s)
    /\ UNCHANGED <<running, sequence, published, starts, built>>

(* The process ends: what was sent may still land.                         *)
Crash ==
    /\ running /\ starts < MaxStarts
    /\ running' = FALSE
    /\ submissions' = {s \in submissions : s.phase = "sendTransaction"}
    /\ UNCHANGED <<sequence, published, starts, built>>

(* A new process constructs its submitter, which starts counting over.     *)
Start ==
    /\ ~running
    /\ running' = TRUE /\ sequence' = FIRST_SEQUENCE
    /\ starts' = starts + 1
    /\ UNCHANGED <<submissions, published, built>>

Next ==
    \/ Emit \/ Crash \/ Start
    \/ \E s \in submissions : ReadSlot(s) \/ Land(s) \/ Fail(s)

Spec == Init /\ [][Next]_vars

--------------------------------------------------------------------------------
(* atom-engine-submitter.ts:20 says of a signal's sequence: "monotonically *)
(* increasing per oracle keypair + domain".  The number a signal is built  *)
(* with is past every number this oracle has published.                    *)
NumbersIncrease ==
    [][built' # built => \A i \in DOMAIN published : published[i] < sequence']_vars
================================================================================
