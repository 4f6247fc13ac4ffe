------------------------------ MODULE EventIndex ------------------------------
(***************************************************************************)
(* What an index of a chain's events promises its readers: it holds events *)
(* of the chain and no others, an event that was indexed stays indexed,    *)
(* and events enter it one or several at a time in no particular order.    *)
(* It does not promise that every event is there.                          *)
(***************************************************************************)
VARIABLES
    committed,      \* events of successful transactions
    indexed         \* events the index holds

evars == <<committed, indexed>>

EInit == committed = {} /\ indexed = {}

Commit ==
    /\ committed \subseteq committed' /\ committed' # committed
    /\ UNCHANGED indexed

Index ==
    /\ indexed' \subseteq committed /\ indexed \subseteq indexed'
    /\ indexed' # indexed
    /\ UNCHANGED committed

ENext == Commit \/ Index

ESpec == EInit /\ [][ENext]_evars
================================================================================
