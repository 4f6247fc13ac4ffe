------------------------------- MODULE MCOracle -------------------------------
(* Two disputes between the same two agents, in opposite roles.            *)
EXTENDS Oracle

CONSTANTS x, y, d1, d2

MCAgentOf        == [d \in Disputes |-> IF d = d1 THEN x ELSE y]
MCCounterpartyOf == [d \in Disputes |-> IF d = d1 THEN y ELSE x]
================================================================================
