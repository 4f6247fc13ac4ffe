------------------------------- MODULE MCIndexer -------------------------------
(* Two agents, one whose account has another schema version; one of them   *)
(* is updated alone or with the other in one transaction; one escrow.      *)
EXTENDS IndexerProperties

CONSTANTS a, b

MCUpdated == {<<a>>, <<b, a>>}
================================================================================
