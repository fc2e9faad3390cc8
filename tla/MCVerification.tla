--------------------------- MODULE MCVerification ---------------------------
(* Verification for TLC: three validators and one other crawl share two    *)
(* places, one of them per host; a rule that comes and changes.            *)
EXTENDS Verification

MCCrawls == {"v1", "v2", "v3", "miner"}
=============================================================================
