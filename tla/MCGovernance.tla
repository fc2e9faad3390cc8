---------------------------- MODULE MCGovernance ----------------------------
(* Governance for TLC: three proposals for one sector, channels of one     *)
(* event, a voting period of one block and a height that may go back.      *)
EXTENDS Governance
=============================================================================
