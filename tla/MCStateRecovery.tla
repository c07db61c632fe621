-------------------------- MODULE MCStateRecovery --------------------------
(* Small instances of StateRecovery for TLC: MCStateRecovery.cfg explores   *)
(* every pair of a crash, a damaged tree and a change of release;           *)
(* MCTornBaseline.cfg a removal of the baseline that is cut short.          *)
EXTENDS StateRecovery
=============================================================================
