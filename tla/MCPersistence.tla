--------------------------- MODULE MCPersistence ----------------------------
(* A small instance of the two stores for TLC.                              *)
EXTENDS Persistence, TLC

CONSTANTS d1, d2, m1

MCHash == d1 :> 1 @@ d2 :> 2
MCKey == m1 :> 1

(* One system state of two snapshots.                                       *)
MCRoots == m1 :> {d1, d2}
=============================================================================
