---------------------------- MODULE MCStateStore ----------------------------
(* A small instance of StateStore for TLC.                                  *)
EXTENDS StateStore, TLC

CONSTANTS d1, d2, d3, c1, c2

(* d3 has the hash of d1 and fills the queue by itself; otherwise two       *)
(* snapshots may be pending at once.                                        *)
MCHash == d1 :> 1 @@ d2 :> 2 @@ d3 :> 1
MCSize == d1 :> 1 @@ d2 :> 1 @@ d3 :> 2

(* The callers are interchangeable.                                         *)
Symmetry == Permutations({c1, c2})
=============================================================================
