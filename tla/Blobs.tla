------------------------------- MODULE Blobs --------------------------------
(***************************************************************************)
(* What the shared object pool and the object transport have in common: the*)
(* blobs of the snapshots, known by their hashes, and the processes that   *)
(* exchange them, a coordinator and its workers.                           *)
(***************************************************************************)
EXTENDS Naturals

CONSTANTS
  Content, KeyOf,    \* the blobs and their hashes, which need not be unique
  Worker, Coord      \* the processes

ASSUME BlobAssumption == KeyOf \in [Content -> Nat \ {0}] /\ Coord \notin Worker

Proc == Worker \cup {Coord}
=============================================================================
