------------------------------ MODULE MCObjects -----------------------------
(***************************************************************************)
(* The two ways snapshots travel between the processes of a search, for    *)
(* TLC: the pool shared on one host, and the transport over sealed memory. *)
(* A search uses one of them, and a behaviour is one of either.            *)
(***************************************************************************)
EXTENDS SharedPool, ObjectTransport, TLC

CONSTANTS r0, r1, r2, blobA, blobB, twinB, blobC, s0, s1, s2, w1, w2

VARIABLE mode

(* blobB and twinB have the same hash.                                     *)
MCKey == r0 :> 1 @@ r1 :> 2 @@ r2 :> 3 @@ blobB :> 4 @@ twinB :> 4 @@ blobA :> 5 @@ blobC :> 6

(* Three states of two nodes.                                               *)
MCRoots == s0 :> <<r0, r0>> @@ s1 :> <<r1, r0>> @@ s2 :> <<r1, r2>>
MCClosure == r0 :> <<r0>> @@ r1 :> <<r1, blobB>> @@ r2 :> <<r2, twinB>>
MCSuccessors == s0 :> {s1, s2} @@ s1 :> {} @@ s2 :> {}

MCBundle == {<<blobB>>, <<blobC, blobA>>, <<twinB>>}
MCFirst == {<<blobB>>, <<blobC, blobA>>}

MCInit == SPInit /\ OTInit /\ mode \in {"pool", "transport"}
MCNext ==
  \/ mode = "pool" /\ SPNext /\ UNCHANGED <<otvars, mode>>
  \/ mode = "transport" /\ OTNext /\ UNCHANGED <<spvars, mode>>

MCSpec == MCInit /\ [][MCNext]_<<spvars, otvars, mode>>
=============================================================================
