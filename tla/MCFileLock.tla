----------------------------- MODULE MCFileLock -----------------------------
(* Two tracers in one directory, one of which starts two tracees.           *)
EXTENDS Tracees, TLC

CONSTANTS p1, p2

Two == {p1, p2}
One == {p1}

(* Bound: a behaviour in which a tracer is started again is about the lock  *)
(* alone and has no tracees, and while there are tracees no other tracer is *)
(* inside acquire or release.                                               *)
Narrow ==
  \A p \in Traced : at[p][1] # "lock" \/ (\E i \in Index : child[p][i] # "none") =>
    \A q \in Tracer : runs[q] <= 1 /\ (q # p => pc[q] \notin Busy)
MSpec == TInit /\ [][TNext /\ Narrow']_vars
=============================================================================
