----------------------------- MODULE MCFrontier -----------------------------
(***************************************************************************)
(* Small programs for TLC.  Each state has at most two successors, which   *)
(* may coincide (two actions that lead to the same state).                 *)
(***************************************************************************)
EXTENDS Frontier, TLC

CONSTANTS s1, s2, s3, s4, s5, s6, w1, w2

MCWorkers == {w1, w2}
Symmetry == Permutations(MCWorkers)

SixStates == {s1, s2, s3, s4, s5, s6}

(* Two ways to s5, the longer of which ends at the depth limit: the shorter *)
(* one may arrive while s5 is being probed, and s6 is one state more than   *)
(* the frontier holds.  A chain beyond the limit.  A loop with a doubled    *)
(* edge.                                                                    *)
Programs ==
  {s1 :> <<s2, s3>> @@ s2 :> <<s4>> @@ s3 :> <<s5>> @@ s4 :> <<s5>> @@ s5 :> <<s6>> @@ s6 :> <<>>,
   s1 :> <<s2>> @@ s2 :> <<s3>> @@ s3 :> <<s4>> @@ s4 :> <<s5>> @@ s5 :> <<>> @@ s6 :> <<>>,
   s1 :> <<s2, s2>> @@ s2 :> <<s3>> @@ s3 :> <<s1>> @@ s4 :> <<>> @@ s5 :> <<>> @@ s6 :> <<>>}

(* A free choice, which includes every order of Dfs, and layers.            *)
FreeOrBfs == {"Priority", "Bfs"}

(* run_parallel admits the one initial state.                               *)
RootOnly == {<<s1, 0>>}
=============================================================================
