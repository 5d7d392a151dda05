-------------------------- MODULE MCParallelSearch --------------------------
(***************************************************************************)
(* Small programs for the parallel explorer.                               *)
(***************************************************************************)
EXTENDS ParallelSearch, TLC

CONSTANTS s1, s2, s3, w1, w2

MCWorkers == {w1, w2}
ThreeStates == {s1, s2, s3}

(* A fork that joins in a terminal state, and a loop.                       *)
Fork == s1 :> <<s2, s3>> @@ s2 :> <<s3>> @@ s3 :> <<>>
Loop == s1 :> <<s2>> @@ s2 :> <<s3, s1>> @@ s3 :> <<>>
MCGraphs == {Fork, Loop}

RootOnly == {<<s1, 0>>}

MCBadSets == {{}, {s1}, {s3}}

(* The fork keeps both workers busy at once, and the first loss ends the    *)
(* search; on the loop a state is retried and what needs no execution is    *)
(* completed by the coordinator.                                            *)
Forking == [retries |-> 0, shared |-> FALSE]
Durable == [retries |-> 1, shared |-> TRUE]
MCOptions == {Forking, Durable}

MCInit ==
  /\ PInit
  /\ \/ graph = Fork /\ options = Forking /\ policy = "Dfs"
     \/ graph = Loop /\ options = Durable /\ policy = "Bfs" /\ s3 \notin bad

MCSpec == MCInit /\ [][PNext]_pvars /\ Fairness
=============================================================================
