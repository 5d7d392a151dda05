--------------------------- MODULE FrontierProofs ---------------------------
(***************************************************************************)
(* Proofs about the search frontier, for every program, limit, policy and  *)
(* set of workers.                                                         *)
(***************************************************************************)
EXTENDS FrontierSteps, FiniteSetTheorems

-----------------------------------------------------------------------------
(* What the worklist holds, as a set.                                      *)

-----------------------------------------------------------------------------
(* update() keeps the indexes in their types and installs the new phases,   *)
(* depths and sequences.                                                    *)
LEMMA UpdateEffect ==
  ASSUME TypeOK, NEW S \in SUBSET State,
         NEW ph \in [State -> Phases \cup {"Absent"}],
         NEW dp \in [State -> 0..Limit], NEW sq \in [State -> Nat],
         Update(S, ph, dp, sq)
  PROVE  /\ phase' = ph /\ depth' = dp /\ sequence' = sq
         /\ pending' \subseteq Nat \X State
         /\ bfs_pending' \subseteq (0..Limit) \X Nat \X State
         /\ active_layers' \in [0..Limit -> Int]
         /\ phase_counts' \in [Phases -> Int]
<1>1. \A A \in SUBSET S : Cardinality(A) \in Nat
  BY FrontierAssumption, FS_Subset, FS_CardinalityType
<1>2. phase' = ph /\ depth' = dp /\ sequence' = sq
  BY DEF Update
<1>3. pending' \subseteq Nat \X State
  BY DEF Update, TypeOK
<1>4. bfs_pending' \subseteq (0..Limit) \X Nat \X State
  BY DEF Update, TypeOK
<1>5. active_layers' \in [0..Limit -> Int]
  <2>1. CASE policy = "Bfs"
    <3>1. \A l \in 0..Limit :
            /\ Cardinality({s \in S : Active(phase[s]) /\ depth[s] = l}) \in Nat
            /\ Cardinality({s \in S : Active(ph[s]) /\ dp[s] = l}) \in Nat
            /\ active_layers[l] \in Int
      BY <1>1, Zenon DEF TypeOK
    <3>2. active_layers' = [l \in 0..Limit |-> active_layers[l]
            - Cardinality({s \in S : Active(phase[s]) /\ depth[s] = l})
            + Cardinality({s \in S : Active(ph[s]) /\ dp[s] = l})]
      BY <2>1 DEF Update
    <3>3. \A l \in 0..Limit : active_layers[l]
            - Cardinality({s \in S : Active(phase[s]) /\ depth[s] = l})
            + Cardinality({s \in S : Active(ph[s]) /\ dp[s] = l}) \in Int
      BY <3>1
    <3>4. QED
      BY <3>2, <3>3, Zenon
  <2>2. CASE policy # "Bfs"
    BY <2>2 DEF Update, TypeOK
  <2>3. QED
    BY <2>1, <2>2
<1>6. phase_counts' \in [Phases -> Int]
  <2>1. \A p \in Phases :
          /\ Cardinality({s \in S : phase[s] = p}) \in Nat
          /\ Cardinality({s \in S : ph[s] = p}) \in Nat
          /\ phase_counts[p] \in Int
    BY <1>1 DEF TypeOK
  <2>2. \A p \in Phases :
          phase_counts[p] - Cardinality({s \in S : phase[s] = p})
            + Cardinality({s \in S : ph[s] = p}) \in Int
    BY <2>1
  <2>3. phase_counts' = [p \in Phases |-> phase_counts[p]
          - Cardinality({s \in S : phase[s] = p}) + Cardinality({s \in S : ph[s] = p})]
    BY DEF Update
  <2>4. QED
    BY <2>2, <2>3
<1>7. QED
  BY <1>2, <1>3, <1>4, <1>5, <1>6

(* Replacing the members of P inside S by those of Q changes the count by   *)
(* the difference of the two parts.                                         *)
LEMMA CountReplaced ==
  ASSUME NEW S \in SUBSET State, NEW P \in SUBSET State, NEW Q \in SUBSET State,
         P \ S = Q \ S
  PROVE  Cardinality(Q) = Cardinality(P) - Cardinality(P \cap S) + Cardinality(Q \cap S)
<1> DEFINE R == P \ S
<1>1. /\ IsFiniteSet(R) /\ IsFiniteSet(P \cap S) /\ IsFiniteSet(Q \cap S)
      /\ Cardinality(R) \in Nat /\ Cardinality(P \cap S) \in Nat
      /\ Cardinality(Q \cap S) \in Nat
  BY FrontierAssumption, FS_Subset, FS_CardinalityType
<1>2. /\ R \cap (P \cap S) = {} /\ R \cup (P \cap S) = P
      /\ R \cap (Q \cap S) = {} /\ R \cup (Q \cap S) = Q
  OBVIOUS
<1>3. Cardinality({}) = 0
  BY FS_EmptySet
<1>4. Cardinality(P) = Cardinality(R) + Cardinality(P \cap S) - 0
  BY <1>1, <1>2, <1>3, FS_Union
<1>5. Cardinality(Q) = Cardinality(R) + Cardinality(Q \cap S) - 0
  BY <1>1, <1>2, <1>3, FS_Union
<1>6. QED
  BY <1>1, <1>4, <1>5

(* update() keeps the indexes exact when it leaves the nodes outside S      *)
(* alone.                                                                   *)
LEMMA UpdateIndexed ==
  ASSUME TypeOK, Indexed, NEW S \in SUBSET State,
         NEW ph \in [State -> Phases \cup {"Absent"}],
         NEW dp \in [State -> 0..Limit], NEW sq \in [State -> Nat],
         \A s \in State \ S : ph[s] = phase[s] /\ dp[s] = depth[s] /\ sq[s] = sequence[s],
         Update(S, ph, dp, sq)
  PROVE  Indexed'
<1>1. phase' = ph /\ depth' = dp /\ sequence' = sq /\ policy' = policy
  BY DEF Update
<1> DEFINE out == {s \in S : phase[s] = "Pending"}
           in  == {s \in S : ph[s] = "Pending"}
           old == {s \in State : phase[s] = "Pending"}
           new == {s \in State : ph[s] = "Pending"}
<1>2. new = (old \ out) \cup in
  OBVIOUS
<1>3. pending' = {<<sq[s], s>> : s \in new}
  <2>1. pending' = (pending \ {<<sequence[s], s>> : s \in out}) \cup {<<sq[s], s>> : s \in in}
    BY DEF Update
  <2>2. pending = {<<sequence[s], s>> : s \in old}
    BY DEF Indexed
  <2>3. pending \ {<<sequence[s], s>> : s \in out} = {<<sequence[s], s>> : s \in old \ out}
    BY <2>2
  <2>4. \A s \in old \ out : sq[s] = sequence[s]
    OBVIOUS
  <2>5. QED
    BY <1>2, <2>1, <2>3, <2>4
<1>4. ASSUME policy = "Bfs"
      PROVE  bfs_pending' = {<<dp[s], sq[s], s>> : s \in new}
  <2>1. bfs_pending' = (bfs_pending \ {<<depth[s], sequence[s], s>> : s \in out})
                          \cup {<<dp[s], sq[s], s>> : s \in in}
    BY <1>4 DEF Update
  <2>2. bfs_pending = {<<depth[s], sequence[s], s>> : s \in old}
    BY <1>4 DEF Indexed
  <2>3. bfs_pending \ {<<depth[s], sequence[s], s>> : s \in out}
          = {<<depth[s], sequence[s], s>> : s \in old \ out}
    BY <2>2
  <2>4. \A s \in old \ out : sq[s] = sequence[s] /\ dp[s] = depth[s]
    OBVIOUS
  <2>5. QED
    BY <1>2, <2>1, <2>3, <2>4
<1>5. ASSUME policy = "Bfs", NEW l \in 0..Limit
      PROVE  active_layers'[l] =
               Cardinality({s \in State : ph[s] \in {"Pending", "Inflight"} /\ dp[s] = l})
  <2> DEFINE P == {s \in State : phase[s] \in {"Pending", "Inflight"} /\ depth[s] = l}
             Q == {s \in State : ph[s] \in {"Pending", "Inflight"} /\ dp[s] = l}
  <2>1. P \ S = Q \ S
    OBVIOUS
  <2>2. Cardinality(Q) = Cardinality(P) - Cardinality(P \cap S) + Cardinality(Q \cap S)
    BY <2>1, CountReplaced, Zenon
  <2>3. /\ {s \in S : Active(phase[s]) /\ depth[s] = l} = P \cap S
        /\ {s \in S : Active(ph[s]) /\ dp[s] = l} = Q \cap S
    BY DEF Active
  <2>4. active_layers'[l] = active_layers[l] - Cardinality(P \cap S) + Cardinality(Q \cap S)
    <3>1. active_layers'[l] = active_layers[l]
            - Cardinality({s \in S : Active(phase[s]) /\ depth[s] = l})
            + Cardinality({s \in S : Active(ph[s]) /\ dp[s] = l})
      BY <1>5 DEF Update
    <3>2. QED
      BY <2>3, <3>1, Zenon
  <2>5. active_layers[l] = Cardinality(P)
    BY <1>5 DEF Indexed
  <2>6. QED
    BY <2>2, <2>4, <2>5
<1>6. ASSUME NEW p \in Phases
      PROVE  phase_counts'[p] = Cardinality({s \in State : ph[s] = p})
  <2> DEFINE P == {s \in State : phase[s] = p}
             Q == {s \in State : ph[s] = p}
  <2>1. P \ S = Q \ S
    OBVIOUS
  <2>2. Cardinality(Q) = Cardinality(P) - Cardinality(P \cap S) + Cardinality(Q \cap S)
    BY <2>1, CountReplaced
  <2>3. {s \in S : phase[s] = p} = P \cap S /\ {s \in S : ph[s] = p} = Q \cap S
    OBVIOUS
  <2>4. phase_counts'[p] = phase_counts[p] - Cardinality(P \cap S) + Cardinality(Q \cap S)
    BY <2>3, Zenon DEF Update
  <2>5. phase_counts[p] = Cardinality(P)
    BY Zenon DEF Indexed
  <2>6. QED
    BY <2>2, <2>4, <2>5
<1>7. QED
  BY <1>1, <1>3, <1>4, <1>5, <1>6 DEF Indexed

-----------------------------------------------------------------------------
(* An empty frontier has empty indexes.                                     *)
LEMMA InitBase == Init => Base
<1> SUFFICES ASSUME Init PROVE Base
  OBVIOUS
<1> USE DEF Init
<1>1. TypeOK
  <2>1. <<>> \in Seq(State) /\ <<>> \in Seq(State \X (0..Limit))
    OBVIOUS
  <2>2. 0 \in 0..Limit /\ 0 \in 0..MaxLeases
    BY FrontierAssumption
  <2>3. /\ graph \in Graphs /\ phase \in [State -> Phases \cup {"Absent"}]
        /\ depth \in [State -> 0..Limit] /\ sequence \in [State -> Nat]
        /\ ticket \in [State -> Tickets \cup {NoTicket}]
        /\ successors \in [State -> Seq(State)]
    BY <2>1, <2>2, Zenon
  <2>4. /\ active_layers \in [0..Limit -> Int] /\ phase_counts \in [Phases -> Int]
    OBVIOUS
  <2>5. QED
    BY <2>1, <2>2, <2>3, <2>4, Zenon DEF TypeOK
<1>2. Indexed
  <2>1. /\ {s \in State : phase[s] = "Pending"} = {}
        /\ \A l \in 0..Limit :
             {s \in State : phase[s] \in {"Pending", "Inflight"} /\ depth[s] = l} = {}
        /\ \A p \in Phases : {s \in State : phase[s] = p} = {}
    BY DEF Phases
  <2>2. Cardinality({}) = 0
    BY FS_EmptySet
  <2>3. QED
    BY <2>1, <2>2, Zenon DEF Indexed
<1>3. TicketsMatch /\ ResultsTrue /\ SequencesUnique
  BY DEF TicketsMatch, ResultsTrue, SequencesUnique, Known
<1>4. QED
  BY <1>1, <1>2, <1>3 DEF Base

(* The steps that leave every node and index alone keep Base.               *)
LEMMA BaseUnchanged ==
  ASSUME Base, TypeOK', UNCHANGED <<graph, policy, nodeVars, indexVars, next_sequence>>
  PROVE  Base'
<1> USE DEF nodeVars, indexVars
<1>1. Indexed'
  BY DEF Base, Indexed
<1>2. TicketsMatch' /\ ResultsTrue' /\ SequencesUnique'
  BY DEF Base, TicketsMatch, ResultsTrue, SequencesUnique, Known
<1>3. QED
  BY <1>1, <1>2 DEF Base

(* admit() touches no node before propagate() runs.                         *)
LEMMA AdmitBase ==
  ASSUME Base, NEW a \in Admissions, Admit(a[1], a[2])
  PROVE  Base'
<1>1. a \in State \X (0..Limit) /\ a = <<a[1], a[2]>>
  BY FrontierAssumption
<1>2. << <<a[1], a[2]>> >> \in Seq(State \X (0..Limit))
  BY <1>1
<1>3. TypeOK'
  BY <1>1, <1>2, Zenon DEF Base, Admit, TypeOK, nodeVars, indexVars, countVars
<1>4. QED
  BY <1>3, BaseUnchanged DEF Admit, countVars

(* The return of a call touches no node.                                    *)
LEMMA ReturnBase ==
  ASSUME Base, Return
  PROVE  Base'
<1>1. committed' \in Nat
  BY DEF Base, Return, TypeOK
<1>2. TypeOK'
  BY <1>1, Zenon DEF Base, Return, TypeOK, nodeVars, indexVars, histVars
<1>3. QED
  BY <1>2, BaseUnchanged DEF Return

(* An allocation failure only poisons the frontier.                         *)
LEMMA BadAllocBase ==
  ASSUME Base, BadAlloc
  PROVE  Base'
<1>1. /\ UNCHANGED <<graph, policy, nodeVars, indexVars, countVars, histVars>> /\ poisoned' = TRUE
      /\ call' = "none" /\ work' = <<>> /\ TypeOK
  BY DEF Base, BadAlloc
<1>2. TypeOK'
  <2>1. UNCHANGED <<graph, policy, phase, depth, sequence, ticket, successors, next_sequence,
                    next_lease, committed, requeued, pending, bfs_pending, active_layers,
                    phase_counts, roots, issued>>
    BY <1>1, Zenon DEF nodeVars, indexVars, countVars, histVars
  <2>2. work' \in Seq(State \X (0..Limit))
    BY <1>1
  <2>3. QED
    BY <1>1, <2>1, <2>2, Zenon DEF TypeOK
<1>3. QED
  BY <1>2, BaseUnchanged DEF BadAlloc, countVars

(* propagate() enters a new node in the indexes.                            *)
LEMMA InsertBase ==
  ASSUME Base, NEW s \in State, NEW d \in 0..Limit,
         Tail(work) \in Seq(State \X (0..Limit)),
         PropagateFrame, PropagateInsert(s, d)
  PROVE  Base'
<1> DEFINE ph == [phase EXCEPT ![s] = "Pending"]
           dp == [depth EXCEPT ![s] = d]
           sq == [sequence EXCEPT ![s] = next_sequence]
<1>1. TypeOK /\ Indexed
  BY DEF Base
<1>2. /\ ph \in [State -> Phases \cup {"Absent"}] /\ dp \in [State -> 0..Limit]
      /\ sq \in [State -> Nat]
  BY <1>1, Zenon DEF TypeOK, Phases
<1>3. \A x \in State :
        /\ ph[x] = IF x = s THEN "Pending" ELSE phase[x]
        /\ dp[x] = IF x = s THEN d ELSE depth[x]
        /\ sq[x] = IF x = s THEN next_sequence ELSE sequence[x]
  BY <1>1 DEF TypeOK
<1>4. Update({s}, ph, dp, sq)
  BY DEF PropagateInsert
<1>5. /\ work' = Tail(work) /\ next_sequence' = next_sequence + 1
      /\ phase[s] = "Absent" /\ next_sequence \in Nat
  BY <1>1 DEF PropagateInsert, Known, TypeOK
<1> HIDE DEF ph, dp, sq
<1>6. {s} \in SUBSET State
  OBVIOUS
<1>7. /\ phase' = ph /\ depth' = dp /\ sequence' = sq
      /\ pending' \subseteq Nat \X State
      /\ bfs_pending' \subseteq (0..Limit) \X Nat \X State
      /\ active_layers' \in [0..Limit -> Int]
      /\ phase_counts' \in [Phases -> Int]
  BY <1>1, <1>2, <1>4, <1>6, UpdateEffect, Zenon
<1>8. Indexed'
  <2>1. \A x \in State \ {s} : ph[x] = phase[x] /\ dp[x] = depth[x] /\ sq[x] = sequence[x]
    BY <1>3
  <2>2. QED
    BY <1>1, <1>2, <1>4, <1>6, <2>1, UpdateIndexed, Zenon
<1>9. TypeOK'
  <2>1. next_sequence' \in Nat
    BY <1>5
  <2>2. QED
    BY <1>1, <1>2, <1>5, <1>7, <2>1, Zenon DEF TypeOK, PropagateFrame
<1>10. TicketsMatch'
  BY <1>3, <1>5, <1>7, Zenon DEF Base, TicketsMatch, PropagateFrame
<1>11. ResultsTrue'
  BY <1>3, <1>5, <1>7, Zenon DEF Base, ResultsTrue, PropagateFrame
<1>12. SequencesUnique'
  <2>1. \A x \in State : sequence[x] \in Nat
    BY <1>1 DEF TypeOK
  <2>2. \A x \in State : /\ phase'[x] # "Absent" <=> x = s \/ x \in Known
                         /\ sequence'[x] = IF x = s THEN next_sequence ELSE sequence[x]
    BY <1>3, <1>7 DEF Known
  <2>3. \A x \in Known : x # s /\ sequence[x] < next_sequence
    BY <1>5 DEF Base, SequencesUnique, Known
  <2>4. \A x \in State : phase'[x] # "Absent" => sequence'[x] < next_sequence'
    <3>1. next_sequence' = next_sequence + 1 /\ next_sequence \in Nat
      BY <1>5
    <3>2. QED
      BY <2>1, <2>2, <2>3, <3>1
  <2>5. ASSUME NEW x \in State, NEW y \in State, phase'[x] # "Absent", phase'[y] # "Absent",
               sequence'[x] = sequence'[y]
        PROVE  x = y
    <3>1. CASE x \in Known /\ y \in Known
      <4>1. sequence[x] = sequence[y]
        BY <2>2, <2>3, <2>5, <3>1
      <4>2. QED
        BY <3>1, <4>1, Zenon DEF Base, SequencesUnique
    <3>2. CASE x = s \/ y = s
      BY <2>1, <2>2, <2>3, <2>5, <3>2
    <3>3. QED
      BY <2>2, <2>5, <3>1, <3>2
  <2>6. QED
    BY <2>4, <2>5 DEF SequencesUnique, Known
<1>13. QED
  BY <1>8, <1>9, <1>10, <1>11, <1>12 DEF Base

(* propagate() on a known entry changes no node.                            *)
LEMMA DuplicateBase ==
  ASSUME Base, NEW s \in State, NEW d \in 0..Limit,
         Tail(work) \in Seq(State \X (0..Limit)),
         PropagateFrame, PropagateDuplicate(s, d)
  PROVE  Base'
<1>1. TypeOK'
  BY Zenon DEF Base, TypeOK, PropagateFrame, PropagateDuplicate, indexVars
<1>2. QED
  BY <1>1, BaseUnchanged DEF PropagateFrame, PropagateDuplicate, nodeVars

(* propagate() moves an improved node, requeued when it was cut, to its new *)
(* place in the indexes.                                                    *)
LEMMA ImproveBase ==
  ASSUME Base, NEW s \in State, NEW d \in 0..Limit,
         Tail(work) \in Seq(State \X (0..Limit)),
         PropagateFrame, PropagateImprove(s, d)
  PROVE  Base'
<1> DEFINE ph == [phase EXCEPT ![s] = IF @ = "DepthCut" THEN "Pending" ELSE @]
           dp == [depth EXCEPT ![s] = d]
<1>1. TypeOK /\ Indexed /\ sequence \in [State -> Nat]
  BY Zenon DEF Base, TypeOK
<1>2. /\ ph \in [State -> Phases \cup {"Absent"}] /\ dp \in [State -> 0..Limit]
  BY <1>1, Zenon DEF TypeOK, Phases
<1>3. \A x \in State :
        /\ ph[x] = IF x = s /\ phase[s] = "DepthCut" THEN "Pending" ELSE phase[x]
        /\ dp[x] = IF x = s THEN d ELSE depth[x]
  BY <1>1, Zenon DEF TypeOK
<1>4. Update({s}, ph, dp, sequence)
  BY DEF PropagateImprove
<1>5. /\ work' = Pushed(s, d) \o Tail(work) /\ next_sequence' = next_sequence
      /\ phase[s] # "Absent" /\ d < depth[s] /\ depth[s] \in 0..Limit
  BY <1>1 DEF PropagateImprove, Known, TypeOK
<1> HIDE DEF ph, dp
<1>6. {s} \in SUBSET State
  OBVIOUS
<1>7. /\ phase' = ph /\ depth' = dp /\ sequence' = sequence
      /\ pending' \subseteq Nat \X State
      /\ bfs_pending' \subseteq (0..Limit) \X Nat \X State
      /\ active_layers' \in [0..Limit -> Int]
      /\ phase_counts' \in [Phases -> Int]
  BY <1>1, <1>2, <1>4, <1>6, UpdateEffect, Zenon
<1>8. Indexed'
  <2>1. \A x \in State \ {s} :
          ph[x] = phase[x] /\ dp[x] = depth[x] /\ sequence[x] = sequence[x]
    BY <1>3
  <2>2. QED
    BY <1>1, <1>2, <1>4, <1>6, <2>1, UpdateIndexed, Zenon
<1>9. work' \in Seq(State \X (0..Limit))
  BY <1>5, PushedEntries, RangeConcat
<1>10. TypeOK'
  BY <1>1, <1>2, <1>5, <1>7, <1>9, Zenon DEF TypeOK, PropagateFrame
<1>11. TicketsMatch'
  <2>1. \A x \in State : ticket[x] # NoTicket => ticket[x].depth \in 0..Limit
    BY <1>1 DEF TypeOK, Tickets
  <2>2. \A x \in State : depth'[x] <= depth[x] /\ depth[x] \in 0..Limit /\ depth'[x] \in 0..Limit
    <3>1. \A x \in State : depth[x] \in 0..Limit
      BY <1>1 DEF TypeOK
    <3>2. \A x \in State : depth'[x] = IF x = s THEN d ELSE depth[x]
      BY <1>3, <1>7
    <3>3. d < depth[s] /\ d \in 0..Limit
      BY <1>5
    <3>4. \A x \in State : x = s \/ depth'[x] = depth[x]
      BY <3>2
    <3>5. QED
      BY <3>1, <3>2, <3>3, <3>4
  <2>3. \A x \in State : phase'[x] = "Inflight" <=> phase[x] = "Inflight"
    BY <1>3, <1>7
  <2>4. ticket' = ticket
    BY DEF PropagateFrame
  <2>5. QED
    BY <2>1, <2>2, <2>3, <2>4 DEF Base, TicketsMatch
<1>12. ResultsTrue'
  <2>1. \A x \in State : depth[x] \in 0..Limit
    BY <1>1 DEF TypeOK
  <2>2. ASSUME NEW x \in State, phase'[x] = "Expanded"
        PROVE  depth'[x] < Limit /\ successors'[x] = graph'[x]
    <3>1. phase[x] = "Expanded" /\ depth'[x] = (IF x = s THEN d ELSE depth[x])
      BY <1>3, <1>7, <2>2
    <3>2. depth[x] < Limit /\ successors[x] = graph[x]
      BY <3>1 DEF Base, ResultsTrue
    <3>3. depth'[x] < Limit
      BY <1>5, <2>1, <3>1, <3>2, FrontierAssumption
    <3>4. QED
      BY <3>2, <3>3 DEF PropagateFrame
  <2>3. ASSUME NEW x \in State, phase'[x] = "DepthCut"
        PROVE  depth'[x] = Limit
    BY <1>3, <1>7, <2>3, Zenon DEF Base, ResultsTrue
  <2>4. ASSUME NEW x \in State, phase'[x] = "Terminal"
        PROVE  graph'[x] = <<>>
    BY <1>3, <1>7, <2>4, Zenon DEF Base, ResultsTrue, PropagateFrame
  <2>5. QED
    BY <2>2, <2>3, <2>4 DEF ResultsTrue
<1>13. SequencesUnique'
  BY <1>3, <1>5, <1>7, Zenon DEF Base, SequencesUnique, Known
<1>14. QED
  BY <1>8, <1>10, <1>11, <1>12, <1>13 DEF Base

(* One round of the loop of propagate().                                    *)
LEMMA PropagateBase ==
  ASSUME Base, Propagate
  PROVE  Base'
<1>1. work # <<>> /\ PropagateFrame
  BY DEF Propagate, PropagateFrame, histVars
<1>2. /\ Head(work)[1] \in State /\ Head(work)[2] \in 0..Limit
      /\ Tail(work) \in Seq(State \X (0..Limit))
  BY <1>1, WorkHead DEF Base
<1>3. \/ PropagateInsert(Head(work)[1], Head(work)[2])
      \/ PropagateDuplicate(Head(work)[1], Head(work)[2])
      \/ PropagateImprove(Head(work)[1], Head(work)[2])
  BY DEF Propagate
<1>4. QED
  BY <1>1, <1>2, <1>3, InsertBase, DuplicateBase, ImproveBase

(* lease() gives the selected node a ticket of its own.                     *)
LEMMA LeaseBase ==
  ASSUME Base, NEW w \in Worker, Lease(w)
  PROVE  Base'
<1>1. PICK s \in Selectable :
        /\ Update({s}, [phase EXCEPT ![s] = "Inflight"], depth, sequence)
        /\ ticket' = [ticket EXCEPT ![s] = NewTicket(s, w)]
        /\ issued' = issued \cup {NewTicket(s, w)}
  BY Zenon DEF Lease
<1> DEFINE ph == [phase EXCEPT ![s] = "Inflight"]
           t == NewTicket(s, w)
<1>2. /\ TypeOK /\ Indexed /\ depth \in [State -> 0..Limit]
      /\ sequence \in [State -> Nat] /\ ticket \in [State -> Tickets \cup {NoTicket}]
  BY Zenon DEF Base, TypeOK
<1>3. s \in State /\ phase[s] = "Pending"
  BY <1>2, SelectablePending
<1>4. /\ ph \in [State -> Phases \cup {"Absent"}]
      /\ \A x \in State : ph[x] = IF x = s THEN "Inflight" ELSE phase[x]
  BY <1>2, <1>3 DEF TypeOK, Phases
<1>5. next_lease' = next_lease + 1 /\ next_lease' \in 1..MaxLeases
  BY <1>2, FrontierAssumption DEF Lease, TypeOK
<1>6. /\ t \in Tickets /\ t # NoTicket /\ t.state = s /\ t.depth = depth[s]
      /\ t.may_expand = (t.depth < Limit)
  <2>1. /\ next_lease + 1 \in 1..MaxLeases /\ depth[s] \in 0..Limit
        /\ (depth[s] < Limit) \in BOOLEAN
    BY <1>2, <1>3, <1>5
  <2>2. t \in Tickets
    BY <1>3, <2>1, Zenon DEF NewTicket, Tickets
  <2>3. t.state = s /\ t.depth = depth[s] /\ t.may_expand = (depth[s] < Limit)
    BY DEF NewTicket
  <2>4. QED
    BY <2>2, <2>3, FrontierAssumption
<1>7. /\ ticket' \in [State -> Tickets \cup {NoTicket}]
      /\ \A x \in State : ticket'[x] = IF x = s THEN t ELSE ticket[x]
      /\ issued' \subseteq Tickets
  BY <1>1, <1>2, <1>3, <1>6 DEF TypeOK
<1>8. UNCHANGED <<graph, policy, successors, next_sequence, committed, requeued, call, work,
                  roots, poisoned>>
  BY DEF Lease, callVars
<1> HIDE DEF ph, t
<1>9. {s} \in SUBSET State /\ Update({s}, ph, depth, sequence)
  BY <1>1, <1>3 DEF ph
<1>10. /\ phase' = ph /\ depth' = depth /\ sequence' = sequence
       /\ pending' \subseteq Nat \X State
       /\ bfs_pending' \subseteq (0..Limit) \X Nat \X State
       /\ active_layers' \in [0..Limit -> Int]
       /\ phase_counts' \in [Phases -> Int]
  BY <1>2, <1>4, <1>9, UpdateEffect, Zenon
<1>11. Indexed'
  <2>1. \A x \in State \ {s} :
          ph[x] = phase[x] /\ depth[x] = depth[x] /\ sequence[x] = sequence[x]
    BY <1>4
  <2>2. QED
    BY <1>2, <1>4, <1>9, <2>1, UpdateIndexed, Zenon
<1>12. TypeOK'
  <2>1. next_lease' \in 0..MaxLeases
    BY <1>5
  <2>2. QED
    BY <1>2, <1>4, <1>7, <1>8, <1>10, <2>1, Zenon DEF TypeOK
<1>13. TicketsMatch'
  <2>1. \A x \in State : depth[x] \in Int
    BY <1>2
  <2>2. TicketsMatch
    BY DEF Base
  <2>3. QED
    BY <1>3, <1>4, <1>6, <1>7, <1>10, <2>1, <2>2, SMTT(30) DEF TicketsMatch
<1>14. ResultsTrue' /\ SequencesUnique'
  BY <1>3, <1>4, <1>8, <1>10, Zenon DEF Base, ResultsTrue, SequencesUnique, Known
<1>15. QED
  BY <1>11, <1>12, <1>13, <1>14 DEF Base

(* worker_lost() takes the tickets of one worker back.                      *)
LEMMA WorkerLostBase ==
  ASSUME Base, NEW w \in Worker, WorkerLost(w)
  PROVE  Base'
<1> DEFINE H == Held(w)
           ph == [s \in State |-> IF s \in H THEN "Pending" ELSE phase[s]]
<1>1. /\ TypeOK /\ Indexed /\ depth \in [State -> 0..Limit]
      /\ sequence \in [State -> Nat] /\ ticket \in [State -> Tickets \cup {NoTicket}]
  BY Zenon DEF Base, TypeOK
<1>2. H \in SUBSET State /\ \A s \in H : phase[s] = "Inflight"
  BY DEF Held, Base, TicketsMatch
<1>3. /\ ph \in [State -> Phases \cup {"Absent"}]
      /\ \A x \in State : ph[x] = IF x \in H THEN "Pending" ELSE phase[x]
  BY <1>1 DEF TypeOK, Phases
<1>4. /\ ticket' \in [State -> Tickets \cup {NoTicket}]
      /\ \A x \in State : ticket'[x] = IF x \in H THEN NoTicket ELSE ticket[x]
  BY <1>1 DEF WorkerLost
<1>5. requeued' \in Nat
  <2>1. Cardinality(H) \in Nat
    BY <1>2, FrontierAssumption, FS_Subset, FS_CardinalityType
  <2>2. QED
    BY <1>1, <2>1 DEF WorkerLost, TypeOK
<1>6. /\ Update(H, ph, depth, sequence)
      /\ UNCHANGED <<graph, policy, successors, next_sequence, next_lease, committed, call, work,
                     roots, issued, poisoned>>
  BY Zenon DEF WorkerLost, callVars, histVars
<1> HIDE DEF ph, H
<1>7. /\ phase' = ph /\ depth' = depth /\ sequence' = sequence
      /\ pending' \subseteq Nat \X State
      /\ bfs_pending' \subseteq (0..Limit) \X Nat \X State
      /\ active_layers' \in [0..Limit -> Int]
      /\ phase_counts' \in [Phases -> Int]
  BY <1>1, <1>2, <1>3, <1>6, UpdateEffect, Zenon
<1>8. Indexed'
  <2>1. \A x \in State \ H :
          ph[x] = phase[x] /\ depth[x] = depth[x] /\ sequence[x] = sequence[x]
    BY <1>3
  <2>2. QED
    BY <1>1, <1>2, <1>3, <1>6, <2>1, UpdateIndexed, Zenon
<1>9. TypeOK'
  BY <1>1, <1>3, <1>4, <1>5, <1>6, <1>7, Zenon DEF TypeOK
<1>10. TicketsMatch'
  <2>1. \A x \in State \ H : phase'[x] = phase[x] /\ ticket'[x] = ticket[x]
    BY <1>3, <1>4, <1>7
  <2>2. \A x \in H : phase'[x] = "Pending" /\ ticket'[x] = NoTicket
    BY <1>2, <1>3, <1>4, <1>7
  <2>3. TicketsMatch /\ UNCHANGED depth
    BY <1>7, Zenon DEF Base
  <2>4. QED
    BY <2>1, <2>2, <2>3, Zenon DEF TicketsMatch
<1>11. ResultsTrue' /\ SequencesUnique'
  BY <1>2, <1>3, <1>6, <1>7, Zenon DEF Base, ResultsTrue, SequencesUnique, Known
<1>12. QED
  BY <1>8, <1>9, <1>10, <1>11 DEF Base

(* commit() moves a leased node to the phase of its result.                 *)
LEMMA CommitBase ==
  ASSUME Base, NEW t \in issued, NEW kind \in Outcomes(t), Commit(t, kind, Published(t.state, kind))
  PROVE  Base'
<1> DEFINE s == t.state
           succ == Published(s, kind)
           ph == [phase EXCEPT ![s] = CommittedPhase(s, kind)]
<1>1. /\ TypeOK /\ Indexed /\ depth \in [State -> 0..Limit] /\ sequence \in [State -> Nat]
      /\ ticket \in [State -> Tickets \cup {NoTicket}] /\ successors \in [State -> Seq(State)]
  BY Zenon DEF Base, TypeOK
<1>2. Current(t)
  BY Zenon DEF Commit
<1>3. /\ s \in State /\ phase[s] = "Inflight" /\ ticket[s] = t /\ t # NoTicket
      /\ CommittedPhase(s, kind) \in Phases
      /\ kind = "Expanded" => depth[s] < Limit
      /\ kind = "Terminal" => graph[s] = <<>>
      /\ kind \in {"Expanded", "Terminal", "DepthCut", "ModelBudget", "Failure"}
  BY <1>2, OutcomeFacts
<1>4. succ \in Seq(State) /\ work' \in Seq(State \X (0..Limit))
  BY PublishedEntries
<1>5. /\ ph \in [State -> Phases \cup {"Absent"}]
      /\ \A x \in State : ph[x] = IF x = s THEN CommittedPhase(s, kind) ELSE phase[x]
  BY <1>1, <1>3 DEF TypeOK
<1>6. /\ ticket' \in [State -> Tickets \cup {NoTicket}]
      /\ \A x \in State : ticket'[x] = IF x = s THEN NoTicket ELSE ticket[x]
  BY <1>1, <1>3, Zenon DEF Commit
<1>7. /\ successors' \in [State -> Seq(State)]
      /\ \A x \in State : successors'[x] = IF x = s THEN succ ELSE successors[x]
  BY <1>1, <1>3, <1>4, Zenon DEF Commit, Published
<1>8. /\ Update({s}, ph, depth, sequence) /\ call' = "commit"
      /\ UNCHANGED <<graph, policy, next_sequence, next_lease, committed, requeued, roots, issued,
                     poisoned>>
  BY Zenon DEF Commit, countVars, histVars
<1>9. /\ kind = "Expanded" => succ = graph[s]
      /\ CommittedPhase(s, kind) = "Expanded" => kind = "Expanded"
      /\ CommittedPhase(s, kind) = "Terminal" => kind = "Terminal"
      /\ CommittedPhase(s, kind) = "DepthCut" => ~(depth[s] < Limit)
      /\ CommittedPhase(s, kind) # "Inflight"
  BY <1>3 DEF Published, CommittedPhase
<1> HIDE DEF s, succ, ph
<1>10. {s} \in SUBSET State
  BY <1>3
<1>11. /\ phase' = ph /\ depth' = depth /\ sequence' = sequence
       /\ pending' \subseteq Nat \X State
       /\ bfs_pending' \subseteq (0..Limit) \X Nat \X State
       /\ active_layers' \in [0..Limit -> Int]
       /\ phase_counts' \in [Phases -> Int]
  BY <1>1, <1>5, <1>8, <1>10, UpdateEffect, Zenon
<1>12. Indexed'
  <2>1. \A x \in State \ {s} :
          ph[x] = phase[x] /\ depth[x] = depth[x] /\ sequence[x] = sequence[x]
    BY <1>5
  <2>2. QED
    BY <1>1, <1>5, <1>8, <1>10, <2>1, UpdateIndexed, Zenon
<1>13. TypeOK'
  <2>1. call' \in {"none", "admit", "commit"}
    BY <1>8
  <2>2. QED
    BY <1>1, <1>4, <1>5, <1>6, <1>7, <1>8, <1>11, <2>1, Zenon DEF TypeOK
<1>14. TicketsMatch'
  <2>1. TicketsMatch
    BY DEF Base
  <2>2. /\ phase'[s] # "Inflight" /\ ticket'[s] = NoTicket
        /\ \A x \in State : x # s => phase'[x] = phase[x] /\ ticket'[x] = ticket[x]
        /\ UNCHANGED depth
    BY <1>3, <1>5, <1>6, <1>9, <1>11
  <2>3. QED
    BY <2>1, <2>2 DEF TicketsMatch
<1>15. ResultsTrue'
  <2>1. depth[s] \in 0..Limit /\ Limit \in Nat
    BY <1>1, <1>3, FrontierAssumption, Zenon
  <2>2. CommittedPhase(s, kind) = "DepthCut" => depth[s] = Limit
    <3>1. ~(depth[s] < Limit) => depth[s] = Limit
      BY <2>1
    <3>2. QED
      BY <1>9, <3>1, Zenon
  <2>3. \A x \in State : x # s => phase'[x] = phase[x] /\ successors'[x] = successors[x]
    BY <1>5, <1>7, <1>11
  <2>4. phase'[s] = CommittedPhase(s, kind) /\ successors'[s] = succ
    BY <1>3, <1>5, <1>7, <1>11
  <2>5. QED
    BY <1>3, <1>8, <1>9, <1>11, <2>2, <2>3, <2>4, Zenon DEF Base, ResultsTrue
<1>16. SequencesUnique'
  <2>1. "Absent" \notin Phases
    BY DEF Phases
  <2>2. Known' = Known
    BY <1>3, <1>5, <1>11, <2>1, Zenon DEF Known
  <2>3. QED
    BY <1>8, <1>11, <2>2 DEF Base, SequencesUnique
<1>17. QED
  BY <1>12, <1>13, <1>14, <1>15, <1>16 DEF Base

(* Every step keeps the base invariant.                                     *)
LEMMA NextBase == Base /\ [Next]_vars => Base'
<1> SUFFICES ASSUME Base, [Next]_vars PROVE Base'
  OBVIOUS
<1>1. ASSUME NEW a \in Admissions, Admit(a[1], a[2]) PROVE Base'
  BY <1>1, AdmitBase
<1>2. CASE Propagate
  BY <1>2, PropagateBase
<1>3. CASE Return
  BY <1>3, ReturnBase
<1>4. ASSUME NEW w \in Worker, Lease(w) PROVE Base'
  BY <1>4, LeaseBase
<1>5. ASSUME NEW w \in Worker, WorkerLost(w) PROVE Base'
  BY <1>5, WorkerLostBase
<1>6. ASSUME NEW t \in issued, NEW kind \in Outcomes(t), Commit(t, kind, Published(t.state, kind)) PROVE Base'
  BY <1>6, CommitBase
<1>7. CASE BadAlloc
  BY <1>7, BadAllocBase
<1>8. CASE UNCHANGED vars
  <2>1. TypeOK'
    BY <1>8, Zenon DEF Base, TypeOK, vars, nodeVars, indexVars, countVars, callVars, histVars
  <2>2. QED
    BY <1>8, <2>1, BaseUnchanged DEF vars, countVars
<1>9. QED
  BY <1>1, <1>2, <1>3, <1>4, <1>5, <1>6, <1>7, <1>8 DEF Next

(* Types and exact indexes hold in every reachable state of the frontier.   *)
THEOREM BaseInvariant == Spec => []Base
<1>1. QED
  BY InitBase, NextBase, PTL DEF Spec

(* Type correctness.  It includes that no node, worklist entry or lease is  *)
(* ever deeper than the limit, which rests on the tickets: an expansion is  *)
(* only accepted from a lease that was cut below the limit.                 *)
THEOREM TypeCorrect == Spec => []TypeOK
<1>1. Base => TypeOK
  BY DEF Base
<1>2. QED
  BY <1>1, BaseInvariant, PTL

(* lease() and status() may trust the incrementally kept indexes.           *)
THEOREM IndexesExact == Spec => []IndexConsistent
<1>1. Base => IndexConsistent
  BY Zenon DEF Base, Indexed, SequencesUnique, IndexConsistent
<1>2. QED
  BY <1>1, BaseInvariant, PTL

-----------------------------------------------------------------------------
(* A lease that was given up or committed is never honoured again: the      *)
(* answer of a worker that was declared lost stays stale for good.          *)
THEOREM StaleStaysStale == Spec => LeaseNeverRevives
<1>1. Init => LeaseIds
  BY DEF Init, LeaseIds
<1>2. Base /\ LeaseIds /\ [Next]_vars => LeaseIds'
  BY LeaseStep
<1>3. Base /\ LeaseIds /\ [Next]_vars =>
        [\A t \in issued : ticket[t.state] # t => ticket'[t.state] # t]_vars
  BY LeaseStep
<1>4. QED
  BY <1>1, <1>2, <1>3, InitBase, NextBase, PTL DEF Spec, LeaseNeverRevives

-----------------------------------------------------------------------------
(* The counts are the cardinalities of finite sets of nodes.                *)
LEMMA BaseCounts == Base => CountsRead
<1> SUFFICES ASSUME Base PROVE CountsRead
  OBVIOUS
<1>1. ASSUME NEW C \in SUBSET State, NEW s \in C
      PROVE  Cardinality(C) > 0
  <2>1. IsFiniteSet(C) /\ C # {}
    BY FrontierAssumption, FS_Subset
  <2>2. Cardinality(C) \in Nat /\ Cardinality(C) # 0
    BY <2>1, FS_CardinalityType, FS_EmptySet
  <2>3. QED
    BY <2>2
<1>2. ASSUME NEW s \in State, phase[s] \in Phases PROVE phase_counts[phase[s]] > 0
  <2>1. phase_counts[phase[s]] = Cardinality({x \in State : phase[x] = phase[s]})
    BY <1>2, Zenon DEF Base, Indexed
  <2>2. Cardinality({x \in State : phase[x] = phase[s]}) > 0
    BY <1>1, s \in {x \in State : phase[x] = phase[s]}
  <2>3. QED
    BY <2>1, <2>2, Zenon
<1>3. ASSUME policy = "Bfs", NEW s \in State, phase[s] \in {"Pending", "Inflight"}
      PROVE  active_layers[depth[s]] > 0
  <2> DEFINE A == {x \in State : phase[x] \in {"Pending", "Inflight"} /\ depth[x] = depth[s]}
  <2>1. depth[s] \in 0..Limit
    BY DEF Base, TypeOK
  <2>2. active_layers[depth[s]] = Cardinality(A)
    BY <1>3, <2>1, Zenon DEF Base, Indexed
  <2>3. A \in SUBSET State /\ s \in A
    BY <1>3
  <2> HIDE DEF A
  <2>4. Cardinality(A) > 0
    BY <1>1, <2>3
  <2>5. QED
    BY <2>2, <2>4, Zenon
<1>4. QED
  BY <1>2, <1>3, Zenon DEF CountsRead

(* The library knows that < is well-founded on the natural numbers.         *)
LEMMA LeastNatural == WellOrdered
<1> SUFFICES ASSUME NEW S \in SUBSET Nat, S # {} PROVE \E n \in S : \A m \in S : n <= m
  BY DEF WellOrdered
<1>1. PICK n \in S : \A m \in S : ~(<<m, n>> \in OpToRel(<, Nat))
  BY WFMin, NatLessThanWellFounded, Zenon
<1>2. \A m \in S : ~(m < n)
  BY <1>1, Zenon DEF OpToRel
<1>3. QED
  BY <1>2
=============================================================================
