------------------------ MODULE FrontierDepthProofs ------------------------
(***************************************************************************)
(* Proofs about the depths and the verdicts of the search frontier: no     *)
(* discovered path is forgotten, what Complete means, and the depths of a  *)
(* finished search are the shortest distances.                             *)
(***************************************************************************)
EXTENDS FrontierSteps

-----------------------------------------------------------------------------
(* The depths.  A node's depth is realised by a path (no underestimate of   *)
(* the distances exceeds it), and so is the depth of a worklist entry.      *)
DepthsRealised ==
  \A f \in [State -> 0..(Limit + 1)] : Underestimate(f) =>
    /\ \A s \in Known : f[s] <= depth[s]
    /\ \A e \in Range(work) : f[e[1]] <= e[2]

(* Only a running admit() or commit() has a worklist.                       *)
WorkInCall == call = "none" => work = <<>>

IInv == Base /\ WorkInCall /\ PathsCovered /\ DepthsRealised

(* The frontier is created with no node and no worklist.                    *)
LEMMA InitIInv ==
  ASSUME Init, Base
  PROVE  IInv
<1>1. Range(work) = {} /\ Known = {}
  BY DEF Init, Range, Known
<1>2. PathsCovered /\ WorkInCall /\ DepthsRealised
  BY <1>1 DEF Init, PathsCovered, WorkInCall, DepthsRealised
<1>3. QED
  BY <1>2 DEF IInv

(* Covered, in the state after a step.                                      *)
CoveredNext(u, d) ==
  \/ u \in Known' /\ depth'[u] <= d
  \/ \E e \in Range(work') : e[1] = u /\ e[2] <= d

(* PathsCovered in the state after a step.                                  *)
LEMMA PathsCoveredNext ==
  ASSUME \A r \in roots' : CoveredNext(r[1], r[2]),
         \A s \in State : phase'[s] = "Expanded" =>
           \A u \in Range(graph'[s]) : CoveredNext(u, depth'[s] + 1)
  PROVE  PathsCovered'
BY DEF PathsCovered, Covered, CoveredNext

(* What was covered stays covered when no node is lost or gets deeper and   *)
(* every worklist entry that disappears has been honoured.                  *)
LEMMA CoverStep ==
  ASSUME TypeOK, TypeOK',
         \A x \in Known : x \in Known' /\ depth'[x] <= depth[x],
         \A e \in Range(work) :
           e \in Range(work') \/ (e[1] \in Known' /\ depth'[e[1]] <= e[2]),
         NEW u \in State, NEW d \in Int, Covered(u, d)
  PROVE  CoveredNext(u, d)
<1>1. \A x \in State : depth[x] \in Int /\ depth'[x] \in Int
  BY DEF TypeOK
<1>2. CASE u \in Known /\ depth[u] <= d
  <2>1. u \in Known' /\ depth'[u] <= d
    BY <1>1, <1>2
  <2>2. QED
    BY <2>1 DEF Covered, CoveredNext
<1>3. ASSUME NEW e \in Range(work), e[1] = u, e[2] <= d
      PROVE  CoveredNext(u, d)
  <2>1. CASE e \in Range(work')
    BY <1>3, <2>1 DEF Covered, CoveredNext
  <2>2. CASE e[1] \in Known' /\ depth'[e[1]] <= e[2]
    <3>1. e[2] \in Int
      <4>1. work \in Seq(State \X (0..Limit))
        BY DEF TypeOK
      <4>2. \A i \in DOMAIN work : work[i] \in State \X (0..Limit)
        BY <4>1
      <4>3. e \in State \X (0..Limit)
        BY <4>2, Zenon DEF Range
      <4>4. QED
        BY <4>3
    <3>2. u \in Known' /\ depth'[u] <= d
      BY <1>1, <1>3, <2>2, <3>1
    <3>3. QED
      BY <3>2 DEF Covered, CoveredNext
  <2>3. QED
    BY <1>3, <2>1, <2>2
<1>4. QED
  BY <1>2, <1>3 DEF Covered, CoveredNext

(* A step forgets no path when no node is lost or gets deeper, every        *)
(* worklist entry that disappears has been honoured, and what is newly      *)
(* admitted or newly expanded, or expanded at a new depth, is seen to.      *)
LEMMA PathsStep ==
  ASSUME IInv, TypeOK', ~poisoned, graph' = graph,
         \A x \in Known : x \in Known' /\ depth'[x] <= depth[x],
         \A e \in Range(work) :
           e \in Range(work') \/ (e[1] \in Known' /\ depth'[e[1]] <= e[2]),
         \A r \in roots' : r \in roots \/ CoveredNext(r[1], r[2]),
         \A s \in State : phase'[s] = "Expanded" =>
           \/ phase[s] = "Expanded" /\ depth'[s] = depth[s]
           \/ \A u \in Range(graph[s]) : CoveredNext(u, depth'[s] + 1)
  PROVE  PathsCovered'
<1>1. TypeOK /\ roots \subseteq State \X (0..Limit) /\ depth \in [State -> 0..Limit]
  BY Zenon DEF IInv, Base, TypeOK
<1>2. \A u \in State, c \in Int : Covered(u, c) => CoveredNext(u, c)
  BY <1>1, CoverStep
<1>3. ASSUME NEW r \in roots' PROVE CoveredNext(r[1], r[2])
  <2>1. CASE r \in roots
    <3>1. r[1] \in State /\ r[2] \in Int
      BY <1>1, <2>1
    <3>2. Covered(r[1], r[2])
      BY <2>1 DEF IInv, PathsCovered
    <3>3. QED
      BY <1>2, <3>1, <3>2
  <2>2. QED
    BY <1>3, <2>1, Zenon
<1>4. ASSUME NEW s \in State, phase'[s] = "Expanded", NEW u \in Range(graph[s])
      PROVE  CoveredNext(u, depth'[s] + 1)
  <2>1. CASE phase[s] = "Expanded" /\ depth'[s] = depth[s]
    <3>1. u \in State /\ depth[s] + 1 \in Int
      <4>1. Range(graph[s]) \subseteq State
        BY <1>1, SuccessorsAreStates
      <4>2. depth[s] \in 0..Limit
        BY <1>1
      <4>3. QED
        BY <4>1, <4>2
    <3>2. Covered(u, depth[s] + 1)
      BY <1>4, <2>1 DEF IInv, PathsCovered
    <3>3. QED
      BY <1>2, <2>1, <3>1, <3>2
  <2>2. QED
    BY <1>4, <2>1
<1>5. QED
  BY <1>3, <1>4, PathsCoveredNext

(* The steps that change neither the set of nodes, nor a depth, nor the set *)
(* of expanded nodes, nor the worklist keep the invariant.                  *)
LEMMA DepthsUnchanged ==
  ASSUME IInv, Base', UNCHANGED <<graph, policy, depth, work, call, roots, poisoned>>,
         Known' = Known,
         \A s \in State : phase'[s] = "Expanded" <=> phase[s] = "Expanded"
  PROVE  IInv'
<1>1. WorkInCall'
  BY DEF IInv, WorkInCall
<1>2. \A u, d : Covered(u, d) => CoveredNext(u, d)
  BY DEF Covered, CoveredNext
<1>3. PathsCovered'
  <2>1. CASE poisoned
    BY <2>1 DEF PathsCovered
  <2>2. CASE ~poisoned
    BY <1>2, <2>2, PathsCoveredNext DEF IInv, PathsCovered
  <2>3. QED
    BY <2>1, <2>2
<1>4. DepthsRealised'
  BY DEF IInv, DepthsRealised, Underestimate
<1>5. QED
  BY <1>1, <1>3, <1>4 DEF IInv

(* admit() puts the new root on the worklist, which covers it.              *)
LEMMA AdmitDepths ==
  ASSUME IInv, Base', NEW a \in Admissions, Admit(a[1], a[2])
  PROVE  IInv'
<1>1. Base /\ Base' /\ TypeOK /\ TypeOK'
  BY DEF IInv, Base
<1>2. a \in State \X (0..Limit) /\ a = <<a[1], a[2]>> /\ a[1] \in State /\ a[2] \in 0..Limit
  BY FrontierAssumption
<1>3. /\ work = <<>> /\ work' = <<a>> /\ call' # "none" /\ roots' = roots \cup {a}
      /\ UNCHANGED <<graph, policy, phase, depth, poisoned>> /\ ~poisoned
  BY <1>2 DEF Admit, Idle, IInv, WorkInCall, nodeVars
<1>4. Range(work) = {} /\ Range(work') = {a}
  BY <1>3 DEF Range
<1>5. Known' = Known
  BY <1>3 DEF Known
<1>6. \A u, d : Covered(u, d) => CoveredNext(u, d)
  BY <1>3, <1>4, <1>5 DEF Covered, CoveredNext
<1>7. CoveredNext(a[1], a[2])
  BY <1>2, <1>4 DEF Covered, CoveredNext
<1>8. PathsCovered'
  BY <1>3, <1>6, <1>7, PathsCoveredNext, Zenon DEF IInv, PathsCovered
<1>9. DepthsRealised'
  <2> SUFFICES ASSUME NEW f \in [State -> 0..(Limit + 1)], Underestimate(f)'
               PROVE  /\ \A s \in Known : f[s] <= depth[s]
                      /\ f[a[1]] <= a[2]
    BY <1>3, <1>4, <1>5 DEF DepthsRealised
  <2>1. Underestimate(f) /\ f[a[1]] <= a[2]
    BY <1>3 DEF Underestimate
  <2>2. QED
    BY <2>1 DEF IInv, DepthsRealised
<1>10. QED
  BY <1>1, <1>3, <1>8, <1>9 DEF IInv, WorkInCall

(* propagate() on an unknown state creates its node at the depth of the     *)
(* entry.                                                                   *)
LEMMA InsertDepths ==
  ASSUME IInv, Base', PropagateFrame, call # "none",
         NEW s \in State, NEW d \in 0..Limit,
         Range(work) = {<<s, d>>} \cup Range(Tail(work)),
         PropagateInsert(s, d)
  PROVE  IInv'
<1>1. Base /\ TypeOK /\ TypeOK'
  BY DEF IInv, Base
<1>2. Range(work) = {<<s, d>>} \cup Range(Tail(work))
  OBVIOUS
<1>3. /\ s \notin Known /\ work' = Tail(work)
      /\ phase' = [phase EXCEPT ![s] = "Pending"] /\ depth' = [depth EXCEPT ![s] = d]
  BY DEF PropagateInsert, Update
<1>4. UNCHANGED <<graph, policy, roots, poisoned, call>>
  BY DEF PropagateFrame
<1>5. /\ phase'[s] = "Pending" /\ depth'[s] = d
      /\ \A x \in State \ {s} : phase'[x] = phase[x] /\ depth'[x] = depth[x]
      /\ \A x \in State : depth[x] \in Int
  BY <1>1, <1>3 DEF TypeOK
<1>6. Known' = Known \cup {s}
  BY <1>5 DEF Known
<1>7. \A x \in Known : x \in Known' /\ depth'[x] <= depth[x]
  <2>1. \A x \in Known : x \in State \ {s}
    BY <1>3 DEF Known
  <2>2. QED
    BY <1>5, <1>6, <2>1
<1>8. \A e \in Range(work) :
        e \in Range(work') \/ (e[1] \in Known' /\ depth'[e[1]] <= e[2])
  BY <1>2, <1>3, <1>5, <1>6
<1>9. \A x \in State : phase'[x] = "Expanded" =>
        phase[x] = "Expanded" /\ depth'[x] = depth[x]
  BY <1>3, <1>5
<1>10. PathsCovered'
  <2>1. CASE poisoned
    BY <1>4, <2>1 DEF PathsCovered
  <2>2. CASE ~poisoned
    BY <1>1, <1>4, <1>7, <1>8, <1>9, <2>2, PathsStep
  <2>3. QED
    BY <2>1, <2>2
<1>11. DepthsRealised'
  <2> SUFFICES ASSUME NEW f \in [State -> 0..(Limit + 1)], Underestimate(f)
               PROVE  /\ \A x \in Known' : f[x] <= depth'[x]
                      /\ \A e \in Range(work') : f[e[1]] <= e[2]
    BY <1>4 DEF DepthsRealised, Underestimate
  <2>1. /\ \A x \in Known : f[x] <= depth[x]
        /\ \A e \in Range(work) : f[e[1]] <= e[2]
    BY DEF IInv, DepthsRealised
  <2>2. f[s] <= d
    <3>1. <<s, d>> \in Range(work)
      BY <1>2
    <3>2. f[<<s, d>>[1]] <= <<s, d>>[2]
      BY <2>1, <3>1, Zenon
    <3>3. QED
      BY <3>2
  <2>3. \A x \in Known' : f[x] <= depth'[x]
    BY <1>2, <1>5, <1>6, <2>1, <2>2 DEF Known
  <2>4. QED
    BY <1>2, <1>3, <2>1, <2>3
<1>12. WorkInCall'
  BY <1>4 DEF WorkInCall
<1>13. QED
  BY <1>10, <1>11, <1>12 DEF IInv

(* propagate() drops an entry for a node that is known at its depth or      *)
(* less.                                                                    *)
LEMMA DuplicateDepths ==
  ASSUME IInv, Base', PropagateFrame, call # "none", work # <<>>,
         PropagateDuplicate(Head(work)[1], Head(work)[2])
  PROVE  IInv'
<1> DEFINE s == Head(work)[1]
           d == Head(work)[2]
<1>1. Base /\ TypeOK /\ TypeOK'
  BY DEF IInv, Base
<1>2. /\ s \in State /\ d \in 0..Limit /\ Head(work) = <<s, d>>
      /\ Range(work) = {<<s, d>>} \cup Range(Tail(work))
  BY <1>1, WorkHead, Zenon
<1>3. /\ s \in Known /\ d >= depth[s] /\ work' = Tail(work)
      /\ UNCHANGED <<graph, policy, phase, depth, roots, poisoned, call>>
  BY DEF PropagateDuplicate, PropagateFrame
<1> HIDE DEF s, d
<1>4. Known' = Known /\ \A x \in State : depth[x] \in Int
  BY <1>1, <1>3 DEF Known, TypeOK
<1>5. \A x \in Known : x \in Known' /\ depth'[x] <= depth[x]
  BY <1>3, <1>4 DEF Known
<1>6. \A e \in Range(work) :
        e \in Range(work') \/ (e[1] \in Known' /\ depth'[e[1]] <= e[2])
  BY <1>2, <1>3, <1>4
<1>8. PathsCovered'
  <2>1. CASE poisoned
    BY <1>3, <2>1 DEF PathsCovered
  <2>2. CASE ~poisoned
    BY <1>1, <1>3, <1>5, <1>6, <2>2, PathsStep
  <2>3. QED
    BY <2>1, <2>2
<1>9. DepthsRealised'
  BY <1>2, <1>3, <1>4, Zenon DEF IInv, DepthsRealised, Underestimate
<1>10. WorkInCall'
  BY <1>3 DEF WorkInCall
<1>11. QED
  BY <1>8, <1>9, <1>10 DEF IInv

(* The worklist after an improvement holds the rest of it and the entries   *)
(* of the successors.                                                       *)
LEMMA EntriesConcat ==
  \A p, q \in Seq(State \X (0..Limit)) : Range(p \o q) = Range(p) \cup Range(q)
<1> DEFINE T == State \X (0..Limit)
<1> HIDE DEF T
<1>1. \A p, q \in Seq(T) : Range(p \o q) = Range(p) \cup Range(q)
  BY RangeConcat
<1>2. QED
  BY <1>1 DEF T

(* propagate() on a node that gets less deep keeps its path, and puts the   *)
(* successors of an expanded one on the worklist again.                     *)
LEMMA ImproveDepths ==
  ASSUME IInv, Base', PropagateFrame, call # "none",
         NEW s \in State, NEW d \in 0..Limit,
         Tail(work) \in Seq(State \X (0..Limit)),
         Range(work) = {<<s, d>>} \cup Range(Tail(work)),
         PropagateImprove(s, d)
  PROVE  IInv'
<1>1. Base /\ TypeOK /\ TypeOK'
  BY DEF IInv, Base
<1>2. /\ s \in Known /\ d < depth[s] /\ work' = Pushed(s, d) \o Tail(work)
      /\ phase' = [phase EXCEPT ![s] = IF @ = "DepthCut" THEN "Pending" ELSE @]
      /\ depth' = [depth EXCEPT ![s] = d]
  BY Zenon DEF PropagateImprove, Update
<1>3. UNCHANGED <<graph, policy, roots, poisoned, call>>
  BY DEF PropagateFrame
<1>4. /\ phase'[s] = (IF phase[s] = "DepthCut" THEN "Pending" ELSE phase[s])
      /\ depth'[s] = d
      /\ \A x \in State \ {s} : phase'[x] = phase[x] /\ depth'[x] = depth[x]
      /\ \A x \in State : depth[x] \in Int
  <2>1. phase \in [State -> Phases \cup {"Absent"}] /\ depth \in [State -> 0..Limit]
    BY <1>1, Zenon DEF TypeOK
  <2>2. QED
    BY <1>2, <2>1
<1>5. Known' = Known
  BY <1>2, <1>4 DEF Known
<1>6. /\ Range(work') = Range(Pushed(s, d)) \cup Range(Tail(work))
      /\ Range(Pushed(s, d)) =
           IF phase[s] = "Expanded" THEN {<<u, d + 1>> : u \in Range(graph[s])} ELSE {}
  <2>1. /\ Pushed(s, d) \in Seq(State \X (0..Limit))
        /\ Range(Pushed(s, d)) =
             IF phase[s] = "Expanded" THEN {<<u, d + 1>> : u \in Range(graph[s])} ELSE {}
    BY <1>1, <1>2, PushedEntries
  <2>2. Range(Pushed(s, d) \o Tail(work)) = Range(Pushed(s, d)) \cup Range(Tail(work))
    BY <2>1, EntriesConcat, Zenon
  <2>3. Range(work') = Range(Pushed(s, d) \o Tail(work))
    BY <1>2, Zenon
  <2>4. QED
    BY <2>1, <2>2, <2>3, Zenon
<1>7. \A x \in Known : x \in Known' /\ depth'[x] <= depth[x]
  BY <1>2, <1>4, <1>5 DEF Known
<1>8. \A e \in Range(work) :
        e \in Range(work') \/ (e[1] \in Known' /\ depth'[e[1]] <= e[2])
  BY <1>2, <1>4, <1>5, <1>6
<1>9. ASSUME NEW x \in State, phase'[x] = "Expanded"
      PROVE  \/ phase[x] = "Expanded" /\ depth'[x] = depth[x]
             \/ \A u \in Range(graph[x]) : CoveredNext(u, depth'[x] + 1)
  <2>1. CASE x # s
    BY <1>4, <1>9, <2>1
  <2>2. CASE x = s
    <3>1. phase[s] = "Expanded"
      BY <1>4, <1>9, <2>2
    <3>2. ASSUME NEW u \in Range(graph[s]) PROVE CoveredNext(u, depth'[s] + 1)
      <4>1. <<u, d + 1>> \in Range(work')
        BY <1>6, <3>1
      <4>2. <<u, d + 1>>[1] = u /\ <<u, d + 1>>[2] <= depth'[s] + 1
        BY <1>4
      <4>3. QED
        BY <4>1, <4>2 DEF CoveredNext
    <3>3. QED
      BY <2>2, <3>2
  <2>3. QED
    BY <2>1, <2>2
<1>10. PathsCovered'
  <2>1. CASE poisoned
    BY <1>3, <2>1 DEF PathsCovered
  <2>2. CASE ~poisoned
    BY <1>1, <1>3, <1>7, <1>8, <1>9, <2>2, PathsStep, Zenon
  <2>3. QED
    BY <2>1, <2>2
<1>11. DepthsRealised'
  <2> SUFFICES ASSUME NEW f \in [State -> 0..(Limit + 1)], Underestimate(f)
               PROVE  /\ \A x \in Known' : f[x] <= depth'[x]
                      /\ \A e \in Range(work') : f[e[1]] <= e[2]
    BY <1>3, Zenon DEF DepthsRealised, Underestimate
  <2>1. /\ \A x \in Known : f[x] <= depth[x]
        /\ \A e \in Range(work) : f[e[1]] <= e[2]
    BY Zenon DEF IInv, DepthsRealised
  <2>2. f[s] <= d
    <3>1. <<s, d>> \in Range(work)
      OBVIOUS
    <3>2. f[<<s, d>>[1]] <= <<s, d>>[2]
      BY <2>1, <3>1, Zenon
    <3>3. QED
      BY <3>2
  <2>3. \A x \in Known' : f[x] <= depth'[x]
    BY <1>4, <1>5, <2>1, <2>2 DEF Known
  <2>4. ASSUME NEW u \in Range(graph[s]) PROVE f[u] <= d + 1
    <3>1. u \in State /\ f[u] <= f[s] + 1
      BY <1>1, SuccessorsAreStates DEF Underestimate
    <3>2. f[u] \in Int /\ f[s] \in Int
      BY <3>1
    <3>3. QED
      BY <2>2, <3>1, <3>2
  <2>5. \A e \in Range(Pushed(s, d)) : f[e[1]] <= e[2]
    BY <1>6, <2>4
  <2>6. \A e \in Range(Tail(work)) : f[e[1]] <= e[2]
    BY <2>1
  <2>7. QED
    BY <1>6, <2>3, <2>5, <2>6
<1>12. WorkInCall'
  BY <1>3 DEF WorkInCall
<1>13. QED
  BY <1>10, <1>11, <1>12 DEF IInv

(* One round of the loop of propagate().                                    *)
LEMMA PropagateDepths ==
  ASSUME IInv, Base', Propagate
  PROVE  IInv'
<1>1. Base /\ Base' /\ TypeOK
  BY DEF IInv, Base
<1>2. work # <<>> /\ call # "none" /\ PropagateFrame
  BY DEF Propagate, PropagateFrame, histVars
<1> DEFINE s == Head(work)[1]
           d == Head(work)[2]
<1>3. /\ s \in State /\ d \in 0..Limit /\ Tail(work) \in Seq(State \X (0..Limit))
      /\ Range(work) = {<<s, d>>} \cup Range(Tail(work))
  BY <1>1, <1>2, WorkHead, Zenon
<1>4. PropagateInsert(s, d) \/ PropagateDuplicate(s, d) \/ PropagateImprove(s, d)
  BY DEF Propagate
<1>5. CASE PropagateInsert(s, d)
  BY <1>1, <1>2, <1>3, <1>5, InsertDepths
<1>6. CASE PropagateDuplicate(s, d)
  BY <1>1, <1>2, <1>6, DuplicateDepths
<1>7. CASE PropagateImprove(s, d)
  BY <1>1, <1>2, <1>3, <1>7, ImproveDepths
<1>8. QED
  BY <1>4, <1>5, <1>6, <1>7

(* One more than the larger depth bounds what one more than the smaller     *)
(* bounds.                                                                  *)
LEMMA OneDeeper == \A a, b, c \in Int : a <= b + 1 /\ b <= c => a <= c + 1
  OBVIOUS

(* commit() puts the successors of the node on the worklist, one deeper.    *)
LEMMA CommitDepths ==
  ASSUME IInv, Base', NEW t \in issued, NEW kind \in Outcomes(t),
         Commit(t, kind, Published(t.state, kind))
  PROVE  IInv'
<1> DEFINE s == t.state
           W == {<<u, depth[s] + 1>> : u \in Range(Published(s, kind))}
<1>1. Base /\ Base' /\ TypeOK /\ TypeOK'
  BY DEF IInv, Base
<1>2. /\ Current(t) /\ work = <<>> /\ ~poisoned /\ call' # "none"
      /\ phase' = [phase EXCEPT ![s] = CommittedPhase(s, kind)] /\ depth' = depth
      /\ UNCHANGED <<graph, policy, roots, poisoned>>
  BY Zenon DEF Commit, Idle, IInv, WorkInCall, Update, histVars
<1>3. /\ s \in State /\ phase[s] = "Inflight" /\ CommittedPhase(s, kind) \in Phases
      /\ CommittedPhase(s, kind) = "Expanded" => kind = "Expanded"
  BY <1>1, <1>2, OutcomeFacts, Zenon DEF CommittedPhase
<1>4. Range(work) = {} /\ Range(work') = W
  <2>1. Range(work) = {}
    BY <1>2 DEF Range
  <2>2. Range(work') = W
    BY <1>1, PublishedEntries
  <2>3. QED
    BY <2>1, <2>2, Zenon
<1>5. /\ phase'[s] = CommittedPhase(s, kind)
      /\ \A x \in State \ {s} : phase'[x] = phase[x]
      /\ \A x \in State : depth[x] \in Int
  <2>1. /\ phase \in [State -> Phases \cup {"Absent"}] /\ depth \in [State -> 0..Limit]
        /\ s \in State /\ phase' = [phase EXCEPT ![s] = CommittedPhase(s, kind)]
    BY <1>1, <1>2, <1>3, Zenon DEF TypeOK
  <2>2. QED
    BY <2>1
<1>6. Known' = Known
  BY <1>3, <1>5, Zenon DEF Known, Phases
<1>7. \A x \in Known : x \in Known' /\ depth'[x] <= depth[x]
  BY <1>2, <1>5, <1>6, SMTT(30) DEF Known
<1>8. ASSUME NEW x \in State, phase'[x] = "Expanded"
      PROVE  \/ phase[x] = "Expanded" /\ depth'[x] = depth[x]
             \/ \A u \in Range(graph[x]) : CoveredNext(u, depth'[x] + 1)
  <2>1. CASE x # s
    BY <1>2, <1>5, <1>8, <2>1, Zenon
  <2>2. CASE x = s
    <3>1. kind = "Expanded"
      BY <1>3, <1>5, <1>8, <2>2, Zenon
    <3>2. ASSUME NEW u \in Range(graph[s]) PROVE CoveredNext(u, depth'[s] + 1)
      <4>1. <<u, depth[s] + 1>> \in Range(work')
        BY <1>4, <3>1 DEF Published
      <4>2. <<u, depth[s] + 1>>[1] = u /\ <<u, depth[s] + 1>>[2] <= depth'[s] + 1
        BY <1>2, <1>3, <1>5
      <4>3. QED
        BY <4>1, <4>2 DEF CoveredNext
    <3>3. QED
      BY <2>2, <3>2, Zenon
  <2>3. QED
    BY <2>1, <2>2, Zenon
<1>9. PathsCovered'
  BY <1>1, <1>2, <1>4, <1>7, <1>8, PathsStep, Zenon
<1>10. DepthsRealised'
  <2> SUFFICES ASSUME NEW f \in [State -> 0..(Limit + 1)], Underestimate(f)
               PROVE  /\ \A x \in Known : f[x] <= depth[x]
                      /\ \A e \in W : f[e[1]] <= e[2]
    BY <1>2, <1>4, <1>6, Zenon DEF DepthsRealised, Underestimate
  <2>1. \A x \in Known : f[x] <= depth[x]
    BY DEF IInv, DepthsRealised
  <2>2. ASSUME NEW u \in Range(Published(s, kind)) PROVE f[u] <= depth[s] + 1
    <3>1. u \in Range(graph[s])
      BY DEF Published, Range
    <3>2. u \in State /\ f[u] <= f[s] + 1
      BY <1>1, <1>3, <3>1, SuccessorsAreStates DEF Underestimate
    <3>3. f[s] <= depth[s]
      BY <1>3, <2>1 DEF Known
    <3>4. f[u] \in Int /\ f[s] \in Int /\ depth[s] \in Int
      BY <1>3, <1>5, <3>2
    <3>5. QED
      BY <3>2, <3>3, <3>4, OneDeeper, Zenon
  <2>3. \A e \in W : f[e[1]] <= e[2]
    BY <2>2
  <2>4. QED
    BY <2>1, <2>3, Zenon
<1>11. QED
  BY <1>1, <1>2, <1>9, <1>10 DEF IInv, WorkInCall

(* Every step of the frontier preserves the invariant.                      *)
LEMMA NextIInv ==
  ASSUME IInv, Base', [Next]_vars
  PROVE  IInv'
<1>1. Base /\ Base' /\ TypeOK /\ TicketsMatch
  BY DEF IInv, Base
<1>2. ASSUME NEW a \in Admissions, Admit(a[1], a[2]) PROVE IInv'
  BY <1>1, <1>2, AdmitDepths
<1>3. CASE Propagate
  BY <1>1, <1>3, PropagateDepths
<1>4. CASE Return
  <2>1. /\ UNCHANGED <<graph, policy, phase, depth, work, roots, poisoned>> /\ work = <<>>
    BY <1>4 DEF Return, nodeVars, histVars
  <2>2. Known' = Known /\ WorkInCall'
    BY <2>1 DEF Known, WorkInCall
  <2>3. PathsCovered' /\ DepthsRealised'
    BY <2>1, <2>2 DEF IInv, PathsCovered, DepthsRealised, Covered, Underestimate
  <2>4. QED
    BY <1>1, <2>2, <2>3 DEF IInv
<1>5. ASSUME NEW w \in Worker, Lease(w) PROVE IInv'
  <2>1. PICK s \in Selectable : Update({s}, [phase EXCEPT ![s] = "Inflight"], depth, sequence)
    BY <1>5, Zenon DEF Lease
  <2>2. s \in State /\ phase[s] = "Pending"
    BY <1>1, SelectablePending DEF Base
  <2>3. /\ phase' = [phase EXCEPT ![s] = "Inflight"] /\ depth' = depth
        /\ UNCHANGED <<graph, policy, work, call, roots, poisoned>>
    BY <1>5, <2>1, Zenon DEF Update, Lease, callVars
  <2>4. /\ Known' = Known
        /\ \A x \in State : phase'[x] = "Expanded" <=> phase[x] = "Expanded"
    BY <1>1, <2>2, <2>3 DEF Known, TypeOK
  <2>5. QED
    BY <1>1, <2>3, <2>4, DepthsUnchanged
<1>6. ASSUME NEW w \in Worker, WorkerLost(w) PROVE IInv'
  <2>1. /\ phase' = [s \in State |-> IF s \in Held(w) THEN "Pending" ELSE phase[s]]
        /\ depth' = depth /\ UNCHANGED <<graph, policy, work, call, roots, poisoned>>
    BY <1>6, Zenon DEF Update, WorkerLost, callVars, histVars
  <2>2. \A x \in Held(w) : phase[x] = "Inflight"
    BY <1>1 DEF Held, TicketsMatch
  <2>3. /\ Known' = Known
        /\ \A x \in State : phase'[x] = "Expanded" <=> phase[x] = "Expanded"
    BY <2>1, <2>2 DEF Known
  <2>4. QED
    BY <1>1, <2>1, <2>3, DepthsUnchanged
<1>7. ASSUME NEW t \in issued, NEW kind \in Outcomes(t), Commit(t, kind, Published(t.state, kind)) PROVE IInv'
  BY <1>1, <1>7, CommitDepths
<1>8. CASE BadAlloc
  <2>1. poisoned' /\ work' = <<>> /\ UNCHANGED <<graph, policy, phase, depth, roots>>
    BY <1>8 DEF BadAlloc, nodeVars, histVars
  <2>2. Known' = Known /\ WorkInCall' /\ PathsCovered'
    BY <2>1 DEF Known, WorkInCall, PathsCovered
  <2>3. Range(work') = {}
    BY <2>1 DEF Range
  <2>4. DepthsRealised'
    BY <2>1, <2>2, <2>3 DEF IInv, DepthsRealised, Underestimate
  <2>5. QED
    BY <1>1, <2>2, <2>4 DEF IInv
<1>9. CASE UNCHANGED vars
  <2>1. UNCHANGED <<graph, policy, phase, depth, work, call, roots, poisoned>>
    BY <1>9 DEF vars, nodeVars, callVars, histVars
  <2>2. Known' = Known
    BY <2>1 DEF Known
  <2>3. QED
    BY <1>1, <2>1, <2>2, DepthsUnchanged
<1>10. QED
  BY <1>2, <1>3, <1>4, <1>5, <1>6, <1>7, <1>8, <1>9 DEF Next

(* What status() says of the phases, read off the counts.                   *)
LEMMA StatusPhases ==
  ASSUME CountsRead, status \in {"Complete", "Bounded"}
  PROVE  /\ ~poisoned
         /\ \A s \in State : phase[s] \notin {"Failure", "Pending", "Inflight"}
         /\ status = "Complete" =>
              \A s \in State : phase[s] \notin {"DepthCut", "ModelBudget"}
<1>1. ASSUME NEW p \in Phases, ~(phase_counts[p] > 0)
      PROVE  \A s \in State : phase[s] # p
  BY <1>1 DEF CountsRead
<1>2. {"Failure", "Pending", "Inflight", "DepthCut", "ModelBudget"} \subseteq Phases
  BY DEF Phases
<1>3. ~poisoned /\ ~(phase_counts["Failure"] > 0) /\ ~(phase_counts["Pending"] > 0)
      /\ ~(phase_counts["Inflight"] > 0)
  BY DEF status
<1>4. status = "Complete" =>
        ~(phase_counts["DepthCut"] > 0) /\ ~(phase_counts["ModelBudget"] > 0)
  BY DEF status
<1>5. QED
  BY <1>1, <1>2, <1>3, <1>4

(* A search that ends as Complete has expanded everything reachable.        *)
LEMMA ClosedWhenComplete ==
  ASSUME IInv, CountsRead
  PROVE  CompleteIsClosed
<1>1. ASSUME Idle, status = "Complete"
      PROVE  /\ \A r \in roots : r[1] \in Known
             /\ \A s \in Known : /\ phase[s] \in {"Expanded", "Terminal"}
                                  /\ Range(graph[s]) \subseteq Known
  <2>1. Base /\ TypeOK /\ Range(work) = {} /\ ~poisoned
    BY <1>1 DEF IInv, Base, WorkInCall, Idle, Range
  <2>2. \A s \in State : phase[s] \notin {"Failure", "Pending", "Inflight", "DepthCut",
                                         "ModelBudget"}
    BY <1>1, <2>1, StatusPhases
  <2>3. \A s \in Known : s \in State /\ phase[s] \in {"Expanded", "Terminal"}
    BY <2>1, <2>2 DEF Known, TypeOK, Phases
  <2>4. \A r \in roots : r[1] \in Known
    BY <1>1, <2>1 DEF IInv, PathsCovered, Covered
  <2>5. ASSUME NEW s \in Known PROVE Range(graph[s]) \subseteq Known
    <3>1. CASE phase[s] = "Expanded"
      BY <1>1, <2>1, <2>3, <3>1 DEF IInv, PathsCovered, Covered
    <3>2. CASE phase[s] = "Terminal"
      <4>1. graph[s] = <<>>
        BY <2>1, <2>3, <3>2 DEF Base, ResultsTrue
      <4>2. QED
        BY <4>1 DEF Range
    <3>3. QED
      BY <2>3, <3>1, <3>2
  <2>6. QED
    BY <2>3, <2>4, <2>5
<1>2. QED
  BY <1>1 DEF CompleteIsClosed

(* A search that ends, without a model-budget cut, has found for every      *)
(* state the length of the shortest path to it, up to the depth limit.      *)
LEMMA ShortestWhenSettled ==
  ASSUME IInv, CountsRead
  PROVE  SettledDepthsAreShortest
<1>1. ASSUME Idle, status \in {"Complete", "Bounded"},
             \A s \in State : phase[s] # "ModelBudget"
      PROVE  /\ Underestimate(FoundDepth)
             /\ \A f \in [State -> 0..(Limit + 1)] :
                  Underestimate(f) => \A s \in State : f[s] <= FoundDepth[s]
  <2>1. /\ Base /\ TypeOK /\ Range(work) = {} /\ ~poisoned /\ Limit \in Nat
        /\ depth \in [State -> 0..Limit] /\ roots \subseteq State \X (0..Limit)
    <3>1. Base /\ TypeOK /\ ~poisoned /\ work = <<>>
      BY <1>1 DEF IInv, Base, WorkInCall, Idle
    <3>2. Range(work) = {}
      BY <3>1 DEF Range
    <3>3. QED
      BY <3>1, <3>2, FrontierAssumption, Zenon DEF TypeOK
  <2>2. \A s \in State : phase[s] \in {"Absent", "Expanded", "Terminal", "DepthCut"}
    <3>1. \A s \in State : phase[s] \notin {"Failure", "Pending", "Inflight"}
      BY <1>1, <2>1, StatusPhases
    <3>2. QED
      BY <1>1, <2>1, <3>1 DEF TypeOK, Phases
  <2>3. \A s \in State :
          FoundDepth[s] = (IF s \in Known THEN depth[s] ELSE Limit + 1)
    BY DEF FoundDepth
  <2>4. \A s \in State : FoundDepth[s] \in Int /\ FoundDepth[s] <= Limit + 1
    BY <2>1, <2>3
  <2>5. \A r \in roots : FoundDepth[r[1]] <= r[2]
    BY <1>1, <2>1, <2>3 DEF IInv, PathsCovered, Covered
  <2>6. ASSUME NEW s \in State, NEW u \in Range(graph[s])
        PROVE  FoundDepth[u] <= FoundDepth[s] + 1
    <3>1. u \in State
      BY <2>1, SuccessorsAreStates
    <3>2. CASE phase[s] = "Expanded"
      <4>1. u \in Known /\ depth[u] <= depth[s] + 1
        BY <1>1, <2>1, <3>2 DEF IInv, PathsCovered, Covered
      <4>2. s \in Known
        BY <3>2 DEF Known
      <4>3. QED
        BY <2>3, <3>1, <4>1, <4>2
    <3>3. CASE phase[s] = "Terminal"
      <4>1. graph[s] = <<>>
        BY <2>1, <3>3 DEF Base, ResultsTrue
      <4>2. QED
        BY <4>1 DEF Range
    <3>4. CASE phase[s] = "DepthCut"
      <4>1. s \in Known /\ depth[s] = Limit
        BY <2>1, <3>4 DEF Base, ResultsTrue, Known
      <4>2. FoundDepth[s] = Limit
        BY <2>3, <4>1
      <4>3. QED
        BY <2>1, <2>4, <3>1, <4>2
    <3>5. CASE phase[s] = "Absent"
      <4>1. FoundDepth[s] = Limit + 1
        BY <2>3, <3>5 DEF Known
      <4>2. QED
        BY <2>1, <2>4, <3>1, <4>1
    <3>6. QED
      BY <2>2, <3>2, <3>3, <3>4, <3>5
  <2>7. Underestimate(FoundDepth)
    BY <2>5, <2>6 DEF Underestimate
  <2>8. ASSUME NEW f \in [State -> 0..(Limit + 1)], Underestimate(f), NEW s \in State
        PROVE  f[s] <= FoundDepth[s]
    <3>1. CASE s \in Known
      BY <1>1, <2>3, <2>8, <3>1 DEF IInv, DepthsRealised
    <3>2. CASE s \notin Known
      BY <2>1, <2>3, <3>2
    <3>3. QED
      BY <3>1, <3>2
  <2>9. QED
    BY <2>7, <2>8
<1>2. QED
  BY <1>1 DEF SettledDepthsAreShortest

-----------------------------------------------------------------------------
(* One round of propagate(), read off the nodes and the worklist: an entry  *)
(* inserts a node, is ignored, or makes a node shallower and may then queue *)
(* the node's own successors one deeper.                                    *)
LEMMA PropagateEffect ==
  ASSUME Base, Propagate
  PROVE  /\ UNCHANGED <<graph, policy, ticket, roots, issued, poisoned, call>>
         /\ \E s \in State, d \in 0..Limit :
              /\ <<s, d>> \in Range(work)
              /\ \/ /\ s \notin Known /\ Range(work') \subseteq Range(work)
                    /\ phase' = [phase EXCEPT ![s] = "Pending"]
                    /\ depth' = [depth EXCEPT ![s] = d]
                 \/ /\ s \in Known /\ d >= depth[s] /\ Range(work') \subseteq Range(work)
                    /\ UNCHANGED <<phase, depth>>
                 \/ /\ s \in Known /\ d < depth[s]
                    /\ phase' = [phase EXCEPT ![s] = IF @ = "DepthCut" THEN "Pending" ELSE @]
                    /\ depth' = [depth EXCEPT ![s] = d]
                    /\ Range(work') \subseteq
                         Range(work) \cup {<<u, d + 1>> : u \in Range(graph[s])}
<1> DEFINE s == Head(work)[1]
           d == Head(work)[2]
<1>1. work # <<>> /\ TypeOK /\ UNCHANGED <<graph, policy, ticket, roots, issued, poisoned, call>>
  BY DEF Propagate, histVars, Base
<1>2. /\ s \in State /\ d \in 0..Limit /\ Tail(work) \in Seq(State \X (0..Limit))
      /\ Range(work) = {<<s, d>>} \cup Range(Tail(work))
  BY <1>1, WorkHead, Zenon
<1>3. PropagateInsert(s, d) \/ PropagateDuplicate(s, d) \/ PropagateImprove(s, d)
  BY DEF Propagate
<1> HIDE DEF s, d
<1>4. ASSUME PropagateInsert(s, d)
      PROVE  /\ s \notin Known /\ Range(work') \subseteq Range(work)
             /\ phase' = [phase EXCEPT ![s] = "Pending"]
             /\ depth' = [depth EXCEPT ![s] = d]
  <2>1. Range(work') = Range(Tail(work))
    BY <1>4, Zenon DEF PropagateInsert
  <2>2. QED
    BY <1>2, <1>4, <2>1, Zenon DEF PropagateInsert, Update
<1>5. ASSUME PropagateDuplicate(s, d)
      PROVE  /\ s \in Known /\ d >= depth[s] /\ Range(work') \subseteq Range(work)
             /\ UNCHANGED <<phase, depth>>
  <2>1. Range(work') = Range(Tail(work))
    BY <1>5, Zenon DEF PropagateDuplicate
  <2>2. QED
    BY <1>2, <1>5, <2>1, Zenon DEF PropagateDuplicate
<1>6. ASSUME PropagateImprove(s, d)
      PROVE  /\ s \in Known /\ d < depth[s]
             /\ phase' = [phase EXCEPT ![s] = IF @ = "DepthCut" THEN "Pending" ELSE @]
             /\ depth' = [depth EXCEPT ![s] = d]
             /\ Range(work') \subseteq Range(work) \cup {<<u, d + 1>> : u \in Range(graph[s])}
  <2>1. s \in Known /\ d < depth[s] /\ work' = Pushed(s, d) \o Tail(work)
    BY <1>6, Zenon DEF PropagateImprove
  <2>2. /\ phase' = [phase EXCEPT ![s] = IF @ = "DepthCut" THEN "Pending" ELSE @]
        /\ depth' = [depth EXCEPT ![s] = d]
    BY <1>6, Zenon DEF PropagateImprove, Update
  <2>3. /\ Pushed(s, d) \in Seq(State \X (0..Limit))
        /\ Range(Pushed(s, d)) =
             IF phase[s] = "Expanded" THEN {<<u, d + 1>> : u \in Range(graph[s])} ELSE {}
    BY <1>2, <2>1, PushedEntries
  <2>4. Range(Pushed(s, d) \o Tail(work)) = Range(Pushed(s, d)) \cup Range(Tail(work))
    BY <1>2, <2>3, EntriesConcat, Zenon
  <2>5. Range(work') \subseteq Range(work) \cup {<<u, d + 1>> : u \in Range(graph[s])}
    BY <1>2, <2>1, <2>3, <2>4
  <2>6. QED
    BY <2>1, <2>2, <2>5
<1>7. QED
  BY <1>1, <1>2, <1>3, <1>4, <1>5, <1>6, Zenon

(* commit(), read off the nodes and the worklist.                           *)
LEMMA CommitEffect ==
  ASSUME Base, NEW t \in issued, NEW kind \in Outcomes(t), Commit(t, kind, Published(t.state, kind))
  PROVE  /\ t.state \in State /\ phase[t.state] = "Inflight" /\ ticket[t.state] = t
         /\ CommittedPhase(t.state, kind) \in Phases \ {"Inflight"}
         /\ phase' = [phase EXCEPT ![t.state] = CommittedPhase(t.state, kind)]
         /\ ticket' = [ticket EXCEPT ![t.state] = NoTicket]
         /\ \A e \in Range(work') :
              e[1] \in Range(graph[t.state]) /\ e[2] = depth[t.state] + 1
         /\ UNCHANGED <<graph, policy, depth, roots, issued, poisoned>>
<1>1. /\ t.state \in State /\ phase[t.state] = "Inflight" /\ ticket[t.state] = t
      /\ CommittedPhase(t.state, kind) \in Phases
      /\ kind \in {"Expanded", "Terminal", "DepthCut", "ModelBudget", "Failure"}
  BY OutcomeFacts, Zenon DEF Commit
<1>2. CommittedPhase(t.state, kind) # "Inflight"
  BY <1>1 DEF CommittedPhase
<1>3. /\ phase' = [phase EXCEPT ![t.state] = CommittedPhase(t.state, kind)]
      /\ ticket' = [ticket EXCEPT ![t.state] = NoTicket]
      /\ UNCHANGED <<graph, policy, depth, roots, issued, poisoned>>
  BY Zenon DEF Commit, Update, histVars
<1>4. Range(work') = {<<u, depth[t.state] + 1>> : u \in Range(Published(t.state, kind))}
  BY PublishedEntries, Zenon
<1>5. Range(Published(t.state, kind)) \subseteq Range(graph[t.state])
  BY DEF Published, Range
<1>6. \A e \in Range(work') : e[1] \in Range(graph[t.state]) /\ e[2] = depth[t.state] + 1
  BY <1>4, <1>5
<1>7. QED
  BY <1>1, <1>2, <1>3, <1>6

-----------------------------------------------------------------------------
(* Breadth-first order, for the one root r that run_parallel() admits at    *)
(* depth 0.  The nodes in flight are the shallowest unfinished ones, and    *)
(* an entry of the worklist that can still change a node is no shallower.   *)
LayersInv(r) ==
  /\ Known = {} => Range(work) \subseteq {<<r, 0>>}
  /\ Known # {} => r \in Known /\ depth[r] = 0
  /\ (policy = "Bfs" /\ ~poisoned) =>
       /\ \A s, u \in State :
            phase[s] = "Inflight" /\ phase[u] \in {"Pending", "Inflight"} => depth[s] <= depth[u]
       /\ \A e \in Range(work) :
            \/ e[1] \in Known /\ depth[e[1]] <= e[2]
            \/ \A s \in State : phase[s] = "Inflight" => depth[s] <= e[2]

(* The first layer with an unfinished node bounds every unfinished node.    *)
LEMMA FirstLayerBounds ==
  ASSUME WellOrdered, Base, CountsRead, policy = "Bfs",
         NEW u \in State, phase[u] \in {"Pending", "Inflight"}
  PROVE  FirstLayer \in 0..Limit /\ FirstLayer <= depth[u]
<1> DEFINE L == {k \in 0..Limit : active_layers[k] > 0}
<1>1. depth[u] \in 0..Limit /\ active_layers[depth[u]] > 0
  BY DEF Base, TypeOK, CountsRead
<1>2. L \in SUBSET Nat /\ L # {}
  BY <1>1
<1>3. PICK n \in L : \A m \in L : n <= m
  BY <1>2, Zenon DEF WellOrdered
<1>4. FirstLayer \in L /\ \A k \in 0..Limit : active_layers[k] > 0 => FirstLayer <= k
  <2>1. \E l \in {k \in 0..Limit : active_layers[k] > 0} :
          \A k \in 0..Limit : active_layers[k] > 0 => l <= k
    BY <1>3
  <2>2. QED
    BY <2>1, Zenon DEF FirstLayer
<1>5. QED
  BY <1>1, <1>4

(* A breadth-first lease is cut on the first unfinished layer.              *)
LEMMA SelectableFirst ==
  ASSUME Base, policy = "Bfs", NEW s \in Selectable
  PROVE  depth[s] = FirstLayer
<1>1. PICK q \in bfs_pending : q[1] = FirstLayer /\ s = q[3]
  BY Zenon DEF Selectable
<1>2. PICK x \in {y \in State : phase[y] = "Pending"} : q = <<depth[x], sequence[x], x>>
  BY Zenon DEF Base, Indexed
<1>3. QED
  BY <1>1, <1>2

(* An entry of the worklist is a state and a depth within the limit.        *)
LEMMA WorkEntry ==
  ASSUME TypeOK, NEW e \in Range(work)
  PROVE  e[1] \in State /\ e[2] \in 0..Limit
<1>1. work \in Seq(State \X (0..Limit))
  BY DEF TypeOK
<1>2. PICK i \in DOMAIN work : e = work[i]
  BY DEF Range
<1>3. QED
  BY <1>1, <1>2

(* One round of propagate() keeps the order.                                *)
LEMMA PropagateLayers ==
  ASSUME Base, NEW r \in State, LayersInv(r), Propagate
  PROVE  LayersInv(r)'
<1>1. UNCHANGED <<graph, policy, poisoned>>
  BY PropagateEffect
<1>2. PICK s \in State, d \in 0..Limit :
        /\ <<s, d>> \in Range(work)
        /\ \/ /\ s \notin Known /\ Range(work') \subseteq Range(work)
              /\ phase' = [phase EXCEPT ![s] = "Pending"]
              /\ depth' = [depth EXCEPT ![s] = d]
           \/ /\ s \in Known /\ d >= depth[s] /\ Range(work') \subseteq Range(work)
              /\ UNCHANGED <<phase, depth>>
           \/ /\ s \in Known /\ d < depth[s]
              /\ phase' = [phase EXCEPT ![s] = IF @ = "DepthCut" THEN "Pending" ELSE @]
              /\ depth' = [depth EXCEPT ![s] = d]
              /\ Range(work') \subseteq
                   Range(work) \cup {<<u, d + 1>> : u \in Range(graph[s])}
  BY PropagateEffect, Zenon
<1>3. /\ phase \in [State -> Phases \cup {"Absent"}] /\ depth \in [State -> 0..Limit]
      /\ \A x \in State : depth[x] \in 0..Limit
  BY DEF Base, TypeOK
<1>4. CASE s \in Known /\ d >= depth[s] /\ Range(work') \subseteq Range(work)
           /\ UNCHANGED <<phase, depth>>
  BY <1>1, <1>4 DEF LayersInv, Known
<1>5. CASE ~(s \in Known /\ d >= depth[s])
  <2>1. /\ \A x \in State : x # s => phase'[x] = phase[x] /\ depth'[x] = depth[x]
        /\ depth'[s] = d /\ s \in Known' /\ Known \subseteq Known' /\ phase'[s] # "Absent"
        /\ phase'[s] = "Inflight" => s \in Known /\ phase[s] = "Inflight"
    BY <1>2, <1>3, <1>5 DEF Known
  <2>2. r \in Known' /\ depth'[r] = 0
    <3>1. CASE s \in Known
      <4>1. r \in Known /\ depth[r] = 0 /\ d >= 0 /\ d < depth[s]
        BY <1>3, <1>5, <3>1 DEF LayersInv
      <4>2. r # s
        BY <4>1
      <4>3. QED
        BY <2>1, <4>1, <4>2
    <3>2. CASE s \notin Known
      <4>1. CASE Known = {}
        BY <1>2, <2>1, <4>1 DEF LayersInv
      <4>2. CASE Known # {}
        BY <2>1, <3>2, <4>2 DEF LayersInv
      <4>3. QED
        BY <4>1, <4>2
    <3>3. QED
      BY <3>1, <3>2
  <2>3. ASSUME policy = "Bfs", ~poisoned
        PROVE  /\ \A x \in State : phase[x] = "Inflight" => depth[x] <= d
               /\ phase'[s] # "Inflight"
    <3>1. \A x \in State : phase[x] = "Inflight" => depth[x] <= d
      BY <1>2, <1>5, <2>3, <1>3, Zenon DEF LayersInv
    <3>2. QED
      BY <1>2, <1>3, <1>5, <2>1, <3>1, Zenon
  <2>4. ASSUME policy = "Bfs", ~poisoned, NEW e \in Range(work')
        PROVE  \/ e[1] \in Known' /\ depth'[e[1]] <= e[2]
               \/ \A x \in State : phase'[x] = "Inflight" => depth'[x] <= e[2]
    <3>1. CASE e \in Range(work)
      <4>1. CASE e[1] \in Known /\ depth[e[1]] <= e[2]
        <5>1. e[2] \in Int
          BY <3>1, WorkEntry DEF Base
        <5>2. e[1] \in State /\ depth[e[1]] \in Int /\ d \in Int
          BY <1>3, <3>1, WorkEntry DEF Base
        <5>3. CASE e[1] = s
          <6>1. s \in Known /\ d < depth[s]
            BY <1>3, <1>5, <4>1, <5>3
          <6>2. QED
            BY <2>1, <4>1, <5>1, <5>2, <5>3, <6>1
        <5>4. CASE e[1] # s
          BY <2>1, <4>1, <5>2, <5>4
        <5>5. QED
          BY <5>3, <5>4
      <4>2. CASE \A x \in State : phase[x] = "Inflight" => depth[x] <= e[2]
        BY <2>1, <2>3, <2>4, <4>2
      <4>3. QED
        BY <2>4, <3>1, <4>1, <4>2 DEF LayersInv
    <3>2. CASE e \notin Range(work)
      <4>1. e[2] = d + 1
        BY <1>2, <2>4, <3>2
      <4>2. QED
        BY <1>3, <2>1, <2>3, <2>4, <4>1
    <3>3. QED
      BY <3>1, <3>2
  <2>5. ASSUME policy = "Bfs", ~poisoned, NEW x \in State, NEW u \in State,
               phase'[x] = "Inflight", phase'[u] \in {"Pending", "Inflight"}
        PROVE  depth'[x] <= depth'[u]
    BY <2>1, <2>3, <2>5 DEF LayersInv
  <2>6. QED
    BY <1>1, <2>2, <2>4, <2>5 DEF LayersInv
<1>6. QED
  <2>1. s \in Known /\ d >= depth[s] => ~(d < depth[s])
    BY <1>3
  <2>2. QED
    BY <1>2, <1>4, <1>5, <2>1, Zenon

(* Every step keeps the order: a lease is cut on the first unfinished       *)
(* layer, and what a commit discovers lies one layer below the committed    *)
(* node, which was on that first layer.                                     *)
LEMMA LayersStep ==
  ASSUME WellOrdered, IInv, CountsRead, NEW r \in State, Admissions \subseteq {<<r, 0>>}, LayersInv(r),
         [Next]_vars
  PROVE  LayersInv(r)'
<1>1. /\ Base /\ \A x \in State : depth[x] \in 0..Limit
      /\ phase \in [State -> Phases \cup {"Absent"}] /\ depth \in [State -> 0..Limit]
  BY Zenon DEF IInv, Base, TypeOK
<1>2. ASSUME NEW a \in Admissions, Admit(a[1], a[2]) PROVE LayersInv(r)'
  <2>1. work' = << <<r, 0>> >> /\ UNCHANGED <<phase, depth, policy, poisoned>>
    BY <1>2 DEF Admit, nodeVars
  <2>2. Range(work') = {<<r, 0>>}
    BY <2>1 DEF Range
  <2>3. Known' = Known
    BY <2>1 DEF Known
  <2>4. CASE Known = {}
    <3>1. \A s \in State : phase[s] # "Inflight"
      BY <2>4 DEF Known
    <3>2. QED
      BY <2>1, <2>2, <2>3, <2>4, <3>1 DEF LayersInv
  <2>5. CASE Known # {}
    BY <2>1, <2>2, <2>3, <2>5 DEF LayersInv
  <2>6. QED
    BY <2>4, <2>5
<1>3. CASE Propagate
  BY <1>1, <1>3, PropagateLayers
<1>4. CASE Return
  BY <1>4 DEF Return, nodeVars, LayersInv, Known
<1>5. ASSUME NEW w \in Worker, Lease(w) PROVE LayersInv(r)'
  <2>1. PICK s \in Selectable :
          /\ s \in State /\ phase[s] = "Pending" /\ phase' = [phase EXCEPT ![s] = "Inflight"]
          /\ UNCHANGED <<graph, policy, depth, call, work, roots, poisoned>>
    BY <1>1, <1>5, LeaseEffect
  <2>2. Known' = Known /\ Known # {}
    BY <1>1, <2>1 DEF Known
  <2>3. Range(work') = {}
    BY <1>5, <2>1 DEF IInv, WorkInCall, Lease, Idle, Range
  <2>4. ASSUME policy = "Bfs", NEW u \in State, phase[u] \in {"Pending", "Inflight"}
        PROVE  depth[s] <= depth[u]
    BY <1>1, <2>1, <2>4, FirstLayerBounds, SelectableFirst
  <2>5. \A x \in State : x # s => phase'[x] = phase[x]
    BY <1>1, <2>1
  <2>6. QED
    BY <1>1, <2>1, <2>2, <2>3, <2>4, <2>5 DEF LayersInv
<1>6. ASSUME NEW w \in Worker, WorkerLost(w) PROVE LayersInv(r)'
  <2>1. /\ phase' = [s \in State |-> IF s \in Held(w) THEN "Pending" ELSE phase[s]]
        /\ depth' = depth /\ UNCHANGED <<policy, work, poisoned>>
    BY <1>6, Zenon DEF Update, WorkerLost, callVars
  <2>2. \A x \in Held(w) : phase[x] = "Inflight"
    BY <1>1 DEF Held, Base, TicketsMatch
  <2>3. Known' = Known
    BY <2>1, <2>2 DEF Known
  <2>4. \A x \in State : /\ phase'[x] = "Inflight" => phase[x] = "Inflight"
                         /\ phase'[x] \in {"Pending", "Inflight"}
                              => phase[x] \in {"Pending", "Inflight"}
    BY <2>1, <2>2
  <2>5. QED
    BY <2>1, <2>3, <2>4 DEF LayersInv
<1>7. ASSUME NEW t \in issued, NEW kind \in Outcomes(t), Commit(t, kind, Published(t.state, kind))
      PROVE  LayersInv(r)'
  <2>1. /\ t.state \in State /\ phase[t.state] = "Inflight"
        /\ CommittedPhase(t.state, kind) \in Phases \ {"Inflight"}
        /\ phase' = [phase EXCEPT ![t.state] = CommittedPhase(t.state, kind)]
        /\ \A e \in Range(work') : e[2] = depth[t.state] + 1
        /\ UNCHANGED <<policy, depth, poisoned>>
    BY <1>1, <1>7, CommitEffect
  <2>2. /\ \A x \in State : x # t.state => phase'[x] = phase[x]
        /\ phase'[t.state] \notin {"Inflight", "Absent"}
    BY <1>1, <2>1 DEF Phases
  <2>3. Known' = Known /\ Known # {}
    BY <2>1, <2>2, Zenon DEF Known
  <2>4. ASSUME policy = "Bfs", ~poisoned, NEW x \in State, phase'[x] = "Inflight"
        PROVE  /\ phase[x] = "Inflight" /\ depth[x] <= depth[t.state]
    BY <2>1, <2>2, <2>4 DEF LayersInv
  <2>5. \A x \in State : phase'[x] \in {"Pending", "Inflight"}
                           => phase[x] \in {"Pending", "Inflight"}
    BY <2>1, <2>2
  <2>6. QED
    BY <1>1, <2>1, <2>3, <2>4, <2>5 DEF LayersInv
<1>8. CASE BadAlloc
  BY <1>8 DEF BadAlloc, nodeVars, LayersInv, Known
<1>9. CASE UNCHANGED vars
  BY <1>9 DEF vars, nodeVars, callVars, LayersInv, Known
<1>10. QED
  BY <1>2, <1>3, <1>4, <1>5, <1>6, <1>7, <1>8, <1>9 DEF Next

-----------------------------------------------------------------------------
(* A known state is at most as many steps from the root as its depth says:  *)
(* the length of the shortest path is one of the bounds that the depths of  *)
(* the nodes never fall below.                                              *)
LEMMA KnownWithin ==
  ASSUME WellOrdered, IInv, NEW s \in Known
  PROVE  s \in Within(depth[s])
<1>1. /\ TypeOK /\ DepthsRealised /\ Limit \in Nat /\ s \in State /\ depth[s] \in 0..Limit
      /\ roots \subseteq State \X (0..Limit)
  BY FrontierAssumption, Zenon DEF IInv, Base, TypeOK, Known
<1> DEFINE D(u) == {d \in 0..Limit : u \in Within(d)}
           f == [u \in State |-> IF D(u) = {} THEN Limit + 1
                                 ELSE CHOOSE d \in D(u) : \A e \in D(u) : d <= e]
<1>2. ASSUME NEW u \in State, D(u) # {}
      PROVE  f[u] \in D(u) /\ \A e \in D(u) : f[u] <= e
  <2>1. D(u) \in SUBSET Nat
    OBVIOUS
  <2> HIDE DEF D
  <2>2. \E n \in D(u) : \A m \in D(u) : n <= m
    BY <1>2, <2>1, Zenon DEF WellOrdered
  <2>3. QED
    BY <1>2, <2>2, Zenon
<1>3. \A u \in State : D(u) = {} => f[u] = Limit + 1
  OBVIOUS
<1>4. \A u \in State : f[u] \in 0..(Limit + 1)
  <2>1. \A u \in State : D(u) # {} => f[u] \in 0..Limit
    BY <1>2
  <2> HIDE DEF f, D
  <2>2. QED
    BY <1>1, <1>3, <2>1
<1>5. f \in [State -> 0..(Limit + 1)]
  <2>1. f = [u \in State |-> f[u]]
    OBVIOUS
  <2> HIDE DEF f
  <2>2. QED
    BY <1>4, <2>1, Zenon
<1> HIDE DEF f
<1>6. \A r \in roots : f[r[1]] <= r[2]
  <2> TAKE r \in roots
  <2>1. r[1] \in State /\ r[2] \in 0..Limit
    BY <1>1
  <2>2. 0 \in D(r[1])
    BY <1>1, <2>1, RootWithin
  <2>3. f[r[1]] <= 0 /\ f[r[1]] \in 0..Limit
    BY <1>2, <2>1, <2>2
  <2>4. QED
    BY <2>1, <2>3
<1>7. \A x \in State : \A u \in Range(graph[x]) : f[u] <= f[x] + 1
  <2> TAKE x \in State
  <2> TAKE u \in Range(graph[x])
  <2>1. u \in State
    BY <1>1, SuccessorsAreStates
  <2>2. f[x] \in 0..(Limit + 1) /\ f[u] \in 0..(Limit + 1)
    BY <1>4, <2>1
  <2>3. CASE D(x) = {} \/ f[x] = Limit
    <3>1. f[x] = Limit + 1 \/ f[x] = Limit
      BY <1>3, <2>3
    <3>2. QED
      BY <1>1, <2>2, <3>1
  <2>4. CASE D(x) # {} /\ f[x] # Limit
    <3>1. f[x] \in 0..Limit /\ x \in Within(f[x])
      BY <1>2, <2>4
    <3>2. u \in Within(f[x] + 1) /\ f[x] + 1 \in 0..Limit
      BY <1>1, <2>1, <2>4, <3>1, WithinStep
    <3>3. f[x] + 1 \in D(u)
      BY <3>2
    <3>4. QED
      BY <1>2, <2>1, <3>3
  <2>5. QED
    BY <2>3, <2>4
<1>8. f[s] <= depth[s]
  <2>1. Underestimate(f)
    BY <1>6, <1>7 DEF Underestimate
  <2>2. QED
    BY <1>1, <1>5, <2>1 DEF DepthsRealised
<1>9. D(s) # {}
  BY <1>1, <1>3, <1>8
<1>10. f[s] \in 0..Limit /\ s \in Within(f[s])
  BY <1>1, <1>2, <1>9
<1>11. QED
  BY <1>1, <1>8, <1>10, WithinGrows

(* When nothing is pending, in flight or failed, a successor of a known     *)
(* state above the depth limit is known, one deeper at most.                *)
LEMMA SettledStep ==
  ASSUME IInv, CountsRead, Idle, status \in {"Complete", "Bounded"}, NoBudgetCut,
         NEW s \in Known, depth[s] < Limit \/ status = "Complete", NEW u \in Range(graph[s])
  PROVE  u \in Known /\ depth[u] <= depth[s] + 1
<1>1. Base /\ TypeOK /\ s \in State /\ Range(work) = {} /\ ~poisoned
  BY DEF IInv, Base, WorkInCall, Idle, Range, Known
<1>2. phase[s] \in {"Expanded", "Terminal", "DepthCut"}
  BY <1>1, StatusPhases DEF NoBudgetCut, TypeOK, Phases, Known
<1>3. phase[s] # "Terminal"
  BY <1>1 DEF Base, ResultsTrue, Range
<1>4. phase[s] # "DepthCut"
  <2>1. phase[s] = "DepthCut" => depth[s] = Limit
    BY <1>1 DEF Base, ResultsTrue
  <2>2. status = "Complete" => phase[s] # "DepthCut"
    BY <1>1, StatusPhases
  <2>3. QED
    BY <2>1, <2>2, FrontierAssumption
<1>5. phase[s] = "Expanded"
  BY <1>2, <1>3, <1>4
<1>6. QED
  BY <1>1, <1>5 DEF IInv, PathsCovered, Covered

(* Then a path of n steps has met only known states, and the ones within    *)
(* the limit no later than their depth says.                                *)
LEMMA SettledPath ==
  ASSUME WellOrdered, IInv, CountsRead, Idle, status \in {"Complete", "Bounded"}, RootsAtZero, NoBudgetCut,
         NEW n \in Nat, n <= Limit \/ status = "Complete", NEW p \in Paths(n)
  PROVE  \A i \in 0..n : p[i] \in Known /\ depth[p[i]] <= i
<1>1. /\ p \in [0..n -> State] /\ \E r \in roots : p[0] = r[1]
      /\ \A i \in 1..n : p[i] = p[i - 1] \/ p[i] \in Range(graph[p[i - 1]])
  BY DEF Paths
<1>2. Range(work) = {} /\ ~poisoned /\ depth \in [State -> 0..Limit] /\ Known \subseteq State
  <2>1. Base /\ TypeOK /\ Range(work) = {}
    BY DEF IInv, Base, WorkInCall, Idle, Range
  <2>2. QED
    BY <2>1, StatusPhases DEF TypeOK, Known
<1> DEFINE Wrong == {i \in 0..n : ~(p[i] \in Known /\ depth[p[i]] <= i)}
<1>3. SUFFICES ASSUME Wrong # {} PROVE FALSE
  OBVIOUS
<1>4. PICK k \in Wrong : \A j \in Wrong : k <= j
  <2>1. Wrong \in SUBSET Nat
    OBVIOUS
  <2>2. QED
    BY <1>3, <2>1, Zenon DEF WellOrdered
<1>5. k # 0
  <2>1. p[0] \in Known /\ depth[p[0]] <= 0
    <3>1. PICK r \in roots : p[0] = r[1]
      BY <1>1
    <3>2. r[2] = 0 /\ Covered(r[1], r[2])
      BY <1>2 DEF RootsAtZero, IInv, PathsCovered
    <3>3. QED
      BY <1>2, <3>1, <3>2 DEF Covered
  <2>2. QED
    BY <2>1
<1>6. k \in 1..n /\ k - 1 \in 0..n /\ k - 1 \notin Wrong
  BY <1>4, <1>5
<1>7. p[k - 1] \in Known /\ depth[p[k - 1]] <= k - 1
  BY <1>6
<1>8. depth[p[k - 1]] \in 0..Limit
  BY <1>2, <1>7
<1>9. CASE p[k] = p[k - 1]
  BY <1>6, <1>7, <1>8, <1>9
<1>10. CASE p[k] \in Range(graph[p[k - 1]])
  <2>1. depth[p[k - 1]] < Limit \/ status = "Complete"
    BY <1>6, <1>7, <1>8, FrontierAssumption
  <2>2. p[k] \in Known /\ depth[p[k]] <= depth[p[k - 1]] + 1
    BY <1>7, <1>10, <2>1, SettledStep, Zenon
  <2>3. depth[p[k]] \in 0..Limit
    BY <1>2, <2>2
  <2>4. QED
    BY <1>6, <1>7, <1>8, <2>2, <2>3
<1>11. QED
  BY <1>1, <1>6, <1>9, <1>10

(* So the frontier knows what its user may conclude from its status.        *)
LEMMA IInvPaths ==
  ASSUME WellOrdered, IInv, CountsRead
  PROVE  PathsKnown
<1>1. Limit \in Nat /\ Limit + 1 \in Nat /\ Limit <= Limit + 1 /\ Limit <= Limit
      /\ Limit \in 0..Limit /\ Limit + 1 \in 0..(Limit + 1)
  BY FrontierAssumption
<1> SUFFICES ASSUME Idle, status \in {"Complete", "Bounded"}, RootsAtZero, NoBudgetCut
             PROVE  /\ \A s \in Within(Limit) :
                         s \in State /\ phase[s] \in {"Expanded", "Terminal", "DepthCut"}
                    /\ status = "Complete" => Within(Limit + 1) = Within(Limit)
  BY KnownWithin DEF PathsKnown
<1>2. ASSUME NEW s \in Within(Limit)
      PROVE  s \in State /\ phase[s] \in {"Expanded", "Terminal", "DepthCut"}
  <2>1. PICK p \in Paths(Limit) : s = p[Limit]
    BY DEF Within
  <2>2. s \in Known
    BY <1>1, <2>1, SettledPath
  <2>3. Base /\ TypeOK /\ s \in State /\ phase[s] # "Absent"
    BY <2>2 DEF IInv, Base, Known
  <2>4. QED
    BY <2>3, StatusPhases DEF NoBudgetCut, TypeOK, Phases
<1>3. ASSUME status = "Complete", NEW s \in Within(Limit + 1) PROVE s \in Within(Limit)
  <2>1. PICK p \in Paths(Limit + 1) : s = p[Limit + 1]
    BY DEF Within
  <2>2. s \in Known
    BY <1>1, <1>3, <2>1, SettledPath
  <2>3. s \in Within(depth[s])
    BY <2>2, KnownWithin
  <2>4. depth[s] \in 0..Limit
    BY <2>2 DEF IInv, Base, TypeOK, Known
  <2>5. depth[s] \in Nat /\ depth[s] <= Limit
    BY <1>1, <2>4
  <2>6. QED
    BY <1>1, <2>3, <2>5, WithinGrows
<1>4. \A s \in Within(Limit) : s \in Within(Limit + 1)
  BY <1>1, WithinGrows
<1>5. QED
  BY <1>2, <1>3, <1>4
=============================================================================
