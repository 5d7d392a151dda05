--------------------------- MODULE FrontierSteps ---------------------------
(***************************************************************************)
(* The invariant of the search frontier, and what its steps do to the      *)
(* leases: the facts that the proofs about its user need too.              *)
(***************************************************************************)
EXTENDS Frontier, TLAPS

(* The indexes name exactly the pending nodes, and the counts are those of  *)
(* the nodes: IndexConsistent without the uniqueness of sequences.          *)
Indexed ==
  /\ pending = {<<sequence[s], s>> : s \in {x \in State : phase[x] = "Pending"}}
  /\ policy = "Bfs" =>
       /\ bfs_pending = {<<depth[s], sequence[s], s>> :
                            s \in {x \in State : phase[x] = "Pending"}}
       /\ \A l \in 0..Limit : active_layers[l] =
            Cardinality({s \in State : phase[s] \in {"Pending", "Inflight"} /\ depth[s] = l})
  /\ \A p \in Phases : phase_counts[p] = Cardinality({s \in State : phase[s] = p})

(* lease() selects a pending node under every policy.                       *)
LEMMA SelectablePending ==
  ASSUME TypeOK, Indexed, NEW s \in Selectable
  PROVE  s \in State /\ phase[s] = "Pending"
<1>1. CASE policy = "Bfs"
  <2>1. PICK q \in bfs_pending : s = q[3]
    BY <1>1, Zenon DEF Selectable
  <2>2. QED
    BY <1>1, <2>1 DEF Indexed
<1>2. CASE policy # "Bfs"
  <2>1. policy \in {"Priority", "Dfs"}
    BY <1>2, FrontierAssumption DEF TypeOK
  <2>2. PICK q \in pending : s = q[2]
    BY <2>1, Zenon DEF Selectable
  <2>3. QED
    BY <2>2 DEF Indexed
<1>3. QED
  BY <1>1, <1>2

(* A node is in flight exactly while it has a ticket; the ticket is its own,*)
(* permits an expansion exactly below the limit, and the node is never      *)
(* deeper than the ticket says.                                             *)
TicketsMatch ==
  \A s \in State :
    /\ phase[s] = "Inflight" <=> ticket[s] # NoTicket
    /\ ticket[s] # NoTicket =>
         /\ ticket[s].state = s
         /\ ticket[s].may_expand = (ticket[s].depth < Limit)
         /\ depth[s] <= ticket[s].depth

(* What a result says of its node.                                          *)
ResultsTrue ==
  \A s \in State :
    /\ phase[s] = "Expanded" => depth[s] < Limit /\ successors[s] = graph[s]
    /\ phase[s] = "DepthCut" => depth[s] = Limit
    /\ phase[s] = "Terminal" => graph[s] = <<>>

SequencesUnique ==
  /\ \A s \in Known : sequence[s] < next_sequence
  /\ \A s, u \in Known : sequence[s] = sequence[u] => s = u

Base == TypeOK /\ Indexed /\ TicketsMatch /\ ResultsTrue /\ SequencesUnique

(* Leases.  Every ticket a node carries was handed out, no id was handed    *)
(* out twice, and a ticket permits an expansion exactly below the limit.    *)
LeaseIds ==
  /\ \A t \in issued : t.lease_id <= next_lease /\ t.may_expand = (t.depth < Limit)
  /\ \A t, u \in issued : t.lease_id = u.lease_id => t = u
  /\ \A s \in State : ticket[s] # NoTicket => ticket[s] \in issued

(* lease() hands a fresh ticket for one pending node out.                   *)
LEMMA LeaseEffect ==
  ASSUME Base, NEW w \in Worker, Lease(w)
  PROVE  \E s \in Selectable :
           /\ s \in State /\ phase[s] = "Pending" /\ NewTicket(s, w) \in Tickets
           /\ phase' = [phase EXCEPT ![s] = "Inflight"]
           /\ ticket' = [ticket EXCEPT ![s] = NewTicket(s, w)]
           /\ issued' = issued \cup {NewTicket(s, w)} /\ next_lease' = next_lease + 1
           /\ UNCHANGED <<graph, policy, depth, call, work, roots, poisoned>>
<1>1. PICK s \in Selectable :
        /\ Update({s}, [phase EXCEPT ![s] = "Inflight"], depth, sequence)
        /\ ticket' = [ticket EXCEPT ![s] = NewTicket(s, w)]
        /\ issued' = issued \cup {NewTicket(s, w)}
  BY Zenon DEF Lease
<1>2. s \in State /\ phase[s] = "Pending"
  BY SelectablePending DEF Base
<1>3. phase' = [phase EXCEPT ![s] = "Inflight"] /\ depth' = depth
  BY <1>1, Zenon DEF Update
<1>4. /\ UNCHANGED <<graph, policy, call, work, roots, poisoned>>
      /\ next_lease' = next_lease + 1 /\ next_lease < MaxLeases
  BY Zenon DEF Lease, callVars
<1>5. NewTicket(s, w) \in Tickets
  <2>1. next_lease + 1 \in 1..MaxLeases
    BY <1>4, FrontierAssumption DEF Base, TypeOK
  <2>2. depth[s] \in 0..Limit /\ (depth[s] < Limit) \in BOOLEAN
    BY <1>2 DEF Base, TypeOK
  <2>3. QED
    BY <1>2, <2>1, <2>2, Zenon DEF NewTicket, Tickets
<1>6. QED
  BY <1>1, <1>2, <1>3, <1>4, <1>5, Zenon

(* Every other step hands none out, and only takes tickets back.            *)
LEMMA TicketsReturn ==
  ASSUME Base, [Next]_vars, \A w \in Worker : ~Lease(w)
  PROVE  /\ UNCHANGED <<issued, next_lease>>
         /\ \A x \in State : ticket'[x] = ticket[x] \/ ticket'[x] = NoTicket
<1>0. ticket \in [State -> Tickets \cup {NoTicket}]
  BY DEF Base, TypeOK
<1>1. ASSUME NEW a \in Admissions, Admit(a[1], a[2])
      PROVE  UNCHANGED <<issued, next_lease, ticket>>
  BY <1>1 DEF Admit, nodeVars, countVars
<1>2. CASE Propagate
  BY <1>2 DEF Propagate, histVars
<1>3. CASE Return
  BY <1>3 DEF Return, nodeVars, histVars
<1>4. ASSUME NEW w \in Worker, WorkerLost(w)
      PROVE  /\ UNCHANGED <<issued, next_lease>>
             /\ \A x \in State : ticket'[x] = ticket[x] \/ ticket'[x] = NoTicket
  BY <1>4 DEF WorkerLost, histVars
<1>5. ASSUME NEW t \in issued, NEW kind \in Outcomes(t), Commit(t, kind, Published(t.state, kind))
      PROVE  /\ UNCHANGED <<issued, next_lease>>
             /\ \A x \in State : ticket'[x] = ticket[x] \/ ticket'[x] = NoTicket
  BY <1>0, <1>5 DEF Commit, countVars, histVars
<1>6. CASE BadAlloc
  BY <1>6 DEF BadAlloc, nodeVars, countVars, histVars
<1>7. CASE UNCHANGED vars
  BY <1>7 DEF vars, nodeVars, countVars, histVars
<1>8. QED
  BY <1>1, <1>2, <1>3, <1>4, <1>5, <1>6, <1>7, Zenon DEF Next

(* A step keeps the lease ids unique and revives no ticket.                 *)
LEMMA LeaseStep ==
  ASSUME Base, LeaseIds, [Next]_vars
  PROVE  /\ LeaseIds'
         /\ \A t \in issued : ticket[t.state] # t => ticket'[t.state] # t
<1>1. /\ issued \subseteq Tickets /\ next_lease \in Int /\ NoTicket \notin Tickets
      /\ ticket \in [State -> Tickets \cup {NoTicket}]
      /\ \A t \in Tickets : t.state \in State /\ t.lease_id \in Int
  BY FrontierAssumption DEF Base, TypeOK, Tickets
<1>2. ASSUME NEW w \in Worker, Lease(w)
      PROVE  /\ LeaseIds'
             /\ \A t \in issued : ticket[t.state] # t => ticket'[t.state] # t
  <2>1. PICK s \in State :
          /\ NewTicket(s, w) \in Tickets
          /\ ticket' = [ticket EXCEPT ![s] = NewTicket(s, w)]
          /\ issued' = issued \cup {NewTicket(s, w)} /\ next_lease' = next_lease + 1
    BY <1>2, LeaseEffect
  <2>2. /\ NewTicket(s, w).lease_id = next_lease + 1 /\ NewTicket(s, w).state = s
        /\ NewTicket(s, w).may_expand = (NewTicket(s, w).depth < Limit)
    BY DEF NewTicket
  <2>3. \A t \in issued : t.lease_id <= next_lease /\ t # NewTicket(s, w)
    BY <1>1, <2>2 DEF LeaseIds
  <2>4. /\ \A t \in issued' : t.lease_id <= next_lease' /\ t.may_expand = (t.depth < Limit)
        /\ \A t, u \in issued' : t.lease_id = u.lease_id => t = u
    BY <1>1, <2>1, <2>2, <2>3 DEF LeaseIds
  <2>5. \A x \in State : ticket'[x] # NoTicket => ticket'[x] \in issued'
    BY <1>1, <2>1 DEF LeaseIds
  <2>6. \A t \in issued : ticket[t.state] # t => ticket'[t.state] # t
    BY <1>1, <2>1, <2>3
  <2>7. QED
    BY <2>4, <2>5, <2>6 DEF LeaseIds
<1>3. CASE \A w \in Worker : ~Lease(w)
  <2>1. /\ UNCHANGED <<issued, next_lease>>
        /\ \A x \in State : ticket'[x] = ticket[x] \/ ticket'[x] = NoTicket
    BY <1>3, TicketsReturn
  <2>2. QED
    BY <1>1, <2>1 DEF LeaseIds
<1>4. QED
  BY <1>2, <1>3

(* What no step of the frontier undoes.                                     *)
LEMMA FrontierWorld ==
  ASSUME Base, [Next]_vars
  PROVE  graph' = graph /\ issued \subseteq issued' /\ roots \subseteq roots'
<1>1. ASSUME NEW a \in Admissions, Admit(a[1], a[2])
      PROVE  graph' = graph /\ issued' = issued /\ roots \subseteq roots'
  BY <1>1 DEF Admit
<1>2. CASE Propagate
  BY <1>2 DEF Propagate, histVars
<1>3. CASE Return
  BY <1>3 DEF Return, histVars
<1>4. ASSUME NEW w \in Worker, Lease(w)
      PROVE  graph' = graph /\ issued \subseteq issued' /\ roots' = roots
  BY <1>4 DEF Lease
<1>5. ASSUME NEW w \in Worker, WorkerLost(w)
      PROVE  graph' = graph /\ issued' = issued /\ roots' = roots
  BY <1>5 DEF WorkerLost, histVars
<1>6. ASSUME NEW t \in issued, NEW kind \in Outcomes(t), Commit(t, kind, Published(t.state, kind))
      PROVE  graph' = graph /\ issued' = issued /\ roots' = roots
  BY <1>6 DEF Commit, histVars
<1>7. CASE BadAlloc
  BY <1>7 DEF BadAlloc, histVars
<1>8. CASE UNCHANGED vars
  BY <1>8 DEF vars, histVars
<1>9. QED
  BY <1>1, <1>2, <1>3, <1>4, <1>5, <1>6, <1>7, <1>8, Zenon DEF Next

(* The successors of a state are states.                                    *)
LEMMA SuccessorsAreStates ==
  ASSUME TypeOK, NEW s \in State
  PROVE  /\ Range(graph[s]) \subseteq State
         /\ \A i \in 1..Len(graph[s]) : graph[s][i] \in Range(graph[s])
<1>1. graph[s] \in Seq(State)
  BY FrontierAssumption DEF TypeOK
<1>2. \A i \in DOMAIN graph[s] : graph[s][i] \in State
  BY <1>1
<1>3. DOMAIN graph[s] = 1..Len(graph[s])
  BY <1>1
<1>4. QED
  BY <1>2, <1>3 DEF Range

-----------------------------------------------------------------------------
(* Paths.  A path may pause, take an edge, and start at a root.              *)
LEMMA WithinGrows ==
  ASSUME NEW d \in Nat, NEW e \in Nat, d <= e, NEW s \in Within(d)
  PROVE  s \in Within(e)
<1>1. PICK p \in Paths(d) : s = p[d]
  BY DEF Within
<1>2. /\ p \in [0..d -> State] /\ \E r \in roots : p[0] = r[1]
      /\ \A i \in 1..d : p[i] = p[i - 1] \/ p[i] \in Range(graph[p[i - 1]])
  BY DEF Paths
<1> DEFINE q == [i \in 0..e |-> IF i <= d THEN p[i] ELSE p[d]]
<1>3. q \in [0..e -> State] /\ q[0] = p[0] /\ q[e] = p[d]
  BY <1>2
<1>4. ASSUME NEW i \in 1..e PROVE q[i] = q[i - 1] \/ q[i] \in Range(graph[q[i - 1]])
  <2>1. CASE i <= d
    <3>1. q[i] = p[i] /\ q[i - 1] = p[i - 1] /\ i \in 1..d
      BY <2>1
    <3>2. QED
      BY <1>2, <3>1
  <2>2. CASE ~(i <= d)
    BY <2>2
  <2>3. QED
    BY <2>1, <2>2
<1> HIDE DEF q
<1>5. q \in Paths(e)
  BY <1>2, <1>3, <1>4 DEF Paths
<1>6. QED
  BY <1>1, <1>3, <1>5 DEF Within

LEMMA WithinStep ==
  ASSUME NEW d \in Nat, NEW s \in Within(d), NEW u \in State, u \in Range(graph[s])
  PROVE  u \in Within(d + 1)
<1>1. PICK p \in Paths(d) : s = p[d]
  BY DEF Within
<1>2. /\ p \in [0..d -> State] /\ \E r \in roots : p[0] = r[1]
      /\ \A i \in 1..d : p[i] = p[i - 1] \/ p[i] \in Range(graph[p[i - 1]])
  BY DEF Paths
<1> DEFINE q == [i \in 0..(d + 1) |-> IF i <= d THEN p[i] ELSE u]
<1>3. q \in [0..(d + 1) -> State] /\ q[0] = p[0] /\ q[d + 1] = u
  BY <1>2
<1>4. ASSUME NEW i \in 1..(d + 1) PROVE q[i] = q[i - 1] \/ q[i] \in Range(graph[q[i - 1]])
  <2>1. CASE i <= d
    <3>1. q[i] = p[i] /\ q[i - 1] = p[i - 1] /\ i \in 1..d
      BY <2>1
    <3>2. QED
      BY <1>2, <3>1
  <2>2. CASE ~(i <= d)
    <3>1. q[i] = u /\ q[i - 1] = p[d]
      BY <2>2
    <3>2. QED
      BY <1>1, <3>1
  <2>3. QED
    BY <2>1, <2>2
<1> HIDE DEF q
<1>5. q \in Paths(d + 1)
  BY <1>2, <1>3, <1>4 DEF Paths
<1>6. QED
  BY <1>3, <1>5 DEF Within

LEMMA RootWithin ==
  ASSUME NEW r \in roots, r[1] \in State
  PROVE  r[1] \in Within(0)
<1> DEFINE q == [i \in 0..0 |-> r[1]]
<1>1. q \in [0..0 -> State] /\ q[0] = r[1] /\ 1..0 = {}
  OBVIOUS
<1> HIDE DEF q
<1>2. q \in Paths(0)
  BY <1>1 DEF Paths
<1>3. QED
  BY <1>1, <1>2 DEF Within

(* What a search that starts at depth 0 and cuts no state for its model     *)
(* knows of the paths of the program: a known state is no further from the  *)
(* root than its depth says, and a search that is settled has seen every    *)
(* state within the depth limit and, when it is complete, every other one.  *)
RootsAtZero == \A r \in roots : r[2] = 0

NoBudgetCut == \A s \in State : phase[s] # "ModelBudget"

PathsKnown ==
  /\ \A s \in Known : s \in Within(depth[s])
  /\ (Idle /\ status \in {"Complete", "Bounded"} /\ RootsAtZero /\ NoBudgetCut) =>
       /\ \A s \in Within(Limit) :
            s \in State /\ phase[s] \in {"Expanded", "Terminal", "DepthCut"}
       /\ status = "Complete" => Within(Limit + 1) = Within(Limit)

-----------------------------------------------------------------------------
(* Popping the worklist removes its first entry and nothing else.           *)
LEMMA RangeTail ==
  ASSUME NEW T, NEW q \in Seq(T), q # <<>>
  PROVE  /\ Head(q) \in T /\ Tail(q) \in Seq(T)
         /\ Range(q) = {Head(q)} \cup Range(Tail(q))
<1>1. /\ Head(q) \in T /\ Tail(q) \in Seq(T)
      /\ Len(Tail(q)) = Len(q) - 1 /\ Len(q) \in Nat \ {0}
      /\ DOMAIN q = 1..Len(q) /\ DOMAIN Tail(q) = 1..(Len(q) - 1)
      /\ Head(q) = q[1]
      /\ \A i \in 1..(Len(q) - 1) : Tail(q)[i] = q[i + 1]
  OBVIOUS
<1>2. \A i \in 1..Len(q) : i = 1 \/ (i - 1 \in 1..(Len(q) - 1) /\ Tail(q)[i - 1] = q[i])
  BY <1>1
<1>3. Range(q) \subseteq {Head(q)} \cup Range(Tail(q))
  <2>1. ASSUME NEW i \in 1..Len(q)
        PROVE  q[i] \in {Head(q)} \cup Range(Tail(q))
    <3>1. CASE i = 1
      BY <1>1, <3>1
    <3>2. CASE i # 1
      <4>1. i - 1 \in DOMAIN Tail(q) /\ Tail(q)[i - 1] = q[i]
        BY <1>1, <1>2, <3>2
      <4>2. QED
        BY <4>1, Zenon DEF Range
    <3>3. QED
      BY <3>1, <3>2
  <2>2. QED
    BY <1>1, <2>1 DEF Range
<1>4. {Head(q)} \cup Range(Tail(q)) \subseteq Range(q)
  <2>1. \A i \in 1..(Len(q) - 1) : i + 1 \in 1..Len(q)
    BY <1>1
  <2>2. 1 \in 1..Len(q)
    BY <1>1
  <2>3. QED
    BY <1>1, <2>1, <2>2 DEF Range
<1>5. QED
  BY <1>1, <1>3, <1>4

(* Pushing a list on the worklist adds its entries and nothing else.        *)
LEMMA RangeConcat ==
  ASSUME NEW T, NEW p \in Seq(T), NEW q \in Seq(T)
  PROVE  p \o q \in Seq(T) /\ Range(p \o q) = Range(p) \cup Range(q)
<1>1. /\ p \o q \in Seq(T) /\ Len(p) \in Nat /\ Len(q) \in Nat
      /\ DOMAIN p = 1..Len(p) /\ DOMAIN q = 1..Len(q)
      /\ DOMAIN (p \o q) = 1..(Len(p) + Len(q))
      /\ \A i \in 1..(Len(p) + Len(q)) :
           (p \o q)[i] = IF i <= Len(p) THEN p[i] ELSE q[i - Len(p)]
  OBVIOUS
<1>2. Range(p \o q) \subseteq Range(p) \cup Range(q)
  <2>1. ASSUME NEW i \in 1..(Len(p) + Len(q))
        PROVE  (p \o q)[i] \in Range(p) \cup Range(q)
    <3>1. CASE i <= Len(p)
      BY <1>1, <3>1 DEF Range
    <3>2. CASE ~(i <= Len(p))
      <4>1. i - Len(p) \in 1..Len(q) /\ (p \o q)[i] = q[i - Len(p)]
        BY <1>1, <3>2
      <4>2. QED
        BY <1>1, <4>1 DEF Range
    <3>3. QED
      BY <3>1, <3>2
  <2>2. QED
    BY <1>1, <2>1 DEF Range
<1>3. Range(p) \subseteq Range(p \o q)
  <2>1. \A i \in 1..Len(p) : i \in 1..(Len(p) + Len(q)) /\ (p \o q)[i] = p[i]
    BY <1>1
  <2>2. QED
    BY <1>1, <2>1 DEF Range
<1>4. Range(q) \subseteq Range(p \o q)
  <2>1. \A i \in 1..Len(q) : /\ i + Len(p) \in 1..(Len(p) + Len(q))
                             /\ (p \o q)[i + Len(p)] = q[i]
    BY <1>1
  <2>2. \A i \in DOMAIN q : \E j \in DOMAIN (p \o q) : (p \o q)[j] = q[i]
    BY <1>1, <2>1, Zenon
  <2>3. QED
    BY <2>2, Zenon DEF Range
<1>5. QED
  BY <1>1, <1>2, <1>3, <1>4

(* The entries that publishing a successor list at depth d adds.            *)
LEMMA RangeEntries ==
  ASSUME NEW sc \in Seq(State), NEW d \in 0..Limit
  PROVE  /\ [i \in DOMAIN sc |-> <<sc[i], d>>] \in Seq(State \X (0..Limit))
         /\ Range([i \in DOMAIN sc |-> <<sc[i], d>>]) = {<<u, d>> : u \in Range(sc)}
<1>1. Len(sc) \in Nat /\ DOMAIN sc = 1..Len(sc) /\ \A i \in 1..Len(sc) : sc[i] \in State
  OBVIOUS
<1>2. [i \in DOMAIN sc |-> <<sc[i], d>>] \in [1..Len(sc) -> State \X (0..Limit)]
  BY <1>1
<1>3. [i \in DOMAIN sc |-> <<sc[i], d>>] \in Seq(State \X (0..Limit))
  BY <1>1, <1>2
<1>4. Range([i \in DOMAIN sc |-> <<sc[i], d>>]) = {<<u, d>> : u \in Range(sc)}
  BY DEF Range
<1>5. QED
  BY <1>3, <1>4

(* A popped worklist entry is a state and a depth within the limit.         *)
LEMMA WorkHead ==
  ASSUME TypeOK, work # <<>>
  PROVE  /\ Head(work)[1] \in State /\ Head(work)[2] \in 0..Limit
         /\ Head(work) = <<Head(work)[1], Head(work)[2]>>
         /\ Tail(work) \in Seq(State \X (0..Limit))
         /\ Range(work) = {Head(work)} \cup Range(Tail(work))
<1>1. /\ Head(work) \in State \X (0..Limit) /\ Tail(work) \in Seq(State \X (0..Limit))
      /\ Range(work) = {Head(work)} \cup Range(Tail(work))
  BY RangeTail, Zenon DEF TypeOK
<1>2. QED
  BY <1>1

(* The entries an improved node pushes are its successors, one deeper.      *)
LEMMA PushedEntries ==
  ASSUME Base, NEW s \in State, NEW d \in 0..Limit, d < depth[s]
  PROVE  /\ Pushed(s, d) \in Seq(State \X (0..Limit))
         /\ Range(Pushed(s, d)) =
              IF phase[s] = "Expanded" THEN {<<u, d + 1>> : u \in Range(graph[s])} ELSE {}
<1>1. CASE phase[s] = "Expanded"
  <2>1. successors[s] = graph[s] /\ successors[s] \in Seq(State) /\ depth[s] \in 0..Limit
    BY <1>1 DEF Base, ResultsTrue, TypeOK
  <2>2. d + 1 \in 0..Limit
    BY <2>1, FrontierAssumption
  <2>3. Pushed(s, d) = [i \in DOMAIN graph[s] |-> <<graph[s][i], d + 1>>]
    BY <1>1, <2>1 DEF Pushed
  <2>4. /\ Pushed(s, d) \in Seq(State \X (0..Limit))
        /\ Range(Pushed(s, d)) = {<<u, d + 1>> : u \in Range(graph[s])}
    <3>1. graph[s] \in Seq(State)
      BY <2>1
    <3>2. /\ [i \in DOMAIN graph[s] |-> <<graph[s][i], d + 1>>] \in Seq(State \X (0..Limit))
          /\ Range([i \in DOMAIN graph[s] |-> <<graph[s][i], d + 1>>]) =
               {<<u, d + 1>> : u \in Range(graph[s])}
      BY <2>2, <3>1, RangeEntries, Zenon
    <3>3. QED
      BY <2>3, <3>2, Zenon
  <2>5. QED
    BY <1>1, <2>4, Zenon
<1>2. CASE phase[s] # "Expanded"
  <2>1. Pushed(s, d) = <<>>
    BY <1>2 DEF Pushed
  <2>2. Range(<<>>) = {}
    BY DEF Range
  <2>3. QED
    BY <1>2, <2>1, <2>2
<1>3. QED
  BY <1>1, <1>2

(* What propagate() never touches.                                          *)
PropagateFrame ==
  UNCHANGED <<graph, policy, ticket, successors, next_lease, committed, requeued, call,
              roots, issued, poisoned>>

(* What a result that Outcomes allows says of the state that produced it.   *)
LEMMA OutcomeFacts ==
  ASSUME Base, NEW t \in issued, NEW kind \in Outcomes(t), Current(t)
  PROVE  /\ t.state \in State /\ phase[t.state] = "Inflight" /\ ticket[t.state] = t
         /\ t # NoTicket /\ CommittedPhase(t.state, kind) \in Phases
         /\ kind = "Expanded" =>
              /\ depth[t.state] < Limit /\ depth[t.state] + 1 \in 0..Limit
              /\ graph[t.state] \in Seq(State)
         /\ kind = "Terminal" => graph[t.state] = <<>>
         /\ kind \in {"Expanded", "Terminal", "DepthCut", "ModelBudget", "Failure"}
<1>1. /\ t \in Tickets /\ t.state \in State /\ t # NoTicket /\ t.depth \in 0..Limit
      /\ depth[t.state] \in 0..Limit /\ graph \in [State -> Seq(State)]
  BY FrontierAssumption DEF Base, TypeOK, Tickets
<1>2. phase[t.state] = "Inflight" /\ ticket[t.state] = t
  BY DEF Current
<1>3. t.may_expand = (t.depth < Limit) /\ depth[t.state] <= t.depth
  BY <1>1, <1>2 DEF Base, TicketsMatch
<1>4. /\ kind \in {"Expanded", "Terminal", "DepthCut", "ModelBudget", "Failure"}
      /\ kind = "Expanded" => t.may_expand
      /\ kind = "Terminal" => graph[t.state] = <<>>
  BY DEF Outcomes
<1>5. CommittedPhase(t.state, kind) \in Phases
  BY <1>4 DEF CommittedPhase, Phases
<1>6. kind = "Expanded" => depth[t.state] < Limit /\ depth[t.state] + 1 \in 0..Limit
  <2>1. Limit \in Nat
    BY FrontierAssumption
  <2>2. kind = "Expanded" => t.depth < Limit
    BY <1>3, <1>4, Zenon
  <2>3. depth[t.state] <= t.depth /\ depth[t.state] \in 0..Limit /\ t.depth \in 0..Limit
    BY <1>1, <1>3
  <2>4. QED
    BY <2>1, <2>2, <2>3
<1>7. graph[t.state] \in Seq(State)
  BY <1>1
<1>8. QED
  BY <1>1, <1>2, <1>4, <1>5, <1>6, <1>7

(* What commit() queues for propagate().                                    *)
LEMMA PublishedEntries ==
  ASSUME Base, NEW t \in issued, NEW kind \in Outcomes(t), Commit(t, kind, Published(t.state, kind))
  PROVE  /\ Published(t.state, kind) \in Seq(State)
         /\ work' \in Seq(State \X (0..Limit))
         /\ Range(work') = {<<u, depth[t.state] + 1>> : u \in Range(Published(t.state, kind))}
<1> DEFINE s == t.state
           succ == Published(s, kind)
<1>1. work' = [i \in DOMAIN succ |-> <<succ[i], depth[s] + 1>>]
  BY Zenon DEF Commit, Published
<1>2. CASE kind = "Expanded"
  <2>1. succ \in Seq(State) /\ depth[s] + 1 \in 0..Limit
    BY <1>2, OutcomeFacts, Zenon DEF Commit, Published
  <2>2. QED
    BY <1>1, <2>1, RangeEntries, Zenon
<1>3. CASE kind # "Expanded"
  <2>1. succ = <<>> /\ <<>> \in Seq(State) /\ <<>> \in Seq(State \X (0..Limit))
    BY <1>3 DEF Published
  <2>2. work' = <<>>
    <3>1. DOMAIN succ = {} /\ 1..0 = {}
      BY <2>1
    <3>2. work' \in [1..0 -> State \X (0..Limit)]
      BY <1>1, <3>1
    <3>3. work' \in Seq(State \X (0..Limit)) /\ DOMAIN work' = {}
      BY <3>1, <3>2
    <3>4. Len(work') = 0
      BY <3>3
    <3>5. QED
      BY <3>3, <3>4
  <2>3. Range(<<>>) = {}
    BY DEF Range
  <2>4. QED
    BY <2>1, <2>2, <2>3, Zenon
<1>4. QED
  BY <1>2, <1>3

(* What the incremental counts say: a phase that some node is in is         *)
(* counted, and so is the layer of an unfinished node.                      *)
CountsRead ==
  /\ \A s \in State : phase[s] \in Phases => phase_counts[phase[s]] > 0
  /\ policy = "Bfs" => \A s \in State :
       phase[s] \in {"Pending", "Inflight"} => active_layers[depth[s]] > 0

(* Every nonempty set of natural numbers has a least element.               *)
WellOrdered == \A S \in SUBSET Nat : S # {} => \E n \in S : \A m \in S : n <= m
=============================================================================
