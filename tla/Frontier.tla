------------------------------ MODULE Frontier ------------------------------
(***************************************************************************)
(* The search frontier of the parallel explorer                            *)
(* (src/src/core/search/frontier.{h,cpp}).                                 *)
(*                                                                         *)
(* One coordinator owns the frontier and serialises the calls.  A state of *)
(* the program under test is a member of State; what executing it yields   *)
(* is graph[s], the list of successor states in enumeration order.  The    *)
(* loop of propagate() is split into one step per worklist entry, so that  *)
(* no recursion is needed: while call # "none" a member function is on the *)
(* stack and no other one can start.                                       *)
(***************************************************************************)
EXTENDS Integers, Sequences, FiniteSets, Functions

CONSTANTS
  State,       \* StateKey: the states of the program under test
  Worker,      \* WorkerId
  Graphs,      \* the programs considered: each maps a state to its successors
  Admissions,  \* the <<state, depth>> pairs the owner may pass to admit()
  Limit,       \* limit_, the depth limit
  Policies,    \* the policies considered
  Window,      \* window of lease(worker, scorer, window); 1 is plain lease()
  MaxStates,   \* max_states_
  MaxLeases,   \* stands for UINT64_MAX, the last lease id
  NoTicket     \* an empty std::optional<Ticket>

Phases == {"Pending", "Inflight", "Expanded", "Terminal", "DepthCut",
           "ModelBudget", "Failure"}

Tickets == [state : State, worker : Worker, lease_id : 1..MaxLeases,
            depth : 0..Limit, may_expand : BOOLEAN]

ASSUME FrontierAssumption ==
  /\ Limit \in Nat /\ Window \in Nat \ {0}
  /\ MaxStates \in Nat \ {0} /\ MaxLeases \in Nat
  /\ IsFiniteSet(State)
  /\ Graphs \subseteq [State -> Seq(State)]
  /\ Admissions \subseteq State \X (0..Limit)
  /\ Policies \subseteq {"Dfs", "Bfs", "Priority"}
  /\ NoTicket \notin Tickets

VARIABLES
  graph,          \* the program under test; never changes
  policy,         \* policy_; never changes
  phase,          \* Node::phase, "Absent" for a key that is not in nodes_
  depth,          \* Node::depth
  sequence,       \* Node::sequence
  ticket,         \* Node::ticket
  successors,     \* Node::successors
  next_sequence,  \* next_sequence_
  next_lease,     \* next_lease_
  poisoned,       \* poisoned_
  pending,        \* pending_: pairs <<sequence, key>>
  bfs_pending,    \* bfs_pending_: triples <<depth, sequence, key>>
  active_layers,  \* active_layers_, 0 for a missing layer
  phase_counts,   \* phase_counts_
  committed,      \* counters_.committed
  requeued,       \* counters_.requeued
  call,           \* the mutator on the stack: "none", "admit" or "commit"
  work,           \* the worklist of propagate(), next entry first
  roots,          \* history: the admissions made so far
  issued          \* history: the tickets lease() returned, held by the callers

nodeVars  == <<phase, depth, sequence, ticket, successors>>
indexVars == <<pending, bfs_pending, active_layers, phase_counts>>
countVars == <<next_sequence, next_lease, committed, requeued>>
callVars  == <<call, work>>
histVars  == <<roots, issued>>
vars == <<graph, policy, nodeVars, indexVars, countVars, callVars, histVars, poisoned>>

-----------------------------------------------------------------------------
Known == {s \in State : phase[s] # "Absent"}

Idle == call = "none" /\ ~poisoned

(* The phases whose nodes keep their layer open in active_layers_.          *)
ActiveMutant(p) == p = "Pending"
Active(p) == p \in {"Pending", "Inflight"}

(* update() for every key of S: index_remove of the old node, index_add of  *)
(* the new one, whose phase, depth and sequence are ph, dp and sq.          *)
Update(S, ph, dp, sq) ==
  LET out == {s \in S : phase[s] = "Pending"}
      in  == {s \in S : ph[s] = "Pending"}
  IN  /\ pending' = (pending \ {<<sequence[s], s>> : s \in out})
                       \cup {<<sq[s], s>> : s \in in}
      /\ bfs_pending' = IF policy = "Bfs"
           THEN (bfs_pending \ {<<depth[s], sequence[s], s>> : s \in out})
                  \cup {<<dp[s], sq[s], s>> : s \in in}
           ELSE bfs_pending
      /\ active_layers' = IF policy = "Bfs"
           THEN [l \in 0..Limit |-> active_layers[l]
                   - Cardinality({s \in S : Active(phase[s]) /\ depth[s] = l})
                   + Cardinality({s \in S : Active(ph[s]) /\ dp[s] = l})]
           ELSE active_layers
      /\ phase_counts' = [p \in Phases |-> phase_counts[p]
           - Cardinality({s \in S : phase[s] = p}) + Cardinality({s \in S : ph[s] = p})]
      /\ phase' = ph /\ depth' = dp /\ sequence' = sq /\ policy' = policy

Init ==
  /\ graph \in Graphs /\ policy \in Policies
  /\ phase = [s \in State |-> "Absent"]
  /\ depth = [s \in State |-> 0]
  /\ sequence = [s \in State |-> 0]
  /\ ticket = [s \in State |-> NoTicket]
  /\ successors = [s \in State |-> <<>>]
  /\ next_sequence = 0 /\ next_lease = 0
  /\ poisoned = FALSE
  /\ pending = {} /\ bfs_pending = {}
  /\ active_layers = [l \in 0..Limit |-> 0]
  /\ phase_counts = [p \in Phases |-> 0]
  /\ committed = 0 /\ requeued = 0
  /\ call = "none" /\ work = <<>>
  /\ roots = {} /\ issued = {}

-----------------------------------------------------------------------------
(* admit(): propagate() runs on the one entry.                              *)
Admit(s, d) ==
  /\ Idle
  /\ d <= Limit
  /\ s \in Known \/ Cardinality(Known) < MaxStates
  /\ call' = "admit" /\ work' = << <<s, d>> >>
  /\ roots' = roots \cup {<<s, d>>}
  /\ UNCHANGED <<graph, policy, nodeVars, indexVars, countVars, issued, poisoned>>

(* One entry of the worklist, for a key that is not in nodes_.              *)
PropagateInsert(s, d) ==
  /\ s \notin Known
  /\ Cardinality(Known) < MaxStates
  /\ Update({s}, [phase EXCEPT ![s] = "Pending"], [depth EXCEPT ![s] = d],
            [sequence EXCEPT ![s] = next_sequence])
  /\ next_sequence' = next_sequence + 1
  /\ work' = Tail(work)

(* ... for a known key that is at least as shallow already.                 *)
PropagateDuplicate(s, d) ==
  /\ s \in Known /\ d >= depth[s]
  /\ work' = Tail(work)
  /\ UNCHANGED <<phase, depth, sequence, indexVars, next_sequence>>

(* What an improved node's new depth means for its own successors.          *)
Pushed(s, d) ==
  IF phase[s] = "Expanded"
  THEN [i \in DOMAIN successors[s] |-> <<successors[s][i], d + 1>>] ELSE <<>>

(* ... for a known key that becomes shallower.                              *)
PropagateImprove(s, d) ==
  /\ s \in Known /\ d < depth[s]
  /\ Update({s}, [phase EXCEPT ![s] = IF @ = "DepthCut" THEN "Pending" ELSE @],
            [depth EXCEPT ![s] = d], sequence)
  /\ work' = Pushed(s, d) \o Tail(work)
  /\ UNCHANGED next_sequence

Propagate ==
  /\ call # "none" /\ work # <<>>
  /\ LET s == Head(work)[1]
         d == Head(work)[2]
     IN  \/ PropagateInsert(s, d)
         \/ PropagateDuplicate(s, d)
         \/ PropagateImprove(s, d)
  /\ UNCHANGED <<graph, policy, ticket, successors, next_lease, committed, requeued, call,
                 histVars, poisoned>>

(* The worklist is empty: admit() or commit() returns to the owner.         *)
Return ==
  /\ call # "none" /\ work = <<>>
  /\ call' = "none"
  /\ committed' = IF call = "commit" THEN committed + 1 ELSE committed
  /\ UNCHANGED <<graph, policy, nodeVars, indexVars, next_sequence, next_lease, requeued, work,
                 histVars, poisoned>>

-----------------------------------------------------------------------------
FirstLayerMutant == CHOOSE l \in {p[1] : p \in bfs_pending} :
                      \A p \in bfs_pending : l <= p[1]
FirstLayer ==
  CHOOSE l \in {k \in 0..Limit : active_layers[k] > 0} :
    \A k \in 0..Limit : active_layers[k] > 0 => l <= k

(* The keys lease() may select.  The scores of the locality callback and of *)
(* the priority callback are the caller's: any key it can see may win.      *)
Selectable ==
  CASE policy = "Priority" -> {p[2] : p \in pending}
    [] policy = "Dfs" ->
         {p[2] : p \in {q \in pending :
            Cardinality({r \in pending : r[1] > q[1]}) < Window}}
    [] policy = "Bfs" ->
         {p[3] : p \in {q \in bfs_pending :
            /\ q[1] = FirstLayer
            /\ Cardinality({r \in bfs_pending : r[1] = q[1] /\ r[2] < q[2]}) < Window}}

(* finalize_lease(): the ticket handed out for s.                           *)
NewTicketMutant(s, w) ==
  [state |-> s, worker |-> w, lease_id |-> sequence[s] + 1, depth |-> depth[s],
   may_expand |-> depth[s] < Limit]
NewTicket(s, w) ==
  [state |-> s, worker |-> w, lease_id |-> next_lease + 1, depth |-> depth[s],
   may_expand |-> depth[s] < Limit]

Lease(w) ==
  /\ Idle
  /\ pending # {}
  /\ next_lease < MaxLeases
  /\ \E s \in Selectable :
       /\ Update({s}, [phase EXCEPT ![s] = "Inflight"], depth, sequence)
       /\ ticket' = [ticket EXCEPT ![s] = NewTicket(s, w)]
       /\ issued' = issued \cup {NewTicket(s, w)}
  /\ next_lease' = next_lease + 1
  /\ UNCHANGED <<graph, policy, successors, next_sequence, committed, requeued, callVars,
                 roots, poisoned>>

(* The results a worker that executed s faithfully may report.              *)
Outcomes(t) ==
  {"ModelBudget", "Failure"} \cup
    (IF graph[t.state] = <<>> THEN {"Terminal"}
     ELSE IF t.may_expand THEN {"Expanded"} ELSE {"DepthCut"})

(* The successors that go with such a result.                               *)
Published(s, kind) == IF kind = "Expanded" THEN graph[s] ELSE <<>>

(* commit()'s staleness test.                                               *)
Current(t) == phase[t.state] = "Inflight" /\ ticket[t.state] = t

(* A probe that was overtaken by a shorter path is queued again.            *)
CommittedPhaseMutant(s, kind) == kind
CommittedPhase(s, kind) ==
  IF kind = "DepthCut" /\ depth[s] < Limit THEN "Pending" ELSE kind

Capacity(succ) ==
  Cardinality(Range(succ) \ Known) <= MaxStates - Cardinality(Known)

Commit(t, kind, succ) ==
  LET s == t.state
  IN  /\ Idle
      /\ Current(t)
      /\ Capacity(succ)
      /\ successors' = [successors EXCEPT ![s] = succ]
      /\ Update({s}, [phase EXCEPT ![s] = CommittedPhase(s, kind)], depth, sequence)
      /\ ticket' = [ticket EXCEPT ![s] = NoTicket]
      /\ call' = "commit"
      /\ work' = [i \in DOMAIN succ |-> <<succ[i], depth[s] + 1>>]
      /\ UNCHANGED <<graph, policy, countVars, histVars, poisoned>>

(* The nodes worker_lost() puts back in the queue.                          *)
Held(w) == {s \in State : ticket[s] # NoTicket /\ ticket[s].worker = w}

WorkerLost(w) ==
  /\ Idle
  /\ Update(Held(w), [s \in State |-> IF s \in Held(w) THEN "Pending" ELSE phase[s]],
            depth, sequence)
  /\ ticket' = [s \in State |-> IF s \in Held(w) THEN NoTicket ELSE ticket[s]]
  /\ requeued' = requeued + Cardinality(Held(w))
  /\ UNCHANGED <<graph, policy, successors, next_sequence, next_lease, committed, callVars,
                 histVars, poisoned>>

(* std::bad_alloc leaves a mutator: poisoned_ is set and every later call   *)
(* but status() throws, so that what the mutator left half done stays       *)
(* unobserved.                                                              *)
BadAlloc ==
  /\ ~poisoned /\ Known # {}
  /\ poisoned' = TRUE
  /\ call' = "none" /\ work' = <<>>
  /\ UNCHANGED <<graph, policy, nodeVars, indexVars, countVars, histVars>>

Next ==
  \/ \E a \in Admissions : Admit(a[1], a[2])
  \/ Propagate
  \/ Return
  \/ \E w \in Worker : Lease(w) \/ WorkerLost(w)
  \/ \E t \in issued : \E kind \in Outcomes(t) : Commit(t, kind, Published(t.state, kind))
  \/ BadAlloc

Spec == Init /\ [][Next]_vars

(* status(): what the search has shown so far.                              *)
statusMutant ==
  IF poisoned \/ phase_counts["Failure"] > 0 THEN "Failed"
  ELSE IF phase_counts["Pending"] > 0 \/ phase_counts["Inflight"] > 0 THEN "Running"
  ELSE IF phase_counts["DepthCut"] > 0 THEN "Bounded"
  ELSE "Complete"
status ==
  IF poisoned \/ phase_counts["Failure"] > 0 THEN "Failed"
  ELSE IF phase_counts["Pending"] > 0 \/ phase_counts["Inflight"] > 0 THEN "Running"
  ELSE IF phase_counts["DepthCut"] > 0 \/ phase_counts["ModelBudget"] > 0 THEN "Bounded"
  ELSE "Complete"

-----------------------------------------------------------------------------
(* The type invariant.  No depth beyond limit_ is ever stored or put on the *)
(* worklist of propagate(), and no lease id beyond the last one is issued.  *)
TypeOK ==
  /\ graph \in Graphs /\ policy \in Policies
  /\ phase \in [State -> Phases \cup {"Absent"}]
  /\ depth \in [State -> 0..Limit]
  /\ sequence \in [State -> Nat]
  /\ ticket \in [State -> Tickets \cup {NoTicket}]
  /\ successors \in [State -> Seq(State)]
  /\ next_sequence \in Nat /\ next_lease \in 0..MaxLeases
  /\ committed \in Nat /\ requeued \in Nat
  /\ poisoned \in BOOLEAN
  /\ pending \subseteq Nat \X State
  /\ bfs_pending \subseteq (0..Limit) \X Nat \X State
  /\ active_layers \in [0..Limit -> Int]
  /\ phase_counts \in [Phases -> Int]
  /\ call \in {"none", "admit", "commit"}
  /\ work \in Seq(State \X (0..Limit))
  /\ roots \subseteq State \X (0..Limit)
  /\ issued \subseteq Tickets

(* The incrementally kept indexes always say what a scan of nodes_ would:   *)
(* lease() selects by the indexes alone and status() by the counts alone.   *)
IndexConsistent ==
  /\ pending = {<<sequence[s], s>> : s \in {x \in State : phase[x] = "Pending"}}
  /\ policy = "Bfs" =>
       /\ bfs_pending = {<<depth[s], sequence[s], s>> :
                            s \in {x \in State : phase[x] = "Pending"}}
       /\ \A l \in 0..Limit : active_layers[l] =
            Cardinality({s \in State : phase[s] \in {"Pending", "Inflight"} /\ depth[s] = l})
  /\ \A p \in Phases : phase_counts[p] = Cardinality({s \in State : phase[s] = p})
  /\ \A s, u \in Known : sequence[s] = sequence[u] => s = u

(* f underestimates every distance from the admitted states: it is at most  *)
(* the admitted depth there and grows by at most one along an edge.  The    *)
(* distance itself is the greatest such function.                           *)
Underestimate(f) ==
  /\ \A r \in roots : f[r[1]] <= r[2]
  /\ \A s \in State : \A u \in Range(graph[s]) : f[u] <= f[s] + 1

(* The states at most d steps from a root: each is the end of a path of d   *)
(* edges or pauses.                                                         *)
Paths(d) ==
  {p \in [0..d -> State] :
     /\ \E r \in roots : p[0] = r[1]
     /\ \A i \in 1..d : p[i] = p[i - 1] \/ p[i] \in Range(graph[p[i - 1]])}
Within(d) == {p[d] : p \in Paths(d)}

(* u is known at depth d or less, or the running call is about to see to it.*)
Covered(u, d) ==
  \/ u \in Known /\ depth[u] <= d
  \/ \E e \in Range(work) : e[1] = u /\ e[2] <= d

(* No discovered path is ever forgotten: at every moment, also between two  *)
(* entries of a running propagate(), an admitted state and a successor of   *)
(* an expanded node is known at the depth the path gives, or still on the   *)
(* worklist.                                                                *)
PathsCovered ==
  ~poisoned =>
    /\ \A r \in roots : Covered(r[1], r[2])
    /\ \A s \in State : phase[s] = "Expanded" =>
         \A u \in Range(graph[s]) : Covered(u, depth[s] + 1)

(* The depth the frontier knows, one beyond the limit where it knows none.  *)
FoundDepth == [s \in State |-> IF s \in Known THEN depth[s] ELSE Limit + 1]

(* When the search ends (status() is Complete or Bounded) with no state cut *)
(* by the model budget, the depths are exactly the shortest distances,      *)
(* capped at the limit: no path shorter than a node's depth was overlooked, *)
(* whatever the order in which results, losses and shortcuts arrived.       *)
SettledDepthsAreShortest ==
  (/\ Idle /\ status \in {"Complete", "Bounded"}
   /\ \A s \in State : phase[s] # "ModelBudget") =>
    /\ Underestimate(FoundDepth)
    /\ \A f \in [State -> 0..(Limit + 1)] :
         Underestimate(f) => \A s \in State : f[s] <= FoundDepth[s]

(* status() says Complete only when nothing reachable is left: the admitted *)
(* states are known, every known state was expanded or is terminal, and     *)
(* every successor of a known state is known.                               *)
CompleteIsClosed ==
  (Idle /\ status = "Complete") =>
    /\ \A r \in roots : r[1] \in Known
    /\ \A s \in Known :
         /\ phase[s] \in {"Expanded", "Terminal"}
         /\ Range(graph[s]) \subseteq Known

(* Every lease is accounted for: between calls, what was leased is in       *)
(* flight, was committed or was requeued, and nothing counts twice.         *)
LeasesAccounted ==
  Idle => next_lease = committed + requeued
                         + Cardinality({s \in State : ticket[s] # NoTicket})

(* commit() tests the capacity before it changes anything; the length_error *)
(* of propagate() can then never leave a node half published.               *)
PropagateFits ==
  (call # "none" /\ work # <<>>) =>
    Cardinality(Known \cup {e[1] : e \in Range(work)}) <= MaxStates

(* BFS dispatches a layer only after every shallower one is finished: no    *)
(* pending node is shallower than a node in flight, and all nodes in flight *)
(* are on one layer ("a temporarily empty layer does not allow deeper       *)
(* dispatch", frontier.h:80).                                               *)
LayerBarrier ==
  (Idle /\ policy = "Bfs") =>
    \A s, u \in State :
      phase[s] = "Inflight" /\ phase[u] \in {"Pending", "Inflight"} => depth[s] <= depth[u]

(* A lease that was given up or committed is never honoured again, even     *)
(* when the same worker later leases the same state: the answer of a worker *)
(* declared lost stays stale.                                               *)
LeaseNeverRevives ==
  [][\A t \in issued : ticket[t.state] # t => ticket'[t.state] # t]_vars
=============================================================================
