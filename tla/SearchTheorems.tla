-------------------------- MODULE SearchTheorems ---------------------------
(***************************************************************************)
(* What the parallel explorer guarantees, from the frontier's invariant    *)
(* and the explorer's own.                                                 *)
(***************************************************************************)
EXTENDS ParallelProofs, FrontierProofs, FrontierDepthProofs

(* The frontier's invariant holds from the start and is kept.               *)
LEMMA FrontierKeeps ==
  /\ Init => IInv
  /\ IInv /\ [Next]_vars => IInv'
<1>1. Init => IInv
  BY InitBase, InitIInv
<1>2. IInv => Base
  BY DEF IInv
<1>3. IInv /\ [Next]_vars => IInv'
  BY <1>2, NextBase, NextIInv
<1>4. QED
  BY <1>1, <1>3

(* The types, the exact indexes, the coverage of paths and the realised     *)
(* depths hold in every reachable state of the frontier.                    *)
THEOREM InductiveInvariant == Spec => []IInv
<1>1. QED
  BY FrontierKeeps, PTL DEF Spec

(* No discovered path is forgotten, whatever the schedule, the losses and   *)
(* the order in which shorter paths turn up.                                *)
THEOREM NoPathForgotten == Spec => []PathsCovered
<1>1. IInv => PathsCovered
  BY DEF IInv
<1>2. QED
  BY <1>1, InductiveInvariant, PTL

(* A search that ends as Complete has expanded everything reachable.        *)
THEOREM CompleteMeansClosed == Spec => []CompleteIsClosed
<1>1. IInv => CompleteIsClosed
  BY BaseCounts, ClosedWhenComplete DEF IInv
<1>2. QED
  BY <1>1, InductiveInvariant, PTL

(* A search that ends, without a model-budget cut, has found for every      *)
(* state the length of the shortest path to it, up to the depth limit.      *)
THEOREM SettledMeansShortest == Spec => []SettledDepthsAreShortest
<1>1. IInv => SettledDepthsAreShortest
  BY BaseCounts, ShortestWhenSettled DEF IInv
<1>2. QED
  BY <1>1, InductiveInvariant, PTL

(* With the one root the explorer admits, breadth-first search dispatches a *)
(* layer only when every shallower one is finished, whatever is lost,       *)
(* requeued or found by a shorter path on the way.                          *)
THEOREM LayersFinish ==
  ASSUME NEW r \in State, Admissions \subseteq {<<r, 0>>}
  PROVE  Spec => []LayerBarrier
<1>1. Init => LayersInv(r)
  BY DEF Init, LayersInv, Known, Range
<1>2. IInv /\ LayersInv(r) /\ [Next]_vars => LayersInv(r)'
  BY LeastNatural, BaseCounts, LayersStep DEF IInv
<1>3. LayersInv(r) => LayerBarrier
  BY DEF LayersInv, LayerBarrier, Idle
<1>4. QED
  BY <1>1, <1>2, <1>3, InductiveInvariant, PTL DEF Spec

-----------------------------------------------------------------------------
(* The explorer starts with no worker, no lease and no message.             *)
LEMMA ExplorerInit == PInit => PInv
<1> SUFFICES ASSUME PInit PROVE PInv
  OBVIOUS
<1>1. LeaseIds
  BY DEF PInit, Init, LeaseIds
<1>2. Typed
  <2>1. options.retries \in Nat
    BY ParallelAssumption DEF PInit
  <2>2. <<>> \in Seq(State) /\ <<>> \in Seq(Messages)
    OBVIOUS
  <2>3. 0 \in 0..(options.retries + 1) /\ 0 <= options.retries
    BY <2>1
  <2>4. PTypeOK
    BY <2>2, <2>3, Zenon DEF PInit, PTypeOK
  <2>5. QED
    BY <2>2, <2>3, <2>4 DEF PInit, Typed
<1>3. Sessions
  <2>1. Len(<<>>) = 0 /\ 1..0 = {}
    OBVIOUS
  <2>2. QED
    BY <2>1, ParallelAssumption, Zenon DEF PInit, Sessions, Session
<1>4. Books /\ Endings /\ FailsOnlyWhenExhausted
  BY DEF PInit, Init, Books, Endings, FailsOnlyWhenExhausted
<1>5. QED
  BY <1>1, <1>2, <1>3, <1>4 DEF PInv

(* The frontier's invariant and the explorer's keep each other: every step  *)
(* of the explorer is a step of the frontier.                               *)
LEMMA ExplorerKeeps ==
  ASSUME IInv, PInv, [PNext]_pvars
  PROVE  [Next]_vars /\ IInv' /\ PInv'
<1>1. Base
  BY DEF IInv
<1>2. FailuresCounted
  <2>1. phase_counts["Failure"] = Cardinality({s \in State : phase[s] = "Failure"})
    BY DEF IInv, Base, Indexed, Phases
  <2>2. QED
    BY <2>1, FS_EmptySet DEF FailuresCounted
<1>3. [Next]_vars /\ PInv'
  BY <1>1, <1>2, ExplorerStep
<1>4. QED
  BY <1>3, FrontierKeeps

(* The conversations with the workers stay in order, the books agree and    *)
(* the search ends for a reason, whatever the workers do.                   *)
THEOREM ExplorerInvariant == PSpec => [](IInv /\ PInv)
<1>1. PInit => IInv /\ PInv
  BY ExplorerInit, FrontierKeeps DEF PInit
<1>2. (IInv /\ PInv) /\ [PNext]_pvars => (IInv /\ PInv)'
  BY ExplorerKeeps
<1>3. QED
  BY <1>1, <1>2, PTL DEF PSpec

(* The explorer implements the frontier's specification: whatever the       *)
(* workers do, run_parallel() commits only complete and truthful results,   *)
(* each under a lease that is still current.                                *)
THEOREM UsesFrontierAsAsked == PSpec => ImplementsFrontier
<1>1. PInit => Init
  BY DEF PInit
<1>2. (IInv /\ PInv) /\ [PNext]_pvars => [Next]_vars
  BY ExplorerKeeps
<1>3. QED
  BY <1>1, <1>2, ExplorerInvariant, PTL DEF PSpec, ImplementsFrontier, Spec

(* The coordinator's leases and the frontier's are the same between calls.  *)
THEOREM BooksAgree == PSpec => []LeasesAgree
<1>1. PInv => LeasesAgree
  BY DEF PInv, Books, LeasesAgree, Idle
<1>2. QED
  BY <1>1, ExplorerInvariant, PTL

(* Lost workers fail the search only when a retry budget is used up.        *)
THEOREM FailsForAReason == PSpec => []FailsOnlyWhenExhausted
<1>1. PInv => FailsOnlyWhenExhausted
  BY DEF PInv
<1>2. QED
  BY <1>1, ExplorerInvariant, PTL

(* run_parallel() returns with no node in flight.                           *)
THEOREM NothingLeftInFlight == PSpec => []NoOrphanLease
<1>1. IInv /\ PInv => NoOrphanLease
  BY DEF IInv, PInv, Base, TicketsMatch, Endings, NoOrphanLease
<1>2. QED
  BY <1>1, ExplorerInvariant, PTL

-----------------------------------------------------------------------------
(* What run_parallel() reports is true of the program under test, for every *)
(* graph, every set of workers and every failure of theirs: a violation is  *)
(* a violating state within the depth limit, Bounded means that no state    *)
(* within the limit violates, and Complete that there is none beyond it.    *)
THEOREM VerdictsAreSound == PSpec => []VerdictSound
<1>1. PInit => VInv
  <2> SUFFICES ASSUME PInit PROVE VInv
    OBVIOUS
  <2>1. roots = {} /\ ending = "no" /\ \A s \in State : phase[s] = "Absent"
    BY DEF PInit, Init
  <2>2. QED
    BY <2>1 DEF VInv, RootsAtZero, NoBudgetCut, Screened, Judged
<1>2. (IInv /\ PInv) /\ VInv /\ [PNext]_pvars => VInv'
  BY VerdictStep, LeastNatural, BaseCounts, IInvPaths DEF IInv
<1>3. PInv /\ VInv => VerdictSound
  <2> SUFFICES ASSUME PInv, VInv PROVE VerdictSound
    OBVIOUS
  <2>1. verdict # "none" => verdict = ending
    BY Zenon DEF PInv, Endings
  <2>2. QED
    BY <2>1 DEF VInv, Judged, VerdictSound
<1>4. QED
  BY <1>1, <1>2, <1>3, ExplorerInvariant, PTL DEF PSpec
=============================================================================
