----------------------------- MODULE SharedPool -----------------------------
(***************************************************************************)
(* The pool of immutable objects that a coordinator and its workers share  *)
(* on one host (src/src/core/state/shared_object_pool.cpp), and the way    *)
(* system states are published in it, proved complete once and imported    *)
(* (SharedPublisher, publish_reference() and import_shared_bundle() in     *)
(* snapshot_bundle.cpp).                                                   *)
(*                                                                         *)
(* An object is a blob, a ready record of a system state, or the proof that*)
(* a root's closure is in the pool.  The objects of a process are written  *)
(* under a temporary name and linked; a link is atomic.  The caches inside *)
(* a pool only hold objects of the pool, which never change.               *)
(***************************************************************************)
EXTENDS Blobs, Sequences, FiniteSets, SequencesExt, FiniteSetsExt

CONSTANTS
  State, Start,      \* the system states; the one the search starts from
  Roots,             \* the snapshot of each node, in order
  Closure,           \* the blobs of a root, in the order they are visited
  Successors,        \* what a worker can make of a state
  Capacity,          \* SharedPublisher's capacity_
  NoState

ASSUME PoolAssumption ==
  /\ Start \in State
  /\ Roots \in [State -> Seq(Content)] /\ Successors \in [State -> SUBSET State]
  /\ \A s \in State : \A r \in Range(Roots[s]) : r \in DOMAIN Closure
  /\ Capacity \in Nat

VARIABLES
  pool,      \* the linked objects, each with its bytes
  flushed,   \* what the last barrier has made durable
  work,      \* the steps left of each process's call
  writing,   \* between the first look and the link: the barrier is shared
  proven,    \* SharedPublisher: proven_ and recent_, the latest first
  source,    \* the state a worker has imported
  offered,   \* the bundles a process has sent
  known,     \* the states the coordinator has admitted
  powered    \* the power has not failed

pool_vars == <<pool, flushed, powered>>
proc_vars == <<work, writing, proven, source, offered, known>>
spvars == <<pool_vars, proc_vars>>

Fresh ==
  /\ work = [p \in Proc |-> <<>>] /\ writing = [p \in Proc |-> FALSE]
  /\ proven = [p \in Proc |-> <<>>] /\ source = [p \in Proc |-> NoState]
  /\ offered = [p \in Proc |-> {}] /\ known = {}

SPInit == Fresh /\ pool = {} /\ flushed = {} /\ powered = TRUE

Blob(c) == [kind |-> "blob", key |-> KeyOf[c]]
Ready(s) == [kind |-> "ready", key |-> s]
Proof(r) == [kind |-> "proof", key |-> r]

(* load(): the bytes of an object.                                          *)
Has(o) == \E e \in pool : e[1] = o
BytesOf(o) == (CHOOSE e \in pool : e[1] = o)[2]

Put(o, bytes) == <<"put", o, bytes>>
PutBlobs(q) == [i \in DOMAIN q |-> Put(Blob(q[i]), q[i])]
RootSteps(s) == [i \in DOMAIN Roots[s] |-> <<"root", Roots[s][i]>>]
ProofSteps(s) == [i \in DOMAIN Roots[s] |-> Put(Proof(Roots[s][i]), Roots[s][i])]
ClosureOf(s) == UNION {Range(Closure[r]) : r \in Range(Roots[s])}
Complete(s) == \A c \in ClosureOf(s) : <<Blob(c), c>> \in pool

-----------------------------------------------------------------------------
(* Any exception ends the run: the coordinator stops and the workers are    *)
(* killed.  The pool stays where it is and the next run opens it again.     *)
RunEnds ==
  /\ work' = [p \in Proc |-> <<>>] /\ writing' = [p \in Proc |-> FALSE]
  /\ proven' = [p \in Proc |-> <<>>] /\ source' = [p \in Proc |-> NoState]
  /\ offered' = [p \in Proc |-> {}] /\ known' = {}
  /\ UNCHANGED pool_vars

Busy(p, step) == work[p] # <<>> /\ work[p][1][1] = step
Pop(p) == work' = [work EXCEPT ![p] = Tail(@)]

(* publish(): an object that is there must have the same bytes.  The file   *)
(* is written under the shared lock; another process may link it first, and *)
(* the loser compares again.                                                *)
PublishLook(p) ==
  /\ Busy(p, "put") /\ ~writing[p]
  /\ LET o == work[p][1][2]  bytes == work[p][1][3]
     IN  \/ /\ ~Has(o)
            /\ writing' = [writing EXCEPT ![p] = TRUE]
            /\ UNCHANGED <<pool_vars, work, proven, source, offered, known>>
         \/ /\ Has(o) /\ BytesOf(o) = bytes /\ Pop(p)
            /\ UNCHANGED <<pool_vars, writing, proven, source, offered, known>>
         \/ Has(o) /\ BytesOf(o) # bytes /\ RunEnds

PublishLink(p) ==
  /\ Busy(p, "put") /\ writing[p]
  /\ LET o == work[p][1][2]  bytes == work[p][1][3]
     IN  IF Has(o) /\ BytesOf(o) # bytes THEN RunEnds
         ELSE /\ pool' = pool \cup {<<o, bytes>>} /\ Pop(p)
              /\ writing' = [writing EXCEPT ![p] = FALSE]
              /\ UNCHANGED <<flushed, powered, proven, source, offered, known>>

-----------------------------------------------------------------------------
(* publish_reference(): a ready record answers for the whole state.         *)
ExportStepsMutant(p, s) ==
  <<Put(Ready(s), s)>> \o RootSteps(s)
    \o (IF p = Coord THEN <<>> ELSE ProofSteps(s)) \o <<<<"sent", s>>>>
ExportSteps(p, s) ==
  RootSteps(s) \o <<Put(Ready(s), s)>>
    \o (IF p = Coord THEN <<>> ELSE ProofSteps(s)) \o <<<<"sent", s>>>>

ExportCall(p) ==
  /\ Busy(p, "export")
  /\ LET s == work[p][1][2]
     IN  IF Has(Ready(s)) /\ BytesOf(Ready(s)) # s THEN RunEnds
         ELSE /\ work' = [work EXCEPT ![p] =
                   (IF Has(Ready(s)) THEN <<<<"offer", s>>>> ELSE ExportSteps(p, s)) \o Tail(@)]
              /\ UNCHANGED <<pool_vars, writing, proven, source, offered, known>>

(* root_proven(), or validate_root(): its blobs are loaded and published.   *)
(* A worker's blobs are in the pool, the coordinator also has its own       *)
(* store, which holds the state the search starts from.                     *)
RootProven(p, r) ==
  p # Coord /\ (r \in Range(proven[p]) \/ (Capacity > 0 /\ Has(Proof(r))))

Loads(p, c) ==
  \/ Has(Blob(c)) /\ BytesOf(Blob(c)) = c
  \/ p = Coord /\ c \in ClosureOf(Start)

ExportRoot(p) ==
  /\ Busy(p, "root")
  /\ LET r == work[p][1][2]
     IN  IF RootProven(p, r)
         THEN Pop(p) /\ UNCHANGED <<pool_vars, writing, proven, source, offered, known>>
         ELSE IF \A c \in Range(Closure[r]) : Loads(p, c)
         THEN /\ work' = [work EXCEPT ![p] = PutBlobs(Closure[r]) \o Tail(@)]
              /\ UNCHANGED <<pool_vars, writing, proven, source, offered, known>>
         ELSE RunEnds

(* remember(): the roots are the most recent ones of a bounded list.        *)
Remembered(p, s) ==
  LET Touch(q, r) == <<r>> \o SelectSeq(q, LAMBDA x : x # r)
  IN  IF p = Coord \/ Capacity = 0 THEN proven[p]
      ELSE LET q == FoldLeft(Touch, proven[p], Roots[s])
           IN  SubSeq(q, 1, Min({Len(q), Capacity}))

Sent(p) ==
  /\ Busy(p, "sent") \/ Busy(p, "offer")
  /\ LET s == work[p][1][2]
     IN  /\ offered' = [offered EXCEPT ![p] = @ \cup {s}]
         /\ proven' = [proven EXCEPT ![p] = IF Busy(p, "sent") THEN Remembered(p, s) ELSE @]
  /\ Pop(p)
  /\ UNCHANGED <<pool_vars, writing, source, known>>

-----------------------------------------------------------------------------
(* run_parallel(): the coordinator publishes the first state and offers     *)
(* every state it knows as a task.                                          *)
StartRun ==
  /\ known = {} /\ work[Coord] = <<>>
  /\ known' = {Start} /\ work' = [work EXCEPT ![Coord] = <<<<"export", Start>>>>]
  /\ UNCHANGED <<pool_vars, writing, proven, source, offered>>

OfferTask(s) ==
  /\ work[Coord] = <<>> /\ s \in known \ offered[Coord]
  /\ work' = [work EXCEPT ![Coord] = <<<<"export", s>>>>]
  /\ UNCHANGED <<pool_vars, writing, proven, source, offered, known>>

(* import_shared_bundle(): the ready record and, for a worker, its roots    *)
(* are loaded; then a worker publishes and remembers the proofs.            *)
Importable(p, s) ==
  /\ Has(Ready(s)) /\ BytesOf(Ready(s)) = s
  /\ p # Coord => \A r \in Range(Roots[s]) : Has(Blob(r)) /\ BytesOf(Blob(r)) = r

ImportTask(w, s) ==
  /\ w \in Worker /\ work[w] = <<>> /\ s \in offered[Coord]
  /\ IF ~Importable(w, s) THEN RunEnds
     ELSE /\ source' = [source EXCEPT ![w] = s]
          /\ work' = [work EXCEPT ![w] =
               (IF Capacity > 0 THEN ProofSteps(s) ELSE <<>>) \o <<<<"remember", s>>>>]
          /\ UNCHANGED <<pool_vars, writing, proven, offered, known>>

Remember(w) ==
  /\ Busy(w, "remember")
  /\ proven' = [proven EXCEPT ![w] = Remembered(w, work[w][1][2])]
  /\ Pop(w)
  /\ UNCHANGED <<pool_vars, writing, source, offered, known>>

(* A worker runs a transition: the blobs that are new are saved, which      *)
(* publishes each at once (StateStore::save() with a shared pool), the      *)
(* unchanged ones are only referred to; then the state is exported.         *)
Expand(w, s) ==
  /\ w \in Worker /\ work[w] = <<>> /\ source[w] # NoState
  /\ s \in Successors[source[w]] \ offered[w]
  /\ work' = [work EXCEPT ![w] =
       PutBlobs(SetToSeq(ClosureOf(s) \ ClosureOf(source[w]))) \o <<<<"export", s>>>>]
  /\ UNCHANGED <<pool_vars, writing, proven, source, offered, known>>

ImportEdge(w, s) ==
  /\ work[Coord] = <<>> /\ w \in Worker /\ s \in offered[w] \ known
  /\ IF ~Importable(Coord, s) THEN RunEnds
     ELSE known' = known \cup {s}
          /\ UNCHANGED <<pool_vars, work, writing, proven, source, offered>>

(* flush(): the lock excludes every writer.                                 *)
FlushPool ==
  /\ work[Coord] = <<>> /\ \A p \in Proc : ~writing[p]
  /\ flushed' = pool /\ UNCHANGED <<pool, powered, proc_vars>>

-----------------------------------------------------------------------------
(* A worker is killed and another process takes its place.                  *)
KillWorker(w) ==
  /\ work' = [work EXCEPT ![w] = <<>>] /\ writing' = [writing EXCEPT ![w] = FALSE]
  /\ proven' = [proven EXCEPT ![w] = <<>>] /\ source' = [source EXCEPT ![w] = NoState]
  /\ offered' = [offered EXCEPT ![w] = {}]
  /\ UNCHANGED <<pool_vars, known>>

(* What was not flushed may be gone or unreadable; the worst case, that all *)
(* of it is, decides what is asked afterwards.  Behaviours end here: nothing*)
(* is promised of a pool that lost what no barrier had confirmed.           *)
PoolPowerLoss ==
  /\ powered' = FALSE
  /\ pool' = flushed /\ UNCHANGED flushed
  /\ work' = [p \in Proc |-> <<>>] /\ writing' = [p \in Proc |-> FALSE]
  /\ proven' = [p \in Proc |-> <<>>] /\ source' = [p \in Proc |-> NoState]
  /\ offered' = [p \in Proc |-> {}] /\ known' = {}

SPStep ==
  \/ StartRun \/ FlushPool \/ PoolPowerLoss \/ RunEnds
  \/ \E s \in State : OfferTask(s)
  \/ \E p \in Proc :
       PublishLook(p) \/ PublishLink(p) \/ ExportCall(p) \/ ExportRoot(p) \/ Sent(p)
  \/ \E w \in Worker : \/ Remember(w) \/ KillWorker(w)
                       \/ \E s \in State : ImportTask(w, s) \/ Expand(w, s) \/ ImportEdge(w, s)

SPNext == (powered /\ SPStep) \/ (~powered /\ UNCHANGED spvars)

SPSpec == SPInit /\ [][SPNext]_spvars

-----------------------------------------------------------------------------
Trusted == IF powered THEN pool ELSE flushed

(* The certificates of the pool are true: while the power lasts, and after  *)
(* it failed for those a barrier had confirmed, a state that is ready and   *)
(* a root that is proved have every blob in the pool, whoever wrote which   *)
(* part and whoever was killed on the way.                                  *)
CertificatesAreTrue ==
  \A e \in Trusted :
    /\ e[1].kind = "ready" => Complete(e[1].key)
    /\ e[1].kind = "proof" => \A c \in Range(Closure[e[1].key]) : <<Blob(c), c>> \in pool
=============================================================================
