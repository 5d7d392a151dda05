--------------------------- MODULE ParallelSearch ---------------------------
(***************************************************************************)
(* The parallel explorer: run_parallel() (src/src/core/search/parallel.cpp)*)
(* drives the frontier and owns one control stream per worker process; a   *)
(* worker (worker.cpp) serves one leased state at a time and streams its   *)
(* edges.  An edge stands for one (actor, action, choice) of the source;   *)
(* edge i of s leads to graph[s][i].  The coordinator's checks on the      *)
(* contents of an edge become the check that it is the edge expected next. *)
(*                                                                         *)
(* Worker processes may die or hang at any point.  A stream belongs to one *)
(* incarnation, so that what a dead worker sent before it died can still   *)
(* be read, and nothing of it after the coordinator closed the stream.     *)
(***************************************************************************)
EXTENDS Frontier

CONSTANTS
  BadSets,  \* the choices of bad: the states whose property_failed flag is set
  Options,  \* the choices of options
  NoState   \* an empty optional<StateKey>, and no worker being served

ASSUME ParallelAssumption ==
  /\ BadSets \subseteq SUBSET State
  /\ Options \subseteq [retries : Nat, shared : BOOLEAN]
  /\ NoState \notin State /\ NoState \notin Worker

VARIABLES
  options,          \* options.retries, and whether options.storage is Shared;
                    \* never changes
  bad,              \* the states that violate the property; never changes
  channel,          \* Worker::channel is open
  hello,            \* Worker::hello
  lease,            \* Worker::ticket
  received,         \* Worker::successors
  startup_failures, \* Worker::startup_failures
  failures,         \* failures[state] of run_parallel
  serving,          \* the worker whose lease is being turned into a task
  ending,           \* why the main loop was left; "no" while it runs
  verdict,          \* Report::status; "none" until run_parallel returns
  violation_state,  \* Report::violation_state
  proc,             \* the worker process: "off", "boot", "idle", "run", "dead"
  task,             \* the task sent to the worker and not yet answered in full
  sent,             \* the edges of the task the worker has sent
  stream,           \* the worker's messages on their way to the coordinator
  excused           \* history: a SIGINT, a bad_alloc or a worker exception

fixedVars == <<options, bad>>
coordVars == <<fixedVars, channel, hello, lease, received, startup_failures, failures>>
endVars   == <<ending, verdict, violation_state, excused>>
procVars  == <<proc, task, sent, stream>>
pvars == <<vars, coordVars, serving, endVars, procVars>>

PInit ==
  /\ Init /\ options \in Options /\ bad \in BadSets
  /\ channel = [w \in Worker |-> FALSE] /\ hello = [w \in Worker |-> FALSE]
  /\ lease = [w \in Worker |-> NoTicket] /\ received = [w \in Worker |-> <<>>]
  /\ startup_failures = [w \in Worker |-> 0] /\ failures = [s \in State |-> 0]
  /\ serving = NoState
  /\ ending = "no" /\ verdict = "none" /\ violation_state = NoState
  /\ proc = [w \in Worker |-> "off"] /\ task = [w \in Worker |-> NoTicket]
  /\ sent = [w \in Worker |-> 0] /\ stream = [w \in Worker |-> <<>>]
  /\ excused = FALSE

(* frontier->admit(root), at depth 0, before the main loop.                 *)
Start ==
  /\ roots = {}
  /\ \E a \in Admissions : a[2] = 0 /\ Admit(a[1], 0)
  /\ UNCHANGED <<coordVars, serving, endVars, procVars>>

(* A frontier call in progress: the coordinator does nothing else.          *)
FrontierStep ==
  /\ Propagate \/ Return
  /\ UNCHANGED <<coordVars, serving, endVars, procVars>>

Looping == ending = "no" /\ Idle /\ serving = NoState /\ roots # {} /\ status = "Running"

(* classify_enumeration()                                                   *)
ClassifyProbeFirst(t) ==
  IF t.state \in bad THEN "Violation"
  ELSE IF ~t.may_expand \/ graph[t.state] = <<>> THEN "Terminal" ELSE "Expanded"
ClassifyUnchecked(t) ==
  IF graph[t.state] = <<>> THEN "Terminal"
  ELSE IF t.may_expand THEN "Expanded" ELSE "DepthCut"
Classify(t) ==
  IF t.state \in bad THEN "Violation"
  ELSE IF graph[t.state] = <<>> THEN "Terminal"
  ELSE IF t.may_expand THEN "Expanded" ELSE "DepthCut"

-----------------------------------------------------------------------------
(* Worker::terminate() and clear_job(): the process is killed and reaped,   *)
(* the stream closed, the job forgotten.                                    *)
ClearJobMutant(w) ==
  /\ lease' = [lease EXCEPT ![w] = NoTicket]
  /\ UNCHANGED received
ClearJobKeep(w) ==
  /\ received' = [received EXCEPT ![w] = <<>>]
  /\ UNCHANGED lease
ClearJob(w) ==
  /\ lease' = [lease EXCEPT ![w] = NoTicket]
  /\ received' = [received EXCEPT ![w] = <<>>]

Terminate(w) ==
  /\ channel' = [channel EXCEPT ![w] = FALSE]
  /\ proc' = [proc EXCEPT ![w] = "off"]
  /\ task' = [task EXCEPT ![w] = NoTicket]
  /\ sent' = [sent EXCEPT ![w] = 0]
  /\ stream' = [stream EXCEPT ![w] = <<>>]

Exhausted(n) == n > options.retries

(* The lambda lost(): the lease goes back to the frontier, or fails for     *)
(* good with the retry budget, which also ends the search.                  *)
Lost(w) ==
  /\ Terminate(w) /\ ClearJob(w)
  /\ \/ /\ lease[w] # NoTicket
        /\ failures' = [failures EXCEPT ![lease[w].state] = @ + 1]
        /\ IF Exhausted(failures'[lease[w].state])
           THEN Commit(lease[w], "Failure", <<>>) /\ ending' = "Failed"
           ELSE WorkerLost(w) /\ UNCHANGED ending
        /\ UNCHANGED startup_failures
     \/ /\ lease[w] = NoTicket
        /\ startup_failures' = [startup_failures EXCEPT ![w] = @ + 1]
        /\ ending' = IF Exhausted(startup_failures'[w]) THEN "Failed" ELSE ending
        /\ UNCHANGED <<vars, failures>>
  /\ UNCHANGED <<fixedVars, hello, verdict, violation_state, excused>>

(* An exception leaves the main loop.                                       *)
Throw == ending' = "Failed" /\ UNCHANGED <<verdict, violation_state, excused>>

-----------------------------------------------------------------------------
(* The dispatch half of the main loop.                                      *)
Spawn(w) ==
  /\ Looping /\ ~channel[w]
  /\ channel' = [channel EXCEPT ![w] = TRUE]
  /\ hello' = [hello EXCEPT ![w] = FALSE]
  /\ proc' = [proc EXCEPT ![w] = "boot"]
  /\ UNCHANGED <<vars, fixedVars, lease, received, startup_failures, failures, serving,
                 endVars, task, sent, stream>>

SpawnFails(w) == Looping /\ ~channel[w] /\ Lost(w) /\ UNCHANGED serving

Dispatch(w) ==
  /\ Looping /\ channel[w] /\ hello[w] /\ lease[w] = NoTicket
  /\ Lease(w)
  /\ \E t \in issued' \ issued : lease' = [lease EXCEPT ![w] = t]
  /\ serving' = w
  /\ UNCHANGED <<fixedVars, channel, hello, received, startup_failures, failures, endVars,
                 procVars>>

(* A lease that needs no execution is completed by the coordinator itself.  *)
CompleteLocally(w) ==
  LET t == lease[w]
  IN  /\ serving = w /\ ending = "no" /\ Idle
      /\ options.shared /\ Classify(t) # "Expanded"
      /\ serving' = NoState
      /\ ClearJob(w)
      /\ IF Classify(t) = "Violation"
         THEN /\ ending' = "Violation" /\ violation_state' = t.state
              /\ UNCHANGED vars
         ELSE /\ Commit(t, Classify(t), <<>>)
              /\ UNCHANGED <<ending, violation_state>>
      /\ UNCHANGED <<fixedVars, channel, hello, startup_failures, failures, verdict, excused,
                     procVars>>

SendTask(w) ==
  /\ serving = w /\ ending = "no" /\ Idle
  /\ ~(options.shared /\ Classify(lease[w]) # "Expanded")
  /\ serving' = NoState
  /\ task' = [task EXCEPT ![w] = lease[w]]
  /\ UNCHANGED <<vars, coordVars, endVars, proc, sent, stream>>

SendFails(w) ==
  /\ serving = w /\ ending = "no" /\ Idle
  /\ ~(options.shared /\ Classify(lease[w]) # "Expanded")
  /\ serving' = NoState
  /\ Lost(w)

-----------------------------------------------------------------------------
(* The receiving half of the main loop.                                     *)
Polling(w) == Looping /\ channel[w]

(* The deadline covers the start-up and each task as a whole.               *)
DeadlineMutant(w) == ~hello[w]
Deadline(w) == ~hello[w] \/ lease[w] # NoTicket

DeadlineExceeded(w) == Polling(w) /\ Deadline(w) /\ Lost(w) /\ UNCHANGED serving

StreamClosed(w) ==
  /\ Polling(w) /\ proc[w] = "dead" /\ stream[w] = <<>>
  /\ Lost(w) /\ UNCHANGED serving

Pop(w) == /\ stream' = [stream EXCEPT ![w] = Tail(@)]
          /\ UNCHANGED <<proc, task, sent>>

ReceiveHello(w, m) ==
  /\ m.kind = "Hello"
  /\ Pop(w)
  /\ IF ~hello[w] /\ lease[w] = NoTicket
     THEN hello' = [hello EXCEPT ![w] = TRUE] /\ UNCHANGED endVars
     ELSE Throw /\ UNCHANGED hello
  /\ UNCHANGED <<vars, fixedVars, channel, lease, received, startup_failures, failures>>

(* An error of a worker that holds no lease is a start-up failure, and one  *)
(* under a lease ends the search: the program under test misbehaved.        *)
ReceiveError(w, m) ==
  /\ m.kind = "Error"
  /\ \/ lease[w] = NoTicket /\ m.lease = 0 /\ Lost(w)
     \/ /\ lease[w] # NoTicket \/ m.lease # 0
        /\ Pop(w) /\ Throw
        /\ UNCHANGED <<vars, coordVars>>

Answers(w, m) == hello[w] /\ lease[w] # NoTicket /\ m.lease = lease[w].lease_id

(* Edges arrive once each; a violating target ends the search at once.      *)
ReceiveEdge(w, m) ==
  LET u == graph[lease[w].state][m.index]
  IN  /\ m.kind = "Edge"
      /\ Pop(w)
      /\ IF Answers(w, m) /\ lease[w].may_expand /\ m.index = Len(received[w]) + 1
         THEN /\ received' = [received EXCEPT ![w] = Append(@, u)]
              /\ IF u \in bad
                 THEN ending' = "Violation" /\ violation_state' = u
                 ELSE UNCHANGED <<ending, violation_state>>
              /\ UNCHANGED <<verdict, excused>>
         ELSE Throw /\ UNCHANGED received
      /\ UNCHANGED <<vars, fixedVars, channel, hello, lease, startup_failures, failures>>

(* The completion receipt of a faithful enumeration of lease t, checked     *)
(* against what was received: the count, and for an expansion that every    *)
(* alternative of every enabled actor was seen.                             *)
Receipt(w, m) ==
  /\ Answers(w, m)
  /\ m.emitted = Len(received[w])
  /\ m.how = "Expanded" => m.emitted = Len(graph[lease[w].state])
  /\ m.how # "Expanded" => m.emitted = 0

ReceiveDone(w, m) ==
  LET t == lease[w]
  IN  /\ m.kind = "Done"
      /\ Pop(w)
      /\ IF ~Receipt(w, m)
         THEN Throw /\ UNCHANGED <<vars, lease, received>>
         ELSE /\ ClearJob(w)
              /\ IF m.how = "Violation"
                 THEN /\ ending' = "Violation" /\ violation_state' = t.state
                      /\ UNCHANGED vars
                 ELSE /\ Commit(t, m.how, received[w])
                      /\ UNCHANGED <<ending, violation_state>>
              /\ UNCHANGED <<verdict, excused>>
      /\ UNCHANGED <<fixedVars, channel, hello, startup_failures, failures>>

Receive(w) ==
  /\ Polling(w) /\ stream[w] # <<>>
  /\ LET m == Head(stream[w])
     IN  ReceiveHello(w, m) \/ ReceiveError(w, m) \/ ReceiveEdge(w, m) \/ ReceiveDone(w, m)
  /\ UNCHANGED serving

-----------------------------------------------------------------------------
(* check_interrupted() throws wherever the coordinator is.                  *)
Interrupt ==
  /\ ending = "no" /\ Idle /\ roots # {}
  /\ ending' = "Failed" /\ excused' = TRUE /\ serving' = NoState
  /\ UNCHANGED <<vars, coordVars, procVars, verdict, violation_state>>

(* std::bad_alloc poisons the frontier and leaves the main loop.            *)
OutOfMemory ==
  /\ BadAlloc /\ verdict = "none"
  /\ ending' = "Failed" /\ excused' = TRUE /\ serving' = NoState
  /\ UNCHANGED <<coordVars, procVars, verdict, violation_state>>

(* The loop condition fails.                                                *)
LoopEnds ==
  /\ ending = "no" /\ Idle /\ serving = NoState /\ roots # {} /\ status # "Running"
  /\ ending' = status
  /\ UNCHANGED <<vars, coordVars, serving, procVars, verdict, violation_state, excused>>

(* The leases of the killed workers return to the frontier.                 *)
Release(w) ==
  /\ ending \in {"Violation", "Failed"} /\ verdict = "none"
  /\ Held(w) # {}
  /\ WorkerLost(w)
  /\ UNCHANGED <<coordVars, serving, endVars, procVars>>

Released == \A w \in Worker : Held(w) = {}

Finish ==
  /\ ending # "no" /\ verdict = "none" /\ call = "none"
  /\ poisoned \/ Released
  /\ verdict' = ending
  /\ channel' = [w \in Worker |-> FALSE] /\ proc' = [w \in Worker |-> "off"]
  /\ task' = [w \in Worker |-> NoTicket] /\ sent' = [w \in Worker |-> 0]
  /\ stream' = [w \in Worker |-> <<>>]
  /\ UNCHANGED <<vars, fixedVars, hello, lease, received, startup_failures, failures, serving,
                 ending, violation_state, excused>>

-----------------------------------------------------------------------------
(* The worker process.                                                      *)
Send(w, m) == stream' = [stream EXCEPT ![w] = Append(@, m)]

Worked == <<vars, coordVars, serving, endVars>>

Boot(w) ==
  /\ proc[w] = "boot"
  /\ proc' = [proc EXCEPT ![w] = "idle"]
  /\ Send(w, [kind |-> "Hello"])
  /\ UNCHANGED <<Worked, task, sent>>

TakeTask(w) ==
  /\ proc[w] = "idle" /\ task[w] # NoTicket
  /\ proc' = [proc EXCEPT ![w] = "run"]
  /\ sent' = [sent EXCEPT ![w] = 0]
  /\ UNCHANGED <<Worked, task, stream>>

LastWasBad(w) == sent[w] > 0 /\ graph[task[w].state][sent[w]] \in bad

SendEdge(w) ==
  /\ proc[w] = "run" /\ Classify(task[w]) = "Expanded"
  /\ sent[w] < Len(graph[task[w].state]) /\ ~LastWasBad(w)
  /\ Send(w, [kind |-> "Edge", lease |-> task[w].lease_id, index |-> sent[w] + 1])
  /\ sent' = [sent EXCEPT ![w] = @ + 1]
  /\ UNCHANGED <<Worked, proc, task>>

SendDone(w) ==
  LET how == IF LastWasBad(w) THEN "Violation" ELSE Classify(task[w])
  IN  /\ proc[w] = "run"
      /\ how = "Expanded" => sent[w] = Len(graph[task[w].state])
      /\ Send(w, [kind |-> "Done", lease |-> task[w].lease_id, how |-> how,
                  emitted |-> sent[w]])
      /\ proc' = [proc EXCEPT ![w] = "idle"]
      /\ task' = [task EXCEPT ![w] = NoTicket]
      /\ UNCHANGED <<Worked, sent>>

(* An exception in the worker: it reports and exits.                        *)
WorkerThrows(w) ==
  /\ proc[w] \in {"boot", "idle", "run"}
  /\ proc' = [proc EXCEPT ![w] = "dead"]
  /\ Send(w, [kind |-> "Error",
              lease |-> IF proc[w] = "run" THEN task[w].lease_id ELSE 0])
  /\ excused' = TRUE
  /\ UNCHANGED <<vars, coordVars, serving, ending, verdict, violation_state, task, sent>>

(* The process dies without a word.                                         *)
Crash(w) ==
  /\ proc[w] \in {"boot", "idle", "run"}
  /\ proc' = [proc EXCEPT ![w] = "dead"]
  /\ UNCHANGED <<Worked, task, sent, stream>>

-----------------------------------------------------------------------------
Coordinator(w) ==
  \/ Spawn(w) \/ Dispatch(w) \/ CompleteLocally(w) \/ SendTask(w)
  \/ DeadlineExceeded(w) \/ StreamClosed(w) \/ Receive(w) \/ Release(w)

WorkerProcess(w) == Boot(w) \/ TakeTask(w) \/ SendEdge(w) \/ SendDone(w)

Faults(w) == SpawnFails(w) \/ SendFails(w) \/ WorkerThrows(w) \/ Crash(w)

PNext ==
  \/ Start \/ FrontierStep \/ LoopEnds \/ Finish \/ Interrupt \/ OutOfMemory
  \/ \E w \in Worker : Coordinator(w) \/ WorkerProcess(w) \/ Faults(w)

(* The coordinator's loop keeps running, and the deadline of a start-up or  *)
(* a task passes: nothing the worker sends extends it.  Of the workers      *)
(* nothing is assumed.                                                      *)
Fairness ==
  /\ WF_pvars(Start) /\ WF_pvars(FrontierStep) /\ WF_pvars(LoopEnds) /\ WF_pvars(Finish)
  /\ \A w \in Worker : WF_pvars(Coordinator(w))

PSpec == PInit /\ [][PNext]_pvars /\ Fairness

-----------------------------------------------------------------------------
(* The type invariant of the coordinator and the workers.  The counters of  *)
(* failed starts and of lost states stop at options.retries + 1.            *)
PTypeOK ==
  /\ options \in Options /\ bad \in BadSets
  /\ channel \in [Worker -> BOOLEAN] /\ hello \in [Worker -> BOOLEAN]
  /\ lease \in [Worker -> Tickets \cup {NoTicket}]
  /\ received \in [Worker -> Seq(State)]
  /\ startup_failures \in [Worker -> 0..(options.retries + 1)]
  /\ failures \in [State -> 0..(options.retries + 1)]
  /\ serving \in Worker \cup {NoState}
  /\ ending \in {"no", "Complete", "Bounded", "Violation", "Failed"}
  /\ verdict \in {"none", "Complete", "Bounded", "Violation", "Failed"}
  /\ violation_state \in State \cup {NoState}
  /\ proc \in [Worker -> {"off", "boot", "idle", "run", "dead"}]
  /\ task \in [Worker -> Tickets \cup {NoTicket}]
  /\ sent \in [Worker -> Nat] /\ excused \in BOOLEAN

(* The explorer uses the frontier as its contract asks: whatever the        *)
(* workers do, each step is one the frontier's own specification allows, so *)
(* that only complete and truthful expansions are ever committed.           *)
ImplementsFrontier == Spec

(* The verdict is true: a reported violation is a violating state that can  *)
(* be reached within the depth limit, Bounded and Complete leave no such    *)
(* state, and Complete leaves no state beyond the limit either.             *)
VerdictSound ==
  /\ verdict = "Violation" => violation_state \in Within(Limit) \cap bad
  /\ verdict \in {"Bounded", "Complete"} => Within(Limit) \cap bad = {}
  /\ verdict = "Complete" => Within(Limit + 1) = Within(Limit)

(* The coordinator's book of leases and the frontier's agree between calls: *)
(* no worker works on a lease that was given away, and no lease is held for *)
(* a worker that does not know of it.                                       *)
LeasesAgree ==
  (ending = "no" /\ Idle) =>
    /\ \A w \in Worker : lease[w] # NoTicket => ticket[lease[w].state] = lease[w]
    /\ \A s \in State : ticket[s] # NoTicket => lease[ticket[s].worker] = ticket[s]

(* Workers that die, hang or cannot be started or reached never fail the    *)
(* search within the retry budget, wherever in a task it happens.           *)
FailsOnlyWhenExhausted ==
  ending = "Failed" =>
    \/ excused
    \/ \E s \in State : failures[s] > options.retries
    \/ \E w \in Worker : startup_failures[w] > options.retries

(* When run_parallel() returns no node is left in flight: an unfinished     *)
(* lease is pending again "rather than implying expansion" (parallel.cpp).  *)
NoOrphanLease ==
  verdict # "none" => poisoned \/ \A s \in State : phase[s] # "Inflight"

(* The search always ends, whatever the workers do.                         *)
Terminates == <>(verdict # "none")
=============================================================================
