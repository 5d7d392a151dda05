--------------------------- MODULE ParallelProofs ---------------------------
(***************************************************************************)
(* Every step of the parallel explorer is a step of the frontier or leaves *)
(* it alone, and keeps the explorer's invariant: the conversations are in  *)
(* order, the two books of leases agree, and it fails only for a reason.   *)
(***************************************************************************)
EXTENDS ParallelSessions

(* A frontier without failed nodes counts none.                             *)
FailuresCounted == (\A s \in State : phase[s] # "Failure") => phase_counts["Failure"] = 0

(* The main loop is left because the frontier is done, never because it     *)
(* failed on its own.                                                       *)
LEMMA LoopEndsStep ==
  ASSUME Base, PInv, FailuresCounted, LoopEnds
  PROVE  [Next]_vars /\ PInv'
<1>1. TypeOK /\ Typed /\ Endings /\ Base
  BY DEF PInv, Base
<1>2. /\ EndFrame /\ ending' = status /\ ending = "no" /\ ~poisoned /\ status # "Running"
      /\ UNCHANGED <<channel, hello, lease, received, serving, violation_state, excused,
                     proc, task, sent, stream>>
  <2>1. status \in {"Failed", "Running", "Bounded", "Complete"}
    BY DEF status
  <2>2. QED
    BY <2>1 DEF LoopEnds, Idle, EndFrame, coordVars, fixedVars, procVars
<1>3. status \in {"Bounded", "Complete"}
  <2>1. phase_counts["Failure"] = 0
    BY <1>1, <1>2, Zenon DEF Endings, FailuresCounted
  <2>2. QED
    BY <1>2, <2>1 DEF status
<1>4. [Next]_vars /\ Sessions' /\ Books' /\ Endings'
  BY <1>2, EndBooks
<1>5. FailsOnlyWhenExhausted'
  BY <1>2, <1>3, Zenon DEF FailsOnlyWhenExhausted
<1>6. Typed'
  BY <1>1, <1>2, <1>3 DEF Typed, PTypeOK, EndFrame
<1>7. QED
  BY <1>4, <1>5, <1>6, Assemble

(* SIGINT.                                                                  *)
LEMMA InterruptStep ==
  ASSUME Base, PInv, Interrupt
  PROVE  [Next]_vars /\ PInv'
<1>1. /\ EndFrame /\ ending' = "Failed" /\ excused' = TRUE /\ serving' = NoState
      /\ UNCHANGED <<channel, hello, lease, received, violation_state, proc, task, sent, stream>>
  BY DEF Interrupt, EndFrame, coordVars, fixedVars, procVars
<1>2. [Next]_vars /\ Sessions' /\ Books' /\ Endings'
  BY <1>1, EndBooks
<1>3. FailsOnlyWhenExhausted'
  BY <1>1, Zenon DEF FailsOnlyWhenExhausted
<1>4. Typed'
  BY <1>1 DEF PInv, Typed, PTypeOK, EndFrame
<1>5. QED
  BY <1>2, <1>3, <1>4, Assemble

-----------------------------------------------------------------------------
(* run_parallel() returns: no lease is left unless the frontier is poisoned.*)
LEMMA FinishStep ==
  ASSUME Base, PInv, Finish
  PROVE  [Next]_vars /\ PInv'
<1>1. TypeOK /\ Base /\ Typed /\ Endings /\ FailsOnlyWhenExhausted
  BY DEF PInv, Base
<1>2. /\ ending # "no" /\ verdict' = ending /\ call = "none"
      /\ UNCHANGED <<vars, options, bad, hello, lease, received, startup_failures, failures,
                     serving, ending, violation_state, excused>>
  BY DEF Finish, fixedVars
<1>3. UNCHANGED <<phase, ticket, roots, poisoned, call>>
  BY <1>2 DEF vars, nodeVars, histVars, callVars
<1>4. Sessions' /\ Books' /\ FailsOnlyWhenExhausted'
  BY <1>1, <1>2 DEF Sessions, Books, FailsOnlyWhenExhausted
<1>5. Released => \A s \in State : ticket[s] = NoTicket
  BY <1>1, Zenon DEF Released, Held, Base, TypeOK, Tickets
<1>6. Endings'
  <2>1. poisoned \/ Released
    BY Zenon DEF Finish
  <2>2. QED
    BY <1>1, <1>2, <1>3, <1>5, <2>1, Zenon DEF Endings
<1>7. Typed'
  <2>1. /\ channel' \in [Worker -> BOOLEAN]
        /\ proc' \in [Worker -> {"off", "boot", "idle", "run", "dead"}]
        /\ task' \in [Worker -> Tickets \cup {NoTicket}] /\ sent' \in [Worker -> Nat]
        /\ stream' \in [Worker -> Seq(Messages)]
        /\ \A w \in Worker : proc'[w] # "run"
    BY DEF Finish
  <2>2. QED
    BY <1>1, <1>2, <2>1 DEF Typed, PTypeOK
<1>8. [Next]_vars
  BY <1>2
<1>9. QED
  BY <1>4, <1>6, <1>7, <1>8, Assemble

(* std::bad_alloc.                                                          *)
LEMMA OutOfMemoryStep ==
  ASSUME Base, PInv, OutOfMemory
  PROVE  [Next]_vars /\ PInv'
<1>1. /\ BadAlloc /\ verdict = "none" /\ ending' = "Failed" /\ excused' = TRUE
      /\ serving' = NoState
      /\ UNCHANGED <<options, bad, channel, hello, lease, received, startup_failures, failures,
                     proc, task, sent, stream, verdict, violation_state>>
  BY DEF OutOfMemory, coordVars, fixedVars, procVars
<1>2. poisoned' /\ [Next]_vars
  BY <1>1 DEF BadAlloc, Next
<1>3. Sessions' /\ Books' /\ Endings' /\ FailsOnlyWhenExhausted'
  BY <1>1, <1>2, ZenonT(30) DEF Sessions, Books, Endings, FailsOnlyWhenExhausted
<1>4. Typed'
  BY <1>1 DEF PInv, Typed, PTypeOK
<1>5. QED
  BY <1>2, <1>3, <1>4, Assemble

(* What a step does that is the frontier's alone.                           *)
FrontierFrame ==
  UNCHANGED <<options, bad, channel, hello, lease, received, startup_failures, failures, serving,
              ending, verdict, violation_state, excused, proc, task, sent, stream>>

(* Such a step keeps what is the explorer's own.                            *)
LEMMA FrontierOnly ==
  ASSUME Base, PInv, FrontierFrame, [Next]_vars
  PROVE  Sessions' /\ Typed' /\ FailsOnlyWhenExhausted'
<1>1. Sessions /\ Typed /\ FailsOnlyWhenExhausted /\ Base
  BY DEF PInv, Base
<1>2. World
  BY <1>1, FrontierWorld DEF World, FrontierFrame
<1>3. \A v \in Worker : Same(v)
  BY DEF Same, FrontierFrame
<1>4. Sessions'
  BY <1>1, <1>2, <1>3, SessionsSame, Zenon DEF FrontierFrame
<1>5. Typed' /\ FailsOnlyWhenExhausted'
  BY <1>1 DEF Typed, PTypeOK, FailsOnlyWhenExhausted, FrontierFrame
<1>6. QED
  BY <1>4, <1>5

(* The root is admitted.                                                    *)
LEMMA StartStep ==
  ASSUME Base, PInv, Start
  PROVE  [Next]_vars /\ PInv'
<1>1. PICK a \in Admissions : a[2] = 0 /\ Admit(a[1], 0)
  BY DEF Start
<1>2. [Next]_vars
  BY <1>1 DEF Next
<1>3. FrontierFrame
  BY DEF Start, FrontierFrame, coordVars, fixedVars, endVars, procVars
<1>4. /\ UNCHANGED <<phase, ticket, poisoned>> /\ ~poisoned /\ roots = {} /\ roots' # {}
  BY <1>1 DEF Start, Admit, Idle, nodeVars
<1>5. ending = "no" /\ verdict = "none"
  BY <1>4, Zenon DEF PInv, Endings, Typed, PTypeOK
<1>6. Books' /\ Endings'
  BY <1>3, <1>4, <1>5, Zenon DEF PInv, Books, Endings, FrontierFrame
<1>7. QED
  BY <1>2, <1>3, <1>6, FrontierOnly, Assemble

(* A frontier call goes on.                                                 *)
LEMMA CallStep ==
  ASSUME Base, PInv, FrontierStep
  PROVE  [Next]_vars /\ PInv'
<1>1. [Next]_vars /\ FrontierFrame /\ call # "none"
  BY Zenon DEF FrontierStep, Next, Propagate, Return, FrontierFrame, coordVars, fixedVars, endVars,
         procVars
<1>2. Base /\ Books /\ Endings /\ phase \in [State -> Phases \cup {"Absent"}]
  BY Zenon DEF PInv, Base, TypeOK
<1>3. /\ UNCHANGED <<ticket, poisoned, roots>>
      /\ \A s \in State : phase'[s] = "Failure" => phase[s] = "Failure"
  <2>1. CASE Propagate
    <3>1. UNCHANGED <<ticket, poisoned, roots>>
      BY <2>1 DEF Propagate, histVars
    <3>2. \/ phase' = phase
          \/ \E s : phase' = [phase EXCEPT ![s] = "Pending"]
          \/ \E s : phase' = [phase EXCEPT ![s] = IF @ = "DepthCut" THEN "Pending" ELSE @]
      BY <2>1, Zenon DEF Propagate, PropagateInsert, PropagateDuplicate, PropagateImprove, Update
    <3>3. QED
      BY <1>2, <3>1, <3>2
  <2>2. CASE Return
    BY <2>2 DEF Return, nodeVars, histVars
  <2>3. QED
    BY <2>1, <2>2, Zenon DEF FrontierStep
<1>4. Books' /\ Endings'
  BY <1>1, <1>2, <1>3, Zenon DEF Books, Endings, FrontierFrame
<1>5. QED
  BY <1>1, <1>4, FrontierOnly, Assemble

(* A lease of a killed worker is returned after the main loop.              *)
LEMMA ReleaseStep ==
  ASSUME Base, PInv, NEW w \in Worker, Release(w)
  PROVE  [Next]_vars /\ PInv'
<1>1. /\ FrontierFrame /\ WorkerLost(w) /\ ending \in {"Violation", "Failed"} /\ verdict = "none"
  BY DEF Release, FrontierFrame, coordVars, fixedVars, endVars, procVars
<1>2. [Next]_vars
  BY <1>1 DEF Next
<1>3. UNCHANGED <<roots, poisoned>>
  BY <1>1, Zenon DEF WorkerLost, histVars
<1>4. Books' /\ Endings'
  BY <1>1, <1>3, ZenonT(30) DEF PInv, Books, Endings, FrontierFrame
<1>5. QED
  BY <1>1, <1>2, <1>4, FrontierOnly, Assemble

-----------------------------------------------------------------------------
(* Terminating a worker and clearing its job concern that worker alone.     *)
LostEffect(w) ==
  /\ channel' \in [Worker -> BOOLEAN] /\ lease' \in [Worker -> Tickets \cup {NoTicket}]
  /\ received' \in [Worker -> Seq(State)] /\ task' \in [Worker -> Tickets \cup {NoTicket}]
  /\ proc' \in [Worker -> {"off", "boot", "idle", "run", "dead"}]
  /\ sent' \in [Worker -> Nat] /\ stream' \in [Worker -> Seq(Messages)]
  /\ \A v \in Worker : proc'[v] = "run" => task'[v] # NoTicket
  /\ lease'[w] = NoTicket
  /\ \A v \in Worker \ {w} :
       /\ channel'[v] = channel[v] /\ lease'[v] = lease[v] /\ received'[v] = received[v]
       /\ task'[v] = task[v] /\ proc'[v] = proc[v] /\ sent'[v] = sent[v]
       /\ stream'[v] = stream[v]

(* Lost workers keep the types.                                            *)
LEMMA LostTypes ==
  ASSUME Typed, NEW w \in Worker, Terminate(w), ClearJob(w)
  PROVE  LostEffect(w)
<1>1. <<>> \in Seq(State) /\ <<>> \in Seq(Messages)
  OBVIOUS
<1>2. QED
  BY <1>1, Zenon DEF Typed, PTypeOK, Terminate, ClearJob, LostEffect

(* The counters of a running search, one more each.                         *)
LEMMA CountersUp ==
  ASSUME Typed, ending = "no"
  PROVE  /\ options.retries \in Nat
         /\ \A w \in Worker : /\ startup_failures[w] \in 0..options.retries
                              /\ startup_failures[w] + 1 \in 0..(options.retries + 1)
         /\ \A s \in State : /\ failures[s] \in 0..options.retries
                             /\ failures[s] + 1 \in 0..(options.retries + 1)
<1>1. options.retries \in Nat
  BY ParallelAssumption DEF Typed, PTypeOK
<1>2. QED
  BY <1>1 DEF Typed, PTypeOK

(* The books after the leases of w went back.                               *)
LEMMA BooksReturned ==
  ASSUME Base, NEW w \in Worker, ending = "no", ~poisoned, Books,
         \A v \in Worker : lease[v] # NoTicket => lease[v].worker = v /\ lease[v].state \in State,
         WorkerLost(w), lease'[w] = NoTicket, \A v \in Worker \ {w} : lease'[v] = lease[v]
  PROVE  Books'
<1>1. /\ ticket \in [State -> Tickets \cup {NoTicket}] /\ \A t \in Tickets : t.worker \in Worker
      /\ NoTicket \notin Tickets
  BY FrontierAssumption, Zenon DEF Base, TypeOK, Tickets
<1>2. \A s \in State : ticket'[s] = IF ticket[s] # NoTicket /\ ticket[s].worker = w
                                    THEN NoTicket ELSE ticket[s]
  BY Zenon DEF WorkerLost, Held
<1>3. /\ \A v \in Worker : lease[v] # NoTicket => ticket[lease[v].state] = lease[v]
      /\ \A s \in State : ticket[s] # NoTicket => lease[ticket[s].worker] = ticket[s]
  BY ZenonT(30) DEF Books
<1>4. ASSUME NEW v \in Worker, lease'[v] # NoTicket PROVE ticket'[lease'[v].state] = lease'[v]
  <2>1. v # w /\ lease'[v] = lease[v]
    BY <1>4, Zenon
  <2>2. /\ lease[v].state \in State /\ lease[v].worker = v
        /\ ticket[lease[v].state] = lease[v]
    BY <1>3, <1>4, <2>1, Zenon
  <2>3. QED
    BY <1>2, <2>1, <2>2, Zenon
<1>5. ASSUME NEW s \in State, ticket'[s] # NoTicket PROVE lease'[ticket'[s].worker] = ticket'[s]
  <2>1. ticket'[s] = ticket[s] /\ ticket[s] # NoTicket /\ ticket[s].worker # w
    BY <1>2, <1>5, Zenon
  <2>2. ticket[s].worker \in Worker
    BY <1>1, <2>1, Zenon
  <2>3. QED
    <3>1. lease[ticket[s].worker] = ticket[s]
      BY <1>3, <2>1, Zenon
    <3>2. QED
      BY <2>1, <2>2, <3>1, Zenon
<1>6. QED
  BY <1>4, <1>5, Zenon DEF Books

(* The lambda lost(), from wherever it is called.                           *)
LEMMA LostStep ==
  ASSUME Base, PInv, NEW w \in Worker, Lost(w), ending = "no", Idle, roots # {}, serving' = NoState
  PROVE  [Next]_vars /\ PInv'
<1>1. /\ TypeOK /\ Base /\ Typed /\ Sessions /\ Books /\ Endings /\ FailsOnlyWhenExhausted
      /\ ~poisoned /\ verdict = "none"
  BY Zenon DEF PInv, Base, Idle, Endings, Typed, PTypeOK
<1>2. /\ Terminate(w) /\ ClearJob(w) /\ NoState # w
      /\ UNCHANGED <<options, bad, hello, verdict, violation_state, excused>>
  BY ParallelAssumption DEF Lost, fixedVars
<1>3. LostEffect(w)
  BY <1>1, <1>2, LostTypes
<1>4. /\ options.retries \in Nat
      /\ startup_failures[w] \in 0..options.retries
      /\ startup_failures[w] + 1 \in 0..(options.retries + 1)
      /\ \A s \in State : /\ failures[s] \in 0..options.retries
                          /\ failures[s] + 1 \in 0..(options.retries + 1)
  BY <1>1, CountersUp
<1>5. \A v \in Worker : lease[v] # NoTicket =>
        lease[v].worker = v /\ lease[v].state \in State /\ lease[v] \in issued
  BY <1>1, WorkerTypes, Zenon DEF Sessions, Session
<1>6. ASSUME [Next]_vars, ending' = "no" => ending = "no" PROVE Sessions'
  <2>1. World
    BY <1>1, <1>2, <1>6, FrontierWorld DEF World
  <2>2. \A v \in Worker \ {w} : Same(v)
    BY <1>2, <1>3, ParallelAssumption, Zenon DEF Same, LostEffect
  <2>3. Session(w)'
    BY <1>1, <1>2, LostSession
  <2>4. QED
    BY <1>1, <1>6, <2>1, <2>2, <2>3, SessionsKept
<1>7. ASSUME failures' \in [State -> 0..(options.retries + 1)],
             startup_failures' \in [Worker -> 0..(options.retries + 1)],
             ending' \in {"no", "Failed"},
             ending' = "no" => /\ \A v \in Worker : startup_failures'[v] <= options.retries
                               /\ \A s \in State : failures'[s] <= options.retries
      PROVE  Typed'
  BY <1>1, <1>2, <1>3, <1>7, ZenonT(30) DEF Typed, PTypeOK, LostEffect
<1>8. CASE lease[w] # NoTicket
  <2> DEFINE s == lease[w].state
  <2>1. /\ s \in State /\ lease[w] \in issued
        /\ failures' = [failures EXCEPT ![s] = @ + 1] /\ UNCHANGED startup_failures
        /\ IF Exhausted(failures'[s])
           THEN Commit(lease[w], "Failure", <<>>) /\ ending' = "Failed"
           ELSE WorkerLost(w) /\ UNCHANGED ending
    BY <1>5, <1>8, ZenonT(30) DEF Lost
  <2> HIDE DEF s
  <2>2. /\ failures' \in [State -> 0..(options.retries + 1)] /\ failures'[s] = failures[s] + 1
        /\ \A x \in State \ {s} : failures'[x] = failures[x]
    BY <1>1, <1>4, <2>1 DEF Typed, PTypeOK
  <2>3. CASE Exhausted(failures'[s])
    <3>1. Commit(lease[w], "Failure", <<>>) /\ ending' = "Failed"
      BY <2>1, <2>3
    <3>2. /\ "Failure" \in Outcomes(lease[w])
          /\ Published(lease[w].state, "Failure") = <<>>
      BY Zenon DEF Outcomes, Published
    <3>3. [Next]_vars /\ UNCHANGED <<roots, poisoned>>
      BY <2>1, <3>1, <3>2, Zenon DEF Next, Commit, histVars
    <3>4. Sessions' /\ Books' /\ Endings'
      BY <1>1, <1>2, <3>1, <3>3, Zenon DEF Sessions, Books, Endings
    <3>5. FailsOnlyWhenExhausted'
      BY <1>2, <2>1, <2>3, Zenon DEF FailsOnlyWhenExhausted, Exhausted
    <3>6. Typed'
      BY <1>1, <1>2, <1>7, <2>1, <2>2, <3>1, ZenonT(30) DEF Typed, PTypeOK
    <3>7. QED
      BY <3>3, <3>4, <3>5, <3>6, Assemble
  <2>4. CASE ~Exhausted(failures'[s])
    <3>1. WorkerLost(w) /\ ending' = "no"
      BY <2>1, <2>4
    <3>2. [Next]_vars
      BY <3>1 DEF Next
    <3>3. /\ UNCHANGED <<roots, poisoned>>
          /\ \A x \in State : phase'[x] = phase[x] \/ phase'[x] = "Pending"
      BY <3>1 DEF WorkerLost, Update, histVars
    <3>4. Books'
      BY <1>1, <1>3, <1>5, <3>1, BooksReturned, Zenon DEF LostEffect
    <3>5. Endings' /\ FailsOnlyWhenExhausted'
      BY <1>1, <1>2, <3>1, <3>3, Zenon DEF Endings, FailsOnlyWhenExhausted
    <3>6. Sessions'
      BY <1>6, <3>1, <3>2
    <3>7. failures'[s] <= options.retries
      <4>1. failures'[s] \in Int /\ ~(failures'[s] > options'.retries)
        BY <2>1, <2>2, <2>4, <1>2 DEF Exhausted
      <4>2. QED
        BY <1>2, <1>4, <4>1
    <3>8. \A x \in State : failures'[x] <= options.retries
      BY <1>4, <2>2, <3>7
    <3>9. Typed'
      BY <1>1, <1>7, <2>1, <2>2, <3>1, <3>8, ZenonT(30) DEF Typed, PTypeOK
    <3>10. QED
      BY <3>2, <3>4, <3>5, <3>6, <3>9, Assemble, Zenon
  <2>5. QED
    BY <2>3, <2>4
<1>9. CASE lease[w] = NoTicket
  <2>1. /\ startup_failures' = [startup_failures EXCEPT ![w] = @ + 1]
        /\ ending' = IF Exhausted(startup_failures'[w]) THEN "Failed" ELSE ending
        /\ UNCHANGED <<vars, failures>>
    BY <1>9 DEF Lost
  <2>2. UNCHANGED <<graph, phase, ticket, roots, poisoned, issued, call>> /\ [Next]_vars
    BY <2>1, Zenon DEF vars, nodeVars, histVars, callVars
  <2>3. /\ startup_failures' \in [Worker -> 0..(options.retries + 1)]
        /\ startup_failures'[w] = startup_failures[w] + 1
        /\ \A v \in Worker \ {w} : startup_failures'[v] = startup_failures[v]
    BY <1>1, <1>4, <2>1, Zenon DEF Typed, PTypeOK
  <2>4. \A v \in Worker : lease'[v] = lease[v]
    BY <1>3, <1>9, Zenon DEF LostEffect
  <2>5. Books'
    <3>1. \A x \in State : ticket[x] # NoTicket => ticket[x].worker \in Worker
      BY <1>1, Zenon DEF Base, TypeOK, Tickets
    <3>2. QED
      BY <1>1, <2>2, <2>4, <3>1, Zenon DEF Books
  <2>6. Endings'
    BY <1>1, <1>2, <2>1, <2>2, Zenon DEF Endings
  <2>7. Sessions'
    BY <1>6, <2>2
  <2>8. FailsOnlyWhenExhausted'
    BY <1>1, <1>2, <2>1, Zenon DEF FailsOnlyWhenExhausted, Exhausted
  <2>9. ASSUME ending' = "no" PROVE startup_failures'[w] <= options.retries
    <3>1. startup_failures'[w] \in Int /\ ~(startup_failures'[w] > options.retries)
      BY <1>2, <2>1, <2>3, <2>9 DEF Exhausted
    <3>2. options.retries \in Nat
      BY <1>4, Zenon
    <3>3. QED
      BY <3>1, <3>2
  <2>10. Typed'
    BY <1>1, <1>7, <2>1, <2>3, <2>9, ZenonT(30) DEF Typed, PTypeOK
  <2>11. QED
    BY <2>2, <2>5, <2>6, <2>7, <2>8, <2>10, Assemble, Zenon
<1>10. QED
  BY <1>8, <1>9

-----------------------------------------------------------------------------
(* A lease is taken for an idle worker and entered in both books.           *)
LEMMA DispatchStep ==
  ASSUME Base, PInv, NEW w \in Worker, Dispatch(w)
  PROVE  [Next]_vars /\ PInv'
<1>1. /\ TypeOK /\ Base /\ LeaseIds /\ Typed /\ Sessions /\ Books /\ Endings
      /\ FailsOnlyWhenExhausted
  BY DEF PInv, Base
<1>2. /\ ending = "no" /\ serving = NoState /\ roots # {} /\ ~poisoned
      /\ channel[w] /\ hello[w] /\ lease[w] = NoTicket /\ Lease(w) /\ serving' = w
      /\ UNCHANGED <<options, bad, channel, hello, received, startup_failures, failures, ending,
                     verdict, violation_state, excused, proc, task, sent, stream>>
  BY Zenon DEF Dispatch, Looping, Idle, fixedVars, endVars, procVars
<1>3. [Next]_vars
  BY <1>2, Zenon DEF Next
<1>4. PICK s \in State :
        /\ phase[s] = "Pending" /\ NewTicket(s, w) \in Tickets
        /\ phase' = [phase EXCEPT ![s] = "Inflight"]
        /\ ticket' = [ticket EXCEPT ![s] = NewTicket(s, w)]
        /\ issued' = issued \cup {NewTicket(s, w)}
        /\ UNCHANGED <<graph, call, roots, poisoned>>
  BY <1>1, <1>2, LeaseEffect, Zenon
<1> DEFINE t == NewTicket(s, w)
<1>5. t.state = s /\ t.worker = w
  BY DEF NewTicket
<1> HIDE DEF t
<1>6. lease' = [lease EXCEPT ![w] = t]
  <2>1. PICK x \in issued' \ issued : lease' = [lease EXCEPT ![w] = x]
    BY Zenon DEF Dispatch
  <2>2. x = t
    BY <1>4, <2>1 DEF t
  <2>3. QED
    BY <2>1, <2>2
<1>7. t \in Tickets /\ t \in issued' /\ t # NoTicket /\ ticket[s] = NoTicket
  BY <1>1, <1>4, FrontierAssumption DEF t, Base, TicketsMatch
<1>8. /\ lease \in [Worker -> Tickets \cup {NoTicket}] /\ phase \in [State -> Phases \cup {"Absent"}]
      /\ ticket \in [State -> Tickets \cup {NoTicket}]
      /\ \A x \in Tickets : x.state \in State /\ x.worker \in Worker
  BY <1>1, Zenon DEF Typed, PTypeOK, Base, TypeOK, Tickets
<1>9. Books'
  <2>1. /\ lease'[w] = t /\ \A v \in Worker \ {w} : lease'[v] = lease[v]
        /\ ticket'[s] = t /\ \A x \in State \ {s} : ticket'[x] = ticket[x]
    BY <1>4, <1>6, <1>8, Zenon DEF t
  <2>2. /\ \A v \in Worker : lease[v] # NoTicket => ticket[lease[v].state] = lease[v]
        /\ \A x \in State : ticket[x] # NoTicket => lease[ticket[x].worker] = ticket[x]
    BY <1>1, <1>2, ZenonT(30) DEF Books
  <2>3. ASSUME NEW v \in Worker, lease'[v] # NoTicket PROVE ticket'[lease'[v].state] = lease'[v]
    <3>1. CASE v = w
      BY <1>5, <2>1, <3>1, Zenon
    <3>2. CASE v # w
      <4>1. lease'[v] = lease[v] /\ lease[v] # NoTicket /\ lease[v].state \in State
        BY <1>8, <2>1, <2>3, <3>2, Zenon
      <4>2. ticket[lease[v].state] = lease[v]
        BY <2>2, <4>1, Zenon
      <4>3. QED
        BY <1>7, <2>1, <4>1, <4>2, Zenon
    <3>3. QED
      BY <3>1, <3>2, Zenon
  <2>4. ASSUME NEW x \in State, ticket'[x] # NoTicket PROVE lease'[ticket'[x].worker] = ticket'[x]
    <3>1. CASE x = s
      BY <1>5, <2>1, <3>1, Zenon
    <3>2. CASE x # s
      <4>1. ticket'[x] = ticket[x] /\ ticket[x] # NoTicket /\ ticket[x].worker \in Worker
        BY <1>8, <2>1, <2>4, <3>2, Zenon
      <4>2. lease[ticket[x].worker] = ticket[x]
        BY <2>2, <4>1, Zenon
      <4>3. QED
        BY <1>2, <2>1, <4>1, <4>2, Zenon
    <3>3. QED
      BY <3>1, <3>2, Zenon
  <2>5. QED
    BY <2>3, <2>4, ZenonT(30) DEF Books
<1>10. Endings'
  <2>1. \A x \in State : phase'[x] = phase[x] \/ phase'[x] = "Inflight"
    BY <1>4, <1>8
  <2>2. verdict = "none"
    BY <1>1, <1>2, Zenon DEF Endings, Typed, PTypeOK
  <2>3. QED
    BY <1>1, <1>2, <1>4, <2>1, <2>2, ZenonT(30) DEF Endings
<1>11. FailsOnlyWhenExhausted'
  BY <1>1, <1>2, ZenonT(30) DEF FailsOnlyWhenExhausted
<1>12. Typed'
  <2>1. lease' \in [Worker -> Tickets \cup {NoTicket}]
    BY <1>6, <1>7, <1>8
  <2>2. QED
    BY <1>1, <1>2, <2>1, Zenon DEF Typed, PTypeOK
<1>13. Sessions'
  <2>1. World
    BY <1>1, <1>2, <1>3, FrontierWorld, Zenon DEF World
  <2>2. \A v \in Worker \ {w} : Same(v)
    BY <1>2, <1>6, <1>8, ZenonT(30) DEF Same
  <2>3. Session(w)
    BY <1>1, <1>2, Zenon DEF Sessions
  <2>4. Session(w)'
    BY <1>1, <1>2, <1>4, <1>5, <1>6, <1>7, <2>3, DispatchSession, ZenonT(30)
  <2>5. QED
    BY <1>1, <1>2, <2>1, <2>2, <2>4, SessionsKept, Zenon
<1>14. QED
  BY <1>3, <1>9, <1>10, <1>11, <1>12, <1>13, Assemble, Zenon

(* A result that is committed is one a faithful execution may report.       *)
LEMMA ClassifyOutcome ==
  ASSUME NEW t, Classify(t) # "Violation"
  PROVE  Classify(t) \in Outcomes(t) /\ Classify(t) # "Failure" /\ t.state \notin bad
BY Zenon DEF Classify, Outcomes

(* The books after the lease of w was committed.                            *)
LEMMA BooksCommitted ==
  ASSUME Base, PInv, NEW w \in Worker, ending = "no", lease[w] # NoTicket, lease[w] \in issued,
         NEW kind \in Outcomes(lease[w]), kind # "Failure",
         Commit(lease[w], kind, Published(lease[w].state, kind)), UNCHANGED <<ending, verdict>>,
         lease' = [lease EXCEPT ![w] = NoTicket], serving' = NoState
  PROVE  [Next]_vars /\ Books' /\ Endings'
<1> DEFINE t == lease[w]
<1>1. Books /\ Endings /\ Sessions /\ Typed
  BY DEF PInv, Base
<1>2. [Next]_vars
  BY DEF Next
<1>3. /\ t.state \in State /\ ticket[t.state] = t
      /\ phase' = [phase EXCEPT ![t.state] = CommittedPhase(t.state, kind)]
      /\ ticket' = [ticket EXCEPT ![t.state] = NoTicket]
      /\ UNCHANGED <<roots, poisoned>> /\ ~poisoned
  BY <1>1, WorkerTypes, Zenon DEF Commit, Idle, Current, Update, histVars, Base
<1>4. /\ lease \in [Worker -> Tickets \cup {NoTicket}] /\ phase \in [State -> Phases \cup {"Absent"}]
      /\ ticket \in [State -> Tickets \cup {NoTicket}]
      /\ \A x \in Tickets : x.state \in State /\ x.worker \in Worker
      /\ NoTicket \notin Tickets
  BY <1>1, FrontierAssumption, Zenon DEF Typed, PTypeOK, Base, TypeOK, Tickets
<1>5. \A v \in Worker : lease[v] # NoTicket => lease[v].worker = v
  BY <1>1, Zenon DEF Sessions, Session
<1>6. /\ \A v \in Worker : lease[v] # NoTicket => ticket[lease[v].state] = lease[v]
      /\ \A x \in State : ticket[x] # NoTicket => lease[ticket[x].worker] = ticket[x]
  BY <1>1, <1>3, Zenon DEF Books
<1>7. /\ lease'[w] = NoTicket /\ \A v \in Worker \ {w} : lease'[v] = lease[v]
      /\ ticket'[t.state] = NoTicket /\ \A x \in State \ {t.state} : ticket'[x] = ticket[x]
  BY <1>3, <1>4
<1>8. ASSUME NEW v \in Worker, lease'[v] # NoTicket PROVE ticket'[lease'[v].state] = lease'[v]
  <2>1. v # w /\ lease'[v] = lease[v] /\ lease[v].state \in State
    BY <1>4, <1>7, <1>8, Zenon
  <2>2. lease[v].worker = v /\ ticket[lease[v].state] = lease[v]
    BY <1>5, <1>6, <1>8, <2>1, Zenon
  <2>3. lease[v].state # t.state
    BY <1>3, <1>5, <2>1, <2>2, Zenon
  <2>4. QED
    BY <1>7, <2>1, <2>2, <2>3, ZenonT(30)
<1>9. ASSUME NEW x \in State, ticket'[x] # NoTicket PROVE lease'[ticket'[x].worker] = ticket'[x]
  <2>1. ticket'[x] = ticket[x] /\ x # t.state /\ ticket[x].worker \in Worker
    BY <1>4, <1>7, <1>9, ZenonT(30)
  <2>2. ticket[x].state = x
    BY <1>1, <1>9, <2>1, Zenon DEF Base, TicketsMatch
  <2>3. ticket[x].worker # w
    BY <1>6, <1>9, <2>1, <2>2, Zenon
  <2>4. QED
    <3>1. lease[ticket[x].worker] = ticket[x]
      BY <1>6, <1>9, <2>1, Zenon
    <3>2. QED
      BY <1>7, <2>1, <2>3, <3>1, Zenon
<1>10. Books'
  BY <1>8, <1>9, Zenon DEF Books
<1>11. Endings'
  <2>1. \A x \in State : phase'[x] # "Failure"
    BY <1>1, <1>3, <1>4, ZenonT(30) DEF Endings, CommittedPhase
  <2>2. verdict = "none"
    BY <1>1, Zenon DEF Endings, Typed, PTypeOK
  <2>3. QED
    BY <1>1, <1>3, <2>1, <2>2, Zenon DEF Endings
<1>12. QED
  BY <1>2, <1>10, <1>11

(* The lease and the edges of a worker whose job is cleared.                *)
LEMMA ClearTypes ==
  ASSUME TypeOK, Typed, NEW w \in Worker, ClearJob(w)
  PROVE  lease' \in [Worker -> Tickets \cup {NoTicket}] /\ received' \in [Worker -> Seq(State)]
<1>1. /\ lease \in [Worker -> Tickets \cup {NoTicket}] /\ received \in [Worker -> Seq(State)]
      /\ <<>> \in Seq(State)
  BY WorkerTypes, Zenon DEF Typed, PTypeOK
<1>2. QED
  BY <1>1, Zenon DEF ClearJob

(* A lease that needs no execution is completed by the coordinator.         *)
LEMMA CompleteStep ==
  ASSUME Base, PInv, NEW w \in Worker, CompleteLocally(w)
  PROVE  [Next]_vars /\ PInv'
<1> DEFINE t == lease[w]
<1>1. /\ TypeOK /\ Base /\ Typed /\ Sessions /\ Endings /\ FailsOnlyWhenExhausted
  BY DEF PInv, Base
<1>2. /\ serving = w /\ ending = "no" /\ serving' = NoState /\ ClearJob(w)
      /\ Classify(t) # "Expanded"
      /\ IF Classify(t) = "Violation"
         THEN ending' = "Violation" /\ violation_state' = t.state /\ UNCHANGED vars
         ELSE Commit(t, Classify(t), <<>>) /\ UNCHANGED <<ending, violation_state>>
      /\ UNCHANGED <<options, bad, channel, hello, startup_failures, failures, verdict, excused,
                     proc, task, sent, stream>>
  BY DEF CompleteLocally, fixedVars, procVars
<1>3. Session(w) /\ NoState # w
  BY <1>1, <1>2, ParallelAssumption, Zenon DEF Sessions
<1>4. t # NoTicket /\ t \in issued /\ t.state \in State
  BY <1>1, <1>2, <1>3, WorkerTypes, ZenonT(30) DEF Session
<1>5. roots # {}
  BY <1>1, <1>2, <1>3, ZenonT(30) DEF Endings
<1>6. /\ lease' = [lease EXCEPT ![w] = NoTicket] /\ received' = [received EXCEPT ![w] = <<>>]
      /\ lease' \in [Worker -> Tickets \cup {NoTicket}] /\ received' \in [Worker -> Seq(State)]
  BY <1>1, <1>2, ClearTypes, Zenon DEF ClearJob
<1>7. Typed'
  <2>1. ending' \in {"no", "Violation"} /\ violation_state' \in State \cup {NoState}
    BY <1>1, <1>2, <1>4 DEF Typed, PTypeOK
  <2>2. serving' \in Worker \cup {NoState}
    BY <1>2
  <2> HIDE DEF t
  <2>3. QED
    BY <1>1, <1>2, <1>6, <2>1, <2>2, ZenonT(30) DEF Typed, PTypeOK
<1>8. CASE Classify(t) = "Violation"
  <2>1. EndFrame /\ ending' = "Violation"
    BY <1>2, <1>5, <1>8 DEF EndFrame
  <2>2. [Next]_vars /\ Sessions' /\ Books' /\ Endings'
    BY <2>1, EndBooks
  <2>3. FailsOnlyWhenExhausted'
    BY <2>1 DEF FailsOnlyWhenExhausted
  <2>4. QED
    BY <1>7, <2>2, <2>3, Assemble
<1>9. CASE Classify(t) # "Violation"
  <2>1. Classify(t) \in Outcomes(t) /\ Classify(t) # "Failure"
    BY <1>9, ClassifyOutcome, Zenon
  <2>2. Commit(t, Classify(t), Published(t.state, Classify(t))) /\ UNCHANGED <<ending, verdict>>
    BY <1>2, <1>9, Zenon DEF Published
  <2>3. [Next]_vars /\ Books' /\ Endings'
    BY <1>2, <1>4, <1>6, <2>1, <2>2, BooksCommitted, Zenon
  <2>4. FailsOnlyWhenExhausted'
    BY <1>1, <1>2, <2>2, ZenonT(30) DEF FailsOnlyWhenExhausted
  <2>5. World
    BY <1>1, <1>2, <2>3, FrontierWorld, Zenon DEF World
  <2>6. \A v \in Worker \ {w} : Same(v)
    BY <1>1, <1>2, <1>6, ParallelAssumption, ZenonT(30) DEF Same, Typed, PTypeOK
  <2>7. Session(w)'
    BY <1>1, <1>2, <1>3, CompleteSession
  <2>8. Sessions'
    BY <1>1, <1>2, <2>5, <2>6, <2>7, SessionsKept, Zenon
  <2>9. QED
    BY <1>7, <2>3, <2>4, <2>8, Assemble
<1>10. QED
  BY <1>8, <1>9

(* A receipt is accepted: the result is committed, or it is a violation.    *)
LEMMA DoneStep ==
  ASSUME Base, PInv, NEW w \in Worker, Polling(w), stream[w] # <<>>, UNCHANGED serving,
         ReceiveDone(w, Head(stream[w]))
  PROVE  [Next]_vars /\ PInv'
<1> DEFINE t == lease[w]
<1>1. /\ TypeOK /\ Base /\ Typed /\ Sessions /\ Session(w) /\ ending = "no" /\ serving = NoState
      /\ serving' = NoState /\ NoState # w /\ roots # {} /\ FailsOnlyWhenExhausted
  BY Received, ZenonT(30) DEF PInv, Base
<1>2. Head(stream[w]).kind = "Done" /\ Pop(w)
  BY Zenon DEF ReceiveDone
<1>3. /\ t # NoTicket /\ Receipt(w, Head(stream[w])) /\ Head(stream[w]).how = Classify(t)
      /\ received[w] = Published(t.state, Classify(t))
  BY <1>1, <1>2, DoneExpected, ZenonT(30)
<1>4. /\ ClearJob(w)
      /\ IF Classify(t) = "Violation"
         THEN ending' = "Violation" /\ violation_state' = t.state /\ UNCHANGED vars
         ELSE /\ Commit(t, Classify(t), Published(t.state, Classify(t)))
              /\ UNCHANGED <<ending, violation_state>>
      /\ UNCHANGED <<options, bad, channel, hello, startup_failures, failures, verdict, excused>>
  BY <1>3, Zenon DEF ReceiveDone, fixedVars
<1>5. t \in issued /\ t.state \in State
  BY <1>1, <1>3, WorkerTypes, ZenonT(30) DEF Session
<1>6. /\ lease' = [lease EXCEPT ![w] = NoTicket] /\ received' = [received EXCEPT ![w] = <<>>]
      /\ lease' \in [Worker -> Tickets \cup {NoTicket}] /\ received' \in [Worker -> Seq(State)]
  BY <1>1, <1>4, ClearTypes, Zenon DEF ClearJob
<1>7. /\ stream' \in [Worker -> Seq(Messages)] /\ UNCHANGED <<proc, task, sent>>
      /\ \A v \in Worker \ {w} : stream'[v] = stream[v]
  BY <1>1, <1>2, PopTypes, ZenonT(30)
<1>8. Typed'
  <2>1. ending' \in {"no", "Violation"} /\ violation_state' \in State \cup {NoState}
    BY <1>1, <1>4, <1>5, ZenonT(30) DEF Typed, PTypeOK
  <2> HIDE DEF t
  <2>2. QED
    BY <1>1, <1>4, <1>6, <1>7, <2>1, ZenonT(30) DEF Typed, PTypeOK
<1>9. CASE Classify(t) = "Violation"
  <2>1. EndFrame /\ ending' = "Violation"
    BY <1>1, <1>4, <1>9, ZenonT(30) DEF EndFrame
  <2>2. [Next]_vars /\ Sessions' /\ Books' /\ Endings'
    BY <2>1, EndBooks
  <2>3. FailsOnlyWhenExhausted'
    BY <2>1 DEF FailsOnlyWhenExhausted
  <2>4. QED
    BY <1>8, <2>2, <2>3, Assemble, Zenon
<1>10. CASE Classify(t) # "Violation"
  <2>1. Classify(t) \in Outcomes(t) /\ Classify(t) # "Failure"
    BY <1>10, ClassifyOutcome, Zenon
  <2>2. /\ Commit(t, Classify(t), Published(t.state, Classify(t)))
        /\ UNCHANGED <<ending, verdict>>
    BY <1>4, <1>10, Zenon
  <2>3. [Next]_vars /\ Books' /\ Endings'
    BY <1>1, <1>3, <1>5, <1>6, <2>1, <2>2, BooksCommitted, ZenonT(30)
  <2>4. FailsOnlyWhenExhausted'
    BY <1>1, <1>4, <2>2, Zenon DEF FailsOnlyWhenExhausted
  <2>5. World
    BY <1>1, <1>4, <2>3, FrontierWorld, ZenonT(30) DEF World
  <2>6. \A v \in Worker \ {w} : Same(v)
    BY <1>1, <1>4, <1>6, <1>7, Zenon DEF Same, Typed, PTypeOK
  <2>7. Session(w)'
    BY <1>1, DoneSession, ZenonT(30)
  <2>8. Sessions'
    BY <1>1, <2>2, <2>5, <2>6, <2>7, SessionsKept, ZenonT(30)
  <2>9. QED
    BY <1>8, <2>3, <2>4, <2>8, Assemble, ZenonT(30)
<1>11. QED
  BY <1>9, <1>10, Zenon

-----------------------------------------------------------------------------
(* A message is received, whatever it is.                                   *)
LEMMA ReceiveStep ==
  ASSUME Base, PInv, NEW w \in Worker, Receive(w)
  PROVE  [Next]_vars /\ PInv'
<1> DEFINE m == Head(stream[w])
<1>1. Polling(w) /\ stream[w] # <<>> /\ UNCHANGED serving
  BY ZenonT(30) DEF Receive
<1>2. CASE ReceiveHello(w, m)
  BY <1>1, <1>2, HelloStep
<1>3. CASE ReceiveError(w, m)
  <2>1. CASE Lost(w)
    BY <1>1, <2>1, LostStep, Zenon DEF Polling, Looping
  <2>2. CASE Pop(w) /\ Throw /\ UNCHANGED <<vars, coordVars>>
    BY <1>1, <1>3, <2>2, ErrorStep, ZenonT(30) DEF ReceiveError
  <2>3. QED
    BY <1>3, <2>1, <2>2, Zenon DEF ReceiveError
<1>4. CASE ReceiveEdge(w, m)
  BY <1>1, <1>4, EdgeStep
<1>5. CASE ReceiveDone(w, m)
  BY <1>1, <1>5, DoneStep
<1>6. QED
  BY <1>2, <1>3, <1>4, <1>5, ZenonT(30) DEF Receive

(* A worker that cannot be started, reached or waited for.                  *)
LEMMA FaultStep ==
  ASSUME Base, PInv, NEW w \in Worker,
         SpawnFails(w) \/ SendFails(w) \/ DeadlineExceeded(w) \/ StreamClosed(w)
  PROVE  [Next]_vars /\ PInv'
<1>1. CASE SpawnFails(w) \/ DeadlineExceeded(w) \/ StreamClosed(w)
  <2>1. Lost(w) /\ ending = "no" /\ Idle /\ roots # {} /\ serving' = NoState
    BY <1>1, ZenonT(30) DEF SpawnFails, DeadlineExceeded, StreamClosed, Polling, Looping
  <2>2. QED
    BY <2>1, LostStep, Zenon
<1>2. CASE SendFails(w)
  <2>1. roots # {}
    BY <1>2, ParallelAssumption, Zenon DEF SendFails, PInv, Endings
  <2>2. QED
    BY <1>2, <2>1, LostStep, Zenon DEF SendFails
<1>3. QED
  BY <1>1, <1>2

(* Every step of the explorer is one of the frontier or leaves it alone,    *)
(* and keeps the invariant.                                                 *)
LEMMA ExplorerStep ==
  ASSUME Base, PInv, FailuresCounted, [PNext]_pvars
  PROVE  [Next]_vars /\ PInv'
<1>1. CASE UNCHANGED pvars
  <2>1. QuietFrame /\ FrontierFrame /\ [Next]_vars
    BY <1>1 DEF pvars, coordVars, fixedVars, endVars, procVars, QuietFrame, FrontierFrame
  <2>2. QED
    BY <2>1, QuietBooks, FrontierOnly, Assemble, Zenon
<1>2. CASE Start
  BY <1>2, StartStep
<1>3. CASE FrontierStep
  BY <1>3, CallStep
<1>4. CASE LoopEnds
  BY <1>4, LoopEndsStep, Zenon
<1>5. CASE Finish
  BY <1>5, FinishStep
<1>6. CASE Interrupt
  BY <1>6, InterruptStep
<1>7. CASE OutOfMemory
  BY <1>7, OutOfMemoryStep
<1>8. ASSUME NEW w \in Worker, Coordinator(w) PROVE [Next]_vars /\ PInv'
  <2>1. CASE DeadlineExceeded(w) \/ StreamClosed(w)
    BY <2>1, FaultStep
  <2>2. CASE Spawn(w)
    BY <2>2, SpawnStep
  <2>3. CASE Dispatch(w)
    BY <2>3, DispatchStep
  <2>4. CASE CompleteLocally(w)
    BY <2>4, CompleteStep, Zenon
  <2>5. CASE SendTask(w)
    BY <2>5, SendTaskStep
  <2>6. CASE Receive(w)
    BY <2>6, ReceiveStep
  <2>7. CASE Release(w)
    BY <2>7, ReleaseStep
  <2>8. QED
    BY <1>8, <2>1, <2>2, <2>3, <2>4, <2>5, <2>6, <2>7, ZenonT(30) DEF Coordinator
<1>9. ASSUME NEW w \in Worker, WorkerProcess(w) PROVE [Next]_vars /\ PInv'
  BY <1>9, ProcessStep
<1>10. ASSUME NEW w \in Worker, Faults(w) PROVE [Next]_vars /\ PInv'
  BY <1>10, ProcessStep, FaultStep DEF Faults
<1>11. QED
  BY <1>1, <1>2, <1>3, <1>4, <1>5, <1>6, <1>7, <1>8, <1>9, <1>10, ZenonT(30) DEF PNext

-----------------------------------------------------------------------------
(* What the verdict rests on: run_parallel() admits its root at depth 0,    *)
(* only states that were seen not to violate the property are expanded or   *)
(* put aside, and the reason to leave the loop is a true one.               *)
Screened ==
  \A s \in State : phase[s] \in {"Expanded", "Terminal", "DepthCut"} => s \notin bad

Judged ==
  /\ ending = "Violation" => violation_state \in Within(Limit) \cap bad
  /\ ending \in {"Bounded", "Complete"} => Within(Limit) \cap bad = {}
  /\ ending = "Complete" => Within(Limit + 1) = Within(Limit)

VInv == RootsAtZero /\ NoBudgetCut /\ Screened /\ Judged

(* A step that neither ends the loop nor takes a state for harmless without *)
(* having looked at it.                                                     *)
Careful ==
  \A s \in State :
    \/ phase'[s] = phase[s]
    \/ phase'[s] \in {"Pending", "Inflight", "Failure"}
    \/ phase'[s] # "ModelBudget" /\ s \notin bad

LEMMA VerdictKept ==
  ASSUME VInv, UNCHANGED <<graph, roots, bad>>, Careful,
         ending' \in {"no", "Failed"} \/ UNCHANGED <<ending, violation_state>>
  PROVE  VInv'
<1>1. RootsAtZero'
  BY DEF VInv, RootsAtZero
<1>2. NoBudgetCut' /\ Screened'
  BY DEF VInv, NoBudgetCut, Screened, Careful
<1>3. \A d \in {Limit, Limit + 1} : Within(d)' = Within(d)
  BY DEF Within, Paths
<1>4. Judged'
  BY <1>3 DEF VInv, Judged
<1>5. QED
  BY <1>1, <1>2, <1>4 DEF VInv

LEMMA VerdictUntouched ==
  ASSUME VInv, UNCHANGED <<vars, bad>>,
         ending' \in {"no", "Failed"} \/ UNCHANGED <<ending, violation_state>>
  PROVE  VInv'
<1>1. UNCHANGED <<graph, roots>> /\ Careful
  BY DEF vars, nodeVars, histVars, Careful
<1>2. QED
  BY <1>1, VerdictKept

(* The frontier's own steps put states in the queue or in flight.           *)
LEMMA FrontierCareful ==
  ASSUME Base, Propagate \/ Return \/ BadAlloc \/ \E w \in Worker : Lease(w) \/ WorkerLost(w)
  PROVE  UNCHANGED <<graph, roots>> /\ Careful
<1>1. phase \in [State -> Phases \cup {"Absent"}]
  BY DEF Base, TypeOK
<1>2. CASE Propagate
  <2>1. UNCHANGED <<graph, roots>>
    BY <1>2, Zenon DEF Propagate, histVars
  <2>2. PICK s : \/ UNCHANGED phase
                 \/ phase' = [phase EXCEPT ![s] = "Pending"]
                 \/ phase' = [phase EXCEPT ![s] = IF @ = "DepthCut" THEN "Pending" ELSE @]
    BY <1>2, Zenon
       DEF Propagate, PropagateInsert, PropagateDuplicate, PropagateImprove, Update
  <2>3. QED
    BY <1>1, <2>1, <2>2 DEF Careful
<1>3. CASE Return \/ BadAlloc
  BY <1>3 DEF Return, BadAlloc, nodeVars, histVars, Careful
<1>4. ASSUME NEW w \in Worker, Lease(w) PROVE UNCHANGED <<graph, roots>> /\ Careful
  BY <1>1, <1>4, LeaseEffect DEF Careful
<1>5. ASSUME NEW w \in Worker, WorkerLost(w) PROVE UNCHANGED <<graph, roots>> /\ Careful
  <2>1. /\ phase' = [s \in State |-> IF s \in Held(w) THEN "Pending" ELSE phase[s]]
        /\ UNCHANGED <<graph, roots>>
    BY <1>5, Zenon DEF WorkerLost, Update, histVars
  <2>2. QED
    BY <2>1 DEF Careful
<1>6. QED
  BY <1>2, <1>3, <1>4, <1>5

(* A commit is careful when it fails the state, or when the state does not  *)
(* violate the property and its result is not a model-budget cut.           *)
LEMMA CommitCareful ==
  ASSUME Base, NEW t, NEW kind, NEW succ, Commit(t, kind, succ),
         kind = "Failure" \/ (kind # "ModelBudget" /\ t.state \notin bad)
  PROVE  UNCHANGED <<graph, roots>> /\ Careful
<1>1. phase \in [State -> Phases \cup {"Absent"}]
  BY DEF Base, TypeOK
<1>2. /\ phase' = [phase EXCEPT ![t.state] = CommittedPhase(t.state, kind)]
      /\ UNCHANGED <<graph, roots>>
  BY Zenon DEF Commit, Update, histVars
<1>3. CommittedPhase(t.state, kind) \in {"Pending", kind}
  BY DEF CommittedPhase
<1>4. QED
  BY <1>1, <1>2, <1>3 DEF Careful

LEMMA ClassifyCareful ==
  ASSUME NEW t
  PROVE  /\ Classify(t) = "Violation" <=> t.state \in bad
         /\ Classify(t) # "ModelBudget"
BY DEF Classify

LEMMA LostVerdict ==
  ASSUME Base, VInv, NEW w \in Worker, Lost(w), ending = "no"
  PROVE  VInv'
<1>1. bad' = bad /\ violation_state' = violation_state
  BY Zenon DEF Lost, fixedVars
<1>2. CASE lease[w] # NoTicket
  <2>1. \/ Commit(lease[w], "Failure", <<>>) /\ ending' = "Failed"
        \/ WorkerLost(w) /\ UNCHANGED ending
    BY <1>2, Zenon DEF Lost
  <2>2. UNCHANGED <<graph, roots>> /\ Careful
    <3>1. CASE Commit(lease[w], "Failure", <<>>)
      BY <3>1, CommitCareful, Zenon
    <3>2. CASE WorkerLost(w)
      BY <3>2, FrontierCareful
    <3>3. QED
      BY <2>1, <3>1, <3>2
  <2>3. QED
    BY <1>1, <2>1, <2>2, VerdictKept
<1>3. CASE lease[w] = NoTicket
  <2>1. UNCHANGED vars /\ ending' \in {"Failed", ending}
    BY <1>3, Zenon DEF Lost
  <2>2. QED
    BY <1>1, <2>1, VerdictUntouched
<1>4. QED
  BY <1>2, <1>3

(* A lease of the coordinator is for a state within the limit, and one that *)
(* may be expanded is for a state above it.                                 *)
LEMMA LeaseWithin ==
  ASSUME Base, PathsKnown, PInv, NEW w \in Worker, lease[w] # NoTicket, ending = "no", Idle
  PROVE  /\ lease[w].state \in Within(Limit) /\ lease[w].state \in State
         /\ lease[w].may_expand => \A u \in Range(graph[lease[w].state]) : u \in Within(Limit)
<1> DEFINE s == lease[w].state
<1>1. TypeOK /\ TicketsMatch /\ Typed /\ Books /\ ~poisoned /\ Limit \in Nat
  BY FrontierAssumption, Zenon DEF Base, PInv, Idle
<1>2. s \in State /\ ticket[s] = lease[w]
  BY <1>1, WorkerTypes, Zenon DEF Books
<1>3. /\ phase[s] = "Inflight" /\ lease[w].may_expand = (lease[w].depth < Limit)
      /\ depth[s] <= lease[w].depth
  BY <1>1, <1>2, Zenon DEF TicketsMatch
<1>4. lease[w] \in Tickets
  BY <1>1, WorkerTypes
<1>5. lease[w].depth \in Nat
  BY <1>4 DEF Tickets
<1> HIDE DEF s
<1>6. depth[s] \in 0..Limit /\ s \in Known
  BY <1>1, <1>2, <1>3 DEF TypeOK, Known
<1>7. s \in Within(depth[s])
  BY <1>6 DEF PathsKnown
<1>8. depth[s] \in Nat /\ depth[s] + 1 \in Nat /\ depth[s] <= Limit
      /\ (lease[w].depth < Limit => depth[s] + 1 <= Limit)
  BY <1>1, <1>3, <1>5, <1>6
<1>9. s \in Within(Limit)
  BY <1>1, <1>7, <1>8, WithinGrows
<1>10. ASSUME lease[w].may_expand, NEW u \in Range(graph[s]) PROVE u \in Within(Limit)
  <2>1. u \in State
    BY <1>1, <1>2, SuccessorsAreStates
  <2>2. u \in Within(depth[s] + 1)
    BY <1>7, <1>8, <2>1, WithinStep
  <2>3. depth[s] + 1 <= Limit
    BY <1>3, <1>8, <1>10, Zenon
  <2>4. QED
    BY <1>1, <1>8, <2>2, <2>3, WithinGrows
<1>11. QED
  BY <1>2, <1>9, <1>10 DEF s

(* A violation that ends the loop is one.                                   *)
LEMMA VerdictFound ==
  ASSUME VInv, UNCHANGED <<vars, bad>>, ending' = "Violation",
         violation_state' \in Within(Limit) \cap bad
  PROVE  VInv'
<1>1. RootsAtZero' /\ NoBudgetCut' /\ Screened'
  BY DEF VInv, RootsAtZero, NoBudgetCut, Screened, vars, nodeVars, histVars
<1>2. Within(Limit)' = Within(Limit)
  BY DEF Within, Paths, vars, nodeVars, histVars
<1>3. Judged'
  BY <1>2 DEF Judged
<1>4. QED
  BY <1>1, <1>3 DEF VInv

(* Every step of the explorer keeps it.                                     *)
LEMMA CompleteVerdict ==
  ASSUME Base, PathsKnown, PInv, VInv, NEW w \in Worker, CompleteLocally(w)
  PROVE  VInv'
<1>1. /\ serving = w /\ ending = "no" /\ Idle /\ bad' = bad
      /\ IF Classify(lease[w]) = "Violation"
         THEN ending' = "Violation" /\ violation_state' = lease[w].state /\ UNCHANGED vars
         ELSE /\ Commit(lease[w], Classify(lease[w]), <<>>)
              /\ UNCHANGED <<ending, violation_state>>
  BY Zenon DEF CompleteLocally, fixedVars
<1>2. lease[w] # NoTicket
  BY <1>1, Zenon DEF PInv, Sessions, Session
<1>3. CASE lease[w].state \in bad
  <2>1. violation_state' \in Within(Limit) \cap bad
    BY <1>1, <1>2, <1>3, LeaseWithin, ClassifyCareful, Zenon
  <2>2. QED
    BY <1>1, <1>3, <2>1, ClassifyCareful, VerdictFound
<1>4. CASE lease[w].state \notin bad
  <2>1. Commit(lease[w], Classify(lease[w]), <<>>) /\ UNCHANGED <<ending, violation_state>>
    BY <1>1, <1>4, ClassifyCareful
  <2>2. UNCHANGED <<graph, roots>> /\ Careful
    BY <1>4, <2>1, CommitCareful, ClassifyCareful, Zenon
  <2>3. QED
    BY <1>1, <2>1, <2>2, VerdictKept
<1>5. QED
  BY <1>3, <1>4

LEMMA EdgeVerdict ==
  ASSUME Base, PathsKnown, PInv, VInv, NEW w \in Worker, Polling(w), stream[w] # <<>>,
         UNCHANGED serving, ReceiveEdge(w, Head(stream[w]))
  PROVE  VInv'
<1> DEFINE m == Head(stream[w])
           u == graph[lease[w].state][m.index]
<1>1. /\ TypeOK /\ Typed /\ Session(w) /\ ending = "no" /\ Idle
  BY Received, Zenon DEF Polling, Looping
<1>2. m.kind = "Edge" /\ UNCHANGED <<vars, bad>>
  BY Zenon DEF ReceiveEdge, fixedVars
<1>3. /\ lease[w] # NoTicket /\ Answers(w, m) /\ lease[w].may_expand
      /\ m.index = Len(received[w]) + 1 /\ m.index \in 1..Len(graph[lease[w].state])
  BY <1>1, <1>2, EdgeExpected, Zenon
<1>4. IF u \in bad THEN ending' = "Violation" /\ violation_state' = u
      ELSE UNCHANGED <<ending, violation_state>>
  BY <1>3, Zenon DEF ReceiveEdge
<1>5. u \in Range(graph[lease[w].state])
  <2>1. lease[w].state \in State
    BY <1>1, <1>3, WorkerTypes, Zenon
  <2>2. \A i \in 1..Len(graph[lease[w].state]) :
          graph[lease[w].state][i] \in Range(graph[lease[w].state])
    BY <1>1, <2>1, SuccessorsAreStates, Zenon
  <2>3. QED
    BY <1>3, <2>2, Zenon
<1>6. u \in Within(Limit)
  BY <1>1, <1>3, <1>5, LeaseWithin, Zenon
<1> HIDE DEF m, u
<1>7. QED
  BY <1>2, <1>4, <1>6, VerdictFound, VerdictUntouched, Zenon

LEMMA DoneVerdict ==
  ASSUME Base, PathsKnown, PInv, VInv, NEW w \in Worker, Polling(w), stream[w] # <<>>,
         UNCHANGED serving, ReceiveDone(w, Head(stream[w]))
  PROVE  VInv'
<1> DEFINE m == Head(stream[w])
<1>1. /\ TypeOK /\ Typed /\ Session(w) /\ ending = "no" /\ Idle
  BY Received, Zenon DEF Polling, Looping
<1>2. m.kind = "Done" /\ bad' = bad
  BY Zenon DEF ReceiveDone, fixedVars
<1>3. lease[w] # NoTicket /\ Receipt(w, m) /\ m.how = Classify(lease[w])
  BY <1>1, <1>2, DoneExpected, Zenon
<1>4. IF m.how = "Violation"
      THEN ending' = "Violation" /\ violation_state' = lease[w].state /\ UNCHANGED vars
      ELSE Commit(lease[w], m.how, received[w]) /\ UNCHANGED <<ending, violation_state>>
  BY <1>3, Zenon DEF ReceiveDone
<1> HIDE DEF m
<1>5. CASE lease[w].state \in bad
  <2>1. m.how = "Violation"
    BY <1>3, <1>5, ClassifyCareful, Zenon
  <2>2. violation_state' \in Within(Limit) \cap bad
    BY <1>1, <1>3, <1>4, <1>5, <2>1, LeaseWithin, Zenon
  <2>3. QED
    BY <1>2, <1>4, <2>1, <2>2, VerdictFound
<1>6. CASE lease[w].state \notin bad
  <2>1. m.how # "Violation" /\ m.how # "ModelBudget"
    BY <1>3, <1>6, ClassifyCareful, Zenon
  <2>2. Commit(lease[w], m.how, received[w]) /\ UNCHANGED <<ending, violation_state>>
    BY <1>4, <2>1
  <2>3. UNCHANGED <<graph, roots>> /\ Careful
    BY <1>6, <2>1, <2>2, CommitCareful, Zenon
  <2>4. QED
    BY <1>2, <2>2, <2>3, VerdictKept
<1>7. QED
  BY <1>5, <1>6

LEMMA LoopEndsVerdict ==
  ASSUME Base, PathsKnown, PInv, VInv, LoopEnds
  PROVE  VInv'
<1>1. Idle /\ ending' = status /\ UNCHANGED <<vars, bad>> /\ ending = "no"
  BY Zenon DEF LoopEnds, coordVars, fixedVars
<1>2. CASE status \in {"Complete", "Bounded"}
  <2>1. RootsAtZero' /\ NoBudgetCut' /\ Screened'
    BY <1>1 DEF VInv, RootsAtZero, NoBudgetCut, Screened, vars, nodeVars, histVars
  <2>2. \A d \in {Limit, Limit + 1} : Within(d)' = Within(d)
    BY <1>1 DEF Within, Paths, vars, nodeVars, histVars
  <2>3. /\ Within(Limit) \cap bad = {}
        /\ status = "Complete" => Within(Limit + 1) = Within(Limit)
    BY <1>1, <1>2, Zenon DEF VInv, PathsKnown, Screened
  <2>4. Judged'
    BY <1>1, <1>2, <2>2, <2>3 DEF Judged
  <2>5. QED
    BY <2>1, <2>4 DEF VInv
<1>3. CASE status \notin {"Complete", "Bounded"}
  <2>1. ending' \in {"no", "Failed"}
    BY <1>1, <1>3, Zenon DEF LoopEnds, status
  <2>2. QED
    BY <1>1, <2>1, VerdictUntouched
<1>4. QED
  BY <1>2, <1>3

LEMMA CoordinatorVerdict ==
  ASSUME Base, PathsKnown, PInv, VInv, NEW w \in Worker, Coordinator(w)
  PROVE  VInv'
<1>2. CASE Spawn(w) \/ SendTask(w)
  <2>1. UNCHANGED <<vars, bad, ending, violation_state>>
    BY <1>2 DEF Spawn, SendTask, coordVars, fixedVars, endVars
  <2>2. QED
    BY <2>1, VerdictUntouched
<1>3. CASE Dispatch(w)
  <2>1. Lease(w) /\ UNCHANGED <<bad, ending, violation_state>>
    BY <1>3, Zenon DEF Dispatch, fixedVars, endVars
  <2>2. QED
    BY <2>1, FrontierCareful, VerdictKept
<1>4. CASE Release(w)
  <2>1. WorkerLost(w) /\ UNCHANGED <<bad, ending, violation_state>>
    BY <1>4, Zenon DEF Release, coordVars, fixedVars, endVars
  <2>2. QED
    BY <2>1, FrontierCareful, VerdictKept
<1>5. CASE DeadlineExceeded(w) \/ StreamClosed(w)
  BY <1>5, LostVerdict, Zenon DEF DeadlineExceeded, StreamClosed, Polling, Looping
<1>6. CASE Receive(w)
  <2> DEFINE m == Head(stream[w])
  <2>1. Polling(w) /\ stream[w] # <<>> /\ UNCHANGED serving /\ ending = "no"
    BY <1>6, Zenon DEF Receive, Polling, Looping
  <2>2. CASE ReceiveHello(w, m)
    <3>1. UNCHANGED <<vars, bad>>
      BY <2>2, Zenon DEF ReceiveHello, fixedVars
    <3>2. ending' = "Failed" \/ UNCHANGED <<ending, violation_state>>
      BY <2>2, Zenon DEF ReceiveHello, Throw, endVars
    <3>3. QED
      BY <3>1, <3>2, VerdictUntouched
  <2>3. CASE ReceiveError(w, m)
    <3>1. CASE Lost(w)
      BY <2>1, <3>1, LostVerdict
    <3>2. CASE Throw /\ UNCHANGED <<vars, coordVars>>
      BY <3>2, VerdictUntouched DEF Throw, coordVars, fixedVars
    <3>3. QED
      BY <2>3, <3>1, <3>2, Zenon DEF ReceiveError
  <2>4. CASE ReceiveEdge(w, m)
    BY <2>1, <2>4, EdgeVerdict
  <2>5. CASE ReceiveDone(w, m)
    BY <2>1, <2>5, DoneVerdict
  <2>6. QED
    BY <1>6, <2>2, <2>3, <2>4, <2>5, Zenon DEF Receive
<1>7. CASE CompleteLocally(w)
  BY <1>7, CompleteVerdict
<1>8. QED
  BY <1>2, <1>3, <1>4, <1>5, <1>6, <1>7, Zenon DEF Coordinator

LEMMA VerdictStep ==
  ASSUME Base, PathsKnown, PInv, VInv, [PNext]_pvars
  PROVE  VInv'
<1>2. CASE UNCHANGED pvars
  <2>1. UNCHANGED <<vars, bad, ending, violation_state>>
    BY <1>2, Zenon DEF pvars, coordVars, fixedVars, endVars
  <2>2. QED
    BY <2>1, VerdictUntouched
<1>3. CASE Start
  <2>1. /\ roots = {} /\ UNCHANGED <<bad, ending, violation_state>>
        /\ \E a \in Admissions : Admit(a[1], 0)
    BY <1>3, Zenon DEF Start, coordVars, fixedVars, endVars
  <2>2. /\ \A r \in roots' : r[2] = 0
        /\ UNCHANGED phase /\ ~poisoned
    BY <2>1 DEF Admit, nodeVars, Idle
  <2>3. ending' = "no"
    BY <2>1, <2>2, Zenon DEF PInv, Endings
  <2>4. QED
    BY <2>1, <2>2, <2>3 DEF VInv, RootsAtZero, NoBudgetCut, Screened, Judged
<1>4. CASE FrontierStep
  <2>1. (Propagate \/ Return) /\ UNCHANGED <<bad, ending, violation_state>>
    BY <1>4, Zenon DEF FrontierStep, coordVars, fixedVars, endVars
  <2>2. QED
    BY <2>1, FrontierCareful, VerdictKept
<1>5. CASE LoopEnds
  BY <1>5, LoopEndsVerdict
<1>6. CASE Finish \/ Interrupt
  <2>1. UNCHANGED <<vars, bad, violation_state>> /\ ending' \in {ending, "Failed"}
    BY <1>6, Zenon DEF Finish, Interrupt, coordVars, fixedVars
  <2>2. QED
    BY <2>1, VerdictUntouched
<1>7. CASE OutOfMemory
  <2>1. BadAlloc /\ ending' = "Failed" /\ bad' = bad
    BY <1>7, Zenon DEF OutOfMemory, coordVars, fixedVars
  <2>2. QED
    BY <2>1, FrontierCareful, VerdictKept
<1>8. ASSUME NEW w \in Worker, WorkerProcess(w) \/ WorkerThrows(w) \/ Crash(w) PROVE VInv'
  <2>1. UNCHANGED <<vars, bad, ending, violation_state>>
    BY <1>8, Zenon DEF WorkerProcess, Boot, TakeTask, SendEdge, SendDone, WorkerThrows, Crash,
                       Worked, coordVars, fixedVars, endVars
  <2>2. QED
    BY <2>1, VerdictUntouched
<1>9. ASSUME NEW w \in Worker, SpawnFails(w) \/ SendFails(w) PROVE VInv'
  BY <1>9, LostVerdict, Zenon DEF SpawnFails, SendFails, Looping
<1>10. QED
  BY <1>2, <1>3, <1>4, <1>5, <1>6, <1>7, <1>8, <1>9, CoordinatorVerdict, Zenon
     DEF PNext, Faults
=============================================================================
