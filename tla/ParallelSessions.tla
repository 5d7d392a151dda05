-------------------------- MODULE ParallelSessions --------------------------
(***************************************************************************)
(* The conversation between the explorer's coordinator and one worker: it  *)
(* stays in order whatever the two do, and whatever happens to the others. *)
(***************************************************************************)
EXTENDS ParallelSearch, FrontierSteps

Messages ==
  [kind : {"Hello"}] \cup [kind : {"Error"}, lease : Nat]
    \cup [kind : {"Edge"}, lease : Nat, index : Nat]
    \cup [kind : {"Done"}, lease : Nat, emitted : Nat,
          how : {"Violation", "Terminal", "Expanded", "DepthCut"}]

(* The types, with the messages; a worker at work has a task; the counters  *)
(* of a running search are still within the budget.                         *)
Typed ==
  /\ PTypeOK
  /\ stream \in [Worker -> Seq(Messages)]
  /\ \A w \in Worker : proc[w] = "run" => task[w] # NoTicket
  /\ ending = "no" =>
       /\ \A w \in Worker : startup_failures[w] <= options.retries
       /\ \A s \in State : failures[s] <= options.retries

(* What message m may be at place i of the stream of w: the edges of the    *)
(* task follow the ones received, the receipt counts them all, and nothing  *)
(* but an error comes after it.                                             *)
Expected(w, i, m) ==
  LET succ == graph[lease[w].state]
  IN  \/ m.kind = "Hello" /\ i = 1 /\ ~hello[w]
      \/ m.kind = "Error" /\ excused /\ proc[w] = "dead"
      \/ /\ m.kind = "Edge" /\ lease[w] # NoTicket /\ m.lease = lease[w].lease_id
         /\ Classify(lease[w]) = "Expanded"
         /\ m.index = Len(received[w]) + i /\ m.index <= Len(succ)
      \/ /\ m.kind = "Done" /\ lease[w] # NoTicket /\ m.lease = lease[w].lease_id
         /\ m.emitted = Len(received[w]) + i - 1
         /\ \/ m.how = "Violation" /\ m.emitted \in 1..Len(succ) /\ succ[m.emitted] \in bad
            \/ /\ m.how = Classify(lease[w])
               /\ m.emitted = IF m.how = "Expanded" THEN Len(succ) ELSE 0
         /\ \A j \in (i + 1)..Len(stream[w]) : stream[w][j].kind = "Error"

(* The conversation with one worker while the main loop runs.               *)
Session(w) ==
  /\ channel[w] = (proc[w] # "off")
  /\ ~channel[w] => stream[w] = <<>> /\ task[w] = NoTicket
  /\ ~channel[w] \/ ~hello[w] => lease[w] = NoTicket
  /\ proc[w] = "boot" => ~hello[w] /\ stream[w] = <<>> /\ task[w] = NoTicket
  /\ lease[w] = NoTicket => received[w] = <<>> /\ serving # w
  /\ lease[w] # NoTicket =>
       /\ lease[w] \in issued /\ lease[w].worker = w
       /\ Len(received[w]) <= Len(graph[lease[w].state])
       /\ \A i \in 1..Len(received[w]) :
            received[w][i] = graph[lease[w].state][i] /\ received[w][i] \notin bad
  /\ serving = w =>
       /\ received[w] = <<>> /\ proc[w] # "run"
       /\ \A i \in 1..Len(stream[w]) : stream[w][i].kind = "Error"
  /\ (proc[w] = "idle" /\ task[w] # NoTicket) =>
       task[w] = lease[w] /\ serving # w /\ received[w] = <<>> /\ stream[w] = <<>>
  /\ proc[w] = "run" =>
       /\ task[w] # NoTicket /\ task[w] = lease[w] /\ serving # w
       /\ sent[w] = Len(received[w]) + Len(stream[w])
       /\ sent[w] <= Len(graph[lease[w].state])
       /\ sent[w] > 0 => Classify(lease[w]) = "Expanded"
       /\ \A i \in 1..Len(stream[w]) : stream[w][i].kind = "Edge"
  /\ \A i \in 1..Len(stream[w]) : Expected(w, i, stream[w][i])

-----------------------------------------------------------------------------
(* The few facts about numbers, sequences and messages the proofs rest on.  *)
LEMMA Nothing ==
  ASSUME NEW n \in Nat
  PROVE  1..0 = {} /\ 0 + 0 = 0 /\ 0 <= n /\ ~(0 > 0) /\ n + 1 \in Nat /\ n + 1 - 1 = n /\ (n > 0 \/ n = 0)
OBVIOUS

LEMMA NextIndex ==
  ASSUME NEW n \in Nat, NEW k \in Nat
  PROVE  n + 1 \in 1..k <=> n + 1 <= k
OBVIOUS

LEMMA OneMore ==
  ASSUME NEW a \in Nat, NEW c \in Nat
  PROVE  /\ (a + c) + 1 = a + (c + 1) /\ a + (c + 1) - 1 = a + c
         /\ \A n \in Nat : a + c < n => a + (c + 1) <= n
         /\ (c + 1 + 1)..(c + 1) = {}
OBVIOUS

LEMMA SumShifted ==
  ASSUME NEW a \in Nat, NEW c \in Nat \ {0}
  PROVE  a + c = (a + 1) + (c - 1)
OBVIOUS

LEMMA OneShifted ==
  ASSUME NEW a \in Nat, NEW c \in Nat \ {0}, NEW i \in 1..(c - 1)
  PROVE  /\ a + (i + 1) = (a + 1) + i /\ a + (i + 1) - 1 = (a + 1) + i - 1
         /\ \A j \in (i + 1)..(c - 1) : j \in 1..(c - 1) /\ j + 1 \in ((i + 1) + 1)..c
OBVIOUS

LEMMA NoElement ==
  ASSUME NEW S, NEW s \in Seq(S), \A i \in 1..Len(s) : FALSE
  PROVE  s = <<>>
OBVIOUS

LEMMA Element ==
  ASSUME NEW S, NEW s \in Seq(S), NEW i \in 1..Len(s)
  PROVE  s[i] \in S
OBVIOUS

LEMMA SameElements ==
  ASSUME NEW S, NEW s \in Seq(S), NEW r \in Seq(S), Len(r) = Len(s),
         \A i \in 1..Len(s) : s[i] = r[i]
  PROVE  s = r
OBVIOUS

LEMMA EmptySequence ==
  ASSUME NEW S, NEW s \in Seq(S), Len(s) = 0
  PROVE  s = <<>>
OBVIOUS

LEMMA Appended ==
  ASSUME NEW S, NEW s \in Seq(S), NEW x
  PROVE  /\ Len(s) \in Nat /\ Len(Append(s, x)) = Len(s) + 1
         /\ Append(s, x)[Len(s) + 1] = x
         /\ \A i \in 1..Len(s) : Append(s, x)[i] = s[i]
         /\ \A i \in 1..Len(Append(s, x)) : i \in 1..Len(s) \/ i = Len(s) + 1
OBVIOUS

LEMMA AppendIn ==
  ASSUME NEW S, NEW s \in Seq(S), NEW x \in S
  PROVE  Append(s, x) \in Seq(S)
OBVIOUS

LEMMA Single ==
  ASSUME NEW x
  PROVE  Append(<<>>, x) = <<x>> /\ Len(<<x>>) = 1 /\ <<x>>[1] = x /\ \A i \in 1..1 : i = 1
OBVIOUS

LEMMA Sendable ==
  ASSUME NEW l \in Nat, NEW n \in Nat,
         NEW how \in {"Violation", "Terminal", "Expanded", "DepthCut"}
  PROVE  /\ [kind |-> "Hello"] \in Messages
         /\ [kind |-> "Error", lease |-> l] \in Messages
         /\ [kind |-> "Edge", lease |-> l, index |-> n] \in Messages
         /\ [kind |-> "Done", lease |-> l, how |-> how, emitted |-> n] \in Messages
BY DEF Messages

-----------------------------------------------------------------------------
(* A step that leaves the conversation with v alone.                        *)
Same(v) ==
  /\ channel'[v] = channel[v] /\ hello'[v] = hello[v] /\ lease'[v] = lease[v]
  /\ received'[v] = received[v] /\ proc'[v] = proc[v] /\ task'[v] = task[v]
  /\ sent'[v] = sent[v] /\ stream'[v] = stream[v]
  /\ serving' = v => serving = v

(* What no step ever undoes.                                                *)
World == /\ graph' = graph /\ bad' = bad /\ issued \subseteq issued'
         /\ excused => excused'

(* A conversation that is left alone stays in order.                        *)
LEMMA SameSession ==
  ASSUME NEW v \in Worker, Session(v), Same(v), World
  PROVE  Session(v)'
<1>1. Classify(lease[v])' = Classify(lease[v])
  BY DEF Same, World, Classify
<1>2. ASSUME NEW i \in 1..Len(stream[v]) PROVE Expected(v, i, stream[v][i])'
  <2>1. Expected(v, i, stream[v][i])
    BY DEF Session
  <2>2. QED
    BY <1>1, <2>1, ZenonT(30) DEF Expected, Same, World
<1>3. \A i \in 1..Len(stream'[v]) : Expected(v, i, stream[v][i])'
  BY <1>2 DEF Same
<1>4. QED
  BY <1>1, <1>3, ZenonT(30) DEF Session, Same, World

(* What the types say of one worker.                                        *)
LEMMA WorkerTypes ==
  ASSUME TypeOK, Typed, NEW w \in Worker
  PROVE  /\ channel[w] \in BOOLEAN /\ hello[w] \in BOOLEAN
         /\ lease[w] \in Tickets \cup {NoTicket} /\ task[w] \in Tickets \cup {NoTicket}
         /\ received[w] \in Seq(State) /\ sent[w] \in Nat /\ stream[w] \in Seq(Messages)
         /\ proc[w] \in {"off", "boot", "idle", "run", "dead"}
         /\ Len(received[w]) \in Nat
         /\ lease[w] # NoTicket =>
              /\ lease[w].state \in State /\ lease[w].lease_id \in Nat
              /\ graph[lease[w].state] \in Seq(State) /\ Len(graph[lease[w].state]) \in Nat
         /\ task[w] # NoTicket => task[w].lease_id \in Nat
         /\ NoState # w /\ NoTicket \notin Tickets
         /\ <<>> \in Seq(State) /\ <<>> \in Seq(Messages)
<1>1. /\ channel[w] \in BOOLEAN /\ hello[w] \in BOOLEAN
      /\ lease[w] \in Tickets \cup {NoTicket} /\ task[w] \in Tickets \cup {NoTicket}
      /\ received[w] \in Seq(State) /\ sent[w] \in Nat /\ stream[w] \in Seq(Messages)
      /\ proc[w] \in {"off", "boot", "idle", "run", "dead"}
  BY DEF Typed, PTypeOK
<1>2. graph \in [State -> Seq(State)]
  BY FrontierAssumption DEF TypeOK
<1>3. \A t \in Tickets : t.state \in State /\ t.lease_id \in Nat
  BY FrontierAssumption DEF Tickets
<1>4. \A s \in State : graph[s] \in Seq(State) /\ Len(graph[s]) \in Nat
  BY <1>2
<1>5. Len(received[w]) \in Nat /\ <<>> \in Seq(State) /\ <<>> \in Seq(Messages)
  BY <1>1
<1>6. QED
  BY <1>1, <1>3, <1>4, <1>5, FrontierAssumption, ParallelAssumption, Zenon

(* A worker that is terminated and whose job is cleared starts afresh.      *)
LEMMA LostSession ==
  ASSUME Typed, NEW w \in Worker, Terminate(w), ClearJob(w), serving' # w
  PROVE  Session(w)'
<1>1. /\ channel'[w] = FALSE /\ proc'[w] = "off" /\ task'[w] = NoTicket /\ stream'[w] = <<>>
      /\ lease'[w] = NoTicket /\ received'[w] = <<>>
  BY DEF Typed, PTypeOK, Terminate, ClearJob
<1>2. 1..Len(stream'[w]) = {}
  BY <1>1
<1>3. QED
  BY <1>1, <1>2, Zenon DEF Session

(* Starting a worker process.                                               *)
LEMMA SpawnSession ==
  ASSUME Typed, NEW w \in Worker, Session(w), Spawn(w), serving' # w
  PROVE  Session(w)'
<1>1. /\ channel'[w] = TRUE /\ hello'[w] = FALSE /\ proc'[w] = "boot" /\ ~channel[w]
      /\ UNCHANGED <<lease, received, task, stream>>
  BY DEF Typed, PTypeOK, Spawn
<1>2. /\ stream'[w] = <<>> /\ task'[w] = NoTicket /\ lease'[w] = NoTicket
      /\ received'[w] = <<>>
  BY <1>1 DEF Session
<1>3. 1..Len(stream'[w]) = {}
  BY <1>2
<1>4. QED
  BY <1>1, <1>2, <1>3, Zenon DEF Session

(* A worker that said hello and holds no lease has sent nothing but, if it  *)
(* is dead, an error.                                                       *)
LEMMA NothingPending ==
  ASSUME NEW w \in Worker, Session(w), hello[w], lease[w] = NoTicket
  PROVE  \A i \in 1..Len(stream[w]) : stream[w][i].kind = "Error" /\ proc[w] = "dead"
BY DEF Session, Expected

(* A lease handed to a worker.                                              *)
LEMMA DispatchSession ==
  ASSUME TypeOK, Typed, NEW w \in Worker, Session(w), hello[w], channel[w], lease[w] = NoTicket,
         NEW t \in issued', t.worker = w, t # NoTicket, t.state \in State,
         lease' = [lease EXCEPT ![w] = t], serving' = w,
         UNCHANGED <<channel, hello, received, proc, task, stream, sent, excused, graph, bad>>
  PROVE  Session(w)'
<1>1. lease'[w] = t
  BY DEF Typed, PTypeOK
<1>2. \A i \in 1..Len(stream[w]) : stream[w][i].kind = "Error" /\ proc[w] = "dead"
  BY NothingPending, Zenon
<1>3. graph'[t.state] \in Seq(State) /\ Len(graph'[t.state]) \in Nat
  <2>1. graph \in [State -> Seq(State)]
    BY FrontierAssumption DEF TypeOK
  <2>2. QED
    BY <2>1
<1>4. /\ received[w] = <<>> /\ proc[w] \in {"idle", "dead"}
      /\ proc[w] = "idle" => task[w] = NoTicket
  BY WorkerTypes, ZenonT(30) DEF Session
<1>5. \A i \in 1..Len(stream'[w]) : Expected(w, i, stream[w][i])'
  <2>1. \A i \in 1..Len(stream[w]) : Expected(w, i, stream[w][i])
    BY DEF Session
  <2>2. QED
    BY <1>2, <2>1, ZenonT(30) DEF Expected
<1>6. QED
  BY <1>1, <1>2, <1>3, <1>4, <1>5 DEF Session

(* A lease completed by the coordinator itself.                             *)
LEMMA CompleteSession ==
  ASSUME TypeOK, Typed, NEW w \in Worker, Session(w), serving = w, ClearJob(w), serving' = NoState,
         UNCHANGED <<channel, hello, proc, task, stream, excused>>
  PROVE  Session(w)'
<1>1. lease'[w] = NoTicket /\ received'[w] = <<>>
  BY SMTT(30) DEF Typed, PTypeOK, ClearJob
<1>2. /\ \A i \in 1..Len(stream[w]) : stream[w][i].kind = "Error"
      /\ proc[w] # "run" /\ serving' # w
      /\ proc[w] = "idle" => task[w] = NoTicket
  BY WorkerTypes, ZenonT(30) DEF Session
<1>3. ASSUME NEW i \in 1..Len(stream[w]) PROVE Expected(w, i, stream[w][i])'
  <2>1. Expected(w, i, stream[w][i]) /\ stream[w][i].kind = "Error"
    BY <1>2, ZenonT(30) DEF Session
  <2>2. QED
    BY <2>1, SMTT(30) DEF Expected
<1>4. QED
  BY <1>1, <1>2, <1>3 DEF Session

(* A task sent to the worker.                                               *)
LEMMA SendTaskSession ==
  ASSUME TypeOK, Typed, NEW w \in Worker, Session(w), SendTask(w)
  PROVE  Session(w)'
<1>1. /\ task'[w] = lease[w] /\ serving' # w /\ serving = w
      /\ UNCHANGED <<channel, hello, lease, received, proc, sent, stream, excused, graph, bad, issued>>
  BY WorkerTypes, SMTT(30) DEF Typed, PTypeOK, SendTask, coordVars, fixedVars, endVars, vars, histVars
<1>2. /\ lease[w] # NoTicket /\ received[w] = <<>> /\ proc[w] \in {"idle", "dead"}
      /\ channel[w] /\ hello[w]
      /\ \A i \in 1..Len(stream[w]) : stream[w][i].kind = "Error"
  BY <1>1, WorkerTypes, ZenonT(30) DEF Session
<1>3. ASSUME NEW i \in 1..Len(stream[w])
      PROVE  Expected(w, i, stream[w][i])' /\ proc[w] = "dead"
  <2>1. Expected(w, i, stream[w][i]) /\ stream[w][i].kind = "Error"
    BY <1>2, Zenon DEF Session
  <2>2. QED
    BY <1>1, <2>1, Zenon DEF Expected
<1>4. proc[w] = "idle" => stream[w] = <<>>
  <2>1. stream[w] \in Seq(Messages)
    BY WorkerTypes
  <2>2. QED
    BY <1>3, <2>1, NoElement, Zenon
<1>5. QED
  BY <1>1, <1>2, <1>3, <1>4, ZenonT(30) DEF Session

(* The head of a stream is taken off.                                       *)
Shifted(w) ==
  /\ Len(stream[w]) \in Nat \ {0} /\ Head(stream[w]) = stream[w][1]
  /\ 1 \in 1..Len(stream[w]) /\ Len(stream'[w]) = Len(stream[w]) - 1
  /\ \A i \in 1..Len(stream'[w]) :
       /\ i + 1 \in 1..Len(stream[w]) /\ i + 1 \in 2..Len(stream[w]) /\ i + 1 # 1
       /\ i \in Int /\ stream'[w][i] = stream[w][i + 1]
  /\ UNCHANGED <<proc, task, sent>>

(* The next message of a stream.                                            *)
LEMMA Popped ==
  ASSUME Typed, NEW w \in Worker, stream[w] # <<>>, Pop(w)
  PROVE  Shifted(w) /\ stream'[w] \in Seq(Messages)
<1>1. stream[w] \in Seq(Messages) /\ stream'[w] = Tail(stream[w]) /\ UNCHANGED <<proc, task, sent>>
  BY DEF Typed, Pop
<1>2. QED
  BY <1>1 DEF Shifted

(* The hello of a new worker is never out of place.                         *)
LEMMA HelloSession ==
  ASSUME TypeOK, Typed, NEW w \in Worker, Session(w), stream[w] # <<>>, serving' # w,
         ReceiveHello(w, Head(stream[w]))
  PROVE  /\ ~hello[w] /\ lease[w] = NoTicket
         /\ Session(w)'
<1>1. /\ Head(stream[w]).kind = "Hello" /\ Pop(w)
      /\ UNCHANGED <<channel, lease, received>>
  BY DEF ReceiveHello
<1>2. Shifted(w)
  BY <1>1, Popped
<1>3. \A i \in 1..Len(stream[w]) : Expected(w, i, stream[w][i])
  BY DEF Session
<1>4. ~hello[w] /\ lease[w] = NoTicket
  <2>1. Expected(w, 1, stream[w][1])
    BY <1>2, <1>3, Zenon DEF Shifted
  <2>2. ~hello[w]
    BY <1>1, <1>2, <2>1, Zenon DEF Expected, Shifted
  <2>3. QED
    BY <2>2 DEF Session
<1>5. hello'[w] = TRUE /\ excused' = excused
  BY <1>4 DEF ReceiveHello, Typed, PTypeOK, endVars
<1>6. ASSUME NEW i \in 1..Len(stream'[w]) PROVE Expected(w, i, stream[w][i])'
  <2>1. Expected(w, i + 1, stream[w][i + 1]) /\ stream'[w][i] = stream[w][i + 1] /\ i + 1 # 1
    BY <1>2, <1>3, Zenon DEF Shifted
  <2>2. stream[w][i + 1].kind = "Error" /\ excused /\ proc[w] = "dead"
    BY <1>4, <2>1 DEF Expected
  <2>3. stream'[w][i].kind = "Error" /\ excused' /\ proc'[w] = "dead"
    BY <1>2, <1>5, <2>1, <2>2, Zenon DEF Shifted
  <2>4. QED
    BY <2>3 DEF Expected
<1>7. /\ proc[w] # "boot" /\ channel[w]
      /\ proc[w] = "idle" => task[w] = NoTicket
  BY <1>4, WorkerTypes, Zenon DEF Session
<1>8. proc[w] # "run"
  <2>1. 1 \in 1..Len(stream[w]) /\ stream[w][1].kind = "Hello"
    BY <1>1, <1>2, Zenon DEF Shifted
  <2>2. proc[w] = "run" => \A i \in 1..Len(stream[w]) : stream[w][i].kind = "Edge"
    BY DEF Session
  <2>3. QED
    BY <2>1, <2>2
<1>9. received[w] = <<>>
  BY <1>4 DEF Session
<1>10. Session(w)'
  BY <1>1, <1>2, <1>4, <1>5, <1>6, <1>7, <1>8, <1>9, Zenon DEF Session, Shifted
<1>11. QED
  BY <1>4, <1>10

(* What the head of the stream is, when it is not empty.                    *)
LEMMA HeadExpected ==
  ASSUME Typed, NEW w \in Worker, Session(w), stream[w] # <<>>
  PROVE  Expected(w, 1, stream[w][1]) /\ 1 \in 1..Len(stream[w]) /\ Head(stream[w]) = stream[w][1]
<1>1. stream[w] \in Seq(Messages)
  BY Zenon DEF Typed
<1>2. 1 \in 1..Len(stream[w]) /\ Head(stream[w]) = stream[w][1]
  BY <1>1
<1>3. QED
  BY <1>2, Zenon DEF Session

(* An edge is always the one expected next.                                 *)
LEMMA EdgeExpected ==
  ASSUME TypeOK, Typed, NEW w \in Worker, Session(w), stream[w] # <<>>,
         Head(stream[w]).kind = "Edge"
  PROVE  /\ lease[w] # NoTicket /\ Answers(w, Head(stream[w])) /\ lease[w].may_expand
         /\ Head(stream[w]).index = Len(received[w]) + 1
         /\ Len(received[w]) + 1 \in 1..Len(graph[lease[w].state])
         /\ graph[lease[w].state][Len(received[w]) + 1] \in State
<1>1. Expected(w, 1, stream[w][1]) /\ Head(stream[w]) = stream[w][1]
  BY HeadExpected, SMTT(30)
<1>2. /\ lease[w] # NoTicket /\ stream[w][1].lease = lease[w].lease_id
      /\ Classify(lease[w]) = "Expanded"
      /\ stream[w][1].index = Len(received[w]) + 1
      /\ stream[w][1].index <= Len(graph[lease[w].state])
  BY <1>1, Zenon DEF Expected
<1>3. hello[w] /\ lease[w].may_expand
  BY <1>2 DEF Session, Classify
<1>4. received[w] \in Seq(State) /\ graph[lease[w].state] \in Seq(State)
  BY <1>2, WorkerTypes, Zenon
<1>5. Len(received[w]) + 1 \in 1..Len(graph[lease[w].state])
  BY <1>2, WorkerTypes, NextIndex, Zenon
<1>6. graph[lease[w].state][Len(received[w]) + 1] \in State
  BY <1>4, <1>5, Element, Zenon
<1>7. QED
  BY <1>1, <1>2, <1>3, <1>5, <1>6 DEF Answers

(* An edge that does not end the search.                                    *)
LEMMA EdgeSession ==
  ASSUME TypeOK, Typed, NEW w \in Worker, Session(w), stream[w] # <<>>, serving' # w,
         ReceiveEdge(w, Head(stream[w])), ending' = "no"
  PROVE  Session(w)'
<1> DEFINE succ == graph[lease[w].state]
           u == succ[Len(received[w]) + 1]
<1>1. /\ Head(stream[w]).kind = "Edge" /\ Pop(w)
      /\ UNCHANGED <<channel, hello, lease, graph, bad, issued>>
  BY Zenon DEF ReceiveEdge, vars, fixedVars, histVars
<1>2. /\ lease[w] # NoTicket /\ Answers(w, Head(stream[w])) /\ lease[w].may_expand
      /\ Head(stream[w]).index = Len(received[w]) + 1
      /\ Len(received[w]) + 1 \in 1..Len(succ) /\ u \in State
  BY <1>1, EdgeExpected, ZenonT(30)
<1>3. received'[w] = Append(received[w], u) /\ u \notin bad /\ excused' = excused
  BY <1>2, ZenonT(30) DEF ReceiveEdge, Typed, PTypeOK
<1>4. Shifted(w)
  BY <1>1, Popped
<1>5. /\ received[w] \in Seq(State) /\ succ \in Seq(State)
      /\ Len(received[w]) \in Nat /\ Len(succ) \in Nat
  BY <1>2, WorkerTypes
<1>6. /\ Len(received'[w]) = Len(received[w]) + 1 /\ received'[w][Len(received[w]) + 1] = u
      /\ \A i \in 1..Len(received[w]) : received'[w][i] = received[w][i]
      /\ \A i \in 1..Len(received'[w]) : i \in 1..Len(received[w]) \/ i = Len(received[w]) + 1
  <2> DEFINE r == Append(received[w], u)
  <2>1. /\ Len(r) = Len(received[w]) + 1 /\ r[Len(received[w]) + 1] = u
        /\ \A i \in 1..Len(received[w]) : r[i] = received[w][i]
        /\ \A i \in 1..Len(r) : i \in 1..Len(received[w]) \/ i = Len(received[w]) + 1
    BY <1>5, Appended
  <2> HIDE DEF r
  <2>2. received'[w] = r
    BY <1>3 DEF r
  <2>3. QED
    BY <2>1, <2>2, Zenon
<1>7. \A i \in 1..Len(received'[w]) : received'[w][i] = succ[i] /\ received'[w][i] \notin bad
  <2>1. \A i \in 1..Len(received[w]) : received[w][i] = succ[i] /\ received[w][i] \notin bad
    BY <1>2, Zenon DEF Session
  <2>2. QED
    BY <1>3, <1>6, <2>1, Zenon
<1>8. Classify(lease[w])' = Classify(lease[w])
  BY <1>1, SMTT(30) DEF Classify
<1>9. \A i \in 1..Len(stream[w]) : Expected(w, i, stream[w][i])
  BY DEF Session
<1>10. ASSUME NEW i \in 1..Len(stream'[w]) PROVE Expected(w, i, stream[w][i])'
  <2>1. /\ Expected(w, i + 1, stream[w][i + 1]) /\ stream'[w][i] = stream[w][i + 1]
        /\ i + 1 # 1 /\ i \in Int
    BY <1>4, <1>9, Zenon DEF Shifted
  <2>0. /\ Len(received[w]) + (i + 1) = Len(received'[w]) + i
        /\ Len(received[w]) + (i + 1) - 1 = Len(received'[w]) + i - 1
        /\ \A j \in (i + 1)..Len(stream'[w]) :
             j \in 1..Len(stream'[w]) /\ j + 1 \in ((i + 1) + 1)..Len(stream[w])
    <3> DEFINE a == Len(received[w])
               c == Len(stream[w])
    <3>1. a \in Nat /\ c \in Nat \ {0} /\ i \in 1..(c - 1) /\ Len(stream'[w]) = c - 1
          /\ Len(received'[w]) = a + 1
      BY <1>4, <1>5, <1>6, Zenon DEF Shifted
    <3> HIDE DEF a, c
    <3>2. /\ a + (i + 1) = (a + 1) + i /\ a + (i + 1) - 1 = (a + 1) + i - 1
          /\ \A j \in (i + 1)..(c - 1) : j \in 1..(c - 1) /\ j + 1 \in ((i + 1) + 1)..c
      BY <3>1, OneShifted, Zenon
    <3>3. QED
      BY <3>1, <3>2, Zenon DEF a, c
  <2> DEFINE m == stream[w][i + 1]
  <2>2. CASE m.kind = "Error"
    BY <1>3, <1>4, <2>1, <2>2, Zenon DEF Expected, Shifted
  <2>3. CASE m.kind = "Edge"
    <3>1. /\ m.lease = lease[w].lease_id /\ Classify(lease[w]) = "Expanded"
          /\ m.index = Len(received[w]) + (i + 1) /\ m.index <= Len(succ)
      BY <2>1, <2>3, Zenon DEF Expected
    <3>2. m.index = Len(received'[w]) + i
      BY <2>0, <3>1, Zenon
    <3>3. QED
      BY <1>1, <1>2, <1>8, <2>1, <2>3, <3>1, <3>2, ZenonT(30) DEF Expected
  <2>4. CASE m.kind = "Done"
    <3>1. /\ m.lease = lease[w].lease_id /\ m.emitted = Len(received[w]) + (i + 1) - 1
          /\ \/ m.how = "Violation" /\ m.emitted \in 1..Len(succ) /\ succ[m.emitted] \in bad
             \/ /\ m.how = Classify(lease[w])
                /\ m.emitted = IF m.how = "Expanded" THEN Len(succ) ELSE 0
          /\ \A j \in ((i + 1) + 1)..Len(stream[w]) : stream[w][j].kind = "Error"
      BY <2>1, <2>4, Zenon DEF Expected
    <3>2. m.emitted = Len(received'[w]) + i - 1
      BY <2>0, <3>1, Zenon
    <3>3. \A j \in (i + 1)..Len(stream'[w]) : stream'[w][j].kind = "Error"
      <4> SUFFICES ASSUME NEW j \in (i + 1)..Len(stream'[w]) PROVE stream'[w][j].kind = "Error"
        OBVIOUS
      <4>1. /\ j \in 1..Len(stream'[w]) /\ j + 1 \in ((i + 1) + 1)..Len(stream[w])
        BY <2>0, Zenon
      <4>2. stream'[w][j] = stream[w][j + 1]
        BY <1>4, <4>1, Zenon DEF Shifted
      <4>3. QED
        BY <3>1, <4>1, <4>2, Zenon
    <3>4. QED
      BY <1>1, <1>2, <1>8, <2>1, <2>4, <3>1, <3>2, <3>3, ZenonT(30) DEF Expected
  <2>5. QED
    BY <2>1, <2>2, <2>3, <2>4, ZenonT(30) DEF Expected
<1>11. ASSUME proc[w] = "run"
       PROVE  /\ task[w] # NoTicket /\ task[w] = lease[w] /\ serving' # w
              /\ sent[w] = Len(received'[w]) + Len(stream'[w])
              /\ sent[w] <= Len(succ)
              /\ sent[w] > 0 => Classify(lease[w]) = "Expanded"
              /\ \A i \in 1..Len(stream'[w]) : stream'[w][i].kind = "Edge"
  <2>1. /\ task[w] # NoTicket /\ task[w] = lease[w]
        /\ sent[w] = Len(received[w]) + Len(stream[w])
        /\ sent[w] <= Len(succ)
        /\ sent[w] > 0 => Classify(lease[w]) = "Expanded"
        /\ \A i \in 1..Len(stream[w]) : stream[w][i].kind = "Edge"
    BY <1>11, Zenon DEF Session
  <2>2. sent[w] = Len(received'[w]) + Len(stream'[w])
    BY <1>4, <1>5, <1>6, <2>1, SumShifted, Zenon DEF Shifted
  <2>3. QED
    BY <1>4, <2>1, <2>2, Zenon DEF Shifted
<1>12. /\ channel[w] = (proc[w] # "off") /\ channel[w] /\ hello[w] /\ proc[w] # "boot"
       /\ ~(proc[w] = "idle" /\ task[w] # NoTicket)
  BY <1>2, Zenon DEF Session
<1>13. lease[w] \in issued /\ lease[w].worker = w
  BY <1>2, ZenonT(30) DEF Session
<1>14. Len(received'[w]) <= Len(succ)
  BY <1>2, <1>5, <1>6, NextIndex, Zenon
<1> HIDE DEF u
<1>15. QED
  BY <1>1, <1>2, <1>4, <1>7, <1>8, <1>10, <1>11, <1>12, <1>13, <1>14, Zenon DEF Session, Shifted

(* A receipt is always in order: it counts what was received, and what was  *)
(* received is what the commit is to publish.                               *)
LEMMA DoneExpected ==
  ASSUME TypeOK, Typed, NEW w \in Worker, Session(w), stream[w] # <<>>,
         Head(stream[w]).kind = "Done"
  PROVE  /\ lease[w] # NoTicket /\ Receipt(w, Head(stream[w]))
         /\ Head(stream[w]).how = Classify(lease[w])
         /\ received[w] = Published(lease[w].state, Classify(lease[w]))
         /\ proc[w] # "run" /\ ~(proc[w] = "idle" /\ task[w] # NoTicket)
         /\ hello[w] /\ channel[w]
         /\ \A j \in 2..Len(stream[w]) : stream[w][j].kind = "Error"
<1> DEFINE succ == graph[lease[w].state]
           m == stream[w][1]
           n == Len(received[w])
<1>1. Expected(w, 1, m) /\ Head(stream[w]) = m /\ 1 \in 1..Len(stream[w])
  BY HeadExpected, Zenon
<1>2. /\ lease[w] # NoTicket /\ m.lease = lease[w].lease_id
      /\ m.emitted = n + 1 - 1
      /\ \/ m.how = "Violation" /\ m.emitted \in 1..Len(succ) /\ succ[m.emitted] \in bad
         \/ /\ m.how = Classify(lease[w])
            /\ m.emitted = IF m.how = "Expanded" THEN Len(succ) ELSE 0
  BY <1>1, ZenonT(30) DEF Expected
<1>3. received[w] \in Seq(State) /\ succ \in Seq(State) /\ n \in Nat /\ Len(succ) \in Nat
  BY <1>2, WorkerTypes, Zenon
<1>4. /\ hello[w] /\ channel[w]
      /\ \A i \in 1..n : received[w][i] = succ[i] /\ received[w][i] \notin bad
      /\ ~(proc[w] = "idle" /\ task[w] # NoTicket)
      /\ proc[w] = "run" => \A i \in 1..Len(stream[w]) : stream[w][i].kind = "Edge"
  BY <1>2, ZenonT(30) DEF Session
<1>5. proc[w] # "run"
  BY <1>1, <1>4, ZenonT(30)
<1>6. m.emitted = n
  BY <1>2, <1>3, Nothing, Zenon
<1>7. /\ m.how = Classify(lease[w])
      /\ n = IF m.how = "Expanded" THEN Len(succ) ELSE 0
  <2>1. ~(m.emitted \in 1..Len(succ) /\ succ[m.emitted] \in bad)
    <3> SUFFICES ASSUME m.emitted \in 1..Len(succ), succ[m.emitted] \in bad PROVE FALSE
      OBVIOUS
    <3>1. n \in 1..n /\ succ[n] \in bad
      BY <1>3, <1>6
    <3>2. QED
      BY <1>4, <3>1
  <2>2. QED
    BY <1>2, <1>6, <2>1
<1>8. received[w] = Published(lease[w].state, Classify(lease[w]))
  <2>1. CASE m.how = "Expanded"
    <3>1. n = Len(succ)
      BY <1>7, <2>1, Zenon
    <3>2. received[w] = succ
      BY <1>3, <1>4, <3>1, SameElements, Zenon
    <3>3. QED
      BY <1>7, <2>1, <3>2 DEF Published
  <2>2. CASE m.how # "Expanded"
    <3>1. received[w] = <<>>
      BY <1>3, <1>7, <2>2, EmptySequence, Zenon
    <3>2. QED
      BY <1>7, <2>2, <3>1 DEF Published
  <2>3. QED
    BY <2>1, <2>2
<1>9. Receipt(w, m)
  BY <1>2, <1>4, <1>6, <1>7, Zenon DEF Receipt, Answers
<1>10. \A j \in 2..Len(stream[w]) : stream[w][j].kind = "Error"
  <2>1. \A j \in (1 + 1)..Len(stream[w]) : stream[w][j].kind = "Error"
    BY <1>1, <1>2, ZenonT(30) DEF Expected
  <2>2. QED
    BY <2>1
<1>11. QED
  BY <1>1, <1>2, <1>4, <1>5, <1>7, <1>8, <1>9, <1>10, Zenon

(* A receipt that is accepted and does not end the search.                  *)
LEMMA DoneSession ==
  ASSUME TypeOK, Typed, NEW w \in Worker, Session(w), stream[w] # <<>>, serving' # w,
         ReceiveDone(w, Head(stream[w]))
  PROVE  Session(w)'
<1>1. /\ Head(stream[w]).kind = "Done" /\ Pop(w) /\ UNCHANGED <<channel, hello>>
  BY Zenon DEF ReceiveDone
<1>2. /\ Receipt(w, Head(stream[w]))
      /\ proc[w] # "run" /\ ~(proc[w] = "idle" /\ task[w] # NoTicket)
      /\ hello[w] /\ channel[w]
      /\ \A j \in 2..Len(stream[w]) : stream[w][j].kind = "Error"
  BY <1>1, DoneExpected, ZenonT(30)
<1>3. Shifted(w)
  BY <1>1, Popped
<1>4. ClearJob(w) /\ excused' = excused
  BY <1>2, Zenon DEF ReceiveDone
<1>5. lease'[w] = NoTicket /\ received'[w] = <<>>
  BY <1>4 DEF Typed, PTypeOK, ClearJob
<1>6. ASSUME NEW i \in 1..Len(stream'[w]) PROVE Expected(w, i, stream[w][i])'
  <2>1. /\ i + 1 \in 2..Len(stream[w]) /\ i + 1 \in 1..Len(stream[w])
        /\ stream'[w][i] = stream[w][i + 1]
    BY <1>3, Zenon DEF Shifted
  <2>2. Expected(w, i + 1, stream[w][i + 1]) /\ stream[w][i + 1].kind = "Error"
    BY <1>2, <2>1, ZenonT(30) DEF Session
  <2>3. excused /\ proc[w] = "dead"
    BY <2>2, Zenon DEF Expected
  <2>4. QED
    BY <1>3, <1>4, <2>1, <2>2, <2>3, ZenonT(30) DEF Expected, Shifted
<1>7. channel[w] = (proc[w] # "off") /\ proc[w] # "boot"
  BY <1>2, Zenon DEF Session
<1>8. QED
  BY <1>1, <1>2, <1>3, <1>5, <1>6, <1>7, Zenon DEF Session, Shifted

-----------------------------------------------------------------------------
(* A message put on a stream.                                               *)
Grown(w, m) ==
  /\ Len(stream[w]) \in Nat /\ Len(stream'[w]) = Len(stream[w]) + 1
  /\ stream'[w][Len(stream[w]) + 1] = m
  /\ \A i \in 1..Len(stream[w]) : stream'[w][i] = stream[w][i]
  /\ \A i \in 1..Len(stream'[w]) : i \in 1..Len(stream[w]) \/ i = Len(stream[w]) + 1

LEMMA Sent ==
  ASSUME Typed, NEW w \in Worker, NEW m \in Messages, Send(w, m)
  PROVE  Grown(w, m)
<1>1. stream[w] \in Seq(Messages) /\ stream'[w] = Append(stream[w], m)
  BY Zenon DEF Typed, Send
<1>2. QED
  BY <1>1 DEF Grown

(* What a worker's step leaves alone.                                       *)
WorkerStep(w) ==
  UNCHANGED <<channel, hello, lease, received, serving, graph, bad, issued>>

(* The messages expected so far stay expected while the worker sends.       *)
LEMMA StillExpected ==
  ASSUME Typed, NEW w \in Worker, NEW m \in Messages, Send(w, m), WorkerStep(w), Session(w),
         excused => excused', proc[w] \in {"boot", "idle", "run"},
         \A i \in 1..Len(stream[w]) : stream[w][i].kind = "Done" => m.kind = "Error",
         NEW i \in 1..Len(stream[w])
  PROVE  Expected(w, i, stream[w][i])'
<1>1. Grown(w, m) /\ stream'[w][i] = stream[w][i]
  BY Sent, Zenon DEF Grown
<1>2. Expected(w, i, stream[w][i]) /\ Classify(lease[w])' = Classify(lease[w])
  BY Zenon DEF Session, WorkerStep, Classify
<1>3. CASE stream[w][i].kind # "Done"
  BY <1>1, <1>2, <1>3, Zenon DEF Expected, WorkerStep
<1>4. CASE stream[w][i].kind = "Done"
  <2>1. ASSUME NEW j \in (i + 1)..Len(stream'[w]) PROVE stream'[w][j].kind = "Error"
    <3>1. j \in 1..Len(stream'[w])
      BY <1>1 DEF Grown
    <3>2. CASE j \in 1..Len(stream[w])
      <4>1. j \in (i + 1)..Len(stream[w])
        BY <3>2
      <4>2. stream[w][j].kind = "Error"
        BY <1>2, <1>4, <4>1, Zenon DEF Expected
      <4>3. QED
        BY <1>1, <3>2, <4>2, Zenon DEF Grown
    <3>3. CASE j = Len(stream[w]) + 1
      BY <1>1, <1>4, <3>3, Zenon DEF Grown
    <3>4. QED
      BY <1>1, <3>1, <3>2, <3>3, Zenon DEF Grown
  <2>2. QED
    BY <1>1, <1>2, <1>4, <2>1, ZenonT(30) DEF Expected, WorkerStep
<1>5. QED
  BY <1>3, <1>4

(* A worker that starts up says hello.                                      *)
LEMMA BootSession ==
  ASSUME TypeOK, Typed, NEW w \in Worker, Session(w), Boot(w)
  PROVE  Session(w)'
<1>1. /\ proc[w] = "boot" /\ proc'[w] = "idle" /\ Send(w, [kind |-> "Hello"])
      /\ WorkerStep(w) /\ UNCHANGED <<excused, task, sent>>
  BY DEF Typed, PTypeOK, Boot, WorkerStep, Worked, coordVars, fixedVars, endVars, vars, histVars
<1>2. /\ ~hello[w] /\ stream[w] = <<>> /\ task[w] = NoTicket /\ channel[w]
      /\ lease[w] = NoTicket /\ received[w] = <<>> /\ serving # w
  BY <1>1, Zenon DEF Session
<1>3. stream'[w] = << [kind |-> "Hello"] >>
  BY <1>1, <1>2, Single, ZenonT(30) DEF Typed, Send
<1>4. Len(stream'[w]) = 1 /\ stream'[w][1].kind = "Hello" /\ \A i \in 1..1 : i = 1
  BY <1>3, Single
<1>5. \A i \in 1..Len(stream'[w]) : Expected(w, i, stream[w][i])'
  BY <1>1, <1>2, <1>4, Zenon DEF Expected, WorkerStep
<1>6. QED
  BY <1>1, <1>2, <1>5, Zenon DEF Session, WorkerStep

(* A worker takes up its task.                                              *)
LEMMA TakeSession ==
  ASSUME TypeOK, Typed, NEW w \in Worker, Session(w), TakeTask(w)
  PROVE  Session(w)'
<1>1. /\ proc[w] = "idle" /\ task[w] # NoTicket /\ proc'[w] = "run" /\ sent'[w] = 0
      /\ WorkerStep(w) /\ UNCHANGED <<excused, task, stream>>
  BY DEF Typed, PTypeOK, TakeTask, WorkerStep, Worked, coordVars, fixedVars, endVars, vars, histVars
<1>2. /\ task[w] = lease[w] /\ serving # w /\ received[w] = <<>> /\ stream[w] = <<>>
      /\ channel[w] /\ hello[w]
  BY <1>1, ZenonT(30) DEF Session
<1>3. /\ Len(received'[w]) = 0 /\ Len(stream'[w]) = 0
  BY <1>1, <1>2, ZenonT(30) DEF WorkerStep
<1>4. Len(graph[lease[w].state]) \in Nat
  BY <1>1, <1>2, WorkerTypes, Zenon
<1>5. sent'[w] = Len(received'[w]) + Len(stream'[w]) /\ 1..Len(stream'[w]) = {}
  BY <1>1, <1>3, <1>4, Nothing, Zenon
<1>6. lease[w] \in issued /\ lease[w].worker = w
  BY <1>1, <1>2, ZenonT(30) DEF Session
<1>7. /\ Len(received'[w]) <= Len(graph'[lease'[w].state])
      /\ 1..Len(received'[w]) = {} /\ sent'[w] <= Len(graph'[lease'[w].state]) /\ ~(sent'[w] > 0)
  BY <1>1, <1>3, <1>4, Nothing, Zenon DEF WorkerStep
<1>8. QED
  BY <1>1, <1>2, <1>5, <1>6, <1>7, ZenonT(30) DEF Session, WorkerStep

(* A worker dies without a word.                                            *)
LEMMA CrashSession ==
  ASSUME TypeOK, Typed, NEW w \in Worker, Session(w), Crash(w)
  PROVE  Session(w)'
<1>1. /\ proc[w] \in {"boot", "idle", "run"} /\ proc'[w] = "dead"
      /\ WorkerStep(w) /\ UNCHANGED <<excused, task, sent, stream>>
  BY DEF Typed, PTypeOK, Crash, WorkerStep, Worked, coordVars, fixedVars, endVars, vars, histVars
<1>2. Classify(lease[w])' = Classify(lease[w])
  BY <1>1, Zenon DEF Classify, WorkerStep
<1>3. ASSUME NEW i \in 1..Len(stream[w]) PROVE Expected(w, i, stream[w][i])'
  <2>1. Expected(w, i, stream[w][i])
    BY Zenon DEF Session
  <2>2. QED
    BY <1>1, <1>2, <2>1, Zenon DEF Expected, WorkerStep
<1>4. QED
  BY <1>1, <1>2, <1>3, Zenon DEF Session, WorkerStep

(* An exception in the worker is reported, whatever it was doing.           *)
LEMMA ThrowSession ==
  ASSUME TypeOK, Typed, NEW w \in Worker, Session(w), WorkerThrows(w)
  PROVE  Session(w)'
<1> DEFINE m == [kind |-> "Error", lease |-> IF proc[w] = "run" THEN task[w].lease_id ELSE 0]
<1>1. /\ proc[w] \in {"boot", "idle", "run"} /\ proc'[w] = "dead"
      /\ WorkerStep(w) /\ excused' = TRUE /\ UNCHANGED <<task, sent>> /\ Send(w, m)
  BY Zenon DEF Typed, PTypeOK, WorkerThrows, WorkerStep, coordVars, fixedVars, vars, histVars
<1>2. m \in Messages /\ m.kind = "Error"
  <2>1. proc[w] = "run" => task[w].lease_id \in Nat
    <3>1. proc[w] = "run" => task[w] # NoTicket
      BY Zenon DEF Session
    <3>2. QED
      BY <3>1, WorkerTypes, Zenon
  <2>2. (IF proc[w] = "run" THEN task[w].lease_id ELSE 0) \in Nat
    BY <2>1
  <2>3. QED
    BY <2>2, Sendable, Zenon
<1> HIDE DEF m
<1>3. Grown(w, m)
  BY <1>1, <1>2, Sent, Zenon
<1>4. \A i \in 1..Len(stream[w]) : Expected(w, i, stream[w][i])'
  BY <1>1, <1>2, StillExpected, ZenonT(30)
<1>5. ASSUME NEW i \in 1..Len(stream'[w]) PROVE Expected(w, i, stream[w][i])'
  <2>1. CASE i \in 1..Len(stream[w])
    BY <1>4, <2>1
  <2>2. CASE i = Len(stream[w]) + 1
    BY <1>1, <1>2, <1>3, <2>2, ZenonT(30) DEF Expected, Grown
  <2>3. QED
    BY <1>3, <2>1, <2>2, Zenon DEF Grown
<1>6. ASSUME \A i \in 1..Len(stream[w]) : stream[w][i].kind = "Error"
      PROVE  \A i \in 1..Len(stream'[w]) : stream'[w][i].kind = "Error"
  BY <1>2, <1>3, <1>6, Zenon DEF Grown
<1>7. channel[w]
  BY <1>1, ZenonT(30) DEF Session
<1>8. QED
  BY <1>1, <1>5, <1>6, <1>7, ZenonT(30) DEF Session, WorkerStep

(* What is known of a worker at work on its task.                           *)
LEMMA Running ==
  ASSUME TypeOK, Typed, NEW w \in Worker, Session(w), proc[w] = "run"
  PROVE  /\ task[w] = lease[w] /\ lease[w] # NoTicket /\ serving # w /\ channel[w] /\ hello[w]
         /\ lease[w].lease_id \in Nat
         /\ received[w] \in Seq(State) /\ graph[lease[w].state] \in Seq(State)
         /\ Len(received[w]) \in Nat /\ Len(graph[lease[w].state]) \in Nat
         /\ sent[w] \in Nat
         /\ sent[w] <= Len(graph[lease[w].state])
         /\ sent[w] > 0 => Classify(lease[w]) = "Expanded"
         /\ \A i \in 1..Len(stream[w]) : stream[w][i].kind = "Edge"
<1>1. /\ task[w] = lease[w] /\ lease[w] # NoTicket /\ serving # w /\ channel[w] /\ hello[w]
      /\ sent[w] <= Len(graph[lease[w].state])
      /\ sent[w] > 0 => Classify(lease[w]) = "Expanded"
      /\ \A i \in 1..Len(stream[w]) : stream[w][i].kind = "Edge"
  BY Zenon DEF Session
<1>2. QED
  BY <1>1, WorkerTypes, Zenon

(* A worker sends the next edge of its task.                                *)
LEMMA SendEdgeSession ==
  ASSUME TypeOK, Typed, NEW w \in Worker, Session(w), SendEdge(w)
  PROVE  Session(w)'
<1> DEFINE succ == graph[lease[w].state]
           m == [kind |-> "Edge", lease |-> task[w].lease_id, index |-> sent[w] + 1]
           a == Len(received[w])
           c == Len(stream[w])
           e == Len(stream'[w])
<1>1. /\ proc[w] = "run" /\ WorkerStep(w) /\ UNCHANGED <<excused, task, proc>>
      /\ sent[w] < Len(graph[task[w].state]) /\ Send(w, m) /\ sent'[w] = sent[w] + 1
      /\ Classify(task[w]) = "Expanded"
  BY DEF Typed, PTypeOK, SendEdge, WorkerStep, Worked, coordVars, fixedVars, endVars, vars, histVars
<1>2. /\ task[w] = lease[w] /\ lease[w] # NoTicket /\ serving # w /\ channel[w] /\ hello[w]
      /\ lease[w].lease_id \in Nat
      /\ a \in Nat /\ Len(succ) \in Nat /\ sent[w] \in Nat
      /\ \A i \in 1..c : stream[w][i].kind = "Edge"
  BY <1>1, Running, ZenonT(30)
<1>3. m \in Messages /\ m.kind = "Edge" /\ m.lease = lease[w].lease_id /\ m.index = sent[w] + 1
  <2>1. sent[w] + 1 \in Nat
    BY <1>2, Nothing, Zenon
  <2>2. QED
    BY <1>2, <2>1, Sendable, ZenonT(30)
<1> HIDE DEF m
<1>4. /\ c \in Nat /\ e = c + 1 /\ stream'[w][c + 1] = m
      /\ \A i \in 1..c : stream'[w][i] = stream[w][i]
      /\ \A i \in 1..e : i \in 1..c \/ i = c + 1
  BY <1>1, <1>3, Sent, Zenon DEF Grown
<1>5. Classify(lease[w])' = Classify(lease[w]) /\ Classify(lease[w]) = "Expanded"
  BY <1>1, <1>2, Zenon DEF Classify, WorkerStep
<1>6. ASSUME NEW i \in 1..c PROVE Expected(w, i, stream[w][i])'
  BY <1>1, <1>2, <1>3, StillExpected, ZenonT(30)
<1>7. /\ sent[w] + 1 = a + (c + 1) /\ sent[w] + 1 <= Len(succ) /\ sent'[w] = a + e
      /\ sent'[w] <= Len(succ)
  <2>1. sent[w] < Len(succ) /\ sent[w] = a + c
    BY <1>1, <1>2, ZenonT(30) DEF Session
  <2> HIDE DEF a, c, e, succ
  <2>2. a \in Nat /\ c \in Nat /\ Len(succ) \in Nat
    BY <1>2, <1>4, Zenon
  <2>3. (a + c) + 1 = a + (c + 1) /\ (a + c < Len(succ) => a + (c + 1) <= Len(succ))
    BY <2>2, OneMore, ZenonT(30)
  <2>4. QED
    BY <1>1, <1>4, <2>1, <2>3, Zenon
<1>8. ASSUME NEW i \in 1..e PROVE Expected(w, i, stream[w][i])'
  <2>1. CASE i \in 1..c
    BY <1>6, <2>1, Zenon
  <2>2. CASE i = c + 1
    <3>1. stream'[w][i] = m /\ m.index = a + i /\ m.index <= Len(succ)
      BY <1>3, <1>4, <1>7, <2>2, Zenon
    <3>2. QED
      BY <1>1, <1>2, <1>3, <1>5, <3>1, Zenon DEF Expected, WorkerStep
  <2>3. QED
    BY <1>4, <2>1, <2>2, ZenonT(30)
<1>9. \A i \in 1..e : stream'[w][i].kind = "Edge"
  BY <1>2, <1>3, <1>4, Zenon
<1>10. QED
  BY <1>1, <1>2, <1>5, <1>7, <1>8, <1>9, ZenonT(30) DEF Session, WorkerStep

(* A worker sends the receipt of its task.                                  *)
LEMMA SendDoneSession ==
  ASSUME TypeOK, Typed, NEW w \in Worker, Session(w), SendDone(w)
  PROVE  Session(w)'
<1> DEFINE succ == graph[lease[w].state]
           how == IF LastWasBad(w) THEN "Violation" ELSE Classify(task[w])
           m == [kind |-> "Done", lease |-> task[w].lease_id, how |-> how, emitted |-> sent[w]]
           a == Len(received[w])
           c == Len(stream[w])
           e == Len(stream'[w])
<1>1. /\ proc[w] = "run" /\ WorkerStep(w) /\ UNCHANGED <<excused, sent>> /\ proc'[w] = "idle"
      /\ task'[w] = NoTicket /\ Send(w, m)
      /\ how = "Expanded" => sent[w] = Len(graph[task[w].state])
  BY Zenon DEF Typed, PTypeOK, SendDone, WorkerStep, Worked, coordVars, fixedVars, endVars, vars, histVars
<1>2. /\ task[w] = lease[w] /\ lease[w] # NoTicket /\ serving # w /\ channel[w] /\ hello[w]
      /\ lease[w].lease_id \in Nat
      /\ a \in Nat /\ Len(succ) \in Nat /\ sent[w] \in Nat
      /\ sent[w] <= Len(succ)
      /\ sent[w] > 0 => Classify(lease[w]) = "Expanded"
      /\ \A i \in 1..c : stream[w][i].kind = "Edge"
  BY <1>1, Running, Zenon
<1>3. /\ how \in {"Violation", "Terminal", "Expanded", "DepthCut"}
      /\ how = Classify(lease[w]) \/ (how = "Violation" /\ LastWasBad(w))
      /\ how = "Expanded" => sent[w] = Len(succ)
  BY <1>1, <1>2, Zenon DEF Classify
<1> HIDE DEF how
<1>4. /\ m \in Messages /\ m.kind = "Done" /\ m.lease = lease[w].lease_id
      /\ m.how = how /\ m.emitted = sent[w]
  BY <1>2, <1>3, Sendable, Zenon
<1> HIDE DEF m
<1>5. /\ c \in Nat /\ e = c + 1 /\ stream'[w][c + 1] = m
      /\ \A i \in 1..c : stream'[w][i] = stream[w][i]
      /\ \A i \in 1..e : i \in 1..c \/ i = c + 1
  BY <1>1, <1>4, Sent, Zenon DEF Grown
<1>6. Classify(lease[w])' = Classify(lease[w])
  BY <1>1, Zenon DEF Classify, WorkerStep
<1>7. ASSUME NEW i \in 1..c PROVE Expected(w, i, stream[w][i])'
  BY <1>1, <1>2, <1>4, StillExpected, Zenon
<1>8. \/ how = "Violation" /\ sent[w] \in 1..Len(succ) /\ succ[sent[w]] \in bad
      \/ /\ how = Classify(lease[w])
         /\ sent[w] = IF how = "Expanded" THEN Len(succ) ELSE 0
  <2>1. CASE LastWasBad(w) /\ how = "Violation"
    <3>1. sent[w] > 0 /\ graph[task[w].state][sent[w]] \in bad
      BY <2>1, Zenon DEF LastWasBad
    <3>2. task[w] = lease[w] /\ Len(succ) \in Nat /\ sent[w] \in Nat /\ sent[w] <= Len(succ)
      BY <1>2, Zenon
    <3>3. sent[w] \in 1..Len(succ)
      BY <3>1, <3>2
    <3>4. QED
      BY <2>1, <3>1, <3>2, <3>3, Zenon
  <2>2. CASE how = Classify(lease[w])
    BY <1>2, <1>3, <2>2, Nothing, Zenon
  <2>3. QED
    BY <1>3, <2>1, <2>2, ZenonT(30)
<1>9. sent[w] = a + (c + 1) - 1
  <2>1. sent[w] = a + c
    BY <1>1, Zenon DEF Session
  <2> HIDE DEF a, c
  <2>2. a \in Nat /\ c \in Nat
    BY <1>2, <1>5, Zenon
  <2>3. a + (c + 1) - 1 = a + c
    BY <2>2, OneMore, Zenon
  <2>4. QED
    BY <2>1, <2>3, Zenon
<1>10. (c + 1 + 1)..e = {}
  BY <1>2, <1>5, OneMore, Zenon
<1>11. ASSUME NEW i \in 1..e PROVE Expected(w, i, stream[w][i])'
  <2>1. CASE i \in 1..c
    BY <1>7, <2>1, Zenon
  <2>2. CASE i = c + 1
    <3>1. stream'[w][i] = m /\ m.emitted = a + i - 1 /\ (i + 1)..e = {}
      BY <1>4, <1>5, <1>9, <1>10, <2>2, Zenon
    <3>2. QED
      BY <1>1, <1>2, <1>4, <1>6, <1>8, <3>1, ZenonT(30) DEF Expected, WorkerStep
  <2>3. QED
    BY <1>5, <2>1, <2>2, Zenon
<1>12. QED
  BY <1>1, <1>2, <1>11, ZenonT(30) DEF Session, WorkerStep


-----------------------------------------------------------------------------
Sessions == ending = "no" => \A w \in Worker : Session(w)

(* The two books of leases agree, also inside a call.                       *)
Books ==
  (ending = "no" /\ ~poisoned) =>
    /\ \A w \in Worker : lease[w] # NoTicket => ticket[lease[w].state] = lease[w]
    /\ \A s \in State : ticket[s] # NoTicket => lease[ticket[s].worker] = ticket[s]

(* How the search ends.                                                     *)
Endings ==
  /\ ending = "no" => \A s \in State : phase[s] # "Failure"
  /\ ending # "no" => roots # {} \/ poisoned
  /\ serving # NoState => roots # {}
  /\ verdict # "none" =>
       /\ verdict = ending /\ call = "none"
       /\ poisoned \/ \A s \in State : ticket[s] = NoTicket

PInv ==
  /\ LeaseIds /\ Typed /\ Sessions /\ Books /\ Endings /\ FailsOnlyWhenExhausted

-----------------------------------------------------------------------------
(* A step of the explorer keeps the whole invariant when it is a step of    *)
(* the frontier and keeps the explorer's own part.                          *)
LEMMA Assemble ==
  ASSUME Base, PInv, [Next]_vars, Typed', Sessions', Books', Endings', FailsOnlyWhenExhausted'
  PROVE  PInv'
BY LeaseStep, Zenon DEF PInv

(* The conversations stay in order when all but one are left alone.         *)
LEMMA SessionsKept ==
  ASSUME Sessions, World, NEW w \in Worker,
         \A v \in Worker \ {w} : Same(v),
         ending' = "no" => ending = "no" /\ Session(w)'
  PROVE  Sessions'
<1> SUFFICES ASSUME ending' = "no", NEW v \in Worker PROVE Session(v)'
  BY DEF Sessions
<1>1. CASE v = w
  BY <1>1
<1>2. CASE v # w
  BY <1>2, SameSession DEF Sessions
<1>3. QED
  BY <1>1, <1>2

(* ... and when all are.                                                    *)
LEMMA SessionsSame ==
  ASSUME Sessions, World, \A v \in Worker : Same(v), ending' = "no" => ending = "no"
  PROVE  Sessions'
BY SameSession DEF Sessions

(* A step that touches neither the frontier nor the books.                  *)
QuietFrame ==
  /\ UNCHANGED <<vars, lease, ending, verdict, failures, startup_failures, options, bad>>
  /\ excused => excused'
  /\ serving' # NoState => serving # NoState

(* Such a step keeps the books and is a stutter of the frontier.            *)
LEMMA QuietBooks ==
  ASSUME Base, PInv, QuietFrame
  PROVE  [Next]_vars /\ World /\ Books' /\ Endings' /\ FailsOnlyWhenExhausted'
<1>1. UNCHANGED <<graph, phase, ticket, issued, roots, poisoned, call>>
  BY DEF QuietFrame, vars, nodeVars, histVars, callVars
<1>2. Books /\ Endings /\ FailsOnlyWhenExhausted
  BY DEF PInv
<1>3. Books'
  BY <1>1, <1>2 DEF QuietFrame, Books
<1>4. Endings'
  BY <1>1, <1>2 DEF QuietFrame, Endings
<1>5. FailsOnlyWhenExhausted'
  BY <1>2 DEF QuietFrame, FailsOnlyWhenExhausted
<1>6. QED
  BY <1>1, <1>3, <1>4, <1>5 DEF QuietFrame, World

(* A step of a worker process, in order or not.                             *)
LEMMA ProcessStep ==
  ASSUME Base, PInv, NEW w \in Worker,
         WorkerProcess(w) \/ WorkerThrows(w) \/ Crash(w)
  PROVE  [Next]_vars /\ PInv'
<1>1. TypeOK /\ Typed /\ Sessions
  BY DEF PInv, Base
<1>2. /\ QuietFrame /\ UNCHANGED <<channel, hello, received, serving, violation_state>>
      /\ excused' \in {excused, TRUE}
  <2>1. CASE WorkerThrows(w)
    BY <2>1, Zenon DEF WorkerThrows, QuietFrame, coordVars, fixedVars
  <2>2. CASE WorkerProcess(w) \/ Crash(w)
    <3>1. UNCHANGED Worked
      BY <2>2, Zenon DEF WorkerProcess, Boot, TakeTask, SendEdge, SendDone, Crash
    <3>2. QED
      BY <3>1 DEF Worked, QuietFrame, coordVars, fixedVars, endVars
  <2>3. QED
    BY <2>1, <2>2, Zenon
<1>3. [Next]_vars /\ World /\ Books' /\ Endings' /\ FailsOnlyWhenExhausted'
  BY <1>2, QuietBooks
<1>4. /\ proc' = proc \/ \E p \in {"idle", "run", "dead"} : proc' = [proc EXCEPT ![w] = p]
      /\ task' = task \/ task' = [task EXCEPT ![w] = NoTicket]
      /\ sent' = sent \/ \E n \in Nat : sent' = [sent EXCEPT ![w] = n]
      /\ stream' = stream \/ \E m : Send(w, m)
  <2>1. sent[w] \in Nat
    BY <1>1, WorkerTypes, Zenon
  <2>2. CASE Boot(w)
    BY <2>2 DEF Boot
  <2>3. CASE TakeTask(w)
    BY <2>3, Zenon DEF TakeTask
  <2>4. CASE SendEdge(w)
    <3>1. sent[w] + 1 \in Nat
      BY <2>1
    <3>2. sent' = [sent EXCEPT ![w] = sent[w] + 1]
      BY <2>4, Zenon DEF SendEdge
    <3>3. \E n \in Nat : sent' = [sent EXCEPT ![w] = n]
      BY <3>1, <3>2, Zenon
    <3>4. QED
      BY <2>4, <3>3, Zenon DEF SendEdge
  <2>5. CASE SendDone(w)
    BY <2>5 DEF SendDone
  <2>6. CASE WorkerThrows(w)
    BY <2>6 DEF WorkerThrows
  <2>7. CASE Crash(w)
    BY <2>7 DEF Crash
  <2>8. QED
    BY <2>2, <2>3, <2>4, <2>5, <2>6, <2>7 DEF WorkerProcess
<1>5. \A v \in Worker \ {w} : Same(v)
  BY <1>1, <1>2, <1>4 DEF Same, QuietFrame, Typed, PTypeOK, Send
<1>6. ASSUME Session(w) PROVE Session(w)'
  BY <1>1, <1>6, BootSession, TakeSession, SendEdgeSession, SendDoneSession, ThrowSession,
     CrashSession DEF WorkerProcess
<1>7. Sessions'
  BY <1>1, <1>2, <1>3, <1>5, <1>6, SessionsKept DEF Sessions, QuietFrame
<1>8. Typed'
  <2>1. \A m : Send(w, m) /\ m \in Messages => stream' \in [Worker -> Seq(Messages)]
    BY <1>1 DEF Typed, Send
  <2>2. stream' = stream \/ \E m \in Messages : Send(w, m)
    <3>1. sent[w] \in Nat /\ sent[w] + 1 \in Nat
      BY <1>1, WorkerTypes
    <3>2. proc[w] = "run" => task[w].lease_id \in Nat
      BY <1>1, WorkerTypes, FrontierAssumption, Zenon DEF Typed, Tickets
    <3>3. Classify(task[w]) \in {"Violation", "Terminal", "Expanded", "DepthCut"}
      BY DEF Classify
    <3>4. CASE Boot(w)
      BY <3>4 DEF Boot, Messages
    <3>5. CASE SendEdge(w)
      BY <3>1, <3>2, <3>5, Zenon DEF SendEdge, Messages
    <3>6. CASE SendDone(w)
      BY <3>1, <3>2, <3>3, <3>6, Zenon DEF SendDone, Messages
    <3>7. CASE WorkerThrows(w)
      BY <3>2, <3>7, Zenon DEF WorkerThrows, Messages
    <3>8. CASE TakeTask(w) \/ Crash(w)
      BY <3>8 DEF TakeTask, Crash
    <3>9. QED
      BY <3>4, <3>5, <3>6, <3>7, <3>8 DEF WorkerProcess
  <2>3. PTypeOK'
    <3>1. proc' \in [Worker -> {"off", "boot", "idle", "run", "dead"}]
      BY <1>1, <1>4, Zenon DEF Typed, PTypeOK
    <3>2. task' \in [Worker -> Tickets \cup {NoTicket}] /\ sent' \in [Worker -> Nat]
      BY <1>1, <1>4, ZenonT(30) DEF Typed, PTypeOK
    <3>3. QED
      BY <1>1, <1>2, <3>1, <3>2, Zenon DEF Typed, PTypeOK, QuietFrame
  <2>4. \A v \in Worker : proc'[v] = "run" => task'[v] # NoTicket
    <3>1. \A v \in Worker \ {w} : proc'[v] = "run" => task'[v] # NoTicket
      BY <1>1, <1>5, Zenon DEF Same, Typed
    <3>2. proc'[w] = "run" => task'[w] # NoTicket
      BY <1>1, Zenon DEF WorkerProcess, Boot, TakeTask, SendEdge, SendDone, WorkerThrows, Crash,
                  Typed, PTypeOK
    <3>3. QED
      BY <3>1, <3>2, Zenon
  <2>5. stream' \in [Worker -> Seq(Messages)]
    BY <1>1, <2>1, <2>2, Zenon DEF Typed
  <2>6. QED
    BY <1>1, <1>2, <2>3, <2>4, <2>5, Zenon DEF Typed, QuietFrame
<1>9. QED
  BY <1>3, <1>7, <1>8, Assemble

(* A worker process is started.                                             *)
LEMMA SpawnStep ==
  ASSUME Base, PInv, NEW w \in Worker, Spawn(w)
  PROVE  [Next]_vars /\ PInv'
<1>1. TypeOK /\ Typed /\ Sessions
  BY DEF PInv, Base
<1>2. /\ QuietFrame /\ serving' = NoState /\ serving' # w /\ ending = "no"
      /\ UNCHANGED <<received, violation_state, excused, task, sent, stream>>
      /\ channel' = [channel EXCEPT ![w] = TRUE] /\ hello' = [hello EXCEPT ![w] = FALSE]
      /\ proc' = [proc EXCEPT ![w] = "boot"]
  BY ParallelAssumption DEF Spawn, Looping, QuietFrame, fixedVars, endVars
<1>3. [Next]_vars /\ World /\ Books' /\ Endings' /\ FailsOnlyWhenExhausted'
  BY <1>2, QuietBooks
<1>4. \A v \in Worker \ {w} : Same(v)
  BY <1>1, <1>2, ParallelAssumption DEF Same, QuietFrame, Typed, PTypeOK
<1>5. Sessions'
  BY <1>1, <1>2, <1>3, <1>4, SpawnSession, SessionsKept DEF Sessions
<1>6. Typed'
  <2>1. /\ channel' \in [Worker -> BOOLEAN] /\ hello' \in [Worker -> BOOLEAN]
        /\ proc' \in [Worker -> {"off", "boot", "idle", "run", "dead"}]
        /\ \A v \in Worker : proc'[v] = "run" => task'[v] # NoTicket
    BY <1>1, <1>2 DEF Typed, PTypeOK
  <2>2. QED
    BY <1>1, <1>2, <2>1, Zenon DEF Typed, PTypeOK, QuietFrame
<1>7. QED
  BY <1>3, <1>5, <1>6, Assemble

(* A task is sent.                                                          *)
LEMMA SendTaskStep ==
  ASSUME Base, PInv, NEW w \in Worker, SendTask(w)
  PROVE  [Next]_vars /\ PInv'
<1>1. TypeOK /\ Typed /\ Sessions
  BY DEF PInv, Base
<1>2. /\ QuietFrame /\ serving' = NoState /\ serving = w /\ ending = "no"
      /\ UNCHANGED <<channel, hello, received, violation_state, excused, proc, sent, stream>>
      /\ task' = [task EXCEPT ![w] = lease[w]]
  BY DEF SendTask, QuietFrame, coordVars, fixedVars, endVars
<1>3. [Next]_vars /\ World /\ Books' /\ Endings' /\ FailsOnlyWhenExhausted'
  BY <1>2, QuietBooks
<1>4. \A v \in Worker \ {w} : Same(v)
  BY <1>1, <1>2, ParallelAssumption, Zenon DEF Same, QuietFrame, Typed, PTypeOK
<1>5. Session(w)
  BY <1>1, <1>2 DEF Sessions
<1>6. Sessions'
  BY <1>1, <1>2, <1>3, <1>4, <1>5, SendTaskSession, SessionsKept
<1>7. Typed'
  <2>1. task' \in [Worker -> Tickets \cup {NoTicket}] /\ proc[w] # "run"
    BY <1>1, <1>2, <1>5, ZenonT(30) DEF Typed, PTypeOK, Session
  <2>2. \A v \in Worker : proc'[v] = "run" => task'[v] # NoTicket
    BY <1>1, <1>2, <2>1 DEF Typed, PTypeOK
  <2>3. QED
    BY <1>1, <1>2, <2>1, <2>2, Zenon DEF Typed, PTypeOK, QuietFrame
<1>8. QED
  BY <1>3, <1>6, <1>7, Assemble

(* What holds when the next message of w is received.                       *)
LEMMA Received ==
  ASSUME Base, PInv, NEW w \in Worker, Polling(w), stream[w] # <<>>, UNCHANGED serving
  PROVE  /\ TypeOK /\ Typed /\ Sessions /\ Session(w) /\ ending = "no" /\ verdict = "none"
         /\ serving = NoState /\ serving' = NoState /\ NoState # w /\ roots # {} /\ ~poisoned
<1>1. /\ TypeOK /\ Typed /\ Sessions /\ Endings /\ ending = "no" /\ serving = NoState
      /\ roots # {} /\ ~poisoned
  BY Zenon DEF PInv, Base, Polling, Looping, Idle
<1>2. verdict = "none"
  BY <1>1, Zenon DEF Endings, Typed, PTypeOK
<1>3. QED
  BY <1>1, <1>2, ParallelAssumption, Zenon DEF Sessions

(* Taking a message off the stream keeps the types and the other streams.   *)
LEMMA PopTypes ==
  ASSUME Typed, NEW w \in Worker, stream[w] # <<>>, Pop(w)
  PROVE  /\ stream' \in [Worker -> Seq(Messages)] /\ UNCHANGED <<proc, task, sent>>
         /\ \A v \in Worker \ {w} : stream'[v] = stream[v]
<1>1. stream' = [stream EXCEPT ![w] = Tail(@)] /\ stream[w] \in Seq(Messages)
      /\ UNCHANGED <<proc, task, sent>>
  BY Zenon DEF Pop, Typed
<1>2. Tail(stream[w]) \in Seq(Messages)
  BY <1>1
<1>3. QED
  BY <1>1, <1>2, Zenon DEF Typed

(* The hello of a worker is received.                                       *)
LEMMA HelloStep ==
  ASSUME Base, PInv, NEW w \in Worker, Polling(w), stream[w] # <<>>, UNCHANGED serving,
         ReceiveHello(w, Head(stream[w]))
  PROVE  [Next]_vars /\ PInv'
<1>1. /\ TypeOK /\ Typed /\ Sessions /\ Session(w) /\ ending = "no" /\ serving = NoState
      /\ serving' = NoState /\ NoState # w
  BY Received
<1>2. ~hello[w] /\ lease[w] = NoTicket /\ Session(w)'
  BY <1>1, HelloSession
<1>3. /\ QuietFrame /\ Pop(w) /\ hello' = [hello EXCEPT ![w] = TRUE]
      /\ UNCHANGED <<channel, received, violation_state, excused>>
  BY <1>1, <1>2, Zenon DEF ReceiveHello, QuietFrame, fixedVars, endVars
<1>4. [Next]_vars /\ World /\ Books' /\ Endings' /\ FailsOnlyWhenExhausted'
  BY <1>3, QuietBooks, Zenon
<1>5. /\ stream' \in [Worker -> Seq(Messages)] /\ UNCHANGED <<proc, task, sent>>
      /\ \A v \in Worker \ {w} : stream'[v] = stream[v]
  BY <1>1, <1>3, PopTypes, Zenon
<1>6. \A v \in Worker \ {w} : Same(v)
  BY <1>1, <1>3, <1>5, Zenon DEF Same, QuietFrame, Typed, PTypeOK
<1>7. Sessions'
  BY <1>1, <1>2, <1>4, <1>6, SessionsKept, Zenon
<1>8. Typed'
  <2>1. hello' \in [Worker -> BOOLEAN]
    BY <1>1, <1>3 DEF Typed, PTypeOK
  <2>2. QED
    BY <1>1, <1>3, <1>5, <2>1, Zenon DEF Typed, PTypeOK, QuietFrame
<1>9. QED
  BY <1>4, <1>7, <1>8, Assemble, Zenon

-----------------------------------------------------------------------------
(* A step that leaves the main loop and the frontier alone otherwise.       *)
EndFrame ==
  /\ UNCHANGED <<vars, verdict, options, bad, failures, startup_failures>>
  /\ ending = "no" /\ ending' # "no" /\ roots # {}
  /\ excused => excused'

(* Such a step keeps the books: nothing is asked of them any more.          *)
LEMMA EndBooks ==
  ASSUME Base, PInv, EndFrame
  PROVE  [Next]_vars /\ Sessions' /\ Books' /\ Endings'
<1>1. UNCHANGED <<phase, ticket, roots, poisoned, call>>
  BY DEF EndFrame, vars, nodeVars, histVars, callVars
<1>2. verdict = "none"
  BY Zenon DEF PInv, EndFrame, Endings, Typed, PTypeOK
<1>3. QED
  BY <1>1, <1>2, Zenon DEF EndFrame, Sessions, Books, Endings

(* An error under a lease ends the search, and is an excuse.                *)
LEMMA ErrorStep ==
  ASSUME Base, PInv, NEW w \in Worker, Polling(w), stream[w] # <<>>, UNCHANGED serving,
         Head(stream[w]).kind = "Error", Pop(w), Throw, UNCHANGED <<vars, coordVars>>
  PROVE  [Next]_vars /\ PInv'
<1>1. /\ TypeOK /\ Typed /\ Sessions /\ Session(w) /\ ending = "no" /\ serving' = NoState
      /\ roots # {}
  BY Received, Zenon
<1>2. excused
  <2>1. Expected(w, 1, stream[w][1]) /\ Head(stream[w]) = stream[w][1]
    BY <1>1, HeadExpected, Zenon
  <2>2. QED
    BY <2>1, Zenon DEF Expected
<1>3. EndFrame /\ UNCHANGED <<channel, hello, lease, received, violation_state, excused>>
      /\ ending' = "Failed"
  BY <1>1, Zenon DEF EndFrame, Throw, coordVars, fixedVars
<1>4. [Next]_vars /\ Sessions' /\ Books' /\ Endings'
  BY <1>3, EndBooks, Zenon
<1>5. FailsOnlyWhenExhausted'
  BY <1>2, <1>3 DEF FailsOnlyWhenExhausted
<1>6. Typed'
  <2>1. stream' \in [Worker -> Seq(Messages)] /\ UNCHANGED <<proc, task, sent>>
    BY <1>1, PopTypes, Zenon
  <2>2. QED
    BY <1>1, <1>3, <2>1, Zenon DEF Typed, PTypeOK, EndFrame
<1>7. QED
  BY <1>4, <1>5, <1>6, Assemble, Zenon

(* An edge is received, and ends the search when its target is bad.         *)
LEMMA EdgeStep ==
  ASSUME Base, PInv, NEW w \in Worker, Polling(w), stream[w] # <<>>, UNCHANGED serving,
         ReceiveEdge(w, Head(stream[w]))
  PROVE  [Next]_vars /\ PInv'
<1> DEFINE u == graph[lease[w].state][Len(received[w]) + 1]
<1>1. /\ TypeOK /\ Typed /\ Sessions /\ Session(w) /\ ending = "no" /\ serving = NoState
      /\ serving' = NoState /\ NoState # w /\ roots # {}
  BY Received, Zenon
<1>2. Head(stream[w]).kind = "Edge"
  BY Zenon DEF ReceiveEdge
<1>3. /\ Answers(w, Head(stream[w])) /\ lease[w].may_expand
      /\ Head(stream[w]).index = Len(received[w]) + 1 /\ u \in State
  BY <1>1, <1>2, EdgeExpected, Zenon
<1>4. /\ Pop(w) /\ received' = [received EXCEPT ![w] = Append(@, u)]
      /\ \/ u \in bad /\ ending' = "Violation" /\ violation_state' = u
         \/ u \notin bad /\ UNCHANGED <<ending, violation_state>>
      /\ UNCHANGED <<vars, options, bad, verdict, excused, channel, hello, lease,
                     startup_failures, failures>>
  BY <1>3, Zenon DEF ReceiveEdge, fixedVars
<1>5. /\ stream' \in [Worker -> Seq(Messages)] /\ UNCHANGED <<proc, task, sent>>
      /\ \A v \in Worker \ {w} : stream'[v] = stream[v]
  BY <1>1, <1>4, PopTypes, Zenon
<1>6. Typed'
  <2>1. received' \in [Worker -> Seq(State)]
    <3>1. received \in [Worker -> Seq(State)] /\ Append(received[w], u) \in Seq(State)
      BY <1>1, <1>3, WorkerTypes, AppendIn, Zenon DEF Typed, PTypeOK
    <3> HIDE DEF u
    <3>2. QED
      BY <1>4, <3>1, ZenonT(30)
  <2> HIDE DEF u
  <2>2. /\ ending' \in {"no", "Violation"} /\ violation_state' \in State \cup {NoState}
        /\ ending' = "no" => ending = "no"
    BY <1>1, <1>3, <1>4, Zenon DEF Typed, PTypeOK
  <2>3. QED
    BY <1>1, <1>4, <1>5, <2>1, <2>2, Zenon DEF Typed, PTypeOK
<1>7. CASE ending' = "no"
  <2> HIDE DEF u
  <2>1. QuietFrame
    BY <1>1, <1>4, <1>7, Zenon DEF QuietFrame
  <2>2. [Next]_vars /\ World /\ Books' /\ Endings' /\ FailsOnlyWhenExhausted'
    BY <2>1, QuietBooks, Zenon
  <2>3. \A v \in Worker \ {w} : Same(v)
    BY <1>1, <1>4, <1>5, Zenon DEF Same, Typed, PTypeOK
  <2>4. Session(w)'
    BY <1>1, <1>7, EdgeSession, Zenon
  <2>5. Sessions'
    BY <1>1, <2>2, <2>3, <2>4, SessionsKept, ZenonT(30)
  <2>6. QED
    BY <1>6, <2>2, <2>5, Assemble, Zenon
<1>8. CASE ending' # "no"
  <2> HIDE DEF u
  <2>1. EndFrame /\ ending' = "Violation"
    BY <1>1, <1>4, <1>8, Zenon DEF EndFrame
  <2>2. [Next]_vars /\ Sessions' /\ Books' /\ Endings'
    BY <2>1, EndBooks, Zenon
  <2>3. FailsOnlyWhenExhausted'
    BY <2>1 DEF FailsOnlyWhenExhausted
  <2>4. QED
    BY <1>6, <2>2, <2>3, Assemble, Zenon
<1>9. QED
  BY <1>7, <1>8, Zenon
=============================================================================
