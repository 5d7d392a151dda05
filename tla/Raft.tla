-------------------------------- MODULE Raft --------------------------------
(***************************************************************************)
(* The Raft example as DetSim runs it: N servers exchanging datagrams      *)
(* through the emulated sockets, one system call of one server at a time.  *)
(* A server leaves recvfrom with a datagram (the first of its queue or the *)
(* second one), or with EAGAIN: when the queue is empty and the wait times *)
(* out, or when the only datagram is held back; then it does another round *)
(* of main's loop.  Every sendto is a step of its own: the server's memory *)
(* stands as it was at the call until then, and a datagram that finds the  *)
(* queue full is lost.  What a handler does depends on nothing it could    *)
(* read in between, so it is worked out when it starts.                    *)
(***************************************************************************)
EXTENDS RaftServer

CONSTANTS
    Live,        \* the servers that run: raft2.json starts two of the three
    MaxQueue,    \* MAX_UDP_BUFFER
    MaxTerm,     \* bound: no election beyond this term
    MaxIdx,      \* bound: no leader appends beyond this index
    MaxRounds,   \* bound: rounds of main's loop, all servers together
    Candidates,  \* bound: the servers whose election timeout may expire
    MaxDisorder  \* bound: datagrams taken out of order or held back

VARIABLES
    server,    \* the raft_server_private_t of each process
    todo,      \* the rest of its handler: each datagram to send, and the
               \* record after that
    inbox,     \* its queue of datagrams
    rounds,    \* rounds of main's loop still allowed
    disorder,  \* datagrams that may still be taken out of order or held back
    elected,   \* history: <<term, server>> of every raft_become_leader
    chosen,    \* history: the entries committed, each with the term of the
               \* server that committed it first
    loaded,    \* history: every raft_begin_load_snapshot that succeeded
    readded    \* history: the servers that appended an entry a second time
               \* after they had compacted it away

vars == <<server, todo, inbox, rounds, disorder, elected, chosen, loaded, readded>>

InitWith(r, d) ==
    /\ server = [id \in Server |-> RaftNew(id)]
    /\ todo = [id \in Server |-> <<>>]
    /\ inbox = [id \in Server |-> <<>>]
    /\ rounds = r
    /\ disorder = d
    /\ elected = {}
    /\ chosen = <<>>
    /\ loaded = {}
    /\ readded = {}

Init == InitWith(MaxRounds, MaxDisorder)

Free(n) == todo[n] = <<>> /\ ~server[n].aborted

\* deliver_udp: a datagram joins the receiver's queue; without a receiver, or
\* with the queue full, it is lost.
Deliver(boxes, d, to) ==
    IF to \in Live /\ Len(boxes[to]) < MaxQueue THEN [boxes EXCEPT ![to] = Append(@, d)] ELSE boxes

\* Entries that s is the first to commit
Committed(s) ==
    [i \in 1 .. Max({s.commit, Len(chosen)}) |->
        IF i <= Len(chosen) THEN chosen[i]
        ELSE [entry |-> IF HasIdx(s.log, i) THEN At(s.log, i) ELSE Empty, term |-> s.term]]

\* n's record is s now.
Turns(n, s) ==
    /\ server' = [server EXCEPT ![n] = s]
    /\ elected' = elected \cup
           (IF s.state = "LEADER" /\ server[n].state # "LEADER" THEN {<<s.term, n>>} ELSE {})
    /\ chosen' = Committed(s)

\* n begins a handler with effect e, and runs up to its first sendto.
Begins(n, e) ==
    LET after(i) == IF i < Len(e.out) THEN e.out[i + 1].at ELSE e.s
    IN /\ todo' = [todo EXCEPT ![n] = [i \in DOMAIN e.out |->
                        [to |-> e.out[i].to, msg |-> e.out[i].msg, then |-> after(i)]]]
       /\ Turns(n, after(0))

\* sendto
Sendto(n) ==
    /\ todo[n] # <<>>
    /\ \E d \in {Head(todo[n])} :
          /\ inbox' = Deliver(inbox, [from |-> n, msg |-> d.msg], d.to)
          /\ Turns(n, d.then)
    /\ todo' = [todo EXCEPT ![n] = Tail(@)]
    /\ UNCHANGED <<rounds, disorder, loaded, readded>>

\* recvfrom returns EAGAIN and main goes around its loop.
Round(n, choice) ==
    /\ Free(n)
    /\ Len(inbox[n]) <= 1
    /\ Len(inbox[n]) <= disorder
    /\ server[n].state = "LEADER" => CurrentIdx(server[n].log) < MaxIdx
    /\ choice = 1 /\ server[n].state # "LEADER" => server[n].term < MaxTerm /\ n \in Candidates
    /\ 0 < rounds
    /\ \E e \in {Loop(server[n], choice)} : e # Quiet(server[n]) /\ Begins(n, e)
    /\ disorder' = disorder - Len(inbox[n])
    /\ rounds' = rounds - 1
    /\ UNCHANGED <<inbox, loaded, readded>>

\* What a message adds to the two histories: the snapshot it makes s load, with
\* the terms before and after; s, when entries it has compacted away come again.
LoadOf(s, m) ==
    IF m.type = "SNAPSHOT" /\ Loads(s, m)
    THEN {[server |-> s.id, idx |-> m.snap_idx, before |-> s.term, after |-> m.snap_term]} ELSE {}
AgainBy(s, m) ==
    IF m.type = "AE" /\ m.entries # <<>> /\ s.term <= m.term /\ m.prev_idx = 0 /\ 0 < s.log.base
    THEN {s.id} ELSE {}

\* recvfrom returns the first or the second datagram of the queue.
Take(n, i) ==
    /\ Free(n)
    /\ i <= Len(inbox[n])
    /\ i - 1 <= disorder
    /\ \E d \in {inbox[n][i]} :
          /\ Begins(n, Receive(server[n], d.from, d.msg))
          /\ loaded' = loaded \cup LoadOf(server[n], d.msg)
          /\ readded' = readded \cup AgainBy(server[n], d.msg)
    /\ inbox' = [inbox EXCEPT ![n] = RemoveAt(@, i)]
    /\ disorder' = disorder - (i - 1)
    /\ UNCHANGED rounds

Next ==
    \E n \in Live :
        \/ \E choice \in 0 .. 1 : Round(n, choice)
        \/ \E i \in 1 .. 2 : Take(n, i)
        \/ Sendto(n)

Spec == Init /\ [][Next]_vars

-----------------------------------------------------------------------------
\* The terms a server was in already and has been set back from: it may vote in
\* them a second time.
Repeated == UNION {l.after + 1 .. l.before : l \in loaded}


\* The indices of the entries that a server holds.
Kept(n) == server[n].log.base + 1 .. CurrentIdx(server[n].log)


=============================================================================
