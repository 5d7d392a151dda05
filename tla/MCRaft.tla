------------------------------- MODULE MCRaft -------------------------------
(***************************************************************************)
(* The Raft example on a small instance, its checker watching.  Some       *)
(* behaviours are free from the start.  The others follow a script first,  *)
(* a list of steps of the system, and are free from there on:              *)
(*   - Lagging: server 0 commits two entries with server 1 while the queue *)
(*     of server 2 overflows, so that snapshots come within reach;         *)
(*   - Behind: server 0 commits an entry with server 2, and server 1, who  *)
(*     has not read it yet, asks for votes;                                *)
(*   - Rival: server 0 has appended an entry nobody else has, and server 1 *)
(*     has become leader of the next term.                                 *)
(***************************************************************************)
EXTENDS RaftChecker

CONSTANT LaterRounds  \* bound: rounds of main's loop after a script

VARIABLE script  \* the steps still prescribed

Loops(n, choice) == [do |-> "round", by |-> n, with |-> choice]
Recv(n, i) == [do |-> "take", by |-> n, with |-> i]
Out(n) == [do |-> "sendto", by |-> n, with |-> 0]

\* Server 0 asks for votes, gets the one of v and says so; in the second part it
\* appends an entry that v receives.
Elected(v) == <<Loops(0, 1), Out(0), Out(0), Recv(v, 1), Out(v), Recv(0, 1), Out(0), Out(0), Recv(v, 1)>>
Entry(v) == <<Loops(0, 0), Out(0), Out(0), Recv(v, 1), Out(v), Recv(0, 1)>>

Lagging == Elected(1) \o Entry(1) \o <<Loops(0, 0), Out(0), Recv(1, 1), Out(1), Recv(0, 1)>>
Behind == Elected(2) \o <<Recv(1, 1), Out(1), Recv(1, 1), Recv(0, 1)>> \o Entry(2)
              \o <<Loops(1, 1), Out(1), Out(1)>>
Rival == Elected(2) \o <<Loops(0, 0), Out(0), Out(0), Recv(1, 1), Out(1), Recv(1, 1)>>
             \o <<Loops(1, 1), Out(1), Out(1), Recv(2, 2), Out(2), Recv(1, 1), Out(1), Out(1)>>

Follow(step) ==
    CASE step.do = "round" -> Round(step.by, step.with)
      [] step.do = "take" -> Take(step.by, step.with)
      [] step.do = "sendto" -> Sendto(step.by)

MInit ==
    \/ script = <<>> /\ Init
    \/ script = Lagging /\ InitWith(LaterRounds + 3, MaxDisorder)
    \/ script \in {Behind, Rival} /\ InitWith(LaterRounds + 3, MaxDisorder + 1)

MNext ==
    \/ script # <<>> /\ Follow(Head(script)) /\ script' = Tail(script)
    \/ script = <<>> /\ Next /\ UNCHANGED script

MSpec == MInit /\ [][MNext]_<<vars, script>>
=============================================================================
