----------------------------- MODULE RaftServer -----------------------------
(***************************************************************************)
(* One server of the Raft example: raft_server.c, raft_node.c and          *)
(* raft_server_properties.c, driven by main.c.  Every operator takes the   *)
(* server's record (raft_server_private_t with the peers it keeps) and     *)
(* yields an effect: the record after the call and the datagrams it sends, *)
(* in order, each with the record at the moment of its sendto.             *)
(*                                                                         *)
(* Time.  choose_gettimeofday lets a loop see either no time at all or one *)
(* millisecond more than the timeout that matters to the server's role,    *)
(* and an expired timeout starts timeout_elapsed again from zero: between  *)
(* two rounds it is zero.                                                  *)
(*                                                                         *)
(* Membership never changes: no entry is a configuration change, every     *)
(* peer stays active and voting.                                           *)
(***************************************************************************)
EXTENDS RaftLog, FiniteSets, SequencesExt, FiniteSetsExt

CONSTANTS
    N,              \* NP: the servers are 0 .. N - 1
    SnapshotEvery,  \* committed entries that make maybe_create_snapshot act: 2
    RequestTimeout, \* request_timeout
    ElectionTimeout,\* election_timeout_rand
    None            \* a NULL node pointer, or -1

Server == 0 .. N - 1

\* raft_node_new
NewPeer == [next |-> 1, match |-> 0, vote |-> FALSE]
NewPeers(id) == [p \in Server \ {id} |-> NewPeer]

\* raft_new and the raft_add_node calls of main
RaftNew(id) ==
    [id |-> id, term |-> 0, voted_for |-> None, state |-> "FOLLOWER", leader |-> None,
     log |-> LogNew, commit |-> 0, applied |-> 0, snap_idx |-> 0, snap_term |-> 0,
     nodes |-> [i \in 1 .. N |-> i - 1], peer |-> NewPeers(id), counter |-> 0, aborted |-> FALSE]

Effect(s, out) == [s |-> s, out |-> out]
Quiet(s) == Effect(s, <<>>)
Then(e, F(_)) == LET f == F(e.s) IN Effect(f.s, e.out \o f.out)

\* assert(): a server whose assertion fails is aborted.
Check(s, holds) == [s EXCEPT !.aborted = @ \/ ~holds]

\* getdest, getnode and the send callbacks: a message becomes one datagram from
\* the sender's address to the peer's, and the receiver finds the sender by the
\* address it came from.  An aborted server sends nothing.
Datagram(s, p, msg) ==
    Effect(s, IF s.aborted THEN <<>> ELSE <<[at |-> s, to |-> p, msg |-> msg]>>)

\* A loop over the peers, in the order of the array of nodes
ToPeers(s, Each(_, _)) ==
    LET upto[i \in 0 .. N] ==
            IF i = 0 THEN Quiet(s)
            ELSE IF s.nodes[i] = s.id THEN upto[i - 1]
            ELSE Then(upto[i - 1], LAMBDA t : Each(t, s.nodes[i]))
    IN upto[N]

-----------------------------------------------------------------------------
\* raft_set_current_term: a newer term forgets the vote.
SetCurrentTerm(s, t) ==
    IF s.term < t THEN [s EXCEPT !.term = t, !.voted_for = None] ELSE s

\* raft_vote, raft_vote_for_nodeid
VoteFor(s, id) == [s EXCEPT !.voted_for = id]

\* raft_set_commit_idx
SetCommitIdx(s, idx) ==
    [Check(s, s.commit <= idx /\ idx <= CurrentIdx(s.log)) EXCEPT !.commit = idx]

\* raft_set_state: a leader is its own current leader.
SetState(s, state) ==
    [s EXCEPT !.state = state, !.leader = IF state = "LEADER" THEN s.id ELSE @]

\* raft_become_follower, after raft_set_current_term
StepDown(s, t) == SetState(SetCurrentTerm(s, t), "FOLLOWER")

\* raft_get_last_log_term: zero when the last entry has been compacted away
LastLogTerm(s) ==
    LET last == CurrentIdx(s.log) IN IF HasIdx(s.log, last) THEN At(s.log, last).term ELSE 0

\* raft_node_set_next_idx: never below one
NextIdx(i) == IF i < 1 THEN 1 ELSE i

\* send_snapshot: the metadata of the sender's own snapshot
SnapshotMsg(s, p) ==
    Datagram(s, p, [type |-> "SNAPSHOT", snap_idx |-> s.snap_idx, snap_term |-> s.snap_term])
NeedsSnapshot(s, p) == 0 < s.snap_idx /\ s.peer[p].next < s.snap_idx

\* raft_send_appendentries
AppendentriesMsg(s, p) ==
    LET next == s.peer[p].next
        kept == HasIdx(s.log, next - 1)
    IN IF NeedsSnapshot(s, p) THEN SnapshotMsg(s, p)
       ELSE Datagram(s, p,
                [type |-> "AE", term |-> s.term, leader_commit |-> s.commit,
                 entries |-> FromIdx(s.log, next),
                 prev_idx |-> IF next <= 1 THEN 0 ELSE IF kept THEN next - 1 ELSE s.snap_idx,
                 prev_term |-> IF next <= 1 THEN 0
                               ELSE IF kept THEN At(s.log, next - 1).term ELSE s.snap_term])

\* raft_send_appendentries_all: the first peer that needs a snapshot ends it.
AppendentriesAll(s) ==
    LET msgs == ToPeers(s, AppendentriesMsg).out
        snap == {i \in DOMAIN msgs : msgs[i].msg.type = "SNAPSHOT"}
    IN Effect(s, IF snap = {} THEN msgs ELSE SubSeq(msgs, 1, Min(snap)))

\* raft_send_requestvote
RequestvoteMsg(s, p) ==
    Datagram(s, p, [type |-> "RV", term |-> s.term, last_idx |-> CurrentIdx(s.log),
                    last_term |-> LastLogTerm(s)])

\* raft_become_leader: one peer after the other starts anew and gets what comes
\* after the end of the leader's log, which is nothing.
BecomeLeader(s) ==
    LET Start(t, p) ==
            AppendentriesMsg([t EXCEPT !.peer[p].next = NextIdx(CurrentIdx(t.log) + 1),
                                       !.peer[p].match = 0], p)
    IN ToPeers(SetState(s, "LEADER"), Start)

\* raft_election_start, raft_become_candidate
BecomeCandidate(s) ==
    LET c == [VoteFor(SetCurrentTerm(s, s.term + 1), s.id) EXCEPT
                 !.leader = None, !.peer = [p \in DOMAIN @ |-> [@[p] EXCEPT !.vote = FALSE]]]
    IN ToPeers(SetState(c, "CANDIDATE"), RequestvoteMsg)


\* raft_apply_entry: nothing past the commit index, nothing the log has not got
ApplyEntry(s) ==
    IF s.applied = s.commit \/ ~HasIdx(s.log, s.applied + 1) THEN s ELSE [s EXCEPT !.applied = @ + 1]

\* raft_apply_all: apply committed entries while the log still has them.
ApplyAll(s) ==
    LET upto[i \in s.applied .. Max({s.applied, s.commit})] ==
            IF i = s.applied THEN s ELSE ApplyEntry(upto[i - 1])
    IN upto[Max({s.applied, s.commit})]

-----------------------------------------------------------------------------
\* raft_recv_entry: a leader appends the entry and sends it to the peers that
\* lack only this one.
RecvEntry(s, e) ==
    LET l == [s EXCEPT !.log = Append1(@, e)]
        Fresh(t, p) == IF t.peer[p].next = CurrentIdx(t.log) THEN AppendentriesMsg(t, p) ELSE Quiet(t)
    IN ToPeers(l, Fresh)

\* leader_generate_entries: every round of a leader brings a new entry.
GenerateEntries(s) ==
    IF s.state = "LEADER"
    THEN RecvEntry([s EXCEPT !.counter = @ + 1],
                   [term |-> s.term, id |-> s.counter, from |-> s.id])
    ELSE Quiet(s)

\* choose_gettimeofday: the milliseconds that a choice makes pass
choose_gettimeofday(s, choice) ==
    IF choice = 0 THEN 0 ELSE (IF s.state = "LEADER" THEN RequestTimeout ELSE ElectionTimeout) + 1

\* raft_periodic
Periodic(s, elapsed) ==
    Then(IF s.state = "LEADER"
         THEN IF RequestTimeout <= elapsed THEN AppendentriesAll(s) ELSE Quiet(s)
         ELSE IF ElectionTimeout <= elapsed THEN BecomeCandidate(s) ELSE Quiet(s),
         LAMBDA t : Quiet(ApplyAll(t)))

\* raft_begin_snapshot: whether it starts, and the metadata it sets once every
\* committed entry has been applied
CanSnapshot(s) == 1 < s.log.count /\ s.commit # s.log.base /\ HasIdx(s.log, s.commit)
BeginSnapshot(s) ==
    LET a == ApplyAll(s)
    IN [Check(a, a.applied = a.commit) EXCEPT !.snap_idx = s.commit,
                                              !.snap_term = At(s.log, s.commit).term]

\* raft_end_snapshot: compact the log up to the commit index; a leader sends
\* the snapshot to who lags behind it.
EndSnapshot(s) ==
    LET t == [s EXCEPT !.log = LogPoll(@, s.commit - s.log.base)]
        Late(u, p) == IF NeedsSnapshot(u, p) THEN SnapshotMsg(u, p) ELSE Quiet(u)
    IN IF s.state = "LEADER" THEN ToPeers(t, Late) ELSE Quiet(t)

\* maybe_create_snapshot
MaybeSnapshot(s) ==
    IF s.commit - s.snap_idx >= SnapshotEvery /\ CanSnapshot(s)
    THEN EndSnapshot(BeginSnapshot(s)) ELSE Quiet(s)

\* One round of main's loop, up to poll_msg
Loop(s, choice) ==
    Then(Then(GenerateEntries(s), LAMBDA t : Periodic(t, choose_gettimeofday(s, choice))),
         MaybeSnapshot)

-----------------------------------------------------------------------------

\* __should_grant_vote
ShouldGrantVote(s, m) ==
    LET last == CurrentIdx(s.log)
        known == HasIdx(s.log, last) \/ s.snap_idx = last
        term == IF HasIdx(s.log, last) THEN At(s.log, last).term ELSE s.snap_term
    IN /\ s.term <= m.term
       /\ s.voted_for = None
       /\ \/ last = 0
          \/ known /\ (term < m.last_term \/ (term = m.last_term /\ last <= m.last_idx))

\* raft_recv_requestvote: while a leader is known other candidates are refused
\* and their term is not looked at.
RecvRequestvote(s, node, m) ==
    LET t == IF s.term < m.term THEN [StepDown(s, m.term) EXCEPT !.leader = None] ELSE s
        Reply(u, granted) ==
            Datagram(u, node, [type |-> "RVR", term |-> u.term, granted |-> granted])
    IN IF s.leader \notin {None, node} THEN Reply(s, FALSE)
       ELSE IF ShouldGrantVote(t, m)
       THEN Reply([VoteFor(Check(t, t.state = "FOLLOWER"), node) EXCEPT !.leader = None], TRUE)
       ELSE Reply(t, FALSE)

\* raft_get_nvotes_for_me, raft_votes_is_majority
Votes(s) ==
    Cardinality({p \in DOMAIN s.peer : s.peer[p].vote}) + (IF s.voted_for = s.id THEN 1 ELSE 0)
IsMajority(votes) == N \div 2 + 1 <= votes

\* raft_recv_requestvote_response
RecvRequestvoteResponse(s, node, m) ==
    LET v == [s EXCEPT !.peer[node].vote = TRUE]
    IN IF s.state # "CANDIDATE" THEN Quiet(s)
       ELSE IF s.term < m.term THEN Quiet([StepDown(s, m.term) EXCEPT !.leader = None])
       ELSE IF s.term # m.term \/ ~m.granted THEN Quiet(s)
       ELSE IF IsMajority(Votes(v)) THEN BecomeLeader(v) ELSE Quiet(v)

-----------------------------------------------------------------------------
\* raft_recv_appendentries, from its check of the previous entry on: the new
\* record, whether it succeeds, and the index it reports.
Answer(s, ok, idx) == [s |-> s, ok |-> ok, idx |-> idx]
Refuse(s) == Answer(s, FALSE, CurrentIdx(s.log))

\* raft_delete_entry_from_idx
DeleteFrom(s, idx) == [Check(s, s.commit < idx) EXCEPT !.log = LogDelete(@, idx)]

\* The entries of the message the log already has, the rest appended, and the
\* commit index.  An index the log has compacted away counts as missing.
AppendEntries(s, m) ==
    LET n == Len(m.entries)
        Same(i) == HasIdx(s.log, m.prev_idx + i) /\ At(s.log, m.prev_idx + i).term = m.entries[i].term
        agree == Max({i \in 0 .. n : \A j \in 1 .. i : Same(j)})
        idx == m.prev_idx + agree + 1
        clash == agree < n /\ HasIdx(s.log, idx)
        trimmed == IF clash THEN DeleteFrom(s, idx) ELSE s
        added[i \in agree .. n] ==
            IF i = agree THEN trimmed.log ELSE Append1(added[i - 1], m.entries[i])
        grown == [trimmed EXCEPT !.log = added[n]]
        last == Max({CurrentIdx(grown.log), 1})
    IN IF clash /\ idx <= s.commit THEN Answer(s, TRUE, idx - 1)
       ELSE Answer(IF grown.commit < m.leader_commit
                   THEN SetCommitIdx(grown, Min({last, m.leader_commit})) ELSE grown,
                   TRUE, m.prev_idx + n)

\* The consistency check on the entry before the new ones
CheckPrevious(s, m) ==
    IF m.prev_idx = 0 THEN AppendEntries(s, m)
    ELSE IF m.prev_idx = s.snap_idx
    THEN IF s.snap_term # m.prev_term THEN Refuse(s) ELSE AppendEntries(s, m)
    ELSE IF ~HasIdx(s.log, m.prev_idx) THEN Refuse(s)
    ELSE IF At(s.log, m.prev_idx).term = m.prev_term THEN AppendEntries(s, m)
    ELSE IF m.prev_idx <= s.commit THEN Refuse(s)
    ELSE Refuse(DeleteFrom(s, m.prev_idx))

\* raft_recv_appendentries, and the answer main.c sends.  poll_msg asks every
\* datagram of this type to be as long as the struct with its entries pointer,
\* which one without entries is not: it is dropped unread.
RecvAppendentries(s, node, m) ==
    LET t == IF s.term < m.term \/ (s.state = "CANDIDATE" /\ s.term = m.term)
             THEN StepDown(s, m.term) ELSE s
        a == IF m.term < s.term THEN Refuse(s) ELSE CheckPrevious([t EXCEPT !.leader = node], m)
    IN IF m.entries = <<>> THEN Quiet(s)
       ELSE Datagram(a.s, node, [type |-> "AER", term |-> a.s.term, success |-> a.ok, idx |-> a.idx])

\* raft_recv_appendentries_response, the failure: step back and retry
Backtrack(s, node, m) ==
    LET q == s.peer[node]
        next == IF m.idx < q.next - 1 THEN Min({m.idx + 1, CurrentIdx(s.log)}) ELSE q.next - 1
        b == [s EXCEPT !.peer[node].next = NextIdx(next)]
    IN IF m.idx < q.match THEN Quiet(s) ELSE AppendentriesMsg(b, node)

\* the success: record the match, commit what a majority has in this term,
\* and send what is left
Advance(s, node, m) ==
    LET a == [Check(s, m.idx <= CurrentIdx(s.log)) EXCEPT
                 !.peer[node].next = NextIdx(m.idx + 1), !.peer[node].match = m.idx]
        have == 1 + Cardinality({p \in DOMAIN a.peer : m.idx <= a.peer[p].match})
        commits == /\ a.commit < m.idx
                   /\ HasIdx(a.log, m.idx) /\ At(a.log, m.idx).term = a.term
                   /\ N \div 2 < have
        c == IF commits THEN SetCommitIdx(a, m.idx) ELSE a
    IN IF m.idx <= s.peer[node].match THEN Quiet(s)
       ELSE IF HasIdx(c.log, m.idx + 1) THEN AppendentriesMsg(c, node) ELSE Quiet(c)

RecvAppendentriesResponse(s, node, m) ==
    IF s.state # "LEADER" THEN Quiet(s)
    ELSE IF s.term < m.term THEN Quiet([StepDown(s, m.term) EXCEPT !.leader = None])
    ELSE IF s.term # m.term THEN Quiet(s)
    ELSE IF m.success THEN Advance(s, node, m) ELSE Backtrack(s, node, m)

-----------------------------------------------------------------------------
\* raft_begin_load_snapshot, the raft_add_node calls of poll_msg and
\* raft_end_load_snapshot: the server takes the snapshot's term for its own,
\* whatever its term was, and forgets its vote.
Loads(s, m) ==
    /\ m.snap_idx # 0 /\ m.snap_term # 0
    /\ s.applied <= m.snap_idx
    /\ CurrentIdx(s.log) <= m.snap_idx
    /\ ~(m.snap_term = s.snap_term /\ m.snap_idx = s.snap_idx)

LoadSnapshot(s, m) ==
    LET t == [SetState(s, "FOLLOWER") EXCEPT !.term = m.snap_term, !.voted_for = None,
                       !.leader = None, !.log = LogLoad(@, m.snap_idx)]
        c == IF t.commit < m.snap_idx THEN SetCommitIdx(t, m.snap_idx) ELSE t
    IN [c EXCEPT !.applied = m.snap_idx, !.snap_idx = m.snap_idx, !.snap_term = m.snap_term,
                 !.nodes = <<s.id>> \o SelectSeq([i \in 1 .. N |-> i - 1], LAMBDA p : p # s.id),
                 !.peer = NewPeers(s.id)]

RecvSnapshot(s, m) == Quiet(IF Loads(s, m) THEN LoadSnapshot(s, m) ELSE s)

\* The switch of poll_msg
Receive(s, node, m) ==
    CASE m.type = "AE"       -> RecvAppendentries(s, node, m)
      [] m.type = "AER"      -> RecvAppendentriesResponse(s, node, m)
      [] m.type = "RV"       -> RecvRequestvote(s, node, m)
      [] m.type = "RVR"      -> RecvRequestvoteResponse(s, node, m)
      [] m.type = "SNAPSHOT" -> RecvSnapshot(s, m)
=============================================================================
