---------------------------- MODULE RaftChecker ----------------------------
(***************************************************************************)
(* The checker DetSim loads with the Raft example (plugins/check.cpp).  It *)
(* runs after every transition, compares the servers with the shadow state *)
(* it kept, reports what looks wrong, and takes a new shadow: the shadow   *)
(* it compares with is the previous state's (DetSim saves and restores it  *)
(* with every checkpoint).  It finds a peer by its place in the array of   *)
(* nodes and skips the place that equals the server's id, which is another *)
(* peer's once a snapshot has rebuilt the array.                           *)
(*                                                                         *)
(* It reads log entries by index with the bounds test commented out.  What *)
(* it finds at an index the log does not hold is whatever lies there: any  *)
(* term at all.                                                            *)
(***************************************************************************)
EXTENDS Raft

\* is_node_initialized: a process that was not started has no variable to read.
is_node_initialized(n) == n \in Live

\* The entry of the array of nodes at a place, and the places it looks at
PeerAt(s, j) == IF s.nodes[j] = s.id THEN NewPeer ELSE s.peer[s.nodes[j]]
Places(s) == {j \in 1 .. N : j - 1 # s.id}

\* get_node_term, is_node_leader, get_snapshot_term, get_voted_for,
\* get_commit_idx, get_last_applied_idx: the expressions it evaluates
Evaluated(s) ==
    [term |-> s.term, leader |-> s.state = "LEADER", snap_term |-> s.snap_term,
     voted_for |-> s.voted_for, commit |-> s.commit, applied |-> s.applied]

check_term_monotonicity(shadow, s) ==
    s.term < shadow.term \/ (s.snap_term > 0 /\ s.term < s.snap_term)

check_commit_idx_monotonicity(shadow, s) == s.commit < shadow.commit

check_vote_integrity(shadow, s) ==
    /\ s.term = shadow.term
    /\ shadow.voted_for # None
    /\ s.voted_for # shadow.voted_for

check_match_idx_monotonicity(shadow, s) ==
    s.state = "LEADER" /\ \E j \in Places(s) : PeerAt(s, j).match < PeerAt(shadow, j).match

check_leader_uniqueness(all) ==
    \E a, b \in Server : /\ a # b
                         /\ all[a].state = "LEADER" /\ all[b].state = "LEADER"
                         /\ all[a].term = all[b].term

check_snapshot_term_consistency(s) == s.snap_idx > 0 /\ s.snap_term > s.term

check_next_match_idx_relationship(s) ==
    \E j \in Places(s) : PeerAt(s, j).next <= PeerAt(s, j).match

check_applied_vs_committed(s) == s.applied > s.commit

\* get_log_entry_term of two servers: may it come back with the same term
MaySeeSameTerm(s, t, idx) ==
    HasIdx(s.log, idx) /\ HasIdx(t.log, idx) => At(s.log, idx).term = At(t.log, idx).term

\* get_actual_leader: of those that claim to lead, the first of the highest term
IsActualLeader(all, l) ==
    /\ all[l].state = "LEADER"
    /\ \A n \in Server \ {l} : all[n].state = "LEADER" =>
          all[n].term < all[l].term \/ (all[n].term = all[l].term /\ l < n)

\* The first entries it samples
Sampled(commit) == 1 .. Min({commit, 20})

\* check_committed_entries_replicated_to_majority: whatever it reads, does it
\* report an entry the leader has committed that too few others have
check_committed_entries_replicated_to_majority(all) ==
    LET quorum(l, idx) ==
            {n \in Server \ {l} : is_node_initialized(n) /\ MaySeeSameTerm(all[n], all[l], idx)}
    IN \E l \in Server :
          /\ 0 < all[l].commit
          /\ IsActualLeader(all, l)
          /\ \E idx \in Sampled(all[l].commit) : Cardinality(quorum(l, idx)) + 1 < (N + 1) \div 2

\* check_leader_completeness compares the leader with the committed entries it
\* has collected, but enters an index into the collection only if it is there
\* already: the collection stays empty, and nothing is ever reported.
check_leader_completeness(all) ==
    LET collected == << >>
    IN \E idx \in DOMAIN collected, l \in Server :
          IsActualLeader(all, l) /\ HasIdx(all[l].log, idx) /\ At(all[l].log, idx).term # collected[idx]

\* check(): the checks that report, given the servers before and after a
\* transition, each with the server it reports on
check(before, servers) ==
    LET alone == {n \in Server : is_node_initialized(n)}
        Report(what, Fires(_, _, _)) ==
            {<<what, n>> : n \in {m \in alone : Fires(m, Evaluated(before[m]), Evaluated(servers[m]))}}
        Cluster(what, fires) == IF fires THEN {<<what, None>>} ELSE {}
    IN UNION {Report("term", LAMBDA n, o, s : check_term_monotonicity(o, s)),
              Report("commit", LAMBDA n, o, s : check_commit_idx_monotonicity(o, s)),
              Report("snapshot", LAMBDA n, o, s : check_snapshot_term_consistency(servers[n])),
              Report("applied", LAMBDA n, o, s : check_applied_vs_committed(s)),
              Report("vote", LAMBDA n, o, s : check_vote_integrity(o, s)),
              Report("match", LAMBDA n, o, s : check_match_idx_monotonicity(before[n], servers[n])),
              Report("next", LAMBDA n, o, s : check_next_match_idx_relationship(servers[n])),
              Cluster("leaders", check_leader_uniqueness(servers)),
              Cluster("complete", check_leader_completeness(servers)),
              Cluster("majority", check_committed_entries_replicated_to_majority(servers))}

-----------------------------------------------------------------------------
\* The snapshots n loads in a step
LoadedNow(n) == {l \in loaded' \ loaded : l.server = n}

\* What lies behind a report
Explained(what, n) ==
    CASE what = "term" -> \E l \in LoadedNow(n) : l.after < l.before
      [] what = "vote" -> \E l \in LoadedNow(n) : l.after = l.before
      [] what = "match" -> \A j \in Places(server'[n]) :
              \/ PeerAt(server[n], j).match <= PeerAt(server'[n], j).match
              \/ PeerAt(server'[n], j).match = 0
      [] what = "next" -> \A j \in Places(server'[n]) :
              PeerAt(server'[n], j).next <= PeerAt(server'[n], j).match =>
                  \/ PeerAt(server[n], j).next <= PeerAt(server[n], j).match
                  \/ PeerAt(server'[n], j).next < PeerAt(server[n], j).next
      [] what = "leaders" -> Repeated' # {}
      [] what = "majority" -> Repeated' # {} \/ readded' # {}
      [] OTHER -> FALSE

=============================================================================
