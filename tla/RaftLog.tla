------------------------------ MODULE RaftLog ------------------------------
(***************************************************************************)
(* The replicated log of the Raft example (raft_log.c): a ring buffer that *)
(* doubles when it is full, gives up its oldest entries to a snapshot and  *)
(* its newest ones to a conflict.  Entry i lives in slot                   *)
(* (front + i - 1 - base) % size; base counts the entries compacted away.  *)
(* A slot no entry occupies is Empty: its old bytes are never read.        *)
(***************************************************************************)
EXTENDS Integers, Sequences

CONSTANTS
    InitialCapacity,  \* INITIAL_CAPACITY, 10 in the code
    Empty             \* an unoccupied slot

\* log_new, log_alloc, log_clear
LogNew == [size |-> InitialCapacity, count |-> 0, front |-> 0, back |-> 0, base |-> 0,
           entries |-> [i \in 0 .. InitialCapacity - 1 |-> Empty]]

\* log_get_current_idx
CurrentIdx(l) == l.base + l.count

\* The bounds test of log_get_at_idx and log_get_from_idx, and the slot.
HasIdx(l, idx) == l.base < idx /\ idx <= CurrentIdx(l)
Slot(l, idx) == (l.front + idx - 1 - l.base) % l.size

\* log_get_at_idx, on an index HasIdx accepts
At(l, idx) == l.entries[Slot(l, idx)]

\* log_get_from_idx: a pointer into the ring and the number of entries up to
\* the ring's write position, or up to the end of the array.
FromIdx(l, idx) ==
    IF ~HasIdx(l, idx) THEN <<>>
    ELSE LET i == Slot(l, idx)
             n == IF i < l.back THEN l.back - i ELSE l.size - i
         IN [j \in 1 .. n |-> l.entries[i + j - 1]]

\* __ensurecapacity: double a full ring and unroll it.
Ensured(l) ==
    IF l.count < l.size THEN l
    ELSE [l EXCEPT !.size = 2 * l.size, !.front = 0, !.back = l.count,
                   !.entries = [i \in 0 .. 2 * l.size - 1 |->
                                  IF i < l.count THEN l.entries[(l.front + i) % l.size] ELSE Empty]]

\* log_append_entry
Append1(l, e) ==
    LET m == Ensured(l)
    IN [m EXCEPT !.entries[m.back] = e, !.count = @ + 1, !.back = (@ + 1) % m.size]

\* log_delete: pop from the tail down to idx, never past the base.
LogDelete(l, idx) ==
    LET keep == IF idx <= l.base THEN 0 ELSE idx - 1 - l.base
        gone == {(l.front + i) % l.size : i \in keep .. l.count - 1}
    IN IF keep >= l.count THEN l
       ELSE [l EXCEPT !.count = keep, !.back = (l.front + keep) % l.size,
                      !.entries = [i \in DOMAIN @ |-> IF i \in gone THEN Empty ELSE @[i]]]

\* log_poll, n times: the oldest n entries leave, the base moves past them.
LogPoll(l, n) ==
    LET gone == {(l.front + i) % l.size : i \in 0 .. n - 1}
    IN [l EXCEPT !.count = @ - n, !.base = @ + n, !.front = (@ + n) % l.size,
                 !.entries = [i \in DOMAIN @ |-> IF i \in gone THEN Empty ELSE @[i]]]

\* log_load_from_snapshot
LogLoad(l, idx) ==
    [l EXCEPT !.count = 0, !.front = 0, !.back = 0, !.base = idx,
              !.entries = [i \in DOMAIN @ |-> Empty]]
=============================================================================
