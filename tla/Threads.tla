------------------------------ MODULE Threads ------------------------------
(***************************************************************************)
(* The threads of one traced process as the tracer emulates them: their    *)
(* births and deaths (core/engine/thread_pool.cpp), the futex wait queues  *)
(* (subsys/sync/futexstate.cpp), the calls a thread has begun and not yet  *)
(* finished (core/engine/pending_syscall.cpp) and the virtual clock that   *)
(* ends a timed wait (state_transition.cpp, TransitionAction::Timeout).    *)
(*                                                                         *)
(* One action is one transition of the explorer: it runs one thread to its *)
(* next system call, with the whole handler, or finishes a call that was   *)
(* pending, and then refreshes every pending call.  All other threads stay *)
(* stopped, so an action is atomic; the order of actions is free.          *)
(***************************************************************************)
EXTENDS Integers, Sequences, FiniteSets, SequencesExt, FiniteSetsExt

CONSTANTS
    MaxThreads,   \* MAX_THREADS_PER_PROCESS: slots are never reused
    Locks,        \* futex words that user code waits on
    Mutexes,      \* those of them that user code also writes
    TidWords,     \* futex words registered for clear_child_tid
    NoAddr,       \* the null address
    Bits,         \* the bits of a futex bitset; Bits itself is ~0u
    Keys,         \* the (bitset, private) pairs programs use on lock words
    NsPerUs,      \* nanoseconds in one tick of the virtual clock
    KtimeMax,     \* the largest deadline, in nanoseconds
    Sleeps,       \* the sleeps and timeouts (nanoseconds) programs ask for
    Timed,        \* the threads that ask for them, and read the clock
    Flavours,     \* the (CLONE_PARENT_SETTID, CLONE_CHILD_SETTID) pairs used
    MaxClock      \* bound on the clock moves of gettimeofday choices

ASSUME ThreadsAssumption ==
    /\ MaxThreads \in Nat \ {0}
    /\ NsPerUs \in Nat \ {0}
    /\ KtimeMax \in Nat
    /\ Sleeps \subseteq Nat
    /\ Timed \subseteq 1..MaxThreads
    /\ Flavours \subseteq BOOLEAN \X BOOLEAN
    /\ MaxClock \in Nat
    /\ Keys \subseteq (SUBSET Bits \ {{}}) \X BOOLEAN
    /\ Mutexes \subseteq Locks
    /\ NoAddr \notin Locks \cup TidWords

VARIABLES
    born,      \* threads.size(): slots 1..born exist
    alive,     \* thread_state::alive
    pending,   \* thread_state::pending_syscall
    cleartid,  \* thread_state::clear_child_tid
    settid,    \* thread_state::pending_child_settid
    queue,     \* FutexState::waiters_
    where,     \* FutexState::waiter_map_
    word,      \* the guest's futex words
    clock,     \* ptmc_state.time, in microseconds
    fault      \* an internal consistency error was thrown

vars == <<born, alive, pending, cleartid, settid, queue, where, word, clock, fault>>

Slots == 1..MaxThreads
Addrs == Locks \cup TidWords
Never == -1    \* no deadline
NoCall == [phase |-> "None", reason |-> "None", deadline |-> Never, result |-> "None"]

\* A futex word: FUTEX_TID_MASK, FUTEX_WAITERS and FUTEX_OWNER_DIED.
Word(t, w, d) == [tid |-> t, waiters |-> w, died |-> d]
Zero == Word(0, FALSE, FALSE)

\* The part of the state that wake-ups and exits pass from hand to hand.
Kernel == [queue |-> queue, where |-> where, pending |-> pending, word |-> word]

Publish(k) ==
    /\ queue' = k.queue
    /\ where' = k.where
    /\ pending' = k.pending
    /\ word' = k.word

-----------------------------------------------------------------------------
(* FutexState *)

\* FutexState::futex_wake: the oldest n waiters that match, in queue order.
FutexWake(k, a, n, bits, private) ==
    LET q == k.queue[a]
        match == {i \in 1..Len(q) : q[i].private = private /\ q[i].bits \cap bits # {}}
        woken == {q[i].tid : i \in {j \in match : Cardinality({m \in match : m < j}) < n}}
    IN  [k EXCEPT !.queue[a] = SelectSeq(q, LAMBDA w : w.tid \notin woken),
                  !.where = [t \in Slots |-> IF t \in woken THEN NoAddr ELSE @[t]]]

\* As a mutation: the map keeps the old address of a thread that was moved.
FutexRequeueMutant(k, a, b, nwake, nmove, private) ==
    LET woke == FutexWake(k, a, nwake, Bits, private)
        moved == SelectSeq(woke.queue[a], LAMBDA w : w.private = private)
    IN  IF a = b \/ nmove = 0 THEN woke
        ELSE [woke EXCEPT !.queue[a] = SelectSeq(@, LAMBDA w : w.private # private),
                          !.queue[b] = @ \o moved]

\* FutexState::futex_requeue: wake some, then move some of the rest, in order.
FutexRequeue(k, a, b, nwake, nmove, private) ==
    LET woke == FutexWake(k, a, nwake, Bits, private)
        q == woke.queue[a]
        match == {i \in 1..Len(q) : q[i].private = private}
        moved == {q[i].tid : i \in {j \in match : Cardinality({m \in match : m < j}) < nmove}}
    IN  IF a = b THEN woke
        ELSE [woke EXCEPT
                !.queue[a] = SelectSeq(q, LAMBDA w : w.tid \notin moved),
                !.queue[b] = @ \o SelectSeq(q, LAMBDA w : w.tid \in moved),
                !.where = [t \in Slots |-> IF t \in moved THEN b ELSE @[t]]]

\* FutexState::add_waiter.
AddWaiter(k, a, waiter) ==
    [k EXCEPT !.queue[a] = Append(@, waiter), !.where[waiter.tid] = a]

\* FutexState::remove_waiter: found through the map, erased from that queue.
RemoveWaiter(k, t) ==
    IF k.where[t] = NoAddr THEN k
    ELSE [k EXCEPT !.queue[k.where[t]] = SelectSeq(@, LAMBDA w : w.tid # t),
                   !.where[t] = NoAddr]

-----------------------------------------------------------------------------
(* Pending calls and their deadlines *)

\* make_pending_deadline: absolute nanoseconds, saturating at KTIME_MAX.
MakeDeadline(ns, relative) ==
    Min({KtimeMax, ns + (IF relative THEN clock * NsPerUs ELSE 0)})

\* As a mutation: rounded down.
TimeoutClockMutant(deadline) == Max({clock, deadline \div NsPerUs})

\* pending_timeout_clock: the earliest tick at or after the deadline, and
\* never a tick before the present one.
TimeoutClock(deadline) ==
    Max({clock, (deadline + NsPerUs - 1) \div NsPerUs})

\* pending_timeout_due, at the given clock.
TimeoutDue(call, now) ==
    /\ call.phase \in {"Waiting", "Retry"}
    /\ call.deadline # Never
    /\ now * NsPerUs >= call.deadline

\* suspend_syscall followed by set_pending_deadline.
Suspend(k, t, why, deadline) ==
    [k EXCEPT !.pending[t] =
        [phase |-> "Waiting", reason |-> why, deadline |-> deadline, result |-> "None"]]

\* ready_syscall: grant the result and drop the wait registration, if any.
ReadySyscall(k, t, result) ==
    LET freed == IF k.pending[t].reason = "Futex" THEN RemoveWaiter(k, t) ELSE k
    IN  [freed EXCEPT !.pending[t].phase = "Ready", !.pending[t].result = result]

\* As a mutation: woken calls are not looked for.
RefreshMutant(k, live) == k

\* refresh_futex_pending: a futex call that lost its registration is ready.
Refresh(k, live) ==
    [k EXCEPT !.pending = [t \in Slots |->
        IF live[t] /\ @[t].reason = "Futex" /\ @[t].phase = "Waiting" /\ k.where[t] = NoAddr
        THEN [@[t] EXCEPT !.phase = "Ready", !.result = "ok"]
        ELSE @[t]]]

\* validate_pending_syscalls throws unless every queue registration belongs
\* to a live thread's waiting futex call, and every such call has one.
ValidPending(k, live) ==
    /\ \A t \in 1..born :
         /\ (k.where[t] # NoAddr) <=>
              (k.pending[t].reason = "Futex" /\ k.pending[t].phase = "Waiting")
         /\ ~live[t] => k.pending[t] = NoCall
         /\ k.pending[t].phase # "Ready" => k.pending[t].result = "None"
         /\ k.pending[t].reason = "Timer" => k.pending[t].phase # "Retry"
    /\ \A a \in Addrs : \A i \in 1..Len(k.queue[a]) : live[k.queue[a][i].tid]

-----------------------------------------------------------------------------
(* The explorer's choice of an action (enabled_actor_actions) *)

NormalEnabled(t) == t \in 1..born /\ alive[t] /\ pending[t].phase # "Waiting"
TimeoutEnabled(t) ==
    t \in 1..born /\ alive[t] /\ pending[t].phase = "Waiting" /\ pending[t].deadline # Never

\* do_single_syscall resumes user code only when no call is unfinished, and
\* first performs a new thread's CHILD_SETTID store (complete_thread_start).
Resumes(t) == NormalEnabled(t) /\ pending[t] = NoCall
Started(t) ==
    IF settid[t] = NoAddr THEN Kernel
    ELSE [Kernel EXCEPT !.word[settid[t]] = Word(t, FALSE, FALSE)]

\* What every step of a live thread leaves behind: the settid store is done,
\* and the kernel state k is refreshed.
Step(t, k) ==
    /\ Publish(Refresh(k, alive))
    /\ settid' = [settid EXCEPT ![t] = NoAddr]
    /\ UNCHANGED <<born, alive, cleartid>>

Quiet == UNCHANGED <<clock, fault>>

-----------------------------------------------------------------------------
(* The steps of a thread *)

Init ==
    /\ born = 1
    /\ alive = [t \in Slots |-> t = 1]
    /\ pending = [t \in Slots |-> NoCall]
    /\ cleartid = [t \in Slots |-> NoAddr]
    /\ settid = [t \in Slots |-> NoAddr]
    /\ queue = [a \in Addrs |-> <<>>]
    /\ where = [t \in Slots |-> NoAddr]
    /\ word = [a \in Addrs |-> Zero]
    /\ clock = 0
    /\ fault = FALSE

\* User code stores to a lock word, then makes a call with no modelled effect.
UserStore(t, a) ==
    /\ Resumes(t)
    /\ \E v \in {Zero, Word(t, FALSE, FALSE), Word(t, TRUE, FALSE)} :
         /\ Started(t).word[a].tid \in {0, t}
         /\ Step(t, [Started(t) EXCEPT !.word[a] = v])
    /\ Quiet

\* FUTEX_WAIT / FUTEX_WAIT_BITSET: compare, register, suspend.
SysFutexWait(t, a, value, bits, private, deadline) ==
    LET k == Started(t)
        waiter == [tid |-> t, bits |-> bits, private |-> private]
    IN  /\ Resumes(t)
        /\ \/ /\ k.word[a] # value            \* -EAGAIN
              /\ Step(t, k)
              /\ UNCHANGED fault
           \/ /\ k.word[a] = value
              /\ fault' = (fault \/ k.where[t] # NoAddr)
              /\ Step(t, Suspend(AddWaiter(k, a, waiter), t, "Futex", deadline))
        /\ UNCHANGED clock

\* FUTEX_WAKE / FUTEX_WAKE_BITSET: at least one waiter, whatever val says.
SysFutexWake(t, a, val, bits, private) ==
    /\ Resumes(t)
    /\ Step(t, FutexWake(Started(t), a, Max({1, val}), bits, private))
    /\ Quiet

\* FUTEX_REQUEUE / FUTEX_CMP_REQUEUE (whose comparison failing is -EAGAIN).
SysFutexRequeue(t, a, b, nwake, nmove, private) ==
    /\ Resumes(t)
    /\ Step(t, FutexRequeue(Started(t), a, b, nwake, nmove, private))
    /\ Quiet

\* nanosleep and clock_nanosleep (sleep_call): nothing to wait for if the
\* deadline has passed.
SysSleep(t, deadline) ==
    /\ Resumes(t)
    /\ IF clock * NsPerUs >= deadline
       THEN Step(t, Started(t))
       ELSE Step(t, Suspend(Started(t), t, "Timer", deadline))
    /\ Quiet

\* pselect6 with no descriptors and a timeout that is not zero, or none at
\* all (start_pselect_timer): it always suspends.
SysPselect(t, deadline) ==
    /\ Resumes(t)
    /\ Step(t, Suspend(Started(t), t, "Timer", deadline))
    /\ Quiet

\* gettimeofday at a choice point without a plug-in (emu_gettimeofday): the
\* chosen outcome advances the clock.  A plug-in may set any time.
SysGetTime(t, ticks) ==
    /\ Resumes(t)
    /\ clock + ticks <= MaxClock
    /\ clock' = clock + ticks
    /\ Step(t, Started(t))
    /\ UNCHANGED fault

\* create_logical_thread: the slot is new, the tid word is the child's own.
SysClone(t, w, parentSet, childSet) ==
    LET child == born + 1
        k == Started(t)
    IN  /\ Resumes(t)
        /\ born < MaxThreads
        /\ \A u \in Slots : cleartid[u] # w
        /\ born' = child
        /\ alive' = [alive EXCEPT ![child] = TRUE]
        /\ cleartid' = [cleartid EXCEPT ![child] = w]
        /\ settid' = [settid EXCEPT ![t] = NoAddr, ![child] = IF childSet THEN w ELSE NoAddr]
        /\ Publish(Refresh(IF parentSet
                           THEN [k EXCEPT !.word[w] = Word(child, FALSE, FALSE)]
                           ELSE k, alive))
        /\ Quiet

\* RobustExitPlan::death with its effect applied: a word the thread owns is
\* marked, and one waiter woken if the word says there are any.  A pending
\* operation on a free word only wakes.
Death(k, t, a, operation) ==
    LET v == k.word[a]
    IN  CASE operation /\ v.tid = 0 -> FutexWake(k, a, 1, Bits, FALSE)
          [] v.tid = t -> LET marked == [k EXCEPT !.word[a] = Word(0, v.waiters, TRUE)]
                          IN  IF v.waiters THEN FutexWake(marked, a, 1, Bits, FALSE) ELSE marked
          [] OTHER -> k

\* As a mutation: the operation under way is forgotten.
RobustCleanupMutant(k, t, list, operation) ==
    FoldLeft(LAMBDA acc, a : IF a = operation THEN acc ELSE Death(acc, t, a, FALSE), k, list)

\* RobustExitPlan::collect and apply_robust_cleanup: the list, then the
\* operation that was under way, which the walk of the list skips.
RobustCleanup(k, t, list, operation) ==
    LET walked == FoldLeft(LAMBDA acc, a : IF a = operation THEN acc ELSE Death(acc, t, a, FALSE),
                           k, list)
    IN  IF operation = NoAddr THEN walked ELSE Death(walked, t, operation, TRUE)

\* clear_logical_tid: the tid word is cleared for the threads that remain, a
\* joiner is woken, and what the thread itself waited for is forgotten.
ClearTid(k, t, live) ==
    LET shared == \E u \in Slots : u # t /\ live[u]
        told == IF cleartid[t] # NoAddr /\ shared
                THEN FutexWake([k EXCEPT !.word[cleartid[t]] = Zero], cleartid[t], 1, Bits, FALSE)
                ELSE k
    IN  Refresh(RemoveWaiter([told EXCEPT !.pending[t] = NoCall], t), live)

\* exit_logical_thread.
SysExit(t, list, operation) ==
    /\ Resumes(t)
    /\ LET k == ClearTid(RobustCleanup(Started(t), t, list, operation), t, alive)
       IN  Publish(Refresh(k, [alive EXCEPT ![t] = FALSE]))
    /\ alive' = [alive EXCEPT ![t] = FALSE]
    /\ cleartid' = [cleartid EXCEPT ![t] = NoAddr]
    /\ settid' = [settid EXCEPT ![t] = NoAddr]
    /\ UNCHANGED <<born, clock, fault>>

\* exit_logical_process: every live thread in slot order, a newborn's settid
\* store first.
SysExitGroup(t, lists) ==
    LET One(acc, u) ==
          IF ~acc.live[u] THEN acc
          ELSE LET begun == IF u = t \/ settid[u] = NoAddr THEN acc.k
                            ELSE [acc.k EXCEPT !.word[settid[u]] = Word(u, FALSE, FALSE)]
               IN  [k |-> ClearTid(RobustCleanup(begun, u, lists[u], NoAddr), u, acc.live),
                    live |-> [acc.live EXCEPT ![u] = FALSE]]
    IN  /\ Resumes(t)
        /\ Publish(FoldLeft(One, [k |-> Started(t), live |-> alive],
                            [u \in 1..born |-> u]).k)
        /\ alive' = [u \in Slots |-> FALSE]
        /\ cleartid' = [u \in Slots |-> NoAddr]
        /\ settid' = [u \in Slots |-> NoAddr]
        /\ UNCHANGED <<born, clock, fault>>

\* complete_pending_syscall: publish a result that was granted earlier.
Complete(t) ==
    /\ NormalEnabled(t)
    /\ pending[t].phase = "Ready"
    /\ Publish(Refresh([Kernel EXCEPT !.pending[t] = NoCall], alive))
    /\ UNCHANGED <<born, alive, cleartid, settid, clock, fault>>

\* TransitionAction::Timeout: move the clock, expire, complete.
Timeout(t) ==
    /\ TimeoutEnabled(t)
    /\ clock' = TimeoutClock(pending[t].deadline)
    /\ fault' = (fault \/ ~TimeoutDue(pending[t], clock'))
    /\ Publish(Refresh([ReadySyscall(Kernel, t, "timeout") EXCEPT !.pending[t] = NoCall], alive))
    /\ UNCHANGED <<born, alive, cleartid, settid>>

-----------------------------------------------------------------------------
(* The program: what its threads may ask for.  It keeps its mutexes on its *)
(* robust lists, and only the main thread joins, on words that the kernel  *)
(* clears; everything else is arbitrary.                                   *)

Asked(t) == IF t \in Timed THEN Sleeps ELSE {}
Relative(t) == {MakeDeadline(ns, TRUE) : ns \in Asked(t) \ {0}}
Finite(t) == {MakeDeadline(ns, relative) : ns \in Asked(t), relative \in BOOLEAN}
Deadlines(t) == Finite(t) \cup {Never}

Owned(t) == {a \in Mutexes : word[a].tid = t}

LockLists == {s \in UNION {[1..n -> Mutexes] : n \in 0..Cardinality(Mutexes)} : IsInjective(s)}

Futexes(t) ==
    \/ \E a \in Locks, key \in Keys, deadline \in Deadlines(t) : \E value \in {word[a], Zero} :
         SysFutexWait(t, a, value, key[1], key[2], deadline)
    \/ \E a \in Locks, key \in Keys, val \in 0..2 : SysFutexWake(t, a, val, key[1], key[2])
    \/ \E a, b \in Locks, nwake, nmove \in 0..1, private \in BOOLEAN :
         SysFutexRequeue(t, a, b, nwake, nmove, private)

Joins(t) ==
    /\ t = 1
    /\ \E w \in TidWords, deadline \in Deadlines(t) :
         word[w] # Zero /\ SysFutexWait(t, w, word[w], Bits, FALSE, deadline)

Lifecycle(t) ==
    \/ \E w \in TidWords, flavour \in Flavours : SysClone(t, w, flavour[1], flavour[2])
    \/ \E list \in LockLists, operation \in Mutexes \cup {NoAddr} :
         Owned(t) \subseteq Range(list) \cup {operation} /\ SysExit(t, list, operation)
    \/ SysExitGroup(t, [u \in Slots |-> SetToSeq(Owned(u))])

Next ==
    \E t \in Slots :
        \/ \E a \in Mutexes : UserStore(t, a)
        \/ Futexes(t)
        \/ Joins(t)
        \/ \E deadline \in Finite(t) : SysSleep(t, deadline)
        \/ \E deadline \in Relative(t) \cup {Never} : SysPselect(t, deadline)
        \/ t \in Timed /\ \E ticks \in 1..MaxClock : SysGetTime(t, ticks)
        \/ Lifecycle(t)
        \/ Complete(t)
        \/ Timeout(t)

Spec == Init /\ [][Next]_vars

-----------------------------------------------------------------------------
(* Properties *)

\* The wait queues, the map from threads to queues and the phases of the
\* pending calls tell one story, so validate_pending_syscalls never rejects a
\* state that the tracer itself produced; and no thread is queued twice.
QueuesAgree ==
    /\ ValidPending(Kernel, alive)
    /\ \A t \in Slots : \A a \in Addrs :
         Cardinality({i \in 1..Len(queue[a]) : queue[a][i].tid = t}) = (IF where[t] = a THEN 1 ELSE 0)

\* An admitted timeout is always due at the clock it is given, and a thread is
\* never registered twice: the "failed to complete" and "already has a pending
\* futex wait" errors of state_transition and handle_futex are unreachable.
NoInternalError == ~fault

\* Nobody waits for the dead.  A joiner waits only for a thread that is still
\* alive: exits clear the tid word and wake the joiner in one step, whatever
\* was requeued, timed out or started in between (clear_logical_tid,
\* complete_thread_start).  And a lock word that names an owner names a living
\* thread: every exit marks the words on its robust list, the one being
\* operated on included (RobustExitPlan::collect).
NobodyWaitsForTheDead ==
    /\ \A t \in Slots : where[t] \in TidWords =>
         \E u \in Slots : alive[u] /\ cleartid[u] = where[t]
    /\ \A a \in Mutexes : word[a].tid # 0 => alive[word[a].tid]

\* Nobody leaves a wait queue for nothing, and no wake-up is swallowed: a
\* thread that is no longer registered has been granted its call, is dead, or
\* has run past its deadline (refresh_futex_pending, expire_pending_syscall).
LeavesForAReason ==
    [][\A t \in Slots : where[t] # NoAddr /\ where'[t] = NoAddr =>
         \/ ~alive'[t]
         \/ pending'[t].phase = "Ready" /\ pending'[t].result = "ok"
         \/ /\ pending'[t] = NoCall
            /\ pending[t].deadline # Never
            /\ clock' * NsPerUs >= pending[t].deadline]_vars
=============================================================================
