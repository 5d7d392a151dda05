------------------------------ MODULE Snapshot ------------------------------
(***************************************************************************)
(* Capturing the traced processes as a state of the search and putting     *)
(* them back (core/state/state.cpp, page_capture.cpp, resident_memory.cpp, *)
(* core/engine/thread_pool.cpp, exec_engine.cpp; the transition that uses  *)
(* both is state_transition.cpp).                                          *)
(*                                                                         *)
(* A transition restores its source state in every process, lets one       *)
(* thread of one process run to its next system call, and captures every   *)
(* process again.  The tracer skips what it believes it knows: a process   *)
(* that is not dirty is not restored, a page whose content is proven is    *)
(* neither read nor written, a layout that was seen is not built again.    *)
(* Restoring is many system calls, injected into the process; each of them *)
(* can fail, and leaves what was done so far behind.                       *)
(*                                                                         *)
(* A state of the search is named by its content, so a snapshot stands for *)
(* its own hash.                                                           *)
(***************************************************************************)
EXTENDS Sequences, SequencesExt, ResidentMemory

CONSTANTS
    NP,          \* the number of processes
    PagesOf,     \* the page addresses of each process
    FilePages,   \* those of them the executable's file is mapped at
    HeapPages,   \* those of them the break moves over
    Carriers,    \* kernel thread ids; new ones come in any order
    Anchor,      \* the kernel thread id of a process's leader
    MaxSlots,    \* MAX_THREADS_PER_PROCESS, for each process
    Foreign,     \* states that another tracer has captured
    Configs,     \* the environment settings: snapshot backend, layout cache,
                 \* resident memory
    MaxLayouts,  \* CaptureLayoutCache::max_entries
    MaxEvents    \* bound on the steps of a thread, the failures of a call and
                 \* the edits of a debugger command, taken together

ASSUME SnapshotAssumption ==
    /\ NP \in Nat \ {0}
    /\ \A n \in 1..NP : PagesOf[n] \subseteq Nat /\ MaxSlots[n] \in Nat \ {0}
    /\ Carriers \subseteq Nat /\ Anchor \in Carriers
    /\ FilePages \cap HeapPages = {}
    /\ MaxLayouts \in Nat \ {0}
    /\ MaxEvents \in Nat

VARIABLES
    live,      \* the processes in the kernel
    run,       \* ptmc_state: thread bindings, model resources, status
    running,   \* ptmc_state.running_state, as last captured or restored
    dirty,     \* ptmc_state.tracee_image_dirty
    proof,     \* resident::entries
    layouts,   \* capture_layout_cache, most recently used first
    saved,     \* the states with thread bindings here: captured or adopted
    scope,     \* inside a command that holds a resident::Scope
    config,    \* the environment settings of this tracer
    op,        \* the operation in progress
    edited,    \* a debugger command wrote to memory since the last full restore
    events     \* the steps, faults and edits so far

vars == <<live, run, running, dirty, proof, layouts, saved, scope, config, op, edited, events>>

Nodes == 1..NP
Bit == 0..1
Idle == [stage |-> "idle"]

\* resident::enabled
Enabled == scope /\ config.resident

-----------------------------------------------------------------------------
(* Snapshots *)

\* The contents of the pages a layout covers.
Bytes(layout, val) == [p \in UNION {r.pages : r \in layout} |-> val[p]]

\* thread_state, as it is archived: the binding to a carrier is left out.
ArchivedThread(t, regs) == [alive |-> t.alive, mask |-> t.mask, regs |-> regs]

\* What there is to know of a process: every page, the break, every logical
\* thread with the registers and the mask of the carrier that bears it, and
\* the modelled resources.
TruthOf(n, threads) ==
    [page |-> live[n].page, brk |-> live[n].brk,
     threads |-> [i \in 1..Len(threads) |->
        LET t == threads[i]
        IN  IF t.alive THEN [alive |-> TRUE, mask |-> live[n].mask[t.phys],
                             regs |-> live[n].regs[t.phys]]
            ELSE [alive |-> FALSE, mask |-> 0, regs |-> 0]],
     res |-> run[n].res]
Truth(n) == TruthOf(n, run[n].threads)

Meaning(n, snap) ==
    [page |-> Decode(PagesOf[n], snap), brk |-> snap.brk,
     threads |-> snap.threads, res |-> snap.res]

-----------------------------------------------------------------------------
(* The layout cache *)

\* find_capture_layout, by the live text or by the canonical text.
Hits(raw, key) ==
    {i \in 1..Len(layouts) : IF key = None THEN layouts[i].raw = raw ELSE layouts[i].key = key}

\* A hit moves to the front.
Promote(i) == <<layouts[i]>> \o RemoveAt(layouts, i)

\* admit_capture_layout: an entry with this key gets the alias, if there is
\* one; otherwise a new entry, at the cost of the least recently used one.
Admit(key, raw) ==
    LET same == {i \in 1..Len(layouts) : layouts[i].key = key}
    IN  IF same # {}
        THEN LET i == CHOOSE x \in same : TRUE
             IN  <<[layouts[i] EXCEPT !.raw = IF raw = None THEN @ ELSE raw]>> \o RemoveAt(layouts, i)
        ELSE <<[key |-> key, raw |-> raw]>> \o
                 SubSeq(layouts, 1, Min({Len(layouts), MaxLayouts - 1}))

\* The layout of a capture, and the cache after it: from the resident image's
\* own text when there is one, from /proc/pid/maps otherwise.
Layout(n) ==
    LET image == proof[n].image
        vmas == IF image # None THEN image.regions ELSE Vmas(live[n].page, live[n].cuts)
        raw == IF image # None THEN None ELSE vmas
        hits == Hits(raw, IF image # None THEN vmas ELSE None)
        built == BuildCaptureLayout(vmas)
    IN  CASE ~config.cache -> <<built, layouts>>
          [] config.cache /\ hits # {} ->
                LET i == Min(hits) IN <<layouts[i].key, Promote(i)>>
          [] OTHER -> <<built, Admit(built, raw)>>

-----------------------------------------------------------------------------
(* Capture *)

\* save_paged_snapshot: page references of a resident image with the same
\* layout are taken over unread; else protected regions are, and the rest is
\* read.  The flat backend reads everything.
Content(n, layout) ==
    LET e == proof[n]
        ro == UNION {r.pages : r \in Protected(e, layout)}
    IN  IF config.backend = "flat" THEN Bytes(layout, [p \in PagesOf[n] |-> live[n].page[p].val])
        ELSE IF e.image # None /\ e.image.regions = layout THEN e.image.bytes
        ELSE Bytes(layout, [p \in PagesOf[n] |->
                               IF p \in ro THEN e.ro.bytes[p] ELSE live[n].page[p].val])

\* save_stopped and capture_stopped: the break from its proof or from an
\* injected brk(0), the registers of the living threads from their carriers.
Captured(n, layout) ==
    [regions |-> layout,
     bytes |-> Content(n, layout),
     brk |-> IF proof[n].heap # None THEN proof[n].heap ELSE live[n].brk,
     threads |-> [i \in 1..Len(run[n].threads) |->
        LET t == run[n].threads[i]
        IN  ArchivedThread(t, IF t.alive THEN live[n].regs[t.phys] ELSE 0)],
     res |-> run[n].res]

\* validate_bound_slots: every living thread has a carrier of its own, the
\* main thread the leader.
ValidateBoundSlots(n) ==
    LET threads == run[n].threads
    IN  \A i \in 1..Len(threads) : threads[i].alive =>
            /\ threads[i].phys \in live[n].pool
            /\ threads[i].phys = Anchor <=> i = 1
            /\ \A j \in 1..(i - 1) : threads[j].alive => threads[j].phys # threads[i].phys

\* require_thread_capture_boundary: no carrier is in the middle of a call.
AtBoundary(n) == live[n].entry = {}

\* prepare_thread_pool also compares the masks with those of the carriers.
PrepareThreadPool(n) ==
    /\ ValidateBoundSlots(n)
    /\ AtBoundary(n)
    /\ \A c \in live[n].pool :
          live[n].mask[c] = IF \E i \in 1..Len(run[n].threads) : run[n].threads[i].phys = c
                            THEN run[n].threads[CHOOSE i \in 1..Len(run[n].threads) :
                                                   run[n].threads[i].phys = c].mask
                            ELSE 0

\* One process of the sys_state constructor.  All are checked before the first
\* is captured; were one refused, the model would stop here.
CaptureNode ==
    /\ op.stage = "capture" /\ op.at \in Nodes
    /\ op.at = 1 => \A n \in Nodes : PrepareThreadPool(n)
    /\ LET n == op.at
           found == Layout(n)
           snap == Captured(n, found[1])
           new == [op.new EXCEPT ![n] = snap]
       IN  /\ layouts' = found[2]
           /\ proof' = [proof EXCEPT ![n] = IF Enabled THEN Publish(@, snap) ELSE @]
           /\ op' = [op EXCEPT !.at = n + 1, !.new = new]
    /\ UNCHANGED <<live, run, running, dirty, saved, scope, config, edited, events>>

\* remember_thread_bindings: this tracer may restore the state.
Remember(s) == saved' = saved \cup {s}

\* The end of state_transition.
CommitCapture ==
    /\ op.stage = "capture" /\ op.at > NP
    /\ Remember([node |-> op.new, status |-> [n \in Nodes |-> run[n].status]])
    /\ running' = op.new
    /\ dirty' = [n \in Nodes |-> FALSE]
    /\ op' = Idle
    /\ UNCHANGED <<live, run, proof, layouts, scope, config, edited, events>>

-----------------------------------------------------------------------------
(* Restore: binding, masks *)

\* bind_thread_carriers: the leader bears the main thread, the other carriers
\* the other living threads, in the order of the kernel's thread ids.
Bind(p, threads) ==
    LET others == p.pool \ {Anchor}
        nth(k) == CHOOSE c \in others : Cardinality({d \in others : d <= c}) = k
        living(i) == Cardinality({j \in 2..i : threads[j].alive})
    IN  [i \in 1..Len(threads) |->
            [alive |-> threads[i].alive, mask |-> threads[i].mask,
             phys |-> CASE ~threads[i].alive -> 0
                        [] i = 1 /\ threads[i].alive -> Anchor
                        [] OTHER -> nth(living(i))]]

SameRuntimeBindings(a, b) ==
    /\ Len(a) = Len(b)
    /\ \A i \in 1..Len(a) : a[i].alive = b[i].alive /\ a[i].phys = b[i].phys

\* bind_threads_for_restore, for every process before any is changed.
BindThreadsForRestore(procs, state) == [n \in Nodes |-> Bind(procs[n], state.node[n].threads)]

\* Which processes must be written: those that were run, those whose snapshot
\* differs from the running one, those without a proof to the contrary.
RestoreImage(n, state) ==
    \/ dirty[n]
    \/ state.node[n] # running[n]
    \/ Enabled /\ proof[n].image # state.node[n]

\* restore_thread_signal_masks: zero for a carrier that bears no thread.
Masks(p, threads) ==
    [c \in Carriers |->
        IF \E i \in 1..Len(threads) : threads[i].phys = c
        THEN threads[CHOOSE i \in 1..Len(threads) : threads[i].phys = c].mask
        ELSE IF c \in p.pool THEN 0 ELSE p.mask[c]]

\* normalize_thread_pool_for_restore: a call that a rejected transition left at
\* its entry is cancelled.
Normalize(p) == [p EXCEPT !.entry = {}]

\* sys_state::recover_running_state begins, for a transition of process next
\* or for a load.  All processes are dirty from here on; then come the masks
\* of all of them.  The processes
\* are procs; marked says that the caller has made all of them dirty.
Recover(state, next, procs, marked, proofs) ==
    LET image == [n \in Nodes |-> marked \/ RestoreImage(n, state)]
        bound == BindThreadsForRestore(procs, state)
        masked(n) == [procs[n] EXCEPT !.mask = Masks(procs[n], bound[n])]
    IN  /\ live' = [n \in Nodes |-> IF image[n] THEN Normalize(masked(n)) ELSE masked(n)]
        /\ proof' = [n \in Nodes |-> IF image[n] /\ procs[n].entry # {}
                                    THEN Invalidate(proofs[n]) ELSE proofs[n]]
        /\ dirty' = [n \in Nodes |-> TRUE]
        /\ op' = [stage |-> "restore", target |-> state, next |-> next,
                  bound |-> bound, image |-> image]
        /\ UNCHANGED <<run, running, layouts, scope, config>>

-----------------------------------------------------------------------------
(* Restore: the memory of one process, recover_mem_reg_snapshot *)

\* The calls of a restore, one after the other, on a record x of the process's
\* memory and proof and of the tracer's variables.  goal is the snapshot.
Memory(n) ==
    [page |-> live[n].page, brk |-> live[n].brk, proof |-> proof[n],
     resident |-> None, queue |-> {}, unlocked |-> {}, ok |-> TRUE]

\* An injected call, which costs the proof, leaves page behind.
Inject(x, page) == [x EXCEPT !.page = page, !.proof = Invalidate(@)]

\* The kernel refuses the call.
Refused(x) == [x EXCEPT !.ok = FALSE]

\* The end of the heap, unless it is proven to be in place.
RestoreBrk(x, goal) ==
    IF x.proof.heap = goal.brk THEN x
    ELSE IF ~CanBrk(x.page, HeapPages, x.brk, goal.brk) THEN Refused(x)
    ELSE [Inject(x, Brk(x.page, HeapPages, x.brk, goal.brk)) EXCEPT !.brk = goal.brk]

\* The resident image, if its mappings are those of the goal.
Resident(x, goal) ==
    LET image == x.proof.image
    IN  IF image # None /\ image.brk = goal.brk /\ image.regions = goal.regions
        THEN image ELSE None

\* same_backing holds for every page: the region need not be mapped again.
Present(m, r) == \A p \in r.pages : p \in Mapped(m) /\ (m[p].back = "file") = (r.back = "file")

\* restore_memory_mappings: regions that are missing, or that something else
\* replaced, are mapped again if they are anonymous.  The heap is brk's.
RestoreMappings(x, goal) ==
    LET missing == {r \in goal.regions : r.back # "heap" /\ ~Present(x.page, r)}
        prot(p) == (CHOOSE r \in missing : p \in r.pages).prot
    IN  IF Resident(x, goal) # None \/ missing = {} THEN x
        ELSE IF \E r \in missing : r.back = "file" THEN Refused(x)
        ELSE Inject(x, [p \in DOMAIN x.page |->
                          IF \E r \in missing : p \in r.pages THEN Page("anon", prot(p), 0) ELSE x.page[p]])

\* What the snapshot does not have is unmapped; the heap is left to brk.
Extra(m, goal) == {p \in Mapped(m) : m[p].back # "heap"} \ Covered(goal)

\* The second half of restore_memory_mappings, and what is then known of the
\* resident image.
RemoveMappings(x, goal) ==
    LET extra == Extra(x.page, goal)
        y == IF Resident(x, goal) # None \/ extra = {} THEN x ELSE Inject(x, Munmap(x.page, extra))
    IN  [y EXCEPT !.resident = Resident(x, goal)]

\* private_anonymous_coverage of a guard region whose saved pages are zero.
ZeroGuard(x, goal, r) ==
    /\ x.resident = None
    /\ r.prot = {} /\ r.back = "anon"
    /\ \A p \in r.pages : x.page[p].back = "anon" /\ goal.bytes[p] = 0

\* Whether there is something to compare the saved pages with: the resident
\* image, or the live pages if all of them can be read.
Comparable(x, r, forced) ==
    \/ x.resident # None
    \/ ~forced /\ \A p \in r.pages : p \in Mapped(x.page) /\ "r" \in x.page[p].prot

\* The pages that must be written.
Differs(x, goal, r, forced) ==
    IF ~Comparable(x, r, forced) THEN r.pages
    ELSE IF x.resident # None THEN {p \in r.pages : x.resident.bytes[p] # goal.bytes[p]}
    ELSE {p \in r.pages : x.page[p].val # goal.bytes[p]}

\* original_permissions: with a resident image they are what the image says.
SamePermissions(x, r) == x.resident # None \/ \A p \in r.pages : x.page[p].prot = r.prot

\* Pages that differ are queued, their region made writable for them if it is
\* not; where none differ, permissions that do are repaired.
WriteRegion(x, goal, r, forced) ==
    LET differs == Differs(x, goal, r, forced)
        same == Comparable(x, r, forced) /\ SamePermissions(x, r)
        unlock == differs # {} /\ ~(same /\ "w" \in r.prot)
        repair == differs = {} /\ ~same
        y == [x EXCEPT !.queue = @ \cup differs]
    IN  CASE (unlock \/ repair) /\ ~(r.pages \subseteq Mapped(x.page)) -> Refused(x)
          [] unlock /\ r.pages \subseteq Mapped(x.page) ->
                [Inject(y, Mprotect(x.page, r.pages, r.prot \cup {"w"})) EXCEPT !.unlocked = @ \cup {r}]
          [] repair /\ r.pages \subseteq Mapped(x.page) -> Inject(y, Mprotect(x.page, r.pages, r.prot))
          [] OTHER -> y

\* The queued pages are written; the kernel refuses unless all are writable.
Flush(x, goal) ==
    IF x.queue = {} THEN x
    ELSE IF \E p \in x.queue : "w" \notin x.page[p].prot THEN Refused(x)
    ELSE [Inject(x, Store(x.page, x.queue, goal.bytes)) EXCEPT !.queue = {}]

\* One region.  A zero guard is discarded instead of written; lost are the
\* pages that a madvise which fails has discarded (None: it succeeds), after
\* which the whole guard is written, without comparing.
RestoreRegion(x, goal, r, lost) ==
    IF ~ZeroGuard(x, goal, r) THEN WriteRegion(x, goal, r, FALSE)
    ELSE LET y == Flush(x, goal)
         IN  IF lost = None THEN Inject(y, Mprotect(DontNeed(y.page, r.pages), r.pages, {}))
             ELSE WriteRegion(Inject(y, DontNeed(y.page, lost)), goal, r, TRUE)

\* The saved protection of the regions that were made writable.
Reprotect(x) ==
    IF x.unlocked = {} THEN x
    ELSE LET of(p) == {r \in x.unlocked : p \in r.pages}
         IN  Inject(x, [p \in DOMAIN x.page |->
                          IF of(p) = {} THEN x.page[p]
                          ELSE [x.page[p] EXCEPT !.prot = (CHOOSE r \in of(p) : TRUE).prot]])

\* The j-th region from below.
Region(goal, j) == CHOOSE r \in goal.regions : Cardinality({q \in goal.regions : Min(q.pages) <= Min(r.pages)}) = j

\* The calls there are, and the memory after the first k of them; the discard
\* of region bad, if it is one, fails.
Calls(goal) == 5 + Cardinality(goal.regions)
After(n, goal, k, bad, lost) ==
    LET Call(i, x) ==
            CASE i = 1 -> RestoreBrk(x, goal)
              [] i = 2 -> RestoreMappings(x, goal)
              [] i = 3 -> RemoveMappings(x, goal)
              [] i = Calls(goal) - 1 -> Flush(x, goal)
              [] i = Calls(goal) -> Reprotect(x)
              [] OTHER -> RestoreRegion(x, goal, Region(goal, i - 3), IF i - 3 = bad THEN lost ELSE None)
        after[i \in 0..k] ==
            IF i = 0 THEN Memory(n)
            ELSE LET x == after[i - 1] IN IF x.ok THEN Call(i, x) ELSE x
    IN  after[k]

-----------------------------------------------------------------------------
(* Restore: one process, and all of them *)

Goal(n) == op.target.node[n]

\* The memory of process n is x from here on.
Leaves(n, x) ==
    [live[n] EXCEPT !.page = x.page, !.brk = x.brk, !.cuts = @ \cap MayCut(x.page)]

\* As a mutation: a process that is not written keeps its registers.
RegistersMutant(n) == op.image[n]

\* Whether the registers are set: with the image, or for threads that have
\* moved to other carriers.
Registers(n) == op.image[n] \/ ~SameRuntimeBindings(op.bound[n], run[n].threads)

\* restore_thread_registers.
SetRegisters(p, threads, regs) ==
    LET bears(c) == {i \in 1..Len(threads) : threads[i].phys = c}
    IN  [p EXCEPT !.regs = [c \in Carriers |->
            IF bears(c) # {} THEN regs[CHOOSE i \in bears(c) : TRUE].regs ELSE @[c]]]

\* The memory of a process after its whole restore: as it was, unless it must
\* be written.
Whole(n, bad, lost) ==
    IF op.image[n] THEN After(n, Goal(n), Calls(Goal(n)), bad, lost) ELSE Memory(n)

\* restore_resources: descriptors, files, sockets, queues, the clock.
RestoreResources(r, goal) == [r EXCEPT !.res = goal.res]

\* The loop of recover_running_state over the processes below end: the memory,
\* the registers, the status, and the resources.  Of process end only the
\* status and memory have changed.
RestoreBelow(end, memory) ==
    /\ live' = [n \in Nodes |->
                  IF n > end THEN live[n]
                  ELSE IF n < end /\ Registers(n) THEN SetRegisters(Leaves(n, memory[n]), op.bound[n], Goal(n).threads)
                  ELSE Leaves(n, memory[n])]
    /\ run' = [n \in Nodes |->
                 IF n > end THEN run[n]
                 ELSE LET r == [run[n] EXCEPT !.status = op.target.status[n]]
                      IN  IF n < end THEN RestoreResources(r, Goal(n)) ELSE r]

\* All processes are restored.
Restored(memory) ==
    /\ \A n \in Nodes : memory[n].ok
    /\ RestoreBelow(NP + 1, memory)
    /\ proof' = [n \in Nodes |-> memory[n].proof]
    /\ op' = [op EXCEPT !.stage = "restored"]
    /\ UNCHANGED <<running, dirty, layouts, saved, scope, config, edited>>

RestoreAll ==
    /\ op.stage = "restore"
    /\ \E memory \in {[n \in Nodes |-> Whole(n, 0, None)]} : Restored(memory)
    /\ UNCHANGED events

\* The same, where madvise fails on a guard: that is no failure of the restore.
RestoreUndiscarded ==
    /\ op.stage = "restore" /\ events < MaxEvents
    /\ \E b \in {n \in Nodes : op.image[n]} : \E r \in Goal(b).regions : \E lost \in SUBSET r.pages :
          /\ ZeroGuard(After(b, Goal(b), 3, 0, None), Goal(b), r)
          /\ LET j == CHOOSE i \in 1..Cardinality(Goal(b).regions) : Region(Goal(b), i) = r
             IN  Restored([n \in Nodes |-> IF n = b THEN Whole(n, j, lost) ELSE Whole(n, 0, None)])
    /\ events' = events + 1

\* The kernel refuses a call, or a file mapping is gone: what was done before
\* stays, and nothing is proven any more.
RestoreRefused ==
    /\ op.stage = "restore"
    /\ \E memory \in {[n \in Nodes |-> Whole(n, 0, None)]} :
          \E b \in Nodes :
             /\ ~memory[b].ok
             /\ \A n \in 1..(b - 1) : memory[n].ok
             /\ RestoreBelow(b, memory)
    /\ proof' = [n \in Nodes |-> NoProof]
    /\ op' = Idle
    /\ UNCHANGED <<running, dirty, layouts, saved, scope, config, edited, events>>

\* A call that could have succeeded fails in process b: the process is left
\* between two of its calls, or with some of the pages of a flush written.
RestoreFails ==
    /\ op.stage = "restore" /\ events < MaxEvents
    /\ \E b \in Nodes : \E k \in 0..(IF op.image[b] THEN Calls(Goal(b)) - 1 ELSE 0) :
          \E x \in {After(b, Goal(b), k, 0, None)} : x.ok /\
             \E part \in IF k = Calls(Goal(b)) - 2 THEN SUBSET x.queue ELSE {{}} :
                RestoreBelow(b, [n \in 1..b |-> IF n < b THEN Whole(n, 0, None)
                                  ELSE [x EXCEPT !.page = Store(@, part, Goal(b).bytes)]])
    /\ proof' = [n \in Nodes |-> NoProof]
    /\ op' = Idle
    /\ events' = events + 1
    /\ UNCHANGED <<running, dirty, layouts, saved, scope, config, edited>>

\* All are restored: the target is the running state, the proofs are
\* published, the processes clean; a transition goes on.
CommitRestore ==
    /\ op.stage = "restored"
    /\ running' = op.target.node
    /\ run' = [n \in Nodes |-> [run[n] EXCEPT !.threads = op.bound[n]]]
    /\ proof' = [n \in Nodes |-> IF Enabled THEN Publish(proof[n], op.target.node[n]) ELSE proof[n]]
    /\ dirty' = [n \in Nodes |-> FALSE]
    /\ op' = IF op.next = 0 THEN Idle ELSE [stage |-> "exec", node |-> op.next]
    /\ UNCHANGED <<live, layouts, saved, scope, config, edited, events>>

-----------------------------------------------------------------------------
(* Running one thread to its next system call *)

Living(n) == {i \in 1..Len(run[n].threads) : run[n].threads[i].alive}

\* The pages a program, or the tracer on its behalf, can write.
Writable(n) == {p \in Mapped(live[n].page) : "w" \in live[n].page[p].prot}

\* SyscallDispatcher::get_route, for the calls that programs make here: most
\* are emulated, the private memory calls run natively, the rest is rejected.
Route(call) ==
    CASE call \in {"io", "rt_sigprocmask", "clone", "exit", "exit_group"} -> "emulate"
      [] call \in {"mmap", "munmap", "mprotect", "madvise", "brk"} -> "execute"
      [] OTHER -> "reject"

\* do_single_syscall: only an emulated call keeps what is known of read-only
\* regions.  A rejected one is never resumed; its instructions were.
Resumed(n, call) == Resuming(proof[n], Route(call) # "execute")

\* state_transition captures what a step of thread i left behind: process n
\* is p in the kernel, r in the tracer, and e is its proof.
Ran(n, i, p, r, e) ==
    LET c == run[n].threads[i].phys
    IN  /\ live' = [live EXCEPT ![n] = [p EXCEPT !.regs[c] = 1 - @]]
        /\ run' = [run EXCEPT ![n] = r]
        /\ proof' = [proof EXCEPT ![n] = e]

Captures == op' = [stage |-> "capture", at |-> 1, new |-> running]

\* As a mutation: the process is dirty only once the step has succeeded.

MarkDirty(n) == dirty' = [dirty EXCEPT ![n] = TRUE]

\* What every step has in common: one event, one process made dirty.
Step(n) ==
    /\ op.stage = "exec" /\ op.node = n
    /\ MarkDirty(n)
    /\ events' = events + 1
    /\ UNCHANGED <<running, layouts, saved, scope, config, edited>>

\* Instructions of the program, then a call that is emulated: a page changes,
\* and the modelled resources of a process do, perhaps another one's.
Compute(n, i, w, q) ==
    /\ Step(n) /\ i \in Living(n) /\ w \in Writable(n)
    /\ LET page == Store(live[n].page, {w}, [x \in {w} |-> 1 - live[n].page[w].val])
           c == run[n].threads[i].phys
       IN  /\ live' = [live EXCEPT ![n].page = page, ![n].regs[c] = 1 - @]
           /\ run' = [run EXCEPT ![q].res = 1 - @]
           /\ proof' = [proof EXCEPT ![n] = Resumed(n, "io")]
    /\ Captures

\* An emulated call that copies its result out to any page of the process,
\* which the tracer may do even where the program may not write.
CopyOut(n, i, w) ==
    /\ Step(n) /\ i \in Living(n) /\ w \in Mapped(live[n].page)
    /\ LET page == Store(live[n].page, {w}, [x \in {w} |-> 1 - live[n].page[w].val])
       IN  Ran(n, i, [live[n] EXCEPT !.page = page], [run[n] EXCEPT !.res = 1 - @],
               Writing(Resumed(n, "io"), {w}))
    /\ Captures

\* Native memory calls: mprotect, anonymous mmap and munmap, brk, madvise.
\* The kernel keeps or merges boundaries between mappings that are alike.
NativeMemory(n, i, call, page, brk) ==
    /\ Step(n) /\ i \in Living(n)
    /\ page # live[n].page
    /\ \E cuts \in SUBSET MayCut(page) :
          Ran(n, i, [live[n] EXCEPT !.page = page, !.brk = brk, !.cuts = cuts], run[n],
              Resumed(n, call))
    /\ Captures

Anon(n) == {p \in PagesOf[n] : live[n].page[p].back = "anon"}

\* on_enter lets mprotect through if the pages stay readable; PROT_NONE, and
\* madvise, only on anonymous memory.
NativeProtect(n, i, p, prot) ==
    /\ op.stage = "exec" /\ op.node = n
    /\ p \in IF prot = {} THEN Anon(n) ELSE Mapped(live[n].page)
    /\ NativeMemory(n, i, "mprotect", Mprotect(live[n].page, {p}, prot), live[n].brk)
NativeDiscard(n, i, p) ==
    /\ op.stage = "exec" /\ op.node = n
    /\ p \in Anon(n)
    /\ NativeMemory(n, i, "madvise", DontNeed(live[n].page, {p}), live[n].brk)
\* The kernel calls anonymous memory below the break heap, whoever mapped it.
NativeMap(n, i, p) ==
    /\ op.stage = "exec" /\ op.node = n
    /\ p \in PagesOf[n]
    /\ LET back == IF p \in HeapPages /\ live[n].brk = 1 THEN "heap" ELSE "anon"
       IN  NativeMemory(n, i, "mmap", [MmapFixed(live[n].page, {p}, ReadWrite) EXCEPT ![p].back = back],
                        live[n].brk)
NativeUnmap(n, i, p) ==
    /\ op.stage = "exec" /\ op.node = n
    /\ p \in Mapped(live[n].page)
    /\ NativeMemory(n, i, "munmap", Munmap(live[n].page, {p}), live[n].brk)
NativeBrk(n, i) ==
    /\ op.stage = "exec" /\ op.node = n
    /\ HeapPages \cap PagesOf[n] # {}
    /\ CanBrk(live[n].page, HeapPages, live[n].brk, 1 - live[n].brk)
    /\ NativeMemory(n, i, "brk", Brk(live[n].page, HeapPages, live[n].brk, 1 - live[n].brk), 1 - live[n].brk)

\* The emulated rt_sigprocmask: the mask of the thread, and of its carrier.
Sigprocmask(n, i) ==
    /\ Step(n) /\ i \in Living(n)
    /\ LET c == run[n].threads[i].phys
       IN  Ran(n, i, [live[n] EXCEPT !.mask[c] = 1 - @],
               [run[n] EXCEPT !.threads[i].mask = 1 - @], Resumed(n, "rt_sigprocmask"))
    /\ Captures

\* create_thread_carrier: the leader is made to clone kernel threads that never
\* run the program; resuming one costs every process its proof.
CreateThreadCarrier(p, new) ==
    [p EXCEPT !.pool = @ \cup new, !.mask = [c \in Carriers |-> IF c \in new THEN 0 ELSE @[c]]]

\* create_logical_thread: the child is a copy of its parent on the first free
\* carrier, or on a new one.
CreateLogicalThread(n, i, fresh) ==
    /\ Step(n) /\ i \in Living(n)
    /\ Len(run[n].threads) < MaxSlots[n]
    /\ LET used == {run[n].threads[j].phys : j \in Living(n)}
           free == live[n].pool \ (used \cup {Anchor})
           c == IF free # {} THEN Min(free) ELSE fresh
           parent == run[n].threads[i]
       IN  /\ IF free # {} THEN fresh = 0 ELSE fresh \in Carriers \ live[n].pool
           /\ live' = [live EXCEPT ![n] =
                [(IF fresh = 0 THEN live[n] ELSE CreateThreadCarrier(live[n], {c}))
                    EXCEPT !.regs = [@ EXCEPT ![c] = 0, ![parent.phys] = 1], !.mask[c] = parent.mask]]
           /\ run' = [run EXCEPT ![n].threads =
                        Append(@, [alive |-> TRUE, phys |-> c, mask |-> parent.mask])]
           /\ proof' = [m \in Nodes |-> IF fresh # 0 THEN NoProof
                                       ELSE IF m = n THEN Resumed(n, "clone") ELSE proof[m]]
    /\ Captures

\* clear_logical_tid: a thread that ends clears its thread id word, on a page
\* of w, if another thread lives to see it; its carrier is parked without mask.
ClearLogicalTid(p, c, w) ==
    [p EXCEPT !.page = Store(@, w, [x \in w |-> 0]), !.mask[c] = 0]

\* exit_logical_thread.
ExitLogicalThread(n, i, w) ==
    /\ Step(n) /\ i \in Living(n)
    /\ LET last == Living(n) = {i}
           c == run[n].threads[i].phys
       IN  /\ w \subseteq Writable(n) /\ (last => w = {})
           /\ Ran(n, i, ClearLogicalTid(live[n], c, w),
                  [run[n] EXCEPT !.threads[i] = [alive |-> FALSE, phys |-> 0, mask |-> 0],
                                 !.status = IF last THEN "exit" ELSE @],
                  Writing(Resumed(n, "exit"), w))
    /\ Captures

\* exit_logical_process: exit_group ends every thread in the same step.
ExitLogicalProcess(n, i) ==
    /\ Step(n) /\ i \in Living(n) /\ Cardinality(Living(n)) > 1
    /\ Ran(n, i, [live[n] EXCEPT !.mask = [c \in Carriers |-> 0]],
           [run[n] EXCEPT !.threads = [j \in 1..Len(@) |-> [alive |-> FALSE, phys |-> 0, mask |-> 0]],
                          !.status = "exit"], Resumed(n, "exit_group"))
    /\ Captures

\* The program has run, and has reached a call that the model rejects: the
\* thread stays at the entry of the call, and the transition throws.
Reject(n, i, w) ==
    /\ Step(n) /\ i \in Living(n) /\ w \in Writable(n)
    /\ LET page == Store(live[n].page, {w}, [x \in {w} |-> 1 - live[n].page[w].val])
       IN  Ran(n, i, [live[n] EXCEPT !.page = page, !.entry = @ \cup {run[n].threads[i].phys}],
               run[n], Resumed(n, "execve"))
    /\ op' = Idle

\* The capture fails half way: the processes before it have new proofs.
CaptureFails ==
    /\ op.stage = "capture" /\ events < MaxEvents
    /\ op' = Idle
    /\ events' = events + 1
    /\ UNCHANGED <<live, run, running, dirty, proof, layouts, saved, scope, config, edited>>

-----------------------------------------------------------------------------
(* Commands *)

\* state_transition: a live process of a saved state takes a step.
Transition(s, n) ==
    /\ op = Idle
    /\ events < MaxEvents
    /\ s.status[n] = "run"
    /\ Recover(s, n, live, FALSE, proof)
    /\ UNCHANGED <<saved, edited, events>>

\* A worker installs a state that has nothing to expand.
LoadInScope(s) ==
    /\ op = Idle /\ scope
    /\ Recover(s, 0, live, FALSE, proof)
    /\ UNCHANGED <<saved, edited, events>>

\* The load command: nothing that was known of the processes counts.
LoadCommand(s) ==
    /\ op = Idle /\ ~scope
    /\ Recover(s, 0, live, TRUE, [m \in Nodes |-> NoProof])
    /\ edited' = FALSE
    /\ UNCHANGED <<saved, events>>

\* adopt_snapshot_bindings: the threads of the state are those there are.
SameThreads(s) ==
    \A n \in Nodes : LET ours == run[n].threads
                         theirs == s.node[n].threads
                     IN  Len(ours) = Len(theirs) /\ \A i \in 1..Len(ours) : ours[i].alive = theirs[i].alive

\* adopt_snapshot_threads: the carriers that a state needs, with the leader.
Needed(threads) == 1 + Cardinality({i \in 2..Len(threads) : threads[i].alive})

\* ensure_thread_carriers: what process p may be once it has k carriers.
EnsureThreadCarriers(p, k) ==
    {CreateThreadCarrier(p, more) : more \in
        {c \in SUBSET (Carriers \ p.pool) : Cardinality(c) = Max({0, k - Cardinality(p.pool)})}}

\* load --adopt and load --adopt-threads: a state of another tracer is bound to
\* the carriers of this one, and loaded.
Adopt(s) ==
    /\ op = Idle /\ ~scope /\ events < MaxEvents
    /\ s \notin saved
    /\ \A n \in Nodes : PrepareThreadPool(n)
    /\ \/ /\ SameThreads(s)
          /\ Recover(s, 0, live, TRUE, [m \in Nodes |-> NoProof])
       \/ LET grown(n) == EnsureThreadCarriers(live[n], Needed(s.node[n].threads))
          IN  \E procs \in [Nodes -> UNION {grown(n) : n \in Nodes}] :
                 /\ \A n \in Nodes : procs[n] \in grown(n)
                 /\ Recover(s, 0, procs, TRUE, [m \in Nodes |-> NoProof])
    /\ Remember(s)
    /\ edited' = FALSE
    /\ events' = events + 1

\* An assignment in a debugger expression; it does not make the process dirty.
UserEdit(n, p) ==
    /\ op = Idle /\ ~scope
    /\ events < MaxEvents
    /\ p \in Mapped(live[n].page)
    /\ live' = [live EXCEPT ![n].page[p].val = 1 - @]
    /\ edited' = TRUE
    /\ events' = events + 1
    /\ UNCHANGED <<run, running, dirty, proof, layouts, saved, scope, config, op>>

\* Scope::Scope marks every process dirty, unless resident memory is off.
OpenScope == dirty' = [n \in Nodes |-> config.resident \/ dirty[n]]

\* A search command begins, and ends.
BeginScope ==
    /\ op = Idle /\ ~scope
    /\ scope' = TRUE
    /\ OpenScope
    /\ proof' = [n \in Nodes |-> NoProof]
    /\ edited' = (edited /\ ~config.resident)
    /\ UNCHANGED <<live, run, running, layouts, saved, config, op, events>>

EndScope ==
    /\ op = Idle /\ scope
    /\ scope' = FALSE
    /\ proof' = [n \in Nodes |-> NoProof]
    /\ UNCHANGED <<live, run, running, dirty, layouts, saved, config, op, edited, events>>

-----------------------------------------------------------------------------
(* The specification *)

\* init_tracee_state: the process at the end of its startup.
InitTracee(n) ==
    [page |-> [p \in PagesOf[n] |->
                  CASE p \in FilePages -> Page("file", {"r"}, 0)
                    [] p \in HeapPages -> Hole
                    [] OTHER -> Page("anon", ReadWrite, 0)],
     cuts |-> {}, brk |-> 0, regs |-> [c \in Carriers |-> 0],
     mask |-> [c \in Carriers |-> 0], pool |-> {Anchor}, entry |-> {}]

\* The first snapshot of a process.
FirstSnapshot(n) ==
    LET layout == BuildCaptureLayout(Vmas(InitTracee(n).page, {}))
    IN  [regions |-> layout, bytes |-> Bytes(layout, [p \in PagesOf[n] |-> 0]), brk |-> 0,
         threads |-> <<[alive |-> TRUE, mask |-> 0, regs |-> 0]>>, res |-> 0]

\* state_initialization has captured the first state.
Init ==
    /\ live = [n \in Nodes |-> InitTracee(n)]
    /\ run = [n \in Nodes |-> [threads |-> <<[alive |-> TRUE, phys |-> Anchor, mask |-> 0]>>,
                               res |-> 0, status |-> "run"]]
    /\ running = [n \in Nodes |-> FirstSnapshot(n)]
    /\ dirty = [n \in Nodes |-> FALSE]
    /\ proof = [n \in Nodes |-> NoProof]
    /\ layouts = <<>>
    /\ saved = {[node |-> running, status |-> [n \in Nodes |-> "run"]]}
    /\ scope = FALSE
    /\ config \in Configs
    /\ op = Idle
    /\ edited = FALSE
    /\ events = 0

RestoreSteps ==
    RestoreAll \/ RestoreUndiscarded \/ RestoreRefused \/ RestoreFails \/ CommitRestore

Slots == 1..Max({MaxSlots[n] : n \in Nodes})
AllPages == UNION {PagesOf[n] : n \in Nodes}

ExecSteps ==
    \E n \in Nodes, i \in Slots :
        \/ \E p \in AllPages : \/ \E q \in Nodes \ {n} : Compute(n, i, p, q)
                               \/ CopyOut(n, i, p)
                               \/ \E prot \in {{}, {"r"}, ReadWrite} : NativeProtect(n, i, p, prot)
                               \/ NativeDiscard(n, i, p)
                               \/ NativeMap(n, i, p)
                               \/ NativeUnmap(n, i, p)
                               \/ Reject(n, i, p)
        \/ NativeBrk(n, i)
        \/ Sigprocmask(n, i)
        \/ ExitLogicalProcess(n, i)
        \/ \E c \in Carriers \cup {0} : CreateLogicalThread(n, i, c)
        \/ \E w \in {{}} \cup {{p} : p \in AllPages} : ExitLogicalThread(n, i, w)

Commands ==
    \/ \E s \in saved : (\E n \in Nodes : Transition(s, n)) \/ LoadInScope(s) \/ LoadCommand(s)
    \/ \E s \in Foreign : Adopt(s)
    \/ \E n \in Nodes, p \in AllPages : UserEdit(n, p)
    \/ BeginScope \/ EndScope

Next == Commands \/ RestoreSteps \/ ExecSteps \/ CaptureNode \/ CommitCapture \/ CaptureFails

Spec == Init /\ [][Next]_vars

-----------------------------------------------------------------------------
(* Properties *)

\* The heap pages that the program had unmapped when snap was captured.  The
\* end of the heap is restored, its holes are not: restore_memory_mappings
\* leaves everything called [heap] alone.
HeapHoles(snap) == {p \in HeapPages : snap.brk = 1} \ Covered(snap)

\* Process n, in truth, is what snap says, apart from those holes.
IsAsIn(n, snap, truth) ==
    LET known == PagesOf[n] \ HeapHoles(snap)
    IN  [Meaning(n, snap) EXCEPT !.page = Restrict(@, known)] = [truth EXCEPT !.page = Restrict(@, known)]

\* When sys_state::recover_running_state has put the processes back, each of them - every
\* page with its protection, the break, each thread's registers and mask, the
\* modelled resources - is what the restored snapshot says, whatever was
\* skipped on the way.  Two things may differ: a hole in the heap may be filled,
\* and a debugger's edit may survive outside a search, or in one without
\* resident memory.
RestoreExact ==
    op.stage = "restored" /\ ~edited =>
        \A n \in Nodes : IsAsIn(n, op.target.node[n], TruthOf(n, op.bound[n]))

\* A snapshot that capture_stopped has just taken says what the process is,
\* in canonical form: what was taken over unread, from the resident image,
\* its read-only regions, the heap proof or the layout cache, is what reading
\* would have shown (a hole in the heap that a restore filled, excepted), and
\* equal processes get equal snapshots.
CaptureExact ==
    op.stage = "capture" =>
        \A n \in 1..(op.at - 1) :
            /\ IsAsIn(n, op.new[n], Truth(n))
            /\ op.new[n].regions = BuildCaptureLayout(Vmas(Munmap(live[n].page, HeapHoles(op.new[n])), {}))

====
