----------------------------- MODULE StateStore -----------------------------
(***************************************************************************)
(* The snapshot store (src/src/core/state/state_store.cpp): snapshots are  *)
(* accepted into pending_, written to the packed store by I/O workers,     *)
(* and kept in a hot (plain) and a warm (compressed) LRU cache.  One step  *)
(* is one critical section of mutex_, or one call of the packed store.     *)
(*                                                                         *)
(* A content stands for its bytes; HashOf need not be injective.  A cache  *)
(* is the sequence of its contents, the most recently used one first.      *)
(***************************************************************************)
EXTENDS Integers, Sequences, FiniteSets, Functions, FiniteSetsExt

CONSTANTS
  Content,      \* the snapshots' bytes
  HashOf, Size, \* their hashes and lengths
  Client,       \* the threads that call the store
  Io,           \* the I/O workers
  MaxQueue,     \* max_io_queue_size_
  MaxBytes,     \* config_.max_pending_bytes
  HotSize, WarmSize,  \* the capacities of the caches
  MaxInflight,  \* config_.max_inflight_prefetch
  Faults,       \* bound: the I/O errors and power losses of a behaviour
  None

ASSUME StoreAssumption ==
  /\ HashOf \in [Content -> Nat \ {0}] /\ Size \in [Content -> Nat \ {0}]
  /\ MaxQueue \in Nat \ {0} /\ MaxBytes \in Nat \ {0} /\ Io # {}
  /\ HotSize \in Nat /\ WarmSize \in Nat /\ MaxInflight \in Nat /\ Faults \in Nat /\ None \notin Content

VARIABLES
  up,           \* "down", "running" or "stopping" (shutdown holds lifecycle_mutex_)
  failure,      \* failure_ is set
  pending,      \* pending_: the accepted contents that are not written yet
  io_queue,     \* io_queue_
  pending_bytes,
  hot, warm,    \* hot_cache_ and warm_cache_ with their LRU lists
  packed,       \* the contents of the packed store
  packed_failed, \* its failed_: a write or a sync of its own has thrown
  synced,       \* the ones that survive a power loss
  pc, arg,      \* each client's place and argument
  result,       \* what the call that has just returned answers, or "none"
  held,         \* a load: the bytes found so far
  known,        \* history of a load: its hash was accepted when it began
  io, job,      \* each I/O worker's place and content
  prefetch_queue, fetching, \* prefetch_inflight_: queued, and being read
  accepted,     \* history: the contents save() has returned for
  promised,     \* history: the ones a wait or a shutdown has confirmed
  faults        \* counter for the bound

memory == <<pending, io_queue, pending_bytes, hot, warm, prefetch_queue, fetching>>
disk   == <<packed, synced, packed_failed>>
calls  == <<pc, arg, held, known>>
workers == <<io, job>>
ghosts == <<accepted, promised, faults>>
tvars == <<up, failure, memory, disk, calls, result, workers, ghosts>>

Hashes == {HashOf[d] : d \in Content}
Of(S, h) == {d \in S : HashOf[d] = h}
Bytes(S) == MapThenSumSet(LAMBDA d : Size[d], S)

TInit ==
  /\ up = "down" /\ failure = FALSE
  /\ pending = {} /\ io_queue = <<>> /\ pending_bytes = 0 /\ hot = <<>> /\ warm = <<>>
  /\ prefetch_queue = <<>> /\ fetching = None
  /\ packed = {} /\ synced = {} /\ packed_failed = FALSE
  /\ pc = [c \in Client |-> "idle"] /\ arg = [c \in Client |-> None]
  /\ result = "none" /\ held = [c \in Client |-> None]
  /\ known = [c \in Client |-> FALSE]
  /\ io = [w \in Io |-> "exit"] /\ job = [w \in Io |-> None]
  /\ accepted = {} /\ promised = {} /\ faults = 0

(* find_cache() moves a hit to the front of the list.                       *)
Touch(cache, h) ==
  IF Of(Range(cache), h) = {} THEN cache
  ELSE LET i == CHOOSE n \in DOMAIN cache : HashOf[cache[n]] = h
       IN  <<cache[i]>> \o SubSeq(cache, 1, i - 1) \o SubSeq(cache, i + 1, Len(cache))

(* insert_cache() evicts from the back until the entry fits, or until       *)
(* nothing is left.                                                         *)
Insert(cache, capacity, d) ==
  IF Size[d] > capacity \/ Of(Range(cache), HashOf[d]) # {} THEN cache
  ELSE LET Fit(n) == Bytes(Range(SubSeq(cache, 1, n))) <= capacity - Size[d]
           last == {n \in 1..Len(cache) : Fit(n) /\ \A m \in (n + 1)..Len(cache) : ~Fit(m)}
       IN  <<d>> \o IF last = {} THEN <<>> ELSE SubSeq(cache, 1, CHOOSE n \in last : TRUE)

(* notify_all() wakes the threads waiting at one place.                     *)
Woken(places, from, to) ==
  [p \in DOMAIN places |-> IF places[p] = from THEN to ELSE places[p]]
WakeClients(places) == Woken(Woken(places, "space", "admit"), "complete", "flush")

(* record_failure() wakes everyone; "places" and "ios" are where the caller *)
(* leaves the clients and the workers.                                      *)
RecordFailureMutant(places, ios) ==
  LET One(place) == LET asleep == {p \in DOMAIN places : places[p] = place}
                    IN  IF asleep = {} THEN {} ELSE {CHOOSE p \in asleep : TRUE}
  IN  /\ failure' = TRUE /\ io' = Woken(ios, "sleep", "check")
      /\ pc' = [p \in DOMAIN places |->
                  IF p \in One("space") \cup One("complete") THEN WakeClients(places)[p]
                  ELSE places[p]]
RecordFailure(places, ios) ==
  /\ failure' = TRUE
  /\ pc' = WakeClients(places) /\ io' = Woken(ios, "sleep", "check")

(* What check_ready() tests.                                                *)
Ready == up = "running" /\ ~failure

(* A step that answers no call.                                             *)
Silent == result' = "none"

Answer(c, r) ==
  /\ pc' = [pc EXCEPT ![c] = "idle"] /\ result' = r
  /\ arg' = [arg EXCEPT ![c] = None] /\ held' = [held EXCEPT ![c] = None]
  /\ known' = [known EXCEPT ![c] = FALSE]

(* A call holds lifecycle_mutex_ shared, so none begins during a shutdown.  *)
Callable(c) == pc[c] = "idle" /\ up # "stopping"

(* Every call on a store that has failed or is not open throws.             *)
Refused(c) ==
  /\ Callable(c) /\ ~Ready /\ Answer(c, "error")
  /\ UNCHANGED <<up, failure, memory, disk, workers, ghosts>>

-----------------------------------------------------------------------------
(* save() with the content d and the hint r (reference_hash, None for 0).   *)
(* An equal resident buffer ends the call; otherwise the mutex is released  *)
(* for hashing.                                                             *)
Save(c, d, r) ==
  LET queued   == Of(pending, r)
      resident == IF queued # {} THEN queued ELSE Of(Range(hot), r)
  IN  /\ Callable(c) /\ Ready
      /\ hot' = IF queued = {} THEN Touch(hot, r) ELSE hot
      /\ IF d \in resident
         THEN Answer(c, "ok") /\ accepted' = accepted \cup {d}
         ELSE /\ pc' = [pc EXCEPT ![c] = "admit"] /\ arg' = [arg EXCEPT ![c] = d]
              /\ Silent /\ UNCHANGED <<held, known, accepted>>
      /\ UNCHANGED <<up, failure, pending, io_queue, pending_bytes, warm, prefetch_queue,
                     fetching, disk, workers, promised, faults>>

Resident(h) == Of(pending \cup Range(hot) \cup Range(warm), h)

(* One round of the admission loop.  Entries of the same hash are compared  *)
(* byte by byte, wherever they are.                                         *)
SameMutant(d, S) == TRUE
Same(d, S) == d \in S

AdmitKnown(c) ==
  LET d == arg[c]
      h == HashOf[d]
      old == IF Resident(h) # {} THEN Resident(h) ELSE Of(packed, h)
      missed == Of(pending, h) = {}
  IN  /\ pc[c] = "admit" /\ Ready /\ old # {}
      /\ packed_failed => Resident(h) # {}
      /\ hot' = IF missed THEN Touch(hot, h) ELSE hot
      /\ warm' = IF missed /\ Of(Range(hot), h) = {} THEN Touch(warm, h) ELSE warm
      /\ Answer(c, IF Same(d, old) THEN "ok" ELSE "collision")
      /\ accepted' = IF Same(d, old) THEN accepted \cup {d} ELSE accepted
      /\ UNCHANGED <<up, failure, pending, io_queue, pending_bytes, prefetch_queue, fetching,
                     disk, workers, promised, faults>>

New(d) == Resident(HashOf[d]) = {} /\ ~packed_failed /\ Of(packed, HashOf[d]) = {}

(* Accepted unfinished writes are bounded; one oversized write is allowed.  *)
Fits(d) ==
  \/ pending = {}
  \/ Cardinality(pending) < MaxQueue /\ pending_bytes + Size[d] <= MaxBytes

AdmitWaits(c) ==
  /\ pc[c] = "admit" /\ Ready /\ New(arg[c]) /\ ~Fits(arg[c])
  /\ pc' = [pc EXCEPT ![c] = "space"]
  /\ Silent /\ UNCHANGED <<up, failure, memory, disk, arg, held, known, workers, ghosts>>

(* work_cv_.notify_one()                                                    *)
NotifyWork ==
  \/ \E w \in Io : io[w] = "sleep" /\ io' = [io EXCEPT ![w] = "check"]
  \/ (\A w \in Io : io[w] # "sleep") /\ io' = io

AdmitNew(c) ==
  LET d == arg[c]
  IN  /\ pc[c] = "admit" /\ Ready /\ New(d) /\ Fits(d)
      /\ pending' = pending \cup {d} /\ io_queue' = Append(io_queue, d)
      /\ pending_bytes' = pending_bytes + Size[d]
      /\ hot' = Insert(hot, HotSize, d)
      /\ NotifyWork
      /\ Answer(c, "ok") /\ accepted' = accepted \cup {d}
      /\ UNCHANGED <<up, failure, warm, prefetch_queue, fetching, disk, job, promised, faults>>

(* exists() of a packed store that has failed throws out of save().         *)
AdmitThrows(c) ==
  /\ pc[c] = "admit" /\ Ready /\ Resident(HashOf[arg[c]]) = {} /\ packed_failed
  /\ Answer(c, "error")
  /\ UNCHANGED <<up, failure, memory, disk, workers, ghosts>>

(* A call under way finds failure_ set when it takes the mutex again.       *)
CallFails(c) ==
  /\ pc[c] \in {"admit", "flush", "read", "found"} /\ ~Ready
  /\ Answer(c, "error")
  /\ UNCHANGED <<up, failure, memory, disk, workers, ghosts>>

-----------------------------------------------------------------------------
(* wait_for_completion(): data and index are synced with mutex_ held.       *)
Wait(c) ==
  /\ Callable(c) /\ Ready
  /\ pc' = [pc EXCEPT ![c] = "flush"] /\ Silent
  /\ UNCHANGED <<up, failure, memory, disk, arg, held, known, workers, ghosts>>

DrainedMutant == io_queue = <<>>
Drained == pending = {}

WaitBlocks(c) ==
  /\ pc[c] = "flush" /\ Ready /\ ~Drained
  /\ pc' = [pc EXCEPT ![c] = "complete"]
  /\ Silent /\ UNCHANGED <<up, failure, memory, disk, arg, held, known, workers, ghosts>>

WaitFlushes(c) ==
  /\ pc[c] = "flush" /\ Ready /\ Drained /\ ~packed_failed
  /\ synced' = packed /\ promised' = promised \cup accepted
  /\ Answer(c, "ok")
  /\ UNCHANGED <<up, failure, memory, packed, packed_failed, workers, accepted, faults>>

(* flush_index() throws: the sync fails.                                    *)
WaitFails(c) ==
  /\ pc[c] = "flush" /\ Ready /\ Drained /\ faults < Faults
  /\ faults' = faults + 1 /\ packed_failed' = TRUE
  /\ RecordFailure([pc EXCEPT ![c] = "idle"], io)
  /\ result' = "error"
  /\ UNCHANGED <<up, memory, packed, synced, arg, held, known, job, accepted, promised>>

-----------------------------------------------------------------------------
(* load_buffer(): the caches and pending_ under the mutex, then the packed  *)
(* store without it.                                                        *)
LoadHits(c, h) ==
  LET plain == IF Of(Range(hot), h) # {} THEN Of(Range(hot), h) ELSE Of(pending, h)
  IN  /\ Callable(c) /\ Ready /\ plain # {}
      /\ hot' = Touch(hot, h)
      /\ Answer(c, CHOOSE d \in plain : TRUE)
      /\ UNCHANGED <<up, failure, pending, io_queue, pending_bytes, warm, prefetch_queue,
                     fetching, disk, workers, ghosts>>

LoadMissesMutant(c, h) ==
  LET compressed == Of(Range(warm), h)
  IN  /\ Callable(c) /\ Ready /\ Of(Range(hot), h) = {}
      /\ warm' = Touch(warm, h)
      /\ pc' = [pc EXCEPT ![c] = IF compressed = {} THEN "read" ELSE "found"]
      /\ held' = [held EXCEPT ![c] = IF compressed = {} THEN None
                                     ELSE CHOOSE d \in compressed : TRUE]
      /\ arg' = [arg EXCEPT ![c] = h] /\ Silent
      /\ known' = [known EXCEPT ![c] = Of(accepted, h) # {}]
      /\ UNCHANGED <<up, failure, pending, io_queue, pending_bytes, hot, prefetch_queue,
                     fetching, disk, workers, ghosts>>
LoadMisses(c, h) ==
  LET compressed == Of(Range(warm), h)
  IN  /\ Callable(c) /\ Ready /\ Of(Range(hot) \cup pending, h) = {}
      /\ warm' = Touch(warm, h)
      /\ pc' = [pc EXCEPT ![c] = IF compressed = {} THEN "read" ELSE "found"]
      /\ held' = [held EXCEPT ![c] = IF compressed = {} THEN None
                                     ELSE CHOOSE d \in compressed : TRUE]
      /\ arg' = [arg EXCEPT ![c] = h] /\ Silent
      /\ known' = [known EXCEPT ![c] = Of(accepted, h) # {}]
      /\ UNCHANGED <<up, failure, pending, io_queue, pending_bytes, hot, prefetch_queue,
                     fetching, disk, workers, ghosts>>

(* The hash is not in the packed store: no check_ready() on this path.      *)
LoadFindsNothing(c) ==
  /\ pc[c] = "read" /\ ~packed_failed /\ Of(packed, arg[c]) = {}
  /\ Answer(c, "missing")
  /\ UNCHANGED <<up, failure, memory, disk, workers, ghosts>>

LoadReads(c) ==
  /\ pc[c] = "read" /\ Ready /\ ~packed_failed
  /\ \E d \in Of(packed, arg[c]) :
       /\ held' = [held EXCEPT ![c] = d]
       /\ warm' = Insert(warm, WarmSize, d)
  /\ pc' = [pc EXCEPT ![c] = "found"]
  /\ Silent /\ UNCHANGED <<up, failure, pending, io_queue, pending_bytes, hot, prefetch_queue, fetching,
                 disk, arg, known, workers, ghosts>>

LoadThrows(c) ==
  /\ pc[c] = "read" /\ Ready /\ packed_failed
  /\ Answer(c, "error")
  /\ UNCHANGED <<up, failure, memory, disk, workers, ghosts>>

LoadReturns(c) ==
  /\ pc[c] = "found" /\ Ready
  /\ hot' = Insert(hot, HotSize, held[c])
  /\ Answer(c, held[c])
  /\ UNCHANGED <<up, failure, pending, io_queue, pending_bytes, warm, prefetch_queue, fetching,
                 disk, workers, ghosts>>

-----------------------------------------------------------------------------
(* io_worker()                                                              *)
IoExits(w) ==
  /\ io[w] = "check" /\ (failure \/ (up = "stopping" /\ io_queue = <<>>))
  /\ io' = [io EXCEPT ![w] = "exit"]
  /\ Silent /\ UNCHANGED <<up, failure, memory, disk, calls, job, ghosts>>

IoSleeps(w) ==
  /\ io[w] = "check" /\ ~failure /\ up = "running" /\ io_queue = <<>>
  /\ io' = [io EXCEPT ![w] = "sleep"]
  /\ Silent /\ UNCHANGED <<up, failure, memory, disk, calls, job, ghosts>>

IoTakes(w) ==
  /\ io[w] = "check" /\ ~failure /\ io_queue # <<>>
  /\ job' = [job EXCEPT ![w] = Head(io_queue)] /\ io_queue' = Tail(io_queue)
  /\ io' = [io EXCEPT ![w] = "write"]
  /\ Silent /\ UNCHANGED <<up, failure, pending, pending_bytes, hot, warm, prefetch_queue, fetching,
                 disk, calls, ghosts>>

IoWrites(w) ==
  /\ io[w] = "write" /\ ~packed_failed
  /\ packed' = packed \cup {job[w]}
  /\ io' = [io EXCEPT ![w] = "retire"]
  /\ Silent /\ UNCHANGED <<up, failure, memory, synced, packed_failed, calls, job, ghosts>>

IoRetires(w) ==
  /\ io[w] = "retire"
  /\ warm' = Insert(warm, WarmSize, job[w])
  /\ pending' = pending \ {job[w]} /\ pending_bytes' = pending_bytes - Size[job[w]]
  /\ pc' = WakeClients(pc)
  /\ io' = [io EXCEPT ![w] = "check"] /\ job' = [job EXCEPT ![w] = None]
  /\ Silent /\ UNCHANGED <<up, failure, io_queue, hot, prefetch_queue, fetching, disk, arg, held,
                 known, ghosts>>

(* Compression or the packed write throws, or the packed store had failed.  *)
IoBreaks(w) ==
  /\ io[w] = "write"
  /\ \/ packed_failed /\ UNCHANGED <<packed_failed, faults>>
     \/ faults < Faults /\ faults' = faults + 1 /\ packed_failed' \in BOOLEAN
  /\ io' = [io EXCEPT ![w] = "broken"]
  /\ Silent /\ UNCHANGED <<up, failure, memory, packed, synced, calls, job, accepted, promised>>

IoRecords(w) ==
  /\ io[w] = "broken"
  /\ RecordFailure(pc, [io EXCEPT ![w] = "exit"])
  /\ job' = [job EXCEPT ![w] = None]
  /\ Silent /\ UNCHANGED <<up, memory, disk, arg, held, known, ghosts>>

-----------------------------------------------------------------------------
(* submit_prefetch_tasks(): any queued state may name the content.          *)
PrefetchSubmit(d) ==
  /\ Ready /\ ~packed_failed /\ WarmSize > 0 /\ d \in packed
  /\ Resident(HashOf[d]) = {} /\ d \notin Range(prefetch_queue) \cup {fetching}
  /\ Len(prefetch_queue) + (IF fetching = None THEN 0 ELSE 1) < MaxInflight
  /\ prefetch_queue' = Append(prefetch_queue, d)
  /\ Silent /\ UNCHANGED <<up, failure, pending, io_queue, pending_bytes, hot, warm, fetching, disk,
                 calls, workers, ghosts>>

(* prefetch_worker(), one thread.                                           *)
PrefetchTakes ==
  /\ Ready /\ fetching = None /\ prefetch_queue # <<>>
  /\ fetching' = Head(prefetch_queue) /\ prefetch_queue' = Tail(prefetch_queue)
  /\ Silent /\ UNCHANGED <<up, failure, pending, io_queue, pending_bytes, hot, warm, disk, calls,
                 workers, ghosts>>

PrefetchInserts ==
  /\ fetching # None /\ ~packed_failed
  /\ warm' = Insert(warm, WarmSize, fetching) /\ fetching' = None
  /\ Silent /\ UNCHANGED <<up, failure, pending, io_queue, pending_bytes, hot, prefetch_queue, disk,
                 calls, workers, ghosts>>

PrefetchFails ==
  /\ fetching # None /\ packed_failed /\ fetching' = None
  /\ RecordFailure(pc, io)
  /\ Silent /\ UNCHANGED <<up, pending, io_queue, pending_bytes, hot, warm, prefetch_queue, disk, arg,
                 held, known, job, ghosts>>

-----------------------------------------------------------------------------
(* init(); when the packed store refuses its files the store stays down.    *)
Open ==
  /\ up = "down" /\ up' = "running" /\ failure' = FALSE /\ packed_failed' = FALSE
  /\ io' = [w \in Io |-> "check"]
  /\ Silent /\ UNCHANGED <<memory, packed, synced, calls, job, ghosts>>

(* shutdown() takes lifecycle_mutex_ alone, so no call is under way.        *)
BeginShutdown ==
  /\ up = "running" /\ \A c \in Client : pc[c] = "idle"
  /\ up' = "stopping" /\ io' = Woken(io, "sleep", "check")
  /\ Silent /\ UNCHANGED <<failure, memory, disk, calls, job, ghosts>>

Forget ==
  /\ pending' = {} /\ io_queue' = <<>> /\ pending_bytes' = 0 /\ hot' = <<>> /\ warm' = <<>>
  /\ prefetch_queue' = <<>> /\ fetching' = None

(* The threads are joined and the packed store is synced.  What was         *)
(* accepted is promised unless the shutdown rethrows a failure.             *)
Joined == (\A w \in Io : io[w] = "exit") /\ fetching = None

EndShutdown ==
  /\ up = "stopping" /\ Joined /\ ~packed_failed
  /\ up' = "down" /\ Forget /\ synced' = packed
  /\ promised' = IF failure THEN promised ELSE promised \cup accepted
  /\ accepted' = IF failure THEN accepted \cap packed ELSE accepted
  /\ Silent /\ UNCHANGED <<failure, packed, packed_failed, calls, workers, faults>>

(* The sync of the shutdown throws.                                         *)
ShutdownFails ==
  /\ up = "stopping" /\ Joined
  /\ \/ packed_failed /\ UNCHANGED faults
     \/ faults < Faults /\ faults' = faults + 1
  /\ up' = "down" /\ Forget /\ accepted' = accepted \cap packed
  /\ Silent /\ UNCHANGED <<failure, disk, calls, workers, promised>>

(* The machine stops: what was not synced may be gone.                      *)
PowerLoss ==
  /\ faults < Faults /\ faults' = faults + 1
  /\ \E kept \in SUBSET packed :
       synced \subseteq kept /\ packed' = kept /\ synced' = kept /\ accepted' = accepted \cap kept
  /\ up' = "down" /\ failure' = FALSE /\ packed_failed' = FALSE /\ Forget
  /\ pc' = [c \in Client |-> "idle"] /\ arg' = [c \in Client |-> None]
  /\ result' = "none" /\ held' = [c \in Client |-> None]
  /\ known' = [c \in Client |-> FALSE]
  /\ io' = [w \in Io |-> "exit"] /\ job' = [w \in Io |-> None]
  /\ UNCHANGED promised

Begins(c) ==
  \/ Refused(c) \/ Wait(c)
  \/ \E d \in Content, r \in Hashes \cup {None} : Save(c, d, r)
  \/ \E h \in Hashes : LoadHits(c, h) \/ LoadMisses(c, h)
Serves(c) ==
  \/ AdmitKnown(c) \/ AdmitWaits(c) \/ AdmitNew(c) \/ AdmitThrows(c) \/ CallFails(c)
  \/ WaitBlocks(c) \/ WaitFlushes(c) \/ WaitFails(c)
  \/ LoadFindsNothing(c) \/ LoadReads(c) \/ LoadThrows(c) \/ LoadReturns(c)
Works(w) ==
  IoExits(w) \/ IoSleeps(w) \/ IoTakes(w) \/ IoWrites(w) \/ IoRetires(w) \/ IoBreaks(w)
             \/ IoRecords(w)

TNext ==
  \/ \E c \in Client : Begins(c) \/ Serves(c)
  \/ \E w \in Io : Works(w)
  \/ \E d \in Content : PrefetchSubmit(d)
  \/ PrefetchTakes \/ PrefetchInserts \/ PrefetchFails
  \/ Open \/ BeginShutdown \/ EndShutdown \/ ShutdownFails \/ PowerLoss

(* A runnable thread goes on; nobody is obliged to call, to open or to      *)
(* shut the store down.                                                     *)
TSpec ==
  /\ TInit /\ [][TNext]_tvars
  /\ \A c \in Client : WF_tvars(Serves(c))
  /\ \A w \in Io : WF_tvars(Works(w))
  /\ WF_tvars(PrefetchInserts \/ PrefetchFails)

-----------------------------------------------------------------------------
(* The type invariant; pending_bytes_, an unsigned counter that save() and  *)
(* io_worker() update, never goes below zero.                               *)
TTypeOK ==
  /\ up \in {"down", "running", "stopping"} /\ failure \in BOOLEAN /\ packed_failed \in BOOLEAN
  /\ pending_bytes \in Nat
  /\ pending \subseteq Content /\ synced \subseteq packed /\ packed \subseteq Content
  /\ accepted \subseteq Content /\ promised \subseteq Content
  /\ pc \in [Client -> {"idle", "admit", "space", "flush", "complete", "read", "found"}]
  /\ io \in [Io -> {"check", "sleep", "write", "retire", "broken", "exit"}]
  /\ \A c \in Client : held[c] \in Content \cup {None}
  /\ \A w \in Io : job[w] \in Content \cup {None}
  /\ fetching \in Content \cup {None} /\ Range(prefetch_queue) \subseteq Content

(* An accepted snapshot is never dropped: as long as the store is open its  *)
(* bytes are waiting in pending_ or are in the packed store, and a cache    *)
(* only holds bytes that are, so that a save answered from a cache (the     *)
(* deduplication of save()) has accepted bytes that will be durable.  No two *)
(* contents of one hash are accepted or stored, whatever callers interleave: *)
(* "hashes are keys, not permission to discard snapshot bytes" (save()).    *)
AcceptedIsKept ==
  /\ up # "down" => accepted \cup Range(hot) \cup Range(warm) \subseteq pending \cup packed
  /\ \A S \in {accepted \cup promised, pending \cup packed} :
       \A d, e \in S : HashOf[d] = HashOf[e] => d = e

(* What wait_for_completion() or shutdown() has confirmed survives every    *)
(* later failure and power loss.                                            *)
PromisedIsDurable == promised \subseteq synced

(* A load of a hash that save() had returned answers its bytes, or throws;  *)
(* it never answers "not found", whatever the I/O worker, the evictions and *)
(* the other callers do between the lookups.                                *)
LoadAnswersAccepted ==
  [][\A c \in Client :
       (known[c] /\ pc[c] # "idle" /\ pc'[c] = "idle" /\ up' # "down")
         => result' \in {"error"} \cup Of(accepted, arg[c])]_tvars

(* A caller asleep on space_cv_ or completion_cv_ always has someone to     *)
(* wake it: the store is running, a write it waits for is queued or in the  *)
(* hands of an I/O worker, and while writes are queued a worker is awake.   *)
SleepersWillWake ==
  /\ \A c \in Client : pc[c] \in {"space", "complete"} => Ready /\ pending # {}
  /\ (up # "down" /\ ~failure) => pending = Range(io_queue) \cup ({job[w] : w \in Io} \ {None})
  /\ (io_queue # <<>> /\ ~failure) => \E w \in Io : io[w] \notin {"sleep", "exit"}
=============================================================================
