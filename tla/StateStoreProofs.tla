-------------------------- MODULE StateStoreProofs --------------------------
(***************************************************************************)
(* Theorems about the snapshot store: no caller sleeps for ever, accepted  *)
(* bytes are kept, confirmed bytes are durable, and a load of an accepted  *)
(* hash answers its bytes.                                                 *)
(***************************************************************************)
EXTENDS StateStore, TLAPS

Place == {"idle", "admit", "space", "flush", "complete", "read", "found"}
Post  == {"check", "sleep", "write", "retire", "broken", "exit"}

(* The types, one group of variables at a time.                             *)
TypedCore ==
  /\ up \in {"down", "running", "stopping"} /\ failure \in BOOLEAN
  /\ pending \subseteq Content /\ packed \subseteq Content /\ synced \subseteq packed
TypedLists ==
  /\ io_queue \in Seq(Content) /\ prefetch_queue \in Seq(Content)
  /\ hot \in Seq(Content) /\ warm \in Seq(Content) /\ fetching \in Content \cup {None}
TypedCalls ==
  /\ pc \in [Client -> Place] /\ held \in [Client -> Content \cup {None}]
  /\ known \in [Client -> BOOLEAN] /\ arg \in [Client -> Content \cup Hashes \cup {None}]
  /\ \A c \in Client : pc[c] \in {"admit", "space"} => arg[c] \in Content
TypedWorkers ==
  io \in [Io -> Post] /\ job \in [Io -> Content \cup {None}]
Typed == TypedCore /\ TypedLists /\ TypedCalls /\ TypedWorkers

(* A content waits for its write at one place: in io_queue_ once, or in the *)
(* hands of one worker.                                                     *)
Once ==
  /\ \A i, j \in DOMAIN io_queue : io_queue[i] = io_queue[j] => i = j
  /\ \A w \in Io, i \in DOMAIN io_queue : job[w] # io_queue[i]
  /\ \A v, w \in Io : job[v] = job[w] /\ job[v] # None => v = w
  /\ \A i \in DOMAIN io_queue : io_queue[i] \in pending
  /\ \A w \in Io : job[w] # None => job[w] \in pending

(* What a worker holds at each place, and when it has left.                 *)
Posted ==
  /\ \A w \in Io : job[w] # None <=> io[w] \in {"write", "retire", "broken"}
  /\ \A w \in Io : io[w] = "retire" => job[w] \in packed
  /\ up = "down" => \A w \in Io : io[w] = "exit"
  /\ (up = "running" /\ ~failure) => \A w \in Io : io[w] # "exit"
  /\ (up = "stopping" /\ ~failure) => \A w \in Io : io[w] = "exit" => io_queue = <<>>
  /\ (io_queue # <<>> /\ ~failure) => \E w \in Io : io[w] \notin {"sleep", "exit"}

(* Nothing is pending that nobody will write.                               *)
Carried ==
  /\ (up # "down" /\ ~failure) =>
       \A d \in pending : (\E i \in DOMAIN io_queue : io_queue[i] = d) \/ \E w \in Io : job[w] = d
  /\ up = "down" => pending = {} /\ io_queue = <<>> /\ fetching = None

(* The caches and the prefetcher hold stored bytes, a hash is stored once.  *)
Stored ==
  /\ accepted \subseteq pending \cup packed
  /\ Range(hot) \subseteq pending \cup packed /\ Range(warm) \subseteq pending \cup packed
  /\ \A d, e \in pending \cup packed : HashOf[d] = HashOf[e] => d = e
  /\ Range(prefetch_queue) \subseteq packed /\ fetching \in packed \cup {None}
  /\ promised \subseteq synced

(* What a call under way relies on.                                         *)
Called ==
  /\ up # "running" => \A c \in Client : pc[c] = "idle"
  /\ \A c \in Client : pc[c] \in {"space", "complete"} => Ready /\ pending # {}
  /\ \A c \in Client : pc[c] = "found" => held[c] \in Of(pending \cup packed, arg[c])
  /\ \A c \in Client : known[c] =>
       /\ pc[c] \in {"read", "found"} /\ Of(accepted, arg[c]) # {}
       /\ pc[c] = "read" => Of(accepted \cap packed, arg[c]) # {}

StoreInv == Typed /\ Once /\ Posted /\ Carried /\ Stored /\ Called

-----------------------------------------------------------------------------
(* Two lists joined hold what each of them holds.                           *)
LEMMA JoinRange ==
  ASSUME NEW S, NEW a \in Seq(S), NEW b \in Seq(S)
  PROVE  a \o b \in Seq(S) /\ Range(a \o b) \subseteq Range(a) \cup Range(b)
<1> DEFINE t == a \o b
<1>1. t \in Seq(S) /\ Len(t) = Len(a) + Len(b)
  OBVIOUS
<1>2. \A k \in 1..(Len(a) + Len(b)) :
        \/ k \in DOMAIN a /\ t[k] = a[k]
        \/ k - Len(a) \in DOMAIN b /\ t[k] = b[k - Len(a)]
  OBVIOUS
<1>3. DOMAIN t = 1..(Len(a) + Len(b))
  BY <1>1
<1> HIDE DEF t
<1>4. \A k \in DOMAIN t : t[k] \in Range(a) \cup Range(b)
  BY <1>2, <1>3 DEF Range
<1>5. t \in Seq(S) /\ Range(t) \subseteq Range(a) \cup Range(b)
  BY <1>1, <1>4 DEF Range
<1> QED
  BY <1>5 DEF t

(* A stretch of a list holds nothing else.                                  *)
LEMMA PartRange ==
  ASSUME NEW S, NEW q \in Seq(S), NEW m \in 1..(Len(q) + 1), NEW n \in 0..Len(q)
  PROVE  SubSeq(q, m, n) \in Seq(S) /\ Range(SubSeq(q, m, n)) \subseteq Range(q)
<1> DEFINE t == SubSeq(q, m, n)
<1>1. t \in Seq(S) /\ \A k \in DOMAIN t : k + m - 1 \in DOMAIN q /\ t[k] = q[k + m - 1]
  OBVIOUS
<1> HIDE DEF t
<1>2. t \in Seq(S) /\ Range(t) \subseteq Range(q)
  BY <1>1 DEF Range
<1> QED
  BY <1>2 DEF t

(* A list with one entry.                                                   *)
LEMMA UnitRange ==
  ASSUME NEW S, NEW d \in S
  PROVE  <<d>> \in Seq(S) /\ Range(<<d>>) = {d}
<1>1. <<d>> \in Seq(S) /\ DOMAIN <<d>> = {1} /\ <<d>>[1] = d
  OBVIOUS
<1> QED
  BY <1>1 DEF Range

(* A hit moves within its cache: find_cache() adds nothing.                 *)
LEMMA TouchRange ==
  ASSUME NEW S, NEW cache \in Seq(S), NEW h
  PROVE  Touch(cache, h) \in Seq(S) /\ Range(Touch(cache, h)) \subseteq Range(cache)
<1>1. CASE Of(Range(cache), h) = {}
  BY <1>1 DEF Touch
<1>2. CASE Of(Range(cache), h) # {}
  <2> DEFINE i == CHOOSE n \in DOMAIN cache : HashOf[cache[n]] = h
             u == <<cache[i]>>
             a == SubSeq(cache, 1, i - 1)
             b == SubSeq(cache, i + 1, Len(cache))
  <2>1. \E n \in DOMAIN cache : HashOf[cache[n]] = h
    BY <1>2 DEF Of, Range
  <2>2. i \in DOMAIN cache
    BY <2>1
  <2>3. Touch(cache, h) = u \o a \o b
    BY <1>2, Zenon DEF Touch
  <2> HIDE DEF i
  <2>4. i \in 1..Len(cache) /\ cache[i] \in S /\ cache[i] \in Range(cache)
    BY <2>2 DEF Range
  <2>5. u \in Seq(S) /\ Range(u) \subseteq Range(cache)
    BY <2>4, UnitRange
  <2>6. a \in Seq(S) /\ Range(a) \subseteq Range(cache)
    BY <2>4, PartRange, 1 \in 1..(Len(cache) + 1), i - 1 \in 0..Len(cache)
  <2>7. b \in Seq(S) /\ Range(b) \subseteq Range(cache)
    BY <2>4, PartRange, i + 1 \in 1..(Len(cache) + 1), Len(cache) \in 0..Len(cache)
  <2> HIDE DEF u, a, b
  <2>8. u \o a \in Seq(S) /\ Range(u \o a) \subseteq Range(cache)
    BY <2>5, <2>6, JoinRange, Zenon
  <2>9. u \o a \o b \in Seq(S) /\ Range(u \o a \o b) \subseteq Range(cache)
    BY <2>7, <2>8, JoinRange, Zenon
  <2> QED
    BY <2>3, <2>9
<1> QED
  BY <1>1, <1>2

(* insert_cache() adds nothing but the new entry.                           *)
LEMMA InsertRange ==
  ASSUME NEW S, NEW cache \in Seq(S), NEW capacity, NEW d \in S
  PROVE  /\ Insert(cache, capacity, d) \in Seq(S)
         /\ Range(Insert(cache, capacity, d)) \subseteq Range(cache) \cup {d}
<1>1. CASE Size[d] > capacity \/ Of(Range(cache), HashOf[d]) # {}
  BY <1>1 DEF Insert
<1>2. CASE ~(Size[d] > capacity \/ Of(Range(cache), HashOf[d]) # {})
  <2> DEFINE Fit(n) == Bytes(Range(SubSeq(cache, 1, n))) <= capacity - Size[d]
             last == {n \in 1..Len(cache) : Fit(n) /\ \A m \in (n + 1)..Len(cache) : ~Fit(m)}
             kept == IF last = {} THEN <<>> ELSE SubSeq(cache, 1, CHOOSE n \in last : TRUE)
  <2>1. Insert(cache, capacity, d) = <<d>> \o kept
    BY <1>2, Zenon DEF Insert
  <2>2. last \subseteq 1..Len(cache)
    OBVIOUS
  <2> HIDE DEF last
  <2>3. kept \in Seq(S) /\ Range(kept) \subseteq Range(cache)
    <3>1. CASE last = {}
      BY <3>1 DEF Range
    <3>2. CASE last # {}
      <4>1. PICK n \in 1..Len(cache) : kept = SubSeq(cache, 1, n)
        BY <2>2, <3>2, Zenon
      <4>2. n \in 0..Len(cache) /\ 1 \in 1..(Len(cache) + 1)
        OBVIOUS
      <4> HIDE DEF kept
      <4> QED
        BY <4>1, <4>2, PartRange
    <3> QED
      BY <3>1, <3>2
  <2> HIDE DEF kept
  <2>4. <<d>> \in Seq(S) /\ Range(<<d>>) = {d}
    BY UnitRange
  <2>5. Range(<<d>> \o kept) \subseteq Range(<<d>>) \cup Range(kept)
    BY <2>3, <2>4, JoinRange, Zenon
  <2>6. <<d>> \o kept \in Seq(S)
    BY <2>3, <2>4, JoinRange, Zenon
  <2> QED
    BY <2>1, <2>3, <2>4, <2>5, <2>6, Zenon
<1> QED
  BY <1>1, <1>2

(* A queue with one more entry, index by index.                             *)
LEMMA AppendEntries ==
  ASSUME NEW S, NEW q \in Seq(S), NEW d \in S, NEW t, t = Append(q, d)
  PROVE  /\ t \in Seq(S)
         /\ DOMAIN t = DOMAIN q \cup {Len(q) + 1} /\ Len(q) + 1 \notin DOMAIN q
         /\ \A i \in DOMAIN q : t[i] = q[i]
         /\ t[Len(q) + 1] = d
  OBVIOUS

(* A queue without its first entry, index by index.                         *)
LEMMA TailEntries ==
  ASSUME NEW S, NEW q \in Seq(S), q # <<>>, NEW t, t = Tail(q)
  PROVE  /\ t \in Seq(S) /\ Head(q) \in S
         /\ 1 \in DOMAIN q /\ Head(q) = q[1]
         /\ \A i \in DOMAIN t : i + 1 \in DOMAIN q /\ i + 1 # 1 /\ t[i] = q[i + 1]
         /\ \A i \in DOMAIN q : i # 1 => \E j \in DOMAIN t : t[j] = q[i]
         /\ \A i, j \in DOMAIN t : i + 1 = j + 1 => i = j
<1>1. Len(q) \in Nat /\ Len(q) >= 1 /\ DOMAIN q = 1..Len(q)
  OBVIOUS
<1>2. /\ t \in Seq(S) /\ DOMAIN t = 1..(Len(q) - 1)
      /\ \A i \in 1..(Len(q) - 1) : t[i] = q[i + 1]
  BY <1>1
<1>3. Head(q) = q[1] /\ Head(q) \in S
  OBVIOUS
<1>4. ASSUME NEW i \in DOMAIN q, i # 1 PROVE \E j \in DOMAIN t : t[j] = q[i]
  <2>1. i - 1 \in 1..(Len(q) - 1) /\ (i - 1) + 1 = i
    BY <1>1, <1>4
  <2> QED
    BY <1>2, <2>1
<1>5. \A i \in DOMAIN t : i + 1 \in DOMAIN q /\ i + 1 # 1 /\ t[i] = q[i + 1]
  BY <1>1, <1>2
<1>6. \A i, j \in DOMAIN t : i + 1 = j + 1 => i = j
  BY <1>2
<1>7. 1 \in DOMAIN q
  BY <1>1
<1> QED
  BY <1>2, <1>3, <1>4, <1>5, <1>6, <1>7, Zenon

-----------------------------------------------------------------------------
(* notify_all() moves the sleepers of the two condition variables only.     *)
LEMMA WakeFacts ==
  ASSUME NEW places \in [Client -> Place]
  PROVE  /\ WakeClients(places) \in [Client -> Place]
         /\ \A c \in Client :
              \/ WakeClients(places)[c] = places[c] /\ places[c] \notin {"space", "complete"}
              \/ places[c] = "space" /\ WakeClients(places)[c] = "admit"
              \/ places[c] = "complete" /\ WakeClients(places)[c] = "flush"
<1> DEFINE a == Woken(places, "space", "admit")
<1>1. a \in [Client -> Place] /\ \A c \in Client : a[c] = IF places[c] = "space" THEN "admit" ELSE places[c]
  BY DEF Woken, Place
<1>2. WakeClients(places) = Woken(a, "complete", "flush")
  BY DEF WakeClients
<1> HIDE DEF a
<1>3. /\ WakeClients(places) \in [Client -> Place]
      /\ \A c \in Client : WakeClients(places)[c] = IF a[c] = "complete" THEN "flush" ELSE a[c]
  BY <1>1, <1>2 DEF Woken, Place
<1> QED
  BY <1>1, <1>3 DEF Place

(* notify_all() on work_cv_.                                                *)
LEMMA WorkersWake ==
  ASSUME NEW ios \in [Io -> Post]
  PROVE  /\ Woken(ios, "sleep", "check") \in [Io -> Post]
         /\ \A w \in Io :
              \/ Woken(ios, "sleep", "check")[w] = ios[w] /\ ios[w] # "sleep"
              \/ ios[w] = "sleep" /\ Woken(ios, "sleep", "check")[w] = "check"
  BY DEF Woken, Post

-----------------------------------------------------------------------------
(* The calls that neither queue a content nor record a failure leave the    *)
(* queue, the workers and what is stored alone.                             *)
QuietServe(c) ==
  \/ AdmitKnown(c) \/ AdmitWaits(c) \/ AdmitThrows(c) \/ CallFails(c)
  \/ WaitBlocks(c) \/ WaitFlushes(c)
  \/ LoadFindsNothing(c) \/ LoadReads(c) \/ LoadThrows(c) \/ LoadReturns(c)
Prefetches == PrefetchTakes \/ PrefetchInserts \/ \E d \in Content : PrefetchSubmit(d)
queue == <<up, failure, pending, io_queue, io, job, packed, faults>>

(* A call that neither admits nor fails leaves the queue alone.             *)
LEMMA QuietCall ==
  ASSUME NEW c \in Client, Begins(c) \/ QuietServe(c)
  PROVE  UNCHANGED <<queue, prefetch_queue, fetching>>
<1> USE DEF queue, memory, disk, workers, ghosts
<1>1. ASSUME Refused(c) \/ Wait(c) PROVE UNCHANGED <<queue, prefetch_queue, fetching>>
  BY <1>1 DEF Refused, Wait
<1>2. ASSUME NEW d \in Content, NEW r \in Hashes \cup {None}, Save(c, d, r)
      PROVE  UNCHANGED <<queue, prefetch_queue, fetching>>
  BY <1>2 DEF Save
<1>3. ASSUME NEW h \in Hashes, LoadHits(c, h) \/ LoadMisses(c, h)
      PROVE  UNCHANGED <<queue, prefetch_queue, fetching>>
  BY <1>3 DEF LoadHits, LoadMisses
<1>4. ASSUME AdmitKnown(c) \/ AdmitWaits(c) \/ AdmitThrows(c) \/ CallFails(c)
      PROVE  UNCHANGED <<queue, prefetch_queue, fetching>>
  BY <1>4 DEF AdmitKnown, AdmitWaits, AdmitThrows, CallFails
<1>5. ASSUME WaitBlocks(c) \/ WaitFlushes(c) PROVE UNCHANGED <<queue, prefetch_queue, fetching>>
  BY <1>5 DEF WaitBlocks, WaitFlushes
<1>6. ASSUME LoadFindsNothing(c) \/ LoadReads(c) \/ LoadThrows(c) \/ LoadReturns(c)
      PROVE  UNCHANGED <<queue, prefetch_queue, fetching>>
  BY <1>6 DEF LoadFindsNothing, LoadReads, LoadThrows, LoadReturns
<1> QED
  BY <1>1, <1>2, <1>3, <1>4, <1>5, <1>6, Zenon DEF Begins, QuietServe

(* The prefetcher's own steps touch only its queue and the warm cache.      *)
LEMMA QuietPrefetch ==
  ASSUME Prefetches
  PROVE  UNCHANGED <<queue, calls, synced, hot, accepted, promised>>
  BY DEF Prefetches, PrefetchTakes, PrefetchInserts, PrefetchSubmit, queue, disk, workers, ghosts

(* The steps of the specification, sorted by what they touch.               *)
LEMMA StepCases ==
  ASSUME TNext
  PROVE  \/ \E c \in Client : Begins(c) \/ QuietServe(c)
         \/ \E c \in Client : AdmitNew(c) \/ WaitFails(c)
         \/ \E w \in Io : Works(w)
         \/ Prefetches \/ PrefetchFails
         \/ Open \/ BeginShutdown \/ EndShutdown \/ ShutdownFails \/ PowerLoss
  BY Zenon DEF TNext, Serves, QuietServe, Prefetches

-----------------------------------------------------------------------------
(* The status, pending_ and the packed store keep their types in every      *)
(* step.                                                                    *)
LEMMA CoreStep ==
  ASSUME TypedCore, TypedCalls, TypedWorkers, Once, Posted, TNext
  PROVE  TypedCore'
<1> USE DEF TypedCore, memory, disk
<1>1. ASSUME NEW c \in Client, Begins(c) \/ QuietServe(c) PROVE TypedCore'
  <2>1. UNCHANGED <<up, failure, pending, packed>>
    BY <1>1, QuietCall DEF queue
  <2>2. synced' \in {synced, packed}
    BY <1>1, Zenon DEF Begins, QuietServe, Refused, Wait, Save, LoadHits, LoadMisses, AdmitKnown,
                AdmitWaits, AdmitThrows, CallFails, WaitBlocks, WaitFlushes, LoadFindsNothing,
                LoadReads, LoadThrows, LoadReturns
  <2> QED
    BY <2>1, <2>2
<1>2. ASSUME NEW c \in Client, AdmitNew(c) PROVE TypedCore'
  <2>1. arg[c] \in Content
    BY <1>2 DEF AdmitNew, TypedCalls
  <2> QED
    BY <1>2, <2>1 DEF AdmitNew
<1>3. ASSUME NEW c \in Client, WaitFails(c) PROVE TypedCore'
  BY <1>3 DEF WaitFails, RecordFailure
<1>4. ASSUME NEW w \in Io, Works(w) PROVE TypedCore'
  <2>1. CASE IoWrites(w)
    <3>1. job[w] \in Content
      BY <2>1 DEF IoWrites, TypedWorkers, Posted
    <3> QED
      BY <2>1, <3>1 DEF IoWrites
  <2>2. CASE IoExits(w) \/ IoSleeps(w) \/ IoTakes(w) \/ IoBreaks(w)
    BY <2>2 DEF IoExits, IoSleeps, IoTakes, IoBreaks
  <2>3. CASE IoRetires(w) \/ IoRecords(w)
    BY <2>3, Zenon DEF IoRetires, IoRecords, RecordFailure
  <2> QED
    BY <1>4, <2>1, <2>2, <2>3, Zenon DEF Works
<1>5. ASSUME Prefetches PROVE TypedCore'
  BY <1>5, QuietPrefetch DEF queue
<1>6. ASSUME PrefetchFails PROVE TypedCore'
  BY <1>6 DEF PrefetchFails, RecordFailure
<1>7. ASSUME Open \/ BeginShutdown \/ EndShutdown \/ ShutdownFails PROVE TypedCore'
  BY <1>7, Zenon DEF Open, BeginShutdown, EndShutdown, ShutdownFails, Forget
<1>8. ASSUME PowerLoss PROVE TypedCore'
  BY <1>8, Zenon DEF PowerLoss, Forget
<1> QED
  BY StepCases, <1>1, <1>2, <1>3, <1>4, <1>5, <1>6, <1>7, <1>8, Zenon

(* The I/O workers keep to their places in every step.                      *)
LEMMA WorkersStep ==
  ASSUME TypedLists, TypedWorkers, TNext
  PROVE  TypedWorkers'
<1> USE DEF TypedWorkers, workers
<1>1. ASSUME NEW c \in Client, Begins(c) \/ QuietServe(c) PROVE TypedWorkers'
  BY <1>1, QuietCall DEF queue
<1>2. ASSUME NEW c \in Client, AdmitNew(c) PROVE TypedWorkers'
  BY <1>2, Zenon DEF AdmitNew, NotifyWork, Post
<1>3. ASSUME NEW c \in Client, WaitFails(c) PROVE TypedWorkers'
  BY <1>3, WorkersWake DEF WaitFails, RecordFailure
<1>4. ASSUME NEW w \in Io, Works(w) PROVE TypedWorkers'
  <2>1. CASE IoTakes(w)
    <3>1. Head(io_queue) \in Content
      BY <2>1 DEF IoTakes, TypedLists
    <3> QED
      BY <2>1, <3>1 DEF IoTakes, Post
  <2>2. CASE IoExits(w) \/ IoSleeps(w) \/ IoWrites(w) \/ IoBreaks(w)
    BY <2>2 DEF IoExits, IoSleeps, IoWrites, IoBreaks, Post
  <2>3. CASE IoRetires(w)
    BY <2>3 DEF IoRetires, Post
  <2>4. CASE IoRecords(w)
    <3>1. [io EXCEPT ![w] = "exit"] \in [Io -> Post]
      BY DEF Post
    <3>2. Woken([io EXCEPT ![w] = "exit"], "sleep", "check") \in [Io -> Post]
      BY <3>1, WorkersWake, Zenon
    <3>3. io' = Woken([io EXCEPT ![w] = "exit"], "sleep", "check") /\ job' = [job EXCEPT ![w] = None]
      BY <2>4 DEF IoRecords, RecordFailure
    <3> QED
      BY <3>2, <3>3, Zenon
  <2> QED
    BY <1>4, <2>1, <2>2, <2>3, <2>4, Zenon DEF Works
<1>5. ASSUME Prefetches PROVE TypedWorkers'
  BY <1>5, QuietPrefetch DEF queue
<1>6. ASSUME PrefetchFails PROVE TypedWorkers'
  BY <1>6, WorkersWake DEF PrefetchFails, RecordFailure
<1>7. ASSUME Open \/ BeginShutdown \/ EndShutdown \/ ShutdownFails PROVE TypedWorkers'
  BY <1>7, WorkersWake DEF Open, BeginShutdown, EndShutdown, ShutdownFails, Post
<1>8. ASSUME PowerLoss PROVE TypedWorkers'
  BY <1>8 DEF PowerLoss, Post
<1> QED
  BY StepCases, <1>1, <1>2, <1>3, <1>4, <1>5, <1>6, <1>7, <1>8, Zenon

(* The queues and the caches stay lists of contents in every step.          *)
LEMMA ListsStep ==
  ASSUME TypedCore, TypedLists, TypedCalls, TypedWorkers, Posted, Stored, Called, TNext
  PROVE  TypedLists'
<1> USE DEF TypedLists, memory
<1>1. ASSUME NEW c \in Client, Begins(c) PROVE TypedLists'
  <2>1. CASE Refused(c) \/ Wait(c)
    BY <2>1 DEF Refused, Wait
  <2>2. ASSUME NEW d \in Content, NEW r \in Hashes \cup {None}, Save(c, d, r) PROVE TypedLists'
    BY <2>2, TouchRange DEF Save
  <2>3. ASSUME NEW h \in Hashes, LoadHits(c, h) PROVE TypedLists'
    BY <2>3, TouchRange DEF LoadHits
  <2>4. ASSUME NEW h \in Hashes, LoadMisses(c, h) PROVE TypedLists'
    BY <2>4, TouchRange DEF LoadMisses
  <2> QED
    BY <1>1, <2>1, <2>2, <2>3, <2>4, Zenon DEF Begins
<1>2. ASSUME NEW c \in Client, QuietServe(c) PROVE TypedLists'
  <2>1. CASE AdmitKnown(c)
    BY <2>1, TouchRange, Zenon DEF AdmitKnown
  <2>2. CASE LoadReads(c)
    <3>1. PICK d \in packed : warm' = Insert(warm, WarmSize, d)
      BY <2>2 DEF LoadReads, Of
    <3>2. warm' \in Seq(Content)
      BY <3>1, InsertRange DEF TypedCore
    <3> QED
      BY <2>2, <3>2 DEF LoadReads
  <2>3. CASE LoadReturns(c)
    <3>1. held[c] \in Content
      BY <2>3, Zenon DEF LoadReturns, Called, Of, TypedCore
    <3>2. hot' \in Seq(Content)
      BY <2>3, <3>1, InsertRange, Zenon DEF LoadReturns
    <3> QED
      BY <2>3, <3>2, Zenon DEF LoadReturns
  <2>4. CASE AdmitWaits(c) \/ AdmitThrows(c) \/ CallFails(c)
    BY <2>4, Zenon DEF AdmitWaits, AdmitThrows, CallFails
  <2>5. CASE WaitBlocks(c) \/ WaitFlushes(c) \/ LoadFindsNothing(c) \/ LoadThrows(c)
    BY <2>5, Zenon DEF WaitBlocks, WaitFlushes, LoadFindsNothing, LoadThrows
  <2> QED
    BY <1>2, <2>1, <2>2, <2>3, <2>4, <2>5, Zenon DEF QuietServe
<1>3. ASSUME NEW c \in Client, AdmitNew(c) PROVE TypedLists'
  <2>1. arg[c] \in Content
    BY <1>3 DEF AdmitNew, TypedCalls
  <2>2. hot' \in Seq(Content)
    BY <1>3, <2>1, InsertRange, Zenon DEF AdmitNew
  <2>3. io_queue' \in Seq(Content)
    <3>1. io_queue \in Seq(Content) /\ io_queue' = Append(io_queue, arg[c])
      BY <1>3, Zenon DEF AdmitNew
    <3> QED
      BY ONLY <2>1, <3>1, AppendEntries, SMT
  <2> QED
    BY <1>3, <2>2, <2>3, Zenon DEF AdmitNew
<1>4. ASSUME NEW c \in Client, WaitFails(c) PROVE TypedLists'
  BY <1>4 DEF WaitFails
<1>5. ASSUME NEW w \in Io, Works(w) PROVE TypedLists'
  <2>1. CASE IoTakes(w)
    <3>1. io_queue' \in Seq(Content)
      BY <2>1 DEF IoTakes
    <3> QED
      BY <2>1, <3>1 DEF IoTakes
  <2>2. CASE IoRetires(w)
    <3>1. job[w] \in Content
      BY <2>2 DEF IoRetires, Posted, TypedCore
    <3>2. warm' \in Seq(Content)
      BY <2>2, <3>1, InsertRange DEF IoRetires
    <3> QED
      BY <2>2, <3>2 DEF IoRetires
  <2>3. CASE IoExits(w) \/ IoSleeps(w) \/ IoWrites(w) \/ IoBreaks(w) \/ IoRecords(w)
    BY <2>3 DEF IoExits, IoSleeps, IoWrites, IoBreaks, IoRecords
  <2> QED
    BY <1>5, <2>1, <2>2, <2>3, Zenon DEF Works
<1>6. ASSUME Prefetches PROVE TypedLists'
  <2>1. CASE PrefetchTakes
    <3>1. fetching' \in Content /\ prefetch_queue' \in Seq(Content)
      BY <2>1 DEF PrefetchTakes
    <3> QED
      BY <2>1, <3>1 DEF PrefetchTakes
  <2>2. CASE PrefetchInserts
    <3>1. warm' \in Seq(Content)
      BY <2>2, InsertRange DEF PrefetchInserts
    <3> QED
      BY <2>2, <3>1 DEF PrefetchInserts
  <2>3. ASSUME NEW d \in Content, PrefetchSubmit(d) PROVE TypedLists'
    <3>1. prefetch_queue' \in Seq(Content)
      BY <2>3 DEF PrefetchSubmit
    <3> QED
      BY <2>3, <3>1 DEF PrefetchSubmit
  <2> QED
    BY <1>6, <2>1, <2>2, <2>3, Zenon DEF Prefetches
<1>7. ASSUME PrefetchFails PROVE TypedLists'
  BY <1>7 DEF PrefetchFails
<1>8. ASSUME Open \/ BeginShutdown PROVE TypedLists'
  BY <1>8 DEF Open, BeginShutdown
<1>9. ASSUME EndShutdown \/ ShutdownFails \/ PowerLoss PROVE TypedLists'
  <2>1. Forget
    BY <1>9, Zenon DEF EndShutdown, ShutdownFails, PowerLoss
  <2> QED
    BY <2>1 DEF Forget
<1> QED
  BY StepCases, <1>1, <1>2, <1>3, <1>4, <1>5, <1>6, <1>7, <1>8, <1>9, Zenon

(* A call that returns leaves the other calls alone.                        *)
LEMMA AnswerTyped ==
  ASSUME TypedCalls, NEW c \in Client, NEW r, Answer(c, r)
  PROVE  TypedCalls'
  BY DEF TypedCalls, Answer, Place

(* The calls keep their types in every step.                                *)
LEMMA CallsStep ==
  ASSUME TypedCore, TypedLists, TypedCalls, TNext
  PROVE  TypedCalls'
<1> USE DEF calls
<1>1. ASSUME NEW c \in Client, Begins(c) PROVE TypedCalls'
  <2>1. CASE Refused(c)
    BY <2>1, AnswerTyped, Zenon DEF Refused
  <2>2. CASE Wait(c)
    BY <2>2 DEF Wait, TypedCalls, Place
  <2>3. ASSUME NEW d \in Content, NEW r \in Hashes \cup {None}, Save(c, d, r) PROVE TypedCalls'
    <3>1. CASE Answer(c, "ok")
      BY <3>1, AnswerTyped, Zenon
    <3>2. CASE /\ pc' = [pc EXCEPT ![c] = "admit"] /\ arg' = [arg EXCEPT ![c] = d]
               /\ UNCHANGED <<held, known>>
      BY <3>2 DEF TypedCalls, Place
    <3> QED
      BY <2>3, <3>1, <3>2 DEF Save
  <2>4. ASSUME NEW h \in Hashes, LoadHits(c, h) PROVE TypedCalls'
    BY <2>4, AnswerTyped, Zenon DEF LoadHits
  <2>5. ASSUME NEW h \in Hashes, LoadMisses(c, h) PROVE TypedCalls'
    <3> DEFINE compressed == Of(Range(warm), h)
               x == IF compressed = {} THEN None ELSE CHOOSE d \in compressed : TRUE
    <3>1. x \in Content \cup {None}
      <4>1. compressed \subseteq Content
        BY DEF Of, Range, TypedLists
      <4> HIDE DEF compressed
      <4> QED
        BY <4>1
    <3>2. /\ pc'[c] \in {"read", "found"} /\ pc' = [pc EXCEPT ![c] = pc'[c]]
          /\ held' = [held EXCEPT ![c] = x] /\ arg' = [arg EXCEPT ![c] = h]
          /\ known'[c] \in BOOLEAN /\ known' = [known EXCEPT ![c] = known'[c]]
      BY <2>5 DEF LoadMisses, TypedCalls
    <3> HIDE DEF x
    <3> QED
      BY <3>1, <3>2 DEF TypedCalls, Place
  <2> QED
    BY <1>1, <2>1, <2>2, <2>3, <2>4, <2>5, Zenon DEF Begins
<1>2. ASSUME NEW c \in Client, QuietServe(c) PROVE TypedCalls'
  <2>1. CASE AdmitKnown(c)
    BY <2>1, AnswerTyped, Zenon DEF AdmitKnown
  <2>2. CASE AdmitThrows(c) \/ CallFails(c) \/ WaitFlushes(c)
    BY <2>2, AnswerTyped, Zenon DEF AdmitThrows, CallFails, WaitFlushes
  <2>3. CASE LoadFindsNothing(c) \/ LoadThrows(c) \/ LoadReturns(c)
    BY <2>3, AnswerTyped, Zenon DEF LoadFindsNothing, LoadThrows, LoadReturns
  <2>4. CASE AdmitWaits(c)
    BY <2>4 DEF AdmitWaits, TypedCalls, Place
  <2>5. CASE WaitBlocks(c)
    BY <2>5 DEF WaitBlocks, TypedCalls, Place
  <2>6. CASE LoadReads(c)
    <3>1. PICK d \in packed : held' = [held EXCEPT ![c] = d]
      BY <2>6, Zenon DEF LoadReads, Of
    <3> QED
      BY <2>6, <3>1 DEF LoadReads, TypedCalls, TypedCore, Place
  <2> QED
    BY <1>2, <2>1, <2>2, <2>3, <2>4, <2>5, <2>6, Zenon DEF QuietServe
<1>3. ASSUME NEW c \in Client, AdmitNew(c) PROVE TypedCalls'
  BY <1>3, AnswerTyped, Zenon DEF AdmitNew
<1>4. ASSUME NEW places \in [Client -> Place], pc' = WakeClients(places),
             \A c \in Client : places[c] \in {pc[c], "idle"},
             UNCHANGED <<arg, held, known>>
      PROVE  TypedCalls'
  BY <1>4, WakeFacts DEF TypedCalls
<1>5. pc \in [Client -> Place] /\ \A c \in Client : [pc EXCEPT ![c] = "idle"] \in [Client -> Place]
  BY DEF TypedCalls, Place
<1>6. ASSUME NEW c \in Client, WaitFails(c) PROVE TypedCalls'
  BY <1>4, <1>5, <1>6, Zenon DEF WaitFails, RecordFailure
<1>7. ASSUME NEW w \in Io, Works(w) PROVE TypedCalls'
  <2>1. CASE IoExits(w) \/ IoSleeps(w) \/ IoTakes(w) \/ IoWrites(w) \/ IoBreaks(w)
    BY <2>1 DEF IoExits, IoSleeps, IoTakes, IoWrites, IoBreaks, TypedCalls
  <2>2. CASE IoRetires(w) \/ IoRecords(w)
    BY <1>4, <1>5, <2>2, Zenon DEF IoRetires, IoRecords, RecordFailure
  <2> QED
    BY <1>7, <2>1, <2>2, Zenon DEF Works
<1>8. ASSUME Prefetches PROVE TypedCalls'
  BY <1>8, QuietPrefetch DEF TypedCalls
<1>9. ASSUME PrefetchFails PROVE TypedCalls'
  BY <1>4, <1>5, <1>9 DEF PrefetchFails, RecordFailure
<1>10. ASSUME Open \/ BeginShutdown \/ EndShutdown \/ ShutdownFails PROVE TypedCalls'
  BY <1>10 DEF Open, BeginShutdown, EndShutdown, ShutdownFails, TypedCalls
<1>11. ASSUME PowerLoss PROVE TypedCalls'
  BY <1>11 DEF PowerLoss, TypedCalls, Place
<1> QED
  BY StepCases, <1>1, <1>2, <1>3, <1>6, <1>7, <1>8, <1>9, <1>10, <1>11, Zenon

-----------------------------------------------------------------------------
(* No content is queued twice, held by two workers, or both, in any step.   *)
LEMMA OnceStep ==
  ASSUME Typed, Once, Posted, Carried, Stored, TNext
  PROVE  Once'
<1> USE DEF memory, workers
<1>1. /\ \A i, j \in DOMAIN io_queue : io_queue[i] = io_queue[j] => i = j
      /\ \A v \in Io, i \in DOMAIN io_queue : job[v] # io_queue[i]
      /\ \A u, v \in Io : job[u] = job[v] /\ job[u] # None => u = v
      /\ \A i \in DOMAIN io_queue : io_queue[i] \in pending
      /\ \A v \in Io : job[v] # None => job[v] \in pending
  BY Zenon DEF Once
<1>2. /\ None \notin Content /\ pending \subseteq Content
      /\ io_queue \in Seq(Content) /\ job \in [Io -> Content \cup {None}]
  BY StoreAssumption, Zenon DEF Typed, TypedCore, TypedLists, TypedWorkers
<1>3. ASSUME UNCHANGED <<io_queue, job, pending>> PROVE Once'
  BY <1>1, <1>3, Zenon DEF Once
<1>4. ASSUME NEW w \in Io, job'[w] = None, \A v \in Io \ {w} : job'[v] = job[v],
             io_queue' = io_queue, pending \ {job[w]} \subseteq pending'
      PROVE  Once'
  <2>1. \A v \in Io, i \in DOMAIN io_queue' : job'[v] # io_queue'[i]
    BY ONLY <1>1, <1>2, <1>4
  <2>2. \A u, v \in Io : job'[u] = job'[v] /\ job'[u] # None => u = v
    BY ONLY <1>1, <1>4
  <2>3. \A i \in DOMAIN io_queue' : io_queue'[i] \in pending'
    BY ONLY <1>1, <1>4
  <2>4. \A v \in Io : job'[v] # None => job'[v] \in pending'
    BY ONLY <1>1, <1>4
  <2> QED
    BY <1>1, <1>4, <2>1, <2>2, <2>3, <2>4, Zenon DEF Once
<1>5. ASSUME Forget, \A v \in Io : job'[v] = None PROVE Once'
  <2>1. io_queue' = <<>>
    BY <1>5, Zenon DEF Forget
  <2>2. DOMAIN io_queue' = {}
    BY ONLY <2>1
  <2> QED
    BY <1>5, <2>2, Zenon DEF Once
<1>6. ASSUME NEW c \in Client, Begins(c) \/ QuietServe(c) PROVE Once'
  BY <1>3, <1>6, QuietCall DEF queue
<1>7. ASSUME NEW c \in Client, AdmitNew(c) PROVE Once'
  <2> DEFINE d == arg[c]
  <2>1. d \in Content /\ d \notin pending
    BY <1>7, Zenon DEF AdmitNew, Typed, TypedCalls, New, Resident, Of
  <2>2. /\ io_queue' = Append(io_queue, d) /\ pending' = pending \cup {d} /\ job' = job
    BY <1>7, Zenon DEF AdmitNew
  <2> HIDE DEF d
  <2>3. /\ DOMAIN io_queue' = DOMAIN io_queue \cup {Len(io_queue) + 1}
        /\ Len(io_queue) + 1 \notin DOMAIN io_queue
        /\ \A i \in DOMAIN io_queue : io_queue'[i] = io_queue[i]
        /\ io_queue'[Len(io_queue) + 1] = d
    BY ONLY <1>2, <2>1, <2>2, AppendEntries, SMT
  <2>4. \A i, j \in DOMAIN io_queue' : io_queue'[i] = io_queue'[j] => i = j
    BY ONLY <1>1, <2>1, <2>3
  <2>5. \A v \in Io, i \in DOMAIN io_queue' : job'[v] # io_queue'[i]
    BY ONLY <1>1, <1>2, <2>1, <2>2, <2>3
  <2>6. \A i \in DOMAIN io_queue' : io_queue'[i] \in pending'
    BY ONLY <1>1, <2>2, <2>3
  <2> QED
    BY <1>1, <2>2, <2>4, <2>5, <2>6, Zenon DEF Once
<1>8. ASSUME NEW c \in Client, WaitFails(c) PROVE Once'
  BY <1>3, <1>8, Zenon DEF WaitFails
<1>9. ASSUME NEW w \in Io, Works(w) PROVE Once'
  <2>1. CASE IoTakes(w)
    <3>1. /\ job' = [job EXCEPT ![w] = Head(io_queue)] /\ io_queue' = Tail(io_queue)
          /\ io_queue # <<>> /\ pending' = pending
      BY <2>1, Zenon DEF IoTakes
    <3>2. /\ 1 \in DOMAIN io_queue /\ Head(io_queue) = io_queue[1]
          /\ \A i \in DOMAIN io_queue' : /\ i + 1 \in DOMAIN io_queue /\ i + 1 # 1
                                         /\ io_queue'[i] = io_queue[i + 1]
          /\ \A i, j \in DOMAIN io_queue' : i + 1 = j + 1 => i = j
      BY ONLY <1>2, <3>1, TailEntries, SMT
    <3>3. job'[w] = io_queue[1] /\ \A v \in Io \ {w} : job'[v] = job[v]
      BY ONLY <1>2, <3>1, <3>2
    <3>4. \A i, j \in DOMAIN io_queue' : io_queue'[i] = io_queue'[j] => i = j
      BY ONLY <1>1, <3>2
    <3>5. \A v \in Io, i \in DOMAIN io_queue' : job'[v] # io_queue'[i]
      BY ONLY <1>1, <3>2, <3>3
    <3>6. \A u, v \in Io : job'[u] = job'[v] /\ job'[u] # None => u = v
      BY ONLY <1>1, <3>2, <3>3
    <3>7. /\ \A i \in DOMAIN io_queue' : io_queue'[i] \in pending'
          /\ \A v \in Io : job'[v] # None => job'[v] \in pending'
      BY ONLY <1>1, <3>1, <3>2, <3>3
    <3> QED
      BY <3>4, <3>5, <3>6, <3>7, Zenon DEF Once
  <2>2. CASE IoRetires(w) \/ IoRecords(w)
    <3>1. /\ job' = [job EXCEPT ![w] = None] /\ io_queue' = io_queue
          /\ pending' = pending \/ pending' = pending \ {job[w]}
      BY <2>2, Zenon DEF IoRetires, IoRecords
    <3>2. job'[w] = None /\ \A v \in Io \ {w} : job'[v] = job[v]
      BY ONLY <1>2, <3>1
    <3>3. pending \ {job[w]} \subseteq pending'
      BY ONLY <3>1
    <3> QED
      BY <1>4, <3>1, <3>2, <3>3, Zenon
  <2>3. CASE IoExits(w) \/ IoSleeps(w) \/ IoWrites(w) \/ IoBreaks(w)
    BY <1>3, <2>3, Zenon DEF IoExits, IoSleeps, IoWrites, IoBreaks
  <2> QED
    BY <1>9, <2>1, <2>2, <2>3, Zenon DEF Works
<1>10. ASSUME Prefetches PROVE Once'
  BY <1>3, <1>10, QuietPrefetch DEF queue
<1>11. ASSUME PrefetchFails PROVE Once'
  BY <1>3, <1>11, Zenon DEF PrefetchFails
<1>12. ASSUME Open \/ BeginShutdown PROVE Once'
  BY <1>3, <1>12, Zenon DEF Open, BeginShutdown
<1>13. ASSUME EndShutdown \/ ShutdownFails PROVE Once'
  <2>1. Forget /\ Joined /\ UNCHANGED <<io, job>>
    BY <1>13, Zenon DEF EndShutdown, ShutdownFails
  <2>2. \A v \in Io : job'[v] = None
    BY <2>1, Zenon DEF Joined, Posted
  <2> QED
    BY <1>5, <2>1, <2>2, Zenon
<1>14. ASSUME PowerLoss PROVE Once'
  <2>1. Forget /\ job' = [w \in Io |-> None]
    BY <1>14, Zenon DEF PowerLoss
  <2>2. \A v \in Io : job'[v] = None
    BY <2>1, Zenon
  <2> QED
    BY <1>5, <2>1, <2>2, Zenon
<1> QED
  BY StepCases, <1>6, <1>7, <1>8, <1>9, <1>10, <1>11, <1>12, <1>13, <1>14, Zenon


(* Waking everyone leaves nobody asleep, and moves nobody else.             *)
LEMMA PostedWoken ==
  ASSUME TypedWorkers, Posted, NEW ios \in [Io -> Post], NEW w \in Io,
         \/ ios = io /\ UNCHANGED job
         \/ ios = [io EXCEPT ![w] = "exit"] /\ job' = [job EXCEPT ![w] = None],
         io' = Woken(ios, "sleep", "check"), failure' = TRUE, up # "down",
         UNCHANGED <<up, packed, io_queue>>
  PROVE  Posted'
  BY WorkersWake DEF Posted, TypedWorkers

(* Every step leaves the workers with what they hold at their places, and a *)
(* worker awake while io_queue_ holds a write.                              *)
LEMMA PostedStep ==
  ASSUME Typed, Once, Posted, Carried, Stored, Called, TNext
  PROVE  Posted'
<1> USE StoreAssumption DEF Typed, TypedWorkers, memory, workers, disk
<1>1. ASSUME NEW c \in Client, Begins(c) \/ QuietServe(c) PROVE Posted'
  BY <1>1, QuietCall DEF queue, Posted
<1>2. ASSUME NEW c \in Client, AdmitNew(c) PROVE Posted'
  <2>1. /\ up = "running" /\ ~failure /\ UNCHANGED <<up, failure, packed, job>>
        /\ NotifyWork
    BY <1>2, Zenon DEF AdmitNew, Ready
  <2>2. \A w \in Io : io[w] # "exit"
    BY <2>1 DEF Posted
  <2>3. CASE \E w \in Io : io[w] = "sleep" /\ io' = [io EXCEPT ![w] = "check"]
    BY <2>1, <2>2, <2>3 DEF Posted
  <2>4. CASE (\A w \in Io : io[w] # "sleep") /\ io' = io
    BY <2>1, <2>2, <2>4 DEF Posted
  <2> QED
    BY <2>1, <2>3, <2>4, Zenon DEF NotifyWork
<1>3. ASSUME NEW c \in Client, WaitFails(c) PROVE Posted'
  <2>1. PICK w : w \in Io
    OBVIOUS
  <2>2. /\ io' = Woken(io, "sleep", "check") /\ failure' = TRUE /\ up = "running"
        /\ UNCHANGED <<up, packed, io_queue, job>>
    BY <1>3 DEF WaitFails, RecordFailure, Ready
  <2> QED
    BY <2>1, <2>2, PostedWoken
<1>4. ASSUME NEW w \in Io, Works(w) PROVE Posted'
  <2>1. CASE IoExits(w)
    BY <2>1 DEF IoExits, Posted
  <2>2. CASE IoSleeps(w)
    BY <2>2 DEF IoSleeps, Posted
  <2>3. CASE IoTakes(w)
    <3>1. /\ job'[w] # None /\ io'[w] = "write" /\ UNCHANGED <<up, failure, packed>>
          /\ \A v \in Io \ {w} : job'[v] = job[v] /\ io'[v] = io[v]
      BY <2>3 DEF IoTakes, TypedLists
    <3>2. io[w] = "check" /\ ~failure /\ io_queue # <<>> /\ io_queue' = Tail(io_queue)
      BY <2>3 DEF IoTakes
    <3> QED
      BY <3>1, <3>2, Zenon DEF Posted
  <2>4. CASE IoWrites(w)
    BY <2>4 DEF IoWrites, Posted
  <2>5. CASE IoRetires(w)
    BY <2>5, Zenon DEF IoRetires, Posted
  <2>6. CASE IoBreaks(w)
    BY <2>6 DEF IoBreaks, Posted
  <2>7. CASE IoRecords(w)
    <3>1. /\ io' = Woken([io EXCEPT ![w] = "exit"], "sleep", "check") /\ failure' = TRUE
          /\ job' = [job EXCEPT ![w] = None] /\ UNCHANGED <<up, packed, io_queue>>
          /\ io[w] = "broken"
      BY <2>7 DEF IoRecords, RecordFailure
    <3>2. [io EXCEPT ![w] = "exit"] \in [Io -> Post] /\ up # "down"
      BY <3>1 DEF Post, Posted
    <3> QED
      BY <3>1, <3>2, PostedWoken, Zenon
  <2> QED
    BY <1>4, <2>1, <2>2, <2>3, <2>4, <2>5, <2>6, <2>7, Zenon DEF Works
<1>5. ASSUME Prefetches PROVE Posted'
  BY <1>5, QuietPrefetch DEF queue, Posted
<1>6. ASSUME PrefetchFails PROVE Posted'
  <2>1. PICK w : w \in Io
    OBVIOUS
  <2>2. /\ io' = Woken(io, "sleep", "check") /\ failure' = TRUE /\ up # "down"
        /\ UNCHANGED <<up, packed, io_queue, job>>
    BY <1>6 DEF PrefetchFails, RecordFailure, Carried
  <2> QED
    BY <2>1, <2>2, PostedWoken
<1>7. ASSUME Open PROVE Posted'
  BY <1>7 DEF Open, Posted, Carried
<1>8. ASSUME BeginShutdown PROVE Posted'
  <2>1. /\ up = "running" /\ up' = "stopping" /\ io' = Woken(io, "sleep", "check")
        /\ UNCHANGED <<failure, packed, io_queue, job>>
    BY <1>8 DEF BeginShutdown
  <2> QED
    BY <2>1, WorkersWake, Zenon DEF Posted
<1>9. ASSUME EndShutdown \/ ShutdownFails PROVE Posted'
  BY <1>9, Zenon DEF EndShutdown, ShutdownFails, Joined, Forget, Posted
<1>10. ASSUME PowerLoss PROVE Posted'
  BY <1>10, Zenon DEF PowerLoss, Forget, Posted
<1> QED
  BY StepCases, <1>1, <1>2, <1>3, <1>4, <1>5, <1>6, <1>7, <1>8, <1>9, <1>10, Zenon

(* Every step leaves each pending content with a queue entry or a worker.   *)
LEMMA CarriedStep ==
  ASSUME Typed, Once, Posted, Carried, TNext
  PROVE  Carried'
<1> USE StoreAssumption DEF Typed, TypedLists, TypedWorkers, memory, workers
<1>1. ASSUME NEW c \in Client, Begins(c) \/ QuietServe(c) PROVE Carried'
  BY <1>1, QuietCall, Zenon DEF queue, Carried
<1>2. ASSUME NEW c \in Client, AdmitNew(c) PROVE Carried'
  <2> DEFINE d == arg[c]
  <2>1. /\ d \in Content /\ io_queue' = Append(io_queue, d) /\ up = "running"
        /\ pending' = pending \cup {d} /\ UNCHANGED <<up, failure, job, fetching>>
    BY <1>2, Zenon DEF AdmitNew, TypedCalls, Ready
  <2> HIDE DEF d
  <2>2. /\ DOMAIN io_queue' = DOMAIN io_queue \cup {Len(io_queue) + 1}
        /\ \A i \in DOMAIN io_queue : io_queue'[i] = io_queue[i]
        /\ io_queue'[Len(io_queue) + 1] = d
    <3>1. io_queue \in Seq(Content) /\ d \in Content /\ io_queue' = Append(io_queue, d)
      BY <2>1
    <3> QED
      BY ONLY <3>1, AppendEntries, SMT
  <2> QED
    BY <2>1, <2>2, Zenon DEF Carried
<1>3. ASSUME NEW c \in Client, WaitFails(c) PROVE Carried'
  BY <1>3 DEF WaitFails, RecordFailure, Carried
<1>4. ASSUME NEW w \in Io, Works(w) PROVE Carried'
  <2>1. io[w] # "exit" /\ up # "down" /\ UNCHANGED <<up, fetching>>
    BY <1>4, Zenon DEF Works, IoExits, IoSleeps, IoTakes, IoWrites, IoRetires, IoBreaks, IoRecords, Posted
  <2>2. CASE IoTakes(w)
    <3>1. /\ job' = [job EXCEPT ![w] = Head(io_queue)] /\ io_queue' = Tail(io_queue)
          /\ io_queue # <<>> /\ UNCHANGED <<pending, failure>> /\ job[w] = None
      BY <2>2, Zenon DEF IoTakes, Posted
    <3>2. /\ Head(io_queue) = io_queue[1]
          /\ \A i \in DOMAIN io_queue : i # 1 => \E j \in DOMAIN io_queue' : io_queue'[j] = io_queue[i]
      <4>1. io_queue \in Seq(Content) /\ io_queue # <<>> /\ io_queue' = Tail(io_queue)
        BY <3>1, Zenon
      <4>2. Head(io_queue) = io_queue[1]
        BY ONLY <4>1, TailEntries, SMTT(30)
      <4>3. ASSUME NEW i \in DOMAIN io_queue, i # 1
            PROVE  \E j \in DOMAIN io_queue' : io_queue'[j] = io_queue[i]
        BY ONLY <4>1, <4>3, TailEntries, SMTT(30)
      <4> QED
        BY ONLY <4>2, <4>3, Zenon
    <3>3. job'[w] = io_queue[1] /\ \A v \in Io \ {w} : job'[v] = job[v]
      BY <3>1, <3>2
    <3>4. ASSUME up # "down", ~failure, NEW d \in pending
          PROVE  (\E i \in DOMAIN io_queue' : io_queue'[i] = d) \/ \E v \in Io : job'[v] = d
      <4>1. d # None
        BY DEF TypedCore
      <4>2. CASE \E i \in DOMAIN io_queue : io_queue[i] = d
        BY <3>2, <3>3, <4>2, Zenon
      <4>3. CASE \E v \in Io : job[v] = d
        BY <3>1, <3>3, <4>1, <4>3, Zenon
      <4> QED
        BY <3>4, <4>2, <4>3, Zenon DEF Carried
    <3> QED
      BY <2>1, <3>1, <3>4, Zenon DEF Carried
  <2>3. CASE IoRetires(w)
    <3>1. /\ pending' = pending \ {job[w]} /\ UNCHANGED <<failure, io_queue>>
          /\ \A v \in Io \ {w} : job'[v] = job[v]
      BY <2>3 DEF IoRetires
    <3> QED
      BY <2>1, <3>1, Zenon DEF Carried
  <2>4. CASE IoRecords(w)
    BY <2>1, <2>4 DEF IoRecords, RecordFailure, Carried
  <2>5. CASE IoExits(w) \/ IoSleeps(w) \/ IoWrites(w) \/ IoBreaks(w)
    <3>1. UNCHANGED <<failure, pending, io_queue, job>>
      BY <2>5, Zenon DEF IoExits, IoSleeps, IoWrites, IoBreaks
    <3> QED
      BY <2>1, <3>1, Zenon DEF Carried
  <2> QED
    BY <1>4, <2>2, <2>3, <2>4, <2>5, Zenon DEF Works
<1>5. ASSUME Prefetches PROVE Carried'
  <2>1. up # "down" /\ UNCHANGED <<up, failure, pending, io_queue, job>>
    BY <1>5, QuietPrefetch, Zenon DEF queue, Prefetches, PrefetchTakes, PrefetchInserts, PrefetchSubmit,
                               Ready, Carried
  <2> QED
    BY <2>1 DEF Carried
<1>6. ASSUME PrefetchFails PROVE Carried'
  BY <1>6 DEF PrefetchFails, RecordFailure, Carried
<1>7. ASSUME Open \/ BeginShutdown PROVE Carried'
  BY <1>7, Zenon DEF Open, BeginShutdown, Carried
<1>8. ASSUME EndShutdown \/ ShutdownFails \/ PowerLoss PROVE Carried'
  <2>1. up' = "down" /\ Forget
    BY <1>8, Zenon DEF EndShutdown, ShutdownFails, PowerLoss
  <2> QED
    BY <2>1 DEF Forget, Carried
<1> QED
  BY StepCases, <1>1, <1>2, <1>3, <1>4, <1>5, <1>6, <1>7, <1>8, Zenon

-----------------------------------------------------------------------------
(* A step that leaves the stored bytes alone: the caches and the accepted   *)
(* contents stay among them.                                                *)
LEMMA StoredBy ==
  ASSUME Stored, UNCHANGED <<pending, packed>>,
         Range(hot') \subseteq pending \cup packed, Range(warm') \subseteq pending \cup packed,
         accepted' \subseteq pending \cup packed, Range(prefetch_queue') \subseteq packed,
         fetching' \in packed \cup {None}, promised' \subseteq synced'
  PROVE  Stored'
  BY Zenon DEF Stored

(* A call keeps to the stored bytes: a hit moves, a read is inserted, an    *)
(* equal resident or packed buffer is accepted.                             *)
LEMMA CallStores ==
  ASSUME TypedCore, TypedLists, Stored, Called, NEW c \in Client, Begins(c) \/ QuietServe(c)
  PROVE  Stored'
<1> USE DEF memory, disk, ghosts
<1> DEFINE kept == pending \cup packed
<1>1. /\ UNCHANGED <<pending, packed, prefetch_queue, fetching>>
      /\ Range(prefetch_queue) \subseteq packed /\ fetching \in packed \cup {None}
  BY QuietCall DEF queue, Stored
<1>2. /\ accepted \subseteq kept /\ Range(hot) \subseteq kept /\ Range(warm) \subseteq kept
      /\ promised \subseteq synced
  BY DEF Stored
<1>3. \A h : Range(Touch(hot, h)) \subseteq kept /\ Range(Touch(warm, h)) \subseteq kept
  BY <1>2, TouchRange DEF TypedLists
<1>4. \A d \in kept : /\ Range(Insert(hot, HotSize, d)) \subseteq kept
                      /\ Range(Insert(warm, WarmSize, d)) \subseteq kept
  <2>1. kept \subseteq Content
    BY DEF TypedCore
  <2> HIDE DEF kept
  <2> QED
    BY <1>2, <2>1, InsertRange DEF TypedLists
<1>5. ASSUME Range(hot') \subseteq kept, Range(warm') \subseteq kept, accepted' \subseteq kept,
             promised' \subseteq synced'
      PROVE  Stored'
  BY <1>1, <1>5, StoredBy
<1> HIDE DEF kept
<1>6. CASE Refused(c) \/ Wait(c)
  BY <1>2, <1>5, <1>6 DEF Refused, Wait
<1>7. ASSUME NEW d \in Content, NEW r \in Hashes \cup {None}, Save(c, d, r) PROVE Stored'
  <2>1. d \in (IF Of(pending, r) # {} THEN Of(pending, r) ELSE Of(Range(hot), r)) => d \in kept
    BY <1>2 DEF Of, kept
  <2>2. Range(hot') \subseteq kept /\ accepted' \subseteq kept /\ UNCHANGED <<warm, promised, synced>>
    BY <1>2, <1>3, <1>7, <2>1 DEF Save
  <2> QED
    BY <1>2, <1>5, <2>2
<1>8. ASSUME NEW h \in Hashes, LoadHits(c, h) \/ LoadMisses(c, h) PROVE Stored'
  BY <1>2, <1>3, <1>5, <1>8, Zenon DEF LoadHits, LoadMisses
<1>9. CASE AdmitKnown(c)
  <2>1. \A S : S \subseteq kept => Of(S, HashOf[arg[c]]) \subseteq kept
    BY DEF Of
  <2>2. pending \cup Range(hot) \cup Range(warm) \subseteq kept /\ packed \subseteq kept
    BY <1>2 DEF kept
  <2>3. Resident(HashOf[arg[c]]) \subseteq kept /\ Of(packed, HashOf[arg[c]]) \subseteq kept
    BY <2>1, <2>2, Zenon DEF Resident
  <2>4. accepted' \subseteq kept /\ UNCHANGED <<promised, synced>>
    BY <1>2, <1>9, <2>3, Zenon DEF AdmitKnown, Same
  <2>5. Range(hot') \subseteq kept /\ Range(warm') \subseteq kept
    BY <1>2, <1>3, <1>9, Zenon DEF AdmitKnown
  <2> QED
    BY <1>2, <1>5, <2>4, <2>5
<1>10. CASE AdmitWaits(c) \/ AdmitThrows(c) \/ CallFails(c) \/ WaitBlocks(c)
  BY <1>2, <1>5, <1>10, Zenon DEF AdmitWaits, AdmitThrows, CallFails, WaitBlocks
<1>11. CASE WaitFlushes(c)
  <2>1. pending = {} /\ synced' = packed /\ promised' = promised \cup accepted
        /\ UNCHANGED <<hot, warm, accepted>>
    BY <1>11 DEF WaitFlushes, Drained
  <2>2. promised' \subseteq synced'
    BY <1>2, <2>1 DEF TypedCore, kept
  <2> QED
    BY <1>2, <1>5, <2>1, <2>2
<1>12. CASE LoadFindsNothing(c) \/ LoadThrows(c)
  BY <1>2, <1>5, <1>12, Zenon DEF LoadFindsNothing, LoadThrows
<1>13. CASE LoadReads(c)
  <2>1. PICK d \in packed : warm' = Insert(warm, WarmSize, d)
    BY <1>13, Zenon DEF LoadReads, Of
  <2>2. Range(warm') \subseteq kept
    BY <1>4, <2>1 DEF kept
  <2> QED
    BY <1>2, <1>5, <1>13, <2>2 DEF LoadReads
<1>14. CASE LoadReturns(c)
  <2>1. held[c] \in kept
    BY <1>14, Zenon DEF LoadReturns, Called, Of, kept
  <2> QED
    BY <1>2, <1>4, <1>5, <1>14, <2>1, Zenon DEF LoadReturns
<1> QED
  BY <1>6, <1>7, <1>8, <1>9, <1>10, <1>11, <1>12, <1>13, <1>14, Zenon DEF Begins, QuietServe

(* The stored bytes are kept by every step.                                 *)
LEMMA StoredStep ==
  ASSUME Typed, Once, Posted, Carried, Stored, Called, TNext
  PROVE  Stored'
<1> USE DEF memory, disk, ghosts
<1>0. TypedCore /\ TypedLists /\ TypedCalls /\ TypedWorkers
  BY DEF Typed
<1>1. ASSUME NEW c \in Client, Begins(c) \/ QuietServe(c) PROVE Stored'
  BY <1>0, <1>1, CallStores
<1>2. ASSUME NEW c \in Client, AdmitNew(c) PROVE Stored'
  <2> DEFINE d == arg[c]
  <2>1. /\ d \in Content /\ pending' = pending \cup {d} /\ accepted' = accepted \cup {d}
        /\ hot' = Insert(hot, HotSize, d)
        /\ UNCHANGED <<packed, synced, promised, warm, prefetch_queue, fetching>>
    BY <1>0, <1>2, Zenon DEF AdmitNew, TypedCalls
  <2>2. \A e \in pending \cup packed : HashOf[e] # HashOf[d]
    BY <1>2, Zenon DEF AdmitNew, New, Resident, Of
  <2> HIDE DEF d
  <2>3. Range(hot') \subseteq Range(hot) \cup {d}
    BY <1>0, <2>1, InsertRange DEF TypedLists
  <2> QED
    BY <2>1, <2>2, <2>3, Zenon DEF Stored
<1>3. ASSUME NEW c \in Client, WaitFails(c) PROVE Stored'
  BY <1>3, Zenon DEF WaitFails, Stored
<1>4. ASSUME NEW w \in Io, Works(w) PROVE Stored'
  <2>1. CASE IoWrites(w)
    <3>1. /\ job[w] \in pending /\ packed' = packed \cup {job[w]}
          /\ UNCHANGED <<pending, hot, warm, prefetch_queue, fetching, synced, accepted, promised>>
      BY <2>1, Zenon DEF IoWrites, Posted, Once
    <3> QED
      <4>1. pending' \cup packed' = pending \cup packed /\ packed \subseteq packed'
        BY ONLY <3>1, Zenon
      <4> QED
        BY <3>1, <4>1, Zenon DEF Stored
  <2>2. CASE IoRetires(w)
    <3>1. /\ job[w] \in packed /\ pending' = pending \ {job[w]}
          /\ warm' = Insert(warm, WarmSize, job[w])
          /\ UNCHANGED <<packed, hot, prefetch_queue, fetching, synced, accepted, promised>>
      BY <2>2, Zenon DEF IoRetires, Posted
    <3>2. Range(warm') \subseteq Range(warm) \cup {job[w]}
      BY <1>0, <3>1, InsertRange DEF TypedLists, TypedCore
    <3>3. pending' \cup packed' = pending \cup packed
      BY <3>1
    <3> QED
      BY <3>1, <3>2, <3>3, Zenon DEF Stored
  <2>3. CASE IoExits(w) \/ IoSleeps(w) \/ IoTakes(w)
    BY <2>3, Zenon DEF IoExits, IoSleeps, IoTakes, Stored
  <2>4. CASE IoBreaks(w) \/ IoRecords(w)
    BY <2>4, Zenon DEF IoBreaks, IoRecords, Stored
  <2> QED
    BY <1>4, <2>1, <2>2, <2>3, <2>4, Zenon DEF Works
<1>5. ASSUME Prefetches PROVE Stored'
  <2>1. UNCHANGED <<pending, packed, hot, accepted, promised, synced>>
    BY <1>5, QuietPrefetch DEF queue
  <2>2. /\ Range(warm') \subseteq pending \cup packed /\ Range(prefetch_queue') \subseteq packed
        /\ fetching' \in packed \cup {None}
    <3>1. CASE PrefetchTakes
      <4>1. prefetch_queue # <<>> /\ fetching' = Head(prefetch_queue)
            /\ prefetch_queue' = Tail(prefetch_queue) /\ warm' = warm
        BY <3>1 DEF PrefetchTakes
      <4>2. /\ Head(prefetch_queue) \in Range(prefetch_queue)
            /\ \A i \in DOMAIN Tail(prefetch_queue) :
                 Tail(prefetch_queue)[i] \in Range(prefetch_queue)
        <5>1. prefetch_queue \in Seq(Content)
          BY <1>0, Zenon DEF TypedLists
        <5>2. /\ 1 \in DOMAIN prefetch_queue /\ Head(prefetch_queue) = prefetch_queue[1]
              /\ \A i \in DOMAIN Tail(prefetch_queue) :
                   /\ i + 1 \in DOMAIN prefetch_queue
                   /\ Tail(prefetch_queue)[i] = prefetch_queue[i + 1]
          BY ONLY <4>1, <5>1, TailEntries, SMT
        <5> QED
          BY ONLY <5>2, Zenon DEF Range
      <4>3. Range(prefetch_queue') \subseteq Range(prefetch_queue)
        BY <4>1, <4>2 DEF Range
      <4> QED
        BY <4>1, <4>2, <4>3 DEF Stored
    <3>2. CASE PrefetchInserts
      <4>1. /\ fetching \in packed /\ fetching' = None /\ prefetch_queue' = prefetch_queue
            /\ warm' = Insert(warm, WarmSize, fetching)
        BY <3>2, Zenon DEF PrefetchInserts, Stored
      <4>2. Range(warm') \subseteq Range(warm) \cup {fetching}
        BY <1>0, <4>1, InsertRange DEF TypedLists, TypedCore
      <4> QED
        BY <4>1, <4>2, Zenon DEF Stored
    <3>3. ASSUME NEW d \in Content, PrefetchSubmit(d)
          PROVE  /\ Range(warm') \subseteq pending \cup packed
                 /\ Range(prefetch_queue') \subseteq packed /\ fetching' \in packed \cup {None}
      <4>1. /\ d \in packed /\ prefetch_queue' = Append(prefetch_queue, d)
            /\ UNCHANGED <<warm, fetching>>
        BY <3>3, Zenon DEF PrefetchSubmit
      <4>2. /\ prefetch_queue \in Seq(Content) /\ d \in Content
            /\ prefetch_queue' = Append(prefetch_queue, d)
        BY <1>0, <4>1, Zenon DEF TypedLists
      <4>3. /\ DOMAIN prefetch_queue' = DOMAIN prefetch_queue \cup {Len(prefetch_queue) + 1}
            /\ \A i \in DOMAIN prefetch_queue : prefetch_queue'[i] = prefetch_queue[i]
            /\ prefetch_queue'[Len(prefetch_queue) + 1] = d
        BY ONLY <4>2, AppendEntries, SMTT(30)
      <4>4. Range(prefetch_queue') \subseteq Range(prefetch_queue) \cup {d}
        BY <4>3, Zenon DEF Range
      <4> QED
        BY <4>1, <4>4, Zenon DEF Stored
    <3> QED
      BY <1>5, <3>1, <3>2, <3>3, Zenon DEF Prefetches
  <2> QED
    BY <2>1, <2>2, StoredBy, Zenon DEF Stored
<1>6. ASSUME PrefetchFails PROVE Stored'
  BY <1>6, Zenon DEF PrefetchFails, Stored
<1>7. ASSUME Open \/ BeginShutdown PROVE Stored'
  BY <1>7, Zenon DEF Open, BeginShutdown, Stored
<1>8. ASSUME Forget, accepted' \subseteq packed', packed' \subseteq packed, promised' \subseteq synced'
      PROVE  Stored'
  <2>1. Range(<<>>) = {}
    BY DEF Range
  <2> QED
    BY <1>8, <2>1, Zenon DEF Forget, Stored
<1>9. ASSUME EndShutdown PROVE Stored'
  <2>1. up = "stopping" /\ (\A w \in Io : io[w] = "exit") /\ packed' = packed /\ synced' = packed
    BY <1>9 DEF EndShutdown, Joined
  <2>2. accepted \cap packed \subseteq packed /\ promised \subseteq packed
    BY <1>0 DEF Stored, TypedCore
  <2>3. CASE failure
    BY <1>8, <1>9, <2>1, <2>2, <2>3 DEF EndShutdown
  <2>4. CASE ~failure
    <3>1. io_queue = <<>> /\ \A w \in Io : job[w] = None
      BY <2>1, <2>4, StoreAssumption DEF Posted
    <3>2. pending = {}
      <4>1. DOMAIN io_queue = {}
        BY <3>1
      <4>2. \A d \in pending : d # None
        BY <1>0, StoreAssumption DEF TypedCore
      <4> QED
        BY <2>1, <2>4, <3>1, <4>1, <4>2 DEF Carried
    <3>3. accepted \subseteq packed
      BY <3>2 DEF Stored
    <3> QED
      BY <1>8, <1>9, <2>1, <2>2, <2>4, <3>3 DEF EndShutdown
  <2> QED
    BY <2>3, <2>4
<1>10. ASSUME ShutdownFails PROVE Stored'
  BY <1>8, <1>10, Zenon DEF ShutdownFails, Stored
<1>11. ASSUME PowerLoss PROVE Stored'
  BY <1>8, <1>11, Zenon DEF PowerLoss, Stored
<1> QED
  BY StepCases, <1>1, <1>2, <1>3, <1>4, <1>5, <1>6, <1>7, <1>9, <1>10, <1>11, Zenon

-----------------------------------------------------------------------------
(* The calls, one caller at a time.                                         *)
CalledAt(c) ==
  /\ up # "running" => pc[c] = "idle"
  /\ pc[c] \in {"space", "complete"} => Ready /\ pending # {}
  /\ pc[c] = "found" => held[c] \in Of(pending \cup packed, arg[c])
  /\ known[c] => /\ pc[c] \in {"read", "found"} /\ Of(accepted, arg[c]) # {}
                 /\ pc[c] = "read" => Of(accepted \cap packed, arg[c]) # {}

(* Called, pointwise.                                                       *)
LEMMA CalledEach == Called <=> \A c \in Client : CalledAt(c)
  BY Zenon DEF Called, CalledAt

(* The same for the next state.                                             *)
LEMMA CalledEachNext == Called' <=> \A c \in Client : CalledAt(c)'
  BY Zenon DEF Called, CalledAt

(* A caller that stays where it is, while the store only grows.             *)
LEMMA CallerStays ==
  ASSUME NEW c \in Client, CalledAt(c), UNCHANGED <<up, failure>>,
         pc'[c] = pc[c], arg'[c] = arg[c], held'[c] = held[c], known'[c] = known[c],
         pending # {} => pending' # {}, packed \subseteq packed', accepted \subseteq accepted',
         pending \cup packed \subseteq pending' \cup packed'
  PROVE  CalledAt(c)'
  BY Zenon DEF CalledAt, Ready, Of

(* A caller whose call has returned.                                        *)
LEMMA CallerIdle ==
  ASSUME NEW c \in Client, pc'[c] = "idle", ~known'[c]
  PROVE  CalledAt(c)'
  BY Zenon DEF CalledAt

(* What a return does to the calls.                                         *)
LEMMA AnswerIdle ==
  ASSUME TypedCalls, NEW c \in Client, NEW r, Answer(c, r)
  PROVE  /\ pc'[c] = "idle" /\ ~known'[c]
         /\ \A b \in Client \ {c} : /\ pc'[b] = pc[b] /\ arg'[b] = arg[b] /\ held'[b] = held[b]
                                    /\ known'[b] = known[b]
  BY DEF TypedCalls, Answer

(* A caller that a notification has found asleep, or has not found at all.  *)
LEMMA CallerWoken ==
  ASSUME TypedCalls, NEW c \in Client, CalledAt(c), up' = up,
         NEW places \in [Client -> Place], pc' = WakeClients(places), UNCHANGED <<arg, held, known>>,
         places[c] = pc[c] \/ (places[c] = "idle" /\ ~known[c]),
         pending' \cup packed' = pending \cup packed, UNCHANGED <<packed, accepted>>
  PROVE  CalledAt(c)'
<1>1. \/ pc'[c] = places[c] /\ places[c] \notin {"space", "complete"}
      \/ places[c] = "space" /\ pc'[c] = "admit"
      \/ places[c] = "complete" /\ pc'[c] = "flush"
  BY WakeFacts, Zenon
<1>2. CASE places[c] = "idle" /\ ~known[c]
  BY <1>1, <1>2, Zenon DEF CalledAt
<1>3. CASE places[c] = pc[c]
  BY <1>1, <1>3, Zenon DEF CalledAt
<1> QED
  BY <1>2, <1>3, Zenon

(* A call's own step leaves its caller with what it relies on.              *)
LEMMA CallServes ==
  ASSUME TypedCore, TypedCalls, Stored, Called, NEW c \in Client, Begins(c) \/ QuietServe(c)
  PROVE  Called'
<1> USE DEF calls, memory, disk, ghosts
<1>1. UNCHANGED <<up, failure, pending, packed>>
  BY QuietCall DEF queue
<1>2. \A b \in Client : CalledAt(b)
  BY CalledEach
<1>3. ASSUME CalledAt(c)', accepted \subseteq accepted',
             \A b \in Client \ {c} : /\ pc'[b] = pc[b] /\ arg'[b] = arg[b] /\ held'[b] = held[b]
                                     /\ known'[b] = known[b]
      PROVE  Called'
  <2>1. ASSUME NEW b \in Client \ {c} PROVE CalledAt(b)'
    BY <1>1, <1>2, <1>3, CallerStays, Zenon
  <2> QED
    BY <1>3, <2>1, CalledEachNext, Zenon
<1>4. ASSUME NEW r, Answer(c, r), accepted \subseteq accepted' PROVE Called'
  BY <1>3, <1>4, AnswerIdle, CallerIdle, Zenon
<1>5. CASE Refused(c)
  BY <1>4, <1>5 DEF Refused
<1>6. CASE Wait(c)
  <2>1. CalledAt(c)'
    BY <1>1, <1>2, <1>6, Zenon DEF Wait, Callable, Ready, CalledAt, TypedCalls
  <2> QED
    BY <1>3, <1>6, <2>1 DEF Wait, TypedCalls
<1>7. ASSUME NEW d \in Content, NEW r \in Hashes \cup {None}, Save(c, d, r) PROVE Called'
  <2>1. CASE Answer(c, "ok") /\ accepted' = accepted \cup {d}
    BY <1>4, <2>1
  <2>2. CASE /\ pc' = [pc EXCEPT ![c] = "admit"] /\ arg' = [arg EXCEPT ![c] = d]
             /\ UNCHANGED <<held, known, accepted>>
    <3>1. CalledAt(c)'
      BY <1>1, <1>2, <1>7, <2>2, Zenon DEF Save, Callable, Ready, CalledAt, TypedCalls
    <3> QED
      BY <1>3, <2>2, <3>1 DEF TypedCalls
  <2> QED
    BY <1>7, <2>1, <2>2, Zenon DEF Save
<1>8. ASSUME NEW h \in Hashes, LoadHits(c, h) PROVE Called'
  BY <1>4, <1>8 DEF LoadHits
<1>9. ASSUME NEW h \in Hashes, LoadMisses(c, h) PROVE Called'
  <2> DEFINE compressed == Of(Range(warm), h)
  <2>1. /\ Ready /\ Of(Range(hot) \cup pending, h) = {} /\ accepted' = accepted
        /\ pc'[c] = IF compressed = {} THEN "read" ELSE "found"
        /\ held'[c] = (IF compressed = {} THEN None ELSE CHOOSE d \in compressed : TRUE)
        /\ arg'[c] = h /\ known'[c] = (Of(accepted, h) # {})
    BY <1>9, Zenon DEF LoadMisses, TypedCalls
  <2>2. compressed # {} => (CHOOSE d \in compressed : TRUE) \in compressed
    OBVIOUS
  <2>3. compressed \subseteq Of(pending \cup packed, h)
    BY DEF Stored, Of
  <2>4. Of(accepted, h) \subseteq Of(accepted \cap packed, h)
    BY <2>1, Zenon DEF Stored, Of
  <2> HIDE DEF compressed
  <2>5. CalledAt(c)'
    BY <1>1, <2>1, <2>2, <2>3, <2>4, Zenon DEF CalledAt, Ready
  <2> QED
    BY <1>3, <1>9, <2>1, <2>5, Zenon DEF LoadMisses, TypedCalls
<1>10. CASE AdmitKnown(c)
  BY <1>4, <1>10, Zenon DEF AdmitKnown
<1>11. CASE AdmitThrows(c) \/ CallFails(c) \/ WaitFlushes(c)
  BY <1>4, <1>11, Zenon DEF AdmitThrows, CallFails, WaitFlushes
<1>12. CASE LoadFindsNothing(c) \/ LoadThrows(c) \/ LoadReturns(c)
  BY <1>4, <1>12, Zenon DEF LoadFindsNothing, LoadThrows, LoadReturns
<1>13. CASE AdmitWaits(c) \/ WaitBlocks(c)
  <2>1. /\ Ready /\ pending # {} /\ pc[c] \in {"admit", "flush"} /\ pc'[c] \in {"space", "complete"}
        /\ UNCHANGED <<arg, held, known, accepted>> /\ \A b \in Client \ {c} : pc'[b] = pc[b]
    BY <1>13, Zenon DEF AdmitWaits, WaitBlocks, Fits, Drained, TypedCalls
  <2>2. CalledAt(c)'
    BY <1>1, <1>2, <2>1, Zenon DEF CalledAt, Ready
  <2> QED
    BY <1>3, <2>1, <2>2, Zenon
<1>14. CASE LoadReads(c)
  <2>1. PICK d \in Of(packed, arg[c]) : held' = [held EXCEPT ![c] = d]
    BY <1>14, Zenon DEF LoadReads
  <2>2. /\ Ready /\ pc[c] = "read" /\ pc'[c] = "found" /\ held'[c] = d
        /\ UNCHANGED <<arg, known, accepted>>
        /\ \A b \in Client \ {c} : pc'[b] = pc[b] /\ held'[b] = held[b]
    BY <1>14, <2>1, Zenon DEF LoadReads, TypedCalls
  <2>3. CalledAt(c)'
    <3>1. d \in Of(pending \cup packed, arg[c])
      BY <2>1, Zenon DEF Of
    <3>2. up' = "running" /\ ("found" # "idle" /\ "found" # "read")
      BY <1>1, <2>2, Zenon DEF Ready
    <3>3. /\ pc'[c] \notin {"space", "complete"} /\ held'[c] \in Of(pending' \cup packed', arg'[c])
          /\ known'[c] = known[c] /\ Of(accepted', arg'[c]) = Of(accepted, arg[c])
      BY <1>1, <2>2, <3>1, Zenon
    <3> QED
      BY <1>2, <2>2, <3>2, <3>3, Zenon DEF CalledAt
  <2> QED
    BY <1>3, <2>2, <2>3, Zenon
<1> QED
  BY <1>5, <1>6, <1>7, <1>8, <1>9, <1>10, <1>11, <1>12, <1>13, <1>14, Zenon DEF Begins, QuietServe

(* What the calls rely on is kept by every step.                            *)
LEMMA CalledStep ==
  ASSUME Typed, Once, Posted, Carried, Stored, Called, TNext
  PROVE  Called'
<1> USE DEF calls, memory, disk, ghosts
<1>0. TypedCore /\ TypedLists /\ TypedCalls /\ TypedWorkers
  BY DEF Typed
<1>1. \A b \in Client : CalledAt(b)
  BY CalledEach
<1>2. ASSUME NEW c \in Client, Begins(c) \/ QuietServe(c) PROVE Called'
  BY <1>0, <1>2, CallServes
<1>3. ASSUME NEW c \in Client, AdmitNew(c) PROVE Called'
  <2>1. /\ Answer(c, "ok") /\ pending' = pending \cup {arg[c]} /\ accepted' = accepted \cup {arg[c]}
        /\ UNCHANGED <<up, failure, packed>>
    BY <1>3, Zenon DEF AdmitNew
  <2>2. /\ CalledAt(c)'
        /\ \A b \in Client \ {c} : /\ pc'[b] = pc[b] /\ arg'[b] = arg[b] /\ held'[b] = held[b]
                                   /\ known'[b] = known[b]
    BY <1>0, <2>1, AnswerIdle, CallerIdle, Zenon
  <2>3. ASSUME NEW b \in Client \ {c} PROVE CalledAt(b)'
    BY <1>1, <2>1, <2>2, CallerStays, Zenon
  <2> QED
    BY <2>2, <2>3, CalledEachNext
<1>4. ASSUME NEW places \in [Client -> Place], pc' = WakeClients(places),
             \A b \in Client : places[b] = pc[b] \/ (places[b] = "idle" /\ ~known[b]),
             UNCHANGED <<up, packed, accepted, arg, held, known>>,
             pending' \cup packed' = pending \cup packed
      PROVE  Called'
  <2>1. ASSUME NEW b \in Client PROVE CalledAt(b)'
    BY <1>0, <1>1, <1>4, CallerWoken, Zenon
  <2> QED
    BY <2>1, CalledEachNext
<1>5. pc \in [Client -> Place]
  BY <1>0 DEF TypedCalls
<1>6. ASSUME NEW c \in Client, WaitFails(c) PROVE Called'
  <2> DEFINE places == [pc EXCEPT ![c] = "idle"]
  <2>1. places \in [Client -> Place] /\ pc' = WakeClients(places)
    BY <1>5, <1>6 DEF WaitFails, RecordFailure, Place
  <2>2. \A b \in Client : places[b] = pc[b] \/ (places[b] = "idle" /\ ~known[b])
    BY <1>1, <1>5, <1>6, Zenon DEF WaitFails, CalledAt
  <2>3. UNCHANGED <<up, pending, packed, accepted, arg, held, known>>
    BY <1>6 DEF WaitFails
  <2> HIDE DEF places
  <2> QED
    BY <1>4, <2>1, <2>2, <2>3, Zenon
<1>7. ASSUME UNCHANGED <<up, failure, pending, packed, accepted, pc, arg, held, known>>
       PROVE  Called'
  <2>1. ASSUME NEW b \in Client PROVE CalledAt(b)'
    BY <1>1, <1>7, CallerStays, Zenon
  <2> QED
    BY <2>1, CalledEachNext
<1>8. ASSUME NEW w \in Io, Works(w) PROVE Called'
  <2>1. CASE IoExits(w) \/ IoSleeps(w) \/ IoTakes(w) \/ IoBreaks(w)
    BY <1>7, <2>1, Zenon DEF IoExits, IoSleeps, IoTakes, IoBreaks
  <2>2. CASE IoWrites(w)
    <3>1. /\ packed' = packed \cup {job[w]}
          /\ UNCHANGED <<up, failure, pending, accepted, pc, arg, held, known>>
      BY <2>2, Zenon DEF IoWrites
    <3>2. ASSUME NEW b \in Client PROVE CalledAt(b)'
      BY <1>1, <3>1, CallerStays, Zenon
    <3> QED
      BY <3>2, CalledEachNext
  <2>3. CASE IoRetires(w)
    <3>1. /\ job[w] \in packed /\ pending' = pending \ {job[w]} /\ pc' = WakeClients(pc)
          /\ UNCHANGED <<up, packed, accepted, arg, held, known>>
      BY <2>3, Zenon DEF IoRetires, Posted
    <3> QED
      BY <1>4, <1>5, <3>1
  <2>4. CASE IoRecords(w)
    BY <1>4, <1>5, <2>4 DEF IoRecords, RecordFailure
  <2> QED
    BY <1>8, <2>1, <2>2, <2>3, <2>4, Zenon DEF Works
<1>9. ASSUME Prefetches PROVE Called'
  BY <1>9, <1>7, QuietPrefetch DEF queue
<1>10. ASSUME PrefetchFails PROVE Called'
  BY <1>4, <1>5, <1>10 DEF PrefetchFails, RecordFailure
<1>11. ASSUME Open \/ BeginShutdown \/ EndShutdown \/ ShutdownFails PROVE Called'
  <2>1. UNCHANGED <<pc, known>> /\ \A b \in Client : pc[b] = "idle"
    BY <1>11, Zenon DEF Open, BeginShutdown, EndShutdown, ShutdownFails, Called
  <2>2. \A b \in Client : pc'[b] = "idle" /\ ~known'[b]
    BY <1>1, <2>1, Zenon DEF CalledAt
  <2> QED
    BY <2>2, CallerIdle, CalledEachNext
<1>12. ASSUME PowerLoss PROVE Called'
  <2>1. \A b \in Client : pc'[b] = "idle" /\ ~known'[b]
    BY <1>12 DEF PowerLoss
  <2> QED
    BY <2>1, CallerIdle, CalledEachNext
<1> QED
  BY StepCases, <1>2, <1>3, <1>6, <1>8, <1>9, <1>10, <1>11, <1>12, Zenon

-----------------------------------------------------------------------------
(* A store that was never opened satisfies the invariant.                   *)
LEMMA StoreInit == TInit => StoreInv
<1> SUFFICES ASSUME TInit PROVE StoreInv
  OBVIOUS
<1> USE StoreAssumption DEF TInit
<1>1. Typed
  <2>0. <<>> \in Seq(Content)
    OBVIOUS
  <2>1. TypedCore /\ TypedLists
    BY <2>0, Zenon DEF TypedCore, TypedLists
  <2>2. TypedCalls /\ TypedWorkers
    BY DEF TypedCalls, TypedWorkers, Place, Post
  <2> QED
    BY <2>1, <2>2 DEF Typed
<1>2. Once /\ Posted /\ Carried
  <2>1. DOMAIN io_queue = {}
    BY ONLY TInit DEF TInit
  <2> QED
    BY <2>1, Zenon DEF Once, Posted, Carried
<1>3. Range(<<>>) = {}
  BY DEF Range
<1>4. Stored /\ Called
  BY <1>3, Zenon DEF Stored, Called
<1> QED
  BY <1>1, <1>2, <1>4 DEF StoreInv

(* The invariant is kept by every step and by stuttering.                   *)
LEMMA StoreKeeps == StoreInv /\ [TNext]_tvars => StoreInv'
<1> SUFFICES ASSUME StoreInv, [TNext]_tvars PROVE StoreInv'
  OBVIOUS
<1>0. /\ Typed /\ Once /\ Posted /\ Carried /\ Stored /\ Called
      /\ TypedCore /\ TypedLists /\ TypedCalls /\ TypedWorkers
  BY DEF StoreInv, Typed
<1>1. CASE TNext
  <2>1. TypedCore' /\ TypedLists' /\ TypedCalls' /\ TypedWorkers'
    BY <1>0, <1>1, CoreStep, ListsStep, CallsStep, WorkersStep
  <2>2. Once' /\ Posted' /\ Carried' /\ Stored' /\ Called'
    BY <1>0, <1>1, OnceStep, PostedStep, CarriedStep, StoredStep, CalledStep
  <2> QED
    BY <2>1, <2>2 DEF StoreInv, Typed
<1>2. CASE UNCHANGED tvars
  <2>1. UNCHANGED <<up, failure, pending, io_queue, hot, warm, prefetch_queue, fetching, packed,
                    synced, pc, arg, held, known, io, job, accepted, promised>>
    BY <1>2 DEF tvars, memory, disk, calls, workers, ghosts
  <2>2. Typed'
    BY <1>0, <2>1, Zenon DEF Typed, TypedCore, TypedLists, TypedCalls, TypedWorkers
  <2>3. Once' /\ Posted' /\ Carried'
    BY <1>0, <2>1, Zenon DEF Once, Posted, Carried
  <2>4. Stored' /\ Called'
    BY <1>0, <2>1, Zenon DEF Stored, Called, Ready
  <2> QED
    BY <2>2, <2>3, <2>4 DEF StoreInv
<1> QED
  BY <1>1, <1>2

(* The inductive invariant of the snapshot store, for any number of         *)
(* callers, workers and contents and any fault bound: no step of save(),    *)
(* load_buffer(), io_worker(), the prefetcher, init(), shutdown() or a      *)
(* power loss breaks it.                                                    *)
THEOREM StoreInvariant == TSpec => []StoreInv
  BY StoreInit, StoreKeeps, PTL DEF TSpec

(* Nobody sleeps for ever: while a caller waits on space_cv_ or on          *)
(* completion_cv_ the store runs and something is pending, what is pending  *)
(* is exactly what is queued or in a worker's hands, and while io_queue_    *)
(* holds a write some worker is awake (save(), wait_for_completion(),       *)
(* io_worker(), record_failure()).                                          *)
THEOREM NobodySleepsForEver == TSpec => []SleepersWillWake
<1>1. StoreInv => SleepersWillWake
  <2> SUFFICES ASSUME StoreInv PROVE SleepersWillWake
    OBVIOUS
  <2>0. Once /\ Posted /\ Carried /\ Called
    BY DEF StoreInv
  <2>1. \A c \in Client : pc[c] \in {"space", "complete"} => Ready /\ pending # {}
    BY <2>0, Zenon DEF Called
  <2>2. (io_queue # <<>> /\ ~failure) => \E w \in Io : io[w] \notin {"sleep", "exit"}
    BY <2>0, Zenon DEF Posted
  <2>3. ASSUME up # "down", ~failure
        PROVE  pending = Range(io_queue) \cup ({job[w] : w \in Io} \ {None})
    <3>1. Range(io_queue) \cup ({job[w] : w \in Io} \ {None}) \subseteq pending
      <4>1. Range(io_queue) \subseteq pending
        <5>1. \A i \in DOMAIN io_queue : io_queue[i] \in pending
          BY <2>0, Zenon DEF Once
        <5> QED
          BY ONLY <5>1 DEF Range
      <4>2. \A w \in Io : job[w] # None => job[w] \in pending
        BY <2>0, Zenon DEF Once
      <4> QED
        BY ONLY <4>1, <4>2, Zenon
    <3>2. None \notin pending
      BY StoreAssumption DEF StoreInv, Typed, TypedCore
    <3>3. pending \subseteq Range(io_queue) \cup ({job[w] : w \in Io} \ {None})
      BY <2>0, <2>3, <3>2, Zenon DEF Carried, Range
    <3> QED
      BY <3>1, <3>3
  <2> QED
    BY <2>1, <2>2, <2>3, Zenon DEF SleepersWillWake
<1> QED
  BY <1>1, StoreInvariant, PTL

(* Accepted bytes are never dropped and a hash never names two contents,    *)
(* whatever save() calls interleave with the workers, the evictions, the    *)
(* failures and the power losses.                                           *)
THEOREM AcceptedBytesAreKept == TSpec => []AcceptedIsKept
<1>1. StoreInv => AcceptedIsKept
  <2> SUFFICES ASSUME StoreInv PROVE AcceptedIsKept
    OBVIOUS
  <2>1. /\ accepted \cup Range(hot) \cup Range(warm) \subseteq pending \cup packed
        /\ promised \subseteq synced /\ synced \subseteq packed
        /\ \A d, e \in pending \cup packed : HashOf[d] = HashOf[e] => d = e
    BY DEF StoreInv, Stored, Typed, TypedCore
  <2>2. accepted \cup promised \subseteq pending \cup packed
    BY <2>1
  <2> QED
    BY <2>1, <2>2 DEF AcceptedIsKept
<1> QED
  BY <1>1, StoreInvariant, PTL

(* What wait_for_completion() or shutdown() has confirmed is on disk and    *)
(* synced, and stays so over every later failure, restart and power loss.   *)
THEOREM ConfirmedIsDurable == TSpec => []PromisedIsDurable
<1>1. StoreInv => PromisedIsDurable
  BY DEF StoreInv, Stored, PromisedIsDurable
<1> QED
  BY <1>1, StoreInvariant, PTL

-----------------------------------------------------------------------------
(* A load under way that returns in a step: only its own steps end it, and  *)
(* they answer an error or the accepted bytes.                              *)
LEMMA LoadEnds ==
  ASSUME StoreInv, TNext, NEW c \in Client, known[c], pc'[c] = "idle", up' # "down"
  PROVE  result' \in {"error"} \cup Of(accepted, arg[c])
<1> USE DEF calls
<1>0. /\ pc[c] \in {"read", "found"} /\ Of(accepted, arg[c]) # {} /\ pc \in [Client -> Place]
      /\ pc[c] = "read" => Of(accepted \cap packed, arg[c]) # {}
  BY Zenon DEF StoreInv, Called, Typed, TypedCalls
<1>1. ASSUME NEW b \in Client, Begins(b) PROVE FALSE
  <2>1. pc[b] = "idle" /\ \A x \in Client \ {b} : pc'[x] = pc[x]
    <3>1. CASE Refused(b) \/ Wait(b)
      BY <1>0, <3>1 DEF Refused, Wait, Callable, Answer
    <3>2. ASSUME NEW d \in Content, NEW r \in Hashes \cup {None}, Save(b, d, r)
          PROVE  pc[b] = "idle" /\ \A x \in Client \ {b} : pc'[x] = pc[x]
      BY <1>0, <3>2, Zenon DEF Save, Callable, Answer
    <3>3. ASSUME NEW h \in Hashes, LoadHits(b, h) \/ LoadMisses(b, h)
          PROVE  pc[b] = "idle" /\ \A x \in Client \ {b} : pc'[x] = pc[x]
      BY <1>0, <3>3, Zenon DEF LoadHits, LoadMisses, Callable, Answer
    <3> QED
      BY <1>1, <3>1, <3>2, <3>3, Zenon DEF Begins
  <2> QED
    BY <1>0, <2>1
<1>2. ASSUME NEW b \in Client, QuietServe(b)
      PROVE  result' \in {"error"} \cup Of(accepted, arg[c])
  <2>1. CASE AdmitKnown(b) \/ AdmitThrows(b) \/ AdmitWaits(b)
    BY <1>0, <2>1, Zenon DEF AdmitKnown, AdmitThrows, AdmitWaits, Answer
  <2>2. CASE WaitBlocks(b) \/ WaitFlushes(b)
    BY <1>0, <2>2, Zenon DEF WaitBlocks, WaitFlushes, Answer
  <2>3. CASE CallFails(b) \/ LoadThrows(b)
    BY <1>0, <2>3, Zenon DEF CallFails, LoadThrows, Answer
  <2>4. CASE LoadReads(b)
    BY <1>0, <2>4, Zenon DEF LoadReads
  <2>5. CASE LoadFindsNothing(b)
    <3>1. Of(packed, arg[b]) = {} /\ pc[b] = "read" /\ \A x \in Client \ {b} : pc'[x] = pc[x]
      BY <1>0, <2>5 DEF LoadFindsNothing, Answer
    <3> QED
      BY <1>0, <3>1, Zenon DEF Of
  <2>6. CASE LoadReturns(b)
    <3>1. /\ pc[b] = "found" /\ result' = held[b] /\ \A x \in Client \ {b} : pc'[x] = pc[x]
      BY <1>0, <2>6 DEF LoadReturns, Answer
    <3>2. b = c
      BY <1>0, <3>1, Zenon
    <3>3. held[c] \in Of(pending \cup packed, arg[c])
      BY <3>1, <3>2, Zenon DEF StoreInv, Called
    <3>4. PICK e \in Of(accepted, arg[c]) : TRUE
      BY <1>0, Zenon
    <3>5. e = held[c]
      BY <3>3, <3>4, Zenon DEF StoreInv, Stored, Of
    <3> QED
      BY <3>1, <3>2, <3>4, <3>5, Zenon
  <2> QED
    BY <1>2, <2>1, <2>2, <2>3, <2>4, <2>5, <2>6, Zenon DEF QuietServe
<1>3. ASSUME NEW places \in [Client -> Place], places[c] = pc[c], pc' = WakeClients(places)
      PROVE  FALSE
  <2>1. pc'[c] = places[c]
    BY <1>0, <1>3, WakeFacts, Zenon
  <2> QED
    BY <1>0, <1>3, <2>1, Zenon
<1>4. ASSUME NEW b \in Client, AdmitNew(b) \/ WaitFails(b) PROVE FALSE
  <2>1. CASE AdmitNew(b)
    BY <1>0, <2>1, Zenon DEF AdmitNew, Answer
  <2>2. CASE WaitFails(b)
    <3> DEFINE places == [pc EXCEPT ![b] = "idle"]
    <3>1. places \in [Client -> Place] /\ places[c] = pc[c] /\ pc' = WakeClients(places)
      BY <1>0, <2>2, Zenon DEF WaitFails, RecordFailure, Place
    <3> HIDE DEF places
    <3> QED
      BY <1>3, <3>1, Zenon
  <2> QED
    BY <1>4, <2>1, <2>2, Zenon
<1>5. ASSUME NEW w \in Io, Works(w) PROVE FALSE
  <2>1. CASE pc' = pc
    BY <1>0, <2>1, Zenon
  <2>2. CASE pc' = WakeClients(pc)
    BY <1>0, <1>3, <2>2, Zenon
  <2>3. pc' = pc \/ pc' = WakeClients(pc)
    BY <1>5, Zenon DEF Works, IoExits, IoSleeps, IoTakes, IoWrites, IoRetires, IoBreaks, IoRecords,
                RecordFailure
  <2> QED
    BY <2>1, <2>2, <2>3
<1>6. ASSUME Prefetches \/ PrefetchFails PROVE FALSE
  <2>1. CASE Prefetches
    BY <1>0, <2>1, QuietPrefetch, Zenon
  <2>2. CASE PrefetchFails
    BY <1>0, <1>3, <2>2, Zenon DEF PrefetchFails, RecordFailure
  <2> QED
    BY <1>6, <2>1, <2>2, Zenon
<1>7. ASSUME Open \/ BeginShutdown \/ EndShutdown \/ ShutdownFails \/ PowerLoss PROVE FALSE
  BY <1>0, <1>7, Zenon DEF Open, BeginShutdown, EndShutdown, ShutdownFails, PowerLoss
<1> QED
  BY StepCases, <1>1, <1>2, <1>4, <1>5, <1>6, <1>7, Zenon

(* A load of a hash that save() had accepted answers its bytes or an error, *)
(* never "not found", although load_buffer() looks in pending_, in the      *)
(* caches and in the packed store one after the other while the workers     *)
(* move the bytes between them.                                             *)
THEOREM LoadsAnswerAccepted == TSpec => LoadAnswersAccepted
<1>1. StoreInv /\ [TNext]_tvars =>
        [\A c \in Client : (known[c] /\ pc[c] # "idle" /\ pc'[c] = "idle" /\ up' # "down")
           => result' \in {"error"} \cup Of(accepted, arg[c])]_tvars
  BY LoadEnds, Zenon
<1> QED
  BY <1>1, StoreInvariant, PTL DEF TSpec, LoadAnswersAccepted
=============================================================================
