-------------------------- MODULE ObjectTransport ---------------------------
(***************************************************************************)
(* The exchange of snapshot bundles over sealed memory segments: Object-   *)
(* Cache and ObjectTransport (src/src/core/search/object_transport.cpp),   *)
(* driven by Channel::send() and Channel::receive() (protocol.cpp), with   *)
(* the import of the bundle before it is confirmed (import_bundle(),       *)
(* snapshot_bundle.cpp).  The coordinator has one cache for all its        *)
(* channels; it sends tasks, workers send edges.                           *)
(*                                                                         *)
(* A bundle is a sequence of contents.  An endpoint is a pair of a process *)
(* and the worker at whose channel it sits.  The transfer numbers of the   *)
(* code agree by construction: an endpoint that failed is never used again.*)
(***************************************************************************)
EXTENDS Blobs, Sequences, FiniteSets, SequencesExt, FiniteSetsExt

CONSTANTS
  Bundle, First,    \* the bundles that are exchanged; those the coordinator begins with
  CacheSegments,    \* cache_segments
  SegmentObjects,   \* how many blobs fit in segment_bytes
  MaxObjects,       \* max_objects
  ConfirmedKeys,    \* confirmed_keys
  MaxTransfers,     \* bounds: the transfers and the losses, together,
  MaxLosses         \* and the timeouts and killed workers

ASSUME TransportAssumption ==
  /\ Bundle \subseteq Seq(Content) /\ First \subseteq Bundle
  /\ MaxObjects > 0 /\ SegmentObjects > 0 /\ ConfirmedKeys > 0

Endpoint == {<<p, w>> \in Proc \X Worker : p \in {w, Coord}}
Peer(e) == <<IF e[1] = Coord THEN e[2] ELSE Coord, e[2]>>

VARIABLES
  cache,     \* ObjectCache: lru, the oldest segment first
  store,     \* StateStore: the contents each process has
  confirmed, \* confirmation_order of each endpoint
  failed,    \* the transport and its channel have failed
  call,      \* what each endpoint is doing
  inbox,     \* the packets that each endpoint has not read yet
  leased,    \* the workers that work on a task
  transfers, losses

procs == <<cache, store, confirmed>>
bounds == <<transfers, losses>>
otvars == <<procs, failed, call, inbox, leased, bounds>>

Idle == [op |-> "idle"]

OTInit ==
  /\ cache = [p \in Proc |-> <<>>]
  /\ store = [p \in Proc |-> IF p = Coord THEN UNION {Range(b) : b \in First} ELSE {}]
  /\ confirmed = [e \in Endpoint |-> <<>>] /\ failed = [e \in Endpoint |-> FALSE]
  /\ call = [e \in Endpoint |-> Idle] /\ inbox = [e \in Endpoint |-> <<>>]
  /\ leased = {} /\ transfers = 0 /\ losses = 0

-----------------------------------------------------------------------------
(* ObjectCache.  A segment is the contents that its entry indexes, whether  *)
(* it is published and who staged it; find() sees the published ones.       *)
Visible(q) == UNION {q[i].rows : i \in {i \in DOMAIN q : q[i].published}}
Find(q, key) == {d \in Visible(q) : KeyOf[d] = key}
Conflicts(q, c) == Find(q, KeyOf[c]) \ {c} # {}

(* find() moves the segment to the young end.                               *)
Used(q, c) ==
  LET i == CHOOSE i \in DOMAIN q : q[i].published /\ c \in q[i].rows
  IN  IF c \in Visible(q) THEN Append(RemoveAt(q, i), q[i]) ELSE q
UsedAll(q, cs) == FoldLeft(Used, q, SetToSeq(cs))

(* stage(): rows that are cached already are left out; the oldest segment   *)
(* makes room, a staged one too.                                            *)
Stage(q, rows, e) ==
  LET seen == UsedAll(q, rows)
      room == IF Len(q) >= CacheSegments THEN Tail(seen) ELSE seen
  IN  IF rows \subseteq Visible(q) \/ CacheSegments = 0 THEN seen
      ELSE Append(room, [rows |-> rows \ Visible(q), published |-> FALSE, by |-> e])

(* publish(): rows that an earlier segment of the call has are left out.    *)
Publish(q, e) ==
  LET Settle(r, s) ==
        IF s.published \/ s.by # e THEN Append(r, s)
        ELSE LET rows == s.rows \ (Visible(q) \cup Visible(r))
             IN  IF rows = {} THEN r
                 ELSE Append(r, [rows |-> rows, published |-> TRUE, by |-> e])
  IN  FoldLeft(Settle, <<>>, q)

Cancel(q, e) == SelectSeq(q, LAMBDA s : s.published \/ s.by # e)

(* hint(): the oldest confirmation is forgotten.                            *)
Hinted(q, key) ==
  IF key \in Range(q) THEN q
  ELSE Append(IF Len(q) >= ConfirmedKeys THEN Tail(q) ELSE q, key)

-----------------------------------------------------------------------------
Process(e) == e[1]
Free(e) ==
  ~failed[e] /\ \A f \in Endpoint : Process(f) = Process(e) => call[f] = Idle
Calls(e, op) == call[e].op = op /\ ~failed[e]
Sees(e, op) == inbox[e] # <<>> /\ Head(inbox[e]).op = op
Post(e, packet) == inbox' = [inbox EXCEPT ![Peer(e)] = Append(@, packet)]
Consume(e) == inbox' = [inbox EXCEPT ![e] = Tail(@)]
Answer(e, packet) == inbox' = [inbox EXCEPT ![e] = Tail(@), ![Peer(e)] = Append(@, packet)]
Becomes(e, c) == call' = [call EXCEPT ![e] = c]

(* An exception on e: what it staged is cancelled and the transport cannot  *)
(* be used again; an Abort packet or the closed socket tells the peer.      *)
Fails(e) ==
  /\ failed' = [failed EXCEPT ![e] = TRUE]
  /\ cache' = [cache EXCEPT ![Process(e)] = Cancel(@, e)]
  /\ Becomes(e, Idle) /\ inbox' = [inbox EXCEPT ![e] = <<>>]
  /\ UNCHANGED <<store, confirmed, leased, bounds>>

(* plan() and the frame: a blob goes as a reference when the peer has       *)
(* confirmed its key and the cache holds the same bytes.  The coordinator   *)
(* sends a task to an idle worker, the worker an edge of its task.          *)
References(e, b) ==
  {i \in DOMAIN b : b[i] \in Visible(cache[Process(e)]) /\ KeyOf[b[i]] \in Range(confirmed[e])}

MaySend(e, b) ==
  /\ Free(e) /\ ~failed[Peer(e)] /\ transfers + losses < MaxTransfers /\ inbox[e] = <<>>
  /\ IF Process(e) = Coord THEN e[2] \notin leased /\ Range(b) \subseteq store[Coord]
     ELSE e[2] \in leased /\ \A c \in Range(b), d \in store[Process(e)] : KeyOf[c] = KeyOf[d] => c = d

Send(e, b) ==
  /\ MaySend(e, b) /\ \A c \in Range(b) : ~Conflicts(cache[Process(e)], c)
  /\ LET refs == References(e, b)
     IN  /\ Becomes(e, [op |-> "send", bundle |-> b, refs |-> refs, asked |-> {}])
         /\ Post(e, [op |-> "frame", keys |-> [i \in DOMAIN b |-> KeyOf[b[i]]], refs |-> refs])
  /\ cache' = [cache EXCEPT ![Process(e)] = UsedAll(@, Range(b))]
  /\ store' = [store EXCEPT ![Process(e)] = @ \cup Range(b)]
  /\ leased' = leased \cup {e[2]} /\ transfers' = transfers + 1
  /\ UNCHANGED <<confirmed, failed, losses>>

SendRefused(e, b) ==
  /\ MaySend(e, b) /\ \E c \in Range(b) : Conflicts(cache[Process(e)], c)
  /\ Fails(e)

(* receive(): references that are still cached are copied, the others are   *)
(* asked for, MaxObjects at a time.                                         *)
Indices(q) == [i \in DOMAIN q |-> i]
Wanted(missing) == SubSeq(missing, 1, Min({MaxObjects, Len(missing)}))
NeedMutant(missing) ==
  [op |-> "need", wanted |-> Range(Wanted(missing)), last |-> Len(missing) < MaxObjects]
Need(missing) ==
  [op |-> "need", wanted |-> Range(Wanted(missing)), last |-> Len(missing) <= MaxObjects]

Receive(e) ==
  /\ Free(e) /\ Sees(e, "frame")
  /\ LET f == Head(inbox[e])
         q == cache[Process(e)]
         hit == {i \in f.refs : Find(q, f.keys[i]) # {}}
         got == [i \in hit |-> CHOOSE d \in Find(q, f.keys[i]) : TRUE]
         missing == SelectSeq(Indices(f.keys), LAMBDA i : i \notin hit)
     IN  /\ Becomes(e, [op |-> "await", keys |-> f.keys, got |-> got, missing |-> missing])
         /\ Answer(e, Need(missing))
         /\ cache' = [cache EXCEPT ![Process(e)] = UsedAll(q, Range(got))]
  /\ UNCHANGED <<store, confirmed, failed, leased, bounds>>

(* send(): cached blobs go in the segments they are in, the others in new   *)
(* segments of at most SegmentObjects.                                      *)
Groups(q, b, wanted) ==
  {g \in {{i \in wanted : q[s].published /\ b[i] \in q[s].rows} : s \in DOMAIN q} : g # {}}
RECURSIVE Batches(_)
Batches(is) ==
  IF is = <<>> THEN <<>>
  ELSE LET n == Min({SegmentObjects, Len(is)})
       IN  <<Range(SubSeq(is, 1, n))>> \o Batches(SubSeq(is, n + 1, Len(is)))

(* emit_segment(): a new segment is staged, and waits for its ACK.  After   *)
(* the last one the chunk ends; after the last chunk every blob must have   *)
(* been asked for, unless it went as a reference.                           *)
Continue(e, c, q) ==
  LET left == c.old \o c.new
      bytes == [i \in Head(left) |-> c.bundle[i]]
      omitted == left = <<>> /\ c.last /\ DOMAIN c.bundle # c.refs \cup c.asked
  IN  /\ Answer(e, IF left = <<>> THEN [op |-> "end"] ELSE [op |-> "segment", bytes |-> bytes])
      /\ Becomes(e, CASE omitted -> Idle
                      [] left = <<>> -> [op |-> IF c.last THEN "commit" ELSE "send",
                                         bundle |-> c.bundle, refs |-> c.refs, asked |-> c.asked]
                      [] c.old # <<>> -> [c EXCEPT !.old = Tail(@)]
                      [] OTHER -> [c EXCEPT !.new = Tail(@)])
      /\ cache' = [cache EXCEPT ![Process(e)] =
                     CASE omitted -> Cancel(q, e)
                       [] left # <<>> /\ c.old = <<>> -> Stage(q, Range(bytes), e)
                       [] OTHER -> q]
      /\ failed' = [failed EXCEPT ![e] = omitted]
      /\ UNCHANGED <<store, confirmed, leased, bounds>>

Serve(e) ==
  /\ Calls(e, "send") /\ Sees(e, "need")
  /\ LET c == call[e]
         n == Head(inbox[e])
         q == cache[Process(e)]
         cached == {i \in n.wanted : c.bundle[i] \in Visible(q)}
         serving == [op |-> "serve", bundle |-> c.bundle, refs |-> c.refs,
                     asked |-> c.asked \cup n.wanted, last |-> n.last,
                     old |-> SetToSeq(Groups(q, c.bundle, cached)),
                     new |-> Batches(SelectSeq(Indices(c.bundle), LAMBDA i : i \in n.wanted \ cached))]
     IN  IF \E i \in n.wanted : i \in c.asked \/ Conflicts(q, c.bundle[i]) THEN Fails(e)
         ELSE \E now \in {serving}, used \in {UsedAll(q, {c.bundle[i] : i \in cached})} :
                Continue(e, now, used)

Acknowledged(e) ==
  Calls(e, "serve") /\ Sees(e, "ack") /\ Continue(e, call[e], cache[Process(e)])

(* The receiver copies a segment's objects and stages it.                   *)
Segment(e) ==
  /\ Calls(e, "await") /\ Sees(e, "segment")
  /\ LET c == call[e]
         bytes == Head(inbox[e]).bytes
         wanted == Range(Wanted(c.missing)) \ DOMAIN c.got
     IN  IF ~(DOMAIN bytes \subseteq wanted) \/ (\E i \in DOMAIN bytes : KeyOf[bytes[i]] # c.keys[i])
            \/ (\E d \in Range(bytes) : Conflicts(cache[Process(e)], d))
         THEN Fails(e)
         ELSE /\ Becomes(e, [c EXCEPT !.got = [i \in DOMAIN c.got \cup DOMAIN bytes |->
                                IF i \in DOMAIN bytes THEN bytes[i] ELSE c.got[i]]])
              /\ cache' = [cache EXCEPT ![Process(e)] = Stage(@, Range(bytes), e)]
              /\ Answer(e, [op |-> "ack"])
              /\ UNCHANGED <<store, confirmed, failed, leased, bounds>>

EndOfChunk(e) ==
  /\ Calls(e, "await") /\ Sees(e, "end")
  /\ LET c == call[e]
         rest == SubSeq(c.missing, MaxObjects + 1, Len(c.missing))
     IN  IF ~(Range(Wanted(c.missing)) \subseteq DOMAIN c.got) THEN Fails(e)
         ELSE /\ Becomes(e, IF Len(c.missing) <= MaxObjects THEN [c EXCEPT !.op = "import"]
                            ELSE [c EXCEPT !.missing = rest])
              /\ IF Len(c.missing) <= MaxObjects THEN Consume(e) ELSE Answer(e, Need(rest))
              /\ UNCHANGED <<procs, failed, leased, bounds>>

(* import_bundle() refuses contents that differ from what the store has     *)
(* under their keys; confirm() then publishes the segments.  publish() can  *)
(* meet no conflict: what is published went through the store of its        *)
(* process, and so did what is published now.                               *)
AdmitsMutant(p, contents) == TRUE
Admits(p, contents) == \A c \in contents, d \in store[p] : KeyOf[c] = KeyOf[d] => c = d

Import(e) ==
  /\ Calls(e, "import")
  /\ IF ~Admits(Process(e), Range(call[e].got)) THEN Fails(e)
     ELSE /\ store' = [store EXCEPT ![Process(e)] = @ \cup Range(call[e].got)]
          /\ cache' = [cache EXCEPT ![Process(e)] = Publish(@, e)]
          /\ Becomes(e, Idle) /\ Post(e, [op |-> "committed"])
          /\ UNCHANGED <<confirmed, failed, leased, bounds>>

Committed(e) ==
  /\ Calls(e, "commit") /\ Sees(e, "committed") /\ Consume(e)
  /\ cache' = [cache EXCEPT ![Process(e)] = Publish(@, e)]
  /\ confirmed' = [confirmed EXCEPT ![e] =
       FoldLeft(Hinted, @, [i \in DOMAIN call[e].bundle |-> KeyOf[call[e].bundle[i]]])]
  /\ Becomes(e, Idle)
  /\ UNCHANGED <<store, failed, leased, bounds>>

TaskDone(w) ==
  /\ w \in leased /\ call[<<w, w>>] = Idle /\ ~failed[<<w, w>>] /\ inbox[<<w, w>>] = <<>>
  /\ call[<<Coord, w>>] = Idle
  /\ leased' = leased \ {w}
  /\ UNCHANGED <<procs, failed, call, inbox, bounds>>

-----------------------------------------------------------------------------
(* Every wait has a deadline, and notices an endpoint that is gone.         *)
Waits(e) == ~failed[e] /\ call[e].op \in {"send", "serve", "commit", "await"}
PeerGone(e) == Waits(e) /\ failed[Peer(e)] /\ inbox[e] = <<>> /\ Fails(e)

MayLose == losses < MaxLosses /\ transfers + losses < MaxTransfers /\ losses' = losses + 1

TimedOut(e) ==
  /\ Waits(e) /\ MayLose
  /\ failed' = [failed EXCEPT ![e] = TRUE]
  /\ cache' = [cache EXCEPT ![Process(e)] = Cancel(@, e)]
  /\ Becomes(e, Idle) /\ inbox' = [inbox EXCEPT ![e] = <<>>]
  /\ UNCHANGED <<store, confirmed, leased, transfers>>

LoseWorker(w) ==
  /\ MayLose /\ ~failed[<<w, w>>]
  /\ failed' = [failed EXCEPT ![<<w, w>>] = TRUE]
  /\ Becomes(<<w, w>>, Idle) /\ inbox' = [inbox EXCEPT ![<<w, w>>] = <<>>]
  /\ cache' = [cache EXCEPT ![w] = <<>>] /\ store' = [store EXCEPT ![w] = {}]
  /\ UNCHANGED <<confirmed, leased, transfers>>

(* The coordinator replaces a worker whose channel has failed: a new        *)
(* process, an empty store and cache, a new channel.                        *)
Replace(w) ==
  LET ends == {<<w, w>>, <<Coord, w>>}
  IN  /\ \E e \in ends : failed[e]
      /\ call[<<Coord, w>>] = Idle
      /\ failed' = [e \in Endpoint |-> e \notin ends /\ failed[e]]
      /\ call' = [e \in Endpoint |-> IF e \in ends THEN Idle ELSE call[e]]
      /\ inbox' = [e \in Endpoint |-> IF e \in ends THEN <<>> ELSE inbox[e]]
      /\ confirmed' = [e \in Endpoint |-> IF e \in ends THEN <<>> ELSE confirmed[e]]
      /\ cache' = [cache EXCEPT ![w] = <<>>] /\ store' = [store EXCEPT ![w] = {}]
      /\ leased' = leased \ {w}
      /\ UNCHANGED bounds

Protocol(e) ==
  \/ Receive(e) \/ Serve(e) \/ Acknowledged(e) \/ Segment(e)
  \/ EndOfChunk(e) \/ Import(e) \/ Committed(e) \/ PeerGone(e)

OTNext ==
  \/ \E e \in Endpoint : \/ Protocol(e) \/ TimedOut(e)
                         \/ \E b \in Bundle : Send(e, b) \/ SendRefused(e, b)
  \/ \E w \in Worker : TaskDone(w) \/ LoseWorker(w) \/ Replace(w)

OTSpec == OTInit /\ [][OTNext]_otvars

-----------------------------------------------------------------------------
(* What arrives is what was sent: the bytes a receiver is about to import   *)
(* are those of the sender's bundle, although references are resolved in a  *)
(* cache that evicts, serves every channel and is filled in both directions,*)
(* and although two contents may have one hash.                             *)
ReceivedIsSent ==
  \A e \in Endpoint :
    (Calls(e, "import") /\ Calls(Peer(e), "commit")) => call[e].got = call[Peer(e)].bundle

(* The packets an endpoint can take where it is.                            *)
Takes(e) ==
  CASE call[e].op = "idle" -> {"frame"} [] call[e].op = "send" -> {"need"}
    [] call[e].op = "serve" -> {"ack"} [] call[e].op = "await" -> {"segment", "end"}
    [] call[e].op = "commit" -> {"committed"} [] OTHER -> {}

(* The two sides never wait for each other: where an endpoint waits for its *)
(* peer, one of them has a packet it can take, or the peer has an import to *)
(* finish or is gone.  Both sides count the chunks of a request themselves. *)
NoStandoff ==
  \A e \in Endpoint : Waits(e) =>
    \/ \E f \in {e, Peer(e)} : \E op \in Takes(f) : Sees(f, op)
    \/ failed[Peer(e)] \/ Calls(Peer(e), "import")
=============================================================================
