--------------------------- MODULE FileLockProofs --------------------------
(***************************************************************************)
(* Mutual exclusion by the PID file, for any number of tracers, restarts   *)
(* and lock files.                                                         *)
(***************************************************************************)
EXTENDS Tracees, FiniteSetTheorems, TLAPS

Places == Busy \cup {"off", "in", "refused", "left"}

LTypeOK ==
  /\ pc \in [Tracer -> Places] /\ life \in [Pids -> {"alive", "zombie", "gone"}]
  /\ mine \in [Tracer -> 1..used \cup {NoFile}]
  /\ used \in 0..Inodes /\ entry \in 1..used \cup {NoFile}
  /\ content \in [1..Inodes -> Pids \cup {NoPid}]
  /\ overlap \in BOOLEAN

(* What keeps the lock true while nothing overlaps: one tracer at a time is *)
(* inside a call, it writes its pid to the file that is linked, and it      *)
(* replaces or removes a file only when no other tracer runs.               *)
InTurn ==
  /\ \A p, q \in Tracer : pc[p] \in Busy /\ pc[q] \in Busy => p = q
  /\ \A p \in Tracer : pc[p] = "in" => ReadPid = p
  /\ \A p \in Tracer : pc[p] = "write" => mine[p] # NoFile /\ entry = mine[p]
  /\ \A p, q \in Tracer : pc[p] \in {"write", "unlink", "steal", "remove"} => pc[q] # "in"

LockInv ==
  /\ LTypeOK
  /\ \A p \in Tracer : pc[p] # "off" => life[p] = "alive"
  /\ \A p \in Tracer : pc[p] = "write" => mine[p] # NoFile
  /\ ~overlap => InTurn

-----------------------------------------------------------------------------
(* The scan of /proc/<pid>/stat in is_process_alive() stops at a character  *)
(* of the line, past the pid.                                               *)
LEMMA ScanStops ==
  ASSUME NEW line, Len(line) = 7, line[1] = "pid", line[2] = "space", line[3] = "open",
         line[4] = "comm", line[5] = "close", line[6] = "space"
  PROVE  \E i \in 1..6 : StateChar(line) = line[1 + i]
<1> DEFINE Spaces == {i \in 1..(Len(line) - 1) : line[i] = "space" /\ Depth(line, i) = 0}
           spot == CHOOSE i \in Spaces : \A j \in Spaces : i <= j
<1>1. {j \in 1..2 : line[j] = "open"} = {} /\ {j \in 1..2 : line[j] = "close"} = {}
  <2>1. \A j \in 1..2 : j = 1 \/ j = 2
    OBVIOUS
  <2>2. "pid" # "open" /\ "space" # "open" /\ "pid" # "close" /\ "space" # "close"
    OBVIOUS
  <2>3. \A j \in 1..2 : line[j] # "open" /\ line[j] # "close"
    BY <2>1, <2>2, Zenon
  <2> QED  BY <2>3
<1>2. Depth(line, 2) = 0
  BY <1>1, FS_EmptySet DEF Depth
<1>3. 2 \in Spaces
  BY <1>2
<1>4. \A j \in Spaces : j \in 1..6 /\ 2 <= j
  <2> SUFFICES ASSUME NEW j \in Spaces PROVE j \in 1..6 /\ 2 <= j
    OBVIOUS
  <2>1. j \in 1..(Len(line) - 1) /\ line[j] = "space"
    OBVIOUS
  <2>2. j \in 1..6
    BY <2>1
  <2>3. j # 1
    <3>1. "pid" # "space"
      OBVIOUS
    <3> QED  BY <2>1, <3>1, Zenon
  <2> QED  BY <2>2, <2>3
<1>5. spot \in Spaces
  <2> HIDE DEF Spaces
  <2> QED  BY <1>3, <1>4
<1>6. spot \in 1..6
  <2> HIDE DEF Spaces, spot
  <2> QED  BY <1>4, <1>5
<1>7. StateChar(line) = line[1 + spot]
  BY DEF StateChar
<1> QED  BY <1>6, <1>7, Zenon

(* A running tracer is found alive by is_process_alive().                   *)
LEMMA RunningIsAlive ==
  ASSUME NEW p \in Pids, life[p] = "alive"
  PROVE  Alive(p)
<1>1. Stat(p) = <<"pid", "space", "open", "comm", "close", "space", "R">>
  BY DEF Stat
<1>2. PICK i \in 1..6 : StateChar(Stat(p)) = Stat(p)[1 + i]
  BY <1>1, ScanStops
<1>3. i = 1 \/ i = 2 \/ i = 3 \/ i = 4 \/ i = 5 \/ i = 6
  OBVIOUS
<1>4. Stat(p)[1 + i] # "Z"
  <2>1. Stat(p)[2] = "space" /\ Stat(p)[3] = "open" /\ Stat(p)[4] = "comm" /\ Stat(p)[5] = "close"
        /\ Stat(p)[6] = "space" /\ Stat(p)[7] = "R"
    BY <1>1
  <2> HIDE DEF Stat
  <2> QED  BY <1>3, <2>1
<1> QED  BY <1>2, <1>4 DEF Alive

-----------------------------------------------------------------------------
(* A step that leaves the file alone, and after which the tracer p is in no *)
(* place from which it replaces the file, keeps the invariant.              *)
LEMMA QuietStep ==
  ASSUME LockInv, NEW p \in Tracer, NEW to \in Places, Goes(p, to),
         entry' = entry, content' = content, used' = used, LTypeOK',
         \A q \in Tracer : pc'[q] # "off" => life'[q] = "alive",
         \A q \in Tracer \ {p} : mine'[q] = mine[q],
         to # "write", to = "in" => ReadPid = p /\ pc[p] \in Busy,
         to \in {"unlink", "steal", "remove"} => \A q \in Tracer \ {p} : ~overlap => pc[q] # "in"
  PROVE  LockInv'
<1>1. /\ pc' = [pc EXCEPT ![p] = to] /\ pc \in [Tracer -> Places]
      /\ overlap \in BOOLEAN /\ overlap' \in BOOLEAN
  BY DEF LockInv, LTypeOK, Goes
<1>2. /\ pc'[p] = to
      /\ \A q \in Tracer \ {p} : pc'[q] = pc[q]
  BY <1>1
<1>3. \A q \in Tracer : pc'[q] = "write" => mine'[q] # NoFile
  BY <1>2 DEF LockInv
<1>4. ReadPid' = ReadPid
  BY DEF ReadPid
<1>5. ASSUME ~overlap' PROVE InTurn'
  <2>1. /\ ~overlap /\ InTurn
        /\ to \in Busy => \A q \in Tracer \ {p} : pc[q] \notin Busy
    BY <1>5, <1>1, Zenon DEF Goes, LockInv
  <2>2. \A q, r \in Tracer : pc'[q] \in Busy /\ pc'[r] \in Busy => q = r
    BY <1>2, <2>1 DEF InTurn
  <2>3. \A q \in Tracer : pc'[q] = "in" => ReadPid' = q
    BY <1>2, <1>4, <2>1 DEF InTurn
  <2>4. \A q \in Tracer : pc'[q] = "write" => mine'[q] # NoFile /\ entry' = mine'[q]
    BY <1>2, <2>1 DEF InTurn
  <2>5. \A q, r \in Tracer : pc'[q] \in {"write", "unlink", "steal", "remove"} => pc'[r] # "in"
    <3> SUFFICES ASSUME NEW q \in Tracer, NEW r \in Tracer,
                        pc'[q] \in {"write", "unlink", "steal", "remove"}, pc'[r] = "in"
                 PROVE  FALSE
      OBVIOUS
    <3>1. CASE q = p
      BY <3>1, <1>2, <2>1
    <3>2. CASE q # p /\ r # p
      BY <3>2, <1>2, <2>1 DEF InTurn
    <3>3. CASE q # p /\ r = p
      BY <3>3, <1>2, <2>1 DEF InTurn, Busy
    <3> QED  BY <3>1, <3>2, <3>3
  <2> QED  BY <2>2, <2>3, <2>4, <2>5 DEF InTurn
<1> QED  BY <1>2, <1>3, <1>5 DEF LockInv

(* Every tracer process starts from a file some earlier session left.       *)
LEMMA LockInit == LInit => LockInv
<1> SUFFICES ASSUME LInit PROVE LockInv
  OBVIOUS
<1>1. /\ Inodes \in Nat /\ Inodes >= 1 /\ NoFile \notin 1..Inodes
  BY LockAssumption
<1>2. LTypeOK
  <2>1. used \in 0..Inodes /\ entry \in 1..used \cup {NoFile}
    BY <1>1 DEF LInit
  <2>2. content \in [1..Inodes -> Pids \cup {NoPid}]
    <3>1. CASE content = [i \in 1..Inodes |-> NoPid]
      BY <3>1
    <3>2. CASE \E q \in Pids \cup {NoPid} :
                  content = [i \in 1..Inodes |-> IF i = 1 THEN q ELSE NoPid]
      BY <3>2
    <3> QED  BY <3>1, <3>2 DEF LInit
  <2> QED  BY <2>1, <2>2, Zenon DEF LInit, LTypeOK, Places
<1>3. \A p \in Tracer : pc[p] = "off"
  BY DEF LInit
<1> QED  BY <1>2, <1>3 DEF LockInv, InTurn, Busy, LInit

(* No call of acquire(), release() or the signal handler, and no death of a *)
(* process, breaks the invariant.                                           *)
LEMMA LockStep == LockInv /\ [LNext]_lvars => LockInv'
<1> SUFFICES ASSUME LockInv, [LNext]_lvars PROVE LockInv'
  OBVIOUS
<1> USE LockAssumption
<1>t. LTypeOK
  BY DEF LockInv
<1>g. ASSUME NEW p \in Tracer, NEW to \in Places, Goes(p, to)
      PROVE  pc' \in [Tracer -> Places] /\ overlap' \in BOOLEAN
  BY <1>t, <1>g DEF LTypeOK, Goes
<1>r. ReadPid \in Pids \cup {NoPid}
  BY <1>t DEF ReadPid, LTypeOK
<1>b. Busy \subseteq Places /\ {"off", "in", "refused", "left"} \subseteq Places
  BY DEF Places
<1>1. ASSUME NEW p \in Tracer, StartTracer(p) PROVE LockInv'
  <2>1. LTypeOK'
    BY <1>1, <1>t, <1>g, <1>b DEF StartTracer, LTypeOK, Busy, Pids
  <2>2. \A q \in Tracer : pc'[q] # "off" => life'[q] = "alive"
    BY <1>1, <1>t DEF StartTracer, Goes, LockInv, LTypeOK, Pids
  <2> QED  BY <1>1, <1>b, <2>1, <2>2, QuietStep DEF StartTracer, Busy
<1>2. ASSUME NEW p \in Tracer, Create(p) PROVE LockInv'
  <2>1. CASE entry # NoFile /\ Goes(p, "read") /\ UNCHANGED <<entry, mine, used>>
    <3>1. LTypeOK'
      BY <1>2, <2>1, <1>t, <1>g, <1>b DEF Create, LTypeOK, Busy
    <3>2. \A q \in Tracer : pc'[q] # "off" => life'[q] = "alive"
      BY <1>2, <2>1, <1>t DEF Create, Goes, LockInv, LTypeOK
    <3> QED  BY <1>2, <1>b, <2>1, <3>1, <3>2, QuietStep DEF Create, Busy
  <2>2. CASE entry = NoFile /\ used' = used + 1 /\ entry' = used'
             /\ mine' = [mine EXCEPT ![p] = used'] /\ Goes(p, "write")
    <3>1. used' \in 1..Inodes /\ 1..used \subseteq 1..used' /\ used' # NoFile
      BY <1>2, <2>2, <1>t DEF Create, LTypeOK
    <3>2. LTypeOK'
      BY <1>2, <2>2, <3>1, <1>t, <1>g, <1>b DEF Create, LTypeOK, Busy
    <3>3. /\ pc'[p] = "write" /\ mine'[p] = used'
          /\ \A q \in Tracer \ {p} : pc'[q] = pc[q] /\ mine'[q] = mine[q]
      BY <2>2, <1>t DEF Goes, LTypeOK
    <3>4. ASSUME ~overlap' PROVE InTurn'
      <4>1. ~overlap /\ InTurn /\ \A q \in Tracer \ {p} : pc[q] \notin Busy
        BY <3>4, <2>2, <1>t, Zenon DEF Goes, LockInv, LTypeOK, Busy
      <4>2. \A q \in Tracer : pc[q] # "in"
        <5>1. ReadPid = NoPid
          BY <2>2 DEF ReadPid
        <5> QED  BY <4>1, <5>1 DEF InTurn
      <4> QED  BY <2>2, <3>1, <3>3, <4>1, <4>2 DEF InTurn, Busy
    <3> QED  BY <1>2, <3>1, <3>2, <3>3, <3>4 DEF LockInv, Create
  <2> QED  BY <1>2, <2>1, <2>2 DEF Create
<1>3. ASSUME NEW p \in Tracer, WritePid(p) PROVE LockInv'
  <2>1. mine[p] \in 1..used /\ mine[p] \in 1..Inodes
    BY <1>3, <1>t DEF WritePid, LockInv, LTypeOK
  <2>2. LTypeOK'
    BY <1>3, <2>1, <1>t, <1>g, <1>b DEF WritePid, LTypeOK, Pids
  <2>3. /\ pc[p] = "write" /\ pc'[p] = "in" /\ content'[mine[p]] = p
        /\ \A q \in Tracer \ {p} : pc'[q] = pc[q] /\ mine'[q] = mine[q]
    BY <1>3, <2>1, <1>t DEF WritePid, Goes, LTypeOK
  <2>4. ASSUME ~overlap' PROVE InTurn'
    <3>1. ~overlap /\ InTurn
      BY <1>3, <2>4, <1>t DEF WritePid, Goes, LockInv, LTypeOK
    <3>2. \A q \in Tracer \ {p} : pc[q] # "in" /\ pc[q] \notin Busy
      BY <3>1, <2>3 DEF InTurn, Busy
    <3>3. ReadPid' = p
      BY <1>3, <2>1, <2>3, <3>1 DEF WritePid, InTurn, ReadPid
    <3> QED  BY <2>3, <3>2, <3>3 DEF InTurn, Busy
  <2> QED  BY <1>3, <2>2, <2>3, <2>4 DEF LockInv, WritePid
<1>4. ASSUME NEW p \in Tracer, CheckOwner(p) PROVE LockInv'
  <2> DEFINE to == IF ReadPid = NoPid THEN "unlink" ELSE IF ReadPid = p THEN "in"
                   ELSE IF Alive(ReadPid) THEN "refused" ELSE "steal"
  <2>1. to \in Places /\ Goes(p, to)
    BY <1>4, <1>b DEF CheckOwner, Busy
  <2>2. LTypeOK'
    BY <1>4, <2>1, <1>t, <1>g, <1>r DEF CheckOwner, LTypeOK
  <2>3. \A q \in Tracer : pc'[q] # "off" => life'[q] = "alive"
    BY <1>4, <1>t DEF CheckOwner, Goes, LockInv, LTypeOK
  <2>4. to # "write" /\ to # "remove" /\ (to = "in" => ReadPid = p /\ pc[p] \in Busy)
    BY <1>4 DEF CheckOwner, Busy
  <2>5. ASSUME to \in {"unlink", "steal"}, ~overlap, NEW q \in Tracer \ {p} PROVE pc[q] # "in"
    (* Whoever runs is named in the file, and is alive. *)
    <3>1. CASE pc[q] = "in"
      <4>1. ReadPid = q /\ life[q] = "alive" /\ q \in Pids
        BY <2>5, <3>1 DEF LockInv, InTurn, Pids
      <4>2. Alive(ReadPid)
        BY <4>1, RunningIsAlive
      <4> QED  BY <2>5, <4>1, <4>2
    <3> QED  BY <3>1
  <2> HIDE DEF to
  <2> QED  BY <1>4, <2>1, <2>2, <2>3, <2>4, <2>5, QuietStep DEF CheckOwner
<1>5. ASSUME NEW p \in Tracer, RemoveEmpty(p) \/ Unlink(p) PROVE LockInv'
  <2>1. PICK to \in {"refused", "left"} : Goes(p, to)
    BY <1>5 DEF RemoveEmpty, Unlink
  <2>2. /\ pc[p] \in {"unlink", "remove"} /\ entry' = NoFile
        /\ UNCHANGED <<life, mine, content, used, runs>>
    BY <1>5 DEF RemoveEmpty, Unlink
  <2>3. LTypeOK'
    BY <2>1, <2>2, <1>t, <1>g, <1>b DEF LTypeOK
  <2>4. pc'[p] = to /\ \A q \in Tracer \ {p} : pc'[q] = pc[q]
    BY <2>1, <1>t DEF Goes, LTypeOK
  <2>5. ASSUME ~overlap' PROVE InTurn'
    <3>1. ~overlap /\ InTurn
      BY <2>1, <2>5, <1>t DEF Goes, LockInv, LTypeOK
    <3>2. \A q \in Tracer \ {p} : pc[q] # "in" /\ pc[q] \notin Busy
      BY <3>1, <2>2 DEF InTurn, Busy
    <3> QED  BY <2>4, <3>2 DEF InTurn, Busy
  <2> QED  BY <2>2, <2>3, <2>4, <2>5, <1>t DEF LockInv, LTypeOK
<1>6. ASSUME NEW p \in Tracer, Steal(p) PROVE LockInv'
  <2>1. used' \in 1..Inodes /\ 1..used \subseteq 1..used' /\ used' # NoFile
    BY <1>6, <1>t DEF Steal, LTypeOK
  <2>2. LTypeOK'
    BY <1>6, <2>1, <1>t, <1>g, <1>b DEF Steal, LTypeOK, Pids
  <2>3. /\ pc[p] = "steal" /\ pc'[p] = "in" /\ content'[used'] = p
        /\ \A q \in Tracer \ {p} : pc'[q] = pc[q]
    BY <1>6, <2>1, <1>t DEF Steal, Goes, LTypeOK
  <2>4. ASSUME ~overlap' PROVE InTurn'
    <3>1. ~overlap /\ InTurn
      BY <1>6, <2>4, <1>t DEF Steal, Goes, LockInv, LTypeOK
    <3>2. \A q \in Tracer \ {p} : pc[q] # "in" /\ pc[q] \notin Busy
      BY <3>1, <2>3 DEF InTurn, Busy
    <3>3. ReadPid' = p
      BY <1>6, <2>1, <2>3 DEF Steal, ReadPid
    <3> QED  BY <2>3, <3>2, <3>3 DEF InTurn, Busy
  <2> QED  BY <1>6, <2>2, <2>3, <2>4 DEF LockInv, Steal
<1>7. ASSUME NEW p \in Tracer, Release(p) PROVE LockInv'
  <2> DEFINE to == IF Removable(p, ReadPid) THEN "remove" ELSE "left"
  <2>1. to \in Places /\ Goes(p, to) /\ to \in {"remove", "left"}
    BY <1>7, <1>b DEF Release, Busy
  <2>2. LTypeOK'
    BY <1>7, <2>1, <1>t, <1>g, <1>r DEF Release, LTypeOK
  <2>3. \A q \in Tracer : pc'[q] # "off" => life'[q] = "alive"
    BY <1>7, <1>t DEF Release, Goes, LockInv, LTypeOK
  <2>4. ASSUME to = "remove", ~overlap, NEW q \in Tracer \ {p} PROVE pc[q] # "in"
    <3>1. ReadPid \in {p, NoPid}
      BY <2>4 DEF Removable
    <3> QED  BY <2>4, <3>1 DEF LockInv, InTurn
  <2> HIDE DEF to
  <2> QED  BY <1>7, <2>1, <2>2, <2>3, <2>4, QuietStep DEF Release
<1>9. ASSUME NEW p \in Tracer, Dies(p) PROVE LockInv'
  <2>1. LTypeOK'
    BY <1>9, <1>t, <1>g, <1>b, Zenon DEF Dies, LTypeOK
  <2>2. \A q \in Tracer : pc'[q] # "off" => life'[q] = "alive"
    BY <1>9, <1>t DEF Dies, Goes, LockInv, LTypeOK, Pids
  <2>3. \A q \in Tracer \ {p} : mine'[q] = mine[q]
    BY <1>9, <1>t DEF Dies, LTypeOK
  <2> QED  BY <1>9, <1>b, <2>1, <2>2, <2>3, QuietStep DEF Dies
<1>10. ASSUME NEW p \in Pids, Reaped(p) PROVE LockInv'
  BY <1>10, <1>t DEF Reaped, LockInv, LTypeOK, InTurn, ReadPid, Pids
<1>11. CASE UNCHANGED lvars
  BY <1>11 DEF lvars, LockInv, LTypeOK, InTurn, ReadPid
<1> QED
  BY <1>1, <1>2, <1>3, <1>4, <1>5, <1>6, <1>7, <1>9, <1>10, <1>11 DEF LNext, Acquires

-----------------------------------------------------------------------------
(* Tracers whose acquire() and release() do not overlap exclude each other, *)
(* however many there are, however often they are killed, restarted and     *)
(* signalled, and whatever lock file was left behind.                       *)
THEOREM LockExcludes == LSpec => []OneTracerInTurn
<1>1. ASSUME LockInv PROVE OneTracerInTurn
  <2> SUFFICES ASSUME ~overlap PROVE OneTracer /\ \A p \in Tracer : pc[p] = "in" => ReadPid = p
    BY DEF OneTracerInTurn
  <2> DEFINE inside == {p \in Tracer : pc[p] = "in"}
  <2>1. \A p, q \in inside : p = q
    BY <1>1 DEF LockInv, InTurn
  <2>2. ASSUME inside = {} PROVE OneTracer
    BY <2>2, FS_EmptySet DEF OneTracer
  <2>3. ASSUME inside # {} PROVE OneTracer
    <3>1. PICK p : inside = {p}
      BY <2>1, <2>3
    <3>2. Cardinality({p}) = 1
      BY FS_Singleton, Zenon
    <3>3. Cardinality(inside) <= 1
      BY <3>1, <3>2
    <3> QED  BY <3>3 DEF OneTracer
  <2>4. \A p \in Tracer : pc[p] = "in" => ReadPid = p
    BY <1>1 DEF LockInv, InTurn
  <2>5. OneTracer
    BY <2>2, <2>3
  <2> QED  BY <2>4, <2>5
<1> QED  BY <1>1, LockInit, LockStep, PTL DEF LSpec

-----------------------------------------------------------------------------
(* Nothing the tracees or their tracer do adds to what FileLock allows.     *)
LEMMA LockPart == [TNext]_vars => [LNext]_lvars
<1> SUFFICES ASSUME [TNext]_vars PROVE [LNext]_lvars
  OBVIOUS
<1>1. ASSUME NEW p \in Tracer, Starting(p) \/ Acquiring(p) \/ Others(p) PROVE LNext
  BY <1>1, Zenon DEF Starting, Acquiring, Others, LNext
<1>2. ASSUME NEW p \in Pids, Reaping(p) PROVE LNext
  BY <1>2, Zenon DEF Reaping, LNext
<1>3. ASSUME NEW p \in Traced, Leave(p) \/ Unlinks(p) \/ Signalled(p) \/ TracerDies(p)
      PROVE  LNext \/ UNCHANGED lvars
  <2>1. p \in Tracer
    BY TraceeAssumption
  <2> QED  BY <1>3, <2>1, Zenon DEF Leave, Unlinks, Signalled, TracerDies, LNext
<1>4. ASSUME NEW p \in Traced,
             \/ state_initialization(p) \/ SignalStop(p) \/ EndRun(p) \/ BeginExit(p)
             \/ Terminated(p) \/ terminate_tracees(p)
      PROVE  UNCHANGED lvars
  BY <1>4, Zenon DEF state_initialization, BeginInit, Fork, Record, FirstStop, Prelude, SignalStop, EndRun,
       BeginExit, Terminated, terminate_tracees, Probe, Kill, WaitGroup, Clear
<1>5. ASSUME NEW p \in Traced, NEW i \in Index,
             AddWorker(p, i) \/ MeetsEnd(p, i) \/ ChildStep(p, i) \/ ChildDies(p, i) \/ Reuse(p, i)
      PROVE  UNCHANGED lvars
  BY <1>5, Zenon DEF AddWorker, MeetsEnd, ChildStep, ChildDies, Reuse
<1>6. CASE UNCHANGED vars
  BY <1>6, Zenon DEF vars
<1> QED  BY <1>1, <1>2, <1>3, <1>4, <1>5, <1>6, Zenon DEF TNext

(* Tracers with their tracees, handlers and callbacks use the lock as the   *)
(* model of the lock alone says: what is proved of it holds of them.        *)
THEOREM TracersUseTheLock == TSpec => LSpec
<1>1. TInit => LInit
  BY DEF TInit
<1> QED  BY <1>1, LockPart, PTL DEF TSpec, LSpec

(* So the tracers of run_tracer(), with any number of tracees and with the  *)
(* two signal handlers and the exit callback that may interrupt each other, *)
(* exclude each other too.                                                  *)
THEOREM TracersExclude == TSpec => []OneTracerInTurn
BY TracersUseTheLock, LockExcludes, PTL
=============================================================================
