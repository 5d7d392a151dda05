------------------------------ MODULE FileLock ------------------------------
(***************************************************************************)
(* The PID file that keeps a second tracer out of a working directory      *)
(* (src/src/utils/file_lock.cpp, used by main.cpp with blocking = false).  *)
(* The file is a directory entry that names an inode, so that a process    *)
(* may write to a file another one has just unlinked.  Each file system    *)
(* call is one step.                                                       *)
(***************************************************************************)
EXTENDS Integers, Sequences, FiniteSets

CONSTANTS
  Tracer,   \* the tracer processes, by pid
  Stale,    \* the pid of a tracer of an earlier session
  NoPid,    \* what read_pid_file() gives for a missing, empty or corrupted file
  NoFile,   \* the directory has no lock file
  Inodes,   \* bound: the lock files created in a behaviour
  Reruns    \* bound: how often a tracer is started again

ASSUME LockAssumption ==
  /\ Stale \notin Tracer /\ NoPid \notin Tracer \cup {Stale}
  /\ Inodes \in Nat \ {0} /\ NoFile \notin 1..Inodes /\ Reruns \in Nat

VARIABLES
  pc,       \* where the tracer is
  life,     \* the process: "alive", "zombie" or "gone"
  mine,     \* the inode the tracer created, until its pid is written
  entry,    \* the inode the directory entry names, or NoFile
  content,  \* the pid in each inode
  used,     \* the inodes allocated
  runs,     \* how often the tracer was started
  overlap   \* history: two tracers were inside acquire or release at once

lvars == <<pc, life, mine, entry, content, used, runs, overlap>>
Pids == Tracer \cup {Stale}

(* The file of an earlier session may be left over, whole or cut short.     *)
LInit ==
  /\ pc = [p \in Tracer |-> "off"]
  /\ life \in [Pids -> {"gone", "zombie"}] /\ \A p \in Tracer : life[p] = "gone"
  /\ mine = [p \in Tracer |-> NoFile]
  /\ \/ entry = NoFile /\ used = 0 /\ content = [i \in 1..Inodes |-> NoPid]
     \/ /\ entry = 1 /\ used = 1
        /\ \E q \in Pids \cup {NoPid} : content = [i \in 1..Inodes |-> IF i = 1 THEN q ELSE NoPid]
  /\ runs = [p \in Tracer |-> 0] /\ overlap = FALSE

ReadPid == IF entry = NoFile THEN NoPid ELSE content[entry]

(* is_process_alive(): /proc/<pid>/stat is scanned for the character after  *)
(* the first space outside parentheses (open ... close).                    *)
Stat(p) == <<"pid", "space", "open", "comm", "close", "space", IF life[p] = "zombie" THEN "Z" ELSE "R">>
Depth(line, i) ==
  Cardinality({j \in 1..i : line[j] = "open"}) - Cardinality({j \in 1..i : line[j] = "close"})
StateChar(line) ==
  LET Spaces == {i \in 1..(Len(line) - 1) : line[i] = "space" /\ Depth(line, i) = 0}
  IN  line[1 + CHOOSE i \in Spaces : \A j \in Spaces : i <= j]
Alive(p) == life[p] # "gone" /\ StateChar(Stat(p)) # "Z"

-----------------------------------------------------------------------------
Busy == {"create", "write", "read", "unlink", "steal", "release", "remove"}
Goes(p, to) ==
  /\ pc' = [pc EXCEPT ![p] = to]
  /\ overlap' = (overlap \/ (to \in Busy /\ \E q \in Tracer \ {p} : pc[q] \in Busy))

(* A tracer starts; init_signal_handlers() is installed before acquire().   *)
StartTracer(p) ==
  /\ pc[p] = "off" /\ life[p] = "gone" /\ runs[p] <= Reruns
  /\ Goes(p, "create") /\ life' = [life EXCEPT ![p] = "alive"]
  /\ runs' = [runs EXCEPT ![p] = @ + 1]
  /\ UNCHANGED <<mine, entry, content, used>>

Create(p) ==
  /\ pc[p] = "create" /\ used < Inodes
  /\ \/ /\ entry = NoFile
        /\ used' = used + 1 /\ entry' = used' /\ mine' = [mine EXCEPT ![p] = used']
        /\ Goes(p, "write")
     \/ /\ entry # NoFile
        /\ Goes(p, "read") /\ UNCHANGED <<entry, mine, used>>
  /\ UNCHANGED <<life, content, runs>>

(* The pid goes to the inode created, whether or not it is still linked.    *)
WritePid(p) ==
  /\ pc[p] = "write"
  /\ content' = [content EXCEPT ![mine[p]] = p]
  /\ mine' = [mine EXCEPT ![p] = NoFile]
  /\ Goes(p, "in")
  /\ UNCHANGED <<life, entry, used, runs>>

(* With blocking = false the loop body runs once: an empty file is removed  *)
(* and the tracer still refused.                                            *)
CheckOwner(p) ==
  /\ pc[p] = "read"
  /\ Goes(p, IF ReadPid = NoPid THEN "unlink"
             ELSE IF ReadPid = p THEN "in"
             ELSE IF Alive(ReadPid) THEN "refused" ELSE "steal")
  /\ UNCHANGED <<life, mine, entry, content, used, runs>>

RemoveEmpty(p) ==
  /\ pc[p] = "unlink"
  /\ entry' = NoFile /\ Goes(p, "refused")
  /\ UNCHANGED <<life, mine, content, used, runs>>

(* The temporary file, which no other process knows, is renamed over the    *)
(* lock file, whatever that is by now.                                      *)
Steal(p) ==
  /\ pc[p] = "steal" /\ used < Inodes
  /\ used' = used + 1 /\ entry' = used' /\ content' = [content EXCEPT ![used'] = p]
  /\ Goes(p, "in")
  /\ UNCHANGED <<life, mine, runs>>

RemovableMutant(p, owner) == TRUE
Removable(p, owner) == owner \in {p, NoPid}

(* release(): on return from main, and in the signal handler at any moment, *)
(* in the middle of a call of acquire() or release() too.                   *)
Release(p) ==
  /\ pc[p] # "off"
  /\ Goes(p, IF Removable(p, ReadPid) THEN "remove" ELSE "left")
  /\ UNCHANGED <<life, mine, entry, content, used, runs>>

Unlink(p) ==
  /\ pc[p] = "remove"
  /\ entry' = NoFile /\ Goes(p, "left")
  /\ UNCHANGED <<life, mine, content, used, runs>>

(* The process ends, of itself or by SIGKILL, and is a zombie until reaped. *)
Dies(p) ==
  /\ life[p] = "alive"
  /\ life' = [life EXCEPT ![p] = "zombie"]
  /\ Goes(p, "off") /\ mine' = [mine EXCEPT ![p] = NoFile]
  /\ UNCHANGED <<entry, content, used, runs>>

Reaped(p) ==
  /\ life[p] = "zombie" /\ life' = [life EXCEPT ![p] = "gone"]
  /\ UNCHANGED <<pc, mine, entry, content, used, runs, overlap>>

Acquires(p) == Create(p) \/ WritePid(p) \/ CheckOwner(p) \/ RemoveEmpty(p) \/ Steal(p)

LNext ==
  \/ \E p \in Tracer : StartTracer(p) \/ Acquires(p) \/ Release(p) \/ Unlink(p) \/ Dies(p)
  \/ \E p \in Pids : Reaped(p)

LSpec == LInit /\ [][LNext]_lvars

-----------------------------------------------------------------------------
(* "This lock mechanism ensures only one tracer instance runs per working   *)
(* directory" (file_lock.h)                                                 *)
OneTracer == Cardinality({p \in Tracer : pc[p] = "in"}) <= 1

(* The promise as far as it holds: tracers whose acquire and release never  *)
(* overlap exclude each other, whatever files crashes left behind, and the  *)
(* lock file names the one that runs, so that the next one sees it alive.   *)
OneTracerInTurn ==
  ~overlap => OneTracer /\ \A p \in Tracer : pc[p] = "in" => ReadPid = p

=============================================================================
