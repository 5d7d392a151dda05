---------------------------- MODULE Persistence -----------------------------
(***************************************************************************)
(* The two stores behind a system state: the snapshots of its processes    *)
(* are blobs of the packed store, its metadata is a record of the metadata *)
(* log.  The tracer either records a state (sys_state's constructor and    *)
(* commit_metadata(), state.cpp) or imports one (import_bundle(), snapshot_*)
(* bundle.cpp); the barrier is the one of the search commands (scheduler.  *)
(* cpp).  Blobs are accepted at once and written by an I/O worker, so the  *)
(* two stores are written concurrently.                                    *)
(***************************************************************************)
EXTENDS PackedStore, SysStateStore

CONSTANT Roots   \* the blobs that each system state refers to

ASSUME RootsAssumption == Roots \in [Metadata -> SUBSET Content]

VARIABLES
  queue,     \* StateStore: the blobs that are accepted and not yet written
  todo,      \* the steps left of the tracer's task
  subject,   \* the system state of the task
  recorded,  \* history: the states recorded or imported since the start
  imported,  \* history: the states whose record was written by an import
  committed  \* history: the states covered by a barrier that has returned

taskVars == <<queue, todo, subject, recorded, imported, committed>>
pvars == <<kvars, mvars, taskVars>>

PInit ==
  /\ KInit /\ MInit
  /\ queue = {} /\ todo = <<>> /\ subject = NoMetadata
  /\ recorded = {} /\ imported = {} /\ committed = {}

(* The orders in which the code calls the stores.                           *)
Import == <<"accept", "wait", "flush", "save", "msync">>
Record == <<"accept", "save">>
BarrierMutant == <<"flush", "wait", "msync">>
Barrier == <<"wait", "flush", "msync">>

Up == initialized /\ ~failed /\ ~read_only /\ mopen /\ ~mfailed

(* A step of the task is done.                                              *)
Advance ==
  todo' = Tail(todo) /\ subject' = IF Len(todo) = 1 THEN NoMetadata ELSE subject

StartTask(task, m) ==
  /\ Up /\ todo = <<>>
  /\ todo' = task /\ subject' = m
  /\ UNCHANGED <<kvars, mvars, queue, recorded, imported, committed>>

Accept ==
  /\ Up /\ todo # <<>> /\ Head(todo) = "accept"
  /\ queue' = queue \cup (Roots[subject] \ Intact)
  /\ Advance
  /\ UNCHANGED <<kvars, mvars, recorded, imported, committed>>

(* wait_for_completion(): the queue drains before the barrier.              *)
Wait ==
  /\ Up /\ todo # <<>> /\ Head(todo) = "wait" /\ queue = {} /\ pc = "idle"
  /\ Advance
  /\ UNCHANGED <<kvars, mvars, queue, recorded, imported, committed>>

StartFlush ==
  /\ Up /\ todo # <<>> /\ Head(todo) = "flush" /\ Flush
  /\ todo' = <<"flushing">> \o Tail(todo)
  /\ UNCHANGED <<mvars, queue, subject, recorded, imported, committed>>

Flushed ==
  /\ Up /\ todo # <<>> /\ Head(todo) = "flushing" /\ pc = "idle"
  /\ Advance
  /\ UNCHANGED <<kvars, mvars, queue, recorded, imported, committed>>

SaveMetadata ==
  /\ Up /\ todo # <<>> /\ Head(todo) = "save"
  /\ IF HasKey(KeyOf[subject])
     THEN /\ Advance /\ recorded' = recorded \cup {subject}
          /\ UNCHANGED <<mvars, imported>>
     ELSE /\ MSave(subject) /\ todo' = <<"saving">> \o Tail(todo)
          /\ imported' = IF Len(todo) > 1 THEN imported \cup {subject} ELSE imported
          /\ UNCHANGED <<recorded, subject>>
  /\ UNCHANGED <<kvars, queue, committed>>

MetadataSaved ==
  /\ todo # <<>> /\ Head(todo) = "saving" /\ MSaved
  /\ Advance /\ recorded' = recorded \cup {subject}
  /\ UNCHANGED <<kvars, queue, imported, committed>>

StartMetadataFlush ==
  /\ Up /\ todo # <<>> /\ Head(todo) = "msync" /\ MFlush
  /\ todo' = <<"msyncing">> \o Tail(todo)
  /\ UNCHANGED <<kvars, queue, subject, recorded, imported, committed>>

MetadataFlushed ==
  /\ Up /\ todo # <<>> /\ Head(todo) = "msyncing" /\ mpc = "idle"
  /\ Advance
  /\ committed' = IF Len(todo) = 1 THEN committed \cup recorded ELSE committed
  /\ UNCHANGED <<kvars, mvars, queue, recorded, imported>>

(* An exception of either store ends the task.                              *)
TaskFails ==
  /\ todo # <<>> /\ (failed \/ mfailed)
  /\ todo' = <<>> /\ subject' = NoMetadata
  /\ UNCHANGED <<kvars, mvars, queue, recorded, imported, committed>>

-----------------------------------------------------------------------------
(* The I/O worker and the steps inside the stores.                          *)
IoWorker ==
  /\ \E d \in queue : Save(d) /\ queue' = queue \ {d}
  /\ UNCHANGED <<mvars, todo, subject, recorded, imported, committed>>

PackedStep ==
  /\ \/ RotateSegment \/ WriteHeader \/ WriteData \/ AppendJournal
     \/ SyncSegment \/ SyncJournal \/ SyncSegmentsDir \/ SyncDir
     \/ WriteIndex \/ Rename \/ Publish \/ Create \/ OpenJournal
     \/ SyncParents \/ IoError
  /\ UNCHANGED <<mvars, taskVars>>

MetadataStep ==
  /\ MSync \/ MSyncDir \/ Rescan
  /\ UNCHANGED <<kvars, taskVars>>

MetadataError ==
  /\ MError /\ faults < Faults /\ faults' = faults + 1
  /\ UNCHANGED <<files, memory, place, confirmed, settled, taskVars>>

(* state_initialization() opens the snapshots' store and then the metadata, *)
(* cleanup_all() closes them in that order.                                 *)
Quiet == todo = <<>> /\ queue = {} /\ pc = "idle" /\ mpc = "idle"

OpenStores ==
  \/ ~mopen /\ (OpenRefused \/ \E ro \in BOOLEAN : Open(ro)) /\ UNCHANGED <<mvars, taskVars>>
  \/ initialized /\ ~read_only /\ MOpen /\ UNCHANGED <<kvars, taskVars>>

Forget ==
  /\ queue' = {} /\ todo' = <<>> /\ subject' = NoMetadata /\ recorded' = {}
  /\ UNCHANGED <<imported, committed>>

CloseStores ==
  \/ Quiet /\ (Shutdown \/ Close) /\ UNCHANGED mvars /\ Forget
  \/ Quiet /\ ~initialized /\ MClose /\ UNCHANGED <<kvars, taskVars>>

Crash ==
  /\ Forget
  /\ \/ Kill /\ MKill
     \/ Down /\ mopen /\ MKill /\ UNCHANGED kvars
     \/ PowerLoss /\ MPowerLoss

PNext ==
  \/ \E m \in Metadata : StartTask(Import, m) \/ StartTask(Record, m)
  \/ StartTask(Barrier, NoMetadata)
  \/ Accept \/ Wait \/ StartFlush \/ Flushed \/ SaveMetadata \/ MetadataSaved
  \/ StartMetadataFlush \/ MetadataFlushed \/ TaskFails
  \/ IoWorker \/ PackedStep \/ MetadataStep \/ MetadataError
  \/ OpenStores \/ CloseStores \/ Crash

PSpec == PInit /\ [][PNext]_pvars

-----------------------------------------------------------------------------
(* A system state that a barrier or an import has confirmed stays whole:    *)
(* its metadata and all the snapshots it refers to survive, whatever was    *)
(* being written to either store when the machine stopped, and an open      *)
(* metadata store answers it.  An import writes the metadata last: once its *)
(* record is in the log the snapshots are there, also when it was cut short. *)
CommittedIsWhole ==
  /\ \A m \in committed :
       /\ m \in IntactMetadata /\ Roots[m] \subseteq Intact
       /\ MReady => ReadEntry(KeyOf[m]) = m
  /\ \A m \in imported \cap IntactMetadata : Roots[m] \subseteq Intact
=============================================================================
