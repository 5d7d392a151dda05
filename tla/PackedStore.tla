---------------------------- MODULE PackedStore -----------------------------
(***************************************************************************)
(* The packed store of snapshots (src/src/core/state/state_store_packed.cpp*)
(* ): records appended to segment files, an append journal of index        *)
(* entries, and a full index that is published by renaming.  One step is   *)
(* one write, sync or rename; the process may be killed and the power may  *)
(* fail between any two of them.                                           *)
(*                                                                         *)
(* A record is its content and what is on disk of it: "ok", "bad" (of full *)
(* size, but not the bytes its checksum asks for) or "cut" (shorter than   *)
(* its header says).  A missing or an empty index file reads the same.     *)
(***************************************************************************)
EXTENDS Disk

CONSTANTS
  Content, HashOf,  \* the snapshots and their hashes
  MaxEntries,       \* config_.max_entries_per_segment
  Faults,           \* bound: the I/O errors and power losses of a behaviour
  NoContent

ASSUME PackedAssumption ==
  /\ HashOf \in [Content -> Nat \ {0}] /\ NoContent \notin Content
  /\ MaxEntries \in Nat \ {0} /\ Faults \in Nat

VARIABLES
  segs,         \* the segment files by id: the sequence of records of each
  synced,       \* how many records of each are known to be on the platter
  linked,       \* the segments whose directory entry is
  journal,      \* global.inc: the magic number and the entries appended
  torn,         \* what comes next in it is incomplete
  jsynced, jlinked, \* how much of it is on the platter; the directory entry is
  idx, idx_disk, \* global.idx: as the process sees it and as it is on the platter
  initialized, read_only, failed, \* initialized_, config_.read_only, failed_
  index,        \* index_
  call, pc, arg, \* the call under way, its next step and its content
  confirmed,    \* history: the contents a completed barrier covers
  settled,      \* history: nothing was written since the last barrier
  faults

segment_files == <<segs, synced, linked>>
journal_file  == <<journal, torn, jsynced, jlinked>>
index_file    == <<idx, idx_disk>>
files  == <<segment_files, journal_file, index_file>>
memory == <<initialized, read_only, failed, index>>
place  == <<call, pc, arg>>
ghosts == <<confirmed, settled, faults>>
kvars == <<files, memory, place, ghosts>>

KInit ==
  /\ segs = <<>> /\ synced = <<>> /\ linked = {}
  /\ journal = <<>> /\ torn = FALSE /\ jsynced = 0 /\ jlinked = FALSE
  /\ idx = {} /\ idx_disk = {}
  /\ initialized = FALSE /\ read_only = FALSE /\ failed = FALSE /\ index = {}
  /\ call = "none" /\ pc = "idle" /\ arg = NoContent
  /\ confirmed = {} /\ settled = TRUE /\ faults = 0

Entry(i, k) == [at |-> <<i, k>>, key |-> HashOf[segs[i][k][1]]]
Records == UNION {{<<i, k>> : k \in DOMAIN segs[i]} : i \in DOMAIN segs}
Intact == {segs[r[1]][r[2]][1] : r \in {r \in Records : segs[r[1]][r[2]][2] = "ok"}}

Active == Max(DOMAIN segs)

-----------------------------------------------------------------------------
(* init(): load_segments_info(), load_index(), load_incremental_index(),    *)
(* rebuild_index() when they hold nothing, and the checks that every entry  *)
(* points at a complete record and every byte belongs to one.               *)
OneEntryPerKey(S) == \A e, f \in S : e.key = f.key => e = f

(* The magic number of the journal; an entry with the key 0 is refused.     *)
Magic == [at |-> <<0, 0>>, key |-> 0]

Merged == idx \cup (Range(journal) \ {Magic})
Rebuilds == Merged = {} /\ DOMAIN segs # {}
Scanned == {Entry(r[1], r[2]) : r \in Records}
ScanPasses ==
  OneEntryPerKey(Scanned) /\ \A r \in Records : segs[r[1]][r[2]][2] = "ok"

LoadedIndex == IF Rebuilds THEN Scanned ELSE Merged

CoversMutant(S) == {e.at : e \in S} \subseteq Records
Covers(S) ==
  /\ {e.at : e \in S} = Records
  /\ \A r \in Records : segs[r[1]][r[2]][2] # "cut"

Openable ==
  /\ ~torn /\ OneEntryPerKey(Merged)
  /\ Rebuilds => ScanPasses
  /\ Covers(LoadedIndex)

Down == ~initialized /\ call = "none"

Open(ro) ==
  /\ Down /\ Openable
  /\ read_only' = ro /\ failed' = FALSE /\ index' = LoadedIndex
  /\ initialized' = ro
  /\ call' = IF ro THEN "none" ELSE "init"
  /\ pc' = IF ro THEN "idle" ELSE IF Rebuilds THEN "tmp" ELSE "create"
  /\ UNCHANGED <<files, arg, ghosts>>

OpenRefused == Down /\ ~Openable /\ UNCHANGED kvars

NewSegment(n, safe) ==
  /\ segs' = [i \in DOMAIN segs \cup {n} |-> IF i = n THEN <<>> ELSE segs[i]]
  /\ synced' = [i \in DOMAIN segs \cup {n} |-> IF i = n THEN 0 ELSE safe[i]]

(* ensure_active_segment(): the active segment may be new.                  *)
Create ==
  /\ pc = "create" /\ pc' = "magic"
  /\ IF DOMAIN segs = {} THEN NewSegment(0, synced) ELSE UNCHANGED <<segs, synced>>
  /\ UNCHANGED <<linked, journal_file, index_file, memory, call, arg, ghosts>>

(* The journal is opened; an empty one, which counts as a missing one, gets *)
(* its magic number.  No sync follows.                                      *)
OpenJournal ==
  /\ pc = "magic" /\ pc' = "parents"
  /\ IF journal = <<>>
     THEN journal' = <<Magic>> /\ jlinked' = FALSE /\ settled' = FALSE
     ELSE UNCHANGED <<journal, jlinked, settled>>
  /\ UNCHANGED <<segment_files, torn, jsynced, index_file, memory, call, arg, confirmed, faults>>

(* The directories above the store are synced, and it is open.              *)
SyncParents ==
  /\ pc = "parents"
  /\ initialized' = TRUE /\ call' = "none" /\ pc' = "idle"
  /\ UNCHANGED <<files, read_only, failed, index, arg, ghosts>>

-----------------------------------------------------------------------------
Writable == initialized /\ pc = "idle" /\ ~failed /\ ~read_only

(* save() of a new key; a known one is compared and changes nothing.        *)
Full == Len(segs[Active]) >= MaxEntries

Save(d) ==
  /\ Writable /\ \A e \in index : e.key # HashOf[d]
  /\ call' = "save" /\ arg' = d /\ pc' = IF Full THEN "rotate" ELSE "header"
  /\ settled' = FALSE
  /\ UNCHANGED <<files, memory, confirmed, faults>>

(* rotate_segment(): the full segment is synced before the next one exists. *)
RotateSegmentMutant ==
  /\ pc = "rotate"
  /\ NewSegment(Active + 1, synced)
  /\ pc' = "header"
  /\ UNCHANGED <<linked, journal_file, index_file, memory, call, arg, ghosts>>
RotateSegment ==
  /\ pc = "rotate"
  /\ NewSegment(Active + 1, [synced EXCEPT ![Active] = Len(segs[Active])])
  /\ pc' = "header"
  /\ UNCHANGED <<linked, journal_file, index_file, memory, call, arg, ghosts>>

WriteHeader ==
  /\ pc = "header"
  /\ segs' = [segs EXCEPT ![Active] = Append(@, <<arg, "cut">>)]
  /\ pc' = "data"
  /\ UNCHANGED <<synced, linked, journal_file, index_file, memory, call, arg, ghosts>>

WriteData ==
  /\ pc = "data"
  /\ segs' = [segs EXCEPT ![Active][Len(segs[Active])] = <<arg, "ok">>]
  /\ pc' = "journal"
  /\ UNCHANGED <<synced, linked, journal_file, index_file, memory, call, arg, ghosts>>

(* append_to_incremental_index(), and the index in memory.                  *)
AppendJournal ==
  LET e == Entry(Active, Len(segs[Active]))
  IN  /\ pc = "journal"
      /\ journal' = Append(journal, e) /\ index' = index \cup {e}
      /\ call' = "none" /\ pc' = "idle" /\ arg' = NoContent
      /\ UNCHANGED <<segment_files, torn, jsynced, jlinked, index_file, initialized,
                     read_only, failed, ghosts>>

-----------------------------------------------------------------------------
(* flush_index(), from a caller, wait_persisted(), compact() or shutdown(). *)
Flush ==
  /\ Writable /\ call' = "flush" /\ pc' = "sync"
  /\ UNCHANGED <<files, memory, arg, ghosts>>

Shutdown ==
  /\ initialized /\ pc = "idle" /\ ~read_only /\ ~failed
  /\ call' = "shutdown" /\ pc' = "sync"
  /\ UNCHANGED <<files, memory, arg, ghosts>>

SyncSegment ==
  /\ pc = "sync"
  /\ synced' = [synced EXCEPT ![Active] = Len(segs[Active])]
  /\ pc' = "syncj"
  /\ UNCHANGED <<segs, linked, journal_file, index_file, memory, call, arg, ghosts>>

SyncJournal ==
  /\ pc = "syncj"
  /\ jsynced' = Len(journal) /\ pc' = "syncd"
  /\ UNCHANGED <<segment_files, journal, torn, jlinked, index_file, memory, call, arg, ghosts>>

(* The directories: new files can be found again.                           *)
SyncSegmentsDirMutant ==
  /\ pc = "syncd" /\ pc' = "syncp"
  /\ UNCHANGED <<files, memory, call, arg, ghosts>>
SyncSegmentsDir ==
  /\ pc = "syncd"
  /\ linked' = DOMAIN segs /\ pc' = "syncp"
  /\ UNCHANGED <<segs, synced, journal_file, index_file, memory, call, arg, ghosts>>

SyncDir ==
  /\ pc = "syncp"
  /\ jlinked' = TRUE /\ idx_disk' = idx
  /\ confirmed' = Intact /\ settled' = TRUE
  /\ call' = IF call = "flush" THEN "none" ELSE call
  /\ pc' = IF call = "flush" THEN "idle" ELSE "tmp"
  /\ UNCHANGED <<segment_files, journal, torn, jsynced, idx, memory, arg, faults>>

(* flush_index_unlocked(): the whole index to a temporary file, which is    *)
(* synced, then renamed.  shutdown() closes afterwards, init() goes on.     *)
WriteIndex ==
  /\ pc = "tmp" /\ pc' = "rename"
  /\ UNCHANGED <<files, memory, call, arg, ghosts>>

Rename ==
  /\ pc = "rename" /\ idx' = index /\ pc' = "publish"
  /\ UNCHANGED <<segment_files, journal_file, idx_disk, memory, call, arg, ghosts>>

Closed == /\ initialized' = FALSE /\ index' = {}
          /\ call' = "none" /\ pc' = "idle" /\ arg' = NoContent

Publish ==
  /\ pc = "publish" /\ idx_disk' = idx /\ jlinked' = TRUE
  /\ IF call = "init"
     THEN pc' = "create" /\ UNCHANGED <<call, arg, initialized, index>>
     ELSE Closed
  /\ UNCHANGED <<segment_files, journal, torn, jsynced, idx, read_only, failed, ghosts>>

(* shutdown() of a store that has failed or only reads.                     *)
Close ==
  /\ initialized /\ pc = "idle" /\ (read_only \/ failed)
  /\ Closed
  /\ UNCHANGED <<files, read_only, failed, ghosts>>

-----------------------------------------------------------------------------
(* A write, sync or rename fails.  A write may have left a piece; a save or *)
(* a barrier poisons the store, init() and the rest of shutdown() close it. *)
Poisons == call \in {"save", "flush"}

IoError ==
  /\ pc # "idle" /\ faults < Faults /\ faults' = faults + 1
  /\ \/ pc = "header" /\ segs' = [segs EXCEPT ![Active] = Append(@, <<arg, "cut">>)]
        /\ UNCHANGED torn
     \/ (pc = "journal" \/ (pc = "magic" /\ journal = <<>>)) /\ torn' = TRUE /\ UNCHANGED segs
     \/ UNCHANGED <<segs, torn>>
  /\ IF Poisons
     THEN failed' = TRUE /\ UNCHANGED <<initialized, index>>
          /\ call' = "none" /\ pc' = "idle" /\ arg' = NoContent
     ELSE Closed /\ UNCHANGED failed
  /\ settled' = (settled /\ <<segs, torn>>' = <<segs, torn>>)
  /\ UNCHANGED <<synced, linked, journal, jsynced, jlinked, index_file, read_only, confirmed>>

(* The process is killed: the files stay as they are.                       *)
Kill ==
  /\ initialized \/ call # "none"
  /\ Closed /\ read_only' = FALSE /\ failed' = FALSE
  /\ UNCHANGED <<files, ghosts>>

(* The power fails: each file keeps what was synced and perhaps more.       *)
PowerLoss ==
  /\ faults < Faults /\ faults' = faults + 1
  /\ \E kept \in SUBSET DOMAIN segs :
       /\ linked \subseteq kept
       /\ segs' \in {f \in [kept -> UNION {Remains(segs[i], synced[i]) : i \in kept}] :
                       \A i \in kept : f[i] \in Remains(segs[i], synced[i])}
       /\ synced' = [i \in kept |-> Len(segs'[i])] /\ linked' = kept
  /\ \E k \in (IF jlinked THEN jsynced ELSE 0)..Len(journal) :
       /\ journal' = SubSeq(journal, 1, k) /\ jsynced' = k
       /\ torn' \in {FALSE, torn \/ k < Len(journal)}
  /\ jlinked' = (journal' # <<>> \/ torn')
  /\ idx' \in {idx, idx_disk} /\ idx_disk' = idx'
  /\ confirmed' = {segs'[r[1]][r[2]][1] : r \in
       {r \in UNION {{<<i, k>> : k \in DOMAIN segs'[i]} : i \in DOMAIN segs'} :
          segs'[r[1]][r[2]][2] = "ok"}}
  /\ Closed /\ read_only' = FALSE /\ failed' = FALSE
  /\ UNCHANGED settled

-----------------------------------------------------------------------------
(* load() of a key: what the entry points at is answered when the header    *)
(* and the checksum agree with it, and refused otherwise.                   *)
Load(h) ==
  LET hits == {e \in index : e.key = h}
      e == CHOOSE e \in hits : TRUE
      r == segs[e.at[1]][e.at[2]]
  IN  IF hits = {} THEN "missing"
      ELSE IF HashOf[r[1]] = h /\ r[2] = "ok" THEN r[1] ELSE "error"

(* What is abstracted: the intact records, and those a barrier has confirmed. *)
Abstract == INSTANCE ContentStore WITH
  open <- initialized, poisoned <- initialized /\ failed, stored <- Intact, durable <- confirmed

(* The packed store is a content store: a completed barrier survives every  *)
(* power loss, whichever segment, journal or index file was being written,  *)
(* and no record is lost or replaced by a restart.                          *)
ImplementsContentStore == Abstract!CSpec

(* An open store that has not failed knows each record of its segments, by  *)
(* one entry, and answers every content that was durable when it was opened *)
(* or has been confirmed since: what survives is also found.                *)
OpenIsExact ==
  (initialized /\ ~failed /\ pc = "idle") =>
    /\ {e.at : e \in index} = Records /\ OneEntryPerKey(index)
    /\ \A d \in confirmed : Load(HashOf[d]) = d

(* A store is not locked out by a crash at a quiet moment: when nothing was *)
(* written since a barrier it opens again after a power loss, and between   *)
(* two calls it opens again after the process was killed.  init() writes    *)
(* too: a new journal's magic number is not synced, so until the first      *)
(* barrier a power loss may leave a piece of it, and every later init()     *)
(* refuses the store.                                                       *)
QuietCrashReopens ==
  (settled \/ (initialized /\ ~failed /\ pc = "idle")) => Openable
=============================================================================
