--------------------------- MODULE SysStateStore ----------------------------
(***************************************************************************)
(* The store of system-state metadata (src/src/core/state/sysstate_store.  *)
(* cpp): one checksummed append log that is scanned as a whole when it is  *)
(* opened.  A record is its content and "ok", "bad" or "cut" as in         *)
(* PackedStore.                                                            *)
(***************************************************************************)
EXTENDS Disk

CONSTANTS
  Metadata, KeyOf,   \* the encoded system states and their identities
  NoMetadata

ASSUME MetadataAssumption ==
  /\ KeyOf \in [Metadata -> Nat \ {0}] /\ NoMetadata \notin Metadata

VARIABLES
  log,            \* sstate/packed.dat
  lsynced, llinked, \* the records on the platter; the directory entry is
  mopen, mfailed, \* initialized_, failed_
  mindex,         \* index_: the offset of each key
  mpc, marg       \* the call under way: its next step and its content

log_file == <<log, lsynced, llinked>>
mmemory  == <<mopen, mfailed, mindex>>
mplace   == <<mpc, marg>>
mvars == <<log_file, mmemory, mplace>>

MInit ==
  /\ log = <<>> /\ lsynced = 0 /\ llinked = FALSE
  /\ mopen = FALSE /\ mfailed = FALSE /\ mindex = {}
  /\ mpc = "idle" /\ marg = NoMetadata

IntactMetadata == {log[i][1] : i \in {i \in DOMAIN log : log[i][2] = "ok"}}

(* scan_unlocked(): every record is validated before the index is used, and *)
(* two records of one key must be equal.                                    *)
ScanAccepts ==
  /\ \A i \in DOMAIN log : log[i][2] = "ok"
  /\ \A i, j \in DOMAIN log : KeyOf[log[i][1]] = KeyOf[log[j][1]] => log[i][1] = log[j][1]

FirstOf(key) ==
  CHOOSE i \in DOMAIN log :
    KeyOf[log[i][1]] = key /\ \A j \in 1..(i - 1) : KeyOf[log[j][1]] # key

ScannedIndex == {<<KeyOf[log[i][1]], FirstOf(KeyOf[log[i][1]])>> : i \in DOMAIN log}

MOpen ==
  /\ ~mopen /\ ScanAccepts
  /\ mopen' = TRUE /\ mfailed' = FALSE /\ mindex' = ScannedIndex
  /\ UNCHANGED <<log_file, mplace>>

(* rebuild_index(), compact(): the open log is scanned again.               *)
Rescan ==
  /\ mopen /\ ~mfailed /\ mpc = "idle"
  /\ IF ScanAccepts THEN mindex' = ScannedIndex /\ UNCHANGED mfailed
     ELSE mfailed' = TRUE /\ UNCHANGED mindex
  /\ UNCHANGED <<log_file, mopen, mplace>>

-----------------------------------------------------------------------------
MReady == mopen /\ ~mfailed /\ mpc = "idle"
HasKey(key) == \E e \in mindex : e[1] = key

(* load(): what the index points at, validated again by read_entry().  The  *)
(* cache in front of it holds bytes that were read or written here.         *)
ReadEntry(key) ==
  LET r == log[(CHOOSE e \in mindex : e[1] = key)[2]]
  IN  IF HasKey(key) /\ r[2] = "ok" /\ KeyOf[r[1]] = key THEN r[1] ELSE NoMetadata

(* save() of a new key: one record written at the end of the log.  A known  *)
(* one is compared and changes nothing.                                     *)
MSave(m) ==
  /\ MReady /\ ~HasKey(KeyOf[m])
  /\ log' = Append(log, <<m, "cut">>)
  /\ mpc' = "write" /\ marg' = m
  /\ UNCHANGED <<lsynced, llinked, mmemory>>

MSaved ==
  /\ mpc = "write"
  /\ log' = [log EXCEPT ![Len(log)] = <<marg, "ok">>]
  /\ mindex' = mindex \cup {<<KeyOf[marg], Len(log)>>}
  /\ mpc' = "idle" /\ marg' = NoMetadata
  /\ UNCHANGED <<lsynced, llinked, mopen, mfailed>>

(* flush_unlocked(): the data, then the directory.                          *)
MFlush ==
  /\ MReady /\ mpc' = "sync"
  /\ UNCHANGED <<log_file, mmemory, marg>>

MSync ==
  /\ mpc = "sync" /\ lsynced' = Len(log) /\ mpc' = "syncdir"
  /\ UNCHANGED <<log, llinked, mmemory, marg>>

MSyncDir ==
  /\ mpc = "syncdir" /\ llinked' = TRUE /\ mpc' = "idle"
  /\ UNCHANGED <<log, lsynced, mmemory, marg>>

(* A write or a sync fails, or memory runs out when the record is written.  *)
MError ==
  /\ mpc # "idle"
  /\ \/ mpc = "write" /\ log' = [log EXCEPT ![Len(log)] = <<marg, "ok">>]
     \/ UNCHANGED log
  /\ mfailed' = TRUE /\ mpc' = "idle" /\ marg' = NoMetadata
  /\ UNCHANGED <<lsynced, llinked, mopen, mindex>>

MClosed ==
  /\ mopen' = FALSE /\ mindex' = {}
  /\ mpc' = "idle" /\ marg' = NoMetadata

(* shutdown() after its flush; the process is killed.                       *)
MClose == mopen /\ mpc = "idle" /\ MClosed /\ UNCHANGED <<log_file, mfailed>>

MKill == MClosed /\ mfailed' = FALSE /\ UNCHANGED log_file

(* The power fails: the log keeps what was synced and perhaps more.         *)
MPowerLoss ==
  /\ log' \in Remains(log, IF llinked THEN lsynced ELSE 0)
  /\ lsynced' = Len(log') /\ llinked' = TRUE
  /\ MClosed /\ mfailed' = FALSE
=============================================================================
