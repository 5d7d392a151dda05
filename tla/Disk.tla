-------------------------------- MODULE Disk --------------------------------
(***************************************************************************)
(* A file of records on a disk.  A record is a pair of its content and     *)
(* what is on disk of it: "ok", "bad" (of full size, but not the bytes its *)
(* checksum asks for) or "cut" (shorter than its header says).             *)
(***************************************************************************)
EXTENDS Naturals, Sequences, FiniteSets, SequencesExt, FiniteSetsExt

(* What a power loss may leave of the records q, n of which were synced.    *)
Remains(q, n) ==
  {SubSeq(q, 1, k) : k \in n..Len(q)} \cup
  {Append(SubSeq(q, 1, k), <<q[k + 1][1], x>>) : k \in n..(Len(q) - 1), x \in {"cut", "bad"}}
=============================================================================
