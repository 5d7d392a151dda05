--------------------------- MODULE ResidentMemory ---------------------------
(***************************************************************************)
(* What the tracer believes it knows of the memory of a stopped process    *)
(* (core/state/resident_memory.cpp).  A proof has three independent parts: *)
(* the snapshot the whole memory is known to equal, the end of the heap,   *)
(* and a snapshot of which only the read-only file regions still hold.     *)
(* The cache of immutable page objects (object_hint) is no proof, and is   *)
(* left out.                                                               *)
(***************************************************************************)
EXTENDS AddressSpace

CONSTANT None

NoProof == [image |-> None, heap |-> None, ro |-> None, valid |-> {}]

\* describe_protected: readable, unwritable, private regions of a regular file.
Eligible(snap) == {r \in snap.regions : r.back = "file" /\ r.prot = {"r"}}

\* demote: of a full image only the protected regions survive.
Demote(e) ==
    IF e.image = None THEN e
    ELSE [e EXCEPT !.image = None, !.ro = e.image, !.valid = Eligible(e.image)]

\* invalidate: nothing survives.
Invalidate(e) == NoProof

\* writing: a copy out of the tracer to the process.
Writing(e, range) ==
    LET d == Demote(e)
    IN  [d EXCEPT !.valid = {r \in d.valid : r.pages \cap range = {}}]

\* resuming: user instructions and suppressed calls run under ProtectedResume;
\* any native call takes the whole proof away.
Resuming(e, protected) == IF protected THEN Demote(e) ELSE Invalidate(e)

\* publish: the memory has just been captured as, or restored to, snap.
Publish(e, snap) ==
    IF e.image = snap THEN [e EXCEPT !.heap = snap.brk]
    ELSE [image |-> snap, heap |-> snap.brk, ro |-> None, valid |-> {}]

\* ReadOnlyImage::matches and ReadOnlyImage::region.
Protected(e, layout) ==
    IF e.ro # None /\ e.ro.regions = layout THEN e.valid \cap layout ELSE {}
=============================================================================
