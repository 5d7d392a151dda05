---------------------------- MODULE AddressSpace ----------------------------
(***************************************************************************)
(* The memory of one traced process, page by page, as the kernel keeps it  *)
(* and as a snapshot describes it (core/state/state.cpp).  A page is a     *)
(* hole or has a backing, a protection and a content; 0 is the zero page.  *)
(* The scratch page and the kernel's pseudo mappings, which no snapshot    *)
(* holds, are left out.                                                    *)
(***************************************************************************)
EXTENDS Integers, FiniteSets, FiniteSetsExt

Page(back, prot, val) == [back |-> back, prot |-> prot, val |-> val]
Hole == Page("hole", {}, 0)
ReadWrite == {"r", "w"}

Mapped(m) == {p \in DOMAIN m : m[p].back # "hole"}

\* Two neighbours that one mapping of the kernel could hold.
Alike(m, p) ==
    /\ {p - 1, p} \subseteq Mapped(m)
    /\ m[p - 1].back = m[p].back
    /\ m[p - 1].prot = m[p].prot

\* /proc/pid/maps: the kernel may keep a boundary (a page of cuts) between two
\* mappings that are alike, after mprotect split them.
Vmas(m, cuts) ==
    LET heads == {p \in Mapped(m) : ~Alike(m, p) \/ p \in cuts}
    IN  {[pages |-> {q \in Mapped(m) : q >= h /\ \A x \in heads : x <= q => x <= h},
          back |-> m[h].back, prot |-> m[h].prot] : h \in heads}

\* As a mutation: mappings are merged whatever their protections are.
MergesMutant(u, v) == Max(u.pages) + 1 = Min(v.pages) /\ u.back = v.back

\* The test of build_capture_layout: v continues u (same_backing, flags, name).
Merges(u, v) ==
    /\ Max(u.pages) + 1 = Min(v.pages)
    /\ u.back = v.back
    /\ u.prot = v.prot

\* build_capture_layout: one canonical region per run of mappings that merge.
BuildCaptureLayout(vmas) ==
    LET heads == {v \in vmas : \A u \in vmas : ~Merges(u, v)}
        run(v) == {w \in vmas : /\ Min(w.pages) >= Min(v.pages)
                                /\ \A x \in heads : Min(x.pages) <= Min(w.pages)
                                                      => Min(x.pages) <= Min(v.pages)}
    IN  {[v EXCEPT !.pages = UNION {w.pages : w \in run(v)}] : v \in heads}

\* What a snapshot says of every page of the domain.
Decode(domain, snap) ==
    [p \in domain |->
        IF \E r \in snap.regions : p \in r.pages
        THEN LET r == CHOOSE x \in snap.regions : p \in x.pages
             IN  Page(r.back, r.prot, snap.bytes[p])
        ELSE Hole]

Covered(snap) == UNION {r.pages : r \in snap.regions}

-----------------------------------------------------------------------------
(* The kernel's calls on a range of pages *)

Mprotect(m, range, prot) == [p \in DOMAIN m |-> IF p \in range THEN [m[p] EXCEPT !.prot = prot] ELSE m[p]]
MmapFixed(m, range, prot) == [p \in DOMAIN m |-> IF p \in range THEN Page("anon", prot, 0) ELSE m[p]]
Munmap(m, range) == [p \in DOMAIN m |-> IF p \in range THEN Hole ELSE m[p]]
DontNeed(m, range) == [p \in DOMAIN m |-> IF p \in range THEN [m[p] EXCEPT !.val = 0] ELSE m[p]]
Store(m, range, bytes) == [p \in DOMAIN m |-> IF p \in range THEN [m[p] EXCEPT !.val = bytes[p]] ELSE m[p]]

\* The break moves over the heap pages: 0 without them, 1 with them.  It
\* cannot grow over a mapping that somebody else has placed there.
CanBrk(m, heap, from, to) == from < to => heap \cap Mapped(m) = {}
Brk(m, heap, from, to) ==
    [p \in DOMAIN m |->
        CASE from < to /\ p \in heap -> Page("heap", ReadWrite, 0)
          [] from > to /\ p \in heap -> Hole
          [] OTHER -> m[p]]

\* The boundaries the kernel may keep.
MayCut(m) == {p \in DOMAIN m : Alike(m, p) /\ m[p].back = "anon"}
=============================================================================
