----------------------------- MODULE MCSnapshot -----------------------------
(***************************************************************************)
(* Two processes.  The first has a file page, two pages of anonymous       *)
(* memory and a page of heap, and two threads at most; the second is one   *)
(* page.  The leader's kernel thread id is not the smallest.               *)
(***************************************************************************)
EXTENDS Snapshot

MCPagesOf == <<{1, 2, 3, 4}, {2}>>
MCFilePages == {1}
MCHeapPages == {4}
MCCarriers == {1, 2, 3}
MCMaxSlots == <<3, 1>>
MCConfigs == {[backend |-> "paged", cache |-> TRUE, resident |-> TRUE],
              [backend |-> "flat", cache |-> FALSE, resident |-> TRUE],
              [backend |-> "paged", cache |-> TRUE, resident |-> FALSE]}

\* Captured elsewhere: with the threads there are at the start, and after the
\* main thread had started two others, and ended.
Elsewhere(value, res, threads) ==
    [node |-> <<[regions |-> {[pages |-> {1}, back |-> "file", prot |-> {"r"}],
                              [pages |-> {2, 3}, back |-> "anon", prot |-> ReadWrite]},
                 bytes |-> <<0, value, 0>>, brk |-> 0, threads |-> threads, res |-> res],
                [regions |-> {[pages |-> {2}, back |-> "anon", prot |-> ReadWrite]},
                 bytes |-> [p \in {2} |-> 0], brk |-> 0,
                 threads |-> <<[alive |-> TRUE, mask |-> 0, regs |-> 0]>>, res |-> 0]>>,
     status |-> <<"run", "run">>]

MCForeign ==
    {Elsewhere(0, 0, <<[alive |-> TRUE, mask |-> 1, regs |-> 1]>>),
     Elsewhere(1, 1, <<[alive |-> FALSE, mask |-> 0, regs |-> 0],
                       [alive |-> TRUE, mask |-> 1, regs |-> 1],
                       [alive |-> TRUE, mask |-> 0, regs |-> 0]>>)}
=============================================================================
