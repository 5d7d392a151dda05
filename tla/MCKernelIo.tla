---------------------------- MODULE MCKernelIo ----------------------------
(***************************************************************************)
(* Four programs for the emulated kernel: one that opens, renames and maps *)
(* files through links, one whose threads share pipes and an epoll, two    *)
(* processes that talk TCP, and two that exchange datagrams.               *)
(***************************************************************************)
EXTENDS KernelIo, TLC

Abs(parts) == [abs |-> TRUE, parts |-> parts]
Rel(parts) == [abs |-> FALSE, parts |-> parts]
At(name) == [dirfd |-> AtCwd, name |-> name]

\* The host: a directory h that is mapped to the root, a file that is laid over
\* the mapped tree, and the executable, started through a link.
Plain(kind, content, target) == [kind |-> kind, content |-> content, target |-> target]
HostDir == Plain("dir", <<>>, NoTarget)
HostTree(files) ==
    files @@ (Root :> HostDir) @@ (<<"h">> :> HostDir) @@ (<<"x">> :> Plain("file", <<2>>, NoTarget))
Host(files, mappings, exe) == [tree |-> HostTree(files), mappings |-> mappings, exe |-> exe]
Mapping(host, target) == [host |-> host, target |-> target]

EmptyHost == Host(<<>>, <<>>, <<"x">>)
LinkHost == Host((<<"h", "d">> :> HostDir) @@ (<<"h", "l">> :> Plain("link", <<>>, Rel(<<"d", "">>))),
                 <<Mapping(<<"h">>, <<>>)>>, <<"x">>)
FilesHost ==
    Host((<<"h", "d">> :> HostDir) @@ (<<"h", "l">> :> Plain("link", <<>>, Rel(<<"d", "">>)))
           @@ (<<"h", "f">> :> Plain("file", <<1>>, NoTarget)) @@ (<<"g">> :> Plain("file", <<1, 1, 1>>, NoTarget))
           @@ (<<"h", "o">> :> Plain("link", <<>>, Rel(<<"o">>)))
           @@ (<<"d">> :> HostDir) @@ (<<"d", "x">> :> Plain("file", <<2>>, NoTarget))
           @@ (<<"e">> :> Plain("link", <<>>, Rel(<<"d">>))),
         <<Mapping(<<"h">>, <<>>), Mapping(<<"g">>, <<"d", "..", "f">>)>>, <<"e", "x">>)

Flags(acc, set) == [acc |-> acc, creat |-> "creat" \in set, excl |-> "excl" \in set,
                    trunc |-> "trunc" \in set, nofollow |-> "nofollow" \in set,
                    directory |-> "directory" \in set, append |-> "append" \in set]
Io(from, count, choice, wait, forever) ==
    [from |-> from, count |-> count, byte |-> 2, choice |-> choice, wait |-> wait, forever |-> forever]

FilesProgram ==
    ("openat" :> {[dirfd |-> AtCwd, name |-> a[1], flags |-> a[2]] : a \in
        {<<Abs(<<"l", "..", "f">>), Flags("RDWR", {})>>, <<Rel(<<"l", "n">>), Flags("RDWR", {"creat"})>>,
         <<Rel(<<"f">>), Flags("WRONLY", {"trunc", "append"})>>,
         <<Abs(<<"d", ".", "n">>), Flags("WRONLY", {"creat", "excl"})>>,
         <<Abs(<<"l", "">>), Flags("RDONLY", {"directory", "nofollow"})>>,
         <<Rel(<<"o">>), Flags("RDONLY", {})>>, <<Rel(<<"d", "x">>), Flags("WRONLY", {})>>}})
    @@ ("read" :> {Io(3, 2, 0, TRUE, FALSE)}) @@ ("write" :> {Io(3, 1, 0, TRUE, FALSE)})
    @@ ("ftruncate" :> {1}) @@ ("lseek" :> {[whence |-> "END", delta |-> 1]})
    @@ ("getdents64" :> {2}) 
    @@ ("unlinkat" :> {At(Rel(<<"f">>)), At(Abs(<<"l", "n">>))})
    @@ ("renameat2" :> {[dirfd |-> AtCwd, old |-> Abs(a[1]), new |-> Abs(a[2]), noreplace |-> a[3]] :
            a \in {<<<<"f">>, <<"l", "n">>, FALSE>>, <<<<"d", "n">>, <<"f">>, FALSE>>,
                   <<<<"f">>, <<"d", "n">>, TRUE>>, <<<<"o">>, <<"d", "x">>, FALSE>>}})
    @@ ("mmap" :> {[at |-> 0, count |-> 2, off |-> 0], [at |-> 1, count |-> 1, off |-> 1]})
    @@ ("munmap" :> {[at |-> 0, count |-> 1]})
    @@ ("close" :> {3})

PipesProgram ==
    ("pipe2" :> {FALSE}) @@ ("epoll_create1" :> {0})
    @@ ("epoll_ctl" :> {[op |-> "ADD", events |-> {"IN"}], [op |-> "DEL", events |-> {}]})
    @@ ("read" :> {Io(3, 2, 0, TRUE, FALSE)})
    @@ ("write" :> {Io(3, 2, 0, TRUE, FALSE), Io(3, 3, 0, TRUE, FALSE)})
    @@ ("epoll_wait" :> {Io(3, 0, 0, TRUE, TRUE)})
    @@ ("close" :> {3}) @@ ("exit_group" :> {0})

ServerProgram ==
    ("socket" :> {[type |-> "STREAM", nonblock |-> FALSE]}) @@ ("bind" :> {<<AnyAddr, 80>>})
    @@ ("listen" :> {2}) @@ ("accept" :> {Io(3, 0, 0, TRUE, FALSE)})
    @@ ("read" :> {Io(3, 1, 0, TRUE, FALSE)})
    @@ ("writev" :> {[io |-> Io(3, 0, 0, TRUE, FALSE), lens |-> <<1, 0, 1>>]})
    @@ ("close" :> {3})
ClientProgram ==
    ("socket" :> {[type |-> "STREAM", nonblock |-> FALSE]}) @@ ("connect" :> {<<0, 80>>})
    @@ ("read" :> {Io(3, 2, 0, TRUE, FALSE)}) @@ ("write" :> {Io(3, 2, 0, TRUE, FALSE)})
    @@ ("close" :> {3}) @@ ("exit_group" :> {0})

ReceiverProgram ==
    ("socket" :> {[type |-> "DGRAM", nonblock |-> FALSE]}) @@ ("bind" :> {<<AnyAddr, 80>>})
    @@ ("recvfrom" :> {Io(3, 1, 0, TRUE, FALSE), Io(3, 1, 1, FALSE, FALSE), Io(3, 1, 1, TRUE, FALSE)})
    @@ ("fcntl" :> {[from |-> 3, append |-> FALSE, nonblock |-> TRUE]})
    @@ ("write" :> {Io(1, 1, 0, TRUE, FALSE)}) @@ ("close" :> {3})
SenderProgram ==
    ("socket" :> {[type |-> "DGRAM", nonblock |-> FALSE]}) @@ ("sendto" :> {<<0, 80>>})
    @@ ("chdir" :> {Rel(<<"l">>)})

MCPrograms ==
    [files |-> (0 :> FilesProgram),
     pipes |-> (0 :> PipesProgram),
     tcp |-> (0 :> ServerProgram) @@ (1 :> ClientProgram),
     udp |-> (0 :> ReceiverProgram) @@ (1 :> SenderProgram)]
MCHosts == [files |-> FilesHost, pipes |-> EmptyHost, tcp |-> EmptyHost, udp |-> LinkHost]
MCThreads == [files |-> {1}, pipes |-> {1, 2}, tcp |-> {1}, udp |-> {1}]

Bound(fds0, fds1, files, size, conns, sent, datagrams) ==
    [fds |-> (0 :> fds0) @@ (1 :> fds1), files |-> files, size |-> size, conns |-> conns, sent |-> sent,
     datagrams |-> datagrams]
MCBounds == [files |-> Bound(4, 4, 1, 3, 0, 0, 0), pipes |-> Bound(6, 4, 0, 1, 0, 0, 0),
             tcp |-> Bound(5, 4, 0, 1, 2, 2, 0), udp |-> Bound(4, 4, 0, 1, 0, 0, 4)]

MCNode == 0..1

=============================================================================
