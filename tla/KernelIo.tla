----------------------------- MODULE KernelIo -----------------------------
(***************************************************************************)
(* The input and output of the traced processes: their file systems and    *)
(* sockets behind one descriptor table each (subsys/io.cpp), calls that    *)
(* must wait (subsys/pending_io.cpp) and process exits.                    *)
(*                                                                         *)
(* One action is one transition of the explorer: the whole handler of one  *)
(* call of one thread, or the end of a call that was waiting, followed by  *)
(* the refresh of every waiting call (state_transition.cpp).  A call that  *)
(* answers an error changes nothing and has no step; one that throws ends  *)
(* the branch and has no step either.                                      *)
(***************************************************************************)
EXTENDS FileSystem, Network

CONSTANTS
    Node,          \* processes, 0..NP-1
    Thread,        \* threads
    Threads,       \* per program, those of them that every process has
    Programs,      \* what the processes may do: per process and call, a set of arguments
    Hosts,         \* per program, the host: its tree, the mappings and the executable
    InitialBudget, \* kInitialModelBudget
    Bounds         \* per program, bounds on descriptors, files, connections and data

VARIABLES
    program,  \* the program that runs
    k,        \* fd_managers, fs_states and sock_states of every process
    calls,    \* thread_state::pending_syscall with reason Io
    dead,     \* processes that have exited
    budget,   \* ptmc_state.error_bound
    wire      \* ghost: per TCP connection and side, bytes sent and closed

vars == <<program, k, calls, dead, budget, wire>>

NoCall == [nr |-> "none"]

\* load_config: the captured tree, the standard streams and nothing else.
Boot(host) ==
    [fds |-> StandardFds,
     tree |-> CaptureExecutable(InitFromMappings(host.tree, host.mappings), host.tree, host.exe),
     open |-> [i \in 0..2 |-> [path |-> Stdio(i), offset |-> 0, obj |-> InitialIno(Stdio(i))]],
     cwd |-> Root, next |-> 1, maps |-> <<>>, mem |-> <<>>,
     pipes |-> <<>>, ends |-> <<>>, sock |-> <<>>, tcp |-> <<>>, udp |-> <<>>, epoll |-> <<>>]

Procs == DOMAIN Programs[program]
Init ==
    /\ program \in DOMAIN Programs
    /\ \E start \in {Boot(Hosts[program])} : start.tree # NoTree /\ k = [n \in Procs |-> start]
    /\ calls = [n \in Procs |-> [t \in Thread |-> NoCall]]
    /\ dead = {}
    /\ budget = InitialBudget
    /\ wire = <<>>

-----------------------------------------------------------------------------
\* ready_events of any descriptor.
ReadyEvents(p, fd) ==
    IF fd \in DOMAIN p.sock THEN SocketEvents(p, fd)
    ELSE IF fd \notin DOMAIN p.ends THEN {}
    ELSE LET pipe == p.pipes[PipeOf(p, fd)] IN
         IF p.ends[fd] > 0
         THEN (IF pipe.bytes > 0 \/ pipe.write_closed THEN {"IN"} ELSE {})
              \cup (IF pipe.write_closed THEN {"HUP"} ELSE {})
         ELSE IF pipe.read_closed THEN {"ERR"}
         ELSE IF pipe.bytes < PipeCapacity THEN {"OUT"} ELSE {}

\* epoll_ready
EpollReady(p, epfd) ==
    \E fd \in DOMAIN p.epoll[epfd] :
        ReadyEvents(p, fd) \cap (p.epoll[epfd][fd] \cup {"ERR", "HUP"}) # {}

\* descriptor_readiness: what select and poll look at.
DescriptorReadiness(p, fd) ==
    CASE TypeOf(p, fd) \in {"FILE", "STDIO"} -> {"IN", "OUT"}
      [] TypeOf(p, fd) = "EPOLL" -> IF EpollReady(p, fd) THEN {"IN"} ELSE {}
      [] TypeOf(p, fd) = "SOCKET" ->
            LET s == p.sock[fd] IN
            ReadyEvents(p, fd) \cup (IF s.type = "STREAM" /\ ~s.connected /\ ~s.listening
                                     THEN {"OUT", "HUP"} ELSE {})
      [] TypeOf(p, fd) = "PIPE" ->
            LET bytes == p.pipes[PipeOf(p, fd)].bytes IN
            (ReadyEvents(p, fd) \ (IF p.ends[fd] > 0 /\ bytes = 0 THEN {"IN"} ELSE {}))
              \cup (IF p.ends[fd] < 0 /\ bytes < PipeCapacity THEN {"OUT"} ELSE {})

\* emu_select_scan: EBADF when a descriptor of the sets is not open.
Select(p, reads, writes) ==
    [error |-> ~(reads \cup writes \subseteq DOMAIN p.fds),
     read |-> {fd \in reads : DescriptorReadiness(p, fd) \cap {"IN", "HUP", "ERR"} # {}},
     write |-> {fd \in writes : DescriptorReadiness(p, fd) \cap {"OUT", "ERR"} # {}}]
\* emu_poll of one entry; it repeats the cases of descriptor_readiness.
Poll(p, fd, events) ==
    IF ~Allocated(p, fd) THEN {"NVAL"} ELSE DescriptorReadiness(p, fd) \cap (events \cup {"ERR", "HUP"})

\* emu_ioctl(FIONREAD); -1 for the errors.  A datagram of the model has one byte.
Fionread(p, fd) ==
    CASE TypeOf(p, fd) = "PIPE" -> p.pipes[PipeOf(p, fd)].bytes
      [] TypeOf(p, fd) = "SOCKET" ->
            IF p.sock[fd].listening THEN -1
            ELSE IF p.sock[fd].type = "DGRAM" THEN MinOf(1, Len(UdpQueue(p, fd)))
            ELSE IF fd \in DOMAIN p.tcp THEN Len(FlattenSeq(p.tcp[fd].buf)) ELSE 0
      [] TypeOf(p, fd) = "FILE" ->
            LET size == Len(Content(p, fd)) IN
            IF p.open[fd].offset >= size THEN 0 ELSE size - p.open[fd].offset
      [] OTHER -> -1

\* io_retry_ready
RetryReady(p, c) ==
    IF ~Allocated(p, c.fd) THEN TRUE
    ELSE IF c.nr = "epoll_wait" THEN c.fd \notin DOMAIN p.epoll \/ EpollReady(p, c.fd)
    ELSE IF TypeOf(p, c.fd) = "PIPE"
    THEN LET pipe == p.pipes[PipeOf(p, c.fd)] IN
         IF c.nr = "write"
         THEN \/ p.ends[c.fd] > 0 \/ pipe.read_closed
              \/ IF c.count <= PipeAtomic THEN PipeRoom(p, c.fd) >= c.count ELSE PipeRoom(p, c.fd) > 0
         ELSE p.ends[c.fd] < 0 \/ pipe.bytes > 0 \/ pipe.write_closed
    ELSE \/ TypeOf(p, c.fd) # "SOCKET"
         \/ ReadyEvents(p, c.fd) \cap {"IN", "ERR", "HUP", "RDHUP"} # {}

\* refresh_pending_syscalls: readiness is granted, nothing is consumed.
Refresh(kk, cc) ==
    [n \in DOMAIN kk |-> [t \in Thread |->
        IF cc[n][t] = NoCall THEN NoCall
        ELSE [cc[n][t] EXCEPT !.phase = IF RetryReady(kk[n], cc[n][t].call) THEN "Retry" ELSE "Waiting"]]]

\* Bounds of the model: descriptors and new files of a process, bytes of a
\* file, connections, bytes sent by one side, datagrams sent to one socket.
InBounds(kk, ww) ==
    LET b == Bounds[program] IN
    /\ \A n \in DOMAIN kk : \A p \in {kk[n]} :
         /\ DOMAIN p.fds \subseteq 0..(b.fds[n] - 1)
         /\ p.next <= b.files + 1
         /\ \A q \in DOMAIN p.tree : Len(p.tree[q].content) <= b.size
         /\ \A fd \in DOMAIN p.open : p.open[fd].offset <= b.size
         /\ \A fd \in DOMAIN p.udp : p.udp[fd].sent <= b.datagrams
    /\ Cardinality(DOMAIN ww) <= b.conns
    /\ \A id \in DOMAIN ww : ww[id].client <= b.sent /\ ww[id].server <= b.sent

\* The end of every transition.
Step(kk, cc, bb, ww) ==
    /\ \E after \in {kk} : /\ InBounds(after, ww)
                          /\ k' = after
                          /\ calls' = Refresh(after, cc)
    /\ budget' = bb
    /\ wire' = ww
    /\ UNCHANGED program

Runs(n, t) == n \in DOMAIN k \ dead /\ t \in Threads[program] /\ calls[n][t] = NoCall
Args(n, nr) == IF nr \in DOMAIN Programs[program][n] THEN Programs[program][n][nr] ELSE {}

\* A call that changes the caller's own process only.
Local(n, results) ==
    \E q \in results \ {k[n]} : Step([k EXCEPT ![n] = q], calls, budget, wire) /\ UNCHANGED dead

-----------------------------------------------------------------------------
\* File system calls.
FileFds(n) == DOMAIN k[n].open
Openat(n, t) == Runs(n, t) /\ \E a \in Args(n, "openat") :
    Local(n, OpenResults(k[n], a.dirfd, a.name, a.flags))
Ftruncate(n, t) == Runs(n, t) /\ \E a \in Args(n, "ftruncate"), fd \in FileFds(n) :
    Local(n, FileTruncate(k[n], fd, a))
Lseek(n, t) == Runs(n, t) /\ \E a \in Args(n, "lseek"), fd \in FileFds(n) :
    Local(n, FileSeek(k[n], fd, a.whence, a.delta))
Getdents(n, t) == Runs(n, t) /\ \E a \in Args(n, "getdents64"), fd \in FileFds(n) :
    Local(n, GetDents(k[n], fd, a))
ChangeDir(n, t) == Runs(n, t) /\ \E a \in Args(n, "chdir") : Local(n, Chdir(k[n], a))
Unlinkat(n, t) == Runs(n, t) /\ \E a \in Args(n, "unlinkat") :
    Local(n, UnlinkResults(k[n], a.dirfd, a.name))
Renameat(n, t) == Runs(n, t) /\ \E a \in Args(n, "renameat2") :
    Local(n, RenameResults(k[n], a.dirfd, a.old, a.dirfd, a.new, a.noreplace))
Mmap(n, t) == Runs(n, t) /\ \E a \in Args(n, "mmap"), fd \in FileFds(n) :
    Local(n, MapFile(k[n], fd, a.at, a.count, a.off))
Munmap(n, t) == Runs(n, t) /\ \E a \in Args(n, "munmap") :
    Local(n, {Unmap(k[n], a.at, a.count)} \ {k[n]})
Pipe(n, t) == Runs(n, t) /\ \E a \in Args(n, "pipe2") : Local(n, {MakePipe(k[n], a)})

\* Socket and epoll calls that never wait.
SockFds(n) == DOMAIN k[n].sock
NewSock(n, t) == Runs(n, t) /\ \E a \in Args(n, "socket") :
    Local(n, {Socket(k[n], a.type, a.nonblock)})
Bind(n, t) == Runs(n, t) /\ \E a \in Args(n, "bind"), fd \in SockFds(n) :
    Local(n, BindResults(k[n], fd, a))
Listen(n, t) == Runs(n, t) /\ \E a \in Args(n, "listen"), fd \in SockFds(n) :
    Local(n, ListenResults(k[n], fd, a))
NewId == Cardinality(DOMAIN wire) + 1
Connect(n, t) == Runs(n, t) /\ \E a \in Args(n, "connect"), fd \in SockFds(n) :
    \E kk \in ConnectResults(k, n, fd, a, NewId) :
        /\ Step(kk, calls, budget, Put(wire, NewId, [client |-> 0, server |-> 0, closed |-> {}]))
        /\ UNCHANGED dead
Epoll(n, t) == Runs(n, t) /\ \E a \in Args(n, "epoll_create1") : Local(n, {EpollCreate(k[n])})
EpollCtl(n, t) == Runs(n, t) /\ \E a \in Args(n, "epoll_ctl"), e \in DOMAIN k[n].epoll :
    \E fd \in DOMAIN k[n].fds \ {e} : Local(n, EpollCtlResults(k[n], e, a.op, fd, a.events))

\* Mutant: a call that was granted no longer retains its descriptor.
RetainedMutant(n, fd) ==
    \E t \in Thread : calls[n][t] # NoCall /\ calls[n][t].call.fd = fd /\ calls[n][t].phase = "Waiting"
\* require_no_pending_fd
Retained(n, fd) == \E t \in Thread : calls[n][t] # NoCall /\ calls[n][t].call.fd = fd
Setfl(n, t) == Runs(n, t) /\ \E a \in Args(n, "fcntl"), fd \in DOMAIN k[n].fds :
    fd >= a.from /\ ~Retained(n, fd) /\ Local(n, {SetFl(k[n], fd, a.append, a.nonblock)} \ {k[n]})

-----------------------------------------------------------------------------
\* Calls that may have to wait: c is [nr, fd, count, byte, choice, wait,
\* forever], wait FALSE for MSG_DONTWAIT and for a zero epoll timeout, forever for an
\* epoll timeout below zero.
IsDgram(p, fd) == TypeOf(p, fd) = "SOCKET" /\ p.sock[fd].type = "DGRAM"
IsStream(p, fd) == TypeOf(p, fd) = "SOCKET" /\ p.sock[fd].type = "STREAM"

\* The call answers EAGAIN, or epoll_wait nothing.
Blocks(p, c) ==
    CASE c.nr = "epoll_wait" -> TypeOf(p, c.fd) = "EPOLL" /\ ~EpollReady(p, c.fd)
      [] c.nr = "accept" -> IsStream(p, c.fd) /\ AcceptBlocks(p, c.fd)
      [] c.nr \in {"read", "recvfrom"} ->
            \/ TypeOf(p, c.fd) = "PIPE" /\ PipeReadBlocks(p, c.fd)
            \/ IsStream(p, c.fd) /\ RecvBlocks(p, c.fd)
            \/ IsDgram(p, c.fd) /\ RecvFromBlocks(p, c.fd, c.choice)
      [] c.nr = "write" -> TypeOf(p, c.fd) = "PIPE" /\ PipeWriteBlocks(p, c.fd, c.count)

\* The descriptors on which a call does something, in programs that keep to
\* the read ends of pipes for reading and to connected or listening sockets.
Applies(p, c) ==
    CASE c.nr = "epoll_wait" -> TypeOf(p, c.fd) = "EPOLL"
      [] c.nr = "accept" -> IsStream(p, c.fd) /\ p.sock[c.fd].listening
      [] c.nr = "recvfrom" -> IsDgram(p, c.fd)
      [] c.nr = "read" ->
            \/ c.fd \in DOMAIN p.open
            \/ IsDgram(p, c.fd)
            \/ TypeOf(p, c.fd) = "PIPE" /\ p.ends[c.fd] > 0
            \/ IsStream(p, c.fd) /\ p.sock[c.fd].connected
      [] c.nr = "write" ->
            \/ c.fd \in DOMAIN p.open
            \/ IsStream(p, c.fd) /\ p.sock[c.fd].connected
            \/ TypeOf(p, c.fd) = "PIPE" /\ p.ends[c.fd] < 0 /\ ~PipeWriteThrows(p, c.fd, c.count)

\* A connection's bytes are numbered per side.
Bytes(id, side, from, n) == [i \in 1..n |-> <<id, side, from + i>>]

\* emu_read, emu_write, do_recvfrom, emu_accept4, do_epoll_wait: the kernel
\* states after a call that does not block.
Effects(kk, n, c) ==
    LET p == kk[n]
        One(S) == {[kk EXCEPT ![n] = q] : q \in S}
    IN CASE c.nr = "epoll_wait" -> {kk}
         [] c.nr = "accept" -> One({Accept(p, c.fd, FALSE)})
         [] c.nr \in {"read", "recvfrom"} ->
               IF c.fd \in DOMAIN p.open THEN One(FileRead(p, c.fd, c.count))
               ELSE IF TypeOf(p, c.fd) = "PIPE" THEN One({PipeRead(p, c.fd, c.count)})
               ELSE IF IsDgram(p, c.fd) THEN One({RecvFrom(p, c.fd, c.choice)})
               ELSE One({Recv(p, c.fd, c.count)})
         [] c.nr = "write" ->
               IF c.fd \in DOMAIN p.open
               THEN One(FileWrite(p, c.fd, [i \in 1..c.count |-> c.byte]))
               ELSE IF TypeOf(p, c.fd) = "PIPE" THEN One({PipeWrite(p, c.fd, c.count)})
               ELSE LET conn == p.tcp[c.fd] IN
                    SendResults(kk, n, c.fd, Bytes(conn.id, conn.side, wire[conn.id][conn.side], c.count))

\* The connection log after a call: a delivered write counts.
Sent(n, c) ==
    IF c.nr = "write" /\ IsStream(k[n], c.fd)
    THEN [wire EXCEPT ![k[n].tcp[c.fd].id][k[n].tcp[c.fd].side] = @ + c.count] ELSE wire

\* consume_model_budget: a choice of 1 on a nonempty queue costs one.
Spend(cost) == IF budget > cost THEN budget - cost ELSE 0
Cost(p, c) == IF c.nr = "recvfrom" /\ c.choice = 1 /\ UdpQueue(p, c.fd) # <<>> THEN 1 ELSE 0

\* finish_io_call, io_should_suspend, suspend_syscall, configure_pending_io.
Suspends(p, c) == c.wait /\ (c.nr = "epoll_wait" \/ ~p.fds[c.fd].nonblock)
Call(n, t, c) ==
    /\ Applies(k[n], c)
    /\ UNCHANGED dead
    /\ \/ /\ Blocks(k[n], c)
          /\ Suspends(k[n], c) \/ Cost(k[n], c) > 0
          /\ Step(k, IF Suspends(k[n], c)
                     THEN [calls EXCEPT ![n][t] = [call |-> [c EXCEPT !.choice = 0], phase |-> "Waiting"]]
                     ELSE calls, Spend(Cost(k[n], c)), wire)
       \/ /\ ~Blocks(k[n], c)
          /\ \E kk \in Effects(k, n, c) \ {k} : Step(kk, calls, Spend(Cost(k[n], c)), Sent(n, c))

Invoke(nr, fd, a) == [nr |-> nr, fd |-> fd, count |-> a.count, byte |-> a.byte, choice |-> a.choice,
                      wait |-> a.wait, forever |-> a.forever]
\* Programs read and write descriptors from a.from on.
Read(n, t) == Runs(n, t) /\ \E a \in Args(n, "read"), fd \in DOMAIN k[n].fds :
    fd >= a.from /\ Call(n, t, Invoke("read", fd, a))
Write(n, t) == Runs(n, t) /\ \E a \in Args(n, "write"), fd \in DOMAIN k[n].fds :
    fd >= a.from /\ Call(n, t, Invoke("write", fd, a))
\* emu_writev: the pieces are gathered before anything is written; only files
\* and connected streams take them, a stream as one chunk.
Writev(n, t) == Runs(n, t) /\ \E a \in Args(n, "writev"), fd \in DOMAIN k[n].fds :
    /\ fd >= a.io.from /\ TypeOf(k[n], fd) \in {"FILE", "STDIO", "SOCKET"}
    /\ Call(n, t, Invoke("write", fd, [a.io EXCEPT !.count = FoldLeft(LAMBDA x, y : x + y, 0, a.lens)]))
Accepts(n, t) == Runs(n, t) /\ \E a \in Args(n, "accept"), fd \in SockFds(n) : Call(n, t, Invoke("accept", fd, a))
Recvfrom(n, t) == Runs(n, t) /\ \E a \in Args(n, "recvfrom"), fd \in SockFds(n) : Call(n, t, Invoke("recvfrom", fd, a))
EpollWait(n, t) == Runs(n, t) /\ \E a \in Args(n, "epoll_wait"), fd \in DOMAIN k[n].epoll :
    Call(n, t, Invoke("epoll_wait", fd, a))

\* do_sendto: never waits.
Sendto(n, t) == Runs(n, t) /\ \E a \in Args(n, "sendto"), fd \in SockFds(n) :
    /\ IsDgram(k[n], fd)
    /\ UNCHANGED dead
    /\ \E kk \in {SendTo(k, a)} \ {k} :
          Step(kk, calls, Spend(IF Overflows(k, a) THEN 1 ELSE 0), wire)

-----------------------------------------------------------------------------
\* complete_pending_syscall, retry_pending_io: a granted call is made again,
\* without a choice, and waits again if it must.
Retry(n, t) ==
    /\ n \in DOMAIN k \ dead /\ calls[n][t] # NoCall /\ calls[n][t].phase = "Retry"
    /\ UNCHANGED dead
    /\ LET c == calls[n][t].call IN
       \E kk \in IF Blocks(k[n], c) \/ Effects(k, n, c) = {} THEN {k} ELSE Effects(k, n, c) :
          Step(kk, [calls EXCEPT ![n][t] = IF Blocks(k[n], c) /\ Suspends(k[n], c)
                                           THEN [@ EXCEPT !.phase = "Waiting"] ELSE NoCall],
               budget, IF Blocks(k[n], c) THEN wire ELSE Sent(n, c))

\* timeout_action_clock, TransitionAction::Timeout: a waiting call with a
\* deadline, which every call has but an epoll_wait without limit.
Timeout(n, t) ==
    /\ n \in DOMAIN k \ dead /\ calls[n][t] # NoCall /\ calls[n][t].phase = "Waiting"
    /\ ~calls[n][t].call.forever
    /\ ~RetryReady(k[n], calls[n][t].call)
    /\ Step(k, [calls EXCEPT ![n][t] = NoCall], budget, wire)
    /\ UNCHANGED dead

\* emu_close without its guard.
CloseFd(kk, n, fd) ==
    LET p == kk[n] IN
    CASE TypeOf(p, fd) = "SOCKET" -> SocketClose(kk, n, fd)
      [] TypeOf(p, fd) = "PIPE" -> [kk EXCEPT ![n] = Forget(PipeClose(p, fd), fd)]
      [] TypeOf(p, fd) = "EPOLL" -> [kk EXCEPT ![n] = EpollClose(p, fd)]
      [] OTHER -> [kk EXCEPT ![n] = FileClose(p, fd)]
Hangups(n, fds) ==
    LET mine == {k[n].tcp[fd] : fd \in fds \cap DOMAIN k[n].tcp} IN
    [id \in DOMAIN wire |->
        [wire[id] EXCEPT !.closed = @ \cup {c.side : c \in {c \in mine : c.id = id}}]]
\* Programs close descriptors from a on.
Close(n, t) == Runs(n, t) /\ \E a \in Args(n, "close"), fd \in DOMAIN k[n].fds :
    /\ fd >= a
    /\ ~Retained(n, fd)
    /\ Step(CloseFd(k, n, fd), calls, budget, Hangups(n, {fd}))
    /\ UNCHANGED dead

\* preflight_process_io_exit: unaccepted connections and unread data would
\* need resets, which are not supported.
ExitSupported(p) ==
    \A fd \in DOMAIN p.sock :
        /\ p.sock[fd].listening => p.sock[fd].queue = <<>> /\ DOMAIN p.sock[fd].est = {}
        /\ p.sock[fd].connected => \A i \in DOMAIN p.tcp[fd].buf : p.tcp[fd].buf[i] = <<>>

\* exit_logical_process, close_process_io: every descriptor in ascending order.
RECURSIVE CloseAll(_, _)
CloseAll(kk, n) ==
    IF DOMAIN kk[n].fds = {} THEN kk ELSE CloseAll(CloseFd(kk, n, Min(DOMAIN kk[n].fds)), n)
Exit(n, t) ==
    /\ Runs(n, t) /\ Args(n, "exit_group") # {}
    /\ ExitSupported(k[n])
    /\ dead' = dead \cup {n}
    /\ Step(CloseAll(k, n), [calls EXCEPT ![n] = [u \in Thread |-> NoCall]], budget,
            Hangups(n, DOMAIN k[n].fds))

\* SyscallHandler for files, for sockets and epoll, and the ends of calls.
FileStep(n, t) ==
    \/ Openat(n, t) \/ Ftruncate(n, t) \/ Lseek(n, t) \/ Getdents(n, t) \/ ChangeDir(n, t)
    \/ Unlinkat(n, t) \/ Renameat(n, t) \/ Mmap(n, t) \/ Munmap(n, t) \/ Pipe(n, t)
    \/ Setfl(n, t) \/ Read(n, t) \/ Write(n, t) \/ Writev(n, t) \/ Close(n, t)
NetworkStep(n, t) ==
    \/ NewSock(n, t) \/ Bind(n, t) \/ Listen(n, t) \/ Connect(n, t) \/ Accepts(n, t)
    \/ Epoll(n, t) \/ EpollCtl(n, t) \/ EpollWait(n, t) \/ Recvfrom(n, t) \/ Sendto(n, t)

\* capture_stopped validates the state before anything else.  One that has a
\* socket listening and connected at once, which do_listen admits, is refused:
\* the search ends with an error.
Capturable == \A s \in Connected(k) : ~Sock(k, s).listening

Next == Capturable /\ \E n \in Node, t \in Thread :
    FileStep(n, t) \/ NetworkStep(n, t) \/ Retry(n, t) \/ Timeout(n, t) \/ Exit(n, t)
Spec == Init /\ [][Next]_vars

-----------------------------------------------------------------------------
\* tracee_state::validate_io_state: each descriptor has one resource of its
\* kind and each resource its descriptor, pipe ends agree with the pipes,
\* connections with their sockets, waiting calls with their descriptors.
ValidateIoState(p, waiting) ==
    /\ \A c \in waiting :
         TypeOf(p, c.fd) \in CASE c.nr \in {"read", "write"} -> {"PIPE", "SOCKET"}
                               [] c.nr \in {"recvfrom", "accept"} -> {"SOCKET"}
                               [] OTHER -> {"EPOLL"}
    /\ DOMAIN p.open = {fd \in DOMAIN p.fds : TypeOf(p, fd) \in {"FILE", "STDIO"}}
    /\ \A fd \in DOMAIN p.open : p.open[fd].offset >= 0 /\ p.open[fd].path \in DOMAIN p.tree
    /\ DOMAIN p.sock = {fd \in DOMAIN p.fds : TypeOf(p, fd) = "SOCKET"}
    /\ DOMAIN p.epoll = {fd \in DOMAIN p.fds : TypeOf(p, fd) = "EPOLL"}
    /\ DOMAIN p.ends = {fd \in DOMAIN p.fds : TypeOf(p, fd) = "PIPE"}
    /\ \A fd \in DOMAIN p.ends : /\ PipeOf(p, fd) \in DOMAIN p.pipes
                                 /\ p.fds[fd].acc = IF p.ends[fd] > 0 THEN "RDONLY" ELSE "WRONLY"
    /\ \A id \in DOMAIN p.pipes : LET q == p.pipes[id] IN
         /\ q.bytes <= PipeCapacity /\ ~(q.read_closed /\ q.write_closed)
         /\ q.read_closed = (id \notin Range(p.ends)) /\ q.write_closed = (-id \notin Range(p.ends))
    /\ DOMAIN p.tcp = {fd \in DOMAIN p.sock : p.sock[fd].connected}
    /\ \A fd \in DOMAIN p.sock : LET s == p.sock[fd] IN
         /\ s.connected => s.type = "STREAM" /\ ~s.listening /\ p.tcp[fd].fd = fd
                           /\ p.tcp[fd].local = s.local /\ p.tcp[fd].peer = s.peer
         /\ s.listening => s.type = "STREAM" /\ s.bound /\ s.backlog >= 0
         /\ ~s.listening => s.queue = <<>> /\ DOMAIN s.est = {}
         /\ Range(s.queue) = DOMAIN s.est /\ Len(s.queue) = Cardinality(DOMAIN s.est)
         /\ \A c \in DOMAIN s.est : s.est[c].local = c
    /\ \A fd \in DOMAIN p.udp : fd \in DOMAIN p.sock /\ p.sock[fd].type = "DGRAM"
    /\ \A e \in DOMAIN p.epoll : \A fd \in DOMAIN p.epoll[e] :
         fd # e /\ TypeOf(p, fd) \in {"SOCKET", "PIPE"}

-----------------------------------------------------------------------------
\* Snapshots can be saved and resumed: every state a search comes to passes the
\* validation it meets when it is captured and loaded (validate_io_state, the
\* loader of FileSystemState and validate_inode_state), whatever calls led to
\* it, but for one thing: a program that calls listen() on a connected socket
\* is not refused by do_listen, and validate_io_state ends the search.
IoStateValid ==
    \A n \in DOMAIN k : \A p \in
        {[k[n] EXCEPT !.sock = [fd \in DOMAIN @ |->
             [@[fd] EXCEPT !.listening = @ /\ ~k[n].sock[fd].connected]]]} :
    /\ ValidateIoState(p, {calls[n][t].call : t \in {t \in Thread : calls[n][t] # NoCall}})
    /\ ValidInodes(p)
    /\ ValidMappings(p)

\* Names do not drift from objects: whatever programs rename, unlink, create
\* and reopen, an object keeps its inode number from its birth to its end, an
\* open description leads to the object that was opened, and the questions
\* agree: fstat names the opened object, stat the one open would give, access
\* admits what stat finds, reading a link and following it by hand is following
\* it, and /proc/self/exe and getcwd lead where they say.
ObjectsKeepTheirNames ==
    \A n \in DOMAIN k : \A p \in {k[n]} :
    /\ \A q \in DOMAIN p.tree : InodeOf(p, q) = p.tree[q].obj
    /\ \A fd \in DOMAIN p.open : p.open[fd].path \in DOMAIN p.tree /\ Fstat(p, fd) = p.open[fd].obj
    /\ Stat(p, AtCwd, [abs |-> TRUE, parts |-> ExeLink], TRUE) = InitialIno(Exe(p))
    /\ IsDir(p, p.cwd) /\ Stat(p, AtCwd, Getcwd(p), TRUE) = InodeOf(p, p.cwd)
    /\ \A a \in Args(n, "openat") :
         LET leaf == NamespaceLeaf(p, a.dirfd, a.name)
             target == Readlink(p, a.dirfd, a.name)
             Opened == OpenResults(p, a.dirfd, a.name, [a.flags EXCEPT !.creat = FALSE, !.trunc = FALSE])
         IN /\ leaf \in DOMAIN p.tree => Stat(p, a.dirfd, a.name, FALSE) = InodeOf(p, leaf)
            /\ \A q \in Opened : q.open[NextFd(p.fds)].obj = Stat(p, a.dirfd, a.name, ~a.flags.nofollow)
            /\ Access(p, a.dirfd, a.name, TRUE, FALSE) = (Stat(p, a.dirfd, a.name, TRUE) # NoIno)
            /\ target # NoTarget /\ leaf # NoPath => Stat(p, a.dirfd, a.name, TRUE) =
                  Stat([p EXCEPT !.cwd = Parent(leaf)], AtCwd, target, TRUE)

\* The mapping provenance is exact: the recorded extents are disjoint and
\* cover precisely the file pages the process has mapped, every one names the
\* object whose bytes are there, and those bytes are still the file's: what the
\* record says of the page's origin is true.
MappingsExact ==
    \A n \in DOMAIN k : LET p == k[n]
                        Extent(s) == s..(p.maps[s].end - 1)
    IN /\ UNION {Extent(s) : s \in DOMAIN p.maps} = DOMAIN p.mem
       /\ \A s, t \in DOMAIN p.maps : s # t =>
             /\ Extent(s) \cap Extent(t) = {}
             /\ p.maps[s].end = t => p.maps[s].path # p.maps[t].path
       /\ \A s \in DOMAIN p.maps : \A g \in Extent(s) :
             /\ IsFile(p, p.maps[s].path)
             /\ p.tree[p.maps[s].path].obj = p.mem[g].obj
             /\ PageOf(p.tree[p.maps[s].path].content, p.mem[g].page) = p.mem[g].bytes

\* Every TCP byte reaches its own connection once and in order: what one side
\* has read and what is queued for it, accepted or not, are exactly the bytes
\* the other side of the same connection sent, and the end-of-file mark comes
\* last, when that side has closed; ports and descriptors may be reused.
StreamsIntact ==
    \A n \in DOMAIN k : \A conn \in Range(k[n].tcp)
                          \cup UNION {Range(k[n].sock[fd].est) : fd \in DOMAIN k[n].sock} :
        LET other == IF conn.side = "client" THEN "server" ELSE "client"
            sent == wire[conn.id][other]
        IN /\ FlattenSeq(conn.buf) = Bytes(conn.id, other, conn.got, sent - conn.got)
           /\ \A i \in DOMAIN conn.buf : conn.buf[i] = <<>> =>
                 i = Len(conn.buf) /\ other \in wire[conn.id].closed

\* No lost wake-up and no false one: a waiting call is granted exactly when
\* making it again would not wait again, whichever thread, process or close
\* made the difference; select and poll report a descriptor exactly when a
\* call on it would not wait, and FIONREAD the bytes the peer sent and nobody
\* has read.  (A state that cannot be captured is left out: nothing runs in it.)
GrantedMeansDone == Capturable =>
    /\ \A n \in DOMAIN k, t \in Thread : calls[n][t] # NoCall =>
          (calls[n][t].phase = "Retry") = ~Blocks(k[n], calls[n][t].call)
    /\ \A n \in DOMAIN k : \A p \in {k[n]} : \A fd \in DOMAIN p.fds :
          LET Waits(nr) == Blocks(p, [nr |-> nr, fd |-> fd, count |-> 1, choice |-> 0])
              Can(nr) == Applies(p, [nr |-> nr, fd |-> fd, count |-> 1])
          IN /\ \A nr \in {"read", "accept", "recvfrom", "epoll_wait"} : Can(nr) =>
                   /\ (Select(p, {fd}, {}).read = {fd}) = ~Waits(nr)
                   /\ (Poll(p, fd, {"IN"}) # {}) = ~Waits(nr)
             /\ Can("write") => (Select(p, {}, {fd}).write = {fd}) = ~Waits("write")
             /\ fd \in DOMAIN p.tcp => Fionread(p, fd) =
                   wire[p.tcp[fd].id][IF p.tcp[fd].side = "client" THEN "server" ELSE "client"]
                     - p.tcp[fd].got

=============================================================================
