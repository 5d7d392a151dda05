------------------------------ MODULE Network ------------------------------
(***************************************************************************)
(* The emulated network (subsys/net/sockstate.cpp): TCP and UDP sockets of *)
(* all traced processes, and epoll.  k[n] is the kernel state of process   *)
(* n; a call of one process reaches into the state of the others, as the   *)
(* code does through ptmc_state.sock_states.                               *)
(*                                                                         *)
(* The address of process n is n.  An endpoint is <<address, port>>.  A    *)
(* receive queue is a sequence of chunks, a chunk a sequence of bytes, the *)
(* empty chunk the end-of-file mark.                                       *)
(*                                                                         *)
(* Ghosts: conn.id and conn.side name the connection and the side that     *)
(* reads the queue; conn.got counts the bytes read from it.                *)
(***************************************************************************)
EXTENDS Descriptors

CONSTANTS
    FirstPort,   \* 10000, the first ephemeral port
    PortCount,   \* 50000 of them
    MaxUdp       \* MAX_UDP_BUFFER, 3 datagrams

AnyAddr == -1        \* INADDR_ANY
NoEnd == <<AnyAddr, 0>>
Addr(e) == e[1]
Port(e) == e[2]
Concrete(n, e) == IF Addr(e) = AnyAddr THEN <<n, Port(e)>> ELSE e

Conn(fd, local, peer, buf, id, side, got) ==
    [fd |-> fd, local |-> local, peer |-> peer, buf |-> buf, id |-> id, side |-> side, got |-> got]

NewSocket(type) ==
    [type |-> type, bound |-> FALSE, connected |-> FALSE, listening |-> FALSE,
     local |-> NoEnd, peer |-> NoEnd, backlog |-> 0, queue |-> <<>>, est |-> <<>>]

Sockets(k) == UNION {{<<n, fd>> : fd \in DOMAIN k[n].sock} : n \in DOMAIN k}
Sock(k, s) == k[s[1]].sock[s[2]]
Listening(k) == {s \in Sockets(k) : Sock(k, s).listening}
Connected(k) == {s \in Sockets(k) : Sock(k, s).connected}

\* The order in which nested loops over processes and std::map visit sockets.
Earlier(s, t) == s[1] < t[1] \/ (s[1] = t[1] /\ s[2] < t[2])
FirstOf(S) == CHOOSE s \in S : \A t \in S \ {s} : Earlier(s, t)

-----------------------------------------------------------------------------
\* do_socket
Socket(p, type, nonblock) ==
    [Allocate(p, Fd("SOCKET", "RDWR", FALSE, nonblock)) EXCEPT
       !.sock = Put(@, NextFd(p.fds), NewSocket(type))]

\* do_bind
BindResults(p, fd, end) ==
    LET sock == p.sock[fd]
        clash == \E o \in DOMAIN p.sock \ {fd} :
                    /\ p.sock[o].bound /\ p.sock[o].type = sock.type
                    /\ Port(p.sock[o].local) = Port(end) /\ Port(end) # 0
                    /\ AnyAddr \in {Addr(end), Addr(p.sock[o].local)} \/ Addr(end) = Addr(p.sock[o].local)
    IN IF sock.bound \/ clash THEN {}
       ELSE {[p EXCEPT !.sock[fd].local = end, !.sock[fd].bound = TRUE]}

\* do_listen.  It does not look at sock.connected.
ListenResults(p, fd, backlog) ==
    IF p.sock[fd].type # "STREAM" \/ ~p.sock[fd].bound THEN {}
    ELSE {[p EXCEPT !.sock[fd].listening = TRUE, !.sock[fd].backlog = backlog]}

\* Mutant: only connections that were not accepted reserve their port.
SurvivingMutant(k, a, peer) ==
    UNION {{Port(c) : c \in {c \in DOMAIN Sock(k, s).est : Addr(c) = a /\ Sock(k, s).est[c].peer = peer}} :
             s \in Listening(k)}
\* The endpoints still in use towards peer from address a: a closed client
\* can leave an accepted or a pending connection behind (reciprocal_tuple,
\* pending_tuple).
Surviving(k, a, peer) ==
    {Port(Sock(k, s).peer) : s \in {s \in Connected(k) :
        /\ Sock(k, s).type = "STREAM" /\ Sock(k, s).local = peer /\ Addr(Sock(k, s).peer) = a}}
    \cup {Port(e[2]) : e \in {e \in UNION {{<<s, c>> : c \in DOMAIN Sock(k, s).est} : s \in Listening(k)} :
            LET c == Sock(k, e[1]).est[e[2]] IN Addr(c.local) = a /\ c.peer = peer}}

\* The ephemeral ports connect may take.
FreePorts(k, n, a, peer) ==
    FirstPort..(FirstPort + PortCount - 1)
      \ (Surviving(k, a, peer)
         \cup {Port(k[n].sock[o].local) : o \in {o \in DOMAIN k[n].sock : k[n].sock[o].bound}})

Listeners(k, peer) ==
    {s \in Listening(k) : Concrete(s[1], Sock(k, s).local) = peer}

\* do_connect; id names the new connection.
ConnectResults(k, n, fd, peer, id) ==
    LET sock == k[n].sock[fd]
        a == Addr(Concrete(n, sock.local))
        chosen == ~sock.bound \/ Port(sock.local) = 0
        free == FreePorts(k, n, a, peer)
        local == <<a, IF chosen THEN Min(free) ELSE Port(sock.local)>>
        l == CHOOSE l \in Listeners(k, peer) : TRUE
        Reused == ~chosen /\ Port(sock.local) \in Surviving(k, a, peer)
    IN IF \/ sock.type # "STREAM" \/ sock.connected \/ sock.listening
          \/ chosen /\ free = {}
          \/ Reused
          \/ Cardinality(Listeners(k, peer)) # 1
       THEN {}
       ELSE IF \/ Cardinality(DOMAIN Sock(k, l).est) >= Sock(k, l).backlog
               \/ local \in DOMAIN Sock(k, l).est
       THEN {}
       ELSE {[[k EXCEPT ![n].sock[fd].bound = TRUE, ![n].sock[fd].local = local,
                        ![n].sock[fd].connected = TRUE, ![n].sock[fd].peer = peer,
                        ![n].tcp = Put(@, fd, Conn(fd, local, peer, <<>>, id, "client", 0))]
               EXCEPT ![l[1]].sock[l[2]].queue = Append(@, local),
                      ![l[1]].sock[l[2]].est =
                           Put(@, local, Conn(fd, local, peer, <<>>, id, "server", 0))]}

\* do_accept, emu_accept4
AcceptBlocks(p, fd) == p.sock[fd].listening /\ p.sock[fd].queue = <<>>
Accept(p, fd, nonblock) ==
    LET key == Head(p.sock[fd].queue)
        conn == p.sock[fd].est[key]
        new == NextFd(p.fds)
    IN [Allocate(p, Fd("SOCKET", "RDONLY", FALSE, nonblock)) EXCEPT
          !.sock = Put([@ EXCEPT ![fd].queue = Tail(@), ![fd].est = Drop(@, key)], new,
                       [NewSocket("STREAM") EXCEPT !.bound = TRUE, !.connected = TRUE,
                                                   !.local = conn.peer, !.peer = conn.local]),
          !.tcp = Put(@, new, [conn EXCEPT !.fd = new, !.local = conn.peer, !.peer = conn.local])]

-----------------------------------------------------------------------------
\* do_send_buffer, do_close: the connected sockets of the other side, and the
\* listeners that still hold the connection.
PeerSockets(k, local, peer) ==
    {s \in Connected(k) : /\ Concrete(s[1], Sock(k, s).local) = peer
                          /\ Sock(k, s).peer = local /\ s[2] \in DOMAIN k[s[1]].tcp}
PeerPending(k, local, peer) ==
    {s \in Listening(k) : local \in DOMAIN Sock(k, s).est /\ Sock(k, s).est[local].peer = peer}

Queue(k, s, chunk) == [k EXCEPT ![s[1]].tcp[s[2]].buf = Append(@, chunk)]
QueuePending(k, s, local, chunk) == [k EXCEPT ![s[1]].sock[s[2]].est[local].buf = Append(@, chunk)]

\* do_send, do_send_buffer: processes in order, an accepted socket of a
\* process before its listeners; otherwise ECONNRESET.
SendResults(k, n, fd, data) ==
    LET local == k[n].sock[fd].local
        peer == k[n].sock[fd].peer
        accepted == PeerSockets(k, local, peer)
        pending == PeerPending(k, local, peer)
        first == FirstOf(accepted)
        wait == FirstOf(pending)
    IN IF ~k[n].sock[fd].connected \/ data = <<>> \/ accepted \cup pending = {} THEN {}
       ELSE IF accepted # {} /\ (pending = {} \/ first[1] <= wait[1])
       THEN {Queue(k, first, data)} ELSE {QueuePending(k, wait, local, data)}

\* do_recv: at most one chunk; the end-of-file mark stays.
RecvBlocks(p, fd) == p.sock[fd].connected /\ p.tcp[fd].buf = <<>>
Recv(p, fd, count) ==
    IF ~p.sock[fd].connected \/ p.tcp[fd].buf = <<>> THEN p
    ELSE LET chunk == Head(p.tcp[fd].buf)
             n == IF count < Len(chunk) THEN count ELSE Len(chunk)
         IN [p EXCEPT !.tcp[fd].got = @ + n,
                      !.tcp[fd].buf = IF chunk = <<>> THEN @
                                      ELSE IF n < Len(chunk) THEN <<SubSeq(chunk, n + 1, Len(chunk))>> \o Tail(@)
                                      ELSE Tail(@)]

\* forget_fd
Forget(p, fd) == [p EXCEPT !.epoll = [e \in DOMAIN @ |-> Drop(@[e], fd)]]

\* do_close: end-of-file for every listener that holds the connection and for
\* the first matching socket of every process.
SocketClose(k, n, fd) ==
    LET sock == k[n].sock[fd]
        local == Concrete(n, sock.local)
        pending == PeerPending(k, local, sock.peer)
        firsts == {s \in PeerSockets(k, local, sock.peer) :
                      \A t \in PeerSockets(k, local, sock.peer) : t[1] = s[1] => t[2] >= s[2]}
        told == [m \in DOMAIN k |-> [k[m] EXCEPT
                   !.sock = [o \in DOMAIN @ |-> IF <<m, o>> \in pending
                                THEN [@[o] EXCEPT !.est[local].buf = Append(@, <<>>)] ELSE @[o]],
                   !.tcp = [o \in DOMAIN @ |-> IF <<m, o>> \in firsts
                                THEN [@[o] EXCEPT !.buf = Append(@, <<>>)] ELSE @[o]]]]
        after == IF sock.connected /\ sock.type = "STREAM" THEN told ELSE k
    IN [after EXCEPT ![n] = Release(Forget([@ EXCEPT !.udp = Drop(@, fd), !.tcp = Drop(@, fd),
                                                     !.sock = Drop(@, fd)], fd), fd)]

-----------------------------------------------------------------------------
\* do_sendto on a datagram socket, deliver_udp_datagram: a full queue drops
\* the datagram and takes one from the budget; without a receiver it is lost.
Receivers(k, dest) ==
    {fd \in DOMAIN k[Addr(dest)].sock :
        LET s == k[Addr(dest)].sock[fd] IN
        s.type = "DGRAM" /\ s.bound /\ Port(s.local) = Port(dest) /\ Addr(s.local) \in {AnyAddr, Addr(dest)}}
\* Ghosts: the datagrams addressed to a queue are numbered from 1; arrived
\* lists those that were received, in the order of their reception.
NoMail == [queue |-> <<>>, sent |-> 0, arrived |-> <<>>]
Mail(p, fd) == IF fd \in DOMAIN p.udp THEN p.udp[fd] ELSE NoMail
UdpQueue(p, fd) == Mail(p, fd).queue
Overflows(k, dest) ==
    Receivers(k, dest) # {} /\ Len(UdpQueue(k[Addr(dest)], Min(Receivers(k, dest)))) >= MaxUdp
SendTo(k, dest) ==
    IF Receivers(k, dest) = {} THEN k
    ELSE LET to == Min(Receivers(k, dest))
             mail == [Mail(k[Addr(dest)], to) EXCEPT !.sent = @ + 1]
         IN [k EXCEPT ![Addr(dest)].udp = Put(@, to,
                IF Overflows(k, dest) THEN mail ELSE [mail EXCEPT !.queue = Append(@, mail.sent)])]

\* do_recvfrom_with_choice: choice 1 takes the second datagram, or postpones
\* a single one (EAGAIN).
RecvFromBlocks(p, fd, choice) ==
    UdpQueue(p, fd) = <<>> \/ (choice = 1 /\ Len(UdpQueue(p, fd)) = 1)
RecvFrom(p, fd, choice) ==
    IF RecvFromBlocks(p, fd, choice) THEN p
    ELSE [p EXCEPT !.udp[fd].queue = RemoveAt(@, choice + 1),
                   !.udp[fd].arrived = Append(@, UdpQueue(p, fd)[choice + 1])]

-----------------------------------------------------------------------------
\* do_epoll_create1, do_epoll_ctl, do_epoll_close
EpollCreate(p) ==
    [Allocate(p, Fd("EPOLL", "RDWR", FALSE, FALSE)) EXCEPT !.epoll = Put(@, NextFd(p.fds), <<>>)]
EpollCtlResults(p, epfd, op, fd, events) ==
    IF \/ TypeOf(p, fd) \notin {"SOCKET", "PIPE"}
       \/ (op = "ADD") = (fd \in DOMAIN p.epoll[epfd])
    THEN {}
    ELSE {[p EXCEPT !.epoll[epfd] = IF op = "DEL" THEN Drop(@, fd) ELSE Put(@, fd, events)]}
EpollClose(p, fd) == Release(Forget([p EXCEPT !.epoll = Drop(@, fd)], fd), fd)

\* ready_events of a socket.
SocketEvents(p, fd) ==
    LET sock == p.sock[fd]
        In(c) == IF c THEN {"IN"} ELSE {}
    IN IF sock.type = "DGRAM" THEN In(UdpQueue(p, fd) # <<>>) \cup {"OUT"}
       ELSE IF sock.listening THEN In(sock.queue # <<>>)
       ELSE IF sock.connected /\ fd \in DOMAIN p.tcp
       THEN In(p.tcp[fd].buf # <<>>) \cup {"OUT"}
            \cup (IF p.tcp[fd].buf # <<>> /\ Last(p.tcp[fd].buf) = <<>> THEN {"RDHUP"} ELSE {})
       ELSE {}

=============================================================================
