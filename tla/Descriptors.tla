--------------------------- MODULE Descriptors ---------------------------
(***************************************************************************)
(* The descriptor table of one traced process (subsys/fs/fd_manager.cpp).  *)
(* The state of the emulated kernel for one process is a record p whose    *)
(* field p.fds is this table; FileSystem and Network add the resources the *)
(* descriptors name.  An operator that answers an error, or throws and so  *)
(* abandons the branch, gives no successor: operations that can fail are   *)
(* written as sets of successors, empty when they change nothing.          *)
(***************************************************************************)
EXTENDS Integers, Sequences, FiniteSets, SequencesExt, FiniteSetsExt, Functions

\* FdType and the status flags the model tells apart (O_ACCMODE, O_APPEND
\* and O_NONBLOCK); FD_CLOEXEC has no effect without exec.
Fd(type, acc, append, nonblock) ==
    [type |-> type, acc |-> acc, append |-> append, nonblock |-> nonblock]

\* FdManager::FdManager: the three standard streams.
StandardFds ==
    [fd \in 0..2 |-> Fd("STDIO", IF fd = 0 THEN "RDONLY" ELSE "WRONLY", FALSE, FALSE)]

\* get_next_fd: the lowest free number.
NextFd(fds) == Min(0..Cardinality(DOMAIN fds) \ DOMAIN fds)

Allocated(p, fd) == fd \in DOMAIN p.fds
TypeOf(p, fd) == IF Allocated(p, fd) THEN p.fds[fd].type ELSE "UNKNOWN"

Put(f, x, v) == [y \in DOMAIN f \cup {x} |-> IF y = x THEN v ELSE f[y]]
Drop(f, x) == Restrict(f, DOMAIN f \ {x})

Allocate(p, entry) == [p EXCEPT !.fds = Put(@, NextFd(@), entry)]
Release(p, fd) == [p EXCEPT !.fds = Drop(@, fd)]

\* do_fcntl(F_SETFL), ioctl(FIONBIO): only O_APPEND and O_NONBLOCK change.
SetFl(p, fd, append, nonblock) ==
    [p EXCEPT !.fds[fd].append = append, !.fds[fd].nonblock = nonblock]

=============================================================================
