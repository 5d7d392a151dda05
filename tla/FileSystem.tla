---------------------------- MODULE FileSystem ----------------------------
(***************************************************************************)
(* The virtual file system of one traced process (subsys/fs/fsstate.cpp):  *)
(* a tree of directories, files and symbolic links, the open file          *)
(* descriptions, private file mappings (core/syscall/dispatcher.cpp) and   *)
(* pipes.                                                                  *)
(*                                                                         *)
(* A path is the sequence of its names; the root is the empty sequence.  A *)
(* path as a program writes it is a record: whether it is absolute, and    *)
(* its parts, which may be ".", ".." and a last "" for a trailing slash.   *)
(* Modes, times and descriptor-relative lookups of links are left out: no  *)
(* state change depends on them in the profile the tracer supports.        *)
(*                                                                         *)
(* Ghosts: node.obj and description.obj name the object from its creation, *)
(* p.mem holds what the process finds in the pages it mapped.              *)
(***************************************************************************)
EXTENDS Descriptors

CONSTANTS
    LinkLimit,     \* 40 links in one walk: ELOOP
    PageBytes,     \* 4096 bytes in a page
    MaxGrowth,     \* maximum_dense_growth of one ftruncate
    PipeCapacity,  \* pipe_capacity, 65536 bytes
    PipeAtomic     \* pipe_atomic_limit, 4096 bytes

Root == <<>>
NoPath == <<"">>   \* the walk failed
NoTarget == [abs |-> FALSE, parts |-> <<>>]
Ino(dom, n, at) == [dom |-> dom, n |-> n, at |-> at]
NoIno == Ino("none", 0, <<>>)
InitialIno(path) == Ino("initial", 0, path)
GuestIno(n) == Ino("guest", n, <<>>)

VNode(kind, content, target, ino, obj) ==
    [kind |-> kind, content |-> content, target |-> target, ino |-> ino, obj |-> obj]

Parent(path) == IF path = Root THEN Root ELSE Front(path)
IsDir(p, path) == path \in DOMAIN p.tree /\ p.tree[path].kind = "dir"
IsLink(p, path) == path \in DOMAIN p.tree /\ p.tree[path].kind = "link"
IsFile(p, path) == path \in DOMAIN p.tree /\ p.tree[path].kind = "file"

\* The lambda prepend: a trailing slash only counts after the last part.
Prepend(parts, rest) ==
    IF rest # <<>> /\ parts # <<>> /\ Last(parts) = ""
    THEN Front(parts) \o rest ELSE parts \o rest

RECURSIVE Walk(_, _, _, _, _, _)
Walk(p, current, rest, links, follow, creating) ==
    IF rest = <<>> THEN current
    ELSE IF ~IsDir(p, current) \/ (creating /\ Len(rest) = 2 /\ rest[2] = "") THEN NoPath
    ELSE LET part == Head(rest)
             more == Tail(rest)
             next == Append(current, part)
             target == p.tree[next].target
         IN CASE part \in {"", "."} -> Walk(p, current, more, links, follow, creating)
              [] part = ".." -> Walk(p, Parent(current), more, links, follow, creating)
              [] part \notin {"", ".", ".."} /\ IsLink(p, next) /\ (more # <<>> \/ follow) ->
                    IF links = LinkLimit \/ target.parts = <<>> THEN NoPath
                    ELSE Walk(p, IF target.abs THEN Root ELSE current,
                              Prepend(target.parts, more), links + 1, follow, creating)
              [] OTHER -> Walk(p, next, more, links, follow, creating)

AtCwd == -100

\* resolve_path_checked
ResolvePath(p, dirfd, name, follow, creating) ==
    IF name.abs THEN Walk(p, Root, name.parts, 0, follow, creating)
    ELSE IF name.parts = <<>> THEN NoPath
    ELSE IF dirfd = AtCwd THEN Walk(p, p.cwd, name.parts, 0, follow, creating)
    ELSE IF dirfd \notin DOMAIN p.open THEN NoPath
    ELSE Walk(p, p.open[dirfd].path, name.parts, 0, follow, creating)

Mapped(p, path) == \E s \in DOMAIN p.maps : p.maps[s].path = path

-----------------------------------------------------------------------------
\* The captured tree: what config.cpp builds before a process starts.  host is
\* the host's tree.  A capture that throws gives NoTree.
NoTree == <<>>
Chain(path) == {SubSeq(path, 1, i) : i \in 0..Len(path)}
Captured(node, path) == VNode(node.kind, node.content, node.target, NoIno, InitialIno(path))
NewDir(path) == VNode("dir", <<>>, NoTarget, NoIno, InitialIno(path))

\* FileSystemState::FileSystemState: the root, and the standard streams under
\* names no path can spell.
Stdio(i) == <<CASE i = 0 -> "#0" [] i = 1 -> "#1" [] i = 2 -> "#2">>
FreshTree == [q \in {Root} \cup {Stdio(i) : i \in 0..2} |->
                IF q = Root THEN NewDir(q) ELSE VNode("chr", <<>>, NoTarget, NoIno, InitialIno(q))]

\* ensure_dir_exists
EnsureDirExists(tree, path) ==
    IF \E q \in Chain(path) \cap DOMAIN tree : tree[q].kind # "dir" THEN NoTree
    ELSE [q \in DOMAIN tree \cup Chain(path) |-> IF q \in DOMAIN tree THEN tree[q] ELSE NewDir(q)]

\* resolve_path: dots vanish by spelling, links are not looked at.
Lexical(parts) ==
    FoldLeft(LAMBDA out, part : CASE part \in {"", "."} -> out
                                  [] part = ".." -> IF out = <<>> THEN out ELSE Front(out)
                                  [] OTHER -> Append(out, part), <<>>, parts)

\* init_from_mappings: each mapping lays a host subtree over the target path;
\* what an earlier one put below a replaced object stays.
Overlay(tree, host, m) ==
    LET target == Lexical(m.target)
        under == {h \in DOMAIN host : IsPrefix(m.host, h)}
        Place(h) == target \o SubSeq(h, Len(m.host) + 1, Len(h))
        base == IF target = Root THEN tree ELSE EnsureDirExists(tree, Front(target))
    IN IF NoTree \in {tree, base} \/ m.host \notin DOMAIN host
          \/ (target = Root /\ host[m.host].kind # "dir") THEN NoTree
       ELSE [q \in DOMAIN base \cup {Place(h) : h \in under} |->
               IF \E h \in under : Place(h) = q
               THEN Captured(host[CHOOSE h \in under : Place(h) = q], q) ELSE base[q]]
InitFromMappings(host, maps) == FoldLeft(LAMBDA tree, m : Overlay(tree, host, m), FreshTree, maps)

\* fs::canonical on the host.
Canonical(host, parts) == Walk([tree |-> host], Root, parts, 0, TRUE, FALSE)
\* lstat on the host: the links before the last name are followed.
Lstat(host, path) ==
    LET at == Walk([tree |-> host], Root, path, 0, FALSE, FALSE) IN
    IF at \in DOMAIN host THEN host[at] ELSE [kind |-> "none"]

\* The loop of capture_executable: the links on the way to the executable, their
\* directories and the executable, none of which may contradict the mappings.
RECURSIVE CaptureFrom(_, _, _, _)
CaptureFrom(tree, host, path, depth) ==
    LET node == Lstat(host, path)
        Differs(q, there) == \/ tree[q].kind # there.kind
                             \/ there.kind = "link" /\ tree[q].target # there.target
                             \/ q = path /\ tree[q].content # there.content
        next == (IF node.target.abs THEN <<>> ELSE Parent(path)) \o node.target.parts
    IN IF \/ tree = NoTree \/ depth = LinkLimit \/ \E q \in Chain(path) : Lstat(host, q).kind = "none"
          \/ \E q \in Chain(path) \cap DOMAIN tree : Differs(q, Lstat(host, q)) THEN NoTree
       ELSE LET more == [q \in DOMAIN tree \cup Chain(path) |->
                           IF q \in DOMAIN tree THEN tree[q] ELSE Captured(Lstat(host, q), q)]
            IN CASE node.kind = "link" /\ Canonical(host, next) = Canonical(host, Lexical(next)) ->
                      CaptureFrom(more, host, Lexical(next), depth + 1)
                 [] node.kind = "file" /\ path # Canonical(host, path) ->
                      CaptureFrom(more, host, Canonical(host, path), depth + 1)
                 [] node.kind = "file" /\ path = Canonical(host, path) -> more
                 [] OTHER -> NoTree

\* capture_executable
ExeLink == <<"proc", "self", "exe">>
CaptureExecutable(mapped, host, exe) ==
    LET tree == IF Canonical(host, Lexical(exe)) = Canonical(host, exe)
                THEN CaptureFrom(mapped, host, Lexical(exe), 0) ELSE NoTree
        proc == EnsureDirExists(tree, Parent(ExeLink))
    IN IF NoTree \in {tree, proc} \/ ExeLink \in DOMAIN tree THEN NoTree
       ELSE Put(proc, ExeLink, VNode("link", <<>>, [abs |-> TRUE, parts |-> Canonical(host, exe)],
                                     NoIno, InitialIno(ExeLink)))
Exe(p) == p.tree[ExeLink].target.parts

-----------------------------------------------------------------------------
\* do_openat.  fl: acc, creat, excl, trunc, nofollow, directory, append.
OpenResults(p, dirfd, name, fl) ==
    LET exclusive == fl.creat /\ fl.excl
        path == ResolvePath(p, dirfd, name, ~exclusive /\ ~fl.nofollow, fl.creat)
        exists == path \in DOMAIN p.tree
        node == IF exists THEN p.tree[path]
                ELSE VNode("file", <<>>, NoTarget, GuestIno(p.next), GuestIno(p.next))
        opened == IF fl.trunc /\ fl.acc # "RDONLY"
                  THEN [node EXCEPT !.content = <<>>] ELSE node
        refused == \/ path = NoPath
                   \/ fl.creat /\ fl.directory
                   \/ exists /\ \/ node.kind = "link" \/ exclusive
                                \/ fl.directory /\ node.kind # "dir"
                                \/ node.kind = "dir" /\ (fl.creat \/ fl.acc # "RDONLY")
                   \/ ~exists /\ (fl.directory \/ ~fl.creat)
                   \/ path = Exe(p) /\ (fl.acc # "RDONLY" \/ fl.trunc)
                   \/ fl.trunc /\ Mapped(p, path)
    IN IF refused THEN {}
       ELSE {[Allocate(p, Fd("FILE", fl.acc, fl.append, FALSE)) EXCEPT
                !.tree = Put(@, path, opened),
                !.next = IF exists THEN @ ELSE @ + 1,
                !.open = Put(@, NextFd(p.fds), [path |-> path, offset |-> 0, obj |-> node.obj])]}

Content(p, fd) == p.tree[p.open[fd].path].content
Zeros(n) == [i \in 1..n |-> 0]
MinOf(a, b) == IF a < b THEN a ELSE b

\* do_read: the bytes under the offset, which moves past them.
FileRead(p, fd, count) ==
    LET left == Len(Content(p, fd)) - p.open[fd].offset IN
    IF \/ p.tree[p.open[fd].path].kind = "dir" \/ p.fds[fd].acc = "WRONLY" \/ left <= 0
    THEN {} ELSE {[p EXCEPT !.open[fd].offset = @ + MinOf(count, left)]}

\* FileContent::write: a gap before the offset is filled with zeros.
Splice(content, at, data) ==
    LET end == MinOf(at, Len(content)) IN
    SubSeq(content, 1, end) \o Zeros(at - end) \o data
        \o SubSeq(content, at + Len(data) + 1, Len(content))

\* do_write: streams and O_APPEND descriptors write at the end.
FileWrite(p, fd, data) ==
    LET path == p.open[fd].path
        at == IF p.fds[fd].append \/ p.fds[fd].type = "STDIO"
              THEN Len(Content(p, fd)) ELSE p.open[fd].offset
    IN IF p.fds[fd].acc = "RDONLY" \/ data = <<>> \/ Mapped(p, path) THEN {}
       ELSE {[p EXCEPT !.tree[path].content = Splice(@, at, data),
                       !.open[fd].offset = at + Len(data)]}

\* do_ftruncate
FileTruncate(p, fd, size) ==
    LET path == p.open[fd].path
        have == Len(Content(p, fd))
    IN IF \/ p.fds[fd].type # "FILE" \/ ~IsFile(p, path) \/ p.fds[fd].acc = "RDONLY"
          \/ Mapped(p, path) \/ size - have > MaxGrowth
       THEN {}
       ELSE {[p EXCEPT !.tree[path].content = SubSeq(@, 1, MinOf(size, have)) \o Zeros(size - have)]}

\* do_lseek with the offset it computes from whence.
FileSeek(p, fd, whence, delta) ==
    LET path == p.open[fd].path
        base == CASE whence = "SET" -> 0
                  [] whence = "CUR" -> p.open[fd].offset
                  [] whence = "END" -> Len(Content(p, fd))
    IN IF \/ p.fds[fd].type = "STDIO" \/ base + delta < 0
          \/ whence = "END" /\ p.tree[path].kind = "dir"
       THEN {} ELSE {[p EXCEPT !.open[fd].offset = base + delta]}

\* do_getdents64: the offset of a directory counts the entries already given,
\* "." and ".." first; count is how many records fit.  The nodes of the standard
\* streams are under no directory.
Entries(p, path) ==
    2 + Cardinality({q \in DOMAIN p.tree \ ({Root} \cup {Stdio(i) : i \in 0..2}) : Front(q) = path})
GetDents(p, fd, count) ==
    LET left == Entries(p, p.open[fd].path) - p.open[fd].offset IN
    IF ~IsDir(p, p.open[fd].path) \/ left <= 0 THEN {}
    ELSE {[p EXCEPT !.open[fd].offset = @ + MinOf(count, left)]}

\* do_close
FileClose(p, fd) == [Release(p, fd) EXCEPT !.open = Drop(@, fd)]

\* do_chdir
Chdir(p, name) ==
    LET path == ResolvePath(p, AtCwd, name, TRUE, FALSE) IN
    IF IsDir(p, path) THEN {[p EXCEPT !.cwd = path]} ELSE {}

-----------------------------------------------------------------------------
\* resolve_namespace_leaf: only the way to the parent follows links.  Roots,
\* dots and trailing slashes change nothing (EISDIR, EBUSY, ENOTDIR).
NamespaceLeaf(p, dirfd, name) ==
    LET parent == ResolvePath(p, dirfd,
                      [name EXCEPT !.parts = IF name.abs \/ Len(@) > 1 THEN Front(@) \o <<"">>
                                             ELSE <<".", "">>], TRUE, FALSE)
    IN IF \/ name.parts = <<>> \/ Last(name.parts) \in {"", ".", ".."}
          \/ parent = NoPath \/ ~IsDir(p, parent)
       THEN NoPath ELSE Append(parent, Last(name.parts))

\* Mutant: open objects may be renamed and unlinked.
MutableMutant(p, path) == path \notin {ExeLink, Exe(p)} /\ ~Mapped(p, path)
\* require_namespace_mutable
Mutable(p, path) ==
    /\ path \notin {ExeLink, Exe(p)}
    /\ \A fd \in DOMAIN p.open : p.open[fd].path # path
    /\ ~Mapped(p, path)

Leaf(p, path) == IsFile(p, path) \/ IsLink(p, path)

\* do_unlinkat
UnlinkResults(p, dirfd, name) ==
    LET path == NamespaceLeaf(p, dirfd, name) IN
    IF Leaf(p, path) /\ Mutable(p, path) THEN {[p EXCEPT !.tree = Drop(@, path)]} ELSE {}

\* do_renameat2.  An object keeps the inode number it was born with: a path
\* number while it is at that path, an override everywhere else.
InodeOf(p, path) == IF p.tree[path].ino = NoIno THEN InitialIno(path) ELSE p.tree[path].ino
RenameResults(p, olddirfd, oldname, newdirfd, newname, noreplace) ==
    LET old == NamespaceLeaf(p, olddirfd, oldname)
        new == NamespaceLeaf(p, newdirfd, newname)
        ino == IF InodeOf(p, old) = InitialIno(new) THEN NoIno ELSE InodeOf(p, old)
    IN IF \/ ~Leaf(p, old) \/ new = NoPath \/ old = new
          \/ new \in DOMAIN p.tree /\ (noreplace \/ IsDir(p, new))
          \/ ~Mutable(p, old) \/ ~Mutable(p, new)
       THEN {}
       ELSE {[p EXCEPT !.tree = Put(Drop(@, old), new, [@[old] EXCEPT !.ino = ino])]}

-----------------------------------------------------------------------------
\* Questions that change nothing.  The answer of stat is the inode number.

\* emu_vfs_statat, do_stat: the resolved path is walked once more, from the root.
Stat(p, dirfd, name, follow) ==
    LET first == ResolvePath(p, dirfd, name, follow, FALSE)
        path == IF first = NoPath THEN NoPath
                ELSE ResolvePath(p, AtCwd, [abs |-> TRUE, parts |-> first], follow, FALSE)
    IN IF path \in DOMAIN p.tree /\ (follow \/ path # <<"proc", "self">>) THEN InodeOf(p, path) ELSE NoIno
\* do_fstat: no path is walked.
Fstat(p, fd) == InodeOf(p, p.open[fd].path)
\* do_access: in the read-only storage only directories may be written.
Access(p, dirfd, name, follow, write) ==
    LET path == ResolvePath(p, dirfd, name, follow, FALSE) IN
    path \in DOMAIN p.tree /\ (write => IsDir(p, path))
\* emu_vfs_readlinkat, do_readlink
Readlink(p, dirfd, name) ==
    LET first == ResolvePath(p, dirfd, name, FALSE, FALSE)
        path == IF first = NoPath THEN NoPath
                ELSE ResolvePath(p, AtCwd, [abs |-> TRUE, parts |-> first], FALSE, FALSE)
    IN IF IsLink(p, path) THEN p.tree[path].target ELSE NoTarget
\* emu_getcwd
Getcwd(p) == [abs |-> TRUE, parts |-> p.cwd]

\* validate_inode_state
ValidInodes(p) ==
    /\ \A q \in DOMAIN p.tree : p.tree[q].ino # NoIno =>
         /\ p.tree[q].ino # InitialIno(q) /\ p.tree[q].kind \in {"file", "link"}
         /\ p.tree[q].ino.dom = "guest" => p.tree[q].ino.n < p.next
    /\ Cardinality({InodeOf(p, q) : q \in DOMAIN p.tree}) = Cardinality(DOMAIN p.tree)
\* FileSystemState::serialize
ValidMappings(p) ==
    \A s \in DOMAIN p.maps :
        /\ s < p.maps[s].end /\ IsFile(p, p.maps[s].path)
        /\ ResolvePath(p, AtCwd, [abs |-> TRUE, parts |-> p.maps[s].path], TRUE, FALSE) = p.maps[s].path
        /\ \A t \in DOMAIN p.maps : s < t =>
              p.maps[s].end < t \/ (p.maps[s].end = t /\ p.maps[s].path # p.maps[t].path)

-----------------------------------------------------------------------------
\* Mutant: what lies behind the removed range is forgotten.
RemoveMappingMutant(maps, from, to) ==
    [t \in {s \in DOMAIN maps : s < from \/ s >= to} |->
        IF t < from /\ maps[t].end > from THEN [maps[t] EXCEPT !.end = from] ELSE maps[t]]
\* remove_virtual_file_mapping: cut [from, to) out of every recorded extent.
RemoveMapping(maps, from, to) ==
    LET Cut(s) == maps[s].end > from /\ s < to
        whole == {s \in DOMAIN maps : ~Cut(s)}
        left == {s \in DOMAIN maps : Cut(s) /\ s < from}
        right == {s \in DOMAIN maps : Cut(s) /\ maps[s].end > to}
    IN IF from >= to THEN maps
       ELSE [t \in whole \cup left \cup (IF right = {} THEN {} ELSE {to}) |->
               IF t \in whole THEN maps[t]
               ELSE IF t \in left THEN [maps[t] EXCEPT !.end = from]
               ELSE maps[CHOOSE s \in right : TRUE]]

\* add_virtual_file_mapping: a new extent joins equal neighbours.
AddMapping(maps, from, to, path) ==
    LET rest == RemoveMapping(maps, from, to)
        before == {s \in DOMAIN rest : rest[s].end = from /\ rest[s].path = path}
        after == {s \in DOMAIN rest : s = to /\ rest[s].path = path}
    IN Put(Restrict(rest, DOMAIN rest \ (before \cup after)),
           IF before = {} THEN from ELSE CHOOSE s \in before : TRUE,
           [end |-> IF after = {} THEN to ELSE rest[to].end, path |-> path])

PagesOf(content) == (Len(content) + PageBytes - 1) \div PageBytes
PageOf(content, i) ==
    [b \in 1..PageBytes |-> LET j == i * PageBytes + b IN IF j <= Len(content) THEN content[j] ELSE 0]

\* mmap of a private file extent: pages [at, at + count) of the process, pages
\* [off, off + count) of the file.
MapFile(p, fd, at, count, off) ==
    LET path == p.open[fd].path IN
    IF \/ p.fds[fd].type # "FILE" \/ p.fds[fd].acc = "WRONLY" \/ count = 0
       \/ off + count > PagesOf(Content(p, fd)) \/ ~IsFile(p, path)
       \/ ResolvePath(p, AtCwd, [abs |-> TRUE, parts |-> path], TRUE, FALSE) # path
    THEN {}
    ELSE {[p EXCEPT
             !.maps = AddMapping(RemoveMapping(@, at, at + count), at, at + count, path),
             !.mem = [g \in DOMAIN @ \cup at..(at + count - 1) |->
                        IF g \in at..(at + count - 1)
                        THEN [obj |-> p.tree[path].obj, page |-> off + g - at,
                              bytes |-> PageOf(Content(p, fd), off + g - at)]
                        ELSE @[g]]]}

\* munmap, an anonymous mmap over the range, a shrinking brk.
Unmap(p, at, count) ==
    [p EXCEPT !.maps = RemoveMapping(@, at, at + count),
              !.mem = Restrict(@, DOMAIN @ \ at..(at + count - 1))]

-----------------------------------------------------------------------------
\* Pipes: p.pipes holds the number of bytes in each and which ends are
\* closed, p.ends the pipe of a descriptor, negative for its write end.
PipeOf(p, fd) == IF p.ends[fd] > 0 THEN p.ends[fd] ELSE -p.ends[fd]

\* do_pipe: the lowest free number, the read end before the write end.
MakePipe(p, nonblock) ==
    LET id == Min(1..(Cardinality(DOMAIN p.pipes) + 1) \ DOMAIN p.pipes)
        r == NextFd(p.fds)
        q == Allocate(p, Fd("PIPE", "RDONLY", FALSE, nonblock))
        w == NextFd(q.fds)
    IN [Allocate(q, Fd("PIPE", "WRONLY", FALSE, nonblock)) EXCEPT
          !.pipes = Put(@, id, [bytes |-> 0, read_closed |-> FALSE, write_closed |-> FALSE]),
          !.ends = Put(Put(@, r, id), w, -id)]

\* do_pipe_close: the pipe goes with its second end.
PipeClose(p, fd) ==
    LET id == PipeOf(p, fd)
        pipe == IF p.ends[fd] > 0 THEN [p.pipes[id] EXCEPT !.read_closed = TRUE]
                ELSE [p.pipes[id] EXCEPT !.write_closed = TRUE]
    IN [Release(p, fd) EXCEPT
          !.ends = Drop(@, fd),
          !.pipes = IF pipe.read_closed /\ pipe.write_closed THEN Drop(@, id) ELSE Put(@, id, pipe)]

\* The answers of do_pipe_read: EAGAIN while it is empty and can be written.
PipeReadBlocks(p, fd) ==
    p.ends[fd] > 0 /\ p.pipes[PipeOf(p, fd)].bytes = 0 /\ ~p.pipes[PipeOf(p, fd)].write_closed
PipeRead(p, fd, count) ==
    IF p.ends[fd] < 0 THEN p
    ELSE [p EXCEPT !.pipes[PipeOf(p, fd)].bytes = @ - MinOf(count, @)]

\* The answers of do_pipe_write: EAGAIN when nothing fits, or not all of a
\* write that must be atomic; a larger blocking write that does not fit throws.
PipeRoom(p, fd) == PipeCapacity - p.pipes[PipeOf(p, fd)].bytes
PipeWriteThrows(p, fd, count) ==
    /\ p.ends[fd] < 0 /\ ~p.pipes[PipeOf(p, fd)].read_closed
    /\ count > PipeAtomic /\ count > PipeRoom(p, fd) /\ ~p.fds[fd].nonblock
\* Mutant: a short write is split.
PipeWriteBlocksMutant(p, fd, count) ==
    p.ends[fd] < 0 /\ ~p.pipes[PipeOf(p, fd)].read_closed /\ PipeRoom(p, fd) = 0
PipeWriteBlocks(p, fd, count) ==
    /\ p.ends[fd] < 0 /\ ~p.pipes[PipeOf(p, fd)].read_closed
    /\ PipeRoom(p, fd) = 0 \/ (count <= PipeAtomic /\ count > PipeRoom(p, fd))
PipeWrite(p, fd, count) ==
    IF p.ends[fd] > 0 \/ p.pipes[PipeOf(p, fd)].read_closed THEN p
    ELSE [p EXCEPT !.pipes[PipeOf(p, fd)].bytes = @ + MinOf(count, PipeRoom(p, fd))]

=============================================================================
