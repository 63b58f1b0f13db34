----------------------------- MODULE Processes -----------------------------
(***************************************************************************)
(* Processes and threads on a Linux system, running system calls on the    *)
(* directory under test, with strace attached: the environment of          *)
(* strace.rs.  A call takes effect in one step; its line, with the paths   *)
(* of its descriptors, is printed in a later one.                          *)
(*                                                                         *)
(* A path is absolute: <<>> is the root under test, and a path whose first *)
(* name is 0 is outside of it.                                             *)
(***************************************************************************)
EXTENDS Kernel

CONSTANTS
    Pids, Main,     \* processes and threads; the first one
    Fds,            \* descriptor numbers
    Programs,       \* what they run: for each pid a sequence of sets of calls
    ChildFirst      \* a child's lines about descriptors it inherited may come
                    \* before the line of the clone that made it

Stdout == 1
Outside == <<0>>
Under(path) == path = <<>> \/ path[1] # 0

ASSUME ProcessesAssumption ==
    /\ Main \in Pids /\ Stdout \in Fds /\ Fds \subseteq Nat
    /\ 0 \notin Names /\ ChildFirst \in BOOLEAN

VARIABLES
    program,    \* the programs of this run
    at,         \* at[p]: how many calls of its program p has made
    task,       \* task[p]: whose descriptors and cwd p uses, NoPid before it exists
    fdt,        \* fdt[t]: the descriptor table of t, numbers into desc
    desc,       \* the open file descriptions
    kcwd,       \* kcwd[t]: the working directory of t
    real,       \* the directory on disk
    synced,     \* synced[i]: the content of file i when it was last synced
    line        \* line[p]: the line of the call p is in

kernel == <<program, at, task, fdt, desc, kcwd, real, synced>>

NoPid == 0
NoLine == [call |-> [name |-> "none"], path |-> Outside, ret |-> 0, uses |-> {}]

\* The command starts outside of the directory, with only stdout open (a pipe).
ProcessesInit(fs) ==
    /\ program \in Programs
    /\ at = [p \in Pids |-> 0]
    /\ task = [p \in Pids |-> IF p = Main THEN Main ELSE NoPid]
    /\ desc = <<[ino |-> NoIno, pos |-> 0, append |-> FALSE]>>
    /\ fdt = [p \in Pids |-> [f \in Fds |-> IF p = Main /\ f = Stdout THEN 1 ELSE 0]]
    /\ kcwd = [p \in Pids |-> NoIno]
    /\ real = fs
    /\ synced = [i \in DOMAIN fs |-> IF IsFile(fs, i) THEN Content(fs[i]) ELSE <<>>]
    /\ line = [p \in Pids |-> NoLine]

\* What /proc shows for a node: its path now; a deleted one is not in the root.
NameOf(ino) == IF ino = NoIno THEN Outside ELSE PathOf(real, ino, Outside)

Fdt(p) == fdt[task[p]]
IsOpen(p, fd) == Fdt(p)[fd] # 0
Desc(p, fd) == desc[Fdt(p)[fd]]
FdPath(p, fd) == IF IsOpen(p, fd) THEN NameOf(Desc(p, fd).ino) ELSE Outside
OnFile(p, fd) == IsOpen(p, fd) /\ IsFile(real, Desc(p, fd).ino)

\* An argument is a path, relative to the working directory or absolute.
KPath(p, arg) == IF arg.rel THEN NameOf(kcwd[task[p]]) \o arg.path ELSE arg.path

FdCalls == {"write", "pwrite", "read", "lseek", "ftruncate", "fsync", "dup",
            "sync_file_range", "fallocate"}
TableCalls == {"open", "close", "dup", "clone", "execve"}

\* The paths in the root that a call is about.
Uses(p, c) ==
    {q \in IF c.name \in FdCalls THEN {FdPath(p, c.fd)}
           ELSE IF c.name = "rename" THEN {KPath(p, c.from), KPath(p, c.to)}
           ELSE IF c.name = "sync" THEN {<<>>}
           ELSE IF c.name \in {"close", "clone", "execve"} THEN {}
           ELSE {KPath(p, c.path)} : Under(q)}

\* The call is done, and its line will have this descriptor path and result.
Done(p, c, ret) ==
    line' = [line EXCEPT ![p] =
        [call |-> c, path |-> IF c.name \in FdCalls THEN FdPath(p, c.fd) ELSE Outside,
         ret |-> ret, uses |-> Uses(p, c)]]

\* The lowest free descriptor.
Free(p) == {f \in Fds : ~IsOpen(p, f) /\ \A g \in Fds : g < f => IsOpen(p, g)}
Install(p, f, d) == fdt' = [fdt EXCEPT ![task[p]][f] = d]
Advance(p, fd, pos) == desc' = [desc EXCEPT ![Fdt(p)[fd]].pos = pos]

KOpen(p, c) ==
    LET path == KPath(p, c.path)
        ino  == Lookup(real, path)
    IN  /\ c.name = "open" /\ Under(path)
        /\ \/ /\ IsFile(real, ino)
              /\ real' = IF "trunc" \in c.flags THEN Sized(real, ino, 0) ELSE real
              /\ UNCHANGED synced
           \/ /\ IsDir(real, ino) /\ c.flags = {}
              /\ UNCHANGED <<real, synced>>
           \/ /\ "creat" \in c.flags /\ CanMake(real, path)
              /\ real' = Made(real, path, EmptyFile)
              /\ synced' = Append(synced, <<>>)
        /\ desc' = Append(desc, [ino |-> IF ino = NoIno THEN Len(real) + 1 ELSE ino, pos |-> 0,
                                 append |-> "append" \in c.flags])
        /\ \E f \in Free(p) : Install(p, f, Len(desc) + 1) /\ Done(p, c, f)
        /\ UNCHANGED <<task, kcwd>>

\* write, pwrite and fallocate; a descriptor outside the root swallows anything.
KWrite(p, c) ==
    LET d    == Desc(p, c.fd)
        from == IF c.name = "pwrite" THEN c.offset ELSE IF d.append THEN real[d.ino].len ELSE d.pos
    IN  /\ c.name \in {"write", "pwrite"} /\ IsOpen(p, c.fd)
        /\ \/ /\ d.ino = NoIno /\ c.name = "write"
              /\ UNCHANGED <<real, desc>>
           \/ /\ OnFile(p, c.fd)
              /\ real' = Wrote(real, d.ino, from, c.data)
              /\ IF c.name = "write" THEN Advance(p, c.fd, from + Len(c.data)) ELSE UNCHANGED desc
        /\ Done(p, c, Len(c.data))
        /\ UNCHANGED <<task, fdt, kcwd, synced>>

KRead(p, c) ==
    LET d == Desc(p, c.fd)
        n == IF d.pos + c.count <= real[d.ino].len THEN c.count
             ELSE IF d.pos < real[d.ino].len THEN real[d.ino].len - d.pos ELSE 0
    IN  /\ c.name = "read" /\ OnFile(p, c.fd)
        /\ Advance(p, c.fd, d.pos + n)
        /\ Done(p, c, n)
        /\ UNCHANGED <<task, fdt, kcwd, real, synced>>

KSeek(p, c) ==
    /\ c.name = "lseek" /\ OnFile(p, c.fd)
    /\ Advance(p, c.fd, c.pos)
    /\ Done(p, c, c.pos)
    /\ UNCHANGED <<task, fdt, kcwd, real, synced>>

\* close, and what execve closes.
KClose(p, c) ==
    /\ \/ c.name = "close" /\ IsOpen(p, c.fd) /\ Install(p, c.fd, 0)
       \/ /\ c.name = "execve"
          /\ fdt' = [fdt EXCEPT ![task[p]] = [f \in Fds |-> IF f \in c.closes THEN 0 ELSE @[f]]]
    /\ Done(p, c, 0)
    /\ UNCHANGED <<task, desc, kcwd, real, synced>>

\* dup (to the lowest free descriptor) and dup2.
KDup(p, c) ==
    /\ c.name = "dup" /\ IsOpen(p, c.fd)
    /\ \E f \in IF c.to = 0 THEN Free(p) ELSE {c.to} :
          Install(p, f, Fdt(p)[c.fd]) /\ Done(p, c, f)
    /\ UNCHANGED <<task, desc, kcwd, real, synced>>

\* ftruncate, truncate, and fallocate (which changes a file in its own ways).
KResize(p, c) ==
    LET ino == IF c.name = "truncate" THEN Lookup(real, KPath(p, c.path)) ELSE Desc(p, c.fd).ino
    IN  /\ \/ c.name \in {"ftruncate", "fallocate"} /\ OnFile(p, c.fd)
           \/ c.name = "truncate" /\ Under(KPath(p, c.path)) /\ IsFile(real, ino)
        /\ real' = Sized(real, ino, c.len)
        /\ Done(p, c, 0)
        /\ UNCHANGED <<task, fdt, desc, kcwd, synced>>

\* fsync, sync, and sync_file_range, which makes nothing durable.
KSync(p, c) ==
    /\ \/ c.name = "sync"
       \/ c.name \in {"fsync", "sync_file_range"} /\ IsOpen(p, c.fd) /\ Desc(p, c.fd).ino # NoIno
    /\ synced' = [i \in DOMAIN synced |->
                    IF IsFile(real, i) /\ (c.name = "sync" \/ (c.name = "fsync" /\ i = Desc(p, c.fd).ino))
                    THEN Content(real[i]) ELSE synced[i]]
    /\ Done(p, c, 0)
    /\ UNCHANGED <<task, fdt, desc, kcwd, real>>

\* rename within the root, out of it, and into it (of a file nobody knows).
KRename(p, c) ==
    LET from == KPath(p, c.from)
        to   == KPath(p, c.to)
    IN  /\ c.name = "rename"
        /\ \/ /\ Under(from) /\ Under(to) /\ CanMove(real, from, to)
              /\ real' = Moved(real, from, to)
              /\ UNCHANGED synced
           \/ /\ Under(from) /\ ~Under(to) /\ from # <<>> /\ Lookup(real, from) # NoIno
              /\ real' = Removed(real, from)
              /\ UNCHANGED synced
           \/ /\ ~Under(from) /\ Under(to) /\ CanMake(real, to)
              /\ real' = Made(real, to, File(<<1>>, 1))
              /\ synced' = Append(synced, <<>>)
        /\ Done(p, c, 0)
        /\ UNCHANGED <<task, fdt, desc, kcwd>>

KRemove(p, c) ==
    LET path == KPath(p, c.path)
    IN  /\ c.name \in {"unlink", "rmdir"} /\ Under(path)
        /\ IF c.name = "unlink" THEN CanUnlink(real, path) ELSE CanRmdir(real, path)
        /\ real' = Removed(real, path)
        /\ Done(p, c, 0)
        /\ UNCHANGED <<task, fdt, desc, kcwd, synced>>

KMkdir(p, c) ==
    LET path == KPath(p, c.path)
    IN  /\ c.name = "mkdir" /\ Under(path) /\ CanMake(real, path)
        /\ real' = Made(real, path, EmptyDir)
        /\ synced' = Append(synced, <<>>)
        /\ Done(p, c, 0)
        /\ UNCHANGED <<task, fdt, desc, kcwd>>

KChdir(p, c) ==
    LET path == KPath(p, c.path)
    IN  /\ c.name = "chdir" /\ Under(path) /\ IsDir(real, Lookup(real, path))
        /\ kcwd' = [kcwd EXCEPT ![task[p]] = Lookup(real, path)]
        /\ Done(p, c, 0)
        /\ UNCHANGED <<task, fdt, desc, real, synced>>

\* clone and fork: a thread shares its descriptors and cwd, a process copies them.
KClone(p, c) ==
    /\ c.name = "clone" /\ task[c.child] = NoPid
    /\ task' = [task EXCEPT ![c.child] = IF c.shared THEN task[p] ELSE c.child]
    /\ fdt' = [fdt EXCEPT ![c.child] = Fdt(p)]
    /\ kcwd' = [kcwd EXCEPT ![c.child] = kcwd[task[p]]]
    /\ Done(p, c, 0)
    /\ UNCHANGED <<desc, real, synced>>

SystemCall(p, c) ==
    \/ KOpen(p, c) \/ KWrite(p, c) \/ KRead(p, c) \/ KSeek(p, c) \/ KClose(p, c)
    \/ KDup(p, c) \/ KResize(p, c) \/ KSync(p, c) \/ KRename(p, c) \/ KRemove(p, c)
    \/ KMkdir(p, c) \/ KChdir(p, c) \/ KClone(p, c)

-----------------------------------------------------------------------------
(* What the reconstruction takes for granted about a workload *)

Busy == {p \in Pids : line[p] # NoLine}
Conflict(P, Q) == \E p \in P, q \in Q : p = q \/ Inside(p, q) \/ Inside(q, p)
Peers(p) == {q \in Pids \ {p} : task[q] = task[p]}

\* Calls that overlap are about different files, and in one table none of them
\* changes descriptors: their lines may come in either order.
Independent(p, c) ==
    \A q \in Busy :
        LET d == line[q].call
        IN  /\ ~Conflict(Uses(p, c), line[q].uses)
            /\ task[q] = task[p] =>
                  /\ c.name \in TableCalls => d.name \notin FdCalls \cup TableCalls
                  /\ d.name \in TableCalls => c.name \notin FdCalls

\* A child uses the files it inherited, and relative paths, once its clone is known.
KnownChild(p, c) ==
    \A q \in Busy :
        LET d == line[q].call
        IN  (d.name = "clone" /\ d.child = p) =>
               /\ c.name \in FdCalls /\ Under(FdPath(p, c.fd)) =>
                     ChildFirst \/ Fdt(p)[c.fd] # Fdt(q)[c.fd]
               /\ c.name \notin {"rename", "unlink", "rmdir", "mkdir", "truncate", "chdir", "clone"}

\* Working directories are not moved, and not changed under another thread;
\* pwrite is not used on a descriptor that appends (Linux then appends).
Plain(p, c) ==
    /\ c.name \in {"chdir", "execve"} => Peers(p) = {}
    /\ c.name \in {"rename", "rmdir"} =>
          LET from == KPath(p, IF c.name = "rename" THEN c.from ELSE c.path)
          IN  \A q \in Pids : task[q] # NoPid =>
                 LET dir == NameOf(kcwd[task[q]]) IN dir # from /\ ~Inside(from, dir)
    /\ c.name = "pwrite" => IsOpen(p, c.fd) /\ ~Desc(p, c.fd).append

\* The next call of a program; it may also fail, and then changes nothing.
Call(p) ==
    /\ task[p] # NoPid /\ line[p] = NoLine
    /\ at[p] < Len(program[p])
    /\ at' = [at EXCEPT ![p] = @ + 1]
    /\ UNCHANGED program
    /\ \/ \E c \in program[p][at[p] + 1] :
             Independent(p, c) /\ KnownChild(p, c) /\ Plain(p, c) /\ SystemCall(p, c)
       \/ UNCHANGED <<task, fdt, desc, kcwd, real, synced, line>>
=============================================================================
