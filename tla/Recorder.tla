------------------------------ MODULE Recorder ------------------------------
(***************************************************************************)
(* Recording in process (record.rs): threads call methods of one Recorder, *)
(* which does each operation for real and pushes an op on the shared log.  *)
(* The two are separate steps, between which other threads run.            *)
(*                                                                         *)
(* The log is compiled as it grows: pushing an op is CompileOp, so v is    *)
(* the directory as the log has it, and real the directory on disk.  Each  *)
(* thread has at most one RecFile; dropping one changes nothing else.      *)
(***************************************************************************)
EXTENDS Compile, Kernel

CONSTANTS
    Threads,        \* the threads of the program under test
    Calls,          \* the method calls they make
    OpenMayFail     \* creating or appending may fail (permissions, descriptors)

ASSUME RecorderAssumption == OpenMayFail \in BOOLEAN

\* Calls name files by paths, write bytes and set lengths (record.rs, Recorder).
ASSUME CallsAssumption ==
    \A c \in Calls :
        /\ c.name \in {"create", "append", "open", "create_dir", "remove_dir", "remove_file",
                      "sync_dir"} => c.path \in Seq(Names)
        /\ c.name = "rename" => c.from \in Seq(Names) /\ c.to \in Seq(Names)
        /\ c.name = "write" => c.data \in Seq(Nat)
        /\ c.name = "set_len" => c.len \in Nat
        /\ c.name = "seek" => c.pos \in Nat

VARIABLES
    real,       \* the directory on disk
    synced,     \* synced[i]: the content of file i when it was last synced
    file,       \* the RecFile of each thread
    doing       \* the call each thread is in

disk == <<real, synced>>
recorderVars == <<vars, disk, file, doing>>

NoFile == [path |-> <<>>, ino |-> NoIno, pos |-> 0, len |-> 0, append |-> FALSE]
NoOp == [op |-> "none"]
Idle == [at |-> "idle", call |-> [name |-> "none"], op |-> NoOp, then |-> NoFile]

\* A struct RecFile; ino is what its File refers to.
RecFile(path, ino, pos, len, append) ==
    [path |-> path, ino |-> ino, pos |-> pos, len |-> len, append |-> append]

RecorderInit ==
    /\ Init
    /\ real = base
    /\ synced = [i \in DOMAIN base |-> IF IsFile(base, i) THEN Content(base[i]) ELSE <<>>]
    /\ file = [t \in Threads |-> NoFile]
    /\ doing = [t \in Threads |-> Idle]

-----------------------------------------------------------------------------
(* How a program uses a Recorder *)

HandleCalls == {"write", "set_len", "sync", "seek"}
Busy == {t \in Threads : doing[t] # Idle}

\* The paths a call is about.
Uses(t, c) ==
    IF c.name \in HandleCalls THEN {file[t].path}
    ELSE IF c.name = "rename" THEN {c.from, c.to}
    ELSE IF c.name = "mark" THEN {}
    ELSE {c.path}

Conflict(P, Q) == \E p \in P, q \in Q : p = q \/ Inside(p, q) \/ Inside(q, p)

\* A handle whose path and length are still those of its file.
Current(f) ==
    /\ Lookup(real, f.path) = f.ino
    /\ f.append => f.len = real[f.ino].len

\* A program that orders conflicting calls, and neither writes through a handle
\* whose file was renamed ("not tracked", RecFile) nor appends to a file that
\* another handle changed.
Ordered(t, c) ==
    /\ \A u \in Busy : ~Conflict(Uses(t, c), Uses(u, doing[u].call))
    /\ c.name \in {"write", "set_len", "sync"} => Current(file[t])

\* A thread may start a call; every call logs at most one op.
MayStart(t, c) ==
    /\ doing[t] = Idle
    /\ ~failed /\ OpIndex + Cardinality(Busy) < MaxOps
    /\ Ordered(t, c)

-----------------------------------------------------------------------------
(* Calls that are done for real first and logged after *)

\* The real call succeeded: what is left is to log op and update the handle.
Performed(t, c, op, then) ==
    doing' = [doing EXCEPT ![t] = [at |-> "log", call |-> c, op |-> op, then |-> then]]

Rename1(t, c) ==
    /\ c.name = "rename" /\ CanMove(real, c.from, c.to)
    /\ real' = Moved(real, c.from, c.to)
    /\ Performed(t, c, [op |-> "rename", from |-> c.from, to |-> c.to], file[t])
    /\ UNCHANGED <<synced, file>>

RemoveFile(t, c) ==
    /\ c.name = "remove_file" /\ CanUnlink(real, c.path)
    /\ real' = Removed(real, c.path)
    /\ Performed(t, c, [op |-> "unlink", path |-> c.path], file[t])
    /\ UNCHANGED <<synced, file>>

RemoveDir(t, c) ==
    /\ c.name = "remove_dir" /\ CanRmdir(real, c.path)
    /\ real' = Removed(real, c.path)
    /\ Performed(t, c, [op |-> "rmdir", path |-> c.path], file[t])
    /\ UNCHANGED <<synced, file>>

CreateDir(t, c) ==
    /\ c.name = "create_dir" /\ CanMake(real, c.path)
    /\ real' = Made(real, c.path, EmptyDir)
    /\ synced' = Append(synced, <<>>)
    /\ Performed(t, c, [op |-> "mkdir", path |-> c.path], file[t])
    /\ UNCHANGED file

SyncDir(t, c) ==
    /\ c.name = "sync_dir" /\ IsDir(real, Lookup(real, c.path))
    /\ Performed(t, c, [op |-> "fsync", path |-> c.path], file[t])
    /\ UNCHANGED <<disk, file>>

\* Faulty variant: an append is logged where the last seek went.
OffsetOfPos(f) == f.pos

\* Where a write is logged.
Offset(f) == IF f.append THEN f.len ELSE f.pos

\* write: the kernel appends at the end of the file, whatever len says.
WriteFile(t, c) ==
    LET f    == file[t]
        at   == IF f.append THEN real[f.ino].len ELSE f.pos
        pos2 == Offset(f) + Len(c.data)
    IN  /\ c.name = "write" /\ f # NoFile
        /\ real' = Wrote(real, f.ino, at, c.data)
        /\ Performed(t, c,
             [op |-> "write", path |-> f.path, offset |-> Offset(f), data |-> c.data],
             [f EXCEPT !.pos = pos2, !.len = IF @ < pos2 THEN pos2 ELSE @])
        /\ UNCHANGED <<synced, file>>

SetLen1(t, c) ==
    LET f == file[t]
    IN  /\ c.name = "set_len" /\ f # NoFile
        /\ real' = Sized(real, f.ino, c.len)
        /\ Performed(t, c, [op |-> "truncate", path |-> f.path, len |-> c.len],
                     [f EXCEPT !.len = c.len])
        /\ UNCHANGED <<synced, file>>

\* Faulty variant: the barrier is logged and not done.
SyncedNothing(ino) == synced

SyncedNow(ino) == [synced EXCEPT ![ino] = Content(real[ino])]

\* sync_all and sync_data.
SyncFile(t, c) ==
    /\ c.name = "sync" /\ file[t] # NoFile
    /\ synced' = SyncedNow(file[t].ino)
    /\ Performed(t, c, [op |-> "fsync", path |-> file[t].path], file[t])
    /\ UNCHANGED <<real, file>>

\* The log is taken (its lock orders the threads) and the call returns.
LogAndReturn(t) ==
    /\ doing[t].at = "log"
    /\ CompileOp(doing[t].op)
    /\ file' = [file EXCEPT ![t] = doing[t].then]
    /\ doing' = [doing EXCEPT ![t] = Idle]
    /\ UNCHANGED disk

-----------------------------------------------------------------------------
(* create and append: logged first *)

\* What create logs: a truncation of what fs::metadata says is not empty (a
\* directory is not), nothing for an empty file, else a creation.
CreateOp(path) ==
    LET ino == Lookup(real, path)
    IN  IF ino = NoIno THEN [op |-> "create", path |-> path]
        ELSE IF IsDir(real, ino) \/ real[ino].len > 0
             THEN [op |-> "truncate", path |-> path, len |-> 0]
        ELSE NoOp

AppendOp(path) ==
    IF Lookup(real, path) = NoIno THEN [op |-> "create", path |-> path] ELSE NoOp

\* The check of the path that decides what to log.
Look(t, c) ==
    /\ c.name \in {"create", "append"}
    /\ LET op == IF c.name = "create" THEN CreateOp(c.path) ELSE AppendOp(c.path)
       IN  doing' = [doing EXCEPT ![t] =
                        [at |-> IF op = NoOp THEN "open" ELSE "log first",
                         call |-> c, op |-> op, then |-> NoFile]]
    /\ UNCHANGED <<disk, file>>

LogFirst(t) ==
    /\ doing[t].at = "log first"
    /\ CompileOp(doing[t].op)
    /\ doing' = [doing EXCEPT ![t].at = "open"]
    /\ UNCHANGED <<disk, file>>

\* File::create, or OpenOptions with append and create, after the log.
OpenAfterLog(t) ==
    LET c   == doing[t].call
        ino == Lookup(real, c.path)
        Opened(i, len) == file' = [file EXCEPT ![t] =
                                      IF c.name = "create" THEN RecFile(c.path, i, 0, 0, FALSE)
                                      ELSE RecFile(c.path, i, len, len, TRUE)]
    IN  /\ doing[t].at = "open"
        /\ \/ /\ IsFile(real, ino)
              /\ real' = IF c.name = "create" THEN Sized(real, ino, 0) ELSE real
              /\ Opened(ino, real[ino].len)
              /\ UNCHANGED synced
           \/ /\ CanMake(real, c.path)
              /\ real' = Made(real, c.path, EmptyFile)
              /\ synced' = Append(synced, <<>>)
              /\ Opened(Len(real) + 1, 0)
           \/ /\ OpenMayFail \/ ~(IsFile(real, ino) \/ CanMake(real, c.path))
              /\ UNCHANGED <<disk, file>>
        /\ doing' = [doing EXCEPT ![t] = Idle]
        /\ UNCHANGED vars

-----------------------------------------------------------------------------
(* Calls that log nothing, and marks *)

Open(t, c) ==
    LET ino == Lookup(real, c.path)
    IN  /\ c.name = "open" /\ IsFile(real, ino)
        /\ file' = [file EXCEPT ![t] = RecFile(c.path, ino, 0, real[ino].len, FALSE)]
        /\ UNCHANGED <<disk, doing>>

Seek(t, c) ==
    /\ c.name = "seek" /\ file[t] # NoFile
    /\ file' = [file EXCEPT ![t].pos = c.pos]
    /\ UNCHANGED <<disk, doing>>

MarkNow(t, c) ==
    /\ c.name = "mark"
    /\ CompileOp([op |-> "mark"])
    /\ UNCHANGED <<disk, file, doing>>

-----------------------------------------------------------------------------

Perform(t, c) ==
    \/ Rename1(t, c) \/ RemoveFile(t, c) \/ RemoveDir(t, c) \/ CreateDir(t, c)
    \/ SyncDir(t, c) \/ WriteFile(t, c) \/ SetLen1(t, c) \/ SyncFile(t, c)
    \/ Look(t, c) \/ Open(t, c) \/ Seek(t, c)

Start(t, c) ==
    /\ MayStart(t, c)
    /\ (Perform(t, c) /\ UNCHANGED vars) \/ MarkNow(t, c)

RecorderNext ==
    \E t \in Threads : (\E c \in Calls : Start(t, c)) \/ LogFirst(t) \/ OpenAfterLog(t) \/ LogAndReturn(t)

RecorderSpec == RecorderInit /\ [][RecorderNext]_recorderVars

-----------------------------------------------------------------------------
(* Properties *)

AtRest == Busy = {} /\ ~failed

\* Between calls, the log replayed on the snapshot is the directory on disk:
\* names, contents and lengths, although the log has paths and offsets of its
\* own making and other threads ran between doing and logging (Recorder: "it
\* both does them for real and logs them").
LogIsReal == AtRest => ToTree(v) = ToTree(real)

\* No write is of no bytes: on disk it changes nothing, but compile takes the one
\* that is logged past the end for a change of the size (model.rs, end > len).
WritesSomething == \A c \in Calls : c.name = "write" => c.data # <<>>

\* The data micro-ops of an inode, as the log has it.
DataOf(ino) == {j \in DOMAIN micro : IsData(micro[j].m) /\ micro[j].m.ino = ino}

\* What the log says is durable was synced on disk: when no data of a file is
\* in flight, its content is that of its last real sync (sync_all, sync_data).
DurableWasSynced ==
    AtRest =>
        \A p \in DOMAIN ToTree(v) :
            LET ino == Lookup(v, p)
            IN  (IsFile(v, ino) /\ \A j \in DataOf(ino) : micro[j].durable_at # NEVER) =>
                   Content(v[ino]) = synced[Lookup(real, p)]
=============================================================================
