------------------------------- MODULE Worker -------------------------------
(***************************************************************************)
(* One worker's directory over many crash states: Tree::sync_to rewrites   *)
(* it from whatever the last checker left to the next state (trace.rs),    *)
(* and run_checker runs the user's command on it, polling until the        *)
(* command has exited or its time is over (main.rs).                       *)
(*                                                                         *)
(* A tree is a map from paths to entries.  sync_to goes through a BTreeMap *)
(* of strings: a directory comes before what is in it, and how two other   *)
(* paths compare depends on their names, so any such order is allowed.     *)
(***************************************************************************)
EXTENDS Naturals, Sequences

CONSTANTS
    Trees,      \* the crash states, and the directories a checker may leave
    Forks       \* a killed command may leave processes behind that go on writing

DirEntry == [kind |-> "dir", data |-> <<>>]
FileEntry(data) == [kind |-> "file", data |-> data]

\* The directories a path is in, the root left out.
Above(p) == {SubSeq(p, 1, k) : k \in 1..(Len(p) - 1)}

IsDirIn(t, p) == p \in DOMAIN t /\ t[p].kind = "dir"

WellFormed(t) ==
    /\ t = [p \in DOMAIN t |-> t[p]]
    /\ \A p \in DOMAIN t :
          /\ t[p] = DirEntry \/ t[p].kind = "file"
          /\ \A q \in Above(p) : IsDirIn(t, q)

ASSUME WorkerAssumption ==
    /\ Forks \in BOOLEAN
    /\ \A t \in Trees : WellFormed(t)

VARIABLES
    want,       \* the crash state of the job
    dir,        \* what the worker's directory holds
    current,    \* the snapshot sync_to loaded
    left,       \* the paths its loop has not come to
    pc,         \* where the worker is
    given,      \* what the directory held when the command was spawned
    child,      \* the command: none, running, how it exited, or killed
    late,       \* the command's time is over
    verdict,    \* what run_checker returned
    survivors   \* processes of earlier commands are still there

syncing == <<current, left>>
running == <<child, late, verdict>>
workerVars == <<want, dir, syncing, pc, given, running, survivors>>

EmptyTree == [p \in {} |-> DirEntry]

WorkerInit ==
    /\ want \in Trees
    /\ dir = EmptyTree /\ current = EmptyTree /\ given = EmptyTree
    /\ left = {}
    /\ pc = "load"
    /\ child = "none" /\ late = FALSE /\ verdict = "none"
    /\ survivors = FALSE

\* An error of the file system: sync_to returns it, and check ends.
IoError == pc' = "failed" /\ UNCHANGED dir

-----------------------------------------------------------------------------
(* sync_to *)

Load ==
    /\ pc = "load"
    /\ current' = dir
    /\ left' = DOMAIN dir
    /\ pc' = "remove"
    /\ UNCHANGED <<want, dir, given, running, survivors>>

Without(t, S) == [q \in DOMAIN t \ S |-> t[q]]
Below(t, p) == {q \in DOMAIN t : p \in Above(q)}

\* Faulty variant: the loop goes forward, parents first.
LastOfFirst(S) == {p \in S : Above(p) \cap S = {}}

\* Where a walk through the map backwards may be: what is in a directory
\* comes before the directory.
LastOf(S) == {p \in S : \A q \in S : p \notin Above(q)}

\* An entry of the snapshot stays if the state has one of the same kind there.
Kept(p) == p \in DOMAIN want /\ want[p].kind = current[p].kind

\* remove_dir_all and remove_file.
RemoveAll(p) ==
    IF IsDirIn(dir, p) THEN dir' = Without(dir, {p} \cup Below(dir, p)) /\ UNCHANGED pc
    ELSE IoError
RemoveFile(p) ==
    IF p \in DOMAIN dir /\ ~IsDirIn(dir, p) THEN dir' = Without(dir, {p}) /\ UNCHANGED pc
    ELSE IoError

Remove ==
    /\ pc = "remove"
    /\ \E p \in LastOf(left) :
          /\ left' = left \ {p}
          /\ \/ Kept(p) /\ UNCHANGED <<dir, pc>>
             \/ ~Kept(p) /\ current[p].kind = "dir" /\ RemoveAll(p)
             \/ ~Kept(p) /\ current[p].kind = "file" /\ RemoveFile(p)
    /\ UNCHANGED <<want, current, given, running, survivors>>

\* create_dir_all of the worker's own directory: it exists by now.
Removed ==
    /\ pc = "remove" /\ left = {}
    /\ left' = DOMAIN want
    /\ pc' = "create"
    /\ UNCHANGED <<want, dir, current, given, running, survivors>>

FirstOf(S) == {p \in S : Above(p) \cap S = {}}

\* create_dir_all: also the directories above that are missing.
CreateDirAll(p) ==
    LET path == {p} \cup Above(p)
    IN  IF \A q \in path \cap DOMAIN dir : IsDirIn(dir, q)
        THEN dir' = [q \in DOMAIN dir \cup path |-> IF q \in DOMAIN dir THEN dir[q] ELSE DirEntry]
             /\ UNCHANGED pc
        ELSE IoError

\* fs::write: create or replace a file in an existing directory.
WriteFile(p, entry) ==
    IF (\A q \in Above(p) : IsDirIn(dir, q)) /\ ~IsDirIn(dir, p)
    THEN dir' = [q \in DOMAIN dir \cup {p} |-> IF q = p THEN entry ELSE dir[q]] /\ UNCHANGED pc
    ELSE IoError

\* Faulty variant: a file that is there is taken to be the same.
UpToDateByKind(p) == p \in DOMAIN current /\ current[p].kind = want[p].kind

\* Nothing to do: the snapshot had the directory, or the same content.
UpToDate(p) ==
    p \in DOMAIN current /\ IF want[p].kind = "dir" THEN current[p].kind = "dir"
                            ELSE current[p] = want[p]

Create ==
    /\ pc = "create"
    /\ \E p \in FirstOf(left) :
          /\ left' = left \ {p}
          /\ \/ UpToDate(p) /\ UNCHANGED <<dir, pc>>
             \/ ~UpToDate(p) /\ want[p].kind = "dir" /\ CreateDirAll(p)
             \/ ~UpToDate(p) /\ want[p].kind = "file" /\ WriteFile(p, want[p])
    /\ UNCHANGED <<want, current, given, running, survivors>>

-----------------------------------------------------------------------------
(* run_checker *)

\* sync_to is done: the marks and an empty log are written and the command starts.
Spawn ==
    /\ pc = "create" /\ left = {}
    /\ current' = EmptyTree
    /\ given' = dir
    /\ child' = "running" /\ late' = FALSE /\ verdict' = "none"
    /\ pc' = "poll"
    /\ UNCHANGED <<want, dir, left, survivors>>

\* try_wait: the command has exited, with success or not.
TryWait ==
    /\ pc = "poll"
    /\ \/ child = "running" /\ pc' = "elapsed" /\ UNCHANGED verdict
       \/ child # "running" /\ pc' = "judged" /\ verdict' = child
    /\ UNCHANGED <<want, dir, syncing, given, child, late, survivors>>

\* Only the shell is killed: processes it started may outlive it.
Leaves == survivors' \in (IF Forks THEN {survivors, TRUE} ELSE {survivors})

\* Faulty variant: the start of the command is taken again in the loop.
ElapsedRestarted ==
    /\ pc = "elapsed" /\ pc' = "poll" /\ late' = FALSE
    /\ UNCHANGED <<want, dir, syncing, given, child, verdict, survivors>>

\* The time is compared: sleep and poll again, or kill the shell and wait for it.
Elapsed ==
    /\ pc = "elapsed"
    /\ \/ ~late /\ pc' = "poll" /\ UNCHANGED <<child, verdict, survivors>>
       \/ /\ late
          /\ IF child = "running" THEN child' = "killed" /\ Leaves ELSE UNCHANGED <<child, survivors>>
          /\ verdict' = "timeout"
          /\ pc' = "judged"
    /\ UNCHANGED <<want, dir, syncing, given, late>>

\* run_checker returned; the thread takes another job.
NextJob ==
    /\ pc = "judged"
    /\ want' \in Trees
    /\ given' = EmptyTree /\ child' = "none" /\ late' = FALSE /\ verdict' = "none"
    /\ pc' = "load"
    /\ UNCHANGED <<dir, syncing, survivors>>

-----------------------------------------------------------------------------
(* The command (external): it may change its directory, exit, or never do. *)

Modify == child = "running" /\ dir' \in Trees /\ UNCHANGED <<want, syncing, pc, given, running, survivors>>

Exit ==
    /\ child = "running"
    /\ child' \in {"ok", "err"}
    /\ UNCHANGED <<want, dir, syncing, pc, given, late, verdict, survivors>>

\* Time passes.
Tick ==
    /\ pc \in {"poll", "elapsed"} /\ ~late
    /\ late' = TRUE
    /\ UNCHANGED <<want, dir, syncing, pc, given, child, verdict, survivors>>

\* A process that was left behind writes, or ends.
Survivor ==
    /\ survivors
    /\ \/ dir' \in Trees /\ UNCHANGED survivors
       \/ survivors' = FALSE /\ UNCHANGED dir
    /\ UNCHANGED <<want, syncing, pc, given, running>>

-----------------------------------------------------------------------------

SyncStep == Load \/ Remove \/ Removed \/ Create
RunStep == Spawn \/ TryWait \/ Elapsed \/ NextJob
WorkerNext == SyncStep \/ RunStep \/ Modify \/ Exit \/ Tick

\* The worker's thread runs and time passes; nothing makes the command exit.
WorkerSpec ==
    /\ WorkerInit /\ [][WorkerNext]_workerVars
    /\ WF_workerVars(SyncStep) /\ WF_workerVars(RunStep) /\ WF_workerVars(Tick)

\* The same with processes that outlive a killed command.
ForkingSpec == WorkerInit /\ [][WorkerNext \/ Survivor]_workerVars

-----------------------------------------------------------------------------
(* Properties *)

\* The command starts on exactly its crash state, whatever the commands before
\* it left behind, and stale entries, files where directories must be and
\* directories where files must be are no exception (sync_to: "Make `root`
\* hold exactly this tree").
StateIsExact == pc \in {"poll", "elapsed", "judged"} => given = want

\* sync_to never trips over what it did itself: it removes nothing that is gone
\* and creates nothing under a path that is missing or a file (sync_to's `?`).
SyncNeverFails == pc # "failed"

\* Every command comes to a verdict, also one that never exits (run_checker's
\* loop), and the next job gets its state.
JobsGetDone == /\ pc = "poll" ~> pc = "judged"
               /\ pc = "load" ~> pc \in {"poll", "failed"}
=============================================================================
