---------------------------- MODULE WorkerProofs ----------------------------
(***************************************************************************)
(* Whatever the crash states are, and whatever the commands before left in *)
(* the directory, the next command starts on exactly its crash state, and  *)
(* sync_to never fails on the way (Worker), provided that no killed        *)
(* command leaves processes behind.                                        *)
(*                                                                         *)
(* The invariant says what the directory is while sync_to is at work.  In  *)
(* the loop that removes, it is the snapshot without the entries that have *)
(* been visited and are not kept; in the loop that creates, it is the      *)
(* state where that loop has been, and the kept entries elsewhere.  An     *)
(* entry below one that is removed is never a kept one, for then the state *)
(* would have a directory there.                                           *)
(***************************************************************************)
EXTENDS Worker, TLAPS

Keep == {p \in DOMAIN current : Kept(p)}

Removing ==
    /\ WellFormed(current)
    /\ left \subseteq DOMAIN current
    /\ dir = [p \in left \cup Keep |-> current[p]]

Creating ==
    /\ WellFormed(current)
    /\ left \subseteq DOMAIN want
    /\ \A p \in DOMAIN want \ left : Above(p) \cap left = {}
    /\ dir = [p \in (DOMAIN want \ left) \cup Keep |-> IF p \in left THEN current[p] ELSE want[p]]

\* The inductive invariant.
WorkerInv ==
    /\ want \in Trees
    /\ survivors = FALSE
    /\ pc \in {"load", "remove", "create", "poll", "elapsed", "judged"}
    /\ child = "running" => pc \in {"poll", "elapsed"}
    /\ pc \in {"load", "poll", "elapsed", "judged"} => WellFormed(dir)
    /\ pc \in {"poll", "elapsed", "judged"} => given = want
    /\ pc = "remove" => Removing
    /\ pc = "create" => Creating

-----------------------------------------------------------------------------
(* The initial states and the loops of sync_to *)

\* The crash states of the assumption are well formed, and so is the wanted one.
LEMMA WantIsWellFormed ==
    ASSUME want \in Trees
    PROVE  WellFormed(want)
  BY WorkerAssumption

\* No entry that is kept lies below one that is not.
LEMMA NothingKeptBelow ==
    ASSUME WellFormed(want), NEW p \in DOMAIN current, ~Kept(p), current[p].kind = "dir",
           NEW q \in Keep
    PROVE  p \notin Above(q)
<1>1. q \in DOMAIN want
  BY DEF Keep, Kept
<1>2. SUFFICES ASSUME p \in Above(q) PROVE FALSE
  OBVIOUS
<1>3. p \in DOMAIN want /\ want[p].kind = "dir"
  BY <1>1, <1>2 DEF WellFormed, IsDirIn
<1>4. QED
  BY <1>3 DEF Kept

\* The invariant holds at first.
LEMMA InitWorkerInv ==
    ASSUME ~Forks, WorkerInit
    PROVE  WorkerInv
<1>1. WellFormed(EmptyTree)
  BY DEF WellFormed, EmptyTree
<1>2. QED
  BY <1>1 DEF WorkerInit, WorkerInv

\* The snapshot is the directory, before anything is visited.
LEMMA LoadKeepsInv ==
    ASSUME WorkerInv, Load
    PROVE  WorkerInv'
<1>1. WellFormed(dir)
  BY DEF WorkerInv, Load
<1>2. Keep' \subseteq DOMAIN dir
  BY DEF Load, Keep
<1>3. dir = [p \in DOMAIN dir |-> dir[p]]
  BY <1>1 DEF WellFormed
<1>4. dir' = [p \in left' \cup Keep' |-> current'[p]]
  BY <1>2, <1>3 DEF Load
<1>5. WellFormed(current')
  BY <1>1 DEF Load
<1>6. Removing'
  BY <1>4, <1>5 DEF Load, Removing
<1>7. QED
  BY <1>6 DEF WorkerInv, Load, running

\* One entry of the snapshot is visited: it stays, or goes with nothing below.
LEMMA RemoveKeepsInv ==
    ASSUME WorkerInv, Remove
    PROVE  WorkerInv'
<1>1. Removing /\ want \in Trees /\ pc = "remove"
  BY DEF WorkerInv, Remove
<1>2. WellFormed(want)
  BY <1>1, WantIsWellFormed
<1>3. PICK p \in LastOf(left) :
         /\ left' = left \ {p}
         /\ \/ Kept(p) /\ UNCHANGED <<dir, pc>>
            \/ ~Kept(p) /\ current[p].kind = "dir" /\ RemoveAll(p)
            \/ ~Kept(p) /\ current[p].kind = "file" /\ RemoveFile(p)
  BY DEF Remove
<1>4. p \in left /\ p \in DOMAIN current /\ \A q \in left : p \notin Above(q)
  BY <1>1, <1>3 DEF LastOf, Removing
<1>5. Keep' = Keep /\ current' = current /\ want' = want
  BY DEF Remove, Keep, Kept
<1>6. DOMAIN dir = left \cup Keep /\ \A q \in left \cup Keep : dir[q] = current[q]
  BY <1>1 DEF Removing
<1>7. pc' = pc /\ dir' = [q \in left' \cup Keep |-> current[q]]
  <2>1. CASE Kept(p)
    <3>1. left' \cup Keep = left \cup Keep
      BY <1>3, <1>4, <2>1 DEF Keep
    <3>2. QED
      BY <1>1, <1>3, <2>1, <3>1 DEF Removing
  <2>2. CASE ~Kept(p) /\ current[p].kind = "dir" /\ RemoveAll(p)
    <3>1. p \in DOMAIN dir /\ IsDirIn(dir, p)
      BY <1>4, <1>6, <2>2 DEF IsDirIn
    <3>2. Below(dir, p) = {}
      BY <1>2, <1>4, <1>6, <2>2, NothingKeptBelow DEF Below
    <3>3. p \notin Keep
      BY <2>2 DEF Keep
    <3>4. DOMAIN dir \ ({p} \cup Below(dir, p)) = left' \cup Keep
      BY <1>3, <1>4, <1>6, <3>2, <3>3
    <3>5. pc' = pc /\ dir' = Without(dir, {p} \cup Below(dir, p))
      BY <2>2, <3>1 DEF RemoveAll
    <3>6. dir' = [q \in left' \cup Keep |-> dir[q]]
      BY <3>4, <3>5 DEF Without
    <3>7. \A q \in left' \cup Keep : dir[q] = current[q]
      BY <1>3, <1>6
    <3>8. QED
      BY <3>5, <3>6, <3>7
  <2>3. CASE ~Kept(p) /\ current[p].kind = "file" /\ RemoveFile(p)
    <3>1. p \in DOMAIN dir /\ ~IsDirIn(dir, p)
      BY <1>4, <1>6, <2>3 DEF IsDirIn
    <3>2. p \notin Keep
      BY <2>3 DEF Keep
    <3>3. DOMAIN dir \ {p} = left' \cup Keep
      BY <1>3, <1>4, <1>6, <3>2
    <3>4. pc' = pc /\ dir' = Without(dir, {p})
      BY <2>3, <3>1 DEF RemoveFile
    <3>5. dir' = [q \in left' \cup Keep |-> dir[q]]
      BY <3>3, <3>4 DEF Without
    <3>6. \A q \in left' \cup Keep : dir[q] = current[q]
      BY <1>3, <1>6
    <3>7. QED
      BY <3>4, <3>5, <3>6
  <2>4. QED
    BY <1>3, <2>1, <2>2, <2>3
<1>8. WellFormed(current') /\ left' \subseteq DOMAIN current'
  BY <1>1, <1>3, <1>5 DEF Removing
<1>9. Removing'
  BY <1>5, <1>7, <1>8 DEF Removing
<1>10. QED
  BY <1>1, <1>7, <1>9 DEF WorkerInv, Remove, running

\* Between the loops only kept entries are left.
LEMMA RemovedKeepsInv ==
    ASSUME WorkerInv, Removed
    PROVE  WorkerInv'
<1>1. Removing /\ left = {} /\ left' = DOMAIN want
  BY DEF WorkerInv, Removed
<1>2. Keep' = Keep /\ current' = current /\ want' = want /\ dir' = dir
  BY DEF Removed, Keep, Kept
<1>3. Keep \subseteq DOMAIN want
  BY DEF Keep, Kept
<1>4. dir = [p \in Keep |-> current[p]]
  BY <1>1 DEF Removing
<1>5. dir = [p \in (DOMAIN want \ left') \cup Keep |-> IF p \in left' THEN current[p] ELSE want[p]]
  BY <1>1, <1>3, <1>4
<1>6. WellFormed(current')
  BY <1>1, <1>2 DEF Removing
<1>7. Creating'
  BY <1>1, <1>2, <1>5, <1>6 DEF Creating
<1>8. QED
  BY <1>7 DEF WorkerInv, Removed, running

\* One path of the state is visited: after it the directory has it.
LEMMA CreateKeepsInv ==
    ASSUME WorkerInv, Create
    PROVE  WorkerInv'
<1>1. Creating /\ want \in Trees /\ pc = "create"
  BY DEF WorkerInv, Create
<1>2. WellFormed(want) /\ WellFormed(current)
  BY <1>1, WantIsWellFormed DEF Creating
<1>3. PICK p \in FirstOf(left) :
         /\ left' = left \ {p}
         /\ \/ UpToDate(p) /\ UNCHANGED <<dir, pc>>
            \/ ~UpToDate(p) /\ want[p].kind = "dir" /\ CreateDirAll(p)
            \/ ~UpToDate(p) /\ want[p].kind = "file" /\ WriteFile(p, want[p])
  BY DEF Create
<1>4. p \in left /\ p \in DOMAIN want /\ Above(p) \cap left = {}
  BY <1>1, <1>3 DEF FirstOf, Creating
<1>5. Keep' = Keep /\ current' = current /\ want' = want
  BY DEF Create, Keep, Kept
<1>6. /\ DOMAIN dir = (DOMAIN want \ left) \cup Keep
      /\ \A q \in DOMAIN dir : dir[q] = IF q \in left THEN current[q] ELSE want[q]
  BY <1>1 DEF Creating
<1>7. \A q \in Above(p) : q \in DOMAIN dir /\ dir[q] = want[q] /\ IsDirIn(want, q)
  <2>1. \A q \in Above(p) : IsDirIn(want, q)
    BY <1>2, <1>4 DEF WellFormed
  <2>2. \A q \in Above(p) : q \in DOMAIN want /\ q \notin left
    BY <1>4, <2>1 DEF IsDirIn
  <2>3. QED
    BY <1>6, <2>1, <2>2
<1>8. \A q \in Above(p) : IsDirIn(dir, q)
  BY <1>7 DEF IsDirIn
<1>9. p \in DOMAIN dir => p \in Keep
  BY <1>4, <1>6
<1>10. want[p] = DirEntry \/ want[p].kind = "file"
  BY <1>2, <1>4 DEF WellFormed
<1>11. p \in DOMAIN current => current[p] = DirEntry \/ current[p].kind = "file"
  BY <1>2 DEF WellFormed
<1>12. (DOMAIN want \ left') \cup Keep = DOMAIN dir \cup {p}
  BY <1>3, <1>4, <1>6
<1>13. \A q \in DOMAIN dir \ {p} : dir[q] = IF q \in left' THEN current[q] ELSE want[q]
  BY <1>3, <1>6
<1>14. p \notin left'
  BY <1>3
<1>15. /\ pc' = pc
       /\ dir' = [q \in (DOMAIN want \ left') \cup Keep |-> IF q \in left' THEN current[q] ELSE want[q]]
  <2>1. CASE UpToDate(p)
    <3>1. p \in DOMAIN current /\ current[p] = want[p]
      BY <1>10, <1>11, <2>1 DEF UpToDate, DirEntry
    <3>2. p \in Keep
      BY <1>4, <3>1 DEF Keep, Kept
    <3>3. DOMAIN dir = (DOMAIN want \ left') \cup Keep /\ dir[p] = want[p]
      BY <1>4, <1>6, <1>12, <3>1, <3>2
    <3>4. dir = [q \in DOMAIN dir |-> dir[q]]
      BY <1>1 DEF Creating
    <3>5. \A q \in DOMAIN dir : dir[q] = IF q \in left' THEN current[q] ELSE want[q]
      BY <1>13, <1>14, <3>3
    <3>6. QED
      BY <1>3, <2>1, <3>3, <3>4, <3>5
  <2>2. CASE ~UpToDate(p) /\ want[p].kind = "dir" /\ CreateDirAll(p)
    <3>1. p \notin DOMAIN dir
      BY <1>4, <1>9, <2>2 DEF Keep, Kept, UpToDate
    <3>2. \A q \in ({p} \cup Above(p)) \cap DOMAIN dir : IsDirIn(dir, q)
      BY <1>8, <3>1
    <3>3. DOMAIN dir \cup ({p} \cup Above(p)) = (DOMAIN want \ left') \cup Keep
      BY <1>7, <1>12
    <3>4. /\ pc' = pc
          /\ dir' = [q \in DOMAIN dir \cup ({p} \cup Above(p)) |-> IF q \in DOMAIN dir THEN dir[q] ELSE DirEntry]
      BY <2>2, <3>2 DEF CreateDirAll
    <3>5. want[p] = DirEntry
      BY <1>10, <2>2
    <3>6. \A q \in DOMAIN dir \cup {p} :
             (IF q \in DOMAIN dir THEN dir[q] ELSE DirEntry) = IF q \in left' THEN current[q] ELSE want[q]
      BY <1>13, <1>14, <3>1, <3>5
    <3>7. QED
      BY <1>12, <3>3, <3>4, <3>6
  <2>3. CASE ~UpToDate(p) /\ want[p].kind = "file" /\ WriteFile(p, want[p])
    <3>1. ~IsDirIn(dir, p)
      BY <1>4, <1>6, <1>9, <2>3 DEF Keep, Kept, IsDirIn
    <3>2. /\ pc' = pc
          /\ dir' = [q \in DOMAIN dir \cup {p} |-> IF q = p THEN want[p] ELSE dir[q]]
      BY <1>8, <2>3, <3>1 DEF WriteFile
    <3>3. \A q \in DOMAIN dir \cup {p} :
             (IF q = p THEN want[p] ELSE dir[q]) = IF q \in left' THEN current[q] ELSE want[q]
      BY <1>13, <1>14
    <3>4. QED
      BY <1>12, <3>2, <3>3
  <2>4. QED
    BY <1>3, <2>1, <2>2, <2>3
<1>16. \A q \in DOMAIN want \ left' : Above(q) \cap left' = {}
  <2>1. \A q \in DOMAIN want \ left : Above(q) \cap left = {}
    BY <1>1 DEF Creating
  <2>2. QED
    BY <1>3, <1>4, <2>1
<1>17. Creating'
  BY <1>1, <1>3, <1>5, <1>15, <1>16 DEF Creating
<1>18. QED
  BY <1>1, <1>15, <1>17 DEF WorkerInv, Create, running

-----------------------------------------------------------------------------
(* run_checker and the command *)

\* When the loops are done the directory is the state.
LEMMA SpawnKeepsInv ==
    ASSUME WorkerInv, Spawn
    PROVE  WorkerInv'
<1>1. Creating /\ left = {} /\ WellFormed(want)
  BY WantIsWellFormed DEF WorkerInv, Spawn
<1>2. (DOMAIN want \ left) \cup Keep = DOMAIN want
  BY <1>1 DEF Keep, Kept
<1>3. dir = [p \in DOMAIN want |-> want[p]]
  BY <1>1, <1>2 DEF Creating
<1>4. dir = want
  BY <1>1, <1>3 DEF WellFormed
<1>5. QED
  BY <1>1, <1>4 DEF WorkerInv, Spawn

\* The rest of run_checker, the command and time do not touch what the
\* invariant says, and what a command leaves is a directory again.
LEMMA RunKeepsInv ==
    ASSUME WorkerInv, ~Forks, TryWait \/ Elapsed \/ NextJob \/ Modify \/ Exit \/ Tick
    PROVE  WorkerInv'
<1>1. CASE TryWait
  BY <1>1 DEF WorkerInv, TryWait, syncing
<1>2. CASE Elapsed
  BY <1>2 DEF WorkerInv, Elapsed, Leaves, syncing
<1>3. CASE NextJob
  BY <1>3 DEF WorkerInv, NextJob, syncing
<1>4. CASE Modify
  <2>1. WellFormed(dir')
    BY <1>4, WorkerAssumption DEF Modify
  <2>2. QED
    BY <1>4, <2>1 DEF WorkerInv, Modify, syncing, running
<1>5. CASE Exit
  <2>1. pc \in {"poll", "elapsed"} /\ pc' = pc /\ dir' = dir
    BY <1>5 DEF WorkerInv, Exit
  <2>2. QED
    BY <1>5, <2>1 DEF WorkerInv, Exit, syncing
<1>6. CASE Tick
  BY <1>6 DEF WorkerInv, Tick, syncing
<1>7. QED
  BY <1>1, <1>2, <1>3, <1>4, <1>5, <1>6

\* The invariant is inductive.
LEMMA NextWorkerInv ==
    ASSUME WorkerInv, ~Forks, [WorkerNext]_workerVars
    PROVE  WorkerInv'
<1>1. CASE SyncStep
  BY <1>1, LoadKeepsInv, RemoveKeepsInv, RemovedKeepsInv, CreateKeepsInv DEF SyncStep
<1>2. CASE Spawn
  BY <1>2, SpawnKeepsInv
<1>3. CASE TryWait \/ Elapsed \/ NextJob \/ Modify \/ Exit \/ Tick
  BY <1>3, RunKeepsInv
<1>4. CASE UNCHANGED workerVars
  BY <1>4 DEF WorkerInv, Removing, Creating, Keep, Kept, workerVars, syncing, running
<1>5. QED
  BY <1>1, <1>2, <1>3, <1>4 DEF WorkerNext, RunStep

-----------------------------------------------------------------------------
(* The theorems *)

\* Every command starts on exactly its crash state, for every set of states,
\* whatever any command before it did to the directory (sync_to, run_checker).
THEOREM EveryStateIsExact ==
    ASSUME ~Forks
    PROVE  WorkerSpec => []StateIsExact
<1>1. WorkerInv => StateIsExact
  BY DEF WorkerInv, StateIsExact
<1>2. QED
  BY InitWorkerInv, NextWorkerInv, <1>1, PTL DEF WorkerSpec

\* sync_to comes to the end of its loops: it never removes what is gone and
\* never creates under a path that is missing or a file.
THEOREM SyncAlwaysSucceeds ==
    ASSUME ~Forks
    PROVE  WorkerSpec => []SyncNeverFails
<1>1. WorkerInv => SyncNeverFails
  BY DEF WorkerInv, SyncNeverFails
<1>2. QED
  BY InitWorkerInv, NextWorkerInv, <1>1, PTL DEF WorkerSpec
=============================================================================
