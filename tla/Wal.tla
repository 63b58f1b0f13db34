-------------------------------- MODULE Wal --------------------------------
(***************************************************************************)
(* The example log (examples/wal.rs), from its first put through any       *)
(* number of crashes and repairs: its workload and its repair are compiled *)
(* op by op, a crash takes any state that close allows, and the next       *)
(* repair reads what is left.                                              *)
(*                                                                         *)
(* A record is a length byte, with Fixed a checksum byte, and a payload of *)
(* two bytes; blocks of one byte tear it everywhere (MCWal).               *)
(***************************************************************************)
EXTENDS CrashStates

CONSTANTS
    Fixed,      \* workload(true): checksums, and the directory is synced
    Safe        \* repair(_, true): truncate, do not rewrite

ASSUME WalAssumption == Fixed \in BOOLEAN /\ Safe \in BOOLEAN

PUTS == 3
KvLog == <<1>>      \* kv.log

VARIABLES
    todo,       \* the ops that are still to come
    repairing,  \* a crash has happened: repair is running, or done
    acked       \* the marks of the first crash

walVars == <<vars, todo, repairing, acked>>

value(i) == <<10 + i, 20 + i>>

\* As good as a checksum: no other payload, zeros included, has the same.
crc(payload) == 1000 + 50 * payload[1] + payload[2]

encode(payload) ==
    <<Len(payload)>> \o (IF Fixed THEN <<crc(payload)>> ELSE <<>>) \o payload
header == IF Fixed THEN 2 ELSE 1

Payload(log, at) == SubSeq(log, at + header + 1, at + header + log[at + 1])
Intact(log, at) == ~Fixed \/ crc(Payload(log, at)) = log[at + 2]

\* read_log: the records up to the first that is not all there, and where it is.
read_log(log) ==
    LET read[at \in 0..Len(log)] ==
            IF /\ Len(log) - at >= header
               /\ log[at + 1] # 0
               /\ Len(log) - at >= header + log[at + 1]
               /\ Intact(log, at)
            THEN LET rest == read[at + header + log[at + 1]]
                 IN  [records |-> <<Payload(log, at)>> \o rest.records, valid |-> rest.valid]
            ELSE [records |-> <<>>, valid |-> at]
    IN  read[0]

\* fs::read(..).unwrap_or_default()
LogIn(tree) == IF KvLog \in DOMAIN tree THEN tree[KvLog].data ELSE <<>>

\* What the Recorder logs for one put.
Put(i) ==
    <<[op |-> "write", path |-> KvLog, offset |-> i * (header + 2), data |-> encode(value(i))],
      [op |-> "fsync", path |-> KvLog],
      [op |-> "mark"]>>

\* The log is created, and its entry made durable once.
Opened ==
    <<[op |-> "create", path |-> KvLog]>> \o
    (IF Fixed THEN <<[op |-> "fsync", path |-> <<>>]>> ELSE <<>>)

workload ==
    LET puts[i \in 0..PUTS] == IF i = 0 THEN Opened ELSE puts[i-1] \o Put(i - 1)
    IN  puts[PUTS]

Truncation(log, valid) ==
    <<[op |-> "truncate", path |-> KvLog, len |-> valid], [op |-> "fsync", path |-> KvLog]>>

Rewriting(log, valid) ==
    <<[op |-> "truncate", path |-> KvLog, len |-> 0],
      [op |-> "write", path |-> KvLog, offset |-> 0, data |-> SubSeq(log, 1, valid)],
      [op |-> "fsync", path |-> KvLog]>>

\* Faulty variant: a log without any valid record is left as it is.
IsTornAfterRecord(log, valid) == 0 < valid /\ valid < Len(log)
IsTorn(log, valid) == valid < Len(log)

\* Faulty variant: the log is rewritten without its torn tail.
CutRewriting(log, valid) == Rewriting(log, valid)
Cut(log, valid) == IF Safe THEN Truncation(log, valid) ELSE Rewriting(log, valid)

\* What repair does to the directory it finds.
repair(tree) ==
    LET log   == LogIn(tree)
        valid == read_log(log).valid
    IN  IF IsTorn(log, valid) THEN Cut(log, valid) ELSE <<>>

-----------------------------------------------------------------------------

WalInit ==
    /\ Init
    /\ todo = workload
    /\ repairing = FALSE
    /\ acked = 0

Op ==
    /\ todo # <<>>
    /\ CompileOp(todo[1])
    /\ todo' = Tail(todo)
    /\ UNCHANGED <<repairing, acked>>

\* The power goes out and repair starts on what is left, with a trace of its
\* own.  The marks to verify against stay those of the first crash.
PowerCut ==
    /\ \E s \in CrashSets :
          LET found == Materialize(Program, s)
          IN  base' = FromTree(found) /\ v' = base' /\ todo' = repair(found)
    /\ micro' = <<>> /\ op_end' = <<0>> /\ marks_before' = <<0>>
    /\ pending_data' = {} /\ pending_dir' = {} /\ pending_meta' = {}
    /\ repairing' = TRUE
    /\ acked' = IF repairing THEN acked ELSE Marks
    /\ UNCHANGED <<profile, failed>>

WalNext == Op \/ PowerCut

WalSpec == WalInit /\ [][WalNext]_walVars

-----------------------------------------------------------------------------
(* Properties *)

\* The marks a state is verified against.
Acknowledged == IF repairing THEN acked ELSE Marks

\* checker: a prefix of the puts with every acknowledged one.
Accepts(tree) ==
    LET got == read_log(LogIn(tree)).records
    IN  /\ Len(got) >= Acknowledged
        /\ Len(got) <= PUTS /\ \A i \in DOMAIN got : got[i] = value(i - 1)

\* The fixed log passes in every crash state of its workload, and of its repair
\* after any number of crashes: a torn put, a lost entry and a crash in the
\* middle of a repair included (wal.rs: "only the truncate survives a second
\* crash *during* recovery").
EveryCrashIsAccepted == \A s \in CrashSets : Accepts(Materialize(Program, s))

\* A finished repair left the valid records and no tail, so that new appends
\* will be read (wal.rs: "Recovery must cut a torn tail off before new appends").
RepairCutsTail ==
    (repairing /\ todo = <<>>) =>
        LET log == LogIn(ToTree(v)) IN ~failed /\ read_log(log).valid = Len(log)
=============================================================================
